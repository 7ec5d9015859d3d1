---------------------------- MODULE MemoryPasses ----------------------------
(***************************************************************************)
(* The memory life cycle of a turn (autumn/core/framework.py,              *)
(* process_with_trace and stream_with_trace, with the passes of            *)
(* autumn/core/memory/base.py that it runs on Mom1).  When WP1 has written *)
(* the turn, the hooks run one after the other: annotate the newest entry, *)
(* distil turns into atomic facts, fold new turns into the profile,        *)
(* consolidate, and evolve rules.  Each hook reads the history to decide   *)
(* whether to fire, reads it again to collect its sources, awaits A4, and  *)
(* then writes.  Single operations of the area are atomic here, as         *)
(* MemoryArea implements AtomicHistory; consolidate, which holds the lock  *)
(* while it awaits A4, is one operation.  max_skills of evolve is taken to *)
(* be out of reach, and annotating the shared zone is left out.            *)
(***************************************************************************)
EXTENDS History

CONSTANTS
  Conversations,  \* clients, each sending one turn at a time
  Cancellable,    \* those that may disconnect during a turn
  Hooks,          \* the hooks the behaviour flags switch on
  FourD,          \* fourd_memory_enabled
  ExtractAt,      \* pending sources that make extraction fire
  ProfileAt, ConsolidateAt, EvolveAt,   \* lengths at which the others fire
  Window,         \* entries that fit extraction's prompt of max_chars
  ProfileWindow,  \* entries that fit the synthesis' prompt of max_chars
  MaxFacts,       \* bound: facts A4 distils from one window
  MinCount, MinCluster,   \* of evolve
  Intents,        \* aim.intent values A4 infers
  NoIntent,
  Forgets,        \* kinds a client forgets
  ModelMayFail,   \* whether A4 may fail or find nothing
  MaxTime         \* bound: entries and readings of the clock

HookNames == {"annotate", "extract", "profile", "consolidate", "evolve"}

ASSUME CancellableAssumption == Cancellable \subseteq Conversations
ASSUME HooksAssumption == Hooks \subseteq HookNames
ASSUME GatesAssumption == {ExtractAt, ProfileAt, ConsolidateAt, EvolveAt} \subseteq Nat \ {0}
ASSUME WindowAssumption == {Window, ProfileWindow} \subseteq Nat \ {0} /\ MaxFacts \in Nat
ASSUME ClusterAssumption == MinCount \in Nat /\ MinCluster \in Nat \ {0}
ASSUME IntentsAssumption == NoIntent \notin Intents
ASSUME ScopesAssumption == Scopes # {}
ASSUME SwitchesAssumption == FourD \in BOOLEAN /\ ModelMayFail \in BOOLEAN /\ MaxTime \in Nat

VARIABLES
  mom1,   \* Mom1's history
  intent, \* intent[i]: aim.intent of entry i
  from,   \* from[i]: meta["from"] of fact i
  time,   \* time.time(); ids are drawn from it
  at,     \* at[t]: the hook t's turn is in, or "idle"
  phase,  \* phase[t]: "gate", "read", "a4" or "store" in that hook
  job,    \* job[t]: what the pass has read and has left to write
  sourced, \* ghost: entries that were in the prompt of a profile
  excused \* ghost: sources that two extractions had read at one time, intents that
          \* two evolutions had; turns stored while a profile was being made, or
          \* left out of its prompt

area == <<mom1, intent, from>>
passVars == <<area, time, at, phase, job, sourced, excused>>

Ids == 1..MaxTime
Job == [src : SUBSET Ids, todo : SUBSET Intents, left : 0..MaxFacts, now : 0..MaxTime,
        requested : BOOLEAN]
NoJob == [src |-> {}, todo |-> {}, left |-> 0, now |-> 0, requested |-> FALSE]

NewEntry(kind, now) ==
  [ts |-> now, slot |-> 0, imp |-> IF kind = "case" THEN PinThreshold ELSE Normal,
   kind |-> kind, scope |-> NoScope, exp |-> NoExpiry, uses |-> 0]

OfKind(h, kind) == {i \in DOMAIN h : h[i].kind = kind}

(* The first k of the ids S in list order. *)
Oldest(h, S, k) == {i \in S : Cardinality({j \in S : i \in ListedAfter(h, j)}) < k}

----------------------------------------------------------------------------
(* What a pass works on. *)
Consumed(h) == UNION {from[f] : f \in OfKind(h, "fact")}
Derived(h) == OfKind(h, "fact") \cup OfKind(h, "summary") \cup OfKind(h, "case")

(* Mutant: facts are mined from every entry again. *)
AllRaw(h) == DOMAIN h \ Derived(h)

(* pending_fact_sources *)
Pending(h) == (DOMAIN h \ Derived(h)) \ Consumed(h)

Current(h) == ScopeProfiles(h, CHOOSE s \in Scopes : TRUE)

(* Mutant: the newest turn is left for the next synthesis. *)
DeltaButNewest(h) ==
  LET turns == DOMAIN h \ (Derived(h) \cup Profiles(h))
      new   == {i \in turns : \A p \in Current(h) : h[i].ts > h[p].ts}
  IN  Oldest(h, new, Cardinality(new) - 1)

Turns(h) == DOMAIN h \ (Derived(h) \cup Profiles(h))

(* synthesize_profile(only_new=True): turns newer than the profile. *)
Delta(h) == {i \in Turns(h) : \A p \in Current(h) : h[i].ts > h[p].ts}

Members(h, x) == {i \in DOMAIN h \ Derived(h) : intent[i] = x /\ h[i].uses >= MinCount}

(* Mutant: intents that have a rule are not skipped. *)
ClustersAgain(h) == {x \in Intents : Cardinality(Members(h, x)) >= MinCluster}

(* evolve: intents with enough proven members, and no rule yet. *)
Clusters(h) ==
  {x \in Intents : /\ Cardinality(Members(h, x)) >= MinCluster
                   /\ \A c \in OfKind(h, "case") : intent[c] # x}

Wanted(hook, h, requested) ==
  CASE hook = "annotate" -> {i \in DOMAIN h : ListedAfter(h, i) = {} /\ intent[i] = NoIntent}
    [] hook = "extract"  -> Pending(h)
    [] hook = "profile"  -> IF requested THEN Turns(h) ELSE Delta(h)
    [] hook = "evolve"   -> UNION {Members(h, x) : x \in Clusters(h)}

(* What of it fits the prompt. *)
Sources(hook, h, requested) ==
  CASE hook = "extract" -> Oldest(h, Wanted(hook, h, requested), Window)
    [] hook = "profile" -> Oldest(h, Wanted(hook, h, requested), ProfileWindow)
    [] OTHER            -> Wanted(hook, h, requested)

Due(hook, h) ==
  CASE hook = "annotate"    -> TRUE
    [] hook = "extract"     -> Cardinality(Pending(h)) >= ExtractAt
    [] hook = "profile"     -> Cardinality(DOMAIN h) >= ProfileAt
    [] hook = "consolidate" -> Cardinality(DOMAIN h) >= ConsolidateAt
    [] hook = "evolve"      -> Cardinality(DOMAIN h) >= EvolveAt

Following == [annotate |-> "extract", extract |-> "profile", profile |-> "consolidate",
              consolidate |-> "evolve", evolve |-> "idle"]

----------------------------------------------------------------------------
PassInit ==
  /\ mom1 = [i \in {} |-> 0]
  /\ intent = [i \in Ids |-> NoIntent] /\ from = [i \in Ids |-> {}]
  /\ time = 0
  /\ at = [t \in Conversations |-> "idle"]
  /\ phase = [t \in Conversations |-> "gate"]
  /\ job = [t \in Conversations |-> NoJob]
  /\ sourced = {} /\ excused = [sources |-> {}, intents |-> {}, turns |-> {}]

Tick == time < MaxTime /\ time' = time + 1

(* append_history of an entry with id time'. *)
Append(e) == mom1' = Appended(mom1, time', e, time', FourD)

Goto(t, p, j) ==
  /\ phase' = [phase EXCEPT ![t] = p]
  /\ job' = [job EXCEPT ![t] = j]
  /\ UNCHANGED at

(* On to the next hook, or out of the turn or the request. *)
Advance(t) ==
  /\ at' = [at EXCEPT ![t] = IF job[t].requested THEN "idle" ELSE Following[at[t]]]
  /\ phase' = [phase EXCEPT ![t] = "gate"]
  /\ job' = [job EXCEPT ![t] = NoJob]

(* The passes of a hook that have read and will write. *)
UnderWay(hook) == {u \in Conversations : at[u] = hook /\ phase[u] \in {"a4", "store"}}

(* WP1 has produced the answer and writes the turn to Mom1. *)
Turn(t) ==
  /\ at[t] = "idle"
  /\ Tick
  /\ Append(NewEntry("turn", time'))
  /\ excused' = IF UnderWay("profile") = {} THEN excused
                ELSE [excused EXCEPT !.turns = @ \cup {time'}]
  /\ UNCHANGED <<intent, from, phase, job, sourced>>

(* process and stream leave it at that ... *)
PlainTurn(t) == Turn(t) /\ UNCHANGED at

(* ... process_with_trace and stream_with_trace go on to the hooks. *)
TracedTurn(t) == Turn(t) /\ at' = [at EXCEPT ![t] = "annotate"]

(* A hook is off, or its gate is closed, or it goes on to read. *)
Gate(t) ==
  /\ at[t] # "idle" /\ phase[t] = "gate"
  /\ IF at[t] \in Hooks /\ Due(at[t], mom1) THEN Goto(t, "read", NoJob) ELSE Advance(t)
  /\ UNCHANGED <<area, time, sourced, excused>>

(* The pass collects its sources and sends them to A4. *)
Read(t) ==
  LET src  == Sources(at[t], mom1, job[t].requested)
      todo == IF at[t] = "evolve" THEN Clusters(mom1) ELSE {}
  IN  /\ at[t] \in {"annotate", "extract", "profile", "evolve"} /\ phase[t] = "read"
      /\ IF src = {} THEN Advance(t) ELSE Goto(t, "a4", [job[t] EXCEPT !.src = src, !.todo = todo, !.now = time])
      /\ excused' =
           [sources |-> excused.sources \cup
              (IF at[t] = "extract" THEN src \cap UNION {job[u].src : u \in UnderWay("extract")} ELSE {}),
            intents |-> excused.intents \cup (todo \cap UNION {job[u].todo : u \in UnderWay("evolve")}),
            turns   |-> excused.turns \cup
              (IF at[t] = "profile" THEN Wanted("profile", mom1, job[t].requested) \ src ELSE {})]
      /\ UNCHANGED <<area, time, sourced>>

----------------------------------------------------------------------------
(* A4 answers. *)
Annotated(t) ==
  /\ at[t] = "annotate" /\ phase[t] = "a4"
  /\ \E x \in Intents :
       intent' = [i \in Ids |-> IF i \in job[t].src \cap DOMAIN mom1 THEN x ELSE intent[i]]
  /\ Advance(t)
  /\ UNCHANGED <<mom1, from, time, sourced, excused>>

(* The facts of one pass share a time and their sources. *)
FactsDistilled(t) ==
  /\ at[t] = "extract" /\ phase[t] = "a4"
  /\ \E n \in 1..MaxFacts : Goto(t, "store", [job[t] EXCEPT !.left = n, !.now = time])
  /\ UNCHANGED <<area, time, sourced, excused>>

StoreFact(t) ==
  /\ at[t] = "extract" /\ phase[t] = "store"
  /\ Tick
  /\ Append(NewEntry("fact", job[t].now))
  /\ from' = [from EXCEPT ![time'] = job[t].src]
  /\ IF job[t].left = 1 THEN Advance(t) ELSE Goto(t, "store", [job[t] EXCEPT !.left = @ - 1])
  /\ UNCHANGED <<intent, sourced, excused>>

ProfileWritten(t) ==
  /\ at[t] = "profile" /\ phase[t] = "a4"
  /\ Tick
  /\ mom1' = ProfileSet(mom1, time', CHOOSE s \in Scopes : TRUE, time')
  /\ sourced' = sourced \cup job[t].src
  /\ Advance(t)
  /\ UNCHANGED <<intent, from, excused>>

(* consolidate: the candidates become one pinned summary. *)
Consolidate(t) ==
  /\ at[t] = "consolidate" /\ phase[t] = "read"
  /\ Cardinality(Candidates(mom1)) >= MinCandidates
  /\ Tick
  /\ mom1' = Consolidated(mom1, time')
  /\ Advance(t)
  /\ UNCHANGED <<intent, from, sourced, excused>>

(* A pass a client asks for has no gate to pass, and folds every turn. *)
Requested(t, hook) ==
  /\ at[t] = "idle" /\ at' = [at EXCEPT ![t] = hook]
  /\ phase' = [phase EXCEPT ![t] = "read"]
  /\ job' = [job EXCEPT ![t] = [NoJob EXCEPT !.requested = TRUE]]
  /\ UNCHANGED <<area, time, sourced, excused>>

RequestEvolve(t)  == Requested(t, "evolve")
RequestProfile(t) == Requested(t, "profile")

(* POST /memory/{area}/consolidate, at any time and with the same defaults. *)
ManualConsolidate ==
  /\ Cardinality(Candidates(mom1)) >= MinCandidates
  /\ Tick
  /\ mom1' = Consolidated(mom1, time')
  /\ UNCHANGED <<intent, from, at, phase, job, sourced, excused>>

(* evolve goes through its clusters; each rule is stored pinned. *)
RuleDistilled(t) ==
  /\ at[t] = "evolve" /\ phase[t] = "a4"
  /\ Tick
  /\ \E x \in job[t].todo :
       /\ Append(NewEntry("case", job[t].now))
       /\ intent' = [intent EXCEPT ![time'] = x]
       /\ IF job[t].todo = {x} THEN Advance(t)
          ELSE Goto(t, "a4", [job[t] EXCEPT !.todo = @ \ {x}])
  /\ UNCHANGED <<from, sourced, excused>>

(* A4 is unavailable or answers nothing useful: the pass gives up, and     *)
(* evolve goes on with its next cluster.                                   *)
NothingLearnt(t) ==
  /\ phase[t] = "a4" \/ (phase[t] = "read" /\ at[t] = "consolidate")
  /\ \/ ModelMayFail
     \/ at[t] = "consolidate" /\ Cardinality(Candidates(mom1)) < MinCandidates
  /\ IF Cardinality(job[t].todo) > 1
     THEN \E x \in job[t].todo : Goto(t, "a4", [job[t] EXCEPT !.todo = @ \ {x}])
     ELSE Advance(t)
  /\ UNCHANGED <<area, time, sourced, excused>>

----------------------------------------------------------------------------
(* The client disconnects: the task is cancelled at an await. *)
Disconnect(t) ==
  /\ at[t] # "idle"
  /\ at' = [at EXCEPT ![t] = "idle"]
  /\ phase' = [phase EXCEPT ![t] = "gate"]
  /\ job' = [job EXCEPT ![t] = NoJob]
  /\ UNCHANGED <<area, time, sourced, excused>>

(* Entries are used (activate), and forgotten by kind. *)
Reinforce ==
  /\ \E i \in DOMAIN mom1 :
       mom1[i].uses < MinCount /\ mom1' = Reinforced(mom1, {i})
  /\ UNCHANGED <<intent, from, time, at, phase, job, sourced, excused>>

Forget ==
  /\ \E k \in Forgets : OfKind(mom1, k) # {} /\ mom1' = Without(mom1, OfKind(mom1, k))
  /\ UNCHANGED <<intent, from, time, at, phase, job, sourced, excused>>

Answers(t) ==
  Annotated(t) \/ FactsDistilled(t) \/ ProfileWritten(t) \/ RuleDistilled(t)

PassStep(t) ==
  \/ Gate(t) \/ Read(t) \/ Answers(t) \/ StoreFact(t) \/ Consolidate(t) \/ NothingLearnt(t)

PassNext ==
  \/ \E t \in Conversations : PlainTurn(t) \/ TracedTurn(t) \/ PassStep(t)
                               \/ RequestEvolve(t) \/ RequestProfile(t)
  \/ \E t \in Cancellable : Disconnect(t)
  \/ Reinforce \/ Forget \/ ManualConsolidate

PassSpec == PassInit /\ [][PassNext]_passVars

----------------------------------------------------------------------------
TypeOK ==
  /\ DOMAIN mom1 \subseteq 1..time /\ mom1 \in [DOMAIN mom1 -> Entry]
  /\ intent \in [Ids -> Intents \cup {NoIntent}] /\ from \in [Ids -> SUBSET Ids]
  /\ time \in 0..MaxTime
  /\ at \in [Conversations -> HookNames \cup {"idle"}]
  /\ phase \in [Conversations -> {"gate", "read", "a4", "store"}]
  /\ job \in [Conversations -> Job]
  /\ sourced \subseteq Ids
  /\ excused \in [sources : SUBSET Ids, intents : SUBSET Intents, turns : SUBSET Ids]

(* Extraction is re-run-safe: facts that share a source come from one      *)
(* pass, whatever is evicted, consolidated and forgotten while A4 distils  *)
(* the next ones.                                                          *)
SourcesMinedOnce ==
  \A f, g \in OfKind(mom1, "fact") :
    ~(from[f] \cap from[g] \subseteq excused.sources) => from[f] = from[g] /\ mom1[f].ts = mom1[g].ts

(* Re-runs of evolve don't duplicate: one rule per intent. *)
OneRulePerIntent ==
  \A c, d \in OfKind(mom1, "case") : intent[c] = intent[d] /\ intent[c] \notin excused.intents => c = d

(* What is derived is derived once: of a turn facts, of an intent a rule   *)
(* (base.py:978-996, 1126).                                                *)
DerivedOnce == TypeOK /\ SourcesMinedOnce /\ OneRulePerIntent

(* The increments of the profile add up: a turn no newer than the profile  *)
(* was in the prompt of it or of one of its predecessors.  (base.py,       *)
(* synthesize_profile: "The first synthesis (no profile yet) still folds   *)
(* everything.")                                                           *)
DeltaMissesNothing ==
  \A p \in Current(mom1) : \A i \in OfKind(mom1, "turn") :
    mom1[i].ts <= mom1[p].ts => i \in sourced \cup excused.turns
=============================================================================
