--------------------------- MODULE AtomicHistory ---------------------------
(***************************************************************************)
(* What the history API of a MemoryArea promises to concurrent tasks:      *)
(* every call takes effect on the shared history at one moment between its *)
(* invocation and its return, or has no effect at all (nothing matched,    *)
(* the model was unavailable, the task was cancelled).                     *)
(***************************************************************************)
EXTENDS History

CONSTANTS
  Tasks,              \* asyncio tasks using the area
  Calls,              \* names of the operations the tasks call
  Importances,        \* importances given to append_history
  Ttls,               \* TTLs given to append_history, NoExpiry for none
  FourDModes,         \* values set_fourd_enabled is called with
  MaxClock            \* bound: readings of the clock in a behaviour

ASSUME ImportancesAssumption == Importances \subseteq Nat
ASSUME TtlsAssumption        == Ttls \subseteq Nat
ASSUME FourDModesAssumption  == FourDModes \subseteq BOOLEAN
ASSUME MaxClockAssumption    == MaxClock \in Nat

VARIABLES
  history,   \* the value stored under the area's "history" key
  fourd,     \* MemoryArea._fourd_enabled
  clock,     \* time.time(), advanced by every reading
  op         \* op[t]: the call task t is executing, or Idle

avars == <<history, fourd, clock, op>>

CallNames == {"append", "pin", "unpin", "reinforce", "forget",
              "consolidate", "profile"}

(* A call's arguments.  The id doubles as the time at which it was made:   *)
(* each reading of the clock differs from all others.                      *)
Op == [name: CallNames \cup {"none"}, id: Nat, imp: Nat, exp: Nat,
       ids: SUBSET Nat, kinds: SUBSET Kinds, before: Nat,
       expired: BOOLEAN, scope: Scopes \cup {NoScope}]

Call(name, id) ==
  [name |-> name, id |-> id, imp |-> 0, exp |-> NoExpiry, ids |-> {},
   kinds |-> {}, before |-> 0, expired |-> FALSE, scope |-> NoScope]

Idle == Call("none", 0)

TurnEntry(o) ==
  [ts |-> o.id, slot |-> 0, imp |-> o.imp, kind |-> "turn",
   scope |-> NoScope, exp |-> o.exp, uses |-> 0]

(* The calls a task may make at time now. *)
AppendCall(now, imp, ttl) ==
  [Call("append", now) EXCEPT
     !.imp = imp,
     !.exp = IF ttl = NoExpiry THEN NoExpiry ELSE now + ttl]

AppendCalls(now) ==
  {AppendCall(now, imp, ttl) : imp \in Importances, ttl \in Ttls}

PinCalls(now) == {[Call("pin", now) EXCEPT !.ids = {i}] : i \in 1..(now - 1)}

UnpinCalls(now) == {[Call("unpin", now) EXCEPT !.ids = {i}] : i \in 1..(now - 1)}

ReinforceCalls(now) ==
  {[Call("reinforce", now) EXCEPT !.ids = S] : S \in {{i} : i \in 1..(now - 1)}}

ForgetCalls(now) ==
       {[Call("forget", now) EXCEPT !.kinds = {k}] : k \in Kinds}
  \cup {[Call("forget", now) EXCEPT !.before = b] : b \in 1..now}
  \cup {[Call("forget", now) EXCEPT !.expired = TRUE]}

ProfileCalls(now) == {[Call("profile", now) EXCEPT !.scope = s] : s \in Scopes}

CallsAt(now) ==
  {o \in      AppendCalls(now) \cup PinCalls(now) \cup UnpinCalls(now)
         \cup ReinforceCalls(now) \cup ForgetCalls(now) \cup ProfileCalls(now)
         \cup {Call("consolidate", now)} : o.name \in Calls}

----------------------------------------------------------------------------
(* Whether a call that finds h in the store writes anything back. *)
Applies(o, h, now) ==
  CASE o.name = "append"      -> TRUE
    [] o.name = "pin"         -> o.ids \subseteq DOMAIN h
    [] o.name = "unpin"       -> o.ids \subseteq DOMAIN h
    [] o.name = "reinforce"   -> o.ids \cap DOMAIN h # {}
    [] o.name = "forget"      -> Forgettable(h, now, o.kinds, o.before, o.expired) # {}
    [] o.name = "consolidate" -> Cardinality(Candidates(Purge(h, now))) >= MinCandidates
    [] o.name = "profile"     -> TRUE
    [] OTHER                  -> FALSE

(* The history it writes. *)
Effect(o, h, now, mode) ==
  CASE o.name = "append"      -> Appended(h, o.id, TurnEntry(o), now, mode)
    [] o.name = "pin"         -> Reweighted(h, o.ids, PinThreshold)
    [] o.name = "unpin"       -> Reweighted(h, o.ids, Normal)
    [] o.name = "reinforce"   -> Reinforced(h, o.ids)
    [] o.name = "forget"      -> Without(h, Forgettable(h, now, o.kinds, o.before, o.expired))
    [] o.name = "consolidate" -> Consolidated(Purge(h, now), o.id)
    [] o.name = "profile"     -> ProfileSet(h, o.id, o.scope, now)
    [] OTHER                  -> h

----------------------------------------------------------------------------
Init ==
  /\ history = [i \in {} |-> 0]
  /\ fourd \in FourDModes
  /\ clock = 0
  /\ op = [t \in Tasks |-> Idle]

Invoke(t) ==
  /\ op[t] = Idle
  /\ clock < MaxClock
  /\ clock' = clock + 1
  /\ \E o \in CallsAt(clock') : op' = [op EXCEPT ![t] = o]
  /\ UNCHANGED <<history, fourd>>

(* The call takes effect, at a time between its invocation and now. *)
Perform(t) ==
  /\ op[t] # Idle
  /\ clock' \in {clock, clock + 1}
  /\ \E now \in op[t].id..clock' :
       /\ Applies(op[t], history, now)
       /\ history' = Effect(op[t], history, now, fourd)
  /\ op' = [op EXCEPT ![t] = Idle]
  /\ UNCHANGED fourd

(* The call ends without an effect. *)
Abandon(t) ==
  /\ op[t] # Idle
  /\ op' = [op EXCEPT ![t] = Idle]
  /\ UNCHANGED <<history, fourd, clock>>

SetFourD ==
  /\ fourd' \in FourDModes
  /\ UNCHANGED <<history, clock, op>>

TimePasses ==
  /\ clock' = clock + 1
  /\ UNCHANGED <<history, fourd, op>>

Next ==
  \/ \E t \in Tasks : Invoke(t) \/ Perform(t) \/ Abandon(t)
  \/ SetFourD
  \/ TimePasses

Spec == Init /\ [][Next]_avars
=============================================================================
