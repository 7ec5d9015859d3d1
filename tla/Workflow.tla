------------------------------- MODULE Workflow -------------------------------
(***************************************************************************)
(* Conversation turns through the three workspaces                         *)
(* (src/autumn/core/workspace/wp1.py, wp2.py, wp3.py, with the checker,    *)
(* the agent loop and the selector they call).  Turns that run at once     *)
(* meet only in Mom1, which one reads through the broker, and in the usage *)
(* of a model client, which is left out.  Each place of a turn but "check" *)
(* is an await, where others run, the model or the store may fail, and a   *)
(* client that leaves interrupts it.                                       *)
(*                                                                         *)
(* A text is abstracted to what the stages do with it: how much of it      *)
(* there is, whether the rule check refuses it, and whether it carries     *)
(* WP2's failure marker or the quality advisory.                           *)
(***************************************************************************)
EXTENDS AccessBroker

CONSTANTS
  Turns,          \* the turns, each started at most once
  Others,         \* the entries of Mom1 that are no turn's: older ones, summaries
  Modes,          \* process_with_trace ("buffered"), unvalidated stream ("live")
  Kinds,          \* what the selector may say: "task", "mission"
  Routes,         \* "direct", "convert"
  Features,       \* "planning", "supervision", "archive", "faults"
  Toolsets,       \* which workspaces may have tools or skills in a turn
  Calls,          \* the calls a model reply may contain
  AccessCall,     \* the one of them that is request_mom1_access
  Retries,        \* checker_retries
  MaxSteps,       \* agent_max_steps
  Chunks,         \* the length of a complete text, in chunks
  MaxInterrupts,  \* how often one turn may be interrupted
  Nothing         \* no record

ASSUME WorkflowAssumption ==
  /\ {Retries, MaxSteps, Chunks} \subseteq Nat \ {0}
  /\ MaxInterrupts \in Nat
  /\ Requests = Turns /\ Entries = Turns \cup Others /\ Turns \cap Others = {}

ASSUME ChoicesAssumption ==
  /\ Routes \subseteq {"direct", "convert"}
  /\ Toolsets \subseteq SUBSET {"wp2", "wp3"}

VARIABLES
  turn,     \* turn[t]: where the turn is and its local variables
  zone      \* zone[z][t]: the text turn t left in zone z

memory == <<mom1, stored>>
vars   == <<turn, zone, memory, brokerVars>>

Zones  == {"mom1", "mom2", "mom3", "shared"}
Checks == {"wp2", "wp3", "handoff", "final"}
Over   == {"idle", "answered", "failed", "gone"}
Awaits == {"select", "plan", "route", "convert", "store3", "handoff", "think",
           "act", "supervise", "complete", "stream", "emit", "check", "judge",
           "correct", "store2", "store1", "archive", "keep", "inspect", "advise"}

Text == [size : 0..Chunks, short : BOOLEAN, marked : BOOLEAN, advised : BOOLEAN]

ASSUME NothingAssumption == Nothing \notin Text

Answer(short) == [size |-> Chunks, short |-> short, marked |-> FALSE, advised |-> FALSE]
Empty == [Answer(TRUE) EXCEPT !.size = 0]

NewTurn == [at |-> "idle", mode |-> "buffered", tools |-> {}, kind |-> "mission",
            route |-> "none", works |-> "wp2", text |-> Empty, check |-> "wp2",
            attempt |-> 0, step |-> 0, pending |-> {}, shown |-> Empty,
            advice |-> FALSE, failing |-> FALSE, interrupts |-> 0,
            unstored |-> FALSE, wp2Failed |-> FALSE, rewritten |-> FALSE]

TypeOK ==
  /\ BrokerTypeOK
  /\ mom1 \subseteq Entries /\ stored \subseteq Entries
  /\ turn \in [Turns ->
       [at : Over \cup Awaits, mode : Modes \cup {"buffered"},
        tools : SUBSET {"wp2", "wp3"}, kind : {"task", "mission"},
        route : {"none", "direct", "convert"}, works : {"wp2", "wp3"},
        text : Text, check : Checks, attempt : 0..(Retries - 1), step : 0..MaxSteps,
        pending : SUBSET Calls, shown : Text, advice : BOOLEAN, failing : BOOLEAN,
        interrupts : 0..MaxInterrupts, unstored : BOOLEAN, wp2Failed : BOOLEAN,
        rewritten : BOOLEAN]]
  /\ zone \in [Zones -> [Turns -> Text \cup {Nothing}]]

Init ==
  /\ BrokerInit
  /\ stored \in SUBSET Others /\ mom1 \in SUBSET stored
  /\ turn = [t \in Turns |-> NewTurn]
  /\ zone = [z \in Zones |-> [t \in Turns |-> Nothing]]

-----------------------------------------------------------------------------
(* What a turn computes between two awaits, as functions of its record. *)

Live(r) == r.mode = "live"

(* WP2 runs an agent when it is given tools or skills, one completion (or
   stream) when not; A3 likewise on the direct route.  There is no output yet,
   whatever A3 has converted. *)
Execute(r, ws) ==
  [r EXCEPT !.works = ws, !.step = 0, !.text = Empty,
            !.at = IF ws \in r.tools THEN "think"
                   ELSE IF Live(r) THEN "stream" ELSE "complete"]

Check(r, which) == [r EXCEPT !.at = "check", !.check = which, !.attempt = 0]

(* The text of an execution is complete. *)
Executed(r, text) ==
  LET new == [r EXCEPT !.text = text, !.pending = {}] IN
  IF Live(r) THEN [new EXCEPT !.at = "emit"]
  ELSE IF r.works = "wp2" THEN Check(new, "wp2")
  ELSE [new EXCEPT !.at = "store3"]

(* _wp1_check strips the marker of its own check and keeps the advice apart. *)
Advised(r, ok) == [r EXCEPT !.at = "store1", !.advice = ~ok]

(* Mutant: WP2 strips the marker of a check that failed. *)
VerdictUnmarked(r, ok) ==
  CASE r.check = "wp2"     -> [r EXCEPT !.at = "store2", !.wp2Failed = ~ok,
                                        !.rewritten = FALSE, !.text.short = FALSE]
    [] r.check = "wp3"     -> Check(r, "handoff")
    [] r.check = "handoff" -> Execute(r, "wp2")
    [] r.check = "final"   -> Advised(r, ok)

(* Checker.validate returns.  WP2 keeps the marker of its failed check in the
   result. *)
Verdict(r, ok) ==
  CASE r.check = "wp2"     -> [r EXCEPT !.at = "store2", !.wp2Failed = ~ok,
                                        !.rewritten = FALSE, !.text.marked = ~ok,
                                        !.text.short = FALSE]
    [] r.check = "wp3"     -> Check(r, "handoff")
    [] r.check = "handoff" -> Execute(r, "wp2")
    [] r.check = "final"   -> Advised(r, ok)

(* Mutant: one round too many. *)
LastAttemptLate(r) == r.attempt = Retries

LastAttempt(r) == r.attempt = Retries - 1

(* A round of validate has found issues: correct the text, or give up. *)
Issues(r) == IF LastAttempt(r) THEN Verdict(r, FALSE) ELSE [r EXCEPT !.at = "correct"]

(* Mutants: the advice is recorded with the answer; what was shown is recorded,
   which is nothing yet for a buffered turn. *)
RecordedWithAdvice(r) == [r.text EXCEPT !.advised = r.advice]
RecordedShown(r)      == r.shown

(* What Mom1 and the archive are given: the text without the advice, except
   that the unvalidated stream has appended the advice to its buffer. *)
Recorded(r) == [r.text EXCEPT !.advised = Live(r) /\ r.advice]

(* The turn is over, and the locals of its call are gone with it: what is left
   of the record is what the properties look back at. *)
Leave(r, at) ==
  [r EXCEPT !.at = at, !.tools = {}, !.kind = "mission", !.route = "none",
            !.check = "wp2", !.attempt = 0, !.step = 0, !.failing = FALSE]

Answered(r) == [Leave(r, "answered") EXCEPT !.shown = [r.text EXCEPT !.advised = r.advice]]

-----------------------------------------------------------------------------
(* The turn goes on as `new'. *)
Step(t, new) == turn' = [turn EXCEPT ![t] = new]

Store(z, t, text) == zone' = [zone EXCEPT ![z][t] = text]

KeepRest == UNCHANGED <<zone, memory, brokerVars>>

(* append_history of Mom1 purges, appends and evicts in one write: entries may
   leave with the new one's coming, itself among them. *)
Remember(t) ==
  /\ stored' = stored \cup {t}
  /\ mom1' \in SUBSET (mom1 \cup {t})

OwnZone(r) == IF r.works = "wp2" THEN "mom2" ELSE "mom3"

(* The append that turn t awaits takes place.  The archive's skips an empty
   output. *)
Append(t) ==
  LET r == turn[t] IN
  \/ r.at = "store1" /\ Store("mom1", t, Recorded(r)) /\ Remember(t)
  \/ r.at = "store2" /\ Store("mom2", t, r.text) /\ UNCHANGED memory
  \/ r.at = "store3" /\ Store("mom3", t, r.text) /\ UNCHANGED memory
  \/ r.at = "keep" /\ Store(OwnZone(r), t, r.text) /\ UNCHANGED memory
  \/ /\ r.at = "archive" /\ r.text.size > 0
     /\ Store("shared", t, Recorded(r)) /\ UNCHANGED memory

-----------------------------------------------------------------------------
Start(t) ==
  /\ turn[t].at = "idle"
  /\ \E mode \in Modes, tools \in Toolsets :
       Step(t, [NewTurn EXCEPT !.at = "select", !.mode = mode, !.tools = tools])
  /\ KeepRest

Routed(r, route) ==
  IF route = "direct" THEN Execute([r EXCEPT !.route = route], "wp3")
  ELSE [r EXCEPT !.route = route, !.at = "convert"]

(* _select_intent: the type the caller gives, or the selector's. *)
Selected(t, kind) == turn[t].at = "select" /\ kind \in Kinds

SelectTask(t) ==
  /\ Selected(t, "task")
  /\ LET r == [turn[t] EXCEPT !.kind = "task"] IN
     Step(t, IF "planning" \in Features THEN [r EXCEPT !.at = "plan"]
                                        ELSE Execute(r, "wp2"))
  /\ KeepRest

(* A3 is asked for the route unless the caller or the user has fixed it. *)
SelectMission(t) ==
  /\ Selected(t, "mission")
  /\ \/ Step(t, [turn[t] EXCEPT !.at = "route"])
     \/ \E route \in Routes : Step(t, Routed(turn[t], route))
  /\ KeepRest

(* A1's plan, none, or an error that _plan_task swallows. *)
Plan(t) ==
  /\ turn[t].at = "plan"
  /\ Step(t, Execute(turn[t], "wp2"))
  /\ KeepRest

Route(t) ==
  /\ turn[t].at = "route"
  /\ \E route \in Routes : Step(t, Routed(turn[t], route))
  /\ KeepRest

Convert(t) ==
  /\ turn[t].at = "convert"
  /\ \E short \in BOOLEAN :
       Step(t, [turn[t] EXCEPT !.at = "store3", !.text = Answer(short)])
  /\ KeepRest

(* WP3's record of a conversion or of a direct answer. *)
StoreMom3(t) ==
  /\ turn[t].at = "store3"
  /\ Append(t)
  /\ Step(t, IF turn[t].route = "convert" THEN [turn[t] EXCEPT !.at = "handoff"]
                                          ELSE Check(turn[t], "final"))
  /\ UNCHANGED brokerVars

(* shared.set("handoff", ...) *)
HandOff(t) ==
  /\ turn[t].at = "handoff"
  /\ Step(t, Check(turn[t], "wp3"))
  /\ KeepRest

(* The agent's model answers, or asks for calls that run side by side. *)
AgentAnswers(t) ==
  /\ turn[t].at = "think"
  /\ \E short \in BOOLEAN : Step(t, Executed(turn[t], Answer(short)))
  /\ KeepRest

AgentCalls(t) ==
  /\ turn[t].at = "think"
  /\ \E calls \in (SUBSET Calls) \ {{}} :
       /\ AccessCall \in calls => request[t].at = "none"
       /\ Step(t, [turn[t] EXCEPT !.at = "act", !.pending = calls,
                                  !.step = @ + 1])
  /\ KeepRest

(* One call has returned; an exception is a result too.  With the last one
   A1 may be asked to supervise, or the model is asked again, up to max_steps. *)
GoOn(r) ==
  IF r.step = MaxSteps THEN Executed(r, Answer(FALSE)) ELSE [r EXCEPT !.at = "think"]

Supervised(r) == "supervision" \in Features /\ r.kind = "task"

CallReturns(t, c) ==
  /\ turn[t].at = "act" /\ c \in turn[t].pending
  /\ c = AccessCall => Ended(t)
  /\ LET r == [turn[t] EXCEPT !.pending = @ \ {c}] IN
     Step(t, IF r.pending # {} THEN r
             ELSE IF Supervised(r) THEN [r EXCEPT !.at = "supervise"]
             ELSE GoOn(r))
  /\ KeepRest

(* The request_mom1_access skill, on its way through the broker. *)
AskForAccess(t) ==
  /\ turn[t].at = "act" /\ AccessCall \in turn[t].pending
  /\ \/ \E scope \in Scopes \cup {{}} : Apply(t, scope)
     \/ Deliberate(t)
     \/ "faults" \in Features /\ RecordFails(t)
  /\ UNCHANGED <<turn, zone, memory>>

Supervise(t) ==
  /\ turn[t].at = "supervise"
  /\ Step(t, GoOn(turn[t]))
  /\ KeepRest

Complete(t) ==
  /\ turn[t].at = "complete"
  /\ \E short \in BOOLEAN : Step(t, Executed(turn[t], Answer(short)))
  /\ KeepRest

-----------------------------------------------------------------------------
(* Checker.validate *)
RuleCheck(t) ==
  /\ turn[t].at = "check"
  /\ Step(t, IF turn[t].text.short THEN Issues(turn[t]) ELSE [turn[t] EXCEPT !.at = "judge"])
  /\ KeepRest

(* A verdict that cannot be read passes. *)
Judge(t) ==
  /\ turn[t].at = "judge"
  /\ \E ok \in BOOLEAN : Step(t, IF ok THEN Verdict(turn[t], TRUE) ELSE Issues(turn[t]))
  /\ KeepRest

(* Mutant: the attempt is not counted. *)
CorrectUncounted(t) ==
  /\ turn[t].at = "correct"
  /\ \E short \in BOOLEAN, marked \in {FALSE, turn[t].text.marked} :
       Step(t, [turn[t] EXCEPT !.at = "check", !.rewritten = TRUE,
                               !.text = [Answer(short) EXCEPT !.marked = marked]])
  /\ KeepRest

(* The rewritten text may or may not keep a marker it was given. *)
Correct(t) ==
  /\ turn[t].at = "correct"
  /\ \E short \in BOOLEAN, marked \in {FALSE, turn[t].text.marked} :
       Step(t, [turn[t] EXCEPT !.at = "check", !.attempt = @ + 1, !.rewritten = TRUE,
                               !.text = [Answer(short) EXCEPT !.marked = marked]])
  /\ KeepRest

StoreMom2(t) ==
  /\ turn[t].at = "store2"
  /\ Append(t)
  /\ Step(t, Check(turn[t], "final"))
  /\ UNCHANGED brokerVars

(* The record of the turn, before the answer is given. *)
StoreMom1(t) ==
  /\ turn[t].at = "store1"
  /\ Append(t)
  /\ Step(t, IF "archive" \in Features THEN [turn[t] EXCEPT !.at = "archive"]
                                       ELSE Answered(turn[t]))
  /\ UNCHANGED brokerVars

(* record_execution_summary *)
Archive(t) ==
  /\ turn[t].at = "archive"
  /\ \/ Append(t)
     \/ turn[t].text.size = 0 /\ UNCHANGED <<zone, memory>>
  /\ Step(t, Answered(turn[t]))
  /\ UNCHANGED brokerVars

-----------------------------------------------------------------------------
(* The unvalidated stream. *)
StreamToken(t) ==
  /\ turn[t].at = "stream" /\ turn[t].text.size < Chunks
  /\ LET r == [turn[t] EXCEPT !.text.size = @ + 1] IN
     turn' = [turn EXCEPT ![t] = [r EXCEPT !.shown.size = r.text.size]]
  /\ KeepRest

StreamEnds(t) ==
  /\ turn[t].at = "stream"
  /\ \E short \in BOOLEAN :
       /\ turn[t].text.size = 0 => short
       /\ turn' = [turn EXCEPT ![t].at = "keep", ![t].text.short = short]
  /\ KeepRest

EmitChunk(t) ==
  /\ turn[t].at = "emit"
  /\ Step(t, IF turn[t].shown.size < turn[t].text.size
             THEN [turn[t] EXCEPT !.shown.size = @ + 1]
             ELSE [turn[t] EXCEPT !.at = "keep"])
  /\ KeepRest

(* The finally clause of the workspace's generator. *)
Keep(t) ==
  /\ turn[t].at = "keep"
  /\ Append(t)
  /\ LET r == turn[t] IN
     Step(t, IF ~r.failing THEN [r EXCEPT !.at = "inspect"]
             ELSE Leave(r, IF r.interrupts > 0 THEN "gone" ELSE "failed"))
  /\ UNCHANGED brokerVars

(* Checker.inspect, whose issues are yielded as an advisory chunk. *)
Inspect(t) ==
  /\ turn[t].at = "inspect"
  /\ \E ok \in BOOLEAN :
       /\ turn[t].text.short => ~ok
       /\ Step(t, IF ok THEN [turn[t] EXCEPT !.at = "store1"]
                  ELSE [turn[t] EXCEPT !.at = "advise", !.advice = TRUE,
                                       !.shown.advised = TRUE])
  /\ KeepRest

Advise(t) ==
  /\ turn[t].at = "advise"
  /\ Step(t, [turn[t] EXCEPT !.at = "store1"])
  /\ KeepRest

-----------------------------------------------------------------------------
(* What goes wrong. *)

(* Mutant: the try begins after the model's stream. *)
StreamingLate(r) == Live(r) /\ r.at = "emit"

(* Inside the generators' try, an exception or a cancellation runs Keep. *)
Streaming(r) ==
  Live(r) /\ r.at \in {"think", "act", "supervise", "stream", "emit"}

(* A model call raises.  Planning and supervision go on without it. *)
ModelFails(t) ==
  /\ "faults" \in Features
  /\ turn[t].at \in {"select", "route", "convert", "think", "complete", "stream",
                     "judge", "correct", "inspect"}
  /\ turn' = [turn EXCEPT ![t] =
       IF Streaming(@) THEN [@ EXCEPT !.at = "keep", !.failing = TRUE]
                       ELSE Leave(@, "failed")]
  /\ KeepRest

(* A zone cannot store, or has stored and cannot index: append_history raises
   either way.  Only the archive goes on without. *)
StoreFails(t) ==
  /\ "faults" \in Features
  /\ turn[t].at \in {"store1", "store2", "store3", "handoff", "archive", "keep"}
  /\ turn' = [turn EXCEPT ![t] =
       IF @.at = "archive" THEN Answered(@)
       ELSE [Leave(@, "failed") EXCEPT !.unstored = TRUE]]
  /\ Append(t) \/ UNCHANGED <<zone, memory>>
  /\ UNCHANGED brokerVars

(* The client leaves: the task is cancelled at its await, or its generator is
   closed at a yield.  An append under way is lost or not. *)
Interrupt(t) ==
  /\ turn[t].at \in Awaits \ {"check"} /\ turn[t].interrupts < MaxInterrupts
  /\ LET r == [turn[t] EXCEPT !.interrupts = @ + 1, !.pending = {}] IN
     turn' = [turn EXCEPT ![t] =
       IF Streaming(r) THEN [r EXCEPT !.at = "keep", !.failing = TRUE]
       ELSE [Leave(r, "gone") EXCEPT !.unstored = r.at \in {"keep", "store2", "store3"}]]
  /\ Append(t) \/ UNCHANGED <<zone, memory>>
  /\ IF AccessCall \in turn[t].pending /\ request[t].at # "none" /\ ~Ended(t)
     THEN CancelRequest(t) ELSE UNCHANGED brokerVars

-----------------------------------------------------------------------------
(* What goes on beside the turns. *)

(* forget, consolidate, expiry and the appends of other tasks: entries leave
   Mom1's history, and one that is no turn's may enter it. *)
Curate ==
  /\ \E new \in {{}} \cup {{e} : e \in Others \ stored} :
       /\ stored' = stored \cup new
       /\ mom1' \in SUBSET (mom1 \cup new)
  /\ UNCHANGED <<turn, zone, brokerVars>>

(* configure_4d, from elsewhere. *)
Switch == (\E on \in BOOLEAN : SetEnabled(on)) /\ UNCHANGED <<turn, zone, memory>>

Progress(t) ==
  \/ SelectTask(t) \/ SelectMission(t) \/ Plan(t) \/ Route(t) \/ Convert(t)
  \/ StoreMom3(t) \/ HandOff(t) \/ AgentAnswers(t) \/ AgentCalls(t)
  \/ (\E c \in Calls : CallReturns(t, c)) \/ AskForAccess(t) \/ Supervise(t)
  \/ Complete(t) \/ RuleCheck(t) \/ Judge(t) \/ Correct(t) \/ StoreMom2(t)
  \/ StoreMom1(t) \/ Archive(t) \/ StreamToken(t) \/ StreamEnds(t)
  \/ EmitChunk(t) \/ Keep(t) \/ Inspect(t) \/ Advise(t)

Next ==
  \/ \E t \in Turns :
       Start(t) \/ Progress(t) \/ ModelFails(t) \/ StoreFails(t) \/ Interrupt(t)
  \/ Curate
  \/ Switch

Spec == Init /\ [][Next]_vars

(* Model calls return (they time out), the store answers, and the client of a
   stream takes what it is given or leaves.  That tools and skills return is an
   assumption: nothing in _invoke_call bounds them. *)
FairSpec == Spec /\ \A t \in Turns : WF_vars(Progress(t))

-----------------------------------------------------------------------------
(* What a turn answered is what Mom1 and the archive were given to remember,
   but for the quality advice, which only a stream records; and Mom1 was given
   nothing else: of a turn that raised it has either nothing or, when it was
   the append itself that raised, the record of the answer nobody saw.  Its
   history holds nothing it was not given (wp1.py:336-357, 792-815,
   base.py:602-618). *)
AnswersAreRecorded ==
  /\ \A t \in Turns :
       LET r == turn[t]
           record == [r.shown EXCEPT !.advised = Live(r) /\ r.advice] IN
       /\ r.at = "answered" => zone.mom1[t] = record /\ zone.shared[t] \in {Nothing, record}
       /\ zone.mom1[t] # Nothing =>
            /\ zone.mom1[t] = Recorded(r)
            /\ \/ r.at \in {"archive", "answered", "gone"}
               \/ r.at = "failed" /\ r.unstored
       /\ zone.mom1[t] # Nothing <=> t \in stored
  /\ mom1 \subseteq stored

(* No buffered turn puts the advice where recall finds it (wp1.py:336-338);
   no zone of an executor ever holds it. *)
MemoryIsClean ==
  \A t \in Turns, z \in Zones :
    zone[z][t] # Nothing /\ zone[z][t].advised => Live(turn[t]) /\ z \in {"mom1", "shared"}

(* Whatever the user has read of a stream, its workspace remembers when the
   turn is over, however it ended, unless the store itself failed or was cut
   off (wp2.py:366-369, wp3.py:154-156). *)
EmittedIsKept ==
  \A t \in Turns :
    LET r == turn[t] IN
    Live(r) /\ r.at \in Over /\ r.shown.size > 0 /\ ~r.unstored =>
      LET kept == zone[OwnZone(r)][t] IN
      kept # Nothing /\ kept.size >= r.shown.size

(* A result that WP2's checker gave up on reaches the user marked as such,
   unless A1's check rewrote it, and Mom2 holds the marked result
   (checker.py:61, wp2.py:267-280, wp1.py:588-600). *)
FailureIsTold ==
  \A t \in Turns :
    LET r == turn[t] IN
    r.at = "answered" /\ r.wp2Failed =>
      zone.mom2[t].marked /\ (r.rewritten \/ r.shown.marked)

(* Memory holds what turns answered, and nothing else of them. *)
MemoryIsTrue == TypeOK /\ AnswersAreRecorded /\ MemoryIsClean

(* Neither memory nor the user is spared anything: what was emitted is kept,
   and what failed is told. *)
NothingIsHidden == EmittedIsKept /\ FailureIsTold

(* The channel hands out no more than it may, and says so truly. *)
RequestsAreTrue == GrantsAreNarrow /\ TrailIsTrue

(* Every turn ends: no agent, checker or stream goes round for ever, and a
   request for access never keeps the turn that awaits it. *)
TurnsEnd == \A t \in Turns : turn[t].at # "idle" ~> turn[t].at \in Over

=============================================================================
