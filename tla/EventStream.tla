------------------------------ MODULE EventStream ------------------------------
(***************************************************************************)
(* The server-sent events of /stream (src/autumn/server/app.py): a task    *)
(* asks the turn for its next event and, while it waits, keeps the         *)
(* connection alive and looks whether the client is still there.           *)
(***************************************************************************)
EXTENDS Naturals

CONSTANTS
  Streams,      \* tasks that serve /stream
  MaxEvents     \* bound: events of a turn

VARIABLE conn   \* conn[t]: the stream's state and what it has sent

ASSUME StreamAssumption == MaxEvents \in Nat

(* next: the task of __anext__; made, given: events of the turn, frames sent. *)
NoStream == [at |-> "closed", next |-> "none", gone |-> FALSE,
             made |-> 0, given |-> 0, told |-> FALSE]

StreamTypeOK ==
  conn \in [Streams -> [at : {"closed", "loop", "race", "finally", "over"},
                        next : {"none", "pending", "event", "end", "error"},
                        gone : BOOLEAN, made : 0..MaxEvents, given : 0..MaxEvents,
                        told : BOOLEAN]]

StreamInit == conn = [t \in Streams |-> NoStream]

Send(t, new) == conn' = [conn EXCEPT ![t] = new]

(* The project is activated and the iterator made; an error is told at once. *)
OpenStream(t) ==
  /\ conn[t].at = "closed"
  /\ \/ Send(t, [conn[t] EXCEPT !.at = "loop"])
     \/ Send(t, [conn[t] EXCEPT !.at = "finally", !.told = TRUE])

(* Mutant: each round makes a task. *)
Asked(next) == "pending"

(* A task that is there, done or not, is not made again. *)
Pending(next) == IF next = "none" THEN "pending" ELSE next

(* One round: is the client there, is there a task for the next event. *)
Look(t) ==
  /\ conn[t].at = "loop"
  /\ Send(t, IF conn[t].gone THEN [conn[t] EXCEPT !.at = "finally"]
             ELSE [conn[t] EXCEPT !.at = "race", !.next = Pending(@)])

(* Nothing for _SSE_HEARTBEAT_SECONDS: a comment is sent. *)
Ping(t) ==
  /\ conn[t].at = "race" /\ conn[t].next = "pending"
  /\ Send(t, [conn[t] EXCEPT !.at = "loop"])

(* The task has a result: an event is a frame; after the end, or an error,
   [DONE] is. *)
Frame(t) ==
  /\ conn[t].at = "race" /\ conn[t].next \in {"event", "end", "error"}
  /\ Send(t, IF conn[t].next = "event"
             THEN [conn[t] EXCEPT !.at = "loop", !.next = "none", !.given = @ + 1]
             ELSE [conn[t] EXCEPT !.at = "finally", !.next = "none", !.told = TRUE])

(* The client goes: the next look finds out, or the task is cancelled where
   it waits. *)
Leave(t) ==
  /\ conn[t].at \in {"loop", "race"} /\ ~conn[t].gone
  /\ \E at \in {conn[t].at, "finally"} : Send(t, [conn[t] EXCEPT !.gone = TRUE, !.at = at])

(* Mutant: the task of the next event is left to itself. *)
HungUpOnly(s) == [s EXCEPT !.at = "over"]

(* Mutant: the cancelled task stays where the next one is looked for. *)
HungUpKept(s) == [s EXCEPT !.at = "over", !.next = IF @ = "pending" THEN "cancelled" ELSE @]

(* The finally clause: the task of the next event is cancelled. *)
HungUp(s) == [s EXCEPT !.at = "over", !.next = "none"]

Finally(t) == conn[t].at = "finally" /\ Send(t, HungUp(conn[t]))

(* The turn's side: the task of the next event ends. *)
Produce(t, what) ==
  /\ conn[t].next = "pending"
  /\ what = "event" => conn[t].made < MaxEvents
  /\ Send(t, [conn[t] EXCEPT !.next = what, !.made = IF what = "event" THEN @ + 1 ELSE @])

StreamStep(t) == OpenStream(t) \/ Look(t) \/ Frame(t) \/ Finally(t)

-----------------------------------------------------------------------------
(* Every event of the turn reaches a client that stays, and a stream that is
   over has told it so (app.py:1264-1338). *)
StreamsAreWhole ==
  \A t \in Streams : conn[t].at \in {"finally", "over"} /\ ~conn[t].gone =>
    conn[t].told /\ conn[t].given = conn[t].made
=============================================================================
