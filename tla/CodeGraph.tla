------------------------------- MODULE CodeGraph -------------------------------
(***************************************************************************)
(* The code-graph layer (src/autumn/core/codebase/memory.py): an index of  *)
(* the repository at an MCP server and a cached brief, both under one      *)
(* lock, asked for by streamed turns that may be abandoned at any time, by *)
(* the indexing task of start_codebase_memory and by refresh.              *)
(***************************************************************************)
EXTENDS EventStream, SequencesExt

CONSTANTS
  Indexer,      \* the task of start_codebase_memory
  Turns,        \* tasks of turns that are not streamed
  Refreshers,   \* tasks that call refresh
  MaxCode       \* bound: versions of the repository's code

VARIABLES
  code,         \* the version of the code
  graph,        \* the version the server's index is of; 0 is none
  indexed,      \* _indexed
  brief,        \* _brief: the version it describes; 0 is None
  queue,        \* _lock: its holder, then its waiters in order
  task,         \* task[t]: where t is in this object's methods
  live,         \* the layer is on
  overtaken     \* a turn was already past ensure_indexed when a refresh began anew

vars == <<code, graph, indexed, brief, queue, task, live, overtaken, conn>>
cache == <<indexed, brief>>

ASSUME CodeGraphAssumption ==
  /\ MaxCode \in Nat \ {0}
  /\ Indexer \notin Streams \cup Turns \cup Refreshers /\ Refreshers \cap (Streams \cup Turns) = {}

Tasks == Streams \cup Turns \cup Refreshers \cup {Indexer}

(* since: the code when the call began; seen: when its request was sent;
   again: architecture_brief has been entered. *)
Idle == [at |-> "idle", since |-> 0, seen |-> 0, got |-> 0, again |-> FALSE]

TypeOK ==
  /\ StreamTypeOK
  /\ code \in 1..MaxCode /\ graph \in 0..MaxCode
  /\ indexed \in BOOLEAN /\ brief \in 0..MaxCode
  /\ queue \in Seq(Tasks) /\ live \in BOOLEAN /\ overtaken \in BOOLEAN
  /\ task \in [Tasks -> [at : {"idle", "index", "indexing", "brief", "building", "clear", "done"},
                         since : 0..MaxCode, seen : 0..MaxCode, got : 0..MaxCode, again : BOOLEAN]]

Init ==
  /\ StreamInit
  /\ code = 1 /\ graph = 0 /\ indexed = FALSE /\ brief = 0
  /\ queue = <<>> /\ live = TRUE /\ overtaken = FALSE
  /\ task = [t \in Tasks |-> Idle]

-----------------------------------------------------------------------------
Holds(t)   == queue # <<>> /\ Head(queue) = t
Go(t, st)  == task' = [task EXCEPT ![t].at = st]

(* The queue without t, which stands in it once at most. *)
Place(t)   == CHOOSE i \in DOMAIN queue : queue[i] = t
Without(t) == IF t \in ToSet(queue) THEN RemoveAt(queue, Place(t)) ELSE queue

(* What a call has returned is looked at for refresh only. *)
Done(t, b) ==
  task' = [task EXCEPT ![t] = IF t \in Refreshers
                              THEN [Idle EXCEPT !.at = "done", !.since = task[t].since, !.got = b]
                              ELSE [Idle EXCEPT !.at = "done"]]

(* architecture_brief up to its first wait; ok and b are _indexed and _brief,
   q the lock's queue. *)
EnterBrief(t, ok, b, q) ==
  IF b # 0 THEN Done(t, b) /\ queue' = q
  ELSE /\ task' = [task EXCEPT ![t].at = IF ok THEN "brief" ELSE "index", ![t].again = TRUE]
       /\ queue' = Append(q, t)

(* ensure_indexed returns ok and lets the lock go: the task of the start is
   done; refresh enters architecture_brief; who is in there goes on. *)
Answer(t, ok, b) ==
  IF t = Indexer \/ (task[t].again /\ ~ok) THEN Done(t, 0) /\ queue' = Tail(queue)
  ELSE IF task[t].again THEN Go(t, "brief") /\ queue' = Append(Tail(queue), t)
  ELSE EnterBrief(t, ok, b, Tail(queue))

(* Mutant: ensure_indexed does not look again when it has the lock. *)
LooksOnce == FALSE

(* ensure_indexed in the lock: somebody else may have indexed meanwhile. *)
LooksAgain == indexed

-----------------------------------------------------------------------------
(* The turn's first step, on its way to the model: a code task asks for the
   brief, any other goes without. *)
TurnAsks(t) ==
  /\ t \in Streams => conn[t].next = "pending"
  /\ task[t].at = "idle"
  /\ \/ live /\ EnterBrief(t, indexed, brief, queue)
     \/ Done(t, 0) /\ UNCHANGED queue
  /\ UNCHANGED <<code, graph, cache, live, overtaken, conn>>

(* With the brief in its prompt, or without one, the turn makes events. *)
TurnMakes(t, what) ==
  /\ task[t].at = "done" /\ Produce(t, what)
  /\ UNCHANGED <<code, graph, cache, queue, task, live, overtaken>>

StartIndex ==
  /\ live /\ task[Indexer].at = "idle"
  /\ IF indexed THEN Done(Indexer, 0) /\ UNCHANGED queue
                ELSE Go(Indexer, "index") /\ queue' = Append(queue, Indexer)
  /\ UNCHANGED <<code, graph, cache, live, overtaken, conn>>

Refresh(t) ==
  /\ live /\ task[t].at = "idle"
  /\ task' = [task EXCEPT ![t].at = "clear", ![t].since = code]
  /\ queue' = Append(queue, t)
  /\ UNCHANGED <<code, graph, cache, live, overtaken, conn>>

(* Mutant: a refresh keeps the brief. *)
BriefKept == brief

(* A refresh forgets the brief with the index. *)
BriefForgotten == 0

(* refresh has the lock: it forgets, lets the lock go and asks for an index. *)
Clear(t) ==
  /\ task[t].at = "clear" /\ Holds(t)
  /\ indexed' = FALSE /\ brief' = BriefForgotten
  /\ Go(t, "index") /\ queue' = Append(Tail(queue), t)
  /\ overtaken' = (overtaken \/ \E u \in Tasks : task[u].at = "brief")
  /\ UNCHANGED <<code, graph, live, conn>>

TakeIndex(t) ==
  /\ task[t].at = "index" /\ Holds(t)
  /\ IF LooksAgain THEN Answer(t, TRUE, brief)
     ELSE /\ task' = [task EXCEPT ![t].at = "indexing", ![t].seen = code]
          /\ UNCHANGED queue
  /\ UNCHANGED <<code, graph, cache, live, overtaken, conn>>

(* The server has indexed a version of the time the call took. *)
IndexEnds(t) ==
  /\ task[t].at = "indexing" /\ live
  /\ \E v \in task[t].seen..code : graph' = v
  /\ indexed' = TRUE /\ Answer(t, TRUE, brief)
  /\ UNCHANGED <<code, brief, live, overtaken, conn>>

(* It fails, or is gone: not indexed, and no brief. *)
IndexFails(t) ==
  /\ task[t].at = "indexing"
  /\ indexed' = FALSE /\ brief' = 0 /\ Answer(t, FALSE, 0)
  /\ UNCHANGED <<code, graph, live, overtaken, conn>>

TakeBrief(t) ==
  /\ task[t].at = "brief" /\ Holds(t)
  /\ IF brief # 0 THEN Done(t, brief) /\ queue' = Tail(queue)
                  ELSE Go(t, "building") /\ UNCHANGED queue
  /\ UNCHANGED <<code, graph, cache, live, overtaken, conn>>

(* get_architecture describes the index there is. *)
BriefEnds(t) ==
  /\ task[t].at = "building" /\ live /\ graph # 0
  /\ brief' = graph /\ Done(t, graph) /\ queue' = Tail(queue)
  /\ UNCHANGED <<code, graph, indexed, live, overtaken, conn>>

(* It fails or is empty: nothing is kept. *)
BriefFails(t) ==
  /\ task[t].at = "building"
  /\ Done(t, 0) /\ queue' = Tail(queue)
  /\ UNCHANGED <<code, graph, cache, live, overtaken, conn>>

-----------------------------------------------------------------------------
StreamMoves(t) ==
  /\ OpenStream(t) \/ Look(t) \/ Ping(t) \/ Frame(t) \/ Leave(t)
  /\ UNCHANGED <<code, graph, cache, queue, task, live, overtaken>>

(* Mutant: a cancelled task keeps its place at the lock. *)
Held(t) == queue

(* A cancelled task gives the lock, or its place in the queue, up. *)
Given(t) == Without(t)

(* t is cancelled where it waits; what it asked of the server may be done. *)
Cancel(t) ==
  /\ Done(t, 0) /\ queue' = Given(t)
  /\ graph' \in {graph} \cup IF task[t].at = "indexing" THEN task[t].seen..code ELSE {}

(* A stream is over; with the task of the next event goes what it waits for. *)
StreamEnds(t) ==
  /\ Finally(t)
  /\ IF conn'[t].next = "none" THEN Cancel(t) ELSE UNCHANGED <<task, queue, graph>>
  /\ UNCHANGED <<code, cache, live, overtaken>>

(* stop_codebase_memory: the indexing task is cancelled, the client closed. *)
Stop ==
  /\ live /\ live' = FALSE /\ Cancel(Indexer)
  /\ UNCHANGED <<code, cache, overtaken, conn>>

Edit ==
  /\ code < MaxCode /\ code' = code + 1
  /\ UNCHANGED <<graph, cache, queue, task, live, overtaken, conn>>

Progress(t) ==
  \/ Clear(t) \/ TakeIndex(t) \/ IndexEnds(t) \/ IndexFails(t)
  \/ TakeBrief(t) \/ BriefEnds(t) \/ BriefFails(t)

Serves(t) == TurnAsks(t) \/ \E what \in {"event", "end", "error"} : TurnMakes(t, what)

Next ==
  \/ \E t \in Streams : Serves(t) \/ StreamMoves(t) \/ StreamEnds(t)
  \/ \E t \in Turns : TurnAsks(t)
  \/ \E t \in Refreshers : Refresh(t)
  \/ \E t \in Tasks : Progress(t)
  \/ StartIndex \/ Stop \/ Edit

(* Calls of the server and of models end: they have timeouts, but for the wait
   for a server to read what it is sent, which is assumed to end. *)
Spec ==
  /\ Init /\ [][Next]_vars
  /\ \A t \in Tasks : WF_vars(Progress(t))
  /\ \A t \in Streams :
       /\ WF_vars(Serves(t)) /\ WF_vars(StreamEnds(t))
       /\ WF_vars(StreamStep(t) /\ StreamMoves(t))

-----------------------------------------------------------------------------
(* "Force a re-index and rebuild the brief" (memory.py:114): what refresh
   returns is of the code as of its call or later, unless a turn was between
   ensure_indexed and its lock when the refresh forgot the old index. *)
RefreshIsFresh ==
  ~overtaken => \A t \in Refreshers : task[t].got # 0 => task[t].got >= task[t].since

(* "concurrent code tasks index only once" (memory.py:43): index_repository is
   called only while nothing is indexed, whoever waited for the lock. *)
IndexedOnce ==
  [][\A t \in Tasks : task[t].at # "indexing" /\ task'[t].at = "indexing" => ~indexed]_vars

(* The turn of a stream that is over asks for nothing any more, and does not
   stand in the way of others (app.py:1316-1332). *)
UpstreamStops ==
  \A t \in Streams : conn[t].at = "over" =>
    task[t].at \in {"idle", "done"} /\ conn[t].next # "pending" /\ t \notin ToSet(queue)

(* A stream gives all of its turn, and leaves nothing of it behind. *)
StreamsAreClean == TypeOK /\ UpstreamStops /\ StreamsAreWhole

(* Every stream comes to an end, although turns are abandoned holding the
   lock, and every call returns. *)
StreamsEnd ==
  /\ \A t \in Streams : conn[t].at \in {"loop", "race"} ~> conn[t].at = "over"
  /\ \A t \in Tasks : task[t].at # "idle" ~> task[t].at = "done"
=============================================================================
