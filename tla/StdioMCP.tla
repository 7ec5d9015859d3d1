------------------------------- MODULE StdioMCP -------------------------------
(***************************************************************************)
(* StdioMCPClient: JSON-RPC requests over the pipes of a subprocess, which *)
(* is respawned when a request loses it.  The Owner connects the client    *)
(* and disconnects it; callers issue tool calls, also at the same time (an *)
(* agent gathers the calls of one turn).  All run in one event loop: a     *)
(* task waits for the server to read what was written, for a line of it, a *)
(* timer, the reconnect lock, or the exit or the start of a process.       *)
(* Sending a request is a step of its own, which only adds interleavings.  *)
(* A client is connected once.  A message is the id of a request and the   *)
(* call it carries.                                                        *)
(***************************************************************************)
EXTENDS Integers, Sequences, FiniteSets

CONSTANTS
  Callers,       \* tasks in call_tool or list_tools
  Owner,         \* the task that connects and disconnects the client
  NoTask,
  MaxReconnects, \* max_reconnect_attempts
  Cancellable,   \* callers that may be cancelled
  MaxCalls,      \* bound: calls of each caller
  MaxProcs       \* bound: processes spawned

ASSUME OwnerAssumption == Owner \notin Callers /\ NoTask \notin Callers \cup {Owner}
ASSUME MaxReconnectsAssumption == MaxReconnects \in Nat
ASSUME CancellableAssumption == Cancellable \subseteq Callers
ASSUME BoundsAssumption == MaxCalls \in Nat /\ MaxProcs \in Nat

VARIABLES
  proc,        \* _proc, 0 for None
  connecting,  \* _connecting
  closed,      \* _closed
  lock,        \* holder of _reconnect_lock
  generation,  \* _generation
  reqId,       \* _req_id
  server,      \* server[p]: the p-th process
  spawned,     \* processes started so far
  pc,          \* pc[t]: what task t waits for
  call         \* call[t]: the call that task t is in, or was in last

client == <<proc, connecting, closed, lock, generation, reqId>>
vars == <<client, server, spawned, pc, call>>

Tasks == Callers \cup {Owner}
Procs == 0..MaxProcs     \* 0: None, which is never alive
Message == [id : Nat, of : Tasks, no : 0..MaxCalls]

(* alive: it runs; stdin: its input pipe is open; inbox: requests it has   *)
(* not answered; stdout: lines not yet read; reader: the task waiting in   *)
(* StreamReader.readline for the next line.                                *)
Server == [alive : BOOLEAN, stdin : BOOLEAN, inbox : SUBSET Message,
           stdout : Seq(Message), reader : Tasks \cup {NoTask}]
Unborn == [alive |-> FALSE, stdin |-> FALSE, inbox |-> {}, stdout |-> <<>>,
           reader |-> NoTask]

(* no: the number of the call, 0 for initialize; role: whether the task is *)
(* in the request of its call or in the handshake of a process it spawned; *)
(* attempts, seen: of _request; id, via: of _request_once, the request and *)
(* the process it is sent to; after: what follows the teardown the task is *)
(* in; end, got: how the call ended.                                       *)
Call == [no : 0..MaxCalls, role : {"request", "handshake"}, attempts : Nat,
         seen : Nat, id : Nat, via : Procs,
         after : {"spawn", "retry", "raise", "return"},
         end : {"none", "answered", "lost", "error", "cancelled"},
         got : Message]
NoMessage == [id |-> 0, of |-> Owner, no |-> 0]
NoCall == [no |-> 0, role |-> "request", attempts |-> 0, seen |-> 0, id |-> 0,
           via |-> 0, after |-> "return", end |-> "none", got |-> NoMessage]

Init ==
  /\ proc = 0 /\ connecting = FALSE /\ closed = FALSE /\ lock = NoTask
  /\ generation = 0 /\ reqId = 0 /\ spawned = 0
  /\ server = [p \in Procs |-> Unborn]
  /\ pc = [t \in Tasks |-> "idle"]
  /\ call = [t \in Tasks |-> NoCall]

Goto(t, label) == pc' = [pc EXCEPT ![t] = label]
Unlocked(t) == IF lock = t THEN NoTask ELSE lock

(* The task's call ends, after so many attempts: it leaves whatever it is  *)
(* in, and only the outcome is kept.                                       *)
Ended(t, how, msg, attempts) ==
  [call EXCEPT ![t] = [NoCall EXCEPT !.no = call[t].no, !.attempts = attempts,
                                     !.end = how, !.got = msg]]
Ends(t, how, msg) ==
  /\ Goto(t, "idle")
  /\ lock' = Unlocked(t)
  /\ call' = Ended(t, how, msg, call[t].attempts)

----------------------------------------------------------------------------
(* The owner. *)
(* Mutant: connect takes the reconnect lock, and does not release it. *)
ConnectUnderLock ==
  /\ pc[Owner] = "idle"
  /\ generation = 0 /\ proc = 0 /\ ~closed
  /\ lock' = Owner
  /\ Goto(Owner, "spawn")
  /\ UNCHANGED <<proc, connecting, closed, generation, reqId, server, spawned, call>>

Connect ==
  /\ pc[Owner] = "idle"
  /\ generation = 0 /\ proc = 0 /\ ~closed
  /\ Goto(Owner, "spawn")
  /\ UNCHANGED <<client, server, spawned, call>>

Disconnect ==
  /\ pc[Owner] = "idle"
  /\ generation > 0 /\ ~closed
  /\ closed' = TRUE
  /\ Goto(Owner, "reap")
  /\ call' = [call EXCEPT ![Owner].after = "return"]
  /\ UNCHANGED <<proc, connecting, lock, generation, reqId, server, spawned>>

(* A caller issues a request. *)
Request(t) ==
  /\ pc[t] = "idle"
  /\ generation > 0
  /\ call[t].no < MaxCalls
  /\ call' = [call EXCEPT ![t] = [NoCall EXCEPT !.no = call[t].no + 1,
                                                !.seen = generation]]
  /\ Goto(t, "send")
  /\ UNCHANGED <<client, server, spawned>>

----------------------------------------------------------------------------
(* The transport fails under task t, or its timer expires.  In a handshake *)
(* the new process is torn down and the failure ends there; in a call it   *)
(* is retried over a reconnect, as the flags and the budget allow.         *)
HandshakeFails(t) ==
  /\ connecting' = FALSE
  /\ Goto(t, "reap")
  /\ call' = [call EXCEPT ![t].after = IF t = Owner THEN "raise" ELSE "retry"]
  /\ UNCHANGED lock

GivesUp(t) ==
  connecting \/ closed \/ MaxReconnects = 0 \/ call[t].attempts + 1 > MaxReconnects

Lost(t, via) ==
  IF call[t].role = "handshake" THEN HandshakeFails(t)
  ELSE /\ UNCHANGED <<connecting, lock>>
       /\ IF GivesUp(t)
          THEN /\ Goto(t, "idle")
               /\ call' = Ended(t, "lost", NoMessage, call[t].attempts + 1)
          ELSE /\ Goto(t, "lock")
               /\ call' = [call EXCEPT ![t].attempts = @ + 1, ![t].via = via]

(* _send: with no process, or its stdin closed or broken, the transport is *)
(* lost; a write to a process that has died may also go unnoticed.  When   *)
(* the pipe is full the task waits in drain, and no timer runs.            *)
Send(t) ==
  LET msg == [id |-> reqId', of |-> t,
              no |-> IF call[t].role = "handshake" THEN 0 ELSE call[t].no]
  IN  /\ pc[t] = "send"
      /\ reqId' = reqId + 1
      /\ \/ /\ server[proc].stdin
            /\ server' = [server EXCEPT ![proc].inbox =
                            IF server[proc].alive THEN @ \cup {msg} ELSE @]
            /\ call' = [call EXCEPT ![t].id = reqId', ![t].via = proc]
            /\ \/ Goto(t, "recv")
               \/ server[proc].alive /\ Goto(t, "drain")
            /\ UNCHANGED <<connecting, lock>>
         \/ /\ ~server[proc].stdin \/ ~server[proc].alive
            /\ Lost(t, proc)
            /\ UNCHANGED server
      /\ UNCHANGED <<proc, closed, generation, spawned>>

----------------------------------------------------------------------------
(* drain: the server may read its stdin at any time, and may never do so.  *)
(* A process that has exited breaks the pipe.                              *)
InDrain(t) == pc[t] \in {"drain", "notify"}

Drained(t) ==
  /\ pc[t] = "drain"
  /\ server[call[t].via].alive
  /\ Goto(t, "recv")
  /\ UNCHANGED <<client, server, spawned, call>>

PipeBreaks(t) ==
  /\ InDrain(t)
  /\ ~server[call[t].via].alive
  /\ Lost(t, call[t].via)
  /\ UNCHANGED <<proc, closed, generation, reqId, server, spawned>>

----------------------------------------------------------------------------
(* _recv: lines are read, and dropped, up to the answer. *)
(* The handshake is over: the caller's reconnect, or connect, returns. *)
HandshakeDone(t) ==
  /\ connecting' = FALSE
  /\ generation' = generation + 1
  /\ lock' = Unlocked(t)
  /\ IF t = Owner
     THEN Goto(t, "idle") /\ call' = Ended(t, "answered", NoMessage, 0)
     ELSE /\ Goto(t, "send")
          /\ call' = [call EXCEPT ![t].role = "request", ![t].seen = generation']

(* _notify, at the end of a handshake, sends too. *)
Notify(t) ==
  \/ server[proc].stdin /\ HandshakeDone(t)
  \/ /\ server[proc].stdin /\ server[proc].alive
     /\ Goto(t, "notify")
     /\ UNCHANGED <<connecting, generation, lock, call>>
  \/ /\ ~server[proc].stdin \/ ~server[proc].alive
     /\ HandshakeFails(t) /\ UNCHANGED generation

Notified(t) ==
  /\ pc[t] = "notify"
  /\ server[call[t].via].alive
  /\ HandshakeDone(t)
  /\ UNCHANGED <<proc, closed, reqId, server, spawned>>

(* Mutant: the first line read is taken for the answer. *)
AnyLine(t, msg) == TRUE

IsAnswer(t, msg) == msg.id = call[t].id

TakeLine(t) ==
  LET p == call[t].via
      msg == Head(server[p].stdout)
  IN  /\ pc[t] = "recv"
      /\ server[p].stdout # <<>>
      /\ server' = [server EXCEPT ![p].stdout = Tail(@)]
      /\ CASE ~IsAnswer(t, msg) ->
                UNCHANGED <<connecting, generation, lock, pc, call>>
           [] IsAnswer(t, msg) /\ call[t].role = "request" ->
                Ends(t, "answered", msg) /\ UNCHANGED <<connecting, generation>>
           [] IsAnswer(t, msg) /\ call[t].role = "handshake" -> Notify(t)
      /\ UNCHANGED <<proc, closed, reqId, spawned>>

EndOfFile(t) ==
  /\ pc[t] = "recv"
  /\ server[call[t].via].stdout = <<>> /\ ~server[call[t].via].alive
  /\ Lost(t, call[t].via)
  /\ UNCHANGED <<proc, closed, generation, reqId, server, spawned>>

(* No line is there: the task waits for one, unless another task does.     *)
(* StreamReader admits one reader: a second readline raises RuntimeError,  *)
(* which is no loss of the transport.                                      *)
AwaitLine(t) ==
  LET p == call[t].via
  IN  /\ pc[t] = "recv"
      /\ server[p].stdout = <<>> /\ server[p].alive
      /\ IF server[p].reader = NoTask
         THEN /\ server' = [server EXCEPT ![p].reader = t]
              /\ Goto(t, "wait")
              /\ UNCHANGED <<connecting, lock, call>>
         ELSE /\ IF call[t].role = "handshake" THEN HandshakeFails(t)
                 ELSE Ends(t, "error", NoMessage) /\ UNCHANGED connecting
              /\ UNCHANGED server
      /\ UNCHANGED <<proc, closed, generation, reqId, spawned>>

Unread(t) ==
  [p \in Procs |-> IF server[p].reader = t THEN [server[p] EXCEPT !.reader = NoTask]
                   ELSE server[p]]

(* Mutant: the wait for an answer has no timeout. *)
NeverExpires(t) ==
  /\ FALSE
  /\ UNCHANGED vars

(* asyncio.wait_for gives up on the answer. *)
Expire(t) ==
  /\ pc[t] = "wait"
  /\ server' = Unread(t)
  /\ Lost(t, call[t].via)
  /\ UNCHANGED <<proc, closed, generation, reqId, spawned>>

----------------------------------------------------------------------------
(* _reconnect, under its lock. *)
(* Mutant: a link that another task has restored is not reused. *)
AlwaysStale(t) == ~closed

StillStale(t) == ~closed /\ generation = call[t].seen

(* The call goes around its loop: the request is sent again. *)
Retry(t) ==
  /\ Goto(t, "send")
  /\ lock' = Unlocked(t)
  /\ call' = [call EXCEPT ![t].role = "request", ![t].seen = generation]

EnterReconnect(t) ==
  /\ pc[t] = "lock"
  /\ lock = NoTask
  /\ IF StillStale(t)
     THEN lock' = t /\ Goto(t, "backoff") /\ UNCHANGED call
     ELSE Retry(t)
  /\ UNCHANGED <<proc, connecting, closed, generation, reqId, server, spawned>>

(* Mutant: the old process is not torn down before the next is spawned. *)
WakeUpAndSpawn(t) ==
  /\ pc[t] = "backoff"
  /\ Goto(t, "spawn")
  /\ UNCHANGED <<client, server, spawned, call>>

(* The backoff ends; the old process is torn down first. *)
WakeUp(t) ==
  /\ pc[t] = "backoff"
  /\ call' = [call EXCEPT ![t].after = "spawn"]
  /\ Goto(t, "reap")
  /\ UNCHANGED <<client, server, spawned>>

----------------------------------------------------------------------------
(* _teardown. *)
Continue(t) ==
  CASE call[t].after = "spawn" -> Goto(t, "spawn") /\ UNCHANGED <<lock, call>>
    [] call[t].after = "retry" -> Retry(t)
    [] call[t].after = "raise" ->
         Ends(t, IF t = Owner THEN "lost" ELSE "cancelled", NoMessage)
    [] call[t].after = "return" -> Goto(t, "idle") /\ UNCHANGED <<lock, call>>

(* The drain task is cancelled, stdin closed and the exit awaited; a task  *)
(* that waits for a line of the process reads on.                          *)
BeginTeardown(t) ==
  /\ pc[t] = "reap"
  /\ IF proc = 0 THEN Continue(t) /\ UNCHANGED server
     ELSE /\ server' = [server EXCEPT ![proc].stdin = FALSE]
          /\ Goto(t, "reaping")
          /\ UNCHANGED <<lock, call>>
  /\ UNCHANGED <<proc, connecting, closed, generation, reqId, spawned>>

Exited(p) == [server[p] EXCEPT !.alive = FALSE, !.inbox = {}, !.reader = NoTask]
Woken(p) == [t \in Tasks |-> IF pc[t] = "wait" /\ server[p].reader = t THEN "recv" ELSE pc[t]]

(* It does not exit in time and is killed. *)
Kill(t) ==
  /\ pc[t] = "reaping"
  /\ server[proc].alive
  /\ server' = [server EXCEPT ![proc] = Exited(proc)]
  /\ pc' = Woken(proc)
  /\ UNCHANGED <<client, spawned, call>>

(* proc.wait() returns. *)
Reaped(t) ==
  /\ pc[t] = "reaping"
  /\ ~server[proc].alive
  /\ proc' = 0
  /\ Continue(t)
  /\ UNCHANGED <<connecting, closed, generation, reqId, server, spawned>>

----------------------------------------------------------------------------
(* _spawn_and_initialize.  A task resumed by the exit of a process runs    *)
(* before a process started after that exit has come up.                   *)
ResumedByExit(t) ==
  \/ pc[t] = "reaping"
  \/ (pc[t] = "recv" \/ InDrain(t)) /\ ~server[call[t].via].alive
Spawned(t) ==
  /\ pc[t] = "spawn"
  /\ \A u \in Tasks : ~ResumedByExit(u)
  /\ spawned < MaxProcs
  /\ spawned' = spawned + 1
  /\ proc' = spawned'
  /\ server' = [server EXCEPT ![spawned'].alive = TRUE, ![spawned'].stdin = TRUE]
  /\ connecting' = TRUE
  /\ call' = [call EXCEPT ![t].role = "handshake"]
  /\ Goto(t, "send")
  /\ UNCHANGED <<closed, lock, generation, reqId>>

(* create_subprocess_exec raises. *)
SpawnFails(t) ==
  /\ pc[t] = "spawn"
  /\ IF t = Owner THEN Ends(t, "lost", NoMessage) ELSE Retry(t)
  /\ UNCHANGED <<proc, connecting, closed, generation, reqId, server, spawned>>

(* The task of a caller is cancelled.  A handshake tears its process down  *)
(* before it lets the cancellation through; the teardown's first await     *)
(* swallows it.                                                            *)
Cancel(t) ==
  /\ pc[t] \in {"drain", "recv", "wait", "notify", "lock", "backoff", "reaping", "spawn"}
  /\ server' = Unread(t)
  /\ IF pc[t] \in {"drain", "recv", "wait", "notify"} /\ call[t].role = "handshake"
     THEN /\ connecting' = FALSE
          /\ Goto(t, "reap")
          /\ call' = [call EXCEPT ![t].after = "raise"]
          /\ UNCHANGED lock
     ELSE Ends(t, "cancelled", NoMessage) /\ UNCHANGED connecting
  /\ UNCHANGED <<proc, closed, generation, reqId, spawned>>

----------------------------------------------------------------------------
(* The server answers its requests in any order; it may die at any time.   *)
Answer(p) ==
  \E msg \in server[p].inbox :
    /\ server[p].alive
    /\ server' = [server EXCEPT ![p].inbox = @ \ {msg}, ![p].stdout = Append(@, msg),
                                ![p].reader = NoTask]
    /\ pc' = Woken(p)
    /\ UNCHANGED <<client, spawned, call>>

Exit(p) ==
  /\ server[p].alive
  /\ server' = [server EXCEPT ![p] = Exited(p)]
  /\ pc' = Woken(p)
  /\ UNCHANGED <<client, spawned, call>>

----------------------------------------------------------------------------
(* What a task does once it is resumed. *)
Step(t) ==
  \/ Send(t) \/ PipeBreaks(t) \/ TakeLine(t) \/ EndOfFile(t) \/ AwaitLine(t) \/ Expire(t)
  \/ EnterReconnect(t) \/ WakeUp(t) \/ BeginTeardown(t) \/ Kill(t) \/ Reaped(t)
  \/ Spawned(t) \/ SpawnFails(t)

Next ==
  \/ Connect \/ Disconnect
  \/ (\E t \in Callers : Request(t)) \/ (\E t \in Cancellable : Cancel(t))
  \/ \E t \in Tasks : Step(t) \/ Drained(t) \/ Notified(t)
  \/ \E p \in Procs : Answer(p) \/ Exit(p)

Spec == Init /\ [][Next]_vars
(* Timers expire, locks are granted and processes start or fail to; that a *)
(* server reads its stdin is not assumed.                                  *)
FairSpec == Spec /\ \A t \in Tasks : WF_vars(Step(t))

----------------------------------------------------------------------------
TypeOK ==
  /\ proc \in 0..MaxProcs /\ spawned \in 0..MaxProcs
  /\ connecting \in BOOLEAN /\ closed \in BOOLEAN
  /\ lock \in Callers \cup {NoTask}
  /\ generation \in Nat /\ reqId \in Nat
  /\ server \in [Procs -> Server]
  /\ pc \in [Tasks -> {"idle", "send", "drain", "recv", "wait", "notify", "lock",
                       "backoff", "reap", "reaping", "spawn"}]
  /\ call \in [Tasks -> Call]

(* A call that returns a result returns the server's answer to that very   *)
(* call: not to another caller's, nor to an earlier call that timed out.   *)
AnswersAreOwn ==
  \A t \in Callers : call[t].end = "answered" =>
    call[t].got.of = t /\ call[t].got.no = call[t].no

(* Whatever the handshakes, teardowns and cancellations that overlap, a    *)
(* running subprocess is the one the client holds, so that it is reaped.   *)
AliveHasHandle == \A p \in Procs : server[p].alive => p = proc

(* The client knows its subprocess, and its own state. *)
LinkIsHeld == TypeOK /\ AliveHasHandle

(* A reconnect tears down the process its request was lost on, and not one *)
(* that another caller has brought up since.                               *)
SparesFreshLink ==
  [][\A t \in Callers :
       /\ pc[t] = "reap" /\ call[t].after = "spawn" /\ pc'[t] = "reaping"
       /\ server[proc].stdin
       => proc <= call[t].via]_vars

(* A call of a tool, connect and disconnect come to an end, whether or not *)
(* the servers answer or die: timers and budgets bound them, and the lock  *)
(* is let go.  Only a server that never reads its stdin holds a call up,   *)
(* for ever: in drain, or behind a handshake that is in drain.             *)
Unbounded(t) ==
  InDrain(t) \/ (pc[t] = "lock" /\ lock # NoTask /\ InDrain(lock))
CallsEnd == \A t \in Tasks : []<>(pc[t] = "idle") \/ <>[]Unbounded(t)
=============================================================================
