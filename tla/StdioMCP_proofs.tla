----------------------------- MODULE StdioMCP_proofs -----------------------------
(***************************************************************************)
(* For any number of callers, calls, reconnects and processes, whoever is  *)
(* cancelled: a running subprocess is the one the client holds, an answer  *)
(* goes to the call it is of, and a reconnect spares the process another   *)
(* caller has brought up.                                                  *)
(***************************************************************************)
EXTENDS StdioMCP, TLAPS

Labels == {"idle", "send", "drain", "recv", "wait", "notify", "lock", "backoff", "reap", "reaping",
           "spawn"}
Sending == {"send", "drain", "recv", "wait", "notify"}

(* A task that is at l in the call c shakes hands with a process it spawned,
   or is about to tear one down that failed to. *)
Shakes(l, c) ==
  \/ l \in Sending /\ c.role = "handshake"
  \/ l = "reap" /\ c.after \in {"retry", "raise"}

(* It waits for an answer, or for its turn to reconnect. *)
Waits(l, c) == l \in {"drain", "recv", "wait", "lock", "backoff"} \/ (l = "reap" /\ c.after = "spawn")

(* Who reconnects has the lock, and found the link it lost not restored. *)
CallerOK(t, l, c) ==
  /\ l # "idle" => generation > 0
  /\ c.seen <= generation
  /\ l \in {"backoff", "reap", "reaping", "spawn"} \/ Shakes(l, c) => lock = t
  /\ l = "backoff" \/ (l = "reap" /\ c.after = "spawn") => c.seen = generation
  /\ l \in {"reap", "reaping"} => c.after # "return"
  /\ l = "notify" => c.role = "handshake"

(* The owner brings the first process up before there is a caller. *)
OwnerOK(l, c) ==
  /\ l \notin {"lock", "backoff"}
  /\ l \in Sending \cup {"spawn"} => generation = 0
  /\ l \in Sending => c.role = "handshake"
  /\ l \in {"reap", "reaping"} => c.after \in {"raise", "return"} /\ (c.after = "raise" => generation = 0)

TaskOK(t, l, c) == (t \in Callers => CallerOK(t, l, c)) /\ (t = Owner => OwnerOK(l, c))

TasksOK == \A t \in Tasks : TaskOK(t, pc[t], call[t])

LinkOK ==
  /\ ~server[0].alive /\ ~server[0].stdin
  /\ AliveHasHandle
  /\ \A t \in Tasks : pc[t] = "spawn" => proc = 0

(* A process a call has not been sent to is either new, and shaking hands, or
   known by its generation. *)
FreshFor(l, c) ==
  Waits(l, c) /\ c.seen = generation /\ server[proc].stdin =>
    proc <= c.via \/ \E u \in Tasks : Shakes(pc[u], call[u])

FreshOK == \A t \in Callers : FreshFor(pc[t], call[t])

(* A request or an answer that process p has, or has given. *)
InLine(p, m) ==
  m \in server[p].inbox \/ \E i \in 1..Len(server[p].stdout) : server[p].stdout[i] = m

IdOK(t, l, c) ==
  l \in {"drain", "recv", "wait"} =>
    /\ c.id \in 1..reqId
    /\ \A p \in Procs, m \in Message : InLine(p, m) /\ m.id = c.id =>
         m.of = t /\ m.no = IF c.role = "handshake" THEN 0 ELSE c.no

MessagesOK ==
  /\ \A p \in Procs, m \in Message : InLine(p, m) => m.id \in 1..reqId
  /\ \A t \in Tasks : IdOK(t, pc[t], call[t])

StdioInv == TypeOK /\ LinkOK /\ TasksOK /\ FreshOK /\ MessagesOK /\ AnswersAreOwn

-----------------------------------------------------------------------------
Answers(t, c) == t \in Callers /\ c.end = "answered" => c.got.of = t /\ c.got.no = c.no

(* Task t goes on to l in the call new. *)
GoesOn(t, l, new) ==
  /\ l \in Labels /\ new \in Call
  /\ pc' = [pc EXCEPT ![t] = l] /\ call' = [call EXCEPT ![t] = new]
  /\ lock' \in Callers \cup {NoTask} /\ \A u \in Callers \ {t} : lock = u => lock' = u
  /\ connecting' \in BOOLEAN
  /\ TaskOK(t, l, new)'
  /\ l = "spawn" => proc' = 0
  /\ Shakes(pc[t], call[t]) => Shakes(l, new) \/ ~server'[proc'].stdin
  /\ Waits(l, new) => \/ proc' <= new.via
                      \/ /\ Waits(pc[t], call[t])
                         /\ new.via = call[t].via /\ new.seen = call[t].seen
  /\ Answers(t, new)

(* And it has sent nothing. *)
Turns(t, l, new) ==
  /\ GoesOn(t, l, new)
  /\ l \in {"drain", "recv", "wait"} =>
       /\ pc[t] \in {"drain", "recv", "wait"} /\ new.id = call[t].id
       /\ new.role = call[t].role /\ new.no = call[t].no

(* The link is as it was, or less of it is left. *)
LinkStays ==
  /\ proc' = proc \/ (proc' = 0 /\ ~server[proc].alive)
  /\ server' \in [Procs -> Server]
  /\ \A p \in Procs : (server'[p].alive => server[p].alive) /\ (server'[p].stdin => server[p].stdin)

NoneSent == \A p \in Procs, m \in Message : InLine(p, m)' => InLine(p, m)

LinkLeft == LinkStays /\ NoneSent

LEMMA Moved ==
  ASSUME StdioInv, NEW t \in Tasks, NEW l, NEW new, GoesOn(t, l, new)
  PROVE  /\ l \in Labels /\ new \in Call /\ pc' \in [Tasks -> Labels] /\ call' \in [Tasks -> Call]
         /\ pc'[t] = l /\ call'[t] = new /\ \A u \in Tasks \ {t} : pc'[u] = pc[u] /\ call'[u] = call[u]
BY DEF StdioInv, TypeOK, Labels, GoesOn

LEMMA RestStep ==
  ASSUME StdioInv, NEW t \in Tasks, NEW l, NEW new, GoesOn(t, l, new), LinkStays,
         generation' \in Nat, spawned' = spawned, closed' \in BOOLEAN, reqId' \in Nat
  PROVE  TypeOK' /\ LinkOK' /\ AnswersAreOwn'
<1>1. TypeOK /\ LinkOK /\ AnswersAreOwn
  BY DEF StdioInv
<1>2. proc \in Procs /\ MaxProcs \in Nat
  BY <1>1, BoundsAssumption DEF TypeOK, Procs
<1>3. /\ pc' \in [Tasks -> Labels] /\ call' \in [Tasks -> Call]
      /\ pc'[t] = l /\ call'[t] = new /\ \A u \in Tasks \ {t} : pc'[u] = pc[u] /\ call'[u] = call[u]
  BY Moved
<1>4. proc' \in Procs
  BY <1>2 DEF LinkStays, Procs
<1>5. TypeOK'
  <2>1. lock' \in Callers \cup {NoTask} /\ connecting' \in BOOLEAN
    BY DEF GoesOn
  <2> QED  BY <1>1, <1>3, <1>4, <2>1 DEF TypeOK, Labels, LinkStays, Procs
<1>6. LinkOK'
  <2>1. ~server'[0].alive /\ ~server'[0].stdin
    BY <1>1, <1>2 DEF LinkOK, LinkStays, Procs
  <2>2. AliveHasHandle'
    BY <1>1 DEF LinkOK, LinkStays, AliveHasHandle
  <2>3. ASSUME NEW u \in Tasks, pc'[u] = "spawn" PROVE proc' = 0
    BY <1>1, <1>3, <2>3 DEF LinkOK, LinkStays, GoesOn
  <2> QED  BY <2>1, <2>2, <2>3 DEF LinkOK
<1>7. AnswersAreOwn'
  <2> SUFFICES ASSUME NEW u \in Callers, call'[u].end = "answered"
               PROVE  call'[u].got.of = u /\ call'[u].got.no = call'[u].no
    BY DEF AnswersAreOwn
  <2> QED  BY <1>1, <1>3 DEF AnswersAreOwn, GoesOn, Answers, Tasks
<1> QED  BY <1>5, <1>6, <1>7

LEMMA TasksStep ==
  ASSUME StdioInv, NEW t \in Tasks, NEW l, NEW new, GoesOn(t, l, new), generation' = generation
  PROVE  TasksOK'
<1>1. pc'[t] = l /\ call'[t] = new /\ \A u \in Tasks \ {t} : pc'[u] = pc[u] /\ call'[u] = call[u]
  BY Moved
<1>2. ASSUME NEW u \in Tasks PROVE TaskOK(u, pc[u], call[u])'
  <2>1. CASE u = t
    <3>1. TaskOK(t, l, new)'
      BY DEF GoesOn
    <3> QED  BY <1>1, <2>1, <3>1 DEF TaskOK, CallerOK, OwnerOK, Sending, Shakes
  <2>2. CASE u # t
    <3>1. TaskOK(u, pc[u], call[u]) /\ pc'[u] = pc[u] /\ call'[u] = call[u]
      BY <1>1, <2>2 DEF StdioInv, TasksOK
    <3>2. u \in Callers /\ lock = u => lock' = u
      BY <2>2 DEF GoesOn
    <3> QED  BY <3>1, <3>2 DEF TaskOK, CallerOK, OwnerOK, Sending
  <2> QED  BY <2>1, <2>2
<1> QED  BY <1>2 DEF TasksOK

LEMMA FreshStep ==
  ASSUME StdioInv, NEW t \in Tasks, NEW l, NEW new, GoesOn(t, l, new), LinkStays,
         generation' = generation
  PROVE  FreshOK'
<1> SUFFICES ASSUME NEW u \in Callers, Waits(pc'[u], call'[u]), call'[u].seen = generation, server'[proc'].stdin
             PROVE  proc' <= call'[u].via \/ \E v \in Tasks : Shakes(pc'[v], call'[v])
  BY DEF FreshOK, FreshFor
<1>1. TypeOK /\ LinkOK /\ FreshOK /\ u \in Tasks /\ MaxProcs \in Nat
  BY BoundsAssumption DEF StdioInv, Tasks
<1>2. pc'[t] = l /\ call'[t] = new /\ \A v \in Tasks \ {t} : pc'[v] = pc[v] /\ call'[v] = call[v]
  BY Moved
<1>3. proc' = proc /\ server[proc].stdin
  BY <1>1 DEF LinkOK, LinkStays, Procs, TypeOK
<1>4. ASSUME NEW v \in Tasks, Shakes(pc[v], call[v]) PROVE Shakes(pc'[v], call'[v])
  BY <1>2, <1>4 DEF GoesOn
<1>5. CASE Waits(pc[u], call[u]) /\ call'[u].via = call[u].via /\ call'[u].seen = call[u].seen
  <2>1. proc <= call[u].via \/ \E v \in Tasks : Shakes(pc[v], call[v])
    BY <1>1, <1>3, <1>5 DEF FreshOK, FreshFor
  <2> QED  BY <1>3, <1>4, <1>5, <2>1
<1>6. CASE u # t
  BY <1>1, <1>2, <1>5, <1>6
<1>7. CASE u = t /\ proc' <= new.via
  BY <1>2, <1>7
<1> QED  BY <1>2, <1>5, <1>6, <1>7 DEF GoesOn

LEMMA MessagesStep ==
  ASSUME StdioInv, NEW t \in Tasks, NEW l, NEW new, Turns(t, l, new), NoneSent,
         reqId' \in Nat, reqId <= reqId'
  PROVE  MessagesOK'
<1>1. MessagesOK /\ reqId \in Nat
  BY DEF StdioInv, TypeOK
<1>2. pc'[t] = l /\ call'[t] = new /\ \A v \in Tasks \ {t} : pc'[v] = pc[v] /\ call'[v] = call[v]
  BY Moved DEF Turns
<1>3. ASSUME NEW p \in Procs, NEW m \in Message, InLine(p, m)' PROVE m.id \in 1..reqId'
  <2>1. m.id \in 1..reqId
    BY <1>1, <1>3 DEF MessagesOK, NoneSent
  <2> QED  BY <1>1, <2>1
<1>4. ASSUME NEW u \in Tasks, pc'[u] \in {"drain", "recv", "wait"}
      PROVE  /\ call'[u].id \in 1..reqId'
             /\ \A p \in Procs, m \in Message : InLine(p, m)' /\ m.id = call'[u].id =>
                  m.of = u /\ m.no = IF call'[u].role = "handshake" THEN 0 ELSE call'[u].no
  <2>1. /\ pc[u] \in {"drain", "recv", "wait"} /\ call'[u].id = call[u].id
        /\ call'[u].role = call[u].role /\ call'[u].no = call[u].no
    BY <1>2, <1>4 DEF Turns
  <2>2. IdOK(u, pc[u], call[u])
    BY <1>1 DEF MessagesOK
  <2>3. call[u].id \in 1..reqId'
    BY <1>1, <2>1, <2>2 DEF IdOK
  <2> QED  BY <2>1, <2>2, <2>3 DEF IdOK, NoneSent
<1> QED  BY <1>3, <1>4 DEF MessagesOK, IdOK

LEMMA StepKeeps ==
  ASSUME StdioInv, NEW t \in Tasks, NEW l, NEW new, Turns(t, l, new), LinkLeft,
         generation' = generation, spawned' = spawned, closed' \in BOOLEAN,
         reqId' \in Nat, reqId <= reqId'
  PROVE  StdioInv'
<1>1. GoesOn(t, l, new) /\ LinkStays /\ NoneSent /\ generation' \in Nat
  BY DEF Turns, LinkLeft, StdioInv, TypeOK
<1> QED  BY <1>1, RestStep, TasksStep, FreshStep, MessagesStep DEF StdioInv

-----------------------------------------------------------------------------
(* How a task may go on. *)
LEMMA Facts ==
  ASSUME StdioInv, NEW t \in Tasks
  PROVE  /\ pc[t] \in Labels /\ call[t] \in Call /\ pc \in [Tasks -> Labels] /\ call \in [Tasks -> Call]
         /\ TaskOK(t, pc[t], call[t]) /\ Answers(t, call[t])
         /\ proc \in Procs /\ 0 \in Procs /\ proc \in Nat /\ generation \in Nat /\ reqId \in Nat
         /\ connecting \in BOOLEAN /\ closed \in BOOLEAN /\ lock \in Callers \cup {NoTask}
         /\ Unlocked(t) \in Callers \cup {NoTask}
         /\ \A u \in Callers \ {t} : lock = u => Unlocked(t) = u
         /\ NoMessage \in Message /\ MaxCalls \in Nat /\ server \in [Procs -> Server]
         /\ ~server[0].stdin /\ ~server[0].alive
<1>1. MaxCalls \in Nat /\ MaxProcs \in Nat
  BY BoundsAssumption
<1>2. TypeOK /\ LinkOK /\ TasksOK /\ AnswersAreOwn
  BY DEF StdioInv
<1>3. NoMessage \in Message
  BY <1>1 DEF NoMessage, Message, Tasks
<1>4. Answers(t, call[t])
  BY <1>2 DEF Answers, AnswersAreOwn
<1>5. /\ proc \in Procs /\ 0 \in Procs /\ proc \in Nat
  BY <1>1, <1>2 DEF TypeOK, Procs
<1>6. Unlocked(t) \in Callers \cup {NoTask} /\ \A u \in Callers \ {t} : lock = u => Unlocked(t) = u
  BY <1>2 DEF TypeOK, Unlocked
<1> QED  BY <1>1, <1>2, <1>3, <1>4, <1>5, <1>6 DEF TypeOK, LinkOK, TasksOK, Labels

LEMMA EndedTurns ==
  ASSUME StdioInv, NEW t \in Tasks, NEW how \in {"answered", "lost", "error", "cancelled"},
         NEW msg \in Message, NEW n \in Nat, Goto(t, "idle"), call' = Ended(t, how, msg, n),
         lock' = lock \/ lock' = Unlocked(t), connecting' \in BOOLEAN, generation' \in Nat,
         ~Shakes(pc[t], call[t]) \/ ~server'[proc'].stdin,
         how = "answered" /\ t \in Callers => msg.of = t /\ msg.no = call[t].no
  PROVE  \E l, new : Turns(t, l, new)
<1>1. MaxCalls \in Nat /\ NoMessage \in Message /\ call[t].no \in 0..MaxCalls
  BY Facts DEF Call
<1>0. PICK new : new = [NoCall EXCEPT !.no = call[t].no, !.attempts = n, !.end = how, !.got = msg]
  OBVIOUS
<1>2. /\ new \in Call /\ new.seen = 0 /\ new.no = call[t].no /\ new.end = how /\ new.got = msg
  <2>1. 0 \in Procs
    BY Facts
  <2> QED  BY <1>0, <1>1, <2>1 DEF NoCall, Call
<1>3. pc' = [pc EXCEPT ![t] = "idle"] /\ call' = [call EXCEPT ![t] = new]
  BY <1>0 DEF Goto, Ended
<1>4. TaskOK(t, "idle", new)'
  BY <1>2 DEF TaskOK, CallerOK, OwnerOK, Sending, Shakes
<1>5. Answers(t, new) /\ ~Waits("idle", new)
  BY <1>2 DEF Answers, Waits
<1>6. lock' \in Callers \cup {NoTask} /\ \A u \in Callers \ {t} : lock = u => lock' = u
  BY Facts
<1>7. Turns(t, "idle", new)
  BY <1>2, <1>3, <1>4, <1>5, <1>6 DEF Turns, GoesOn, Labels
<1> QED  BY <1>7

LEMMA HandshakeFailsTurns ==
  ASSUME StdioInv, NEW t \in Tasks, pc[t] \in Sending, call[t].role = "handshake",
         NEW after \in {"retry", "raise"}, t = Owner => after = "raise",
         connecting' = FALSE, Goto(t, "reap"), call' = [call EXCEPT ![t].after = after],
         lock' = lock, generation' = generation
  PROVE  \E l, new : Turns(t, l, new)
<1>1. call[t] \in Call /\ TaskOK(t, pc[t], call[t]) /\ Answers(t, call[t]) /\ Shakes(pc[t], call[t])
  BY Facts DEF Shakes, Sending
<1>0. PICK new : new = [call[t] EXCEPT !.after = after]
  OBVIOUS
<1>2. /\ new \in Call /\ new.seen = call[t].seen /\ new.no = call[t].no /\ new.end = call[t].end
      /\ new.got = call[t].got /\ new.after = after
  BY <1>0, <1>1 DEF Call
<1>3. pc' = [pc EXCEPT ![t] = "reap"] /\ call' = [call EXCEPT ![t] = new]
  BY <1>0, Facts DEF Goto
<1>4. TaskOK(t, "reap", new)'
  BY <1>1, <1>2 DEF TaskOK, CallerOK, OwnerOK, Sending, Shakes
<1>5. Answers(t, new) /\ ~Waits("reap", new) /\ Shakes("reap", new)
  BY <1>1, <1>2 DEF Answers, Waits, Shakes, Sending
<1>6. lock' \in Callers \cup {NoTask}
  BY Facts
<1>7. Turns(t, "reap", new)
  BY <1>2, <1>3, <1>4, <1>5, <1>6 DEF Turns, GoesOn, Labels
<1> QED  BY <1>7

LEMMA LostTurns ==
  ASSUME StdioInv, NEW t \in Tasks, pc[t] \in Sending, NEW via \in Procs,
         (pc[t] = "send" /\ via = proc) \/ (pc[t] # "send" /\ via = call[t].via),
         Lost(t, via), generation' = generation, proc' = proc
  PROVE  \E l, new : Turns(t, l, new)
<1>1. /\ call[t] \in Call /\ TaskOK(t, pc[t], call[t]) /\ Answers(t, call[t])
      /\ generation \in Nat /\ connecting \in BOOLEAN /\ NoMessage \in Message /\ proc \in Nat
      /\ lock \in Callers \cup {NoTask} /\ call \in [Tasks -> Call]
  BY Facts
<1>2. CASE call[t].role = "handshake"
  <2>1. HandshakeFails(t)
    BY <1>2 DEF Lost
  <2>2. PICK after \in {"retry", "raise"} : after = IF t = Owner THEN "raise" ELSE "retry"
    OBVIOUS
  <2> QED  BY <1>2, <2>1, <2>2, HandshakeFailsTurns DEF HandshakeFails
<1>3. CASE call[t].role # "handshake"
  <2>1. ~Shakes(pc[t], call[t]) /\ t \in Callers /\ pc[t] # "idle"
    BY <1>1, <1>3 DEF Shakes, Sending, TaskOK, OwnerOK, Tasks
  <2>2. connecting' = connecting /\ lock' = lock
    BY <1>3 DEF Lost
  <2>3. CASE GivesUp(t)
    <3>1. Goto(t, "idle") /\ call' = Ended(t, "lost", NoMessage, call[t].attempts + 1)
      BY <1>3, <2>3 DEF Lost
    <3>2. PICK n \in Nat : n = call[t].attempts + 1
      BY <1>1 DEF Call
    <3> QED  BY <1>1, <2>1, <2>2, <3>1, <3>2, EndedTurns
  <2>4. CASE ~GivesUp(t)
    <3>0. PICK new : new = [call[t] EXCEPT !.attempts = @ + 1, !.via = via]
      OBVIOUS
    <3>1. /\ new \in Call /\ new.seen = call[t].seen /\ new.no = call[t].no /\ new.end = call[t].end
          /\ new.got = call[t].got /\ new.via = via
      <4>1. call[t].attempts + 1 \in Nat
        BY <1>1 DEF Call
      <4> QED  BY <3>0, <1>1, <4>1 DEF Call
    <3>2. pc' = [pc EXCEPT ![t] = "lock"] /\ call' = [call EXCEPT ![t] = new]
      BY <3>0, <1>1, <1>3, <2>4 DEF Goto, Lost
    <3>3. TaskOK(t, "lock", new)'
      BY <1>1, <2>1, <3>1, OwnerAssumption DEF TaskOK, CallerOK, Shakes, Sending
    <3>4. Answers(t, new)
      BY <1>1, <3>1 DEF Answers
    <3>5. proc' <= new.via \/ (Waits(pc[t], call[t]) /\ new.via = call[t].via /\ new.seen = call[t].seen)
      BY <1>1, <1>3, <2>1, <3>1 DEF Waits, Sending, TaskOK, CallerOK
    <3>6. Turns(t, "lock", new)
      BY <1>1, <2>1, <2>2, <3>1, <3>2, <3>3, <3>4, <3>5 DEF Turns, GoesOn, Labels
    <3> QED  BY <3>6
  <2> QED  BY <2>3, <2>4
<1> QED  BY <1>2, <1>3

LEMMA RetryTurns ==
  ASSUME StdioInv, NEW t \in Callers, pc[t] # "idle", Retry(t), generation' = generation,
         connecting' \in BOOLEAN, ~Shakes(pc[t], call[t]) \/ ~server'[proc'].stdin
  PROVE  \E l, new : Turns(t, l, new)
<1>1. t \in Tasks
  BY DEF Tasks
<1>2. /\ call[t] \in Call /\ TaskOK(t, pc[t], call[t]) /\ Answers(t, call[t]) /\ generation \in Nat
      /\ Unlocked(t) \in Callers \cup {NoTask} /\ \A u \in Callers \ {t} : lock = u => Unlocked(t) = u
      /\ call \in [Tasks -> Call]
  BY <1>1, Facts
<1>0. PICK new : new = [call[t] EXCEPT !.role = "request", !.seen = generation]
  OBVIOUS
<1>3. /\ new \in Call /\ new.seen = generation /\ new.no = call[t].no /\ new.end = call[t].end
      /\ new.got = call[t].got /\ new.role = "request"
  BY <1>0, <1>2 DEF Call
<1>4. pc' = [pc EXCEPT ![t] = "send"] /\ call' = [call EXCEPT ![t] = new] /\ lock' = Unlocked(t)
  BY <1>0, <1>1, <1>2 DEF Goto, Retry
<1>5. TaskOK(t, "send", new)'
  BY <1>2, <1>3, OwnerAssumption DEF TaskOK, CallerOK, Shakes, Sending
<1>6. Answers(t, new) /\ ~Waits("send", new)
  BY <1>2, <1>3 DEF Answers, Waits
<1>7. Turns(t, "send", new)
  BY <1>2, <1>3, <1>4, <1>5, <1>6 DEF Turns, GoesOn, Labels
<1> QED  BY <1>7

LEMMA ContinueTurns ==
  ASSUME StdioInv, NEW t \in Tasks, pc[t] \in {"reap", "reaping"}, Continue(t), generation' = generation,
         connecting' = connecting, proc' = 0, ~server'[0].stdin
  PROVE  \E l, new : Turns(t, l, new)
<1>1. /\ call[t] \in Call /\ TaskOK(t, pc[t], call[t]) /\ Answers(t, call[t]) /\ generation \in Nat
      /\ lock \in Callers \cup {NoTask} /\ connecting \in BOOLEAN /\ NoMessage \in Message
      /\ call \in [Tasks -> Call]
  BY Facts
<1>2. call[t].after \in {"spawn", "retry", "raise", "return"}
  BY <1>1 DEF Call
<1>3. call[t].after \in {"spawn", "retry"} => t \in Callers
  BY <1>1 DEF TaskOK, OwnerOK, Sending, Tasks
<1>4. ASSUME NEW l \in {"spawn", "idle"}, Goto(t, l), UNCHANGED <<lock, call>>,
             l = "spawn" => t \in Callers
      PROVE  Turns(t, l, call[t])
  <2>1. PICK c : c = call[t]
    OBVIOUS
  <2>2. pc' = [pc EXCEPT ![t] = l] /\ call' = [call EXCEPT ![t] = c]
    BY <1>1, <1>4, <2>1 DEF Goto
  <2>3. TaskOK(t, l, c)'
    BY <1>1, <1>4, <2>1, OwnerAssumption DEF TaskOK, CallerOK, OwnerOK, Sending, Shakes
  <2>4. Turns(t, l, c)
    BY <1>1, <1>4, <2>1, <2>2, <2>3 DEF Turns, GoesOn, Labels, Waits
  <2> QED  BY <2>1, <2>4 DEF Turns, GoesOn, TaskOK, CallerOK, OwnerOK, Sending
<1>5. CASE call[t].after = "spawn"
  <2>1. Goto(t, "spawn") /\ UNCHANGED <<lock, call>>
    BY <1>5 DEF Continue
  <2> QED  BY <1>3, <1>4, <1>5, <2>1
<1>6. CASE call[t].after = "retry"
  <2>1. Retry(t)
    BY <1>6 DEF Continue
  <2> QED  BY <1>1, <1>3, <1>6, <2>1, RetryTurns
<1>7. CASE call[t].after = "raise"
  <2>1. PICK how \in {"lost", "cancelled"} : how = IF t = Owner THEN "lost" ELSE "cancelled"
    OBVIOUS
  <2>2. Ends(t, how, NoMessage)
    BY <1>7, <2>1 DEF Continue
  <2>3. PICK n \in Nat : n = call[t].attempts
    BY <1>1 DEF Call
  <2> QED  BY <1>1, <2>2, <2>3, EndedTurns DEF Ends
<1>8. CASE call[t].after = "return"
  <2>1. Goto(t, "idle") /\ UNCHANGED <<lock, call>>
    BY <1>8 DEF Continue
  <2> QED  BY <1>4, <2>1
<1> QED  BY <1>2, <1>5, <1>6, <1>7, <1>8

-----------------------------------------------------------------------------
(* The actions that leave of the link what there is. *)
LEMMA SameLink ==
  ASSUME StdioInv, proc' = proc, server' = server
  PROVE  LinkLeft
BY DEF StdioInv, TypeOK, LinkLeft, LinkStays, NoneSent, InLine

LEMMA UnreadLink ==
  ASSUME StdioInv, NEW t \in Tasks, proc' = proc, server' = Unread(t)
  PROVE  /\ LinkLeft
         /\ \A p \in Procs : server'[p].stdin = server[p].stdin
<1>1. server \in [Procs -> Server]
  BY DEF StdioInv, TypeOK
<1>2. ASSUME NEW p \in Procs
      PROVE  /\ server'[p] \in Server /\ server'[p].alive = server[p].alive /\ server'[p].stdin = server[p].stdin
             /\ server'[p].inbox = server[p].inbox /\ server'[p].stdout = server[p].stdout
  BY <1>1 DEF Unread, Server
<1>3. server' \in [Procs -> Server]
  BY <1>2 DEF Unread
<1> QED  BY <1>2, <1>3 DEF LinkLeft, LinkStays, NoneSent, InLine

LEMMA ReaderLink ==
  ASSUME StdioInv, NEW p \in Procs, NEW t \in Tasks, proc' = proc,
         server' = [server EXCEPT ![p].reader = t]
  PROVE  LinkLeft
<1>1. server \in [Procs -> Server]
  BY DEF StdioInv, TypeOK
<1>2. ASSUME NEW q \in Procs
      PROVE  /\ server'[q] \in Server /\ server'[q].alive = server[q].alive /\ server'[q].stdin = server[q].stdin
             /\ server'[q].inbox = server[q].inbox /\ server'[q].stdout = server[q].stdout
  BY <1>1 DEF Server
<1> QED  BY <1>1, <1>2 DEF LinkLeft, LinkStays, NoneSent, InLine

LEMMA TailLink ==
  ASSUME StdioInv, NEW p \in Procs, server[p].stdout # <<>>, proc' = proc,
         server' = [server EXCEPT ![p].stdout = Tail(@)]
  PROVE  /\ LinkLeft
         /\ Head(server[p].stdout) \in Message /\ InLine(p, Head(server[p].stdout))
         /\ \A q \in Procs : server'[q].stdin = server[q].stdin
<1>1. server \in [Procs -> Server]
  BY DEF StdioInv, TypeOK
<1>2. PICK s \in Seq(Message) : s = server[p].stdout
  BY <1>1 DEF Server
<1>3. /\ Tail(s) \in Seq(Message) /\ Head(s) = s[1] /\ Head(s) \in Message /\ Len(s) \in Nat /\ Len(s) >= 1
      /\ \A i \in 1..Len(Tail(s)) : i + 1 \in 1..Len(s) /\ Tail(s)[i] = s[i + 1]
  BY <1>2
<1>4. ASSUME NEW q \in Procs
      PROVE  /\ server'[q] \in Server /\ server'[q].alive = server[q].alive /\ server'[q].stdin = server[q].stdin
             /\ server'[q].inbox = server[q].inbox
             /\ server'[q].stdout = IF q = p THEN Tail(s) ELSE server[q].stdout
  BY <1>1, <1>2, <1>3 DEF Server
<1>5. ASSUME NEW q \in Procs, NEW m \in Message, InLine(q, m)' PROVE InLine(q, m)
  <2>1. CASE q # p
    BY <1>4, <1>5, <2>1 DEF InLine
  <2>2. CASE q = p
    BY <1>2, <1>3, <1>4, <1>5, <2>2 DEF InLine
  <2> QED  BY <2>1, <2>2
<1>6. InLine(p, Head(s))
  BY <1>2, <1>3 DEF InLine
<1> QED  BY <1>1, <1>2, <1>3, <1>4, <1>5, <1>6 DEF LinkLeft, LinkStays, NoneSent

LEMMA ConnectKeeps ==
  ASSUME StdioInv, Connect
  PROVE  StdioInv'
<1>1. PICK c : c = call[Owner]
  OBVIOUS
<1>2. /\ Owner \in Tasks /\ c \in Call /\ Answers(Owner, c) /\ call \in [Tasks -> Call]
      /\ lock \in Callers \cup {NoTask} /\ connecting \in BOOLEAN /\ reqId \in Nat /\ closed \in BOOLEAN
  BY <1>1, Facts DEF Tasks
<1>3. /\ pc' = [pc EXCEPT ![Owner] = "spawn"] /\ call' = [call EXCEPT ![Owner] = c]
      /\ generation = 0 /\ proc = 0 /\ pc[Owner] = "idle" /\ UNCHANGED <<client, server, spawned>>
  BY <1>1, <1>2 DEF Connect, Goto
<1>4. TaskOK(Owner, "spawn", c)'
  BY <1>3, OwnerAssumption DEF TaskOK, OwnerOK, Sending, client
<1>5. Turns(Owner, "spawn", c)
  BY <1>2, <1>3, <1>4 DEF Turns, GoesOn, Labels, client, Shakes, Sending, Waits
<1> QED  BY <1>2, <1>3, <1>5, SameLink, StepKeeps DEF client

LEMMA DisconnectKeeps ==
  ASSUME StdioInv, Disconnect
  PROVE  StdioInv'
<1>1. /\ Owner \in Tasks /\ call[Owner] \in Call /\ call \in [Tasks -> Call]
      /\ lock \in Callers \cup {NoTask} /\ connecting \in BOOLEAN /\ reqId \in Nat
  BY Facts DEF Tasks
<1>2. PICK new : new = [call[Owner] EXCEPT !.after = "return"]
  OBVIOUS
<1>3. new \in Call /\ new.after = "return"
  BY <1>1, <1>2 DEF Call
<1>4. pc' = [pc EXCEPT ![Owner] = "reap"] /\ call' = [call EXCEPT ![Owner] = new] /\ pc[Owner] = "idle"
  BY <1>1, <1>2 DEF Disconnect, Goto
<1>5. TaskOK(Owner, "reap", new)'
  BY <1>3, OwnerAssumption DEF TaskOK, OwnerOK, Sending
<1>6. Turns(Owner, "reap", new)
  BY <1>1, <1>3, <1>4, <1>5, OwnerAssumption DEF Turns, GoesOn, Labels, Disconnect, Shakes, Sending, Waits, Answers
<1> QED  BY <1>1, <1>6, SameLink, StepKeeps DEF Disconnect

LEMMA RequestKeeps ==
  ASSUME StdioInv, NEW t \in Callers, Request(t)
  PROVE  StdioInv'
<1>1. /\ t \in Tasks /\ call[t] \in Call /\ call \in [Tasks -> Call] /\ generation \in Nat
      /\ lock \in Callers \cup {NoTask} /\ connecting \in BOOLEAN /\ closed \in BOOLEAN /\ reqId \in Nat
      /\ NoMessage \in Message /\ MaxCalls \in Nat
  BY Facts DEF Tasks
<1>2. call[t].no + 1 \in 0..MaxCalls
  BY <1>1 DEF Call, Request
<1>3. PICK new : new = [NoCall EXCEPT !.no = call[t].no + 1, !.seen = generation]
  OBVIOUS
<1>4. /\ new \in Call /\ new.seen = generation /\ new.role = "request" /\ new.end = "none"
  <2>1. 0 \in Procs
    BY <1>1, Facts
  <2> QED  BY <1>1, <1>2, <1>3, <2>1 DEF NoCall, Call
<1>5. /\ pc' = [pc EXCEPT ![t] = "send"] /\ call' = [call EXCEPT ![t] = new] /\ pc[t] = "idle"
      /\ generation > 0 /\ UNCHANGED <<client, server, spawned>>
  BY <1>1, <1>3 DEF Request, Goto
<1>6. TaskOK(t, "send", new)'
  BY <1>1, <1>4, <1>5, OwnerAssumption DEF TaskOK, CallerOK, Shakes, Sending, client
<1>7. Turns(t, "send", new)
  BY <1>1, <1>4, <1>5, <1>6 DEF Turns, GoesOn, Labels, client, Shakes, Sending, Waits, Answers
<1> QED  BY <1>1, <1>5, <1>7, SameLink, StepKeeps DEF client

LEMMA EndOfFileKeeps ==
  ASSUME StdioInv, NEW t \in Tasks, EndOfFile(t)
  PROVE  StdioInv'
<1>1. call[t].via \in Procs /\ closed \in BOOLEAN /\ reqId \in Nat
  BY Facts DEF Call
<1>2. \E l, new : Turns(t, l, new)
  BY <1>1, LostTurns DEF EndOfFile, Sending
<1> QED  BY <1>1, <1>2, SameLink, StepKeeps DEF EndOfFile

LEMMA PipeBreaksKeeps ==
  ASSUME StdioInv, NEW t \in Tasks, PipeBreaks(t)
  PROVE  StdioInv'
<1>1. call[t].via \in Procs /\ closed \in BOOLEAN /\ reqId \in Nat
  BY Facts DEF Call
<1>2. \E l, new : Turns(t, l, new)
  BY <1>1, LostTurns DEF PipeBreaks, InDrain, Sending
<1> QED  BY <1>1, <1>2, SameLink, StepKeeps DEF PipeBreaks

LEMMA DrainedKeeps ==
  ASSUME StdioInv, NEW t \in Tasks, Drained(t)
  PROVE  StdioInv'
<1>1. /\ closed \in BOOLEAN /\ reqId \in Nat /\ connecting \in BOOLEAN /\ generation \in Nat
      /\ call \in [Tasks -> Call] /\ TaskOK(t, pc[t], call[t]) /\ Answers(t, call[t]) /\ call[t] \in Call
      /\ lock \in Callers \cup {NoTask}
  BY Facts
<1>2. pc[t] = "drain" /\ Goto(t, "recv") /\ UNCHANGED <<client, server, spawned, call>>
  BY DEF Drained
<1>3. PICK c : c = call[t]
  OBVIOUS
<1>4. pc' = [pc EXCEPT ![t] = "recv"] /\ call' = [call EXCEPT ![t] = c]
  BY <1>1, <1>2, <1>3 DEF Goto
<1>5. TaskOK(t, "recv", c)'
  BY <1>1, <1>2, <1>3 DEF TaskOK, CallerOK, OwnerOK, Shakes, Sending, client
<1>6. Turns(t, "recv", c)
  BY <1>1, <1>2, <1>3, <1>4, <1>5 DEF Turns, GoesOn, Labels, Waits, Shakes, Sending, client
<1> QED  BY <1>1, <1>2, <1>6, SameLink, StepKeeps DEF client

LEMMA ExpireKeeps ==
  ASSUME StdioInv, NEW t \in Tasks, Expire(t)
  PROVE  StdioInv'
<1>1. call[t].via \in Procs /\ closed \in BOOLEAN /\ reqId \in Nat
  BY Facts DEF Call
<1>2. \E l, new : Turns(t, l, new)
  BY <1>1, LostTurns DEF Expire, Sending
<1> QED  BY <1>1, <1>2, UnreadLink, StepKeeps DEF Expire

LEMMA SpawnFailsKeeps ==
  ASSUME StdioInv, NEW t \in Tasks, SpawnFails(t)
  PROVE  StdioInv'
<1>1. /\ closed \in BOOLEAN /\ reqId \in Nat /\ NoMessage \in Message /\ call[t].attempts \in Nat
      /\ connecting \in BOOLEAN /\ generation \in Nat
  BY Facts DEF Call
<1>2. ~Shakes(pc[t], call[t]) /\ pc[t] = "spawn"
  BY DEF SpawnFails, Shakes, Sending
<1>3. \E l, new : Turns(t, l, new)
  <2>1. CASE t = Owner
    <3>1. PICK n \in Nat : n = call[t].attempts
      BY <1>1
    <3> QED  BY <1>1, <1>2, <2>1, <3>1, EndedTurns DEF SpawnFails, Ends
  <2>2. CASE t # Owner
    BY <1>1, <1>2, <2>2, RetryTurns DEF SpawnFails, Tasks
  <2> QED  BY <2>1, <2>2
<1> QED  BY <1>1, <1>3, SameLink, StepKeeps DEF SpawnFails

LEMMA EnterReconnectKeeps ==
  ASSUME StdioInv, NEW t \in Tasks, EnterReconnect(t)
  PROVE  StdioInv'
<1>1. /\ closed \in BOOLEAN /\ reqId \in Nat /\ connecting \in BOOLEAN /\ generation \in Nat
      /\ call \in [Tasks -> Call] /\ TaskOK(t, pc[t], call[t]) /\ Answers(t, call[t]) /\ call[t] \in Call
  BY Facts
<1>2. pc[t] = "lock" /\ ~Shakes(pc[t], call[t]) /\ t \in Callers /\ lock = NoTask
  BY <1>1 DEF EnterReconnect, Shakes, Sending, TaskOK, OwnerOK, Tasks
<1>3. UNCHANGED <<proc, connecting, closed, generation, reqId, server, spawned>>
  BY DEF EnterReconnect
<1>4. CASE Retry(t)
  <2>1. \E l, new : Turns(t, l, new)
    BY <1>1, <1>2, <1>3, <1>4, RetryTurns
  <2> QED  BY <1>1, <1>3, <2>1, SameLink, StepKeeps
<1>5. CASE StillStale(t) /\ lock' = t /\ Goto(t, "backoff") /\ UNCHANGED call
  <2>1. PICK c : c = call[t]
    OBVIOUS
  <2>2. pc' = [pc EXCEPT ![t] = "backoff"] /\ call' = [call EXCEPT ![t] = c]
    BY <1>1, <1>5, <2>1 DEF Goto
  <2>3. TaskOK(t, "backoff", c)'
    BY <1>1, <1>2, <1>3, <1>5, <2>1, OwnerAssumption DEF TaskOK, CallerOK, Shakes, Sending, StillStale
  <2>4. \A u \in Callers \ {t} : lock = u => lock' = u
    BY <1>2, OwnerAssumption
  <2>5. Turns(t, "backoff", c)
    BY <1>1, <1>2, <1>3, <1>5, <2>1, <2>2, <2>3, <2>4 DEF Turns, GoesOn, Labels, Waits
  <2> QED  BY <1>1, <1>3, <2>5, SameLink, StepKeeps
<1> QED  BY <1>4, <1>5 DEF EnterReconnect

LEMMA WakeUpKeeps ==
  ASSUME StdioInv, NEW t \in Tasks, WakeUp(t)
  PROVE  StdioInv'
<1>1. /\ closed \in BOOLEAN /\ reqId \in Nat /\ connecting \in BOOLEAN /\ generation \in Nat
      /\ call \in [Tasks -> Call] /\ TaskOK(t, pc[t], call[t]) /\ Answers(t, call[t]) /\ call[t] \in Call
      /\ lock \in Callers \cup {NoTask}
  BY Facts
<1>2. pc[t] = "backoff" /\ ~Shakes(pc[t], call[t]) /\ t \in Callers
  BY <1>1 DEF WakeUp, Shakes, Sending, TaskOK, OwnerOK, Tasks
<1>3. UNCHANGED <<client, server, spawned>>
  BY DEF WakeUp
<1>4. PICK new : new = [call[t] EXCEPT !.after = "spawn"]
  OBVIOUS
<1>5. /\ new \in Call /\ new.seen = call[t].seen /\ new.no = call[t].no /\ new.end = call[t].end
      /\ new.got = call[t].got /\ new.via = call[t].via /\ new.after = "spawn"
  BY <1>1, <1>4 DEF Call
<1>6. pc' = [pc EXCEPT ![t] = "reap"] /\ call' = [call EXCEPT ![t] = new]
  BY <1>1, <1>4 DEF WakeUp, Goto
<1>7. TaskOK(t, "reap", new)'
  BY <1>1, <1>2, <1>3, <1>5, OwnerAssumption DEF TaskOK, CallerOK, Shakes, Sending, client
<1>8. Turns(t, "reap", new)
  BY <1>1, <1>2, <1>3, <1>5, <1>6, <1>7 DEF Turns, GoesOn, Labels, Waits, Answers, client
<1> QED  BY <1>1, <1>3, <1>8, SameLink, StepKeeps DEF client

LEMMA BeginTeardownKeeps ==
  ASSUME StdioInv, NEW t \in Tasks, BeginTeardown(t)
  PROVE  StdioInv'
<1>1. /\ closed \in BOOLEAN /\ reqId \in Nat /\ connecting \in BOOLEAN /\ generation \in Nat
      /\ call \in [Tasks -> Call] /\ TaskOK(t, pc[t], call[t]) /\ Answers(t, call[t]) /\ call[t] \in Call
      /\ lock \in Callers \cup {NoTask} /\ proc \in Procs /\ ~server[0].stdin /\ server \in [Procs -> Server]
  BY Facts
<1>2. pc[t] = "reap" /\ UNCHANGED <<proc, connecting, closed, generation, reqId, spawned>>
  BY DEF BeginTeardown
<1>3. CASE proc = 0
  <2>1. Continue(t) /\ server' = server
    BY <1>3 DEF BeginTeardown
  <2>2. \E l, new : Turns(t, l, new)
    BY <1>1, <1>2, <1>3, <2>1, ContinueTurns
  <2> QED  BY <1>1, <1>2, <2>1, <2>2, SameLink, StepKeeps
<1>4. CASE proc # 0
  <2>1. server' = [server EXCEPT ![proc].stdin = FALSE] /\ Goto(t, "reaping") /\ UNCHANGED <<lock, call>>
    BY <1>4 DEF BeginTeardown
  <2>2. PICK c : c = call[t]
    OBVIOUS
  <2>3. pc' = [pc EXCEPT ![t] = "reaping"] /\ call' = [call EXCEPT ![t] = c]
    BY <1>1, <2>1, <2>2 DEF Goto
  <2>4. TaskOK(t, "reaping", c)'
    BY <1>1, <1>2, <2>1, <2>2 DEF TaskOK, CallerOK, OwnerOK, Sending, Shakes
  <2>5. ASSUME NEW q \in Procs
        PROVE  /\ server'[q] \in Server /\ server'[q].alive = server[q].alive
               /\ server'[q].stdin = IF q = proc THEN FALSE ELSE server[q].stdin
               /\ server'[q].inbox = server[q].inbox /\ server'[q].stdout = server[q].stdout
    BY <1>1, <2>1 DEF Server
  <2>6. LinkLeft
    BY <1>1, <1>2, <2>1, <2>5 DEF LinkLeft, LinkStays, NoneSent, InLine
  <2>7. ~server'[proc'].stdin
    BY <1>1, <1>2, <2>5
  <2>8. Turns(t, "reaping", c)
    BY <1>1, <1>2, <2>1, <2>2, <2>3, <2>4, <2>7 DEF Turns, GoesOn, Labels, Waits
  <2> QED  BY <1>1, <1>2, <2>6, <2>8, StepKeeps
<1> QED  BY <1>3, <1>4

LEMMA ReapedKeeps ==
  ASSUME StdioInv, NEW t \in Tasks, Reaped(t)
  PROVE  StdioInv'
<1>1. /\ closed \in BOOLEAN /\ reqId \in Nat /\ ~server[0].stdin /\ server \in [Procs -> Server]
  BY Facts
<1>2. \E l, new : Turns(t, l, new)
  BY <1>1, ContinueTurns DEF Reaped
<1>3. LinkLeft
  BY <1>1 DEF Reaped, LinkLeft, LinkStays, NoneSent, InLine
<1> QED  BY <1>1, <1>2, <1>3, StepKeeps DEF Reaped

LEMMA AwaitLineKeeps ==
  ASSUME StdioInv, NEW t \in Tasks, AwaitLine(t)
  PROVE  StdioInv'
<1>1. /\ closed \in BOOLEAN /\ reqId \in Nat /\ connecting \in BOOLEAN /\ generation \in Nat
      /\ call \in [Tasks -> Call] /\ TaskOK(t, pc[t], call[t]) /\ Answers(t, call[t]) /\ call[t] \in Call
      /\ lock \in Callers \cup {NoTask} /\ NoMessage \in Message
  BY Facts
<1>2. pc[t] = "recv" /\ UNCHANGED <<proc, closed, generation, reqId, spawned>>
  BY DEF AwaitLine
<1>3. PICK p : p = call[t].via
  OBVIOUS
<1>4. CASE server[p].reader = NoTask
  <2>1. /\ server' = [server EXCEPT ![p].reader = t] /\ Goto(t, "wait")
        /\ UNCHANGED <<connecting, lock, call>>
    BY <1>3, <1>4 DEF AwaitLine
  <2>2. PICK c : c = call[t]
    OBVIOUS
  <2>3. pc' = [pc EXCEPT ![t] = "wait"] /\ call' = [call EXCEPT ![t] = c]
    BY <1>1, <2>1, <2>2 DEF Goto
  <2>4. TaskOK(t, "wait", c)'
    BY <1>1, <1>2, <2>1, <2>2 DEF TaskOK, CallerOK, OwnerOK, Sending, Shakes
  <2>5. LinkLeft
    <3>1. CASE p \in Procs
      BY <1>2, <2>1, <3>1, ReaderLink
    <3>2. CASE p \notin Procs
      BY <1>2, <2>1, <3>2, SameLink DEF StdioInv, TypeOK
    <3> QED  BY <3>1, <3>2
  <2>6. Turns(t, "wait", c)
    BY <1>1, <1>2, <2>1, <2>2, <2>3, <2>4 DEF Turns, GoesOn, Labels, Waits, Shakes, Sending
  <2> QED  BY <1>1, <1>2, <2>5, <2>6, StepKeeps
<1>5. CASE server[p].reader # NoTask
  <2>1. server' = server
    BY <1>3, <1>5 DEF AwaitLine
  <2>2. \E l, new : Turns(t, l, new)
    <3>1. CASE call[t].role = "handshake"
      <4>1. HandshakeFails(t)
        BY <1>3, <1>5, <3>1 DEF AwaitLine
      <4>2. PICK after \in {"retry", "raise"} : after = IF t = Owner THEN "raise" ELSE "retry"
        OBVIOUS
      <4> QED  BY <1>2, <3>1, <4>1, <4>2, HandshakeFailsTurns DEF HandshakeFails, Sending
    <3>2. CASE call[t].role # "handshake"
      <4>1. Ends(t, "error", NoMessage) /\ connecting' = connecting
        BY <1>3, <1>5, <3>2 DEF AwaitLine
      <4>2. PICK n \in Nat : n = call[t].attempts
        BY <1>1 DEF Call
      <4>3. ~Shakes(pc[t], call[t])
        BY <1>2, <3>2 DEF Shakes, Sending
      <4> QED  BY <1>1, <1>2, <4>1, <4>2, <4>3, EndedTurns DEF Ends
    <3> QED  BY <3>1, <3>2
  <2> QED  BY <1>1, <1>2, <2>1, <2>2, SameLink, StepKeeps
<1> QED  BY <1>4, <1>5

LEMMA CancelKeeps ==
  ASSUME StdioInv, NEW t \in Tasks, t # Owner, Cancel(t)
  PROVE  StdioInv'
<1>1. /\ closed \in BOOLEAN /\ reqId \in Nat /\ connecting \in BOOLEAN /\ generation \in Nat
      /\ NoMessage \in Message /\ call[t] \in Call
  BY Facts
<1>2. /\ pc[t] \in {"drain", "recv", "wait", "notify", "lock", "backoff", "reaping", "spawn"}
      /\ server' = Unread(t)
      /\ UNCHANGED <<proc, closed, generation, reqId, spawned>>
  BY DEF Cancel
<1>3. \E l, new : Turns(t, l, new)
  <2>1. CASE pc[t] \in {"drain", "recv", "wait", "notify"} /\ call[t].role = "handshake"
    <3>1. /\ connecting' = FALSE /\ Goto(t, "reap") /\ call' = [call EXCEPT ![t].after = "raise"]
          /\ lock' = lock
      BY <2>1 DEF Cancel
    <3> QED  BY <1>2, <2>1, <3>1, HandshakeFailsTurns DEF Sending
  <2>2. CASE ~(pc[t] \in {"drain", "recv", "wait", "notify"} /\ call[t].role = "handshake")
    <3>1. Ends(t, "cancelled", NoMessage) /\ connecting' = connecting
      BY <2>2 DEF Cancel
    <3>2. PICK n \in Nat : n = call[t].attempts
      BY <1>1 DEF Call
    <3>3. ~Shakes(pc[t], call[t])
      BY <1>2, <2>2 DEF Shakes, Sending
    <3> QED  BY <1>1, <1>2, <3>1, <3>2, <3>3, EndedTurns DEF Ends
  <2> QED  BY <2>1, <2>2
<1> QED  BY <1>1, <1>2, <1>3, UnreadLink, StepKeeps

-----------------------------------------------------------------------------
(* The handshake is over: the link is of a new generation. *)
LEMMA HandshakeDoneKeeps ==
  ASSUME StdioInv, NEW t \in Tasks, pc[t] \in {"recv", "notify"}, call[t].role = "handshake", HandshakeDone(t),
         LinkLeft, UNCHANGED <<proc, closed, reqId, spawned>>
  PROVE  StdioInv'
<1>1. /\ closed \in BOOLEAN /\ reqId \in Nat /\ connecting \in BOOLEAN /\ generation \in Nat
      /\ call \in [Tasks -> Call] /\ TaskOK(t, pc[t], call[t]) /\ Answers(t, call[t]) /\ call[t] \in Call
      /\ lock \in Callers \cup {NoTask} /\ NoMessage \in Message /\ MaxCalls \in Nat
      /\ Unlocked(t) \in Callers \cup {NoTask} /\ \A u \in Callers \ {t} : lock = u => Unlocked(t) = u
      /\ Shakes(pc[t], call[t])
  BY Facts DEF Shakes, Sending
<1>2. PICK g : g = generation + 1
  OBVIOUS
<1>3. /\ generation' = g /\ g \in Nat /\ g > 0 /\ g > generation
      /\ lock' = Unlocked(t) /\ connecting' = FALSE
  BY <1>1, <1>2 DEF HandshakeDone
(* The task itself. *)
<1>4. \E l \in {"idle", "send"}, new \in Call :
        /\ pc' = [pc EXCEPT ![t] = l] /\ call' = [call EXCEPT ![t] = new]
        /\ TaskOK(t, l, new)' /\ Answers(t, new)
  <2>1. CASE t = Owner
    <3>1. PICK new : new = [NoCall EXCEPT !.no = call[t].no, !.attempts = 0, !.end = "answered", !.got = NoMessage]
      OBVIOUS
    <3>2. new \in Call
      <4>1. 0 \in Procs
        BY Facts
      <4> QED  BY <1>1, <3>1, <4>1 DEF NoCall, Call
    <3>3. pc' = [pc EXCEPT ![t] = "idle"] /\ call' = [call EXCEPT ![t] = new]
      BY <2>1, <3>1 DEF HandshakeDone, Goto, Ended
    <3>4. TaskOK(t, "idle", new)' /\ Answers(t, new)
      BY <2>1, OwnerAssumption DEF TaskOK, OwnerOK, Sending, Answers
    <3> QED  BY <3>2, <3>3, <3>4
  <2>2. CASE t # Owner
    <3>1. PICK new : new = [call[t] EXCEPT !.role = "request", !.seen = g]
      OBVIOUS
    <3>2. /\ new \in Call /\ new.seen = g /\ new.no = call[t].no /\ new.end = call[t].end
          /\ new.got = call[t].got /\ new.role = "request"
      BY <1>1, <1>3, <3>1 DEF Call
    <3>3. pc' = [pc EXCEPT ![t] = "send"] /\ call' = [call EXCEPT ![t] = new]
      BY <1>1, <1>3, <2>2, <3>1 DEF HandshakeDone, Goto
    <3>4. TaskOK(t, "send", new)' /\ Answers(t, new)
      BY <1>1, <1>3, <2>2, <3>2 DEF TaskOK, CallerOK, Shakes, Sending, Answers
    <3> QED  BY <3>2, <3>3, <3>4
  <2> QED  BY <2>1, <2>2
<1>5. PICK l \in {"idle", "send"}, new \in Call :
        /\ pc' = [pc EXCEPT ![t] = l] /\ call' = [call EXCEPT ![t] = new]
        /\ TaskOK(t, l, new)' /\ Answers(t, new)
  BY <1>4
<1>6. /\ pc'[t] = l /\ call'[t] = new
      /\ \A u \in Tasks \ {t} : pc'[u] = pc[u] /\ call'[u] = call[u]
  BY <1>1, <1>5, Facts
<1>7. TasksOK'
  <2>1. TaskOK(t, pc[t], call[t])'
    BY <1>5, <1>6 DEF TaskOK, CallerOK, OwnerOK, Sending, Shakes
  <2>2. ASSUME NEW u \in Tasks \ {t} PROVE TaskOK(u, pc[u], call[u])'
    <3>1. TaskOK(u, pc[u], call[u]) /\ pc'[u] = pc[u] /\ call'[u] = call[u] /\ call[u].seen \in Nat
      BY <1>6, Facts DEF Call
    <3>2. CASE u = Owner
      <4>1. t \in Callers /\ generation > 0
        BY <1>1, <3>2 DEF Tasks, TaskOK, CallerOK, Shakes, Sending
      <4> QED  BY <1>1, <1>3, <3>1, <3>2, <4>1, OwnerAssumption DEF TaskOK, OwnerOK, Sending
    <3>3. CASE u # Owner
      <4>1. u \in Callers /\ CallerOK(u, pc[u], call[u])
        BY <3>1, <3>3 DEF Tasks, TaskOK
      <4>2. CASE t = Owner
        <5>1. generation = 0 /\ pc[u] = "idle"
          BY <1>1, <4>1, <4>2 DEF TaskOK, OwnerOK, Sending, CallerOK, Shakes
        <5>2. CallerOK(u, pc[u], call[u])'
          BY <1>1, <1>3, <3>1, <4>1, <5>1 DEF CallerOK, Shakes, Sending
        <5> QED  BY <3>3, <5>2 DEF TaskOK
      <4>3. CASE t # Owner
        <5>1. lock = t
          BY <1>1, <4>3 DEF Tasks, TaskOK, CallerOK
        <5>2. ~(pc[u] \in {"backoff", "reap", "reaping", "spawn"} \/ Shakes(pc[u], call[u]))
          BY <4>1, <5>1 DEF CallerOK
        <5>3. CallerOK(u, pc[u], call[u])'
          BY <1>1, <1>3, <3>1, <4>1, <5>2 DEF CallerOK
        <5> QED  BY <3>3, <5>3 DEF TaskOK
      <4> QED  BY <4>2, <4>3
    <3> QED  BY <3>2, <3>3
  <2> QED  BY <2>1, <2>2 DEF TasksOK
<1>8. FreshOK'
  <2> SUFFICES ASSUME NEW u \in Callers, Waits(pc'[u], call'[u]), call'[u].seen = generation'
               PROVE  FALSE
    BY DEF FreshOK, FreshFor
  <2>1. u \in Tasks
    BY DEF Tasks
  <2>2. CASE u = t
    BY <1>5, <1>6, <2>2 DEF Waits
  <2>3. CASE u # t
    <3>1. call[u].seen <= generation /\ call[u].seen \in Nat /\ call'[u] = call[u]
      BY <1>6, <2>1, <2>3, Facts DEF TaskOK, CallerOK, Call
    <3> QED  BY <1>1, <1>3, <3>1
  <2> QED  BY <2>2, <2>3
<1>9. TypeOK' /\ LinkOK' /\ AnswersAreOwn'
  <2>1. TypeOK /\ LinkOK /\ AnswersAreOwn /\ 0 \in Procs
    BY Facts DEF StdioInv
  <2>2. TypeOK'
    BY <1>1, <1>3, <1>5, <2>1 DEF TypeOK, LinkLeft, LinkStays
  <2>3. LinkOK'
    BY <1>5, <1>6, <2>1 DEF LinkOK, AliveHasHandle, LinkLeft, LinkStays
  <2>4. AnswersAreOwn'
    BY <1>5, <1>6, <2>1 DEF AnswersAreOwn, Answers, Tasks
  <2> QED  BY <2>2, <2>3, <2>4
<1>10. MessagesOK'
  <2>1. MessagesOK
    BY DEF StdioInv
  <2>2. \A u \in Tasks : pc'[u] \in {"drain", "recv", "wait"} => pc'[u] = pc[u] /\ call'[u] = call[u]
    BY <1>5, <1>6
  <2>3. \A p \in Procs, m \in Message : InLine(p, m)' => InLine(p, m)
    BY DEF LinkLeft, NoneSent
  <2> QED  BY <2>1, <2>2, <2>3 DEF MessagesOK, IdOK
<1> QED  BY <1>7, <1>8, <1>9, <1>10 DEF StdioInv

LEMMA NotifiedKeeps ==
  ASSUME StdioInv, NEW t \in Tasks, Notified(t)
  PROVE  StdioInv'
<1>1. TaskOK(t, pc[t], call[t]) /\ pc[t] = "notify" /\ HandshakeDone(t)
      /\ UNCHANGED <<proc, closed, reqId, server, spawned>>
  BY Facts DEF Notified
<1>2. call[t].role = "handshake"
  BY <1>1 DEF TaskOK, CallerOK, OwnerOK, Sending, Tasks
<1> QED  BY <1>1, <1>2, SameLink, HandshakeDoneKeeps

LEMMA TakeLineKeeps ==
  ASSUME StdioInv, NEW t \in Tasks, TakeLine(t)
  PROVE  StdioInv'
<1>1. /\ closed \in BOOLEAN /\ reqId \in Nat /\ connecting \in BOOLEAN /\ generation \in Nat
      /\ call \in [Tasks -> Call] /\ pc \in [Tasks -> Labels] /\ TaskOK(t, pc[t], call[t])
      /\ Answers(t, call[t]) /\ call[t] \in Call /\ server \in [Procs -> Server]
      /\ lock \in Callers \cup {NoTask} /\ NoMessage \in Message
  BY Facts
<1>2. PICK p : p = call[t].via
  OBVIOUS
<1>3. PICK msg : msg = Head(server[p].stdout)
  OBVIOUS
<1>4. /\ pc[t] = "recv" /\ UNCHANGED <<proc, closed, reqId, spawned>> /\ server[p].stdout # <<>>
      /\ server' = [server EXCEPT ![p].stdout = Tail(@)]
  BY <1>2 DEF TakeLine
<1>5. CASE ~IsAnswer(t, msg)
  <2>1. UNCHANGED <<connecting, generation, lock, pc, call>>
    BY <1>2, <1>3, <1>5 DEF TakeLine
  <2>2. PICK c : c = call[t]
    OBVIOUS
  <2>3. pc' = [pc EXCEPT ![t] = "recv"] /\ call' = [call EXCEPT ![t] = c]
    BY <1>1, <1>4, <2>1, <2>2
  <2>4. TaskOK(t, "recv", c)'
    BY <1>1, <1>4, <2>1, <2>2 DEF TaskOK, CallerOK, OwnerOK, Sending, Shakes
  <2>5. Turns(t, "recv", c)
    BY <1>1, <1>4, <2>1, <2>2, <2>3, <2>4 DEF Turns, GoesOn, Labels, Waits
  <2>6. LinkLeft
    <3>1. CASE p \in Procs
      BY <1>4, <3>1, TailLink
    <3>2. CASE p \notin Procs
      BY <1>1, <1>4, <3>2, SameLink
    <3> QED  BY <3>1, <3>2
  <2> QED  BY <1>1, <1>4, <2>1, <2>5, <2>6, StepKeeps
<1>6. CASE IsAnswer(t, msg)
  <2>1. p \in Procs
    BY <1>1, <1>2 DEF Call
  <2>2. LinkLeft /\ msg \in Message /\ InLine(p, msg)
    BY <1>3, <1>4, <2>1, TailLink
  <2>3. msg.of = t /\ msg.no = IF call[t].role = "handshake" THEN 0 ELSE call[t].no
    <3>1. IdOK(t, pc[t], call[t]) /\ msg.id = call[t].id
      BY <1>6 DEF StdioInv, MessagesOK, IsAnswer
    <3> QED  BY <1>4, <2>1, <2>2, <3>1 DEF IdOK
  <2>4. CASE call[t].role = "request"
    <3>1. Ends(t, "answered", msg) /\ UNCHANGED <<connecting, generation>>
      BY <1>2, <1>3, <1>6, <2>4 DEF TakeLine
    <3>2. PICK n \in Nat : n = call[t].attempts
      BY <1>1 DEF Call
    <3>3. ~Shakes(pc[t], call[t])
      BY <1>4, <2>4 DEF Shakes, Sending
    <3>4. \E l, new : Turns(t, l, new)
      BY <1>1, <2>2, <2>3, <2>4, <3>1, <3>2, <3>3, EndedTurns DEF Ends
    <3> QED  BY <1>1, <1>4, <2>2, <3>1, <3>4, StepKeeps
  <2>5. CASE call[t].role = "handshake" /\ HandshakeDone(t)
    BY <1>4, <2>2, <2>5, HandshakeDoneKeeps
  <2>9. CASE /\ call[t].role = "handshake" /\ Goto(t, "notify")
             /\ UNCHANGED <<connecting, generation, lock, call>>
    <3>1. PICK c : c = call[t]
      OBVIOUS
    <3>2. pc' = [pc EXCEPT ![t] = "notify"] /\ call' = [call EXCEPT ![t] = c]
      BY <1>1, <2>9, <3>1 DEF Goto
    <3>3. TaskOK(t, "notify", c)'
      BY <1>1, <1>4, <2>9, <3>1 DEF TaskOK, CallerOK, OwnerOK, Shakes, Sending
    <3>4. Turns(t, "notify", c)
      BY <1>1, <1>4, <2>9, <3>1, <3>2, <3>3 DEF Turns, GoesOn, Labels, Waits, Shakes, Sending
    <3> QED  BY <1>1, <1>4, <2>2, <2>9, <3>4, StepKeeps
  <2>6. CASE call[t].role = "handshake" /\ HandshakeFails(t) /\ UNCHANGED generation
    <3>1. PICK after \in {"retry", "raise"} : after = IF t = Owner THEN "raise" ELSE "retry"
      OBVIOUS
    <3>2. \E l, new : Turns(t, l, new)
      BY <1>4, <2>6, <3>1, HandshakeFailsTurns DEF HandshakeFails, Sending
    <3> QED  BY <1>1, <1>4, <2>2, <2>6, <3>2, StepKeeps
  <2>7. call[t].role \in {"request", "handshake"}
    BY <1>1 DEF Call
  <2>8. call[t].role = "handshake" =>
          \/ HandshakeDone(t)
          \/ HandshakeFails(t) /\ UNCHANGED generation
          \/ Goto(t, "notify") /\ UNCHANGED <<connecting, generation, lock, call>>
    BY <1>2, <1>3, <1>6 DEF TakeLine, Notify
  <2> QED  BY <2>4, <2>5, <2>6, <2>7, <2>8, <2>9
<1> QED  BY <1>5, <1>6

-----------------------------------------------------------------------------
(* A request is sent. *)
LEMMA SentKeeps ==
  ASSUME StdioInv, NEW t \in Tasks, pc[t] = "send", NEW msg,
         msg = [id |-> reqId + 1, of |-> t, no |-> IF call[t].role = "handshake" THEN 0 ELSE call[t].no],
         reqId' = reqId + 1,
         server' = [server EXCEPT ![proc].inbox = IF server[proc].alive THEN @ \cup {msg} ELSE @],
         call' = [call EXCEPT ![t].id = reqId', ![t].via = proc],
         NEW l \in {"drain", "recv"}, Goto(t, l),
         UNCHANGED <<connecting, lock, proc, closed, generation, spawned>>
  PROVE  StdioInv'
<1>1. /\ closed \in BOOLEAN /\ reqId \in Nat /\ connecting \in BOOLEAN /\ generation \in Nat
      /\ call \in [Tasks -> Call] /\ TaskOK(t, pc[t], call[t]) /\ Answers(t, call[t]) /\ call[t] \in Call
      /\ lock \in Callers \cup {NoTask} /\ proc \in Procs /\ proc \in Nat /\ server \in [Procs -> Server]
      /\ MaxCalls \in Nat
  BY Facts
<1>2. PICK r \in Nat : r = reqId + 1
  BY <1>1
<1>3. PICK q : q = proc
  OBVIOUS
<1>4. PICK new : new = [call[t] EXCEPT !.id = r, !.via = q]
  OBVIOUS
<1>5. /\ new \in Call /\ new.seen = call[t].seen /\ new.no = call[t].no /\ new.end = call[t].end
      /\ new.got = call[t].got /\ new.via = q /\ new.id = r /\ new.role = call[t].role
  BY <1>1, <1>2, <1>3, <1>4 DEF Call
<1>6. pc' = [pc EXCEPT ![t] = l] /\ call' = [call EXCEPT ![t] = new]
  BY <1>1, <1>2, <1>3, <1>4 DEF Goto
<1>7. TaskOK(t, l, new)'
  BY <1>1, <1>5 DEF TaskOK, CallerOK, OwnerOK, Sending, Shakes
<1>8. GoesOn(t, l, new)
  <2>1. proc' = q /\ q \in Nat /\ q <= new.via
    BY <1>1, <1>3, <1>5
  <2>2. Shakes(pc[t], call[t]) => Shakes(l, new)
    BY <1>5 DEF Shakes, Sending
  <2>3. Answers(t, new)
    BY <1>1, <1>5 DEF Answers
  <2> QED  BY <1>1, <1>5, <1>6, <1>7, <2>1, <2>2, <2>3 DEF GoesOn, Labels
<1>9. /\ msg \in Message /\ msg.id = r /\ msg.of = t
      /\ msg.no = IF call[t].role = "handshake" THEN 0 ELSE call[t].no
  <2>1. call[t].no \in 0..MaxCalls /\ 0 \in 0..MaxCalls
    BY <1>1 DEF Call
  <2> QED  BY <1>2, <2>1 DEF Message
<1>10. ASSUME NEW p \in Procs
       PROVE  /\ server'[p] \in Server /\ server'[p].alive = server[p].alive
              /\ server'[p].stdin = server[p].stdin /\ server'[p].stdout = server[p].stdout
              /\ server'[p].inbox = server[p].inbox \/ server'[p].inbox = server[p].inbox \cup {msg}
  BY <1>1, <1>9 DEF Server
<1>11. LinkStays
  BY <1>1, <1>10 DEF LinkStays
<1>12. MessagesOK'
  <2>1. MessagesOK
    BY DEF StdioInv
  <2>2. ASSUME NEW p \in Procs, NEW m \in Message, InLine(p, m)' PROVE InLine(p, m) \/ m = msg
    BY <1>10, <2>2 DEF InLine
  <2>3. \A p \in Procs, m \in Message : InLine(p, m) => m.id \in 1..reqId
    BY <2>1 DEF MessagesOK
  <2>4. ASSUME NEW p \in Procs, NEW m \in Message, InLine(p, m)' PROVE m.id \in 1..r
    <3>1. CASE InLine(p, m)
      <4>1. m.id \in 1..reqId
        BY <2>3, <3>1
      <4> QED  BY <1>1, <1>2, <4>1
    <3>2. CASE m = msg
      BY <1>1, <1>2, <1>9, <3>2
    <3> QED  BY <2>2, <2>4, <3>1, <3>2
  <2>5. ASSUME NEW u \in Tasks, pc'[u] \in {"drain", "recv", "wait"}
        PROVE  /\ call'[u].id \in 1..r
               /\ \A p \in Procs, m \in Message : InLine(p, m)' /\ m.id = call'[u].id =>
                    m.of = u /\ m.no = IF call'[u].role = "handshake" THEN 0 ELSE call'[u].no
    <3>1. CASE u = t
      <4>1. call'[u] = new /\ r \in 1..r /\ r \notin 1..reqId
        <5>1. call'[u] = new
          BY <1>1, <1>6, <3>1
        <5>2. r \in 1..r /\ r \notin 1..reqId
          BY <1>1, <1>2
        <5> QED  BY <5>1, <5>2
      <4> QED  BY <1>5, <1>9, <2>2, <2>3, <3>1, <4>1
    <3>2. CASE u # t
      <4>1. pc'[u] = pc[u] /\ call'[u] = call[u] /\ IdOK(u, pc[u], call[u])
        BY <1>6, <2>1, <3>2, Facts DEF MessagesOK
      <4>2. call[u].id \in 1..reqId
        BY <2>5, <4>1 DEF IdOK
      <4>3. call[u].id # r /\ call[u].id \in 1..r
        BY <1>1, <1>2, <4>2
      <4> QED  BY <1>9, <2>2, <2>5, <4>1, <4>3 DEF IdOK
    <3> QED  BY <3>1, <3>2
  <2> QED  BY <1>2, <2>4, <2>5 DEF MessagesOK, IdOK
<1> QED  BY <1>1, <1>2, <1>8, <1>11, <1>12, RestStep, TasksStep, FreshStep DEF StdioInv

LEMMA SendKeeps ==
  ASSUME StdioInv, NEW t \in Tasks, Send(t)
  PROVE  StdioInv'
<1>1. /\ closed \in BOOLEAN /\ reqId \in Nat /\ proc \in Procs
  BY Facts
<1>2. PICK msg : msg = [id |-> reqId + 1, of |-> t,
                        no |-> IF call[t].role = "handshake" THEN 0 ELSE call[t].no]
  OBVIOUS
<1>3. pc[t] = "send" /\ reqId' = reqId + 1 /\ UNCHANGED <<proc, closed, generation, spawned>>
  BY DEF Send
<1>4. CASE /\ server' = [server EXCEPT ![proc].inbox = IF server[proc].alive THEN @ \cup {msg} ELSE @]
           /\ call' = [call EXCEPT ![t].id = reqId', ![t].via = proc]
           /\ Goto(t, "recv") \/ Goto(t, "drain")
           /\ UNCHANGED <<connecting, lock>>
  BY <1>2, <1>3, <1>4, SentKeeps
<1>5. CASE Lost(t, proc) /\ UNCHANGED server
  <2>1. \E l, new : Turns(t, l, new)
    BY <1>1, <1>3, <1>5, LostTurns DEF Sending
  <2>2. reqId' \in Nat /\ reqId <= reqId'
    BY <1>1, <1>3
  <2> QED  BY <1>1, <1>3, <1>5, <2>1, <2>2, SameLink, StepKeeps
<1> QED  BY <1>2, <1>3, <1>4, <1>5 DEF Send

-----------------------------------------------------------------------------
(* Processes. *)
LEMMA SpawnedKeeps ==
  ASSUME StdioInv, NEW t \in Tasks, Spawned(t)
  PROVE  StdioInv'
<1>1. /\ closed \in BOOLEAN /\ reqId \in Nat /\ generation \in Nat
      /\ call \in [Tasks -> Call] /\ TaskOK(t, pc[t], call[t]) /\ Answers(t, call[t]) /\ call[t] \in Call
      /\ lock \in Callers \cup {NoTask} /\ server \in [Procs -> Server] /\ 0 \in Procs
      /\ ~server[0].stdin /\ ~server[0].alive
  BY Facts
<1>2. TypeOK /\ LinkOK /\ TasksOK /\ MessagesOK
  BY DEF StdioInv
<1>3. /\ pc[t] = "spawn" /\ connecting' = TRUE /\ UNCHANGED <<closed, lock, generation, reqId>>
      /\ proc = 0
  BY <1>2 DEF Spawned, LinkOK
<1>4. PICK n : n = spawned + 1
  OBVIOUS
<1>5. /\ n \in 0..MaxProcs /\ n # 0 /\ n \in Procs /\ spawned' = n /\ proc' = n
  BY <1>2, <1>4, BoundsAssumption DEF Spawned, TypeOK, Procs
<1>6. PICK new : new = [call[t] EXCEPT !.role = "handshake"]
  OBVIOUS
<1>7. /\ new \in Call /\ new.seen = call[t].seen /\ new.no = call[t].no /\ new.end = call[t].end
      /\ new.got = call[t].got /\ new.role = "handshake"
  BY <1>1, <1>6 DEF Call
<1>8. pc' = [pc EXCEPT ![t] = "send"] /\ call' = [call EXCEPT ![t] = new]
  BY <1>1, <1>6 DEF Goto, Spawned
<1>9. TaskOK(t, "send", new)'
  BY <1>1, <1>3, <1>7 DEF TaskOK, CallerOK, OwnerOK, Sending, Shakes
<1>10. GoesOn(t, "send", new)
  BY <1>1, <1>3, <1>7, <1>8, <1>9 DEF GoesOn, Labels, Waits, Shakes, Sending, Answers
<1>11. server' = [server EXCEPT ![n].alive = TRUE, ![n].stdin = TRUE]
  BY <1>5 DEF Spawned
<1>12. ASSUME NEW p \in Procs
       PROVE  /\ server'[p] \in Server /\ server'[p].stdout = server[p].stdout
              /\ server'[p].inbox = server[p].inbox
              /\ p # n => server'[p].alive = server[p].alive /\ server'[p].stdin = server[p].stdin
  BY <1>1, <1>11 DEF Server
<1>13. /\ pc' \in [Tasks -> Labels] /\ call' \in [Tasks -> Call] /\ pc'[t] = "send" /\ call'[t] = new
       /\ \A u \in Tasks \ {t} : pc'[u] = pc[u] /\ call'[u] = call[u]
  BY <1>10, Moved
<1>14. TypeOK'
  <2>1. server' \in [Procs -> Server]
    BY <1>1, <1>11, <1>12
  <2> QED  BY <1>2, <1>3, <1>5, <1>13, <2>1 DEF TypeOK, Labels
<1>15. LinkOK'
  <2>1. ASSUME NEW p \in Procs, server'[p].alive PROVE p = proc'
    BY <1>1, <1>2, <1>3, <1>5, <1>12, <2>1 DEF LinkOK, AliveHasHandle
  <2>2. ASSUME NEW u \in Tasks, pc'[u] = "spawn" PROVE FALSE
    <3>1. u # t /\ pc[u] = "spawn" /\ TaskOK(u, pc[u], call[u])
      BY <1>2, <1>13, <2>2 DEF TasksOK
    <3> QED  BY <1>1, <1>3, <3>1 DEF TaskOK, CallerOK, OwnerOK, Sending, Tasks
  <2>3. ~server'[0].alive /\ ~server'[0].stdin
    BY <1>1, <1>5, <1>12
  <2> QED  BY <2>1, <2>2, <2>3 DEF LinkOK, AliveHasHandle
<1>16. FreshOK'
  <2>1. Shakes(pc'[t], call'[t])
    BY <1>7, <1>13 DEF Shakes, Sending
  <2> QED  BY <2>1 DEF FreshOK, FreshFor
<1>17. MessagesOK'
  <2>1. NoneSent
    BY <1>12 DEF NoneSent, InLine
  <2>2. Turns(t, "send", new)
    BY <1>10 DEF Turns
  <2> QED  BY <1>1, <1>3, <2>1, <2>2, MessagesStep
<1>18. AnswersAreOwn'
  <2> SUFFICES ASSUME NEW u \in Callers, call'[u].end = "answered"
               PROVE  call'[u].got.of = u /\ call'[u].got.no = call'[u].no
    BY DEF AnswersAreOwn
  <2> QED  BY <1>1, <1>7, <1>13 DEF StdioInv, AnswersAreOwn, Answers, Tasks
<1> QED  BY <1>3, <1>10, <1>14, <1>15, <1>16, <1>17, <1>18, TasksStep DEF StdioInv

LEMMA WokenKeeps ==
  ASSUME StdioInv, NEW p \in Procs, pc' = Woken(p), UNCHANGED <<client, spawned, call>>, LinkLeft
  PROVE  StdioInv'
<1>1. TypeOK /\ LinkOK /\ TasksOK /\ FreshOK /\ MessagesOK /\ AnswersAreOwn
  BY DEF StdioInv
<1>2. UNCHANGED <<proc, connecting, closed, lock, generation, reqId, spawned, call>>
  BY DEF client
<1>3. ASSUME NEW u \in Tasks
      PROVE  pc'[u] \in Labels /\ (pc'[u] = pc[u] \/ (pc[u] = "wait" /\ pc'[u] = "recv"))
  BY <1>1 DEF Woken, TypeOK, Labels
<1>4. pc' \in [Tasks -> Labels]
  BY <1>3 DEF Woken
<1>5. TypeOK'
  BY <1>1, <1>2, <1>4 DEF TypeOK, Labels, LinkLeft, LinkStays
<1>6. LinkOK'
  <2>1. \A u \in Tasks : pc'[u] = "spawn" => proc' = 0
    BY <1>1, <1>2, <1>3 DEF LinkOK
  <2>2. 0 \in Procs
    BY BoundsAssumption DEF Procs
  <2> QED  BY <1>1, <1>2, <2>1, <2>2 DEF LinkOK, AliveHasHandle, LinkLeft, LinkStays
<1>7. TasksOK'
  <2>1. ASSUME NEW u \in Tasks PROVE TaskOK(u, pc[u], call[u])'
    <3>1. TaskOK(u, pc[u], call[u])
      BY <1>1 DEF TasksOK
    <3>2. CASE pc'[u] = pc[u]
      BY <1>2, <3>1, <3>2 DEF TaskOK, CallerOK, OwnerOK, Sending, Shakes
    <3>3. CASE pc[u] = "wait" /\ pc'[u] = "recv"
      BY <1>2, <3>1, <3>3 DEF TaskOK, CallerOK, OwnerOK, Sending, Shakes
    <3> QED  BY <1>3, <3>2, <3>3
  <2> QED  BY <2>1 DEF TasksOK
<1>8. FreshOK'
  <2> SUFFICES ASSUME NEW u \in Callers, Waits(pc'[u], call[u]), call[u].seen = generation, server'[proc].stdin
               PROVE  proc <= call[u].via \/ \E v \in Tasks : Shakes(pc'[v], call[v])
    BY <1>2 DEF FreshOK, FreshFor
  <2>1. u \in Tasks /\ proc \in Procs
    BY <1>1 DEF Tasks, TypeOK, Procs
  <2>2. Waits(pc[u], call[u]) /\ server[proc].stdin
    BY <1>3, <2>1 DEF Waits, LinkLeft, LinkStays
  <2>3. proc <= call[u].via \/ \E v \in Tasks : Shakes(pc[v], call[v])
    BY <1>1, <2>2 DEF FreshOK, FreshFor
  <2>4. \A v \in Tasks : Shakes(pc[v], call[v]) => Shakes(pc'[v], call[v])
    BY <1>3 DEF Shakes, Sending
  <2> QED  BY <2>3, <2>4
<1>9. MessagesOK'
  <2>1. ASSUME NEW u \in Tasks PROVE IdOK(u, pc[u], call[u])'
    <3>1. IdOK(u, pc[u], call[u])
      BY <1>1 DEF MessagesOK
    <3> QED  BY <1>2, <1>3, <3>1 DEF IdOK, LinkLeft, NoneSent
  <2> QED  BY <1>1, <1>2, <2>1 DEF MessagesOK, LinkLeft, NoneSent
<1>10. AnswersAreOwn'
  BY <1>1, <1>2 DEF AnswersAreOwn
<1> QED  BY <1>5, <1>6, <1>7, <1>8, <1>9, <1>10 DEF StdioInv

LEMMA ExitedKeeps ==
  ASSUME StdioInv, NEW p \in Procs, server' = [server EXCEPT ![p] = Exited(p)], pc' = Woken(p),
         UNCHANGED <<client, spawned, call>>
  PROVE  StdioInv'
<1>1. server \in [Procs -> Server]
  BY DEF StdioInv, TypeOK
<1>2. ASSUME NEW q \in Procs
      PROVE  /\ server'[q] \in Server /\ (server'[q].alive => server[q].alive)
             /\ server'[q].stdin = server[q].stdin
             /\ server'[q].inbox \subseteq server[q].inbox /\ server'[q].stdout = server[q].stdout
  BY <1>1 DEF Exited, Server
<1>3. LinkLeft
  <2>1. server' \in [Procs -> Server]
    BY <1>1, <1>2
  <2>2. proc' = proc
    BY DEF client
  <2> QED  BY <1>2, <2>1, <2>2 DEF LinkLeft, LinkStays, NoneSent, InLine
<1> QED  BY <1>3, WokenKeeps

LEMMA AnswerKeeps ==
  ASSUME StdioInv, NEW p \in Procs, Answer(p)
  PROVE  StdioInv'
<1>1. server \in [Procs -> Server]
  BY DEF StdioInv, TypeOK
<1>2. PICK msg \in server[p].inbox :
        /\ server' = [server EXCEPT ![p].inbox = @ \ {msg}, ![p].stdout = Append(@, msg), ![p].reader = NoTask]
        /\ pc' = Woken(p) /\ UNCHANGED <<client, spawned, call>>
  BY DEF Answer
<1>3. PICK s \in Seq(Message) : s = server[p].stdout
  BY <1>1 DEF Server
<1>4. msg \in Message
  BY <1>1 DEF Server
<1>5. /\ Append(s, msg) \in Seq(Message) /\ Len(Append(s, msg)) = Len(s) + 1 /\ Len(s) \in Nat
      /\ Append(s, msg)[Len(s) + 1] = msg /\ \A i \in 1..Len(s) : Append(s, msg)[i] = s[i]
  BY <1>4
<1>6. ASSUME NEW q \in Procs
      PROVE  /\ server'[q] \in Server /\ server'[q].alive = server[q].alive /\ server'[q].stdin = server[q].stdin
             /\ server'[q].inbox \subseteq server[q].inbox
             /\ server'[q].stdout = IF q = p THEN Append(s, msg) ELSE server[q].stdout
  BY <1>1, <1>2, <1>3, <1>5 DEF Server
<1>7. ASSUME NEW q \in Procs, NEW m \in Message, InLine(q, m)' PROVE InLine(q, m)
  <2>1. CASE q # p
    BY <1>6, <1>7, <2>1 DEF InLine
  <2>2. CASE q = p
    <3>1. CASE m \in server'[p].inbox
      BY <1>6, <2>2, <3>1 DEF InLine
    <3>2. CASE \E i \in 1..Len(Append(s, msg)) : Append(s, msg)[i] = m
      <4>1. PICK i \in 1..Len(Append(s, msg)) : Append(s, msg)[i] = m
        BY <3>2
      <4>2. i \in 1..Len(s) \/ i = Len(s) + 1
        BY <1>5
      <4> QED  BY <1>3, <1>5, <2>2, <4>1, <4>2 DEF InLine
    <3> QED  BY <1>6, <1>7, <2>2, <3>1, <3>2 DEF InLine
  <2> QED  BY <2>1, <2>2
<1>8. LinkLeft
  <2>1. server' \in [Procs -> Server]
    BY <1>1, <1>2, <1>6
  <2>2. proc' = proc
    BY <1>2 DEF client
  <2> QED  BY <1>6, <1>7, <2>1, <2>2 DEF LinkLeft, LinkStays, NoneSent
<1> QED  BY <1>2, <1>8, WokenKeeps

-----------------------------------------------------------------------------
LEMMA InitHolds ==
  ASSUME Init
  PROVE  StdioInv
<1>1. MaxCalls \in Nat /\ MaxProcs \in Nat /\ 0 \in Procs /\ 0 \in 0..MaxCalls
  BY BoundsAssumption DEF Procs
<1>2. NoMessage \in Message
  BY <1>1 DEF NoMessage, Message, Tasks
<1>3. NoCall \in Call
  BY <1>1, <1>2 DEF NoCall, Call
<1>4. Unborn \in Server
  <2>1. {} \in SUBSET Message /\ <<>> \in Seq(Message)
    OBVIOUS
  <2> QED  BY <2>1 DEF Unborn, Server
<1>5. \A t \in Tasks : pc[t] = "idle" /\ call[t] = NoCall
  BY DEF Init
<1>6. \A p \in Procs : ~server[p].alive /\ ~server[p].stdin /\ server[p].inbox = {} /\ server[p].stdout = <<>>
  BY DEF Init, Unborn
<1>7. TypeOK
  BY <1>1, <1>3, <1>4 DEF Init, TypeOK, Procs
<1>8. LinkOK
  BY <1>1, <1>5, <1>6 DEF LinkOK, AliveHasHandle
<1>9. TasksOK
  BY <1>5 DEF Init, TasksOK, TaskOK, CallerOK, OwnerOK, Sending, Shakes, NoCall
<1>10. FreshOK
  <2>1. Callers \subseteq Tasks
    BY DEF Tasks
  <2> QED  BY <1>5, <2>1 DEF FreshOK, FreshFor, Waits
<1>11. MessagesOK
  <2>1. \A p \in Procs, m \in Message : ~InLine(p, m)
    BY <1>6 DEF InLine
  <2> QED  BY <1>5, <2>1 DEF MessagesOK, IdOK
<1>12. AnswersAreOwn
  BY <1>5 DEF AnswersAreOwn, NoCall, Tasks
<1> QED  BY <1>7, <1>8, <1>9, <1>10, <1>11, <1>12 DEF StdioInv

LEMMA NextKeeps ==
  ASSUME StdioInv, [Next]_vars
  PROVE  StdioInv'
<1>1. ASSUME NEW t \in Tasks, Step(t) PROVE StdioInv'
  <2>1. CASE Kill(t)
    <3>1. proc \in Procs
      BY Facts
    <3> QED  BY <2>1, <3>1, ExitedKeeps DEF Kill
  <2> QED  BY <1>1, <2>1, SendKeeps, TakeLineKeeps, EndOfFileKeeps, AwaitLineKeeps, ExpireKeeps,
              PipeBreaksKeeps,
              EnterReconnectKeeps, WakeUpKeeps, BeginTeardownKeeps, ReapedKeeps, SpawnedKeeps,
              SpawnFailsKeeps DEF Step
<1>2. ASSUME NEW t \in Cancellable, Cancel(t) PROVE StdioInv'
  <2>1. t \in Tasks /\ t # Owner
    BY CancellableAssumption, OwnerAssumption DEF Tasks
  <2> QED  BY <1>2, <2>1, CancelKeeps
<1>3. ASSUME NEW p \in Procs, Exit(p) PROVE StdioInv'
  BY <1>3, ExitedKeeps DEF Exit
<1>4. CASE UNCHANGED vars
  BY <1>4 DEF vars, client, StdioInv, TypeOK, LinkOK, AliveHasHandle, TasksOK, TaskOK, CallerOK, OwnerOK, Sending,
              FreshOK, FreshFor, MessagesOK, IdOK, InLine, AnswersAreOwn
<1> QED  BY <1>1, <1>2, <1>3, <1>4, ConnectKeeps, DisconnectKeeps, RequestKeeps, AnswerKeeps, DrainedKeeps,
        NotifiedKeeps DEF Next

(* Who reconnects has the lock, a process that is up and unknown is shaking
   hands with the task that spawned it, and an id names one request
   (mcp_stdio.py:99-290). *)
THEOREM StdioInvariant == Spec => []StdioInv
<1>1. Init => StdioInv
  BY InitHolds
<1>2. StdioInv /\ [Next]_vars => StdioInv'
  BY NextKeeps
<1> QED  BY <1>1, <1>2, PTL DEF Spec

(* A subprocess that runs is the one the client holds: no reconnect, teardown
   or cancellation leaves one behind (mcp_stdio.py:99-159, 221-245). *)
THEOREM LinkStaysHeld == Spec => []LinkIsHeld
<1>1. StdioInv => LinkIsHeld
  BY DEF StdioInv, LinkOK, LinkIsHeld
<1> QED  BY <1>1, StdioInvariant, PTL

(* A call returns the answer to itself, however many share the pipe, time out
   and try again (mcp_stdio.py:196-219, 247-290). *)
THEOREM AnswersStayOwn == Spec => []AnswersAreOwn
<1>1. StdioInv => AnswersAreOwn
  BY DEF StdioInv
<1> QED  BY <1>1, StdioInvariant, PTL

(* A reconnect tears down the process its request was lost on, never one that
   another caller has brought up since (mcp_stdio.py:228-245). *)
THEOREM FreshLinksAreSpared == Spec => SparesFreshLink
<1>1. ASSUME StdioInv, NEW t \in Callers, pc[t] = "reap", call[t].after = "spawn", server[proc].stdin
      PROVE  proc <= call[t].via
  <2>1. t \in Tasks /\ TasksOK /\ FreshOK
    BY <1>1 DEF StdioInv, Tasks
  <2>2. call[t].seen = generation /\ lock = t /\ generation > 0
    BY <1>1, <2>1 DEF TasksOK, TaskOK, CallerOK
  <2>3. ASSUME NEW u \in Tasks, Shakes(pc[u], call[u]) PROVE FALSE
    <3>1. TaskOK(u, pc[u], call[u]) /\ u # t
      BY <1>1, <2>1, <2>3 DEF TasksOK, Shakes, Sending
    <3> QED  BY <2>2, <2>3, <3>1, Facts DEF TaskOK, CallerOK, OwnerOK, Sending, Shakes, Tasks
  <2> QED  BY <1>1, <2>1, <2>2, <2>3 DEF FreshOK, FreshFor, Waits
<1>2. StdioInv /\ [Next]_vars =>
        [\A t \in Callers :
           /\ pc[t] = "reap" /\ call[t].after = "spawn" /\ pc'[t] = "reaping"
           /\ server[proc].stdin
           => proc <= call[t].via]_vars
  BY <1>1
<1> QED  BY <1>2, StdioInvariant, PTL DEF Spec, SparesFreshLink
=============================================================================
