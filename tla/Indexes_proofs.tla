---------------------------- MODULE Indexes_proofs ----------------------------
(***************************************************************************)
(* The two indexes that are worked on while requests go on: the code graph *)
(* and the search indexes of a memory area.                                *)
(*                                                                         *)
(* CodeGraph, for any number of streams, turns, refreshes, events and      *)
(* versions of the code: the lock's queue has each task that waits once, a *)
(* stream gives what its turn made and leaves the queue when it ends, and  *)
(* what a refresh returns is as new as its call.                           *)
(*                                                                         *)
(* Recall, for any number of requests, entries and keys: what one stored   *)
(* can be found, the best first, and A4 leaves a user's annotations.       *)
(***************************************************************************)
EXTENDS CodeGraph, Recall, SequenceTheorems, FiniteSetTheorems, TLAPS

TaskRecord == [at : {"idle", "index", "indexing", "brief", "building", "clear", "done"},
               since : 0..MaxCode, seen : 0..MaxCode, got : 0..MaxCode, again : BOOLEAN]

(* The places at the lock, and those of its holder. *)
AtLock == {"index", "indexing", "brief", "building", "clear"}
Calls  == {"indexing", "building"}

Injective(q) == \A i, j \in DOMAIN q : q[i] = q[j] => i = j

QueueOK ==
  /\ Injective(queue)
  /\ \A t \in Tasks : /\ t \in ToSet(queue) <=> task[t].at \in AtLock
                      /\ task[t].at \in Calls => Holds(t)

(* What a stream has given of what its turn made. *)
StreamOK(s) ==
  /\ s.at \in {"closed", "loop", "race"} => s.given + (IF s.next = "event" THEN 1 ELSE 0) = s.made
  /\ s.at = "closed" => s.next = "none"
  /\ s.given <= s.made
  /\ s.at \in {"finally", "over"} /\ ~s.gone => s.told /\ s.given = s.made /\ s.next = "none"
  /\ s.at = "over" => s.next = "none"

StreamsOK ==
  \A t \in Streams : /\ StreamOK(conn[t])
                     /\ conn[t].at = "over" => task[t].at \in {"idle", "done"}

(* A refresh past the point where it forgot the old index: what there is by
   then, or comes of the calls under way, is of its time or later. *)
Past == {"index", "indexing", "brief", "building"}

FreshFor(since) ==
  /\ brief # 0 => brief >= since
  /\ indexed => graph >= since
  /\ \A u \in Tasks : /\ task[u].at \in {"brief", "building"} => graph >= since
                      /\ task[u].at = "indexing" => task[u].seen >= since

FreshOK ==
  \A t \in Refreshers : /\ task[t].at \in Past => FreshFor(task[t].since)
                        /\ task[t].got # 0 => task[t].got >= task[t].since

TimesOK ==
  \A t \in Tasks : /\ task[t].since <= code /\ task[t].seen <= code
                   /\ task[t].at = "idle" => task[t] = Idle
                   /\ task[t].at # "done" => task[t].got = 0

CodeGraphInv ==
  TypeOK /\ QueueOK /\ StreamsOK /\ TimesOK /\ (~overtaken => FreshOK)

-----------------------------------------------------------------------------
(* The lock's queue: what a task does to it concerns no other task. *)
QueueMoves(t) ==
  /\ queue' \in Seq(Tasks) /\ Injective(queue')
  /\ \A u \in Tasks : u # t => /\ u \in ToSet(queue') <=> u \in ToSet(queue)
                               /\ Holds(u) => Holds(u)'

LEMMA AppendFacts ==
  ASSUME NEW S, NEW q \in Seq(S), NEW t \in S, Injective(q), t \notin ToSet(q)
  PROVE  LET p == Append(q, t) IN
         /\ p \in Seq(S) /\ p # <<>> /\ Injective(p) /\ ToSet(p) = ToSet(q) \cup {t}
         /\ q # <<>> => Head(p) = Head(q)
<1> DEFINE p == Append(q, t)
<1>1. /\ p \in Seq(S) /\ Len(p) = Len(q) + 1 /\ Len(q) \in Nat /\ DOMAIN q = 1..Len(q)
      /\ DOMAIN p = 1..Len(p) /\ p[Len(q) + 1] = t /\ \A i \in 1..Len(q) : p[i] = q[i]
  OBVIOUS
<1> HIDE DEF p
<1>2. Injective(p)
  <2>1. \A i \in 1..Len(q) : q[i] # t
    BY <1>1 DEF ToSet
  <2> QED  BY <1>1, <2>1 DEF Injective
<1>3. ToSet(p) = ToSet(q) \cup {t}
  BY <1>1 DEF ToSet
<1>4. p # <<>> /\ (q # <<>> => Head(p) = Head(q))
  BY <1>1
<1> QED  BY <1>1, <1>2, <1>3, <1>4 DEF p

LEMMA TailFacts ==
  ASSUME NEW S, NEW q \in Seq(S), q # <<>>, Injective(q)
  PROVE  LET p == Tail(q) IN
         p \in Seq(S) /\ Injective(p) /\ ToSet(p) = ToSet(q) \ {Head(q)}
<1> DEFINE p == Tail(q)
<1>1. /\ p \in Seq(S) /\ Len(p) = Len(q) - 1 /\ Len(q) \in Nat /\ Len(q) >= 1
      /\ DOMAIN q = 1..Len(q) /\ DOMAIN p = 1..Len(p) /\ Head(q) = q[1]
      /\ \A i \in 1..Len(p) : p[i] = q[i + 1]
  OBVIOUS
<1> HIDE DEF p
<1>2. Injective(p)
  <2> SUFFICES ASSUME NEW i \in 1..Len(p), NEW j \in 1..Len(p), p[i] = p[j] PROVE i = j
    BY <1>1 DEF Injective
  <2>1. i + 1 \in 1..Len(q) /\ j + 1 \in 1..Len(q) /\ q[i + 1] = q[j + 1]
    BY <1>1
  <2>2. i + 1 = j + 1
    BY <1>1, <2>1 DEF Injective
  <2> QED  BY <2>2
<1>3. ASSUME NEW u PROVE u \in ToSet(p) <=> u \in ToSet(q) /\ u # Head(q)
  <2>1. ASSUME u \in ToSet(p) PROVE u \in ToSet(q) /\ u # Head(q)
    <3>1. PICK i \in 1..Len(p) : p[i] = u
      BY <1>1, <2>1 DEF ToSet
    <3>2. i + 1 \in 1..Len(q) /\ q[i + 1] = u /\ i + 1 # 1
      BY <1>1, <3>1
    <3> QED  BY <1>1, <3>2 DEF ToSet, Injective
  <2>2. ASSUME u \in ToSet(q), u # Head(q) PROVE u \in ToSet(p)
    <3>1. PICK i \in 1..Len(q) : q[i] = u
      BY <1>1, <2>2 DEF ToSet
    <3>2. i # 1
      BY <1>1, <2>2, <3>1
    <3>3. i - 1 \in 1..Len(p) /\ p[i - 1] = u
      BY <1>1, <3>1, <3>2
    <3> QED  BY <1>1, <3>3 DEF ToSet
  <2> QED  BY <2>1, <2>2
<1> QED  BY <1>1, <1>2, <1>3 DEF p

LEMMA RemoveFacts ==
  ASSUME NEW S, NEW q \in Seq(S), Injective(q), NEW k \in 1..Len(q)
  PROVE  LET p == RemoveAt(q, k) IN
         /\ p \in Seq(S) /\ Injective(p) /\ ToSet(p) = ToSet(q) \ {q[k]}
         /\ k # 1 => p # <<>> /\ Head(p) = Head(q)
<1> DEFINE p == RemoveAt(q, k)
<1> DEFINE l == SubSeq(q, 1, k - 1)
<1> DEFINE h == SubSeq(q, k + 1, Len(q))
<1>a. Len(q) \in Nat /\ DOMAIN q = 1..Len(q) /\ k \in Nat /\ k >= 1 /\ k <= Len(q)
  OBVIOUS
<1>b. \A i \in 1..Len(q) : q[i] \in S
  OBVIOUS
<1>c. /\ l \in Seq(S) /\ Len(l) = k - 1 /\ \A i \in 1..k - 1 : l[i] = q[i]
  <2>1. \A i \in 1..k - 1 : q[i] \in S
    BY <1>a, <1>b
  <2>2. /\ l \in Seq(S) /\ Len(l) = IF 1 <= k - 1 THEN (k - 1) - 1 + 1 ELSE 0
        /\ \A i \in 1..(k - 1) - 1 + 1 : l[i] = q[1 + i - 1]
    <3>1. k - 1 \in Int /\ 1 \in Int
      BY <1>a
    <3> QED  BY <2>1, <3>1, SubSeqProperties
  <2>3. Len(l) = k - 1
    BY <1>a, <2>2
  <2>4. ASSUME NEW i \in 1..k - 1 PROVE l[i] = q[i]
    <3>1. i \in 1..(k - 1) - 1 + 1 /\ 1 + i - 1 = i
      BY <1>a
    <3> QED  BY <2>2, <3>1
  <2> QED  BY <2>2, <2>3, <2>4
<1>d. /\ h \in Seq(S) /\ Len(h) = Len(q) - k /\ \A i \in 1..Len(q) - k : h[i] = q[k + i]
  <2>1. \A i \in k + 1..Len(q) : q[i] \in S
    BY <1>a, <1>b
  <2>2. k + 1 \in Int /\ Len(q) \in Int
    BY <1>a
  <2>3. /\ h \in Seq(S) /\ Len(h) = IF k + 1 <= Len(q) THEN Len(q) - (k + 1) + 1 ELSE 0
        /\ \A i \in 1..Len(q) - (k + 1) + 1 : h[i] = q[(k + 1) + i - 1]
    BY <2>1, <2>2, SubSeqProperties
  <2>4. Len(h) = Len(q) - k
    <3> HIDE DEF h, l, p
    <3>1. CASE k + 1 <= Len(q)
      <4>1. Len(h) = Len(q) - (k + 1) + 1
        BY <2>3, <3>1
      <4> QED  BY <1>a, <4>1
    <3>2. CASE ~(k + 1 <= Len(q))
      <4>1. Len(h) = 0
        BY <2>3, <3>2
      <4>2. k \in Nat /\ Len(q) \in Nat /\ k <= Len(q)
        BY <1>a
      <4>3. Len(q) - k = 0
        BY <3>2, <4>2
      <4> QED  BY <4>1, <4>3
    <3> QED  BY <3>1, <3>2
  <2>5. ASSUME NEW i \in 1..Len(q) - k PROVE h[i] = q[k + i]
    <3>1. i \in 1..Len(q) - (k + 1) + 1 /\ (k + 1) + i - 1 = k + i
      BY <1>a
    <3> QED  BY <2>3, <3>1
  <2> QED  BY <2>3, <2>4, <2>5
<1>e. p = l \o h
  BY DEF RemoveAt
<1> HIDE DEF p, l, h
<1>1. /\ p \in Seq(S) /\ Len(p) = Len(q) - 1 /\ DOMAIN p = 1..Len(p) /\ Len(p) \in Nat
      /\ \A i \in 1..Len(p) : p[i] = IF i < k THEN q[i] ELSE q[i + 1]
  <2>1. /\ p \in Seq(S) /\ Len(p) = Len(l) + Len(h)
        /\ \A i \in 1..Len(l) + Len(h) : p[i] = IF i <= Len(l) THEN l[i] ELSE h[i - Len(l)]
    BY <1>c, <1>d, <1>e, ConcatProperties
  <2>2. Len(p) = Len(q) - 1 /\ DOMAIN p = 1..Len(p) /\ Len(p) \in Nat
    BY <1>a, <1>c, <1>d, <2>1
  <2>3. ASSUME NEW i \in 1..Len(p), i < k PROVE p[i] = q[i]
    <3>1. i \in 1..k - 1 /\ i <= Len(l) /\ i \in 1..Len(l) + Len(h)
      BY <1>a, <1>c, <1>d, <2>2, <2>3
    <3> QED  BY <1>c, <2>1, <3>1
  <2>4. ASSUME NEW i \in 1..Len(p), ~(i < k) PROVE p[i] = q[i + 1]
    <3>1. i - (k - 1) \in 1..Len(q) - k /\ ~(i <= Len(l)) /\ i \in 1..Len(l) + Len(h) /\ k + (i - (k - 1)) = i + 1
      BY <1>a, <1>c, <1>d, <2>2, <2>4
    <3>2. p[i] = h[i - (k - 1)]
      BY <1>c, <2>1, <3>1
    <3> QED  BY <1>d, <3>1, <3>2
  <2> QED  BY <2>1, <2>2, <2>3, <2>4
<1>2. Injective(p)
  <2> SUFFICES ASSUME NEW i \in 1..Len(p), NEW j \in 1..Len(p), p[i] = p[j] PROVE i = j
    BY <1>1 DEF Injective
  <2> DEFINE at(n) == IF n < k THEN n ELSE n + 1
  <2>1. /\ at(i) \in 1..Len(q) /\ at(j) \in 1..Len(q)
        /\ p[i] = q[at(i)] /\ p[j] = q[at(j)] /\ (at(i) = at(j) => i = j)
    BY <1>a, <1>1
  <2> HIDE DEF at
  <2>2. at(i) = at(j)
    BY <1>a, <2>1 DEF Injective
  <2> QED  BY <2>1, <2>2
<1>3. ASSUME NEW u PROVE u \in ToSet(p) <=> u \in ToSet(q) /\ u # q[k]
  <2>1. ASSUME u \in ToSet(p) PROVE u \in ToSet(q) /\ u # q[k]
    <3>1. PICK i \in 1..Len(p) : p[i] = u
      BY <1>a, <1>1, <2>1 DEF ToSet
    <3>2. PICK j \in 1..Len(q) : q[j] = u /\ j # k
      <4>1. CASE i < k
        BY <1>a, <1>1, <3>1, <4>1
      <4>2. CASE ~(i < k)
        <5>1. i + 1 \in 1..Len(q) /\ q[i + 1] = u /\ i + 1 # k
          BY <1>a, <1>1, <3>1, <4>2
        <5> QED  BY <5>1
      <4> QED  BY <4>1, <4>2
    <3> QED  BY <1>a, <1>1, <3>2 DEF ToSet, Injective
  <2>2. ASSUME u \in ToSet(q), u # q[k] PROVE u \in ToSet(p)
    <3>1. PICK i \in 1..Len(q) : q[i] = u
      BY <1>a, <1>1, <2>2 DEF ToSet
    <3>2. CASE i < k
      <4>1. i \in 1..Len(p) /\ p[i] = u
        BY <1>a, <1>1, <3>1, <3>2
      <4> QED  BY <1>a, <1>1, <4>1 DEF ToSet
    <3>3. CASE i > k
      <4>1. i - 1 \in 1..Len(p) /\ p[i - 1] = u
        BY <1>a, <1>1, <3>1, <3>3
      <4> QED  BY <1>a, <1>1, <4>1 DEF ToSet
    <3> QED  BY <1>a, <1>1, <2>2, <3>1, <3>2, <3>3
  <2> QED  BY <2>1, <2>2
<1>4. k # 1 => p # <<>> /\ Head(p) = Head(q)
  BY <1>a, <1>1
<1> QED  BY <1>1, <1>2, <1>3, <1>4 DEF p

(* t joins the queue, gives the lock up and joins it again, gives the lock up,
   or gives up wherever it stands. *)
LEMMA Stays ==
  ASSUME TypeOK, QueueOK, NEW t \in Tasks, queue' = queue
  PROVE  QueueMoves(t) /\ (t \in ToSet(queue') <=> t \in ToSet(queue)) /\ (Holds(t) <=> Holds(t)')
BY DEF QueueMoves, TypeOK, QueueOK, Holds

LEMMA HeadIsIn ==
  ASSUME TypeOK, NEW t, Holds(t)
  PROVE  t \in ToSet(queue) /\ Head(queue) = t /\ queue # <<>>
<1>1. queue \in Seq(Tasks) /\ queue # <<>> /\ Head(queue) = t
  BY DEF TypeOK, Holds
<1>2. 1 \in DOMAIN queue /\ queue[1] = t
  BY <1>1
<1> QED  BY <1>1, <1>2 DEF ToSet

LEMMA Joins ==
  ASSUME TypeOK, QueueOK, NEW t \in Tasks, task[t].at \notin AtLock, queue' = Append(queue, t)
  PROVE  QueueMoves(t) /\ t \in ToSet(queue')
<1>1. queue \in Seq(Tasks) /\ Injective(queue) /\ t \notin ToSet(queue)
  BY DEF TypeOK, QueueOK
<1>2. /\ queue' \in Seq(Tasks) /\ queue' # <<>> /\ Injective(queue')
      /\ ToSet(queue') = ToSet(queue) \cup {t}
      /\ queue # <<>> => Head(queue') = Head(queue)
  BY <1>1, AppendFacts
<1> QED  BY <1>2 DEF QueueMoves, Holds

LEMMA LeavesHead ==
  ASSUME TypeOK, QueueOK, NEW t \in Tasks, Holds(t), queue' = Tail(queue)
  PROVE  QueueMoves(t) /\ t \notin ToSet(queue')
<1>1. queue \in Seq(Tasks) /\ Injective(queue) /\ queue # <<>> /\ Head(queue) = t
  BY HeadIsIn DEF TypeOK, QueueOK
<1>2. queue' \in Seq(Tasks) /\ Injective(queue') /\ ToSet(queue') = ToSet(queue) \ {t}
  BY <1>1, TailFacts
<1> QED  BY <1>1, <1>2 DEF QueueMoves, Holds

LEMMA GoesBack ==
  ASSUME TypeOK, QueueOK, NEW t \in Tasks, Holds(t), queue' = Append(Tail(queue), t)
  PROVE  QueueMoves(t) /\ t \in ToSet(queue')
<1>1. queue \in Seq(Tasks) /\ Injective(queue) /\ queue # <<>> /\ Head(queue) = t
  BY HeadIsIn DEF TypeOK, QueueOK
<1>2. PICK q : q = Tail(queue)
  OBVIOUS
<1>3. q \in Seq(Tasks) /\ Injective(q) /\ ToSet(q) = ToSet(queue) \ {t}
  BY <1>1, <1>2, TailFacts
<1>4. queue' \in Seq(Tasks) /\ Injective(queue') /\ ToSet(queue') = ToSet(q) \cup {t}
  <2>1. t \notin ToSet(q) /\ queue' = Append(q, t)
    BY <1>1, <1>2, <1>3
  <2>2. Append(q, t) \in Seq(Tasks) /\ Injective(Append(q, t)) /\ ToSet(Append(q, t)) = ToSet(q) \cup {t}
    BY <1>3, <2>1, AppendFacts
  <2> QED  BY <2>1, <2>2
<1> QED  BY <1>1, <1>3, <1>4 DEF QueueMoves, Holds

LEMMA GivesUp ==
  ASSUME TypeOK, QueueOK, NEW t \in Tasks, queue' = Given(t)
  PROVE  QueueMoves(t) /\ t \notin ToSet(queue')
<1>1. queue \in Seq(Tasks) /\ Injective(queue)
  BY DEF TypeOK, QueueOK
<1>2. CASE t \notin ToSet(queue)
  <2>1. queue' = queue
    BY <1>2 DEF Given, Without
  <2> QED  BY <1>2, <2>1, Stays
<1>3. CASE t \in ToSet(queue)
  <2>1. PICK k : k = Place(t)
    OBVIOUS
  <2>2. k \in 1..Len(queue) /\ queue[k] = t
    <3>1. \E i \in DOMAIN queue : queue[i] = t
      BY <1>3 DEF ToSet
    <3>2. k \in DOMAIN queue /\ queue[k] = t
      BY <2>1, <3>1 DEF Place
    <3> QED  BY <1>1, <3>2
  <2>3. queue' = RemoveAt(queue, k)
    BY <1>3, <2>1 DEF Given, Without
  <2>4. /\ queue' \in Seq(Tasks) /\ Injective(queue') /\ ToSet(queue') = ToSet(queue) \ {t}
        /\ k # 1 => queue' # <<>> /\ Head(queue') = Head(queue)
    BY <1>1, <2>2, <2>3, RemoveFacts
  <2>5. ASSUME NEW u \in Tasks, u # t, Holds(u) PROVE Holds(u)'
    <3>1. k # 1
      BY <1>1, <2>2, <2>5 DEF Holds
    <3> QED  BY <2>4, <2>5, <3>1 DEF Holds
  <2> QED  BY <2>4, <2>5 DEF QueueMoves
<1> QED  BY <1>2, <1>3

-----------------------------------------------------------------------------
(* A step of t alone: what it does to its place at the lock, to the index and
   to the brief. *)
PlaceStep(t, new) ==
  /\ new \in TaskRecord /\ task' = [task EXCEPT ![t] = new]
  /\ QueueMoves(t) /\ (t \in ToSet(queue') <=> new.at \in AtLock) /\ (new.at \in Calls => Holds(t)')

DataStep(t, new) ==
  /\ code' = code /\ graph' \in 0..MaxCode /\ indexed' \in BOOLEAN /\ brief' \in 0..MaxCode
  /\ live' \in BOOLEAN /\ overtaken' \in BOOLEAN /\ (overtaken => overtaken')
  /\ new.since <= code /\ new.seen <= code /\ new.at # "idle" /\ (new.at # "done" => new.got = 0)
  /\ graph' = graph \/ (task[t].at = "indexing" /\ graph' >= task[t].seen)
  /\ indexed' => indexed \/ (task[t].at = "indexing" /\ graph' >= task[t].seen)
  /\ brief' \in {0, brief} \/ (brief' = graph /\ graph' = graph /\ task[t].at = "building")
  /\ new.at \in {"brief", "building"} => indexed' \/ task[t].at \in {"brief", "building"}
  /\ new.at = "indexing" => new.seen = code

(* What a refresh goes on with, and what it returns, is of its own time. *)
RefreshStep(t, new) ==
  t \in Refreshers /\ ~overtaken' =>
    /\ new.at \in Past => \/ task[t].at \in Past /\ new.since = task[t].since
                          \/ FreshFor(new.since)'
    /\ new.got # 0 => task[t].at \in Past /\ new.since = task[t].since /\ new.got = brief'

LEMMA PlaceKept ==
  ASSUME TypeOK, QueueOK, NEW t \in Tasks, NEW new, PlaceStep(t, new)
  PROVE  QueueOK'
<1>1. task'[t] = new /\ \A u \in Tasks : u # t => task'[u] = task[u]
  BY DEF PlaceStep, TypeOK
<1>2. Injective(queue')
  BY DEF PlaceStep, QueueMoves
<1>3. ASSUME NEW u \in Tasks
      PROVE  /\ u \in ToSet(queue') <=> task'[u].at \in AtLock
             /\ task'[u].at \in Calls => Holds(u)'
  <2>1. CASE u = t
    BY <1>1, <2>1 DEF PlaceStep
  <2>2. CASE u # t
    BY <1>1, <2>2 DEF PlaceStep, QueueMoves, QueueOK
  <2> QED  BY <2>1, <2>2
<1> QED  BY <1>2, <1>3 DEF QueueOK

LEMMA TimesKept ==
  ASSUME TypeOK, TimesOK, NEW t \in Tasks, NEW new, PlaceStep(t, new), DataStep(t, new)
  PROVE  TimesOK'
<1>1. task'[t] = new /\ (\A u \in Tasks : u # t => task'[u] = task[u]) /\ code' = code
  BY DEF PlaceStep, DataStep, TypeOK
<1>2. ASSUME NEW u \in Tasks
      PROVE  /\ task'[u].since <= code /\ task'[u].seen <= code
             /\ task'[u].at = "idle" => task'[u] = Idle
             /\ task'[u].at # "done" => task'[u].got = 0
  <2>1. CASE u = t
    BY <1>1, <2>1 DEF DataStep
  <2>2. CASE u # t
    BY <1>1, <2>2 DEF TimesOK
  <2> QED  BY <2>1, <2>2
<1> QED  BY <1>1, <1>2 DEF TimesOK, Idle

LEMMA TypesKept ==
  ASSUME TypeOK, NEW t \in Tasks, NEW new, PlaceStep(t, new), DataStep(t, new), StreamTypeOK'
  PROVE  TypeOK'
<1>1. task' \in [Tasks -> TaskRecord]
  BY DEF PlaceStep, TypeOK, TaskRecord
<1>2. queue' \in Seq(Tasks)
  BY DEF PlaceStep, QueueMoves
<1> QED  BY <1>1, <1>2 DEF DataStep, TypeOK, TaskRecord

(* What is of the time of a refresh stays so. *)
LEMMA FreshForKept ==
  ASSUME TypeOK, NEW t \in Tasks, NEW new, PlaceStep(t, new), DataStep(t, new),
         NEW s \in 0..MaxCode, s <= code, FreshFor(s)
  PROVE  FreshFor(s)'
<1>1. task'[t] = new /\ \A u \in Tasks : u # t => task'[u] = task[u]
  BY DEF PlaceStep, TypeOK
<1>2. /\ task[t].at \in {"brief", "building"} => graph >= s
      /\ task[t].at = "indexing" => task[t].seen >= s
  BY DEF FreshFor
<1>3. /\ graph \in Nat /\ brief \in Nat /\ graph' \in Nat /\ brief' \in Nat /\ s \in Nat /\ code \in Nat
      /\ task[t].seen \in Nat
  BY CodeGraphAssumption DEF TypeOK, DataStep
<1>4. graph >= s => graph' >= s
  BY <1>2, <1>3 DEF DataStep
<1>5. indexed' => graph' >= s
  BY <1>2, <1>3, <1>4 DEF DataStep, FreshFor
<1>6. brief' # 0 => brief' >= s
  BY <1>2, <1>3 DEF DataStep, FreshFor
<1>7. ASSUME NEW u \in Tasks
      PROVE  /\ task'[u].at \in {"brief", "building"} => graph' >= s
             /\ task'[u].at = "indexing" => task'[u].seen >= s
  <2>1. CASE u = t
    <3>1. new.at \in {"brief", "building"} => graph' >= s
      BY <1>2, <1>4, <1>5 DEF DataStep
    <3>2. new.at = "indexing" => new.seen >= s
      BY <1>3 DEF DataStep
    <3> QED  BY <1>1, <2>1, <3>1, <3>2
  <2>2. CASE u # t
    BY <1>1, <1>4, <2>2 DEF FreshFor
  <2> QED  BY <2>1, <2>2
<1> QED  BY <1>5, <1>6, <1>7 DEF FreshFor

LEMMA FreshKept ==
  ASSUME TypeOK, TimesOK, FreshOK, ~overtaken', NEW t \in Tasks, NEW new,
         PlaceStep(t, new), DataStep(t, new), RefreshStep(t, new)
  PROVE  FreshOK'
<1>1. task'[t] = new /\ \A u \in Tasks : u # t => task'[u] = task[u]
  BY DEF PlaceStep, TypeOK
<1>2. ASSUME NEW u \in Refreshers, task[u].at \in Past, NEW s, s = task[u].since
      PROVE  s \in 0..MaxCode /\ FreshFor(s)'
  <2>1. s \in 0..MaxCode /\ s <= code /\ FreshFor(s)
    BY <1>2 DEF Tasks, TypeOK, TimesOK, FreshOK
  <2> QED  BY <2>1, FreshForKept
<1>3. ASSUME NEW u \in Refreshers
      PROVE  /\ task'[u].at \in Past => FreshFor(task[u].since)'
             /\ task'[u].got # 0 => task'[u].got >= task'[u].since
  <2>1. CASE u = t
    <3>1. ASSUME new.at \in Past PROVE FreshFor(task[u].since)'
      <4>1. CASE task[t].at \in Past /\ new.since = task[t].since
        <5>1. PICK s : s = task[u].since
          OBVIOUS
        <5>2. FreshFor(s)' /\ task'[u].since = s
          BY <1>1, <1>2, <2>1, <4>1, <5>1
        <5> QED  BY <5>2
      <4>2. CASE FreshFor(new.since)'
        <5>1. task'[u].since = new.since
          BY <1>1, <2>1
        <5> QED  BY <4>2, <5>1
      <4> QED  BY <2>1, <3>1, <4>1, <4>2 DEF RefreshStep
    <3>2. ASSUME new.got # 0 PROVE new.got >= new.since
      <4>1. task[t].at \in Past /\ new.since = task[t].since /\ new.got = brief'
        BY <2>1, <3>2 DEF RefreshStep
      <4>2. PICK s : s = task[u].since
        OBVIOUS
      <4>3. FreshFor(s)'
        BY <1>2, <2>1, <4>1, <4>2
      <4>4. brief' # 0 => brief' >= s
        BY <4>3 DEF FreshFor
      <4> QED  BY <2>1, <3>2, <4>1, <4>2, <4>4
    <3> QED  BY <1>1, <2>1, <3>1, <3>2
  <2>2. CASE u # t
    <3>1. task'[u] = task[u] /\ (task[u].got # 0 => task[u].got >= task[u].since)
      BY <1>1, <2>2 DEF FreshOK, Tasks
    <3>2. ASSUME task[u].at \in Past PROVE FreshFor(task[u].since)'
      <4>1. PICK s : s = task[u].since
        OBVIOUS
      <4>2. FreshFor(s)' /\ task'[u].since = s
        BY <1>2, <3>1, <3>2, <4>1
      <4> QED  BY <4>2
    <3> QED  BY <3>1, <3>2
  <2> QED  BY <2>1, <2>2
<1> QED  BY <1>3 DEF FreshOK

(* A step of t alone keeps the invariant, but for what it says of streams. *)
LEMMA StepKept ==
  ASSUME CodeGraphInv, NEW t \in Tasks, NEW new, PlaceStep(t, new), DataStep(t, new),
         RefreshStep(t, new), StreamTypeOK', StreamsOK'
  PROVE  CodeGraphInv'
<1>1. TypeOK /\ QueueOK /\ TimesOK /\ (~overtaken => FreshOK)
  BY DEF CodeGraphInv
<1>2. TypeOK' /\ QueueOK' /\ TimesOK'
  BY <1>1, TypesKept, PlaceKept, TimesKept
<1>3. ASSUME ~overtaken' PROVE FreshOK'
  <2>1. FreshOK
    BY <1>1, <1>3 DEF DataStep
  <2> QED  BY <1>1, <1>3, <2>1, FreshKept
<1> QED  BY <1>2, <1>3 DEF CodeGraphInv

(* The streams, while the task of one takes a step in the layer. *)
LEMMA StreamsKept ==
  ASSUME TypeOK, StreamsOK, NEW t \in Tasks, NEW new, PlaceStep(t, new), conn' = conn,
         t \in Streams => conn[t].at # "over"
  PROVE  StreamTypeOK' /\ StreamsOK'
<1>1. task'[t] = new /\ \A u \in Tasks : u # t => task'[u] = task[u]
  BY DEF PlaceStep, TypeOK
<1>2. StreamTypeOK'
  BY DEF TypeOK, StreamTypeOK
<1> QED  BY <1>1, <1>2 DEF StreamsOK, StreamOK, Tasks

-----------------------------------------------------------------------------
(* What a call does when it has its answer: it returns, or goes on to the
   brief, or asks for the index again. *)
Settles(t, new, ok, b, q) ==
  \/ /\ new.at = "done" /\ new.seen = 0 /\ new.since <= code /\ queue' = q
     /\ new.got # 0 => t \in Refreshers /\ new.since = task[t].since /\ new.got = b
  \/ /\ new.at = (IF ok THEN "brief" ELSE "index") /\ queue' = Append(q, t)
     /\ new.since = task[t].since /\ new.seen = task[t].seen /\ new.got = task[t].got

LEMMA DoneStep ==
  ASSUME TypeOK, TimesOK, NEW t \in Tasks, NEW b \in 0..MaxCode, Done(t, b)
  PROVE  \E new \in TaskRecord :
           /\ task' = [task EXCEPT ![t] = new]
           /\ new.at = "done" /\ new.seen = 0 /\ new.since <= code
           /\ new.got # 0 => t \in Refreshers /\ new.since = task[t].since /\ new.got = b
<1>1. task[t].since \in 0..MaxCode /\ task[t].since <= code /\ 0 \in 0..MaxCode /\ 0 <= code
  BY CodeGraphAssumption DEF TypeOK, TimesOK
<1>2. CASE t \in Refreshers
  <2> DEFINE new == [Idle EXCEPT !.at = "done", !.since = task[t].since, !.got = b]
  <2>1. /\ new \in TaskRecord /\ new.at = "done" /\ new.seen = 0 /\ new.since = task[t].since
        /\ new.got = b
    BY <1>1 DEF Idle, TaskRecord
  <2>2. task' = [task EXCEPT ![t] = new]
    BY <1>2 DEF Done
  <2> HIDE DEF new
  <2> QED  BY <1>1, <1>2, <2>1, <2>2
<1>3. CASE t \notin Refreshers
  <2> DEFINE new == [Idle EXCEPT !.at = "done"]
  <2>1. new \in TaskRecord /\ new.at = "done" /\ new.seen = 0 /\ new.since = 0 /\ new.got = 0
    BY <1>1 DEF Idle, TaskRecord
  <2>2. task' = [task EXCEPT ![t] = new]
    BY <1>3 DEF Done
  <2> HIDE DEF new
  <2> QED  BY <1>1, <1>3, <2>1, <2>2
<1> QED  BY <1>2, <1>3

LEMMA EnterStep ==
  ASSUME TypeOK, TimesOK, NEW t \in Tasks, NEW ok \in BOOLEAN, NEW b \in 0..MaxCode, NEW q,
         EnterBrief(t, ok, b, q)
  PROVE  \E new \in TaskRecord : task' = [task EXCEPT ![t] = new] /\ Settles(t, new, ok, b, q)
<1>1. CASE b # 0
  <2>1. Done(t, b) /\ queue' = q
    BY <1>1 DEF EnterBrief
  <2> QED  BY <2>1, DoneStep DEF Settles
<1>2. CASE b = 0
  <2> DEFINE new == [task[t] EXCEPT !.at = IF ok THEN "brief" ELSE "index", !.again = TRUE]
  <2>1. task[t] \in TaskRecord
    BY DEF TypeOK, TaskRecord
  <2>2. /\ new \in TaskRecord /\ new.at = (IF ok THEN "brief" ELSE "index")
        /\ new.since = task[t].since /\ new.seen = task[t].seen /\ new.got = task[t].got
    BY <2>1 DEF TaskRecord
  <2>3. task' = [task EXCEPT ![t] = new] /\ queue' = Append(q, t)
    BY <1>2, <2>1 DEF EnterBrief, TypeOK, TaskRecord
  <2> HIDE DEF new
  <2> QED  BY <2>2, <2>3 DEF Settles
<1> QED  BY <1>1, <1>2

LEMMA GoStep ==
  ASSUME TypeOK, NEW t \in Tasks, NEW st, Go(t, st),
         st \in {"index", "brief", "building"}
  PROVE  \E new \in TaskRecord :
           /\ task' = [task EXCEPT ![t] = new] /\ new.at = st
           /\ new.since = task[t].since /\ new.seen = task[t].seen /\ new.got = task[t].got
<1> DEFINE new == [task[t] EXCEPT !.at = st]
<1>1. task[t] \in TaskRecord
  BY DEF TypeOK, TaskRecord
<1>2. /\ new \in TaskRecord /\ new.at = st
      /\ new.since = task[t].since /\ new.seen = task[t].seen /\ new.got = task[t].got
  BY <1>1 DEF TaskRecord
<1>3. task' = [task EXCEPT ![t] = new]
  BY <1>1 DEF Go, TypeOK, TaskRecord
<1> HIDE DEF new
<1> QED  BY <1>2, <1>3

LEMMA AnswerStep ==
  ASSUME TypeOK, TimesOK, NEW t \in Tasks, NEW ok \in BOOLEAN, NEW b \in 0..MaxCode,
         Answer(t, ok, b)
  PROVE  \E new \in TaskRecord :
           task' = [task EXCEPT ![t] = new] /\ Settles(t, new, ok, b, Tail(queue))
<1>1. CASE t = Indexer \/ (task[t].again /\ ~ok)
  <2>1. Done(t, 0) /\ queue' = Tail(queue) /\ 0 \in 0..MaxCode
    BY <1>1, CodeGraphAssumption DEF Answer
  <2>2. PICK new \in TaskRecord :
          /\ task' = [task EXCEPT ![t] = new]
          /\ new.at = "done" /\ new.seen = 0 /\ new.since <= code
          /\ new.got # 0 => t \in Refreshers /\ new.since = task[t].since /\ new.got = 0
    BY <2>1, DoneStep
  <2> QED  BY <2>1, <2>2 DEF Settles
<1>2. CASE ~(t = Indexer \/ (task[t].again /\ ~ok)) /\ task[t].again
  <2>1. Go(t, "brief") /\ queue' = Append(Tail(queue), t) /\ ok
    BY <1>2 DEF Answer
  <2>2. PICK new \in TaskRecord :
           /\ task' = [task EXCEPT ![t] = new] /\ new.at = "brief"
           /\ new.since = task[t].since /\ new.seen = task[t].seen /\ new.got = task[t].got
    BY <2>1, GoStep
  <2> QED  BY <2>1, <2>2 DEF Settles
<1>3. CASE ~(t = Indexer \/ (task[t].again /\ ~ok)) /\ ~task[t].again
  <2>1. EnterBrief(t, ok, b, Tail(queue))
    BY <1>3 DEF Answer
  <2> QED  BY <2>1, EnterStep
<1> QED  BY <1>1, <1>2, <1>3

(* Where the answer leaves it: with its place at the lock, or without one. *)
LEMMA SettledPlace ==
  ASSUME TypeOK, QueueOK, NEW t \in Tasks, Holds(t), NEW ok \in BOOLEAN, NEW b,
         NEW new \in TaskRecord, task' = [task EXCEPT ![t] = new],
         Settles(t, new, ok, b, Tail(queue))
  PROVE  PlaceStep(t, new)
<1>1. CASE new.at = "done" /\ queue' = Tail(queue)
  <2>1. QueueMoves(t) /\ t \notin ToSet(queue')
    BY <1>1, LeavesHead
  <2> QED  BY <1>1, <2>1 DEF PlaceStep, AtLock, Calls
<1>2. CASE new.at = (IF ok THEN "brief" ELSE "index") /\ queue' = Append(Tail(queue), t)
  <2>1. QueueMoves(t) /\ t \in ToSet(queue')
    BY <1>2, GoesBack
  <2> QED  BY <1>2, <2>1 DEF PlaceStep, AtLock, Calls
<1> QED  BY <1>1, <1>2 DEF Settles

LEMMA SettledData ==
  ASSUME TypeOK, TimesOK, NEW t \in Tasks, task[t].at # "done", NEW ok \in BOOLEAN, NEW b, NEW q,
         NEW new \in TaskRecord, Settles(t, new, ok, b, q), ok => indexed'
  PROVE  /\ new.since <= code /\ new.seen <= code /\ new.at # "idle" /\ new.at # "indexing"
         /\ new.at # "done" => new.got = 0
         /\ new.at \in {"brief", "building"} => indexed'
<1>1. /\ task[t].since <= code /\ task[t].seen <= code /\ task[t].got = 0 /\ 0 <= code
  BY DEF TypeOK, TimesOK
<1>2. CASE new.at = "done" /\ new.seen = 0 /\ new.since <= code
  BY <1>1, <1>2
<1>3. CASE /\ new.at = (IF ok THEN "brief" ELSE "index")
           /\ new.since = task[t].since /\ new.seen = task[t].seen /\ new.got = task[t].got
  BY <1>1, <1>3
<1> QED  BY <1>2, <1>3 DEF Settles

LEMMA SettledRefresh ==
  ASSUME NEW t \in Tasks, task[t].at \in Past, NEW ok, NEW b, NEW q,
         NEW new, Settles(t, new, ok, b, q), b # 0 => b = brief', TimesOK
  PROVE  RefreshStep(t, new)
<1>1. task[t].got = 0
  BY DEF Past, TimesOK
<1> QED  BY <1>1 DEF Settles, RefreshStep, Past

(* The task of a stream that is in the layer is of a stream that goes on. *)
LEMMA StreamGoesOn ==
  ASSUME StreamsOK, NEW t \in Tasks, task[t].at \notin {"idle", "done"}
  PROVE  t \in Streams => conn[t].at # "over"
BY DEF StreamsOK

-----------------------------------------------------------------------------
LEMMA TurnAsksKept ==
  ASSUME CodeGraphInv, NEW t \in Streams \cup Turns, TurnAsks(t)
  PROVE  CodeGraphInv'
<1>1. TypeOK /\ QueueOK /\ StreamsOK /\ TimesOK
  BY DEF CodeGraphInv
<1>2. t \in Tasks /\ t \notin Refreshers /\ 0 \in 0..MaxCode
  BY CodeGraphAssumption DEF Tasks
<1>3. /\ task[t].at = "idle" /\ (t \in Streams => conn[t].next = "pending")
      /\ code' = code /\ graph' = graph /\ indexed' = indexed /\ brief' = brief
      /\ live' = live /\ overtaken' = overtaken /\ conn' = conn
  BY DEF TurnAsks, cache
<1>4. /\ indexed \in BOOLEAN /\ brief \in 0..MaxCode /\ graph \in 0..MaxCode
      /\ live \in BOOLEAN /\ overtaken \in BOOLEAN
  BY <1>1 DEF TypeOK
<1>5. PICK new \in TaskRecord, b \in 0..MaxCode :
        task' = [task EXCEPT ![t] = new] /\ Settles(t, new, indexed, b, queue)
  <2>1. CASE EnterBrief(t, indexed, brief, queue)
    BY <1>1, <1>2, <1>4, <2>1, EnterStep
  <2>2. CASE Done(t, 0) /\ queue' = queue
    <3>1. PICK new \in TaskRecord :
             /\ task' = [task EXCEPT ![t] = new]
             /\ new.at = "done" /\ new.seen = 0 /\ new.since <= code
             /\ new.got # 0 => t \in Refreshers /\ new.since = task[t].since /\ new.got = 0
      BY <1>1, <1>2, <2>2, DoneStep
    <3>2. Settles(t, new, indexed, 0, queue)
      BY <2>2, <3>1 DEF Settles
    <3> QED  BY <1>2, <3>1, <3>2
  <2> QED  BY <2>1, <2>2 DEF TurnAsks
<1>6. PlaceStep(t, new)
  <2>1. CASE new.at = "done" /\ queue' = queue
    <3>1. QueueMoves(t) /\ t \notin ToSet(queue')
      BY <1>1, <1>2, <1>3, <2>1, Stays DEF QueueOK, AtLock
    <3> QED  BY <1>5, <2>1, <3>1 DEF PlaceStep, AtLock, Calls
  <2>2. CASE new.at \in {"brief", "index"} /\ queue' = Append(queue, t)
    <3>1. QueueMoves(t) /\ t \in ToSet(queue')
      BY <1>1, <1>2, <1>3, <2>2, Joins DEF AtLock
    <3> QED  BY <1>5, <2>2, <3>1 DEF PlaceStep, AtLock, Calls
  <2> QED  BY <1>5, <2>1, <2>2 DEF Settles
<1>7. DataStep(t, new)
  <2>1. /\ new.since <= code /\ new.seen <= code /\ new.at # "idle" /\ new.at # "indexing"
        /\ new.at # "done" => new.got = 0
        /\ new.at \in {"brief", "building"} => indexed'
    BY <1>1, <1>2, <1>3, <1>4, <1>5, SettledData
  <2> QED  BY <1>3, <1>4, <2>1 DEF DataStep
<1>8. RefreshStep(t, new)
  BY <1>2 DEF RefreshStep
<1>9. t \in Streams => conn[t].at # "over"
  BY <1>1, <1>3 DEF StreamsOK, StreamOK
<1>10. StreamTypeOK' /\ StreamsOK'
  BY <1>1, <1>2, <1>3, <1>6, <1>9, StreamsKept
<1> QED  BY <1>2, <1>6, <1>7, <1>8, <1>10, StepKept

LEMMA TakeIndexKept ==
  ASSUME CodeGraphInv, NEW t \in Tasks, TakeIndex(t)
  PROVE  CodeGraphInv'
<1>1. TypeOK /\ QueueOK /\ StreamsOK /\ TimesOK
  BY DEF CodeGraphInv
<1>2. /\ task[t].at = "index" /\ Holds(t)
      /\ code' = code /\ graph' = graph /\ indexed' = indexed /\ brief' = brief
      /\ live' = live /\ overtaken' = overtaken /\ conn' = conn
  BY DEF TakeIndex, cache
<1>3. /\ indexed \in BOOLEAN /\ brief \in 0..MaxCode /\ graph \in 0..MaxCode
      /\ live \in BOOLEAN /\ overtaken \in BOOLEAN /\ code \in 0..MaxCode
  BY <1>1 DEF TypeOK
<1>4. \E new \in TaskRecord : PlaceStep(t, new) /\ DataStep(t, new) /\ RefreshStep(t, new)
  <2>1. CASE indexed
    <3>1. Answer(t, TRUE, brief)
      BY <2>1 DEF TakeIndex, LooksAgain
    <3>2. PICK new \in TaskRecord :
            task' = [task EXCEPT ![t] = new] /\ Settles(t, new, TRUE, brief, Tail(queue))
      BY <1>1, <1>3, <3>1, AnswerStep
    <3>3. PlaceStep(t, new)
      BY <1>1, <1>2, <3>2, SettledPlace
    <3>4. DataStep(t, new)
      <4>1. /\ new.since <= code /\ new.seen <= code /\ new.at # "idle" /\ new.at # "indexing"
            /\ new.at # "done" => new.got = 0
            /\ new.at \in {"brief", "building"} => indexed'
        BY <1>1, <1>2, <2>1, <3>2, SettledData
      <4> QED  BY <1>2, <1>3, <4>1 DEF DataStep
    <3>5. RefreshStep(t, new)
      BY <1>1, <1>2, <3>2, SettledRefresh DEF Past
    <3> QED  BY <3>3, <3>4, <3>5
  <2>2. CASE ~indexed
    <3> DEFINE new == [task[t] EXCEPT !.at = "indexing", !.seen = code]
    <3>1. task[t] \in TaskRecord /\ task[t].since <= code /\ task[t].got = 0
      BY <1>1, <1>2 DEF TypeOK, TaskRecord, TimesOK
    <3>2. /\ new \in TaskRecord /\ new.at = "indexing" /\ new.seen = code
          /\ new.since = task[t].since /\ new.got = 0
      BY <1>3, <3>1 DEF TaskRecord
    <3>3. task' = [task EXCEPT ![t] = new] /\ queue' = queue
      BY <1>1, <2>2 DEF TakeIndex, LooksAgain, TypeOK
    <3> HIDE DEF new
    <3>4. QueueMoves(t) /\ t \in ToSet(queue') /\ Holds(t)'
      BY <1>1, <1>2, <3>3, Stays DEF QueueOK, AtLock
    <3>5. PlaceStep(t, new)
      BY <3>2, <3>3, <3>4 DEF PlaceStep, AtLock
    <3>6. DataStep(t, new)
      BY <1>2, <1>3, <3>1, <3>2 DEF DataStep
    <3>7. RefreshStep(t, new)
      BY <1>2, <3>2 DEF RefreshStep, Past
    <3> QED  BY <3>2, <3>5, <3>6, <3>7
  <2> QED  BY <2>1, <2>2
<1>5. t \in Streams => conn[t].at # "over"
  BY <1>1, <1>2, StreamGoesOn
<1>6. PICK new : PlaceStep(t, new) /\ DataStep(t, new) /\ RefreshStep(t, new)
  BY <1>4
<1>7. StreamTypeOK' /\ StreamsOK'
  BY <1>1, <1>2, <1>5, <1>6, StreamsKept
<1> QED  BY <1>6, <1>7, StepKept

LEMMA IndexEndsKept ==
  ASSUME CodeGraphInv, NEW t \in Tasks, IndexEnds(t)
  PROVE  CodeGraphInv'
<1>1. TypeOK /\ QueueOK /\ StreamsOK /\ TimesOK
  BY DEF CodeGraphInv
<1>2. /\ task[t].at = "indexing" /\ Holds(t) /\ Answer(t, TRUE, brief)
      /\ code' = code /\ indexed' = TRUE /\ brief' = brief
      /\ live' = live /\ overtaken' = overtaken /\ conn' = conn
  BY <1>1 DEF IndexEnds, QueueOK, Calls
<1>3. /\ brief \in 0..MaxCode /\ live \in BOOLEAN /\ overtaken \in BOOLEAN /\ code \in 0..MaxCode
      /\ task[t].seen \in 0..MaxCode
  BY <1>1 DEF TypeOK
<1>4. graph' \in 0..MaxCode /\ graph' >= task[t].seen
  BY <1>3, CodeGraphAssumption DEF IndexEnds
<1>5. PICK new \in TaskRecord :
        task' = [task EXCEPT ![t] = new] /\ Settles(t, new, TRUE, brief, Tail(queue))
  BY <1>1, <1>2, <1>3, AnswerStep
<1>6. PlaceStep(t, new)
  BY <1>1, <1>2, <1>5, SettledPlace
<1>7. DataStep(t, new)
  <2>1. /\ new.since <= code /\ new.seen <= code /\ new.at # "idle" /\ new.at # "indexing"
        /\ new.at # "done" => new.got = 0
        /\ new.at \in {"brief", "building"} => indexed'
    BY <1>1, <1>2, <1>5, SettledData
  <2> QED  BY <1>2, <1>3, <1>4, <2>1 DEF DataStep
<1>8. RefreshStep(t, new)
  BY <1>1, <1>2, <1>5, SettledRefresh DEF Past
<1>9. StreamTypeOK' /\ StreamsOK'
  <2>1. t \in Streams => conn[t].at # "over"
    BY <1>1, <1>2, StreamGoesOn
  <2> QED  BY <1>1, <1>2, <1>6, <2>1, StreamsKept
<1> QED  BY <1>6, <1>7, <1>8, <1>9, StepKept

LEMMA IndexFailsKept ==
  ASSUME CodeGraphInv, NEW t \in Tasks, IndexFails(t)
  PROVE  CodeGraphInv'
<1>1. TypeOK /\ QueueOK /\ StreamsOK /\ TimesOK
  BY DEF CodeGraphInv
<1>2. /\ task[t].at = "indexing" /\ Holds(t) /\ Answer(t, FALSE, 0)
      /\ code' = code /\ graph' = graph /\ indexed' = FALSE /\ brief' = 0
      /\ live' = live /\ overtaken' = overtaken /\ conn' = conn
  BY <1>1 DEF IndexFails, QueueOK, Calls
<1>3. /\ 0 \in 0..MaxCode /\ graph \in 0..MaxCode /\ live \in BOOLEAN /\ overtaken \in BOOLEAN
  BY <1>1, CodeGraphAssumption DEF TypeOK
<1>4. PICK new \in TaskRecord :
        task' = [task EXCEPT ![t] = new] /\ Settles(t, new, FALSE, 0, Tail(queue))
  BY <1>1, <1>2, <1>3, AnswerStep
<1>5. PlaceStep(t, new)
  BY <1>1, <1>2, <1>4, SettledPlace
<1>6. DataStep(t, new)
  <2>1. /\ new.since <= code /\ new.seen <= code /\ new.at # "idle" /\ new.at # "indexing"
        /\ new.at # "done" => new.got = 0
        /\ new.at \in {"brief", "building"} => indexed'
    BY <1>1, <1>2, <1>4, SettledData
  <2> QED  BY <1>2, <1>3, <2>1 DEF DataStep
<1>7. RefreshStep(t, new)
  BY <1>1, <1>2, <1>4, SettledRefresh DEF Past
<1>8. StreamTypeOK' /\ StreamsOK'
  <2>1. t \in Streams => conn[t].at # "over"
    BY <1>1, <1>2, StreamGoesOn
  <2> QED  BY <1>1, <1>2, <1>5, <2>1, StreamsKept
<1> QED  BY <1>5, <1>6, <1>7, <1>8, StepKept

(* A call that has, or has not, its brief returns. *)
LEMMA ReturnKept ==
  ASSUME CodeGraphInv, NEW t \in Tasks, task[t].at \in {"brief", "building"}, Holds(t),
         NEW b \in 0..MaxCode, Done(t, b), queue' = Tail(queue), b # 0 => b = brief',
         \/ brief' = brief
         \/ brief' = graph /\ task[t].at = "building",
         code' = code, graph' = graph, indexed' = indexed, live' = live, overtaken' = overtaken, conn' = conn
  PROVE  CodeGraphInv'
<1>1. TypeOK /\ QueueOK /\ StreamsOK /\ TimesOK
  BY DEF CodeGraphInv
<1>2. /\ brief \in 0..MaxCode /\ graph \in 0..MaxCode /\ indexed \in BOOLEAN
      /\ live \in BOOLEAN /\ overtaken \in BOOLEAN
  BY <1>1 DEF TypeOK
<1>3. PICK new \in TaskRecord :
         /\ task' = [task EXCEPT ![t] = new]
         /\ new.at = "done" /\ new.seen = 0 /\ new.since <= code
         /\ new.got # 0 => t \in Refreshers /\ new.since = task[t].since /\ new.got = b
  BY <1>1, DoneStep
<1>4. PlaceStep(t, new)
  <2>1. QueueMoves(t) /\ t \notin ToSet(queue')
    BY <1>1, LeavesHead
  <2> QED  BY <1>3, <2>1 DEF PlaceStep, AtLock, Calls
<1>5. DataStep(t, new)
  <2>1. 0 <= code
    BY <1>1, CodeGraphAssumption DEF TypeOK
  <2> QED  BY <1>2, <1>3, <2>1 DEF DataStep
<1>6. RefreshStep(t, new)
  BY <1>3 DEF RefreshStep, Past
<1>7. StreamTypeOK' /\ StreamsOK'
  <2>1. t \in Streams => conn[t].at # "over"
    BY <1>1, StreamGoesOn
  <2> QED  BY <1>1, <1>4, <2>1, StreamsKept
<1> QED  BY <1>4, <1>5, <1>6, <1>7, StepKept

LEMMA TakeBriefKept ==
  ASSUME CodeGraphInv, NEW t \in Tasks, TakeBrief(t)
  PROVE  CodeGraphInv'
<1>1. TypeOK /\ QueueOK /\ StreamsOK /\ TimesOK
  BY DEF CodeGraphInv
<1>2. /\ task[t].at = "brief" /\ Holds(t)
      /\ code' = code /\ graph' = graph /\ indexed' = indexed /\ brief' = brief
      /\ live' = live /\ overtaken' = overtaken /\ conn' = conn
  BY DEF TakeBrief, cache
<1>3. /\ brief \in 0..MaxCode /\ graph \in 0..MaxCode /\ indexed \in BOOLEAN
      /\ live \in BOOLEAN /\ overtaken \in BOOLEAN
  BY <1>1 DEF TypeOK
<1>4. CASE brief # 0
  <2>1. Done(t, brief) /\ queue' = Tail(queue)
    BY <1>4 DEF TakeBrief
  <2> QED  BY <1>2, <1>3, <2>1, ReturnKept
<1>5. CASE brief = 0
  <2>1. Go(t, "building") /\ queue' = queue
    BY <1>5 DEF TakeBrief
  <2>2. PICK new \in TaskRecord :
           /\ task' = [task EXCEPT ![t] = new] /\ new.at = "building"
           /\ new.since = task[t].since /\ new.seen = task[t].seen /\ new.got = task[t].got
    BY <1>1, <2>1, GoStep
  <2>3. QueueMoves(t) /\ t \in ToSet(queue') /\ Holds(t)'
    BY <1>1, <1>2, <2>1, Stays DEF QueueOK, AtLock
  <2>4. PlaceStep(t, new)
    BY <2>2, <2>3 DEF PlaceStep, AtLock
  <2>5. DataStep(t, new)
    <3>1. task[t].since <= code /\ task[t].seen <= code /\ task[t].got = 0
      BY <1>1, <1>2 DEF TimesOK
    <3> QED  BY <1>2, <1>3, <2>2, <3>1 DEF DataStep
  <2>6. RefreshStep(t, new)
    BY <1>1, <1>2, <2>2 DEF RefreshStep, Past, TimesOK
  <2>7. StreamTypeOK' /\ StreamsOK'
    <3>1. t \in Streams => conn[t].at # "over"
      BY <1>1, <1>2, StreamGoesOn
    <3> QED  BY <1>1, <1>2, <2>4, <3>1, StreamsKept
  <2> QED  BY <2>4, <2>5, <2>6, <2>7, StepKept
<1> QED  BY <1>4, <1>5

LEMMA BriefEndsKept ==
  ASSUME CodeGraphInv, NEW t \in Tasks, BriefEnds(t)
  PROVE  CodeGraphInv'
<1>1. /\ task[t].at = "building" /\ Done(t, graph) /\ queue' = Tail(queue) /\ brief' = graph
      /\ code' = code /\ graph' = graph /\ indexed' = indexed
      /\ live' = live /\ overtaken' = overtaken /\ conn' = conn
  BY DEF BriefEnds
<1>2. Holds(t) /\ graph \in 0..MaxCode
  BY <1>1 DEF CodeGraphInv, QueueOK, Calls, TypeOK
<1> QED  BY <1>1, <1>2, ReturnKept

LEMMA BriefFailsKept ==
  ASSUME CodeGraphInv, NEW t \in Tasks, BriefFails(t)
  PROVE  CodeGraphInv'
<1>1. /\ task[t].at = "building" /\ Done(t, 0) /\ queue' = Tail(queue) /\ brief' = brief
      /\ code' = code /\ graph' = graph /\ indexed' = indexed
      /\ live' = live /\ overtaken' = overtaken /\ conn' = conn
  BY DEF BriefFails, cache
<1>2. Holds(t) /\ 0 \in 0..MaxCode
  BY <1>1, CodeGraphAssumption DEF CodeGraphInv, QueueOK, Calls
<1> QED  BY <1>1, <1>2, ReturnKept

LEMMA StartIndexKept ==
  ASSUME CodeGraphInv, StartIndex
  PROVE  CodeGraphInv'
<1>1. TypeOK /\ QueueOK /\ StreamsOK /\ TimesOK
  BY DEF CodeGraphInv
<1>2. PICK t : t = Indexer
  OBVIOUS
<1>3. t \in Tasks /\ t \notin Refreshers /\ t \notin Streams /\ 0 \in 0..MaxCode
  BY <1>2, CodeGraphAssumption DEF Tasks
<1>4. /\ task[t].at = "idle"
      /\ code' = code /\ graph' = graph /\ indexed' = indexed /\ brief' = brief
      /\ live' = live /\ overtaken' = overtaken /\ conn' = conn
  BY <1>2 DEF StartIndex, cache
<1>5. /\ indexed \in BOOLEAN /\ brief \in 0..MaxCode /\ graph \in 0..MaxCode
      /\ live \in BOOLEAN /\ overtaken \in BOOLEAN /\ code \in 0..MaxCode
  BY <1>1 DEF TypeOK
<1>6. PICK new \in TaskRecord : PlaceStep(t, new) /\ new.at \in {"index", "done"}
         /\ new.since <= code /\ new.seen <= code /\ (new.at # "done" => new.got = 0)
  <2>1. CASE indexed
    <3>1. Done(t, 0) /\ queue' = queue
      BY <1>2, <2>1 DEF StartIndex
    <3>2. PICK new \in TaskRecord :
             /\ task' = [task EXCEPT ![t] = new]
             /\ new.at = "done" /\ new.seen = 0 /\ new.since <= code
             /\ new.got # 0 => t \in Refreshers /\ new.since = task[t].since /\ new.got = 0
      BY <1>1, <1>3, <3>1, DoneStep
    <3>3. QueueMoves(t) /\ t \notin ToSet(queue')
      BY <1>1, <1>3, <1>4, <3>1, Stays DEF QueueOK, AtLock
    <3>4. PlaceStep(t, new)
      BY <3>2, <3>3 DEF PlaceStep, AtLock, Calls
    <3> QED  BY <1>5, <3>2, <3>4
  <2>2. CASE ~indexed
    <3>1. Go(t, "index") /\ queue' = Append(queue, t)
      BY <1>2, <2>2 DEF StartIndex
    <3>2. PICK new \in TaskRecord :
             /\ task' = [task EXCEPT ![t] = new] /\ new.at = "index"
             /\ new.since = task[t].since /\ new.seen = task[t].seen /\ new.got = task[t].got
      BY <1>1, <1>3, <3>1, GoStep
    <3>3. QueueMoves(t) /\ t \in ToSet(queue')
      BY <1>1, <1>3, <1>4, <3>1, Joins DEF AtLock
    <3>4. PlaceStep(t, new)
      BY <3>2, <3>3 DEF PlaceStep, AtLock, Calls
    <3>5. task[t].since <= code /\ task[t].seen <= code /\ task[t].got = 0
      BY <1>1, <1>3, <1>4 DEF TimesOK
    <3> QED  BY <3>2, <3>4, <3>5
  <2> QED  BY <2>1, <2>2
<1>7. DataStep(t, new)
  BY <1>4, <1>5, <1>6 DEF DataStep
<1>8. RefreshStep(t, new)
  BY <1>3 DEF RefreshStep
<1>9. StreamTypeOK' /\ StreamsOK'
  BY <1>1, <1>3, <1>4, <1>6, StreamsKept
<1> QED  BY <1>3, <1>6, <1>7, <1>8, <1>9, StepKept

LEMMA RefreshKept ==
  ASSUME CodeGraphInv, NEW t \in Refreshers, Refresh(t)
  PROVE  CodeGraphInv'
<1>1. TypeOK /\ QueueOK /\ StreamsOK /\ TimesOK
  BY DEF CodeGraphInv
<1>2. t \in Tasks /\ t \notin Streams
  BY CodeGraphAssumption DEF Tasks
<1>3. /\ task[t].at = "idle" /\ queue' = Append(queue, t)
      /\ code' = code /\ graph' = graph /\ indexed' = indexed /\ brief' = brief
      /\ live' = live /\ overtaken' = overtaken /\ conn' = conn
  BY DEF Refresh, cache
<1>4. /\ indexed \in BOOLEAN /\ brief \in 0..MaxCode /\ graph \in 0..MaxCode
      /\ live \in BOOLEAN /\ overtaken \in BOOLEAN /\ code \in 0..MaxCode
  BY <1>1, CodeGraphAssumption DEF TypeOK
<1> DEFINE new == [task[t] EXCEPT !.at = "clear", !.since = code]
<1>5. task[t] \in TaskRecord /\ task[t].seen <= code /\ task[t].got = 0
  BY <1>1, <1>2, <1>3 DEF TypeOK, TaskRecord, TimesOK
<1>6. new \in TaskRecord /\ new.at = "clear" /\ new.since = code /\ new.seen = task[t].seen /\ new.got = 0
  BY <1>4, <1>5 DEF TaskRecord
<1>7. task' = [task EXCEPT ![t] = new]
  BY <1>1, <1>2 DEF Refresh, TypeOK
<1> HIDE DEF new
<1>8. PlaceStep(t, new)
  <2>1. QueueMoves(t) /\ t \in ToSet(queue')
    BY <1>1, <1>2, <1>3, Joins DEF AtLock
  <2> QED  BY <1>6, <1>7, <2>1 DEF PlaceStep, AtLock, Calls
<1>9. DataStep(t, new)
  BY <1>3, <1>4, <1>5, <1>6 DEF DataStep
<1>10. RefreshStep(t, new)
  BY <1>6 DEF RefreshStep, Past
<1>11. StreamTypeOK' /\ StreamsOK'
  BY <1>1, <1>2, <1>3, <1>8, StreamsKept
<1> QED  BY <1>2, <1>8, <1>9, <1>10, <1>11, StepKept

(* A refresh forgets while it holds the lock: no call is under way, and
   unless a turn was between its two places at the lock nothing old is left. *)
LEMMA ClearKept ==
  ASSUME CodeGraphInv, NEW t \in Tasks, Clear(t)
  PROVE  CodeGraphInv'
<1>1. TypeOK /\ QueueOK /\ StreamsOK /\ TimesOK
  BY DEF CodeGraphInv
<1>2. /\ task[t].at = "clear" /\ Holds(t) /\ queue' = Append(Tail(queue), t)
      /\ code' = code /\ graph' = graph /\ indexed' = FALSE /\ brief' = 0
      /\ live' = live /\ conn' = conn /\ Go(t, "index")
      /\ overtaken' = (overtaken \/ \E u \in Tasks : task[u].at = "brief")
  BY DEF Clear, BriefForgotten
<1>3. /\ graph \in 0..MaxCode /\ 0 \in 0..MaxCode /\ live \in BOOLEAN /\ overtaken \in BOOLEAN
      /\ code \in 0..MaxCode
  BY <1>1, CodeGraphAssumption DEF TypeOK
<1>4. PICK new \in TaskRecord :
         /\ task' = [task EXCEPT ![t] = new] /\ new.at = "index"
         /\ new.since = task[t].since /\ new.seen = task[t].seen /\ new.got = task[t].got
  BY <1>1, <1>2, GoStep
<1>5. PlaceStep(t, new)
  <2>1. QueueMoves(t) /\ t \in ToSet(queue')
    BY <1>1, <1>2, GoesBack
  <2> QED  BY <1>4, <2>1 DEF PlaceStep, AtLock, Calls
<1>6. DataStep(t, new)
  <2>1. task[t].since <= code /\ task[t].seen <= code /\ task[t].got = 0
    BY <1>1, <1>2 DEF TimesOK
  <2>2. overtaken' \in BOOLEAN /\ (overtaken => overtaken')
    BY <1>2, <1>3
  <2> QED  BY <1>2, <1>3, <1>4, <2>1, <2>2 DEF DataStep
<1>7. RefreshStep(t, new)
  <2>1. ASSUME ~overtaken', NEW s PROVE FreshFor(s)'
    <3>1. ASSUME NEW u \in Tasks PROVE task'[u].at \notin {"brief", "building", "indexing"}
      <4>1. CASE u = t
        BY <1>1, <1>4, <4>1 DEF TypeOK
      <4>2. CASE u # t
        <5>1. task'[u] = task[u] /\ task[u].at # "brief"
          BY <1>1, <1>2, <1>4, <2>1, <4>2 DEF TypeOK
        <5>2. ~Holds(u)
          BY <1>2, <4>2 DEF Holds
        <5> QED  BY <1>1, <5>1, <5>2 DEF QueueOK, Calls
      <4> QED  BY <4>1, <4>2
    <3> QED  BY <1>2, <3>1 DEF FreshFor
  <2>2. task[t].got = 0
    BY <1>1, <1>2 DEF TimesOK
  <2> QED  BY <1>4, <2>1, <2>2 DEF RefreshStep
<1>8. StreamTypeOK' /\ StreamsOK'
  <2>1. t \in Streams => conn[t].at # "over"
    BY <1>1, <1>2, StreamGoesOn
  <2> QED  BY <1>1, <1>2, <1>5, <2>1, StreamsKept
<1> QED  BY <1>5, <1>6, <1>7, <1>8, StepKept

(* A cancelled task leaves the lock, wherever it stood. *)
LEMMA CancelStep ==
  ASSUME TypeOK, QueueOK, TimesOK, NEW t \in Tasks \ Refreshers, Cancel(t),
         code' = code, indexed' = indexed, brief' = brief, live' \in BOOLEAN, overtaken' = overtaken
  PROVE  \E new \in TaskRecord :
           new.at = "done" /\ PlaceStep(t, new) /\ DataStep(t, new) /\ RefreshStep(t, new)
<1>1. 0 \in 0..MaxCode /\ Done(t, 0)
  BY CodeGraphAssumption DEF Cancel
<1>2. PICK new \in TaskRecord :
         /\ task' = [task EXCEPT ![t] = new]
         /\ new.at = "done" /\ new.seen = 0 /\ new.since <= code
         /\ new.got # 0 => t \in Refreshers /\ new.since = task[t].since /\ new.got = 0
  BY <1>1, DoneStep
<1>3. QueueMoves(t) /\ t \notin ToSet(queue')
  BY GivesUp DEF Cancel
<1>4. PlaceStep(t, new)
  BY <1>2, <1>3 DEF PlaceStep, AtLock, Calls
<1>5. /\ indexed \in BOOLEAN /\ brief \in 0..MaxCode /\ graph \in 0..MaxCode /\ overtaken \in BOOLEAN
      /\ code \in 0..MaxCode /\ task[t].seen \in 0..MaxCode
  BY CodeGraphAssumption DEF TypeOK
<1>6. graph' \in 0..MaxCode /\ (graph' = graph \/ (task[t].at = "indexing" /\ graph' >= task[t].seen))
  <2>1. CASE task[t].at = "indexing"
    <3>1. graph' = graph \/ graph' \in task[t].seen..code
      BY <2>1 DEF Cancel
    <3> QED  BY <1>5, <2>1, <3>1, CodeGraphAssumption
  <2>2. CASE task[t].at # "indexing"
    <3>1. graph' = graph
      BY <2>2 DEF Cancel
    <3> QED  BY <1>5, <3>1
  <2> QED  BY <2>1, <2>2
<1>7. DataStep(t, new)
  BY <1>2, <1>5, <1>6 DEF DataStep
<1>8. RefreshStep(t, new)
  BY DEF RefreshStep
<1> QED  BY <1>2, <1>4, <1>7, <1>8

LEMMA StopKept ==
  ASSUME CodeGraphInv, Stop
  PROVE  CodeGraphInv'
<1>1. TypeOK /\ QueueOK /\ StreamsOK /\ TimesOK
  BY DEF CodeGraphInv
<1>2. PICK t : t = Indexer
  OBVIOUS
<1>3. t \in Tasks \ Refreshers /\ t \notin Streams
  BY <1>2, CodeGraphAssumption DEF Tasks
<1>4. /\ code' = code /\ indexed' = indexed /\ brief' = brief /\ overtaken' = overtaken /\ conn' = conn
      /\ live' = FALSE /\ Cancel(t)
  BY <1>2 DEF Stop, cache
<1>5. PICK new \in TaskRecord :
        new.at = "done" /\ PlaceStep(t, new) /\ DataStep(t, new) /\ RefreshStep(t, new)
  BY <1>1, <1>3, <1>4, CancelStep
<1>6. StreamTypeOK' /\ StreamsOK'
  BY <1>1, <1>3, <1>4, <1>5, StreamsKept
<1> QED  BY <1>3, <1>5, <1>6, StepKept

-----------------------------------------------------------------------------
StreamRecord == [at : {"closed", "loop", "race", "finally", "over"},
                 next : {"none", "pending", "event", "end", "error"},
                 gone : BOOLEAN, made : 0..MaxEvents, given : 0..MaxEvents, told : BOOLEAN]

LEMMA StreamFacts ==
  ASSUME TypeOK, StreamsOK, NEW t \in Streams
  PROVE  /\ conn[t] \in StreamRecord /\ StreamOK(conn[t])
         /\ conn[t].given \in Nat /\ conn[t].made \in Nat
         /\ conn[t].given <= MaxEvents /\ conn[t].made <= MaxEvents /\ MaxEvents \in Nat
BY StreamAssumption DEF TypeOK, StreamTypeOK, StreamsOK, StreamRecord

LEMMA SendKept ==
  ASSUME CodeGraphInv, NEW t \in Streams, NEW s \in StreamRecord, StreamOK(s), s.at # "over",
         Send(t, s), UNCHANGED <<code, graph, cache, queue, task, live, overtaken>>
  PROVE  CodeGraphInv'
<1>1. TypeOK /\ QueueOK /\ StreamsOK /\ TimesOK /\ (~overtaken => FreshOK)
  BY DEF CodeGraphInv
<1>2. conn' = [conn EXCEPT ![t] = s] /\ conn \in [Streams -> StreamRecord]
  BY <1>1 DEF Send, TypeOK, StreamTypeOK, StreamRecord
<1>3. /\ code' = code /\ graph' = graph /\ indexed' = indexed /\ brief' = brief /\ queue' = queue
      /\ task' = task /\ live' = live /\ overtaken' = overtaken
  BY DEF cache
<1>4. TypeOK'
  BY <1>1, <1>2, <1>3 DEF TypeOK, StreamTypeOK, StreamRecord
<1>5. QueueOK' /\ TimesOK' /\ (~overtaken' => FreshOK')
  BY <1>1, <1>3 DEF QueueOK, TimesOK, FreshOK, FreshFor, Holds
<1>6. StreamsOK'
  <2>1. ASSUME NEW u \in Streams
        PROVE  StreamOK(conn'[u]) /\ (conn'[u].at = "over" => task[u].at \in {"idle", "done"})
    <3>1. CASE u = t
      BY <1>2, <3>1
    <3>2. CASE u # t
      BY <1>1, <1>2, <3>2 DEF StreamsOK
    <3> QED  BY <3>1, <3>2
  <2> QED  BY <1>3, <2>1 DEF StreamsOK
<1> QED  BY <1>4, <1>5, <1>6 DEF CodeGraphInv

LEMMA StreamMovesKept ==
  ASSUME CodeGraphInv, NEW t \in Streams, StreamMoves(t)
  PROVE  CodeGraphInv'
<1>1. PICK c : c = conn[t]
  OBVIOUS
<1>2. /\ c \in StreamRecord /\ StreamOK(c) /\ c.given \in Nat /\ c.made \in Nat
      /\ c.given <= MaxEvents /\ c.made <= MaxEvents /\ MaxEvents \in Nat
  BY <1>1, StreamFacts DEF CodeGraphInv
<1>3. UNCHANGED <<code, graph, cache, queue, task, live, overtaken>>
  BY DEF StreamMoves
<1>4. \E s \in StreamRecord : StreamOK(s) /\ s.at # "over" /\ Send(t, s)
  <2>1. CASE OpenStream(t)
    <3>1. c.at = "closed" /\ c.next = "none" /\ c.given = c.made
      BY <1>1, <1>2, <2>1 DEF OpenStream, StreamOK
    <3>2. CASE Send(t, [c EXCEPT !.at = "loop"])
      <4> DEFINE s == [c EXCEPT !.at = "loop"]
      <4>1. s \in StreamRecord /\ StreamOK(s) /\ s.at # "over"
        BY <1>2, <3>1 DEF StreamRecord, StreamOK
      <4> QED  BY <3>2, <4>1
    <3>3. CASE Send(t, [c EXCEPT !.at = "finally", !.told = TRUE])
      <4> DEFINE s == [c EXCEPT !.at = "finally", !.told = TRUE]
      <4>1. s \in StreamRecord /\ StreamOK(s) /\ s.at # "over"
        BY <1>2, <3>1 DEF StreamRecord, StreamOK
      <4> QED  BY <3>3, <4>1
    <3> QED  BY <1>1, <2>1, <3>2, <3>3 DEF OpenStream
  <2>2. CASE Look(t)
    <3>1. c.at = "loop"
      BY <1>1, <2>2 DEF Look
    <3>2. CASE c.gone
      <4> DEFINE s == [c EXCEPT !.at = "finally"]
      <4>1. s \in StreamRecord /\ StreamOK(s) /\ s.at # "over"
        BY <1>2, <3>1, <3>2 DEF StreamRecord, StreamOK
      <4>2. Send(t, s)
        BY <1>1, <2>2, <3>2 DEF Look
      <4> QED  BY <4>1, <4>2
    <3>3. CASE ~c.gone
      <4> DEFINE n == Pending(c.next)
      <4>1. n \in {"pending", "event", "end", "error"} /\ (n = "event" <=> c.next = "event")
        BY <1>2 DEF Pending, StreamRecord
      <4> HIDE DEF n
      <4> DEFINE s == [c EXCEPT !.at = "race", !.next = n]
      <4>2. s \in StreamRecord /\ s.at = "race" /\ s.next = n /\ s.given = c.given /\ s.made = c.made
        BY <1>2, <4>1 DEF StreamRecord
      <4>3. Send(t, s)
        BY <1>1, <2>2, <3>3 DEF Look, n
      <4>4. c.given + (IF c.next = "event" THEN 1 ELSE 0) = c.made
        BY <1>2, <3>1 DEF StreamOK
      <4> HIDE DEF s
      <4>5. StreamOK(s)
        BY <1>2, <4>1, <4>2, <4>4 DEF StreamOK
      <4> QED  BY <4>2, <4>3, <4>5
    <3> QED  BY <3>2, <3>3
  <2>3. CASE Ping(t)
    <3> DEFINE s == [c EXCEPT !.at = "loop"]
    <3>1. c.at = "race" /\ Send(t, s)
      BY <1>1, <2>3 DEF Ping
    <3>2. s \in StreamRecord /\ StreamOK(s) /\ s.at # "over"
      BY <1>2, <3>1 DEF StreamRecord, StreamOK
    <3> QED  BY <3>1, <3>2
  <2>4. CASE Frame(t)
    <3>1. c.at = "race" /\ c.given + (IF c.next = "event" THEN 1 ELSE 0) = c.made
      BY <1>1, <1>2, <2>4 DEF Frame, StreamOK
    <3>2. CASE c.next = "event"
      <4> DEFINE s == [c EXCEPT !.at = "loop", !.next = "none", !.given = @ + 1]
      <4>1. Send(t, s)
        BY <1>1, <2>4, <3>2 DEF Frame
      <4>2. c.given + 1 = c.made /\ c.given + 1 \in 0..MaxEvents
        BY <1>2, <3>1, <3>2
      <4>3. s \in StreamRecord /\ s.at = "loop" /\ s.next = "none" /\ s.given = c.given + 1 /\ s.made = c.made
        BY <1>2, <4>2 DEF StreamRecord
      <4> HIDE DEF s
      <4>4. StreamOK(s)
        BY <1>2, <4>2, <4>3 DEF StreamOK
      <4> QED  BY <4>1, <4>3, <4>4
    <3>3. CASE c.next # "event"
      <4> DEFINE s == [c EXCEPT !.at = "finally", !.next = "none", !.told = TRUE]
      <4>1. Send(t, s)
        BY <1>1, <2>4, <3>3 DEF Frame
      <4>2. c.given = c.made
        BY <1>2, <3>1, <3>3
      <4>3. s \in StreamRecord /\ StreamOK(s) /\ s.at # "over"
        BY <1>2, <4>2 DEF StreamRecord, StreamOK
      <4> QED  BY <4>1, <4>3
    <3> QED  BY <3>2, <3>3
  <2>5. CASE Leave(t)
    <3>1. PICK at \in {c.at, "finally"} : Send(t, [c EXCEPT !.gone = TRUE, !.at = at])
      BY <1>1, <2>5 DEF Leave
    <3>2. c.at \in {"loop", "race"}
      BY <1>1, <2>5 DEF Leave
    <3> DEFINE s == [c EXCEPT !.gone = TRUE, !.at = at]
    <3>3. s \in StreamRecord /\ StreamOK(s) /\ s.at # "over"
      BY <1>2, <3>1, <3>2 DEF StreamRecord, StreamOK
    <3> QED  BY <3>1, <3>3
  <2> QED  BY <2>1, <2>2, <2>3, <2>4, <2>5 DEF StreamMoves
<1> QED  BY <1>3, <1>4, SendKept

LEMMA TurnMakesKept ==
  ASSUME CodeGraphInv, NEW t \in Streams, NEW what \in {"event", "end", "error"}, TurnMakes(t, what)
  PROVE  CodeGraphInv'
<1>1. PICK c : c = conn[t]
  OBVIOUS
<1>2. /\ c \in StreamRecord /\ StreamOK(c) /\ c.given \in Nat /\ c.made \in Nat
      /\ c.given <= MaxEvents /\ c.made <= MaxEvents /\ MaxEvents \in Nat
  BY <1>1, StreamFacts DEF CodeGraphInv
<1>3. /\ UNCHANGED <<code, graph, cache, queue, task, live, overtaken>>
      /\ c.next = "pending" /\ (what = "event" => c.made < MaxEvents)
  BY <1>1 DEF TurnMakes, Produce
<1> DEFINE m == IF what = "event" THEN c.made + 1 ELSE c.made
<1> DEFINE s == [c EXCEPT !.next = what, !.made = m]
<1>4. Send(t, s)
  BY <1>1 DEF TurnMakes, Produce
<1>5. m \in 0..MaxEvents /\ m >= c.made /\ (what # "event" => m = c.made) /\ (what = "event" => m = c.made + 1)
  BY <1>2, <1>3
<1> HIDE DEF m
<1>6. /\ s \in StreamRecord /\ s.at = c.at /\ s.next = what /\ s.made = m /\ s.given = c.given
      /\ s.gone = c.gone /\ s.told = c.told
  BY <1>2, <1>5 DEF StreamRecord
<1> HIDE DEF s
<1>7. c.at # "closed" /\ c.at # "over" /\ (c.at = "finally" => c.gone)
  BY <1>2, <1>3 DEF StreamOK
<1>8. StreamOK(s)
  BY <1>2, <1>3, <1>5, <1>6, <1>7 DEF StreamOK
<1> QED  BY <1>3, <1>4, <1>6, <1>7, <1>8, SendKept

LEMMA StreamEndsKept ==
  ASSUME CodeGraphInv, NEW t \in Streams, StreamEnds(t)
  PROVE  CodeGraphInv'
<1>1. TypeOK /\ QueueOK /\ StreamsOK /\ TimesOK
  BY DEF CodeGraphInv
<1>2. t \in Tasks \ Refreshers
  BY CodeGraphAssumption DEF Tasks
<1>3. PICK c : c = conn[t]
  OBVIOUS
<1>4. c \in StreamRecord /\ StreamOK(c) /\ c.at = "finally"
  BY <1>1, <1>3, StreamFacts DEF StreamEnds, Finally
<1> DEFINE s == [c EXCEPT !.at = "over", !.next = "none"]
<1>5. s \in StreamRecord /\ StreamOK(s) /\ s.next = "none"
  BY <1>4 DEF StreamRecord, StreamOK
<1>6. conn' = [conn EXCEPT ![t] = s] /\ conn \in [Streams -> StreamRecord]
  BY <1>1, <1>3 DEF StreamEnds, Finally, Send, HungUp, TypeOK, StreamTypeOK, StreamRecord
<1> HIDE DEF s
<1>7. conn'[t] = s /\ \A u \in Streams : u # t => conn'[u] = conn[u]
  BY <1>6
<1>8. /\ code' = code /\ indexed' = indexed /\ brief' = brief /\ overtaken' = overtaken
      /\ live' \in BOOLEAN /\ Cancel(t)
  BY <1>1, <1>5, <1>7 DEF StreamEnds, cache, TypeOK
<1>9. PICK new \in TaskRecord :
        new.at = "done" /\ PlaceStep(t, new) /\ DataStep(t, new) /\ RefreshStep(t, new)
  BY <1>1, <1>2, <1>8, CancelStep
<1>10. StreamTypeOK'
  BY <1>5, <1>6 DEF StreamTypeOK, StreamRecord
<1>11. task'[t] = new /\ \A u \in Tasks : u # t => task'[u] = task[u]
  BY <1>1, <1>2, <1>9 DEF PlaceStep, TypeOK
<1>12. StreamsOK'
  <2>1. ASSUME NEW u \in Streams
        PROVE  StreamOK(conn'[u]) /\ (conn'[u].at = "over" => task'[u].at \in {"idle", "done"})
    <3>1. CASE u = t
      BY <1>5, <1>7, <1>9, <1>11, <3>1
    <3>2. CASE u # t
      BY <1>1, <1>7, <1>11, <3>2 DEF StreamsOK, Tasks
    <3> QED  BY <3>1, <3>2
  <2> QED  BY <2>1 DEF StreamsOK
<1> QED  BY <1>2, <1>9, <1>10, <1>12, StepKept

LEMMA EditKept ==
  ASSUME CodeGraphInv, Edit
  PROVE  CodeGraphInv'
<1>1. TypeOK /\ QueueOK /\ StreamsOK /\ TimesOK /\ (~overtaken => FreshOK)
  BY DEF CodeGraphInv
<1>2. /\ graph' = graph /\ indexed' = indexed /\ brief' = brief /\ queue' = queue
      /\ task' = task /\ live' = live /\ overtaken' = overtaken /\ conn' = conn
      /\ code' \in 1..MaxCode /\ code' >= code /\ code \in Nat
  BY <1>1, CodeGraphAssumption DEF Edit, cache, TypeOK
<1>3. TypeOK'
  BY <1>1, <1>2 DEF TypeOK, StreamTypeOK
<1>4. QueueOK' /\ StreamsOK' /\ (~overtaken' => FreshOK')
  BY <1>1, <1>2 DEF QueueOK, StreamsOK, StreamOK, FreshOK, FreshFor, Holds
<1>5. TimesOK'
  <2>1. ASSUME NEW t \in Tasks PROVE task[t].since <= code' /\ task[t].seen <= code'
    <3>1. task[t].since \in Nat /\ task[t].seen \in Nat /\ code' \in Nat
      BY <1>1, <1>2, CodeGraphAssumption DEF TypeOK
    <3> QED  BY <1>1, <1>2, <3>1 DEF TimesOK
  <2> QED  BY <1>1, <1>2, <2>1 DEF TimesOK
<1> QED  BY <1>3, <1>4, <1>5 DEF CodeGraphInv

-----------------------------------------------------------------------------
LEMMA InitHolds == Init => CodeGraphInv
<1> SUFFICES ASSUME Init PROVE CodeGraphInv
  OBVIOUS
<1>1. /\ code = 1 /\ graph = 0 /\ indexed = FALSE /\ brief = 0 /\ queue = <<>> /\ live = TRUE
      /\ overtaken = FALSE /\ task = [t \in Tasks |-> Idle] /\ conn = [t \in Streams |-> NoStream]
  BY DEF Init, StreamInit
<1>2. 1 \in 1..MaxCode /\ 0 \in 0..MaxCode /\ 0 \in 0..MaxEvents
  BY CodeGraphAssumption, StreamAssumption
<1>3. Idle \in TaskRecord /\ NoStream \in StreamRecord
  BY <1>2 DEF Idle, TaskRecord, NoStream, StreamRecord
<1>4. TypeOK
  <2>1. task \in [Tasks -> TaskRecord] /\ conn \in [Streams -> StreamRecord] /\ queue \in Seq(Tasks)
    BY <1>1, <1>3
  <2>2. StreamTypeOK
    BY <2>1 DEF StreamTypeOK, StreamRecord
  <2> QED  BY <1>1, <1>2, <2>1, <2>2 DEF TypeOK, TaskRecord
<1>5. QueueOK
  <2>1. Injective(queue) /\ \A t : t \notin ToSet(queue)
    BY <1>1 DEF Injective, ToSet
  <2> QED  BY <1>1, <2>1 DEF QueueOK, Idle, AtLock, Calls
<1>6. StreamsOK /\ TimesOK /\ FreshOK
  BY <1>1, CodeGraphAssumption DEF StreamsOK, StreamOK, NoStream, TimesOK, FreshOK, Idle, Past, Tasks
<1> QED  BY <1>4, <1>5, <1>6 DEF CodeGraphInv

LEMMA NextKeeps == CodeGraphInv /\ [Next]_vars => CodeGraphInv'
<1> SUFFICES ASSUME CodeGraphInv, [Next]_vars PROVE CodeGraphInv'
  OBVIOUS
<1>1. ASSUME NEW t \in Streams, Serves(t) \/ StreamMoves(t) \/ StreamEnds(t) PROVE CodeGraphInv'
  BY <1>1, TurnAsksKept, TurnMakesKept, StreamMovesKept, StreamEndsKept DEF Serves
<1>2. ASSUME NEW t \in Turns, TurnAsks(t) PROVE CodeGraphInv'
  BY <1>2, TurnAsksKept
<1>3. ASSUME NEW t \in Refreshers, Refresh(t) PROVE CodeGraphInv'
  BY <1>3, RefreshKept
<1>4. ASSUME NEW t \in Tasks, Progress(t) PROVE CodeGraphInv'
  BY <1>4, ClearKept, TakeIndexKept, IndexEndsKept, IndexFailsKept, TakeBriefKept, BriefEndsKept,
     BriefFailsKept DEF Progress
<1>5. ASSUME StartIndex \/ Stop \/ Edit PROVE CodeGraphInv'
  BY <1>5, StartIndexKept, StopKept, EditKept
<1>6. ASSUME UNCHANGED vars PROVE CodeGraphInv'
  <2>1. /\ code' = code /\ graph' = graph /\ indexed' = indexed /\ brief' = brief /\ queue' = queue
        /\ task' = task /\ live' = live /\ overtaken' = overtaken /\ conn' = conn
    BY <1>6 DEF vars
  <2> QED  BY <2>1 DEF CodeGraphInv, TypeOK, StreamTypeOK, QueueOK, Holds, StreamsOK, StreamOK, TimesOK,
              FreshOK, FreshFor
<1> QED  BY <1>1, <1>2, <1>3, <1>4, <1>5, <1>6 DEF Next

(* Every task that waits stands in the lock's queue once and the one that
   calls the server is its head, streams give what was made, and what is of a
   refresh's time stays of it (memory.py:34-121, app.py:1263-1339). *)
THEOREM CodeGraphInvariant == Spec => []CodeGraphInv
<1>1. Init => CodeGraphInv
  BY InitHolds
<1>2. CodeGraphInv /\ [Next]_vars => CodeGraphInv'
  BY NextKeeps
<1> QED  BY <1>1, <1>2, PTL DEF Spec

(* A stream that is over has given all its turn made to a client that stayed,
   and its turn neither waits for the lock nor holds it (app.py:1316-1338). *)
THEOREM StreamsLeaveNothing == Spec => []StreamsAreClean
<1>1. CodeGraphInv => StreamsAreClean
  <2> SUFFICES ASSUME CodeGraphInv PROVE StreamsAreClean
    OBVIOUS
  <2>1. TypeOK /\ QueueOK /\ StreamsOK
    BY DEF CodeGraphInv
  <2>2. UpstreamStops
    BY <2>1 DEF UpstreamStops, QueueOK, StreamsOK, StreamOK, AtLock, Tasks
  <2>3. StreamsAreWhole
    BY <2>1 DEF StreamsAreWhole, StreamsOK, StreamOK
  <2> QED  BY <2>1, <2>2, <2>3 DEF StreamsAreClean
<1> QED  BY <1>1, CodeGraphInvariant, PTL

(* What refresh returns is of the code as of its call or later, for any number
   of turns and refreshes at once, unless a turn was past ensure_indexed when
   one forgot the index (memory.py:114-121). *)
THEOREM RefreshesAreFresh == Spec => []RefreshIsFresh
<1>1. CodeGraphInv => RefreshIsFresh
  BY DEF CodeGraphInv, RefreshIsFresh, FreshOK
<1> QED  BY <1>1, CodeGraphInvariant, PTL

-----------------------------------------------------------------------------
LEMMA OthersDoNotIndex ==
  ASSUME TypeOK, NEW t \in Tasks, NEW new \in TaskRecord, task' = [task EXCEPT ![t] = new],
         new.at # "indexing"
  PROVE  \A u \in Tasks : task[u].at # "indexing" => task'[u].at # "indexing"
BY DEF TypeOK

LEMMA OnlyTakeIndexes ==
  ASSUME CodeGraphInv, Next, NEW u \in Tasks, task[u].at # "indexing", task'[u].at = "indexing"
  PROVE  ~indexed
<1>1. TypeOK /\ QueueOK /\ TimesOK
  BY DEF CodeGraphInv
<1>2. indexed \in BOOLEAN /\ brief \in 0..MaxCode /\ graph \in 0..MaxCode /\ 0 \in 0..MaxCode
  BY <1>1, CodeGraphAssumption DEF TypeOK
<1>3. ASSUME NEW t \in Tasks, NEW b \in 0..MaxCode, Done(t, b) PROVE FALSE
  BY <1>1, <1>3, DoneStep, OthersDoNotIndex
<1>4. ASSUME NEW t \in Tasks, NEW st \in {"index", "brief", "building"}, Go(t, st) PROVE FALSE
  BY <1>1, <1>4, GoStep, OthersDoNotIndex
<1>5. ASSUME NEW t \in Tasks, NEW ok \in BOOLEAN, NEW b \in 0..MaxCode, NEW q, NEW new \in TaskRecord,
             task' = [task EXCEPT ![t] = new], Settles(t, new, ok, b, q)
      PROVE  FALSE
  <2>1. new.at # "indexing"
    BY <1>5 DEF Settles
  <2> QED  BY <1>1, <1>5, <2>1, OthersDoNotIndex
<1>6. ASSUME NEW t \in Streams \cup Turns, TurnAsks(t) PROVE FALSE
  <2>1. t \in Tasks
    BY DEF Tasks
  <2>2. CASE EnterBrief(t, indexed, brief, queue)
    BY <1>1, <1>2, <1>5, <2>1, <2>2, EnterStep
  <2>3. CASE Done(t, 0)
    BY <1>2, <1>3, <2>1, <2>3
  <2> QED  BY <1>6, <2>2, <2>3 DEF TurnAsks
<1>7. task' # task
  OBVIOUS
<1>8. ASSUME NEW t \in Streams, Serves(t) \/ StreamMoves(t) \/ StreamEnds(t) PROVE FALSE
  <2>1. t \in Tasks
    BY DEF Tasks
  <2>2. CASE Cancel(t)
    BY <1>2, <1>3, <2>1, <2>2 DEF Cancel
  <2> QED  BY <1>6, <1>7, <1>8, <2>2 DEF Serves, TurnMakes, StreamMoves, StreamEnds
<1>9. ASSUME NEW t \in Refreshers, Refresh(t) PROVE FALSE
  <2>1. t \in Tasks /\ task'[t].at = "clear" /\ \A v \in Tasks : v # t => task'[v] = task[v]
    BY <1>1, <1>9 DEF Refresh, TypeOK, Tasks
  <2> QED  BY <2>1
<1>10. ASSUME NEW t \in Tasks, Progress(t) PROVE ~indexed
  <2>1. CASE Clear(t)
    BY <1>4, <2>1 DEF Clear
  <2>2. CASE TakeIndex(t)
    <3>1. ASSUME indexed PROVE FALSE
      <4>1. Answer(t, TRUE, brief)
        BY <2>2, <3>1 DEF TakeIndex, LooksAgain
      <4> QED  BY <1>1, <1>2, <1>5, <4>1, AnswerStep
    <3> QED  BY <3>1
  <2>3. CASE IndexEnds(t)
    BY <1>1, <1>2, <1>5, <2>3, AnswerStep DEF IndexEnds
  <2>4. CASE IndexFails(t)
    BY <1>1, <1>2, <1>5, <2>4, AnswerStep DEF IndexFails
  <2>5. CASE TakeBrief(t)
    BY <1>2, <1>3, <1>4, <2>5 DEF TakeBrief
  <2>6. CASE BriefEnds(t)
    BY <1>2, <1>3, <2>6 DEF BriefEnds
  <2>7. CASE BriefFails(t)
    BY <1>2, <1>3, <2>7 DEF BriefFails
  <2> QED  BY <1>10, <2>1, <2>2, <2>3, <2>4, <2>5, <2>6, <2>7 DEF Progress
<1>11. ASSUME StartIndex \/ Stop \/ Edit PROVE FALSE
  <2>1. Indexer \in Tasks
    BY DEF Tasks
  <2> QED  BY <1>2, <1>3, <1>4, <1>7, <1>11, <2>1 DEF StartIndex, Stop, Edit, Cancel
<1> QED  BY <1>6, <1>8, <1>9, <1>10, <1>11 DEF Next

(* index_repository is called while nothing is indexed, whoever else waited
   for the lock meanwhile (memory.py:43-48, 70-77). *)
THEOREM IndexesOnce == Spec => IndexedOnce
<1>1. CodeGraphInv /\ [Next]_vars =>
        [\A t \in Tasks : task[t].at # "indexing" /\ task'[t].at = "indexing" => ~indexed]_vars
  BY OnlyTakeIndexes
<1> QED  BY <1>1, CodeGraphInvariant, PTL DEF Spec, IndexedOnce

-----------------------------------------------------------------------------
(***************************************************************************)
(* The search indexes, Recall.  First what Ordered, Only and Top return.   *)
(***************************************************************************)

(* A strict total order R of S.                                            *)
Orders(R, S) ==
  /\ \A x \in S : <<x, x>> \notin R
  /\ \A x, y \in S : x # y => <<x, y>> \in R \/ <<y, x>> \in R
  /\ \A x, y, z \in S : <<x, y>> \in R /\ <<y, z>> \in R => <<x, z>> \in R

Below(S, R, x) == {y \in S : <<y, x>> \in R}

(* The number of members below one, and a step further for a higher one.   *)
LEMMA RankGrows ==
  ASSUME NEW S, IsFiniteSet(S), NEW R, Orders(R, S)
  PROVE  /\ \A x \in S : Cardinality(Below(S, R, x)) + 1 \in 1..Cardinality(S)
         /\ \A x, y \in S : <<x, y>> \in R =>
              Cardinality(Below(S, R, x)) < Cardinality(Below(S, R, y))
<1>1. ASSUME NEW T \in SUBSET S, NEW U \in SUBSET T, U # T
      PROVE  Cardinality(U) \in Nat /\ Cardinality(T) \in Nat /\ Cardinality(U) < Cardinality(T)
  <2>1. IsFiniteSet(T)
    BY FS_Subset
  <2>2. IsFiniteSet(U) /\ Cardinality(U) <= Cardinality(T) /\ Cardinality(U) # Cardinality(T)
    BY <1>1, <2>1, FS_Subset
  <2> QED BY <2>1, <2>2, FS_CardinalityType
<1>2. \A x \in S : Below(S, R, x) \in SUBSET S /\ x \notin Below(S, R, x)
  BY DEF Below, Orders
<1>3. ASSUME NEW x \in S
      PROVE  Cardinality(Below(S, R, x)) + 1 \in 1..Cardinality(S)
  <2>1. Below(S, R, x) # S
    BY <1>2
  <2> QED BY <1>1, <1>2, <2>1
<1>4. ASSUME NEW x \in S, NEW y \in S, <<x, y>> \in R
      PROVE  Cardinality(Below(S, R, x)) < Cardinality(Below(S, R, y))
  <2>1. Below(S, R, x) \in SUBSET Below(S, R, y)
    BY <1>4 DEF Below, Orders
  <2>2. x \in Below(S, R, y)
    BY <1>4 DEF Below
  <2>3. Below(S, R, x) # Below(S, R, y)
    BY <1>2, <2>2
  <2> QED BY <1>1, <1>2, <2>1, <2>3
<1> QED BY <1>3, <1>4

(* Ordered lists each member once, the lower ones first. *)
LEMMA OrderedLists ==
  ASSUME NEW S, IsFiniteSet(S), NEW R, Orders(R, S)
  PROVE  /\ Ordered(S, R) \in Seq(S) /\ Len(Ordered(S, R)) = Cardinality(S)
         /\ Cardinality(S) \in Nat
         /\ ToSet(Ordered(S, R)) = S /\ IsInjective(Ordered(S, R))
         /\ \A m, n \in 1..Cardinality(S) :
              <<Ordered(S, R)[m], Ordered(S, R)[n]>> \in R <=> m < n
<1> DEFINE c == Cardinality(S)
           o == Ordered(S, R)
           f == [x \in S |-> Cardinality(Below(S, R, x)) + 1]
<1>1. c \in Nat /\ IsFiniteSet(1..c) /\ Cardinality(1..c) = c
  BY FS_CardinalityType, FS_Interval
<1>2. \A x \in S : f[x] \in 1..c /\ f[x] = Cardinality(Below(S, R, x)) + 1
  BY RankGrows
<1>3. \A x, y \in S : <<x, y>> \in R => f[x] < f[y]
  <2> SUFFICES ASSUME NEW x \in S, NEW y \in S, <<x, y>> \in R PROVE f[x] < f[y]
    OBVIOUS
  <2>1. Cardinality(Below(S, R, x)) < Cardinality(Below(S, R, y))
    BY RankGrows
  <2>2. Cardinality(Below(S, R, x)) \in Nat /\ Cardinality(Below(S, R, y)) \in Nat
    <3>1. IsFiniteSet(Below(S, R, x)) /\ IsFiniteSet(Below(S, R, y))
      BY FS_Subset DEF Below
    <3> QED BY <3>1, FS_CardinalityType
  <2> QED BY <1>2, <2>1, <2>2
<1>4. \A x, y \in S : x # y => f[x] # f[y]
  <2> HIDE DEF f, c
  <2>1. \A x, y \in S : x # y => f[x] < f[y] \/ f[y] < f[x]
    BY <1>3 DEF Orders
  <2>2. \A x \in S : f[x] \in Nat
    BY <1>1, <1>2
  <2> QED BY <2>1, <2>2
<1>5. f \in [S -> 1..c]
  BY <1>2
<1>6. f \in Injection(S, 1..c)
  BY <1>4, <1>5 DEF Injection, IsInjective
<1>7. f \in Surjection(S, 1..c)
  BY <1>1, <1>6, FS_Injection
<1>8. \A n \in 1..c : \E x \in S : f[x] = n
  BY <1>7 DEF Surjection
<1>9. \A n \in 1..c : o[n] \in S /\ f[o[n]] = n
  <2> SUFFICES ASSUME NEW n \in 1..c PROVE o[n] \in S /\ f[o[n]] = n
    OBVIOUS
  <2>1. o[n] = CHOOSE x \in S : Cardinality(Below(S, R, x)) = n - 1
    BY DEF Ordered, Below
  <2>2. PICK x \in S : f[x] = n
    BY <1>8
  <2>3. Cardinality(Below(S, R, x)) \in Nat
    <3>1. IsFiniteSet(Below(S, R, x))
      BY FS_Subset DEF Below
    <3> QED BY <3>1, FS_CardinalityType
  <2>4. Cardinality(Below(S, R, x)) = n - 1
    BY <1>1, <1>2, <2>2, <2>3
  <2>5. o[n] \in S /\ Cardinality(Below(S, R, o[n])) = n - 1
    BY <2>1, <2>4
  <2> HIDE DEF o, f
  <2> QED BY <1>1, <1>2, <2>5
<1>10. DOMAIN o = 1..c /\ o = [n \in DOMAIN o |-> o[n]]
  <2> DEFINE nth(n) == CHOOSE x \in S : Cardinality({y \in S : <<y, x>> \in R}) = n - 1
  <2>1. o = [n \in 1..c |-> nth(n)]
    BY DEF Ordered
  <2> HIDE DEF nth, o
  <2> QED BY <2>1
<1> HIDE DEF o, f, c
<1>11. o \in Seq(S) /\ Len(o) = c /\ DOMAIN o = 1..c
  BY <1>1, <1>9, <1>10
<1>12. IsInjective(o)
  BY <1>9, <1>11 DEF IsInjective
<1>13. ToSet(o) = S
  <2>1. ASSUME NEW x \in S PROVE x \in ToSet(o)
    <3>1. f[x] \in 1..c /\ o[f[x]] \in S /\ f[o[f[x]]] = f[x]
      BY <1>2, <1>9
    <3>2. o[f[x]] = x
      BY <1>4, <3>1
    <3> QED BY <1>11, <3>1, <3>2 DEF ToSet
  <2> QED BY <1>9, <1>11, <2>1 DEF ToSet
<1>14. ASSUME NEW m \in 1..c, NEW n \in 1..c
       PROVE  <<o[m], o[n]>> \in R <=> m < n
  <2>1. <<o[m], o[n]>> \in R => m < n
    BY <1>3, <1>9
  <2>2. m < n => <<o[m], o[n]>> \in R
    <3> SUFFICES ASSUME m < n PROVE <<o[m], o[n]>> \in R
      OBVIOUS
    <3>1. o[m] # o[n]
      BY <1>1, <1>9
    <3>2. <<o[n], o[m]>> \in R => n < m
      BY <1>3, <1>9
    <3>3. ~(n < m)
      BY <1>1
    <3> QED BY <1>9, <3>1, <3>2, <3>3 DEF Orders
  <2> QED BY <2>1, <2>2
<1> QED BY <1>1, <1>11, <1>12, <1>13, <1>14 DEF c, o

-----------------------------------------------------------------------------
(* The place of a member of a sequence without repetitions. *)
LEMMA Placed ==
  ASSUME NEW S, NEW s \in Seq(S), IsInjective(s)
  PROVE  /\ \A i \in ToSet(s) : Rank(s, i) \in 1..Len(s) /\ s[Rank(s, i)] = i
         /\ \A n \in 1..Len(s) : s[n] \in ToSet(s) /\ Rank(s, s[n]) = n
         /\ IsFiniteSet(ToSet(s)) /\ Cardinality(ToSet(s)) = Len(s)
         /\ ToSet(s) \subseteq S
<1>1. DOMAIN s = 1..Len(s) /\ Len(s) \in Nat /\ \A n \in 1..Len(s) : s[n] \in S
  OBVIOUS
<1>2. \A i \in ToSet(s) : \E n \in 1..Len(s) : s[n] = i
  BY <1>1 DEF ToSet
<1>3. \A i \in ToSet(s) : Rank(s, i) \in 1..Len(s) /\ s[Rank(s, i)] = i
  BY <1>2 DEF Rank
<1>4. \A n \in 1..Len(s) : s[n] \in ToSet(s)
  BY <1>1 DEF ToSet
<1>5. \A n \in 1..Len(s) : Rank(s, s[n]) = n
  BY <1>1, <1>3, <1>4 DEF IsInjective
<1>6. s \in Bijection(1..Len(s), ToSet(s))
  <2>1. s \in [1..Len(s) -> ToSet(s)]
    BY <1>1, <1>4
  <2>2. s \in Injection(1..Len(s), ToSet(s))
    BY <1>1, <2>1 DEF Injection, IsInjective
  <2>3. s \in Surjection(1..Len(s), ToSet(s))
    BY <1>2, <2>1 DEF Surjection
  <2> QED BY <2>2, <2>3 DEF Bijection
<1>7. IsFiniteSet(1..Len(s)) /\ Cardinality(1..Len(s)) = Len(s)
  <2>1. Len(s) \in Nat
    BY <1>1
  <2> QED BY <2>1, FS_Interval
<1>8. IsFiniteSet(ToSet(s)) /\ Cardinality(ToSet(s)) = Len(s)
  BY <1>6, <1>7, FS_Bijection DEF ExistsBijection
<1>9. ToSet(s) \subseteq S
  BY <1>1 DEF ToSet
<1> QED BY <1>3, <1>4, <1>5, <1>8, <1>9

LEMMA PrecedesOrders ==
  ASSUME NEW S, NEW s \in Seq(S), IsInjective(s), NEW T \in SUBSET ToSet(s)
  PROVE  Orders(Precedes(s), T)
<1>1. \A i \in T : i \in ToSet(s) /\ Rank(s, i) \in 1..Len(s) /\ s[Rank(s, i)] = i
  BY Placed
<1>2. Len(s) \in Nat
  OBVIOUS
<1>3. \A x, y \in T : <<x, y>> \in Precedes(s) <=> Rank(s, x) < Rank(s, y)
  BY <1>1 DEF Precedes
<1>4. \A x, y \in T : x # y => Rank(s, x) # Rank(s, y)
  BY <1>1
<1> QED BY <1>1, <1>2, <1>3, <1>4 DEF Orders

(* Only keeps those in S, in their order. *)
LEMMA OnlyKeeps ==
  ASSUME NEW U, NEW s \in Seq(U), IsInjective(s), NEW S
  PROVE  /\ Only(s, S) \in Seq(U) /\ IsInjective(Only(s, S)) /\ ToSet(Only(s, S)) = ToSet(s) \cap S
         /\ Len(Only(s, S)) <= Len(s)
<1> DEFINE T == ToSet(s) \cap S
<1>1. IsFiniteSet(ToSet(s)) /\ Cardinality(ToSet(s)) = Len(s) /\ ToSet(s) \subseteq U
  BY Placed
<1>2. IsFiniteSet(T) /\ Cardinality(T) <= Cardinality(ToSet(s))
  BY <1>1, FS_Subset
<1>3. Orders(Precedes(s), T)
  BY PrecedesOrders
<1> HIDE DEF T
<1>4. /\ Ordered(T, Precedes(s)) \in Seq(T) /\ Len(Ordered(T, Precedes(s))) = Cardinality(T)
      /\ ToSet(Ordered(T, Precedes(s))) = T /\ IsInjective(Ordered(T, Precedes(s)))
  BY <1>2, <1>3, OrderedLists
<1>5. Seq(T) \subseteq Seq(U)
  <2>1. T \subseteq U
    BY <1>1 DEF T
  <2> QED BY <2>1, SeqMonotonic
<1>6. Only(s, S) = Ordered(T, Precedes(s))
  BY DEF Only, T
<1> QED BY <1>1, <1>2, <1>4, <1>5, <1>6 DEF T

LEMMA RecallConstants ==
  /\ K \in Nat \ {0} /\ None \notin Entries \cup Keys /\ "kv" \notin Entries \cup Keys
  /\ Old \cap Requests = {} /\ Entries \cap Keys = {} /\ IsFiniteSet(Old)
  /\ Entries = Old \cup Requests
BY RecallAssumption DEF Entries

(* Top keeps the first K. *)
LEMMA TopKeeps ==
  ASSUME NEW S, NEW s \in Seq(S), IsInjective(s)
  PROVE  /\ Top(s) \in Seq(S) /\ IsInjective(Top(s))
         /\ Len(Top(s)) = IF Len(s) < K THEN Len(s) ELSE K
         /\ \A n \in 1..Len(Top(s)) : Top(s)[n] = s[n]
<1> DEFINE m == IF Len(s) < K THEN Len(s) ELSE K
<1>1. m \in 0..Len(s) /\ K \in Nat \ {0} /\ Len(s) \in Nat
  BY RecallConstants
<1> HIDE DEF m
<1>2. Top(s) = SubSeq(s, 1, m)
  BY DEF Top, m
<1>3. /\ SubSeq(s, 1, m) \in Seq(S) /\ Len(SubSeq(s, 1, m)) = m
      /\ \A n \in 1..m : SubSeq(s, 1, m)[n] = s[n]
  <2>1. \A n \in 1..m : s[n] \in S
    BY <1>1
  <2> QED BY <1>1, <2>1
<1>4. IsInjective(Top(s))
  BY <1>1, <1>2, <1>3 DEF IsInjective
<1> QED BY <1>2, <1>3, <1>4 DEF m

-----------------------------------------------------------------------------
(* What a search layer found: at most K ids, each once. *)
IsLayer(s) == s \in Seq(Entries \cup Keys) /\ IsInjective(s) /\ Len(s) <= K

(* The share of each rank is whole, and the less the lower the rank.      *)
LEMMA WholeShares ==
  ASSUME NEW n \in 1..K
  PROVE  (Scale \div (59 + n)) \in Nat /\ (Scale \div (59 + n)) * (59 + n) = Scale
<1>1. Scale \in Nat /\ K \in Nat /\ Scale % (59 + n) = 0
  BY RecallAssumption
<1> QED BY <1>1

LEMMA SharesFall ==
  ASSUME NEW a \in Nat, NEW b \in Nat, NEW m \in Nat, NEW n \in Nat,
         a * (59 + m) = Scale, b * (59 + n) = Scale
  PROVE  a # 0 /\ (m < n => b < a)
<1>1. Scale \in Nat \ {0}
  BY RecallAssumption
<1> QED BY <1>1

LEMMA ShareShrinks ==
  ASSUME NEW s, IsLayer(s)
  PROVE  /\ \A i \in ToSet(s) : Share(s, i) \in Nat \ {0}
         /\ \A i : i \notin ToSet(s) => Share(s, i) = 0
         /\ \A i, j \in ToSet(s) : Rank(s, i) < Rank(s, j) => Share(s, j) < Share(s, i)
<1>1. \A i \in ToSet(s) : Rank(s, i) \in 1..Len(s)
  BY Placed DEF IsLayer
<1>2. Len(s) \in Nat /\ Len(s) <= K /\ K \in Nat
  BY RecallConstants DEF IsLayer
<1>3. \A i \in ToSet(s) : Rank(s, i) \in 1..K
  BY <1>1, <1>2
<1>4. \A i \in ToSet(s) : /\ Share(s, i) \in Nat
                          /\ Share(s, i) * (59 + Rank(s, i)) = Scale
  BY <1>3, WholeShares DEF Share
<1>5. \A i, j \in ToSet(s) : Rank(s, i) < Rank(s, j) => Share(s, j) < Share(s, i)
  <2> SUFFICES ASSUME NEW i \in ToSet(s), NEW j \in ToSet(s), Rank(s, i) < Rank(s, j)
               PROVE  Share(s, j) < Share(s, i)
    OBVIOUS
  <2>1. Rank(s, i) \in Nat /\ Rank(s, j) \in Nat
    BY <1>2, <1>3
  <2> QED BY <1>4, <2>1, SharesFall
<1>6. \A i \in ToSet(s) : Share(s, i) # 0
  <2> SUFFICES ASSUME NEW i \in ToSet(s)
               PROVE  Share(s, i) # 0
    OBVIOUS
  <2>1. Rank(s, i) \in Nat
    BY <1>2, <1>3
  <2> QED BY <1>4, <2>1, SharesFall
<1>7. \A i : i \notin ToSet(s) => Share(s, i) = 0
  BY DEF Share
<1> QED BY <1>4, <1>5, <1>6, <1>7

LEMMA LayersFound ==
  ASSUME NEW v, NEW l, IsLayer(v), IsLayer(l)
  PROVE  /\ IsFiniteSet(Found(v, l)) /\ Found(v, l) \subseteq Entries \cup Keys
         /\ \A i \in Found(v, l) : Score(v, l, i) \in Nat /\ Came(v, l, i) \in Nat
         /\ \A i, j \in Found(v, l) : Came(v, l, i) = Came(v, l, j) => i = j
<1>1. /\ IsFiniteSet(ToSet(v)) /\ ToSet(v) \subseteq Entries \cup Keys
      /\ \A i \in ToSet(v) : Rank(v, i) \in 1..Len(v) /\ v[Rank(v, i)] = i
  BY Placed DEF IsLayer
<1>2. /\ IsFiniteSet(ToSet(l)) /\ ToSet(l) \subseteq Entries \cup Keys
      /\ \A i \in ToSet(l) : Rank(l, i) \in 1..Len(l) /\ l[Rank(l, i)] = i
  BY Placed DEF IsLayer
<1>3. Len(v) \in Nat /\ Len(l) \in Nat
  BY DEF IsLayer
<1>4. IsFiniteSet(Found(v, l)) /\ Found(v, l) \subseteq Entries \cup Keys
  BY <1>1, <1>2, FS_Union DEF Found
<1>5. \A i \in Found(v, l) : Score(v, l, i) \in Nat
  <2>1. \A i : Share(v, i) \in Nat /\ Share(l, i) \in Nat
    BY ShareShrinks
  <2> QED BY <2>1 DEF Score
<1>6. \A i \in Found(v, l) : Came(v, l, i) \in Nat
  BY <1>1, <1>2, <1>3 DEF Found, Came
<1>7. \A i, j \in Found(v, l) : Came(v, l, i) = Came(v, l, j) => i = j
  BY <1>1, <1>2, <1>3 DEF Found, Came
<1> QED BY <1>4, <1>5, <1>6, <1>7

LEMMA RankingOrders ==
  ASSUME NEW v, NEW l, IsLayer(v), IsLayer(l)
  PROVE  Orders(Ranking(v, l), Found(v, l))
<1>1. \A a, b \in Found(v, l) :
        <<a, b>> \in Ranking(v, l) <=>
          \/ Score(v, l, a) > Score(v, l, b)
          \/ Score(v, l, a) = Score(v, l, b) /\ Came(v, l, a) < Came(v, l, b)
  BY DEF Ranking
<1>2. /\ \A i \in Found(v, l) : Score(v, l, i) \in Nat /\ Came(v, l, i) \in Nat
      /\ \A i, j \in Found(v, l) : Came(v, l, i) = Came(v, l, j) => i = j
  BY LayersFound
<1>3. \A a \in Found(v, l) : <<a, a>> \notin Ranking(v, l)
  BY <1>1, <1>2
<1>4. \A a, b \in Found(v, l) : a # b => <<a, b>> \in Ranking(v, l) \/ <<b, a>> \in Ranking(v, l)
  BY <1>1, <1>2
<1>5. \A a, b, c \in Found(v, l) :
        <<a, b>> \in Ranking(v, l) /\ <<b, c>> \in Ranking(v, l) => <<a, c>> \in Ranking(v, l)
  BY <1>1, <1>2
<1> QED BY <1>3, <1>4, <1>5 DEF Orders

(* One that both layers rank above another has the higher score. *)
LEMMA AboveRanks ==
  ASSUME NEW v, NEW l, IsLayer(v), IsLayer(l), NEW a \in Found(v, l), NEW b \in Found(v, l),
         Above(v, l, a, b)
  PROVE  <<a, b>> \in Ranking(v, l)
<1>1. ASSUME NEW s \in {v, l}
      PROVE  /\ Share(s, a) \in Nat /\ Share(s, b) \in Nat /\ Share(s, b) <= Share(s, a)
             /\ b \in ToSet(s) => Share(s, b) < Share(s, a)
  <2>1. IsLayer(s)
    OBVIOUS
  <2>2. CASE b \in ToSet(s)
    <3>1. a \in ToSet(s) /\ Rank(s, a) < Rank(s, b)
      BY <2>2 DEF Above
    <3>2. Share(s, a) \in Nat /\ Share(s, b) \in Nat /\ Share(s, b) < Share(s, a)
      BY <2>1, <2>2, <3>1, ShareShrinks
    <3> QED BY <3>2
  <2>3. CASE b \notin ToSet(s)
    <3>1. Share(s, b) = 0 /\ Share(s, a) \in Nat
      BY <2>1, <2>3, ShareShrinks
    <3> QED BY <2>3, <3>1
  <2> QED BY <2>2, <2>3
<1>2. b \in ToSet(v) \/ b \in ToSet(l)
  BY DEF Found
<1>3. Score(v, l, a) > Score(v, l, b)
  <2>1. /\ Share(v, a) \in Nat /\ Share(v, b) \in Nat /\ Share(v, b) <= Share(v, a)
        /\ Share(l, a) \in Nat /\ Share(l, b) \in Nat /\ Share(l, b) <= Share(l, a)
    BY <1>1
  <2>2. Share(v, b) < Share(v, a) \/ Share(l, b) < Share(l, a)
    BY <1>1, <1>2
  <2> QED BY <2>1, <2>2 DEF Score
<1> QED BY <1>3 DEF Ranking

LEMMA FusedLists ==
  ASSUME NEW v, NEW l, IsLayer(v), IsLayer(l)
  PROVE  /\ Fused(v, l) \in Seq(Found(v, l)) /\ IsInjective(Fused(v, l))
         /\ ToSet(Fused(v, l)) = Found(v, l)
         /\ \A m, n \in 1..Len(Fused(v, l)) :
              <<Fused(v, l)[m], Fused(v, l)[n]>> \in Ranking(v, l) <=> m < n
BY LayersFound, RankingOrders, OrderedLists DEF Fused

(* A recall returns a key first, then the hits in the order of their       *)
(* scores, as far as K goes.                                               *)
LEMMA HitsRanked ==
  ASSUME NEW v, NEW l, IsLayer(v), IsLayer(l), NEW kvFound \in BOOLEAN,
         NEW h, h = Top((IF kvFound THEN <<"kv">> ELSE <<>>) \o Fused(v, l))
  PROVE  /\ h \in Seq(Entries \cup Keys \cup {"kv"})
         /\ kvFound => h # <<>> /\ Head(h) = "kv"
         /\ \A b \in ToSet(h) \ {"kv"}, a \in Found(v, l) :
              Above(v, l, a, b) => a \in ToSet(h) /\ Rank(h, a) < Rank(h, b)
<1> DEFINE p == IF kvFound THEN <<"kv">> ELSE <<>>
           f == Fused(v, l)
           U == Entries \cup Keys \cup {"kv"}
           w == p \o f
<1>1. /\ f \in Seq(Found(v, l)) /\ IsInjective(f) /\ ToSet(f) = Found(v, l)
      /\ \A m, n \in 1..Len(f) : <<f[m], f[n]>> \in Ranking(v, l) <=> m < n
  BY FusedLists
<1>2. /\ p \in Seq({"kv"}) /\ Len(p) \in 0..1 /\ (kvFound => Len(p) = 1)
      /\ \A n \in 1..Len(p) : p[n] = "kv"
  <2>1. CASE kvFound
    <3>1. p = <<"kv">>
      BY <2>1
    <3> HIDE DEF p
    <3>2. Len(p) = 1 /\ p[1] = "kv" /\ p \in Seq({"kv"})
      BY <3>1
    <3> QED BY <3>2
  <2>2. CASE ~kvFound
    <3>1. p = <<>>
      BY <2>2
    <3> HIDE DEF p
    <3>2. Len(p) = 0 /\ p \in Seq({"kv"})
      BY <3>1
    <3> QED BY <2>2, <3>2
  <2> QED BY <2>1, <2>2
<1>3. Found(v, l) \subseteq Entries \cup Keys /\ "kv" \notin Found(v, l)
  BY LayersFound, RecallConstants
<1> HIDE DEF p, f
<1>4. Len(f) \in Nat /\ \A n \in 1..Len(f) : f[n] \in Found(v, l)
  BY <1>1
<1>5. f \in Seq(U) /\ p \in Seq(U)
  <2>1. Found(v, l) \subseteq U /\ {"kv"} \subseteq U
    BY <1>3
  <2> HIDE DEF U
  <2> QED BY <1>1, <1>2, <2>1, SeqMonotonic
<1>6. /\ w \in Seq(U) /\ Len(w) = Len(p) + Len(f)
      /\ \A n \in 1..Len(w) : w[n] = IF n <= Len(p) THEN p[n] ELSE f[n - Len(p)]
  <2> HIDE DEF U
  <2> QED BY <1>5, ConcatProperties
<1> HIDE DEF w
<1>7. IsInjective(w)
  <2> SUFFICES ASSUME NEW m \in 1..Len(w), NEW n \in 1..Len(w), w[m] = w[n] PROVE m = n
    BY <1>6 DEF IsInjective
  <2>1. CASE m <= Len(p) /\ n <= Len(p)
    BY <1>2, <2>1
  <2>2. CASE m <= Len(p) /\ n > Len(p)
    <3>1. w[m] = "kv" /\ w[n] \in Found(v, l)
      BY <1>2, <1>4, <1>6, <2>2
    <3> QED BY <1>3, <3>1
  <2>3. CASE m > Len(p) /\ n <= Len(p)
    <3>1. w[n] = "kv" /\ w[m] \in Found(v, l)
      BY <1>2, <1>4, <1>6, <2>3
    <3> QED BY <1>3, <3>1
  <2>4. CASE m > Len(p) /\ n > Len(p)
    <3>1. m - Len(p) \in 1..Len(f) /\ n - Len(p) \in 1..Len(f)
      BY <1>2, <1>4, <1>6, <2>4
    <3>2. f[m - Len(p)] = f[n - Len(p)]
      BY <1>6, <2>4, <1>2
    <3>3. m - Len(p) = n - Len(p)
      BY <1>1, <3>1, <3>2 DEF IsInjective
    <3> QED BY <1>2, <3>3
  <2> QED BY <1>2, <2>1, <2>2, <2>3, <2>4
<1>8. h = Top(w)
  BY DEF w, p, f
<1>9. /\ h \in Seq(U) /\ IsInjective(h)
      /\ Len(h) = IF Len(w) < K THEN Len(w) ELSE K
      /\ \A n \in 1..Len(h) : h[n] = w[n]
  <2> HIDE DEF U
  <2> QED BY <1>6, <1>7, <1>8, TopKeeps
<1>10. Len(h) \in 0..Len(w) /\ (Len(w) > 0 => Len(h) > 0) /\ Len(w) \in Nat
  BY <1>2, <1>4, <1>6, <1>9, RecallConstants
<1>11. ASSUME kvFound PROVE h # <<>> /\ Head(h) = "kv"
  <2>1. Len(h) > 0
    BY <1>2, <1>4, <1>6, <1>10, <1>11
  <2>2. Len(p) = 1 /\ p[1] = "kv"
    BY <1>2, <1>11
  <2>3. w[1] = p[1]
    BY <1>4, <1>6, <2>2
  <2>4. h[1] = w[1]
    BY <1>9, <1>10, <2>1
  <2> HIDE DEF U
  <2> QED BY <1>9, <2>1, <2>2, <2>3, <2>4
<1>12. ASSUME NEW b \in ToSet(h) \ {"kv"}, NEW a \in Found(v, l), Above(v, l, a, b)
       PROVE  a \in ToSet(h) /\ Rank(h, a) < Rank(h, b)
  <2>1. PICK n \in 1..Len(h) : h[n] = b
    <3>1. DOMAIN h = 1..Len(h)
      BY <1>9
    <3> QED BY <3>1 DEF ToSet
  <2>2. w[n] = b /\ n \in 1..Len(w)
    BY <1>9, <1>10, <2>1
  <2>3. n > Len(p)
    BY <1>2, <1>6, <2>2
  <2>4. n - Len(p) \in 1..Len(f) /\ f[n - Len(p)] = b
    BY <1>2, <1>4, <1>6, <2>2, <2>3
  <2>5. PICK m \in 1..Len(f) : f[m] = a
    <3>1. DOMAIN f = 1..Len(f)
      BY <1>1
    <3> QED BY <1>1, <3>1 DEF ToSet
  <2>6. b \in Found(v, l)
    BY <1>4, <2>4
  <2>7. <<a, b>> \in Ranking(v, l)
    BY <1>12, <2>6, AboveRanks
  <2>8. m < n - Len(p)
    BY <1>1, <2>4, <2>5, <2>7
  <2>9. m + Len(p) \in 1..Len(h) /\ m + Len(p) < n /\ m + Len(p) > Len(p)
    BY <1>2, <1>10, <2>1, <2>8
  <2>10. h[m + Len(p)] = a
    BY <1>2, <1>6, <1>9, <1>10, <2>5, <2>9
  <2>11. a \in ToSet(h) /\ Rank(h, a) = m + Len(p) /\ Rank(h, b) = n
    <3> HIDE DEF U
    <3> QED BY <1>9, <2>1, <2>9, <2>10, Placed
  <2> QED BY <2>9, <2>11
<1> QED BY <1>9, <1>11, <1>12
(* An entry is stored once, by a request whose indexing has not begun, and *)
(* its text is embedded and stored before its words are.                   *)
AppendedOK ==
  \A t \in Requests :
    /\ job[t] = "none" => t \notin Stored
    /\ request[t].at \in {"idle", "push", "append"} => job[t] = "none"
    /\ job[t] = "lexical" => vec[t] = t

(* Background work that a close does not wait for was stored after it      *)
(* began to wait.                                                          *)
DrainOK ==
  /\ client = "closed" => closer.at = "done"
  /\ setting.async /\ closer.at # "idle" =>
       \A t \in Requests : job[t] \in Running =>
         t \in late.flush \/ (closer.at = "flush" /\ t \in closer.jobs)
  /\ DrainedBeforeClose

(* Only the request whose value a key has may be storing its text.         *)
KeysOK ==
  /\ \A t \in Requests : request[t].at \in {"set", "embedKey", "storeKey"} => request[t].key \in Keys
  /\ \A k \in Keys \ late.keys : \A t \in InRemember(k) : kv[k] = t
  /\ KeyTextIsCurrent

(* What A4 is asked about nobody has annotated, or the user meanwhile.     *)
AskedOK ==
  \A t \in Requests : \A e \in asked[t] :
    dims[e].by = "user" => e \in late.a4 \/ Unannotated(e)

(* The inductive invariant of Recall. *)
RecallInv == RecallTypeOK /\ AppendedOK /\ StoredIsIndexed /\ DrainOK /\ KeysOK /\ AskedOK


-----------------------------------------------------------------------------
LEMMA LayersTyped ==
  ASSUME RecallTypeOK
  PROVE  /\ \A t \in Requests : IsLayer(request[t].v) /\ IsLayer(request[t].l)
         /\ request \in [Requests -> Request]
BY DEF RecallTypeOK, Request, IsLayer

LEMMA EmptyLayer == IsLayer(<<>>)
BY RecallConstants DEF IsLayer, IsInjective

LEMMA NoRequestType ==
  /\ NoRequest \in Request /\ NoRequest.key = None /\ NoRequest.v = <<>> /\ NoRequest.l = <<>>
  /\ NoRequest.at = "idle"
BY DEF NoRequest, Request, Places, Operations

(* A step that moves the request t and leaves the indexes and keys alone. *)
QuietMove(t) ==
  /\ request' \in [Requests -> Request]
  /\ \A u \in Requests \ {t} : request'[u] = request[u]
  /\ IsLayer(request'[t].v) /\ IsLayer(request'[t].l)
  /\ request[t].at \notin {"index", "raised", "embedKey", "storeKey"}
  /\ request'[t].at \notin {"embedKey", "storeKey"}
  /\ request'[t].at \in {"idle", "push", "append"} => request[t].at \in {"idle", "push", "append"}
  /\ request'[t].at = "set" => request'[t].key \in Keys

LEMMA FinishMoves ==
  ASSUME RecallTypeOK, NEW t \in Requests, NEW how \in {"done", "raised"}, Finish(t, how)
  PROVE  /\ request' \in [Requests -> Request]
         /\ \A u \in Requests \ {t} : request'[u] = request[u]
         /\ request'[t].at = how /\ request'[t].key = None
         /\ IsLayer(request'[t].v) /\ IsLayer(request'[t].l)
<1> DEFINE r == [NoRequest EXCEPT !.op = request[t].op, !.at = how]
<1>1. request[t] \in Request /\ request \in [Requests -> Request]
  BY DEF RecallTypeOK
<1>2. r \in Request /\ r.at = how /\ r.key = None /\ r.v = <<>> /\ r.l = <<>>
  <2>1. request[t].op \in Operations \cup {"none"} /\ how \in Places
    BY <1>1 DEF Request, Places
  <2> QED BY <2>1, NoRequestType DEF Request
<1> HIDE DEF r
<1>3. request' = [request EXCEPT ![t] = r]
  BY DEF Finish, r
<1> QED BY <1>1, <1>2, <1>3, EmptyLayer

LEMMA GoMoves ==
  ASSUME RecallTypeOK, NEW t \in Requests, NEW q \in Places, MoveTo(t, q)
  PROVE  /\ request' \in [Requests -> Request]
         /\ \A u \in Requests \ {t} : request'[u] = request[u]
         /\ request'[t].at = q /\ request'[t].key = request[t].key
         /\ IsLayer(request'[t].v) /\ IsLayer(request'[t].l)
<1>1. request[t] \in Request /\ request \in [Requests -> Request]
      /\ IsLayer(request[t].v) /\ IsLayer(request[t].l)
  BY LayersTyped
<1>2. request' = [request EXCEPT ![t] = [request[t] EXCEPT !.at = q]]
  BY DEF MoveTo
<1> DEFINE r == [request[t] EXCEPT !.at = q]
<1>3. r \in Request /\ r.at = q /\ r.key = request[t].key /\ r.v = request[t].v /\ r.l = request[t].l
  BY <1>1 DEF Request
<1> HIDE DEF r
<1>4. request' = [request EXCEPT ![t] = r]
  BY <1>2 DEF r
<1> QED BY <1>1, <1>3, <1>4

(* What the annotations need of the dimensions of an entry. *)
SameDims(e) ==
  /\ dims'[e].by = dims[e].by /\ dims'[e].mode = dims[e].mode
  /\ dims'[e].purpose = dims[e].purpose

LEMMA AskedFrame ==
  ASSUME AskedOK, late.a4 \subseteq late'.a4,
         \A t \in Requests : asked'[t] \subseteq asked[t],
         \A t \in Requests : \A e \in asked'[t] : dims'[e].by = "user" => SameDims(e)
  PROVE  AskedOK'
BY DEF AskedOK, SameDims, Unannotated

Quiet ==
  /\ request' \in [Requests -> Request]
  /\ \A u \in Requests :
       /\ IsLayer(request'[u].v) /\ IsLayer(request'[u].l)
       /\ request'[u].at \in {"idle", "push", "append"} => request[u].at \in {"idle", "push", "append"}
       /\ request[u].at = "index" => request'[u].at = "index"
       /\ request[u].at = "raised" => request'[u].at = "raised"
       /\ request'[u].at = "set" => request'[u].key \in Keys \/ request'[u] = request[u]
       /\ request[u].at \in {"embedKey", "storeKey"} \/ request'[u].at \in {"embedKey", "storeKey"} =>
            request'[u] = request[u]

LEMMA MovesQuietly ==
  ASSUME RecallTypeOK, \/ \E t \in Requests : QuietMove(t)
                       \/ UNCHANGED request
  PROVE  Quiet
BY LayersTyped DEF Quiet, QuietMove

LEMMA QuietStep ==
  ASSUME RecallInv, Quiet,
         UNCHANGED <<kv, vec, lex, job, setting, query, client, closer>>,
         hist' \in Seq(Entries), IsInjective(hist'), ToSet(hist') \subseteq ToSet(hist),
         dims' \in [Entries -> Dims], asked' \in [Requests -> SUBSET Entries],
         late' \in [a4 : SUBSET Entries, flush : SUBSET Requests, keys : SUBSET Keys],
         late'.flush = late.flush, late'.keys = late.keys, AskedOK'
  PROVE  RecallInv'
<1>1. RecallTypeOK /\ AppendedOK /\ StoredIsIndexed /\ DrainOK /\ KeysOK /\ AskedOK
  BY DEF RecallInv
<1>2. RecallTypeOK'
  BY <1>1 DEF RecallTypeOK, Quiet, IsLayer
<1>3. \A u \in Requests :
        /\ request'[u].at \in {"idle", "push", "append"} => request[u].at \in {"idle", "push", "append"}
        /\ request[u].at = "index" => request'[u].at = "index"
        /\ request[u].at = "raised" => request'[u].at = "raised"
        /\ request'[u].at = "set" => request'[u].key \in Keys \/ request'[u] = request[u]
        /\ request[u].at \in {"embedKey", "storeKey"} \/ request'[u].at \in {"embedKey", "storeKey"} =>
             request'[u] = request[u]
  BY DEF Quiet
<1>4. AppendedOK'
  BY <1>1, <1>3 DEF AppendedOK, Stored
<1>5. StoredIsIndexed'
  BY <1>1, <1>3 DEF StoredIsIndexed, Stored
<1>6. DrainOK'
  BY <1>1 DEF DrainOK, DrainedBeforeClose
<1>7. KeysOK'
  <2>1. \A k : InRemember(k)' = InRemember(k)
    BY <1>3 DEF InRemember
  <2>2. \A u \in Requests : request'[u].at \in {"set", "embedKey", "storeKey"} => request'[u].key \in Keys
    BY <1>1, <1>3 DEF KeysOK
  <2>3. \A k \in Keys : kv[k] # None => kv[k] \in Requests
    BY <1>1 DEF RecallTypeOK
  <2>4. KeyTextIsCurrent'
    BY <1>1, <1>3, <2>1, <2>3 DEF KeysOK, KeyTextIsCurrent
  <2> QED BY <1>1, <2>1, <2>2, <2>4 DEF KeysOK
<1> QED BY <1>2, <1>4, <1>5, <1>6, <1>7 DEF RecallInv

LEMMA MoveStep ==
  ASSUME RecallInv, NEW t \in Requests, QuietMove(t),
         UNCHANGED <<hist, dims, kv, vec, lex, job, setting, query, client, closer, asked, late>>
  PROVE  RecallInv'
<1>1. RecallTypeOK /\ AskedOK
  BY DEF RecallInv
<1>2. Quiet
  BY <1>1, MovesQuietly
<1>3. AskedOK'
  BY <1>1 DEF AskedOK, Unannotated
<1> QED BY <1>1, <1>2, <1>3, QuietStep DEF RecallTypeOK

-----------------------------------------------------------------------------
LEMMA BeginStep ==
  ASSUME RecallInv, NEW t \in Requests, Begin(t)
  PROVE  RecallInv'
<1>1. RecallTypeOK
  BY DEF RecallInv
<1>2. request[t].at = "idle" /\ request \in [Requests -> Request]
  BY <1>1 DEF Begin, At, RecallTypeOK
<1>3. PICK op \in Ops[t] :
        \E k \in IF op = "remember" THEN Keys
                 ELSE IF op \in {"recall", "activate", "ask"} THEN Keys \cup {None} ELSE {None} :
          request' = [request EXCEPT ![t] = [NoRequest EXCEPT !.op = op, !.at = Start(op), !.key = k]]
  BY DEF Begin
<1>4. PICK k \in Keys \cup {None} :
        /\ request' = [request EXCEPT ![t] = [NoRequest EXCEPT !.op = op, !.at = Start(op), !.key = k]]
        /\ op = "remember" => k \in Keys
  BY <1>3
<1>5. op \in Operations
  BY RecallAssumption
<1>6. /\ Start(op) \in Places \ {"idle", "append", "embedKey", "storeKey"}
      /\ Start(op) = "set" => op = "remember"
  BY <1>5 DEF Start, Operations, Places
<1> DEFINE r == [NoRequest EXCEPT !.op = op, !.at = Start(op), !.key = k]
<1>7. r \in Request /\ r.at = Start(op) /\ r.key = k /\ r.v = <<>> /\ r.l = <<>>
  BY <1>5, <1>6, NoRequestType DEF Request
<1> HIDE DEF r
<1>8. request' = [request EXCEPT ![t] = r]
  BY <1>4 DEF r
<1>9. request'[t] = r /\ request' \in [Requests -> Request]
  BY <1>2, <1>7, <1>8
<1>10. QuietMove(t)
  BY <1>2, <1>4, <1>6, <1>7, <1>8, <1>9, EmptyLayer DEF QuietMove
<1> QED BY <1>10, MoveStep DEF Begin

(* A move of the request that keeps its key and what it has found.         *)
LEMMA RecordMoves ==
  ASSUME RecallTypeOK, NEW t \in Requests, NEW r \in Request, request' = [request EXCEPT ![t] = r],
         IsLayer(r.v), IsLayer(r.l),
         request[t].at \notin {"index", "raised", "embedKey", "storeKey"},
         r.at \notin {"idle", "push", "embedKey", "storeKey", "set"},
         r.at = "append" => request[t].at = "push"
  PROVE  QuietMove(t)
BY DEF QuietMove, RecallTypeOK

LEMMA PushStep ==
  ASSUME RecallInv, NEW t \in Requests, PushTurn(t) \/ PreviewPush(t)
  PROVE  RecallInv'
<1>1. RecallTypeOK /\ request[t] \in Request /\ IsLayer(request[t].v) /\ IsLayer(request[t].l)
  BY LayersTyped DEF RecallInv
<1>2. PICK q \in {"append", "done"}, aligned \in Aligned :
        /\ request' = [request EXCEPT ![t].at = q, ![t].fired = Fired(aligned)]
        /\ IF q = "append" THEN request[t].at = "push" ELSE request[t].at = "preview"
  BY DEF PushTurn, PreviewPush, At
<1> DEFINE r == [request[t] EXCEPT !.at = q, !.fired = Fired(aligned)]
<1>3. Fired(aligned) \subseteq Entries
  BY <1>1 DEF Fired, Stored, ToSet, RecallTypeOK
<1>4. r \in Request /\ r.at = q /\ r.v = request[t].v /\ r.l = request[t].l
  <2>1. q \in Places
    BY DEF Places
  <2> QED BY <1>1, <1>3, <2>1 DEF Request
<1>5. request' = [request EXCEPT ![t] = r]
  BY <1>2
<1> HIDE DEF r
<1>6. QuietMove(t)
  BY <1>1, <1>2, <1>4, <1>5, RecordMoves
<1> QED BY <1>6, MoveStep DEF PushTurn, PreviewPush

LEMMA LookupStep ==
  ASSUME RecallInv, NEW t \in Requests, Lookup(t)
  PROVE  RecallInv'
<1>1. RecallTypeOK /\ request[t] \in Request /\ IsLayer(request[t].v) /\ IsLayer(request[t].l)
  BY LayersTyped DEF RecallInv
<1>2. PICK found \in BOOLEAN, q \in {"embed", "found"} :
        request' = [request EXCEPT ![t].kv = found, ![t].at = q]
  BY DEF Lookup
<1>3. request[t].at = "lookup"
  BY DEF Lookup, At
<1> DEFINE r == [request[t] EXCEPT !.kv = found, !.at = q]
<1>4. r \in Request /\ r.at = q /\ r.v = request[t].v /\ r.l = request[t].l
  <2>1. q \in Places
    BY DEF Places
  <2> QED BY <1>1, <2>1 DEF Request
<1>5. request' = [request EXCEPT ![t] = r]
  BY <1>2
<1> HIDE DEF r
<1>6. QuietMove(t)
  BY <1>1, <1>3, <1>4, <1>5, RecordMoves
<1> QED BY <1>6, MoveStep DEF Lookup

(* A search gives a layer. *)
LEMMA SearchedLayer ==
  ASSUME NEW s \in Seq(Entries \cup Keys), IsInjective(s), NEW S
  PROVE  IsLayer(Top(Only(s, S)))
<1>1. Only(s, S) \in Seq(Entries \cup Keys) /\ IsInjective(Only(s, S))
  BY OnlyKeeps
<1>2. /\ Top(Only(s, S)) \in Seq(Entries \cup Keys) /\ IsInjective(Top(Only(s, S)))
      /\ Len(Top(Only(s, S))) = IF Len(Only(s, S)) < K THEN Len(Only(s, S)) ELSE K
  BY <1>1, TopKeeps
<1>3. Len(Only(s, S)) \in Nat /\ K \in Nat
  BY <1>1, RecallConstants
<1> QED BY <1>2, <1>3 DEF IsLayer

LEMMA SearchStep ==
  ASSUME RecallInv, NEW t \in Requests, SearchVectors(t) \/ SearchLexical(t)
  PROVE  RecallInv'
<1>1. RecallTypeOK /\ request[t] \in Request /\ IsLayer(request[t].v) /\ IsLayer(request[t].l)
  BY LayersTyped DEF RecallInv
<1>2. /\ query.near \in Seq(Entries \cup Keys) /\ IsInjective(query.near)
      /\ query.match \in Seq(Entries \cup Keys) /\ IsInjective(query.match)
  <2>1. query \in Relevance
    BY <1>1 DEF RecallTypeOK
  <2>2. query.match \in Seq(Entries) /\ Seq(Entries) \subseteq Seq(Entries \cup Keys)
    BY <2>1, RecallAssumption, SeqMonotonic
  <2> QED BY <2>1, <2>2, RecallAssumption
<1>3. PICK r \in Request :
        /\ request' = [request EXCEPT ![t] = r] /\ IsLayer(r.v) /\ IsLayer(r.l)
        /\ r.at \in {"lexical", "found"} /\ request[t].at \in {"search", "lexical"}
  <2>1. CASE SearchVectors(t)
    <3> DEFINE s == Top(Only(query.near, {i \in DOMAIN vec : vec[i] # None}))
               r == [request[t] EXCEPT !.at = AfterVectors, !.v = s]
    <3>1. IsLayer(s)
      BY <1>2, SearchedLayer
    <3>2. request' = [request EXCEPT ![t].at = AfterVectors, ![t].v = s] /\ request[t].at = "search"
      BY <2>1 DEF SearchVectors, At
    <3> HIDE DEF s
    <3>3. AfterVectors \in {"lexical", "found"}
      BY DEF AfterVectors
    <3>4. request' = [request EXCEPT ![t] = r]
      BY <3>2
    <3>5. r \in Request /\ r.at = AfterVectors /\ r.v = s /\ r.l = request[t].l
      <4>1. s \in Seq(Entries \cup Keys) /\ AfterVectors \in Places
        BY <3>1, <3>3 DEF IsLayer, Places
      <4> QED BY <1>1, <4>1 DEF Request
    <3> HIDE DEF r
    <3> QED BY <1>1, <3>1, <3>2, <3>3, <3>4, <3>5
  <2>2. CASE SearchLexical(t)
    <3> DEFINE s == Top(Only(query.match, lex))
               r == [request[t] EXCEPT !.at = "found", !.l = s]
    <3>1. IsLayer(s)
      BY <1>2, SearchedLayer
    <3>2. request' = [request EXCEPT ![t].at = "found", ![t].l = s] /\ request[t].at = "lexical"
      BY <2>2 DEF SearchLexical, At
    <3> HIDE DEF s
    <3>4. request' = [request EXCEPT ![t] = r]
      BY <3>2
    <3>5. r \in Request /\ r.at = "found" /\ r.l = s /\ r.v = request[t].v
      <4>1. s \in Seq(Entries \cup Keys) /\ "found" \in Places
        BY <3>1 DEF IsLayer, Places
      <4> QED BY <1>1, <4>1 DEF Request
    <3> HIDE DEF r
    <3> QED BY <1>1, <3>1, <3>2, <3>4, <3>5
  <2> QED BY <2>1, <2>2
<1>4. QuietMove(t)
  BY <1>1, <1>3, RecordMoves
<1> QED BY <1>4, MoveStep DEF SearchVectors, SearchLexical

(* The steps that go on or end, and change nothing else. *)
LEMMA GoQuietly ==
  ASSUME RecallTypeOK, NEW t \in Requests,
         request[t].at \notin {"index", "raised", "embedKey", "storeKey"},
         \/ \E how \in {"done", "raised"} : Finish(t, how)
         \/ \E q \in {"write", "embed", "search", "lexical", "found", "answer", "scan"} : MoveTo(t, q)
  PROVE  QuietMove(t)
<1>1. CASE \E how \in {"done", "raised"} : Finish(t, how)
  BY <1>1, FinishMoves DEF QuietMove
<1>2. ASSUME NEW q \in {"write", "embed", "search", "lexical", "found", "answer", "scan"}, MoveTo(t, q)
      PROVE  QuietMove(t)
  <2>1. q \in Places
    BY DEF Places
  <2> QED BY <1>2, <2>1, GoMoves DEF QuietMove
<1> QED BY <1>1, <1>2

LEMMA QueryStep ==
  ASSUME RecallInv, NEW t \in Requests, EmbedQuery(t) \/ Ask(t) \/ AnswerQuery(t)
  PROVE  RecallInv'
<1>1. RecallTypeOK
  BY DEF RecallInv
<1>2. request[t].at \in {"embed", "found", "answer"}
  BY DEF EmbedQuery, Ask, AnswerQuery, At
<1>3. \/ Finish(t, "done") \/ Finish(t, "raised")
      \/ \E q \in {"write", "embed", "search", "lexical", "found", "answer", "scan"} : MoveTo(t, q)
  BY DEF EmbedQuery, Ask, AnswerQuery, AfterVectors, ThenAnswer
<1>4. QuietMove(t)
  BY <1>1, <1>2, <1>3, GoQuietly
<1> QED BY <1>4, MoveStep DEF EmbedQuery, Ask, AnswerQuery

-----------------------------------------------------------------------------
(* Dimensions. *)
LEMMA ReinforcedDims ==
  ASSUME RecallTypeOK, NEW ids
  PROVE  /\ Reinforced(ids) \in [Entries -> Dims]
         /\ \A e \in Entries : /\ Reinforced(ids)[e].by = dims[e].by
                               /\ Reinforced(ids)[e].mode = dims[e].mode
                               /\ Reinforced(ids)[e].purpose = dims[e].purpose
<1>1. \A e \in Entries : dims[e] \in Dims
  BY DEF RecallTypeOK
<1>2. \A e \in Entries : /\ [dims[e] EXCEPT !.cooling = TRUE] \in Dims
                         /\ [dims[e] EXCEPT !.cooling = TRUE].by = dims[e].by
                         /\ [dims[e] EXCEPT !.cooling = TRUE].mode = dims[e].mode
                         /\ [dims[e] EXCEPT !.cooling = TRUE].purpose = dims[e].purpose
  BY <1>1 DEF Dims
<1> QED BY <1>1, <1>2 DEF Reinforced

LEMMA AnnotatedDims ==
  ASSUME RecallTypeOK, NEW e \in Entries, NEW new \in Offers, NEW who \in {"user", "a4"}
  PROVE  /\ Annotated(e, new, who) \in [Entries -> Dims]
         /\ \A x \in Entries \ {e} : Annotated(e, new, who)[x] = dims[x]
         /\ Annotated(e, new, who)[e].by = who \/ Annotated(e, new, who) = dims
<1>1. dims \in [Entries -> Dims] /\ dims[e] \in Dims
  BY DEF RecallTypeOK
<1>2. new.mode \in {"context", "remind"} /\ new.purpose \in BOOLEAN
  BY RecallAssumption
<1> DEFINE d == [dims[e] EXCEPT !.mode = new.mode, !.by = who, !.purpose = dims[e].purpose \/ new.purpose]
<1>3. d \in Dims /\ d.by = who
  <2>1. dims[e].purpose \in BOOLEAN /\ (dims[e].purpose \/ new.purpose) \in BOOLEAN
    BY <1>1, <1>2 DEF Dims
  <2> DEFINE p == dims[e].purpose \/ new.purpose
  <2>2. p \in BOOLEAN /\ d = [dims[e] EXCEPT !.mode = new.mode, !.by = who, !.purpose = p]
    BY <2>1
  <2> HIDE DEF p, d
  <2> QED BY <1>1, <1>2, <2>2 DEF Dims, Modes
<1>4. CASE e \notin Stored
  BY <1>1, <1>4 DEF Annotated
<1>5. CASE e \in Stored
  <2>2. Annotated(e, new, who) = [dims EXCEPT ![e] = d]
    BY <1>5 DEF Annotated
  <2> HIDE DEF d
  <2> QED BY <1>1, <1>3, <2>2
<1> QED BY <1>4, <1>5

LEMMA ReinforceStep ==
  ASSUME RecallInv, NEW t \in Requests, SkillReinforces(t) \/ ActivateReinforces(t)
  PROVE  RecallInv'
<1>1. RecallTypeOK /\ AskedOK
  BY DEF RecallInv
<1>2. PICK ids : dims' = Reinforced(ids)
  BY DEF SkillReinforces, ActivateReinforces
<1>3. /\ request[t].at = "found"
      /\ \/ Finish(t, "done") \/ Finish(t, "raised")
         \/ \E q \in {"write", "embed", "search", "lexical", "found", "answer", "scan"} : MoveTo(t, q)
      /\ UNCHANGED <<hist, kv, vec, lex, job, setting, query, client, closer, asked, late>>
  BY DEF SkillReinforces, ActivateReinforces, At, ThenAnswer
<1>4. QuietMove(t)
  BY <1>1, <1>3, GoQuietly
<1>5. Quiet
  BY <1>1, <1>4, MovesQuietly
<1>6. dims' \in [Entries -> Dims] /\ \A e \in Entries : SameDims(e)
  BY <1>1, <1>2, ReinforcedDims DEF SameDims
<1>7. AskedOK'
  <2>1. \A u \in Requests : asked[u] \subseteq Entries
    BY <1>1 DEF RecallTypeOK
  <2> QED BY <1>1, <1>3, <1>6, <2>1, AskedFrame
<1> QED BY <1>1, <1>3, <1>5, <1>6, <1>7, QuietStep DEF RecallTypeOK

LEMMA TickStep ==
  ASSUME RecallInv, NEW e \in Old, Tick(e)
  PROVE  RecallInv'
<1>1. RecallTypeOK /\ AskedOK /\ e \in Entries
  BY RecallConstants DEF RecallInv
<1>2. /\ dims' = [dims EXCEPT ![e] = [dims[e] EXCEPT !.cooling = FALSE]]
      /\ UNCHANGED <<hist, kv, vec, lex, job, setting, query, client, closer, request, asked, late>>
  BY DEF Tick
<1>3. Quiet
  BY <1>1, <1>2, MovesQuietly
<1>4. dims' \in [Entries -> Dims] /\ \A x \in Entries : SameDims(x)
  <2> DEFINE d == [dims[e] EXCEPT !.cooling = FALSE]
  <2>1. dims \in [Entries -> Dims] /\ dims[e] \in Dims
    BY <1>1 DEF RecallTypeOK
  <2>2. d \in Dims /\ d.by = dims[e].by /\ d.mode = dims[e].mode /\ d.purpose = dims[e].purpose
    BY <2>1 DEF Dims
  <2> HIDE DEF d
  <2>3. dims' = [dims EXCEPT ![e] = d]
    BY <1>2 DEF d
  <2> QED BY <2>1, <2>2, <2>3 DEF SameDims
<1>5. AskedOK'
  <2>1. \A u \in Requests : asked[u] \subseteq Entries
    BY <1>1 DEF RecallTypeOK
  <2> QED BY <1>1, <1>2, <1>4, <2>1, AskedFrame
<1> QED BY <1>1, <1>2, <1>3, <1>4, <1>5, QuietStep DEF RecallTypeOK

LEMMA OfferStep ==
  ASSUME RecallInv, NEW t \in Requests, ScanTurn(t) \/ Curate(t)
  PROVE  RecallInv'
<1>1. RecallTypeOK /\ AskedOK
  BY DEF RecallInv
<1>2. Stored \subseteq Entries
  BY <1>1 DEF Stored, ToSet, RecallTypeOK
<1>3. PICK window \in SUBSET Entries : Offer(t, window)
  <2>1. CASE ScanTurn(t)
    <3>1. hist # <<>> => Last(hist) \in Entries
      BY <1>1 DEF RecallTypeOK, Last
    <3> QED BY <2>1, <3>1 DEF ScanTurn
  <2>2. CASE Curate(t)
    BY <1>2, <2>2 DEF Curate
  <2> QED BY <2>1, <2>2
<1>4. /\ request[t].at \in {"scan", "curate"}
      /\ asked' = [asked EXCEPT ![t] = ToOffer(window)]
      /\ Finish(t, "done") \/ MoveTo(t, "write")
      /\ UNCHANGED <<hist, dims, kv, vec, lex, job, setting, query, client, closer, late>>
  BY <1>3 DEF ScanTurn, Curate, At, Offer
<1>5. QuietMove(t)
  BY <1>1, <1>4, GoQuietly
<1>6. Quiet
  BY <1>1, <1>5, MovesQuietly
<1>7. ToOffer(window) \subseteq Entries /\ \A e \in ToOffer(window) : Unannotated(e)
  BY DEF ToOffer
<1>8. asked' \in [Requests -> SUBSET Entries]
  BY <1>1, <1>4, <1>7 DEF RecallTypeOK
<1>9. AskedOK'
  <2>1. \A u \in Requests : asked'[u] = IF u = t THEN ToOffer(window) ELSE asked[u]
    BY <1>1, <1>4 DEF RecallTypeOK
  <2> QED BY <1>1, <1>4, <1>7, <2>1 DEF AskedOK, Unannotated
<1> QED BY <1>1, <1>4, <1>6, <1>8, <1>9, QuietStep DEF RecallTypeOK

LEMMA WriteStep ==
  ASSUME RecallInv, NEW t \in Requests, Write(t)
  PROVE  RecallInv'
<1>1. RecallTypeOK /\ AskedOK
  BY DEF RecallInv
<1>2. /\ request[t].at = "write"
      /\ Finish(t, "done") \/ MoveTo(t, "write")
      /\ UNCHANGED <<hist, kv, vec, lex, job, setting, query, client, closer, late>>
  BY DEF Write, At
<1>3. Quiet
  <2>1. request[t].at = "write"
    BY DEF Write, At
  <2>2. QuietMove(t)
    BY <1>1, <1>2, <2>1, GoQuietly DEF Write
  <2> QED BY <1>1, <2>2, MovesQuietly
<1>4. /\ asked' \in [Requests -> SUBSET Entries] /\ \A u \in Requests : asked'[u] \subseteq asked[u]
      /\ dims' \in [Entries -> Dims]
      /\ \A e \in Entries : dims'[e].by = "user" => SameDims(e)
  <2>1. asked \in [Requests -> SUBSET Entries] /\ dims \in [Entries -> Dims]
    BY <1>1 DEF RecallTypeOK
  <2>2. ASSUME NEW e \in asked[t], NEW new \in Offers,
               asked' = [asked EXCEPT ![t] = @ \ {e}], dims' = Annotated(e, new, "a4")
        PROVE  <1>4
    <3>1. e \in Entries
      BY <2>1
    <3>2. /\ dims' \in [Entries -> Dims] /\ \A x \in Entries \ {e} : dims'[x] = dims[x]
          /\ dims'[e].by = "a4" \/ dims' = dims
      BY <1>1, <2>2, <3>1, AnnotatedDims
    <3> QED BY <2>1, <2>2, <3>2 DEF SameDims
  <2>3. CASE asked' = [asked EXCEPT ![t] = {}] /\ UNCHANGED dims
    BY <2>1, <2>3 DEF SameDims
  <2> QED BY <2>2, <2>3 DEF Write
<1>5. AskedOK'
  <2>1. \A u \in Requests : asked'[u] \subseteq Entries
    BY <1>4
  <2> QED BY <1>1, <1>2, <1>4, <2>1, AskedFrame
<1> QED BY <1>1, <1>2, <1>3, <1>4, <1>5, QuietStep DEF RecallTypeOK

LEMMA UserStep ==
  ASSUME RecallInv, NEW t \in Requests, UserAnnotates(t)
  PROVE  RecallInv'
<1>1. RecallTypeOK /\ AskedOK
  BY DEF RecallInv
<1>2. /\ request[t].at = "annotate" /\ Finish(t, "done")
      /\ UNCHANGED <<hist, kv, vec, lex, job, setting, query, client, closer, asked>>
  BY DEF UserAnnotates, At
<1>3. PICK e \in Entries, new \in Offers :
        /\ dims' = Annotated(e, new, "user")
        /\ late' = [late EXCEPT !.a4 = @ \cup (IF \E u \in Requests : e \in asked[u] THEN {e} ELSE {})]
  BY DEF UserAnnotates
<1>4. Quiet
  <2>1. QuietMove(t)
    BY <1>1, <1>2, GoQuietly
  <2> QED BY <1>1, <2>1, MovesQuietly
<1>5. /\ dims' \in [Entries -> Dims] /\ \A x \in Entries \ {e} : dims'[x] = dims[x]
  BY <1>1, <1>3, AnnotatedDims
<1>6. /\ late' \in [a4 : SUBSET Entries, flush : SUBSET Requests, keys : SUBSET Keys]
      /\ late'.flush = late.flush /\ late'.keys = late.keys /\ late.a4 \subseteq late'.a4
      /\ (\E u \in Requests : e \in asked[u]) => e \in late'.a4
  BY <1>1, <1>3 DEF RecallTypeOK
<1>7. AskedOK'
  <2> SUFFICES ASSUME NEW u \in Requests, NEW x \in asked[u], dims'[x].by = "user"
               PROVE  x \in late'.a4 \/ Unannotated(x)'
    BY <1>2 DEF AskedOK
  <2>1. CASE x = e
    BY <1>6, <2>1
  <2>2. CASE x # e
    <3>1. x \in Entries
      BY <1>1 DEF RecallTypeOK
    <3> QED BY <1>1, <1>5, <1>6, <2>2, <3>1 DEF AskedOK, Unannotated
  <2> QED BY <2>1, <2>2
<1> QED BY <1>1, <1>2, <1>4, <1>5, <1>6, <1>7, QuietStep DEF RecallTypeOK

LEMMA ForgetStep ==
  ASSUME RecallInv, NEW t \in Requests, Forget(t)
  PROVE  RecallInv'
<1>1. RecallTypeOK /\ AskedOK
  BY DEF RecallInv
<1>2. /\ request[t].at = "forget" /\ Finish(t, "done")
      /\ UNCHANGED <<dims, kv, vec, lex, job, setting, query, client, closer, asked, late>>
  BY DEF Forget, At
<1>3. PICK e \in Entries : hist' = Only(hist, Stored \ {e})
  BY DEF Forget
<1>4. Quiet
  <2>1. QuietMove(t)
    BY <1>1, <1>2, GoQuietly
  <2> QED BY <1>1, <2>1, MovesQuietly
<1>5. hist' \in Seq(Entries) /\ IsInjective(hist') /\ ToSet(hist') \subseteq ToSet(hist)
  <2>1. hist \in Seq(Entries) /\ IsInjective(hist)
    BY <1>1 DEF RecallTypeOK
  <2> QED BY <1>3, <2>1, OnlyKeeps
<1>6. AskedOK'
  BY <1>1, <1>2 DEF AskedOK, Unannotated
<1> QED BY <1>1, <1>2, <1>4, <1>5, <1>6, QuietStep DEF RecallTypeOK

-----------------------------------------------------------------------------
(* Keys. *)
LEMMA KeyStep ==
  ASSUME RecallInv, request' \in [Requests -> Request],
         \A u \in Requests :
           /\ IsLayer(request'[u].v) /\ IsLayer(request'[u].l)
           /\ request'[u].at \in {"idle", "push", "append"} => request[u].at \in {"idle", "push", "append"}
           /\ request[u].at \in {"index", "raised"} => request'[u].at = request[u].at,
         UNCHANGED <<hist, dims, lex, job, setting, query, client, closer, asked>>,
         kv' \in [Keys -> Requests \cup {None}],
         vec' \in [Entries \cup Keys -> Entries \cup {None}],
         \A e \in Entries : vec'[e] = vec[e],
         late' \in [a4 : SUBSET Entries, flush : SUBSET Requests, keys : SUBSET Keys],
         late'.a4 = late.a4, late'.flush = late.flush, KeysOK'
  PROVE  RecallInv'
<1>1. RecallTypeOK /\ AppendedOK /\ StoredIsIndexed /\ DrainOK /\ AskedOK
  BY DEF RecallInv
<1>2. RecallTypeOK'
  BY <1>1 DEF RecallTypeOK, IsLayer
<1>3. \A u \in Requests : vec'[u] = vec[u]
  BY RecallConstants
<1>4. AppendedOK'
  BY <1>1, <1>3 DEF AppendedOK, Stored
<1>5. StoredIsIndexed'
  BY <1>1, <1>3 DEF StoredIsIndexed, Stored
<1>6. DrainOK'
  BY <1>1 DEF DrainOK, DrainedBeforeClose
<1>7. AskedOK'
  BY <1>1 DEF AskedOK, Unannotated
<1> QED BY <1>2, <1>4, <1>5, <1>6, <1>7 DEF RecallInv

LEMMA SetKeyStep ==
  ASSUME RecallInv, NEW t \in Requests, SetKey(t)
  PROVE  RecallInv'
<1>1. RecallTypeOK /\ KeysOK
  BY DEF RecallInv
<1>2. PICK key \in Keys : key = request[t].key
  BY <1>1 DEF KeysOK, SetKey, At
<1>3. /\ request[t].at = "set" /\ MoveTo(t, "embedKey")
      /\ kv' = [kv EXCEPT ![key] = t]
      /\ late' = [late EXCEPT !.keys = @ \cup (IF InRemember(key) = {} THEN {} ELSE {key})]
      /\ UNCHANGED <<hist, dims, vec, lex, job, setting, query, client, closer, asked>>
  BY <1>2 DEF SetKey, At
<1>4. /\ request' \in [Requests -> Request]
      /\ \A u \in Requests \ {t} : request'[u] = request[u]
      /\ request'[t].at = "embedKey" /\ request'[t].key = key
      /\ IsLayer(request'[t].v) /\ IsLayer(request'[t].l)
  <2>1. "embedKey" \in Places
    BY DEF Places
  <2> QED BY <1>1, <1>2, <1>3, <2>1, GoMoves
<1>5. /\ kv' \in [Keys -> Requests \cup {None}] /\ kv'[key] = t
      /\ \A k \in Keys \ {key} : kv'[k] = kv[k]
  BY <1>1, <1>2, <1>3 DEF RecallTypeOK
<1>6. /\ late' \in [a4 : SUBSET Entries, flush : SUBSET Requests, keys : SUBSET Keys]
      /\ late'.a4 = late.a4 /\ late'.flush = late.flush /\ late.keys \subseteq late'.keys
      /\ InRemember(key) # {} => key \in late'.keys
  BY <1>1, <1>2, <1>3 DEF RecallTypeOK
<1>7. /\ \A k \in Keys \ {key} : InRemember(k)' = InRemember(k)
      /\ InRemember(key)' = InRemember(key) \cup {t}
  BY <1>2, <1>3, <1>4 DEF InRemember
<1>8. \A u \in Requests : request'[u].at \in {"set", "embedKey", "storeKey"} => request'[u].key \in Keys
  BY <1>1, <1>2, <1>4 DEF KeysOK
<1>9. \A k \in Keys \ late'.keys : \A u \in InRemember(k)' : kv'[k] = u
  BY <1>1, <1>5, <1>6, <1>7 DEF KeysOK
<1>10. KeyTextIsCurrent'
  <2> SUFFICES ASSUME NEW k \in Keys, kv'[k] # None, InRemember(k)' = {}, k \notin late'.keys
               PROVE  vec'[k] = kv'[k] \/ request'[kv'[k]].at = "raised"
    BY DEF KeyTextIsCurrent
  <2>1. k # key /\ InRemember(k) = {} /\ kv'[k] = kv[k] /\ k \notin late.keys
    BY <1>5, <1>6, <1>7
  <2>2. vec[k] = kv[k] \/ request[kv[k]].at = "raised"
    BY <1>1, <2>1 DEF KeysOK, KeyTextIsCurrent
  <2>3. kv[k] \in Requests
    BY <1>1, <2>1 DEF RecallTypeOK
  <2> QED BY <1>3, <1>4, <2>1, <2>2, <2>3
<1>11. KeysOK'
  BY <1>8, <1>9, <1>10 DEF KeysOK
<1>12. \A u \in Requests : IsLayer(request'[u].v) /\ IsLayer(request'[u].l)
  BY <1>1, <1>4, LayersTyped
<1> QED BY <1>1, <1>3, <1>4, <1>5, <1>6, <1>11, <1>12, KeyStep DEF RecallTypeOK

(* A request that stops storing the text of its key. *)
LEMMA LeavesKey ==
  ASSUME RecallTypeOK, KeysOK, NEW t \in Requests, request[t].at \in {"embedKey", "storeKey"},
         NEW how \in {"done", "raised"}, Finish(t, how),
         UNCHANGED <<kv, late>>,
         \A k \in Keys \ {request[t].key} : vec'[k] = vec[k],
         how = "raised" \/ vec'[request[t].key] = t
  PROVE  KeysOK'
<1>1. /\ \A u \in Requests \ {t} : request'[u] = request[u]
      /\ request'[t].at = how
  BY FinishMoves
<1>2. \A k : InRemember(k)' = InRemember(k) \ {t}
  BY <1>1 DEF InRemember
<1>3. \A u \in Requests : request'[u].at \in {"set", "embedKey", "storeKey"} => request'[u].key \in Keys
  BY <1>1 DEF KeysOK
<1>4. KeyTextIsCurrent'
  <2> SUFFICES ASSUME NEW k \in Keys, kv[k] # None, InRemember(k)' = {}, k \notin late.keys
               PROVE  vec'[k] = kv[k] \/ request'[kv[k]].at = "raised"
    BY DEF KeyTextIsCurrent
  <2>1. CASE k = request[t].key
    <3>1. t \in InRemember(k)
      BY <2>1 DEF InRemember
    <3>2. kv[k] = t
      BY <3>1 DEF KeysOK
    <3> QED BY <1>1, <2>1, <3>2
  <2>2. CASE k # request[t].key
    <3>1. t \notin InRemember(k)
      BY <2>2 DEF InRemember
    <3>2. InRemember(k) = {}
      BY <1>2, <3>1
    <3>3. vec[k] = kv[k] \/ request[kv[k]].at = "raised"
      BY <3>2 DEF KeysOK, KeyTextIsCurrent
    <3>4. kv[k] \in Requests
      BY DEF RecallTypeOK
    <3> QED BY <1>1, <2>2, <3>3, <3>4
  <2> QED BY <2>1, <2>2
<1> QED BY <1>2, <1>3, <1>4 DEF KeysOK

LEMMA EmbedKeyStep ==
  ASSUME RecallInv, NEW t \in Requests, EmbedKey(t)
  PROVE  RecallInv'
<1>1. RecallTypeOK /\ KeysOK
  BY DEF RecallInv
<1>2. /\ request[t].at = "embedKey"
      /\ Finish(t, "raised") \/ MoveTo(t, "storeKey")
      /\ UNCHANGED <<hist, dims, kv, vec, lex, job, setting, query, client, closer, asked, late>>
  BY DEF EmbedKey, At
<1>3. CASE Finish(t, "raised")
  <2>1. KeysOK'
    BY <1>1, <1>2, <1>3, LeavesKey
  <2>2. /\ request' \in [Requests -> Request]
        /\ \A u \in Requests \ {t} : request'[u] = request[u]
        /\ request'[t].at = "raised"
        /\ IsLayer(request'[t].v) /\ IsLayer(request'[t].l)
    BY <1>1, <1>3, FinishMoves
  <2>3. \A u \in Requests : IsLayer(request'[u].v) /\ IsLayer(request'[u].l)
    BY <1>1, <2>2, LayersTyped
  <2> QED BY <1>1, <1>2, <2>1, <2>2, <2>3, KeyStep DEF RecallTypeOK
<1>4. CASE MoveTo(t, "storeKey")
  <2>1. "storeKey" \in Places
    BY DEF Places
  <2>2. /\ request' \in [Requests -> Request]
        /\ \A u \in Requests \ {t} : request'[u] = request[u]
        /\ request'[t].at = "storeKey" /\ request'[t].key = request[t].key
        /\ IsLayer(request'[t].v) /\ IsLayer(request'[t].l)
    BY <1>1, <1>4, <2>1, GoMoves
  <2>3. \A u \in Requests : IsLayer(request'[u].v) /\ IsLayer(request'[u].l)
    BY <1>1, <2>2, LayersTyped
  <2>4. \A k : InRemember(k)' = InRemember(k)
    BY <1>2, <2>2 DEF InRemember
  <2>5. \A u \in Requests : request'[u].at \in {"set", "embedKey", "storeKey"} => request'[u].key \in Keys
    BY <1>1, <1>2, <2>2 DEF KeysOK
  <2>6. KeyTextIsCurrent'
    <3>1. \A k \in Keys : kv[k] # None => kv[k] \in Requests
      BY <1>1 DEF RecallTypeOK
    <3>2. \A u \in Requests : request[u].at = "raised" => request'[u].at = "raised"
      BY <1>2, <2>2
    <3> QED BY <1>1, <1>2, <2>4, <3>1, <3>2 DEF KeysOK, KeyTextIsCurrent
  <2>7. KeysOK'
    BY <1>1, <1>2, <2>4, <2>5, <2>6 DEF KeysOK
  <2> QED BY <1>1, <1>2, <2>2, <2>3, <2>7, KeyStep DEF RecallTypeOK
<1> QED BY <1>2, <1>3, <1>4

LEMMA StoreKeyStep ==
  ASSUME RecallInv, NEW t \in Requests, StoreKey(t)
  PROVE  RecallInv'
<1>1. RecallTypeOK /\ KeysOK
  BY DEF RecallInv
<1>2. /\ request[t].at = "storeKey" /\ Finish(t, "done")
      /\ vec' = [vec EXCEPT ![request[t].key] = t]
      /\ UNCHANGED <<hist, dims, kv, lex, job, setting, query, client, closer, asked, late>>
  BY DEF StoreKey, At, IndexAs
<1>3. request[t].key \in Keys /\ t \in Entries /\ Entries \cap Keys = {}
  BY <1>1, <1>2, RecallConstants DEF KeysOK
<1>4. /\ vec' \in [Entries \cup Keys -> Entries \cup {None}]
      /\ vec'[request[t].key] = t
      /\ \A k \in Keys \ {request[t].key} : vec'[k] = vec[k]
      /\ \A e \in Entries : vec'[e] = vec[e]
  <2>1. vec \in [Entries \cup Keys -> Entries \cup {None}]
    BY <1>1 DEF RecallTypeOK
  <2> QED BY <1>2, <1>3, <2>1
<1>5. KeysOK'
  BY <1>1, <1>2, <1>4, LeavesKey
<1>6. /\ request' \in [Requests -> Request]
      /\ \A u \in Requests \ {t} : request'[u] = request[u]
      /\ request'[t].at = "done"
      /\ IsLayer(request'[t].v) /\ IsLayer(request'[t].l)
  BY <1>1, <1>2, FinishMoves
<1>7. \A u \in Requests : IsLayer(request'[u].v) /\ IsLayer(request'[u].l)
  BY <1>1, <1>6, LayersTyped
<1> QED BY <1>1, <1>2, <1>4, <1>5, <1>6, <1>7, KeyStep DEF RecallTypeOK

-----------------------------------------------------------------------------
(* Entries and their indexing. *)
LEMMA IndexedStep ==
  ASSUME RecallInv, NEW t \in Requests, Indexed(t)
  PROVE  RecallInv'
<1>1. RecallTypeOK /\ AppendedOK /\ StoredIsIndexed /\ DrainOK /\ KeysOK /\ AskedOK
  BY DEF RecallInv
<1>2. /\ request[t].at = "index" /\ job[t] \notin Running
      /\ IF job[t] = "done" THEN MoveTo(t, "scan") ELSE Finish(t, "raised")
      /\ UNCHANGED <<hist, dims, kv, vec, lex, job, setting, query, client, closer, asked, late>>
  BY DEF Indexed, At
<1>3. /\ request' \in [Requests -> Request]
      /\ \A u \in Requests \ {t} : request'[u] = request[u]
      /\ IsLayer(request'[t].v) /\ IsLayer(request'[t].l)
      /\ \/ job[t] = "done" /\ request'[t].at = "scan"
         \/ job[t] # "done" /\ request'[t].at = "raised"
  <2>1. "scan" \in Places
    BY DEF Places
  <2>2. CASE job[t] = "done"
    BY <1>1, <1>2, <2>1, <2>2, GoMoves
  <2>3. CASE job[t] # "done"
    BY <1>1, <1>2, <2>3, FinishMoves
  <2> QED BY <2>2, <2>3
<1>4. RecallTypeOK'
  <2>1. \A u \in Requests : IsLayer(request'[u].v) /\ IsLayer(request'[u].l)
    BY <1>1, <1>3, LayersTyped
  <2> QED BY <1>1, <1>2, <1>3, <2>1 DEF RecallTypeOK, IsLayer
<1>5. AppendedOK'
  BY <1>1, <1>2, <1>3 DEF AppendedOK, Stored
<1>6. StoredIsIndexed'
  <2> SUFFICES ASSUME NEW u \in Requests, u \in Stored
               PROVE  \/ vec[u] = u /\ (setting.lexical => u \in lex)
                      \/ job[u] \in Running /\ (setting.async \/ request'[u].at = "index")
                      \/ /\ job[u] \in {"failed", "cut"}
                         /\ setting.async \/ request'[u].at \in {"index", "raised"}
    BY <1>2 DEF StoredIsIndexed, Stored
  <2>1. CASE u = t
    BY <1>1, <1>2, <1>3, <2>1 DEF StoredIsIndexed
  <2>2. CASE u # t
    BY <1>1, <1>2, <1>3, <2>2 DEF StoredIsIndexed
  <2> QED BY <2>1, <2>2
<1>7. DrainOK'
  BY <1>1, <1>2 DEF DrainOK, DrainedBeforeClose
<1>8. KeysOK'
  <2>1. \A k : InRemember(k)' = InRemember(k)
    BY <1>2, <1>3 DEF InRemember
  <2>2. \A u \in Requests : request'[u].at \in {"set", "embedKey", "storeKey"} => request'[u].key \in Keys
    BY <1>1, <1>3 DEF KeysOK
  <2>3. KeyTextIsCurrent'
    <3>1. \A k \in Keys : kv[k] # None => kv[k] \in Requests
      BY <1>1 DEF RecallTypeOK
    <3>2. \A u \in Requests : request[u].at = "raised" => request'[u].at = "raised"
      BY <1>2, <1>3
    <3> QED BY <1>1, <1>2, <2>1, <3>1, <3>2 DEF KeysOK, KeyTextIsCurrent
  <2> QED BY <1>1, <1>2, <2>1, <2>2, <2>3 DEF KeysOK
<1>9. AskedOK'
  BY <1>1, <1>2 DEF AskedOK, Unannotated
<1> QED BY <1>4, <1>5, <1>6, <1>7, <1>8, <1>9 DEF RecallInv

LEMMA AppendEntryStep ==
  ASSUME RecallInv, NEW t \in Requests, AppendEntry(t)
  PROVE  RecallInv'
<1>1. RecallTypeOK /\ AppendedOK /\ StoredIsIndexed /\ DrainOK /\ KeysOK /\ AskedOK
  BY DEF RecallInv
<1>2. /\ request[t].at = "append"
      /\ hist' = Append(hist, t) /\ job' = [job EXCEPT ![t] = "embed"]
      /\ late' = [late EXCEPT !.flush = @ \cup (IF closer.at = "idle" THEN {} ELSE {t})]
      /\ UNCHANGED <<dims, kv, vec, lex, setting, query, client, closer, asked>>
  BY DEF AppendEntry, At
<1> DEFINE q == IF setting.async THEN "scan" ELSE "index"
           r == [request[t] EXCEPT !.at = q, !.fired = {}]
<1>3. /\ request' \in [Requests -> Request]
      /\ \A u \in Requests \ {t} : request'[u] = request[u]
      /\ request'[t].at = q /\ IsLayer(request'[t].v) /\ IsLayer(request'[t].l)
  <2>1. request[t] \in Request /\ request \in [Requests -> Request]
        /\ IsLayer(request[t].v) /\ IsLayer(request[t].l)
    BY <1>1, LayersTyped
  <2>2. q \in Places
    BY DEF Places
  <2>3. request' = [request EXCEPT ![t] = r]
    BY DEF AppendEntry
  <2> HIDE DEF q
  <2>4. r \in Request /\ r.at = q /\ r.v = request[t].v /\ r.l = request[t].l
    BY <2>1, <2>2 DEF Request
  <2> HIDE DEF r
  <2> QED BY <2>1, <2>3, <2>4
<1>4. q \in {"scan", "index"} /\ (q = "scan" <=> setting.async)
  OBVIOUS
<1> HIDE DEF q, r
<1>5. job \in [Requests -> Stages] /\ hist \in Seq(Entries) /\ IsInjective(hist)
      /\ t \in Entries /\ t \notin Stored /\ job[t] = "none"
  BY <1>1, <1>2, RecallConstants DEF RecallTypeOK, AppendedOK
<1>6. hist' \in Seq(Entries) /\ IsInjective(hist') /\ ToSet(hist') = Stored \cup {t}
  <2>1. Len(hist) \in Nat /\ \A n \in 1..Len(hist) : hist[n] \in Stored
    BY <1>5 DEF Stored, ToSet
  <2>2. /\ hist' \in Seq(Entries) /\ Len(hist') = Len(hist) + 1
        /\ hist'[Len(hist) + 1] = t
        /\ \A n \in 1..Len(hist) : hist'[n] = hist[n]
    BY <1>2, <1>5, AppendProperties
  <2>3. \A n \in 1..Len(hist') : n = Len(hist) + 1 \/ n \in 1..Len(hist)
    BY <2>1, <2>2
  <2>4. DOMAIN hist = 1..Len(hist) /\ DOMAIN hist' = 1..Len(hist')
    BY <1>5, <2>2
  <2>5. IsInjective(hist')
    BY <1>5, <2>1, <2>2, <2>3, <2>4 DEF IsInjective
  <2>6. ToSet(hist') = Stored \cup {t}
    <3>1. \A n \in 1..Len(hist) : n \in 1..Len(hist')
      BY <2>1, <2>2
    <3>2. Len(hist) + 1 \in 1..Len(hist')
      BY <2>1, <2>2
    <3> QED BY <2>2, <2>3, <2>4, <3>1, <3>2 DEF Stored, ToSet
  <2> QED BY <2>2, <2>5, <2>6
<1>7. /\ job' \in [Requests -> Stages] /\ job'[t] = "embed"
      /\ \A u \in Requests \ {t} : job'[u] = job[u]
  BY <1>2, <1>5 DEF Stages
<1>8. /\ late' \in [a4 : SUBSET Entries, flush : SUBSET Requests, keys : SUBSET Keys]
      /\ late'.a4 = late.a4 /\ late'.keys = late.keys /\ late.flush \subseteq late'.flush
      /\ closer.at # "idle" => t \in late'.flush
  BY <1>1, <1>2 DEF RecallTypeOK
<1>9. RecallTypeOK'
  <2>1. \A u \in Requests : IsLayer(request'[u].v) /\ IsLayer(request'[u].l)
    BY <1>1, <1>3, LayersTyped
  <2>2. \A u \in Requests : \A s \in {request'[u].v, request'[u].l} : IsInjective(s) /\ Len(s) <= K
    BY <2>1 DEF IsLayer
  <2>3. hist' \in Seq(Entries) /\ IsInjective(hist')
    BY <1>6
  <2>4. job' \in [Requests -> Stages] /\ request' \in [Requests -> Request]
        /\ late' \in [a4 : SUBSET Entries, flush : SUBSET Requests, keys : SUBSET Keys]
    BY <1>3, <1>7, <1>8
  <2>5. /\ dims' \in [Entries -> Dims] /\ kv' \in [Keys -> Requests \cup {None}]
        /\ vec' \in [Entries \cup Keys -> Entries \cup {None}] /\ lex' \subseteq Entries
        /\ setting' \in Settings /\ query' \in Relevance /\ client' \in {"open", "closed"}
        /\ closer' \in [at : {"idle", "flush", "embedding", "done"}, jobs : SUBSET Requests]
        /\ asked' \in [Requests -> SUBSET Entries]
    BY <1>1, <1>2 DEF RecallTypeOK
  <2> QED BY <2>2, <2>3, <2>4, <2>5 DEF RecallTypeOK
<1>10. AppendedOK'
  BY <1>1, <1>2, <1>3, <1>4, <1>6, <1>7 DEF AppendedOK, Stored
<1>11. StoredIsIndexed'
  <2> SUFFICES ASSUME NEW u \in Requests, u \in Stored \cup {t}
               PROVE  \/ vec[u] = u /\ (setting.lexical => u \in lex)
                      \/ job'[u] \in Running /\ (setting.async \/ request'[u].at = "index")
                      \/ /\ job'[u] \in {"failed", "cut"}
                         /\ setting.async \/ request'[u].at \in {"index", "raised"}
    BY <1>2, <1>6 DEF StoredIsIndexed, Stored
  <2>1. CASE u = t
    BY <1>3, <1>4, <1>7, <2>1 DEF Running
  <2>2. CASE u # t
    BY <1>1, <1>3, <1>7, <2>2 DEF StoredIsIndexed
  <2> QED BY <2>1, <2>2
<1>12. DrainOK'
  BY <1>1, <1>2, <1>7, <1>8 DEF DrainOK, DrainedBeforeClose
<1>13. KeysOK'
  <2>1. \A k : InRemember(k)' = InRemember(k)
    BY <1>2, <1>3, <1>4 DEF InRemember
  <2>2. \A u \in Requests : request'[u].at \in {"set", "embedKey", "storeKey"} => request'[u].key \in Keys
    BY <1>1, <1>3, <1>4 DEF KeysOK
  <2>3. KeyTextIsCurrent'
    <3>1. \A k \in Keys : kv[k] # None => kv[k] \in Requests
      BY <1>1 DEF RecallTypeOK
    <3>2. \A u \in Requests : request[u].at = "raised" => request'[u].at = "raised"
      BY <1>2, <1>3
    <3> QED BY <1>1, <1>2, <1>8, <2>1, <3>1, <3>2 DEF KeysOK, KeyTextIsCurrent
  <2> QED BY <1>1, <1>2, <1>8, <2>1, <2>2, <2>3 DEF KeysOK
<1>14. AskedOK'
  BY <1>1, <1>2, <1>8 DEF AskedOK, Unannotated
<1> QED BY <1>9, <1>10, <1>11, <1>12, <1>13, <1>14 DEF RecallInv

LEMMA IndexJobStep ==
  ASSUME RecallInv, NEW e \in Requests, IndexJob(e)
  PROVE  RecallInv'
<1>1. RecallTypeOK /\ AppendedOK /\ StoredIsIndexed /\ DrainOK /\ KeysOK /\ AskedOK
  BY DEF RecallInv
<1>2. UNCHANGED <<hist, dims, kv, setting, query, client, closer, request, asked, late>>
  BY DEF IndexJob
<1>3. e \in Entries /\ Entries \cap Keys = {} /\ Requests \subseteq Entries
  BY RecallConstants
<1>4. /\ job \in [Requests -> Stages] /\ lex \subseteq Entries
      /\ vec \in [Entries \cup Keys -> Entries \cup {None}]
      /\ setting \in Settings /\ setting.lexical \in BOOLEAN
  BY <1>1, RecallAssumption DEF RecallTypeOK
<1>5. /\ job' \in [Requests -> Stages] /\ lex' \subseteq Entries /\ lex \subseteq lex'
      /\ vec' \in [Entries \cup Keys -> Entries \cup {None}]
      /\ \A i \in Entries \cup Keys : i # e => vec'[i] = vec[i]
      /\ \A u \in Requests \ {e} : job'[u] = job[u]
      /\ vec'[e] = vec[e] \/ vec'[e] = e
      /\ job[e] \in Running /\ job'[e] # "none"
      /\ job'[e] = "lexical" => vec'[e] = e
      /\ \/ job'[e] \in Running
         \/ job'[e] = "done" /\ vec'[e] = e /\ (setting.lexical => e \in lex')
         \/ job'[e] \in {"failed", "cut"} /\ (job'[e] = "cut" => client # "open")
  <2>1. CASE job[e] = "embed" /\ job' = [job EXCEPT ![e] = "store"] /\ UNCHANGED <<vec, lex>>
    BY <1>3, <1>4, <2>1 DEF Stages, Running
  <2>2. CASE job[e] = "store" /\ job' = [job EXCEPT ![e] = AfterStore]
             /\ vec' = [vec EXCEPT ![e] = e] /\ UNCHANGED lex
    BY <1>3, <1>4, <2>2 DEF Stages, Running, AfterStore
  <2>3. CASE job[e] = "lexical" /\ job' = [job EXCEPT ![e] = "done"]
             /\ lex' = lex \cup {e} /\ UNCHANGED vec
    <3>1. vec[e] = e
      BY <1>1, <2>3 DEF AppendedOK
    <3> QED BY <1>3, <1>4, <2>3, <3>1 DEF Stages, Running
  <2>4. CASE job[e] = "embed" /\ UNCHANGED <<vec, lex>>
             /\ job' = [job EXCEPT ![e] = IF client = "open" THEN "failed" ELSE "cut"]
    BY <1>3, <1>4, <2>4 DEF Stages, Running
  <2> QED BY <2>1, <2>2, <2>3, <2>4 DEF IndexJob, IndexAs
<1>6. RecallTypeOK'
  BY <1>1, <1>2, <1>5 DEF RecallTypeOK
<1>7. AppendedOK'
  <2> SUFFICES ASSUME NEW u \in Requests
               PROVE  /\ job'[u] = "none" => u \notin Stored
                      /\ request[u].at \in {"idle", "push", "append"} => job'[u] = "none"
                      /\ job'[u] = "lexical" => vec'[u] = u
    BY <1>2 DEF AppendedOK, Stored
  <2>1. CASE u = e
    BY <1>1, <1>5, <2>1 DEF AppendedOK, Running
  <2>2. CASE u # e
    BY <1>1, <1>3, <1>5, <2>2 DEF AppendedOK
  <2> QED BY <2>1, <2>2
<1>8. StoredIsIndexed'
  <2> SUFFICES ASSUME NEW u \in Requests, u \in Stored
               PROVE  \/ vec'[u] = u /\ (setting.lexical => u \in lex')
                      \/ job'[u] \in Running /\ (setting.async \/ request[u].at = "index")
                      \/ /\ job'[u] \in {"failed", "cut"}
                         /\ setting.async \/ request[u].at \in {"index", "raised"}
    BY <1>2 DEF StoredIsIndexed, Stored
  <2>1. CASE u = e
    BY <1>1, <1>5, <2>1 DEF StoredIsIndexed, Running
  <2>2. CASE u # e
    BY <1>1, <1>3, <1>5, <2>2 DEF StoredIsIndexed
  <2> QED BY <2>1, <2>2
<1>9. DrainOK'
  <2>1. client \in {"open", "closed"}
    BY <1>1 DEF RecallTypeOK
  <2>2. \A u \in Requests : job'[u] \in Running => job[u] \in Running
    BY <1>5
  <2>3. \A u \in Requests : job'[u] = "cut" => job[u] = "cut" \/ (u = e /\ client = "closed")
    <3>1. job'[e] = "cut" => client = "closed"
      BY <1>5, <2>1 DEF Running
    <3>2. \A u \in Requests : u # e => job'[u] = job[u]
      BY <1>5
    <3> QED BY <3>1, <3>2
  <2>4. DrainedBeforeClose'
    BY <1>1, <1>2, <1>5, <2>3 DEF DrainOK, DrainedBeforeClose
  <2> QED BY <1>1, <1>2, <2>2, <2>4 DEF DrainOK
<1>10. KeysOK'
  <2>1. \A k \in Keys : vec'[k] = vec[k]
    BY <1>3, <1>5
  <2>2. \A k : InRemember(k)' = InRemember(k)
    BY <1>2 DEF InRemember
  <2>3. KeyTextIsCurrent'
    BY <1>1, <1>2, <2>1, <2>2 DEF KeysOK, KeyTextIsCurrent
  <2> QED BY <1>1, <1>2, <2>2, <2>3 DEF KeysOK
<1>11. AskedOK'
  BY <1>1, <1>2 DEF AskedOK, Unannotated
<1> QED BY <1>6, <1>7, <1>8, <1>9, <1>10, <1>11 DEF RecallInv

LEMMA CloseStep ==
  ASSUME RecallInv, Close
  PROVE  RecallInv'
<1>1. RecallTypeOK /\ AppendedOK /\ StoredIsIndexed /\ DrainOK /\ KeysOK /\ AskedOK
  BY DEF RecallInv
<1>2. UNCHANGED <<hist, dims, kv, vec, lex, job, setting, query, request, asked, late>>
  BY DEF Close
<1>3. closer \in [at : {"idle", "flush", "embedding", "done"}, jobs : SUBSET Requests]
      /\ client \in {"open", "closed"}
  BY <1>1 DEF RecallTypeOK
<1>4. /\ client' \in {"open", "closed"}
      /\ closer' \in [at : {"idle", "flush", "embedding", "done"}, jobs : SUBSET Requests]
      /\ client' = "closed" => closer'.at = "done"
      /\ \A t \in Requests : (setting.async /\ job[t] \in Running) =>
           t \in late.flush \/ (closer'.at = "flush" /\ t \in closer'.jobs)
  <2>1. CASE /\ closer.at = "idle" /\ UNCHANGED client
             /\ closer' = [at |-> "flush", jobs |-> IF setting.async THEN InFlight ELSE {}]
    BY <1>1, <1>3, <2>1 DEF DrainOK, InFlight
  <2>2. CASE /\ closer.at = "flush" /\ Drained
             /\ closer' = [at |-> "embedding", jobs |-> {}] /\ UNCHANGED client
    BY <1>1, <1>3, <2>2 DEF DrainOK, Drained
  <2>3. CASE /\ closer.at = "embedding" /\ client' = "closed"
             /\ closer' = [closer EXCEPT !.at = "done"]
    BY <1>1, <1>3, <2>3 DEF DrainOK
  <2> QED BY <2>1, <2>2, <2>3 DEF Close
<1>5. RecallTypeOK'
  BY <1>1, <1>2, <1>4 DEF RecallTypeOK
<1>6. AppendedOK'
  BY <1>1, <1>2 DEF AppendedOK, Stored
<1>7. StoredIsIndexed'
  BY <1>1, <1>2 DEF StoredIsIndexed, Stored
<1>8. DrainOK'
  BY <1>1, <1>2, <1>4 DEF DrainOK, DrainedBeforeClose
<1>9. KeysOK'
  BY <1>1, <1>2 DEF KeysOK, KeyTextIsCurrent, InRemember
<1>10. AskedOK'
  BY <1>1, <1>2 DEF AskedOK, Unannotated
<1> QED BY <1>5, <1>6, <1>7, <1>8, <1>9, <1>10 DEF RecallInv

-----------------------------------------------------------------------------
LEMMA RecallStarts == RecallInit => RecallInv
<1> SUFFICES ASSUME RecallInit PROVE RecallInv
  OBVIOUS
<1>1. /\ hist = SetToSeq(Old) /\ kv = [k \in Keys |-> None]
      /\ dims = [e \in Entries |->
                   IF e \in Old THEN [NoDims EXCEPT !.mode = "remind", !.by = "user"] ELSE NoDims]
      /\ setting \in Settings /\ query \in Relevance
      /\ vec = [i \in Entries \cup Keys |-> IF i \in Old THEN i ELSE None]
      /\ lex = IF setting.lexical THEN Old ELSE {}
      /\ job = [t \in Requests |-> "none"] /\ client = "open"
      /\ closer = [at |-> "idle", jobs |-> {}]
      /\ request = [t \in Requests |-> NoRequest] /\ asked = [t \in Requests |-> {}]
      /\ late = [a4 |-> {}, flush |-> {}, keys |-> {}]
  BY DEF RecallInit
<1>2. hist \in Seq(Old) /\ IsInjective(hist)
  <2>1. Cardinality(Old) \in Nat /\ ExistsBijection(1..Cardinality(Old), Old)
    BY RecallConstants, FS_CardinalityType
  <2>2. \E f \in [1..Cardinality(Old) -> Old] : IsInjective(f)
    BY <2>1 DEF ExistsBijection, Bijection, Injection
  <2>3. hist \in [1..Cardinality(Old) -> Old] /\ IsInjective(hist)
    BY <1>1, <2>2 DEF SetToSeq
  <2>4. Seq(Old) = UNION {[1..n -> Old] : n \in Nat}
    BY SeqDef
  <2> QED BY <2>1, <2>3, <2>4
<1>3. Stored \subseteq Old
  BY <1>2 DEF Stored, ToSet
<1>4. /\ Old \subseteq Entries /\ Old \cap Requests = {} /\ Entries \cap Keys = {}
      /\ Requests \subseteq Entries
  BY RecallConstants
<1>5. RecallTypeOK
  <2>1. NoDims \in Dims /\ [NoDims EXCEPT !.mode = "remind", !.by = "user"] \in Dims
    BY DEF NoDims, Dims, Modes
  <2>2. dims \in [Entries -> Dims]
    BY <1>1, <2>1
  <2>3. hist \in Seq(Entries)
    BY <1>2, <1>4
  <2>4. /\ kv \in [Keys -> Requests \cup {None}]
        /\ vec \in [Entries \cup Keys -> Entries \cup {None}] /\ lex \subseteq Entries
    BY <1>1, <1>4
  <2>5. job \in [Requests -> Stages] /\ client \in {"open", "closed"}
    BY <1>1 DEF Stages
  <2>6. /\ closer \in [at : {"idle", "flush", "embedding", "done"}, jobs : SUBSET Requests]
        /\ asked \in [Requests -> SUBSET Entries]
        /\ late \in [a4 : SUBSET Entries, flush : SUBSET Requests, keys : SUBSET Keys]
    BY <1>1
  <2>7. request \in [Requests -> Request]
    BY <1>1, NoRequestType
  <2>8. \A t \in Requests : \A s \in {request[t].v, request[t].l} : IsInjective(s) /\ Len(s) <= K
    BY <1>1, NoRequestType, EmptyLayer DEF IsLayer
  <2> QED BY <1>1, <1>2, <2>2, <2>3, <2>4, <2>5, <2>6, <2>7, <2>8 DEF RecallTypeOK
<1>6. AppendedOK
  BY <1>1, <1>3, <1>4 DEF AppendedOK
<1>7. StoredIsIndexed
  BY <1>3, <1>4 DEF StoredIsIndexed
<1>8. DrainOK
  BY <1>1 DEF DrainOK, DrainedBeforeClose
<1>9. KeysOK
  BY <1>1, NoRequestType DEF KeysOK, KeyTextIsCurrent, InRemember
<1>10. AskedOK
  BY <1>1 DEF AskedOK
<1> QED BY <1>5, <1>6, <1>7, <1>8, <1>9, <1>10 DEF RecallInv

LEMMA RecallRests ==
  ASSUME RecallInv, UNCHANGED recallVars
  PROVE  RecallInv'
<1>1. RecallTypeOK /\ AskedOK
  BY DEF RecallInv
<1>2. UNCHANGED <<hist, dims, kv, vec, lex, job, setting, query, client, closer, request, asked, late>>
  BY DEF recallVars
<1>3. Quiet
  BY <1>1, <1>2, MovesQuietly
<1>4. AskedOK'
  BY <1>1, <1>2 DEF AskedOK, Unannotated
<1> QED BY <1>1, <1>2, <1>3, <1>4, QuietStep DEF RecallTypeOK

LEMMA RecallSteps == RecallInv /\ [RecallNext]_recallVars => RecallInv'
<1> SUFFICES ASSUME RecallInv, [RecallNext]_recallVars PROVE RecallInv'
  OBVIOUS
<1>1. ASSUME NEW t \in Requests, Step(t) PROVE RecallInv'
  <2>1. CASE PushTurn(t) \/ PreviewPush(t)
    BY <2>1, PushStep
  <2>2. CASE AppendEntry(t)
    BY <2>2, AppendEntryStep
  <2>3. CASE Indexed(t)
    BY <2>3, IndexedStep
  <2>4. CASE ScanTurn(t) \/ Curate(t)
    BY <2>4, OfferStep
  <2>5. CASE Write(t)
    BY <2>5, WriteStep
  <2>6. CASE UserAnnotates(t)
    BY <2>6, UserStep
  <2>7. CASE Forget(t)
    BY <2>7, ForgetStep
  <2>8. CASE SetKey(t)
    BY <2>8, SetKeyStep
  <2>9. CASE EmbedKey(t)
    BY <2>9, EmbedKeyStep
  <2>10. CASE StoreKey(t)
    BY <2>10, StoreKeyStep
  <2>11. CASE Lookup(t)
    BY <2>11, LookupStep
  <2>12. CASE EmbedQuery(t) \/ Ask(t) \/ AnswerQuery(t)
    BY <2>12, QueryStep
  <2>13. CASE SearchVectors(t) \/ SearchLexical(t)
    BY <2>13, SearchStep
  <2>14. CASE SkillReinforces(t) \/ ActivateReinforces(t)
    BY <2>14, ReinforceStep
  <2> QED BY <1>1, <2>1, <2>2, <2>3, <2>4, <2>5, <2>6, <2>7, <2>8, <2>9, <2>10, <2>11, <2>12,
             <2>13, <2>14 DEF Step
<1>2. ASSUME NEW t \in Requests, Begin(t) PROVE RecallInv'
  BY <1>2, BeginStep
<1>3. ASSUME NEW t \in Requests, IndexJob(t) PROVE RecallInv'
  BY <1>3, IndexJobStep
<1>4. ASSUME NEW e \in Old, Tick(e) PROVE RecallInv'
  BY <1>4, TickStep
<1>5. CASE Close
  BY <1>5, CloseStep
<1>6. CASE UNCHANGED recallVars
  BY <1>6, RecallRests
<1> QED BY <1>1, <1>2, <1>3, <1>4, <1>5, <1>6 DEF RecallNext

(* The invariant holds of every state, for every value of the constants. *)
THEOREM RecallInvariant == RecallSpec => []RecallInv
BY RecallStarts, RecallSteps, PTL DEF RecallSpec

(* What a recall found is returned the best first. *)
LEMMA RecallRanks == RecallTypeOK => BestFirst
<1> SUFFICES ASSUME RecallTypeOK, NEW t \in Requests
             PROVE  LET h == Hits(t)  v == request[t].v  l == request[t].l IN
                    /\ request[t].kv => h # <<>> /\ Head(h) = "kv"
                    /\ \A b \in ToSet(h) \ {"kv"}, a \in Found(v, l) :
                         a # b /\ Above(v, l, a, b) => a \in ToSet(h) /\ Rank(h, a) < Rank(h, b)
  BY DEF BestFirst
<1> DEFINE h == Hits(t)
           v == request[t].v
           l == request[t].l
<1>1. IsLayer(v) /\ IsLayer(l) /\ request[t].kv \in BOOLEAN
  BY LayersTyped DEF Request
<1>2. h = Top((IF request[t].kv THEN <<"kv">> ELSE <<>>) \o Fused(v, l))
  BY DEF Hits
<1> HIDE DEF h, v, l
<1>3. /\ request[t].kv => h # <<>> /\ Head(h) = "kv"
      /\ \A b \in ToSet(h) \ {"kv"}, a \in Found(v, l) :
           Above(v, l, a, b) => a \in ToSet(h) /\ Rank(h, a) < Rank(h, b)
  BY <1>1, <1>2, HitsRanked
<1> QED BY <1>3 DEF h, v, l

(* What one stored can be found, whatever the requests, the entries and the
   keys are: an entry is in every index unless its indexing is under way or
   failed, background work is drained before the client it needs is closed, a
   key is indexed by its last value, and the best hits come first. *)
THEOREM RecallStaysSound == RecallSpec => []RecallIsSound
<1>1. RecallInv => RecallIsSound
  BY RecallRanks DEF RecallInv, DrainOK, KeysOK, RecallIsSound
<1> QED BY <1>1, RecallInvariant, PTL

(* A4 only writes what it was asked about, and it was asked about nothing a
   user had annotated, unless the user did so while A4 was being asked or left
   it looking untouched. *)
THEOREM AnnotationsStay == RecallSpec => AnnotationsKept
<1> DEFINE Kept == \A e \in Entries :
                     dims[e].by = "user" /\ dims'[e].by = "a4" => e \in late.a4 \/ Unannotated(e)
<1>1. RecallInv /\ [RecallNext]_recallVars => [Kept]_recallVars
  <2> SUFFICES ASSUME RecallInv, RecallNext PROVE Kept
    OBVIOUS
  <2>1. RecallTypeOK /\ AskedOK
    BY DEF RecallInv
  <2>2. CASE \E t \in Requests : Write(t)
    <3>1. PICK t \in Requests : Write(t)
      BY <2>2
    <3>2. CASE \E e \in asked[t], new \in Offers : dims' = Annotated(e, new, "a4")
      <4>1. PICK e \in asked[t], new \in Offers : dims' = Annotated(e, new, "a4")
        BY <3>2
      <4>2. e \in Entries
        BY <2>1, <4>1 DEF RecallTypeOK
      <4>3. \A x \in Entries \ {e} : dims'[x] = dims[x]
        BY <2>1, <4>1, <4>2, AnnotatedDims
      <4> QED BY <2>1, <4>1, <4>3 DEF AskedOK
    <3>3. CASE UNCHANGED dims
      BY <3>3
    <3> QED BY <3>1, <3>2, <3>3 DEF Write
  <2>3. CASE \E t \in Requests : UserAnnotates(t)
    <3>1. PICK e \in Entries, new \in Offers : dims' = Annotated(e, new, "user")
      BY <2>3 DEF UserAnnotates
    <3>2. /\ \A x \in Entries \ {e} : dims'[x] = dims[x]
          /\ dims'[e].by = "user" \/ dims' = dims
      BY <2>1, <3>1, AnnotatedDims
    <3> QED BY <3>2
  <2>4. CASE \E ids : dims' = Reinforced(ids)
    BY <2>1, <2>4, ReinforcedDims
  <2>5. CASE \E e \in Old : Tick(e)
    <3>1. PICK e \in Old : dims' = [dims EXCEPT ![e] = [dims[e] EXCEPT !.cooling = FALSE]]
      BY <2>5 DEF Tick
    <3> DEFINE d == [dims[e] EXCEPT !.cooling = FALSE]
    <3>2. e \in Entries /\ dims \in [Entries -> Dims] /\ dims[e] \in Dims
      BY <2>1, <3>1, RecallConstants DEF RecallTypeOK
    <3>3. d.by = dims[e].by
      BY <3>2 DEF Dims
    <3> HIDE DEF d
    <3>4. dims' = [dims EXCEPT ![e] = d]
      BY <3>1 DEF d
    <3>5. \A x \in Entries : dims'[x].by = dims[x].by
      BY <3>2, <3>3, <3>4
    <3> QED BY <3>5
  <2>6. CASE UNCHANGED dims
    BY <2>6
  <2>7. ASSUME NEW t \in Requests, Step(t)
        PROVE  \/ Write(t) \/ UserAnnotates(t) \/ (\E ids : dims' = Reinforced(ids))
               \/ UNCHANGED dims
    <3>1. CASE \/ PushTurn(t) \/ PreviewPush(t) \/ AppendEntry(t) \/ Indexed(t) \/ ScanTurn(t)
               \/ Curate(t) \/ Forget(t)
      BY <3>1 DEF PushTurn, PreviewPush, AppendEntry, Indexed, ScanTurn, Curate, Forget, Offer
    <3>2. CASE \/ SetKey(t) \/ EmbedKey(t) \/ StoreKey(t) \/ Lookup(t) \/ EmbedQuery(t)
               \/ SearchVectors(t) \/ SearchLexical(t) \/ Ask(t) \/ AnswerQuery(t)
      BY <3>2 DEF SetKey, EmbedKey, StoreKey, Lookup, EmbedQuery, SearchVectors, SearchLexical,
                  Ask, AnswerQuery
    <3>3. CASE SkillReinforces(t) \/ ActivateReinforces(t)
      BY <3>3 DEF SkillReinforces, ActivateReinforces
    <3> QED BY <2>7, <3>1, <3>2, <3>3 DEF Step
  <2>8. CASE Close \/ (\E t \in Requests : Begin(t) \/ IndexJob(t))
    BY <2>6, <2>8 DEF Close, Begin, IndexJob
  <2> QED BY <2>2, <2>3, <2>4, <2>5, <2>6, <2>7, <2>8 DEF RecallNext
<1>2. RecallSpec => []RecallInv /\ [][RecallNext]_recallVars
  BY RecallInvariant, PTL DEF RecallSpec
<1> QED BY <1>1, <1>2, PTL DEF AnnotationsKept
===============================================================================
