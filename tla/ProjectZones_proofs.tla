------------------------- MODULE ProjectZones_proofs -------------------------
(***************************************************************************)
(* For any number of requests, projects, ids and model clients: a project  *)
(* holds what its requests made of it, a listing has what was registered   *)
(* all the time, and no connection of a closed client is left or used.     *)
(***************************************************************************)
EXTENDS ProjectZones, SequenceTheorems, TLAPS

Places == {"idle", "lock", "write", "read", "model", "put", "set", "keys", "delete", "pop",
           "register", "list", "listing", "done"}

RequestRecord ==
  [op : {"none"} \cup UNION {Ops[u] : u \in Tasks}, id : Ids, file : Files \cup {None},
   obj : Tasks \cup {None}, at : Places, saw : Metas, got : SUBSET Ids, must : SUBSET Names,
   left : SUBSET (Names \cup Tasks \cup {MetaKey})]

(* The model client: while it is being closed it stays the one in use. *)
ClientOK ==
  /\ http <= made
  /\ closing # 0 => http = closing /\ open = {}
  /\ closing = 0 => open = IF http = 0 THEN {} ELSE {http}
  /\ \A c \in Callers : req[c].at = "sleep" => req[c].tries < Tries

(* What a request may be where it is. *)
PlaceOK(r) ==
  /\ r.at \in {"lock", "write"} => r.op \in Edits
  /\ r.at \in {"read", "model"} => r.op \in {"infer", "goals"}
  /\ r.at = "put" => r.op = "infer"
  /\ r.at = "set" => r.op = "remember"
  /\ r.at \in {"keys", "delete", "pop"} => r.op = "clear"
  /\ r.at = "register" => r.op = "register"
  /\ r.at \in {"list", "listing"} <=> r.op = "list" /\ r.at \notin {"idle", "done"}
  /\ r.op \in {"addFile", "removeFile"} /\ r.at # "done" => r.file \in Files
  /\ r.at \notin {"idle", "done", "list", "listing"} => r.obj \in Tasks
  /\ r.at = "listing" => r.left \subseteq Names

PlacesOK == \A t \in Tasks : PlaceOK(task[t])

Injective(q) == \A i, j \in DOMAIN q : q[i] = q[j] => i = j

(* The lock of a zone's object: its queue is of the edits that wait for it,
   and the one that writes is its head. *)
LocksOK ==
  /\ \A o \in Tasks : Injective(metaLock[o])
  /\ \A o, t \in Tasks :
       t \in ToSet(metaLock[o]) <=> task[t].at \in {"lock", "write"} /\ task[t].obj = o
  /\ \A t \in Tasks : task[t].at = "write" => Holds(t)

(* A listing: what it must have is registered still, and found or to be found. *)
Lists(r, n) == \E i \in r.got : Safe[i] = n

ListOK(r) ==
  /\ r.at = "listing" => \A n \in r.must : reg[n] # None /\ (n \in r.left \/ Lists(r, n))
  /\ r.at = "done" /\ r.op = "list" => \A n \in r.must : Lists(r, n)

ListsOK ==
  /\ \A n \in Names : reg[n] # None => Safe[reg[n]] = n
  /\ \A t \in Tasks : ListOK(task[t])

(* The project under the name n. *)
Empty == [meta |-> NoMeta, notes |-> {}]

True(n) == Read(meta[n]) = ideal[n].meta /\ notes[n] = ideal[n].notes

ActiveOK(n, t) ==
  /\ task[t].obj = zone[n]
  /\ task[t].op = "clear" => Active(n) = {t}
  /\ task[t].at = "write" => task[t].saw = Read(meta[n])
  /\ task[t].at = "delete" => Keys(n) \subseteq task[t].left /\ ideal[n] = Empty
  /\ task[t].at = "pop" => Keys(n) = {} /\ ideal[n] = Empty

ZoneOK(n) ==
  n \notin raced =>
    /\ \A t \in Active(n) : ActiveOK(n, t)
    /\ (\A t \in Active(n) : task[t].op # "clear") => True(n)

ZonesInv ==
  TypeOK /\ ClientOK /\ PlacesOK /\ LocksOK /\ ListsOK /\ \A n \in Names : ZoneOK(n)

-----------------------------------------------------------------------------
(* The model client. *)
ClientInv == ClientTypeOK /\ ClientOK

LEMMA CompleteKeeps ==
  ASSUME ClientInv, NEW c \in Callers, Complete(c)
  PROVE  ClientInv'
<1>1. /\ http \in Nat /\ made \in Nat /\ closing \in Nat /\ MaxClients \in Nat /\ Tries \in Nat /\ Tries # 0
      /\ made <= MaxClients /\ closing <= made /\ open \subseteq 1..made /\ http <= made
  BY ClientAssumption DEF ClientInv, ClientTypeOK, ClientOK
<1>2. closing' = closing
  BY DEF Complete
<1>3. /\ http' \in 0..MaxClients /\ made' \in 0..MaxClients /\ open' \subseteq 1..made'
      /\ closing \in 0..made' /\ http' <= made'
      /\ closing # 0 => http' = closing /\ open' = {}
      /\ closing = 0 => open' = IF http' = 0 THEN {} ELSE {http'}
  <2>1. CASE http # 0
    <3>1. http' = http /\ made' = made /\ open' = open
      BY <2>1 DEF Complete
    <3> QED  BY <1>1, <3>1 DEF ClientInv, ClientOK
  <2>2. CASE http = 0
    <3>1. http' = made + 1 /\ made' = made + 1 /\ open' = open \cup {made + 1} /\ made < MaxClients
      BY <2>2 DEF Complete
    <3>2. closing = 0 /\ open = {}
      BY <2>2 DEF ClientInv, ClientOK
    <3> QED  BY <1>1, <3>1, <3>2
  <2> QED  BY <2>1, <2>2
<1> DEFINE new == [at |-> "post", tries |-> 1, by |-> http']
<1>4. new \in [at : {"none", "post", "sleep", "ok", "failed"}, tries : 0..Tries, by : 0..MaxClients]
  BY <1>1, <1>3
<1>5. new.at = "post" /\ req' = [req EXCEPT ![c] = new]
  BY DEF Complete
<1> HIDE DEF new
<1>6. req' \in [Callers -> [at : {"none", "post", "sleep", "ok", "failed"},
                            tries : 0..Tries, by : 0..MaxClients]]
  BY <1>4, <1>5 DEF ClientInv, ClientTypeOK
<1>7. \A d \in Callers : req'[d].at = "sleep" => req'[d].tries < Tries
  BY <1>5 DEF ClientInv, ClientTypeOK, ClientOK
<1> QED  BY <1>2, <1>3, <1>6, <1>7 DEF ClientInv, ClientTypeOK, ClientOK

LEMMA ServeKeeps ==
  ASSUME ClientInv, NEW c \in Callers, Serve(c)
  PROVE  ClientInv'
<1>1. req[c] \in [at : {"none", "post", "sleep", "ok", "failed"}, tries : 0..Tries, by : 0..MaxClients]
  BY DEF ClientInv, ClientTypeOK
<1>2. Tries \in Nat
  BY ClientAssumption
<1>3. \E new \in [at : {"none", "post", "sleep", "ok", "failed"}, tries : 0..Tries, by : 0..MaxClients] :
        req' = [req EXCEPT ![c] = new] /\ (new.at = "sleep" => new.tries < Tries)
  <2>1. ASSUME NEW what \in {"ok", "failed", "sleep"}, Set(c, what), what = "sleep" => ~Spent(c)
        PROVE  \E new \in [at : {"none", "post", "sleep", "ok", "failed"}, tries : 0..Tries, by : 0..MaxClients] :
                 req' = [req EXCEPT ![c] = new] /\ (new.at = "sleep" => new.tries < Tries)
    <3> DEFINE new == [req[c] EXCEPT !.at = what]
    <3>1. /\ new \in [at : {"none", "post", "sleep", "ok", "failed"}, tries : 0..Tries, by : 0..MaxClients]
          /\ new.at = what /\ new.tries = req[c].tries
      BY <1>1
    <3>2. req' = [req EXCEPT ![c] = new]
      BY <2>1 DEF Set
    <3>3. req[c].tries \in 0..Tries
      BY <1>1
    <3>4. what = "sleep" => req[c].tries < Tries
      BY <1>2, <2>1, <3>3 DEF Spent
    <3> HIDE DEF new
    <3> QED  BY <3>1, <3>2, <3>4
  <2>2. CASE Again(c)
    <3> DEFINE new == [req[c] EXCEPT !.at = "post", !.tries = @ + 1]
    <3>1. req[c].tries \in 0..Tries /\ req[c].tries < Tries
      BY <1>1, <2>2 DEF Again, ClientInv, ClientOK
    <3>2. req[c].tries + 1 \in 0..Tries
      BY <1>2, <3>1
    <3>3. /\ new \in [at : {"none", "post", "sleep", "ok", "failed"}, tries : 0..Tries, by : 0..MaxClients]
          /\ new.at = "post"
      BY <1>1, <3>2
    <3>4. req' = [req EXCEPT ![c] = new]
      BY <1>1, <2>2 DEF Again
    <3> HIDE DEF new
    <3> QED  BY <3>3, <3>4
  <2>3. CASE Posted(c)
    BY <2>1, <2>3 DEF Posted
  <2> QED  BY <2>2, <2>3 DEF Serve
<1>4. http' = http /\ made' = made /\ open' = open /\ closing' = closing
  BY DEF Serve, Posted, Again, Set
<1>5. PICK new \in [at : {"none", "post", "sleep", "ok", "failed"}, tries : 0..Tries, by : 0..MaxClients] :
        req' = [req EXCEPT ![c] = new] /\ (new.at = "sleep" => new.tries < Tries)
  BY <1>3
<1>6. req' \in [Callers -> [at : {"none", "post", "sleep", "ok", "failed"},
                            tries : 0..Tries, by : 0..MaxClients]]
  BY <1>5 DEF ClientInv, ClientTypeOK
<1>7. \A d \in Callers : req'[d].at = "sleep" => req'[d].tries < Tries
  BY <1>5 DEF ClientInv, ClientTypeOK, ClientOK
<1> QED  BY <1>4, <1>6, <1>7 DEF ClientInv, ClientTypeOK, ClientOK

LEMMA CloseKeeps ==
  ASSUME ClientInv, Close \/ Closed
  PROVE  ClientInv'
<1>1. /\ http \in Nat /\ made \in Nat /\ closing \in Nat /\ MaxClients \in Nat
      /\ made <= MaxClients /\ closing <= made /\ open \subseteq 1..made /\ http <= made
  BY ClientAssumption DEF ClientInv, ClientTypeOK, ClientOK
<1>2. CASE Close
  <2>1. /\ closing = 0 /\ http # 0 /\ open' = open \ {http} /\ closing' = http
        /\ http' = http /\ made' = made /\ req' = req
    BY <1>2 DEF Close
  <2>2. open' = {}
    BY <2>1 DEF ClientInv, ClientOK
  <2> QED  BY <1>1, <2>1, <2>2 DEF ClientInv, ClientTypeOK, ClientOK
<1>3. CASE Closed
  <2>1. /\ closing # 0 /\ http' = 0 /\ closing' = 0 /\ made' = made /\ open' = open /\ req' = req
    BY <1>3 DEF Closed, ForgottenClient
  <2>2. open = {}
    BY <2>1 DEF ClientInv, ClientOK
  <2> QED  BY <1>1, <2>1, <2>2 DEF ClientInv, ClientTypeOK, ClientOK
<1> QED  BY <1>2, <1>3

LEMMA ClientSame ==
  ASSUME ClientInv, UNCHANGED hvars
  PROVE  ClientInv'
BY DEF ClientInv, ClientTypeOK, ClientOK, hvars

-----------------------------------------------------------------------------
(* What a request's step leaves of the others, and of the projects it is not
   about. *)
Alike(u) ==
  /\ task'[u].op = task[u].op /\ task'[u].at = task[u].at /\ task'[u].id = task[u].id
  /\ task'[u].obj = task[u].obj /\ task'[u].saw = task[u].saw /\ task'[u].left = task[u].left

LEMMA ZoneFrame ==
  ASSUME NEW n \in Names, NEW t \in Tasks, ZoneOK(n), raced \subseteq raced',
         meta'[n] = meta[n], notes'[n] = notes[n], ideal'[n] = ideal[n], zone'[n] = zone[n],
         \A u \in Tasks \ {t} : Alike(u),
         \/ t \notin Active(n)' /\ ~(t \in Active(n) /\ task[t].op = "clear")
         \/ /\ t \in Active(n) /\ t \in Active(n)' /\ task'[t].op = task[t].op
            /\ task'[t].obj = task[t].obj /\ task'[t].at \notin {"write", "delete", "pop"}
  PROVE  ZoneOK(n)'
<1> SUFFICES ASSUME n \notin raced'
             PROVE  /\ \A u \in Active(n)' : ActiveOK(n, u)'
                    /\ (\A u \in Active(n)' : task'[u].op # "clear") => True(n)'
  BY DEF ZoneOK
<1>1. /\ \A u \in Active(n) : ActiveOK(n, u)
      /\ (\A u \in Active(n) : task[u].op # "clear") => True(n)
  BY DEF ZoneOK
<1>2. \A u \in Tasks : u # t => (u \in Active(n)' <=> u \in Active(n))
  BY DEF Alike, Active, Busy, Name
<1>3. Active(n) \subseteq Tasks /\ Active(n)' \subseteq Tasks
  BY DEF Active
<1>4. Keys(n)' = Keys(n) /\ (True(n)' <=> True(n)) /\ Read(meta[n])' = Read(meta[n])
  BY DEF Keys, True, Read
<1>5. ASSUME NEW u \in Active(n)' PROVE ActiveOK(n, u)'
  <2>1. CASE u # t
    <3>1. u \in Active(n) /\ ActiveOK(n, u) /\ Alike(u)
      BY <1>1, <1>2, <1>3, <2>1
    <3>2. task[u].op = "clear" => Active(n)' = {u}
      <4>1. ASSUME task[u].op = "clear" PROVE Active(n)' = {u}
        <5>1. Active(n) = {u}
          BY <3>1, <4>1 DEF ActiveOK
        <5>2. t \notin Active(n)'
          BY <2>1, <5>1
        <5> QED  BY <1>2, <1>3, <5>1, <5>2
      <4> QED  BY <4>1
    <3> QED  BY <1>4, <3>1, <3>2 DEF ActiveOK, Alike
  <2>2. CASE u = t
    <3>1. /\ t \in Active(n) /\ task'[t].op = task[t].op
          /\ task'[t].obj = task[t].obj /\ task'[t].at \notin {"write", "delete", "pop"}
      BY <2>2
    <3>2. ActiveOK(n, t)
      BY <1>1, <3>1
    <3>3. \A v \in Tasks : v \in Active(n)' <=> v \in Active(n)
      BY <1>2, <2>2, <3>1
    <3>4. Active(n)' = Active(n)
      BY <1>3, <3>3
    <3> QED  BY <2>2, <3>1, <3>2, <3>4 DEF ActiveOK
  <2> QED  BY <2>1, <2>2
<1>6. ASSUME \A u \in Active(n)' : task'[u].op # "clear" PROVE True(n)'
  <2>1. ASSUME NEW u \in Active(n) PROVE task[u].op # "clear"
    <3>1. CASE u # t
      BY <1>2, <1>3, <1>6, <3>1 DEF Alike
    <3>2. CASE u = t
      BY <1>6, <3>2
    <3> QED  BY <3>1, <3>2
  <2> QED  BY <1>1, <1>4, <2>1
<1> QED  BY <1>5, <1>6

LEMMA LocksFrame ==
  ASSUME LocksOK, metaLock' = metaLock, NEW t \in Tasks, \A u \in Tasks \ {t} : Alike(u),
         task[t].at \notin {"lock", "write"}, task'[t].at \notin {"lock", "write"}
  PROVE  LocksOK'
<1>1. ASSUME NEW o \in Tasks, NEW u \in Tasks
      PROVE  u \in ToSet(metaLock[o]) <=> task'[u].at \in {"lock", "write"} /\ task'[u].obj = o
  BY DEF LocksOK, Alike
<1>2. ASSUME NEW u \in Tasks, task'[u].at = "write" PROVE Holds(u)'
  <2>1. u # t /\ Alike(u) /\ Holds(u)
    BY <1>2 DEF LocksOK, Alike
  <2> QED  BY <2>1 DEF Holds, Alike
<1> QED  BY <1>1, <1>2 DEF LocksOK

LEMMA FinishRecord ==
  ASSUME TypeOK, NEW t \in Tasks, NEW got \in SUBSET Ids, Finish(t, got)
  PROVE  \E new \in RequestRecord :
           /\ task' = [task EXCEPT ![t] = new]
           /\ new.op = task[t].op /\ new.at = "done" /\ new.got = got /\ new.must = task[t].must
           /\ PlaceOK(new)
<1> DEFINE new == [NoRequest EXCEPT !.op = task[t].op, !.at = "done", !.got = got, !.must = task[t].must]
<1>1. task[t].op \in {"none"} \cup UNION {Ops[u] : u \in Tasks} /\ task[t].must \in SUBSET Names
  BY DEF TypeOK
<1>2. DefaultId \in Ids /\ NoMeta \in Metas
  BY ZonesAssumption DEF NoMeta, Metas
<1>3. /\ new \in RequestRecord /\ new.op = task[t].op /\ new.at = "done" /\ new.got = got
      /\ new.must = task[t].must
  BY <1>1, <1>2 DEF NoRequest, RequestRecord, Places
<1>4. task' = [task EXCEPT ![t] = new]
  BY DEF Finish
<1> HIDE DEF new
<1>5. PlaceOK(new)
  BY <1>3 DEF PlaceOK
<1> QED  BY <1>3, <1>4, <1>5

(* The parts of the type that are not about the client or a request. *)
RestOK ==
  /\ meta \in [Names -> Metas \cup {None}] /\ notes \in [Names -> SUBSET Tasks]
  /\ reg \in [Names -> Ids \cup {None}] /\ zone \in [Names -> Tasks \cup {None}]
  /\ metaLock \in [Tasks -> Seq(Tasks)]
  /\ ideal \in [Names -> [meta : Metas, notes : SUBSET Tasks]] /\ raced \subseteq Names

LEMMA TypeParts == TypeOK <=> ClientTypeOK /\ RestOK /\ task \in [Tasks -> RequestRecord]
BY DEF TypeOK, RestOK, RequestRecord, Places

LEMMA Parts ==
  ZonesInv <=> /\ ClientInv /\ RestOK /\ task \in [Tasks -> RequestRecord]
               /\ PlacesOK /\ LocksOK /\ ListsOK /\ \A n \in Names : ZoneOK(n)
BY TypeParts DEF ZonesInv, ClientInv

LEMMA InvPrimed ==
  ASSUME ClientInv', RestOK', task' \in [Tasks -> RequestRecord],
         PlacesOK', LocksOK', ListsOK', \A n \in Names : ZoneOK(n)'
  PROVE  ZonesInv'
<1>1. TypeOK' /\ ClientOK'
  BY DEF TypeOK, RestOK, RequestRecord, Places, ClientInv
<1> QED  BY <1>1 DEF ZonesInv

LEMMA NamesAreIds ==
  /\ Names \subseteq Ids /\ \A i \in Ids : Safe[i] \in Names
  /\ \A n \in Names : Safe[n] = n
BY ZonesAssumption DEF Names

(* One request moves. *)
LEMMA Moved ==
  ASSUME task \in [Tasks -> RequestRecord], PlacesOK, NEW t \in Tasks, NEW new \in RequestRecord,
         task' = [task EXCEPT ![t] = new], PlaceOK(new)
  PROVE  /\ task' \in [Tasks -> RequestRecord] /\ task'[t] = new
         /\ \A u \in Tasks \ {t} : task'[u] = task[u] /\ Alike(u)
         /\ PlacesOK'
<1>1. task' \in [Tasks -> RequestRecord] /\ task'[t] = new /\ \A u \in Tasks \ {t} : task'[u] = task[u]
  OBVIOUS
<1> QED  BY <1>1 DEF Alike, PlacesOK, PlaceOK

LEMMA ListsFrame ==
  ASSUME ListsOK, NEW t \in Tasks, NEW new, task'[t] = new, reg' = reg, ListOK(new),
         \A u \in Tasks \ {t} : task'[u] = task[u]
  PROVE  ListsOK'
<1>1. ASSUME NEW u \in Tasks PROVE ListOK(task'[u])
  BY DEF ListsOK
<1> QED  BY <1>1 DEF ListsOK, ListOK

(* Steps that change neither a project nor a lock. *)
LEMMA QuietStep ==
  ASSUME ZonesInv, NEW t \in Tasks, NEW new \in RequestRecord, task' = [task EXCEPT ![t] = new],
         UNCHANGED <<meta, notes, reg, zone, metaLock, ideal, raced>>, ClientInv',
         task[t].at \notin {"lock", "write"}, new.at \notin {"lock", "write", "delete", "pop"},
         PlaceOK(new), ListOK(new), Busy(t),
         \/ new.at = "done" /\ task[t].op # "clear"
         \/ new.op = task[t].op /\ new.id = task[t].id /\ new.obj = task[t].obj 
            /\ new.at \notin {"idle", "done"}
  PROVE  ZonesInv'
<1>1. /\ RestOK /\ task \in [Tasks -> RequestRecord] /\ PlacesOK /\ LocksOK /\ ListsOK
      /\ \A n \in Names : ZoneOK(n)
  BY Parts
<1>2. /\ task' \in [Tasks -> RequestRecord] /\ task'[t] = new
      /\ \A u \in Tasks \ {t} : task'[u] = task[u] /\ Alike(u)
      /\ PlacesOK'
  BY <1>1, Moved
<1>3. RestOK'
  BY <1>1 DEF RestOK
<1>4. LocksOK'
  BY <1>1, <1>2, LocksFrame
<1>5. ListsOK'
  BY <1>1, <1>2, ListsFrame
<1>6. ASSUME NEW n \in Names PROVE ZoneOK(n)'
  <2>1. CASE new.at = "done" /\ task[t].op # "clear"
    <3>1. t \notin Active(n)'
      BY <1>2, <2>1 DEF Active, Busy
    <3> QED  BY <1>1, <1>2, <2>1, <3>1, ZoneFrame
  <2>2. CASE new.op = task[t].op /\ new.id = task[t].id /\ new.obj = task[t].obj /\ new.at \notin {"idle", "done"}
    <3>1. t \in Active(n)' <=> t \in Active(n)
      BY <1>2, <2>2 DEF Active, Busy, Name
    <3>2. CASE t \in Active(n)
      BY <1>1, <1>2, <2>2, <3>1, <3>2, ZoneFrame
    <3>3. CASE t \notin Active(n)
      BY <1>1, <1>2, <3>1, <3>3, ZoneFrame
    <3> QED  BY <3>2, <3>3
  <2> QED  BY <2>1, <2>2
<1> QED  BY <1>2, <1>3, <1>4, <1>5, <1>6, InvPrimed

(* Steps that are about one project, the request's own. *)
LEMMA OwnStep ==
  ASSUME ZonesInv, NEW t \in Tasks, NEW new \in RequestRecord, task' = [task EXCEPT ![t] = new],
         PlaceOK(new), Busy(t), new.at = "done" \/ new.id = task[t].id, raced \subseteq raced',
         NEW own \in Names, own = Name(t),
         \A m \in Names \ {own} : /\ meta'[m] = meta[m] /\ notes'[m] = notes[m]
                                      /\ ideal'[m] = ideal[m] /\ zone'[m] = zone[m],
         ClientInv', RestOK', LocksOK', ListsOK', ZoneOK(own)'
  PROVE  ZonesInv'
<1>1. task \in [Tasks -> RequestRecord] /\ PlacesOK /\ \A n \in Names : ZoneOK(n)
  BY Parts
<1>2. /\ task' \in [Tasks -> RequestRecord] /\ task'[t] = new
      /\ \A u \in Tasks \ {t} : task'[u] = task[u] /\ Alike(u)
      /\ PlacesOK'
  BY <1>1, Moved
<1>3. ASSUME NEW n \in Names PROVE ZoneOK(n)'
  <2>1. CASE n = own
    BY <2>1
  <2>2. CASE n # own
    <3>1. t \notin Active(n) /\ t \notin Active(n)'
      BY <1>2, <2>2 DEF Active, Busy, Name
    <3> QED  BY <1>1, <1>2, <2>2, <3>1, ZoneFrame
  <2> QED  BY <2>1, <2>2
<1> QED  BY <1>2, <1>3, InvPrimed

LEMMA OwnName ==
  ASSUME ZonesInv, NEW t \in Tasks
  PROVE  /\ Name(t) \in Names /\ task[t].id \in Ids /\ Safe[task[t].id] = Name(t)
         /\ task[t] \in RequestRecord /\ PlaceOK(task[t])
         /\ Busy(t) /\ task[t].op # "list" => t \in Active(Name(t))
<1>1. task[t] \in RequestRecord /\ PlaceOK(task[t])
  BY Parts DEF PlacesOK
<1>2. task[t].id \in Ids
  BY <1>1 DEF RequestRecord
<1> QED  BY <1>1, <1>2, NamesAreIds DEF Name, Active

-----------------------------------------------------------------------------
(* The lock of a zone's object. *)
LEMMA AppendFacts ==
  ASSUME NEW S, NEW q \in Seq(S), NEW t \in S, Injective(q), t \notin ToSet(q)
  PROVE  LET p == Append(q, t) IN
         /\ p \in Seq(S) /\ p # <<>> /\ Injective(p) /\ ToSet(p) = ToSet(q) \cup {t}
         /\ q # <<>> => Head(p) = Head(q)
<1> DEFINE p == Append(q, t)
<1>1. /\ p \in Seq(S) /\ Len(p) = Len(q) + 1 /\ Len(q) \in Nat /\ DOMAIN q = 1..Len(q)
      /\ DOMAIN p = 1..Len(p) /\ p[Len(q) + 1] = t /\ \A i \in 1..Len(q) : p[i] = q[i]
  OBVIOUS
<1> HIDE DEF p
<1>2. Injective(p)
  <2>1. \A i \in 1..Len(q) : q[i] # t
    BY <1>1 DEF ToSet
  <2> QED  BY <1>1, <2>1 DEF Injective
<1>3. ToSet(p) = ToSet(q) \cup {t}
  BY <1>1 DEF ToSet
<1>4. p # <<>> /\ (q # <<>> => Head(p) = Head(q))
  BY <1>1
<1> QED  BY <1>1, <1>2, <1>3, <1>4 DEF p

LEMMA TailFacts ==
  ASSUME NEW S, NEW q \in Seq(S), q # <<>>, Injective(q)
  PROVE  LET p == Tail(q) IN
         p \in Seq(S) /\ Injective(p) /\ ToSet(p) = ToSet(q) \ {Head(q)}
<1> DEFINE p == Tail(q)
<1>1. /\ p \in Seq(S) /\ Len(p) = Len(q) - 1 /\ Len(q) \in Nat /\ Len(q) >= 1
      /\ DOMAIN q = 1..Len(q) /\ DOMAIN p = 1..Len(p) /\ Head(q) = q[1]
      /\ \A i \in 1..Len(p) : p[i] = q[i + 1]
  OBVIOUS
<1> HIDE DEF p
<1>2. Injective(p)
  <2> SUFFICES ASSUME NEW i \in 1..Len(p), NEW j \in 1..Len(p), p[i] = p[j] PROVE i = j
    BY <1>1 DEF Injective
  <2>1. i + 1 \in 1..Len(q) /\ j + 1 \in 1..Len(q) /\ q[i + 1] = q[j + 1]
    BY <1>1
  <2>2. i + 1 = j + 1
    BY <1>1, <2>1 DEF Injective
  <2> QED  BY <2>2
<1>3. ASSUME NEW u PROVE u \in ToSet(p) <=> u \in ToSet(q) /\ u # Head(q)
  <2>1. ASSUME u \in ToSet(p) PROVE u \in ToSet(q) /\ u # Head(q)
    <3>1. PICK i \in 1..Len(p) : p[i] = u
      BY <1>1, <2>1 DEF ToSet
    <3>2. i + 1 \in 1..Len(q) /\ q[i + 1] = u /\ i + 1 # 1
      BY <1>1, <3>1
    <3> QED  BY <1>1, <3>2 DEF ToSet, Injective
  <2>2. ASSUME u \in ToSet(q), u # Head(q) PROVE u \in ToSet(p)
    <3>1. PICK i \in 1..Len(q) : q[i] = u
      BY <1>1, <2>2 DEF ToSet
    <3>2. i # 1
      BY <1>1, <2>2, <3>1
    <3>3. i - 1 \in 1..Len(p) /\ p[i - 1] = u
      BY <1>1, <3>1, <3>2
    <3> QED  BY <1>1, <3>3 DEF ToSet
  <2> QED  BY <2>1, <2>2
<1> QED  BY <1>1, <1>2, <1>3 DEF p

LEMMA NoneActive ==
  ASSUME NEW t \in Tasks, task[t].at \in {"idle", "done"}
  PROVE  \A n \in Names : t \notin Active(n)
BY DEF Active, Busy

-----------------------------------------------------------------------------
(* Requests that read, ask the model or list. *)
LEMMA SameZones ==
  ASSUME ZonesInv, UNCHANGED zvars, ClientInv'
  PROVE  ZonesInv'
BY DEF zvars, ZonesInv, ClientInv, TypeOK, PlacesOK, LocksOK, ListsOK, ListOK, Lists, ZoneOK, ActiveOK,
       Active, Busy, Name, Holds, Keys, True

LEMMA ReadMetaKeeps ==
  ASSUME ZonesInv, NEW t \in Tasks, ReadMeta(t)
  PROVE  ZonesInv'
<1>1. ClientInv'
  BY Parts, CompleteKeeps, ZonesAssumption DEF ReadMeta
<1>2. RestOK /\ task[t] \in RequestRecord /\ PlaceOK(task[t]) /\ Name(t) \in Names
  BY Parts, OwnName
<1>3. Read(meta[Name(t)]) \in Metas
  BY <1>2, ZonesAssumption DEF RestOK, Read, NoMeta, Metas
<1> DEFINE new == [task[t] EXCEPT !.at = "model", !.saw = Read(meta[Name(t)])]
<1>4. new \in RequestRecord /\ new.at = "model" /\ new.op = task[t].op /\ new.id = task[t].id /\ new.obj = task[t].obj
  BY <1>2, <1>3 DEF RequestRecord, Places
<1>5. task' = [task EXCEPT ![t] = new] /\ task[t].at = "read"
  BY Parts DEF ReadMeta
<1> HIDE DEF new
<1>6. PlaceOK(new) /\ ListOK(new) /\ Busy(t)
  BY <1>2, <1>4, <1>5 DEF PlaceOK, ListOK, Busy
<1> QED  BY <1>1, <1>4, <1>5, <1>6, QuietStep DEF ReadMeta

LEMMA FinishQuietly ==
  ASSUME ZonesInv, NEW t \in Tasks, NEW got \in SUBSET Ids, Finish(t, got),
         UNCHANGED <<meta, notes, reg, zone, metaLock, ideal, raced, hvars>>,
         task[t].at \notin {"lock", "write"}, Busy(t), task[t].op # "clear",
         task[t].op = "list" => \A n \in task[t].must : \E i \in got : Safe[i] = n
  PROVE  ZonesInv'
<1>1. TypeOK /\ ClientInv
  BY Parts DEF ZonesInv
<1>2. PICK new \in RequestRecord :
        /\ task' = [task EXCEPT ![t] = new]
        /\ new.op = task[t].op /\ new.at = "done" /\ new.got = got /\ new.must = task[t].must
        /\ PlaceOK(new)
  BY <1>1, FinishRecord
<1>3. ListOK(new)
  BY <1>2 DEF ListOK, Lists
<1> QED  BY <1>1, <1>2, <1>3, ClientSame, QuietStep

LEMMA AnsweredKeeps ==
  ASSUME ZonesInv, NEW t \in Tasks, Answered(t)
  PROVE  ZonesInv'
<1>1. ClientInv' /\ task[t] \in RequestRecord /\ PlaceOK(task[t]) /\ task[t].at = "model"
  BY Parts, ClientSame, OwnName DEF Answered
<1>2. task[t].op \in {"infer", "goals"} /\ Busy(t)
  BY <1>1 DEF PlaceOK, Busy
<1>3. CASE Finish(t, {})
  BY <1>1, <1>2, <1>3, FinishQuietly DEF Answered
<1>4. CASE Go(t, "put") /\ task[t].op = "infer"
  <2> DEFINE new == [task[t] EXCEPT !.at = "put"]
  <2>1. new \in RequestRecord /\ new.at = "put" /\ new.op = task[t].op /\ new.id = task[t].id /\ new.obj = task[t].obj
    BY <1>1 DEF RequestRecord, Places
  <2>2. task' = [task EXCEPT ![t] = new]
    BY <1>4 DEF Go
  <2> HIDE DEF new
  <2>3. PlaceOK(new) /\ ListOK(new)
    BY <1>1, <1>4, <2>1 DEF PlaceOK, ListOK
  <2> QED  BY <1>1, <1>2, <2>1, <2>2, <2>3, QuietStep DEF Answered
<1> QED  BY <1>3, <1>4 DEF Answered

LEMMA ListNamesKeeps ==
  ASSUME ZonesInv, NEW t \in Tasks, ListNames(t)
  PROVE  ZonesInv'
<1>1. ClientInv' /\ task[t] \in RequestRecord /\ PlaceOK(task[t]) /\ task[t].at = "list"
  BY Parts, ClientSame, OwnName DEF ListNames
<1>2. task[t].op = "list" /\ Busy(t)
  BY <1>1 DEF PlaceOK, Busy
<1> DEFINE there == {n \in Names : reg[n] # None}
           new == [task[t] EXCEPT !.at = "listing", !.left = there, !.must = there]
<1>3. /\ new \in RequestRecord /\ new.at = "listing" /\ new.op = task[t].op /\ new.id = task[t].id
      /\ new.obj = task[t].obj /\ new.left = there /\ new.must = there
  BY <1>1 DEF RequestRecord, Places
<1>4. task' = [task EXCEPT ![t] = new]
  BY DEF ListNames
<1> HIDE DEF new
<1>5. PlaceOK(new) /\ ListOK(new)
  BY <1>2, <1>3 DEF PlaceOK, ListOK
<1> QED  BY <1>1, <1>2, <1>3, <1>4, <1>5, QuietStep DEF ListNames

LEMMA ListOneKeeps ==
  ASSUME ZonesInv, NEW t \in Tasks, ListOne(t)
  PROVE  ZonesInv'
<1>1. ClientInv' /\ task[t] \in RequestRecord /\ PlaceOK(task[t]) /\ task[t].at = "listing" /\ RestOK
  BY Parts, ClientSame, OwnName DEF ListOne
<1>2. task[t].op = "list" /\ Busy(t) /\ task[t].left \subseteq Names
  BY <1>1 DEF PlaceOK, Busy
<1>3. PICK k \in task[t].left :
        task' = [task EXCEPT ![t].left = Remaining(t, k), ![t].got = (@ \cup {reg[k]}) \ {None}]
  BY DEF ListOne
<1> DEFINE new == [task[t] EXCEPT !.left = @ \ {k}, !.got = (@ \cup {reg[k]}) \ {None}]
<1>4. (task[t].got \cup {reg[k]}) \ {None} \in SUBSET Ids /\ task[t].got \subseteq Ids
  BY <1>1, <1>2 DEF RequestRecord, RestOK
<1>5. /\ new \in RequestRecord /\ new.at = "listing" /\ new.op = task[t].op /\ new.id = task[t].id
      /\ new.obj = task[t].obj /\ new.left = task[t].left \ {k} /\ new.must = task[t].must
      /\ new.got = (task[t].got \cup {reg[k]}) \ {None}
  BY <1>1, <1>4 DEF RequestRecord
<1>6. task' = [task EXCEPT ![t] = new]
  BY <1>3 DEF Remaining
<1> HIDE DEF new
<1>7. PlaceOK(new)
  BY <1>1, <1>2, <1>5 DEF PlaceOK
<1>8. ListOK(new)
  <2>1. /\ \A n \in task[t].must : reg[n] # None /\ (n \in task[t].left \/ Lists(task[t], n))
        /\ \A n \in Names : reg[n] # None => Safe[reg[n]] = n
    BY <1>1, Parts DEF ListsOK, ListOK
  <2>2. None \notin Ids
    BY ZonesAssumption
  <2>3. ASSUME NEW n \in task[t].must PROVE n \in new.left \/ Lists(new, n)
    <3>1. CASE n = k
      BY <1>2, <1>5, <2>1, <2>3, <3>1 DEF Lists
    <3>2. CASE n # k
      BY <1>4, <1>5, <2>1, <2>2, <2>3, <3>2 DEF Lists
    <3> QED  BY <3>1, <3>2
  <2> QED  BY <1>5, <2>1, <2>3 DEF ListOK
<1> QED  BY <1>1, <1>2, <1>5, <1>6, <1>7, <1>8, QuietStep DEF ListOne

LEMMA ListEndsKeeps ==
  ASSUME ZonesInv, NEW t \in Tasks, ListEnds(t)
  PROVE  ZonesInv'
<1>1. task[t] \in RequestRecord /\ PlaceOK(task[t]) /\ task[t].at = "listing" /\ task[t].left = {}
  BY OwnName DEF ListEnds
<1>2. task[t].op = "list" /\ Busy(t) /\ task[t].got \subseteq Ids
  BY <1>1 DEF PlaceOK, Busy, RequestRecord
<1> PICK got : got = IF task[t].got # {} THEN task[t].got ELSE {n \in Names : Keys(n) # {}}
  OBVIOUS
<1>3. got \in SUBSET Ids
  BY <1>2, NamesAreIds
<1>4. \A n \in task[t].must : \E i \in got : Safe[i] = n
  <2>1. \A n \in task[t].must : Lists(task[t], n)
    BY <1>1, Parts DEF ListsOK, ListOK
  <2> QED  BY <2>1 DEF Lists
<1> QED  BY <1>1, <1>2, <1>3, <1>4, FinishQuietly DEF ListEnds

-----------------------------------------------------------------------------
(* Edits of the metadata. *)
LEMMA JoinsLock ==
  ASSUME LocksOK, metaLock \in [Tasks -> Seq(Tasks)], NEW t \in Tasks, NEW o \in Tasks,
         task[t].at \notin {"lock", "write"}, task'[t].at = "lock", task'[t].obj = o,
         \A u \in Tasks \ {t} : Alike(u), Into(o, t)
  PROVE  LocksOK' /\ metaLock' \in [Tasks -> Seq(Tasks)]
<1>1. metaLock[o] \in Seq(Tasks) /\ Injective(metaLock[o]) /\ t \notin ToSet(metaLock[o])
  BY DEF LocksOK
<1>2. PICK p : p = Append(metaLock[o], t)
  OBVIOUS
<1>3. /\ p \in Seq(Tasks) /\ p # <<>> /\ Injective(p) /\ ToSet(p) = ToSet(metaLock[o]) \cup {t}
      /\ metaLock[o] # <<>> => Head(p) = Head(metaLock[o])
  <2>1. PICK q : q = metaLock[o]
    OBVIOUS
  <2>2. q \in Seq(Tasks) /\ Injective(q) /\ t \notin ToSet(q) /\ p = Append(q, t)
    BY <1>1, <1>2, <2>1
  <2>3. p \in Seq(Tasks) /\ p # <<>> /\ Injective(p) /\ ToSet(p) = ToSet(q) \cup {t} /\ (q # <<>> => Head(p) = Head(q))
    BY <2>2, AppendFacts
  <2> QED  BY <2>1, <2>3
<1>4. metaLock' = [metaLock EXCEPT ![o] = p]
  BY <1>2 DEF Into
<1>5. ASSUME NEW x \in Tasks PROVE Injective(metaLock'[x])
  BY <1>3, <1>4 DEF LocksOK
<1>6. ASSUME NEW x \in Tasks, NEW u \in Tasks
      PROVE  u \in ToSet(metaLock'[x]) <=> task'[u].at \in {"lock", "write"} /\ task'[u].obj = x
  <2>1. u \in ToSet(metaLock[x]) <=> task[u].at \in {"lock", "write"} /\ task[u].obj = x
    BY DEF LocksOK
  <2>2. CASE u = t
    BY <1>3, <1>4, <2>1, <2>2
  <2>3. CASE u # t
    <3>1. u \in ToSet(metaLock'[x]) <=> u \in ToSet(metaLock[x])
      BY <1>3, <1>4, <2>3
    <3> QED  BY <2>1, <2>3, <3>1 DEF Alike
  <2> QED  BY <2>2, <2>3
<1>7. ASSUME NEW u \in Tasks, task'[u].at = "write" PROVE Holds(u)'
  <2>1. u # t /\ Alike(u) /\ Holds(u)
    BY <1>7 DEF LocksOK, Alike
  <2> QED  BY <1>3, <1>4, <2>1 DEF Holds, Alike
<1> QED  BY <1>3, <1>4, <1>5, <1>6, <1>7 DEF LocksOK

LEMMA LeavesLock ==
  ASSUME LocksOK, metaLock \in [Tasks -> Seq(Tasks)], NEW t \in Tasks, NEW o \in Tasks,
         task[t].at \in {"lock", "write"}, task[t].obj = o, Holds(t),
         task'[t].at \notin {"lock", "write"}, \A u \in Tasks \ {t} : Alike(u), Out(o)
  PROVE  LocksOK' /\ metaLock' \in [Tasks -> Seq(Tasks)]
<1>1. /\ metaLock[o] \in Seq(Tasks) /\ Injective(metaLock[o]) /\ metaLock[o] # <<>>
      /\ Head(metaLock[o]) = t
  BY DEF LocksOK, Holds
<1>2. PICK p : p = Tail(metaLock[o])
  OBVIOUS
<1>3. p \in Seq(Tasks) /\ Injective(p) /\ ToSet(p) = ToSet(metaLock[o]) \ {t}
  BY <1>1, <1>2, TailFacts
<1>4. metaLock' = [metaLock EXCEPT ![o] = p]
  BY <1>2 DEF Out
<1>5. ASSUME NEW x \in Tasks PROVE Injective(metaLock'[x])
  BY <1>3, <1>4 DEF LocksOK
<1>6. ASSUME NEW x \in Tasks, NEW u \in Tasks
      PROVE  u \in ToSet(metaLock'[x]) <=> task'[u].at \in {"lock", "write"} /\ task'[u].obj = x
  <2>1. u \in ToSet(metaLock[x]) <=> task[u].at \in {"lock", "write"} /\ task[u].obj = x
    BY DEF LocksOK
  <2>2. CASE u = t
    BY <1>3, <1>4, <2>1, <2>2
  <2>3. CASE u # t
    <3>1. u \in ToSet(metaLock'[x]) <=> u \in ToSet(metaLock[x])
      BY <1>3, <1>4, <2>3
    <3> QED  BY <2>1, <2>3, <3>1 DEF Alike
  <2> QED  BY <2>2, <2>3
<1>7. ASSUME NEW u \in Tasks, task'[u].at = "write" PROVE Holds(u)'
  <2>1. u # t /\ Alike(u) /\ Holds(u) /\ task[u].at = "write"
    BY <1>7 DEF LocksOK, Alike
  <2>2. task[u].obj # o
    BY <1>1, <2>1 DEF Holds
  <2> QED  BY <1>4, <2>1, <2>2 DEF Holds, Alike
<1> QED  BY <1>3, <1>4, <1>5, <1>6, <1>7 DEF LocksOK

(* One edit writes at a time. *)
LEMMA OneWrites ==
  ASSUME LocksOK, NEW t \in Tasks, NEW u \in Tasks, task[t].at = "write", task[u].at = "write",
         task[t].obj = task[u].obj
  PROVE  t = u
BY DEF LocksOK, Holds

LEMMA EditedIs ==
  ASSUME NEW t \in Tasks, task[t] \in RequestRecord, PlaceOK(task[t]),
         task[t].at \in {"lock", "write"}, NEW m \in Metas
  PROVE  Edited(t, m) \in Metas
<1>1. task[t].op \in Edits
  BY DEF PlaceOK
<1>2. CASE task[t].op = "describe"
  BY <1>2 DEF Edited, Metas
<1>3. CASE task[t].op = "addFile"
  <2>1. task[t].file \in Files
    BY <1>3 DEF PlaceOK
  <2> QED  BY <1>3, <2>1 DEF Edited, Metas
<1>4. CASE task[t].op = "removeFile"
  BY <1>4 DEF Edited, Metas
<1> QED  BY <1>1, <1>2, <1>3, <1>4 DEF Edits

LEMMA LockMetaKeeps ==
  ASSUME ZonesInv, NEW t \in Tasks, LockMeta(t)
  PROVE  ZonesInv'
<1>1. /\ TypeOK /\ ClientInv' /\ RestOK /\ task \in [Tasks -> RequestRecord] /\ PlacesOK /\ LocksOK /\ ListsOK
      /\ \A n \in Names : ZoneOK(n)
  BY Parts, ClientSame DEF LockMeta, ZonesInv
<1>2. /\ task[t] \in RequestRecord /\ PlaceOK(task[t]) /\ task[t].at = "lock" /\ Holds(t)
      /\ Name(t) \in Names
  BY OwnName DEF LockMeta
<1>3. task[t].op \in Edits /\ task[t].obj \in Tasks /\ Busy(t) /\ t \in Active(Name(t))
  BY <1>2, OwnName DEF PlaceOK, Busy, Edits
<1> PICK own \in Names : own = Name(t)
  BY <1>2
<1>4. UNCHANGED <<meta, notes, reg, zone, ideal, raced>>
  BY DEF LockMeta
<1>5. CASE Finish(t, {}) /\ Out(task[t].obj)
  <2>1. PICK new \in RequestRecord :
        /\ task' = [task EXCEPT ![t] = new]
        /\ new.op = task[t].op /\ new.at = "done" /\ new.got = {} /\ new.must = task[t].must
        /\ PlaceOK(new)
    BY <1>1, <1>5, FinishRecord
  <2>2. task'[t] = new /\ \A u \in Tasks \ {t} : task'[u] = task[u] /\ Alike(u)
    BY <1>1, <2>1, Moved
  <2>3. LocksOK' /\ metaLock' \in [Tasks -> Seq(Tasks)]
    BY <1>1, <1>2, <1>3, <1>5, <2>1, <2>2, LeavesLock DEF RestOK
  <2>4. RestOK'
    BY <1>1, <1>4, <2>3 DEF RestOK
  <2>5. ListOK(new)
    BY <1>3, <2>1 DEF ListOK, Edits
  <2>6. ListsOK'
    BY <1>1, <1>4, <2>2, <2>5, ListsFrame
  <2>7. ZoneOK(own)'
    <3>1. t \notin Active(own)' /\ task[t].op # "clear"
      BY <1>3, <2>1, <2>2 DEF Active, Busy, Edits
    <3> QED  BY <1>1, <1>4, <2>2, <3>1, ZoneFrame
  <2> QED  BY <1>1, <1>3, <1>4, <2>1, <2>3, <2>4, <2>6, <2>7, OwnStep
<1>6. CASE task' = [task EXCEPT ![t].at = "write", ![t].saw = Read(meta[Name(t)])] /\ UNCHANGED metaLock
  <2> DEFINE new == [task[t] EXCEPT !.at = "write", !.saw = Read(meta[own])]
  <2>1. Read(meta[own]) \in Metas
    BY <1>1, ZonesAssumption DEF RestOK, Read, NoMeta, Metas
  <2>2. /\ new \in RequestRecord /\ new.at = "write" /\ new.op = task[t].op /\ new.id = task[t].id
        /\ new.obj = task[t].obj /\ new.saw = Read(meta[own]) /\ new.file = task[t].file
    BY <1>2, <2>1 DEF RequestRecord, Places
  <2>3. task' = [task EXCEPT ![t] = new]
    BY <1>1, <1>6
  <2> HIDE DEF new
  <2>4. PlaceOK(new) /\ ListOK(new)
    BY <1>2, <1>3, <2>2 DEF PlaceOK, ListOK
  <2>5. task'[t] = new /\ \A u \in Tasks \ {t} : task'[u] = task[u] /\ Alike(u)
    BY <1>1, <2>2, <2>3, <2>4, Moved
  <2>6. RestOK'
    BY <1>1, <1>4, <1>6 DEF RestOK
  <2>7. ListsOK'
    BY <1>1, <1>4, <2>4, <2>5, ListsFrame
  <2>8. LocksOK'
    <3>1. ASSUME NEW o \in Tasks, NEW u \in Tasks
          PROVE  u \in ToSet(metaLock[o]) <=> task'[u].at \in {"lock", "write"} /\ task'[u].obj = o
      BY <1>1, <1>2, <2>2, <2>5 DEF LocksOK
    <3>2. ASSUME NEW u \in Tasks, task'[u].at = "write" PROVE Holds(u)'
      <4>1. Holds(u) /\ task'[u].obj = task[u].obj
        BY <1>1, <1>2, <2>2, <2>5, <3>2 DEF LocksOK
      <4> QED  BY <1>6, <4>1 DEF Holds
    <3> QED  BY <1>1, <1>6, <3>1, <3>2 DEF LocksOK
  <2>9. ZoneOK(own)'
    <3> SUFFICES ASSUME own \notin raced
                 PROVE  /\ \A u \in Active(own)' : ActiveOK(own, u)'
                        /\ (\A u \in Active(own)' : task'[u].op # "clear") => True(own)'
      BY <1>4 DEF ZoneOK
    <3>1. /\ \A u \in Active(own) : ActiveOK(own, u)
          /\ (\A u \in Active(own) : task[u].op # "clear") => True(own)
      BY <1>1 DEF ZoneOK
    <3>2. \A u \in Tasks : u \in Active(own)' <=> u \in Active(own)
      BY <1>3, <2>2, <2>5 DEF Active, Busy, Name
    <3>3. Active(own)' = Active(own)
      BY <3>2 DEF Active
    <3>4. Active(own) \subseteq Tasks /\ Keys(own)' = Keys(own) /\ (True(own)' <=> True(own))
      BY <1>4 DEF Active, Keys, True
    <3>5. ASSUME NEW u \in Active(own) PROVE ActiveOK(own, u)'
      <4>1. CASE u = t
        BY <1>3, <1>4, <2>2, <2>5, <3>1, <3>3, <4>1 DEF ActiveOK, Edits
      <4>2. CASE u # t
        BY <1>4, <2>5, <3>1, <3>3, <3>4, <4>2 DEF ActiveOK
      <4> QED  BY <4>1, <4>2
    <3>6. \A u \in Active(own) : task'[u].op = task[u].op
      BY <2>2, <2>5, <3>4
    <3> QED  BY <3>1, <3>3, <3>4, <3>5, <3>6
  <2> QED  BY <1>1, <1>3, <1>4, <2>2, <2>3, <2>4, <2>6, <2>7, <2>8, <2>9, OwnStep
<1> QED  BY <1>5, <1>6 DEF LockMeta

(* A request that is not a clear ends with a change of its project. *)
LEMMA OwnFinishes ==
  ASSUME PlacesOK, NEW own \in Names, ZoneOK(own), NEW t \in Active(own), task[t].op # "clear",
         task'[t].at = "done", \A u \in Tasks \ {t} : task'[u] = task[u],
         raced \subseteq raced', zone' = zone,
         own \notin raced' /\ True(own) => True(own)',
         own \notin raced' =>
           ((\E u \in Active(own) \ {t} : task[u].at = "write") => Read(meta'[own]) = Read(meta[own]))
  PROVE  ZoneOK(own)'
<1> SUFFICES ASSUME own \notin raced'
             PROVE  (\A u \in Active(own)' : ActiveOK(own, u)') /\ True(own)'
  BY DEF ZoneOK
<1>1. /\ \A u \in Active(own) : ActiveOK(own, u)
      /\ (\A u \in Active(own) : task[u].op # "clear") => True(own)
  BY DEF ZoneOK
<1>2. ASSUME NEW u \in Active(own) PROVE task[u].op # "clear"
  BY <1>1 DEF ActiveOK
<1>3. ASSUME NEW u \in Active(own)' PROVE ActiveOK(own, u)'
  <2>1. u \in Active(own) /\ u # t /\ u \in Tasks /\ task'[u] = task[u]
    BY DEF Active, Busy, Name
  <2>2. ActiveOK(own, u) /\ task[u].at \notin {"delete", "pop"} /\ task[u].op # "clear"
    BY <1>1, <1>2, <2>1 DEF PlacesOK, PlaceOK
  <2>3. task[u].at = "write" => Read(meta'[own]) = Read(meta[own])
    BY <2>1
  <2> QED  BY <2>1, <2>2, <2>3 DEF ActiveOK
<1> QED  BY <1>1, <1>2, <1>3

LEMMA WriteMetaKeeps ==
  ASSUME ZonesInv, NEW t \in Tasks, WriteMeta(t)
  PROVE  ZonesInv'
<1>1. /\ TypeOK /\ ClientInv' /\ RestOK /\ task \in [Tasks -> RequestRecord] /\ PlacesOK /\ LocksOK /\ ListsOK
      /\ \A n \in Names : ZoneOK(n)
  BY Parts, ClientSame DEF WriteMeta, ZonesInv
<1>2. /\ task[t] \in RequestRecord /\ PlaceOK(task[t]) /\ task[t].at = "write" /\ Name(t) \in Names
  BY OwnName DEF WriteMeta
<1>3. task[t].op \in Edits /\ task[t].obj \in Tasks /\ Busy(t) /\ t \in Active(Name(t)) /\ Holds(t)
  BY <1>1, <1>2, OwnName DEF PlaceOK, Busy, Edits, LocksOK
<1> PICK own \in Names : own = Name(t)
  BY <1>2
<1>4. UNCHANGED <<notes, reg, zone, raced>>
  BY DEF WriteMeta
<1>5. PICK new \in RequestRecord :
        /\ task' = [task EXCEPT ![t] = new]
        /\ new.op = task[t].op /\ new.at = "done" /\ new.got = {} /\ new.must = task[t].must
        /\ PlaceOK(new)
  BY <1>1, FinishRecord DEF WriteMeta
<1>6. task'[t] = new /\ \A u \in Tasks \ {t} : task'[u] = task[u] /\ Alike(u)
  BY <1>1, <1>5, Moved
<1>7. LocksOK' /\ metaLock' \in [Tasks -> Seq(Tasks)]
  BY <1>1, <1>2, <1>3, <1>5, <1>6, LeavesLock DEF RestOK, WriteMeta
<1>8. PICK e : e = Edited(t, task[t].saw)
  OBVIOUS
<1>9. PICK i : i = Edited(t, ideal[own].meta)
  OBVIOUS
<1>10. e \in Metas /\ i \in Metas
  BY <1>1, <1>2, <1>8, <1>9, EditedIs DEF RestOK, RequestRecord
<1>11. meta' = [meta EXCEPT ![own] = e] /\ ideal' = [ideal EXCEPT ![own].meta = i]
  BY <1>8, <1>9 DEF WriteMeta
<1>12. RestOK'
  BY <1>1, <1>4, <1>7, <1>10, <1>11 DEF RestOK
<1>13. ListOK(new)
  BY <1>3, <1>5 DEF ListOK, Edits
<1>14. ListsOK'
  BY <1>1, <1>4, <1>6, <1>13, ListsFrame
<1>15. ZoneOK(own)'
  <2>1. ASSUME own \notin raced PROVE \A u \in Active(own) : ActiveOK(own, u)
    BY <1>1, <2>1 DEF ZoneOK
  <2>2. ASSUME own \notin raced, True(own) PROVE True(own)'
    <3>1. task[t].saw = Read(meta[own])
      BY <1>2, <1>3, <2>1, <2>2 DEF ActiveOK
    <3>2. e = i /\ e # None
      BY <1>8, <1>9, <1>10, <2>2, <3>1, ZonesAssumption DEF True
    <3> QED  BY <1>1, <1>4, <1>11, <2>2, <3>2 DEF True, Read, RestOK
  <2>3. ASSUME own \notin raced, NEW u \in Active(own) \ {t}, task[u].at = "write" PROVE FALSE
    <3>1. task[u].obj = zone[own] /\ task[t].obj = zone[own] /\ u \in Tasks
      BY <1>3, <2>1, <2>3 DEF ActiveOK, Active
    <3> QED  BY <1>1, <1>2, <2>3, <3>1, OneWrites
  <2> QED  BY <1>1, <1>3, <1>4, <1>5, <1>6, <2>2, <2>3, OwnFinishes DEF Edits
<1> QED
  <2>1. ASSUME NEW m \in Names \ {own}
        PROVE  meta'[m] = meta[m] /\ notes'[m] = notes[m] /\ ideal'[m] = ideal[m] /\ zone'[m] = zone[m]
    BY <1>1, <1>4, <1>11 DEF RestOK
  <2> QED  BY <2>1, <1>1, <1>3, <1>4, <1>5, <1>7, <1>11, <1>12, <1>14, <1>15, OwnStep

-----------------------------------------------------------------------------
LEMMA RememberKeeps ==
  ASSUME ZonesInv, NEW t \in Tasks, Remember(t)
  PROVE  ZonesInv'
<1>1. /\ TypeOK /\ ClientInv' /\ RestOK /\ task \in [Tasks -> RequestRecord] /\ PlacesOK /\ LocksOK /\ ListsOK
      /\ \A n \in Names : ZoneOK(n)
  BY Parts, ClientSame DEF Remember, ZonesInv
<1>2. /\ task[t] \in RequestRecord /\ PlaceOK(task[t]) /\ task[t].at = "set" /\ Name(t) \in Names
  BY OwnName DEF Remember
<1>3. task[t].op = "remember" /\ Busy(t) /\ t \in Active(Name(t))
  BY <1>2, OwnName DEF PlaceOK, Busy
<1> PICK own \in Names : own = Name(t)
  BY <1>2
<1>4. UNCHANGED <<meta, reg, zone, metaLock, raced>>
  BY DEF Remember
<1>5. PICK new \in RequestRecord :
        /\ task' = [task EXCEPT ![t] = new]
        /\ new.op = task[t].op /\ new.at = "done" /\ new.got = {} /\ new.must = task[t].must
        /\ PlaceOK(new)
  BY <1>1, FinishRecord DEF Remember
<1>6. task'[t] = new /\ \A u \in Tasks \ {t} : task'[u] = task[u] /\ Alike(u)
  BY <1>1, <1>5, Moved
<1>7. notes' = [notes EXCEPT ![own] = @ \cup {t}] /\ ideal' = [ideal EXCEPT ![own].notes = @ \cup {t}]
  BY DEF Remember
<1>8. RestOK'
  BY <1>1, <1>4, <1>7 DEF RestOK
<1>9. LocksOK'
  BY <1>1, <1>2, <1>4, <1>5, <1>6, LocksFrame
<1>10. ListOK(new)
  BY <1>3, <1>5 DEF ListOK
<1>11. ListsOK'
  BY <1>1, <1>4, <1>6, <1>10, ListsFrame
<1>12. ZoneOK(own)'
  <2>1. True(own) => True(own)'
    BY <1>1, <1>4, <1>7 DEF True, RestOK
  <2> QED  BY <1>1, <1>3, <1>4, <1>5, <1>6, <2>1, OwnFinishes
<1> QED
  <2>1. ASSUME NEW m \in Names \ {own}
        PROVE  meta'[m] = meta[m] /\ notes'[m] = notes[m] /\ ideal'[m] = ideal[m] /\ zone'[m] = zone[m]
    BY <1>1, <1>4, <1>7 DEF RestOK
  <2> QED  BY <2>1, <1>1, <1>3, <1>4, <1>5, <1>7, <1>8, <1>9, <1>11, <1>12, OwnStep

LEMMA PutMetaKeeps ==
  ASSUME ZonesInv, NEW t \in Tasks, PutMeta(t)
  PROVE  ZonesInv'
<1>1. /\ TypeOK /\ ClientInv' /\ RestOK /\ task \in [Tasks -> RequestRecord] /\ PlacesOK /\ LocksOK /\ ListsOK
      /\ \A n \in Names : ZoneOK(n)
  BY Parts, ClientSame DEF PutMeta, ZonesInv
<1>2. /\ task[t] \in RequestRecord /\ PlaceOK(task[t]) /\ task[t].at = "put" /\ Name(t) \in Names
  BY OwnName DEF PutMeta
<1>3. task[t].op = "infer" /\ Busy(t) /\ t \in Active(Name(t))
  BY <1>2, OwnName DEF PlaceOK, Busy
<1> PICK own \in Names : own = Name(t)
  BY <1>2
<1>4. UNCHANGED <<notes, reg, zone, metaLock>>
  BY DEF PutMeta
<1>5. PICK new \in RequestRecord :
        /\ task' = [task EXCEPT ![t] = new]
        /\ new.op = task[t].op /\ new.at = "done" /\ new.got = {} /\ new.must = task[t].must
        /\ PlaceOK(new)
  BY <1>1, FinishRecord DEF PutMeta
<1>6. task'[t] = new /\ \A u \in Tasks \ {t} : task'[u] = task[u] /\ Alike(u)
  BY <1>1, <1>5, Moved
<1>7. PICK env \in {t, task[t].saw.environment} :
        /\ meta' = [meta EXCEPT ![own] = [task[t].saw EXCEPT !.environment = env]]
        /\ ideal' = [ideal EXCEPT ![own].meta.environment = env]
  BY DEF PutMeta
<1>8. task[t].saw \in Metas /\ env \in Tasks \cup {None} /\ ideal[own].meta \in Metas
  BY <1>1, <1>2 DEF RequestRecord, Metas, RestOK
<1>9. PICK e : e = [task[t].saw EXCEPT !.environment = env]
  OBVIOUS
<1>10. PICK i : i = [ideal[own].meta EXCEPT !.environment = env]
  OBVIOUS
<1>11. e \in Metas /\ i \in Metas
  BY <1>8, <1>9, <1>10 DEF Metas
<1>12. meta' = [meta EXCEPT ![own] = e] /\ ideal' = [ideal EXCEPT ![own].meta = i]
  BY <1>7, <1>9, <1>10
<1>13. /\ raced \subseteq raced' /\ raced' \subseteq raced \cup {own}
       /\ Read(meta[own]) # task[t].saw \/ Editing(own) => own \in raced'
  BY DEF PutMeta
<1>14. RestOK'
  <2>1. meta' \in [Names -> Metas \cup {None}]
    BY <1>1, <1>11, <1>12 DEF RestOK
  <2>2. ideal' \in [Names -> [meta : Metas, notes : SUBSET Tasks]]
    BY <1>1, <1>11, <1>12 DEF RestOK
  <2> QED  BY <1>1, <1>4, <1>13, <2>1, <2>2 DEF RestOK
<1>15. LocksOK'
  BY <1>1, <1>2, <1>4, <1>5, <1>6, LocksFrame
<1>16. ListOK(new)
  BY <1>3, <1>5 DEF ListOK
<1>17. ListsOK'
  BY <1>1, <1>4, <1>6, <1>16, ListsFrame
<1>18. ZoneOK(own)'
  <2>1. ASSUME own \notin raced', True(own) PROVE True(own)'
    <3>1. e = i /\ e # None
      BY <1>11, <1>13, <1>9, <1>10, <2>1, ZonesAssumption DEF True
    <3> QED  BY <1>1, <1>4, <1>12, <2>1, <3>1 DEF True, Read, RestOK
  <2>2. ASSUME own \notin raced', NEW u \in Active(own) \ {t}, task[u].at = "write" PROVE FALSE
    <3>1. u \in Tasks /\ PlaceOK(task[u])
      BY <1>1, <2>2 DEF Active, PlacesOK
    <3> QED  BY <1>13, <2>2, <3>1 DEF Editing, PlaceOK
  <2> QED  BY <1>1, <1>3, <1>4, <1>5, <1>6, <1>13, <2>1, <2>2, OwnFinishes
<1> QED
  <2>1. ASSUME NEW m \in Names \ {own}
        PROVE  meta'[m] = meta[m] /\ notes'[m] = notes[m] /\ ideal'[m] = ideal[m] /\ zone'[m] = zone[m]
    BY <1>1, <1>4, <1>12 DEF RestOK
  <2> QED  BY <2>1, <1>1, <1>3, <1>4, <1>5, <1>12, <1>13, <1>14, <1>15, <1>17, <1>18, OwnStep

-----------------------------------------------------------------------------
(* A clear is alone with its project, or the project is left out. *)
LEMMA OwnClears ==
  ASSUME NEW own \in Names, ZoneOK(own), NEW t \in Active(own), task[t].op = "clear",
         \A u \in Tasks \ {t} : Alike(u),
         raced' = raced,
         own \notin raced /\ ActiveOK(own, t) =>
           \/ t \notin Active(own)' /\ True(own)'
           \/ /\ t \in Active(own)' /\ task'[t].op = "clear" /\ task'[t].at # "write"
              /\ task'[t].obj = zone'[own]
              /\ task'[t].at = "delete" => Keys(own)' \subseteq task'[t].left /\ ideal'[own] = Empty
              /\ task'[t].at = "pop" => Keys(own)' = {} /\ ideal'[own] = Empty
  PROVE  ZoneOK(own)'
<1> SUFFICES ASSUME own \notin raced
             PROVE  /\ \A u \in Active(own)' : ActiveOK(own, u)'
                    /\ (\A u \in Active(own)' : task'[u].op # "clear") => True(own)'
  BY DEF ZoneOK
<1>1. ActiveOK(own, t) /\ Active(own) = {t}
  BY DEF ZoneOK, ActiveOK
<1>2. Active(own)' \subseteq {t}
  BY <1>1 DEF Active, Busy, Name, Alike
<1>3. CASE t \notin Active(own)' /\ True(own)'
  BY <1>2, <1>3
<1>4. CASE /\ t \in Active(own)' /\ task'[t].op = "clear" /\ task'[t].at # "write"
           /\ task'[t].obj = zone'[own]
           /\ task'[t].at = "delete" => Keys(own)' \subseteq task'[t].left /\ ideal'[own] = Empty
           /\ task'[t].at = "pop" => Keys(own)' = {} /\ ideal'[own] = Empty
  <2>1. Active(own)' = {t}
    BY <1>2, <1>4
  <2>2. ActiveOK(own, t)'
    BY <1>4, <2>1 DEF ActiveOK, Empty
  <2> QED  BY <1>4, <2>1, <2>2
<1> QED  BY <1>1, <1>3, <1>4

LEMMA ClearKeysKeeps ==
  ASSUME ZonesInv, NEW t \in Tasks, ClearKeys(t)
  PROVE  ZonesInv'
<1>1. /\ ClientInv' /\ RestOK /\ task \in [Tasks -> RequestRecord] /\ PlacesOK /\ LocksOK /\ ListsOK
      /\ \A n \in Names : ZoneOK(n)
  BY Parts, ClientSame DEF ClearKeys
<1>2. /\ task[t] \in RequestRecord /\ PlaceOK(task[t]) /\ task[t].at = "keys" /\ Name(t) \in Names
  BY OwnName DEF ClearKeys
<1>3. task[t].op = "clear" /\ Busy(t) /\ t \in Active(Name(t)) /\ task[t].obj \in Tasks
  BY <1>2, OwnName DEF PlaceOK, Busy
<1> PICK own \in Names : own = Name(t)
  BY <1>2
<1>4. UNCHANGED <<meta, notes, reg, zone, metaLock, raced>>
  BY DEF ClearKeys
<1> DEFINE new == [task[t] EXCEPT !.at = "delete", !.left = Keys(own)]
<1>5. Keys(own) \subseteq Tasks \cup {MetaKey}
  BY <1>1 DEF Keys, RestOK
<1>6. /\ new \in RequestRecord /\ new.at = "delete" /\ new.op = task[t].op /\ new.id = task[t].id
      /\ new.obj = task[t].obj /\ new.left = Keys(own) /\ new.file = task[t].file
  BY <1>2, <1>5 DEF RequestRecord, Places
<1>7. task' = [task EXCEPT ![t] = new] /\ ideal' = [ideal EXCEPT ![own] = Empty]
  BY <1>1 DEF ClearKeys, Empty
<1> HIDE DEF new
<1>8. PlaceOK(new) /\ ListOK(new)
  BY <1>3, <1>6 DEF PlaceOK, ListOK
<1>9. task'[t] = new /\ \A u \in Tasks \ {t} : task'[u] = task[u] /\ Alike(u)
  BY <1>1, <1>6, <1>7, <1>8, Moved
<1>10. Empty \in [meta : Metas, notes : SUBSET Tasks]
  BY DEF Empty, Metas, NoMeta
<1>11. RestOK'
  BY <1>1, <1>4, <1>7, <1>10 DEF RestOK
<1>12. LocksOK'
  BY <1>1, <1>2, <1>4, <1>6, <1>9, LocksFrame
<1>13. ListsOK'
  BY <1>1, <1>4, <1>8, <1>9, ListsFrame
<1>14. ZoneOK(own)'
  <2>1. t \in Active(own)'
    BY <1>3, <1>6, <1>9 DEF Active, Busy, Name
  <2>2. ideal'[own] = Empty /\ Keys(own)' = Keys(own)
    BY <1>1, <1>4, <1>7 DEF RestOK, Keys
  <2>3. ActiveOK(own, t) => task'[t].obj = zone'[own]
    BY <1>4, <1>6, <1>9 DEF ActiveOK
  <2> QED  BY <1>1, <1>3, <1>4, <1>6, <1>9, <2>1, <2>2, <2>3, OwnClears
<1> QED
  <2>1. ASSUME NEW m \in Names \ {own}
        PROVE  meta'[m] = meta[m] /\ notes'[m] = notes[m] /\ ideal'[m] = ideal[m] /\ zone'[m] = zone[m]
    BY <1>1, <1>4, <1>7 DEF RestOK
  <2> QED  BY <2>1, <1>1, <1>3, <1>4, <1>6, <1>7, <1>8, <1>11, <1>12, <1>13, <1>14, OwnStep

LEMMA DeleteKeyKeeps ==
  ASSUME ZonesInv, NEW t \in Tasks, DeleteKey(t)
  PROVE  ZonesInv'
<1>1. /\ ClientInv' /\ RestOK /\ task \in [Tasks -> RequestRecord] /\ PlacesOK /\ LocksOK /\ ListsOK
      /\ \A n \in Names : ZoneOK(n)
  BY Parts, ClientSame DEF DeleteKey
<1>2. /\ task[t] \in RequestRecord /\ PlaceOK(task[t]) /\ task[t].at = "delete" /\ Name(t) \in Names
  BY OwnName DEF DeleteKey
<1>3. task[t].op = "clear" /\ Busy(t) /\ t \in Active(Name(t)) /\ task[t].obj \in Tasks
  BY <1>2, OwnName DEF PlaceOK, Busy
<1> PICK own \in Names : own = Name(t)
  BY <1>2
<1>4. UNCHANGED <<reg, zone, metaLock, ideal, raced>>
  BY DEF DeleteKey
<1>5. PICK k \in task[t].left :
        /\ meta'  = IF k = MetaKey THEN [meta EXCEPT ![own] = None] ELSE meta
        /\ notes' = [notes EXCEPT ![own] = @ \ {k}]
        /\ task' = [task EXCEPT ![t].left = @ \ {k}]
  BY DEF DeleteKey
<1> DEFINE new == [task[t] EXCEPT !.left = @ \ {k}]
<1>6. /\ new \in RequestRecord /\ new.at = "delete" /\ new.op = task[t].op /\ new.id = task[t].id
      /\ new.obj = task[t].obj /\ new.left = task[t].left \ {k} /\ new.file = task[t].file
  BY <1>2 DEF RequestRecord
<1>7. task' = [task EXCEPT ![t] = new]
  BY <1>5
<1> HIDE DEF new
<1>8. PlaceOK(new) /\ ListOK(new)
  BY <1>2, <1>3, <1>6 DEF PlaceOK, ListOK
<1>9. task'[t] = new /\ \A u \in Tasks \ {t} : task'[u] = task[u] /\ Alike(u)
  BY <1>1, <1>6, <1>7, <1>8, Moved
<1>10. RestOK'
  BY <1>1, <1>4, <1>5 DEF RestOK
<1>11. LocksOK'
  BY <1>1, <1>2, <1>4, <1>6, <1>9, LocksFrame
<1>12. ListsOK'
  BY <1>1, <1>4, <1>8, <1>9, ListsFrame
<1>13. ZoneOK(own)'
  <2>1. t \in Active(own)'
    BY <1>3, <1>6, <1>9 DEF Active, Busy, Name
  <2>2. Keys(own)' \subseteq Keys(own) \ {k}
    <3>1. notes'[own] = notes[own] \ {k} /\ MetaKey \notin notes[own]
      BY <1>1, <1>5, ZonesAssumption DEF RestOK
    <3>2. meta'[own] = IF k = MetaKey THEN None ELSE meta[own]
      BY <1>1, <1>5 DEF RestOK
    <3> QED  BY <3>1, <3>2 DEF Keys
  <2>3. ActiveOK(own, t) => Keys(own) \subseteq task[t].left /\ ideal[own] = Empty /\ task[t].obj = zone[own]
    BY <1>2 DEF ActiveOK
  <2> QED  BY <1>1, <1>3, <1>4, <1>6, <1>9, <2>1, <2>2, <2>3, OwnClears
<1> QED
  <2>1. ASSUME NEW m \in Names \ {own}
        PROVE  meta'[m] = meta[m] /\ notes'[m] = notes[m] /\ ideal'[m] = ideal[m] /\ zone'[m] = zone[m]
    BY <1>1, <1>4, <1>5 DEF RestOK
  <2> QED  BY <2>1, <1>1, <1>3, <1>4, <1>6, <1>7, <1>8, <1>10, <1>11, <1>12, <1>13, OwnStep

LEMMA PopZoneKeeps ==
  ASSUME ZonesInv, NEW t \in Tasks, PopZone(t)
  PROVE  ZonesInv'
<1>1. /\ TypeOK /\ ClientInv' /\ RestOK /\ task \in [Tasks -> RequestRecord] /\ PlacesOK /\ LocksOK /\ ListsOK
      /\ \A n \in Names : ZoneOK(n)
  BY Parts, ClientSame DEF PopZone, ZonesInv
<1>2. /\ task[t] \in RequestRecord /\ PlaceOK(task[t]) /\ task[t].at = "pop" /\ Name(t) \in Names
  BY OwnName DEF PopZone
<1>3. task[t].op = "clear" /\ Busy(t) /\ t \in Active(Name(t))
  BY <1>2, OwnName DEF PlaceOK, Busy
<1> PICK own \in Names : own = Name(t)
  BY <1>2
<1>4. UNCHANGED <<meta, notes, reg, metaLock, ideal, raced>> /\ zone' = [zone EXCEPT ![own] = None]
  BY DEF PopZone
<1>5. PICK new \in RequestRecord :
        /\ task' = [task EXCEPT ![t] = new]
        /\ new.op = task[t].op /\ new.at = "done" /\ new.got = {} /\ new.must = task[t].must
        /\ PlaceOK(new)
  BY <1>1, FinishRecord DEF PopZone
<1>6. task'[t] = new /\ \A u \in Tasks \ {t} : task'[u] = task[u] /\ Alike(u)
  BY <1>1, <1>5, Moved
<1>7. RestOK'
  BY <1>1, <1>4 DEF RestOK
<1>8. LocksOK'
  BY <1>1, <1>2, <1>4, <1>5, <1>6, LocksFrame
<1>9. ListOK(new)
  BY <1>3, <1>5 DEF ListOK
<1>10. ListsOK'
  BY <1>1, <1>4, <1>6, <1>9, ListsFrame
<1>11. ZoneOK(own)'
  <2>1. t \notin Active(own)'
    BY <1>5, <1>6 DEF Active, Busy
  <2>2. ASSUME ActiveOK(own, t) PROVE True(own)'
    <3>1. Keys(own) = {} /\ ideal[own] = Empty
      BY <1>2, <2>2 DEF ActiveOK
    <3>2. meta[own] = None /\ notes[own] = {}
      BY <3>1 DEF Keys
    <3>3. Read(meta[own]) = ideal[own].meta /\ notes[own] = ideal[own].notes
      BY <3>1, <3>2 DEF Read, Empty
    <3> QED  BY <1>4, <3>3 DEF True
  <2> QED  BY <1>1, <1>3, <1>4, <1>6, <2>1, <2>2, OwnClears
<1> QED
  <2>1. ASSUME NEW m \in Names \ {own}
        PROVE  meta'[m] = meta[m] /\ notes'[m] = notes[m] /\ ideal'[m] = ideal[m] /\ zone'[m] = zone[m]
    BY <1>1, <1>4 DEF RestOK
  <2> QED  BY <2>1, <1>1, <1>3, <1>4, <1>5, <1>7, <1>8, <1>10, <1>11, OwnStep

-----------------------------------------------------------------------------
(* The registry. *)
LEMMA UnregisterKeeps ==
  ASSUME ZonesInv, NEW t \in Tasks, Unregister(t)
  PROVE  ZonesInv'
<1>1. /\ ClientInv' /\ RestOK /\ task \in [Tasks -> RequestRecord] /\ PlacesOK /\ LocksOK /\ ListsOK
      /\ \A n \in Names : ZoneOK(n)
  BY Parts, ClientSame DEF Unregister
<1>2. /\ task[t] \in RequestRecord /\ PlaceOK(task[t]) /\ task[t].at = "delete" /\ task[t].left = {}
      /\ Name(t) \in Names
  BY OwnName DEF Unregister
<1>3. task[t].op = "clear" /\ Busy(t) /\ t \in Active(Name(t)) /\ task[t].obj \in Tasks
  BY <1>2, OwnName DEF PlaceOK, Busy
<1> PICK own \in Names : own = Name(t)
  BY <1>2
<1>4. UNCHANGED <<meta, notes, zone, metaLock, ideal, raced>> /\ reg' = [reg EXCEPT ![own] = None]
  BY DEF Unregister
<1>5. task' = [u \in Tasks |-> IF u = t THEN [task[t] EXCEPT !.at = "pop"]
                               ELSE [task[u] EXCEPT !.must = @ \ {own}]]
  BY DEF Unregister
<1>6. /\ task'[t] \in RequestRecord /\ task'[t].at = "pop" /\ task'[t].op = task[t].op
      /\ task'[t].id = task[t].id /\ task'[t].obj = task[t].obj
  BY <1>2, <1>5 DEF RequestRecord, Places
<1>7. ASSUME NEW u \in Tasks \ {t}
      PROVE  /\ task'[u] \in RequestRecord /\ Alike(u) /\ task'[u].file = task[u].file
             /\ task'[u].got = task[u].got /\ task'[u].must = task[u].must \ {own}
  <2>1. task[u] \in RequestRecord /\ task'[u] = [task[u] EXCEPT !.must = @ \ {own}]
    BY <1>1, <1>5
  <2> QED  BY <2>1 DEF RequestRecord, Alike
<1>8. task' \in [Tasks -> RequestRecord]
  <2>1. \A u \in Tasks : task'[u] \in RequestRecord
    BY <1>6, <1>7
  <2> QED  BY <1>5, <2>1
<1>9. PlacesOK'
  <2>1. PlaceOK(task'[t])
    BY <1>3, <1>6 DEF PlaceOK
  <2>2. ASSUME NEW u \in Tasks \ {t} PROVE PlaceOK(task'[u])
    <3>1. PlaceOK(task[u])
      BY <1>1 DEF PlacesOK
    <3> QED  BY <1>7, <3>1 DEF PlaceOK, Alike
  <2> QED  BY <2>1, <2>2 DEF PlacesOK, PlaceOK
<1>10. RestOK'
  BY <1>1, <1>4 DEF RestOK
<1>11. LocksOK'
  BY <1>1, <1>2, <1>4, <1>6, <1>7, LocksFrame
<1>12. ListsOK'
  <2>1. \A n \in Names : n # own => reg'[n] = reg[n]
    BY <1>1, <1>4 DEF RestOK
  <2>2. reg'[own] = None
    BY <1>1, <1>4 DEF RestOK
  <2>3. ASSUME NEW u \in Tasks \ {t} PROVE ListOK(task[u]) /\ task[u].must \subseteq Names
    BY <1>1 DEF ListsOK, RequestRecord
  <2>4. ASSUME NEW u \in Tasks PROVE ListOK(task[u])'
    <3>1. CASE u = t
      BY <1>6, <3>1 DEF ListOK
    <3>2. CASE u # t
      BY <1>7, <2>1, <2>3, <3>2 DEF ListOK, Lists, Alike
    <3> QED  BY <3>1, <3>2
  <2> QED  BY <1>1, <2>1, <2>2, <2>4 DEF ListsOK
<1>13. ASSUME NEW n \in Names PROVE ZoneOK(n)'
  <2>1. CASE n = own
    <3>1. t \in Active(own)'
      BY <1>3, <1>6 DEF Active, Busy, Name
    <3>2. ActiveOK(own, t) => Keys(own)' = {} /\ ideal[own] = Empty /\ task[t].obj = zone[own]
      BY <1>2, <1>4 DEF ActiveOK, Keys
    <3> QED  BY <1>1, <1>3, <1>4, <1>6, <1>7, <2>1, <3>1, <3>2, OwnClears
  <2>2. CASE n # own
    <3>1. t \notin Active(n) /\ t \notin Active(n)'
      BY <1>6, <2>2 DEF Active, Busy, Name
    <3> QED  BY <1>1, <1>4, <1>7, <2>2, <3>1, ZoneFrame
  <2> QED  BY <2>1, <2>2
<1> QED  BY <1>1, <1>8, <1>9, <1>10, <1>11, <1>12, <1>13, InvPrimed

LEMMA RegisterKeeps ==
  ASSUME ZonesInv, NEW t \in Tasks, Register(t)
  PROVE  ZonesInv'
<1>1. /\ TypeOK /\ ClientInv' /\ RestOK /\ task \in [Tasks -> RequestRecord] /\ PlacesOK /\ LocksOK /\ ListsOK
      /\ \A n \in Names : ZoneOK(n)
  BY Parts, ClientSame DEF Register, ZonesInv
<1>2. /\ task[t] \in RequestRecord /\ PlaceOK(task[t]) /\ task[t].at = "register" /\ Name(t) \in Names
      /\ task[t].id \in Ids /\ Safe[task[t].id] = Name(t)
  BY OwnName DEF Register
<1>3. task[t].op = "register" /\ Busy(t)
  BY <1>2, OwnName DEF PlaceOK, Busy
<1> PICK own \in Names : own = Name(t)
  BY <1>2
<1>4. UNCHANGED <<meta, notes, zone, metaLock, ideal, raced>> /\ reg' = [reg EXCEPT ![own] = task[t].id]
  BY DEF Register
<1>5. PICK new \in RequestRecord :
        /\ task' = [task EXCEPT ![t] = new]
        /\ new.op = task[t].op /\ new.at = "done" /\ new.got = {} /\ new.must = task[t].must
        /\ PlaceOK(new)
  BY <1>1, FinishRecord DEF Register
<1>6. task'[t] = new /\ \A u \in Tasks \ {t} : task'[u] = task[u] /\ Alike(u)
  BY <1>1, <1>5, Moved
<1>7. RestOK'
  BY <1>1, <1>2, <1>4 DEF RestOK
<1>8. LocksOK'
  BY <1>1, <1>2, <1>4, <1>5, <1>6, LocksFrame
<1>9. ListsOK'
  <2>1. None \notin Ids
    BY ZonesAssumption
  <2>2. \A n \in Names : reg'[n] = IF n = own THEN task[t].id ELSE reg[n]
    BY <1>1, <1>4 DEF RestOK
  <2>3. ASSUME NEW u \in Tasks PROVE ListOK(task[u])'
    <3>1. CASE u = t
      BY <1>3, <1>5, <1>6, <3>1 DEF ListOK
    <3>2. CASE u # t
      <4>1. ListOK(task[u]) /\ task'[u] = task[u] /\ task[u].must \subseteq Names
        BY <1>1, <1>6, <3>2 DEF ListsOK, RequestRecord
      <4> QED  BY <1>2, <2>1, <2>2, <4>1 DEF ListOK, Lists
    <3> QED  BY <3>1, <3>2
  <2> QED  BY <1>1, <1>2, <2>2, <2>3 DEF ListsOK
<1>10. ZoneOK(own)'
  <2>1. t \notin Active(own)'
    BY <1>5, <1>6 DEF Active, Busy
  <2> QED  BY <1>1, <1>3, <1>4, <1>6, <2>1, ZoneFrame
<1> QED  BY <1>1, <1>3, <1>4, <1>5, <1>7, <1>8, <1>9, <1>10, OwnStep

-----------------------------------------------------------------------------
(* A request begins. *)
LEMMA BeginKeeps ==
  ASSUME ZonesInv, NEW t \in Tasks, NEW op \in Ops[t], NEW id \in Ids, NEW file \in Files \cup {None},
         op \in {"addFile", "removeFile"} <=> file # None, Begin(t, op, id, file)
  PROVE  ZonesInv'
<1>1. /\ ClientInv' /\ RestOK /\ task \in [Tasks -> RequestRecord] /\ PlacesOK /\ LocksOK /\ ListsOK
      /\ \A n \in Names : ZoneOK(n)
  BY Parts, ClientSame DEF Begin
<1>2. /\ op \in {"describe", "addFile", "removeFile", "remember", "infer", "goals", "clear", "register", "list"}
      /\ op \in UNION {Ops[u] : u \in Tasks}
  BY ZonesAssumption DEF Edits
<1>3. PICK n \in Names : n = Safe[id]
  BY NamesAreIds
<1>4. PICK o : o = Found(n, t)
  OBVIOUS
<1>5. o \in Tasks /\ (zone[n] # None => o = zone[n])
  BY <1>1, <1>4 DEF RestOK, Found
<1>6. PICK st \in Places :
        /\ st = CASE op \in Edits             -> "lock"
                  [] op \in {"infer", "goals"} -> "read"
                  [] op = "remember"           -> "set"
                  [] op = "clear"              -> "keys"
                  [] OTHER                     -> op
        /\ st = "lock" <=> op \in Edits
        /\ st = "read" <=> op \in {"infer", "goals"}
        /\ st = "set" <=> op = "remember"
        /\ st = "keys" <=> op = "clear"
        /\ st = "register" <=> op = "register"
        /\ st = "list" <=> op = "list"
        /\ st \notin {"idle", "write", "model", "put", "delete", "pop", "listing", "done"}
  BY <1>2 DEF Places, Edits
<1> DEFINE new == [NoRequest EXCEPT !.op = op, !.at = st, !.id = id, !.file = file,
                                    !.obj = IF op = "list" THEN None ELSE o]
<1>7. NoMeta \in Metas
  BY DEF Metas, NoMeta
<1>8. /\ new \in RequestRecord /\ new.op = op /\ new.at = st /\ new.id = id /\ new.file = file
      /\ new.obj = IF op = "list" THEN None ELSE o
  BY <1>2, <1>5, <1>6, <1>7 DEF NoRequest, RequestRecord
<1>9. task[t].at = "idle" /\ task' = [task EXCEPT ![t] = new]
  BY <1>3, <1>4, <1>6 DEF Begin
<1> HIDE DEF new
<1>10. PlaceOK(new) /\ ListOK(new)
  <2>1. new.op \in {"addFile", "removeFile"} => new.file \in Files
    BY <1>8
  <2>2. new.at = "lock" => new.op \in Edits
    BY <1>6, <1>8
  <2> QED  BY <1>2, <1>5, <1>6, <1>8, <2>1, <2>2 DEF PlaceOK, ListOK
<1>11. /\ task' \in [Tasks -> RequestRecord] /\ task'[t] = new
       /\ \A u \in Tasks \ {t} : task'[u] = task[u] /\ Alike(u)
       /\ PlacesOK'
  BY <1>1, <1>8, <1>9, <1>10, Moved
<1>12. /\ UNCHANGED <<meta, notes, reg, ideal>>
       /\ zone' = IF op = "list" THEN zone ELSE [zone EXCEPT ![n] = o]
       /\ IF op \in Edits THEN Into(o, t) ELSE UNCHANGED metaLock
       /\ raced' = raced \cup IF op = "list" THEN {} ELSE Meets(n, op)
  BY <1>3, <1>4 DEF Begin
<1>13. LocksOK' /\ metaLock' \in [Tasks -> Seq(Tasks)]
  <2>1. CASE op \in Edits
    <3>1. new.at = "lock" /\ new.obj = o
      BY <1>6, <1>8, <2>1 DEF Edits
    <3> QED  BY <1>1, <1>5, <1>9, <1>11, <1>12, <2>1, <3>1, JoinsLock DEF RestOK
  <2>2. CASE op \notin Edits
    <3>1. new.at \notin {"lock", "write"} /\ metaLock' = metaLock
      BY <1>6, <1>8, <1>12, <2>2
    <3> QED  BY <1>1, <1>9, <1>11, <3>1, LocksFrame DEF RestOK
  <2> QED  BY <2>1, <2>2
<1>14. Meets(n, op) \subseteq {n}
  BY DEF Meets
<1>15. RestOK'
  BY <1>1, <1>5, <1>12, <1>13, <1>14 DEF RestOK
<1>16. ListsOK'
  BY <1>1, <1>10, <1>11, <1>12, ListsFrame
<1>17. \A m \in Names : t \notin Active(m)
  BY <1>9, NoneActive
<1>18. ASSUME NEW m \in Names, op = "list" \/ m # n PROVE ZoneOK(m)'
  <2>1. t \notin Active(m)'
    BY <1>3, <1>8, <1>11, <1>18 DEF Active, Name
  <2>2. zone'[m] = zone[m] /\ raced \subseteq raced'
    BY <1>1, <1>12, <1>18 DEF RestOK
  <2> QED  BY <1>1, <1>11, <1>12, <1>17, <2>1, <2>2, ZoneFrame
<1>19. CASE op # "list"
  <2> SUFFICES ZoneOK(n)'
    BY <1>1, <1>11, <1>13, <1>15, <1>16, <1>18, InvPrimed
  <2> SUFFICES ASSUME n \notin raced'
               PROVE  /\ \A u \in Active(n)' : ActiveOK(n, u)'
                      /\ (\A u \in Active(n)' : task'[u].op # "clear") => True(n)'
    BY DEF ZoneOK
  <2>1. n \notin raced /\ (Active(n) = {} \/ (op # "clear" /\ \A u \in Active(n) : task[u].op # "clear"))
    BY <1>12, <1>19 DEF Meets
  <2>2. /\ \A u \in Active(n) : ActiveOK(n, u)
        /\ (\A u \in Active(n) : task[u].op # "clear") => True(n)
    BY <1>1, <2>1 DEF ZoneOK
  <2>3. Active(n)' = Active(n) \cup {t}
    <3>1. \A u \in Tasks \ {t} : u \in Active(n)' <=> u \in Active(n)
      BY <1>11 DEF Active, Busy, Name
    <3>2. t \in Active(n)'
      BY <1>3, <1>6, <1>8, <1>11, <1>19 DEF Active, Busy, Name
    <3> QED  BY <3>1, <3>2 DEF Active
  <2>4. zone'[n] = o /\ (Active(n) # {} => o = zone[n])
    <3>1. zone'[n] = o
      BY <1>1, <1>12, <1>19 DEF RestOK
    <3>2. ASSUME NEW u \in Active(n) PROVE zone[n] \in Tasks
      <4>1. PlaceOK(task[u]) /\ Busy(u) /\ task[u].op # "list"
        BY <1>1 DEF Active, PlacesOK
      <4> QED  BY <2>2, <4>1 DEF ActiveOK, PlaceOK, Busy
    <3>3. None \notin Tasks
      BY ZonesAssumption
    <3> QED  BY <1>5, <3>1, <3>2, <3>3
  <2>5. Keys(n)' = Keys(n) /\ (True(n)' <=> True(n)) /\ Read(meta[n])' = Read(meta[n])
    BY <1>12 DEF Keys, True, Read
  <2>6. ASSUME NEW u \in Active(n) PROVE ActiveOK(n, u)' /\ task'[u].op = task[u].op
    <3>1. u \in Tasks \ {t} /\ task'[u] = task[u] /\ task[u].op # "clear" /\ ActiveOK(n, u) /\ zone'[n] = zone[n]
      BY <1>11, <1>17, <2>1, <2>2, <2>4 DEF Active
    <3> QED  BY <1>12, <2>5, <3>1 DEF ActiveOK
  <2>7. ActiveOK(n, t)'
    <3>1. new.at \notin {"write", "delete", "pop"} /\ new.obj = o
      BY <1>6, <1>8, <1>19
    <3>2. op = "clear" => Active(n)' = {t}
      BY <2>1, <2>3
    <3> QED  BY <1>8, <1>11, <2>4, <3>1, <3>2 DEF ActiveOK
  <2>8. (\A u \in Active(n)' : task'[u].op # "clear") => True(n)'
    BY <2>2, <2>3, <2>5, <2>6
  <2> QED  BY <2>3, <2>6, <2>7, <2>8
<1> QED  BY <1>1, <1>11, <1>13, <1>15, <1>16, <1>18, <1>19, InvPrimed

-----------------------------------------------------------------------------
LEMMA InitHolds ==
  ASSUME Init
  PROVE  ZonesInv
<1>1. NoMeta \in Metas /\ Stored \in Metas
  BY DEF NoMeta, Stored, Metas
<1>2. ClientInv
  BY ClientAssumption DEF Init, ClientInit, ClientInv, ClientTypeOK, ClientOK, NoCall
<1>3. \A n \in Names : Read(meta[n]) \in Metas
  BY <1>1 DEF Init, Read
<1>4. RestOK
  <2>1. meta \in [Names -> Metas \cup {None}]
    BY <1>1 DEF Init
  <2>2. ideal \in [Names -> [meta : Metas, notes : SUBSET Tasks]]
    BY <1>3 DEF Init
  <2>3. reg \in [Names -> Ids \cup {None}]
    BY NamesAreIds DEF Init
  <2> QED  BY <2>1, <2>2, <2>3 DEF Init, RestOK
<1>5. NoRequest \in RequestRecord
  <2>1. DefaultId \in Ids
    BY ZonesAssumption
  <2> QED  BY <1>1, <2>1 DEF NoRequest, RequestRecord, Places
<1>6. task \in [Tasks -> RequestRecord] /\ \A t \in Tasks : task[t] = NoRequest /\ task[t].at = "idle"
  BY <1>5 DEF Init, NoRequest
<1>7. PlacesOK
  BY <1>6 DEF PlacesOK, PlaceOK, NoRequest
<1>8. LocksOK
  <2>1. \A o \in Tasks : metaLock[o] = <<>>
    BY DEF Init
  <2>2. ASSUME NEW o \in Tasks PROVE Injective(metaLock[o]) /\ ToSet(metaLock[o]) = {}
    BY <2>1 DEF Injective, ToSet
  <2> QED  BY <1>6, <2>2 DEF LocksOK
<1>9. ListsOK
  BY <1>6, NamesAreIds DEF Init, ListsOK, ListOK
<1>10. \A n \in Names : ZoneOK(n)
  <2>1. \A n \in Names : Active(n) = {}
    BY <1>6 DEF Active, Busy
  <2>2. \A n \in Names : True(n)
    BY DEF Init, True
  <2> QED  BY <2>1, <2>2 DEF ZoneOK
<1> QED  BY <1>2, <1>4, <1>6, <1>7, <1>8, <1>9, <1>10, Parts

LEMMA NextKeeps ==
  ASSUME ZonesInv, [Next]_vars
  PROVE  ZonesInv'
<1>1. CASE Instance
  BY <1>1, Parts, CloseKeeps, SameZones DEF Instance
<1>2. ASSUME NEW t \in Tasks, Requests(t) PROVE ZonesInv'
  BY <1>2, BeginKeeps DEF Requests
<1>3. ASSUME NEW t \in Tasks, Continue(t) PROVE ZonesInv'
  <2>1. CASE Asks(t)
    <3>1. ClientInv'
      BY <2>1, Parts, ServeKeeps, ZonesAssumption DEF Asks
    <3> QED  BY <2>1, <3>1, SameZones DEF Asks
  <2> QED  BY <1>3, <2>1, LockMetaKeeps, WriteMetaKeeps, RememberKeeps, ReadMetaKeeps, AnsweredKeeps,
              PutMetaKeeps, ClearKeysKeeps, DeleteKeyKeeps, UnregisterKeeps, PopZoneKeeps, RegisterKeeps,
              ListNamesKeeps, ListOneKeeps, ListEndsKeeps DEF Continue
<1>4. CASE UNCHANGED vars
  BY <1>4, Parts, ClientSame, SameZones DEF vars
<1> QED  BY <1>1, <1>2, <1>3, <1>4 DEF Next

(* A zone's lock is in the hands of one edit at a time, the requests of a
   project share its zone, and an edit writes over what it read, unless a clear
   or an inference met them (project.py:205-299, project_intelligence.py:47-75). *)
THEOREM ZonesInvariant == Spec => []ZonesInv
<1>1. Init => ZonesInv
  BY InitHolds
<1>2. ZonesInv /\ [Next]_vars => ZonesInv'
  BY NextKeeps
<1> QED  BY <1>1, <1>2, PTL DEF Spec

(* No edit and no value of a project is lost and a clear leaves nothing, for
   any number of requests at once, and a listing has what was registered all
   the time (project.py:215, 334-354). *)
THEOREM ZonesStayTrue == Spec => []ZonesAreTrue
<1>1. ZonesInv => ZonesAreTrue
  <2> SUFFICES ASSUME ZonesInv PROVE ZonesAreTrue
    OBVIOUS
  <2>1. NothingLost
    BY DEF ZonesInv, NothingLost, ZoneOK, True
  <2>2. ListIsWhole
    BY DEF ZonesInv, ListIsWhole, ListsOK, ListOK, Lists
  <2> QED  BY <2>1, <2>2 DEF ZonesInv, ZonesAreTrue
<1> QED  BY <1>1, ZonesInvariant, PTL

(* Once close has returned, the connections that are open are those of the
   client in use (base.py:325-328, framework.py:1290-1297). *)
THEOREM ClientStaysOpen == Spec => []ClientIsOpen
<1>1. ZonesInv => ClientIsOpen
  BY DEF ZonesInv, ClientOK, ClientIsOpen
<1> QED  BY <1>1, ZonesInvariant, PTL
=============================================================================
