----------------------------- MODULE ProjectZones -----------------------------
(***************************************************************************)
(* Per-project memory (src/autumn/core/memory/project.py) under concurrent *)
(* requests: zones created on first use and cached by sanitized id, the    *)
(* metadata of a zone edited under a lock of the zone's object, values     *)
(* remembered under keys, a registry of ids, clearing, and what A1 infers  *)
(* from the metadata (src/autumn/core/project_intelligence.py).  Every     *)
(* wait for the backend or the model lets other requests run.              *)
(***************************************************************************)
EXTENDS ModelClient, SequencesExt

CONSTANTS
  Tasks,        \* tasks of requests; Callers are these
  Ids,          \* project ids, DefaultId and sanitized ids among them
  Safe,         \* Safe[i]: the id sanitized, the name of its namespace
  DefaultId,    \* the project of requests that carry none
  Files,        \* paths
  Ops,          \* Ops[t]: the requests t may be
  None

VARIABLES
  meta,         \* meta[n]: what is stored under __meta__, or None
  notes,        \* notes[n]: the other keys, named by the request that set them
  reg,          \* reg[n]: the id in the registry, or None
  zone,         \* _zones[n], by the task that made it, or None
  metaLock,     \* metaLock[o]: _meta_lock of zone o: its holder, then its waiters
  task,         \* task[t]: the request
  ideal,        \* what each finished request should have left, in order
  raced         \* names where a clear met another request, or an inference an edit

zvars == <<meta, notes, reg, zone, metaLock, task, ideal, raced>>
vars  == <<zvars, hvars>>

Names == {Safe[i] : i \in Ids}

(* description and environment are named by the request that wrote them. *)
NoMeta == [description |-> None, files |-> {}, environment |-> None]
Metas == [description : Tasks \cup {None}, files : SUBSET Files, environment : Tasks \cup {None}]

MetaKey == "__meta__"
Edits == {"describe", "addFile", "removeFile"}

ASSUME ZonesAssumption ==
  /\ Callers = Tasks /\ DefaultId \in Ids
  /\ None \notin Tasks \cup Ids \cup Metas /\ MetaKey \notin Tasks
  /\ Safe \in [Ids -> Ids] /\ \A i \in Ids : Safe[Safe[i]] = Safe[i]
  /\ Ops \in [Tasks -> SUBSET (Edits \cup {"remember", "infer", "goals", "clear", "register", "list"})]

(* obj: the zone; saw: what was read; left: keys or names to go over;
   got: the answer; must: names registered throughout. *)
NoRequest == [op |-> "none", at |-> "idle", id |-> DefaultId, file |-> None, obj |-> None,
              saw |-> NoMeta, left |-> {}, got |-> {}, must |-> {}]

Read(m) == IF m = None THEN NoMeta ELSE m

TypeOK ==
  /\ ClientTypeOK
  /\ meta \in [Names -> Metas \cup {None}]
  /\ notes \in [Names -> SUBSET Tasks]
  /\ reg \in [Names -> Ids \cup {None}]
  /\ zone \in [Names -> Tasks \cup {None}]
  /\ metaLock \in [Tasks -> Seq(Tasks)]
  /\ task \in [Tasks ->
       [op : {"none"} \cup UNION {Ops[u] : u \in Tasks}, id : Ids, file : Files \cup {None}, obj : Tasks \cup {None},
        at : {"idle", "lock", "write", "read", "model", "put", "set", "keys", "delete", "pop",
              "register", "list", "listing", "done"},
        saw : Metas, got : SUBSET Ids, must : SUBSET Names,
        left : SUBSET (Names \cup Tasks \cup {MetaKey})]]
  /\ ideal \in [Names -> [meta : Metas, notes : SUBSET Tasks]] /\ raced \subseteq Names

(* The process starts over a backend that holds registered projects, one of
   them with metadata. *)
Stored == [NoMeta EXCEPT !.files = Files]

Init ==
  /\ ClientInit
  /\ meta = [n \in Names |-> IF n = Safe[DefaultId] THEN Stored ELSE None]
  /\ reg  = [n \in Names |-> n]
  /\ notes = [n \in Names |-> {}] /\ zone = [n \in Names |-> None]
  /\ metaLock = [t \in Tasks |-> <<>>]
  /\ task = [t \in Tasks |-> NoRequest]
  /\ ideal = [n \in Names |-> [meta |-> Read(meta[n]), notes |-> {}]] /\ raced = {}

-----------------------------------------------------------------------------
Name(t)   == Safe[task[t].id]
Busy(t)   == task[t].at \notin {"idle", "done"}
Active(n) == {t \in Tasks : Busy(t) /\ task[t].op # "list" /\ Name(t) = n}
Go(t, st) == task' = [task EXCEPT ![t].at = st]
Finish(t, got) ==
  task' = [task EXCEPT ![t] = [NoRequest EXCEPT !.op = task[t].op, !.at = "done",
                                                !.got = got, !.must = task[t].must]]

(* Mutant: a zone is made for every call. *)
FoundNever(n, t) == t

(* zone: the cached object of the name, or a new one. *)
Found(n, t) == IF zone[n] = None THEN t ELSE zone[n]

Into(o, t) == metaLock' = [metaLock EXCEPT ![o] = Append(@, t)]
Holds(t)   == metaLock[task[t].obj] # <<>> /\ Head(metaLock[task[t].obj]) = t

(* Mutant: an early return keeps the lock. *)
OutIfStored(o) ==
  metaLock' = [metaLock EXCEPT ![o] = IF task[Head(@)].at = "write" THEN Tail(@) ELSE @]

Out(o) == metaLock' = [metaLock EXCEPT ![o] = Tail(@)]

(* A clear and another request of the same project at one time. *)
Meets(n, op) ==
  IF Active(n) # {} /\ (op = "clear" \/ \E u \in Active(n) : task[u].op = "clear")
  THEN {n} ELSE {}

(* What an edit makes of the metadata; what is left as it was is not stored. *)
Edited(t, m) ==
  CASE task[t].op = "describe"   -> [m EXCEPT !.description = t]
    [] task[t].op = "addFile"    -> [m EXCEPT !.files = @ \cup {task[t].file}]
    [] task[t].op = "removeFile" -> [m EXCEPT !.files = @ \ {task[t].file}]

Stores(t, m) == task[t].op = "describe" \/ Edited(t, m) # m

-----------------------------------------------------------------------------
(* A request up to its first wait. *)
Begin(t, op, id, file) ==
  LET n == Safe[id]
      o == Found(n, t)
      st == CASE op \in Edits             -> "lock"
              [] op \in {"infer", "goals"} -> "read"
              [] op = "remember"           -> "set"
              [] op = "clear"              -> "keys"
              [] OTHER                     -> op
  IN /\ task[t].at = "idle"
     /\ task' = [task EXCEPT ![t] = [NoRequest EXCEPT
          !.op = op, !.at = st, !.id = id, !.file = file,
          !.obj = IF op = "list" THEN None ELSE o]]
     /\ zone' = IF op = "list" THEN zone ELSE [zone EXCEPT ![n] = o]
     /\ IF op \in Edits THEN Into(o, t) ELSE UNCHANGED metaLock
     /\ raced' = raced \cup IF op = "list" THEN {} ELSE Meets(n, op)
     /\ UNCHANGED <<meta, notes, reg, ideal, hvars>>

(* An edit has the lock and reads the metadata. *)
LockMeta(t) ==
  /\ task[t].at = "lock" /\ Holds(t)
  /\ LET m == Read(meta[Name(t)]) IN
     IF Stores(t, m)
     THEN task' = [task EXCEPT ![t].at = "write", ![t].saw = m] /\ UNCHANGED metaLock
     ELSE Finish(t, {}) /\ Out(task[t].obj)
  /\ UNCHANGED <<meta, notes, reg, zone, ideal, raced, hvars>>

WriteMeta(t) ==
  /\ task[t].at = "write"
  /\ meta' = [meta EXCEPT ![Name(t)] = Edited(t, task[t].saw)]
  /\ ideal' = [ideal EXCEPT ![Name(t)].meta = Edited(t, @)]
  /\ Out(task[t].obj) /\ Finish(t, {})
  /\ UNCHANGED <<notes, reg, zone, raced, hvars>>

(* The remember skill, in the zone of the current project. *)
Remember(t) ==
  /\ task[t].at = "set"
  /\ notes' = [notes EXCEPT ![Name(t)] = @ \cup {t}]
  /\ ideal' = [ideal EXCEPT ![Name(t)].notes = @ \cup {t}]
  /\ Finish(t, {})
  /\ UNCHANGED <<meta, reg, zone, metaLock, raced, hvars>>

(* infer_environment and draft_goals read the metadata and ask A1. *)
ReadMeta(t) ==
  /\ task[t].at = "read"
  /\ task' = [task EXCEPT ![t].at = "model", ![t].saw = Read(meta[Name(t)])]
  /\ Complete(t)
  /\ UNCHANGED <<meta, notes, reg, zone, metaLock, ideal, raced>>

Asks(t) ==
  /\ task[t].at = "model" /\ Serve(t)
  /\ UNCHANGED zvars

(* A draft is not saved; an error goes to the client. *)
Answered(t) ==
  /\ task[t].at = "model" /\ req[t].at \in {"ok", "failed"}
  /\ IF req[t].at = "ok" /\ task[t].op = "infer" THEN Go(t, "put") ELSE Finish(t, {})
  /\ UNCHANGED <<meta, notes, reg, zone, metaLock, ideal, raced, hvars>>

(* An edit has read the metadata and not written them. *)
Editing(n) == \E u \in Active(n) : task[u].op \in Edits /\ task[u].at = "write"

(* infer_environment stores all of the metadata, with the environment it
   could read in the answer, and without the lock. *)
PutMeta(t) ==
  /\ task[t].at = "put"
  /\ \E env \in {t, task[t].saw.environment} :
       /\ meta' = [meta EXCEPT ![Name(t)] = [task[t].saw EXCEPT !.environment = env]]
       /\ ideal' = [ideal EXCEPT ![Name(t)].meta.environment = env]
  /\ raced' = raced \cup IF Read(meta[Name(t)]) # task[t].saw \/ Editing(Name(t)) THEN {Name(t)} ELSE {}
  /\ Finish(t, {})
  /\ UNCHANGED <<notes, reg, zone, metaLock, hvars>>

-----------------------------------------------------------------------------
(* clear_project: the keys there are now will be deleted one by one. *)
Keys(n) == notes[n] \cup IF meta[n] = None THEN {} ELSE {MetaKey}

ClearKeys(t) ==
  /\ task[t].at = "keys"
  /\ task' = [task EXCEPT ![t].at = "delete", ![t].left = Keys(Name(t))]
  /\ ideal' = [ideal EXCEPT ![Name(t)] = [meta |-> NoMeta, notes |-> {}]]
  /\ UNCHANGED <<meta, notes, reg, zone, metaLock, raced, hvars>>

DeleteKey(t) ==
  /\ task[t].at = "delete"
  /\ \E k \in task[t].left :
       /\ meta'  = IF k = MetaKey THEN [meta EXCEPT ![Name(t)] = None] ELSE meta
       /\ notes' = [notes EXCEPT ![Name(t)] = @ \ {k}]
       /\ task' = [task EXCEPT ![t].left = @ \ {k}]
  /\ UNCHANGED <<reg, zone, metaLock, ideal, raced, hvars>>

Unregister(t) ==
  /\ task[t].at = "delete" /\ task[t].left = {}
  /\ reg' = [reg EXCEPT ![Name(t)] = None]
  /\ task' = [u \in Tasks |-> IF u = t THEN [task[t] EXCEPT !.at = "pop"]
                              ELSE [task[u] EXCEPT !.must = @ \ {Name(t)}]]
  /\ UNCHANGED <<meta, notes, zone, metaLock, ideal, raced, hvars>>

PopZone(t) ==
  /\ task[t].at = "pop"
  /\ zone' = [zone EXCEPT ![Name(t)] = None] /\ Finish(t, {})
  /\ UNCHANGED <<meta, notes, reg, metaLock, ideal, raced, hvars>>

(* register, by a request that carries a project. *)
Register(t) ==
  /\ task[t].at = "register"
  /\ reg' = [reg EXCEPT ![Name(t)] = task[t].id] /\ Finish(t, {})
  /\ UNCHANGED <<meta, notes, zone, metaLock, ideal, raced, hvars>>

(* list_projects: the names of the registry, then the id under each, and the
   namespaces of the backend when there was none. *)
ListNames(t) ==
  /\ task[t].at = "list"
  /\ LET there == {n \in Names : reg[n] # None} IN
     task' = [task EXCEPT ![t].at = "listing", ![t].left = there, ![t].must = there]
  /\ UNCHANGED <<meta, notes, reg, zone, metaLock, ideal, raced, hvars>>

(* Mutant: an id that is gone ends the listing. *)
RemainingTillGone(t, n) == IF reg[n] = None THEN {} ELSE task[t].left \ {n}

Remaining(t, n) == task[t].left \ {n}

ListOne(t) ==
  /\ task[t].at = "listing"
  /\ \E n \in task[t].left :
       task' = [task EXCEPT ![t].left = Remaining(t, n), ![t].got = (@ \cup {reg[n]}) \ {None}]
  /\ UNCHANGED <<meta, notes, reg, zone, metaLock, ideal, raced, hvars>>

ListEnds(t) ==
  /\ task[t].at = "listing" /\ task[t].left = {}
  /\ Finish(t, IF task[t].got # {} THEN task[t].got ELSE {n \in Names : Keys(n) # {}})
  /\ UNCHANGED <<meta, notes, reg, zone, metaLock, ideal, raced, hvars>>

-----------------------------------------------------------------------------
Instance == (Close \/ Closed) /\ UNCHANGED zvars

Continue(t) ==
  \/ LockMeta(t) \/ WriteMeta(t) \/ Remember(t)
  \/ ReadMeta(t) \/ Asks(t) \/ Answered(t) \/ PutMeta(t)
  \/ ClearKeys(t) \/ DeleteKey(t) \/ Unregister(t) \/ PopZone(t)
  \/ Register(t) \/ ListNames(t) \/ ListOne(t) \/ ListEnds(t)

Requests(t) ==
  \E op \in Ops[t], id \in Ids, file \in Files \cup {None} :
    /\ op \in {"addFile", "removeFile"} <=> file # None
    /\ op = "list" => id = DefaultId
    /\ Begin(t, op, id, file)

Next == Instance \/ \E t \in Tasks : Requests(t) \/ Continue(t)

(* The event loop runs what can run, and close ends. *)
Spec ==
  /\ Init /\ [][Next]_vars
  /\ \A t \in Tasks : WF_vars(Continue(t))
  /\ WF_vars(Closed /\ UNCHANGED zvars)

-----------------------------------------------------------------------------
(* "Two concurrent update_meta/add_file/remove_file calls cannot lose one
   another's edit" (project.py:215), nor can values be lost, nor does a clear
   leave anything: a project holds what its requests made of it, one after the
   other, unless a clear met another request of the project, or an edit came between
   the two halves of an inference, or an inference between those of an edit. *)
NothingLost ==
  \A n \in Names \ raced :
    (\A t \in Active(n) : task[t].op # "clear") =>
      Read(meta[n]) = ideal[n].meta /\ notes[n] = ideal[n].notes

(* A listing made while projects are registered and cleared has every project
   that was registered all the time (project.py:334-354). *)
ListIsWhole ==
  \A t \in Tasks : task[t].op = "list" /\ task[t].at = "done" =>
    \A n \in task[t].must : \E i \in task[t].got : Safe[i] = n

(* Projects hold, and listings show, what requests made of them. *)
ZonesAreTrue == TypeOK /\ NothingLost /\ ListIsWhole

(* Every request ends, with A1 failing, throttled or closed meanwhile. *)
RequestsEnd == \A t \in Tasks : Busy(t) ~> task[t].at = "done"
=============================================================================
