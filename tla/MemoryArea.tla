----------------------------- MODULE MemoryArea -----------------------------
(***************************************************************************)
(* A MemoryArea (autumn/core/memory/base.py) shared by asyncio tasks.      *)
(* Every history operation is a read-modify-write of the single backend    *)
(* key "history": take _history_lock, await the get, compute, await the    *)
(* set, release.  The task may be suspended, and cancelled, at each await; *)
(* consolidate also awaits the A4 model while it holds the lock.  The      *)
(* backend is taken to be an atomic register here; HybridStore looks into  *)
(* it.                                                                     *)
(***************************************************************************)
EXTENDS AtomicHistory

CONSTANT NoTask

ASSUME NoTaskAssumption == NoTask \notin Tasks

VARIABLES
  pc,      \* pc[t]: "idle", "waiting" for the lock, "got" the history, "a4"
  lock,    \* the task holding _history_lock, or NoTask
  snap,    \* snap[t]: the history the task has read
  seen     \* seen[t]: the time the operation works with

vars == <<history, fourd, clock, op, pc, lock, snap, seen>>

Empty == [i \in {} |-> 0]

(* asyncio.Lock wakes its waiters in the order they arrived. *)
First(t) == \A u \in Tasks : pc[u] = "waiting" => op[t].id <= op[u].id

Finish(t) ==
  /\ op'   = [op EXCEPT ![t] = Idle]
  /\ pc'   = [pc EXCEPT ![t] = "idle"]
  /\ snap' = [snap EXCEPT ![t] = Empty]
  /\ seen' = [seen EXCEPT ![t] = 0]

Release == lock' = NoTask

----------------------------------------------------------------------------
AreaInit ==
  /\ Init
  /\ pc   = [t \in Tasks |-> "idle"]
  /\ lock = NoTask
  /\ snap = [t \in Tasks |-> Empty]
  /\ seen = [t \in Tasks |-> 0]

(* The call is made: arguments are bound, "now" is read before the lock. *)
CallOperation(t) ==
  /\ Invoke(t)
  /\ pc'   = [pc EXCEPT ![t] = "waiting"]
  /\ seen' = [seen EXCEPT ![t] = clock']
  /\ UNCHANGED <<lock, snap>>

(* Mutant: the history is read without waiting for the lock. *)
GetHistoryUnlocked(t) ==
  /\ pc[t] = "waiting"
  /\ lock' = t
  /\ snap' = [snap EXCEPT ![t] = history]
  /\ pc'   = [pc EXCEPT ![t] = "got"]
  /\ UNCHANGED <<history, fourd, op, clock, seen>>

(* The lock is granted and the backend get completes.  consolidate reads   *)
(* the clock under the lock, set_profile only when it builds its entry.    *)
GetHistory(t) ==
  /\ pc[t] = "waiting"
  /\ lock = NoTask
  /\ First(t)
  /\ lock' = t
  /\ snap' = [snap EXCEPT ![t] = history]
  /\ pc'   = [pc EXCEPT ![t] = "got"]
  /\ IF op[t].name \in {"consolidate", "profile"}
       THEN /\ clock' = clock + 1
            /\ seen' = [seen EXCEPT ![t] = clock']
       ELSE UNCHANGED <<clock, seen>>
  /\ UNCHANGED <<history, fourd, op>>

(* Nothing matches, or too few entries to summarise: no write. *)
ReturnUnchanged(t) ==
  /\ pc[t] = "got"
  /\ ~Applies(op[t], snap[t], seen[t])
  /\ Finish(t)
  /\ Release
  /\ UNCHANGED <<history, fourd, clock>>

(* The backend set completes and the lock is released. *)
SetHistory(t) ==
  /\ pc[t] = "got"
  /\ op[t].name # "consolidate"
  /\ Applies(op[t], snap[t], seen[t])
  /\ history' = Effect(op[t], snap[t], seen[t], fourd)
  /\ Finish(t)
  /\ Release
  /\ UNCHANGED <<fourd, clock>>

(* consolidate: the prompt is built and A4 is awaited under the lock. *)
AskModel(t) ==
  /\ pc[t] = "got"
  /\ op[t].name = "consolidate"
  /\ Applies(op[t], snap[t], seen[t])
  /\ pc' = [pc EXCEPT ![t] = "a4"]
  /\ UNCHANGED <<history, fourd, clock, op, lock, snap, seen>>

(* A4 answers; the summary replaces the candidates. *)
ModelAnswers(t) ==
  /\ pc[t] = "a4"
  /\ history' = Effect(op[t], snap[t], seen[t], fourd)
  /\ Finish(t)
  /\ Release
  /\ UNCHANGED <<fourd, clock>>

(* Mutant: the error path forgets to release the lock. *)
ModelFailsHoldingLock(t) ==
  /\ pc[t] = "a4"
  /\ Finish(t)
  /\ UNCHANGED <<history, fourd, clock, lock>>

(* A4 raises: consolidate returns None. *)
ModelFails(t) ==
  /\ pc[t] = "a4"
  /\ Finish(t)
  /\ Release
  /\ UNCHANGED <<history, fourd, clock>>

(* The task is cancelled at an await before its set. *)
Cancel(t) ==
  /\ pc[t] # "idle"
  /\ Finish(t)
  /\ lock' = IF lock = t THEN NoTask ELSE lock
  /\ UNCHANGED <<history, fourd, clock>>

(* set_fourd_enabled *)
SetFourDEnabled ==
  /\ SetFourD
  /\ UNCHANGED <<pc, lock, snap, seen>>

Step(t) ==
  \/ GetHistory(t) \/ ReturnUnchanged(t) \/ SetHistory(t)
  \/ AskModel(t) \/ ModelAnswers(t) \/ ModelFails(t)

AreaNext ==
  \/ \E t \in Tasks : CallOperation(t) \/ Step(t) \/ Cancel(t)
  \/ SetFourDEnabled

AreaSpec == AreaInit /\ [][AreaNext]_vars

(* Tasks run whenever they can, and the A4 client answers or times out.   *)
(* Nothing obliges a task to call, or anyone to cancel.                    *)
FairAreaSpec == AreaSpec /\ \A t \in Tasks : WF_vars(Step(t))

----------------------------------------------------------------------------
AreaTypeOK ==
  /\ IsHistory(history) /\ DOMAIN history \subseteq 1..clock
  /\ fourd \in BOOLEAN
  /\ clock \in Nat
  /\ op \in [Tasks -> Op]
  /\ pc \in [Tasks -> {"idle", "waiting", "got", "a4"}]
  /\ lock \in Tasks \cup {NoTask}
  /\ seen \in [Tasks -> Nat]

(* _history_lock admits one task to the read-modify-write, and what that   *)
(* task has read is still what is stored, however long A4 takes.           *)
SnapshotCurrent ==
  \A t \in Tasks : pc[t] \in {"got", "a4"} => lock = t /\ snap[t] = history

(* set_profile keeps a single living document per scope, whoever           *)
(* interleaves.                                                            *)
OneProfilePerScope ==
  \A s \in Scopes : Cardinality(ScopeProfiles(history, s)) <= 1

(* The history stays within the limit, give or take the profiles, which    *)
(* set_profile adds without evicting anything (base.py:236, 1202).  With   *)
(* min_candidates = 1 a profile that is unpinned, summarised alone and     *)
(* renewed, again and again, adds to it: the theorem has the condition.    *)
SizeBound == Cardinality(DOMAIN history) <= Limit + Cardinality(Scopes)

----------------------------------------------------------------------------
Finishes(t) == op[t] # Idle /\ op'[t] = Idle

(* What the finishing call o was entitled to remove from the history. *)
MayRemove(o, i) ==
  LET e == history[i]
  IN  CASE o.name = "append" ->
             Expired(e, clock) \/ Cardinality(DOMAIN history) >= Limit
        [] o.name = "forget" ->
             \/ e.kind \in o.kinds
             \/ e.ts < o.before
             \/ o.expired /\ Expired(e, clock)
        [] o.name = "consolidate" ->
             Expired(e, clock) \/ (~Pinned(e) /\ e.kind # "summary")
        [] o.name = "profile" ->
             e.kind = "profile" /\ e.scope = o.scope
        [] OTHER -> FALSE

(* No call loses or brings back another call's entry: an entry disappears  *)
(* only in a call entitled to remove it, and appears only in its own.      *)
OnlyOwnEffects ==
  [][ \E t \in Tasks :
        /\ Finishes(t)
        /\ \A i \in DOMAIN history \ DOMAIN history' : MayRemove(op[t], i)
        /\ DOMAIN history' \ DOMAIN history \subseteq {op[t].id} ]_history

(* A pinned entry leaves only when forgotten, replaced as its scope's      *)
(* profile, expired, or when the pins alone fill the history.              *)
PinsSurvive ==
  [][ \A i \in Pins(history) \ DOMAIN history' :
        \/ Expired(history[i], clock)
        \/ Cardinality(Pins(history)) >= Limit
        \/ \E t \in Tasks : Finishes(t) /\ op[t].name \in {"forget", "profile"} ]_history

(* The use ledger only grows: reinforce feedback is never overwritten by a *)
(* concurrent rewrite of the history.                                      *)
UsesNeverForgotten ==
  [][ \A i \in DOMAIN history \cap DOMAIN history' :
        history'[i].uses >= history[i].uses ]_history

(* consolidate leaves the newest entries alone, including those appended   *)
(* by others up to the moment it writes.                                   *)
RecentSurviveConsolidation ==
  [][ \A t \in Tasks :
        Finishes(t) /\ op[t].name = "consolidate" =>
          \A i \in Tail(history) : Expired(history[i], clock) \/ i \in DOMAIN history' ]_history

(* What a task in the lock may rely on, whoever interleaves: types, a      *)
(* current snapshot, one profile to a scope (base.py:349, 1202-1218).      *)
AreaIsConsistent == AreaTypeOK /\ SnapshotCurrent /\ OneProfilePerScope

(* What an entry may rely on: it leaves the history, and loses what it has *)
(* learnt of its use, only in a call that may do that (base.py:236-291,    *)
(* 771, 851, 893).                                                         *)
EntriesAreKept ==
  OnlyOwnEffects /\ PinsSurvive /\ UsesNeverForgotten /\ RecentSurviveConsolidation

(* Every call returns: the lock is released on every path, and A4 can only *)
(* delay those who wait for it.                                            *)
EveryCallReturns == \A t \in Tasks : pc[t] # "idle" ~> pc[t] = "idle"

(* The area implements the atomic history, whose variables it shares: the  *)
(* refinement mapping is the identity and hides pc, lock, snap and seen.   *)
ImplementsAtomicHistory == Spec

=============================================================================
