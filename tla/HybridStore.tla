----------------------------- MODULE HybridStore -----------------------------
(***************************************************************************)
(* The backend under a MemoryArea: HybridBackend, a dictionary in front of *)
(* an SQLiteBackend whose statements run on a thread pool.  The value of   *)
(* the "history" key is abstracted to the set of the ids appended to it.   *)
(* Appenders are tasks in append_history, whose get and set are in the     *)
(* _history_lock; getters are tasks in get_history or recall, which take   *)
(* no lock.  Between two awaits a task runs alone, so a step of a task is  *)
(* everything it does up to the next statement it sends to the pool.       *)
(***************************************************************************)
EXTENDS Integers, FiniteSets

CONSTANTS
  Appenders,       \* tasks that call append_history
  Getters,         \* tasks that call get_history
  MayBeCancelled,  \* tasks that may be cancelled (a client that disconnects)
  Nobody,
  Missing,         \* None: no such key
  MaxAppends       \* bound: calls of append_history in a behaviour

ASSUME HybridRolesAssumption == Appenders \cap Getters = {} /\ Nobody \notin Appenders \cup Getters
ASSUME HybridCancelAssumption == MayBeCancelled \subseteq Appenders \cup Getters
ASSUME MaxAppendsAssumption == MaxAppends \in Nat
ASSUME MissingAssumption == \A v \in SUBSET (1..MaxAppends) : v # Missing

VARIABLES
  short,     \* HybridBackend._short: the cached value
  long,      \* the row committed in SQLite
  holder,    \* the appender holding _history_lock
  at,        \* at[t]: where task t is suspended
  entry,     \* entry[t]: the entry that appender t appends
  value,     \* value[t]: read from, or on its way to, SQLite
  orphans,   \* values whose statement still runs after its task was cancelled
  appends,   \* calls of append_history so far
  acked,     \* entries whose append has returned
  overlapped \* history variable: a cold read was under way during an append,
             \* or a statement outlived its task

hybridVars == <<short, long, holder, at, entry, value, orphans, appends, acked, overlapped>>

Callers == Appenders \cup Getters
Values == SUBSET (1..MaxAppends)
Entries(v) == IF v = Missing THEN {} ELSE v      \* _decode

HybridInit ==
  /\ short = Missing /\ long = Missing
  /\ holder = Nobody
  /\ at = [t \in Callers |-> "idle"]
  /\ entry = [t \in Callers |-> 0]
  /\ value = [t \in Callers |-> Missing]
  /\ orphans = {}
  /\ appends = 0
  /\ acked = {}
  /\ overlapped = FALSE

Busy(S) == \E t \in S : at[t] # "idle"

Goto(t, label) == at' = [at EXCEPT ![t] = label]

(* The task leaves its call, releasing the lock if it holds it. *)
LeaveCall(t) ==
  /\ Goto(t, "idle")
  /\ holder' = IF holder = t THEN Nobody ELSE holder
  /\ entry' = [entry EXCEPT ![t] = 0]
  /\ value' = [value EXCEPT ![t] = Missing]

----------------------------------------------------------------------------
BeginAppend(t) ==
  /\ at[t] = "idle"
  /\ appends < MaxAppends
  /\ appends' = appends + 1
  /\ entry' = [entry EXCEPT ![t] = appends']
  /\ Goto(t, "waiting")
  /\ overlapped' = (overlapped \/ Busy(Getters))
  /\ UNCHANGED <<short, long, holder, value, orphans, acked>>

(* Mutant: the new value is not put in the cache. *)
PutBehindCache(t, v) ==
  LET new == Entries(v) \cup {entry[t]}
  IN  /\ short' = v
      /\ value' = [value EXCEPT ![t] = new]
      /\ Goto(t, "writing")

(* The history v is extended; HybridBackend.set writes the cache and sends *)
(* the statement for the row.                                              *)
Put(t, v) ==
  LET new == Entries(v) \cup {entry[t]}
  IN  /\ short' = new
      /\ value' = [value EXCEPT ![t] = new]
      /\ Goto(t, "writing")

(* The lock is granted, in order of arrival; HybridBackend.get hits the    *)
(* cache, or sends a statement to read the row.                            *)
Turn(t) ==
  /\ at[t] = "waiting"
  /\ \A u \in Appenders : at[u] = "waiting" => entry[t] <= entry[u]

(* Mutant: the lock is not awaited. *)
TakeLockAnyway(t) ==
  /\ Turn(t)
  /\ holder' = t
  /\ IF short # Missing THEN Put(t, short)
     ELSE Goto(t, "reading") /\ UNCHANGED <<short, value>>
  /\ UNCHANGED <<long, entry, orphans, appends, acked, overlapped>>

TakeLock(t) ==
  /\ Turn(t)
  /\ holder = Nobody
  /\ holder' = t
  /\ IF short # Missing THEN Put(t, short)
     ELSE Goto(t, "reading") /\ UNCHANGED <<short, value>>
  /\ UNCHANGED <<long, entry, orphans, appends, acked, overlapped>>

(* A writer that missed the cache resumes with the row: the cache is       *)
(* warmed and, in the same step, overwritten with the extended history.    *)
Extend(t) ==
  /\ at[t] = "read"
  /\ Put(t, value[t])
  /\ UNCHANGED <<long, holder, entry, orphans, appends, acked, overlapped>>

(* Mutant: append_history does not wait for the row to be committed. *)
ReturnEarly(t) ==
  /\ at[t] \in {"writing", "written"}
  /\ acked' = acked \cup {entry[t]}
  /\ LeaveCall(t)
  /\ orphans' = IF at[t] = "writing" THEN orphans \cup {value[t]} ELSE orphans
  /\ UNCHANGED <<short, long, appends, overlapped>>

(* append_history returns. *)
ReturnAppend(t) ==
  /\ at[t] = "written"
  /\ acked' = acked \cup {entry[t]}
  /\ LeaveCall(t)
  /\ UNCHANGED <<short, long, orphans, appends, overlapped>>

(* get_history misses the cache (a hit changes nothing). *)
BeginGet(t) ==
  /\ at[t] = "idle"
  /\ short = Missing
  /\ Goto(t, "reading")
  /\ overlapped' = (overlapped \/ Busy(Appenders))
  /\ UNCHANGED <<short, long, holder, entry, value, orphans, appends, acked>>

(* It resumes with the row and warms the cache, if there is a row. *)
WarmCache(t) ==
  /\ at[t] = "read"
  /\ short' = IF value[t] # Missing THEN value[t] ELSE short
  /\ LeaveCall(t)
  /\ UNCHANGED <<long, orphans, appends, acked, overlapped>>

----------------------------------------------------------------------------
(* The thread pool. *)
RunSelect(t) ==
  /\ at[t] = "reading"
  /\ value' = [value EXCEPT ![t] = long]
  /\ Goto(t, "read")
  /\ UNCHANGED <<short, long, holder, entry, orphans, appends, acked, overlapped>>

RunReplace(t) ==
  /\ at[t] = "writing"
  /\ long' = value[t]
  /\ Goto(t, "written")
  /\ UNCHANGED <<short, holder, entry, value, orphans, appends, acked, overlapped>>

(* Mutant: a failed statement leaves its caller suspended in the lock. *)
StatementHangs(t) ==
  /\ at[t] \in {"reading", "writing"}
  /\ Goto(t, "hung")
  /\ UNCHANGED <<short, long, holder, entry, value, orphans, appends, acked, overlapped>>

(* The statement raises (disk full, database locked): the exception leaves *)
(* the call; a cache already written stays written.                        *)
StatementFails(t) ==
  /\ at[t] \in {"reading", "writing"}
  /\ LeaveCall(t)
  /\ UNCHANGED <<short, long, orphans, appends, acked, overlapped>>

(* Cancelling the task cancels a queued statement, but one that a thread   *)
(* has picked up runs on; the lock is released at once all the same.       *)
CancelCall(t) ==
  /\ at[t] # "idle"
  /\ LeaveCall(t)
  /\ \/ UNCHANGED <<orphans, overlapped>>
     \/ /\ at[t] = "writing"
        /\ orphans' = orphans \cup {value[t]}
        /\ overlapped' = TRUE
  /\ UNCHANGED <<short, long, appends, acked>>

OrphanRuns ==
  \E v \in orphans :
    /\ long' = v
    /\ orphans' = orphans \ {v}
    /\ UNCHANGED <<short, holder, at, entry, value, appends, acked, overlapped>>

(* Framework.end_session drops the short-term layer. *)
ClearSession ==
  /\ short' = Missing
  /\ UNCHANGED <<long, holder, at, entry, value, orphans, appends, acked, overlapped>>

(* The process dies and starts again: only committed rows survive. *)
Reopen ==
  /\ short' = Missing
  /\ holder' = Nobody
  /\ at' = [t \in Callers |-> "idle"]
  /\ entry' = [t \in Callers |-> 0]
  /\ value' = [t \in Callers |-> Missing]
  /\ orphans' = {}
  /\ UNCHANGED <<long, appends, acked, overlapped>>

AppendStep(t) == TakeLock(t) \/ Extend(t) \/ ReturnAppend(t)

PoolStep(t) == RunSelect(t) \/ RunReplace(t) \/ StatementFails(t)

HybridNext ==
  \/ \E t \in Appenders : BeginAppend(t) \/ AppendStep(t)
  \/ \E t \in Getters : BeginGet(t) \/ WarmCache(t)
  \/ \E t \in Callers : PoolStep(t)
  \/ \E t \in MayBeCancelled : CancelCall(t)
  \/ OrphanRuns
  \/ ClearSession
  \/ Reopen

HybridSpec == HybridInit /\ [][HybridNext]_hybridVars

(* The event loop resumes tasks and the pool runs statements. *)
HybridFairSpec ==
  /\ HybridSpec
  /\ \A t \in Appenders : WF_hybridVars(AppendStep(t))
  /\ \A t \in Getters : WF_hybridVars(WarmCache(t))
  /\ \A t \in Callers : WF_hybridVars(PoolStep(t))

----------------------------------------------------------------------------
HybridTypeOK ==
  /\ short \in {Missing} \cup Values
  /\ long \in {Missing} \cup Values
  /\ holder \in Appenders \cup {Nobody}
  /\ at \in [Callers -> {"idle", "waiting", "reading", "read", "writing", "written"}]
  /\ entry \in [Callers -> 0..MaxAppends]
  /\ value \in [Callers -> {Missing} \cup Values]
  /\ orphans \subseteq Values
  /\ appends \in 0..MaxAppends
  /\ acked \subseteq 1..MaxAppends
  /\ overlapped \in BOOLEAN

(* The cache never hides an entry whose append has returned.  (base.py on  *)
(* _history_lock: "Serialises the read-modify-write cycle in               *)
(* append_history so concurrent turns cannot lose entries.")               *)
AckedVisible == short # Missing => acked \subseteq short

(* An entry whose append has returned is in the committed row, so that it  *)
(* survives end_session and a restart.                                     *)
AckedDurable == acked \subseteq Entries(long)

(* Both hold, and the committed history only grows, whatever fails,        *)
(* restarts or is cancelled in the lock, as long as no cold read has       *)
(* overlapped an append and no statement has outlived its task.            *)
VisibleUnlessOverlapped == ~overlapped => AckedVisible

DurableUnlessOverlapped == ~overlapped => AckedDurable

GrowsUnlessOverlapped == [][ ~overlapped' => Entries(long) \subseteq Entries(long') ]_long

(* The two layers agree, for those who were told that an append is done:   *)
(* it is in the cache, if there is one, and in the row.                    *)
LayersAgree == HybridTypeOK /\ VisibleUnlessOverlapped /\ DurableUnlessOverlapped

(* Every call ends, also when statements fail and other tasks are          *)
(* cancelled in the lock.                                                  *)
HybridCallsEnd == \A t \in Callers : at[t] # "idle" ~> at[t] = "idle"
=============================================================================
