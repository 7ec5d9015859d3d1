--------------------------- MODULE MarkdownStore ---------------------------
(***************************************************************************)
(* A MemoryArea over MarkdownBackend: its history is a directory with one  *)
(* file per entry.  A writer is a task in append_history, _reweight or     *)
(* forget: inside _history_lock it reads the directory, changes the list   *)
(* and writes it back.  A reader is in get_history and a clearer in clear; *)
(* neither takes the lock.  The backend's functions run on a thread pool,  *)
(* one call to the file system per step, so threads interleave; a process  *)
(* that dies leaves the files as they are.  Entry ids are handed out in    *)
(* timestamp order, and an entry's text is abstracted to its version.      *)
(***************************************************************************)
EXTENDS Integers, FiniteSets, Functions

CONSTANTS
  Writers, Readers, Clearers,  \* tasks, by what they call
  Cancellable,                 \* tasks that may be cancelled
  Orphan,     \* the thread of a cancelled task (bound: one per life of the process)
  NoTask,
  Limit,      \* MemoryArea._history_limit
  MaxCalls,   \* bound: calls in a behaviour
  MaxFaults   \* bound: errors of the file system, cancellations and deaths

ASSUME RolesAssumption ==
  /\ Writers \cap Readers = {} /\ Writers \cap Clearers = {} /\ Readers \cap Clearers = {}
  /\ {Orphan, NoTask} \cap (Writers \cup Readers \cup Clearers) = {} /\ Orphan # NoTask
ASSUME CancellableAssumption == Cancellable \subseteq Writers \cup Readers \cup Clearers
ASSUME BoundsAssumption == Limit \in Nat \ {0} /\ MaxCalls \in Nat /\ MaxFaults \in Nat

VARIABLES
  disk,      \* disk[i]: the version in <i>.md
  tmp,       \* tmp[i]: the version in <i>.md.tmp
  lock,      \* the writer in _history_lock
  pc,        \* what task t is doing
  mine,      \* mine[t]: the entry that writer t came to append
  job,       \* job[x]: the function that task x, or the orphan, has on the pool
  calls,     \* calls so far
  faults,    \* faults so far
  settled,   \* ghost: the list of the last write that returned, if none broke off since
  safe,      \* ghost: entries of a write that returned, and no later call was to drop
  promised,  \* ghost: promised[r]: the part of safe that every call since read r began kept
  raced      \* ghost: a clear met a writer, or a thread outlived its task

vars == <<disk, tmp, lock, pc, mine, job, calls, faults, settled, safe, promised, raced>>

Tasks == Writers \cup Readers \cup Clearers
Threads == Tasks \cup {Orphan}
Ids == 1..MaxCalls
Torn == 0                     \* a file opened for writing and not yet filled
Versions == 1..(MaxCalls + 1)

Lists(V) == UNION {[S -> V] : S \in SUBSET Ids}   \* histories, and contents of a directory
Empty == [i \in {} |-> Torn]
With(f, i, v) == [j \in DOMAIN f \cup {i} |-> IF j = i THEN v ELSE f[j]]
Without(f, i) == Restrict(f, DOMAIN f \ {i})
First(S) == CHOOSE i \in S : \A j \in S : i <= j

(* list: the entries read or to write; todo: entries, or names, left. *)
Call(phase, list, todo) == [phase |-> phase, list |-> list, todo |-> todo, keep |-> {}, at |-> 0]
NoCall == Call("none", Empty, {})
Unsettled == [i \in {0} |-> Torn]
Ended == {"none", "done", "failed"}
Running(x) == job[x].phase \notin Ended

Init ==
  /\ disk = Empty /\ tmp = Empty
  /\ lock = NoTask
  /\ pc = [t \in Tasks |-> "idle"]
  /\ mine = [t \in Writers |-> 0]
  /\ job = [x \in Threads |-> NoCall]
  /\ calls = 0 /\ faults = 0
  /\ settled = Empty /\ safe = {}
  /\ promised = [r \in Readers |-> {}]
  /\ raced = FALSE

----------------------------------------------------------------------------
(* The event loop.  A task sends a function to the pool and is resumed     *)
(* when it has ended; between the two it can be cancelled.                 *)
Submit(t, label, call) ==
  /\ pc' = [pc EXCEPT ![t] = label]
  /\ job' = [job EXCEPT ![t] = call]
  /\ UNCHANGED mine

Leave(t) ==
  /\ pc' = [pc EXCEPT ![t] = "idle"]
  /\ mine' = [u \in Writers |-> IF u = t THEN 0 ELSE mine[u]]
  /\ job' = [job EXCEPT ![t] = NoCall]
  /\ lock' = IF lock = t THEN NoTask ELSE lock

Drops(kept) ==
  /\ safe' = safe \cap kept
  /\ promised' = [r \in Readers |-> promised[r] \cap kept]

NewCall == calls < MaxCalls /\ calls' = calls + 1

BeginWrite(t) ==
  /\ pc[t] = "idle" /\ NewCall
  /\ pc' = [pc EXCEPT ![t] = "waiting"]
  /\ mine' = [mine EXCEPT ![t] = calls']
  /\ UNCHANGED <<disk, tmp, lock, job, faults, settled, safe, promised, raced>>

(* Mutant: the lock is not awaited. *)
AcquireAnyway(t) ==
  /\ pc[t] = "waiting"
  /\ lock' = t
  /\ Submit(t, "loading", Call("list", Empty, {}))
  /\ UNCHANGED <<disk, tmp, calls, faults, settled, safe, promised, raced>>

Acquire(t) ==
  /\ pc[t] = "waiting" /\ lock = NoTask
  /\ lock' = t
  /\ Submit(t, "loading", Call("list", Empty, {}))
  /\ raced' = (raced \/ \E c \in Clearers : pc[c] # "idle")
  /\ UNCHANGED <<disk, tmp, calls, faults, settled, safe, promised>>

Loaded(t) == pc[t] = "loading" /\ job[t].phase = "done"

(* backend.set(list) *)
Store(t, list) ==
  /\ Submit(t, "storing", Call("write", list, DOMAIN list))
  /\ Drops(DOMAIN list)
  /\ UNCHANGED <<disk, tmp, lock, calls, faults, settled, raced>>

(* An append stores the new entry and evicts the oldest beyond the limit;  *)
(* pin or reinforce changes one entry, forget removes one, or nothing.     *)
Append(t) ==
  /\ Loaded(t)
  /\ LET all == With(job[t].list, mine[t], 1)
     IN  Store(t, IF Cardinality(DOMAIN all) > Limit
                    THEN Without(all, First(DOMAIN all)) ELSE all)

Change(t) ==
  /\ Loaded(t)
  /\ \E i \in DOMAIN job[t].list :
       \/ Store(t, [job[t].list EXCEPT ![i] = @ + 1])
       \/ Store(t, Without(job[t].list, i))

NothingToChange(t) ==
  /\ Loaded(t) /\ job[t].list = Empty
  /\ Leave(t)
  /\ UNCHANGED <<disk, tmp, calls, faults, settled, safe, promised, raced>>

Return(t) ==
  /\ pc[t] \in {"storing", "clearing"} /\ job[t].phase = "done"
  /\ Leave(t)
  /\ settled' = job[t].list /\ safe' = DOMAIN job[t].list
  /\ UNCHANGED <<disk, tmp, calls, faults, promised, raced>>

(* get_history *)
BeginRead(r) ==
  /\ pc[r] = "idle" /\ NewCall
  /\ Submit(r, "reading", Call("list", Empty, {}))
  /\ promised' = [promised EXCEPT ![r] = safe]
  /\ UNCHANGED <<disk, tmp, lock, faults, settled, safe, raced>>

EndRead(r) ==
  /\ pc[r] = "reading" /\ job[r].phase = "done"
  /\ Leave(r)
  /\ promised' = [promised EXCEPT ![r] = {}]
  /\ UNCHANGED <<disk, tmp, calls, faults, settled, safe, raced>>

(* clear: the area's keys are listed, here the history if it has a file... *)
BeginClear(c) ==
  /\ pc[c] = "idle" /\ NewCall
  /\ Submit(c, "listing", Call("keys", Empty, {}))
  /\ Drops({})
  /\ raced' = (raced \/ lock # NoTask \/ \E d \in Clearers : pc[d] # "idle")
  /\ UNCHANGED <<disk, tmp, lock, faults, settled>>

(* ... and deleted one by one. *)
DeleteKeys(c) ==
  /\ pc[c] = "listing" /\ job[c].phase = "done"
  /\ Submit(c, "clearing", IF job[c].todo = {} THEN job[c] ELSE Call("sweep", Empty, {}))
  /\ UNCHANGED <<disk, tmp, lock, calls, faults, settled, safe, promised, raced>>

(* Some of the calls of the tasks S end before their writes have returned. *)
BreaksOff(S) ==
  settled' = IF \E t \in S : pc[t] \in {"storing", "clearing"} THEN Unsettled ELSE settled

(* Mutant: the exception is not passed to the awaiting task. *)
RaiseNothing(t) ==
  /\ job[t].phase = "failed"
  /\ job' = [job EXCEPT ![t].phase = "none"]
  /\ UNCHANGED <<disk, tmp, lock, pc, mine, calls, faults, settled, safe, promised, raced>>

(* The exception of the function leaves the call, and the lock. *)
Raise(t) ==
  /\ job[t].phase = "failed"
  /\ Leave(t)
  /\ BreaksOff({t})
  /\ UNCHANGED <<disk, tmp, calls, faults, safe, promised, raced>>

(* A cancelled task leaves at once; its thread runs on. *)
Cancel(t) ==
  /\ pc[t] # "idle" /\ faults < MaxFaults /\ faults' = faults + 1
  /\ job[Orphan] = NoCall
  /\ pc' = [pc EXCEPT ![t] = "idle"]
  /\ lock' = IF lock = t THEN NoTask ELSE lock
  /\ mine' = [u \in Writers |-> IF u = t THEN 0 ELSE mine[u]]
  /\ job' = [job EXCEPT ![t] = NoCall, ![Orphan] = IF Running(t) THEN job[t] ELSE NoCall]
  /\ raced' = (raced \/ (pc[t] \in {"storing", "clearing"} /\ Running(t)))
  /\ BreaksOff({t})
  /\ UNCHANGED <<disk, tmp, calls, safe, promised>>

----------------------------------------------------------------------------
(* The pool: one call to the file system of thread x. *)
Sets(x, call) == job' = [job EXCEPT ![x] = call]
Same == UNCHANGED <<lock, pc, mine, calls, faults, settled, safe, promised, raced>>

(* _keys_sync *)
ListKeys(x) ==
  /\ job[x].phase = "keys"
  /\ Sets(x, [job[x] EXCEPT !.phase = "done", !.todo = DOMAIN disk])
  /\ UNCHANGED <<disk, tmp>> /\ Same

(* _get_sync: the names of the directory, then for each one, in any order, *)
(* is_file and read_text.  A torn file has no id and _decode drops it.     *)
ListFiles(x) ==
  /\ job[x].phase = "list"
  /\ Sets(x, [job[x] EXCEPT !.phase = "look", !.todo = DOMAIN disk])
  /\ UNCHANGED <<disk, tmp>> /\ Same

Look(x) ==
  /\ job[x].phase = "look"
  /\ IF job[x].todo = {}
       THEN Sets(x, [job[x] EXCEPT !.phase = "done"])
       ELSE \E i \in job[x].todo :
              Sets(x, IF i \in DOMAIN disk
                        THEN [job[x] EXCEPT !.phase = "read", !.at = i]
                        ELSE [job[x] EXCEPT !.todo = @ \ {i}])
  /\ UNCHANGED <<disk, tmp>> /\ Same

ReadText(x) ==
  /\ job[x].phase = "read"
  /\ LET i == job[x].at
         next == [job[x] EXCEPT !.phase = "look", !.at = 0, !.todo = @ \ {i}]
     IN  Sets(x, IF i \notin DOMAIN disk THEN Call("failed", Empty, {})
                 ELSE IF disk[i] = Torn THEN next
                 ELSE [next EXCEPT !.list = With(@, i, disk[i])])
  /\ UNCHANGED <<disk, tmp>> /\ Same

(* _set_sync: entry by entry, skipping the files that are identical; each  *)
(* of the others is written to a temporary file and moved into place.      *)
(* Mutant: an entry that is skipped is not added to keep_ids. *)
WriteEntryForgotten(x) ==
  /\ job[x].phase = "write"
  /\ LET left == job[x].todo
         i    == First(left)
     IN  IF left = {}
           THEN Sets(x, [job[x] EXCEPT !.phase = "sweep"]) /\ UNCHANGED tmp
         ELSE IF i \in DOMAIN disk /\ disk[i] = job[x].list[i]
           THEN Sets(x, [job[x] EXCEPT !.todo = @ \ {i}]) /\ UNCHANGED tmp
         ELSE /\ Sets(x, [job[x] EXCEPT !.phase = "fill", !.at = i, !.keep = @ \cup {i}])
              /\ tmp' = With(tmp, i, Torn)
  /\ UNCHANGED disk /\ Same

(* Mutant: the old file is removed first. *)
WriteEntryAfresh(x) ==
  /\ job[x].phase = "write"
  /\ LET left == job[x].todo
         i    == First(left)
     IN  IF left = {}
           THEN Sets(x, [job[x] EXCEPT !.phase = "sweep"]) /\ UNCHANGED <<disk, tmp>>
         ELSE IF i \in DOMAIN disk /\ disk[i] = job[x].list[i]
           THEN Sets(x, [job[x] EXCEPT !.todo = @ \ {i}, !.keep = @ \cup {i}])
                /\ UNCHANGED <<disk, tmp>>
         ELSE /\ Sets(x, [job[x] EXCEPT !.phase = "fill", !.at = i, !.keep = @ \cup {i}])
              /\ tmp' = With(tmp, i, Torn)
              /\ disk' = Without(disk, i)
  /\ Same

WriteEntry(x) ==
  /\ job[x].phase = "write"
  /\ LET left == job[x].todo
         i    == First(left)
     IN  IF left = {}
           THEN Sets(x, [job[x] EXCEPT !.phase = "sweep"]) /\ UNCHANGED tmp
         ELSE IF i \in DOMAIN disk /\ disk[i] = job[x].list[i]
           THEN Sets(x, [job[x] EXCEPT !.todo = @ \ {i}, !.keep = @ \cup {i}]) /\ UNCHANGED tmp
         ELSE /\ Sets(x, [job[x] EXCEPT !.phase = "fill", !.at = i, !.keep = @ \cup {i}])
              /\ tmp' = With(tmp, i, Torn)
  /\ UNCHANGED disk /\ Same

(* The text goes to the file that was opened, which another thread may     *)
(* have moved into place meanwhile.                                        *)
Fill(x) ==
  /\ job[x].phase = "fill"
  /\ LET i == job[x].at
         v == job[x].list[i]
     IN  IF i \in DOMAIN tmp
           THEN tmp' = With(tmp, i, v) /\ UNCHANGED disk
         ELSE /\ disk' = IF i \in DOMAIN disk THEN With(disk, i, v) ELSE disk
              /\ UNCHANGED tmp
  /\ Sets(x, [job[x] EXCEPT !.phase = "replace"])
  /\ Same

Replace(x) ==
  /\ job[x].phase = "replace"
  /\ LET i == job[x].at
     IN  IF i \in DOMAIN tmp
           THEN /\ disk' = With(disk, i, tmp[i])
                /\ tmp' = Without(tmp, i)
                /\ Sets(x, [job[x] EXCEPT !.phase = "write", !.at = 0, !.todo = @ \ {i}])
           ELSE /\ Sets(x, Call("failed", Empty, {}))
                /\ UNCHANGED <<disk, tmp>>
  /\ Same

(* The files of entries that are gone are removed; _delete_sync removes    *)
(* all of them in the same way.                                            *)
(* Mutant: the files of entries that are gone stay. *)
SweepNothing(x) ==
  /\ job[x].phase = "sweep"
  /\ Sets(x, [job[x] EXCEPT !.phase = "drop", !.todo = {}])
  /\ UNCHANGED <<disk, tmp>> /\ Same

Sweep(x) ==
  /\ job[x].phase = "sweep"
  /\ Sets(x, [job[x] EXCEPT !.phase = "drop", !.todo = DOMAIN disk])
  /\ UNCHANGED <<disk, tmp>> /\ Same

Drop(x) ==
  /\ job[x].phase = "drop"
  /\ LET left == job[x].todo \ job[x].keep
     IN  IF left = {}
           THEN Sets(x, [job[x] EXCEPT !.phase = "done", !.todo = {}])
           ELSE \E i \in left :
                  Sets(x, IF i \in DOMAIN disk
                            THEN [job[x] EXCEPT !.phase = "unlink", !.at = i]
                            ELSE [job[x] EXCEPT !.todo = @ \ {i}])
  /\ UNCHANGED <<disk, tmp>> /\ Same

Unlink(x) ==
  /\ job[x].phase = "unlink"
  /\ LET i == job[x].at
     IN  IF i \in DOMAIN disk
           THEN /\ disk' = Without(disk, i)
                /\ Sets(x, [job[x] EXCEPT !.phase = "drop", !.at = 0, !.todo = @ \ {i}])
           ELSE Sets(x, Call("failed", Empty, {})) /\ UNCHANGED disk
  /\ UNCHANGED tmp /\ Same

(* A call to the file system fails: no space, no permission. *)
FileError(x) ==
  /\ job[x].phase \in {"read", "fill", "replace", "unlink"}
  /\ faults < MaxFaults /\ faults' = faults + 1
  /\ Sets(x, Call("failed", Empty, {}))
  /\ UNCHANGED <<disk, tmp, lock, pc, mine, calls, settled, safe, promised, raced>>

OrphanEnds ==
  /\ job[Orphan].phase \in {"done", "failed"}
  /\ Sets(Orphan, NoCall)
  /\ UNCHANGED <<disk, tmp>> /\ Same

(* The process dies and another starts over the same directory. *)
Restart ==
  /\ faults < MaxFaults /\ faults' = faults + 1
  /\ lock' = NoTask
  /\ pc' = [t \in Tasks |-> "idle"]
  /\ mine' = [t \in Writers |-> 0]
  /\ job' = [x \in Threads |-> NoCall]
  /\ promised' = [r \in Readers |-> {}]
  /\ BreaksOff(Tasks)
  /\ UNCHANGED <<disk, tmp, calls, safe, raced>>

----------------------------------------------------------------------------
WriterStep(t) == Acquire(t) \/ Append(t) \/ Change(t) \/ NothingToChange(t)

FileStep(x) ==
  \/ ListKeys(x) \/ ListFiles(x) \/ Look(x) \/ ReadText(x)
  \/ WriteEntry(x) \/ Fill(x) \/ Replace(x)
  \/ Sweep(x) \/ Drop(x) \/ Unlink(x)

TaskStep(t) ==
  \/ FileStep(t)
  \/ Raise(t)
  \/ t \in Writers /\ WriterStep(t)
  \/ t \in Readers /\ EndRead(t)
  \/ t \in Clearers /\ DeleteKeys(t)
  \/ t \in Writers \cup Clearers /\ Return(t)

Next ==
  \/ \E t \in Writers : BeginWrite(t)
  \/ \E r \in Readers : BeginRead(r)
  \/ \E c \in Clearers : BeginClear(c)
  \/ \E t \in Tasks : TaskStep(t)
  \/ \E t \in Cancellable : Cancel(t)
  \/ FileStep(Orphan) \/ OrphanEnds
  \/ \E x \in Threads : FileError(x)
  \/ Restart

(* The event loop resumes tasks and the pool runs its functions. *)
Spec ==
  /\ Init /\ [][Next]_vars
  /\ \A t \in Tasks : WF_vars(TaskStep(t))

----------------------------------------------------------------------------
TypeOK ==
  /\ disk \in Lists({Torn} \cup Versions) /\ tmp \in Lists({Torn} \cup Versions)
  /\ lock \in Writers \cup {NoTask}
  /\ pc \in [Tasks -> {"idle", "waiting", "loading", "storing", "reading", "listing", "clearing"}]
  /\ \A x \in Threads : job[x].list \in Lists(Versions) /\ job[x].todo \subseteq Ids
  /\ \A t \in Tasks : pc[t] \in {"idle", "waiting"} <=> job[t] = NoCall
  /\ mine \in [Writers -> 0..MaxCalls]
  /\ calls \in 0..MaxCalls /\ faults \in 0..MaxFaults
  /\ settled \in Lists(Versions) \cup {Unsettled} /\ safe \subseteq Ids
  /\ promised \in [Readers -> SUBSET Ids] /\ raced \in BOOLEAN

(* "Memory becomes readable, editable, grep-able and Git-versionable"      *)
(* (markdown_backend.py:4): an entry whose write has returned stays in its *)
(* file, whole, in every state, also after an error or a death half way    *)
(* through a later write, until a call is asked to drop it; unless a clear *)
(* met a writer or a cancelled write ran on.                               *)
AckedSurvive == ~raced => \A i \in safe : i \in DOMAIN disk /\ disk[i] # Torn

(* When no write is under way and none has broken off since, the directory *)
(* is exactly the list of the last write that returned: nothing forgotten  *)
(* or evicted is left, also what an earlier write that broke off left.     *)
DirectoryIsHistory ==
  ~raced /\ settled # Unsettled /\ (\A t \in Tasks : pc[t] \notin {"storing", "clearing"})
    => disk = settled

(* A read without the lock, over a directory that is being rewritten,      *)
(* returns every entry that was there and that no write dropped meanwhile. *)
ReadsAreComplete ==
  ~raced => \A r \in Readers :
    pc[r] = "reading" /\ job[r].phase = "done" => promised[r] \subseteq DOMAIN job[r].list

(* The directory is the history: nothing acknowledged is missing, for     *)
(* whoever reads it, and nothing else is left in it.                       *)
DiskIsTrue == TypeOK /\ AckedSurvive /\ DirectoryIsHistory /\ ReadsAreComplete

(* An entry's file never goes back to an earlier version of the entry.     *)
NoRollback ==
  [][ ~raced' => \A i \in DOMAIN disk \cap DOMAIN disk' : disk[i] <= disk'[i] ]_disk

(* Every call returns or raises, and gives the lock back. *)
CallsEnd == \A t \in Tasks : pc[t] # "idle" ~> pc[t] = "idle"
=============================================================================
