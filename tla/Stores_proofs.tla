----------------------------- MODULE Stores_proofs -----------------------------
(***************************************************************************)
(* What the backends under a MemoryArea keep.  The two layers of           *)
(* HybridStore lose nothing, with any appenders, getters, failed           *)
(* statements, cancellations, end_session and restarts, until a cold read  *)
(* overlaps an append or a statement outlives its task: until then the     *)
(* cache is never behind the row.  The run HybridColdRead is a             *)
(* counterexample without the condition.                                   *)
(*                                                                         *)
(* The directory of MarkdownStore is the history, through errors of the    *)
(* file system, deaths of the process and cancelled tasks, with any        *)
(* writers, readers and clearers, until a clear meets a writer or a write  *)
(* outlives its task.  The two machines share no constant and no variable. *)
(***************************************************************************)
EXTENDS HybridStore, MarkdownStore, FiniteSetTheorems, WellFoundedInduction, TLAPS

InLock == {"reading", "read", "writing", "written"}

(* Where an appender is, and what it knows of the two layers there.        *)
AppenderInv(t) ==
  /\ at[t] \in InLock <=> holder = t
  /\ at[t] # "idle" => entry[t] \in 1..MaxAppends
  /\ at[t] = "read" => value[t] = long
  /\ at[t] = "writing" =>
       /\ value[t] # Missing
       /\ Entries(long) \cup {entry[t]} \subseteq value[t]
       /\ short # Missing => value[t] \subseteq short
  /\ at[t] = "written" => entry[t] \in Entries(long)

HybridTypeInv ==
  /\ HybridTypeOK
  /\ \A t \in Appenders : at[t] # "idle" => entry[t] \in 1..MaxAppends
  /\ \A t \in Appenders : at[t] = "writing" => value[t] # Missing
  /\ \A t \in Getters : at[t] # "writing"

LEMMA ValuesUnion ==
  ASSUME NEW v \in {Missing} \cup Values, NEW n \in 1..MaxAppends
  PROVE  Entries(v) \cup {n} \in Values
BY DEF Entries, Values

LEMMA ValueIsThere == \A v \in Values : v # Missing
BY MissingAssumption DEF Values

LEMMA HybridTypeInvariant == HybridSpec => []HybridTypeInv
<1>1. ASSUME HybridInit PROVE HybridTypeInv
  <2>1. overlapped \in BOOLEAN
    BY <1>1 DEF HybridInit
  <2>2. at \in [Callers -> {"idle", "waiting", "reading", "read", "writing", "written"}]
    BY <1>1 DEF HybridInit
  <2>3. value \in [Callers -> {Missing} \cup Values] /\ entry \in [Callers -> 0..MaxAppends]
    BY <1>1, MaxAppendsAssumption DEF HybridInit
  <2>4. 0 \in 0..MaxAppends /\ {} \subseteq Values /\ {} \subseteq 1..MaxAppends
    BY MaxAppendsAssumption
  <2>5. \A t \in Callers : at[t] = "idle"
    BY <1>1 DEF HybridInit
  <2> QED BY <1>1, <2>1, <2>2, <2>3, <2>4, <2>5 DEF HybridInit, HybridTypeInv, HybridTypeOK, Callers
<1>2. HybridTypeInv /\ [HybridNext]_hybridVars => HybridTypeInv'
  <2> SUFFICES ASSUME HybridTypeInv, [HybridNext]_hybridVars PROVE HybridTypeInv'
    OBVIOUS
  <2>1. /\ short \in {Missing} \cup Values /\ long \in {Missing} \cup Values
        /\ holder \in Appenders \cup {Nobody}
        /\ at \in [Callers -> {"idle", "waiting", "reading", "read", "writing", "written"}]
        /\ entry \in [Callers -> 0..MaxAppends]
        /\ value \in [Callers -> {Missing} \cup Values]
        /\ orphans \subseteq Values /\ appends \in 0..MaxAppends
        /\ acked \subseteq 1..MaxAppends /\ overlapped \in BOOLEAN
        /\ Callers = Appenders \cup Getters /\ Appenders \cap Getters = {}
        /\ 0 \in 0..MaxAppends
    BY MaxAppendsAssumption, HybridRolesAssumption DEF HybridTypeInv, HybridTypeOK, Callers
  <2>2. ASSUME NEW t \in Callers, LeaveCall(t), UNCHANGED <<appends>>,
               short' \in {Missing} \cup Values, long' = long,
               orphans' \subseteq Values, acked' \subseteq 1..MaxAppends,
               overlapped' \in BOOLEAN
        PROVE  HybridTypeInv'
    BY <2>1, <2>2 DEF LeaveCall, Goto, HybridTypeInv, HybridTypeOK
  <2>3. ASSUME NEW t \in Appenders, BeginAppend(t) PROVE HybridTypeInv'
    <3>1. appends' \in 1..MaxAppends
      BY <2>1, <2>3, MaxAppendsAssumption DEF BeginAppend
    <3> QED BY <2>1, <2>3, <3>1 DEF BeginAppend, Goto, HybridTypeInv, HybridTypeOK
  <2>4. ASSUME NEW t \in Appenders, at[t] # "idle", NEW v \in {Missing} \cup Values,
               Put(t, v), holder' \in Appenders \cup {Nobody},
               UNCHANGED <<long, entry, orphans, appends, acked, overlapped>>
        PROVE  HybridTypeInv'
    <3>1. Entries(v) \cup {entry[t]} \in Values
      BY <2>4, ValuesUnion DEF HybridTypeInv
    <3>2. Entries(v) \cup {entry[t]} # Missing
      BY <3>1, ValueIsThere
    <3> QED BY <2>1, <2>4, <3>1, <3>2 DEF Put, Goto, HybridTypeInv, HybridTypeOK
  <2>5. ASSUME NEW t \in Appenders, TakeLock(t) PROVE HybridTypeInv'
    <3>1. CASE short # Missing
      BY <2>1, <2>4, <2>5, <3>1 DEF TakeLock, Turn
    <3>2. CASE short = Missing
      BY <2>1, <2>5, <3>2 DEF TakeLock, Turn, Goto, HybridTypeInv, HybridTypeOK
    <3> QED BY <3>1, <3>2
  <2>6. ASSUME NEW t \in Appenders, Extend(t) PROVE HybridTypeInv'
    BY <2>1, <2>4, <2>6 DEF Extend
  <2>7. ASSUME NEW t \in Appenders, ReturnAppend(t) PROVE HybridTypeInv'
    <3>1. entry[t] \in 1..MaxAppends
      BY <2>7 DEF ReturnAppend, HybridTypeInv
    <3> QED BY <2>1, <2>2, <2>7, <3>1 DEF ReturnAppend
  <2>8. ASSUME NEW t \in Getters, BeginGet(t) \/ WarmCache(t) PROVE HybridTypeInv'
    <3>1. CASE BeginGet(t)
      BY <2>1, <3>1 DEF BeginGet, Goto, HybridTypeInv, HybridTypeOK
    <3>2. CASE WarmCache(t)
      BY <2>1, <2>2, <3>2 DEF WarmCache
    <3> QED BY <2>8, <3>1, <3>2
  <2>9. ASSUME NEW t \in Callers, PoolStep(t) PROVE HybridTypeInv'
    <3>1. CASE RunSelect(t)
      BY <2>1, <3>1 DEF RunSelect, Goto, HybridTypeInv, HybridTypeOK
    <3>2. CASE RunReplace(t)
      BY <2>1, <3>2 DEF RunReplace, Goto, HybridTypeInv, HybridTypeOK
    <3>3. CASE StatementFails(t)
      BY <2>1, <2>2, <3>3 DEF StatementFails
    <3> QED BY <2>9, <3>1, <3>2, <3>3 DEF PoolStep
  <2>10. ASSUME NEW t \in MayBeCancelled, CancelCall(t) PROVE HybridTypeInv'
    <3>1. t \in Callers
      BY HybridCancelAssumption DEF Callers
    <3>2. at[t] = "writing" => value[t] \in Values
      BY <2>1, <3>1 DEF HybridTypeInv
    <3>3. orphans' \subseteq Values
      BY <2>1, <2>10, <3>2 DEF CancelCall
    <3> QED BY <2>1, <2>2, <2>10, <3>1, <3>3 DEF CancelCall
  <2>11. CASE OrphanRuns
    BY <2>1, <2>11 DEF OrphanRuns, HybridTypeInv, HybridTypeOK
  <2>12. CASE ClearSession
    BY <2>1, <2>12 DEF ClearSession, HybridTypeInv, HybridTypeOK
  <2>13. CASE Reopen
    BY <2>1, <2>13 DEF Reopen, HybridTypeInv, HybridTypeOK
  <2>14. CASE UNCHANGED hybridVars
    BY <2>1, <2>14 DEF hybridVars, HybridTypeInv, HybridTypeOK
  <2> QED
    BY <2>3, <2>5, <2>6, <2>7, <2>8, <2>9, <2>10, <2>11, <2>12, <2>13, <2>14
    DEF HybridNext, AppendStep
<1> QED BY <1>1, <1>2, PTL DEF HybridSpec

(* Types, with any getters and cancellations.                              *)
THEOREM HybridTypeCorrect == HybridSpec => []HybridTypeOK
<1>1. HybridTypeInv => HybridTypeOK
  BY DEF HybridTypeInv
<1> QED BY <1>1, HybridTypeInvariant, PTL

----------------------------------------------------------------------------
(* The inductive invariant of a store without overlaps: at most one task   *)
(* is in the lock, no cold read is under way during an append, the cache   *)
(* holds at least what the row holds, and the row holds every entry whose  *)
(* append has returned.                                                    *)
LayersInv ==
  /\ orphans = {}
  /\ \A t \in Appenders : AppenderInv(t)
  /\ \A r \in Getters : at[r] = "read" => value[r] = long
  /\ \A t \in Appenders, r \in Getters : at[t] = "idle" \/ at[r] = "idle"
  /\ short # Missing => Entries(long) \subseteq short
  /\ acked \subseteq Entries(long)

LEMMA LayersInvInit == HybridTypeOK /\ HybridInit => LayersInv
BY HybridRolesAssumption DEF HybridInit, LayersInv, AppenderInv, Entries, InLock, Callers

(* The task that leaves the lock leaves it to nobody, and a task that is   *)
(* not in the lock leaves it alone.                                        *)
LEMMA LeaveCallKeepsInv ==
  ASSUME HybridTypeInv, LayersInv, NEW t \in Callers, LeaveCall(t),
         UNCHANGED <<long, orphans>>,
         short' # Missing => Entries(long) \subseteq short',
         at[t] # "idle", t \in Getters \/ short' = short,
         acked' \subseteq acked \cup Entries(long)
  PROVE  LayersInv'
<1>1. /\ holder' = (IF holder = t THEN Nobody ELSE holder)
      /\ at' = [at EXCEPT ![t] = "idle"]
      /\ entry' = [entry EXCEPT ![t] = 0] /\ value' = [value EXCEPT ![t] = Missing]
  BY DEF LeaveCall, Goto
<1>2. /\ DOMAIN at = Callers /\ DOMAIN entry = Callers /\ DOMAIN value = Callers
      /\ Callers = Appenders \cup Getters /\ Appenders \cap Getters = {}
      /\ Nobody \notin Callers /\ holder \in Appenders \cup {Nobody}
  BY HybridRolesAssumption DEF HybridTypeInv, HybridTypeOK, Callers
<1>3. ASSUME NEW u \in Appenders PROVE AppenderInv(u)'
  <2>1. CASE u = t
    BY <1>1, <1>2, <2>1 DEF AppenderInv, InLock
  <2>2. CASE u # t
    <3>1. at'[u] = at[u] /\ entry'[u] = entry[u] /\ value'[u] = value[u]
      BY <1>1, <1>2, <2>2
    <3>2. holder' = u <=> holder = u
      BY <1>1, <1>2, <2>2
    <3>3. CASE t \in Getters
      <4>1. at[u] = "idle"
        BY <3>3 DEF LayersInv
      <4> QED BY <3>1, <3>2, <4>1 DEF LayersInv, AppenderInv, InLock
    <3>4. CASE short' = short
      BY <3>1, <3>2, <3>4 DEF LayersInv, AppenderInv, InLock
    <3> QED BY <3>3, <3>4
  <2> QED BY <2>1, <2>2
<1>4. \A u \in Appenders, r \in Getters : at'[u] = "idle" \/ at'[r] = "idle"
  BY <1>1, <1>2 DEF LayersInv
<1>5. \A r \in Getters : at'[r] = "read" => value'[r] = long'
  BY <1>1, <1>2 DEF LayersInv
<1> QED BY <1>3, <1>4, <1>5 DEF LayersInv, Entries

LEMMA PutKeepsInv ==
  ASSUME HybridTypeInv, LayersInv, NEW t \in Appenders, NEW v, Put(t, v),
         holder' = t, holder \in {t, Nobody}, at[t] # "idle",
         Entries(long) \subseteq Entries(v), v \in {Missing} \cup Values,
         UNCHANGED <<long, entry, orphans, acked>>
  PROVE  LayersInv'
<1> DEFINE new == Entries(v) \cup {entry[t]}
<1>1. /\ short' = new /\ value' = [value EXCEPT ![t] = new]
      /\ at' = [at EXCEPT ![t] = "writing"]
  BY DEF Put, Goto
<1>2. /\ DOMAIN at = Callers /\ DOMAIN value = Callers /\ t \in Callers
      /\ Callers = Appenders \cup Getters /\ Appenders \cap Getters = {}
      /\ entry[t] \in 1..MaxAppends
  BY HybridRolesAssumption DEF HybridTypeInv, HybridTypeOK, Callers
<1>3. new # Missing /\ Entries(long) \cup {entry[t]} \subseteq new
  BY <1>2, ValuesUnion, ValueIsThere
<1> HIDE DEF new
<1>4. ASSUME NEW u \in Appenders PROVE AppenderInv(u)'
  <2>1. CASE u = t
    BY <1>1, <1>2, <1>3, <2>1 DEF AppenderInv, InLock, Entries
  <2>2. CASE u # t
    <3>1. at'[u] = at[u] /\ at[u] \notin InLock
      BY <1>1, <1>2, <2>2, HybridRolesAssumption DEF LayersInv, AppenderInv, Callers
    <3>2. at[u] # "idle" => entry[u] \in 1..MaxAppends
      BY DEF HybridTypeInv
    <3> QED BY <2>2, <3>1, <3>2 DEF AppenderInv, InLock
  <2> QED BY <2>1, <2>2
<1>5. \A r \in Getters : at'[r] = at[r] /\ at[r] = "idle"
  BY <1>1, <1>2 DEF LayersInv
<1> QED BY <1>1, <1>3, <1>4, <1>5 DEF LayersInv, Entries

(* Every step that is not an overlap keeps LayersInv and the row's entries. *)
LEMMA LayersInvStep ==
  HybridTypeInv /\ (~overlapped => LayersInv) /\ [HybridNext]_hybridVars
    => \/ overlapped'
       \/ ~overlapped /\ LayersInv' /\ Entries(long) \subseteq Entries(long')
<1> SUFFICES ASSUME HybridTypeInv, ~overlapped => LayersInv, [HybridNext]_hybridVars, ~overlapped'
             PROVE  ~overlapped /\ LayersInv' /\ Entries(long) \subseteq Entries(long')
  BY DEF HybridTypeInv, HybridTypeOK
<1>0. ~overlapped
  <2>1. CASE UNCHANGED hybridVars
    BY <2>1 DEF hybridVars
  <2>2. CASE HybridNext
    BY <2>2
    DEF HybridNext, AppendStep, PoolStep, BeginAppend, TakeLock, Extend, ReturnAppend, BeginGet,
        WarmCache, RunSelect, RunReplace, StatementFails, CancelCall, OrphanRuns,
        ClearSession, Reopen
  <2> QED BY <2>1, <2>2
<1>1. /\ short \in {Missing} \cup Values /\ long \in {Missing} \cup Values
      /\ DOMAIN at = Callers /\ DOMAIN value = Callers /\ DOMAIN entry = Callers
      /\ Callers = Appenders \cup Getters /\ Appenders \cap Getters = {} /\ orphans = {}
      /\ holder \in Appenders \cup {Nobody}
      /\ LayersInv /\ \A t \in Appenders : AppenderInv(t)
  BY <1>0, HybridRolesAssumption DEF HybridTypeInv, HybridTypeOK, Callers, LayersInv
<1>2. ASSUME NEW t \in Appenders, BeginAppend(t)
      PROVE  LayersInv' /\ long' = long
  <2>1. appends' \in 1..MaxAppends
    BY <1>2, MaxAppendsAssumption DEF BeginAppend, HybridTypeInv, HybridTypeOK
  <2>2. \A r \in Getters : at[r] = "idle"
    BY <1>2 DEF BeginAppend, Busy
  <2>3. /\ entry' = [entry EXCEPT ![t] = appends'] /\ at' = [at EXCEPT ![t] = "waiting"]
        /\ at[t] = "idle" /\ UNCHANGED <<short, long, holder, value, orphans, acked>>
    BY <1>2 DEF BeginAppend, Goto
  <2>4. ASSUME NEW u \in Appenders PROVE AppenderInv(u)'
    BY <1>1, <2>1, <2>3 DEF AppenderInv, InLock
  <2>5. \A r \in Getters : at'[r] = "idle"
    BY <1>1, <2>2, <2>3
  <2> QED BY <1>1, <2>3, <2>4, <2>5 DEF LayersInv, Entries
<1>3. ASSUME NEW t \in Appenders, TakeLock(t) PROVE LayersInv' /\ long' = long
  <2>1. CASE short # Missing
    <3>1. Entries(long) \subseteq Entries(short)
      BY <1>1, <2>1 DEF LayersInv, Entries
    <3> QED BY <1>1, <1>3, <2>1, <3>1, PutKeepsInv DEF TakeLock, Turn
  <2>2. CASE short = Missing
    <3>1. /\ at[t] = "waiting" /\ holder = Nobody /\ holder' = t
          /\ at' = [at EXCEPT ![t] = "reading"]
          /\ UNCHANGED <<short, long, entry, value, orphans, acked>>
      BY <1>3, <2>2 DEF TakeLock, Turn, Goto
    <3>2. ASSUME NEW u \in Appenders PROVE AppenderInv(u)'
      BY <1>1, <3>1, HybridRolesAssumption DEF AppenderInv, InLock
    <3>3. \A r \in Getters : at[r] = "idle" /\ at'[r] = "idle"
      BY <1>1, <3>1 DEF LayersInv
    <3> QED BY <1>1, <3>1, <3>2, <3>3 DEF LayersInv, Entries
  <2> QED BY <2>1, <2>2
<1>4. ASSUME NEW t \in Appenders, Extend(t) PROVE LayersInv' /\ long' = long
  <2>1. holder = t /\ value[t] = long
    BY <1>1, <1>4 DEF Extend, AppenderInv, InLock
  <2> QED BY <1>1, <1>4, <2>1, PutKeepsInv DEF Extend
<1>5. ASSUME NEW t \in Appenders, ReturnAppend(t) PROVE LayersInv' /\ long' = long
  <2>1. entry[t] \in Entries(long)
    BY <1>1, <1>5 DEF ReturnAppend, AppenderInv
  <2> QED BY <1>1, <1>5, <2>1, LeaveCallKeepsInv DEF ReturnAppend, LayersInv
<1>6. ASSUME NEW r \in Getters, BeginGet(r) PROVE LayersInv' /\ long' = long
  <2>1. \A t \in Appenders : at[t] = "idle"
    BY <1>6 DEF BeginGet, Busy
  <2>2. /\ at' = [at EXCEPT ![r] = "reading"]
        /\ UNCHANGED <<short, long, holder, entry, value, orphans, acked>>
    BY <1>6 DEF BeginGet, Goto
  <2>3. ASSUME NEW u \in Appenders PROVE AppenderInv(u)' /\ at'[u] = "idle"
    BY <1>1, <2>1, <2>2 DEF AppenderInv, InLock
  <2>4. \A q \in Getters : at'[q] = "read" => value'[q] = long'
    BY <1>1, <2>2 DEF LayersInv
  <2> QED BY <1>1, <2>2, <2>3, <2>4 DEF LayersInv, Entries
<1>7. ASSUME NEW r \in Getters, WarmCache(r) PROVE LayersInv' /\ long' = long
  <2>1. value[r] = long
    BY <1>1, <1>7 DEF WarmCache, LayersInv
  <2>2. short' # Missing => Entries(long) \subseteq short'
    BY <1>1, <1>7, <2>1 DEF WarmCache, LayersInv, Entries
  <2> QED BY <1>1, <1>7, <2>2, LeaveCallKeepsInv DEF WarmCache, LayersInv
<1>8. ASSUME NEW t \in Callers, RunSelect(t) PROVE LayersInv' /\ long' = long
  <2>1. /\ at[t] = "reading" /\ at' = [at EXCEPT ![t] = "read"]
        /\ value' = [value EXCEPT ![t] = long]
        /\ UNCHANGED <<short, long, holder, entry, orphans, acked>>
    BY <1>8 DEF RunSelect, Goto
  <2>2. ASSUME NEW u \in Appenders PROVE AppenderInv(u)'
    BY <1>1, <2>1 DEF AppenderInv, InLock
  <2>3. /\ \A q \in Getters : at'[q] = "read" => value'[q] = long'
        /\ \A u \in Appenders, q \in Getters : at'[u] = "idle" \/ at'[q] = "idle"
    BY <1>1, <2>1 DEF LayersInv
  <2> QED BY <1>1, <2>1, <2>2, <2>3 DEF LayersInv, Entries
<1>9. ASSUME NEW t \in Callers, RunReplace(t)
      PROVE  LayersInv' /\ Entries(long) \subseteq Entries(long')
  <2>0. t \in Appenders
    BY <1>1, <1>9 DEF RunReplace, HybridTypeInv
  <2>1. /\ holder = t /\ value[t] # Missing
        /\ Entries(long) \cup {entry[t]} \subseteq value[t]
        /\ short # Missing => value[t] \subseteq short
        /\ long' = value[t] /\ at' = [at EXCEPT ![t] = "written"]
        /\ UNCHANGED <<short, holder, entry, value, orphans, acked>>
    BY <1>1, <1>9, <2>0 DEF RunReplace, AppenderInv, InLock, Goto
  <2>2. Entries(long') = value[t]
    BY <2>1 DEF Entries
  <2>3. ASSUME NEW u \in Appenders PROVE AppenderInv(u)'
    <3>1. CASE u = t
      <4>1. at'[u] = "written" /\ entry'[u] \in 1..MaxAppends
        BY <1>1, <1>9, <2>1, <3>1 DEF RunReplace, HybridTypeInv
      <4> QED BY <2>1, <2>2, <3>1, <4>1 DEF AppenderInv, InLock
    <3>2. CASE u # t
      <4>1. at'[u] = at[u] /\ at[u] \notin InLock
        BY <1>1, <2>1, <3>2 DEF AppenderInv
      <4> QED BY <1>1, <2>1, <3>2, <4>1 DEF AppenderInv, InLock
    <3> QED BY <3>1, <3>2
  <2>4. \A r \in Getters : at[r] = "idle" /\ at'[r] = "idle"
    BY <1>1, <1>9, <2>0, <2>1 DEF LayersInv, RunReplace
  <2> QED BY <1>1, <2>1, <2>2, <2>3, <2>4 DEF LayersInv
<1>10. ASSUME NEW t \in Callers, StatementFails(t) PROVE LayersInv' /\ long' = long
  BY <1>1, <1>10, LeaveCallKeepsInv DEF StatementFails, LayersInv
<1>11. ASSUME NEW t \in MayBeCancelled, CancelCall(t) PROVE LayersInv' /\ long' = long
  <2>1. t \in Callers
    BY HybridCancelAssumption DEF Callers
  <2> QED BY <1>1, <1>11, <2>1, LeaveCallKeepsInv DEF CancelCall, LayersInv
<1>12. CASE ClearSession
  BY <1>1, <1>12 DEF ClearSession, LayersInv, AppenderInv, Entries
<1>13. CASE Reopen
  BY <1>1, <1>13, HybridRolesAssumption DEF Reopen, LayersInv, AppenderInv, InLock, Entries
<1>14. CASE UNCHANGED hybridVars
  BY <1>1, <1>14 DEF hybridVars, LayersInv, AppenderInv, Entries
<1>15. ~OrphanRuns
  BY <1>1 DEF OrphanRuns
<1> QED
  BY <1>0, <1>2, <1>3, <1>4, <1>5, <1>6, <1>7, <1>8, <1>9, <1>10, <1>11, <1>12,
     <1>13, <1>14, <1>15
  DEF HybridNext, AppendStep, PoolStep

LEMMA LayersInvariant == HybridSpec => [](HybridTypeInv /\ (~overlapped => LayersInv))
<1>1. HybridTypeInv /\ HybridInit => (~overlapped => LayersInv)
  BY LayersInvInit DEF HybridTypeInv
<1>2. HybridTypeInv /\ (~overlapped => LayersInv) /\ [HybridNext]_hybridVars
        => (~overlapped => LayersInv)'
  BY LayersInvStep
<1> QED BY <1>1, <1>2, HybridTypeInvariant, PTL DEF HybridSpec

(* Without overlaps an entry whose append has returned stays visible in    *)
(* the cache, ...                                                          *)
THEOREM EntriesStayVisible == HybridSpec => []VisibleUnlessOverlapped
<1>1. HybridTypeInv /\ (~overlapped => LayersInv) => VisibleUnlessOverlapped
  BY DEF LayersInv, VisibleUnlessOverlapped, AckedVisible
<1> QED BY <1>1, LayersInvariant, PTL

(* ... stays in the committed row, ...                                     *)
THEOREM EntriesStayDurable == HybridSpec => []DurableUnlessOverlapped
<1>1. HybridTypeInv /\ (~overlapped => LayersInv) => DurableUnlessOverlapped
  BY DEF LayersInv, DurableUnlessOverlapped, AckedDurable
<1> QED BY <1>1, LayersInvariant, PTL

(* ... and no write takes anything back.                                   *)
THEOREM RowOnlyGrows == HybridSpec => GrowsUnlessOverlapped
<1>1. (HybridTypeInv /\ (~overlapped => LayersInv)) /\ [HybridNext]_hybridVars
        => [~overlapped' => Entries(long) \subseteq Entries(long')]_long
  BY LayersInvStep
<1> QED BY <1>1, LayersInvariant, PTL DEF HybridSpec, GrowsUnlessOverlapped

(* The two layers agree for everyone whose append returned, as long as no  *)
(* read refreshes the cache during an append and no statement outlives its *)
(* task (hybrid_backend.py:20-32, sqlite_backend.py:43-60).                *)
THEOREM LayersStayAgreed == HybridSpec => []LayersAgree
<1>1. HybridTypeOK /\ VisibleUnlessOverlapped /\ DurableUnlessOverlapped => LayersAgree
  BY DEF LayersAgree
<1> QED BY <1>1, HybridTypeCorrect, EntriesStayVisible, EntriesStayDurable, PTL

-----------------------------------------------------------------------------
(* MarkdownStore.  The phases of a function on the pool, ... *)
Phases == {"none", "list", "look", "read", "keys", "write", "fill", "replace",
           "sweep", "drop", "unlink", "done", "failed"}

(* A history, or the contents of a directory. *)
IsList(f, V) == DOMAIN f \subseteq Ids /\ f \in [DOMAIN f -> V]

(* A function on the pool is a record that Call made and file steps changed. *)
IsCall(j) ==
  /\ j = [phase |-> j.phase, list |-> j.list, todo |-> j.todo, keep |-> j.keep, at |-> j.at]
  /\ j.phase \in Phases /\ j.todo \subseteq Ids /\ j.keep \subseteq Ids

Writes == {"write", "fill", "replace", "sweep", "drop", "unlink"}

(* ... and those a task at l may be waiting for. *)
PhasesOf(l) ==
  CASE l \in {"idle", "waiting"}    -> {"none"}
    [] l \in {"loading", "reading"} -> {"list", "look", "read", "done", "failed"}
    [] l = "storing"  -> Writes \cup {"done", "failed"}
    [] l = "listing"  -> {"keys", "done", "failed"}
    [] l = "clearing" -> {"sweep", "drop", "unlink", "done", "failed"}

CallOK(j) ==
  /\ IsCall(j)
  /\ j.phase = "none" => j = NoCall
  /\ j.phase \in {"write", "fill", "replace"} => j.todo \subseteq DOMAIN j.list
  /\ j.phase \in {"read", "fill", "replace", "unlink"} => j.at \in j.todo
  /\ j.phase = "unlink" => j.at \notin j.keep

Labels == {"idle", "waiting", "loading", "storing", "reading", "listing", "clearing"}

(* Task t at l has j on the pool. *)
PlaceOK(t, l, j) ==
  /\ j.phase \in PhasesOf(l)
  /\ l \in {"waiting", "loading", "storing"} => t \in Writers
  /\ l = "reading" => t \in Readers
  /\ l \in {"listing", "clearing"} => t \in Clearers /\ j.list = Empty /\ j.keep = {}
  /\ lock = t <=> l \in {"loading", "storing"}

CallsOK ==
  /\ job = [x \in Threads |-> job[x]] /\ pc \in [Tasks -> Labels] /\ lock \in Writers \cup {NoTask}
  /\ \A x \in Threads : CallOK(job[x])
  /\ \A t \in Tasks : PlaceOK(t, pc[t], job[t])

(* The writers that have not yet made their change: each may still make a  *)
(* version, so no version is newer than the calls without them.            *)
Early == {t \in Writers : pc[t] \in {"waiting", "loading"}}
Newest == calls + 1 - Cardinality(Early)

VersionsOK ==
  /\ calls \in 0..MaxCalls
  /\ IsFiniteSet(Early) /\ Cardinality(Early) <= calls
  /\ IsList(disk, 0..Newest) /\ IsList(tmp, 0..Newest)
  /\ \A x \in Threads : IsList(job[x].list, 1..Newest)

(* An entry to append is none of the ids in use, and no two are the same. *)
Known == DOMAIN disk \cup DOMAIN tmp \cup UNION {DOMAIN job[x].list : x \in Threads}

FreshOK ==
  /\ mine \in [Writers -> 0..MaxCalls]
  /\ \A t \in Early : mine[t] \in 1..calls /\ mine[t] \notin Known
  /\ \A t, u \in Early : mine[t] = mine[u] => t = u
  /\ \A i \in Known : i <= calls

GhostsOK ==
  /\ faults \in 0..MaxFaults
  /\ settled \in Lists(Versions) \cup {Unsettled} /\ safe \subseteq Ids
  /\ promised \in [Readers -> SUBSET Ids] /\ raced \in BOOLEAN

BasicInv == CallsOK /\ VersionsOK /\ FreshOK /\ GhostsOK

-----------------------------------------------------------------------------
(* While no clear has met a writer, and no thread outlived its task, at    *)
(* most one task changes the directory.                                    *)
AloneOK ==
  /\ job[Orphan].phase \notin Writes
  /\ \A c \in Clearers : pc[c] # "idle" => lock = NoTask /\ \A d \in Clearers \ {c} : pc[d] = "idle"

(* A writer that reads in the lock has read the files it is done with. *)
LoadOK(j) ==
  /\ j.phase \in {"look", "read"} =>
       /\ j.todo \subseteq DOMAIN disk
       /\ j.list = [i \in DOMAIN disk \ j.todo |-> disk[i]]
  /\ j.phase = "list" => j.list = Empty
  /\ j.phase = "done" => j.list = disk

Written(j, i) == i \in DOMAIN disk /\ disk[i] = j.list[i]

(* A function that writes keeps everything that is safe, never goes back   *)
(* to an earlier version, and has in place what it is done with.           *)
StoreOK(j) ==
  /\ j.phase # "failed" => safe \subseteq DOMAIN j.list
  /\ j.phase \in Writes =>
       \A i \in DOMAIN j.list \cap DOMAIN disk : disk[i] <= j.list[i]
  /\ j.phase \in {"write", "fill", "replace"} =>
       /\ \A i \in DOMAIN j.list \ j.todo : i \in j.keep /\ Written(j, i)
       /\ j.keep \subseteq DOMAIN j.list
       /\ j.phase \in {"fill", "replace"} => j.at \in DOMAIN tmp /\ j.at \in j.keep
       /\ j.phase = "replace" => tmp[j.at] = j.list[j.at]
  /\ j.phase \in {"sweep", "drop", "unlink"} =>
       /\ j.keep = DOMAIN j.list
       /\ \A i \in DOMAIN j.list : Written(j, i)
       /\ j.phase # "sweep" => DOMAIN disk \subseteq DOMAIN j.list \cup j.todo
  /\ j.phase = "done" => disk = j.list

(* A read outside the lock has, or will still look at, what was promised. *)
ReadOK(r, j) ==
  /\ promised[r] \subseteq safe
  /\ j.phase \in {"look", "read"} => promised[r] \subseteq j.todo \cup DOMAIN j.list
  /\ j.phase = "done" => promised[r] \subseteq DOMAIN j.list

ListingOK(j) == safe = {} /\ (j.phase = "done" => j.todo = DOMAIN disk)

(* What task t at l has done so far. *)
DoneOK(t, l, j) ==
  /\ l = "loading" => LoadOK(j)
  /\ l \in {"storing", "clearing"} => StoreOK(j)
  /\ l = "reading" => ReadOK(t, j)
  /\ l = "listing" => ListingOK(j)

Storing(t) == pc[t] \in {"storing", "clearing"}

(* Every file is whole, everything safe has one, and between writes the    *)
(* directory is the list of the last of them.                              *)
DiskOK ==
  /\ \A i \in DOMAIN disk : disk[i] # Torn
  /\ safe \subseteq DOMAIN disk
  /\ settled # Unsettled /\ (\A t \in Tasks : ~Storing(t)) => disk = settled

CalmOK == AloneOK /\ DiskOK /\ \A t \in Tasks : DoneOK(t, pc[t], job[t])

(* The inductive invariant. *)
MarkdownInv == BasicInv /\ (~raced => CalmOK)

-----------------------------------------------------------------------------
LEMMA Facts ==
  /\ Tasks = Writers \cup Readers \cup Clearers /\ Threads = Tasks \cup {Orphan}
  /\ Writers \cap Readers = {} /\ Writers \cap Clearers = {} /\ Readers \cap Clearers = {}
  /\ Orphan \notin Tasks /\ NoTask \notin Tasks /\ NoTask # Orphan
  /\ MaxCalls \in Nat /\ MaxFaults \in Nat /\ Ids = 1..MaxCalls /\ Torn = 0
  /\ Versions = 1..(MaxCalls + 1) /\ Cancellable \subseteq Tasks /\ Limit \in Nat
BY RolesAssumption, CancellableAssumption, BoundsAssumption DEF Tasks, Threads, Ids, Versions, Torn

LEMMA ListsAre == \A V, f : f \in Lists(V) <=> IsList(f, V)
<1> SUFFICES ASSUME NEW V, NEW f PROVE f \in Lists(V) <=> IsList(f, V)
  OBVIOUS
<1>1. ASSUME f \in Lists(V) PROVE IsList(f, V)
  BY <1>1 DEF Lists, IsList
<1>2. ASSUME IsList(f, V) PROVE f \in Lists(V)
  BY <1>2 DEF Lists, IsList
<1> QED  BY <1>1, <1>2

LEMMA EmptyIs == DOMAIN Empty = {} /\ \A V : IsList(Empty, V)
BY DEF Empty, IsList

LEMMA WithIs ==
  ASSUME NEW V, NEW f, IsList(f, V), NEW i \in Ids, NEW v \in V
  PROVE  IsList(With(f, i, v), V)
BY DEF With, IsList

LEMMA WithoutIs ==
  ASSUME NEW V, NEW f, IsList(f, V), NEW i
  PROVE  IsList(Without(f, i), V)
BY DEF Without, Restrict, IsList

LEMMA WiderList ==
  ASSUME NEW V, NEW W, V \subseteq W, NEW f, IsList(f, V)
  PROVE  IsList(f, W)
BY DEF IsList

LEMMA SameList ==
  ASSUME NEW V, NEW W, NEW f, IsList(f, V), NEW g, IsList(g, W), DOMAIN f = DOMAIN g,
         \A i \in DOMAIN f : f[i] = g[i]
  PROVE  f = g
BY DEF IsList

LEMMA FirstIs ==
  ASSUME NEW S \in SUBSET Ids, S # {}
  PROVE  First(S) \in S
<1>1. S \subseteq Nat
  BY Facts
<1>2. PICK i \in S : \A j \in S : <<j, i>> \notin OpToRel(<, Nat)
  BY <1>1, WFMin, NatLessThanWellFounded
<1>3. \A j \in S : ~(j < i)
  BY <1>1, <1>2, Zenon DEF OpToRel
<1>4. \A j \in S : i <= j
  BY <1>1, <1>3
<1> QED  BY <1>4 DEF First

LEMMA CallIs ==
  ASSUME NEW phase \in Phases, NEW list, NEW todo \in SUBSET Ids
  PROVE  /\ IsCall(Call(phase, list, todo)) /\ Call(phase, list, todo).phase = phase
         /\ Call(phase, list, todo).list = list /\ Call(phase, list, todo).todo = todo
         /\ Call(phase, list, todo).keep = {}
BY DEF IsCall, Call

LEMMA NoCallIs == NoCall.phase = "none" /\ NoCall.list = Empty /\ NoCall.keep = {} /\ CallOK(NoCall)
BY EmptyIs DEF NoCall, Call, CallOK, IsCall, Phases

(* Functions on the pool. *)
LEMMA AllLists ==
  ASSUME BasicInv
  PROVE  /\ calls \in Nat /\ Newest \in Nat /\ Newest >= 1 /\ Newest <= MaxCalls + 1
         /\ \A x \in Threads : /\ CallOK(job[x]) /\ IsList(job[x].list, 1..Newest)
                               /\ DOMAIN job[x].list \subseteq Known
         /\ IsList(disk, 0..Newest) /\ DOMAIN disk \subseteq Known
         /\ IsList(tmp, 0..Newest) /\ DOMAIN tmp \subseteq Known /\ Known \subseteq Ids
<1>1. Cardinality(Early) \in Nat
  BY FS_CardinalityType DEF BasicInv, VersionsOK
<1>2. calls \in Nat /\ Newest \in Nat /\ Newest >= 1 /\ Newest <= MaxCalls + 1
  BY <1>1, Facts DEF BasicInv, VersionsOK, Newest
<1> QED  BY <1>2 DEF BasicInv, VersionsOK, CallsOK, Known, IsList

(* What the function of x may do. *)
Moves(x, new) ==
  /\ CallOK(new) /\ IsList(new.list, 1..Newest) /\ DOMAIN new.list \subseteq Known
  /\ job' = [job EXCEPT ![x] = new]
  /\ IsList(disk', 0..Newest) /\ DOMAIN disk' \subseteq Known
  /\ IsList(tmp', 0..Newest) /\ DOMAIN tmp' \subseteq Known
  /\ \A t \in Tasks : t = x => PlaceOK(t, pc[t], new)
  /\ faults' \in 0..MaxFaults
  /\ UNCHANGED <<lock, pc, mine, calls, settled, safe, promised, raced>>

LEMMA MovesKeep ==
  ASSUME BasicInv, NEW x \in Threads, NEW new, Moves(x, new)
  PROVE  BasicInv'
<1>1. /\ job'[x] = new /\ \A y \in Threads : y # x => job'[y] = job[y]
      /\ job' = [y \in Threads |-> job'[y]]
  BY DEF Moves, BasicInv, CallsOK
<1>2. Early' = Early /\ Newest' = Newest
  BY DEF Moves, Early, Newest
<1>3. CallsOK'
  BY <1>1, Facts DEF Moves, BasicInv, CallsOK, PlaceOK
<1>4. VersionsOK'
  BY <1>1, <1>2 DEF Moves, BasicInv, VersionsOK
<1>5. Known' \subseteq Known
  <2>1. \A y \in Threads : DOMAIN job'[y].list \subseteq Known
    BY <1>1, AllLists DEF Moves
  <2> QED  BY <2>1 DEF Moves, Known
<1>6. FreshOK'
  BY <1>2, <1>5 DEF Moves, BasicInv, FreshOK
<1> QED  BY <1>3, <1>4, <1>6 DEF Moves, BasicInv, GhostsOK

(* Where a function may be is the matter of the task that sent it. *)
LEMMA SamePlace ==
  ASSUME NEW t, NEW l \in Labels, NEW j, NEW new, PlaceOK(t, l, j),
         j.phase \in Writes \cup {"list", "look", "read", "keys"},
         \/ new.phase \in {"done", "failed"}
         \/ j.phase \in {"list", "look", "read"} /\ new.phase \in {"look", "read"}
         \/ j.phase \in {"write", "fill", "replace"} /\ new.phase \in Writes
         \/ j.phase \in {"sweep", "drop", "unlink"} /\ new.phase \in {"sweep", "drop", "unlink"},
         l \in {"listing", "clearing"} => new.list = Empty /\ new.keep = {}
  PROVE  PlaceOK(t, l, new)
BY DEF PlaceOK, PhasesOf, Writes, Labels

LEMMA Inside ==
  ASSUME BasicInv, NEW x \in Threads
  PROVE  /\ IsCall(job[x]) /\ (job[x].phase = "none" => job[x] = NoCall)
         /\ (x \in Tasks => PlaceOK(x, pc[x], job[x]) /\ pc[x] \in Labels)
BY DEF BasicInv, CallsOK, CallOK

LEMMA AloneTask ==
  ASSUME BasicInv, AloneOK, NEW t \in Tasks, Storing(t)
  PROVE  \A u \in Tasks \ {t} : pc[u] \notin {"loading", "storing", "listing", "clearing"}
<1>1. PlaceOK(t, pc[t], job[t])
  BY Inside, Facts
<1>2. ASSUME NEW u \in Tasks \ {t} PROVE pc[u] \notin {"loading", "storing", "listing", "clearing"}
  <2>1. PlaceOK(u, pc[u], job[u])
    BY Inside, Facts
  <2>2. CASE pc[t] = "storing"
    BY <1>1, <2>1, <2>2, Facts DEF PlaceOK, AloneOK
  <2>3. CASE pc[t] = "clearing"
    BY <1>1, <2>1, <2>3, Facts DEF PlaceOK, AloneOK
  <2> QED  BY <2>2, <2>3 DEF Storing
<1> QED  BY <1>2

LEMMA AloneFacts ==
  ASSUME BasicInv, AloneOK, NEW x \in Threads, job[x].phase \in Writes
  PROVE  /\ x \in Tasks /\ Storing(x)
         /\ \A u \in Tasks \ {x} : pc[u] \notin {"loading", "storing", "listing", "clearing"}
<1>1. x \in Tasks
  BY Facts DEF AloneOK
<1>2. pc[x] \in Labels /\ PlaceOK(x, pc[x], job[x])
  BY <1>1, Inside
<1>3. Storing(x)
  BY <1>2 DEF PlaceOK, PhasesOf, Writes, Labels, Storing
<1> QED  BY <1>1, <1>3, AloneTask

LEMMA ReadsKeep ==
  ASSUME BasicInv, CalmOK, NEW x \in Threads, NEW new, Moves(x, new), UNCHANGED <<disk, tmp>>,
         new.phase \in Writes => job[x].phase \in Writes,
         \A t \in Tasks : t = x => DoneOK(t, pc[t], new)
  PROVE  CalmOK'
<1>1. /\ job'[x] = new /\ \A y \in Threads : y # x => job'[y] = job[y]
      /\ lock' = lock /\ pc' = pc /\ safe' = safe /\ settled' = settled /\ promised' = promised
  BY DEF Moves, BasicInv, CallsOK
<1>2. AloneOK'
  BY <1>1, Facts DEF CalmOK, AloneOK
<1>3. DiskOK'
  BY <1>1 DEF CalmOK, DiskOK, Storing
<1>4. ASSUME NEW t \in Tasks PROVE DoneOK(t, pc[t], job[t])'
  <2>1. DoneOK(t, pc[t], job'[t])
    BY <1>1, Facts DEF CalmOK
  <2> QED  BY <1>1, <2>1 DEF DoneOK, LoadOK, StoreOK, Written, ReadOK, ListingOK
<1> QED  BY <1>2, <1>3, <1>4 DEF CalmOK

LEMMA WritesKeep ==
  ASSUME BasicInv, CalmOK, NEW x \in Threads, NEW new, Moves(x, new), job[x].phase \in Writes,
         StoreOK(new)', \A i \in DOMAIN disk' : disk'[i] # Torn, safe \subseteq DOMAIN disk'
  PROVE  CalmOK'
<1>1. /\ job'[x] = new /\ \A y \in Threads : y # x => job'[y] = job[y]
      /\ lock' = lock /\ pc' = pc /\ safe' = safe /\ settled' = settled /\ promised' = promised
  BY DEF Moves, BasicInv, CallsOK
<1>2. /\ x \in Tasks /\ Storing(x)
      /\ \A u \in Tasks \ {x} : pc[u] \notin {"loading", "storing", "listing", "clearing"}
  BY AloneFacts DEF CalmOK
<1>3. AloneOK'
  BY <1>1, <1>2, Facts DEF CalmOK, AloneOK
<1>4. DiskOK'
  BY <1>1, <1>2 DEF DiskOK, Storing
<1>5. ASSUME NEW t \in Tasks PROVE DoneOK(t, pc[t], job[t])'
  <2>1. CASE t = x
    BY <1>1, <1>2, <2>1 DEF DoneOK, Storing
  <2>2. CASE t # x
    <3>1. job'[t] = job[t] /\ DoneOK(t, pc[t], job[t])
      BY <1>1, <2>2, Facts DEF CalmOK
    <3> QED  BY <1>1, <1>2, <2>2, <3>1 DEF DoneOK, ReadOK
  <2> QED  BY <2>1, <2>2
<1> QED  BY <1>3, <1>4, <1>5 DEF CalmOK

Keeps == BasicInv' /\ (~raced /\ CalmOK => CalmOK')

LEMMA OwnMoves ==
  ASSUME BasicInv, NEW x \in Threads, NEW new, CallOK(new),
         IsList(new.list, 1..Newest), DOMAIN new.list \subseteq Known,
         \A t \in Tasks : t = x => PlaceOK(t, pc[t], new),
         job' = [job EXCEPT ![x] = new], faults' \in 0..MaxFaults,
         UNCHANGED <<disk, tmp, lock, pc, mine, calls, settled, safe, promised, raced>>
  PROVE  Moves(x, new)
BY AllLists DEF Moves

(* A function that reads, or has nothing more to do, concerns its task only. *)
LEMMA OwnKeeps ==
  ASSUME BasicInv, NEW x \in Threads, NEW new, CallOK(new),
         job[x].phase \in Writes \cup {"list", "look", "read", "keys"},
         IsList(new.list, 1..Newest), DOMAIN new.list \subseteq Known,
         \/ new.phase \in {"done", "failed"}
         \/ job[x].phase \in {"list", "look", "read"} /\ new.phase \in {"look", "read"}
         \/ job[x].phase \in {"write", "fill", "replace"} /\ new.phase \in Writes
         \/ job[x].phase \in {"sweep", "drop", "unlink"} /\ new.phase \in {"sweep", "drop", "unlink"},
         job[x].list = Empty /\ job[x].keep = {} /\ job[x].phase \in {"keys", "sweep", "drop", "unlink"}
           => new.list = Empty /\ new.keep = {},
         \A t \in Tasks : t = x /\ ~raced /\ CalmOK => DoneOK(t, pc[t], new),
         job' = [job EXCEPT ![x] = new], faults' \in 0..MaxFaults,
         UNCHANGED <<disk, tmp, lock, pc, mine, calls, settled, safe, promised, raced>>
  PROVE  Keeps
<1>1. \A t \in Tasks : t = x => PlaceOK(t, pc[t], new)
  <2> SUFFICES ASSUME x \in Tasks PROVE PlaceOK(x, pc[x], new)
    OBVIOUS
  <2>1. PlaceOK(x, pc[x], job[x]) /\ pc[x] \in Labels
    BY Inside
  <2>2. pc[x] \in {"listing", "clearing"} => new.list = Empty /\ new.keep = {}
    BY <2>1 DEF PlaceOK, PhasesOf, Writes
  <2> QED  BY <2>1, <2>2, SamePlace
<1>2. Moves(x, new)
  BY <1>1, OwnMoves
<1>3. BasicInv'
  BY <1>2, MovesKeep
<1>4. new.phase \in Writes => job[x].phase \in Writes
  BY DEF Writes
<1> QED  BY <1>2, <1>3, <1>4, ReadsKeep DEF Keeps

LEMMA ListKeysKeeps ==
  ASSUME BasicInv, NEW x \in Threads, ListKeys(x)
  PROVE  Keeps
<1>1. PICK new : new = [job[x] EXCEPT !.phase = "done", !.todo = DOMAIN disk]
  OBVIOUS
<1>2. /\ job[x].phase = "keys" /\ job' = [job EXCEPT ![x] = new]
      /\ UNCHANGED <<disk, tmp, lock, pc, mine, calls, faults, settled, safe, promised, raced>>
  BY <1>1 DEF ListKeys, Sets, Same
<1>3. IsCall(job[x]) /\ DOMAIN disk \subseteq Ids
  BY Inside, AllLists
<1>4. /\ new.phase = "done" /\ new.list = job[x].list /\ new.keep = job[x].keep
      /\ new.todo = DOMAIN disk /\ CallOK(new)
  BY <1>1, <1>3 DEF CallOK, IsCall, Phases
<1>5. ASSUME NEW t \in Tasks, t = x, CalmOK PROVE DoneOK(t, pc[t], new)
  <2>1. PlaceOK(t, pc[t], job[t]) /\ pc[t] \in Labels /\ DoneOK(t, pc[t], job[t])
    BY <1>5, Inside DEF CalmOK
  <2>2. pc[t] = "listing"
    BY <1>2, <1>5, <2>1 DEF PlaceOK, PhasesOf, Writes, Labels
  <2> QED  BY <1>4, <2>1, <2>2 DEF DoneOK, ListingOK
<1>6. faults' \in 0..MaxFaults
  BY <1>2 DEF BasicInv, GhostsOK
<1> QED  BY <1>2, <1>4, <1>5, <1>6, AllLists, OwnKeeps DEF Writes

(* Who reads: a writer in the lock, or a reader. *)
LEMMA ReadingFacts ==
  ASSUME BasicInv, NEW t \in Tasks, job[t].phase \in {"list", "look", "read"}
  PROVE  pc[t] \in {"loading", "reading"}
<1>1. PlaceOK(t, pc[t], job[t]) /\ pc[t] \in Labels
  BY Inside, Facts
<1> QED  BY <1>1 DEF PlaceOK, PhasesOf, Writes, Labels

LEMMA ListFilesKeeps ==
  ASSUME BasicInv, NEW x \in Threads, ListFiles(x)
  PROVE  Keeps
<1>1. PICK new : new = [job[x] EXCEPT !.phase = "look", !.todo = DOMAIN disk]
  OBVIOUS
<1>2. /\ job[x].phase = "list" /\ job' = [job EXCEPT ![x] = new]
      /\ UNCHANGED <<disk, tmp, lock, pc, mine, calls, faults, settled, safe, promised, raced>>
  BY <1>1 DEF ListFiles, Sets, Same
<1>3. IsCall(job[x]) /\ DOMAIN disk \subseteq Ids
  BY Inside, AllLists
<1>4. /\ new.phase = "look" /\ new.list = job[x].list /\ new.keep = job[x].keep
      /\ new.todo = DOMAIN disk /\ CallOK(new)
  BY <1>1, <1>3 DEF CallOK, IsCall, Phases
<1>5. ASSUME NEW t \in Tasks, t = x, CalmOK PROVE DoneOK(t, pc[t], new)
  <2>1. pc[t] \in {"loading", "reading"} /\ DoneOK(t, pc[t], job[t])
    BY <1>2, <1>5, ReadingFacts DEF CalmOK
  <2>2. CASE pc[t] = "loading"
    <3>1. job[t].list = Empty
      BY <1>2, <1>5, <2>1, <2>2 DEF DoneOK, LoadOK
    <3>2. Empty = [i \in DOMAIN disk \ DOMAIN disk |-> disk[i]]
      BY DEF Empty
    <3> QED  BY <1>4, <1>5, <2>2, <3>1, <3>2 DEF DoneOK, LoadOK
  <2>3. CASE pc[t] = "reading"
    BY <1>4, <1>5, <2>1, <2>3 DEF DoneOK, ReadOK, CalmOK, DiskOK
  <2> QED  BY <2>1, <2>2, <2>3
<1>6. faults' \in 0..MaxFaults
  BY <1>2 DEF BasicInv, GhostsOK
<1> QED  BY <1>2, <1>4, <1>5, <1>6, AllLists, OwnKeeps DEF Writes

LEMMA LookKeeps ==
  ASSUME BasicInv, NEW x \in Threads, Look(x)
  PROVE  Keeps
<1>0. /\ job[x].phase = "look" /\ IsCall(job[x])
      /\ UNCHANGED <<disk, tmp, lock, pc, mine, calls, faults, settled, safe, promised, raced>>
      /\ faults' \in 0..MaxFaults /\ faults' = faults
  BY Inside DEF Look, Same, BasicInv, GhostsOK
<1>1. CASE job[x].todo = {}
  <2>1. PICK new : new = [job[x] EXCEPT !.phase = "done"]
    OBVIOUS
  <2>2. job' = [job EXCEPT ![x] = new]
    BY <1>1, <2>1 DEF Look, Sets
  <2>3. /\ new.phase = "done" /\ new.list = job[x].list /\ new.keep = job[x].keep
        /\ new.todo = {} /\ CallOK(new)
    BY <1>0, <1>1, <2>1 DEF CallOK, IsCall, Phases
  <2>4. ASSUME NEW t \in Tasks, t = x, CalmOK PROVE DoneOK(t, pc[t], new)
    <3>1. pc[t] \in {"loading", "reading"} /\ DoneOK(t, pc[t], job[t])
      BY <1>0, <2>4, ReadingFacts DEF CalmOK
    <3>2. CASE pc[t] = "loading"
      <4>1. job[t].list = [i \in DOMAIN disk \ {} |-> disk[i]]
        BY <1>0, <1>1, <2>4, <3>1, <3>2 DEF DoneOK, LoadOK
      <4>2. job[t].list = disk
        BY <4>1, AllLists DEF IsList
      <4> QED  BY <2>3, <2>4, <3>2, <4>2 DEF DoneOK, LoadOK
    <3>3. CASE pc[t] = "reading"
      BY <1>0, <1>1, <2>3, <2>4, <3>1, <3>3 DEF DoneOK, ReadOK
    <3> QED  BY <3>1, <3>2, <3>3
  <2> QED  BY <1>0, <2>2, <2>3, <2>4, AllLists, OwnKeeps DEF Writes
<1>2. ASSUME NEW i \in job[x].todo, i \in DOMAIN disk,
             job' = [job EXCEPT ![x] = [job[x] EXCEPT !.phase = "read", !.at = i]]
      PROVE  Keeps
  <2>1. PICK new : new = [job[x] EXCEPT !.phase = "read", !.at = i]
    OBVIOUS
  <2>2. /\ new.phase = "read" /\ new.list = job[x].list /\ new.keep = job[x].keep
        /\ new.todo = job[x].todo /\ new.at = i /\ CallOK(new)
    BY <1>0, <1>2, <2>1 DEF CallOK, IsCall, Phases
  <2>3. ASSUME NEW t \in Tasks, t = x, CalmOK PROVE DoneOK(t, pc[t], new)
    <3>1. pc[t] \in {"loading", "reading"} /\ DoneOK(t, pc[t], job[t])
      BY <1>0, <2>3, ReadingFacts DEF CalmOK
    <3> QED  BY <1>0, <2>2, <2>3, <3>1 DEF DoneOK, LoadOK, ReadOK
  <2> QED  BY <1>0, <1>2, <2>1, <2>2, <2>3, AllLists, OwnKeeps DEF Writes
<1>3. ASSUME NEW i \in job[x].todo, i \notin DOMAIN disk,
             job' = [job EXCEPT ![x] = [job[x] EXCEPT !.todo = @ \ {i}]]
      PROVE  Keeps
  <2>1. PICK new : new = [job[x] EXCEPT !.todo = @ \ {i}]
    OBVIOUS
  <2>2. /\ new.phase = "look" /\ new.list = job[x].list /\ new.keep = job[x].keep
        /\ new.todo = job[x].todo \ {i} /\ CallOK(new)
    BY <1>0, <1>3, <2>1 DEF CallOK, IsCall, Phases
  <2>3. ASSUME NEW t \in Tasks, t = x, CalmOK PROVE DoneOK(t, pc[t], new)
    <3>1. pc[t] \in {"loading", "reading"} /\ DoneOK(t, pc[t], job[t])
      BY <1>0, <2>3, ReadingFacts DEF CalmOK
    <3>2. CASE pc[t] = "loading"
      BY <1>0, <1>3, <2>3, <3>1, <3>2 DEF DoneOK, LoadOK
    <3>3. CASE pc[t] = "reading"
      <4>1. promised[t] \subseteq DOMAIN disk
        BY <2>3, <3>1, <3>3 DEF DoneOK, ReadOK, CalmOK, DiskOK
      <4> QED  BY <1>0, <1>3, <2>2, <2>3, <3>1, <3>3, <4>1 DEF DoneOK, ReadOK
    <3> QED  BY <3>1, <3>2, <3>3
  <2> QED  BY <1>0, <1>3, <2>1, <2>2, <2>3, AllLists, OwnKeeps DEF Writes
<1> QED  BY <1>1, <1>2, <1>3 DEF Look, Sets

LEMMA FailedKeeps ==
  ASSUME BasicInv, NEW x \in Threads, job[x].phase \in Writes \cup {"list", "look", "read"},
         job' = [job EXCEPT ![x] = Call("failed", Empty, {})], faults' \in 0..MaxFaults,
         UNCHANGED <<disk, tmp, lock, pc, mine, calls, settled, safe, promised, raced>>
  PROVE  Keeps
<1>1. PICK new : new = Call("failed", Empty, {})
  OBVIOUS
<1>2. CallOK(new) /\ new.phase = "failed" /\ new.list = Empty /\ new.keep = {}
  BY <1>1, CallIs DEF CallOK, Phases
<1>3. IsList(new.list, 1..Newest) /\ DOMAIN new.list \subseteq Known
  BY <1>2, EmptyIs
<1>4. ASSUME NEW t \in Tasks, t = x, CalmOK PROVE DoneOK(t, pc[t], new)
  <2>1. DoneOK(t, pc[t], job[t]) /\ PlaceOK(t, pc[t], job[t]) /\ pc[t] \in Labels
    BY <1>4, Inside DEF CalmOK
  <2>2. pc[t] # "listing"
    BY <1>4, <2>1 DEF PlaceOK, PhasesOf, Writes
  <2> QED  BY <1>2, <2>1, <2>2 DEF DoneOK, LoadOK, StoreOK, ReadOK, Writes
<1> QED  BY <1>1, <1>2, <1>3, <1>4, OwnKeeps

LEMMA ReadTextKeeps ==
  ASSUME BasicInv, NEW x \in Threads, ReadText(x)
  PROVE  Keeps
<1>0. /\ job[x].phase = "read" /\ IsCall(job[x]) /\ CallOK(job[x])
      /\ UNCHANGED <<disk, tmp, lock, pc, mine, calls, faults, settled, safe, promised, raced>>
      /\ faults' \in 0..MaxFaults /\ faults' = faults
  BY Inside, AllLists DEF ReadText, Same, BasicInv, GhostsOK
<1>1. PICK i : i = job[x].at
  OBVIOUS
<1>2. i \in job[x].todo /\ i \in Ids
  BY <1>0, <1>1 DEF CallOK, IsCall
<1>3. CASE i \notin DOMAIN disk
  BY <1>0, <1>1, <1>3, FailedKeeps DEF ReadText, Sets
<1>4. ASSUME i \in DOMAIN disk, disk[i] = Torn PROVE Keeps
  <2>1. PICK new : new = [job[x] EXCEPT !.phase = "look", !.at = 0, !.todo = @ \ {i}]
    OBVIOUS
  <2>2. /\ new.phase = "look" /\ new.list = job[x].list /\ new.keep = job[x].keep
        /\ new.todo = job[x].todo \ {i} /\ CallOK(new)
    BY <1>0, <2>1 DEF CallOK, IsCall, Phases
  <2>3. \A t \in Tasks : t = x /\ CalmOK => DoneOK(t, pc[t], new)
    BY <1>4 DEF CalmOK, DiskOK
  <2>4. job' = [job EXCEPT ![x] = new]
    BY <1>1, <1>4, <2>1 DEF ReadText, Sets
  <2> QED  BY <1>0, <2>2, <2>3, <2>4, AllLists, OwnKeeps DEF Writes
<1>5. ASSUME i \in DOMAIN disk, disk[i] # Torn PROVE Keeps
  <2>0. PICK list : list = With(job[x].list, i, disk[i])
    OBVIOUS
  <2>1. PICK new : new = [job[x] EXCEPT !.phase = "look", !.at = 0, !.todo = @ \ {i}, !.list = list]
    OBVIOUS
  <2>2. disk[i] \in 1..Newest
    BY <1>5, Facts, AllLists DEF IsList
  <2>3. /\ IsList(list, 1..Newest) /\ DOMAIN list = DOMAIN job[x].list \cup {i}
        /\ list[i] = disk[i] /\ \A k \in DOMAIN job[x].list : k # i => list[k] = job[x].list[k]
    <3>1. IsList(job[x].list, 1..Newest)
      BY AllLists
    <3>2. IsList(list, 1..Newest)
      BY <1>2, <2>0, <2>2, <3>1, WithIs
    <3> QED  BY <2>0, <3>2 DEF With
  <2>4. /\ new.phase = "look" /\ new.list = list /\ new.keep = job[x].keep
        /\ new.todo = job[x].todo \ {i} /\ CallOK(new)
    BY <1>0, <2>1 DEF CallOK, IsCall, Phases
  <2>5. job' = [job EXCEPT ![x] = new]
    <3>1. new = [[job[x] EXCEPT !.phase = "look", !.at = 0, !.todo = @ \ {i}]
                   EXCEPT !.list = With(@, i, disk[i])]
      BY <1>0, <2>0, <2>1 DEF IsCall
    <3> QED  BY <1>1, <1>5, <3>1 DEF ReadText, Sets
  <2>6. ASSUME NEW t \in Tasks, t = x, CalmOK PROVE DoneOK(t, pc[t], new)
    <3>1. pc[t] \in {"loading", "reading"} /\ DoneOK(t, pc[t], job[t])
      BY <1>0, <2>6, ReadingFacts DEF CalmOK
    <3>2. CASE pc[t] = "loading"
      <4>1. /\ job[t].todo \subseteq DOMAIN disk
            /\ job[t].list = [k \in DOMAIN disk \ job[t].todo |-> disk[k]]
        BY <1>0, <2>6, <3>1, <3>2 DEF DoneOK, LoadOK
      <4>2. DOMAIN list = DOMAIN disk \ new.todo /\ \A k \in DOMAIN list : list[k] = disk[k]
        BY <1>2, <1>5, <2>3, <2>4, <2>6, <4>1
      <4>3. list = [k \in DOMAIN disk \ new.todo |-> disk[k]]
        BY <2>3, <4>2 DEF IsList
      <4> QED  BY <1>2, <2>4, <2>6, <3>2, <4>1, <4>3 DEF DoneOK, LoadOK
    <3>3. CASE pc[t] = "reading"
      BY <1>0, <2>3, <2>4, <2>6, <3>1, <3>3 DEF DoneOK, ReadOK
    <3> QED  BY <3>1, <3>2, <3>3
  <2>7. DOMAIN list \subseteq Known
    BY <1>5, <2>3, AllLists
  <2> QED  BY <1>0, <2>3, <2>4, <2>5, <2>6, <2>7, OwnKeeps DEF Writes
<1> QED  BY <1>3, <1>4, <1>5

(* A function that writes, one call to the file system at a time. *)
LEMMA FilesKeep ==
  ASSUME BasicInv, NEW x \in Threads, NEW new, CallOK(new), job[x].phase \in Writes,
         IsList(new.list, 1..Newest), DOMAIN new.list \subseteq Known,
         \/ new.phase = "done"
         \/ job[x].phase \in {"write", "fill", "replace"} /\ new.phase \in Writes
         \/ job[x].phase \in {"sweep", "drop", "unlink"} /\ new.phase \in {"sweep", "drop", "unlink"},
         job[x].list = Empty /\ job[x].keep = {} /\ job[x].phase \in {"sweep", "drop", "unlink"}
           => new.list = Empty /\ new.keep = {},
         IsList(disk', 0..Newest), DOMAIN disk' \subseteq Known,
         IsList(tmp', 0..Newest), DOMAIN tmp' \subseteq Known,
         CalmOK /\ StoreOK(job[x]) =>
           StoreOK(new)' /\ (\A i \in DOMAIN disk' : disk'[i] # Torn) /\ safe \subseteq DOMAIN disk',
         job' = [job EXCEPT ![x] = new],
         UNCHANGED <<lock, pc, mine, calls, faults, settled, safe, promised, raced>>
  PROVE  Keeps
<1>1. \A t \in Tasks : t = x => PlaceOK(t, pc[t], new)
  <2> SUFFICES ASSUME x \in Tasks PROVE PlaceOK(x, pc[x], new)
    OBVIOUS
  <2>1. PlaceOK(x, pc[x], job[x]) /\ pc[x] \in Labels
    BY Inside
  <2>2. pc[x] \in {"listing", "clearing"} => new.list = Empty /\ new.keep = {}
    BY <2>1 DEF PlaceOK, PhasesOf, Writes
  <2> QED  BY <2>1, <2>2, SamePlace
<1>2. Moves(x, new)
  BY <1>1 DEF Moves, BasicInv, GhostsOK
<1>3. BasicInv'
  BY <1>2, MovesKeep
<1>4. ASSUME CalmOK PROVE CalmOK'
  <2>1. x \in Tasks /\ Storing(x)
    BY <1>4, AloneFacts DEF CalmOK
  <2>2. StoreOK(job[x])
    BY <1>4, <2>1 DEF CalmOK, DoneOK, Storing
  <2> QED  BY <1>2, <1>4, <2>2, WritesKeep
<1> QED  BY <1>3, <1>4 DEF Keeps

LEMMA WriteEntryKeeps ==
  ASSUME BasicInv, NEW x \in Threads, WriteEntry(x)
  PROVE  Keeps
<1>0. /\ job[x].phase = "write" /\ IsCall(job[x]) /\ job[x].todo \subseteq DOMAIN job[x].list
      /\ UNCHANGED <<disk, lock, pc, mine, calls, faults, settled, safe, promised, raced>>
  BY Inside, AllLists DEF WriteEntry, Same, CallOK
<1>1. CASE job[x].todo = {}
  <2>1. PICK new : new = [job[x] EXCEPT !.phase = "sweep"]
    OBVIOUS
  <2>2. job' = [job EXCEPT ![x] = new] /\ tmp' = tmp
    BY <1>1, <2>1 DEF WriteEntry, Sets
  <2>3. /\ new.phase = "sweep" /\ new.list = job[x].list /\ new.keep = job[x].keep /\ CallOK(new)
    BY <1>0, <1>1, <2>1 DEF CallOK, IsCall, Phases
  <2>4. ASSUME CalmOK, StoreOK(job[x])
        PROVE  StoreOK(new)' /\ (\A i \in DOMAIN disk' : disk'[i] # Torn) /\ safe \subseteq DOMAIN disk'
    <3>1. new.keep = DOMAIN new.list /\ \A i \in DOMAIN new.list : Written(new, i)
      BY <1>0, <1>1, <2>3, <2>4 DEF StoreOK, Written
    <3>2. StoreOK(new)
      BY <1>0, <2>3, <2>4, <3>1 DEF StoreOK, Writes
    <3> QED  BY <1>0, <2>2, <2>4, <3>2 DEF StoreOK, Written, CalmOK, DiskOK
  <2> QED  BY <1>0, <2>2, <2>3, <2>4, AllLists, FilesKeep DEF Writes
<1>2. ASSUME job[x].todo # {} PROVE Keeps
  <2>0. PICK i : i = First(job[x].todo)
    OBVIOUS
  <2>1. i \in job[x].todo /\ i \in Ids
    BY <1>0, <1>2, <2>0, FirstIs DEF IsCall
  <2>2. CASE i \in DOMAIN disk /\ disk[i] = job[x].list[i]
    <3>1. PICK new : new = [job[x] EXCEPT !.todo = @ \ {i}, !.keep = @ \cup {i}]
      OBVIOUS
    <3>2. job' = [job EXCEPT ![x] = new] /\ tmp' = tmp
      BY <1>2, <2>0, <2>2, <3>1 DEF WriteEntry, Sets
    <3>3. /\ new.phase = "write" /\ new.list = job[x].list /\ new.keep = job[x].keep \cup {i}
          /\ new.todo = job[x].todo \ {i} /\ CallOK(new)
      BY <1>0, <2>1, <3>1 DEF CallOK, IsCall, Phases
    <3>4. ASSUME CalmOK, StoreOK(job[x])
          PROVE  StoreOK(new)' /\ (\A k \in DOMAIN disk' : disk'[k] # Torn) /\ safe \subseteq DOMAIN disk'
      <4>1. /\ \A k \in DOMAIN new.list \ new.todo : k \in new.keep /\ Written(new, k)
            /\ new.keep \subseteq DOMAIN new.list
        BY <1>0, <2>1, <2>2, <3>3, <3>4 DEF StoreOK, Written
      <4>2. StoreOK(new)
        BY <1>0, <3>3, <3>4, <4>1 DEF StoreOK, Writes
      <4> QED  BY <1>0, <3>2, <3>4, <4>2 DEF StoreOK, Written, CalmOK, DiskOK
    <3> QED  BY <1>0, <3>2, <3>3, <3>4, AllLists, FilesKeep DEF Writes
  <2>3. CASE ~(i \in DOMAIN disk /\ disk[i] = job[x].list[i])
    <3>1. PICK new : new = [job[x] EXCEPT !.phase = "fill", !.at = i, !.keep = @ \cup {i}]
      OBVIOUS
    <3>2. job' = [job EXCEPT ![x] = new] /\ tmp' = With(tmp, i, Torn)
      BY <1>2, <2>0, <2>3, <3>1 DEF WriteEntry, Sets
    <3>3. /\ new.phase = "fill" /\ new.list = job[x].list /\ new.keep = job[x].keep \cup {i}
          /\ new.todo = job[x].todo /\ new.at = i /\ CallOK(new)
      BY <1>0, <2>1, <3>1 DEF CallOK, IsCall, Phases
    <3>4. Torn \in 0..Newest /\ DOMAIN tmp' = DOMAIN tmp \cup {i} /\ i \in Known
      BY <1>0, <2>1, <3>2, AllLists, Facts DEF With
    <3>5. IsList(tmp', 0..Newest)
      BY <2>1, <3>2, <3>4, AllLists, WithIs
    <3>6. ASSUME CalmOK, StoreOK(job[x])
          PROVE  StoreOK(new)' /\ (\A k \in DOMAIN disk' : disk'[k] # Torn) /\ safe \subseteq DOMAIN disk'
      <4>1. /\ \A k \in DOMAIN new.list \ new.todo : k \in new.keep /\ Written(new, k)
            /\ new.keep \subseteq DOMAIN new.list /\ new.at \in DOMAIN tmp' /\ new.at \in new.keep
            /\ safe \subseteq DOMAIN new.list
            /\ \A k \in DOMAIN new.list \cap DOMAIN disk : disk[k] <= new.list[k]
        BY <1>0, <2>1, <3>3, <3>4, <3>6 DEF StoreOK, Written, Writes
      <4> QED  BY <1>0, <3>3, <3>6, <4>1 DEF StoreOK, Written, CalmOK, DiskOK
    <3> QED  BY <1>0, <3>2, <3>3, <3>4, <3>5, <3>6, AllLists, FilesKeep DEF Writes
  <2> QED  BY <2>2, <2>3
<1> QED  BY <1>1, <1>2

LEMMA FillKeeps ==
  ASSUME BasicInv, NEW x \in Threads, Fill(x)
  PROVE  Keeps
<1>0. /\ job[x].phase = "fill" /\ IsCall(job[x]) /\ job[x].todo \subseteq DOMAIN job[x].list
      /\ job[x].at \in job[x].todo
      /\ UNCHANGED <<lock, pc, mine, calls, faults, settled, safe, promised, raced>>
  BY Inside, AllLists DEF Fill, Same, CallOK
<1>1. PICK i, v : i = job[x].at /\ v = job[x].list[i]
  OBVIOUS
<1>2. i \in Ids /\ i \in Known /\ i \in DOMAIN job[x].list
  BY <1>0, <1>1, AllLists DEF IsCall
<1>3. v \in 1..Newest /\ v \in 0..Newest
  BY <1>1, <1>2, AllLists DEF IsList
<1>4. PICK new : new = [job[x] EXCEPT !.phase = "replace"]
  OBVIOUS
<1>5. /\ new.phase = "replace" /\ new.list = job[x].list /\ new.keep = job[x].keep
      /\ new.todo = job[x].todo /\ new.at = i /\ CallOK(new) /\ job' = [job EXCEPT ![x] = new]
  BY <1>0, <1>1, <1>4 DEF CallOK, IsCall, Phases, Fill, Sets
<1>6. CASE i \in DOMAIN tmp
  <2>1. tmp' = With(tmp, i, v) /\ disk' = disk
    BY <1>1, <1>6 DEF Fill
  <2>2. IsList(tmp', 0..Newest)
    BY <1>2, <1>3, <2>1, AllLists, WithIs
  <2>3. DOMAIN tmp' \subseteq Known /\ i \in DOMAIN tmp' /\ tmp'[i] = v
    BY <1>2, <2>1, AllLists DEF With
  <2>4. ASSUME CalmOK, StoreOK(job[x])
        PROVE  StoreOK(new)' /\ (\A k \in DOMAIN disk' : disk'[k] # Torn) /\ safe \subseteq DOMAIN disk'
    <3>1. /\ \A k \in DOMAIN new.list \ new.todo : k \in new.keep /\ Written(new, k)
          /\ new.keep \subseteq DOMAIN new.list /\ new.at \in new.keep
      BY <1>0, <1>1, <1>5, <2>4 DEF StoreOK, Written
    <3>2. /\ safe \subseteq DOMAIN new.list
          /\ \A k \in DOMAIN new.list \cap DOMAIN disk : disk[k] <= new.list[k]
      BY <1>0, <1>5, <2>4 DEF StoreOK, Writes
    <3> QED  BY <1>0, <1>1, <1>5, <2>1, <2>3, <2>4, <3>1, <3>2 DEF StoreOK, Written, CalmOK, DiskOK
  <2> QED  BY <1>0, <1>5, <2>1, <2>2, <2>3, <2>4, AllLists, FilesKeep DEF Writes
<1>7. CASE i \notin DOMAIN tmp
  <2>1. tmp' = tmp /\ disk' = IF i \in DOMAIN disk THEN With(disk, i, v) ELSE disk
    BY <1>1, <1>7 DEF Fill
  <2>2. IsList(disk', 0..Newest)
    <3>1. IsList(With(disk, i, v), 0..Newest)
      BY <1>2, <1>3, AllLists, WithIs
    <3> QED  BY <2>1, <3>1, AllLists
  <2>3. DOMAIN disk' \subseteq Known
    BY <1>2, <2>1, AllLists DEF With
  <2>4. ~StoreOK(job[x])
    BY <1>0, <1>1, <1>7 DEF StoreOK
  <2> QED  BY <1>0, <1>5, <2>1, <2>2, <2>3, <2>4, AllLists, FilesKeep DEF Writes
<1> QED  BY <1>6, <1>7

LEMMA ReplaceKeeps ==
  ASSUME BasicInv, NEW x \in Threads, Replace(x)
  PROVE  Keeps
<1>0. /\ job[x].phase = "replace" /\ IsCall(job[x]) /\ job[x].todo \subseteq DOMAIN job[x].list
      /\ job[x].at \in job[x].todo /\ faults' \in 0..MaxFaults
      /\ UNCHANGED <<lock, pc, mine, calls, faults, settled, safe, promised, raced>>
  BY Inside, AllLists DEF Replace, Same, CallOK, BasicInv, GhostsOK
<1>1. PICK i : i = job[x].at
  OBVIOUS
<1>2. i \in Ids /\ i \in Known /\ i \in DOMAIN job[x].list
  BY <1>0, <1>1, AllLists DEF IsCall
<1>3. CASE i \notin DOMAIN tmp
  BY <1>0, <1>1, <1>3, FailedKeeps DEF Replace, Sets, Writes
<1>4. CASE i \in DOMAIN tmp
  <2>1. PICK new : new = [job[x] EXCEPT !.phase = "write", !.at = 0, !.todo = @ \ {i}]
    OBVIOUS
  <2>2. /\ new.phase = "write" /\ new.list = job[x].list /\ new.keep = job[x].keep
        /\ new.todo = job[x].todo \ {i} /\ CallOK(new) /\ job' = [job EXCEPT ![x] = new]
        /\ disk' = With(disk, i, tmp[i]) /\ tmp' = Without(tmp, i)
    BY <1>0, <1>1, <1>4, <2>1 DEF CallOK, IsCall, Phases, Replace, Sets
  <2>3. tmp[i] \in 0..Newest
    BY <1>4, AllLists DEF IsList
  <2>4. IsList(disk', 0..Newest)
    BY <1>2, <2>2, <2>3, AllLists, WithIs
  <2>5. IsList(tmp', 0..Newest)
    BY <2>2, AllLists, WithoutIs
  <2>6. DOMAIN tmp' \subseteq Known
    BY <2>2, AllLists DEF Without, Restrict
  <2>7. /\ DOMAIN disk' = DOMAIN disk \cup {i} /\ disk'[i] = tmp[i]
        /\ \A k \in DOMAIN disk : k # i => disk'[k] = disk[k]
    BY <2>2 DEF With
  <2>8. ASSUME CalmOK, StoreOK(job[x])
        PROVE  StoreOK(new)' /\ (\A k \in DOMAIN disk' : disk'[k] # Torn) /\ safe \subseteq DOMAIN disk'
    <3>1. tmp[i] = new.list[i] /\ tmp[i] \in 1..Newest /\ i \in new.keep
      BY <1>0, <1>1, <1>2, <2>2, <2>8, AllLists DEF StoreOK, IsList
    <3>2. /\ \A k \in DOMAIN new.list \ new.todo :
               k \in new.keep /\ k \in DOMAIN disk' /\ disk'[k] = new.list[k]
          /\ new.keep \subseteq DOMAIN new.list /\ safe \subseteq DOMAIN new.list
      BY <1>0, <1>1, <1>2, <2>2, <2>7, <2>8, <3>1 DEF StoreOK, Written
    <3>3. \A k \in DOMAIN new.list \cap DOMAIN disk' : disk'[k] <= new.list[k]
      BY <1>0, <2>2, <2>3, <2>7, <2>8, <3>1 DEF StoreOK, Writes
    <3>4. StoreOK(new)'
      BY <1>0, <2>2, <3>2, <3>3 DEF StoreOK, Written
    <3> QED  BY <1>0, <2>7, <2>8, <3>1, <3>4, Facts DEF CalmOK, DiskOK
  <2> QED  BY <1>0, <1>2, <2>2, <2>4, <2>5, <2>6, <2>7, <2>8, AllLists, FilesKeep DEF Writes
<1> QED  BY <1>3, <1>4

LEMMA SweepKeeps ==
  ASSUME BasicInv, NEW x \in Threads, Sweep(x)
  PROVE  Keeps
<1>0. /\ job[x].phase = "sweep" /\ IsCall(job[x]) /\ DOMAIN disk \subseteq Ids
      /\ UNCHANGED <<disk, tmp, lock, pc, mine, calls, faults, settled, safe, promised, raced>>
  BY Inside, AllLists DEF Sweep, Same
<1>1. PICK new : new = [job[x] EXCEPT !.phase = "drop", !.todo = DOMAIN disk]
  OBVIOUS
<1>2. /\ new.phase = "drop" /\ new.list = job[x].list /\ new.keep = job[x].keep
      /\ new.todo = DOMAIN disk /\ CallOK(new) /\ job' = [job EXCEPT ![x] = new]
  BY <1>0, <1>1 DEF CallOK, IsCall, Phases, Sweep, Sets
<1>3. ASSUME CalmOK, StoreOK(job[x])
      PROVE  StoreOK(new)' /\ (\A k \in DOMAIN disk' : disk'[k] # Torn) /\ safe \subseteq DOMAIN disk'
  <2>1. StoreOK(new)
    BY <1>0, <1>2, <1>3 DEF StoreOK, Written, Writes
  <2> QED  BY <1>0, <1>3, <2>1 DEF StoreOK, Written, CalmOK, DiskOK
<1> QED  BY <1>0, <1>2, <1>3, AllLists, FilesKeep DEF Writes

LEMMA DropKeeps ==
  ASSUME BasicInv, NEW x \in Threads, Drop(x)
  PROVE  Keeps
<1>0. /\ job[x].phase = "drop" /\ IsCall(job[x])
      /\ UNCHANGED <<disk, tmp, lock, pc, mine, calls, faults, settled, safe, promised, raced>>
  BY Inside DEF Drop, Same
<1>1. CASE job[x].todo \ job[x].keep = {}
  <2>1. PICK new : new = [job[x] EXCEPT !.phase = "done", !.todo = {}]
    OBVIOUS
  <2>2. /\ new.phase = "done" /\ new.list = job[x].list /\ new.keep = job[x].keep
        /\ CallOK(new) /\ job' = [job EXCEPT ![x] = new]
    BY <1>0, <1>1, <2>1 DEF CallOK, IsCall, Phases, Drop, Sets
  <2>3. ASSUME CalmOK, StoreOK(job[x])
        PROVE  StoreOK(new)' /\ (\A k \in DOMAIN disk' : disk'[k] # Torn) /\ safe \subseteq DOMAIN disk'
    <3>1. DOMAIN disk = DOMAIN new.list /\ \A k \in DOMAIN disk : disk[k] = new.list[k]
      BY <1>0, <1>1, <2>2, <2>3 DEF StoreOK, Written
    <3>2. IsList(disk, 0..Newest) /\ IsList(new.list, 1..Newest)
      BY <2>2, AllLists
    <3>3. disk = new.list
      BY <3>1, <3>2, SameList
    <3>4. StoreOK(new)
      BY <1>0, <2>2, <2>3, <3>3 DEF StoreOK, Writes
    <3> QED  BY <1>0, <2>3, <3>4 DEF StoreOK, Written, CalmOK, DiskOK
  <2> QED  BY <1>0, <2>2, <2>3, AllLists, FilesKeep DEF Writes
<1>2. ASSUME NEW i \in job[x].todo \ job[x].keep, i \in DOMAIN disk,
             job' = [job EXCEPT ![x] = [job[x] EXCEPT !.phase = "unlink", !.at = i]]
      PROVE  Keeps
  <2>1. PICK new : new = [job[x] EXCEPT !.phase = "unlink", !.at = i]
    OBVIOUS
  <2>2. /\ new.phase = "unlink" /\ new.list = job[x].list /\ new.keep = job[x].keep
        /\ new.todo = job[x].todo /\ new.at = i /\ CallOK(new) /\ job' = [job EXCEPT ![x] = new]
    BY <1>0, <1>2, <2>1 DEF CallOK, IsCall, Phases
  <2>3. ASSUME CalmOK, StoreOK(job[x])
        PROVE  StoreOK(new)' /\ (\A k \in DOMAIN disk' : disk'[k] # Torn) /\ safe \subseteq DOMAIN disk'
    <3>1. StoreOK(new)
      BY <1>0, <2>2, <2>3 DEF StoreOK, Written, Writes
    <3> QED  BY <1>0, <2>3, <3>1 DEF StoreOK, Written, CalmOK, DiskOK
  <2> QED  BY <1>0, <2>2, <2>3, AllLists, FilesKeep DEF Writes
<1>3. ASSUME NEW i \in job[x].todo \ job[x].keep, i \notin DOMAIN disk,
             job' = [job EXCEPT ![x] = [job[x] EXCEPT !.todo = @ \ {i}]]
      PROVE  Keeps
  <2>1. PICK new : new = [job[x] EXCEPT !.todo = @ \ {i}]
    OBVIOUS
  <2>2. /\ new.phase = "drop" /\ new.list = job[x].list /\ new.keep = job[x].keep
        /\ new.todo = job[x].todo \ {i} /\ CallOK(new) /\ job' = [job EXCEPT ![x] = new]
    BY <1>0, <1>3, <2>1 DEF CallOK, IsCall, Phases
  <2>3. ASSUME CalmOK, StoreOK(job[x])
        PROVE  StoreOK(new)' /\ (\A k \in DOMAIN disk' : disk'[k] # Torn) /\ safe \subseteq DOMAIN disk'
    <3>1. StoreOK(new)
      BY <1>0, <1>3, <2>2, <2>3 DEF StoreOK, Written, Writes
    <3> QED  BY <1>0, <2>3, <3>1 DEF StoreOK, Written, CalmOK, DiskOK
  <2> QED  BY <1>0, <2>2, <2>3, AllLists, FilesKeep DEF Writes
<1> QED  BY <1>1, <1>2, <1>3 DEF Drop, Sets

LEMMA UnlinkKeeps ==
  ASSUME BasicInv, NEW x \in Threads, Unlink(x)
  PROVE  Keeps
<1>0. /\ job[x].phase = "unlink" /\ IsCall(job[x]) /\ CallOK(job[x]) /\ faults' \in 0..MaxFaults
      /\ UNCHANGED <<tmp, lock, pc, mine, calls, faults, settled, safe, promised, raced>>
  BY Inside, AllLists DEF Unlink, Same, BasicInv, GhostsOK
<1>1. PICK i : i = job[x].at
  OBVIOUS
<1>2. CASE i \notin DOMAIN disk
  BY <1>0, <1>1, <1>2, FailedKeeps DEF Unlink, Sets, Writes
<1>3. CASE i \in DOMAIN disk
  <2>1. PICK new : new = [job[x] EXCEPT !.phase = "drop", !.at = 0, !.todo = @ \ {i}]
    OBVIOUS
  <2>2. /\ new.phase = "drop" /\ new.list = job[x].list /\ new.keep = job[x].keep
        /\ new.todo = job[x].todo \ {i} /\ CallOK(new) /\ job' = [job EXCEPT ![x] = new]
        /\ disk' = Without(disk, i)
    BY <1>0, <1>1, <1>3, <2>1 DEF CallOK, IsCall, Phases, Unlink, Sets
  <2>3. IsList(disk', 0..Newest)
    BY <2>2, AllLists, WithoutIs
  <2>4. /\ DOMAIN disk' = DOMAIN disk \ {i} /\ i \notin job[x].keep
        /\ \A k \in DOMAIN disk' : disk'[k] = disk[k]
    BY <1>0, <1>1, <2>2 DEF Without, Restrict, CallOK
  <2>5. ASSUME CalmOK, StoreOK(job[x])
        PROVE  StoreOK(new)' /\ (\A k \in DOMAIN disk' : disk'[k] # Torn) /\ safe \subseteq DOMAIN disk'
    <3>1. /\ safe \subseteq DOMAIN new.list /\ new.keep = DOMAIN new.list /\ i \notin DOMAIN new.list
          /\ \A k \in DOMAIN new.list : k \in DOMAIN disk' /\ disk'[k] = new.list[k]
          /\ DOMAIN disk' \subseteq DOMAIN new.list \cup new.todo
          /\ \A k \in DOMAIN new.list \cap DOMAIN disk' : disk'[k] <= new.list[k]
      BY <1>0, <2>2, <2>4, <2>5 DEF StoreOK, Written, Writes
    <3>2. StoreOK(new)'
      BY <1>0, <2>2, <3>1 DEF StoreOK, Written
    <3> QED  BY <1>0, <2>4, <2>5, <3>1, <3>2 DEF CalmOK, DiskOK
  <2> QED  BY <1>0, <2>2, <2>3, <2>4, <2>5, AllLists, FilesKeep DEF Writes
<1> QED  BY <1>2, <1>3

LEMMA FileStepKeeps ==
  ASSUME BasicInv, NEW x \in Threads, FileStep(x)
  PROVE  Keeps
BY ListKeysKeeps, ListFilesKeeps, LookKeeps, ReadTextKeeps, WriteEntryKeeps, FillKeeps,
   ReplaceKeeps, SweepKeeps, DropKeeps, UnlinkKeeps DEF FileStep

LEMMA FileErrorKeeps ==
  ASSUME BasicInv, NEW x \in Threads, FileError(x)
  PROVE  Keeps
<1>1. faults' \in 0..MaxFaults
  BY Facts DEF FileError, BasicInv, GhostsOK
<1> QED  BY <1>1, FailedKeeps DEF FileError, Sets, Writes

LEMMA OrphanEndsKeeps ==
  ASSUME BasicInv, OrphanEnds
  PROVE  Keeps
<1>0. /\ job' = [job EXCEPT ![Orphan] = NoCall]
      /\ UNCHANGED <<disk, tmp, lock, pc, mine, calls, faults, settled, safe, promised, raced>>
      /\ faults' \in 0..MaxFaults
  BY DEF OrphanEnds, Sets, Same, BasicInv, GhostsOK
<1>1. /\ Orphan \in Threads /\ CallOK(NoCall) /\ IsList(NoCall.list, 1..Newest)
      /\ DOMAIN NoCall.list \subseteq Known /\ NoCall.phase \notin Writes
  BY Facts, NoCallIs, EmptyIs DEF Writes
<1>2. \A t \in Tasks : t # Orphan
  BY Facts
<1>3. Moves(Orphan, NoCall)
  BY <1>0, <1>1, <1>2, OwnMoves
<1> QED  BY <1>0, <1>1, <1>2, <1>3, MovesKeep, ReadsKeep DEF Keeps

-----------------------------------------------------------------------------
(* Steps of the event loop: t goes to l, with j on the pool. *)
Hurries(l) == l \in {"waiting", "loading"}

Goes(t, l) ==
  /\ l \in Labels /\ pc' = [pc EXCEPT ![t] = l]
  /\ Hurries(l) => t \in Writers
  /\ \/ calls' = calls /\ (Hurries(l) => t \in Early)
     \/ calls' = calls + 1 /\ calls < MaxCalls /\ t \notin Early

LEMMA EarlyIs ==
  ASSUME BasicInv, NEW t \in Tasks, NEW l, Goes(t, l)
  PROVE  /\ Early' = IF Hurries(l) THEN Early \cup {t} ELSE Early \ {t}
         /\ IsFiniteSet(Early') /\ Cardinality(Early') <= calls' /\ calls' \in 0..MaxCalls
         /\ Newest' \in Nat /\ Newest <= Newest' /\ (t \in Early \ Early' => Newest' = Newest + 1)
<1>1. Early' = IF Hurries(l) THEN Early \cup {t} ELSE Early \ {t}
  BY Facts DEF Goes, Early, Hurries, BasicInv, CallsOK
<1>2. /\ IsFiniteSet(Early) /\ Cardinality(Early) \in Nat /\ Cardinality(Early) <= calls
      /\ calls \in 0..MaxCalls /\ MaxCalls \in Nat
  BY Facts, FS_CardinalityType DEF BasicInv, VersionsOK
<1>3. /\ IsFiniteSet(Early \cup {t})
      /\ Cardinality(Early \cup {t}) = IF t \in Early THEN Cardinality(Early) ELSE Cardinality(Early) + 1
  BY <1>2, FS_AddElement
<1>4. /\ IsFiniteSet(Early \ {t})
      /\ Cardinality(Early \ {t}) = IF t \in Early THEN Cardinality(Early) - 1 ELSE Cardinality(Early)
  BY <1>2, FS_RemoveElement
<1>5. CASE Hurries(l)
  BY <1>1, <1>2, <1>3, <1>5 DEF Goes, Newest
<1>6. CASE ~Hurries(l)
  BY <1>1, <1>2, <1>4, <1>6 DEF Goes, Newest
<1> QED  BY <1>1, <1>5, <1>6

LoopMoves(t, l, j) ==
  /\ Goes(t, l) /\ CallOK(j) /\ PlaceOK(t, l, j)'
  /\ job' = [x \in Threads |-> job'[x]] /\ job'[t] = j /\ \A u \in Tasks \ {t} : job'[u] = job[u]
  /\ lock' \in Writers \cup {NoTask} /\ \A u \in Tasks \ {t} : lock' = u <=> lock = u
  /\ IsList(j.list, 1..Newest')
  /\ DOMAIN j.list \subseteq Known \cup (IF t \in Early \ Early' THEN {mine[t]} ELSE {})
  /\ CallOK(job'[Orphan]) /\ IsList(job'[Orphan].list, 1..Newest)
  /\ DOMAIN job'[Orphan].list \subseteq Known
  /\ mine' \in [Writers -> 0..MaxCalls] /\ \A u \in Writers \ {t} : mine'[u] = mine[u]
  /\ t \in Early' => mine'[t] = IF t \in Early THEN mine[t] ELSE calls'
  /\ UNCHANGED <<disk, tmp>> /\ GhostsOK'

LEMMA LoopKeeps ==
  ASSUME BasicInv, NEW t \in Tasks, NEW l, NEW j, LoopMoves(t, l, j)
  PROVE  BasicInv'
<1>1. /\ pc'[t] = l /\ (\A u \in Tasks \ {t} : pc'[u] = pc[u]) /\ pc' \in [Tasks -> Labels]
      /\ job'[t] = j /\ \A u \in Tasks \ {t} : job'[u] = job[u]
  BY DEF LoopMoves, Goes, BasicInv, CallsOK
<1>2. /\ Early' = IF Hurries(l) THEN Early \cup {t} ELSE Early \ {t}
      /\ IsFiniteSet(Early') /\ Cardinality(Early') <= calls' /\ calls' \in 0..MaxCalls
      /\ Newest' \in Nat /\ Newest <= Newest'
  BY EarlyIs DEF LoopMoves
<1>3. Newest \in Nat /\ \A x \in Threads : CallOK(job[x]) /\ IsList(job[x].list, 1..Newest)
  BY AllLists
<1>4. \A x \in Threads : CallOK(job'[x]) /\ IsList(job'[x].list, 1..Newest')
  <2>1. 1..Newest \subseteq 1..Newest'
    BY <1>2, <1>3
  <2>2. ASSUME NEW x \in Threads PROVE CallOK(job'[x]) /\ IsList(job'[x].list, 1..Newest')
    <3>1. CASE x = t
      BY <1>1, <3>1 DEF LoopMoves
    <3>2. CASE x = Orphan
      BY <2>1, <3>2, WiderList DEF LoopMoves
    <3>3. CASE x \in Tasks \ {t}
      BY <1>1, <1>3, <2>1, <3>3, WiderList, Facts
    <3> QED  BY <3>1, <3>2, <3>3, Facts
  <2> QED  BY <2>2
<1>5. CallsOK'
  <2>1. ASSUME NEW u \in Tasks PROVE PlaceOK(u, pc[u], job[u])'
    <3>1. CASE u = t
      BY <1>1, <3>1 DEF LoopMoves
    <3>2. CASE u # t
      BY <1>1, <3>2 DEF LoopMoves, BasicInv, CallsOK, PlaceOK
    <3> QED  BY <3>1, <3>2
  <2> QED  BY <1>1, <1>4, <2>1 DEF LoopMoves, CallsOK
<1>6. VersionsOK'
  <2>1. 0..Newest \subseteq 0..Newest'
    BY <1>2, <1>3
  <2>2. IsList(disk, 0..Newest') /\ IsList(tmp, 0..Newest')
    BY <2>1, WiderList DEF BasicInv, VersionsOK
  <2> QED  BY <1>2, <1>4, <2>2 DEF VersionsOK, LoopMoves, IsList
<1>7. Known' \subseteq Known \cup (IF t \in Early \ Early' THEN {mine[t]} ELSE {})
  <2>1. ASSUME NEW x \in Threads
        PROVE  DOMAIN job'[x].list \subseteq Known \cup (IF t \in Early \ Early' THEN {mine[t]} ELSE {})
    <3>1. CASE x = t
      BY <1>1, <3>1 DEF LoopMoves
    <3>2. CASE x = Orphan
      BY <3>2 DEF LoopMoves
    <3>3. CASE x \in Tasks \ {t}
      BY <1>1, <3>3, AllLists, Facts
    <3> QED  BY <3>1, <3>2, <3>3, Facts
  <2>2. DOMAIN disk' \subseteq Known /\ DOMAIN tmp' \subseteq Known
    BY AllLists DEF LoopMoves
  <2> QED  BY <2>1, <2>2 DEF Known
<1>8. FreshOK'
  <2>1. calls \in Nat /\ calls' \in {calls, calls + 1} /\ (t \in Early' \ Early => calls' = calls + 1)
    BY <1>2, AllLists DEF LoopMoves, Goes
  <2>2. \A u \in Early : mine[u] \in 1..calls /\ mine[u] \notin Known
    BY DEF BasicInv, FreshOK
  <2>3. \A u \in Early' : u = t \/ (u \in Early /\ mine'[u] = mine[u] /\ u \in Writers)
    BY <1>2 DEF LoopMoves, Early
  <2>4. Known \subseteq Ids /\ \A i \in Known : i <= calls
    BY AllLists DEF BasicInv, FreshOK
  <2>5. \A u \in Early' : mine'[u] \in 1..calls' /\ mine'[u] \notin Known'
    <3> SUFFICES ASSUME NEW u \in Early' PROVE mine'[u] \in 1..calls' /\ mine'[u] \notin Known'
      OBVIOUS
    <3>1. CASE u \in Early /\ mine'[u] = mine[u]
      <4>1. t \in Early \ Early' => mine[u] # mine[t]
        BY <3>1 DEF BasicInv, FreshOK
      <4> QED  BY <1>7, <2>1, <2>2, <3>1, <4>1
    <3>2. CASE u = t /\ u \notin Early
      BY <1>7, <2>1, <2>4, <3>2, Facts DEF LoopMoves
    <3> QED  BY <2>3, <3>1, <3>2 DEF LoopMoves
  <2>6. \A u, v \in Early' : mine'[u] = mine'[v] => u = v
    <3> SUFFICES ASSUME NEW u \in Early', NEW v \in Early', mine'[u] = mine'[v] PROVE u = v
      OBVIOUS
    <3>1. \A w \in Early' : \/ w \in Early /\ mine'[w] = mine[w]
                            \/ w = t /\ w \notin Early /\ mine'[w] = calls + 1
      <4> SUFFICES ASSUME NEW w \in Early'
                   PROVE  \/ w \in Early /\ mine'[w] = mine[w]
                          \/ w = t /\ w \notin Early /\ mine'[w] = calls + 1
        OBVIOUS
      <4>1. CASE w = t /\ w \in Early
        BY <4>1 DEF LoopMoves
      <4>2. CASE w = t /\ w \notin Early
        <5>1. calls' = calls + 1
          BY <2>1, <4>2
        <5>2. mine'[t] = calls'
          BY <4>2 DEF LoopMoves
        <5> QED  BY <4>2, <5>1, <5>2
      <4> QED  BY <2>3, <4>1, <4>2
    <3> QED  BY <2>1, <2>2, <3>1 DEF BasicInv, FreshOK
  <2>7. \A i \in Known' : i <= calls'
    BY <1>7, <2>1, <2>2, <2>4, Facts
  <2> QED  BY <2>5, <2>6, <2>7 DEF FreshOK, LoopMoves
<1> QED  BY <1>5, <1>6, <1>8 DEF BasicInv, LoopMoves

LEMMA AloneKeep ==
  ASSUME BasicInv, AloneOK, NEW t \in Tasks, NEW l, Goes(t, l), lock' \in {lock, NoTask},
         t \in Clearers => pc[t] # "idle" \/ l = "idle", job'[Orphan].phase \notin Writes
  PROVE  AloneOK'
<1>1. \A c \in Clearers : pc'[c] # "idle" => pc[c] # "idle"
  BY DEF Goes, BasicInv, CallsOK
<1> QED  BY <1>1 DEF AloneOK

Lasts(l) == l \in {"storing", "clearing"}

LEMMA DiskKeep ==
  ASSUME BasicInv, DiskOK, NEW t \in Tasks, NEW l, Goes(t, l), disk' = disk, safe' \subseteq safe,
         \/ settled' = Unsettled
         \/ settled' = settled /\ (Storing(t) => Lasts(l))
  PROVE  DiskOK'
<1>1. pc'[t] = l /\ \A u \in Tasks \ {t} : pc'[u] = pc[u]
  BY DEF Goes, BasicInv, CallsOK
<1>2. ASSUME settled' # Unsettled, \A u \in Tasks : pc'[u] \notin {"storing", "clearing"}
      PROVE  disk' = settled'
  <2>1. \A u \in Tasks : ~Storing(u)
    BY <1>1, <1>2 DEF Storing, Lasts
  <2> QED  BY <1>2, <2>1 DEF DiskOK
<1>3. Unsettled' = Unsettled
  BY DEF Unsettled
<1> QED  BY <1>2, <1>3 DEF DiskOK, Storing

(* What the other tasks have done stays done, if nothing becomes safe. *)
LEMMA CalmKeeps ==
  ASSUME BasicInv, CalmOK, NEW t \in Tasks, NEW l, NEW j, LoopMoves(t, l, j),
         AloneOK', DiskOK', DoneOK(t, l, j)', safe' \subseteq safe,
         \A r \in Readers \ {t} : /\ promised'[r] \subseteq promised[r]
                                  /\ promised[r] \subseteq safe => promised'[r] \subseteq safe'
  PROVE  CalmOK'
<1>1. ASSUME NEW u \in Tasks PROVE DoneOK(u, pc[u], job[u])'
  <2>0. pc'[t] = l /\ job'[t] = j /\ (u # t => pc'[u] = pc[u] /\ job'[u] = job[u])
    BY DEF LoopMoves, Goes, BasicInv, CallsOK
  <2>1. CASE u = t
    BY <2>0, <2>1
  <2>2. ASSUME u # t PROVE DoneOK(u, pc[u], job[u])'
    <3>1. DoneOK(u, pc[u], job[u]) /\ disk' = disk /\ tmp' = tmp
      BY DEF CalmOK, LoopMoves
    <3>2. CASE pc[u] = "loading"
      BY <2>0, <2>2, <3>1, <3>2 DEF DoneOK, LoadOK
    <3>3. CASE pc[u] \in {"storing", "clearing"}
      <4>1. StoreOK(job[u])
        BY <3>1, <3>3 DEF DoneOK
      <4>2. StoreOK(job[u])'
        BY <2>0, <2>2, <3>1, <4>1 DEF StoreOK, Written
      <4> QED  BY <2>0, <2>2, <3>3, <4>2 DEF DoneOK
    <3>4. CASE pc[u] = "reading"
      <4>1. u \in Readers /\ ReadOK(u, job[u])
        BY <3>1, <3>4, Inside, Facts DEF DoneOK, PlaceOK
      <4>2. ReadOK(u, job[u])'
        BY <2>0, <2>2, <4>1 DEF ReadOK
      <4> QED  BY <2>0, <2>2, <3>4, <4>2 DEF DoneOK
    <3>5. CASE pc[u] = "listing"
      <4>1. ListingOK(job[u])
        BY <3>1, <3>5 DEF DoneOK
      <4>2. ListingOK(job[u])'
        BY <2>0, <2>2, <3>1, <4>1 DEF ListingOK
      <4> QED  BY <2>0, <2>2, <3>5, <4>2 DEF DoneOK
    <3> QED  BY <2>0, <2>2, <3>2, <3>3, <3>4, <3>5 DEF DoneOK
  <2> QED  BY <2>1, <2>2
<1> QED  BY <1>1 DEF CalmOK

(* The calls begin. *)
LEMMA BeginFacts ==
  ASSUME BasicInv, NEW t \in Tasks, pc[t] \in {"idle", "waiting"}
  PROVE  job[t] = NoCall /\ PlaceOK(t, pc[t], job[t]) /\ lock # t
BY Inside, Facts DEF PlaceOK, PhasesOf

LEMMA OrphanFacts ==
  ASSUME BasicInv
  PROVE  /\ CallOK(job[Orphan]) /\ IsList(job[Orphan].list, 1..Newest)
         /\ DOMAIN job[Orphan].list \subseteq Known /\ Orphan \in Threads
         /\ AloneOK => job[Orphan].phase \notin Writes
BY AllLists, Facts DEF AloneOK

LEMMA BeginWriteKeeps ==
  ASSUME BasicInv, NEW t \in Writers, BeginWrite(t)
  PROVE  BasicInv' /\ (~raced' /\ CalmOK => CalmOK')
<1>0. /\ t \in Tasks /\ pc[t] = "idle" /\ calls < MaxCalls /\ calls' = calls + 1
      /\ pc' = [pc EXCEPT ![t] = "waiting"] /\ mine' = [mine EXCEPT ![t] = calls']
      /\ UNCHANGED <<disk, tmp, lock, job, faults, settled, safe, promised, raced>>
  BY Facts DEF BeginWrite, NewCall
<1>1. Goes(t, "waiting")
  BY <1>0, Facts DEF Goes, Labels, Hurries, Early
<1>2. t \in Early' /\ t \notin Early /\ Newest' \in Nat /\ Newest <= Newest' /\ calls' \in 0..MaxCalls
  BY <1>0, <1>1, EarlyIs DEF Hurries, Early
<1>3. job[t] = NoCall /\ lock # t
  BY <1>0, BeginFacts
<1>4. LoopMoves(t, "waiting", NoCall)
  <2>1. PlaceOK(t, "waiting", NoCall)'
    BY <1>0, <1>3, NoCallIs DEF PlaceOK, PhasesOf
  <2>2. mine' \in [Writers -> 0..MaxCalls] /\ mine'[t] = calls' /\ \A u \in Writers \ {t} : mine'[u] = mine[u]
    BY <1>0, <1>2 DEF BasicInv, FreshOK
  <2>3. GhostsOK'
    BY <1>0 DEF BasicInv, GhostsOK
  <2>4. CallOK(NoCall) /\ IsList(NoCall.list, 1..Newest') /\ DOMAIN NoCall.list = {}
    BY NoCallIs, EmptyIs
  <2>5. job' = [x \in Threads |-> job'[x]] /\ lock' \in Writers \cup {NoTask}
    BY <1>0 DEF BasicInv, CallsOK
  <2> QED  BY <1>0, <1>1, <1>2, <1>3, <2>1, <2>2, <2>3, <2>4, <2>5, OrphanFacts DEF LoopMoves
<1>5. ASSUME CalmOK PROVE CalmOK'
  <2>1. AloneOK'
    BY <1>0, <1>1, <1>5, AloneKeep, OrphanFacts, Facts DEF CalmOK
  <2>2. DiskOK'
    BY <1>0, <1>1, <1>5, DiskKeep DEF CalmOK, Storing
  <2>3. DoneOK(t, "waiting", NoCall)'
    BY DEF DoneOK
  <2> QED  BY <1>0, <1>4, <1>5, <2>1, <2>2, <2>3, CalmKeeps
<1> QED  BY <1>0, <1>4, <1>5, LoopKeeps

LEMMA BeginReadKeeps ==
  ASSUME BasicInv, NEW r \in Readers, BeginRead(r)
  PROVE  BasicInv' /\ (~raced' /\ CalmOK => CalmOK')
<1>0. /\ r \in Tasks /\ r \notin Writers /\ r \notin Clearers /\ pc[r] = "idle"
      /\ calls < MaxCalls /\ calls' = calls + 1
      /\ pc' = [pc EXCEPT ![r] = "reading"] /\ promised' = [promised EXCEPT ![r] = safe]
      /\ UNCHANGED <<disk, tmp, lock, mine, faults, settled, safe, raced>>
  BY Facts DEF BeginRead, NewCall, Submit
<1>1. PICK j : j = Call("list", Empty, {})
  OBVIOUS
<1>2. CallOK(j) /\ j.phase = "list" /\ j.list = Empty
  BY <1>1, CallIs DEF CallOK, Phases
<1>3. job' = [job EXCEPT ![r] = j]
  BY <1>1 DEF BeginRead, Submit
<1>4. Goes(r, "reading") /\ r \notin Early
  BY <1>0, Facts DEF Goes, Labels, Hurries, Early
<1>5. r \notin Early' /\ Newest' \in Nat /\ Newest <= Newest'
  BY <1>0, <1>4, EarlyIs DEF Hurries, Early
<1>6. LoopMoves(r, "reading", j)
  <2>1. lock # r
    BY <1>0, BeginFacts
  <2>2. PlaceOK(r, "reading", j)'
    BY <1>0, <1>2, <2>1 DEF PlaceOK, PhasesOf
  <2>3. GhostsOK'
    BY <1>0 DEF BasicInv, GhostsOK
  <2>4. IsList(j.list, 1..Newest') /\ DOMAIN j.list = {}
    BY <1>2, EmptyIs
  <2>5. /\ job' = [x \in Threads |-> job'[x]] /\ lock' \in Writers \cup {NoTask}
        /\ job'[r] = j /\ (\A u \in Tasks \ {r} : job'[u] = job[u]) /\ job'[Orphan] = job[Orphan]
    BY <1>0, <1>3, Facts DEF BasicInv, CallsOK
  <2>6. mine' \in [Writers -> 0..MaxCalls]
    BY <1>0 DEF BasicInv, FreshOK
  <2> QED  BY <1>0, <1>2, <1>4, <1>5, <2>2, <2>3, <2>4, <2>5, <2>6, OrphanFacts DEF LoopMoves
<1>7. ASSUME CalmOK PROVE CalmOK'
  <2>0. job'[Orphan] = job[Orphan]
    BY <1>0, <1>3, Facts DEF BasicInv, CallsOK
  <2>1. AloneOK'
    BY <1>0, <1>4, <1>7, <2>0, AloneKeep, OrphanFacts DEF CalmOK
  <2>2. DiskOK'
    BY <1>0, <1>4, <1>7, DiskKeep DEF CalmOK, Storing
  <2>3. promised'[r] = safe /\ \A s \in Readers \ {r} : promised'[s] = promised[s]
    BY <1>0 DEF BasicInv, GhostsOK
  <2>4. DoneOK(r, "reading", j)'
    BY <1>0, <1>2, <2>3 DEF DoneOK, ReadOK
  <2> QED  BY <1>0, <1>6, <1>7, <2>1, <2>2, <2>3, <2>4, CalmKeeps
<1> QED  BY <1>0, <1>6, <1>7, LoopKeeps

LEMMA BeginClearKeeps ==
  ASSUME BasicInv, NEW c \in Clearers, BeginClear(c)
  PROVE  BasicInv' /\ (~raced' /\ CalmOK => CalmOK')
<1>0. /\ c \in Tasks /\ c \notin Writers /\ c \notin Readers /\ pc[c] = "idle"
      /\ calls < MaxCalls /\ calls' = calls + 1
      /\ pc' = [pc EXCEPT ![c] = "listing"]
      /\ safe' = safe \cap {} /\ promised' = [r \in Readers |-> promised[r] \cap {}]
      /\ raced' = (raced \/ lock # NoTask \/ \E d \in Clearers : pc[d] # "idle")
      /\ UNCHANGED <<disk, tmp, lock, mine, faults, settled>>
  BY Facts DEF BeginClear, NewCall, Submit, Drops
<1>1. PICK j : j = Call("keys", Empty, {})
  OBVIOUS
<1>2. CallOK(j) /\ j.phase = "keys" /\ j.list = Empty /\ j.keep = {}
  BY <1>1, CallIs DEF CallOK, Phases
<1>3. job' = [job EXCEPT ![c] = j]
  BY <1>1 DEF BeginClear, Submit
<1>4. Goes(c, "listing") /\ c \notin Early
  BY <1>0, Facts DEF Goes, Labels, Hurries, Early
<1>5. c \notin Early' /\ Newest' \in Nat /\ Newest <= Newest'
  BY <1>0, <1>4, EarlyIs DEF Hurries, Early
<1>6. /\ job' = [x \in Threads |-> job'[x]] /\ lock' \in Writers \cup {NoTask}
      /\ job'[c] = j /\ (\A u \in Tasks \ {c} : job'[u] = job[u]) /\ job'[Orphan] = job[Orphan]
  BY <1>0, <1>3, Facts DEF BasicInv, CallsOK
<1>7. LoopMoves(c, "listing", j)
  <2>1. lock # c
    BY <1>0, BeginFacts
  <2>2. PlaceOK(c, "listing", j)'
    BY <1>0, <1>2, <2>1 DEF PlaceOK, PhasesOf
  <2>3. GhostsOK'
    BY <1>0 DEF BasicInv, GhostsOK
  <2>4. IsList(j.list, 1..Newest') /\ DOMAIN j.list = {}
    BY <1>2, EmptyIs
  <2>5. mine' \in [Writers -> 0..MaxCalls]
    BY <1>0 DEF BasicInv, FreshOK
  <2> QED  BY <1>0, <1>2, <1>4, <1>5, <1>6, <2>2, <2>3, <2>4, <2>5, OrphanFacts DEF LoopMoves
<1>8. ASSUME ~raced', CalmOK PROVE CalmOK'
  <2>1. AloneOK'
    <3>0. lock = NoTask /\ \A d \in Clearers : pc[d] = "idle"
      BY <1>0, <1>8, Zenon
    <3>1. lock' = NoTask /\ \A d \in Clearers \ {c} : pc'[d] = "idle"
      BY <1>0, <3>0 DEF BasicInv, CallsOK
    <3> QED  BY <1>6, <1>8, <3>1, OrphanFacts DEF AloneOK, CalmOK
  <2>2. DiskOK'
    BY <1>0, <1>4, <1>8, DiskKeep DEF CalmOK, Storing
  <2>3. DoneOK(c, "listing", j)'
    BY <1>0, <1>2 DEF DoneOK, ListingOK
  <2>4. safe' \subseteq safe /\ \A r \in Readers : promised'[r] = {}
    BY <1>0
  <2>5. \A r \in Readers \ {c} : /\ promised'[r] \subseteq promised[r]
                                /\ promised[r] \subseteq safe => promised'[r] \subseteq safe'
    BY <2>4
  <2> QED  BY <1>0, <1>7, <1>8, <2>1, <2>2, <2>3, <2>4, <2>5, CalmKeeps
<1> QED  BY <1>0, <1>7, <1>8, LoopKeeps

(* A writer in the lock. *)
LEMMA AcquireKeeps ==
  ASSUME BasicInv, NEW t \in Writers, Acquire(t)
  PROVE  BasicInv' /\ (~raced' /\ CalmOK => CalmOK')
<1>0. /\ t \in Tasks /\ t \notin Clearers /\ t \notin Readers /\ pc[t] = "waiting"
      /\ lock = NoTask /\ lock' = t /\ pc' = [pc EXCEPT ![t] = "loading"]
      /\ raced' = (raced \/ \E c \in Clearers : pc[c] # "idle")
      /\ UNCHANGED <<disk, tmp, mine, calls, faults, settled, safe, promised>>
  BY Facts DEF Acquire, Submit
<1>1. PICK j : j = Call("list", Empty, {})
  OBVIOUS
<1>2. CallOK(j) /\ j.phase = "list" /\ j.list = Empty
  BY <1>1, CallIs DEF CallOK, Phases
<1>3. job' = [job EXCEPT ![t] = j]
  BY <1>1 DEF Acquire, Submit
<1>4. Goes(t, "loading") /\ t \in Early
  BY <1>0 DEF Goes, Labels, Hurries, Early
<1>5. Newest' \in Nat /\ Newest <= Newest'
  BY <1>0, <1>4, EarlyIs
<1>6. /\ job' = [x \in Threads |-> job'[x]]
      /\ job'[t] = j /\ (\A u \in Tasks \ {t} : job'[u] = job[u]) /\ job'[Orphan] = job[Orphan]
      /\ \A c \in Clearers : pc'[c] = pc[c]
  BY <1>0, <1>3, Facts DEF BasicInv, CallsOK
<1>7. LoopMoves(t, "loading", j)
  <2>1. PlaceOK(t, "loading", j)'
    BY <1>0, <1>2 DEF PlaceOK, PhasesOf
  <2>2. GhostsOK'
    BY <1>0 DEF BasicInv, GhostsOK
  <2>3. IsList(j.list, 1..Newest') /\ DOMAIN j.list = {}
    BY <1>2, EmptyIs
  <2>4. mine' \in [Writers -> 0..MaxCalls]
    BY <1>0 DEF BasicInv, FreshOK
  <2>5. \A u \in Tasks \ {t} : lock' = u <=> lock = u
    BY <1>0, Facts
  <2> QED  BY <1>0, <1>2, <1>4, <1>5, <1>6, <2>1, <2>2, <2>3, <2>4, <2>5, OrphanFacts DEF LoopMoves
<1>8. ASSUME ~raced', CalmOK PROVE CalmOK'
  <2>1. AloneOK'
    <3>1. \A c \in Clearers : pc[c] = "idle"
      BY <1>0, <1>8, Zenon
    <3> QED  BY <1>6, <1>8, <3>1, OrphanFacts DEF AloneOK, CalmOK
  <2>2. DiskOK'
    BY <1>0, <1>4, <1>8, DiskKeep DEF CalmOK, Storing
  <2>3. DoneOK(t, "loading", j)'
    BY <1>2 DEF DoneOK, LoadOK
  <2> QED  BY <1>0, <1>7, <1>8, <2>1, <2>2, <2>3, CalmKeeps
<1> QED  BY <1>0, <1>7, <1>8, LoopKeeps

LEMMA LoadedFacts ==
  ASSUME BasicInv, NEW t \in Writers, Loaded(t)
  PROVE  /\ t \in Tasks /\ t \notin Clearers /\ t \notin Readers /\ t \in Early /\ lock = t
         /\ mine[t] \in 1..calls /\ mine[t] \in Ids /\ mine[t] \notin Known
         /\ IsList(job[t].list, 1..Newest) /\ DOMAIN job[t].list \subseteq Known
         /\ CalmOK => job[t].list = disk
<1>1. t \in Tasks /\ t \notin Clearers /\ t \notin Readers /\ t \in Threads
  BY Facts
<1>2. pc[t] = "loading" /\ job[t].phase = "done" /\ PlaceOK(t, pc[t], job[t])
  BY <1>1, Inside DEF Loaded
<1>3. t \in Early /\ lock = t
  BY <1>2 DEF Early, PlaceOK
<1>4. mine[t] \in 1..calls /\ mine[t] \notin Known /\ calls \in 0..MaxCalls
  BY <1>3 DEF BasicInv, FreshOK, VersionsOK
<1>5. CalmOK => job[t].list = disk
  BY <1>1, <1>2 DEF CalmOK, DoneOK, LoadOK
<1> QED  BY <1>1, <1>3, <1>4, <1>5, AllLists, Facts

LEMMA StoreKeeps ==
  ASSUME BasicInv, NEW t \in Writers, Loaded(t), NEW list, Store(t, list),
         IsList(list, 1..(Newest + 1)), DOMAIN list \subseteq Known \cup {mine[t]},
         CalmOK => \A i \in DOMAIN list \cap DOMAIN disk : disk[i] <= list[i]
  PROVE  BasicInv' /\ (~raced' /\ CalmOK => CalmOK')
<1>0. /\ pc' = [pc EXCEPT ![t] = "storing"] /\ safe' = safe \cap DOMAIN list
      /\ promised' = [r \in Readers |-> promised[r] \cap DOMAIN list]
      /\ UNCHANGED <<disk, tmp, lock, mine, calls, faults, settled, raced>>
  BY DEF Store, Submit, Drops
<1>1. PICK j : j = Call("write", list, DOMAIN list)
  OBVIOUS
<1>2. CallOK(j) /\ j.phase = "write" /\ j.list = list /\ j.todo = DOMAIN list /\ j.keep = {}
  <2>1. DOMAIN list \in SUBSET Ids /\ "write" \in Phases
    BY DEF IsList, Phases
  <2> QED  BY <1>1, <2>1, CallIs DEF CallOK
<1>3. job' = [job EXCEPT ![t] = j]
  BY <1>1 DEF Store, Submit
<1>4. t \in Tasks /\ t \notin Clearers /\ t \notin Readers /\ t \in Early /\ lock = t
  BY LoadedFacts
<1>5. Goes(t, "storing")
  BY <1>0 DEF Goes, Labels, Hurries
<1>6. t \notin Early' /\ Newest' = Newest + 1 /\ Newest \in Nat
  BY <1>4, <1>5, EarlyIs, AllLists DEF Hurries
<1>7. /\ job' = [x \in Threads |-> job'[x]] /\ lock' \in Writers \cup {NoTask}
      /\ job'[t] = j /\ (\A u \in Tasks \ {t} : job'[u] = job[u]) /\ job'[Orphan] = job[Orphan]
  BY <1>0, <1>3, <1>4, Facts DEF BasicInv, CallsOK
<1>8. LoopMoves(t, "storing", j)
  <2>1. PlaceOK(t, "storing", j)'
    BY <1>0, <1>2, <1>4 DEF PlaceOK, PhasesOf, Writes
  <2>2. GhostsOK'
    BY <1>0 DEF BasicInv, GhostsOK
  <2>3. mine' \in [Writers -> 0..MaxCalls]
    BY <1>0 DEF BasicInv, FreshOK
  <2>4. IsList(j.list, 1..Newest')
    BY <1>2, <1>6
  <2> QED  BY <1>0, <1>2, <1>4, <1>5, <1>6, <1>7, <2>1, <2>2, <2>3, <2>4, OrphanFacts DEF LoopMoves
<1>9. ASSUME CalmOK PROVE CalmOK'
  <2>1. AloneOK'
    BY <1>0, <1>4, <1>5, <1>7, <1>9, AloneKeep, OrphanFacts DEF CalmOK
  <2>2. DiskOK'
    BY <1>0, <1>4, <1>5, <1>9, DiskKeep DEF CalmOK, Lasts
  <2>3. StoreOK(j)'
    BY <1>0, <1>2, <1>9 DEF StoreOK, Written
  <2>4. DoneOK(t, "storing", j)'
    BY <2>3 DEF DoneOK
  <2>5. \A r \in Readers \ {t} : /\ promised'[r] \subseteq promised[r]
                                /\ promised[r] \subseteq safe => promised'[r] \subseteq safe'
    BY <1>0
  <2> QED  BY <1>0, <1>4, <1>8, <1>9, <2>1, <2>2, <2>4, <2>5, CalmKeeps
<1> QED  BY <1>4, <1>8, <1>9, LoopKeeps

LEMMA AppendKeeps ==
  ASSUME BasicInv, NEW t \in Writers, Append(t)
  PROVE  BasicInv' /\ (~raced' /\ CalmOK => CalmOK')
<1>1. PICK all : all = With(job[t].list, mine[t], 1)
  OBVIOUS
<1>2. PICK list : list = IF Cardinality(DOMAIN all) > Limit THEN Without(all, First(DOMAIN all)) ELSE all
  OBVIOUS
<1>3. Loaded(t) /\ Store(t, list)
  BY <1>1, <1>2 DEF Append
<1>4. /\ mine[t] \in Ids /\ mine[t] \notin Known
      /\ IsList(job[t].list, 1..Newest) /\ DOMAIN job[t].list \subseteq Known
      /\ CalmOK => job[t].list = disk
  BY <1>3, LoadedFacts
<1>5. Newest \in Nat /\ 1 \in 1..(Newest + 1) /\ 1..Newest \subseteq 1..(Newest + 1)
  BY AllLists
<1>6. IsList(job[t].list, 1..(Newest + 1))
  BY <1>4, <1>5, WiderList
<1>7. IsList(all, 1..(Newest + 1))
  BY <1>1, <1>4, <1>5, <1>6, WithIs
<1>8. /\ DOMAIN all = DOMAIN job[t].list \cup {mine[t]}
      /\ \A i \in DOMAIN job[t].list : i # mine[t] => all[i] = job[t].list[i]
  BY <1>1 DEF With
<1>9. IsList(list, 1..(Newest + 1))
  BY <1>2, <1>7, WithoutIs
<1>10. DOMAIN list \subseteq DOMAIN all /\ \A i \in DOMAIN list : list[i] = all[i]
  BY <1>2 DEF Without, Restrict
<1>11. ASSUME CalmOK PROVE \A i \in DOMAIN list \cap DOMAIN disk : disk[i] <= list[i]
  <2> SUFFICES ASSUME NEW i \in DOMAIN list \cap DOMAIN disk PROVE disk[i] <= list[i]
    OBVIOUS
  <2>1. i # mine[t]
    BY <1>4, AllLists
  <2>2. list[i] = disk[i]
    BY <1>4, <1>8, <1>10, <1>11, <2>1
  <2> QED  BY <2>2, AllLists DEF IsList
<1> QED  BY <1>3, <1>4, <1>8, <1>9, <1>10, <1>11, StoreKeeps

LEMMA ChangeKeeps ==
  ASSUME BasicInv, NEW t \in Writers, Change(t)
  PROVE  BasicInv' /\ (~raced' /\ CalmOK => CalmOK')
<1>1. PICK i \in DOMAIN job[t].list :
        \/ Store(t, [job[t].list EXCEPT ![i] = @ + 1])
        \/ Store(t, Without(job[t].list, i))
  BY DEF Change
<1>2. Loaded(t)
  BY DEF Change
<1>3. /\ IsList(job[t].list, 1..Newest) /\ DOMAIN job[t].list \subseteq Known
      /\ CalmOK => job[t].list = disk
  BY <1>2, LoadedFacts
<1>4. Newest \in Nat /\ 1..Newest \subseteq 1..(Newest + 1)
  BY AllLists
<1>5. CASE Store(t, [job[t].list EXCEPT ![i] = @ + 1])
  <2>1. PICK list : list = [job[t].list EXCEPT ![i] = @ + 1]
    OBVIOUS
  <2>2. /\ DOMAIN list = DOMAIN job[t].list /\ list[i] = job[t].list[i] + 1
        /\ \A k \in DOMAIN list : k # i => list[k] = job[t].list[k]
    BY <2>1
  <2>3. job[t].list[i] \in 1..Newest
    BY <1>3 DEF IsList
  <2>4. IsList(list, 1..(Newest + 1))
    BY <1>3, <1>4, <2>1, <2>2, <2>3 DEF IsList
  <2>5. ASSUME CalmOK PROVE \A k \in DOMAIN list \cap DOMAIN disk : disk[k] <= list[k]
    <3> SUFFICES ASSUME NEW k \in DOMAIN list \cap DOMAIN disk PROVE disk[k] <= list[k]
      OBVIOUS
    <3>1. disk[k] \in 0..Newest
      BY AllLists DEF IsList
    <3>2. list[k] = disk[k] \/ list[k] = disk[k] + 1
      BY <1>3, <2>2, <2>5
    <3> QED  BY <1>4, <3>1, <3>2
  <2> QED  BY <1>2, <1>3, <1>5, <2>1, <2>2, <2>4, <2>5, StoreKeeps
<1>6. CASE Store(t, Without(job[t].list, i))
  <2>1. PICK list : list = Without(job[t].list, i)
    OBVIOUS
  <2>2. DOMAIN list \subseteq DOMAIN job[t].list /\ \A k \in DOMAIN list : list[k] = job[t].list[k]
    BY <2>1 DEF Without, Restrict
  <2>3. IsList(list, 1..(Newest + 1))
    BY <1>3, <1>4, <2>1, WithoutIs, WiderList
  <2>4. ASSUME CalmOK PROVE \A k \in DOMAIN list \cap DOMAIN disk : disk[k] <= list[k]
    BY <1>3, <1>4, <2>2, <2>4, AllLists DEF IsList
  <2> QED  BY <1>2, <1>3, <1>6, <2>1, <2>2, <2>3, <2>4, StoreKeeps
<1> QED  BY <1>1, <1>5, <1>6

(* The calls end. *)
LEMMA LeaveMoves ==
  ASSUME BasicInv, NEW t \in Tasks, Leave(t), UNCHANGED <<disk, tmp, calls>>, GhostsOK'
  PROVE  /\ LoopMoves(t, "idle", NoCall) /\ Goes(t, "idle") /\ lock' \in {lock, NoTask}
         /\ job'[Orphan] = job[Orphan] /\ pc'[t] = "idle" /\ \A u \in Tasks \ {t} : pc'[u] = pc[u]
<1>1. /\ pc' = [pc EXCEPT ![t] = "idle"] /\ job' = [job EXCEPT ![t] = NoCall]
      /\ mine' = [u \in Writers |-> IF u = t THEN 0 ELSE mine[u]]
      /\ lock' = IF lock = t THEN NoTask ELSE lock
  BY DEF Leave
<1>2. Goes(t, "idle")
  BY <1>1 DEF Goes, Labels, Hurries
<1>3. t \notin Early' /\ Newest' \in Nat /\ Newest <= Newest'
  BY <1>2, EarlyIs DEF Hurries
<1>4. /\ job' = [x \in Threads |-> job'[x]] /\ lock' \in Writers \cup {NoTask}
      /\ job'[t] = NoCall /\ (\A u \in Tasks \ {t} : job'[u] = job[u]) /\ job'[Orphan] = job[Orphan]
      /\ pc'[t] = "idle" /\ \A u \in Tasks \ {t} : pc'[u] = pc[u]
  BY <1>1, Facts DEF BasicInv, CallsOK
<1>5. PlaceOK(t, "idle", NoCall)'
  BY <1>1, NoCallIs, Facts DEF PlaceOK, PhasesOf
<1>6. mine' \in [Writers -> 0..MaxCalls] /\ \A u \in Writers \ {t} : mine'[u] = mine[u]
  BY <1>1, Facts DEF BasicInv, FreshOK
<1>7. CallOK(NoCall) /\ IsList(NoCall.list, 1..Newest') /\ DOMAIN NoCall.list = {}
  BY NoCallIs, EmptyIs
<1>8. \A u \in Tasks \ {t} : lock' = u <=> lock = u
  BY <1>1, Facts
<1>9. LoopMoves(t, "idle", NoCall)
  BY <1>2, <1>3, <1>4, <1>5, <1>6, <1>7, <1>8, OrphanFacts DEF LoopMoves
<1> QED  BY <1>1, <1>2, <1>4, <1>9

LEMMA LeaveKeeps ==
  ASSUME BasicInv, NEW t \in Tasks, Leave(t), UNCHANGED <<disk, tmp, calls, safe, raced>>, GhostsOK',
         \/ settled' = Unsettled
         \/ settled' = settled /\ ~Storing(t),
         \A r \in Readers \ {t} : promised'[r] = promised[r]
  PROVE  BasicInv' /\ (~raced' /\ CalmOK => CalmOK')
<1>1. /\ LoopMoves(t, "idle", NoCall) /\ Goes(t, "idle") /\ lock' \in {lock, NoTask}
      /\ job'[Orphan] = job[Orphan]
  BY LeaveMoves
<1>2. ASSUME CalmOK PROVE CalmOK'
  <2>1. AloneOK'
    BY <1>1, <1>2, AloneKeep, OrphanFacts DEF CalmOK
  <2>2. DiskOK'
    BY <1>1, <1>2, DiskKeep DEF CalmOK
  <2>3. DoneOK(t, "idle", NoCall)'
    BY DEF DoneOK
  <2>4. safe' \subseteq safe
    OBVIOUS
  <2>5. \A r \in Readers \ {t} : /\ promised'[r] \subseteq promised[r]
                                /\ promised[r] \subseteq safe => promised'[r] \subseteq safe'
    OBVIOUS
  <2> QED  BY <1>1, <1>2, <2>1, <2>2, <2>3, <2>4, <2>5, CalmKeeps
<1> QED  BY <1>1, <1>2, LoopKeeps

LEMMA NothingToChangeKeeps ==
  ASSUME BasicInv, NEW t \in Writers, NothingToChange(t)
  PROVE  BasicInv' /\ (~raced' /\ CalmOK => CalmOK')
<1>1. /\ t \in Tasks /\ Leave(t) /\ ~Storing(t)
      /\ UNCHANGED <<disk, tmp, calls, faults, settled, safe, promised, raced>>
  BY Facts DEF NothingToChange, Loaded, Storing
<1>2. GhostsOK'
  BY <1>1 DEF BasicInv, GhostsOK
<1> QED  BY <1>1, <1>2, LeaveKeeps

LEMMA EndReadKeeps ==
  ASSUME BasicInv, NEW r \in Readers, EndRead(r)
  PROVE  BasicInv' /\ (~raced' /\ CalmOK => CalmOK')
<1>1. /\ r \in Tasks /\ Leave(r) /\ ~Storing(r) /\ promised' = [promised EXCEPT ![r] = {}]
      /\ UNCHANGED <<disk, tmp, calls, faults, settled, safe, raced>>
  BY Facts DEF EndRead, Storing
<1>2. GhostsOK'
  BY <1>1 DEF BasicInv, GhostsOK
<1>3. \A s \in Readers \ {r} : promised'[s] = promised[s]
  BY <1>1 DEF BasicInv, GhostsOK
<1> QED  BY <1>1, <1>2, <1>3, LeaveKeeps

LEMMA BreaksOffIs ==
  ASSUME BasicInv, NEW S, BreaksOff(S)
  PROVE  /\ settled' \in Lists(Versions) \cup {Unsettled}
         /\ settled' = IF \E t \in S : Storing(t) THEN Unsettled ELSE settled
BY DEF BreaksOff, Storing, BasicInv, GhostsOK

LEMMA RaiseKeeps ==
  ASSUME BasicInv, NEW t \in Tasks, Raise(t)
  PROVE  BasicInv' /\ (~raced' /\ CalmOK => CalmOK')
<1>1. /\ Leave(t) /\ BreaksOff({t})
      /\ UNCHANGED <<disk, tmp, calls, faults, safe, promised, raced>>
  BY DEF Raise
<1>2. /\ settled' \in Lists(Versions) \cup {Unsettled}
      /\ settled' = IF Storing(t) THEN Unsettled ELSE settled
  BY <1>1, BreaksOffIs
<1>3. GhostsOK'
  BY <1>1, <1>2 DEF BasicInv, GhostsOK, Lists, Unsettled
<1> QED  BY <1>1, <1>2, <1>3, LeaveKeeps

LEMMA ReturnKeeps ==
  ASSUME BasicInv, NEW t \in Tasks, Return(t)
  PROVE  BasicInv' /\ (~raced' /\ CalmOK => CalmOK')
<1>1. /\ Storing(t) /\ job[t].phase = "done" /\ Leave(t) /\ t \in Threads
      /\ settled' = job[t].list /\ safe' = DOMAIN job[t].list
      /\ UNCHANGED <<disk, tmp, calls, faults, promised, raced>>
  BY Facts DEF Return, Storing
<1>2. GhostsOK'
  <2>1. IsList(job[t].list, 1..Newest) /\ 1..Newest \subseteq Versions
    BY <1>1, AllLists, Facts
  <2>2. settled' \in Lists(Versions) /\ safe' \subseteq Ids
    BY <1>1, <2>1, WiderList, ListsAre DEF IsList
  <2>3. Lists(Versions)' = Lists(Versions) /\ Unsettled' = Unsettled
    BY DEF Lists, Versions, Unsettled
  <2> QED  BY <1>1, <2>2, <2>3 DEF BasicInv, GhostsOK
<1>3. /\ LoopMoves(t, "idle", NoCall) /\ Goes(t, "idle") /\ lock' \in {lock, NoTask}
      /\ job'[Orphan] = job[Orphan] /\ pc'[t] = "idle" /\ \A u \in Tasks \ {t} : pc'[u] = pc[u]
  BY <1>1, <1>2, LeaveMoves
<1>4. ASSUME CalmOK PROVE CalmOK'
  <2>1. AloneOK'
    BY <1>3, <1>4, AloneKeep, OrphanFacts DEF CalmOK
  <2>2. disk = job[t].list /\ safe \subseteq safe'
    BY <1>1, <1>4 DEF CalmOK, DoneOK, StoreOK, Storing
  <2>3. DiskOK'
    BY <1>1, <1>4, <2>2 DEF CalmOK, DiskOK
  <2>4. \A u \in Tasks \ {t} : pc[u] \notin {"loading", "storing", "listing", "clearing"}
    BY <1>1, <1>4, AloneTask DEF CalmOK
  <2>5. ASSUME NEW u \in Tasks PROVE DoneOK(u, pc[u], job[u])'
    <3>1. CASE u = t
      BY <1>3, <3>1 DEF DoneOK
    <3>2. ASSUME u # t PROVE DoneOK(u, pc[u], job[u])'
      <4>1. pc'[u] = pc[u] /\ job'[u] = job[u]
        BY <1>3, <3>2 DEF LoopMoves
      <4>2. DoneOK(u, pc[u], job[u])
        BY <1>4 DEF CalmOK
      <4> QED  BY <1>1, <2>2, <2>4, <3>2, <4>1, <4>2 DEF DoneOK, ReadOK
    <3> QED  BY <3>1, <3>2
  <2> QED  BY <2>1, <2>3, <2>5 DEF CalmOK
<1> QED  BY <1>1, <1>3, <1>4, LoopKeeps

LEMMA DeleteKeysKeeps ==
  ASSUME BasicInv, NEW c \in Clearers, DeleteKeys(c)
  PROVE  BasicInv' /\ (~raced' /\ CalmOK => CalmOK')
<1>0. /\ c \in Tasks /\ c \in Threads /\ c \notin Writers /\ c \notin Readers
      /\ pc[c] = "listing" /\ job[c].phase = "done" /\ pc' = [pc EXCEPT ![c] = "clearing"]
      /\ UNCHANGED <<disk, tmp, lock, mine, calls, faults, settled, safe, promised, raced>>
  BY Facts DEF DeleteKeys, Submit
<1>1. PICK j : j = IF job[c].todo = {} THEN job[c] ELSE Call("sweep", Empty, {})
  OBVIOUS
<1>2. PlaceOK(c, pc[c], job[c]) /\ CallOK(job[c]) /\ job[c].list = Empty /\ job[c].keep = {}
  BY <1>0, Inside, AllLists DEF PlaceOK
<1>3. /\ CallOK(j) /\ j.list = Empty /\ j.keep = {}
      /\ IF job[c].todo = {} THEN j.phase = "done" ELSE j.phase = "sweep"
  BY <1>0, <1>1, <1>2, CallIs DEF CallOK, Phases
<1>4. job' = [job EXCEPT ![c] = j]
  BY <1>1 DEF DeleteKeys, Submit
<1>5. Goes(c, "clearing")
  BY <1>0 DEF Goes, Labels, Hurries
<1>6. c \notin Early' /\ Newest' \in Nat /\ Newest <= Newest'
  BY <1>0, <1>5, EarlyIs DEF Hurries
<1>7. /\ job' = [x \in Threads |-> job'[x]] /\ lock' \in Writers \cup {NoTask}
      /\ job'[c] = j /\ (\A u \in Tasks \ {c} : job'[u] = job[u]) /\ job'[Orphan] = job[Orphan]
  BY <1>0, <1>4, Facts DEF BasicInv, CallsOK
<1>8. LoopMoves(c, "clearing", j)
  <2>1. PlaceOK(c, "clearing", j)'
    BY <1>0, <1>2, <1>3 DEF PlaceOK, PhasesOf
  <2>2. GhostsOK'
    BY <1>0 DEF BasicInv, GhostsOK
  <2>3. mine' \in [Writers -> 0..MaxCalls]
    BY <1>0 DEF BasicInv, FreshOK
  <2>4. IsList(j.list, 1..Newest') /\ DOMAIN j.list = {}
    BY <1>3, EmptyIs
  <2> QED  BY <1>0, <1>3, <1>5, <1>6, <1>7, <2>1, <2>2, <2>3, <2>4, OrphanFacts DEF LoopMoves
<1>9. ASSUME CalmOK PROVE CalmOK'
  <2>1. AloneOK'
    BY <1>0, <1>5, <1>7, <1>9, AloneKeep, OrphanFacts DEF CalmOK
  <2>2. DiskOK'
    BY <1>0, <1>5, <1>9, DiskKeep DEF CalmOK, Lasts
  <2>3. safe = {} /\ job[c].todo = DOMAIN disk
    BY <1>0, <1>9 DEF CalmOK, DoneOK, ListingOK
  <2>4. CASE job[c].todo = {}
    <3>1. disk = Empty
      <4>1. IsList(disk, 0..Newest) /\ IsList(Empty, 0..Newest) /\ DOMAIN Empty = {}
        BY AllLists, EmptyIs
      <4> QED  BY <2>3, <2>4, <4>1, SameList
    <3>2. StoreOK(j)'
      BY <1>0, <1>3, <2>3, <2>4, <3>1 DEF StoreOK, Writes
    <3> QED  BY <1>0, <1>8, <1>9, <2>1, <2>2, <3>2, CalmKeeps DEF DoneOK
  <2>5. CASE job[c].todo # {}
    <3>1. StoreOK(j)'
      BY <1>0, <1>3, <2>3, <2>5, EmptyIs DEF StoreOK, Writes
    <3> QED  BY <1>0, <1>8, <1>9, <2>1, <2>2, <3>1, CalmKeeps DEF DoneOK
  <2> QED  BY <2>4, <2>5
<1> QED  BY <1>0, <1>8, <1>9, LoopKeeps

(* Only a write under way can outlive its task and break the calm. *)
LEMMA CancelKeeps ==
  ASSUME BasicInv, NEW t \in Tasks, Cancel(t)
  PROVE  BasicInv' /\ (~raced' /\ CalmOK => CalmOK')
<1>0. /\ t \in Threads /\ t # Orphan /\ faults < MaxFaults /\ faults' = faults + 1
      /\ pc' = [pc EXCEPT ![t] = "idle"] /\ lock' = (IF lock = t THEN NoTask ELSE lock)
      /\ mine' = [u \in Writers |-> IF u = t THEN 0 ELSE mine[u]]
      /\ raced' = (raced \/ (pc[t] \in {"storing", "clearing"} /\ Running(t)))
      /\ BreaksOff({t}) /\ UNCHANGED <<disk, tmp, calls, safe, promised>>
  BY Facts DEF Cancel
<1>1. PICK o : o = IF Running(t) THEN job[t] ELSE NoCall
  OBVIOUS
<1>2. job' = [job EXCEPT ![t] = NoCall, ![Orphan] = o]
  BY <1>1 DEF Cancel
<1>3. CallOK(o) /\ IsList(o.list, 1..Newest) /\ DOMAIN o.list \subseteq Known
  BY <1>0, <1>1, AllLists, NoCallIs, EmptyIs
<1>4. Goes(t, "idle")
  BY <1>0 DEF Goes, Labels, Hurries
<1>5. t \notin Early' /\ Newest' \in Nat /\ Newest <= Newest'
  BY <1>4, EarlyIs DEF Hurries
<1>6. /\ job' = [x \in Threads |-> job'[x]] /\ lock' \in Writers \cup {NoTask}
      /\ job'[t] = NoCall /\ (\A u \in Tasks \ {t} : job'[u] = job[u]) /\ job'[Orphan] = o
  BY <1>0, <1>2, Facts DEF BasicInv, CallsOK
<1>7. /\ settled' \in Lists(Versions) \cup {Unsettled}
      /\ settled' = IF Storing(t) THEN Unsettled ELSE settled
  BY <1>0, BreaksOffIs
<1>8. LoopMoves(t, "idle", NoCall)
  <2>1. PlaceOK(t, "idle", NoCall)'
    BY <1>0, NoCallIs, Facts DEF PlaceOK, PhasesOf
  <2>2. mine' \in [Writers -> 0..MaxCalls] /\ \A u \in Writers \ {t} : mine'[u] = mine[u]
    BY <1>0, Facts DEF BasicInv, FreshOK
  <2>3. CallOK(NoCall) /\ IsList(NoCall.list, 1..Newest') /\ DOMAIN NoCall.list = {}
    BY NoCallIs, EmptyIs
  <2>4. \A u \in Tasks \ {t} : lock' = u <=> lock = u
    BY <1>0, Facts
  <2>5. GhostsOK'
    <3>1. faults' \in 0..MaxFaults /\ Lists(Versions)' = Lists(Versions) /\ Unsettled' = Unsettled
      BY <1>0, Facts DEF BasicInv, GhostsOK, Lists, Versions, Unsettled
    <3>2. raced' \in BOOLEAN
      BY <1>0
    <3> QED  BY <1>0, <1>7, <3>1, <3>2 DEF BasicInv, GhostsOK
  <2> QED  BY <1>0, <1>3, <1>4, <1>5, <1>6, <2>1, <2>2, <2>3, <2>4, <2>5 DEF LoopMoves
<1>9. ASSUME ~raced', CalmOK PROVE CalmOK'
  <2>0. ~(pc[t] \in {"storing", "clearing"} /\ Running(t))
    BY <1>0, <1>9, Zenon
  <2>1. o.phase \notin Writes
    <3>1. CASE ~Running(t)
      BY <1>1, <3>1, NoCallIs DEF Writes
    <3>2. CASE Running(t)
      <4>1. pc[t] \notin {"storing", "clearing"} /\ PlaceOK(t, pc[t], job[t]) /\ pc[t] \in Labels
        BY <1>0, <2>0, <3>2, Inside
      <4> QED  BY <1>1, <3>2, <4>1 DEF PlaceOK, PhasesOf, Writes, Labels
    <3> QED  BY <3>1, <3>2
  <2>2. AloneOK'
    BY <1>0, <1>4, <1>6, <1>9, <2>1, AloneKeep DEF CalmOK
  <2>3. DiskOK'
    BY <1>0, <1>4, <1>7, <1>9, DiskKeep DEF CalmOK
  <2>4. DoneOK(t, "idle", NoCall)'
    BY DEF DoneOK
  <2> QED  BY <1>0, <1>8, <1>9, <2>2, <2>3, <2>4, CalmKeeps
<1> QED  BY <1>8, <1>9, LoopKeeps

LEMMA RestartKeeps ==
  ASSUME BasicInv, Restart
  PROVE  BasicInv' /\ (~raced' /\ CalmOK => CalmOK')
<1>0. /\ faults < MaxFaults /\ faults' = faults + 1 /\ lock' = NoTask
      /\ pc' = [t \in Tasks |-> "idle"] /\ mine' = [t \in Writers |-> 0]
      /\ job' = [x \in Threads |-> NoCall] /\ promised' = [r \in Readers |-> {}]
      /\ BreaksOff(Tasks) /\ UNCHANGED <<disk, tmp, calls, safe, raced>>
  BY DEF Restart
<1>1. /\ settled' \in Lists(Versions) \cup {Unsettled}
      /\ settled' = IF \E t \in Tasks : Storing(t) THEN Unsettled ELSE settled
  BY <1>0, BreaksOffIs
<1>2. Early' = {}
  BY <1>0, Facts DEF Early
<1>3. IsFiniteSet(Early') /\ Cardinality(Early') = 0
  BY <1>2, FS_EmptySet
<1>4. Newest' = calls + 1 /\ Newest \in Nat /\ Newest <= Newest' /\ calls \in 0..MaxCalls
  <2>1. Cardinality(Early) \in Nat
    BY FS_CardinalityType DEF BasicInv, VersionsOK
  <2> QED  BY <1>0, <1>3, <2>1, AllLists DEF Newest, BasicInv, VersionsOK
<1>5. CallsOK'
  BY <1>0, NoCallIs, Facts DEF CallsOK, PlaceOK, PhasesOf, Labels
<1>6. VersionsOK'
  <2>1. 0..Newest \subseteq 0..Newest'
    BY <1>4
  <2>2. IsList(disk, 0..Newest') /\ IsList(tmp, 0..Newest')
    BY <2>1, AllLists, WiderList
  <2>3. \A x \in Threads : IsList(NoCall.list, 1..Newest')
    BY NoCallIs, EmptyIs
  <2> QED  BY <1>0, <1>3, <1>4, <2>2, <2>3, Facts DEF VersionsOK, IsList
<1>7. FreshOK'
  <2>1. \A x \in Threads : DOMAIN job'[x].list = {}
    BY <1>0, NoCallIs, EmptyIs
  <2>2. Known' \subseteq Known
    BY <1>0, <2>1 DEF Known
  <2> QED  BY <1>0, <1>2, <2>2, Facts DEF BasicInv, FreshOK
<1>8. GhostsOK'
  <2>1. faults' \in 0..MaxFaults /\ Lists(Versions)' = Lists(Versions) /\ Unsettled' = Unsettled
    BY <1>0, Facts DEF BasicInv, GhostsOK, Lists, Versions, Unsettled
  <2> QED  BY <1>0, <1>1, <2>1 DEF BasicInv, GhostsOK
<1>9. ASSUME CalmOK PROVE CalmOK'
  <2>1. AloneOK'
    BY <1>0, NoCallIs, Facts DEF AloneOK, Writes
  <2>2. DiskOK'
    <3>1. Unsettled' = Unsettled
      BY DEF Unsettled
    <3> QED  BY <1>0, <1>1, <1>9, <3>1 DEF CalmOK, DiskOK
  <2>3. \A t \in Tasks : DoneOK(t, pc[t], job[t])'
    BY <1>0 DEF DoneOK
  <2> QED  BY <2>1, <2>2, <2>3 DEF CalmOK
<1> QED  BY <1>5, <1>6, <1>7, <1>8, <1>9 DEF BasicInv

-----------------------------------------------------------------------------
LEMMA InitKeeps ==
  ASSUME Init
  PROVE  MarkdownInv
<1>1. Early = {} /\ IsFiniteSet({}) /\ Cardinality({}) = 0
  BY FS_EmptySet, Facts DEF Init, Early
<1>2. CallsOK
  BY NoCallIs, Facts DEF Init, CallsOK, PlaceOK, PhasesOf, Labels
<1>3. VersionsOK
  BY <1>1, NoCallIs, EmptyIs, Facts DEF Init, VersionsOK
<1>4. FreshOK
  <2>1. Known = {}
    BY NoCallIs, EmptyIs DEF Init, Known
  <2> QED  BY <1>1, <2>1, Facts DEF Init, FreshOK
<1>5. GhostsOK
  <2>1. Empty \in Lists(Versions)
    BY ListsAre, EmptyIs
  <2>2. settled \in Lists(Versions) \cup {Unsettled}
    BY <2>1 DEF Init
  <2>3. promised \in [Readers -> SUBSET Ids] /\ safe \subseteq Ids
    BY DEF Init
  <2>4. faults \in 0..MaxFaults
    <3>1. faults = 0
      BY DEF Init
    <3> QED  BY <3>1, Facts
  <2>5. raced \in BOOLEAN
    BY DEF Init
  <2> QED  BY <2>2, <2>3, <2>4, <2>5 DEF GhostsOK
<1>6. CalmOK
  BY NoCallIs, EmptyIs, Facts DEF Init, CalmOK, AloneOK, DiskOK, DoneOK, Writes
<1> QED  BY <1>2, <1>3, <1>4, <1>5, <1>6 DEF MarkdownInv, BasicInv

LEMMA FilesSame ==
  ASSUME NEW x, FileStep(x) \/ FileError(x) \/ (x = Orphan /\ OrphanEnds)
  PROVE  raced' = raced
BY DEF FileStep, FileError, OrphanEnds, Same, ListKeys, ListFiles, Look, ReadText, WriteEntry,
       Fill, Replace, Sweep, Drop, Unlink

LEMMA NextKeeps ==
  ASSUME MarkdownInv, [Next]_vars
  PROVE  MarkdownInv'
<1>0. BasicInv /\ (~raced => CalmOK)
  BY DEF MarkdownInv
<1>1. SUFFICES ASSUME Next PROVE BasicInv' /\ (raced => raced') /\ (~raced' /\ CalmOK => CalmOK')
  <2>1. CASE UNCHANGED vars
    <3>1. CallsOK'
      BY <1>0, <2>1 DEF vars, BasicInv, CallsOK, PlaceOK
    <3>2. VersionsOK'
      BY <1>0, <2>1 DEF vars, BasicInv, VersionsOK, Early, Newest
    <3>3. FreshOK'
      BY <1>0, <2>1 DEF vars, BasicInv, FreshOK, Early, Known
    <3>4. GhostsOK'
      BY <1>0, <2>1 DEF vars, BasicInv, GhostsOK
    <3>5. ASSUME CalmOK PROVE CalmOK'
      <4>1. AloneOK' /\ DiskOK'
        BY <2>1, <3>5 DEF vars, CalmOK, AloneOK, DiskOK, Storing
      <4>2. \A t \in Tasks : DoneOK(t, pc[t], job[t])'
        BY <2>1, <3>5 DEF vars, CalmOK, DoneOK, LoadOK, StoreOK, Written, ReadOK, ListingOK
      <4> QED  BY <4>1, <4>2 DEF CalmOK
    <3> QED  BY <1>0, <2>1, <3>1, <3>2, <3>3, <3>4, <3>5 DEF vars, MarkdownInv, BasicInv
  <2>2. ASSUME BasicInv', raced => raced', ~raced' /\ CalmOK => CalmOK' PROVE MarkdownInv'
    BY <1>0, <2>2 DEF MarkdownInv
  <2> QED  BY <2>1, <2>2
<1>2. Tasks \subseteq Threads /\ Writers \cup Readers \cup Clearers = Tasks /\ Cancellable \subseteq Tasks
  BY Facts
<1>3. ASSUME NEW x \in Threads, FileStep(x) \/ FileError(x) \/ (x = Orphan /\ OrphanEnds)
      PROVE  BasicInv' /\ (raced => raced') /\ (~raced' /\ CalmOK => CalmOK')
  <2>1. Keeps
    BY <1>0, <1>3, FileStepKeeps, FileErrorKeeps, OrphanEndsKeeps
  <2> QED  BY <1>3, <2>1, FilesSame DEF Keeps
<1>4. ASSUME NEW t \in Tasks, TaskStep(t)
      PROVE  BasicInv' /\ (raced => raced') /\ (~raced' /\ CalmOK => CalmOK')
  <2>1. CASE FileStep(t)
    BY <1>2, <1>3, <2>1
  <2>2. CASE Raise(t)
    BY <1>0, <2>2, RaiseKeeps DEF Raise
  <2>3. CASE t \in Writers /\ Acquire(t)
    BY <1>0, <2>3, AcquireKeeps DEF Acquire
  <2>4. CASE t \in Writers /\ Append(t)
    BY <1>0, <2>4, AppendKeeps DEF Append, Store
  <2>5. CASE t \in Writers /\ Change(t)
    BY <1>0, <2>5, ChangeKeeps DEF Change, Store
  <2>6. CASE t \in Writers /\ NothingToChange(t)
    BY <1>0, <2>6, NothingToChangeKeeps DEF NothingToChange
  <2>7. CASE t \in Readers /\ EndRead(t)
    BY <1>0, <2>7, EndReadKeeps DEF EndRead
  <2>8. CASE t \in Clearers /\ DeleteKeys(t)
    BY <1>0, <2>8, DeleteKeysKeeps DEF DeleteKeys
  <2>9. CASE t \in Writers \cup Clearers /\ Return(t)
    BY <1>0, <2>9, ReturnKeeps DEF Return
  <2> QED  BY <1>4, <2>1, <2>2, <2>3, <2>4, <2>5, <2>6, <2>7, <2>8, <2>9 DEF TaskStep, WriterStep
<1>5. ASSUME NEW t \in Writers, BeginWrite(t)
      PROVE  BasicInv' /\ (raced => raced') /\ (~raced' /\ CalmOK => CalmOK')
  BY <1>0, <1>5, BeginWriteKeeps DEF BeginWrite
<1>6. ASSUME NEW r \in Readers, BeginRead(r)
      PROVE  BasicInv' /\ (raced => raced') /\ (~raced' /\ CalmOK => CalmOK')
  BY <1>0, <1>6, BeginReadKeeps DEF BeginRead
<1>7. ASSUME NEW c \in Clearers, BeginClear(c)
      PROVE  BasicInv' /\ (raced => raced') /\ (~raced' /\ CalmOK => CalmOK')
  BY <1>0, <1>7, BeginClearKeeps DEF BeginClear
<1>8. ASSUME NEW t \in Cancellable, Cancel(t)
      PROVE  BasicInv' /\ (raced => raced') /\ (~raced' /\ CalmOK => CalmOK')
  BY <1>0, <1>2, <1>8, CancelKeeps DEF Cancel
<1>9. CASE Restart
  BY <1>0, <1>9, RestartKeeps DEF Restart
<1>10. Orphan \in Threads
  BY Facts
<1> QED  BY <1>1, <1>3, <1>4, <1>5, <1>6, <1>7, <1>8, <1>9, <1>10 DEF Next

(* What a user sees. *)
LEMMA InvIsTrue ==
  ASSUME MarkdownInv
  PROVE  DiskIsTrue
<1>0. BasicInv /\ (~raced => CalmOK)
  BY DEF MarkdownInv
<1>1. TypeOK
  <2>1. /\ Newest \in Nat /\ Newest <= MaxCalls + 1 /\ IsList(disk, 0..Newest) /\ IsList(tmp, 0..Newest)
        /\ \A x \in Threads : CallOK(job[x]) /\ IsList(job[x].list, 1..Newest)
    BY <1>0, AllLists
  <2>2. 0..Newest \subseteq {Torn} \cup Versions /\ 1..Newest \subseteq Versions
    BY <2>1, Facts
  <2>3. disk \in Lists({Torn} \cup Versions) /\ tmp \in Lists({Torn} \cup Versions)
    BY <2>1, <2>2, WiderList, ListsAre
  <2>4. \A x \in Threads : job[x].list \in Lists(Versions) /\ job[x].todo \subseteq Ids
    BY <2>1, <2>2, WiderList, ListsAre DEF CallOK, IsCall
  <2>5. \A t \in Tasks : pc[t] \in {"idle", "waiting"} <=> job[t] = NoCall
    <3> SUFFICES ASSUME NEW t \in Tasks PROVE pc[t] \in {"idle", "waiting"} <=> job[t] = NoCall
      OBVIOUS
    <3>1. PlaceOK(t, pc[t], job[t]) /\ pc[t] \in Labels /\ (job[t].phase = "none" => job[t] = NoCall)
      BY <1>0, Inside, Facts
    <3> QED  BY <3>1, NoCallIs DEF PlaceOK, PhasesOf, Labels, Writes
  <2> QED  BY <1>0, <2>3, <2>4, <2>5 DEF TypeOK, BasicInv, CallsOK, Labels, VersionsOK, FreshOK, GhostsOK
<1>2. AckedSurvive
  BY <1>0 DEF AckedSurvive, CalmOK, DiskOK
<1>3. DirectoryIsHistory
  BY <1>0 DEF DirectoryIsHistory, CalmOK, DiskOK, Storing
<1>4. ReadsAreComplete
  BY <1>0, Facts DEF ReadsAreComplete, CalmOK, DoneOK, ReadOK
<1> QED  BY <1>1, <1>2, <1>3, <1>4 DEF DiskIsTrue

Forward == ~raced' => \A i \in DOMAIN disk \cap DOMAIN disk' : disk[i] <= disk'[i]

(* Only a fill, a replacement and a removal touch the directory, and only  *)
(* the task in the lock, or the clearer, makes them.                       *)
LEMMA NextIsForward ==
  ASSUME MarkdownInv, [Next]_vars
  PROVE  [Forward]_disk
<1> SUFFICES ASSUME disk' # disk, ~raced' PROVE \A i \in DOMAIN disk \cap DOMAIN disk' : disk[i] <= disk'[i]
  BY DEF Forward
<1>1. PICK x \in Threads : Fill(x) \/ Replace(x) \/ Unlink(x)
  <2>1. Next
    BY DEF vars
  <2>2. \E x \in Threads : FileStep(x)
    BY <2>1, Facts DEF Next, BeginWrite, BeginRead, BeginClear, TaskStep, Raise, WriterStep, Acquire, Append,
       Change, Store, NothingToChange, EndRead, DeleteKeys, Return, Cancel, OrphanEnds, FileError, Restart
  <2> QED  BY <2>2 DEF FileStep, ListKeys, ListFiles, Look, ReadText, WriteEntry, Sweep, Drop
<1>2. raced' = raced /\ BasicInv /\ CalmOK
  BY <1>1 DEF Fill, Replace, Unlink, Same, MarkdownInv
<1>3. job[x].phase \in {"fill", "replace", "unlink"}
  BY <1>1 DEF Fill, Replace, Unlink
<1>4. x \in Tasks /\ StoreOK(job[x]) /\ CallOK(job[x])
  <2>1. x \in Tasks /\ Storing(x)
    BY <1>2, <1>3, AloneFacts DEF CalmOK, Writes
  <2> QED  BY <1>2, <2>1, AllLists DEF CalmOK, DoneOK, Storing
<1>5. PICK i : i = job[x].at
  OBVIOUS
<1>6. \A k \in DOMAIN disk : disk[k] \in 0..Newest
  BY <1>2, AllLists DEF IsList
<1>7. CASE Fill(x)
  BY <1>3, <1>4, <1>7 DEF Fill, StoreOK
<1>8. CASE Replace(x)
  <2>1. /\ job[x].phase = "replace" /\ disk' = With(disk, i, tmp[i])
    BY <1>5, <1>8 DEF Replace
  <2>2. tmp[i] = job[x].list[i] /\ i \in DOMAIN job[x].list
    BY <1>4, <1>5, <2>1 DEF StoreOK, CallOK
  <2>3. i \in DOMAIN disk => disk[i] <= tmp[i]
    BY <1>4, <2>1, <2>2 DEF StoreOK, Writes
  <2> QED  BY <1>6, <2>1, <2>3 DEF With
<1>9. CASE Unlink(x)
  BY <1>6, <1>9 DEF Unlink, Without, Restrict
<1> QED  BY <1>1, <1>7, <1>8, <1>9

-----------------------------------------------------------------------------
(* The invariant holds with any tasks, cancellations, errors and deaths.   *)
THEOREM MarkdownInvariant == Spec => []MarkdownInv
<1>1. Init => MarkdownInv
  BY InitKeeps
<1>2. MarkdownInv /\ [Next]_vars => MarkdownInv'
  BY NextKeeps
<1> QED  BY <1>1, <1>2, PTL DEF Spec

(* The directory is the history: an entry whose write has returned stays   *)
(* in its file, whole, through everything that breaks off later, nothing   *)
(* else is left when a write returns, and a read without the lock misses   *)
(* nothing (markdown_backend.py, _set_sync and _get_sync), unless a clear  *)
(* met a writer or a cancelled write ran on.                               *)
THEOREM DirectoryIsTrue == Spec => []DiskIsTrue
<1>1. MarkdownInv => DiskIsTrue
  BY InvIsTrue
<1> QED  BY <1>1, MarkdownInvariant, PTL

(* No step puts an earlier version of an entry into its file: what is      *)
(* moved into place is what the write in the lock was to write.            *)
THEOREM FilesNeverRollBack == Spec => NoRollback
<1>1. MarkdownInv /\ [Next]_vars => [Forward]_disk
  BY NextIsForward
<1>2. Spec => [][Forward]_disk
  BY <1>1, MarkdownInvariant, PTL DEF Spec
<1> QED  BY <1>2 DEF NoRollback, Forward
================================================================================
