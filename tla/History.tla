------------------------------ MODULE History ------------------------------
(***************************************************************************)
(* The pure part of autumn/core/memory/base.py: what an operation of a     *)
(* MemoryArea computes from the history it has read.  A history is a       *)
(* function from entry ids to entries.  The Python list order is kept in   *)
(* the entry's slot: appending takes the next slot, and a sort by          *)
(* timestamp makes the slot equal to the timestamp.  Entries with equal    *)
(* slots are ordered by id, because ids are handed out in creation order   *)
(* and list.sort is stable.                                                *)
(***************************************************************************)
EXTENDS Integers, FiniteSets, Functions

CONSTANTS
  Limit,          \* MemoryArea._history_limit
  KeepRecent,     \* consolidate(keep_recent=...)
  MinCandidates,  \* consolidate(min_candidates=...)
  HalfLife,       \* MemoryArea._decay_half_life, 0 for None
  Scopes,         \* profile scopes: opaque user or session ids
  NoScope         \* the scope of an entry that is not a profile

ASSUME LimitAssumption         == Limit \in Nat \ {0}
ASSUME KeepRecentAssumption    == KeepRecent \in Nat
ASSUME MinCandidatesAssumption == MinCandidates \in Nat \ {0}
ASSUME HalfLifeAssumption      == HalfLife \in Nat
ASSUME NoScopeAssumption       == NoScope \notin Scopes

PinThreshold == 3     \* _PIN_THRESHOLD = 1.5, in halves
Normal       == 2     \* the default importance 1.0, in halves
NoExpiry     == 0     \* expires_at = None

Kinds == {"turn", "summary", "profile"}

(* ... and what A4 derives from them. *)
AllKinds == Kinds \cup {"fact", "case"}

Entry == [ts: Nat, slot: Nat, imp: Nat, kind: AllKinds,
          scope: Scopes \cup {NoScope}, exp: Nat, uses: Nat]

IsHistory(h) ==
  /\ IsFiniteSet(DOMAIN h)
  /\ DOMAIN h \subseteq Nat
  /\ h \in [DOMAIN h -> Entry]

(* MemoryEntry.is_pinned and is_expired. *)
Pinned(e) == e.imp >= PinThreshold
Expired(e, now) == e.exp # NoExpiry /\ now >= e.exp

Pins(h) == {i \in DOMAIN h : Pinned(h[i])}
Profiles(h) == {i \in DOMAIN h : h[i].kind = "profile"}

----------------------------------------------------------------------------
(* Retention metrics.  Importance is scaled so that halving stays integral *)
(* for the ages a run can reach; utility is any increasing function of the *)
(* use count that is 0 for an unused entry, here the count itself.         *)
Unit == 8

EffectiveImportance(e, now) ==
  IF Pinned(e) \/ HalfLife = 0 \/ now <= e.ts
    THEN Unit * e.imp
    ELSE (Unit * e.imp) \div (2 ^ ((now - e.ts) \div HalfLife))

RetentionScore(e, now) == EffectiveImportance(e, now) * (1 + e.uses)

Score(e, now, fourd) ==
  IF fourd THEN RetentionScore(e, now) ELSE EffectiveImportance(e, now)

(* Entry j of h sorts before entry i under the descending key: higher key  *)
(* first, then the more recent timestamp, then the list order.             *)
Outranks(h, key, j, i) ==
  \/ key[j] > key[i]
  \/ key[j] = key[i] /\ h[j].ts > h[i].ts
  \/ key[j] = key[i] /\ h[j].ts = h[i].ts /\ h[j].slot < h[i].slot
  \/ key[j] = key[i] /\ h[j].ts = h[i].ts /\ h[j].slot = h[i].slot /\ j < i

(* The first k of the ids S in that order: sorted(S)[:k]. *)
Best(h, S, key, k) ==
  {i \in S : Cardinality({j \in S : Outranks(h, key, j, i)}) < k}

(* kept.sort(key=timestamp) *)
Chronological(h) == [i \in DOMAIN h |-> [h[i] EXCEPT !.slot = h[i].ts]]

(* Mutant: the newest entries are kept, pinned or not. *)
KeptNewest(h, now, fourd) ==
  Best(h, DOMAIN h, [i \in DOMAIN h |-> h[i].ts], Limit)

(* _evict: unchanged while within the limit; otherwise every pin is kept   *)
(* and the best normal entries fill the rest, unless the pins alone exceed *)
(* the limit, when only the most recent pins are kept.                     *)
Kept(h, now, fourd) ==
  LET pins   == Pins(h)
      normal == DOMAIN h \ pins
      byImportance == [i \in DOMAIN h |-> h[i].imp]
      byScore      == [i \in DOMAIN h |-> Score(h[i], now, fourd)]
  IN  IF Cardinality(pins) > Limit
        THEN Best(h, pins, byImportance, Limit)
        ELSE pins \cup Best(h, normal, byScore, Limit - Cardinality(pins))

Evict(h, now, fourd) ==
  IF Cardinality(DOMAIN h) <= Limit
    THEN h
    ELSE Chronological(Restrict(h, Kept(h, now, fourd)))

----------------------------------------------------------------------------
Purge(h, now) == Restrict(h, {i \in DOMAIN h : ~Expired(h[i], now)})

(* Mutant: off by one, the slot of the last entry is taken again. *)
LastSlot(h) ==
  CHOOSE n \in {-1} \cup {h[i].slot : i \in DOMAIN h} :
    \A i \in DOMAIN h : h[i].slot <= n

(* list.append: the entry goes to the end of the list. *)
EndSlot(h) ==
  CHOOSE n \in {0} \cup {h[i].slot + 1 : i \in DOMAIN h} :
    \A i \in DOMAIN h : h[i].slot < n

With(h, id, e) == [i \in DOMAIN h \cup {id} |-> IF i = id THEN e ELSE h[i]]

AppendEntry(h, id, e) == With(h, id, [e EXCEPT !.slot = EndSlot(h)])

(* Mutant: the eviction is forgotten. *)
AppendedWithoutEvicting(h, id, e, now, fourd) == AppendEntry(Purge(h, now), id, e)

(* append_history, between the get and the set. *)
Appended(h, id, e, now, fourd) ==
  Evict(AppendEntry(Purge(h, now), id, e), now, fourd)

(* _reweight: pin and unpin. *)
Reweighted(h, ids, imp) ==
  [i \in DOMAIN h |-> IF i \in ids THEN [h[i] EXCEPT !.imp = imp] ELSE h[i]]

(* reinforce: every named entry that still exists is touched. *)
Reinforced(h, ids) ==
  [i \in DOMAIN h |-> IF i \in ids THEN [h[i] EXCEPT !.uses = @ + 1] ELSE h[i]]

(* forget(tags=..., before=..., expired=...): pinned entries go too. *)
Forgettable(h, now, kinds, before, expired) ==
  {i \in DOMAIN h : \/ h[i].kind \in kinds
                    \/ h[i].ts < before
                    \/ expired /\ Expired(h[i], now)}

Without(h, ids) == Restrict(h, DOMAIN h \ ids)

----------------------------------------------------------------------------
(* consolidate: history[-keep_recent:], candidates and the new history. *)
ListedAfter(h, i) ==
  {j \in DOMAIN h : \/ h[j].slot > h[i].slot
                    \/ h[j].slot = h[i].slot /\ j > i}

Tail(h) == {i \in DOMAIN h : Cardinality(ListedAfter(h, i)) < KeepRecent}

(* Mutant: the protection of summaries and pins is dropped. *)
CandidatesOfAnyKind(h) == DOMAIN h \ Tail(h)

(* Mutant: keep_recent is ignored. *)
CandidatesAmongAll(h) == {i \in DOMAIN h : ~Pinned(h[i]) /\ h[i].kind # "summary"}

Candidates(h) ==
  {i \in DOMAIN h \ Tail(h) : ~Pinned(h[i]) /\ h[i].kind # "summary"}

LatestTs(h, ids) ==
  CHOOSE t \in {h[i].ts : i \in ids} : \A i \in ids : h[i].ts <= t

Summary(h) ==
  [ts |-> LatestTs(h, Candidates(h)), slot |-> 0, imp |-> PinThreshold,
   kind |-> "summary", scope |-> NoScope, exp |-> NoExpiry, uses |-> 0]

Consolidated(h, id) ==
  Chronological(With(Without(h, Candidates(h)), id, Summary(h)))

(* set_profile: the scope's previous profile is replaced by a pinned entry *)
(* at the end of the list; nothing is evicted.                             *)
ScopeProfiles(h, s) == {i \in DOMAIN h : h[i].kind = "profile" /\ h[i].scope = s}

ProfileEntry(s, now) ==
  [ts |-> now, slot |-> 0, imp |-> PinThreshold, kind |-> "profile",
   scope |-> s, exp |-> NoExpiry, uses |-> 0]

(* Mutant: the old profile is left in place. *)
ProfileAdded(h, id, s, now) == AppendEntry(h, id, ProfileEntry(s, now))

ProfileSet(h, id, s, now) ==
  AppendEntry(Without(h, ScopeProfiles(h, s)), id, ProfileEntry(s, now))
=============================================================================
