--------------------------- MODULE Memory_proofs ----------------------------
(***************************************************************************)
(* What holds of a MemoryArea for every set of tasks, limit and mix of     *)
(* calls, and of the passes that derive memory from its history            *)
(* (MemoryPasses) for every number of conversations.                       *)
(***************************************************************************)
EXTENDS MemoryArea, MemoryPasses, FiniteSetTheorems, TLAPS

(***************************************************************************)
(* Facts about the operators of History that hold for every history: what  *)
(* an eviction keeps, and that every operation returns a history.          *)
(***************************************************************************)
(* A nonempty finite set of naturals has a largest element. *)
LEMMA FiniteMax ==
  ASSUME NEW S \in SUBSET Nat, IsFiniteSet(S), S # {}
  PROVE  \E m \in S : \A x \in S : x <= m
<1> DEFINE HasMax(A) == \E m \in A : \A x \in A : x <= m
           Bad == {A \in SUBSET S : A # {} /\ ~HasMax(A)}
           R == StrictSubsetOrdering(S)
<1>1. SUFFICES ASSUME Bad # {} PROVE FALSE
  <2>1. Bad = {} => S \notin Bad
    OBVIOUS
  <2> QED BY <1>1, <2>1
<1>2. IsWellFoundedOn(R, SUBSET S)
  BY FS_StrictSubsetOrderingWellFounded, FS_FiniteSubsetsOfFinite
<1>3. PICK A \in Bad : \A B \in Bad : ~ (<<B, A>> \in R)
  <2>1. Bad \subseteq SUBSET S
    OBVIOUS
  <2> HIDE DEF Bad, R
  <2> QED BY <1>1, <1>2, <2>1, WFMin
<1>4. PICK x \in A : TRUE
  OBVIOUS
<1> DEFINE B == A \ {x}
<1>5. <<B, A>> \in R
  BY <1>3, <1>4 DEF StrictSubsetOrdering
<1>6. B = {} \/ HasMax(B)
  BY <1>3, <1>5
<1>7. CASE B = {}
  <2>1. \A y \in A : y <= x
    BY <1>3, <1>4, <1>7
  <2> QED BY <1>3, <1>4, <2>1
<1>8. CASE HasMax(B)
  <2>1. PICK m \in B : \A y \in B : y <= m
    BY <1>8
  <2>2. \A y \in A : y <= IF x <= m THEN m ELSE x
    BY <1>3, <1>4, <2>1
  <2>3. (IF x <= m THEN m ELSE x) \in A
    BY <1>4, <2>1
  <2> QED BY <1>3, <2>2, <2>3
<1> QED BY <1>6, <1>7, <1>8

(* A power of two is a positive natural. *)
LEMMA PowerOfTwo == ASSUME NEW n \in Nat PROVE 2 ^ n \in Nat \ {0}
<1>1. IsFiniteSet(1..n) /\ Cardinality(1..n) = n
  BY FS_Interval
<1>2. IsFiniteSet(SUBSET (1..n)) /\ Cardinality(SUBSET (1..n)) = 2 ^ n
  BY <1>1, FS_SUBSET
<1>3. 2 ^ n \in Nat
  BY <1>2, FS_CardinalityType
<1>4. Cardinality(SUBSET (1..n)) # 0
  BY <1>2, FS_EmptySet
<1> QED BY <1>2, <1>3, <1>4

LEMMA DivNat == ASSUME NEW a \in Nat, NEW b \in Nat \ {0} PROVE a \div b \in Nat
  OBVIOUS

(* Scores are naturals, so sorting by them is a total order. *)
LEMMA ScoreType ==
  ASSUME NEW e \in Entry, NEW now \in Nat, NEW fourD \in BOOLEAN
  PROVE  Score(e, now, fourD) \in Nat
<1>1. e.imp \in Nat /\ e.ts \in Nat /\ e.uses \in Nat /\ Unit * e.imp \in Nat
  BY DEF Entry, Unit
<1>2. EffectiveImportance(e, now) \in Nat
  <2>1. CASE Pinned(e) \/ HalfLife = 0 \/ now <= e.ts
    BY <1>1, <2>1 DEF EffectiveImportance
  <2>2. CASE ~(Pinned(e) \/ HalfLife = 0 \/ now <= e.ts)
    <3>1. now - e.ts \in Nat /\ HalfLife \in Nat \ {0}
      BY <1>1, <2>2, HalfLifeAssumption
    <3>2. (now - e.ts) \div HalfLife \in Nat
      BY <3>1, DivNat
    <3>3. 2 ^ ((now - e.ts) \div HalfLife) \in Nat \ {0}
      BY <3>2, PowerOfTwo
    <3>4. (Unit * e.imp) \div (2 ^ ((now - e.ts) \div HalfLife)) \in Nat
      BY <1>1, <3>3, DivNat
    <3> QED BY <2>2, <3>4 DEF EffectiveImportance
  <2> QED BY <2>1, <2>2
<1>3. EffectiveImportance(e, now) * (1 + e.uses) \in Nat
  BY <1>1, <1>2
<1> QED BY <1>2, <1>3 DEF Score, RetentionScore

(* The empty end slot: a natural beyond every slot in use. *)
LEMMA EndSlotType ==
  ASSUME NEW h, IsHistory(h)
  PROVE  EndSlot(h) \in Nat /\ \A i \in DOMAIN h : h[i].slot < EndSlot(h)
<1> DEFINE N == {0} \cup {h[i].slot + 1 : i \in DOMAIN h}
<1>1. \A i \in DOMAIN h : h[i].slot \in Nat
  BY DEF IsHistory, Entry
<1>2. N \in SUBSET Nat /\ N # {}
  BY <1>1
<1>3. IsFiniteSet(N)
  <2> DEFINE M == {h[i].slot + 1 : i \in DOMAIN h}
             f == [i \in DOMAIN h |-> h[i].slot + 1]
  <2>1. f \in Surjection(DOMAIN h, M)
    BY DEF Surjection
  <2>2. IsFiniteSet(M)
    <3> HIDE DEF f, M
    <3> QED BY <2>1, FS_Surjection DEF IsHistory
  <2>3. N = M \cup {0}
    OBVIOUS
  <2> HIDE DEF M, N
  <2> QED BY <2>2, <2>3, FS_AddElement
<1>4. PICK m \in N : \A x \in N : x <= m
  <2> HIDE DEF N
  <2> QED BY <1>2, <1>3, FiniteMax
<1>5. \A i \in DOMAIN h : h[i].slot < m
  <2> TAKE i \in DOMAIN h
  <2>1. h[i].slot + 1 <= m
    BY <1>4
  <2> QED BY <1>1, <1>2, <2>1
<1>6. EndSlot(h) \in N /\ \A i \in DOMAIN h : h[i].slot < EndSlot(h)
  BY <1>4, <1>5 DEF EndSlot
<1> QED BY <1>2, <1>6

(* Outranks is a strict total order on the ids of a history, for any key. *)
LEMMA OutranksOrder ==
  ASSUME NEW h, IsHistory(h), NEW key \in [DOMAIN h -> Nat],
         NEW i \in DOMAIN h, NEW j \in DOMAIN h, NEW k \in DOMAIN h
  PROVE  /\ ~Outranks(h, key, i, i)
         /\ Outranks(h, key, i, j) /\ Outranks(h, key, j, k) => Outranks(h, key, i, k)
         /\ i # j => Outranks(h, key, i, j) \/ Outranks(h, key, j, i)
<1>1. /\ h[i].ts \in Nat /\ h[j].ts \in Nat /\ h[k].ts \in Nat
      /\ h[i].slot \in Nat /\ h[j].slot \in Nat /\ h[k].slot \in Nat
      /\ key[i] \in Nat /\ key[j] \in Nat /\ key[k] \in Nat
      /\ i \in Nat /\ j \in Nat /\ k \in Nat
  BY DEF IsHistory, Entry
<1> QED BY <1>1 DEF Outranks

(* The best k ids of a set are members of it, and at most k.               *)
LEMMA BestSize ==
  ASSUME NEW h, IsHistory(h), NEW key \in [DOMAIN h -> Nat],
         NEW S \in SUBSET DOMAIN h, NEW k \in Nat
  PROVE  /\ Best(h, S, key, k) \subseteq S
         /\ IsFiniteSet(Best(h, S, key, k))
         /\ Cardinality(Best(h, S, key, k)) <= k
<1> DEFINE Ahead(i) == {j \in S : Outranks(h, key, j, i)}
           B == Best(h, S, key, k)
           rank == [i \in B |-> Cardinality(Ahead(i))]
<1>1. IsFiniteSet(S)
  BY FS_Subset DEF IsHistory
<1>2. \A i \in S : IsFiniteSet(Ahead(i)) /\ Cardinality(Ahead(i)) \in Nat
  <2> TAKE i \in S
  <2>1. Ahead(i) \in SUBSET S
    OBVIOUS
  <2>2. IsFiniteSet(Ahead(i))
    <3> HIDE DEF Ahead
    <3> QED BY <1>1, <2>1, FS_Subset
  <2> QED BY <2>2, FS_CardinalityType
<1>3. B \subseteq S
  BY DEF Best
<1>4. \A i, j \in S : Outranks(h, key, i, j) => Cardinality(Ahead(i)) < Cardinality(Ahead(j))
  <2> SUFFICES ASSUME NEW i \in S, NEW j \in S, Outranks(h, key, i, j)
               PROVE  Cardinality(Ahead(i)) < Cardinality(Ahead(j))
    OBVIOUS
  <2>1. Ahead(i) \cup {i} \subseteq Ahead(j)
    BY OutranksOrder
  <2>2. i \notin Ahead(i)
    BY OutranksOrder
  <2> HIDE DEF Ahead
  <2>3. Cardinality(Ahead(i) \cup {i}) = Cardinality(Ahead(i)) + 1
    BY <1>2, <2>2, FS_AddElement
  <2>4. Cardinality(Ahead(i) \cup {i}) <= Cardinality(Ahead(j))
    BY <1>2, <2>1, FS_Subset
  <2> QED BY <1>2, <2>3, <2>4
<1>5. rank \in [B -> 0..(k - 1)]
  <2> SUFFICES ASSUME NEW i \in B PROVE Cardinality(Ahead(i)) \in 0..(k - 1)
    OBVIOUS
  <2>1. Cardinality(Ahead(i)) < k
    BY DEF Best
  <2> HIDE DEF Ahead, B
  <2> QED BY <1>2, <1>3, <2>1
<1>6. \A i, j \in B : rank[i] = rank[j] => i = j
  <2> SUFFICES ASSUME NEW i \in B, NEW j \in B, rank[i] = rank[j], i # j
               PROVE  FALSE
    OBVIOUS
  <2>1. Outranks(h, key, i, j) \/ Outranks(h, key, j, i)
    BY <1>3, OutranksOrder
  <2>2. Cardinality(Ahead(i)) \in Nat /\ Cardinality(Ahead(j)) \in Nat
    BY <1>2, <1>3
  <2> HIDE DEF Ahead, B
  <2> QED BY <1>3, <1>4, <2>1, <2>2
<1>7. rank \in Injection(B, 0..(k - 1))
  <2> HIDE DEF B, rank
  <2>1. DOMAIN rank = B
    BY <1>5
  <2> QED BY <1>5, <1>6, <2>1 DEF Injection, IsInjective
<1>8. IsFiniteSet(0..(k - 1)) /\ Cardinality(0..(k - 1)) = k
  BY FS_Interval
<1>9. IsFiniteSet(B) /\ Cardinality(B) <= k
  <2> HIDE DEF B, rank
  <2> QED BY <1>7, <1>8, FS_Injection
<1> QED BY <1>3, <1>9

----------------------------------------------------------------------------
(* The ids that survive an eviction: at most Limit of them, and every pin  *)
(* as long as the pins alone do not exceed the limit.                      *)
LEMMA KeptSize ==
  ASSUME NEW h, IsHistory(h), NEW now \in Nat, NEW fourD \in BOOLEAN
  PROVE  /\ Kept(h, now, fourD) \subseteq DOMAIN h
         /\ IsFiniteSet(Kept(h, now, fourD))
         /\ Cardinality(Kept(h, now, fourD)) <= Limit
         /\ Cardinality(Pins(h)) <= Limit => Pins(h) \subseteq Kept(h, now, fourD)
<1> DEFINE pins == Pins(h)
           normal == DOMAIN h \ pins
           byImportance == [i \in DOMAIN h |-> h[i].imp]
           byScore == [i \in DOMAIN h |-> Score(h[i], now, fourD)]
<1>1. /\ pins \in SUBSET DOMAIN h /\ normal \in SUBSET DOMAIN h
      /\ pins \cap normal = {}
  BY DEF Pins
<1>2. IsFiniteSet(pins) /\ Cardinality(pins) \in Nat
  <2>1. IsFiniteSet(pins)
    BY <1>1, FS_Subset DEF IsHistory
  <2> QED BY <2>1, FS_CardinalityType
<1>3. byImportance \in [DOMAIN h -> Nat]
  BY DEF IsHistory, Entry
<1>4. byScore \in [DOMAIN h -> Nat]
  BY ScoreType DEF IsHistory
<1> HIDE DEF pins, normal, byImportance, byScore
<1>5. CASE Cardinality(pins) > Limit
  <2>1. Kept(h, now, fourD) = Best(h, pins, byImportance, Limit)
    BY <1>5 DEF Kept, pins, byImportance
  <2>2. Limit \in Nat
    BY LimitAssumption
  <2>3. /\ Best(h, pins, byImportance, Limit) \subseteq pins
        /\ IsFiniteSet(Best(h, pins, byImportance, Limit))
        /\ Cardinality(Best(h, pins, byImportance, Limit)) <= Limit
    BY <1>1, <1>3, <2>2, BestSize
  <2>4. ~(Cardinality(Pins(h)) <= Limit)
    BY <1>2, <1>5, <2>2 DEF pins
  <2> QED BY <1>1, <2>1, <2>3, <2>4
<1>6. CASE ~(Cardinality(pins) > Limit)
  <2> DEFINE rest == Best(h, normal, byScore, Limit - Cardinality(pins))
  <2>1. Kept(h, now, fourD) = pins \cup rest
    BY <1>6 DEF Kept, pins, normal, byScore
  <2>2. Limit - Cardinality(pins) \in Nat
    BY <1>2, <1>6, LimitAssumption
  <2>3. /\ rest \subseteq normal
        /\ IsFiniteSet(rest)
        /\ Cardinality(rest) <= Limit - Cardinality(pins)
    BY <1>1, <1>4, <2>2, BestSize
  <2> HIDE DEF rest
  <2>4. /\ IsFiniteSet(pins \cup rest)
        /\ Cardinality(pins \cup rest)
             = Cardinality(pins) + Cardinality(rest) - Cardinality(pins \cap rest)
    BY <1>2, <2>3, FS_Union
  <2>5. pins \cap rest = {}
    BY <1>1, <2>3
  <2>6. Cardinality(pins \cap rest) = 0
    BY <2>5, FS_EmptySet
  <2>7. Cardinality(rest) \in Nat
    BY <2>3, FS_CardinalityType
  <2>8. Cardinality(pins \cup rest) <= Limit
    BY <1>2, <2>3, <2>4, <2>6, <2>7, LimitAssumption
  <2> QED BY <1>1, <2>1, <2>3, <2>4, <2>8 DEF pins
<1> QED BY <1>5, <1>6

(* Restricting or re-sorting a history leaves a history. *)
LEMMA RestrictHistory ==
  ASSUME NEW h, IsHistory(h), NEW S \in SUBSET DOMAIN h
  PROVE  /\ IsHistory(Restrict(h, S))
         /\ DOMAIN Restrict(h, S) = S
         /\ \A i \in S : Restrict(h, S)[i] = h[i]
<1>1. IsFiniteSet(S)
  BY FS_Subset DEF IsHistory
<1> QED BY <1>1 DEF IsHistory, Restrict

LEMMA ChronologicalHistory ==
  ASSUME NEW h, IsHistory(h)
  PROVE  IsHistory(Chronological(h)) /\ DOMAIN Chronological(h) = DOMAIN h
<1>1. \A i \in DOMAIN h : [h[i] EXCEPT !.slot = h[i].ts] \in Entry
  BY DEF IsHistory, Entry
<1> QED BY <1>1 DEF IsHistory, Chronological

(* _evict leaves a history of at most Limit entries with no new ids, and   *)
(* loses no pin unless there are more pins than the limit.                 *)
LEMMA EvictHistory ==
  ASSUME NEW h, IsHistory(h), NEW now \in Nat, NEW fourD \in BOOLEAN
  PROVE  /\ IsHistory(Evict(h, now, fourD))
         /\ DOMAIN Evict(h, now, fourD) \subseteq DOMAIN h
         /\ Cardinality(DOMAIN Evict(h, now, fourD)) <= Limit
         /\ Cardinality(Pins(h)) <= Limit => Pins(h) \subseteq DOMAIN Evict(h, now, fourD)
<1> DEFINE K == Kept(h, now, fourD)
           r == Restrict(h, K)
<1>1. /\ K \in SUBSET DOMAIN h
      /\ Cardinality(K) <= Limit
      /\ Cardinality(Pins(h)) <= Limit => Pins(h) \subseteq K
  BY KeptSize
<1> HIDE DEF K
<1>2. IsHistory(r) /\ DOMAIN r = K
  BY <1>1, RestrictHistory
<1> HIDE DEF r
<1>3. IsHistory(Chronological(r)) /\ DOMAIN Chronological(r) = K
  BY <1>2, ChronologicalHistory
<1>4. CASE Cardinality(DOMAIN h) <= Limit
  <2>1. Evict(h, now, fourD) = h
    BY <1>4 DEF Evict
  <2> QED BY <1>4, <2>1 DEF Pins
<1>5. CASE ~(Cardinality(DOMAIN h) <= Limit)
  <2>1. Evict(h, now, fourD) = Chronological(r)
    BY <1>5 DEF Evict, K, r
  <2> QED BY <1>1, <1>3, <2>1
<1> QED BY <1>4, <1>5

(* Adding or replacing one entry leaves a history. *)
LEMMA WithHistory ==
  ASSUME NEW h, IsHistory(h), NEW id \in Nat, NEW e \in Entry
  PROVE  IsHistory(With(h, id, e)) /\ DOMAIN With(h, id, e) = DOMAIN h \cup {id}
<1>1. IsFiniteSet(DOMAIN h \cup {id})
  BY FS_AddElement DEF IsHistory
<1> QED BY <1>1 DEF IsHistory, With

LEMMA AppendEntryHistory ==
  ASSUME NEW h, IsHistory(h), NEW id \in Nat, NEW e \in Entry
  PROVE  /\ IsHistory(AppendEntry(h, id, e))
         /\ DOMAIN AppendEntry(h, id, e) = DOMAIN h \cup {id}
<1>1. [e EXCEPT !.slot = EndSlot(h)] \in Entry
  BY EndSlotType DEF Entry
<1> QED BY <1>1, WithHistory DEF AppendEntry

LEMMA PurgeHistory ==
  ASSUME NEW h, IsHistory(h), NEW now \in Nat
  PROVE  IsHistory(Purge(h, now)) /\ DOMAIN Purge(h, now) \subseteq DOMAIN h
<1>1. {i \in DOMAIN h : ~Expired(h[i], now)} \in SUBSET DOMAIN h
  OBVIOUS
<1> QED BY <1>1, RestrictHistory DEF Purge

(* append_history stores a history of at most Limit entries.               *)
LEMMA AppendedHistory ==
  ASSUME NEW h, IsHistory(h), NEW id \in Nat, NEW e \in Entry,
         NEW now \in Nat, NEW fourD \in BOOLEAN
  PROVE  /\ IsHistory(Appended(h, id, e, now, fourD))
         /\ DOMAIN Appended(h, id, e, now, fourD) \subseteq DOMAIN h \cup {id}
         /\ Cardinality(DOMAIN Appended(h, id, e, now, fourD)) <= Limit
<1> DEFINE p == Purge(h, now)
           a == AppendEntry(p, id, e)
<1>1. IsHistory(p) /\ DOMAIN p \subseteq DOMAIN h
  BY PurgeHistory
<1> HIDE DEF p
<1>2. IsHistory(a) /\ DOMAIN a = DOMAIN p \cup {id}
  BY <1>1, AppendEntryHistory
<1> HIDE DEF a
<1>3. /\ IsHistory(Evict(a, now, fourD))
      /\ DOMAIN Evict(a, now, fourD) \subseteq DOMAIN a
      /\ Cardinality(DOMAIN Evict(a, now, fourD)) <= Limit
  BY <1>2, EvictHistory
<1> QED BY <1>1, <1>2, <1>3 DEF Appended, p, a

----------------------------------------------------------------------------
(* An entry of g is an entry of h, but for its place in the list.          *)
Same(a, b) ==
  /\ a.ts = b.ts /\ a.imp = b.imp /\ a.kind = b.kind
  /\ a.scope = b.scope /\ a.exp = b.exp /\ a.uses = b.uses

Within(g, h) ==
  /\ DOMAIN g \subseteq DOMAIN h
  /\ \A i \in DOMAIN g : Same(g[i], h[i])

LEMMA EvictWithin ==
  ASSUME NEW h, IsHistory(h), NEW now \in Nat, NEW fourD \in BOOLEAN
  PROVE  Within(Evict(h, now, fourD), h)
<1> DEFINE K == Kept(h, now, fourD)
           r == Restrict(h, K)
<1>1. K \in SUBSET DOMAIN h
  BY KeptSize
<1> HIDE DEF K
<1>2. IsHistory(r) /\ DOMAIN r = K /\ \A i \in K : r[i] = h[i]
  BY <1>1, RestrictHistory
<1> HIDE DEF r
<1>3. /\ DOMAIN Chronological(r) = K
      /\ \A i \in K : Chronological(r)[i] = [r[i] EXCEPT !.slot = r[i].ts]
  BY <1>2 DEF Chronological
<1>4. \A i \in K : Same(Chronological(r)[i], h[i])
  <2> TAKE i \in K
  <2>1. r[i] \in Entry
    BY <1>2 DEF IsHistory
  <2> QED BY <1>2, <1>3, <2>1 DEF Same, Entry
<1>5. CASE Evict(h, now, fourD) = h
  BY <1>5 DEF Within, Same
<1>6. CASE Evict(h, now, fourD) = Chronological(r)
  BY <1>1, <1>3, <1>4, <1>6 DEF Within
<1> QED BY <1>5, <1>6 DEF Evict, r, K

(* append_history stores entries that were there, and the new one.         *)
LEMMA AppendedWithin ==
  ASSUME NEW h, IsHistory(h), NEW id \in Nat, NEW e \in Entry,
         NEW now \in Nat, NEW fourD \in BOOLEAN
  PROVE  Within(Appended(h, id, e, now, fourD), With(h, id, e))
<1> DEFINE p == Purge(h, now)
           a == AppendEntry(p, id, e)
           g == Evict(a, now, fourD)
<1>1. IsHistory(p) /\ DOMAIN p \subseteq DOMAIN h /\ \A i \in DOMAIN p : p[i] = h[i]
  <2>1. {i \in DOMAIN h : ~Expired(h[i], now)} \in SUBSET DOMAIN h
    OBVIOUS
  <2> QED BY <2>1, RestrictHistory DEF Purge
<1> HIDE DEF p
<1>2. IsHistory(a) /\ DOMAIN a = DOMAIN p \cup {id}
  BY <1>1, AppendEntryHistory
<1>3. \A i \in DOMAIN a : Same(a[i], With(h, id, e)[i])
  <2> TAKE i \in DOMAIN a
  <2>1. CASE i = id
    <3>1. a[i] = [e EXCEPT !.slot = EndSlot(p)] /\ With(h, id, e)[i] = e
      BY <1>2, <2>1 DEF AppendEntry, With
    <3> QED BY <3>1 DEF Same, Entry
  <2>2. CASE i # id
    <3>1. a[i] = p[i] /\ With(h, id, e)[i] = h[i]
      BY <1>1, <1>2, <2>2 DEF AppendEntry, With
    <3> QED BY <1>1, <1>2, <2>2, <3>1 DEF Same
  <2> QED BY <2>1, <2>2
<1> HIDE DEF a
<1>4. Within(g, a)
  BY <1>2, EvictWithin
<1> HIDE DEF g
<1>5. Within(g, With(h, id, e))
  <2>1. DOMAIN With(h, id, e) = DOMAIN h \cup {id}
    BY DEF With
  <2> QED BY <1>1, <1>2, <1>3, <1>4, <2>1 DEF Within, Same
<1> QED BY <1>5 DEF Appended, p, a, g

(* Changing weights or use counts keeps the entries.                       *)
LEMMA ReweightedHistory ==
  ASSUME NEW h, IsHistory(h), NEW ids, NEW imp \in Nat
  PROVE  /\ IsHistory(Reweighted(h, ids, imp))
         /\ DOMAIN Reweighted(h, ids, imp) = DOMAIN h
         /\ \A i \in DOMAIN h :
              LET e == Reweighted(h, ids, imp)[i]
              IN  /\ e.kind = h[i].kind /\ e.scope = h[i].scope
                  /\ e.uses = h[i].uses
                  /\ e.imp \in {h[i].imp, imp}
<1> DEFINE g == Reweighted(h, ids, imp)
<1>1. DOMAIN g = DOMAIN h
  BY DEF Reweighted
<1>2. \A i \in DOMAIN h :
        /\ g[i] \in Entry
        /\ g[i].kind = h[i].kind /\ g[i].scope = h[i].scope
        /\ g[i].uses = h[i].uses /\ g[i].imp \in {h[i].imp, imp}
  <2> TAKE i \in DOMAIN h
  <2>1. h[i] \in Entry
    BY DEF IsHistory
  <2>2. g[i] = IF i \in ids THEN [h[i] EXCEPT !.imp = imp] ELSE h[i]
    BY DEF Reweighted
  <2> HIDE DEF g
  <2> QED BY <2>1, <2>2 DEF Entry
<1>3. g \in [DOMAIN g -> Entry]
  BY <1>1, <1>2 DEF Reweighted
<1> QED BY <1>1, <1>2, <1>3 DEF IsHistory

LEMMA ReinforcedHistory ==
  ASSUME NEW h, IsHistory(h), NEW ids
  PROVE  /\ IsHistory(Reinforced(h, ids))
         /\ DOMAIN Reinforced(h, ids) = DOMAIN h
         /\ \A i \in DOMAIN h :
              LET e == Reinforced(h, ids)[i]
              IN  /\ e.kind = h[i].kind /\ e.scope = h[i].scope /\ e.ts = h[i].ts
                  /\ e.uses >= h[i].uses /\ e.imp = h[i].imp
<1> DEFINE g == Reinforced(h, ids)
<1>1. DOMAIN g = DOMAIN h
  BY DEF Reinforced
<1>2. \A i \in DOMAIN h :
        /\ g[i] \in Entry
        /\ g[i].kind = h[i].kind /\ g[i].scope = h[i].scope /\ g[i].ts = h[i].ts
        /\ g[i].uses >= h[i].uses /\ g[i].imp = h[i].imp
  <2> TAKE i \in DOMAIN h
  <2>1. h[i] \in Entry
    BY DEF IsHistory
  <2>2. g[i] = IF i \in ids THEN [h[i] EXCEPT !.uses = h[i].uses + 1] ELSE h[i]
    BY DEF Reinforced
  <2> HIDE DEF g
  <2> QED BY <2>1, <2>2 DEF Entry
<1>3. g \in [DOMAIN g -> Entry]
  BY <1>1, <1>2 DEF Reinforced
<1> QED BY <1>1, <1>2, <1>3 DEF IsHistory

LEMMA WithoutHistory ==
  ASSUME NEW h, IsHistory(h), NEW ids
  PROVE  /\ IsHistory(Without(h, ids))
         /\ DOMAIN Without(h, ids) = DOMAIN h \ ids
         /\ \A i \in DOMAIN h \ ids : Without(h, ids)[i] = h[i]
<1>1. DOMAIN h \ ids \in SUBSET DOMAIN h
  OBVIOUS
<1> QED BY <1>1, RestrictHistory DEF Without

(* The timestamp of a summary: the latest of the entries it replaces.      *)
LEMMA LatestTsType ==
  ASSUME NEW h, IsHistory(h), NEW ids \in SUBSET DOMAIN h, ids # {}
  PROVE  LatestTs(h, ids) \in Nat
<1> DEFINE T == {h[i].ts : i \in ids}
           f == [i \in ids |-> h[i].ts]
<1>1. T \in SUBSET Nat /\ T # {}
  BY DEF IsHistory, Entry
<1>2. IsFiniteSet(T)
  <2>1. f \in Surjection(ids, T)
    BY DEF Surjection
  <2>2. IsFiniteSet(ids)
    BY FS_Subset DEF IsHistory
  <2> HIDE DEF f, T
  <2> QED BY <2>1, <2>2, FS_Surjection
<1>3. PICK m \in T : \A x \in T : x <= m
  <2> HIDE DEF T
  <2> QED BY <1>1, <1>2, FiniteMax
<1>4. \A i \in ids : h[i].ts <= m
  BY <1>3
<1>5. LatestTs(h, ids) \in T
  BY <1>3, <1>4 DEF LatestTs
<1> QED BY <1>1, <1>5

(* consolidate stores the entries that were not candidates, and a pinned   *)
(* summary.                                                                *)
LEMMA ConsolidatedHistory ==
  ASSUME NEW h, IsHistory(h), NEW id \in Nat, Candidates(h) # {}
  PROVE  LET g == Consolidated(h, id)
         IN  /\ IsHistory(g)
             /\ DOMAIN g = (DOMAIN h \ Candidates(h)) \cup {id}
             /\ \A i \in DOMAIN g \ {id} : Same(g[i], h[i])
             /\ g[id].kind = "summary"
<1> DEFINE w == Without(h, Candidates(h))
           v == With(w, id, Summary(h))
           g == Consolidated(h, id)
<1>1. /\ IsHistory(w) /\ DOMAIN w = DOMAIN h \ Candidates(h)
      /\ \A i \in DOMAIN w : w[i] = h[i]
  BY WithoutHistory
<1>2. Summary(h) \in Entry /\ Summary(h).kind = "summary"
  <2>1. LatestTs(h, Candidates(h)) \in Nat
    <3>1. Candidates(h) \in SUBSET DOMAIN h
      BY DEF Candidates
    <3> QED BY <3>1, LatestTsType
  <2> QED BY <2>1 DEF Summary, Entry, PinThreshold, NoExpiry, AllKinds, Kinds
<1> HIDE DEF w
<1>3. /\ IsHistory(v) /\ DOMAIN v = DOMAIN w \cup {id}
  BY <1>1, <1>2, WithHistory
<1>4. \A i \in DOMAIN v : v[i] = IF i = id THEN Summary(h) ELSE w[i]
  BY <1>3 DEF With
<1> HIDE DEF v
<1>5. g = Chronological(v)
  BY DEF Consolidated, v, w
<1>6. IsHistory(g) /\ DOMAIN g = DOMAIN v
  BY <1>3, <1>5, ChronologicalHistory
<1>7. \A i \in DOMAIN g : Same(g[i], v[i])
  <2> TAKE i \in DOMAIN g
  <2>1. v[i] \in Entry
    BY <1>3, <1>6 DEF IsHistory
  <2>2. g[i] = [v[i] EXCEPT !.slot = v[i].ts]
    BY <1>5, <1>6 DEF Chronological
  <2> HIDE DEF g
  <2> QED BY <2>1, <2>2 DEF Same, Entry
<1> HIDE DEF g
<1>8. /\ \A i \in DOMAIN g \ {id} : Same(g[i], h[i])
      /\ g[id].kind = "summary"
  BY <1>1, <1>2, <1>3, <1>4, <1>6, <1>7 DEF Same
<1> QED BY <1>1, <1>3, <1>6, <1>8 DEF g

(* set_profile stores everything but the scope's old profile, and the new. *)
LEMMA ProfileSetEntries ==
  ASSUME NEW h, IsHistory(h), NEW id \in Nat,
         NEW s \in Scopes \cup {NoScope}, NEW now \in Nat
  PROVE  /\ DOMAIN ProfileSet(h, id, s, now) = (DOMAIN h \ ScopeProfiles(h, s)) \cup {id}
         /\ \A i \in DOMAIN h \ ScopeProfiles(h, s) :
              i # id => ProfileSet(h, id, s, now)[i] = h[i]
         /\ Same(ProfileSet(h, id, s, now)[id], ProfileEntry(s, now))
<1> DEFINE w == Without(h, ScopeProfiles(h, s))
           e == ProfileEntry(s, now)
           g == ProfileSet(h, id, s, now)
<1>1. /\ IsHistory(w) /\ DOMAIN w = DOMAIN h \ ScopeProfiles(h, s)
      /\ \A i \in DOMAIN w : w[i] = h[i]
  BY WithoutHistory
<1>2. e \in Entry
  BY DEF ProfileEntry, Entry, PinThreshold, NoExpiry, AllKinds, Kinds
<1> HIDE DEF w
<1>3. g = AppendEntry(w, id, e)
  BY DEF ProfileSet, w
<1> HIDE DEF g
<1>4. IsHistory(g) /\ DOMAIN g = DOMAIN w \cup {id}
  BY <1>1, <1>2, <1>3, AppendEntryHistory
<1>5. \A i \in DOMAIN g :
        g[i] = IF i = id THEN [e EXCEPT !.slot = EndSlot(w)] ELSE w[i]
  BY <1>3, <1>4 DEF AppendEntry, With
<1>6. Same(g[id], e)
  <2>1. g[id] = [e EXCEPT !.slot = EndSlot(w)]
    BY <1>4, <1>5
  <2> HIDE DEF e
  <2> QED BY <1>2, <2>1 DEF Same, Entry
<1> QED BY <1>1, <1>4, <1>5, <1>6 DEF g

LEMMA ProfileSetKeeps ==
  ASSUME NEW h, IsHistory(h), NEW id \in Nat,
         NEW s \in Scopes \cup {NoScope}, NEW now \in Nat,
         NEW i \in DOMAIN h \ ScopeProfiles(h, s), i # id
  PROVE  ProfileSet(h, id, s, now)[i] = h[i]
<1> DEFINE w == Without(h, ScopeProfiles(h, s))
           e == ProfileEntry(s, now)
<1>1. IsHistory(w) /\ i \in DOMAIN w /\ w[i] = h[i]
  BY WithoutHistory
<1>2. e \in Entry
  BY DEF ProfileEntry, Entry, PinThreshold, NoExpiry, AllKinds, Kinds
<1> HIDE DEF w, e
<1>3. DOMAIN AppendEntry(w, id, e) = DOMAIN w \cup {id}
  BY <1>1, <1>2, AppendEntryHistory
<1>4. AppendEntry(w, id, e)[i] = w[i]
  BY <1>1, <1>3 DEF AppendEntry, With
<1> QED BY <1>1, <1>4 DEF ProfileSet, w, e

LEMMA ProfileSetHistory ==
  ASSUME NEW h, IsHistory(h), NEW id \in Nat,
         NEW s \in Scopes \cup {NoScope}, NEW now \in Nat
  PROVE  IsHistory(ProfileSet(h, id, s, now))
<1> DEFINE w == Without(h, ScopeProfiles(h, s))
           e == ProfileEntry(s, now)
<1>1. IsHistory(w)
  BY WithoutHistory
<1>2. e \in Entry
  BY DEF ProfileEntry, Entry, PinThreshold, NoExpiry, AllKinds, Kinds
<1> HIDE DEF w, e
<1>3. IsHistory(AppendEntry(w, id, e))
  BY <1>1, <1>2, AppendEntryHistory
<1> QED BY <1>3 DEF ProfileSet, w, e

-----------------------------------------------------------------------------
(***************************************************************************)
(* The area: the tasks and their lock.                                     *)
(***************************************************************************)
(* How far the call of task t has come.  A task past the get holds the     *)
(* lock and its snapshot is the stored history; that is what makes the     *)
(* write at the end of the call take effect on the current history.        *)
Stage(t) ==
  /\ pc[t] = "idle" <=> op[t] = Idle
  /\ pc[t] # "idle" =>
       /\ 1 <= op[t].id /\ op[t].id <= seen[t] /\ seen[t] <= clock
       /\ op[t].name \in Calls \cap CallNames
       /\ op[t].name = "profile" => op[t].scope \in Scopes
  /\ pc[t] \in {"got", "a4"} => lock = t /\ snap[t] = history
  /\ lock = t => pc[t] \in {"got", "a4"}
  /\ pc[t] = "a4" =>
       op[t].name = "consolidate" /\ Applies(op[t], snap[t], seen[t])

AreaInv ==
  /\ AreaTypeOK
  /\ snap = [t \in Tasks |-> snap[t]]
  /\ \A t \in Tasks : Stage(t)

----------------------------------------------------------------------------
(* The calls a task can make are well typed and carry their time.          *)
LEMMA CallType ==
  ASSUME NEW now \in Nat \ {0}, NEW o \in CallsAt(now)
  PROVE  /\ o \in Op /\ o.id = now
         /\ o.name \in Calls \cap CallNames
         /\ o.name = "profile" => o.scope \in Scopes
<1>1. o.name \in Calls
  BY DEF CallsAt
<1>2. CASE o \in AppendCalls(now)
  <2>1. PICK imp \in Importances, ttl \in Ttls : o = AppendCall(now, imp, ttl)
    BY <1>2 DEF AppendCalls
  <2>2. imp \in Nat /\ (IF ttl = NoExpiry THEN NoExpiry ELSE now + ttl) \in Nat
    BY ImportancesAssumption, TtlsAssumption DEF NoExpiry
  <2> QED BY <1>1, <2>1, <2>2 DEF AppendCall, Call, Op, CallNames, NoExpiry
<1>3. CASE o \in PinCalls(now) \cup UnpinCalls(now) \cup ReinforceCalls(now)
  <2>1. PICK i \in 1..(now - 1), name \in {"pin", "unpin", "reinforce"} :
          o = [Call(name, now) EXCEPT !.ids = {i}]
    BY <1>3 DEF PinCalls, UnpinCalls, ReinforceCalls
  <2>2. {i} \in SUBSET Nat
    BY <2>1
  <2> QED BY <1>1, <2>1, <2>2 DEF Call, Op, CallNames, NoExpiry
<1>4. CASE o \in ForgetCalls(now)
  <2> DEFINE c == Call("forget", now)
  <2>1. c \in Op /\ c.id = now /\ c.name = "forget"
    BY DEF Call, Op, CallNames, NoExpiry
  <2> HIDE DEF c
  <2>2. ASSUME NEW k \in Kinds, o = [c EXCEPT !.kinds = {k}]
        PROVE  o \in Op /\ o.id = now /\ o.name = "forget"
    BY <2>1, <2>2 DEF Op
  <2>3. ASSUME NEW b \in 1..now, o = [c EXCEPT !.before = b]
        PROVE  o \in Op /\ o.id = now /\ o.name = "forget"
    BY <2>1, <2>3 DEF Op
  <2>4. ASSUME NEW e \in BOOLEAN, o = [c EXCEPT !.expired = e]
        PROVE  o \in Op /\ o.id = now /\ o.name = "forget"
    BY <2>1, <2>4 DEF Op
  <2>5. o \in Op /\ o.id = now /\ o.name = "forget"
    BY <1>4, <2>2, <2>3, <2>4 DEF ForgetCalls, c
  <2> QED BY <1>1, <2>5 DEF CallNames
<1>5. CASE o \in ProfileCalls(now)
  <2>1. PICK s \in Scopes : o = [Call("profile", now) EXCEPT !.scope = s]
    BY <1>5 DEF ProfileCalls
  <2> QED BY <1>1, <2>1 DEF Call, Op, CallNames, NoExpiry
<1>6. CASE o = Call("consolidate", now)
  BY <1>1, <1>6 DEF Call, Op, CallNames, NoExpiry
<1> QED BY <1>2, <1>3, <1>4, <1>5, <1>6 DEF CallsAt

LEMMA IdleType == Idle \in Op /\ Idle.name = "none"
BY DEF Idle, Call, Op, NoExpiry

(* consolidate only goes ahead with something to summarise.                *)
LEMMA SomethingToSummarise ==
  ASSUME NEW o, NEW h, NEW now, o.name = "consolidate", Applies(o, h, now)
  PROVE  Candidates(Purge(h, now)) # {}
<1>1. Cardinality(Candidates(Purge(h, now))) >= MinCandidates
  BY DEF Applies
<1> QED BY <1>1, FS_EmptySet, MinCandidatesAssumption

(* Every operation that applies to a history writes a history, and the     *)
(* only id it can add is its own.                                          *)
LEMMA EffectHistory ==
  ASSUME NEW o \in Op, NEW h, IsHistory(h), NEW now \in Nat, NEW mode \in BOOLEAN,
         Applies(o, h, now)
  PROVE  /\ IsHistory(Effect(o, h, now, mode))
         /\ DOMAIN Effect(o, h, now, mode) \subseteq DOMAIN h \cup {o.id}
<1>1. /\ o.id \in Nat /\ o.imp \in Nat /\ o.exp \in Nat
      /\ o.scope \in Scopes \cup {NoScope}
  BY DEF Op
<1>2. CASE o.name = "append"
  <2>1. TurnEntry(o) \in Entry
    BY <1>1 DEF TurnEntry, Entry, AllKinds, Kinds
  <2> QED BY <1>1, <1>2, <2>1, AppendedHistory DEF Effect
<1>3. CASE o.name \in {"pin", "unpin"}
  <2>1. PinThreshold \in Nat /\ Normal \in Nat
    BY DEF PinThreshold, Normal
  <2> QED BY <1>3, <2>1, ReweightedHistory DEF Effect
<1>4. CASE o.name = "reinforce"
  BY <1>4, ReinforcedHistory DEF Effect
<1>5. CASE o.name = "forget"
  <2> DEFINE gone == Forgettable(h, now, o.kinds, o.before, o.expired)
  <2>1. Effect(o, h, now, mode) = Without(h, gone)
    BY <1>5 DEF Effect
  <2> HIDE DEF gone
  <2>2. IsHistory(Without(h, gone)) /\ DOMAIN Without(h, gone) = DOMAIN h \ gone
    BY WithoutHistory
  <2> QED BY <2>1, <2>2
<1>6. CASE o.name = "consolidate"
  <2> DEFINE p == Purge(h, now)
  <2>1. Candidates(p) # {}
    BY <1>6, SomethingToSummarise
  <2>2. IsHistory(p) /\ DOMAIN p \subseteq DOMAIN h
    BY PurgeHistory
  <2>3. Effect(o, h, now, mode) = Consolidated(p, o.id)
    BY <1>6 DEF Effect
  <2> HIDE DEF p
  <2>4. /\ IsHistory(Consolidated(p, o.id))
        /\ DOMAIN Consolidated(p, o.id) = (DOMAIN p \ Candidates(p)) \cup {o.id}
    BY <1>1, <2>1, <2>2, ConsolidatedHistory
  <2> QED BY <2>2, <2>3, <2>4
<1>7. CASE o.name = "profile"
  <2>1. Effect(o, h, now, mode) = ProfileSet(h, o.id, o.scope, now)
    BY <1>7 DEF Effect
  <2> DEFINE id == o.id
             s == o.scope
  <2>2. id \in Nat /\ s \in Scopes \cup {NoScope}
    BY <1>1
  <2> HIDE DEF id, s
  <2>3. DOMAIN ProfileSet(h, id, s, now) = (DOMAIN h \ ScopeProfiles(h, s)) \cup {id}
    BY <2>2, ProfileSetEntries
  <2>4. IsHistory(ProfileSet(h, id, s, now))
    BY <2>2, ProfileSetHistory
  <2> QED BY <2>1, <2>3, <2>4 DEF id, s
<1>8. o.name \in {"append", "pin", "unpin", "reinforce", "forget",
                  "consolidate", "profile"}
  BY DEF Applies
<1> QED BY <1>2, <1>3, <1>4, <1>5, <1>6, <1>7, <1>8

----------------------------------------------------------------------------
LEMMA AreaInvInit == AreaInit => AreaInv
<1> SUFFICES ASSUME AreaInit PROVE AreaInv
  OBVIOUS
<1>1. IsHistory(Empty) /\ DOMAIN Empty = {}
  <2>1. IsFiniteSet({})
    BY FS_EmptySet
  <2> QED BY <2>1 DEF IsHistory, Empty
<1>2. AreaTypeOK
  <2>1. history = Empty /\ clock = 0 /\ fourd \in BOOLEAN
    BY FourDModesAssumption DEF AreaInit, Init, Empty
  <2>2. op \in [Tasks -> Op]
    BY IdleType DEF AreaInit, Init
  <2> QED BY <1>1, <2>1, <2>2 DEF AreaInit, AreaTypeOK
<1>3. \A t \in Tasks : Stage(t)
  BY NoTaskAssumption DEF AreaInit, Init, Stage
<1>4. snap = [t \in Tasks |-> snap[t]]
  BY DEF AreaInit
<1> QED BY <1>2, <1>3, <1>4 DEF AreaInv

(* What a finishing task writes, from a snapshot that is the history.      *)
LEMMA WriteTyped ==
  ASSUME AreaInv, NEW t \in Tasks, pc[t] \in {"got", "a4"},
         Applies(op[t], snap[t], seen[t]),
         history' = Effect(op[t], snap[t], seen[t], fourd)
  PROVE  /\ IsHistory(history') /\ DOMAIN history' \subseteq 1..clock
         /\ DOMAIN history' \subseteq DOMAIN history \cup {op[t].id}
<1>1. /\ op[t] \in Op /\ seen[t] \in Nat /\ clock \in Nat /\ fourd \in BOOLEAN
      /\ IsHistory(history) /\ DOMAIN history \subseteq 1..clock
  BY DEF AreaInv, AreaTypeOK
<1>2. snap[t] = history /\ 1 <= op[t].id /\ op[t].id <= clock
  BY <1>1 DEF AreaInv, Stage, Op
<1>3. op[t].id \in 1..clock
  BY <1>1, <1>2 DEF Op
<1> DEFINE o == op[t]
           now == seen[t]
<1>4. o \in Op /\ now \in Nat /\ Applies(o, history, now)
  BY <1>1, <1>2
<1> HIDE DEF o, now
<1>5. /\ IsHistory(Effect(o, history, now, fourd))
      /\ DOMAIN Effect(o, history, now, fourd) \subseteq DOMAIN history \cup {o.id}
  BY <1>1, <1>4, EffectHistory
<1>6. history' = Effect(o, history, now, fourd)
  BY <1>2 DEF o, now
<1> QED BY <1>1, <1>3, <1>5, <1>6 DEF o

(* A task that finishes leaves every other task where it was.              *)
LEMMA FinishKeepsStages ==
  ASSUME AreaInv, NEW t \in Tasks, Finish(t), clock' = clock,
         \/ lock = t /\ lock' = NoTask
         \/ lock # t /\ lock' = lock /\ history' = history
  PROVE  /\ op' \in [Tasks -> Op]
         /\ pc' \in [Tasks -> {"idle", "waiting", "got", "a4"}]
         /\ lock' \in Tasks \cup {NoTask}
         /\ seen' \in [Tasks -> Nat]
         /\ snap' = [u \in Tasks |-> snap'[u]]
         /\ \A u \in Tasks : Stage(u)'
<1>1. /\ op \in [Tasks -> Op] /\ seen \in [Tasks -> Nat]
      /\ pc \in [Tasks -> {"idle", "waiting", "got", "a4"}]
      /\ snap = [u \in Tasks |-> snap[u]]
      /\ lock \in Tasks \cup {NoTask}
  BY DEF AreaInv, AreaTypeOK
<1>2. /\ op' \in [Tasks -> Op] /\ seen' \in [Tasks -> Nat]
      /\ pc' \in [Tasks -> {"idle", "waiting", "got", "a4"}]
      /\ snap' = [u \in Tasks |-> snap'[u]]
      /\ lock' \in Tasks \cup {NoTask}
  BY <1>1, IdleType DEF Finish
<1>3. ASSUME NEW u \in Tasks PROVE Stage(u)'
  <2>1. CASE u = t
    BY <1>1, <2>1, NoTaskAssumption DEF Finish, Stage
  <2>2. CASE u # t
    <3>1. /\ op'[u] = op[u] /\ pc'[u] = pc[u]
          /\ snap'[u] = snap[u] /\ seen'[u] = seen[u]
      BY <1>1, <2>2 DEF Finish
    <3>2. Stage(u)
      BY DEF AreaInv
    <3> QED BY <2>2, <3>1, <3>2, NoTaskAssumption DEF Stage
  <2> QED BY <2>1, <2>2
<1> QED BY <1>2, <1>3

LEMMA AreaInvStep == AreaInv /\ [AreaNext]_vars => AreaInv'
<1> SUFFICES ASSUME AreaInv, [AreaNext]_vars PROVE AreaInv'
  OBVIOUS
<1>1. /\ IsHistory(history) /\ DOMAIN history \subseteq 1..clock
      /\ fourd \in BOOLEAN /\ clock \in Nat
      /\ op \in [Tasks -> Op] /\ seen \in [Tasks -> Nat]
      /\ pc \in [Tasks -> {"idle", "waiting", "got", "a4"}]
      /\ snap = [u \in Tasks |-> snap[u]]
      /\ lock \in Tasks \cup {NoTask}
      /\ \A u \in Tasks : Stage(u)
  BY DEF AreaInv, AreaTypeOK
<1>2. ASSUME NEW t \in Tasks, CallOperation(t) PROVE AreaInv'
  <2>1. PICK o \in CallsAt(clock') : op' = [op EXCEPT ![t] = o]
    BY <1>2 DEF CallOperation, Invoke
  <2>2. /\ op[t] = Idle /\ clock' = clock + 1 /\ history' = history /\ fourd' = fourd
        /\ pc' = [pc EXCEPT ![t] = "waiting"] /\ seen' = [seen EXCEPT ![t] = clock']
        /\ lock' = lock /\ snap' = snap
    BY <1>2 DEF CallOperation, Invoke
  <2>3. /\ o \in Op /\ o.id = clock' /\ o.name \in Calls \cap CallNames
        /\ o.name = "profile" => o.scope \in Scopes
    BY <1>1, <2>1, <2>2, CallType
  <2>4. o # Idle
    BY <2>3, IdleType DEF CallNames
  <2>5. AreaTypeOK'
    BY <1>1, <2>1, <2>2, <2>3 DEF AreaTypeOK
  <2>6. ASSUME NEW u \in Tasks PROVE Stage(u)'
    <3>1. CASE u = t
      <4>1. pc[t] = "idle" /\ lock # t
        BY <1>1, <2>2 DEF Stage
      <4> QED BY <1>1, <2>1, <2>2, <2>3, <2>4, <3>1, <4>1 DEF Stage
    <3>2. CASE u # t
      <4>1. op'[u] = op[u] /\ pc'[u] = pc[u] /\ seen'[u] = seen[u]
        BY <1>1, <2>1, <2>2, <3>2
      <4>2. op[u].id \in Nat /\ seen[u] \in Nat
        BY <1>1 DEF Op
      <4> QED BY <1>1, <2>2, <4>1, <4>2 DEF Stage
    <3> QED BY <3>1, <3>2
  <2> QED BY <1>1, <2>2, <2>5, <2>6 DEF AreaInv
<1>3. ASSUME NEW t \in Tasks, GetHistory(t) PROVE AreaInv'
  <2>1. /\ pc[t] = "waiting" /\ lock = NoTask /\ lock' = t
        /\ snap' = [snap EXCEPT ![t] = history]
        /\ pc' = [pc EXCEPT ![t] = "got"]
        /\ history' = history /\ fourd' = fourd /\ op' = op
    BY <1>3 DEF GetHistory
  <2>2. \/ clock' = clock + 1 /\ seen' = [seen EXCEPT ![t] = clock']
        \/ clock' = clock /\ seen' = seen
    BY <1>3 DEF GetHistory
  <2>3. AreaTypeOK'
    BY <1>1, <2>1, <2>2 DEF AreaTypeOK
  <2>4. ASSUME NEW u \in Tasks PROVE Stage(u)'
    <3>1. op[u].id \in Nat /\ seen[u] \in Nat
      BY <1>1 DEF Op
    <3>2. CASE u = t
      BY <1>1, <2>1, <2>2, <3>1, <3>2 DEF Stage
    <3>3. CASE u # t
      <4>1. /\ pc'[u] = pc[u] /\ seen'[u] = seen[u] /\ snap'[u] = snap[u]
            /\ pc[u] \notin {"got", "a4"}
        BY <1>1, <2>1, <2>2, <3>3, NoTaskAssumption DEF Stage
      <4> QED BY <1>1, <2>1, <2>2, <3>1, <3>3, <4>1 DEF Stage
    <3> QED BY <3>2, <3>3
  <2> QED BY <1>1, <2>1, <2>3, <2>4 DEF AreaInv
<1>4. ASSUME NEW t \in Tasks, AskModel(t) PROVE AreaInv'
  <2>1. /\ pc[t] = "got" /\ op[t].name = "consolidate"
        /\ Applies(op[t], snap[t], seen[t])
        /\ pc' = [pc EXCEPT ![t] = "a4"]
        /\ UNCHANGED <<history, fourd, clock, op, lock, snap, seen>>
    BY <1>4 DEF AskModel
  <2>2. AreaTypeOK'
    BY <1>1, <2>1 DEF AreaTypeOK
  <2>3. ASSUME NEW u \in Tasks PROVE Stage(u)'
    <3>1. Stage(u) /\ pc'[u] = IF u = t THEN "a4" ELSE pc[u]
      BY <1>1, <2>1
    <3>2. Applies(op[u], snap[u], seen[u])' <=> Applies(op[u], snap[u], seen[u])
      BY <2>1
    <3> QED BY <2>1, <3>1, <3>2 DEF Stage
  <2> QED BY <1>1, <2>1, <2>2, <2>3 DEF AreaInv
<1>5. ASSUME NEW t \in Tasks, SetHistory(t) \/ ModelAnswers(t) PROVE AreaInv'
  <2>1. /\ pc[t] \in {"got", "a4"} /\ Applies(op[t], snap[t], seen[t])
        /\ history' = Effect(op[t], snap[t], seen[t], fourd)
        /\ Finish(t) /\ lock' = NoTask /\ fourd' = fourd /\ clock' = clock
    BY <1>1, <1>5 DEF SetHistory, ModelAnswers, Stage, Release
  <2>2. lock = t
    BY <1>1, <2>1 DEF Stage
  <2>3. IsHistory(history') /\ DOMAIN history' \subseteq 1..clock
    BY <2>1, WriteTyped
  <2>4. /\ op' \in [Tasks -> Op]
        /\ pc' \in [Tasks -> {"idle", "waiting", "got", "a4"}]
        /\ lock' \in Tasks \cup {NoTask} /\ seen' \in [Tasks -> Nat]
        /\ snap' = [u \in Tasks |-> snap'[u]]
        /\ \A u \in Tasks : Stage(u)'
    BY <2>1, <2>2, FinishKeepsStages
  <2> QED BY <1>1, <2>1, <2>3, <2>4 DEF AreaInv, AreaTypeOK
<1>6. ASSUME NEW t \in Tasks, ReturnUnchanged(t) \/ ModelFails(t) \/ Cancel(t)
      PROVE  AreaInv'
  <2>1. /\ Finish(t) /\ history' = history /\ fourd' = fourd /\ clock' = clock
        /\ \/ lock = t /\ lock' = NoTask
           \/ lock # t /\ lock' = lock
    BY <1>1, <1>6 DEF ReturnUnchanged, ModelFails, Cancel, Stage, Release
  <2>2. /\ op' \in [Tasks -> Op]
        /\ pc' \in [Tasks -> {"idle", "waiting", "got", "a4"}]
        /\ lock' \in Tasks \cup {NoTask} /\ seen' \in [Tasks -> Nat]
        /\ snap' = [u \in Tasks |-> snap'[u]]
        /\ \A u \in Tasks : Stage(u)'
    BY <2>1, FinishKeepsStages
  <2> QED BY <1>1, <2>1, <2>2 DEF AreaInv, AreaTypeOK
<1>7. CASE SetFourDEnabled
  <2>1. fourd' \in BOOLEAN /\ UNCHANGED <<history, clock, op, pc, lock, snap, seen>>
    BY <1>7, FourDModesAssumption DEF SetFourDEnabled, SetFourD
  <2> QED BY <1>1, <2>1 DEF AreaInv, AreaTypeOK, Stage
<1>8. CASE UNCHANGED vars
  BY <1>1, <1>8 DEF vars, AreaInv, AreaTypeOK, Stage
<1> QED BY <1>2, <1>3, <1>4, <1>5, <1>6, <1>7, <1>8 DEF AreaNext, Step

----------------------------------------------------------------------------
(* Type correctness of the area, for every limit and every set of tasks.   *)
THEOREM AreaTypeCorrect == AreaSpec => []AreaTypeOK
<1>1. AreaInv => AreaTypeOK
  BY DEF AreaInv
<1> QED BY <1>1, AreaInvInit, AreaInvStep, PTL DEF AreaSpec

LEMMA AreaInvariant == AreaSpec => []AreaInv
BY AreaInvInit, AreaInvStep, PTL DEF AreaSpec

(* _history_lock: the snapshot a task works on is the stored history.      *)
THEOREM SnapshotIsCurrent == AreaSpec => []SnapshotCurrent
<1>1. AreaInv => SnapshotCurrent
  BY DEF AreaInv, SnapshotCurrent, Stage
<1> QED BY <1>1, AreaInvariant, PTL

----------------------------------------------------------------------------
(* Every operation takes effect on the current history at one moment       *)
(* between its call and its return: the lock makes the read-modify-write   *)
(* atomic, even across the A4 call of consolidate and a cancellation.      *)
LEMMA StepRefines == AreaInv /\ [AreaNext]_vars => [Next]_avars
<1> SUFFICES ASSUME AreaInv, [AreaNext]_vars PROVE [Next]_avars
  OBVIOUS
<1>1. /\ clock \in Nat /\ op \in [Tasks -> Op] /\ seen \in [Tasks -> Nat]
      /\ \A u \in Tasks : Stage(u)
  BY DEF AreaInv, AreaTypeOK
<1>2. ASSUME NEW t \in Tasks, CallOperation(t) PROVE Next
  BY <1>2 DEF CallOperation, Next
<1>3. ASSUME NEW t \in Tasks, GetHistory(t) PROVE TimePasses \/ UNCHANGED avars
  BY <1>3 DEF GetHistory, TimePasses, avars
<1>4. ASSUME NEW t \in Tasks, AskModel(t) PROVE UNCHANGED avars
  BY <1>4 DEF AskModel, avars
<1>5. ASSUME NEW t \in Tasks, SetHistory(t) \/ ModelAnswers(t) PROVE Perform(t)
  <2>1. /\ pc[t] \in {"got", "a4"} /\ Applies(op[t], snap[t], seen[t])
        /\ history' = Effect(op[t], snap[t], seen[t], fourd)
        /\ op' = [op EXCEPT ![t] = Idle] /\ fourd' = fourd /\ clock' = clock
    BY <1>1, <1>5 DEF SetHistory, ModelAnswers, Stage, Finish
  <2>2. /\ op[t] # Idle /\ snap[t] = history
        /\ op[t].id <= seen[t] /\ seen[t] <= clock
    BY <1>1, <2>1 DEF Stage
  <2>3. seen[t] \in op[t].id..clock'
    BY <1>1, <2>1, <2>2 DEF Op
  <2>4. \E now \in op[t].id..clock' :
          Applies(op[t], history, now) /\ history' = Effect(op[t], history, now, fourd)
    BY <2>1, <2>2, <2>3
  <2> QED BY <2>1, <2>2, <2>4 DEF Perform
<1>6. ASSUME NEW t \in Tasks, ReturnUnchanged(t) \/ ModelFails(t) \/ Cancel(t)
      PROVE  Abandon(t)
  BY <1>1, <1>6 DEF ReturnUnchanged, ModelFails, Cancel, Finish, Abandon, Stage
<1>7. CASE SetFourDEnabled
  BY <1>7 DEF SetFourDEnabled, Next
<1>8. CASE UNCHANGED vars
  BY <1>8 DEF vars, avars
<1> QED BY <1>2, <1>3, <1>4, <1>5, <1>6, <1>7, <1>8 DEF AreaNext, Step, Next

THEOREM AreaImplementsAtomicHistory == AreaSpec => ImplementsAtomicHistory
<1>1. AreaInit => Init
  BY DEF AreaInit
<1> QED BY <1>1, StepRefines, AreaInvariant, PTL DEF AreaSpec, Spec, ImplementsAtomicHistory

----------------------------------------------------------------------------
(* A step that changes the history is the write of one finishing call,     *)
(* computed from the current history.                                      *)
LEMMA HistoryChange ==
  ASSUME AreaInv, [AreaNext]_vars, history' # history
  PROVE  \E t \in Tasks :
           /\ Finishes(t) /\ fourd \in BOOLEAN /\ clock \in Nat
           /\ \A u \in Tasks : Finishes(u) => u = t
           /\ op[t] \in Op /\ IsHistory(history)
           /\ op[t].name \in Calls \cap CallNames
           /\ op[t].name = "profile" => op[t].scope \in Scopes
           /\ seen[t] \in Nat /\ seen[t] <= clock
           /\ Applies(op[t], history, seen[t])
           /\ history' = Effect(op[t], history, seen[t], fourd)
<1>1. /\ clock \in Nat /\ op \in [Tasks -> Op] /\ seen \in [Tasks -> Nat]
      /\ fourd \in BOOLEAN /\ IsHistory(history)
      /\ \A u \in Tasks : Stage(u)
  BY DEF AreaInv, AreaTypeOK
<1>2. PICK t \in Tasks : SetHistory(t) \/ ModelAnswers(t)
  BY DEF AreaNext, vars, Step, CallOperation, Invoke, GetHistory, AskModel,
         ReturnUnchanged, ModelFails, Cancel, SetFourDEnabled, SetFourD
<1>3. /\ pc[t] \in {"got", "a4"} /\ Applies(op[t], snap[t], seen[t])
      /\ history' = Effect(op[t], snap[t], seen[t], fourd)
      /\ op' = [op EXCEPT ![t] = Idle]
  BY <1>1, <1>2 DEF SetHistory, ModelAnswers, Stage, Finish
<1>4. /\ snap[t] = history /\ op[t] # Idle /\ seen[t] <= clock
      /\ op[t].name \in Calls \cap CallNames
      /\ op[t].name = "profile" => op[t].scope \in Scopes
  BY <1>1, <1>3 DEF Stage
<1>5. Finishes(t) /\ \A u \in Tasks : Finishes(u) => u = t
  BY <1>1, <1>3, <1>4 DEF Finishes
<1> QED BY <1>1, <1>3, <1>4, <1>5

(* Nothing but set_profile adds a profile, and it replaces the scope's.    *)
LEMMA EffectProfiles ==
  ASSUME NEW o \in Op, NEW h, IsHistory(h), NEW now \in Nat, NEW mode \in BOOLEAN,
         Applies(o, h, now), NEW s \in Scopes
  PROVE  LET g == Effect(o, h, now, mode)
         IN  \/ ScopeProfiles(g, s) \subseteq ScopeProfiles(h, s)
             \/ ScopeProfiles(g, s) \subseteq {o.id}
<1> DEFINE g == Effect(o, h, now, mode)
           id == o.id
<1>1. /\ id \in Nat /\ o.imp \in Nat /\ o.exp \in Nat
      /\ o.scope \in Scopes \cup {NoScope}
  BY DEF Op
<1>2. CASE o.name = "append"
  <2> DEFINE e == TurnEntry(o)
  <2>1. e \in Entry /\ e.kind = "turn"
    BY <1>1 DEF TurnEntry, Entry, AllKinds, Kinds
  <2>2. g = Appended(h, id, e, now, mode)
    BY <1>2 DEF Effect
  <2> HIDE DEF e, g, id
  <2>3. Within(g, With(h, id, e))
    BY <1>1, <2>1, <2>2, AppendedWithin
  <2>4. \A i \in DOMAIN g : /\ i \in DOMAIN h \cup {id}
                            /\ Same(g[i], IF i = id THEN e ELSE h[i])
    BY <2>3 DEF Within, With
  <2>5. ScopeProfiles(g, s) \subseteq ScopeProfiles(h, s)
    BY <2>1, <2>4 DEF ScopeProfiles, Same
  <2> QED BY <2>5 DEF g, id
<1>3. CASE o.name \in {"pin", "unpin"}
  <2>1. PICK imp \in Nat : g = Reweighted(h, o.ids, imp)
    BY <1>3 DEF Effect, PinThreshold, Normal
  <2> HIDE DEF g
  <2>2. /\ DOMAIN g = DOMAIN h
        /\ \A i \in DOMAIN h : g[i].kind = h[i].kind /\ g[i].scope = h[i].scope
    BY <2>1, ReweightedHistory
  <2>3. ScopeProfiles(g, s) \subseteq ScopeProfiles(h, s)
    BY <2>2 DEF ScopeProfiles
  <2> QED BY <2>3 DEF g
<1>4. CASE o.name = "reinforce"
  <2>1. g = Reinforced(h, o.ids)
    BY <1>4 DEF Effect
  <2> HIDE DEF g
  <2>2. /\ DOMAIN g = DOMAIN h
        /\ \A i \in DOMAIN h : g[i].kind = h[i].kind /\ g[i].scope = h[i].scope
    BY <2>1, ReinforcedHistory
  <2>3. ScopeProfiles(g, s) \subseteq ScopeProfiles(h, s)
    BY <2>2 DEF ScopeProfiles
  <2> QED BY <2>3 DEF g
<1>5. CASE o.name = "forget"
  <2> DEFINE gone == Forgettable(h, now, o.kinds, o.before, o.expired)
  <2>1. g = Without(h, gone)
    BY <1>5 DEF Effect
  <2> HIDE DEF g, gone
  <2>2. /\ DOMAIN Without(h, gone) = DOMAIN h \ gone
        /\ \A i \in DOMAIN h \ gone : Without(h, gone)[i] = h[i]
    BY WithoutHistory
  <2>3. ScopeProfiles(g, s) \subseteq ScopeProfiles(h, s)
    BY <2>1, <2>2 DEF ScopeProfiles
  <2> QED BY <2>3 DEF g
<1>6. CASE o.name = "consolidate"
  <2> DEFINE p == Purge(h, now)
  <2>1. Candidates(p) # {}
    BY <1>6, SomethingToSummarise
  <2>2. IsHistory(p) /\ DOMAIN p \subseteq DOMAIN h /\ \A i \in DOMAIN p : p[i] = h[i]
    <3>1. {i \in DOMAIN h : ~Expired(h[i], now)} \in SUBSET DOMAIN h
      OBVIOUS
    <3> QED BY <3>1, RestrictHistory DEF Purge
  <2>3. g = Consolidated(p, id)
    BY <1>6 DEF Effect
  <2> HIDE DEF p, g, id
  <2>4. /\ DOMAIN g = (DOMAIN p \ Candidates(p)) \cup {id}
        /\ \A i \in DOMAIN g \ {id} : Same(g[i], p[i])
        /\ g[id].kind = "summary"
    BY <1>1, <2>1, <2>2, <2>3, ConsolidatedHistory
  <2>5. ScopeProfiles(g, s) \subseteq ScopeProfiles(h, s)
    BY <2>2, <2>4 DEF ScopeProfiles, Same
  <2> QED BY <2>5 DEF g
<1>7. CASE o.name = "profile"
  <2> DEFINE c == o.scope
  <2>0. id \in Nat /\ c \in Scopes \cup {NoScope}
    BY <1>1
  <2>1. g = ProfileSet(h, id, c, now)
    BY <1>7 DEF Effect
  <2> HIDE DEF g, id, c
  <2> DEFINE f == ProfileSet(h, id, c, now)
  <2>2. /\ DOMAIN f = (DOMAIN h \ ScopeProfiles(h, c)) \cup {id}
        /\ \A i \in DOMAIN h \ ScopeProfiles(h, c) : i # id => f[i] = h[i]
        /\ Same(f[id], ProfileEntry(c, now))
        /\ g = f
    <3>1. DOMAIN f = (DOMAIN h \ ScopeProfiles(h, c)) \cup {id}
      BY <2>0, ProfileSetEntries
    <3>2. \A i \in DOMAIN h \ ScopeProfiles(h, c) : i # id => f[i] = h[i]
      BY <2>0, ProfileSetKeeps
    <3>3. Same(f[id], ProfileEntry(c, now))
      BY <2>0, ProfileSetEntries
    <3>4. g = f
      BY <2>1
    <3> QED BY <3>1, <3>2, <3>3, <3>4
  <2> HIDE DEF f
  <2>3. CASE c = s
    <3>1. ScopeProfiles(g, s) \subseteq {id}
      BY <2>2, <2>3 DEF ScopeProfiles
    <3> QED BY <3>1 DEF g, id
  <2>4. CASE c # s
    <3>1. g[id].scope = c
      BY <2>2 DEF Same, ProfileEntry
    <3>2. ScopeProfiles(g, s) \subseteq ScopeProfiles(h, s)
      BY <2>2, <2>4, <3>1 DEF ScopeProfiles
    <3> QED BY <3>2 DEF g
  <2> QED BY <2>3, <2>4
<1>8. o.name \in {"append", "pin", "unpin", "reinforce", "forget",
                  "consolidate", "profile"}
  BY DEF Applies
<1> QED BY <1>2, <1>3, <1>4, <1>5, <1>6, <1>7, <1>8

(* A set of at most one element stays so when it shrinks or is replaced.   *)
LEMMA AtMostOne ==
  ASSUME NEW S, IsFiniteSet(S), Cardinality(S) <= 1, NEW T, NEW x,
         T \subseteq S \/ T \subseteq {x}
  PROVE  Cardinality(T) <= 1
<1>1. CASE T \subseteq S
  <2>1. Cardinality(S) \in Nat /\ Cardinality(T) \in Nat /\ Cardinality(T) <= Cardinality(S)
    BY <1>1, FS_Subset, FS_CardinalityType
  <2> QED BY <2>1
<1>2. CASE T \subseteq {x}
  <2>1. IsFiniteSet({x}) /\ Cardinality({x}) = 1
    BY FS_Singleton
  <2>2. Cardinality(T) <= Cardinality({x})
    BY <1>2, <2>1, FS_Subset
  <2> QED BY <2>1, <2>2
<1> QED BY <1>1, <1>2

(* set_profile keeps one living document per scope, whichever calls it     *)
(* interleaves with.                                                       *)
THEOREM ProfilesAreSingle == AreaSpec => []OneProfilePerScope
<1>1. AreaInit => OneProfilePerScope
  <2> SUFFICES ASSUME AreaInit, NEW s \in Scopes
               PROVE  Cardinality(ScopeProfiles(history, s)) <= 1
    BY DEF OneProfilePerScope
  <2>1. ScopeProfiles(history, s) = {}
    BY DEF AreaInit, Init, ScopeProfiles
  <2> QED BY <2>1, FS_EmptySet
<1>2. AreaInv /\ [AreaNext]_vars /\ OneProfilePerScope => OneProfilePerScope'
  <2> SUFFICES ASSUME AreaInv, [AreaNext]_vars, OneProfilePerScope,
                      NEW s \in Scopes, history' # history
               PROVE  Cardinality(ScopeProfiles(history', s)) <= 1
    BY DEF OneProfilePerScope
  <2>1. PICK t \in Tasks :
          /\ fourd \in BOOLEAN /\ op[t] \in Op /\ IsHistory(history) /\ seen[t] \in Nat
          /\ Applies(op[t], history, seen[t])
          /\ history' = Effect(op[t], history, seen[t], fourd)
    BY HistoryChange
  <2> DEFINE o == op[t]
             now == seen[t]
             g == Effect(o, history, now, fourd)
  <2>2. o \in Op /\ now \in Nat /\ Applies(o, history, now) /\ history' = g
    BY <2>1
  <2> HIDE DEF o, now
  <2>3. \/ ScopeProfiles(g, s) \subseteq ScopeProfiles(history, s)
        \/ ScopeProfiles(g, s) \subseteq {o.id}
    BY <2>1, <2>2, EffectProfiles
  <2> HIDE DEF g
  <2>4. IsFiniteSet(ScopeProfiles(history, s))
    <3>1. ScopeProfiles(history, s) \subseteq DOMAIN history
      BY DEF ScopeProfiles
    <3> QED BY <2>1, <3>1, FS_Subset DEF IsHistory
  <2>5. Cardinality(ScopeProfiles(history, s)) <= 1
    BY DEF OneProfilePerScope
  <2>6. Cardinality(ScopeProfiles(g, s)) <= 1
    BY <2>3, <2>4, <2>5, AtMostOne
  <2> QED BY <2>2, <2>6
<1> QED BY <1>1, <1>2, AreaInvariant, PTL DEF AreaSpec

----------------------------------------------------------------------------
(* The size of the history.  set_profile adds an entry without evicting,   *)
(* and a summary takes the place of at least one entry that is not a       *)
(* profile: because profiles are pinned, while nobody unpins; or because   *)
(* there are too few of them to be summarised alone.  Otherwise unpinning, *)
(* summarising and renewing a profile adds a pin each time.                *)
Others(h) == DOMAIN h \ Profiles(h)

ProfilesPinned(h) ==
  \A i \in Profiles(h) :
    h[i].scope \in Scopes /\ ("unpin" \notin Calls => Pinned(h[i]))

OthersBounded(h) == ProfilesPinned(h) /\ Cardinality(Others(h)) <= Limit

(* What keeps profiles from being summarised alone. *)
SummariesReplace == "unpin" \notin Calls \/ MinCandidates > Cardinality(Scopes)

SingleProfiles(h) == \A s \in Scopes : Cardinality(ScopeProfiles(h, s)) <= 1

LEMMA Smaller ==
  ASSUME NEW S, NEW T, IsFiniteSet(T), S \subseteq T, NEW n \in Nat,
         Cardinality(T) <= n
  PROVE  Cardinality(S) <= n
<1>1. IsFiniteSet(S) /\ Cardinality(S) <= Cardinality(T)
  BY FS_Subset
<1>2. Cardinality(S) \in Nat /\ Cardinality(T) \in Nat
  BY <1>1, FS_CardinalityType
<1> QED BY <1>1, <1>2

LEMMA FewProfiles ==
  ASSUME NEW h, IsHistory(h), ProfilesPinned(h), SingleProfiles(h), IsFiniteSet(Scopes)
  PROVE  IsFiniteSet(Profiles(h)) /\ Cardinality(Profiles(h)) <= Cardinality(Scopes)
<1> DEFINE P == Profiles(h)
           scopeOf == [i \in P |-> h[i].scope]
<1>1. IsFiniteSet(DOMAIN h) /\ P \subseteq DOMAIN h
  BY DEF IsHistory, Profiles
<1>2. IsFiniteSet(P)
  BY <1>1, FS_Subset
<1>3. ASSUME NEW i \in P, NEW j \in P, h[i].scope = h[j].scope
      PROVE  i = j
  <2> DEFINE s == h[i].scope
             D == ScopeProfiles(h, s)
  <2>1. s \in Scopes
    BY DEF ProfilesPinned
  <2>2. Cardinality(D) <= 1
    BY <2>1 DEF SingleProfiles
  <2>3. {i, j} \subseteq D /\ D \subseteq DOMAIN h
    BY <1>3 DEF ScopeProfiles, Profiles
  <2> HIDE DEF D
  <2>4. IsFiniteSet(D)
    BY <1>1, <2>3, FS_Subset
  <2>5. SUFFICES ASSUME i # j PROVE FALSE
    OBVIOUS
  <2>6. /\ IsFiniteSet({i}) /\ Cardinality({i}) = 1
        /\ Cardinality({i} \cup {j}) = Cardinality({i}) + 1
    BY <2>5, FS_Singleton, FS_AddElement
  <2>7. Cardinality({i} \cup {j}) <= Cardinality(D)
    BY <2>3, <2>4, FS_Subset
  <2>8. Cardinality(D) \in Nat
    BY <2>4, FS_CardinalityType
  <2> QED BY <2>2, <2>6, <2>7, <2>8
<1>4. scopeOf \in Injection(P, Scopes)
  BY <1>3 DEF ProfilesPinned, Injection, IsInjective
<1> HIDE DEF P, scopeOf
<1>5. Cardinality(P) <= Cardinality(Scopes)
  BY <1>4, FS_Injection
<1> QED BY <1>2, <1>5 DEF P

LEMMA EffectOthers ==
  ASSUME NEW o \in Op, NEW h, IsHistory(h), NEW now \in Nat, NEW mode \in BOOLEAN,
         Applies(o, h, now), OthersBounded(h), o.name \in Calls,
         SummariesReplace, SingleProfiles(h), IsFiniteSet(Scopes),
         o.name = "profile" => o.scope \in Scopes
  PROVE  OthersBounded(Effect(o, h, now, mode))
<1> DEFINE g == Effect(o, h, now, mode)
           id == o.id
<1>1. id \in Nat /\ o.imp \in Nat /\ o.exp \in Nat
  BY DEF Op
<1>2. /\ IsFiniteSet(DOMAIN h) /\ IsFiniteSet(Others(h)) /\ Limit \in Nat
      /\ Others(h) \subseteq DOMAIN h /\ ProfilesPinned(h)
      /\ Cardinality(Others(h)) <= Limit
  <2>1. IsFiniteSet(DOMAIN h) /\ Others(h) \subseteq DOMAIN h
    BY DEF IsHistory, Others
  <2> QED BY <2>1, FS_Subset, LimitAssumption DEF OthersBounded
<1>3. IsHistory(g)
  BY EffectHistory
<1>4. IsFiniteSet(DOMAIN g)
  <2> HIDE DEF g
  <2> QED BY <1>3 DEF IsHistory
<1>5. CASE o.name = "append"
  <2> DEFINE e == TurnEntry(o)
  <2>1. e \in Entry /\ e.kind = "turn"
    BY <1>1 DEF TurnEntry, Entry, AllKinds, Kinds
  <2>2. g = Appended(h, id, e, now, mode)
    BY <1>5 DEF Effect
  <2> HIDE DEF e, g, id
  <2>3. Within(g, With(h, id, e)) /\ Cardinality(DOMAIN g) <= Limit
    BY <1>1, <2>1, <2>2, AppendedWithin, AppendedHistory
  <2>4. \A i \in DOMAIN g : /\ i \in DOMAIN h \cup {id}
                            /\ Same(g[i], IF i = id THEN e ELSE h[i])
    BY <2>3 DEF Within, With
  <2>5. ProfilesPinned(g)
    BY <1>2, <2>1, <2>4 DEF ProfilesPinned, Profiles, Same, Pinned
  <2>6. Others(g) \subseteq DOMAIN g
    BY DEF Others
  <2>7. Cardinality(Others(g)) <= Limit
    BY <1>2, <1>4, <2>3, <2>6, Smaller
  <2> QED BY <2>5, <2>7 DEF OthersBounded, g
<1>6. CASE o.name = "pin"
  <2>1. g = Reweighted(h, o.ids, PinThreshold) /\ PinThreshold \in Nat
    BY <1>6 DEF Effect, PinThreshold
  <2> HIDE DEF g
  <2>2. /\ DOMAIN g = DOMAIN h
        /\ \A i \in DOMAIN h : /\ g[i].kind = h[i].kind /\ g[i].scope = h[i].scope
                               /\ g[i].imp \in {h[i].imp, PinThreshold}
    BY <2>1, ReweightedHistory
  <2>3. Profiles(g) = Profiles(h) /\ Others(g) = Others(h)
    BY <2>2 DEF Profiles, Others
  <2>4. ProfilesPinned(g)
    BY <1>2, <2>2, <2>3 DEF ProfilesPinned, Profiles, Pinned, PinThreshold
  <2> QED BY <1>2, <2>3, <2>4 DEF OthersBounded, g
<1>12. CASE o.name = "unpin"
  <2>1. g = Reweighted(h, o.ids, Normal) /\ Normal \in Nat
    BY <1>12 DEF Effect, Normal
  <2> HIDE DEF g
  <2>2. /\ DOMAIN g = DOMAIN h
        /\ \A i \in DOMAIN h : g[i].kind = h[i].kind /\ g[i].scope = h[i].scope
    BY <2>1, ReweightedHistory
  <2>3. Profiles(g) = Profiles(h) /\ Others(g) = Others(h)
    BY <2>2 DEF Profiles, Others
  <2>4. ProfilesPinned(g)
    BY <1>2, <1>12, <2>2, <2>3 DEF ProfilesPinned, Profiles
  <2> QED BY <1>2, <2>3, <2>4 DEF OthersBounded, g
<1>7. CASE o.name = "reinforce"
  <2>1. g = Reinforced(h, o.ids)
    BY <1>7 DEF Effect
  <2> HIDE DEF g
  <2>2. /\ DOMAIN g = DOMAIN h
        /\ \A i \in DOMAIN h : /\ g[i].kind = h[i].kind /\ g[i].scope = h[i].scope
                               /\ g[i].imp = h[i].imp
    BY <2>1, ReinforcedHistory
  <2>3. Profiles(g) = Profiles(h) /\ Others(g) = Others(h)
    BY <2>2 DEF Profiles, Others
  <2>4. ProfilesPinned(g)
    BY <1>2, <2>2, <2>3 DEF ProfilesPinned, Profiles, Pinned
  <2> QED BY <1>2, <2>3, <2>4 DEF OthersBounded, g
<1>8. CASE o.name = "forget"
  <2> DEFINE gone == Forgettable(h, now, o.kinds, o.before, o.expired)
  <2>1. g = Without(h, gone)
    BY <1>8 DEF Effect
  <2> HIDE DEF g, gone
  <2>2. /\ DOMAIN Without(h, gone) = DOMAIN h \ gone
        /\ \A i \in DOMAIN h \ gone : Without(h, gone)[i] = h[i]
    BY WithoutHistory
  <2>3. ProfilesPinned(g) /\ Others(g) \subseteq Others(h)
    BY <1>2, <2>1, <2>2 DEF ProfilesPinned, Profiles, Others
  <2>4. Cardinality(Others(g)) <= Limit
    BY <1>2, <2>3, Smaller
  <2> QED BY <2>3, <2>4 DEF OthersBounded, g
<1>9. CASE o.name = "consolidate"
  <2> DEFINE p == Purge(h, now)
             old == Candidates(p)
  <2>1. old # {}
    BY <1>9, SomethingToSummarise
  <2>2. IsHistory(p) /\ DOMAIN p \subseteq DOMAIN h /\ \A i \in DOMAIN p : p[i] = h[i]
    <3>1. {i \in DOMAIN h : ~Expired(h[i], now)} \in SUBSET DOMAIN h
      OBVIOUS
    <3> QED BY <3>1, RestrictHistory DEF Purge
  <2>3. g = Consolidated(p, id)
    BY <1>9 DEF Effect
  <2>4. old \subseteq DOMAIN h /\ \A i \in old : ~Pinned(h[i])
    BY <2>2 DEF Candidates
  <2>14. Cardinality(old) >= MinCandidates
    BY <1>9 DEF Applies
  <2> HIDE DEF p, g, id
  <2>5. /\ DOMAIN g = (DOMAIN p \ old) \cup {id}
        /\ \A i \in DOMAIN g \ {id} : Same(g[i], p[i])
        /\ g[id].kind = "summary"
    BY <1>1, <2>1, <2>2, <2>3, ConsolidatedHistory
  <2> HIDE DEF old
  <2>6. ProfilesPinned(g)
    BY <1>2, <2>2, <2>5 DEF ProfilesPinned, Profiles, Same, Pinned
  <2>7. Others(g) \subseteq (Others(h) \ old) \cup {id}
    BY <2>2, <2>5 DEF Others, Profiles, Same
  <2>8. PICK x \in old : x \in Others(h)
    <3>1. SUFFICES ASSUME \A x \in old : x \notin Others(h) PROVE FALSE
      OBVIOUS
    <3>2. old \subseteq Profiles(h)
      BY <2>4, <3>1 DEF Others
    <3>3. CASE "unpin" \notin Calls
      BY <1>2, <2>1, <2>4, <3>2, <3>3 DEF ProfilesPinned
    <3>4. CASE MinCandidates > Cardinality(Scopes)
      <4>1. /\ IsFiniteSet(Profiles(h))
            /\ Cardinality(Profiles(h)) <= Cardinality(Scopes)
        BY <1>2, FewProfiles
      <4>2. IsFiniteSet(old) /\ Cardinality(old) <= Cardinality(Profiles(h))
        BY <3>2, <4>1, FS_Subset
      <4>3. /\ Cardinality(old) \in Nat /\ Cardinality(Profiles(h)) \in Nat
            /\ Cardinality(Scopes) \in Nat /\ MinCandidates \in Nat
        BY <4>1, <4>2, FS_CardinalityType, MinCandidatesAssumption
      <4> QED BY <2>14, <3>4, <4>1, <4>2, <4>3
    <3> QED BY <3>3, <3>4 DEF SummariesReplace
  <2>9. /\ IsFiniteSet(Others(h) \ {x})
        /\ Cardinality(Others(h) \ {x}) = Cardinality(Others(h)) - 1
    BY <1>2, <2>8, FS_RemoveElement
  <2>10. /\ IsFiniteSet((Others(h) \ {x}) \cup {id})
         /\ Cardinality((Others(h) \ {x}) \cup {id}) <= Cardinality(Others(h))
    <3>1. /\ IsFiniteSet((Others(h) \ {x}) \cup {id})
          /\ \/ Cardinality((Others(h) \ {x}) \cup {id}) = Cardinality(Others(h) \ {x})
             \/ Cardinality((Others(h) \ {x}) \cup {id}) = Cardinality(Others(h) \ {x}) + 1
      BY <2>9, FS_AddElement
    <3>2. Cardinality(Others(h)) \in Nat
      BY <1>2, FS_CardinalityType
    <3> QED BY <2>9, <3>1, <3>2
  <2>11. Others(g) \subseteq (Others(h) \ {x}) \cup {id}
    BY <2>7, <2>8
  <2>12. Cardinality((Others(h) \ {x}) \cup {id}) <= Limit
    <3>1. /\ Cardinality((Others(h) \ {x}) \cup {id}) \in Nat
          /\ Cardinality(Others(h)) \in Nat
      BY <1>2, <2>10, FS_CardinalityType
    <3> QED BY <1>2, <2>10, <3>1
  <2>13. Cardinality(Others(g)) <= Limit
    BY <1>2, <2>10, <2>11, <2>12, Smaller
  <2> QED BY <2>6, <2>13 DEF OthersBounded, g
<1>10. CASE o.name = "profile"
  <2> DEFINE c == o.scope
  <2>0. id \in Nat /\ c \in Scopes \cup {NoScope}
    BY <1>1, <1>10
  <2>c. c \in Scopes
    BY <1>10
  <2>1. g = ProfileSet(h, id, c, now)
    BY <1>10 DEF Effect
  <2> HIDE DEF g, id, c
  <2> DEFINE f == ProfileSet(h, id, c, now)
  <2>2. /\ DOMAIN f = (DOMAIN h \ ScopeProfiles(h, c)) \cup {id}
        /\ \A i \in DOMAIN h \ ScopeProfiles(h, c) : i # id => f[i] = h[i]
        /\ Same(f[id], ProfileEntry(c, now))
    BY <2>0, ProfileSetEntries, Zenon
  <2> HIDE DEF f
  <2>15. g = f
    BY <2>1 DEF f
  <2>3. f[id].kind = "profile" /\ f[id].imp = PinThreshold /\ f[id].scope = c
    BY <2>2 DEF Same, ProfileEntry
  <2>4. Pinned(f[id])
    BY <2>3 DEF Pinned, PinThreshold
  <2>5. ProfilesPinned(g)
    BY <1>2, <2>c, <2>2, <2>3, <2>4, <2>15 DEF ProfilesPinned, Profiles
  <2>6. Others(g) \subseteq Others(h)
    BY <2>2, <2>3, <2>15 DEF Others, Profiles
  <2>7. Cardinality(Others(g)) <= Limit
    BY <1>2, <2>6, Smaller
  <2> QED BY <2>5, <2>7 DEF OthersBounded, g
<1>11. o.name \in {"append", "pin", "unpin", "reinforce", "forget", "consolidate", "profile"}
  BY DEF Applies
<1> QED BY <1>5, <1>6, <1>7, <1>8, <1>9, <1>10, <1>11, <1>12

LEMMA SizeFromParts ==
  ASSUME AreaInv, OthersBounded(history), OneProfilePerScope, IsFiniteSet(Scopes)
  PROVE  SizeBound
<1> DEFINE P == Profiles(history)
           Q == Others(history)
<1>1. /\ IsFiniteSet(DOMAIN history) /\ P \subseteq DOMAIN history
      /\ Q \subseteq DOMAIN history /\ DOMAIN history = P \cup Q /\ P \cap Q = {}
  BY DEF AreaInv, AreaTypeOK, IsHistory, Profiles, Others
<1>2. IsFiniteSet(P) /\ IsFiniteSet(Q)
  BY <1>1, FS_Subset
<1>5. Cardinality(P) <= Cardinality(Scopes)
  <2>1. IsHistory(history) /\ ProfilesPinned(history) /\ SingleProfiles(history)
    BY DEF AreaInv, AreaTypeOK, OthersBounded, OneProfilePerScope, SingleProfiles
  <2> QED BY <2>1, FewProfiles
<1> HIDE DEF P, Q
<1>6. Cardinality(P \cup Q) = Cardinality(P) + Cardinality(Q) - Cardinality(P \cap Q)
  BY <1>2, FS_Union
<1>7. Cardinality(P \cap Q) = 0
  BY <1>1, FS_EmptySet
<1>8. Cardinality(P) \in Nat /\ Cardinality(Q) \in Nat /\ Cardinality(Scopes) \in Nat
  BY <1>2, FS_CardinalityType
<1>9. Cardinality(Q) <= Limit
  BY DEF OthersBounded, Q
<1> QED BY <1>1, <1>5, <1>6, <1>7, <1>8, <1>9, LimitAssumption DEF SizeBound

(* The history never holds more than the limit and one profile per scope,  *)
(* provided no caller unpins, or a summary needs more entries than there   *)
(* can be profiles (min_candidates is 3 by default).                       *)
THEOREM HistoryIsBounded ==
  ASSUME SummariesReplace, IsFiniteSet(Scopes)
  PROVE  AreaSpec => []SizeBound
<1>1. AreaInit => OthersBounded(history)
  <2> SUFFICES ASSUME AreaInit PROVE OthersBounded(history)
    OBVIOUS
  <2>1. DOMAIN history = {}
    BY DEF AreaInit, Init
  <2>2. Profiles(history) = {} /\ Others(history) = {}
    BY <2>1 DEF Profiles, Others
  <2>3. Cardinality(Others(history)) = 0
    BY <2>2, FS_EmptySet
  <2> QED BY <2>2, <2>3, LimitAssumption DEF OthersBounded, ProfilesPinned
<1>2. /\ AreaInv /\ OneProfilePerScope /\ [AreaNext]_vars /\ OthersBounded(history)
      => OthersBounded(history)'
  <2> SUFFICES ASSUME AreaInv, OneProfilePerScope, [AreaNext]_vars, OthersBounded(history),
                      history' # history
               PROVE  OthersBounded(history')
    BY DEF OthersBounded, ProfilesPinned, Others, Profiles
  <2>1. PICK t \in Tasks :
          /\ fourd \in BOOLEAN /\ op[t] \in Op /\ IsHistory(history) /\ seen[t] \in Nat
          /\ op[t].name \in Calls
          /\ op[t].name = "profile" => op[t].scope \in Scopes
          /\ Applies(op[t], history, seen[t])
          /\ history' = Effect(op[t], history, seen[t], fourd)
    BY HistoryChange
  <2> DEFINE o == op[t]
             now == seen[t]
  <2>2. SingleProfiles(history)
    BY DEF OneProfilePerScope, SingleProfiles
  <2>3. /\ o \in Op /\ now \in Nat /\ Applies(o, history, now) /\ o.name \in Calls
        /\ o.name = "profile" => o.scope \in Scopes
        /\ history' = Effect(o, history, now, fourd)
    BY <2>1
  <2> HIDE DEF o, now
  <2>4. OthersBounded(Effect(o, history, now, fourd))
    BY <2>1, <2>2, <2>3, EffectOthers
  <2> QED BY <2>3, <2>4
<1>3. AreaInv /\ OthersBounded(history) /\ OneProfilePerScope => SizeBound
  BY SizeFromParts
<1> QED BY <1>1, <1>2, <1>3, AreaInvariant, ProfilesAreSingle, PTL DEF AreaSpec

----------------------------------------------------------------------------
(* The id of a call in progress belongs to no entry and to no other call.  *)
FreshIds ==
  \A t \in Tasks : op[t] # Idle =>
    /\ op[t].id \notin DOMAIN history
    /\ \A u \in Tasks \ {t} : op[u] # Idle => op[u].id # op[t].id

LEMMA FreshIdsStep == AreaInv /\ FreshIds /\ [AreaNext]_vars => FreshIds'
<1> SUFFICES ASSUME AreaInv, FreshIds, [AreaNext]_vars PROVE FreshIds'
  OBVIOUS
<1>1. /\ clock \in Nat /\ op \in [Tasks -> Op] /\ DOMAIN history \subseteq 1..clock
      /\ \A u \in Tasks : op[u] # Idle => op[u].id \in Nat /\ op[u].id <= clock
      /\ seen \in [Tasks -> Nat]
  BY DEF AreaInv, AreaTypeOK, Stage, Op
<1>2. ASSUME NEW t \in Tasks, CallOperation(t) PROVE FreshIds'
  <2>1. PICK o \in CallsAt(clock') : op' = [op EXCEPT ![t] = o]
    BY <1>2 DEF CallOperation, Invoke
  <2>2. clock' = clock + 1 /\ history' = history
    BY <1>2 DEF CallOperation, Invoke
  <2>3. o.id = clock + 1
    BY <1>1, <2>1, <2>2, CallType
  <2>4. \A u \in Tasks : op'[u] = IF u = t THEN o ELSE op[u]
    BY <1>1, <2>1
  <2>5. \A u \in Tasks \ {t} : op[u] # Idle => op[u].id # o.id
    BY <1>1, <2>3
  <2>6. o.id \notin DOMAIN history
    BY <1>1, <2>3
  <2> QED BY <2>2, <2>4, <2>5, <2>6 DEF FreshIds
<1>3. CASE history' # history
  <2>1. PICK t \in Tasks : SetHistory(t) \/ ModelAnswers(t)
    BY <1>3 DEF AreaNext, vars, Step, CallOperation, Invoke, GetHistory, AskModel,
           ReturnUnchanged, ModelFails, Cancel, SetFourDEnabled, SetFourD
  <2>2. /\ pc[t] \in {"got", "a4"} /\ Applies(op[t], snap[t], seen[t])
        /\ history' = Effect(op[t], snap[t], seen[t], fourd)
        /\ op' = [op EXCEPT ![t] = Idle] /\ op[t] # Idle
    BY <2>1 DEF SetHistory, ModelAnswers, Finish, AreaInv, Stage
  <2>3. DOMAIN history' \subseteq DOMAIN history \cup {op[t].id}
    BY <2>2, WriteTyped
  <2>4. \A u \in Tasks : op'[u] = IF u = t THEN Idle ELSE op[u]
    BY <1>1, <2>2
  <2> QED BY <2>2, <2>3, <2>4 DEF FreshIds
<1>4. ASSUME history' = history, NEW t \in Tasks, op' = [op EXCEPT ![t] = Idle]
      PROVE  FreshIds'
  <2>1. \A u \in Tasks : op'[u] = IF u = t THEN Idle ELSE op[u]
    BY <1>1, <1>4
  <2> QED BY <1>4, <2>1 DEF FreshIds
<1>5. CASE history' = history /\ op' = op
  BY <1>5 DEF FreshIds
<1> QED
  BY <1>2, <1>3, <1>4, <1>5 DEF AreaNext, vars, Step, GetHistory, AskModel, Finish,
     ReturnUnchanged, SetHistory, ModelAnswers, ModelFails, Cancel,
     SetFourDEnabled, SetFourD

LEMMA IdsAreFresh == AreaSpec => []FreshIds
<1>1. AreaInit => FreshIds
  BY DEF AreaInit, Init, FreshIds
<1> QED BY <1>1, FreshIdsStep, AreaInvariant, PTL DEF AreaSpec

----------------------------------------------------------------------------
LEMMA ExpiredLater ==
  ASSUME NEW e \in Entry, NEW now \in Nat, NEW later \in Nat, now <= later,
         Expired(e, now)
  PROVE  Expired(e, later)
BY DEF Expired, Entry

(* An append loses an unexpired pin only when the pins reach the limit,    *)
(* and any unexpired entry only when the history does.                     *)
LEMMA AppendKeeps ==
  ASSUME NEW h, IsHistory(h), NEW id \in Nat, id \notin DOMAIN h, NEW e \in Entry,
         NEW now \in Nat, NEW mode \in BOOLEAN,
         NEW i \in DOMAIN h, ~Expired(h[i], now)
  PROVE  /\ Pinned(h[i]) /\ Cardinality(Pins(h)) < Limit
              => i \in DOMAIN Appended(h, id, e, now, mode)
         /\ Cardinality(DOMAIN h) < Limit
              => i \in DOMAIN Appended(h, id, e, now, mode)
<1> DEFINE p == Purge(h, now)
           a == AppendEntry(p, id, e)
           g == Evict(a, now, mode)
<1>1. /\ IsHistory(p) /\ DOMAIN p \subseteq DOMAIN h
      /\ \A j \in DOMAIN p : p[j] = h[j]
      /\ i \in DOMAIN p
  <2>1. {j \in DOMAIN h : ~Expired(h[j], now)} \in SUBSET DOMAIN h
    OBVIOUS
  <2> QED BY <2>1, RestrictHistory DEF Purge
<1> HIDE DEF p
<1>2. IsHistory(a) /\ DOMAIN a = DOMAIN p \cup {id}
  BY <1>1, AppendEntryHistory
<1>3. \A j \in DOMAIN p : a[j] = h[j]
  BY <1>1, <1>2 DEF AppendEntry, With
<1>4. /\ IsFiniteSet(DOMAIN h) /\ IsFiniteSet(Pins(h)) /\ Limit \in Nat
      /\ Cardinality(DOMAIN h) \in Nat /\ Cardinality(Pins(h)) \in Nat
  <2>1. Pins(h) \subseteq DOMAIN h /\ IsFiniteSet(DOMAIN h)
    BY DEF Pins, IsHistory
  <2> QED BY <2>1, FS_Subset, FS_CardinalityType, LimitAssumption
<1> HIDE DEF a
<1>5. g = Appended(h, id, e, now, mode)
  BY DEF Appended, a, p
<1>6. ASSUME Pinned(h[i]), Cardinality(Pins(h)) < Limit PROVE i \in DOMAIN g
  <2>1. Pins(a) \subseteq Pins(h) \cup {id} /\ i \in Pins(a)
    BY <1>1, <1>2, <1>3, <1>6 DEF Pins
  <2>2. /\ IsFiniteSet(Pins(h) \cup {id})
        /\ Cardinality(Pins(h) \cup {id}) <= Limit
    <3>1. /\ IsFiniteSet(Pins(h) \cup {id})
          /\ \/ Cardinality(Pins(h) \cup {id}) = Cardinality(Pins(h))
             \/ Cardinality(Pins(h) \cup {id}) = Cardinality(Pins(h)) + 1
      BY <1>4, FS_AddElement
    <3> QED BY <1>4, <1>6, <3>1
  <2>3. Cardinality(Pins(a)) <= Limit
    BY <1>4, <2>1, <2>2, Smaller
  <2>4. Pins(a) \subseteq DOMAIN g
    BY <1>2, <2>3, EvictHistory
  <2> QED BY <2>1, <2>4
<1>7. ASSUME Cardinality(DOMAIN h) < Limit PROVE i \in DOMAIN g
  <2>1. DOMAIN a \subseteq DOMAIN h \cup {id} /\ i \in DOMAIN a
    BY <1>1, <1>2
  <2>2. /\ IsFiniteSet(DOMAIN h \cup {id})
        /\ Cardinality(DOMAIN h \cup {id}) <= Limit
    <3>1. /\ IsFiniteSet(DOMAIN h \cup {id})
          /\ Cardinality(DOMAIN h \cup {id}) = Cardinality(DOMAIN h) + 1
      BY <1>4, FS_AddElement
    <3> QED BY <1>4, <1>7, <3>1
  <2>3. Cardinality(DOMAIN a) <= Limit
    BY <1>4, <2>1, <2>2, Smaller
  <2>4. g = a
    BY <2>3 DEF Evict
  <2> QED BY <2>1, <2>4
<1> QED BY <1>5, <1>6, <1>7

(* A finishing call removes only what it may, whatever has happened since  *)
(* it was made.                                                            *)
LEMMA RemovalsAllowed ==
  ASSUME NEW o \in Op, IsHistory(history), o.id \notin DOMAIN history,
         NEW now \in Nat, clock \in Nat, now <= clock, NEW mode \in BOOLEAN,
         Applies(o, history, now),
         NEW i \in DOMAIN history, i \notin DOMAIN Effect(o, history, now, mode)
  PROVE  /\ MayRemove(o, i)
         /\ Pinned(history[i]) =>
              \/ Expired(history[i], clock)
              \/ Cardinality(Pins(history)) >= Limit
              \/ o.name \in {"forget", "profile"}
<1> DEFINE g == Effect(o, history, now, mode)
           id == o.id
           e == history[i]
<1>1. /\ id \in Nat /\ o.imp \in Nat /\ o.exp \in Nat /\ Limit \in Nat
      /\ o.scope \in Scopes \cup {NoScope}
      /\ e \in Entry
  BY LimitAssumption DEF Op, IsHistory
<1>2. Expired(e, now) => Expired(e, clock)
  BY <1>1, ExpiredLater
<1>3. CASE o.name = "append"
  <2>1. TurnEntry(o) \in Entry
    BY <1>1 DEF TurnEntry, Entry, AllKinds, Kinds
  <2>2. g = Appended(history, id, TurnEntry(o), now, mode)
    BY <1>3 DEF Effect
  <2>3. \/ Expired(e, now)
        \/ /\ ~(Cardinality(DOMAIN history) < Limit)
           /\ Pinned(e) => ~(Cardinality(Pins(history)) < Limit)
    BY <1>1, <2>1, <2>2, AppendKeeps
  <2>4. Cardinality(DOMAIN history) \in Nat /\ Cardinality(Pins(history)) \in Nat
    <3>1. IsFiniteSet(DOMAIN history) /\ Pins(history) \subseteq DOMAIN history
      BY DEF IsHistory, Pins
    <3> QED BY <3>1, FS_Subset, FS_CardinalityType
  <2>5. \/ Expired(e, clock)
        \/ /\ Cardinality(DOMAIN history) >= Limit
           /\ Pinned(e) => Cardinality(Pins(history)) >= Limit
    BY <1>1, <1>2, <2>3, <2>4
  <2> QED BY <1>3, <2>5 DEF MayRemove
<1>4. CASE o.name \in {"pin", "unpin"}
  <2>1. PICK imp \in Nat : g = Reweighted(history, o.ids, imp)
    BY <1>4 DEF Effect, PinThreshold, Normal
  <2> QED BY <2>1 DEF Reweighted
<1>5. CASE o.name = "reinforce"
  <2>1. g = Reinforced(history, o.ids)
    BY <1>5 DEF Effect
  <2> QED BY <2>1 DEF Reinforced
<1>6. CASE o.name = "forget"
  <2>1. g = Without(history, Forgettable(history, now, o.kinds, o.before, o.expired))
    BY <1>6 DEF Effect
  <2>2. i \in Forgettable(history, now, o.kinds, o.before, o.expired)
    BY <2>1 DEF Without, Restrict
  <2>3. \/ e.kind \in o.kinds \/ e.ts < o.before
        \/ o.expired /\ Expired(e, clock)
    BY <1>2, <2>2 DEF Forgettable
  <2> QED BY <1>6, <2>3 DEF MayRemove
<1>7. CASE o.name = "consolidate"
  <2> DEFINE p == Purge(history, now)
  <2>1. Candidates(p) # {}
    BY <1>7, SomethingToSummarise
  <2>2. /\ IsHistory(p) /\ \A j \in DOMAIN p : p[j] = history[j]
        /\ Expired(e, now) \/ i \in DOMAIN p
    <3>1. {j \in DOMAIN history : ~Expired(history[j], now)} \in SUBSET DOMAIN history
      OBVIOUS
    <3> QED BY <3>1, RestrictHistory DEF Purge
  <2>3. g = Consolidated(p, id)
    BY <1>7 DEF Effect
  <2> HIDE DEF p
  <2>4. DOMAIN Consolidated(p, id) = (DOMAIN p \ Candidates(p)) \cup {id}
    BY <1>1, <2>1, <2>2, ConsolidatedHistory
  <2>5. Expired(e, now) \/ i \in Candidates(p)
    BY <2>2, <2>3, <2>4
  <2>6. Expired(e, clock) \/ (~Pinned(e) /\ e.kind # "summary")
    BY <1>2, <2>2, <2>5 DEF Candidates
  <2> QED BY <1>7, <2>6 DEF MayRemove
<1>8. CASE o.name = "profile"
  <2> DEFINE c == o.scope
  <2>1. g = ProfileSet(history, id, c, now)
    BY <1>8 DEF Effect
  <2>2. c \in Scopes \cup {NoScope}
    BY <1>1
  <2>3. i \notin DOMAIN ProfileSet(history, id, c, now)
    BY <2>1
  <2> HIDE DEF c
  <2>4. DOMAIN ProfileSet(history, id, c, now)
          = (DOMAIN history \ ScopeProfiles(history, c)) \cup {id}
    <3>1. IsHistory(history) /\ id \in Nat /\ now \in Nat
      BY <1>1
    <3> QED BY <2>2, <3>1, ProfileSetEntries
  <2>5. i \in ScopeProfiles(history, c)
    BY <2>3, <2>4
  <2> QED BY <1>8, <2>5 DEF MayRemove, ScopeProfiles, c
<1>9. o.name \in {"append", "pin", "unpin", "reinforce", "forget",
                  "consolidate", "profile"}
  BY DEF Applies
<1> QED BY <1>3, <1>4, <1>5, <1>6, <1>7, <1>8, <1>9

LEMMA RemovalStep ==
  ASSUME AreaInv, FreshIds, [AreaNext]_vars, history' # history
  PROVE  \E t \in Tasks :
           /\ Finishes(t)
           /\ \A i \in DOMAIN history \ DOMAIN history' :
                /\ MayRemove(op[t], i)
                /\ Pinned(history[i]) =>
                     \/ Expired(history[i], clock)
                     \/ Cardinality(Pins(history)) >= Limit
                     \/ op[t].name \in {"forget", "profile"}
           /\ DOMAIN history' \ DOMAIN history \subseteq {op[t].id}
<1>1. PICK t \in Tasks :
        /\ Finishes(t) /\ fourd \in BOOLEAN /\ clock \in Nat
        /\ op[t] \in Op /\ IsHistory(history)
        /\ seen[t] \in Nat /\ seen[t] <= clock
        /\ Applies(op[t], history, seen[t])
        /\ history' = Effect(op[t], history, seen[t], fourd)
  BY HistoryChange
<1>2. op[t].id \notin DOMAIN history
  BY <1>1 DEF Finishes, FreshIds
<1> DEFINE o == op[t]
           now == seen[t]
<1>3. /\ o \in Op /\ now \in Nat /\ now <= clock /\ Applies(o, history, now)
      /\ o.id \notin DOMAIN history
      /\ history' = Effect(o, history, now, fourd)
  BY <1>1, <1>2
<1> HIDE DEF o, now
<1>4. \A i \in DOMAIN history \ DOMAIN history' :
        /\ MayRemove(o, i)
        /\ Pinned(history[i]) =>
             \/ Expired(history[i], clock)
             \/ Cardinality(Pins(history)) >= Limit
             \/ o.name \in {"forget", "profile"}
  BY <1>1, <1>3, RemovalsAllowed
<1>5. DOMAIN Effect(o, history, now, fourd) \subseteq DOMAIN history \cup {o.id}
  BY <1>1, <1>3, EffectHistory
<1> QED BY <1>1, <1>3, <1>4, <1>5 DEF o

(* No call loses or brings back the entry of another.                      *)
THEOREM NoForeignEffects == AreaSpec => OnlyOwnEffects
<1> DEFINE A == \E t \in Tasks :
                  /\ Finishes(t)
                  /\ \A i \in DOMAIN history \ DOMAIN history' : MayRemove(op[t], i)
                  /\ DOMAIN history' \ DOMAIN history \subseteq {op[t].id}
<1>1. AreaInv /\ FreshIds /\ [AreaNext]_vars => [A]_history
  BY RemovalStep
<1> QED BY <1>1, AreaInvariant, IdsAreFresh, PTL DEF AreaSpec, OnlyOwnEffects

(* Pinned entries outlive everything but forget, a newer profile, their    *)
(* own expiry, and a history full of pins.                                 *)
THEOREM PinnedEntriesSurvive == AreaSpec => PinsSurvive
<1> DEFINE A == \A i \in Pins(history) \ DOMAIN history' :
                  \/ Expired(history[i], clock)
                  \/ Cardinality(Pins(history)) >= Limit
                  \/ \E t \in Tasks : Finishes(t) /\ op[t].name \in {"forget", "profile"}
<1>1. AreaInv /\ FreshIds /\ [AreaNext]_vars => [A]_history
  BY RemovalStep DEF Pins
<1> QED BY <1>1, AreaInvariant, IdsAreFresh, PTL DEF AreaSpec, PinsSurvive

(* An operation never lowers the use count of an entry it leaves.          *)
LEMMA UsesGrow ==
  ASSUME NEW o \in Op, NEW h, IsHistory(h), o.id \notin DOMAIN h,
         NEW now \in Nat, NEW mode \in BOOLEAN, Applies(o, h, now),
         NEW i \in DOMAIN h, i \in DOMAIN Effect(o, h, now, mode)
  PROVE  Effect(o, h, now, mode)[i].uses >= h[i].uses
<1> DEFINE g == Effect(o, h, now, mode)
           id == o.id
<1>1. /\ id \in Nat /\ o.imp \in Nat /\ o.exp \in Nat /\ i # id
      /\ o.scope \in Scopes \cup {NoScope} /\ h[i].uses \in Nat
  BY DEF Op, IsHistory, Entry
<1>2. CASE o.name = "append"
  <2>1. TurnEntry(o) \in Entry
    BY <1>1 DEF TurnEntry, Entry, AllKinds, Kinds
  <2>2. g = Appended(h, id, TurnEntry(o), now, mode)
    BY <1>2 DEF Effect
  <2> HIDE DEF g, id
  <2>3. Within(g, With(h, id, TurnEntry(o)))
    BY <1>1, <2>1, <2>2, AppendedWithin
  <2>4. With(h, id, TurnEntry(o))[i] = h[i]
    BY <1>1 DEF With
  <2> QED BY <1>1, <2>3, <2>4 DEF Within, Same, g
<1>3. CASE o.name \in {"pin", "unpin"}
  <2>1. PICK imp \in Nat : g = Reweighted(h, o.ids, imp)
    BY <1>3 DEF Effect, PinThreshold, Normal
  <2>2. Reweighted(h, o.ids, imp)[i].uses = h[i].uses
    BY ReweightedHistory
  <2> QED BY <1>1, <2>1, <2>2
<1>4. CASE o.name = "reinforce"
  <2>1. g = Reinforced(h, o.ids)
    BY <1>4 DEF Effect
  <2> QED BY <2>1, ReinforcedHistory
<1>5. CASE o.name = "forget"
  <2>1. PICK ids : g = Without(h, ids)
    BY <1>5 DEF Effect
  <2>2. DOMAIN Without(h, ids) = DOMAIN h \ ids /\ \A j \in DOMAIN h \ ids : Without(h, ids)[j] = h[j]
    BY WithoutHistory
  <2> QED BY <1>1, <2>1, <2>2
<1>6. CASE o.name = "consolidate"
  <2> DEFINE p == Purge(h, now)
  <2>1. Candidates(p) # {}
    BY <1>6, SomethingToSummarise
  <2>2. IsHistory(p) /\ \A j \in DOMAIN p : p[j] = h[j]
    <3>1. {j \in DOMAIN h : ~Expired(h[j], now)} \in SUBSET DOMAIN h
      OBVIOUS
    <3> QED BY <3>1, RestrictHistory DEF Purge
  <2>3. g = Consolidated(p, id)
    BY <1>6 DEF Effect
  <2> HIDE DEF p, g, id
  <2>4. /\ DOMAIN g = (DOMAIN p \ Candidates(p)) \cup {id}
        /\ \A j \in DOMAIN g \ {id} : Same(g[j], p[j])
    BY <1>1, <2>1, <2>2, <2>3, ConsolidatedHistory
  <2> QED BY <1>1, <2>2, <2>4 DEF Same, g
<1>7. CASE o.name = "profile"
  <2> DEFINE c == o.scope
  <2>1. g = ProfileSet(h, id, c, now)
    BY <1>7 DEF Effect
  <2>2. c \in Scopes \cup {NoScope} /\ id \in Nat /\ now \in Nat
    BY <1>1
  <2>3. i \in DOMAIN ProfileSet(h, id, c, now)
    BY <2>1
  <2> HIDE DEF c, id
  <2>4. DOMAIN ProfileSet(h, id, c, now)
          = (DOMAIN h \ ScopeProfiles(h, c)) \cup {id}
    BY <2>2, ProfileSetEntries
  <2>5. i \in DOMAIN h \ ScopeProfiles(h, c)
    BY <1>1, <2>3, <2>4
  <2>6. ProfileSet(h, id, c, now)[i] = h[i]
    BY <1>1, <2>2, <2>5, ProfileSetKeeps
  <2> QED BY <1>1, <2>1, <2>6
<1>8. o.name \in {"append", "pin", "unpin", "reinforce", "forget",
                  "consolidate", "profile"}
  BY DEF Applies
<1> QED BY <1>2, <1>3, <1>4, <1>5, <1>6, <1>7, <1>8

(* consolidate keeps each of the newest entries that has not expired: of   *)
(* those that have not, no more are listed after it than were before.      *)
LEMMA RecentAreKept ==
  ASSUME NEW h, IsHistory(h), NEW id \in Nat, NEW now \in Nat,
         Candidates(Purge(h, now)) # {}, NEW i \in Tail(h), ~Expired(h[i], now)
  PROVE  i \in DOMAIN Consolidated(Purge(h, now), id)
<1> DEFINE p == Purge(h, now)
<1>1. i \in DOMAIN h
  BY DEF Tail
<1>2. /\ IsHistory(p) /\ DOMAIN p \subseteq DOMAIN h /\ i \in DOMAIN p
      /\ \A j \in DOMAIN p : p[j] = h[j]
  <2>1. {j \in DOMAIN h : ~Expired(h[j], now)} \in SUBSET DOMAIN h
    OBVIOUS
  <2> QED BY <1>1, <2>1, RestrictHistory DEF Purge
<1> HIDE DEF p
<1>3. ListedAfter(p, i) \subseteq ListedAfter(h, i)
  BY <1>2 DEF ListedAfter
<1>4. IsFiniteSet(ListedAfter(h, i))
  <2>1. ListedAfter(h, i) \subseteq DOMAIN h /\ IsFiniteSet(DOMAIN h)
    BY DEF ListedAfter, IsHistory
  <2> QED BY <2>1, FS_Subset
<1>5. /\ Cardinality(ListedAfter(p, i)) <= Cardinality(ListedAfter(h, i))
      /\ Cardinality(ListedAfter(p, i)) \in Nat /\ Cardinality(ListedAfter(h, i)) \in Nat
  BY <1>3, <1>4, FS_Subset, FS_CardinalityType
<1>6. Cardinality(ListedAfter(h, i)) < KeepRecent
  BY DEF Tail
<1>7. i \in Tail(p)
  BY <1>2, <1>5, <1>6, KeepRecentAssumption DEF Tail
<1>8. i \notin Candidates(p)
  BY <1>7 DEF Candidates
<1>9. DOMAIN Consolidated(p, id) = (DOMAIN p \ Candidates(p)) \cup {id}
  BY <1>2, ConsolidatedHistory DEF p
<1> QED BY <1>2, <1>8, <1>9 DEF p

(* What a changing history does to those entries. *)
LEMMA UseAndRecencyStep ==
  ASSUME AreaInv, FreshIds, [AreaNext]_vars, history' # history
  PROVE  /\ \A i \in DOMAIN history \cap DOMAIN history' :
              history'[i].uses >= history[i].uses
         /\ \A t \in Tasks : Finishes(t) /\ op[t].name = "consolidate" =>
              \A i \in Tail(history) : Expired(history[i], clock) \/ i \in DOMAIN history'
<1>1. PICK t \in Tasks :
        /\ Finishes(t) /\ fourd \in BOOLEAN /\ clock \in Nat
        /\ \A u \in Tasks : Finishes(u) => u = t
        /\ op[t] \in Op /\ IsHistory(history)
        /\ seen[t] \in Nat /\ seen[t] <= clock
        /\ Applies(op[t], history, seen[t])
        /\ history' = Effect(op[t], history, seen[t], fourd)
  BY HistoryChange
<1>2. op[t].id \notin DOMAIN history
  BY <1>1 DEF Finishes, FreshIds
<1> DEFINE o == op[t]
           now == seen[t]
<1>3. /\ o \in Op /\ now \in Nat /\ now <= clock /\ Applies(o, history, now)
      /\ o.id \notin DOMAIN history
      /\ history' = Effect(o, history, now, fourd)
  BY <1>1, <1>2
<1> HIDE DEF o, now
<1>4. \A i \in DOMAIN history \cap DOMAIN history' : history'[i].uses >= history[i].uses
  BY <1>1, <1>3, UsesGrow
<1>5. ASSUME o.name = "consolidate", NEW i \in Tail(history), ~Expired(history[i], clock)
      PROVE  i \in DOMAIN history'
  <2>1. Candidates(Purge(history, now)) # {}
    BY <1>3, <1>5, SomethingToSummarise
  <2>2. ~Expired(history[i], now)
    <3>1. history[i] \in Entry
      BY <1>1 DEF Tail, IsHistory
    <3> QED BY <1>1, <1>3, <1>5, <3>1, ExpiredLater
  <2>3. o.id \in Nat
    BY <1>3 DEF Op
  <2>4. history' = Consolidated(Purge(history, now), o.id)
    BY <1>3, <1>5 DEF Effect
  <2> QED BY <1>1, <1>3, <2>1, <2>2, <2>3, <2>4, RecentAreKept
<1> QED BY <1>1, <1>4, <1>5 DEF o

(* The use ledger of an entry only grows.                                  *)
THEOREM UsesStay == AreaSpec => UsesNeverForgotten
<1> DEFINE A == \A i \in DOMAIN history \cap DOMAIN history' :
                  history'[i].uses >= history[i].uses
<1>1. AreaInv /\ FreshIds /\ [AreaNext]_vars => [A]_history
  BY UseAndRecencyStep
<1> QED BY <1>1, AreaInvariant, IdsAreFresh, PTL DEF AreaSpec, UsesNeverForgotten

(* consolidate leaves the newest entries of the moment it writes.          *)
THEOREM RecentEntriesStay == AreaSpec => RecentSurviveConsolidation
<1> DEFINE A == \A t \in Tasks : Finishes(t) /\ op[t].name = "consolidate" =>
                  \A i \in Tail(history) : Expired(history[i], clock) \/ i \in DOMAIN history'
<1>1. AreaInv /\ FreshIds /\ [AreaNext]_vars => [A]_history
  BY UseAndRecencyStep
<1> QED BY <1>1, AreaInvariant, IdsAreFresh, PTL DEF AreaSpec, RecentSurviveConsolidation

(* The four promises an entry may rely on (base.py:236-291, 771, 851, 893). *)
THEOREM EntriesStayKept == AreaSpec => EntriesAreKept
BY NoForeignEffects, PinnedEntriesSurvive, UsesStay, RecentEntriesStay DEF EntriesAreKept

(* The state a task finds under the lock (base.py:349, 1202-1218): typed,  *)
(* read afresh, with one profile to a scope.                               *)
THEOREM AreaStaysConsistent == AreaSpec => []AreaIsConsistent
<1>1. AreaTypeOK /\ SnapshotCurrent /\ OneProfilePerScope => AreaIsConsistent
  BY DEF AreaIsConsistent
<1> QED BY <1>1, AreaTypeCorrect, SnapshotIsCurrent, ProfilesAreSingle, PTL

-----------------------------------------------------------------------------
(***************************************************************************)
(* The passes of the hooks, MemoryPasses: any number of conversations,     *)
(* whatever A4 answers, and whoever disconnects.                           *)
(***************************************************************************)

(* Where a conversation is, and what its pass holds there.                 *)
PassPlacesOK ==
  \A t \in Conversations :
    /\ at[t] = "idle" => phase[t] = "gate"
    /\ phase[t] = "a4" => at[t] \in {"annotate", "extract", "profile", "evolve"}
    /\ phase[t] = "store" => at[t] = "extract" /\ job[t].left \in 1..MaxFacts
    /\ phase[t] = "read" => job[t].todo = {}
    /\ job[t].src \subseteq 1..time

(* Of a source that only one extraction had read there are facts of one    *)
(* pass at most, and none of it until that pass stores them.               *)
MinedOK ==
  /\ \A t \in UnderWay("extract"), f \in OfKind(mom1, "fact") :
       ~(from[f] \cap job[t].src \subseteq excused.sources) =>
         phase[t] = "store" /\ from[f] = job[t].src /\ mom1[f].ts = job[t].now
  /\ \A t, u \in UnderWay("extract") : t # u => job[t].src \cap job[u].src \subseteq excused.sources
  /\ SourcesMinedOnce

(* A rule has an intent that nobody is about to make a rule for, unless    *)
(* two evolutions had it.  Nobody is annotating a rule.                    *)
RulesOK ==
  /\ \A c \in OfKind(mom1, "case") : intent[c] \in Intents
  /\ \A t \in Conversations, c \in OfKind(mom1, "case") :
       at[t] = "annotate" /\ phase[t] = "a4" => c \notin job[t].src
  /\ \A t \in UnderWay("evolve"), c \in OfKind(mom1, "case") :
       intent[c] \in job[t].todo => intent[c] \in excused.intents
  /\ \A t, u \in UnderWay("evolve") : t # u => job[t].todo \cap job[u].todo \subseteq excused.intents
  /\ OneRulePerIntent

(* A turn that is not in the prompt of the profile being made has been in  *)
(* one before, or is excused.  A profile is as old as its time says.        *)
FoldedOK ==
  /\ \A t \in UnderWay("profile") :
       OfKind(mom1, "turn") \subseteq job[t].src \cup sourced \cup excused.turns
  /\ \A p \in Current(mom1) : mom1[p].ts <= time
  /\ DeltaMissesNothing

(* The inductive invariant of the passes. *)
PassInv == TypeOK /\ PassPlacesOK /\ MinedOK /\ RulesOK /\ FoldedOK

Default == CHOOSE s \in Scopes : TRUE

LEMMA PassConstants ==
  /\ MaxTime \in Nat /\ MaxFacts \in Nat /\ FourD \in BOOLEAN /\ Default \in Scopes
  /\ NoIntent \notin Intents /\ Ids = 1..MaxTime /\ MinCandidates \in Nat \ {0}
BY SwitchesAssumption, WindowAssumption, ScopesAssumption, IntentsAssumption,
   MinCandidatesAssumption DEF Default, Ids

(* What the passes look at in an entry.                                    *)
Alike(a, b) == a.ts = b.ts /\ a.kind = b.kind /\ a.scope = b.scope

(* g has no entries but some of h and, perhaps, one with the id n.         *)
Grown(g, h, n) ==
  /\ DOMAIN g \subseteq DOMAIN h \cup {n}
  /\ \A i \in DOMAIN g \ {n} : Alike(g[i], h[i])

(* The history in a state that is type correct.                            *)
LEMMA MomType ==
  ASSUME TypeOK
  PROVE  /\ IsHistory(mom1) /\ DOMAIN mom1 \subseteq 1..time /\ time \in Nat
         /\ time + 1 \notin DOMAIN mom1 /\ time + 1 \in Nat
<1>1. time \in Nat /\ DOMAIN mom1 \subseteq 1..time /\ mom1 \in [DOMAIN mom1 -> Entry]
  BY PassConstants DEF TypeOK
<1>2. IsFiniteSet(DOMAIN mom1)
  BY <1>1, FS_Interval, FS_Subset
<1> QED BY <1>1, <1>2 DEF IsHistory

LEMMA NewEntryType ==
  ASSUME NEW kind \in AllKinds, NEW now \in Nat
  PROVE  NewEntry(kind, now) \in Entry
BY DEF NewEntry, Entry, PinThreshold, Normal, NoExpiry

LEMMA AppendGrows ==
  ASSUME NEW h, IsHistory(h), NEW n \in Nat, NEW e \in Entry, NEW now \in Nat
  PROVE  LET g == Appended(h, n, e, now, FourD)
         IN  /\ IsHistory(g) /\ Grown(g, h, n)
             /\ n \in DOMAIN g => Alike(g[n], e)
<1> DEFINE g == Appended(h, n, e, now, FourD)
<1>1. IsHistory(g) /\ Within(g, With(h, n, e))
  BY PassConstants, AppendedHistory, AppendedWithin
<1>2. DOMAIN With(h, n, e) = DOMAIN h \cup {n}
  BY DEF With
<1>3. \A i \in DOMAIN g : With(h, n, e)[i] = IF i = n THEN e ELSE h[i]
  BY <1>1, <1>2 DEF With, Within
<1> HIDE DEF g
<1> QED BY <1>1, <1>2, <1>3 DEF Grown, Within, Same, Alike, g

LEMMA SummaryGrows ==
  ASSUME NEW h, IsHistory(h), NEW n \in Nat, Cardinality(Candidates(h)) >= MinCandidates
  PROVE  LET g == Consolidated(h, n)
         IN  /\ IsHistory(g) /\ Grown(g, h, n)
             /\ n \in DOMAIN g /\ g[n].kind = "summary"
<1> DEFINE g == Consolidated(h, n)
<1>1. Candidates(h) # {}
  BY FS_EmptySet, MinCandidatesAssumption
<1>2. /\ IsHistory(g) /\ DOMAIN g = (DOMAIN h \ Candidates(h)) \cup {n}
      /\ \A i \in DOMAIN g \ {n} : Same(g[i], h[i])
      /\ g[n].kind = "summary"
  BY <1>1, ConsolidatedHistory
<1> HIDE DEF g
<1> QED BY <1>2 DEF Grown, Same, Alike, g

LEMMA ProfileGrows ==
  ASSUME NEW h, IsHistory(h), NEW n \in Nat, n \notin DOMAIN h, NEW now \in Nat
  PROVE  LET g == ProfileSet(h, n, Default, now)
         IN  /\ IsHistory(g) /\ Grown(g, h, n)
             /\ n \in DOMAIN g /\ Alike(g[n], ProfileEntry(Default, now))
             /\ Current(g) = {n}
<1> DEFINE g == ProfileSet(h, n, Default, now)
<1>1. IsHistory(g)
  BY PassConstants, ProfileSetHistory
<1>2. /\ DOMAIN g = (DOMAIN h \ ScopeProfiles(h, Default)) \cup {n}
      /\ \A i \in DOMAIN h \ ScopeProfiles(h, Default) : i # n => g[i] = h[i]
      /\ Same(g[n], ProfileEntry(Default, now))
  BY PassConstants, ProfileSetEntries
<1> HIDE DEF g
<1>3. g[n].kind = "profile" /\ g[n].scope = Default
  BY <1>2 DEF Same, ProfileEntry
<1>4. Current(g) = {n}
  BY <1>2, <1>3 DEF Current, ScopeProfiles, Default
<1> QED BY <1>1, <1>2, <1>4 DEF Grown, Same, Alike, g

LEMMA ForgetGrows ==
  ASSUME NEW h, IsHistory(h), NEW ids, NEW n
  PROVE  IsHistory(Without(h, ids)) /\ Grown(Without(h, ids), h, n)
         /\ DOMAIN Without(h, ids) \subseteq DOMAIN h
<1>1. /\ IsHistory(Without(h, ids)) /\ DOMAIN Without(h, ids) = DOMAIN h \ ids
      /\ \A i \in DOMAIN h \ ids : Without(h, ids)[i] = h[i]
  BY WithoutHistory
<1> QED BY <1>1 DEF Grown, Alike

LEMMA UseGrows ==
  ASSUME NEW h, IsHistory(h), NEW ids, NEW n
  PROVE  IsHistory(Reinforced(h, ids)) /\ Grown(Reinforced(h, ids), h, n)
         /\ DOMAIN Reinforced(h, ids) = DOMAIN h
BY ReinforcedHistory DEF Grown, Alike

(* The entries of a kind are those there were, and the new one if it is of *)
(* that kind; and so are the profiles.                                     *)
LEMMA GrownKinds ==
  ASSUME NEW g, NEW h, NEW n, Grown(g, h, n)
  PROVE  /\ \A k : OfKind(g, k) \ {n} \subseteq OfKind(h, k)
         /\ Current(g) \ {n} \subseteq Current(h)
         /\ \A i \in DOMAIN g \ {n} : g[i].ts = h[i].ts
<1>1. \A i \in DOMAIN g \ {n} : i \in DOMAIN h /\ Alike(g[i], h[i])
  BY DEF Grown
<1> QED BY <1>1 DEF OfKind, Current, ScopeProfiles, Alike

-----------------------------------------------------------------------------
(* What most steps leave as it is: the passes that are under way and what  *)
(* they have read, the entries of a kind, and the current profile.         *)
JobsKept ==
  \A hook \in HookNames : \A u \in UnderWay(hook)' :
    /\ u \in UnderWay(hook) /\ job'[u].src = job[u].src /\ job'[u].todo \subseteq job[u].todo
    /\ phase[u] = "store" => phase'[u] = "store" /\ job'[u].now = job[u].now

KindKept(k) ==
  \A i \in OfKind(mom1', k) : i \in OfKind(mom1, k) /\ mom1'[i].ts = mom1[i].ts

ProfilesKept ==
  \A p \in Current(mom1') : p \in Current(mom1) /\ mom1'[p].ts = mom1[p].ts

LEMMA KeepsKinds ==
  ASSUME Grown(mom1', mom1, time + 1), NEW k,
         time + 1 \in DOMAIN mom1' => mom1'[time + 1].kind # k
  PROVE  KindKept(k) /\ (k = "profile" => ProfilesKept)
<1>1. /\ OfKind(mom1', k) \ {time + 1} \subseteq OfKind(mom1, k)
      /\ Current(mom1') \ {time + 1} \subseteq Current(mom1)
      /\ \A i \in DOMAIN mom1' \ {time + 1} : mom1'[i].ts = mom1[i].ts
  BY GrownKinds
<1>2. OfKind(mom1', k) \subseteq DOMAIN mom1' /\ time + 1 \notin OfKind(mom1', k)
  BY DEF OfKind
<1>3. k = "profile" => Current(mom1') \subseteq DOMAIN mom1' /\ time + 1 \notin Current(mom1')
  BY DEF Current, ScopeProfiles
<1> QED BY <1>1, <1>2, <1>3 DEF KindKept, ProfilesKept

LEMMA MinedFrame ==
  ASSUME MinedOK, JobsKept, KindKept("fact"), excused.sources \subseteq excused'.sources,
         \A f \in OfKind(mom1', "fact") : from'[f] = from[f]
  PROVE  MinedOK'
<1>1. \A u \in UnderWay("extract")' :
        /\ u \in UnderWay("extract") /\ job'[u].src = job[u].src
        /\ phase[u] = "store" => phase'[u] = "store" /\ job'[u].now = job[u].now
  BY DEF JobsKept, HookNames
<1>2. \A f \in OfKind(mom1', "fact") :
        f \in OfKind(mom1, "fact") /\ mom1'[f].ts = mom1[f].ts /\ from'[f] = from[f]
  BY DEF KindKept
<1>3. ASSUME NEW u \in UnderWay("extract")', NEW f \in OfKind(mom1', "fact"),
             ~(from'[f] \cap job'[u].src \subseteq excused'.sources)
      PROVE  phase'[u] = "store" /\ from'[f] = job'[u].src /\ mom1'[f].ts = job'[u].now
  <2>1. ~(from[f] \cap job[u].src \subseteq excused.sources)
    BY <1>1, <1>2, <1>3
  <2> QED BY <1>1, <1>2, <2>1 DEF MinedOK
<1>4. ASSUME NEW u \in UnderWay("extract")', NEW v \in UnderWay("extract")', u # v
      PROVE  job'[u].src \cap job'[v].src \subseteq excused'.sources
  BY <1>1, <1>4 DEF MinedOK
<1>5. SourcesMinedOnce'
  BY <1>2 DEF MinedOK, SourcesMinedOnce
<1> QED BY <1>3, <1>4, <1>5 DEF MinedOK

LEMMA RulesFrame ==
  ASSUME RulesOK, JobsKept, KindKept("case"), excused.intents \subseteq excused'.intents,
         \A c \in OfKind(mom1', "case") : intent'[c] = intent[c]
  PROVE  RulesOK'
<1>1. \A hook \in {"annotate", "evolve"} : \A u \in UnderWay(hook)' :
        u \in UnderWay(hook) /\ job'[u].src = job[u].src /\ job'[u].todo \subseteq job[u].todo
  BY DEF JobsKept, HookNames
<1>2. \A c \in OfKind(mom1', "case") : c \in OfKind(mom1, "case") /\ intent'[c] = intent[c]
  BY DEF KindKept
<1>3. \A c \in OfKind(mom1', "case") : intent'[c] \in Intents
  BY <1>2 DEF RulesOK
<1>4. ASSUME NEW u \in Conversations, NEW c \in OfKind(mom1', "case"),
             at'[u] = "annotate", phase'[u] = "a4"
      PROVE  c \notin job'[u].src
  <2>1. u \in UnderWay("annotate")'
    BY <1>4 DEF UnderWay
  <2>2. u \in UnderWay("annotate") /\ job'[u].src = job[u].src
    BY <1>1, <2>1
  <2>3. at[u] = "annotate" /\ phase[u] \in {"a4", "store"}
    BY <2>2 DEF UnderWay
  <2>4. phase[u] # "store"
    BY <1>4, <2>1 DEF JobsKept, HookNames
  <2> QED BY <1>2, <2>2, <2>3, <2>4 DEF RulesOK
<1>5. ASSUME NEW u \in UnderWay("evolve")', NEW c \in OfKind(mom1', "case"),
             intent'[c] \in job'[u].todo
      PROVE  intent'[c] \in excused'.intents
  BY <1>1, <1>2, <1>5 DEF RulesOK
<1>6. ASSUME NEW u \in UnderWay("evolve")', NEW v \in UnderWay("evolve")', u # v
      PROVE  job'[u].todo \cap job'[v].todo \subseteq excused'.intents
  <2>1. job[u].todo \cap job[v].todo \subseteq excused.intents
    BY <1>1, <1>6 DEF RulesOK
  <2>2. job'[u].todo \subseteq job[u].todo /\ job'[v].todo \subseteq job[v].todo
    BY <1>1
  <2> QED BY <2>1, <2>2
<1>7. OneRulePerIntent'
  BY <1>2 DEF RulesOK, OneRulePerIntent
<1> QED BY <1>3, <1>4, <1>5, <1>6, <1>7 DEF RulesOK

(* Time passes, or does not and no entry is added. *)
Ticked ==
  \/ time < MaxTime /\ time' = time + 1
  \/ time' = time /\ DOMAIN mom1' \subseteq DOMAIN mom1

LEMMA TimeGrows ==
  ASSUME TypeOK, Ticked
  PROVE  1..time \subseteq 1..time' /\ time <= time' /\ time' \in Nat /\ time \in Nat
BY PassConstants DEF TypeOK, Ticked

LEMMA CurrentTimes ==
  ASSUME TypeOK
  PROVE  \A p \in Current(mom1) : mom1[p].ts \in Nat
BY DEF TypeOK, Current, ScopeProfiles, Entry

LEMMA FoldedFrame ==
  ASSUME TypeOK, Ticked, FoldedOK, JobsKept, KindKept("turn"), ProfilesKept,
         sourced \subseteq sourced', excused.turns \subseteq excused'.turns
  PROVE  FoldedOK'
<1>1. \A u \in UnderWay("profile")' : u \in UnderWay("profile") /\ job'[u].src = job[u].src
  BY DEF JobsKept, HookNames
<1>2. ASSUME NEW u \in UnderWay("profile")'
      PROVE  OfKind(mom1', "turn") \subseteq job'[u].src \cup sourced' \cup excused'.turns
  <2>1. OfKind(mom1, "turn") \subseteq job[u].src \cup sourced \cup excused.turns
    BY <1>1 DEF FoldedOK
  <2> QED BY <1>1, <2>1 DEF KindKept
<1>3. DeltaMissesNothing'
  BY DEF FoldedOK, DeltaMissesNothing, KindKept, ProfilesKept
<1>4. ASSUME NEW p \in Current(mom1')
      PROVE  mom1'[p].ts <= time'
  <2>1. p \in Current(mom1) /\ mom1'[p].ts = mom1[p].ts
    BY DEF ProfilesKept
  <2>2. mom1[p].ts <= time /\ mom1[p].ts \in Nat
    BY <2>1, CurrentTimes DEF FoldedOK
  <2> QED BY <2>1, <2>2, TimeGrows
<1> QED BY <1>2, <1>3, <1>4 DEF FoldedOK

(* A step that tells the area nothing new. *)
LEMMA QuietStep ==
  ASSUME TypeOK, Ticked, MinedOK, RulesOK, FoldedOK, JobsKept, Grown(mom1', mom1, time + 1),
         time + 1 \in DOMAIN mom1' => mom1'[time + 1].kind = "summary",
         UNCHANGED <<intent, from, sourced, excused>>
  PROVE  (MinedOK /\ RulesOK /\ FoldedOK)'
<1>1. KindKept("fact") /\ KindKept("case") /\ KindKept("turn") /\ ProfilesKept
  BY KeepsKinds
<1> QED BY <1>1, MinedFrame, RulesFrame, FoldedFrame

-----------------------------------------------------------------------------
PlacesTyped ==
  /\ at \in [Conversations -> HookNames \cup {"idle"}]
  /\ phase \in [Conversations -> {"gate", "read", "a4", "store"}]
  /\ job \in [Conversations -> Job]

NotesTyped ==
  /\ intent \in [Ids -> Intents \cup {NoIntent}] /\ from \in [Ids -> SUBSET Ids]
  /\ sourced \subseteq Ids
  /\ excused \in [sources : SUBSET Ids, intents : SUBSET Intents, turns : SUBSET Ids]

LEMMA TypeStep ==
  ASSUME TypeOK, IsHistory(mom1'), Grown(mom1', mom1, time + 1), Ticked, PlacesTyped', NotesTyped'
  PROVE  TypeOK'
<1>1. time \in 0..MaxTime /\ DOMAIN mom1 \subseteq 1..time
  BY DEF TypeOK
<1>2. time' \in 0..MaxTime /\ DOMAIN mom1' \subseteq 1..time'
  BY <1>1, PassConstants DEF Ticked, Grown
<1>3. mom1' \in [DOMAIN mom1' -> Entry]
  BY DEF IsHistory
<1> QED BY <1>2, <1>3 DEF TypeOK, PlacesTyped, NotesTyped

LEMMA TypeParts == TypeOK => PlacesTyped /\ NotesTyped
BY DEF TypeOK, PlacesTyped, NotesTyped

LEMMA NoJobType ==
  /\ NoJob \in Job /\ NoJob.todo = {} /\ NoJob.src = {}
  /\ [NoJob EXCEPT !.requested = TRUE] \in Job
<1>1. NoJob \in Job
  BY PassConstants DEF NoJob, Job
<1>2. [NoJob EXCEPT !.requested = TRUE] \in Job
  <2> HIDE DEF NoJob
  <2> QED BY <1>1 DEF Job
<1> QED BY <1>1, <1>2 DEF NoJob

(* The end of a pass. *)
LEMMA AdvanceKeeps ==
  ASSUME TypeOK, PassPlacesOK, Ticked, NEW t \in Conversations, at[t] # "idle", Advance(t)
  PROVE  PlacesTyped' /\ PassPlacesOK' /\ JobsKept
<1>1. at[t] \in HookNames /\ Following[at[t]] \in HookNames \cup {"idle"}
  BY DEF TypeOK, HookNames, Following
<1>2. PlacesTyped'
  BY <1>1, NoJobType DEF TypeOK, PlacesTyped, Advance
<1>3. /\ phase' = [phase EXCEPT ![t] = "gate"] /\ job' = [job EXCEPT ![t] = NoJob]
      /\ \A u \in Conversations \ {t} : at'[u] = at[u]
  BY DEF Advance, TypeOK
<1>4. PassPlacesOK'
  BY <1>3, TimeGrows DEF PassPlacesOK, TypeOK, NoJob
<1>5. JobsKept
  BY <1>3 DEF JobsKept, UnderWay, TypeOK
<1> QED BY <1>2, <1>4, <1>5

(* A pass goes on. *)
LEMMA GotoKeeps ==
  ASSUME TypeOK, PassPlacesOK, Ticked, NEW t \in Conversations, NEW p, NEW j \in Job,
         Goto(t, p, j), at[t] # "idle", p \in {"read", "a4", "store"}, j.src \subseteq 1..time,
         p = "a4" => at[t] \in {"annotate", "extract", "profile", "evolve"},
         p = "store" => at[t] = "extract" /\ j.left \in 1..MaxFacts,
         p = "read" => j.todo = {}
  PROVE  PlacesTyped' /\ PassPlacesOK'
<1>1. /\ phase' = [phase EXCEPT ![t] = p] /\ job' = [job EXCEPT ![t] = j] /\ at' = at
  BY DEF Goto
<1>2. PlacesTyped'
  BY <1>1 DEF TypeOK, PlacesTyped
<1>3. PassPlacesOK'
  BY <1>1, TimeGrows DEF PassPlacesOK, TypeOK
<1> QED BY <1>2, <1>3

LEMMA GotoKeepsJobs ==
  ASSUME TypeOK, NEW t \in Conversations, NEW p, NEW j \in Job, Goto(t, p, j),
         \/ p = "read"
         \/ /\ phase[t] \in {"a4", "store"} /\ j.src = job[t].src /\ j.todo \subseteq job[t].todo
            /\ phase[t] = "store" => p = "store" /\ j.now = job[t].now
  PROVE  JobsKept
<1>1. /\ phase' = [phase EXCEPT ![t] = p] /\ job' = [job EXCEPT ![t] = j] /\ at' = at
  BY DEF Goto
<1> SUFFICES ASSUME NEW hook \in HookNames, NEW u \in UnderWay(hook)'
             PROVE  /\ u \in UnderWay(hook) /\ job'[u].src = job[u].src
                    /\ job'[u].todo \subseteq job[u].todo
                    /\ phase[u] = "store" => phase'[u] = "store" /\ job'[u].now = job[u].now
  BY DEF JobsKept
<1>2. u \in Conversations /\ at'[u] = hook /\ phase'[u] \in {"a4", "store"}
  BY DEF UnderWay
<1>3. CASE u = t
  <2>1. phase'[t] = p /\ job'[t] = j
    BY <1>1 DEF TypeOK
  <2>2. phase[t] \in {"a4", "store"}
    BY <1>2, <1>3, <2>1
  <2> QED BY <1>1, <1>2, <1>3, <2>1, <2>2 DEF UnderWay
<1>4. CASE u # t
  BY <1>1, <1>2, <1>4 DEF UnderWay, TypeOK
<1> QED BY <1>3, <1>4

LEMMA NoneMoves ==
  ASSUME TypeOK, PassPlacesOK, Ticked, UNCHANGED <<at, phase, job>>
  PROVE  PlacesTyped' /\ PassPlacesOK' /\ JobsKept
<1>1. PassPlacesOK'
  BY TimeGrows DEF PassPlacesOK
<1> QED BY <1>1 DEF TypeOK, PlacesTyped, JobsKept, UnderWay

-----------------------------------------------------------------------------
(* The steps that tell the area nothing new. *)
LEMMA Unread ==
  ASSUME TypeOK, UNCHANGED <<mom1, time>>
  PROVE  /\ IsHistory(mom1') /\ Grown(mom1', mom1, time + 1) /\ Ticked
         /\ time + 1 \notin DOMAIN mom1'
BY MomType DEF Grown, Alike, Ticked

LEMMA GateStep ==
  ASSUME PassInv, NEW t \in Conversations, Gate(t) \/ NothingLearnt(t)
  PROVE  PassInv'
<1>1. TypeOK /\ PassPlacesOK /\ MinedOK /\ RulesOK /\ FoldedOK
  BY DEF PassInv
<1>2. UNCHANGED <<mom1, intent, from, time, sourced, excused>>
  BY DEF Gate, NothingLearnt, area
<1>3. at[t] # "idle"
  BY <1>1 DEF Gate, NothingLearnt, PassPlacesOK
<1>4. /\ IsHistory(mom1') /\ Grown(mom1', mom1, time + 1) /\ Ticked
      /\ time + 1 \notin DOMAIN mom1'
  BY <1>1, <1>2, Unread
<1>5. PlacesTyped' /\ PassPlacesOK' /\ JobsKept
  <2>1. CASE Advance(t)
    BY <1>1, <1>3, <1>4, <2>1, AdvanceKeeps
  <2>2. CASE Goto(t, "read", NoJob)
    <3>1. NoJob.src \subseteq 1..time
      BY DEF NoJob
    <3>2. PlacesTyped' /\ PassPlacesOK'
      BY <1>1, <1>3, <1>4, <2>2, <3>1, NoJobType, GotoKeeps
    <3>3. JobsKept
      BY <1>1, <2>2, NoJobType, GotoKeepsJobs
    <3> QED BY <3>2, <3>3
  <2>3. ASSUME NEW x \in job[t].todo, Goto(t, "a4", [job[t] EXCEPT !.todo = @ \ {x}]),
               NothingLearnt(t), Cardinality(job[t].todo) > 1
        PROVE  PlacesTyped' /\ PassPlacesOK' /\ JobsKept
    <3> DEFINE j == [job[t] EXCEPT !.todo = @ \ {x}]
    <3>1. j \in Job /\ j.src = job[t].src /\ j.todo \subseteq job[t].todo
      BY <1>1 DEF TypeOK, Job
    <3>2. j.src \subseteq 1..time
      BY <1>1, <3>1 DEF PassPlacesOK
    <3>3. phase[t] = "a4"
      <4>1. phase[t] = "read" => Cardinality(job[t].todo) = 0
        BY <1>1, FS_EmptySet DEF PassPlacesOK
      <4> QED BY <2>3, <4>1 DEF NothingLearnt
    <3> HIDE DEF j
    <3>4. at[t] \in {"annotate", "extract", "profile", "evolve"}
      BY <1>1, <3>3 DEF PassPlacesOK
    <3>5. Goto(t, "a4", j)
      BY <2>3 DEF j
    <3>6. PlacesTyped' /\ PassPlacesOK'
      BY <1>1, <1>3, <1>4, <3>1, <3>2, <3>4, <3>5, GotoKeeps
    <3>7. JobsKept
      BY <1>1, <3>1, <3>3, <3>5, GotoKeepsJobs
    <3> QED BY <3>6, <3>7
  <2>4. Advance(t) \/ Goto(t, "read", NoJob) \/ (NothingLearnt(t) /\ ~Advance(t))
    BY DEF Gate
  <2>5. CASE NothingLearnt(t) /\ ~Advance(t)
    <3>1. PICK x \in job[t].todo : Goto(t, "a4", [job[t] EXCEPT !.todo = @ \ {x}])
      BY <2>5 DEF NothingLearnt
    <3>2. Cardinality(job[t].todo) > 1
      BY <2>5 DEF NothingLearnt
    <3> QED BY <2>3, <2>5, <3>1, <3>2
  <2> QED BY <2>1, <2>2, <2>4, <2>5
<1>6. (MinedOK /\ RulesOK /\ FoldedOK)'
  BY <1>1, <1>2, <1>4, <1>5, QuietStep
<1>7. NotesTyped'
  BY <1>1, <1>2 DEF TypeOK, NotesTyped
<1>8. TypeOK'
  BY <1>1, <1>4, <1>5, <1>7, TypeStep
<1> QED BY <1>5, <1>6, <1>8 DEF PassInv

LEMMA SummaryStep ==
  ASSUME PassInv, \/ ManualConsolidate
                  \/ \E t \in Conversations : Consolidate(t)
  PROVE  PassInv'
<1>1. TypeOK /\ PassPlacesOK /\ MinedOK /\ RulesOK /\ FoldedOK
  BY DEF PassInv
<1>2. /\ Cardinality(Candidates(mom1)) >= MinCandidates /\ mom1' = Consolidated(mom1, time')
      /\ time < MaxTime /\ time' = time + 1 /\ UNCHANGED <<intent, from, sourced, excused>>
  BY DEF ManualConsolidate, Consolidate, Tick
<1>3. Ticked
  BY <1>2 DEF Ticked
<1>4. /\ IsHistory(mom1') /\ Grown(mom1', mom1, time + 1)
      /\ time + 1 \in DOMAIN mom1' /\ mom1'[time + 1].kind = "summary"
  BY <1>1, <1>2, MomType, SummaryGrows
<1>5. PlacesTyped' /\ PassPlacesOK' /\ JobsKept
  <2>1. CASE ManualConsolidate
    BY <1>1, <1>3, <2>1, NoneMoves DEF ManualConsolidate
  <2>2. ASSUME NEW t \in Conversations, Consolidate(t)
        PROVE  PlacesTyped' /\ PassPlacesOK' /\ JobsKept
    <3>1. at[t] # "idle" /\ Advance(t)
      BY <2>2 DEF Consolidate
    <3> QED BY <1>1, <1>3, <3>1, AdvanceKeeps
  <2> QED BY <2>1, <2>2
<1>6. (MinedOK /\ RulesOK /\ FoldedOK)'
  BY <1>1, <1>2, <1>3, <1>4, <1>5, QuietStep
<1>7. NotesTyped'
  BY <1>1, <1>2 DEF TypeOK, NotesTyped
<1>8. TypeOK'
  BY <1>1, <1>3, <1>4, <1>5, <1>7, TypeStep
<1> QED BY <1>5, <1>6, <1>8 DEF PassInv

(* A request begins, or a client is gone. *)
LEMMA ComeAndGoStep ==
  ASSUME PassInv, NEW t \in Conversations, RequestEvolve(t) \/ RequestProfile(t) \/ Disconnect(t)
  PROVE  PassInv'
<1>1. TypeOK /\ PassPlacesOK /\ MinedOK /\ RulesOK /\ FoldedOK
  BY DEF PassInv
<1>2. UNCHANGED <<mom1, intent, from, time, sourced, excused>>
  BY DEF RequestEvolve, RequestProfile, Requested, Disconnect, area
<1>3. /\ IsHistory(mom1') /\ Grown(mom1', mom1, time + 1) /\ Ticked
      /\ time + 1 \notin DOMAIN mom1'
  BY <1>1, <1>2, Unread
<1>4. PICK a \in HookNames \cup {"idle"}, p \in {"gate", "read"}, j \in Job :
        /\ at' = [at EXCEPT ![t] = a] /\ phase' = [phase EXCEPT ![t] = p] /\ job' = [job EXCEPT ![t] = j]
        /\ (a = "idle" => p = "gate") /\ j.src = {} /\ j.todo = {}
  <2>1. [NoJob EXCEPT !.requested = TRUE].src = {} /\ [NoJob EXCEPT !.requested = TRUE].todo = {}
    BY DEF NoJob
  <2>2. CASE RequestEvolve(t)
    BY <2>1, <2>2, NoJobType DEF RequestEvolve, Requested, HookNames
  <2>3. CASE RequestProfile(t)
    BY <2>1, <2>3, NoJobType DEF RequestProfile, Requested, HookNames
  <2>4. CASE Disconnect(t)
    BY <2>4, NoJobType DEF Disconnect
  <2> QED BY <2>2, <2>3, <2>4
<1>5. PlacesTyped'
  BY <1>1, <1>4 DEF TypeOK, PlacesTyped
<1>6. PassPlacesOK'
  BY <1>1, <1>3, <1>4, TimeGrows DEF PassPlacesOK, TypeOK
<1>7. JobsKept
  BY <1>1, <1>4 DEF JobsKept, UnderWay, TypeOK
<1>8. (MinedOK /\ RulesOK /\ FoldedOK)'
  BY <1>1, <1>2, <1>3, <1>7, QuietStep
<1>9. NotesTyped'
  BY <1>1, <1>2 DEF TypeOK, NotesTyped
<1>10. TypeOK'
  BY <1>1, <1>3, <1>5, <1>9, TypeStep
<1> QED BY <1>6, <1>8, <1>10 DEF PassInv

LEMMA UseStep ==
  ASSUME PassInv, Reinforce \/ Forget
  PROVE  PassInv'
<1>1. TypeOK /\ PassPlacesOK /\ MinedOK /\ RulesOK /\ FoldedOK
  BY DEF PassInv
<1>2. UNCHANGED <<intent, from, time, at, phase, job, sourced, excused>>
  BY DEF Reinforce, Forget
<1>3. IsHistory(mom1) /\ time + 1 \notin DOMAIN mom1
  BY <1>1, MomType
<1>4. /\ IsHistory(mom1') /\ Grown(mom1', mom1, time + 1) /\ DOMAIN mom1' \subseteq DOMAIN mom1
  <2>1. CASE Reinforce
    BY <1>3, <2>1, UseGrows DEF Reinforce
  <2>2. CASE Forget
    BY <1>3, <2>2, ForgetGrows DEF Forget
  <2> QED BY <2>1, <2>2
<1>5. Ticked
  BY <1>2, <1>4 DEF Ticked
<1>6. PlacesTyped' /\ PassPlacesOK' /\ JobsKept
  BY <1>1, <1>2, <1>5, NoneMoves
<1>7. (MinedOK /\ RulesOK /\ FoldedOK)'
  BY <1>1, <1>2, <1>3, <1>4, <1>5, <1>6, QuietStep
<1>8. NotesTyped'
  BY <1>1, <1>2 DEF TypeOK, NotesTyped
<1>9. TypeOK'
  BY <1>1, <1>4, <1>5, <1>6, <1>8, TypeStep
<1> QED BY <1>6, <1>7, <1>9 DEF PassInv

-----------------------------------------------------------------------------
(* The steps that store an entry: what Append does to the history.         *)
LEMMA AppendStep ==
  ASSUME TypeOK, NEW kind \in AllKinds, NEW now \in Nat, Tick, Append(NewEntry(kind, now))
  PROVE  /\ IsHistory(mom1') /\ Grown(mom1', mom1, time + 1) /\ Ticked
         /\ time' = time + 1 /\ time + 1 \in Ids
         /\ time + 1 \in DOMAIN mom1' => mom1'[time + 1].kind = kind /\ mom1'[time + 1].ts = now
<1>1. time < MaxTime /\ time' = time + 1
  BY DEF Tick
<1>2. mom1' = Appended(mom1, time + 1, NewEntry(kind, now), time + 1, FourD)
  BY <1>1 DEF Append
<1>3. NewEntry(kind, now).kind = kind /\ NewEntry(kind, now).ts = now
  BY DEF NewEntry
<1>4. /\ IsHistory(mom1') /\ Grown(mom1', mom1, time + 1)
      /\ time + 1 \in DOMAIN mom1' => Alike(mom1'[time + 1], NewEntry(kind, now))
  BY <1>2, MomType, NewEntryType, AppendGrows
<1>5. time + 1 \in Ids
  BY <1>1, PassConstants DEF TypeOK
<1> QED BY <1>1, <1>3, <1>4, <1>5 DEF Alike, Ticked

(* A turn: a profile being made does not have it, and it is excused.       *)
LEMMA TurnStep ==
  ASSUME PassInv, NEW t \in Conversations, PlainTurn(t) \/ TracedTurn(t)
  PROVE  PassInv'
<1>1. TypeOK /\ PassPlacesOK /\ MinedOK /\ RulesOK /\ FoldedOK
  BY DEF PassInv
<1>2. /\ at[t] = "idle" /\ Tick /\ Append(NewEntry("turn", time'))
      /\ excused' = IF UnderWay("profile") = {} THEN excused
                    ELSE [excused EXCEPT !.turns = @ \cup {time'}]
      /\ UNCHANGED <<intent, from, phase, job, sourced>>
  BY DEF PlainTurn, TracedTurn, Turn
<1>3. time' = time + 1 /\ time + 1 \in Nat
  BY <1>1, <1>2, MomType DEF Tick
<1>4. /\ IsHistory(mom1') /\ Grown(mom1', mom1, time + 1) /\ Ticked /\ time + 1 \in Ids
      /\ time + 1 \in DOMAIN mom1' => mom1'[time + 1].kind = "turn" /\ mom1'[time + 1].ts = time + 1
  BY <1>1, <1>2, <1>3, AppendStep DEF AllKinds, Kinds
<1>5. /\ \A u \in Conversations \ {t} : at'[u] = at[u]
      /\ at'[t] \in {"idle", "annotate"} /\ at' \in [Conversations -> HookNames \cup {"idle"}]
  BY <1>1, <1>2 DEF PlainTurn, TracedTurn, TypeOK, HookNames
<1>6. phase[t] = "gate"
  BY <1>1, <1>2 DEF PassPlacesOK
<1>7. PlacesTyped'
  BY <1>1, <1>2, <1>5 DEF TypeOK, PlacesTyped
<1>8. PassPlacesOK'
  BY <1>1, <1>2, <1>4, <1>5, <1>6, TimeGrows DEF PassPlacesOK
<1>9. JobsKept
  BY <1>2, <1>5, <1>6 DEF JobsKept, UnderWay
<1>10. /\ excused'.sources = excused.sources /\ excused'.intents = excused.intents
       /\ excused.turns \subseteq excused'.turns
       /\ UnderWay("profile") # {} => time + 1 \in excused'.turns
       /\ excused' \in [sources : SUBSET Ids, intents : SUBSET Intents, turns : SUBSET Ids]
  BY <1>1, <1>2, <1>3, <1>4 DEF TypeOK
<1>11. KindKept("fact") /\ KindKept("case") /\ ProfilesKept
  BY <1>4, KeepsKinds
<1>12. MinedOK' /\ RulesOK'
  BY <1>1, <1>2, <1>9, <1>10, <1>11, MinedFrame, RulesFrame
<1>13. /\ OfKind(mom1', "turn") \ {time + 1} \subseteq OfKind(mom1, "turn")
       /\ \A i \in DOMAIN mom1' \ {time + 1} : mom1'[i].ts = mom1[i].ts
  BY <1>4, GrownKinds
<1>14. ASSUME NEW u \in UnderWay("profile")'
       PROVE  OfKind(mom1', "turn") \subseteq job'[u].src \cup sourced' \cup excused'.turns
  <2>1. u \in UnderWay("profile") /\ job'[u].src = job[u].src
    BY <1>9 DEF JobsKept, HookNames
  <2>2. time + 1 \in excused'.turns
    BY <1>10, <2>1
  <2> QED BY <1>1, <1>2, <1>10, <1>13, <2>1, <2>2 DEF FoldedOK
<1>15. ASSUME NEW p \in Current(mom1'), NEW i \in OfKind(mom1', "turn"), mom1'[i].ts <= mom1'[p].ts
       PROVE  i \in sourced' \cup excused'.turns
  <2>1. p \in Current(mom1) /\ mom1'[p].ts = mom1[p].ts
    BY <1>11 DEF ProfilesKept
  <2>2. mom1[p].ts \in Nat /\ mom1[p].ts <= time
    BY <1>1, <2>1, CurrentTimes DEF FoldedOK
  <2>3. i # time + 1
    <3>1. i = time + 1 => mom1'[i].ts = time + 1
      BY <1>4 DEF OfKind
    <3>2. mom1'[i].ts <= mom1[p].ts /\ time \in Nat
      BY <1>1, <1>15, <2>1, MomType
    <3> QED BY <2>2, <3>1, <3>2
  <2>4. i \in OfKind(mom1, "turn") /\ mom1'[i].ts = mom1[i].ts /\ i \in DOMAIN mom1'
    BY <1>13, <2>3 DEF OfKind
  <2>5. i \in sourced \cup excused.turns
    BY <1>1, <1>15, <2>1, <2>4 DEF FoldedOK, DeltaMissesNothing
  <2> QED BY <1>2, <1>10, <2>5
<1>16. DeltaMissesNothing'
  BY <1>15 DEF DeltaMissesNothing
<1>19. ASSUME NEW p \in Current(mom1')
       PROVE  mom1'[p].ts <= time'
  <2>1. p \in Current(mom1) /\ mom1'[p].ts = mom1[p].ts
    BY <1>11 DEF ProfilesKept
  <2>2. mom1[p].ts <= time /\ mom1[p].ts \in Nat
    BY <1>1, <2>1, CurrentTimes DEF FoldedOK
  <2> QED BY <1>1, <1>4, <2>1, <2>2, TimeGrows
<1>17. NotesTyped'
  BY <1>1, <1>2, <1>10 DEF TypeOK, NotesTyped
<1>18. TypeOK'
  BY <1>1, <1>4, <1>7, <1>17, TypeStep
<1> QED BY <1>8, <1>12, <1>14, <1>16, <1>18, <1>19 DEF PassInv, FoldedOK

-----------------------------------------------------------------------------
(* A4 answers. *)
LEMMA FactsDistilledStep ==
  ASSUME PassInv, NEW t \in Conversations, FactsDistilled(t)
  PROVE  PassInv'
<1>1. TypeOK /\ PassPlacesOK /\ MinedOK /\ RulesOK /\ FoldedOK
  BY DEF PassInv
<1>2. /\ at[t] = "extract" /\ phase[t] = "a4"
      /\ UNCHANGED <<mom1, intent, from, time, sourced, excused>>
  BY DEF FactsDistilled, area
<1>3. PICK n \in 1..MaxFacts : Goto(t, "store", [job[t] EXCEPT !.left = n, !.now = time])
  BY DEF FactsDistilled
<1> DEFINE j == [job[t] EXCEPT !.left = n, !.now = time]
<1>4. j \in Job /\ j.src = job[t].src /\ j.todo = job[t].todo /\ j.left = n
  <2>1. job[t] \in Job /\ time \in 0..MaxTime /\ n \in 0..MaxFacts
    BY <1>1, PassConstants DEF TypeOK
  <2> QED BY <2>1 DEF Job
<1>5. j.src \subseteq 1..time
  BY <1>1, <1>4 DEF PassPlacesOK
<1>6. Goto(t, "store", j)
  BY <1>3
<1> HIDE DEF j
<1>7. /\ IsHistory(mom1') /\ Grown(mom1', mom1, time + 1) /\ Ticked
      /\ time + 1 \notin DOMAIN mom1'
  BY <1>1, <1>2, Unread
<1>8. PlacesTyped' /\ PassPlacesOK'
  BY <1>1, <1>2, <1>4, <1>5, <1>6, <1>7, GotoKeeps
<1>9. JobsKept
  BY <1>1, <1>2, <1>4, <1>6, GotoKeepsJobs
<1>10. (MinedOK /\ RulesOK /\ FoldedOK)'
  BY <1>1, <1>2, <1>7, <1>9, QuietStep
<1>11. NotesTyped'
  BY <1>1, <1>2 DEF TypeOK, NotesTyped
<1>12. TypeOK'
  BY <1>1, <1>7, <1>8, <1>11, TypeStep
<1> QED BY <1>8, <1>10, <1>12 DEF PassInv

(* A rule is never annotated again: it keeps its intent. *)
LEMMA AnnotatedStep ==
  ASSUME PassInv, NEW t \in Conversations, Annotated(t)
  PROVE  PassInv'
<1>1. TypeOK /\ PassPlacesOK /\ MinedOK /\ RulesOK /\ FoldedOK
  BY DEF PassInv
<1>2. /\ at[t] = "annotate" /\ phase[t] = "a4" /\ Advance(t)
      /\ UNCHANGED <<mom1, from, time, sourced, excused>>
  BY DEF Annotated
<1>3. PICK x \in Intents :
        intent' = [i \in Ids |-> IF i \in job[t].src \cap DOMAIN mom1 THEN x ELSE intent[i]]
  BY DEF Annotated
<1>4. /\ IsHistory(mom1') /\ Grown(mom1', mom1, time + 1) /\ Ticked
      /\ time + 1 \notin DOMAIN mom1'
  BY <1>1, <1>2, Unread
<1>5. PlacesTyped' /\ PassPlacesOK' /\ JobsKept
  BY <1>1, <1>2, <1>4, AdvanceKeeps
<1>6. KindKept("fact") /\ KindKept("case") /\ KindKept("turn") /\ ProfilesKept
  BY <1>4, KeepsKinds
<1>7. \A c \in OfKind(mom1', "case") : intent'[c] = intent[c]
  <2> SUFFICES ASSUME NEW c \in OfKind(mom1', "case") PROVE intent'[c] = intent[c]
    OBVIOUS
  <2>1. c \in OfKind(mom1, "case")
    BY <1>2
  <2>2. c \in Ids
    BY <1>1, <2>1, PassConstants DEF TypeOK, OfKind
  <2>3. c \notin job[t].src
    BY <1>1, <1>2, <2>1 DEF RulesOK
  <2> QED BY <1>3, <2>2, <2>3
<1>8. MinedOK' /\ RulesOK' /\ FoldedOK'
  BY <1>1, <1>2, <1>4, <1>5, <1>6, <1>7, MinedFrame, RulesFrame, FoldedFrame
<1>9. NotesTyped'
  BY <1>1, <1>2, <1>3 DEF TypeOK, NotesTyped
<1>10. TypeOK'
  BY <1>1, <1>4, <1>5, <1>9, TypeStep
<1> QED BY <1>5, <1>8, <1>10 DEF PassInv

-----------------------------------------------------------------------------
(* The steps that store what was derived. *)
LEMMA StoreFactStep ==
  ASSUME PassInv, NEW t \in Conversations, StoreFact(t)
  PROVE  PassInv'
<1>1. TypeOK /\ PassPlacesOK /\ MinedOK /\ RulesOK /\ FoldedOK
  BY DEF PassInv
<1>2. /\ at[t] = "extract" /\ phase[t] = "store" /\ Tick
      /\ Append(NewEntry("fact", job[t].now))
      /\ from' = [from EXCEPT ![time'] = job[t].src]
      /\ UNCHANGED <<intent, sourced, excused>>
  BY DEF StoreFact
<1>3. job[t] \in Job /\ job[t].now \in Nat
  BY <1>1, PassConstants DEF TypeOK, Job
<1>4. /\ IsHistory(mom1') /\ Grown(mom1', mom1, time + 1) /\ Ticked
      /\ time' = time + 1 /\ time + 1 \in Ids
      /\ time + 1 \in DOMAIN mom1' => mom1'[time + 1].kind = "fact" /\ mom1'[time + 1].ts = job[t].now
  BY <1>1, <1>2, <1>3, AppendStep DEF AllKinds
<1>5. PlacesTyped' /\ PassPlacesOK' /\ JobsKept
  <2>1. CASE Advance(t)
    BY <1>1, <1>2, <1>4, <2>1, AdvanceKeeps
  <2>2. CASE ~Advance(t)
    <3> DEFINE j == [job[t] EXCEPT !.left = @ - 1]
    <3>1. job[t].left \in 1..MaxFacts /\ job[t].left # 1 /\ Goto(t, "store", j)
      BY <1>1, <1>2, <2>2 DEF StoreFact, PassPlacesOK
    <3>2. /\ j \in Job /\ j.src = job[t].src /\ j.todo = job[t].todo /\ j.now = job[t].now
          /\ j.left \in 1..MaxFacts
      BY <1>3, <3>1, PassConstants DEF Job
    <3> HIDE DEF j
    <3>3. j.src \subseteq 1..time
      BY <1>1, <3>2 DEF PassPlacesOK
    <3>4. PlacesTyped' /\ PassPlacesOK'
      BY <1>1, <1>2, <1>4, <3>1, <3>2, <3>3, GotoKeeps
    <3>5. JobsKept
      BY <1>1, <1>2, <3>1, <3>2, GotoKeepsJobs
    <3> QED BY <3>4, <3>5
  <2> QED BY <2>1, <2>2
<1>6. KindKept("case") /\ KindKept("turn") /\ ProfilesKept
  BY <1>4, KeepsKinds
<1>7. RulesOK' /\ FoldedOK'
  BY <1>1, <1>2, <1>4, <1>5, <1>6, RulesFrame, FoldedFrame
<1>8. \A f \in OfKind(mom1', "fact") \ {time + 1} :
        f \in OfKind(mom1, "fact") /\ mom1'[f].ts = mom1[f].ts /\ from'[f] = from[f]
  <2>1. /\ OfKind(mom1', "fact") \ {time + 1} \subseteq OfKind(mom1, "fact")
        /\ \A i \in DOMAIN mom1' \ {time + 1} : mom1'[i].ts = mom1[i].ts
    BY <1>4, GrownKinds
  <2>2. \A f \in OfKind(mom1', "fact") : f \in DOMAIN mom1'
    BY DEF OfKind
  <2> QED BY <1>1, <1>2, <1>4, <2>1, <2>2 DEF TypeOK
<1>9. /\ from'[time + 1] = job[t].src
      /\ time + 1 \in OfKind(mom1', "fact") => mom1'[time + 1].ts = job[t].now
  BY <1>1, <1>2, <1>4 DEF TypeOK, OfKind
<1>10. \A u \in UnderWay("extract")' :
         /\ u \in UnderWay("extract") /\ job'[u].src = job[u].src
         /\ phase[u] = "store" => phase'[u] = "store" /\ job'[u].now = job[u].now
  BY <1>5 DEF JobsKept, HookNames
<1>11. t \in UnderWay("extract")
  BY <1>2 DEF UnderWay
<1>12. \A g \in OfKind(mom1, "fact") :
         ~(from[g] \cap job[t].src \subseteq excused.sources) =>
           from[g] = job[t].src /\ mom1[g].ts = job[t].now
  BY <1>1, <1>11 DEF MinedOK
<1>13. ASSUME NEW u \in UnderWay("extract")', NEW f \in OfKind(mom1', "fact"),
              ~(from'[f] \cap job'[u].src \subseteq excused'.sources)
       PROVE  phase'[u] = "store" /\ from'[f] = job'[u].src /\ mom1'[f].ts = job'[u].now
  <2>1. CASE f = time + 1
    <3>1. ~(job[t].src \cap job[u].src \subseteq excused.sources)
      BY <1>2, <1>9, <1>10, <1>13, <2>1
    <3>2. u = t
      BY <1>1, <1>10, <1>11, <3>1 DEF MinedOK
    <3> QED BY <1>2, <1>9, <1>10, <2>1, <3>2
  <2>2. CASE f # time + 1
    <3>1. ~(from[f] \cap job[u].src \subseteq excused.sources)
      BY <1>2, <1>8, <1>10, <1>13, <2>2
    <3>2. phase[u] = "store" /\ from[f] = job[u].src /\ mom1[f].ts = job[u].now
      BY <1>1, <1>8, <1>10, <2>2, <3>1 DEF MinedOK
    <3> QED BY <1>8, <1>10, <2>2, <3>2
  <2> QED BY <2>1, <2>2
<1>14. ASSUME NEW u \in UnderWay("extract")', NEW v \in UnderWay("extract")', u # v
       PROVE  job'[u].src \cap job'[v].src \subseteq excused'.sources
  BY <1>1, <1>2, <1>10, <1>14 DEF MinedOK
<1>15. ASSUME NEW f \in OfKind(mom1', "fact"), NEW g \in OfKind(mom1', "fact"),
              ~(from'[f] \cap from'[g] \subseteq excused'.sources)
       PROVE  from'[f] = from'[g] /\ mom1'[f].ts = mom1'[g].ts
  <2>1. CASE f = time + 1 /\ g = time + 1
    BY <2>1
  <2>2. CASE f = time + 1 /\ g # time + 1
    BY <1>2, <1>8, <1>9, <1>12, <1>15, <2>2
  <2>3. CASE f # time + 1 /\ g = time + 1
    BY <1>2, <1>8, <1>9, <1>12, <1>15, <2>3
  <2>4. CASE f # time + 1 /\ g # time + 1
    BY <1>1, <1>2, <1>8, <1>15, <2>4 DEF MinedOK, SourcesMinedOnce
  <2> QED BY <2>1, <2>2, <2>3, <2>4
<1>16. SourcesMinedOnce'
  BY <1>15 DEF SourcesMinedOnce
<1>17. NotesTyped'
  BY <1>1, <1>2, <1>3, <1>4 DEF TypeOK, NotesTyped, Job
<1>18. TypeOK'
  BY <1>1, <1>4, <1>5, <1>17, TypeStep
<1> QED BY <1>5, <1>7, <1>13, <1>14, <1>16, <1>18 DEF PassInv, MinedOK

LEMMA RuleDistilledStep ==
  ASSUME PassInv, NEW t \in Conversations, RuleDistilled(t)
  PROVE  PassInv'
<1>1. TypeOK /\ PassPlacesOK /\ MinedOK /\ RulesOK /\ FoldedOK
  BY DEF PassInv
<1>2. /\ at[t] = "evolve" /\ phase[t] = "a4" /\ Tick /\ UNCHANGED <<from, sourced, excused>>
  BY DEF RuleDistilled
<1>3. PICK x \in job[t].todo :
        /\ Append(NewEntry("case", job[t].now)) /\ intent' = [intent EXCEPT ![time'] = x]
        /\ IF job[t].todo = {x} THEN Advance(t)
           ELSE Goto(t, "a4", [job[t] EXCEPT !.todo = @ \ {x}])
  BY DEF RuleDistilled
<1>4. job[t] \in Job /\ job[t].now \in Nat /\ x \in Intents
  BY <1>1, PassConstants DEF TypeOK, Job
<1>5. /\ IsHistory(mom1') /\ Grown(mom1', mom1, time + 1) /\ Ticked
      /\ time' = time + 1 /\ time + 1 \in Ids
      /\ time + 1 \in DOMAIN mom1' => mom1'[time + 1].kind = "case"
  BY <1>1, <1>2, <1>3, <1>4, AppendStep DEF AllKinds
<1>6. /\ PlacesTyped' /\ PassPlacesOK' /\ JobsKept
      /\ t \in UnderWay("evolve")' => x \notin job'[t].todo
  <2>1. CASE Advance(t)
    <3>1. at'[t] # "evolve"
      BY <1>1, <1>2, <2>1 DEF Advance, TypeOK, Following
    <3> QED BY <1>1, <1>2, <1>5, <2>1, <3>1, AdvanceKeeps DEF UnderWay
  <2>2. CASE ~Advance(t)
    <3> DEFINE j == [job[t] EXCEPT !.todo = @ \ {x}]
    <3>1. Goto(t, "a4", j)
      BY <1>3, <2>2
    <3>2. j \in Job /\ j.src = job[t].src /\ j.todo = job[t].todo \ {x}
      BY <1>4 DEF Job
    <3> HIDE DEF j
    <3>3. j.src \subseteq 1..time
      BY <1>1, <3>2 DEF PassPlacesOK
    <3>4. PlacesTyped' /\ PassPlacesOK'
      BY <1>1, <1>2, <1>5, <3>1, <3>2, <3>3, GotoKeeps
    <3>5. JobsKept
      BY <1>1, <1>2, <3>1, <3>2, GotoKeepsJobs
    <3>6. job'[t] = j
      BY <1>1, <3>1 DEF Goto, TypeOK
    <3> QED BY <3>2, <3>4, <3>5, <3>6
  <2> QED BY <2>1, <2>2
<1>7. KindKept("fact") /\ KindKept("turn") /\ ProfilesKept
  BY <1>5, KeepsKinds
<1>8. MinedOK' /\ FoldedOK'
  BY <1>1, <1>2, <1>5, <1>6, <1>7, MinedFrame, FoldedFrame
<1>9. \A c \in OfKind(mom1', "case") \ {time + 1} :
        c \in OfKind(mom1, "case") /\ intent'[c] = intent[c]
  <2>1. OfKind(mom1', "case") \ {time + 1} \subseteq OfKind(mom1, "case")
    BY <1>5, GrownKinds
  <2>2. \A c \in OfKind(mom1, "case") : c \in Ids
    BY <1>1, PassConstants DEF TypeOK, OfKind
  <2> QED BY <1>1, <1>3, <1>5, <2>1, <2>2 DEF TypeOK
<1>10. intent'[time + 1] = x
  BY <1>1, <1>3, <1>5 DEF TypeOK
<1>11. \A hook \in {"annotate", "evolve"} : \A u \in UnderWay(hook)' :
         u \in UnderWay(hook) /\ job'[u].src = job[u].src /\ job'[u].todo \subseteq job[u].todo
  BY <1>6 DEF JobsKept, HookNames
<1>12. t \in UnderWay("evolve")
  BY <1>2 DEF UnderWay
<1>13. ASSUME NEW c \in OfKind(mom1', "case") PROVE intent'[c] \in Intents
  BY <1>1, <1>4, <1>9, <1>10 DEF RulesOK
<1>14. ASSUME NEW u \in Conversations, NEW c \in OfKind(mom1', "case"),
              at'[u] = "annotate", phase'[u] = "a4"
       PROVE  c \notin job'[u].src
  <2>1. u \in UnderWay("annotate")'
    BY <1>14 DEF UnderWay
  <2>2. u \in UnderWay("annotate") /\ job'[u].src = job[u].src
    BY <1>11, <2>1
  <2>3. at[u] = "annotate" /\ phase[u] = "a4"
    <3>1. phase[u] # "store"
      BY <1>6, <1>14, <2>1 DEF JobsKept, HookNames
    <3> QED BY <2>2, <3>1 DEF UnderWay
  <2>4. CASE c = time + 1
    <3>1. time + 1 \notin 1..time
      BY <1>1, MomType
    <3> QED BY <1>1, <2>2, <2>4, <3>1 DEF PassPlacesOK
  <2>5. CASE c # time + 1
    BY <1>1, <1>9, <2>2, <2>3, <2>5 DEF RulesOK
  <2> QED BY <2>4, <2>5
<1>15. ASSUME NEW u \in UnderWay("evolve")', NEW c \in OfKind(mom1', "case"),
              intent'[c] \in job'[u].todo
       PROVE  intent'[c] \in excused'.intents
  <2>1. u \in UnderWay("evolve") /\ intent'[c] \in job[u].todo
    BY <1>11, <1>15
  <2>2. CASE c = time + 1
    <3>1. u # t
      BY <1>6, <1>10, <1>15, <2>2
    <3>2. x \in job[u].todo \cap job[t].todo
      BY <1>10, <2>1, <2>2
    <3> QED BY <1>1, <1>2, <1>10, <1>12, <2>1, <2>2, <3>1, <3>2 DEF RulesOK
  <2>3. CASE c # time + 1
    BY <1>1, <1>2, <1>9, <2>1, <2>3 DEF RulesOK
  <2> QED BY <2>2, <2>3
<1>16. ASSUME NEW u \in UnderWay("evolve")', NEW v \in UnderWay("evolve")', u # v
       PROVE  job'[u].todo \cap job'[v].todo \subseteq excused'.intents
  <2>1. job[u].todo \cap job[v].todo \subseteq excused.intents
    BY <1>1, <1>11, <1>16 DEF RulesOK
  <2>2. job'[u].todo \subseteq job[u].todo /\ job'[v].todo \subseteq job[v].todo
    BY <1>11
  <2> QED BY <1>2, <2>1, <2>2
<1>17. \A d \in OfKind(mom1, "case") : intent[d] = x => x \in excused.intents
  BY <1>1, <1>12 DEF RulesOK
<1>18. ASSUME NEW c \in OfKind(mom1', "case"), NEW d \in OfKind(mom1', "case"),
              intent'[c] = intent'[d], intent'[c] \notin excused'.intents
       PROVE  c = d
  <2>1. CASE c = time + 1 \/ d = time + 1
    BY <1>2, <1>9, <1>10, <1>17, <1>18, <2>1
  <2>2. CASE c # time + 1 /\ d # time + 1
    BY <1>1, <1>2, <1>9, <1>18, <2>2 DEF RulesOK, OneRulePerIntent
  <2> QED BY <2>1, <2>2
<1>19. RulesOK'
  BY <1>13, <1>14, <1>15, <1>16, <1>18 DEF RulesOK, OneRulePerIntent
<1>20. NotesTyped'
  BY <1>1, <1>2, <1>3, <1>4, <1>5 DEF TypeOK, NotesTyped
<1>21. TypeOK'
  BY <1>1, <1>5, <1>6, <1>20, TypeStep
<1> QED BY <1>6, <1>8, <1>19, <1>21 DEF PassInv

LEMMA ProfileWrittenStep ==
  ASSUME PassInv, NEW t \in Conversations, ProfileWritten(t)
  PROVE  PassInv'
<1>1. TypeOK /\ PassPlacesOK /\ MinedOK /\ RulesOK /\ FoldedOK
  BY DEF PassInv
<1>2. /\ at[t] = "profile" /\ phase[t] = "a4" /\ Tick /\ Advance(t)
      /\ mom1' = ProfileSet(mom1, time', Default, time')
      /\ sourced' = sourced \cup job[t].src
      /\ UNCHANGED <<intent, from, excused>>
  BY DEF ProfileWritten, Default
<1>3. IsHistory(mom1) /\ time + 1 \notin DOMAIN mom1 /\ time + 1 \in Nat /\ time' = time + 1
  BY <1>1, <1>2, MomType DEF Tick
<1>4. /\ IsHistory(mom1') /\ Grown(mom1', mom1, time + 1) /\ time + 1 \in DOMAIN mom1'
      /\ Alike(mom1'[time + 1], ProfileEntry(Default, time + 1)) /\ Current(mom1') = {time + 1}
  BY <1>2, <1>3, ProfileGrows
<1>5. mom1'[time + 1].kind = "profile" /\ mom1'[time + 1].ts = time + 1
  BY <1>4 DEF Alike, ProfileEntry
<1>6. Ticked
  BY <1>2 DEF Ticked, Tick
<1>7. PlacesTyped' /\ PassPlacesOK' /\ JobsKept
  BY <1>1, <1>2, <1>6, AdvanceKeeps
<1>8. KindKept("fact") /\ KindKept("case") /\ KindKept("turn")
  BY <1>4, <1>5, KeepsKinds
<1>9. MinedOK' /\ RulesOK'
  BY <1>1, <1>2, <1>7, <1>8, MinedFrame, RulesFrame
<1>10. t \in UnderWay("profile")
  BY <1>2 DEF UnderWay
<1>11. OfKind(mom1', "turn") \subseteq sourced' \cup excused'.turns
  BY <1>1, <1>2, <1>8, <1>10 DEF FoldedOK, KindKept
<1>12. mom1'[time + 1].ts <= time'
  BY <1>3, <1>5
<1>13. FoldedOK'
  BY <1>4, <1>11, <1>12 DEF FoldedOK, DeltaMissesNothing
<1>14. sourced' \subseteq Ids
  BY <1>1, <1>2 DEF TypeOK, Job
<1>15. NotesTyped'
  BY <1>1, <1>2, <1>14 DEF TypeOK, NotesTyped
<1>16. TypeOK'
  BY <1>1, <1>4, <1>6, <1>7, <1>15, TypeStep
<1> QED BY <1>7, <1>9, <1>13, <1>16 DEF PassInv

-----------------------------------------------------------------------------
(* What a pass reads. *)
PassHooks == {"annotate", "extract", "profile", "evolve"}

LEMMA SourcesRead ==
  ASSUME NEW h, NEW hook \in PassHooks, NEW requested \in BOOLEAN
  PROVE  Sources(hook, h, requested) \subseteq DOMAIN h
<1>1. Wanted(hook, h, requested) \subseteq DOMAIN h
  BY DEF PassHooks, Wanted, Pending, Turns, Delta, Members
<1>2. Sources(hook, h, requested) \subseteq Wanted(hook, h, requested)
  BY DEF PassHooks, Sources, Oldest
<1> QED BY <1>1, <1>2

(* Facts have none of the sources of the next extraction. *)
LEMMA PendingIsFresh ==
  ASSUME NEW h, NEW f \in OfKind(h, "fact"), NEW requested
  PROVE  from[f] \cap Sources("extract", h, requested) = {}
<1>1. Sources("extract", h, requested) \subseteq Pending(h)
  BY DEF Sources, Oldest, Wanted
<1>2. from[f] \cap Pending(h) = {}
  BY DEF Pending, Consumed
<1> QED BY <1>1, <1>2

(* A turn that a synthesis does not want is no newer than the profile. *)
LEMMA UnwantedTurns ==
  ASSUME TypeOK, DeltaMissesNothing, NEW requested \in BOOLEAN
  PROVE  OfKind(mom1, "turn") \subseteq
           Wanted("profile", mom1, requested) \cup sourced \cup excused.turns
<1> SUFFICES ASSUME NEW i \in OfKind(mom1, "turn"), i \notin sourced \cup excused.turns
             PROVE  i \in Wanted("profile", mom1, requested)
  OBVIOUS
<1>1. i \in Turns(mom1)
  BY DEF OfKind, Turns, Derived, Profiles
<1>2. i \in Delta(mom1)
  <2> SUFFICES ASSUME NEW p \in Current(mom1) PROVE mom1[i].ts > mom1[p].ts
    BY <1>1 DEF Delta
  <2>1. ~(mom1[i].ts <= mom1[p].ts)
    BY DEF DeltaMissesNothing
  <2>2. mom1[i].ts \in Nat /\ mom1[p].ts \in Nat
    BY CurrentTimes DEF TypeOK, OfKind, Entry
  <2> QED BY <2>1, <2>2
<1> QED BY <1>1, <1>2 DEF Wanted

LEMMA ReadStep ==
  ASSUME PassInv, NEW t \in Conversations, Read(t)
  PROVE  PassInv'
<1> DEFINE src == Sources(at[t], mom1, job[t].requested)
           todo == IF at[t] = "evolve" THEN Clusters(mom1) ELSE {}
           wanted == Wanted("profile", mom1, job[t].requested)
           j == [job[t] EXCEPT !.src = src, !.todo = todo, !.now = time]
<1>1. TypeOK /\ PassPlacesOK /\ MinedOK /\ RulesOK /\ FoldedOK
  BY DEF PassInv
<1>2. /\ at[t] \in PassHooks /\ phase[t] = "read"
      /\ IF src = {} THEN Advance(t) ELSE Goto(t, "a4", j)
      /\ UNCHANGED <<mom1, intent, from, time, sourced>>
  BY DEF Read, PassHooks, area
<1>3. excused' =
        [sources |-> excused.sources \cup
           (IF at[t] = "extract" THEN src \cap UNION {job[u].src : u \in UnderWay("extract")} ELSE {}),
         intents |-> excused.intents \cup (todo \cap UNION {job[u].todo : u \in UnderWay("evolve")}),
         turns   |-> excused.turns \cup (IF at[t] = "profile" THEN wanted \ src ELSE {})]
  BY DEF Read
<1>4. job[t] \in Job /\ job[t].requested \in BOOLEAN /\ time \in 0..MaxTime
  BY <1>1 DEF TypeOK, Job
<1>5. src \subseteq DOMAIN mom1 /\ DOMAIN mom1 \subseteq 1..time /\ 1..time \subseteq Ids
  BY <1>1, <1>2, <1>4, SourcesRead, PassConstants DEF TypeOK
<1>6. todo \subseteq Intents /\ wanted \subseteq DOMAIN mom1
  BY DEF Clusters, Wanted, Turns, Delta
<1>7. /\ excused.sources \subseteq excused'.sources /\ excused.intents \subseteq excused'.intents
      /\ excused.turns \subseteq excused'.turns
      /\ at[t] = "extract" => \A u \in UnderWay("extract") : src \cap job[u].src \subseteq excused'.sources
      /\ \A u \in UnderWay("evolve") : todo \cap job[u].todo \subseteq excused'.intents
      /\ at[t] = "profile" => wanted \ src \subseteq excused'.turns
  BY <1>3
<1>8. excused' \in [sources : SUBSET Ids, intents : SUBSET Intents, turns : SUBSET Ids]
  <2>1. /\ excused.sources \subseteq Ids /\ excused.intents \subseteq Intents
        /\ excused.turns \subseteq Ids
    BY <1>1 DEF TypeOK
  <2>2. /\ excused'.sources \subseteq excused.sources \cup src
        /\ excused'.intents \subseteq excused.intents \cup todo
        /\ excused'.turns \subseteq excused.turns \cup wanted
    BY <1>3
  <2>3. excused' = [sources |-> excused'.sources, intents |-> excused'.intents,
                    turns |-> excused'.turns]
    BY <1>3
  <2> HIDE DEF src, todo, wanted
  <2>4. /\ excused'.sources \subseteq Ids /\ excused'.intents \subseteq Intents
        /\ excused'.turns \subseteq Ids
    BY <1>5, <1>6, <2>1, <2>2
  <2> QED BY <2>3, <2>4
<1>9. j \in Job /\ j.src = src /\ j.todo = todo
  <2>1. src \in SUBSET Ids /\ todo \in SUBSET Intents
    BY <1>5, <1>6
  <2> HIDE DEF src, todo
  <2> QED BY <1>4, <2>1 DEF Job
<1> HIDE DEF src, todo, wanted, j
<1>10. /\ IsHistory(mom1') /\ Grown(mom1', mom1, time + 1) /\ Ticked
       /\ time + 1 \notin DOMAIN mom1'
  BY <1>1, <1>2, Unread
<1>11. PlacesTyped' /\ PassPlacesOK'
  <2>1. CASE src = {}
    BY <1>1, <1>2, <1>10, <2>1, AdvanceKeeps DEF PassHooks
  <2>2. CASE src # {}
    BY <1>1, <1>2, <1>5, <1>9, <1>10, <2>2, GotoKeeps DEF PassHooks
  <2> QED BY <2>1, <2>2
(* This pass is under way now, with what it has read; no other moved.       *)
<1>12. \A hook \in PassHooks : \A u \in UnderWay(hook)' :
         \/ u = t /\ at[t] = hook /\ phase'[u] = "a4" /\ job'[u].src = src /\ job'[u].todo = todo
         \/ /\ u # t /\ u \in UnderWay(hook) /\ job'[u] = job[u]
            /\ phase'[u] = phase[u] /\ at'[u] = at[u]
  <2> SUFFICES ASSUME NEW hook \in PassHooks, NEW u \in UnderWay(hook)'
               PROVE  \/ /\ u = t /\ at[t] = hook /\ phase'[u] = "a4"
                         /\ job'[u].src = src /\ job'[u].todo = todo
                      \/ /\ u # t /\ u \in UnderWay(hook) /\ job'[u] = job[u]
                         /\ phase'[u] = phase[u] /\ at'[u] = at[u]
    OBVIOUS
  <2>1. u \in Conversations /\ at'[u] = hook /\ phase'[u] \in {"a4", "store"}
    BY DEF UnderWay
  <2>2. CASE src = {}
    BY <1>1, <1>2, <2>1, <2>2 DEF Advance, TypeOK, UnderWay
  <2>3. CASE src # {}
    BY <1>1, <1>2, <1>9, <2>1, <2>3 DEF Goto, TypeOK, UnderWay
  <2> QED BY <2>2, <2>3
<1>13. MinedOK'
  <2>1. ASSUME at[t] = "extract", NEW f \in OfKind(mom1, "fact")
        PROVE  from[f] \cap src = {}
    BY <2>1, PendingIsFresh DEF src
  <2>2. ASSUME NEW u \in UnderWay("extract")', NEW f \in OfKind(mom1', "fact"),
               ~(from'[f] \cap job'[u].src \subseteq excused'.sources)
        PROVE  phase'[u] = "store" /\ from'[f] = job'[u].src /\ mom1'[f].ts = job'[u].now
    <3>1. ~(from[f] \cap job'[u].src \subseteq excused.sources) /\ f \in OfKind(mom1, "fact")
      BY <1>2, <1>7, <2>2
    <3>2. /\ u \in UnderWay("extract") /\ job'[u] = job[u] /\ phase'[u] = phase[u]
      BY <1>12, <2>1, <3>1 DEF PassHooks
    <3> QED BY <1>1, <1>2, <3>1, <3>2 DEF MinedOK
  <2>3. ASSUME NEW u \in UnderWay("extract")', NEW v \in UnderWay("extract")', u # v
        PROVE  job'[u].src \cap job'[v].src \subseteq excused'.sources
    <3>1. CASE u # t /\ v # t
      <4>1. /\ u \in UnderWay("extract") /\ job'[u] = job[u]
            /\ v \in UnderWay("extract") /\ job'[v] = job[v]
        BY <1>12, <3>1 DEF PassHooks
      <4>2. job[u].src \cap job[v].src \subseteq excused.sources
        BY <1>1, <2>3, <4>1 DEF MinedOK
      <4> QED BY <1>7, <4>1, <4>2
    <3>2. CASE u = t
      <4>1. /\ at[t] = "extract" /\ job'[u].src = src
            /\ v \in UnderWay("extract") /\ job'[v] = job[v]
        BY <1>12, <2>3, <3>2 DEF PassHooks
      <4> QED BY <1>7, <4>1
    <3>3. CASE v = t
      <4>1. /\ at[t] = "extract" /\ job'[v].src = src
            /\ u \in UnderWay("extract") /\ job'[u] = job[u]
        BY <1>12, <2>3, <3>3 DEF PassHooks
      <4> QED BY <1>7, <4>1
    <3> QED BY <3>1, <3>2, <3>3
  <2>4. SourcesMinedOnce'
    BY <1>1, <1>2, <1>7 DEF MinedOK, SourcesMinedOnce
  <2> QED BY <2>2, <2>3, <2>4 DEF MinedOK
<1>14. RulesOK'
  <2>1. ASSUME NEW c \in OfKind(mom1, "case")
        PROVE  intent[c] \notin todo /\ (at[t] = "annotate" => c \notin src)
    <3>1. intent[c] \notin todo
      BY DEF todo, Clusters
    <3>2. intent[c] # NoIntent
      BY <1>1, PassConstants DEF RulesOK
    <3>3. at[t] = "annotate" => src \subseteq {i \in DOMAIN mom1 : intent[i] = NoIntent}
      BY DEF src, Sources, Wanted
    <3> QED BY <3>1, <3>2, <3>3
  <2>2. \A c \in OfKind(mom1', "case") : intent'[c] \in Intents
    BY <1>1, <1>2 DEF RulesOK
  <2>3. ASSUME NEW u \in Conversations, NEW c \in OfKind(mom1', "case"),
               at'[u] = "annotate", phase'[u] = "a4"
        PROVE  c \notin job'[u].src
    <3>1. u \in UnderWay("annotate")' /\ c \in OfKind(mom1, "case")
      BY <1>2, <2>3 DEF UnderWay
    <3>2. CASE u = t
      BY <1>12, <2>1, <3>1, <3>2 DEF PassHooks
    <3>3. CASE u # t
      <4>1. job'[u] = job[u] /\ at[u] = "annotate" /\ phase[u] = "a4"
        BY <1>12, <2>3, <3>1, <3>3 DEF PassHooks
      <4> QED BY <1>1, <3>1, <4>1 DEF RulesOK
    <3> QED BY <3>2, <3>3
  <2>4. ASSUME NEW u \in UnderWay("evolve")', NEW c \in OfKind(mom1', "case"),
               intent'[c] \in job'[u].todo
        PROVE  intent'[c] \in excused'.intents
    <3>1. c \in OfKind(mom1, "case") /\ intent[c] \in job'[u].todo
      BY <1>2, <2>4
    <3>2. u \in UnderWay("evolve") /\ job'[u] = job[u]
      BY <1>12, <2>1, <3>1 DEF PassHooks
    <3> QED BY <1>1, <1>2, <1>7, <3>1, <3>2 DEF RulesOK
  <2>5. ASSUME NEW u \in UnderWay("evolve")', NEW v \in UnderWay("evolve")', u # v
        PROVE  job'[u].todo \cap job'[v].todo \subseteq excused'.intents
    <3>1. CASE u # t /\ v # t
      <4>1. /\ u \in UnderWay("evolve") /\ job'[u] = job[u]
            /\ v \in UnderWay("evolve") /\ job'[v] = job[v]
        BY <1>12, <3>1 DEF PassHooks
      <4>2. job[u].todo \cap job[v].todo \subseteq excused.intents
        BY <1>1, <2>5, <4>1 DEF RulesOK
      <4> QED BY <1>7, <4>1, <4>2
    <3>2. CASE u = t
      <4>1. job'[u].todo = todo /\ v \in UnderWay("evolve") /\ job'[v] = job[v]
        BY <1>12, <2>5, <3>2 DEF PassHooks
      <4> QED BY <1>7, <4>1
    <3>3. CASE v = t
      <4>1. job'[v].todo = todo /\ u \in UnderWay("evolve") /\ job'[u] = job[u]
        BY <1>12, <2>5, <3>3 DEF PassHooks
      <4> QED BY <1>7, <4>1
    <3> QED BY <3>1, <3>2, <3>3
  <2>6. OneRulePerIntent'
    BY <1>1, <1>2, <1>7 DEF RulesOK, OneRulePerIntent
  <2> QED BY <2>2, <2>3, <2>4, <2>5, <2>6 DEF RulesOK
<1>15. FoldedOK'
  <2>1. OfKind(mom1, "turn") \subseteq wanted \cup sourced \cup excused.turns
    BY <1>1, <1>4, UnwantedTurns DEF wanted, FoldedOK
  <2>2. ASSUME NEW u \in UnderWay("profile")'
        PROVE  OfKind(mom1', "turn") \subseteq job'[u].src \cup sourced' \cup excused'.turns
    <3>1. CASE u = t
      <4>1. at[t] = "profile" /\ job'[u].src = src
        BY <1>12, <3>1 DEF PassHooks
      <4> QED BY <1>2, <1>7, <2>1, <4>1
    <3>2. CASE u # t
      <4>1. u \in UnderWay("profile") /\ job'[u] = job[u]
        BY <1>12, <3>2 DEF PassHooks
      <4> QED BY <1>1, <1>2, <1>7, <4>1 DEF FoldedOK
    <3> QED BY <3>1, <3>2
  <2>3. DeltaMissesNothing'
    BY <1>1, <1>2, <1>7 DEF FoldedOK, DeltaMissesNothing, Current
  <2>4. \A p \in Current(mom1') : mom1'[p].ts <= time'
    BY <1>1, <1>2 DEF FoldedOK
  <2> QED BY <2>2, <2>3, <2>4 DEF FoldedOK
<1>16. NotesTyped'
  BY <1>1, <1>2, <1>8 DEF TypeOK, NotesTyped
<1>17. TypeOK'
  BY <1>1, <1>10, <1>11, <1>16, TypeStep
<1> QED BY <1>11, <1>13, <1>14, <1>15, <1>17 DEF PassInv

-----------------------------------------------------------------------------
LEMMA PassInvStart == PassInit => PassInv
<1> SUFFICES ASSUME PassInit PROVE PassInv
  OBVIOUS
<1>1. TypeOK
  BY PassConstants, NoJobType DEF PassInit, TypeOK, HookNames
<1>2. DOMAIN mom1 = {} /\ \A t \in Conversations : at[t] = "idle" /\ phase[t] = "gate" /\ job[t] = NoJob
  BY DEF PassInit
<1>3. \A k : OfKind(mom1, k) = {} /\ UnderWay(k) = {}
  BY <1>2 DEF OfKind, UnderWay
<1>4. Current(mom1) = {}
  BY <1>2 DEF Current, ScopeProfiles
<1>5. PassPlacesOK
  BY <1>2 DEF PassPlacesOK, NoJob
<1>6. MinedOK /\ RulesOK /\ FoldedOK
  BY <1>3, <1>4 DEF MinedOK, RulesOK, FoldedOK, SourcesMinedOnce, OneRulePerIntent,
                    DeltaMissesNothing
<1> QED BY <1>1, <1>5, <1>6 DEF PassInv

LEMMA PassInvStep == PassInv /\ [PassNext]_passVars => PassInv'
<1> SUFFICES ASSUME PassInv, [PassNext]_passVars PROVE PassInv'
  OBVIOUS
<1>1. ASSUME NEW t \in Conversations,
             PlainTurn(t) \/ TracedTurn(t) \/ PassStep(t) \/ RequestEvolve(t) \/ RequestProfile(t)
      PROVE  PassInv'
  <2>1. CASE PlainTurn(t) \/ TracedTurn(t)
    BY <2>1, TurnStep
  <2>2. CASE Gate(t) \/ NothingLearnt(t)
    BY <2>2, GateStep
  <2>3. CASE Read(t)
    BY <2>3, ReadStep
  <2>4. CASE Answers(t)
    BY <2>4, AnnotatedStep, FactsDistilledStep, ProfileWrittenStep, RuleDistilledStep DEF Answers
  <2>5. CASE StoreFact(t)
    BY <2>5, StoreFactStep
  <2>6. CASE Consolidate(t)
    BY <2>6, SummaryStep
  <2>7. CASE RequestEvolve(t) \/ RequestProfile(t)
    BY <2>7, ComeAndGoStep
  <2> QED BY <1>1, <2>1, <2>2, <2>3, <2>4, <2>5, <2>6, <2>7 DEF PassStep
<1>2. ASSUME NEW t \in Cancellable, Disconnect(t)
      PROVE  PassInv'
  BY <1>2, CancellableAssumption, ComeAndGoStep
<1>3. CASE Reinforce \/ Forget
  BY <1>3, UseStep
<1>4. CASE ManualConsolidate
  BY <1>4, SummaryStep
<1>5. CASE UNCHANGED passVars
  BY <1>5 DEF passVars, area, PassInv, TypeOK, PassPlacesOK, MinedOK, RulesOK, FoldedOK,
              SourcesMinedOnce, OneRulePerIntent, DeltaMissesNothing, Current, UnderWay
<1> QED BY <1>1, <1>2, <1>3, <1>4, <1>5 DEF PassNext

LEMMA PassInvariant == PassSpec => []PassInv
BY PassInvStart, PassInvStep, PTL DEF PassSpec

(* For every number of conversations, windows, gates and clusters: however *)
(* turns, requested passes, evictions, uses and disconnections interleave  *)
(* with the awaits, facts that share a source come from one pass and an    *)
(* intent has one rule, unless two passes had read the source or the       *)
(* intent at one time (base.py, extract_facts and evolve).                 *)
THEOREM DerivedStaysOnce == PassSpec => []DerivedOnce
<1>1. PassInv => DerivedOnce
  BY DEF PassInv, MinedOK, RulesOK, DerivedOnce
<1> QED BY <1>1, PassInvariant, PTL

(* And no turn is lost to the profile: one that is no newer than the       *)
(* profile was in the prompt of a synthesis, unless it was stored while    *)
(* one was being made or did not fit the prompt (base.py,                  *)
(* synthesize_profile).                                                    *)
THEOREM ProfilesMissNothing == PassSpec => []DeltaMissesNothing
<1>1. PassInv => DeltaMissesNothing
  BY DEF PassInv, FoldedOK
<1> QED BY <1>1, PassInvariant, PTL
=============================================================================
