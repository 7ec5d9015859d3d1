-------------------------- MODULE Workflow_proofs ---------------------------
(***************************************************************************)
(* For any number of turns, entries, retries, steps and interruptions: the *)
(* turns keep their types, the grants their requests lead to are narrow,   *)
(* the trail of decisions is true, and the broker, with the agents that    *)
(* call it, the turns that store into Mom1 and the interruptions, is the   *)
(* gate of ReadGate; what a stream emitted stays in its workspace's zone,  *)
(* and a failure of WP2's check is told.                                   *)
(***************************************************************************)
EXTENDS Workflow, FiniteSetTheorems, TLAPS

(***************************************************************************)
(* The broker: what a step of one request does, whoever runs it, however   *)
(* Mom1 is appended to and curated, and whichever way the switch is        *)
(* flipped in between.                                                     *)
(***************************************************************************)
RequestRecord ==
  [at : Places, scope : Scopes \cup {{}}, candidates : SUBSET Findings,
   allowedScope : Scopes \cup {{}}, redact : BOOLEAN, approved : BOOLEAN,
   entries : SUBSET Findings, content : Contents]

DecisionRecord == [of : Requests, granted : BOOLEAN, entries : SUBSET (Entries \cup Keys)]

(* The record of a request, where m can be found: what it has read is of m and
   in its scope, and it holds nothing before A1 has approved. *)
Sound(q, m) ==
  /\ q \in RequestRecord
  /\ q.at = "none" => q = Idle
  /\ q.at # "adjudicate" => q.candidates = {}
  /\ q.candidates \subseteq InScope(m, q.scope)
  /\ q.entries \subseteq InScope(InScope(m, q.scope), q.allowedScope)
  /\ Cardinality(q.entries) <= MaxEntries
  /\ q.redact => q.content # "preview"
  /\ ~q.approved => q.entries = {} /\ q.content = "none"
  /\ q.at \in {"gather", "adjudicate"} => ~q.approved /\ ~q.redact
  /\ q.at \in {"mediate", "granted"} => q.approved
  /\ q.at = "denied" => ~q.approved

(* What can be found in the zone now: of what it ever stored. *)
Reach == Findable(stored)

BrokerInv ==
  /\ BrokerTypeOK
  /\ mom1 \subseteq stored /\ stored \subseteq Entries
  /\ \A r \in Requests : Sound(request[r], Reach)
  /\ TrailIsTrue

(* A step of request r, taken by the task that awaits it. *)
RequestStep(r) ==
  \/ \E scope \in Scopes \cup {{}} : Apply(r, scope)
  \/ Deliberate(r) \/ RecordFails(r) \/ CancelRequest(r)

Waiting == {"none", "gather", "adjudicate", "mediate", "record"}

-----------------------------------------------------------------------------
LEMMA InScopeWithin ==
  ASSUME NEW S, NEW T, S \subseteq T, NEW s
  PROVE  InScope(S, s) \subseteq S /\ InScope(S, s) \subseteq InScope(T, s)
BY DEF InScope

LEMMA AtMostFew ==
  ASSUME NEW S, IsFiniteSet(S), NEW k \in Nat, NEW T \in AtMost(S, k)
  PROVE  T \subseteq S /\ IsFiniteSet(T) /\ Cardinality(T) <= k
<1>1. T \subseteq S
  BY DEF AtMost
<1>2. IsFiniteSet(T) /\ Cardinality(S) \in Nat
  BY <1>1, FS_Subset, FS_CardinalityType
<1> QED BY <1>1, <1>2 DEF AtMost

LEMMA SoundGrows ==
  ASSUME NEW q, NEW m, NEW n, m \subseteq n, Sound(q, m)
  PROVE  Sound(q, n)
<1>1. InScope(m, q.scope) \subseteq InScope(n, q.scope)
  BY InScopeWithin
<1>2. InScope(InScope(m, q.scope), q.allowedScope)
        \subseteq InScope(InScope(n, q.scope), q.allowedScope)
  BY <1>1, InScopeWithin
<1> QED BY <1>1, <1>2 DEF Sound

LEMMA FindableGrows ==
  ASSUME NEW S, NEW T, S \subseteq T
  PROVE  /\ Findable(S) \subseteq Findable(T)
         /\ FromHistory(S) \subseteq FromHistory(T)
BY DEF Findable, FromHistory, FromIndex

(* Finitely many entries can be found in finitely many ways. *)
LEMMA FindingsFinite == IsFiniteSet(Findings)
<1>1. IsFiniteSet(Entries) /\ IsFiniteSet(Keys)
  BY BrokerAssumption
<1>2. IsFiniteSet(Layers)
  <2>1. IsFiniteSet({"vector", "lexical"})
    <3>1. {"vector", "lexical"} = {"vector"} \cup {"lexical"}
      OBVIOUS
    <3>2. IsFiniteSet({"vector"}) /\ IsFiniteSet({"lexical"})
      BY FS_Singleton
    <3>3. IsFiniteSet({"vector"} \cup {"lexical"})
      BY <3>2, FS_Union
    <3> QED BY <3>1, <3>3
  <2>2. IsFiniteSet(SUBSET {"vector", "lexical"})
    BY <2>1, FS_SUBSET
  <2> QED BY <2>2, FS_Subset, BrokerAssumption
<1>3. IsFiniteSet(FromHistory(Entries))
  <2> DEFINE f == [e \in Entries |-> [id |-> e, tags |-> Tags[e]]]
  <2>1. f \in Surjection(Entries, FromHistory(Entries))
    BY DEF Surjection, FromHistory
  <2> HIDE DEF f
  <2> QED BY <1>1, <2>1, FS_Surjection
<1>4. IsFiniteSet(FromIndex(Entries))
  <2> DEFINE f == [p \in Entries \X Layers |-> [id |-> p[1], tags |-> p[2]]]
  <2>1. f \in Surjection(Entries \X Layers, FromIndex(Entries))
    <3>1. f \in [Entries \X Layers -> FromIndex(Entries)]
      BY DEF FromIndex
    <3>2. ASSUME NEW h \in FromIndex(Entries) PROVE \E p \in Entries \X Layers : f[p] = h
      <4>1. PICK e \in Entries, layers \in Layers : h = [id |-> e, tags |-> layers]
        BY DEF FromIndex
      <4>2. <<e, layers>> \in Entries \X Layers /\ f[<<e, layers>>] = h
        BY <4>1
      <4> QED BY <4>2
    <3> HIDE DEF f
    <3> QED BY <3>1, <3>2 DEF Surjection
  <2>2. IsFiniteSet(Entries \X Layers)
    BY <1>1, <1>2, FS_Product
  <2> HIDE DEF f
  <2> QED BY <2>1, <2>2, FS_Surjection
<1>5. IsFiniteSet(FromKeys)
  <2> DEFINE f == [k \in Keys |-> [id |-> k, tags |-> {"kv"}]]
  <2>1. f \in Surjection(Keys, FromKeys)
    BY DEF Surjection, FromKeys
  <2> HIDE DEF f
  <2> QED BY <1>1, <2>1, FS_Surjection
<1>6. IsFiniteSet(FromHistory(Entries) \cup FromIndex(Entries))
  BY <1>3, <1>4, FS_Union
<1>7. IsFiniteSet((FromHistory(Entries) \cup FromIndex(Entries)) \cup FromKeys)
  BY <1>5, <1>6, FS_Union
<1> QED BY <1>7 DEF Findings, Findable

(* The ids of what was found are ids. *)
LEMMA IdsAreIds ==
  ASSUME NEW found \in SUBSET Findings
  PROVE  Ids(found) \subseteq Entries \cup Keys
<1>1. \A e \in Findings : e.id \in Entries \cup Keys
  BY DEF Findings, Findable, FromHistory, FromIndex, FromKeys
<1> QED BY <1>1 DEF Ids

LEMMA IdleIsSound ==
  ASSUME NEW m PROVE Sound(Idle, m)
<1>1. Cardinality({}) = 0
  BY FS_EmptySet
<1> QED BY <1>1, BrokerAssumption DEF Sound, Idle, RequestRecord, Places, Contents, InScope

-----------------------------------------------------------------------------
(* What a step of request r may do to its record, to the trail, and to what
   the gate shows of it. *)
TrailMove(r, new) ==
  \/ audit' = audit
  \/ /\ request[r].at = "record"
     /\ new.at \in {"granted", "denied", "cancelled"}
     /\ new.approved = request[r].approved /\ new.entries = request[r].entries
     /\ audit' = audit \cup {Decision(r)}

GateMove(r, new) ==
  LET q == request[r] IN
  \/ /\ q.at = "none" /\ audit' = audit
     /\ new.at = IF enabled THEN "gather" ELSE "record"
     /\ new.scope \in Scopes \cup {{}} /\ ~new.approved
  \/ /\ q.at \in {"gather", "adjudicate", "mediate"} /\ new.scope = q.scope
     /\ new.at \in {"adjudicate", "mediate", "record"} /\ audit' = audit
  \/ /\ q.at = "record" /\ new.scope = q.scope
     /\ new.at = (IF q.approved THEN "granted" ELSE "denied")
     /\ new.entries = q.entries /\ new.approved = q.approved
  \/ /\ q.at \in {"gather", "adjudicate", "mediate", "record"}
     /\ new.scope = q.scope /\ new.at \in {"raised", "cancelled"}

Moves(r, new) ==
  /\ Become(r, new)
  /\ request[r].at \in Waiting /\ new.at # "none"
  /\ Sound(new, Reach)
  /\ TrailMove(r, new)
  /\ GateMove(r, new)

LEMMA ApplyMoves ==
  ASSUME BrokerInv, NEW r \in Requests, NEW scope \in Scopes \cup {{}}, Apply(r, scope)
  PROVE  \E new : Moves(r, new)
<1> DEFINE new == [Idle EXCEPT !.at = IF enabled THEN "gather" ELSE "record",
                               !.scope = scope]
<1>1. Become(r, new) /\ request[r].at = "none" /\ audit' = audit
  BY DEF Apply
<1>2. new.at # "none" /\ ~new.approved /\ new.scope = scope
  BY DEF Idle
<1>3. Sound(new, Reach)
  <2>1. Cardinality({}) = 0
    BY FS_EmptySet
  <2>2. new \in RequestRecord
    BY DEF Idle, RequestRecord, Places, Contents
  <2>3. /\ new.at \in {"gather", "record"} /\ new.candidates = {} /\ new.entries = {}
        /\ ~new.redact /\ new.content = "none"
    BY DEF Idle
  <2> HIDE DEF new
  <2> QED BY <1>2, <2>1, <2>2, <2>3, BrokerAssumption DEF Sound
<1>4. TrailMove(r, new) /\ GateMove(r, new)
  BY <1>1, <1>2 DEF TrailMove, GateMove, Idle
<1> HIDE DEF new
<1> QED BY <1>1, <1>2, <1>3, <1>4 DEF Moves, Waiting

LEMMA GatherMoves ==
  ASSUME BrokerInv, NEW r \in Requests, Gather(r)
  PROVE  \E new : Moves(r, new)
<1>1. PICK recalled \in SUBSET (FromIndex(stored) \cup FromKeys),
           recent \in SUBSET FromHistory(mom1) :
        Become(r, [request[r] EXCEPT
                     !.at = IF InScope(recalled \cup recent, request[r].scope) = {}
                            THEN "record" ELSE "adjudicate",
                     !.candidates = InScope(recalled \cup recent, request[r].scope)])
  BY DEF Gather
<1> DEFINE q == request[r]
           found == recalled \cup recent
           candidates == InScope(found, q.scope)
           new == [q EXCEPT !.at = IF candidates = {} THEN "record" ELSE "adjudicate",
                            !.candidates = candidates]
<1>2. q.at = "gather" /\ audit' = audit
  BY DEF Gather
<1>3. Sound(q, Reach) /\ found \subseteq Reach /\ Reach \subseteq Findings
  <2>1. FromHistory(mom1) \subseteq FromHistory(stored) /\ Findable(stored) \subseteq Findings
    BY FindableGrows DEF BrokerInv, Findings
  <2> QED BY <2>1 DEF BrokerInv, Reach, Findable
<1>4. candidates \subseteq InScope(Reach, q.scope) /\ candidates \subseteq Findings
  BY <1>3, InScopeWithin
<1>5. q \in RequestRecord /\ ~q.approved /\ q.entries = {}
  BY <1>2, <1>3 DEF Sound
<1>10. Become(r, new)
  BY <1>1
<1> HIDE DEF candidates
<1>6. new \in RequestRecord
  BY <1>4, <1>5 DEF RequestRecord, Places
<1>7. /\ new.at = (IF candidates = {} THEN "record" ELSE "adjudicate")
      /\ new.candidates = candidates
      /\ \A f \in {"scope", "allowedScope", "redact", "approved", "entries", "content"} :
           new[f] = q[f]
  BY <1>5 DEF RequestRecord
<1> HIDE DEF new
<1>8. Sound(new, Reach)
  BY <1>2, <1>3, <1>4, <1>5, <1>6, <1>7 DEF Sound
<1>9. TrailMove(r, new) /\ GateMove(r, new)
  BY <1>2, <1>7 DEF TrailMove, GateMove
<1> QED BY <1>2, <1>7, <1>8, <1>9, <1>10 DEF Moves, Waiting

LEMMA ApproveMoves ==
  ASSUME BrokerInv, NEW r \in Requests, Approve(r)
  PROVE  \E new : Moves(r, new)
<1> DEFINE q == request[r]
<1>1. PICK scope \in Scopes \cup {{}}, redact \in BOOLEAN :
        \E entries \in AtMost(InScope(q.candidates, scope), MaxEntries) :
          LET new == [q EXCEPT !.approved = TRUE, !.allowedScope = scope,
                               !.redact = redact, !.entries = entries,
                               !.candidates = {}]
          IN  IF entries = {}
              THEN Become(r, [new EXCEPT !.at = "record"])
              ELSE IF A4Present
              THEN Become(r, [new EXCEPT !.at = "mediate"])
              ELSE Become(r, [new EXCEPT !.at = "record",
                                !.content = IF redact THEN "metadata" ELSE "preview"])
  BY DEF Approve
<1>2. PICK entries \in AtMost(InScope(q.candidates, scope), MaxEntries),
           at \in {"record", "mediate"},
           content \in {q.content, IF redact THEN "metadata" ELSE "preview"} :
        Become(r, [q EXCEPT !.approved = TRUE, !.allowedScope = scope, !.redact = redact,
                            !.entries = entries, !.candidates = {}, !.at = at,
                            !.content = content])
  <2> DEFINE Be(e, at, content) ==
        Become(r, [q EXCEPT !.approved = TRUE, !.allowedScope = scope, !.redact = redact,
                            !.entries = e, !.candidates = {}, !.at = at,
                            !.content = content])
  <2>1. PICK e \in AtMost(InScope(q.candidates, scope), MaxEntries) :
          LET new == [q EXCEPT !.approved = TRUE, !.allowedScope = scope,
                               !.redact = redact, !.entries = e, !.candidates = {}]
          IN  IF e = {}
              THEN Become(r, [new EXCEPT !.at = "record"])
              ELSE IF A4Present
              THEN Become(r, [new EXCEPT !.at = "mediate"])
              ELSE Become(r, [new EXCEPT !.at = "record",
                                !.content = IF redact THEN "metadata" ELSE "preview"])
    BY <1>1
  <2>2. q \in RequestRecord
    BY DEF BrokerInv, Sound
  <2>3. \/ Be(e, "record", q.content) \/ Be(e, "mediate", q.content)
        \/ Be(e, "record", IF redact THEN "metadata" ELSE "preview")
    BY <2>1, <2>2 DEF Become, RequestRecord
  <2> QED BY <2>3
<1> DEFINE new == [q EXCEPT !.approved = TRUE, !.allowedScope = scope, !.redact = redact,
                            !.entries = entries, !.candidates = {}, !.at = at,
                            !.content = content]
<1>3. q.at = "adjudicate" /\ audit' = audit
  BY DEF Approve
<1>4. Sound(q, Reach) /\ q \in RequestRecord /\ q.content = "none"
  BY <1>3 DEF BrokerInv, Sound
<1>5. /\ entries \subseteq InScope(q.candidates, scope)
      /\ Cardinality(entries) <= MaxEntries
      /\ entries \subseteq Findings
      /\ entries \subseteq InScope(InScope(Reach, q.scope), scope)
  <2>1. InScope(q.candidates, scope) \subseteq q.candidates /\ q.candidates \subseteq Findings
    BY <1>4, InScopeWithin DEF RequestRecord
  <2>2. IsFiniteSet(InScope(q.candidates, scope)) /\ MaxEntries \in Nat
    BY <2>1, FindingsFinite, FS_Subset, BrokerAssumption
  <2>3. InScope(q.candidates, scope) \subseteq InScope(InScope(Reach, q.scope), scope)
    BY <1>4, InScopeWithin DEF Sound
  <2>4. entries \subseteq InScope(q.candidates, scope) /\ Cardinality(entries) <= MaxEntries
    BY <2>2, AtMostFew
  <2> QED BY <2>1, <2>3, <2>4
<1>6. new \in RequestRecord
  BY <1>4, <1>5 DEF RequestRecord, Places, Contents
<1>7. /\ new.at = at /\ new.approved /\ new.allowedScope = scope /\ new.redact = redact
      /\ new.entries = entries /\ new.content = content
      /\ new.scope = q.scope /\ new.candidates = {}
  BY <1>4 DEF RequestRecord
<1>8. Sound(new, Reach)
  <2>1. new.redact => new.content # "preview"
    BY <1>4, <1>7
  <2> HIDE DEF new
  <2> QED BY <1>4, <1>5, <1>6, <1>7, <2>1 DEF Sound
<1>9. TrailMove(r, new) /\ GateMove(r, new)
  BY <1>3, <1>7 DEF TrailMove, GateMove
<1>10. Become(r, new)
  BY <1>2
<1> HIDE DEF new
<1> QED BY <1>3, <1>7, <1>8, <1>9, <1>10 DEF Moves, Waiting

(* The steps that change only the place of a request and what is shown, once
   its candidates are forgotten. *)
Placed(q, at, content) == [q EXCEPT !.at = at, !.content = content, !.candidates = {}]

LEMMA PlaceMoves ==
  ASSUME BrokerInv, NEW r \in Requests, NEW at, NEW content,
         request[r].at \in Waiting \ {"none"},
         at \in {"record", "granted", "denied", "raised", "cancelled"},
         at = "record" => request[r].at \in {"adjudicate", "mediate"},
         at = "granted" => request[r].approved,
         at = "denied" => ~request[r].approved,
         content \in Contents,
         request[r].redact => content # "preview",
         ~request[r].approved => content = "none"
  PROVE  LET new == Placed(request[r], at, content) IN
         /\ Sound(new, Reach) /\ new.at = at /\ new.scope = request[r].scope
         /\ new.approved = request[r].approved /\ new.entries = request[r].entries
<1> DEFINE q == request[r]
           new == Placed(q, at, content)
<1>1. Sound(q, Reach) /\ q \in RequestRecord
  BY DEF BrokerInv, Sound
<1>3. new \in RequestRecord
  BY <1>1 DEF RequestRecord, Places, Placed
<1>4. /\ new.at = at /\ new.approved = q.approved /\ new.redact = q.redact
      /\ new.allowedScope = q.allowedScope /\ new.entries = q.entries
      /\ new.content = content /\ new.scope = q.scope /\ new.candidates = {}
  BY <1>1 DEF RequestRecord, Placed
<1>5. new.redact => new.content # "preview"
  BY <1>1, <1>4 DEF Sound
<1>6. ~new.approved => new.entries = {} /\ new.content = "none"
  BY <1>1, <1>4 DEF Sound
<1>7. Sound(new, Reach)
  <2> HIDE DEF new
  <2> QED BY <1>1, <1>3, <1>4, <1>5, <1>6 DEF Sound
<1> QED BY <1>4, <1>7

LEMMA BareMoves ==
  ASSUME BrokerInv, NEW r \in Requests, NEW at,
         request[r].at \in Waiting \ {"none"},
         at \in {"record", "granted", "denied", "raised", "cancelled"},
         at = "record" => request[r].at \in {"adjudicate", "mediate"},
         at = "granted" => request[r].approved,
         at = "denied" => ~request[r].approved
  PROVE  LET new == Placed(request[r], at, request[r].content) IN
         /\ Sound(new, Reach) /\ new.at = at /\ new.scope = request[r].scope
         /\ new.approved = request[r].approved /\ new.entries = request[r].entries
<1>1. Sound(request[r], Reach)
  BY DEF BrokerInv
<1>2. /\ request[r].content \in Contents
      /\ request[r].redact => request[r].content # "preview"
      /\ ~request[r].approved => request[r].content = "none"
  BY <1>1 DEF Sound, RequestRecord
<1> QED BY <1>2, PlaceMoves

LEMMA OtherMoves ==
  ASSUME BrokerInv, NEW r \in Requests,
         \/ Deny(r) \/ AdjudicatorFails(r) \/ Mediate(r) \/ Record(r)
         \/ RecordFails(r) \/ CancelRequest(r)
  PROVE  \E new : Moves(r, new)
<1> DEFINE q == request[r]
<1>1. Sound(q, Reach) /\ q \in RequestRecord
  BY DEF BrokerInv, Sound
<1>2. ASSUME NEW at PROVE [q EXCEPT !.at = at, !.candidates = {}] = Placed(q, at, q.content)
  BY <1>1 DEF RequestRecord, Placed
<1>8. ASSUME NEW at, NEW content, q.at # "adjudicate"
      PROVE  /\ [q EXCEPT !.at = at] = Placed(q, at, q.content)
             /\ [q EXCEPT !.at = at, !.content = content] = Placed(q, at, content)
  <2>1. q.candidates = {}
    BY <1>1, <1>8 DEF Sound
  <2> QED BY <1>1, <2>1 DEF RequestRecord, Placed
<1>3. CASE Deny(r)
  <2>1. q.at = "adjudicate" /\ audit' = audit /\ Become(r, Placed(q, "record", q.content))
    BY <1>2, <1>3 DEF Deny
  <2>2. /\ Sound(Placed(q, "record", q.content), Reach)
        /\ Placed(q, "record", q.content).at = "record"
        /\ Placed(q, "record", q.content).scope = q.scope
    BY <2>1, BareMoves DEF Waiting
  <2> QED BY <2>1, <2>2 DEF Moves, TrailMove, GateMove, Waiting
<1>4. CASE AdjudicatorFails(r)
  <2>1. q.at = "adjudicate" /\ audit' = audit /\ Become(r, Placed(q, "raised", q.content))
    BY <1>2, <1>4 DEF AdjudicatorFails
  <2>2. /\ Sound(Placed(q, "raised", q.content), Reach)
        /\ Placed(q, "raised", q.content).at = "raised"
        /\ Placed(q, "raised", q.content).scope = q.scope
    BY <2>1, BareMoves DEF Waiting
  <2> QED BY <2>1, <2>2 DEF Moves, TrailMove, GateMove, Waiting
<1>5. CASE Mediate(r)
  <2>1. PICK content \in {"a4", IF q.redact THEN "metadata" ELSE "preview"} :
          Become(r, Placed(q, "record", content))
    <3>1. PICK content \in {"a4", IF q.redact THEN "metadata" ELSE "preview"} :
            Become(r, [q EXCEPT !.at = "record", !.content = content])
      BY <1>5 DEF Mediate
    <3>2. q.at # "adjudicate"
      BY <1>5 DEF Mediate
    <3>3. [q EXCEPT !.at = "record", !.content = content] = Placed(q, "record", content)
      BY <1>8, <3>2
    <3> QED BY <3>1, <3>3
  <2>2. q.at = "mediate" /\ audit' = audit
    BY <1>5 DEF Mediate
  <2>3. q.approved
    BY <1>1, <2>2 DEF Sound
  <2>4. /\ Sound(Placed(q, "record", content), Reach)
        /\ Placed(q, "record", content).at = "record"
        /\ Placed(q, "record", content).scope = q.scope
    BY <2>2, <2>3, PlaceMoves DEF Waiting, Contents
  <2> QED BY <2>1, <2>2, <2>4 DEF Moves, TrailMove, GateMove, Waiting
<1>6. CASE Record(r) \/ RecordFails(r)
  <2> DEFINE at == IF q.approved THEN "granted" ELSE "denied"
             new == Placed(q, at, q.content)
  <2>1. /\ q.at = "record" /\ Become(r, new)
        /\ audit' = audit \/ audit' = audit \cup {Decision(r)}
    BY <1>6, <1>8 DEF Record, RecordFails
  <2>2. /\ Sound(new, Reach) /\ new.at = at /\ new.scope = q.scope
        /\ new.approved = q.approved /\ new.entries = q.entries
    BY <2>1, BareMoves DEF Waiting
  <2> HIDE DEF new
  <2> QED BY <2>1, <2>2 DEF Moves, TrailMove, GateMove, Waiting
<1>7. CASE CancelRequest(r)
  <2> DEFINE new == Placed(q, "cancelled", q.content)
  <2>1. /\ q.at \in {"gather", "adjudicate", "mediate", "record"} /\ Become(r, new)
        /\ \/ audit' = audit
           \/ q.at = "record" /\ audit' = audit \cup {Decision(r)}
    BY <1>2, <1>7 DEF CancelRequest
  <2>2. /\ Sound(new, Reach) /\ new.at = "cancelled" /\ new.scope = q.scope
        /\ new.approved = q.approved /\ new.entries = q.entries
    BY <2>1, BareMoves DEF Waiting
  <2> HIDE DEF new
  <2> QED BY <2>1, <2>2 DEF Moves, TrailMove, GateMove, Waiting
<1> QED BY <1>3, <1>4, <1>5, <1>6, <1>7

LEMMA RequestMoves ==
  ASSUME BrokerInv, NEW r \in Requests, RequestStep(r)
  PROVE  \E new : Moves(r, new)
BY ApplyMoves, GatherMoves, ApproveMoves, OtherMoves DEF RequestStep, Deliberate

-----------------------------------------------------------------------------
(* Mom1 forgets and learns under the broker; what can be found of it grows. *)
Learns == stored \subseteq stored' /\ stored' \subseteq Entries /\ mom1' \subseteq stored'

LEMMA ReachGrows ==
  ASSUME Learns PROVE Reach \subseteq Reach' /\ Reach' \subseteq Findings
<1>1. \A S, T : S \subseteq T => Findable(S) \subseteq Findable(T)
  BY FindableGrows
<1>2. Reach' = Findable(stored')
  BY DEF Reach, Findable, FromHistory, FromIndex, FromKeys
<1> QED BY <1>1, <1>2 DEF Learns, Reach, Findings

LEMMA BrokerInvInit ==
  ASSUME BrokerInit, mom1 \subseteq stored, stored \subseteq Entries PROVE BrokerInv
<1>1. \A r \in Requests : Sound(request[r], Reach)
  BY IdleIsSound DEF BrokerInit
<1>2. BrokerTypeOK
  BY DEF BrokerInit, BrokerTypeOK, Idle, Places, Contents
<1> QED BY <1>1, <1>2 DEF BrokerInit, BrokerInv, TrailIsTrue

LEMMA RequestKeepsInv ==
  ASSUME BrokerInv, NEW r \in Requests, RequestStep(r), Learns
  PROVE  BrokerInv'
<1>1. PICK new : Moves(r, new)
  BY RequestMoves
<1>2. /\ request' = [request EXCEPT ![r] = new] /\ enabled' = enabled
      /\ request[r].at \in Waiting /\ TrailMove(r, new) /\ Sound(new, Reach)
  BY <1>1 DEF Moves, Become
<1>3. request \in [Requests -> RequestRecord] /\ request' \in [Requests -> RequestRecord]
  BY <1>2 DEF BrokerInv, BrokerTypeOK, RequestRecord, Sound
<1>4. /\ request'[r] = new
      /\ \A s \in Requests \ {r} : request'[s] = request[s] /\ Decision(s)' = Decision(s)
  BY <1>2, <1>3 DEF Decision
<1>5. (\A s \in Requests : Sound(request[s], Reach))'
  <2>1. ASSUME NEW s \in Requests PROVE Sound(request'[s], Reach)
    BY <1>2, <1>4 DEF BrokerInv
  <2>2. ASSUME NEW s \in Requests PROVE Sound(request'[s], Reach')
    BY <2>1, ReachGrows, SoundGrows
  <2> QED BY <2>2 DEF Sound
<1>6. \A d \in audit : d.of \in Requests \ {r} /\ d \in DecisionRecord
  BY <1>2 DEF BrokerInv, BrokerTypeOK, TrailIsTrue, Waiting, DecisionRecord
<1>7. Decision(r).of = r /\ Decision(r) \in DecisionRecord
  <2>1. request[r].entries \in SUBSET Findings /\ request[r].approved \in BOOLEAN
    BY <1>3 DEF RequestRecord
  <2> QED BY <2>1, IdsAreIds DEF Decision, DecisionRecord
<1>8. audit' \subseteq audit \cup {Decision(r)}
  BY <1>2 DEF TrailMove
<1>9. BrokerTypeOK'
  <2>1. enabled' \in BOOLEAN
    BY <1>2 DEF BrokerInv, BrokerTypeOK
  <2>2. audit' \subseteq DecisionRecord
    BY <1>6, <1>7, <1>8
  <2> QED BY <1>3, <2>1, <2>2 DEF BrokerTypeOK, RequestRecord, DecisionRecord
<1>10. TrailIsTrue'
  <2>1. ASSUME NEW d \in audit
        PROVE  request'[d.of].at \in {"granted", "denied", "cancelled"} /\ d = Decision(d.of)'
    BY <1>4, <1>6 DEF BrokerInv, TrailIsTrue
  <2>2. ASSUME Decision(r) \in audit'
        PROVE  new.at \in {"granted", "denied", "cancelled"} /\ Decision(r) = Decision(r)'
    <3>1. Decision(r) \notin audit
      BY <1>6, <1>7
    <3> QED BY <1>2, <1>4, <2>2, <3>1 DEF TrailMove, Decision
  <2>3. \A d \in audit' :
          request'[d.of].at \in {"granted", "denied", "cancelled"} /\ d = Decision(d.of)'
    BY <1>4, <1>7, <1>8, <2>1, <2>2
  <2>4. \A c, d \in audit' : c.of = d.of => c = d
    BY <2>3
  <2> QED BY <2>3, <2>4 DEF TrailIsTrue
<1> QED BY <1>5, <1>9, <1>10 DEF BrokerInv, Learns

(* Nothing but Mom1 or the switch changes. *)
LEMMA RestKeepsInv ==
  ASSUME BrokerInv, UNCHANGED <<request, audit>>, enabled' \in BOOLEAN, Learns
  PROVE  BrokerInv'
<1>1. (\A s \in Requests : Sound(request[s], Reach))'
  <2>1. ASSUME NEW s \in Requests PROVE Sound(request[s], Reach')
    BY ReachGrows, SoundGrows DEF BrokerInv
  <2> QED BY <2>1 DEF Sound
<1>2. BrokerTypeOK' /\ TrailIsTrue'
  BY DEF BrokerInv, BrokerTypeOK, TrailIsTrue, Decision
<1> QED BY <1>1, <1>2 DEF BrokerInv, Learns

(* What a grant holds is narrow. *)
LEMMA InvIsNarrow ==
  ASSUME BrokerInv PROVE GrantsAreNarrow
<1> SUFFICES ASSUME NEW r \in Requests
             PROVE  LET q == request[r] IN
                    /\ q.entries \subseteq InScope(InScope(Findings, q.scope), q.allowedScope)
                    /\ Cardinality(q.entries) <= MaxEntries
                    /\ q.redact => q.content # "preview"
                    /\ ~q.approved => q.entries = {} /\ q.content = "none"
  BY DEF GrantsAreNarrow
<1>1. Sound(request[r], Reach)
  BY DEF BrokerInv
<1>2. Reach \subseteq Findings
  BY FindableGrows DEF BrokerInv, Reach, Findings
<1>3. Sound(request[r], Findings)
  BY <1>1, <1>2, SoundGrows
<1> QED BY <1>3 DEF Sound

-----------------------------------------------------------------------------
(* The same step, seen through the gate. *)
GateInvisible == UNCHANGED Gate!gateVars

Given(q) == IF q.at = "granted" THEN q.entries ELSE {}

LEMMA GateStarts ==
  ASSUME BrokerInit, stored \subseteq Entries PROVE Gate!GateInit
<1>1. Findable(stored) \subseteq Findings
  BY FindableGrows DEF Findings
<1> QED BY <1>1 DEF BrokerInit, Gate!GateInit, Idle, GateStatus

LEMMA RequestGates ==
  ASSUME BrokerInv, NEW r \in Requests, RequestStep(r), stored' = stored
  PROVE  Gate!GateNext \/ GateInvisible
<1>1. PICK new : Moves(r, new)
  BY RequestMoves
<1> DEFINE q == request[r]
           status == [x \in Requests |-> GateStatus(request[x])]
           scope == [x \in Requests |-> request[x].scope]
           given == [x \in Requests |-> Given(request[x])]
<1>2. /\ request' = [request EXCEPT ![r] = new] /\ enabled' = enabled
      /\ q.at \in Waiting /\ new.at # "none"
      /\ TrailMove(r, new) /\ GateMove(r, new) /\ Sound(new, Reach)
  BY <1>1 DEF Moves, Become
<1>3. /\ request \in [Requests -> RequestRecord] /\ Sound(q, Reach)
      /\ DOMAIN request = Requests
  BY DEF BrokerInv, BrokerTypeOK, RequestRecord
<1>4. /\ request'[r] = new /\ \A x \in Requests \ {r} : request'[x] = request[x]
      /\ DOMAIN request' = Requests
  BY <1>2, <1>3
<1>5. status' = [status EXCEPT ![r] = GateStatus(new)]
  BY <1>4
<1>6. scope' = [scope EXCEPT ![r] = new.scope]
  BY <1>4
<1>7. given' = [given EXCEPT ![r] = Given(new)]
  BY <1>4
<1>8. status[r] = GateStatus(q) /\ scope[r] = q.scope /\ given[r] = Given(q)
  OBVIOUS
<1>9. given[r] = {}
  BY <1>2, <1>8 DEF Waiting, Given
<1>10. new.scope = q.scope => scope' = scope
  BY <1>6, <1>8
<1>11. new.at # "granted" => given' = given
  BY <1>7, <1>9 DEF Given
<1>12. GateStatus(new) = GateStatus(q) => status' = status
  BY <1>5, <1>8
<1>13. q.entries \in Gate!Handout(r)
  <2>1. q.entries \subseteq InScope(Reach, q.scope)
    BY <1>3, InScopeWithin DEF Sound
  <2>2. Cardinality(q.entries) <= MaxEntries
    BY <1>3 DEF Sound
  <2>3. q.entries \in {S \in SUBSET InScope(Reach, q.scope) : Cardinality(S) <= MaxEntries}
    BY <2>1, <2>2
  <2>4. Gate!Handout(r) = {S \in SUBSET InScope(Reach, q.scope) : Cardinality(S) <= MaxEntries}
    BY DEF Gate!Handout, Gate!Cardinality, Cardinality, Reach
  <2> QED BY <2>3, <2>4
<1> HIDE DEF status, scope, given
<1>20. CASE q.at = "none"
  <2>1. /\ audit' = audit /\ new.at = IF enabled THEN "gather" ELSE "record"
        /\ new.scope \in Scopes \cup {{}} /\ ~new.approved
    BY <1>2, <1>20 DEF GateMove
  <2>2. Gate!File(r)
    BY <1>2, <1>5, <1>6, <1>8, <1>11, <1>20, <2>1 DEF Gate!File, GateStatus, status, scope, given, Given
  <2> QED BY <2>2 DEF Gate!GateNext
<1>21. CASE /\ q.at \in {"gather", "adjudicate", "mediate"} /\ new.scope = q.scope
            /\ new.at \in {"adjudicate", "mediate", "record"} /\ audit' = audit
  <2>1. CASE GateStatus(new) = GateStatus(q)
    BY <1>2, <1>10, <1>11, <1>12, <1>21, <2>1 DEF GateInvisible, Gate!gateVars, status, scope, given, Given
  <2>2. CASE GateStatus(new) # GateStatus(q)
    <3>1. GateStatus(q) = "considered" /\ GateStatus(new) = "refused"
      BY <1>21, <2>2 DEF GateStatus
    <3>2. Gate!Refuse(r)
      BY <1>2, <1>5, <1>8, <1>10, <1>11, <1>21, <3>1 DEF Gate!Refuse, status, scope, given, Given
    <3> QED BY <3>2 DEF Gate!GateNext
  <2> QED BY <2>1, <2>2
<1>22. CASE /\ q.at = "record" /\ new.scope = q.scope
            /\ new.at = (IF q.approved THEN "granted" ELSE "denied")
            /\ new.entries = q.entries /\ new.approved = q.approved
  <2>1. audit' = audit \/ audit' = audit \cup {Decision(r)}
    BY <1>2 DEF TrailMove
  <2>2. CASE q.approved
    <3>1. GateStatus(q) = "considered" /\ GateStatus(new) = "granted" /\ Given(new) = q.entries
      BY <1>22, <2>2 DEF GateStatus, Given
    <3>2. Decision(r) = Gate!Told(r, TRUE, q.entries)
      BY <1>3, <2>2 DEF Decision, Gate!Told, RequestRecord
    <3>4. Gate!WriteDown(Gate!Told(r, TRUE, q.entries))
      BY <2>1, <3>2 DEF Gate!WriteDown
    <3>5. Gate!Grant(r)
      BY <1>2, <1>5, <1>7, <1>8, <1>10, <1>13, <1>22, <3>1, <3>4
         DEF Gate!Grant, status, scope, given, Given
    <3> QED BY <3>5 DEF Gate!GateNext
  <2>3. CASE ~q.approved
    <3>1. GateStatus(q) = "refused" /\ GateStatus(new) = "denied" /\ new.at # "granted"
      BY <1>22, <2>3 DEF GateStatus
    <3>2. Decision(r) = Gate!Told(r, FALSE, {})
      BY <1>3, <2>3 DEF Decision, Gate!Told, RequestRecord, Sound, Ids
    <3>3. Gate!WriteDown(Gate!Told(r, FALSE, {}))
      BY <2>1, <3>2 DEF Gate!WriteDown
    <3>4. Gate!Deny(r)
      BY <1>2, <1>5, <1>8, <1>10, <1>11, <1>22, <3>1, <3>3
         DEF Gate!Deny, status, scope, given, Given
    <3> QED BY <3>4 DEF Gate!GateNext
  <2> QED BY <2>2, <2>3
<1>23. CASE /\ q.at \in {"gather", "adjudicate", "mediate", "record"}
            /\ new.scope = q.scope /\ new.at \in {"raised", "cancelled"}
  <2>1. GateStatus(q) \in {"considered", "refused"} /\ GateStatus(new) = "dropped"
    BY <1>23 DEF GateStatus
  <2>2. \/ audit' = audit
        \/ q.at = "record" /\ audit' = audit \cup {Decision(r)}
    BY <1>2 DEF TrailMove
  <2>3. \/ audit' = audit
        \/ GateStatus(q) = "refused" /\ Gate!WriteDown(Gate!Told(r, FALSE, {}))
        \/ /\ GateStatus(q) = "considered"
           /\ \E entries \in Gate!Handout(r) : Gate!WriteDown(Gate!Told(r, TRUE, entries))
    <3>1. CASE audit' = audit
      BY <3>1
    <3>2. CASE q.at = "record" /\ audit' = audit \cup {Decision(r)} /\ q.approved
      <4>1. Decision(r) = Gate!Told(r, TRUE, q.entries)
        BY <1>3, <3>2 DEF Decision, Gate!Told, RequestRecord
      <4> QED BY <1>13, <3>2, <4>1 DEF Gate!WriteDown, GateStatus
    <3>3. CASE q.at = "record" /\ audit' = audit \cup {Decision(r)} /\ ~q.approved
      <4>1. Decision(r) = Gate!Told(r, FALSE, {})
        BY <1>3, <3>3 DEF Decision, Gate!Told, RequestRecord, Sound, Ids
      <4> QED BY <3>3, <4>1 DEF Gate!WriteDown, GateStatus
    <3> QED BY <2>2, <3>1, <3>2, <3>3
  <2>4. Gate!Drop(r)
    BY <1>2, <1>5, <1>8, <1>10, <1>11, <1>23, <2>1, <2>3
       DEF Gate!Drop, Gate!Filed, status, scope, given, Given
  <2> QED BY <2>4 DEF Gate!GateNext
<1> QED BY <1>2, <1>20, <1>21, <1>22, <1>23 DEF GateMove

LEMMA LearnGates ==
  ASSUME Learns, UNCHANGED brokerVars PROVE Gate!GateNext
<1>1. Findable(stored) \subseteq Findable(stored)' /\ Findable(stored)' \subseteq Findings
  BY ReachGrows DEF Reach
<1>2. Gate!Learn
  BY <1>1 DEF brokerVars, Gate!Learn
<1> QED BY <1>2 DEF Gate!GateNext

LEMMA SwitchGates ==
  ASSUME BrokerInv, NEW on \in BOOLEAN, SetEnabled(on), stored' = stored
  PROVE  Gate!GateNext
<1>1. Gate!Switch
  BY DEF SetEnabled, Gate!Switch, BrokerInv, BrokerTypeOK
<1> QED BY <1>1 DEF Gate!GateNext

-----------------------------------------------------------------------------
(***************************************************************************)
(* The turns, with the requests of their agents.                           *)
(***************************************************************************)
TurnRecord ==
  [at : Over \cup Awaits, mode : Modes \cup {"buffered"},
   tools : SUBSET {"wp2", "wp3"}, kind : {"task", "mission"},
   route : {"none", "direct", "convert"}, works : {"wp2", "wp3"},
   text : Text, check : Checks, attempt : 0..(Retries - 1), step : 0..MaxSteps,
   pending : SUBSET Calls, shown : Text, advice : BOOLEAN, failing : BOOLEAN,
   interrupts : 0..MaxInterrupts, unstored : BOOLEAN, wp2Failed : BOOLEAN,
   rewritten : BOOLEAN]

(* A correction is under way only when a round is left, the model is asked
   only when a step is left, and calls are pending only while they run: the
   last is what keeps the interruption of a request apart from a store. *)
GoodTurn(r) ==
  /\ r \in TurnRecord
  /\ r.at = "correct" => r.attempt < Retries - 1
  /\ r.at = "think" => r.step < MaxSteps
  /\ r.pending # {} => r.at = "act"
  /\ ~r.text.advised

(* Where a turn goes on to before it is on record: as the same kind of turn. *)
Unrecorded == (Awaits \ {"archive"}) \cup {"failed", "gone"}

Onward(r, new) == GoodTurn(new) /\ new.mode = r.mode /\ new.at \in Unrecorded

ZonesOK == zone \in [Zones -> [Turns -> Text \cup {Nothing}]]

-----------------------------------------------------------------------------
(* What a turn computes between two awaits. *)
LEMMA Bounds ==
  /\ Retries \in Nat \ {0} /\ MaxSteps \in Nat \ {0} /\ Chunks \in Nat \ {0}
  /\ MaxInterrupts \in Nat
BY WorkflowAssumption

LEMMA Counts ==
  /\ 0 \in 0..(Retries - 1) /\ 0 \in 0..MaxSteps /\ 0 \in 0..MaxInterrupts
  /\ 0 \in 0..Chunks /\ Chunks \in 0..Chunks
BY Bounds

LEMMA AnswerIsText ==
  ASSUME NEW short \in BOOLEAN
  PROVE  /\ Answer(short) \in Text /\ ~Answer(short).advised
         /\ Empty \in Text /\ ~Empty.advised
<1>1. \A s \in BOOLEAN : Answer(s) \in Text /\ ~Answer(s).advised
  BY Counts DEF Answer, Text
<1>2. ASSUME NEW text \in Text
      PROVE  /\ [text EXCEPT !.size = 0] \in Text
             /\ [text EXCEPT !.size = 0].advised = text.advised
  <2>1. [text EXCEPT !.size = 0] \in Text
    BY Counts DEF Text
  <2>2. [text EXCEPT !.size = 0].advised = text.advised
    BY DEF Text
  <2> QED BY <2>1, <2>2
<1>3. Empty \in Text /\ ~Empty.advised
  BY <1>1, <1>2 DEF Empty
<1> QED BY <1>1, <1>3

LEMMA NewTurnIsGood == GoodTurn(NewTurn)
<1>1. Empty \in Text /\ ~Empty.advised
  BY AnswerIsText
<1>2. NewTurn \in TurnRecord
  BY <1>1, Counts DEF NewTurn, TurnRecord, Over, Checks
<1> QED BY <1>1, <1>2 DEF GoodTurn, NewTurn

(* A record between two calls, ready to go on. *)
Ready(r) == r \in TurnRecord /\ r.pending = {} /\ ~r.text.advised

LEMMA OnwardWhen ==
  ASSUME NEW r, NEW new, Ready(new), new.mode = r.mode, new.at \in Unrecorded,
         new.at = "correct" => new.attempt < Retries - 1,
         new.at = "think" => new.step < MaxSteps
  PROVE  Onward(r, new)
BY DEF Onward, GoodTurn, Ready

LEMMA ExecuteIsGood ==
  ASSUME NEW r, Ready(r), NEW ws \in {"wp2", "wp3"}
  PROVE  Onward(r, Execute(r, ws))
<1> DEFINE at == IF ws \in r.tools THEN "think" ELSE IF Live(r) THEN "stream" ELSE "complete"
           new == [r EXCEPT !.works = ws, !.step = 0, !.text = Empty, !.at = at]
<1>1. at \in Awaits /\ at \in Unrecorded /\ at # "correct"
  BY DEF Awaits, Unrecorded
<1>2. new = Execute(r, ws)
  BY DEF Execute
<1> HIDE DEF at
<1>3. Ready(new)
  BY <1>1, Counts, AnswerIsText DEF Ready, TurnRecord
<1>4. new.at = at /\ new.step = 0 /\ new.mode = r.mode
  BY DEF Ready, TurnRecord
<1> HIDE DEF new
<1>5. Onward(r, new)
  BY <1>1, <1>3, <1>4, Bounds, OnwardWhen
<1> QED BY <1>2, <1>5

LEMMA CheckIsGood ==
  ASSUME NEW r, Ready(r), NEW which \in Checks
  PROVE  Onward(r, Check(r, which))
<1> DEFINE new == Check(r, which)
<1>1. "check" \in Awaits /\ "check" \in Unrecorded
  BY DEF Awaits, Unrecorded
<1>2. Ready(new) /\ new.at = "check" /\ new.mode = r.mode
  BY <1>1, Counts DEF Check, Ready, TurnRecord
<1> HIDE DEF new
<1>3. Onward(r, new)
  BY <1>1, <1>2, OnwardWhen
<1> QED BY <1>3 DEF new

(* A turn that only goes on to another place. *)
LEMMA PlaceIsGood ==
  ASSUME NEW r, Ready(r), NEW at \in Unrecorded \ {"think", "correct"}
  PROVE  Onward(r, [r EXCEPT !.at = at])
<1> DEFINE new == [r EXCEPT !.at = at]
<1>1. at \in Over \cup Awaits
  BY DEF Unrecorded, Over
<1>2. Ready(new) /\ new.at = at /\ new.mode = r.mode
  BY <1>1 DEF Ready, TurnRecord
<1> HIDE DEF new
<1>3. Onward(r, new)
  BY <1>2, OnwardWhen
<1> QED BY <1>3 DEF new

(* What follows a change of the record that does not matter here. *)
LEMMA OnwardFrom ==
  ASSUME NEW r, NEW s, NEW new, s.mode = r.mode, Onward(s, new)
  PROVE  Onward(r, new)
BY DEF Onward

LEMMA ExecutedIsGood ==
  ASSUME NEW r \in TurnRecord, NEW text \in Text, ~text.advised
  PROVE  Onward(r, Executed(r, text))
<1> DEFINE new == [r EXCEPT !.text = text, !.pending = {}]
<1>1. Ready(new) /\ new.works = r.works /\ new.mode = r.mode
  BY DEF Ready, TurnRecord
<1>2. Executed(r, text) \in {[new EXCEPT !.at = "emit"], Check(new, "wp2"),
                             [new EXCEPT !.at = "store3"]}
  BY DEF Executed
<1> HIDE DEF new
<1>3. /\ Onward(new, [new EXCEPT !.at = "emit"]) /\ Onward(new, Check(new, "wp2"))
      /\ Onward(new, [new EXCEPT !.at = "store3"])
  BY <1>1, CheckIsGood, PlaceIsGood DEF Checks, Unrecorded, Awaits
<1> QED BY <1>1, <1>2, <1>3, OnwardFrom

LEMMA VerdictIsGood ==
  ASSUME NEW r, Ready(r), NEW ok \in BOOLEAN
  PROVE  Onward(r, Verdict(r, ok))
<1>1. CASE r.check = "wp2"
  <2> DEFINE text == [[r.text EXCEPT !.marked = ~ok] EXCEPT !.short = FALSE]
             new == [r EXCEPT !.at = "store2", !.wp2Failed = ~ok, !.rewritten = FALSE,
                              !.text = text]
  <2>1. text \in Text /\ ~text.advised
    BY DEF Ready, TurnRecord, Text
  <2>2. "store2" \in Awaits /\ "store2" \in Unrecorded /\ (~ok) \in BOOLEAN
    BY DEF Awaits, Unrecorded
  <2>3. Verdict(r, ok) = new
    BY <1>1 DEF Ready, Verdict, TurnRecord
  <2> HIDE DEF text
  <2>4. Ready(new) /\ new.at = "store2" /\ new.mode = r.mode
    BY <2>1, <2>2 DEF Ready, TurnRecord
  <2> HIDE DEF new
  <2> QED BY <2>2, <2>3, <2>4, OnwardWhen
<1>2. CASE r.check = "wp3"
  BY <1>2, CheckIsGood DEF Verdict, Checks
<1>3. CASE r.check = "handoff"
  BY <1>3, ExecuteIsGood DEF Verdict
<1>4. CASE r.check = "final"
  <2> DEFINE new == [r EXCEPT !.at = "store1", !.advice = ~ok]
  <2>1. (~ok) \in BOOLEAN /\ "store1" \in Awaits /\ "store1" \in Unrecorded
    BY DEF Awaits, Unrecorded
  <2>2. Verdict(r, ok) = new
    BY <1>4 DEF Verdict, Advised
  <2>3. Ready(new) /\ new.at = "store1" /\ new.mode = r.mode
    BY <2>1 DEF Ready, TurnRecord
  <2> HIDE DEF new
  <2> QED BY <2>1, <2>2, <2>3, OnwardWhen
<1>5. r.check \in Checks
  BY DEF Ready, TurnRecord
<1> QED BY <1>1, <1>2, <1>3, <1>4, <1>5 DEF Checks

LEMMA IssuesIsGood ==
  ASSUME NEW r, Ready(r)
  PROVE  Onward(r, Issues(r))
<1>1. CASE LastAttempt(r)
  BY <1>1, VerdictIsGood DEF Issues
<1>2. CASE ~LastAttempt(r)
  <2> DEFINE new == [r EXCEPT !.at = "correct"]
  <2>1. "correct" \in Awaits /\ "correct" \in Unrecorded
    BY DEF Awaits, Unrecorded
  <2>2. /\ Ready(new) /\ new.at = "correct" /\ new.mode = r.mode
        /\ new.attempt = r.attempt
    BY <2>1 DEF Ready, TurnRecord
  <2>3. r.attempt < Retries - 1
    BY <1>2, Bounds DEF LastAttempt, Ready, TurnRecord
  <2>4. Issues(r) = new
    BY <1>2 DEF Issues
  <2> HIDE DEF new
  <2> QED BY <2>1, <2>2, <2>3, <2>4, OnwardWhen
<1> QED BY <1>1, <1>2

LEMMA RoutedIsGood ==
  ASSUME NEW r, Ready(r), NEW route \in Routes
  PROVE  Onward(r, Routed(r, route))
<1> DEFINE new == [r EXCEPT !.route = route]
<1>1. route \in {"direct", "convert"}
  BY ChoicesAssumption
<1>2. Ready(new) /\ new.mode = r.mode
  BY <1>1 DEF Ready, TurnRecord
<1>3. Routed(r, route) \in {Execute(new, "wp3"), [new EXCEPT !.at = "convert"]}
  BY DEF Routed
<1> HIDE DEF new
<1>4. Onward(new, Execute(new, "wp3")) /\ Onward(new, [new EXCEPT !.at = "convert"])
  BY <1>2, ExecuteIsGood, PlaceIsGood DEF Unrecorded, Awaits
<1> QED BY <1>2, <1>3, <1>4, OnwardFrom

LEMMA GoOnIsGood ==
  ASSUME NEW r, Ready(r)
  PROVE  Onward(r, GoOn(r))
<1>1. CASE r.step = MaxSteps
  BY <1>1, ExecutedIsGood, AnswerIsText DEF GoOn, Ready
<1>2. CASE r.step # MaxSteps
  <2> DEFINE new == [r EXCEPT !.at = "think"]
  <2>1. "think" \in Awaits /\ "think" \in Unrecorded
    BY DEF Awaits, Unrecorded
  <2>2. Ready(new) /\ new.at = "think" /\ new.mode = r.mode /\ new.step = r.step
    BY <2>1 DEF Ready, TurnRecord
  <2>3. r.step < MaxSteps
    BY <1>2, Bounds DEF Ready, TurnRecord
  <2>4. GoOn(r) = new
    BY <1>2 DEF GoOn
  <2> HIDE DEF new
  <2> QED BY <2>1, <2>2, <2>3, <2>4, OnwardWhen
<1> QED BY <1>1, <1>2

LEMMA RecordedIsText ==
  ASSUME NEW r \in TurnRecord
  PROVE  Recorded(r) \in Text /\ [r.text EXCEPT !.advised = r.advice] \in Text
BY DEF Recorded, Text, TurnRecord, Live

(* What is left of the record of a turn that is over. *)
SameTurn(r, new) ==
  /\ new.mode = r.mode /\ new.works = r.works /\ new.text = r.text
  /\ new.shown = r.shown /\ new.advice = r.advice /\ new.pending = r.pending
  /\ new.wp2Failed = r.wp2Failed /\ new.rewritten = r.rewritten

LEMMA LeaveKeeps ==
  ASSUME NEW r \in TurnRecord, NEW at \in Over
  PROVE  /\ Leave(r, at) \in TurnRecord /\ Leave(r, at).at = at
         /\ SameTurn(r, Leave(r, at)) /\ Leave(r, at).unstored = r.unstored
<1>1. "wp2" \in Checks /\ at \in Over \cup Awaits /\ {} \in SUBSET {"wp2", "wp3"}
  BY DEF Checks
<1>2. Leave(r, at) \in TurnRecord
  BY <1>1, Counts DEF Leave, TurnRecord
<1> QED BY <1>2 DEF Leave, TurnRecord, SameTurn

(* The store, too, may be why it is over. *)
LEMMA LeaveUnstored ==
  ASSUME NEW r \in TurnRecord, NEW at \in Over, NEW lost \in BOOLEAN
  PROVE  LET new == [Leave(r, at) EXCEPT !.unstored = lost] IN
         /\ new \in TurnRecord /\ new.at = at /\ SameTurn(r, new) /\ new.unstored = lost
<1> DEFINE s == Leave(r, at)
<1>1. s \in TurnRecord /\ s.at = at /\ SameTurn(r, s)
  BY LeaveKeeps
<1> HIDE DEF s
<1>2. [s EXCEPT !.unstored = lost] \in TurnRecord
  BY <1>1 DEF TurnRecord
<1>3. LET new == [s EXCEPT !.unstored = lost] IN
      /\ new.at = s.at /\ SameTurn(s, new) /\ new.unstored = lost
  BY <1>1 DEF TurnRecord, SameTurn
<1> QED BY <1>1, <1>2, <1>3 DEF s, SameTurn

LEMMA LeaveIsGood ==
  ASSUME NEW r, Ready(r), NEW new \in TurnRecord, SameTurn(r, new),
         new.at \in {"failed", "gone"}
  PROVE  Onward(r, new)
<1>1. Ready(new) /\ new.mode = r.mode /\ new.at \in Unrecorded
  BY DEF Ready, SameTurn, Unrecorded
<1> QED BY <1>1, OnwardWhen

LEMMA AnsweredIsGood ==
  ASSUME NEW r, Ready(r)
  PROVE  /\ GoodTurn(Answered(r)) /\ Answered(r).at = "answered"
         /\ Answered(r).mode = r.mode /\ Answered(r).advice = r.advice
         /\ Answered(r).shown = [r.text EXCEPT !.advised = r.advice]
         /\ Answered(r).text = r.text /\ Answered(r).works = r.works
         /\ Answered(r).wp2Failed = r.wp2Failed /\ Answered(r).rewritten = r.rewritten
<1> DEFINE s == Leave(r, "answered")
           shown == [r.text EXCEPT !.advised = r.advice]
           new == [s EXCEPT !.shown = shown]
<1>1. s \in TurnRecord /\ s.at = "answered" /\ SameTurn(r, s) /\ r.pending = {}
  BY LeaveKeeps DEF Ready, Over
<1>2. shown \in Text /\ new = Answered(r)
  BY RecordedIsText DEF Ready, Answered
<1> HIDE DEF s, shown
<1>3. /\ new \in TurnRecord /\ new.at = s.at /\ new.shown = shown /\ new.pending = s.pending
      /\ new.text = s.text /\ new.mode = s.mode /\ new.advice = s.advice
      /\ new.works = s.works /\ new.wp2Failed = s.wp2Failed /\ new.rewritten = s.rewritten
  BY <1>1, <1>2 DEF TurnRecord
<1> HIDE DEF new
<1>4. GoodTurn(new)
  BY <1>1, <1>3 DEF GoodTurn, Ready, SameTurn
<1> QED BY <1>1, <1>2, <1>3, <1>4 DEF SameTurn, shown

LEMMA QuietIsFree ==
  ASSUME NEW r, GoodTurn(r), r.at # "act" PROVE Ready(r)
BY DEF GoodTurn, Ready

-----------------------------------------------------------------------------
(* Every step of a turn before its record leads onward. *)
TurnMoves(t) == \E new : Step(t, new) /\ Onward(turn[t], new)

LEMMA StartMoves ==
  ASSUME NEW t \in Turns, Start(t)
  PROVE  \E new : Step(t, new) /\ GoodTurn(new) /\ new.at = "select"
<1>1. PICK mode \in Modes, tools \in Toolsets :
        Step(t, [NewTurn EXCEPT !.at = "select", !.mode = mode, !.tools = tools])
  BY DEF Start
<1> DEFINE new == [NewTurn EXCEPT !.at = "select", !.mode = mode, !.tools = tools]
<1>2. Ready(NewTurn)
  BY NewTurnIsGood DEF GoodTurn, NewTurn, Ready
<1>3. tools \in SUBSET {"wp2", "wp3"} /\ "select" \in Awaits
  BY ChoicesAssumption DEF Awaits
<1>4. Ready(new) /\ new.at = "select"
  BY <1>2, <1>3 DEF Ready, TurnRecord
<1>5. GoodTurn(new)
  BY <1>4 DEF GoodTurn, Ready
<1> QED BY <1>1, <1>4, <1>5

LEMMA RoutingMoves ==
  ASSUME NEW t \in Turns, GoodTurn(turn[t]),
         SelectTask(t) \/ SelectMission(t) \/ Plan(t) \/ Route(t) \/ Convert(t)
  PROVE  TurnMoves(t)
<1> DEFINE r == turn[t]
<1>1. Ready(r)
  BY QuietIsFree DEF SelectTask, SelectMission, Plan, Route, Convert, Selected
<1>2. CASE SelectTask(t)
  <2> DEFINE new == [r EXCEPT !.kind = "task"]
  <2>1. Ready(new) /\ new.mode = r.mode
    BY <1>1 DEF Ready, TurnRecord
  <2>2. Step(t, [new EXCEPT !.at = "plan"]) \/ Step(t, Execute(new, "wp2"))
    BY <1>2 DEF SelectTask
  <2> HIDE DEF new
  <2>3. Onward(new, [new EXCEPT !.at = "plan"]) /\ Onward(new, Execute(new, "wp2"))
    BY <2>1, PlaceIsGood, ExecuteIsGood DEF Unrecorded, Awaits
  <2> QED BY <2>1, <2>2, <2>3, OnwardFrom DEF TurnMoves
<1>3. CASE SelectMission(t)
  BY <1>1, <1>3, PlaceIsGood, RoutedIsGood DEF SelectMission, TurnMoves, Unrecorded, Awaits
<1>4. CASE Plan(t)
  BY <1>1, <1>4, ExecuteIsGood DEF Plan, TurnMoves
<1>5. CASE Route(t)
  BY <1>1, <1>5, RoutedIsGood DEF Route, TurnMoves
<1>6. CASE Convert(t)
  <2>1. PICK short \in BOOLEAN : Step(t, [r EXCEPT !.at = "store3", !.text = Answer(short)])
    BY <1>6 DEF Convert
  <2> DEFINE new == [r EXCEPT !.at = "store3", !.text = Answer(short)]
  <2>2. "store3" \in Awaits /\ "store3" \in Unrecorded
    BY DEF Awaits, Unrecorded
  <2>3. Ready(new) /\ new.at = "store3" /\ new.mode = r.mode
    BY <1>1, <2>2, AnswerIsText DEF Ready, TurnRecord
  <2> HIDE DEF new
  <2>4. Onward(r, new)
    BY <2>2, <2>3, OnwardWhen
  <2> QED BY <2>1, <2>4 DEF TurnMoves, new
<1> QED BY <1>2, <1>3, <1>4, <1>5, <1>6

LEMMA AgentMoves ==
  ASSUME NEW t \in Turns, GoodTurn(turn[t]),
         \/ AgentAnswers(t) \/ AgentCalls(t) \/ Supervise(t) \/ Complete(t)
         \/ \E c \in Calls : CallReturns(t, c)
  PROVE  TurnMoves(t)
<1> DEFINE r == turn[t]
<1>1. r \in TurnRecord /\ ~r.text.advised
  BY DEF GoodTurn
<1>2. CASE AgentAnswers(t)
  BY <1>1, <1>2, ExecutedIsGood, AnswerIsText DEF AgentAnswers, TurnMoves
<1>3. CASE AgentCalls(t)
  <2>1. PICK calls \in (SUBSET Calls) \ {{}} :
          Step(t, [r EXCEPT !.at = "act", !.pending = calls, !.step = r.step + 1])
    BY <1>3 DEF AgentCalls
  <2> DEFINE new == [r EXCEPT !.at = "act", !.pending = calls, !.step = r.step + 1]
  <2>2. r.step + 1 \in 0..MaxSteps
    <3>1. r.step < MaxSteps
      BY <1>3 DEF AgentCalls, GoodTurn
    <3>2. r.step \in 0..MaxSteps
      BY <1>1 DEF TurnRecord
    <3> QED BY <3>1, <3>2, Bounds
  <2>3. "act" \in Awaits /\ "act" \in Unrecorded
    BY DEF Awaits, Unrecorded
  <2>4. new \in TurnRecord /\ new.at = "act" /\ new.text = r.text /\ new.mode = r.mode
    BY <1>1, <2>2, <2>3 DEF TurnRecord
  <2>5. Onward(r, new)
    BY <1>1, <2>3, <2>4 DEF Onward, GoodTurn
  <2> QED BY <2>1, <2>5 DEF TurnMoves
<1>4. CASE Supervise(t)
  BY <1>4, QuietIsFree, GoOnIsGood DEF Supervise, TurnMoves
<1>5. CASE Complete(t)
  BY <1>1, <1>5, ExecutedIsGood, AnswerIsText DEF Complete, TurnMoves
<1>6. CASE \E c \in Calls : CallReturns(t, c)
  <2>1. PICK c \in Calls : CallReturns(t, c)
    BY <1>6
  <2> DEFINE new == [r EXCEPT !.pending = r.pending \ {c}]
  <2>2. new \in TurnRecord /\ new.at = r.at /\ new.text = r.text /\ new.mode = r.mode
    BY <1>1 DEF TurnRecord
  <2>3. r.at = "act" /\ "act" \in Unrecorded
    BY <2>1 DEF CallReturns, Unrecorded, Awaits
  <2>4. Step(t, IF new.pending # {} THEN new
                ELSE IF Supervised(new) THEN [new EXCEPT !.at = "supervise"]
                ELSE GoOn(new))
    BY <2>1 DEF CallReturns
  <2> HIDE DEF new
  <2>5. Onward(r, new)
    BY <1>1, <2>2, <2>3 DEF Onward, GoodTurn
  <2>6. ASSUME new.pending = {}
        PROVE  Onward(new, [new EXCEPT !.at = "supervise"]) /\ Onward(new, GoOn(new))
    <3>1. Ready(new)
      BY <1>1, <2>2, <2>6 DEF Ready
    <3> QED BY <3>1, PlaceIsGood, GoOnIsGood DEF Unrecorded, Awaits
  <2> QED BY <2>2, <2>4, <2>5, <2>6, OnwardFrom DEF TurnMoves
<1> QED BY <1>2, <1>3, <1>4, <1>5, <1>6

LEMMA CheckerMoves ==
  ASSUME NEW t \in Turns, GoodTurn(turn[t]),
         RuleCheck(t) \/ Judge(t) \/ Correct(t)
  PROVE  TurnMoves(t)
<1> DEFINE r == turn[t]
<1>1. Ready(r)
  BY QuietIsFree DEF RuleCheck, Judge, Correct
<1>2. CASE RuleCheck(t)
  BY <1>1, <1>2, IssuesIsGood, PlaceIsGood DEF RuleCheck, TurnMoves, Unrecorded, Awaits
<1>3. CASE Judge(t)
  BY <1>1, <1>3, IssuesIsGood, VerdictIsGood DEF Judge, TurnMoves
<1>4. CASE Correct(t)
  <2>1. PICK short \in BOOLEAN, marked \in {FALSE, r.text.marked} :
          Step(t, [r EXCEPT !.at = "check", !.attempt = r.attempt + 1, !.rewritten = TRUE,
                            !.text = [Answer(short) EXCEPT !.marked = marked]])
    BY <1>4 DEF Correct
  <2> DEFINE text == [Answer(short) EXCEPT !.marked = marked]
             new == [r EXCEPT !.at = "check", !.attempt = r.attempt + 1,
                              !.rewritten = TRUE, !.text = text]
  <2>2. text \in Text /\ ~text.advised
    <3>1. Answer(short) \in Text /\ marked \in BOOLEAN /\ ~Answer(short).advised
      BY <1>1, AnswerIsText DEF Ready, TurnRecord, Text
    <3> QED BY <3>1 DEF Text
  <2>3. r.attempt + 1 \in 0..(Retries - 1)
    <3>1. r.attempt < Retries - 1
      BY <1>4 DEF Correct, GoodTurn
    <3>2. r.attempt \in 0..(Retries - 1)
      BY <1>1 DEF Ready, TurnRecord
    <3> QED BY <3>1, <3>2, Bounds
  <2>4. Step(t, new)
    BY <2>1
  <2>5. "check" \in Awaits /\ "check" \in Unrecorded
    BY DEF Awaits, Unrecorded
  <2> HIDE DEF text
  <2>6. Ready(new) /\ new.at = "check" /\ new.mode = r.mode
    BY <1>1, <2>2, <2>3, <2>5 DEF Ready, TurnRecord
  <2> HIDE DEF new
  <2>7. Onward(r, new)
    BY <2>5, <2>6, OnwardWhen
  <2> QED BY <2>4, <2>7 DEF TurnMoves
<1> QED BY <1>2, <1>3, <1>4

LEMMA StoringMoves ==
  ASSUME NEW t \in Turns, GoodTurn(turn[t]),
         StoreMom3(t) \/ HandOff(t) \/ StoreMom2(t) \/ Keep(t)
  PROVE  TurnMoves(t)
<1> DEFINE r == turn[t]
<1>1. Ready(r)
  BY QuietIsFree DEF StoreMom3, HandOff, StoreMom2, Keep
<1>2. CASE StoreMom3(t)
  BY <1>1, <1>2, PlaceIsGood, CheckIsGood DEF StoreMom3, TurnMoves, Unrecorded, Awaits, Checks
<1>3. CASE HandOff(t)
  BY <1>1, <1>3, CheckIsGood DEF HandOff, TurnMoves, Checks
<1>4. CASE StoreMom2(t)
  BY <1>1, <1>4, CheckIsGood DEF StoreMom2, TurnMoves, Checks
<1>5. CASE Keep(t)
  <2> DEFINE at == IF r.interrupts > 0 THEN "gone" ELSE "failed"
             new == Leave(r, at)
  <2>1. Step(t, [r EXCEPT !.at = "inspect"]) \/ Step(t, new)
    BY <1>5 DEF Keep
  <2>2. at \in {"gone", "failed"} /\ at \in Over
    BY DEF Over
  <2> HIDE DEF at
  <2>3. Onward(r, new)
    BY <1>1, <2>2, LeaveKeeps, LeaveIsGood DEF Ready
  <2>4. Onward(r, [r EXCEPT !.at = "inspect"])
    BY <1>1, PlaceIsGood DEF Unrecorded, Awaits
  <2> QED BY <2>1, <2>3, <2>4 DEF TurnMoves
<1> QED BY <1>2, <1>3, <1>4, <1>5

LEMMA StreamMoves ==
  ASSUME NEW t \in Turns, GoodTurn(turn[t]),
         StreamToken(t) \/ StreamEnds(t) \/ EmitChunk(t) \/ Inspect(t) \/ Advise(t)
  PROVE  TurnMoves(t)
<1> DEFINE r == turn[t]
<1>1. Ready(r)
  BY QuietIsFree DEF StreamToken, StreamEnds, EmitChunk, Inspect, Advise
<1>2. /\ r.text \in Text /\ r.shown \in Text
      /\ r.text.size \in 0..Chunks /\ r.shown.size \in 0..Chunks
  BY <1>1 DEF Ready, TurnRecord, Text
<1>3. {"stream", "keep", "emit", "advise"} \subseteq Awaits \cap Unrecorded
  BY DEF Awaits, Unrecorded
<1>4. CASE StreamToken(t)
  <2> DEFINE text == [r.text EXCEPT !.size = r.text.size + 1]
             new == [r EXCEPT !.text = text,
                              !.shown = [r.shown EXCEPT !.size = r.text.size + 1]]
  <2>1. r.text.size + 1 \in 0..Chunks
    BY <1>2, <1>4, Bounds DEF StreamToken
  <2>2. /\ text \in Text /\ text.advised = r.text.advised
        /\ [r.shown EXCEPT !.size = r.text.size + 1] \in Text
    BY <1>2, <2>1 DEF Text
  <2>3. Step(t, new)
    BY <1>1, <1>2, <1>4 DEF StreamToken, Step, Ready, TurnRecord, Text
  <2> HIDE DEF text
  <2>4. Ready(new) /\ new.at = r.at /\ new.mode = r.mode
    BY <1>1, <2>2 DEF Ready, TurnRecord
  <2>5. r.at = "stream"
    BY <1>4 DEF StreamToken
  <2> HIDE DEF new
  <2>6. Onward(r, new)
    BY <1>3, <2>4, <2>5, OnwardWhen
  <2> QED BY <2>3, <2>6 DEF TurnMoves
<1>5. CASE StreamEnds(t)
  <2>1. PICK short \in BOOLEAN :
          turn' = [turn EXCEPT ![t].at = "keep", ![t].text.short = short]
    BY <1>5 DEF StreamEnds
  <2> DEFINE text == [r.text EXCEPT !.short = short]
             new == [r EXCEPT !.at = "keep", !.text = text]
  <2>2. text \in Text /\ text.advised = r.text.advised
    BY <1>2 DEF Text
  <2>3. Step(t, new)
    BY <1>1, <2>1 DEF Step, Ready, TurnRecord
  <2> HIDE DEF text
  <2>4. Ready(new) /\ new.at = "keep" /\ new.mode = r.mode
    BY <1>1, <1>3, <2>2 DEF Ready, TurnRecord
  <2> HIDE DEF new
  <2>5. Onward(r, new)
    BY <1>3, <2>4, OnwardWhen
  <2> QED BY <2>3, <2>5 DEF TurnMoves
<1>6. CASE EmitChunk(t)
  <2>1. CASE r.shown.size < r.text.size
    <3> DEFINE new == [r EXCEPT !.shown = [r.shown EXCEPT !.size = r.shown.size + 1]]
    <3>1. r.shown.size + 1 \in 0..Chunks
      BY <1>2, <2>1, Bounds
    <3>2. [r.shown EXCEPT !.size = r.shown.size + 1] \in Text
      BY <1>2, <3>1 DEF Text
    <3>3. Ready(new) /\ new.at = r.at /\ new.mode = r.mode
      BY <1>1, <3>2 DEF Ready, TurnRecord
    <3>4. Step(t, new) /\ r.at = "emit"
      BY <1>6, <2>1 DEF EmitChunk
    <3> HIDE DEF new
    <3>5. Onward(r, new)
      BY <1>3, <3>3, <3>4, OnwardWhen
    <3> QED BY <3>4, <3>5 DEF TurnMoves
  <2>2. CASE ~(r.shown.size < r.text.size)
    BY <1>1, <1>6, <2>2, PlaceIsGood DEF EmitChunk, TurnMoves, Unrecorded, Awaits
  <2> QED BY <2>1, <2>2
<1>7. CASE Inspect(t)
  <2> DEFINE new == [r EXCEPT !.at = "advise", !.advice = TRUE,
                              !.shown = [r.shown EXCEPT !.advised = TRUE]]
  <2>1. [r.shown EXCEPT !.advised = TRUE] \in Text
    BY <1>2 DEF Text
  <2>2. Ready(new) /\ new.at = "advise" /\ new.mode = r.mode
    BY <1>1, <1>3, <2>1 DEF Ready, TurnRecord
  <2>3. Step(t, new) \/ Step(t, [r EXCEPT !.at = "store1"])
    BY <1>7 DEF Inspect
  <2> HIDE DEF new
  <2>4. Onward(r, new)
    BY <1>3, <2>2, OnwardWhen
  <2>5. Onward(r, [r EXCEPT !.at = "store1"])
    BY <1>1, PlaceIsGood DEF Unrecorded, Awaits
  <2> QED BY <2>3, <2>4, <2>5 DEF TurnMoves
<1>8. CASE Advise(t)
  BY <1>1, <1>8, PlaceIsGood DEF Advise, TurnMoves, Unrecorded, Awaits
<1> QED BY <1>4, <1>5, <1>6, <1>7, <1>8

LEMMA ModelFailsMoves ==
  ASSUME NEW t \in Turns, GoodTurn(turn[t]), ModelFails(t), t \in DOMAIN turn
  PROVE  TurnMoves(t)
<1> DEFINE r == turn[t]
           new == [r EXCEPT !.at = "keep", !.failing = TRUE]
<1>1. Ready(r)
  BY QuietIsFree DEF ModelFails
<1>2. "keep" \in Awaits /\ "keep" \in Unrecorded
  BY DEF Awaits, Unrecorded
<1>3. Ready(new) /\ new.at = "keep" /\ new.mode = r.mode
  BY <1>1, <1>2 DEF Ready, TurnRecord
<1>4. Step(t, new) \/ Step(t, Leave(r, "failed"))
  BY DEF ModelFails, Step
<1> HIDE DEF new
<1>5. Onward(r, new)
  BY <1>2, <1>3, OnwardWhen
<1>6. Onward(r, Leave(r, "failed"))
  BY <1>1, LeaveKeeps, LeaveIsGood DEF Ready, Over
<1> QED BY <1>4, <1>5, <1>6 DEF TurnMoves

(* A turn that ends without an answer, where the append may have raised. *)
EndsAs(r, new) ==
  /\ SameTurn(r, new) /\ Onward(r, new)
  /\ (new.at = "gone" \/ (new.at = "failed" /\ new.unstored))

LEMMA StoreFailsMoves ==
  ASSUME NEW t \in Turns, GoodTurn(turn[t]), StoreFails(t), t \in DOMAIN turn
  PROVE  IF turn[t].at = "archive" THEN Step(t, Answered(turn[t]))
         ELSE \E new : Step(t, new) /\ EndsAs(turn[t], new)
<1> DEFINE r == turn[t]
           new == [Leave(r, "failed") EXCEPT !.unstored = TRUE]
<1>1. Ready(r)
  BY QuietIsFree DEF StoreFails
<1>2. Step(t, IF r.at = "archive" THEN Answered(r) ELSE new)
  BY DEF StoreFails, Step
<1>3. new \in TurnRecord /\ new.at = "failed" /\ new.unstored /\ SameTurn(r, new)
  BY <1>1, LeaveUnstored DEF Ready, Over
<1> HIDE DEF new
<1>4. Onward(r, new)
  BY <1>1, <1>3, LeaveIsGood
<1> QED BY <1>2, <1>3, <1>4 DEF EndsAs

LEMMA InterruptMoves ==
  ASSUME NEW t \in Turns, GoodTurn(turn[t]), Interrupt(t), t \in DOMAIN turn
  PROVE  \E new : /\ Step(t, new) /\ Onward(turn[t], new)
                  /\ turn[t].at \in {"store1", "archive"} => EndsAs(turn[t], new)
<1> DEFINE r == turn[t]
           s == [r EXCEPT !.interrupts = r.interrupts + 1, !.pending = {}]
           kept == [s EXCEPT !.at = "keep", !.failing = TRUE]
           gone == [Leave(s, "gone") EXCEPT !.unstored = s.at \in {"keep", "store2", "store3"}]
<1>1. r \in TurnRecord /\ ~r.text.advised
  BY DEF GoodTurn
<1>2. r.interrupts + 1 \in 0..MaxInterrupts
  <2>1. r.interrupts \in 0..MaxInterrupts /\ r.interrupts < MaxInterrupts
    BY <1>1 DEF Interrupt, TurnRecord
  <2> QED BY <2>1, Bounds
<1>3. Ready(s) /\ s.mode = r.mode /\ s.at = r.at /\ (r.pending = {} => SameTurn(r, s))
  BY <1>1, <1>2 DEF Ready, TurnRecord, SameTurn
<1>4. Step(t, IF Streaming(s) THEN kept ELSE gone)
  BY DEF Interrupt, Step
<1>5. (s.at \in {"keep", "store2", "store3"}) \in BOOLEAN
  OBVIOUS
<1>6. "keep" \in Awaits \cap Unrecorded
  BY DEF Awaits, Unrecorded
<1> HIDE DEF s
<1>7. Ready(kept) /\ kept.at = "keep" /\ kept.mode = r.mode
  BY <1>3, <1>6 DEF Ready, TurnRecord
<1>8. gone \in TurnRecord /\ gone.at = "gone" /\ SameTurn(s, gone)
  BY <1>3, <1>5, LeaveUnstored DEF Ready, Over
<1>9. r.at \in {"store1", "archive"} => ~Streaming(s) /\ r.pending = {}
  BY <1>3 DEF Streaming, GoodTurn
<1> HIDE DEF kept, gone
<1>10. Onward(r, kept)
  BY <1>6, <1>7, OnwardWhen
<1>11. Onward(r, gone)
  <2>1. Onward(s, gone)
    BY <1>3, <1>8, LeaveIsGood
  <2> QED BY <1>3, <2>1, OnwardFrom
<1>12. r.pending = {} => EndsAs(r, gone)
  BY <1>3, <1>8, <1>11 DEF EndsAs, SameTurn
<1> QED BY <1>4, <1>9, <1>10, <1>11, <1>12

-----------------------------------------------------------------------------
(* The five kinds of step of a turn, by what they leave in the zones. *)
PlainStep(t) ==
  /\ turn[t].at \in Unrecorded \ {"failed", "gone"}
  /\ TurnMoves(t)
  /\ UNCHANGED memory
  /\ zone' = zone \/ \E z \in {"mom2", "mom3"} : Store(z, t, turn[t].text)

ArchiveStep(t) ==
  /\ turn[t].at = "archive"
  /\ Step(t, Answered(turn[t]))
  /\ UNCHANGED memory
  /\ zone' = zone \/ Store("shared", t, Recorded(turn[t]))

LeaveStep(t) ==
  /\ turn[t].at \in {"store1", "archive"}
  /\ \E new : Step(t, new) /\ EndsAs(turn[t], new)
  /\ \/ zone' = zone /\ UNCHANGED memory
     \/ turn[t].at = "store1" /\ Store("mom1", t, Recorded(turn[t])) /\ Remember(t)
     \/ turn[t].at = "archive" /\ Store("shared", t, Recorded(turn[t])) /\ UNCHANGED memory

(* The step of one turn; AskForAccess moves none. *)
TurnStep(t) ==
  \/ Start(t) \/ ModelFails(t) \/ StoreFails(t) \/ Interrupt(t)
  \/ Progress(t) /\ ~AskForAccess(t)

LEMMA OwnZoneIsOwn ==
  ASSUME NEW r \in TurnRecord PROVE OwnZone(r) \in {"mom2", "mom3"}
BY DEF OwnZone

(* An append of the turn, by where it is. *)
LEMMA AppendKinds ==
  ASSUME NEW t, turn[t] \in TurnRecord, Append(t)
  PROVE  \/ /\ turn[t].at = "store1" /\ Store("mom1", t, Recorded(turn[t])) /\ Remember(t)
         \/ /\ turn[t].at \in {"store2", "store3", "keep"} /\ UNCHANGED memory
            /\ \E z \in {"mom2", "mom3"} : Store(z, t, turn[t].text)
         \/ /\ turn[t].at = "archive" /\ Store("shared", t, Recorded(turn[t]))
            /\ UNCHANGED memory
BY OwnZoneIsOwn DEF Append

LEMMA ProgressKinds ==
  ASSUME NEW t \in Turns, GoodTurn(turn[t]), Progress(t), ~AskForAccess(t)
  PROVE  PlainStep(t) \/ StoreMom1(t) \/ ArchiveStep(t)
<1>1. turn[t] \in TurnRecord
  BY DEF GoodTurn
<1>2. CASE \/ SelectTask(t) \/ SelectMission(t) \/ Plan(t) \/ Route(t) \/ Convert(t)
  <2>1. TurnMoves(t)
    BY <1>2, RoutingMoves
  <2>2. turn[t].at \in {"select", "plan", "route", "convert"} /\ KeepRest
    BY <1>2 DEF SelectTask, SelectMission, Plan, Route, Convert, Selected
  <2> QED BY <2>1, <2>2 DEF PlainStep, KeepRest, Unrecorded, Awaits
<1>3. CASE \/ AgentAnswers(t) \/ AgentCalls(t) \/ Supervise(t) \/ Complete(t)
           \/ \E c \in Calls : CallReturns(t, c)
  <2>1. TurnMoves(t)
    BY <1>3, AgentMoves
  <2>2. turn[t].at \in {"think", "act", "supervise", "complete"} /\ KeepRest
    BY <1>3 DEF AgentAnswers, AgentCalls, Supervise, Complete, CallReturns
  <2> QED BY <2>1, <2>2 DEF PlainStep, KeepRest, Unrecorded, Awaits
<1>4. CASE RuleCheck(t) \/ Judge(t) \/ Correct(t)
  <2>1. TurnMoves(t)
    BY <1>4, CheckerMoves
  <2>2. turn[t].at \in {"check", "judge", "correct"} /\ KeepRest
    BY <1>4 DEF RuleCheck, Judge, Correct
  <2> QED BY <2>1, <2>2 DEF PlainStep, KeepRest, Unrecorded, Awaits
<1>5. CASE StoreMom3(t) \/ HandOff(t) \/ StoreMom2(t) \/ Keep(t)
  <2>1. TurnMoves(t)
    BY <1>5, StoringMoves
  <2>2. /\ turn[t].at \in {"store3", "handoff", "store2", "keep"}
        /\ Append(t) \/ KeepRest
    BY <1>5 DEF StoreMom3, HandOff, StoreMom2, Keep
  <2>3. /\ UNCHANGED memory
        /\ zone' = zone \/ \E z \in {"mom2", "mom3"} : Store(z, t, turn[t].text)
    BY <1>1, <2>2, AppendKinds DEF KeepRest
  <2> QED BY <2>1, <2>2, <2>3 DEF PlainStep, Unrecorded, Awaits
<1>6. CASE StreamToken(t) \/ StreamEnds(t) \/ EmitChunk(t) \/ Inspect(t) \/ Advise(t)
  <2>1. TurnMoves(t)
    BY <1>6, StreamMoves
  <2>2. turn[t].at \in {"stream", "emit", "inspect", "advise"} /\ KeepRest
    BY <1>6 DEF StreamToken, StreamEnds, EmitChunk, Inspect, Advise
  <2> QED BY <2>1, <2>2 DEF PlainStep, KeepRest, Unrecorded, Awaits
<1>7. CASE Archive(t)
  <2>1. /\ turn[t].at = "archive" /\ Step(t, Answered(turn[t]))
        /\ Append(t) \/ UNCHANGED <<zone, memory>>
    BY <1>7 DEF Archive
  <2> QED BY <1>1, <2>1, AppendKinds DEF ArchiveStep
<1> QED BY <1>2, <1>3, <1>4, <1>5, <1>6, <1>7 DEF Progress

LEMMA StepKinds ==
  ASSUME NEW t \in Turns, t \in DOMAIN turn, GoodTurn(turn[t]), TurnStep(t)
  PROVE  PlainStep(t) \/ Start(t) \/ StoreMom1(t) \/ ArchiveStep(t) \/ LeaveStep(t)
<1>1. turn[t] \in TurnRecord
  BY DEF GoodTurn
<1>2. CASE ModelFails(t)
  <2>1. KeepRest /\ turn[t].at \in Unrecorded \ {"failed", "gone"}
    BY <1>2 DEF ModelFails, Unrecorded, Awaits
  <2> QED BY <1>2, <2>1, ModelFailsMoves DEF PlainStep, KeepRest
<1>3. CASE StoreFails(t)
  <2>1. /\ turn[t].at \in {"store1", "store2", "store3", "handoff", "archive", "keep"}
        /\ Append(t) \/ UNCHANGED <<zone, memory>>
    BY <1>3 DEF StoreFails
  <2>2. CASE turn[t].at = "archive"
    <3>1. Step(t, Answered(turn[t]))
      BY <1>3, <2>2, StoreFailsMoves
    <3> QED BY <1>1, <2>1, <2>2, <3>1, AppendKinds DEF ArchiveStep
  <2>3. CASE turn[t].at # "archive"
    <3>1. PICK new : Step(t, new) /\ EndsAs(turn[t], new)
      BY <1>3, <2>3, StoreFailsMoves
    <3>2. CASE turn[t].at = "store1"
      BY <1>1, <2>1, <3>1, <3>2, AppendKinds DEF LeaveStep
    <3>3. CASE turn[t].at # "store1"
      <4>1. turn[t].at \in Unrecorded \ {"failed", "gone"}
        BY <2>1, <2>3 DEF Unrecorded, Awaits
      <4>2. /\ UNCHANGED memory
            /\ zone' = zone \/ \E z \in {"mom2", "mom3"} : Store(z, t, turn[t].text)
        BY <1>1, <2>1, <2>3, <3>3, AppendKinds
      <4>3. TurnMoves(t)
        BY <3>1 DEF TurnMoves, EndsAs
      <4> QED BY <4>1, <4>2, <4>3 DEF PlainStep
    <3> QED BY <3>2, <3>3
  <2> QED BY <2>2, <2>3
<1>4. CASE Interrupt(t)
  <2>1. PICK new : /\ Step(t, new) /\ Onward(turn[t], new)
                   /\ turn[t].at \in {"store1", "archive"} => EndsAs(turn[t], new)
    BY <1>4, InterruptMoves
  <2>2. Append(t) \/ UNCHANGED <<zone, memory>>
    BY <1>4 DEF Interrupt
  <2>3. CASE turn[t].at \in {"store1", "archive"}
    BY <1>1, <2>1, <2>2, <2>3, AppendKinds DEF LeaveStep
  <2>4. CASE turn[t].at \notin {"store1", "archive"}
    <3>1. turn[t].at \in Unrecorded \ {"failed", "gone"}
      BY <1>4, <2>4 DEF Interrupt, Unrecorded, Awaits
    <3>2. /\ UNCHANGED memory
          /\ zone' = zone \/ \E z \in {"mom2", "mom3"} : Store(z, t, turn[t].text)
      BY <1>1, <2>2, <2>4, AppendKinds
    <3> QED BY <2>1, <3>1, <3>2 DEF PlainStep, TurnMoves
  <2> QED BY <2>3, <2>4
<1>5. CASE Progress(t) /\ ~AskForAccess(t)
  BY <1>5, ProgressKinds
<1> QED BY <1>2, <1>3, <1>4, <1>5 DEF TurnStep

-----------------------------------------------------------------------------
(* What a zone remembers of a turn follows from where the turn is. *)
AnswerKept(t) ==
  LET r == turn[t]
      record == [r.shown EXCEPT !.advised = Live(r) /\ r.advice] IN
  zone["mom1"][t] = record /\ zone["shared"][t] \in {Nothing, record}

OnRecord(t) ==
  LET r == turn[t] IN
  /\ r.at \in {"idle"} \cup (Unrecorded \ {"failed", "gone"}) =>
       zone["mom1"][t] = Nothing /\ zone["shared"][t] = Nothing
  /\ r.at = "failed" /\ ~r.unstored => zone["mom1"][t] = Nothing
  /\ zone["mom1"][t] # Nothing => zone["mom1"][t] = Recorded(r)
  /\ r.at = "idle" => \A z \in Zones : zone[z][t] = Nothing
  /\ r.at = "archive" => zone["mom1"][t] = Recorded(r) /\ zone["shared"][t] = Nothing
  /\ r.at = "answered" => AnswerKept(t)
  /\ zone["mom1"][t] # Nothing <=> t \in stored
  /\ \A z \in Zones :
       zone[z][t] # Nothing /\ zone[z][t].advised => Live(r) /\ z \in {"mom1", "shared"}

WorkflowInv ==
  /\ turn \in [Turns -> TurnRecord]
  /\ \A t \in Turns : GoodTurn(turn[t]) /\ OnRecord(t)
  /\ ZonesOK
  /\ BrokerInv

LEMMA StoreEffect ==
  ASSUME ZonesOK, NEW z \in Zones, NEW t \in Turns, NEW text \in Text, Store(z, t, text)
  PROVE  /\ ZonesOK'
         /\ zone'[z][t] = text
         /\ \A y \in Zones, s \in Turns : y # z \/ s # t => zone'[y][s] = zone[y][s]
<1>1. zone[z] \in [Turns -> Text \cup {Nothing}]
  BY DEF ZonesOK
<1>2. zone' = [zone EXCEPT ![z] = [zone[z] EXCEPT ![t] = text]]
  BY DEF ZonesOK, Store
<1> QED BY <1>1, <1>2 DEF ZonesOK

LEMMA RecordIsSame ==
  ASSUME NEW r \in TurnRecord, ~r.text.advised
  PROVE  /\ [[r.text EXCEPT !.advised = r.advice] EXCEPT !.advised = Live(r) /\ r.advice]
              = Recorded(r)
         /\ Recorded(r).advised => Live(r)
<1>1. r.text \in Text
  BY DEF TurnRecord
<1>2. \A a, b : [[r.text EXCEPT !.advised = a] EXCEPT !.advised = b]
                  = [r.text EXCEPT !.advised = b]
  BY <1>1 DEF Text
<1>3. \A b : [r.text EXCEPT !.advised = b].advised = b
  BY <1>1 DEF Text
<1> QED BY <1>2, <1>3 DEF Recorded

LEMMA StaysClean ==
  ASSUME NEW t \in Turns, GoodTurn(turn[t]), OnRecord(t),
         \A z \in Zones :
           zone'[z][t] = zone[z][t]
             \/ (z \in {"mom1", "shared"} /\ zone'[z][t] = Recorded(turn[t]))
  PROVE  \A z \in Zones : zone'[z][t] # Nothing /\ zone'[z][t].advised =>
           Live(turn[t]) /\ z \in {"mom1", "shared"}
<1> SUFFICES ASSUME NEW z \in Zones, zone'[z][t] # Nothing, zone'[z][t].advised
             PROVE  Live(turn[t]) /\ z \in {"mom1", "shared"}
  OBVIOUS
<1>1. CASE zone'[z][t] = zone[z][t]
  BY <1>1 DEF OnRecord
<1>2. CASE z \in {"mom1", "shared"} /\ zone'[z][t] = Recorded(turn[t])
  <2>1. Recorded(turn[t]).advised
    BY <1>2
  <2>2. Live(turn[t])
    BY <2>1, RecordIsSame DEF GoodTurn
  <2> QED BY <1>2, <2>2
<1> QED BY <1>1, <1>2

(* What a step of turn t leaves of the others. *)
LEMMA OthersOnRecord ==
  ASSUME NEW t \in Turns, NEW s \in Turns \ {t}, OnRecord(s),
         turn'[s] = turn[s],
         \A z \in Zones : zone'[z][s] = zone[z][s],
         s \in stored' <=> s \in stored
  PROVE  OnRecord(s)'
<1>1. {"mom1", "shared"} \subseteq Zones
  BY DEF Zones
<1> QED BY <1>1 DEF OnRecord, AnswerKept, Recorded, Live

LEMMA PlainOnRecord ==
  ASSUME WorkflowInv, NEW t \in Turns, PlainStep(t)
  PROVE  ZonesOK' /\ OnRecord(t)' /\ \A z \in Zones, s \in Turns \ {t} : zone'[z][s] = zone[z][s]
<1> DEFINE r == turn[t]
<1>1. /\ turn \in [Turns -> TurnRecord] /\ r \in TurnRecord /\ ~r.text.advised
      /\ r.text \in Text /\ OnRecord(t) /\ ZonesOK
  BY DEF WorkflowInv, GoodTurn, TurnRecord
<1>2. PICK new : turn' = [turn EXCEPT ![t] = new] /\ Onward(r, new)
  BY DEF PlainStep, TurnMoves, Step
<1>3. turn'[t] = new /\ new.mode = r.mode /\ new.at \in Unrecorded
  BY <1>1, <1>2 DEF Onward
<1>4. new.at \notin {"idle", "archive", "answered"}
  BY <1>3 DEF Unrecorded, Awaits
<1>5. /\ r.at \in Unrecorded \ {"failed", "gone"} /\ stored' = stored
      /\ zone' = zone \/ \E z \in {"mom2", "mom3"} : Store(z, t, r.text)
  BY DEF PlainStep, memory
<1>6. {"mom1", "mom2", "mom3", "shared"} = Zones
  BY DEF Zones
<1>7. /\ ZonesOK' /\ \A z \in Zones, s \in Turns \ {t} : zone'[z][s] = zone[z][s]
      /\ \A z \in {"mom1", "shared"} : zone'[z][t] = zone[z][t]
      /\ \A z \in {"mom2", "mom3"} : zone'[z][t] \in {zone[z][t], r.text}
  <2>1. CASE zone' = zone
    BY <1>1, <2>1 DEF ZonesOK
  <2>2. ASSUME NEW z \in {"mom2", "mom3"}, Store(z, t, r.text)
        PROVE  /\ ZonesOK' /\ zone'[z][t] = r.text
               /\ \A y \in Zones, s \in Turns : y # z \/ s # t => zone'[y][s] = zone[y][s]
    BY <1>1, <1>6, <2>2, StoreEffect
  <2> QED BY <1>5, <1>6, <2>1, <2>2
<1>8. zone["mom1"][t] = Nothing /\ zone["shared"][t] = Nothing /\ t \notin stored
  BY <1>1, <1>5 DEF OnRecord
<1>9. \A z \in Zones : zone'[z][t] # Nothing => ~zone'[z][t].advised
  BY <1>1, <1>6, <1>7, <1>8 DEF OnRecord
<1>10. OnRecord(t)'
  BY <1>3, <1>4, <1>5, <1>7, <1>8, <1>9 DEF OnRecord
<1> QED BY <1>7, <1>10

LEMMA StartOnRecord ==
  ASSUME WorkflowInv, NEW t \in Turns, Start(t)
  PROVE  ZonesOK' /\ OnRecord(t)' /\ \A z \in Zones, s \in Turns \ {t} : zone'[z][s] = zone[z][s]
<1>1. turn \in [Turns -> TurnRecord] /\ OnRecord(t) /\ ZonesOK
  BY DEF WorkflowInv
<1>2. PICK new : turn' = [turn EXCEPT ![t] = new] /\ new.at = "select"
  BY StartMoves DEF Step
<1>3. turn'[t].at = "select"
  BY <1>1, <1>2
<1>4. turn[t].at = "idle" /\ zone' = zone /\ stored' = stored
  BY DEF Start, KeepRest, memory
<1>5. {"mom1", "shared"} \subseteq Zones
  BY DEF Zones
<1>6. \A z \in Zones : zone'[z][t] = Nothing
  BY <1>1, <1>4 DEF OnRecord
<1>7. t \notin stored'
  BY <1>1, <1>4, <1>5 DEF OnRecord
<1>8. OnRecord(t)'
  BY <1>3, <1>5, <1>6, <1>7 DEF OnRecord
<1> QED BY <1>1, <1>4, <1>8 DEF ZonesOK

LEMMA StoreMom1OnRecord ==
  ASSUME WorkflowInv, NEW t \in Turns, StoreMom1(t)
  PROVE  /\ ZonesOK' /\ OnRecord(t)'
         /\ \A z \in Zones, s \in Turns \ {t} : zone'[z][s] = zone[z][s]
         /\ \E new : Step(t, new) /\ GoodTurn(new)
<1> DEFINE r == turn[t]
           archived == [r EXCEPT !.at = "archive"]
<1>1. /\ turn \in [Turns -> TurnRecord] /\ GoodTurn(r) /\ OnRecord(t) /\ ZonesOK
      /\ r \in TurnRecord /\ ~r.text.advised
  BY DEF WorkflowInv, GoodTurn
<1>2. /\ r.at = "store1" /\ Store("mom1", t, Recorded(r)) /\ stored' = stored \cup {t}
      /\ Step(t, archived) \/ Step(t, Answered(r))
  BY DEF StoreMom1, Append, Remember
<1>3. Ready(r) /\ Recorded(r) \in Text /\ {"mom1", "mom2", "mom3", "shared"} = Zones
  BY <1>1, <1>2, QuietIsFree, RecordedIsText DEF Zones
<1>4. /\ ZonesOK' /\ zone'["mom1"][t] = Recorded(r)
      /\ \A y \in Zones, s \in Turns : y # "mom1" \/ s # t => zone'[y][s] = zone[y][s]
  BY <1>1, <1>2, <1>3, StoreEffect
<1>5. zone'["shared"][t] = Nothing /\ Recorded(r) # Nothing
  BY <1>1, <1>2, <1>3, <1>4, NothingAssumption DEF OnRecord, Unrecorded, Awaits
<1>6. \A z \in Zones : zone'[z][t] # Nothing /\ zone'[z][t].advised =>
        Live(r) /\ z \in {"mom1", "shared"}
  <2>1. \A z \in Zones :
          zone'[z][t] = zone[z][t]
            \/ (z \in {"mom1", "shared"} /\ zone'[z][t] = Recorded(turn[t]))
    BY <1>1, <1>3, <1>4
  <2> QED BY <1>1, <2>1, StaysClean
<1>7. CASE Step(t, archived)
  <2>1. /\ archived \in TurnRecord /\ archived.at = "archive" /\ archived.mode = r.mode
        /\ archived.text = r.text /\ archived.advice = r.advice /\ archived.pending = {}
    BY <1>3 DEF Ready, TurnRecord, Awaits
  <2>2. turn'[t] = archived
    BY <1>1, <1>7 DEF Step
  <2> HIDE DEF archived
  <2>3. GoodTurn(archived)
    BY <1>1, <2>1 DEF GoodTurn
  <2>4. Recorded(archived) = Recorded(r) /\ (Live(archived) <=> Live(r))
    BY <2>1 DEF Recorded, Live
  <2>5. (Recorded(turn[t]))' = Recorded(archived) /\ (Live(turn[t]))' = Live(archived)
    BY <2>2 DEF Recorded, Live
  <2>6. OnRecord(t)'
    BY <1>2, <1>4, <1>5, <1>6, <2>1, <2>2, <2>4, <2>5 DEF OnRecord, Unrecorded, Awaits
  <2> QED BY <1>4, <1>7, <2>3, <2>6
<1>8. CASE Step(t, Answered(r))
  <2> DEFINE new == Answered(r)
  <2>1. /\ GoodTurn(new) /\ new.at = "answered" /\ new.mode = r.mode /\ new.advice = r.advice
        /\ new.shown = [r.text EXCEPT !.advised = r.advice] /\ new.text = r.text
    BY <1>3, AnsweredIsGood
  <2>2. turn'[t] = new
    BY <1>1, <1>8 DEF Step
  <2> HIDE DEF new
  <2>3. Live(new) <=> Live(r)
    BY <2>1 DEF Live
  <2>4. [new.shown EXCEPT !.advised = Live(new) /\ new.advice] = Recorded(r)
    BY <1>1, <2>1, <2>3, RecordIsSame
  <2>5. AnswerKept(t)' /\ (Live(turn[t]))' = Live(new) /\ (Recorded(turn[t]))' = Recorded(r)
    BY <1>4, <1>5, <2>1, <2>2, <2>4 DEF AnswerKept, Live, Recorded
  <2>6. OnRecord(t)'
    BY <1>2, <1>4, <1>5, <1>6, <2>1, <2>2, <2>3, <2>5 DEF OnRecord, Unrecorded, Awaits
  <2> QED BY <1>4, <1>8, <2>1, <2>6 DEF new
<1> QED BY <1>2, <1>7, <1>8

LEMMA ArchiveOnRecord ==
  ASSUME WorkflowInv, NEW t \in Turns, ArchiveStep(t)
  PROVE  /\ ZonesOK' /\ OnRecord(t)'
         /\ \A z \in Zones, s \in Turns \ {t} : zone'[z][s] = zone[z][s]
         /\ \E new : Step(t, new) /\ GoodTurn(new)
<1> DEFINE r == turn[t]
           new == Answered(r)
<1>1. /\ turn \in [Turns -> TurnRecord] /\ GoodTurn(r) /\ OnRecord(t) /\ ZonesOK
      /\ r \in TurnRecord /\ ~r.text.advised
  BY DEF WorkflowInv, GoodTurn
<1>2. /\ r.at = "archive" /\ Step(t, new) /\ stored' = stored
      /\ zone' = zone \/ Store("shared", t, Recorded(r))
  BY DEF ArchiveStep, memory
<1>3. Ready(r) /\ Recorded(r) \in Text /\ {"mom1", "mom2", "mom3", "shared"} = Zones
  BY <1>1, <1>2, QuietIsFree, RecordedIsText DEF Zones
<1>4. /\ ZonesOK' /\ zone'["shared"][t] \in {zone["shared"][t], Recorded(r)}
      /\ \A y \in Zones, s \in Turns : y # "shared" \/ s # t => zone'[y][s] = zone[y][s]
  <2>1. CASE zone' = zone
    BY <1>1, <2>1 DEF ZonesOK
  <2>2. CASE Store("shared", t, Recorded(r))
    BY <1>1, <1>3, <2>2, StoreEffect
  <2> QED BY <1>2, <2>1, <2>2
<1>5. zone["shared"][t] = Nothing /\ zone'["mom1"][t] = Recorded(r) /\ zone["mom1"][t] = Recorded(r)
  BY <1>1, <1>2, <1>3, <1>4 DEF OnRecord
<1>6. \A z \in Zones : zone'[z][t] # Nothing /\ zone'[z][t].advised =>
        Live(r) /\ z \in {"mom1", "shared"}
  <2>1. \A z \in Zones :
          zone'[z][t] = zone[z][t]
            \/ (z \in {"mom1", "shared"} /\ zone'[z][t] = Recorded(turn[t]))
    BY <1>1, <1>3, <1>4
  <2> QED BY <1>1, <2>1, StaysClean
<1>7. /\ GoodTurn(new) /\ new.at = "answered" /\ new.mode = r.mode /\ new.advice = r.advice
      /\ new.shown = [r.text EXCEPT !.advised = r.advice] /\ new.text = r.text
  BY <1>3, AnsweredIsGood
<1>8. turn'[t] = new
  BY <1>1, <1>2 DEF Step
<1> HIDE DEF new
<1>9. Live(new) <=> Live(r)
  BY <1>7 DEF Live
<1>10. [new.shown EXCEPT !.advised = Live(new) /\ new.advice] = Recorded(r)
  BY <1>1, <1>7, <1>9, RecordIsSame
<1>11. AnswerKept(t)' /\ (Live(turn[t]))' = Live(new) /\ (Recorded(turn[t]))' = Recorded(r)
  BY <1>4, <1>5, <1>7, <1>8, <1>10 DEF AnswerKept, Live, Recorded
<1>12. zone["mom1"][t] # Nothing <=> t \in stored
  BY <1>1 DEF OnRecord
<1>13. OnRecord(t)'
  BY <1>2, <1>5, <1>6, <1>7, <1>8, <1>9, <1>11, <1>12 DEF OnRecord, Unrecorded, Awaits
<1> QED BY <1>2, <1>4, <1>7, <1>13

LEMMA LeaveOnRecord ==
  ASSUME WorkflowInv, NEW t \in Turns, LeaveStep(t)
  PROVE  /\ ZonesOK' /\ OnRecord(t)'
         /\ \A z \in Zones, s \in Turns \ {t} : zone'[z][s] = zone[z][s]
         /\ \E new : Step(t, new) /\ GoodTurn(new)
<1> DEFINE r == turn[t]
<1>1. /\ turn \in [Turns -> TurnRecord] /\ GoodTurn(r) /\ OnRecord(t) /\ ZonesOK
      /\ r \in TurnRecord /\ ~r.text.advised
  BY DEF WorkflowInv, GoodTurn
<1>2. PICK new : turn' = [turn EXCEPT ![t] = new] /\ Step(t, new) /\ EndsAs(r, new)
  BY DEF LeaveStep, Step
<1>3. /\ turn'[t] = new /\ new.mode = r.mode /\ GoodTurn(new)
      /\ new.text = r.text /\ new.advice = r.advice
      /\ (new.at = "gone" \/ (new.at = "failed" /\ new.unstored))
  BY <1>1, <1>2 DEF EndsAs, SameTurn, Onward
<1>4. Recorded(r) \in Text /\ Recorded(r) # Nothing /\ {"mom1", "mom2", "mom3", "shared"} = Zones
  BY <1>1, RecordedIsText, NothingAssumption DEF Zones
<1>5. /\ ZonesOK'
      /\ \A z \in Zones, s \in Turns \ {t} : zone'[z][s] = zone[z][s]
      /\ \A z \in {"mom2", "mom3"} : zone'[z][t] = zone[z][t]
      /\ \A z \in {"mom1", "shared"} : zone'[z][t] \in {zone[z][t], Recorded(r)}
      /\ zone'["mom1"][t] # Nothing <=> t \in stored'
      /\ zone'["mom1"][t] \in {Nothing, Recorded(r)}
  <2>1. /\ zone["mom1"][t] # Nothing <=> t \in stored
        /\ zone["mom1"][t] \in {Nothing, Recorded(r)}
    BY <1>1 DEF OnRecord
  <2>2. CASE zone' = zone /\ stored' = stored
    BY <1>1, <2>1, <2>2 DEF ZonesOK
  <2>3. CASE Store("mom1", t, Recorded(r)) /\ stored' = stored \cup {t}
    <3>1. /\ ZonesOK' /\ zone'["mom1"][t] = Recorded(r)
          /\ \A y \in Zones, s \in Turns : y # "mom1" \/ s # t => zone'[y][s] = zone[y][s]
      BY <1>1, <1>4, <2>3, StoreEffect
    <3> QED BY <1>4, <2>3, <3>1
  <2>4. CASE Store("shared", t, Recorded(r)) /\ stored' = stored
    <3>1. /\ ZonesOK' /\ zone'["shared"][t] = Recorded(r)
          /\ \A y \in Zones, s \in Turns : y # "shared" \/ s # t => zone'[y][s] = zone[y][s]
      BY <1>1, <1>4, <2>4, StoreEffect
    <3> QED BY <1>4, <2>1, <2>4, <3>1
  <2> QED BY <2>2, <2>3, <2>4 DEF LeaveStep, Remember, memory
<1>6. \A z \in Zones : zone'[z][t] # Nothing /\ zone'[z][t].advised =>
        Live(r) /\ z \in {"mom1", "shared"}
  <2>1. \A z \in Zones :
          zone'[z][t] = zone[z][t]
            \/ (z \in {"mom1", "shared"} /\ zone'[z][t] = Recorded(turn[t]))
    BY <1>1, <1>4, <1>5
  <2> QED BY <1>1, <2>1, StaysClean
<1>7. ((Live(turn[t]))' <=> Live(r)) /\ (Recorded(turn[t]))' = Recorded(r)
  BY <1>3 DEF Live, Recorded
<1>8. OnRecord(t)'
  BY <1>2, <1>3, <1>5, <1>6, <1>7 DEF OnRecord, Unrecorded, Awaits
<1> QED BY <1>2, <1>3, <1>5, <1>8

LEMMA TurnStepKeeps ==
  ASSUME WorkflowInv, NEW t \in Turns, TurnStep(t)
  PROVE  /\ turn' \in [Turns -> TurnRecord] /\ ZonesOK'
         /\ \A s \in Turns : GoodTurn(turn'[s]) /\ OnRecord(s)'
         /\ UNCHANGED memory \/ Remember(t)
         /\ \A s \in Turns \ {t} :
              turn'[s] = turn[s] /\ \A z \in Zones : zone'[z][s] = zone[z][s]
<1>1. /\ turn \in [Turns -> TurnRecord] /\ t \in DOMAIN turn
      /\ \A s \in Turns : GoodTurn(turn[s]) /\ OnRecord(s)
  BY DEF WorkflowInv
<1>2. /\ ZonesOK' /\ OnRecord(t)'
      /\ \A z \in Zones, s \in Turns \ {t} : zone'[z][s] = zone[z][s]
      /\ \E new : Step(t, new) /\ GoodTurn(new)
      /\ UNCHANGED memory \/ Remember(t)
  <2>1. CASE PlainStep(t)
    BY <2>1, PlainOnRecord DEF PlainStep, TurnMoves, Onward
  <2>2. CASE Start(t)
    BY <2>2, StartOnRecord, StartMoves DEF Start, KeepRest
  <2>3. CASE StoreMom1(t)
    BY <2>3, StoreMom1OnRecord DEF StoreMom1, Append
  <2>4. CASE ArchiveStep(t)
    BY <2>4, ArchiveOnRecord DEF ArchiveStep
  <2>5. CASE LeaveStep(t)
    BY <2>5, LeaveOnRecord DEF LeaveStep
  <2> QED BY <1>1, <2>1, <2>2, <2>3, <2>4, <2>5, StepKinds
<1>3. PICK new : turn' = [turn EXCEPT ![t] = new] /\ GoodTurn(new)
  BY <1>2 DEF Step
<1>4. turn' \in [Turns -> TurnRecord] /\ \A s \in Turns : GoodTurn(turn'[s])
  BY <1>1, <1>3 DEF GoodTurn
<1>5. ASSUME NEW s \in Turns \ {t} PROVE OnRecord(s)'
  <2>1. turn'[s] = turn[s] /\ (s \in stored' <=> s \in stored)
    BY <1>1, <1>2, <1>3 DEF memory, Remember
  <2> QED BY <1>1, <1>2, <2>1, OthersOnRecord
<1>6. \A s \in Turns \ {t} :
        turn'[s] = turn[s] /\ \A z \in Zones : zone'[z][s] = zone[z][s]
  BY <1>1, <1>2, <1>3
<1> QED BY <1>2, <1>4, <1>5, <1>6

(* What it does to the broker: nothing, or the cancellation of its request,
   and then it stores nothing in Mom1. *)
LEMMA TurnStepAsks ==
  ASSUME NEW t \in Turns, GoodTurn(turn[t]), TurnStep(t)
  PROVE  \/ UNCHANGED brokerVars
         \/ RequestStep(t) /\ UNCHANGED memory
<1>1. CASE Interrupt(t)
  <2>1. CASE turn[t].pending = {}
    BY <1>1, <2>1 DEF Interrupt
  <2>2. CASE turn[t].pending # {}
    <3>1. turn[t].at = "act"
      BY <2>2 DEF GoodTurn
    <3>2. UNCHANGED memory
      BY <1>1, <3>1 DEF Interrupt, Append
    <3> QED BY <1>1, <3>2 DEF Interrupt, RequestStep
  <2> QED BY <2>1, <2>2
<1>2. CASE Start(t) \/ ModelFails(t) \/ StoreFails(t)
  BY <1>2 DEF Start, ModelFails, StoreFails, KeepRest
<1>3. CASE Progress(t) /\ ~AskForAccess(t)
  BY <1>3 DEF Progress, SelectTask, SelectMission, Plan, Route, Convert, HandOff,
     AgentAnswers, AgentCalls, CallReturns, Supervise, Complete, RuleCheck, Judge,
     Correct, StreamToken, StreamEnds, EmitChunk, Inspect, Advise, KeepRest,
     StoreMom3, StoreMom2, Keep, StoreMom1, Archive
<1> QED BY <1>1, <1>2, <1>3 DEF TurnStep

LEMMA SmallSteps ==
  ASSUME Next
  PROVE  \/ \E t \in Turns : TurnStep(t)
         \/ \E t \in Turns : RequestStep(t) /\ UNCHANGED <<turn, zone, memory>>
         \/ Curate
         \/ Switch
BY DEF Next, Progress, TurnStep, AskForAccess, RequestStep

-----------------------------------------------------------------------------
LEMMA InitInv == Init => WorkflowInv /\ Gate!GateInit
<1> SUFFICES ASSUME Init PROVE WorkflowInv /\ Gate!GateInit
  OBVIOUS
<1>1. BrokerInit /\ mom1 \subseteq stored /\ stored \subseteq Entries
  BY WorkflowAssumption DEF Init
<1>2. BrokerInv /\ Gate!GateInit
  BY <1>1, BrokerInvInit, GateStarts
<1>3. turn \in [Turns -> TurnRecord] /\ \A t \in Turns : GoodTurn(turn[t])
  BY NewTurnIsGood DEF Init, GoodTurn
<1>4. ZonesOK
  BY DEF Init, ZonesOK
<1>5. ASSUME NEW t \in Turns PROVE OnRecord(t)
  <2>1. turn[t].at = "idle" /\ t \notin stored /\ \A z \in Zones : zone[z][t] = Nothing
    BY WorkflowAssumption DEF Init, NewTurn
  <2>2. {"mom1", "shared"} \subseteq Zones
    BY DEF Zones
  <2> QED BY <2>1, <2>2 DEF OnRecord
<1> QED BY <1>2, <1>3, <1>4, <1>5 DEF WorkflowInv

(* A step that moves no turn and stores nothing of one. *)
LEMMA TurnsStay ==
  ASSUME WorkflowInv, UNCHANGED <<turn, zone>>, BrokerInv',
         \A t \in Turns : t \in stored' <=> t \in stored
  PROVE  WorkflowInv'
BY DEF WorkflowInv, ZonesOK, OnRecord, AnswerKept, Recorded, Live

(* A step keeps the invariant and is one of the gate, or none of its concern. *)
LEMMA NextInv ==
  ASSUME WorkflowInv, [Next]_vars
  PROVE  WorkflowInv' /\ (Gate!GateNext \/ GateInvisible)
<1>1. /\ BrokerInv /\ mom1 \subseteq stored /\ stored \subseteq Entries
      /\ enabled \in BOOLEAN /\ Turns = Requests /\ Turns \subseteq Entries
  BY WorkflowAssumption DEF WorkflowInv, BrokerInv, BrokerTypeOK
<1>2. ASSUME NEW t \in Turns, TurnStep(t)
      PROVE  WorkflowInv' /\ (Gate!GateNext \/ GateInvisible)
  <2>1. /\ turn' \in [Turns -> TurnRecord] /\ ZonesOK'
        /\ \A s \in Turns : GoodTurn(turn'[s]) /\ OnRecord(s)'
        /\ UNCHANGED memory \/ Remember(t)
    BY <1>2, TurnStepKeeps
  <2>2. Learns /\ t \in Requests
    BY <1>1, <2>1 DEF Learns, memory, Remember
  <2>3. CASE UNCHANGED brokerVars
    <3>1. BrokerInv'
      BY <1>1, <2>2, <2>3, RestKeepsInv DEF brokerVars
    <3>2. Gate!GateNext
      BY <2>2, <2>3, LearnGates
    <3> QED BY <2>1, <3>1, <3>2 DEF WorkflowInv
  <2>4. CASE RequestStep(t) /\ UNCHANGED memory
    <3>1. BrokerInv' /\ (Gate!GateNext \/ GateInvisible)
      BY <1>1, <2>2, <2>4, RequestKeepsInv, RequestGates DEF memory
    <3> QED BY <2>1, <3>1 DEF WorkflowInv
  <2>5. GoodTurn(turn[t])
    BY DEF WorkflowInv
  <2> QED BY <1>2, <2>3, <2>4, <2>5, TurnStepAsks
<1>3. ASSUME NEW t \in Turns, RequestStep(t), UNCHANGED <<turn, zone, memory>>
      PROVE  WorkflowInv' /\ (Gate!GateNext \/ GateInvisible)
  <2>1. Learns /\ t \in Requests /\ stored' = stored
    BY <1>1, <1>3 DEF Learns, memory
  <2>2. BrokerInv' /\ (Gate!GateNext \/ GateInvisible)
    BY <1>1, <1>3, <2>1, RequestKeepsInv, RequestGates
  <2> QED BY <1>3, <2>1, <2>2, TurnsStay
<1>4. CASE Switch
  <2>1. PICK on \in BOOLEAN : SetEnabled(on)
    BY <1>4 DEF Switch
  <2>2. UNCHANGED <<turn, zone, request, audit>> /\ stored' = stored /\ mom1' = mom1
    BY <1>4, <2>1 DEF Switch, SetEnabled, memory
  <2>3. enabled' \in BOOLEAN /\ Learns
    BY <1>1, <2>1, <2>2 DEF SetEnabled, Learns
  <2>4. BrokerInv' /\ Gate!GateNext
    BY <1>1, <2>1, <2>2, <2>3, RestKeepsInv, SwitchGates
  <2> QED BY <2>2, <2>4, TurnsStay
<1>5. CASE Curate
  <2>1. PICK new \in {{}} \cup {{e} : e \in Others \ stored} :
          stored' = stored \cup new /\ mom1' \in SUBSET (mom1 \cup new)
    BY <1>5 DEF Curate
  <2>2. new \subseteq Entries /\ new \cap Turns = {}
    BY WorkflowAssumption
  <2>3. Learns /\ UNCHANGED <<turn, zone>> /\ UNCHANGED brokerVars
    BY <1>1, <1>5, <2>1, <2>2 DEF Learns, Curate
  <2>4. BrokerInv' /\ Gate!GateNext
    BY <1>1, <2>3, RestKeepsInv, LearnGates DEF brokerVars
  <2> QED BY <2>1, <2>2, <2>3, <2>4, TurnsStay
<1>6. CASE UNCHANGED vars
  <2>1. UNCHANGED <<turn, zone>> /\ UNCHANGED memory /\ UNCHANGED brokerVars
    BY <1>6 DEF vars
  <2>2. Learns /\ stored' = stored
    BY <1>1, <2>1 DEF Learns, memory
  <2>3. BrokerInv'
    BY <1>1, <2>1, <2>2, RestKeepsInv DEF brokerVars
  <2>4. Gate!GateNext
    BY <2>1, <2>2, LearnGates
  <2> QED BY <2>1, <2>2, <2>3, <2>4, TurnsStay
<1> QED BY <1>2, <1>3, <1>4, <1>5, <1>6, SmallSteps

LEMMA SpecInv == Spec => []WorkflowInv
<1>1. Init => WorkflowInv
  BY InitInv
<1>2. WorkflowInv /\ [Next]_vars => WorkflowInv'
  BY NextInv
<1> QED BY <1>1, <1>2, PTL DEF Spec

(* Turns, zones and requests keep their types, whatever fails or is
   interrupted (wp1.py, wp2.py, wp3.py, access.py). *)
THEOREM TypeCorrect == Spec => []TypeOK
<1>1. WorkflowInv => TypeOK
  BY DEF WorkflowInv, BrokerInv, TypeOK, TurnRecord, ZonesOK
<1> QED BY <1>1, SpecInv, PTL

(* A turn that answered is remembered as it answered; Mom1 was given nothing
   else, of a turn that raised nothing at all unless the append itself raised,
   and then the record of its answer; and its history holds nothing it was not
   given (wp1.py:336-357, 792-815, base.py:602-618). *)
THEOREM AnswersStayRecorded == Spec => []AnswersAreRecorded
<1>1. ASSUME WorkflowInv PROVE AnswersAreRecorded
  <2>1. ASSUME NEW t \in Turns, zone["mom1"][t] # Nothing
        PROVE  \/ turn[t].at \in {"archive", "answered", "gone"}
               \/ turn[t].at = "failed" /\ turn[t].unstored
    <3>1. OnRecord(t) /\ turn[t].at \in Over \cup Awaits
      BY <1>1 DEF WorkflowInv, TurnRecord
    <3> QED BY <2>1, <3>1 DEF OnRecord, Over, Unrecorded
  <2> QED BY <1>1, <2>1
          DEF WorkflowInv, BrokerInv, OnRecord, AnswerKept, AnswersAreRecorded
<1> QED BY <1>1, SpecInv, PTL

(* The quality advice of a check reaches no zone, but for that of a stream
   (wp1.py:336-338). *)
THEOREM MemoryStaysClean == Spec => []MemoryIsClean
<1>1. WorkflowInv => MemoryIsClean
  BY DEF WorkflowInv, OnRecord, MemoryIsClean
<1> QED BY <1>1, SpecInv, PTL

(* Nobody is given more of Mom1 than the scope of the request and the scope A1
   allowed it both cover, nor a preview of what was to be redacted
   (access.py:186-199, 318-326). *)
THEOREM GrantsStayNarrow == Spec => []GrantsAreNarrow
<1>1. WorkflowInv => GrantsAreNarrow
  BY InvIsNarrow DEF WorkflowInv
<1> QED BY <1>1, SpecInv, PTL

(* The trail says of a request what it decided, once, and nothing of a request
   whose adjudication failed (access.py:330-353). *)
THEOREM TrailStaysTrue == Spec => []TrailIsTrue
<1>1. WorkflowInv => TrailIsTrue
  BY DEF WorkflowInv, BrokerInv
<1> QED BY <1>1, SpecInv, PTL

(* Agents, the broker and everything that interrupts them implement the gate:
   every step is one of File, Refuse, Grant, Deny, Drop, Switch and Learn, or
   changes nothing the gate shows (access.py:1-40, 153-204). *)
THEOREM BrokerIsGate == Spec => Gate!GateSafe
<1>1. Init => Gate!GateInit
  BY InitInv
<1>2. WorkflowInv /\ [Next]_vars => [Gate!GateNext]_(Gate!gateVars)
  BY NextInv DEF GateInvisible
<1> QED BY <1>1, <1>2, SpecInv, PTL DEF Spec, Gate!GateSafe

(* Memory holds what the turns answered and nothing else of them: the three
   parts together (wp1.py:336-357, 792-815). *)
THEOREM MemoryStaysTrue == Spec => []MemoryIsTrue
<1>1. TypeOK /\ AnswersAreRecorded /\ MemoryIsClean => MemoryIsTrue
  BY DEF MemoryIsTrue
<1> QED BY <1>1, TypeCorrect, AnswersStayRecorded, MemoryStaysClean, PTL

(* The Mom1 channel hands out no more than it may and its trail says so truly
   (access.py:186-199, 318-353). *)
THEOREM RequestsStayTrue == Spec => []RequestsAreTrue
<1>1. GrantsAreNarrow /\ TrailIsTrue => RequestsAreTrue
  BY DEF RequestsAreTrue
<1> QED BY <1>1, GrantsStayNarrow, TrailStaysTrue, PTL

-----------------------------------------------------------------------------
(***************************************************************************)
(* What a stream emitted, and the failure of WP2's check: the invariant    *)
(* follows a turn from place to place beside WorkflowInv.                  *)
(***************************************************************************)
(* The places of a stream before its workspace has anything to show. *)
Early == {"idle", "select", "plan", "route", "convert", "store3", "handoff", "think",
          "act", "supervise", "check", "judge", "correct"}

(* Where a stream is once its workspace has kept the output. *)
Kept == {"inspect", "advise", "store1", "archive", "answered"}

Checking == {"check", "judge", "correct"}

Holds(text, size) == text # Nothing /\ text.size >= size

(* A stream with the record r whose workspace's zone has the text own. *)
StreamKept(r, own) ==
  /\ ~r.wp2Failed
  /\ r.shown.size <= r.text.size
  /\ r.at \in Early => r.shown.size = 0
  /\ r.at \notin {"complete", "store2"}
  /\ r.at \in Checking => r.check \in {"wp3", "handoff"}
  /\ r.at \in {"convert", "store3"} => r.route = "convert"
  /\ r.at \in Kept => Holds(own, r.text.size)
  /\ r.at \in {"failed", "gone"} /\ r.shown.size > 0 /\ ~r.unstored => Holds(own, r.shown.size)

(* A turn with the record r, after WP2's check has failed and left m2 in Mom2. *)
FailureKept(r, m2) ==
  /\ r.at \in Checking \cup {"store2", "store1", "archive", "answered", "failed", "gone"}
  /\ r.at = "store2" => r.text.marked
  /\ r.at \in Checking => r.check = "final"
  /\ r.at \in Checking \cup {"store1", "archive", "answered"} =>
       m2.marked /\ (r.rewritten \/ r.text.marked)
  /\ r.at = "answered" => r.rewritten \/ r.shown.marked

Honest(r, m2, m3) ==
  /\ Live(r) => StreamKept(r, IF r.works = "wp2" THEN m2 ELSE m3)
  /\ r.wp2Failed => FailureKept(r, m2)

HonestTurn(t) == Honest(turn[t], zone["mom2"][t], zone["mom3"][t])

-----------------------------------------------------------------------------
(* A record that no check has failed and of which nothing was shown. *)
Fresh(r) == ~r.wp2Failed /\ (Live(r) => r.shown.size = 0)

LEMMA Sizes ==
  ASSUME NEW r \in TurnRecord
  PROVE  /\ r.text \in Text /\ r.shown \in Text
         /\ r.text.size \in 0..Chunks /\ r.shown.size \in 0..Chunks
         /\ r.text.size \in Nat /\ r.shown.size \in Nat
<1>1. r.text \in Text /\ r.shown \in Text
  BY DEF TurnRecord
<1>2. r.text.size \in 0..Chunks /\ r.shown.size \in 0..Chunks
  BY <1>1 DEF Text
<1> QED BY <1>1, <1>2, Bounds

LEMMA EmptySize == Empty.size = 0
<1>1. Answer(TRUE) \in Text
  BY AnswerIsText
<1> QED BY <1>1 DEF Empty, Text

LEMMA EarlyIsFresh ==
  ASSUME NEW r, NEW m2, NEW m3, Honest(r, m2, m3), r.at \in Early \ Checking
  PROVE  Fresh(r)
BY DEF Honest, StreamKept, FailureKept, Fresh, Early, Checking

(* A fresh record goes on to a place with nothing to show. *)
LEMMA FreshGoesOn ==
  ASSUME NEW r \in TurnRecord, Fresh(r), NEW m2, NEW m3,
         r.at \in {"plan", "route", "handoff", "think", "act", "supervise"}
  PROVE  Honest(r, m2, m3)
<1>1. r.text.size \in Nat
  BY Sizes
<1>2. r.at \notin Checking \cup Kept
  BY DEF Checking, Kept
<1> QED BY <1>1, <1>2 DEF Honest, StreamKept, FailureKept, Fresh

LEMMA FreshMoves ==
  ASSUME NEW r \in TurnRecord, Fresh(r), NEW m2, NEW m3,
         NEW at \in {"plan", "route", "handoff", "think", "supervise"}
  PROVE  Honest([r EXCEPT !.at = at], m2, m3)
<1> DEFINE new == [r EXCEPT !.at = at]
<1>1. new \in TurnRecord /\ new.at = at
  BY DEF TurnRecord, Awaits
<1>2. Fresh(new)
  BY DEF Fresh, Live, TurnRecord
<1> HIDE DEF new
<1>3. Honest(new, m2, m3)
  BY <1>1, <1>2, FreshGoesOn
<1> QED BY <1>3 DEF new

LEMMA FreshExecutes ==
  ASSUME NEW r, Ready(r), Fresh(r), NEW ws \in {"wp2", "wp3"}, NEW m2, NEW m3
  PROVE  Honest(Execute(r, ws), m2, m3)
<1> DEFINE at == IF ws \in r.tools THEN "think" ELSE IF Live(r) THEN "stream" ELSE "complete"
           new == [r EXCEPT !.works = ws, !.step = 0, !.text = Empty, !.at = at]
<1>1. new = Execute(r, ws)
  BY DEF Execute
<1>2. /\ at \notin Checking \cup Kept \cup {"store2", "convert", "store3", "failed", "gone"}
      /\ Live(r) => at # "complete"
  BY DEF Checking, Kept
<1> HIDE DEF at
<1>3. /\ new.at = at /\ new.mode = r.mode /\ new.wp2Failed = r.wp2Failed
      /\ new.shown = r.shown /\ new.text = Empty
  BY DEF Ready, TurnRecord
<1> HIDE DEF new
<1>4. Live(new) <=> Live(r)
  BY <1>3 DEF Live
<1>5. Honest(new, m2, m3)
  BY <1>2, <1>3, <1>4, EmptySize DEF Honest, StreamKept, Fresh
<1> QED BY <1>1, <1>5

(* A check begins, or goes on. *)
LEMMA CheckHonest ==
  ASSUME NEW r \in TurnRecord, NEW m2, NEW m3, NEW which \in Checks,
         Live(r) => Fresh(r) /\ which \in {"wp3", "handoff"},
         r.wp2Failed => /\ which = "final" /\ m2.marked
                        /\ r.rewritten \/ r.text.marked
  PROVE  Honest(Check(r, which), m2, m3)
<1> DEFINE new == Check(r, which)
<1>1. /\ new.at = "check" /\ new.check = which /\ new.mode = r.mode
      /\ new.wp2Failed = r.wp2Failed /\ new.shown = r.shown /\ new.text = r.text
      /\ new.rewritten = r.rewritten
  BY DEF Check, TurnRecord
<1>2. r.text.size \in Nat
  BY Sizes
<1> HIDE DEF new
<1>3. Live(new) <=> Live(r)
  BY <1>1 DEF Live
<1>4. Honest(new, m2, m3)
  BY <1>1, <1>2, <1>3 DEF Honest, StreamKept, FailureKept, Fresh, Checking, Kept
<1> QED BY <1>4 DEF new

LEMMA ExecutedHonest ==
  ASSUME NEW r \in TurnRecord, Fresh(r), NEW text \in Text, ~text.advised, NEW m2, NEW m3
  PROVE  Honest(Executed(r, text), m2, m3)
<1> DEFINE new == [r EXCEPT !.text = text, !.pending = {}]
<1>1. new \in TurnRecord
  BY DEF TurnRecord
<1>2. /\ new.mode = r.mode /\ new.works = r.works /\ new.shown = r.shown /\ new.text = text
      /\ new.wp2Failed = r.wp2Failed
  BY DEF TurnRecord
<1>3. Executed(r, text) = IF Live(r) THEN [new EXCEPT !.at = "emit"]
                          ELSE IF r.works = "wp2" THEN Check(new, "wp2")
                          ELSE [new EXCEPT !.at = "store3"]
  BY <1>2 DEF Executed
<1> HIDE DEF new
<1>4. (Live(new) <=> Live(r)) /\ Fresh(new) /\ new.text.size \in Nat
  BY <1>1, <1>2, Sizes DEF Live, Fresh
<1>5. CASE Live(r)
  <2> DEFINE e == [new EXCEPT !.at = "emit"]
  <2>1. /\ e.at = "emit" /\ e.mode = new.mode /\ e.wp2Failed = new.wp2Failed
        /\ e.shown = new.shown /\ e.text = new.text
    BY <1>1 DEF TurnRecord
  <2> HIDE DEF e
  <2>2. Honest(e, m2, m3)
    BY <1>4, <2>1 DEF Honest, StreamKept, Fresh, Early, Kept, Checking, Live
  <2> QED BY <1>3, <1>5, <2>2 DEF e
<1>6. CASE ~Live(r) /\ r.works = "wp2"
  <2>1. Honest(Check(new, "wp2"), m2, m3)
    BY <1>1, <1>4, <1>6, CheckHonest DEF Checks, Fresh
  <2> QED BY <1>3, <1>6, <2>1
<1>7. CASE ~Live(r) /\ r.works # "wp2"
  <2> DEFINE e == [new EXCEPT !.at = "store3"]
  <2>1. e.mode = new.mode /\ e.wp2Failed = new.wp2Failed
    BY <1>1 DEF TurnRecord
  <2> HIDE DEF e
  <2>2. Honest(e, m2, m3)
    BY <1>4, <1>7, <2>1 DEF Honest, Fresh, Live
  <2> QED BY <1>3, <1>7, <2>2 DEF e
<1> QED BY <1>5, <1>6, <1>7

LEMMA VerdictHonest ==
  ASSUME NEW r, Ready(r), NEW m2, NEW m3, Honest(r, m2, m3),
         r.at \in {"check", "judge"}, NEW ok \in BOOLEAN
  PROVE  Honest(Verdict(r, ok), m2, m3)
<1>1. /\ r \in TurnRecord /\ r.check \in Checks
      /\ Live(r) => Fresh(r) /\ r.check \in {"wp3", "handoff"}
      /\ r.wp2Failed => /\ r.check = "final" /\ m2.marked
                        /\ r.rewritten \/ r.text.marked
  BY DEF Ready, TurnRecord, Honest, StreamKept, FailureKept, Fresh, Checking, Early
<1>2. CASE r.check = "wp2"
  <2> DEFINE text == [[r.text EXCEPT !.marked = ~ok] EXCEPT !.short = FALSE]
             new == [r EXCEPT !.at = "store2", !.wp2Failed = ~ok, !.rewritten = FALSE,
                              !.text = text]
  <2>1. text.marked = ~ok
    BY <1>1, Sizes DEF Text
  <2>2. Verdict(r, ok) = new
    BY <1>1, <1>2 DEF Verdict, TurnRecord
  <2> HIDE DEF text
  <2>3. new.at = "store2" /\ new.wp2Failed = ~ok /\ new.text = text /\ new.mode = r.mode
    BY <1>1 DEF TurnRecord
  <2> HIDE DEF new
  <2>4. ~Live(new)
    BY <1>1, <1>2, <2>3 DEF Live
  <2>5. Honest(new, m2, m3)
    BY <2>1, <2>3, <2>4 DEF Honest, FailureKept, Checking
  <2> QED BY <2>2, <2>5
<1>3. CASE r.check = "wp3"
  <2>1. Honest(Check(r, "handoff"), m2, m3)
    BY <1>1, <1>3, CheckHonest DEF Checks
  <2> QED BY <1>3, <2>1 DEF Verdict
<1>4. CASE r.check = "handoff"
  <2>1. Fresh(r)
    BY <1>1, <1>4 DEF Fresh
  <2>2. Honest(Execute(r, "wp2"), m2, m3)
    BY <2>1, FreshExecutes
  <2> QED BY <1>4, <2>2 DEF Verdict
<1>5. CASE r.check = "final"
  <2> DEFINE new == [r EXCEPT !.at = "store1", !.advice = ~ok]
  <2>1. Verdict(r, ok) = new
    BY <1>5 DEF Verdict, Advised
  <2>2. /\ new.at = "store1" /\ new.mode = r.mode /\ new.wp2Failed = r.wp2Failed
        /\ new.text = r.text /\ new.rewritten = r.rewritten
    BY <1>1 DEF TurnRecord
  <2> HIDE DEF new
  <2>3. ~Live(new)
    BY <1>1, <1>5, <2>2 DEF Live
  <2>4. Honest(new, m2, m3)
    BY <1>1, <2>2, <2>3 DEF Honest, FailureKept, Checking
  <2> QED BY <2>1, <2>4
<1> QED BY <1>1, <1>2, <1>3, <1>4, <1>5 DEF Checks

(* From one place of a check to another. *)
LEMMA CheckingHonest ==
  ASSUME NEW r \in TurnRecord, NEW m2, NEW m3, Honest(r, m2, m3),
         r.at \in Checking, NEW at \in Checking
  PROVE  Honest([r EXCEPT !.at = at], m2, m3)
<1> DEFINE new == [r EXCEPT !.at = at]
<1>1. /\ new.at = at /\ new.mode = r.mode /\ new.wp2Failed = r.wp2Failed
      /\ new.text = r.text /\ new.shown = r.shown /\ new.rewritten = r.rewritten
      /\ new.check = r.check
  BY DEF TurnRecord
<1> HIDE DEF new
<1>2. Live(new) <=> Live(r)
  BY <1>1 DEF Live
<1>3. Honest(new, m2, m3)
  BY <1>1, <1>2 DEF Honest, StreamKept, FailureKept, Checking, Kept, Early
<1> QED BY <1>3 DEF new

LEMMA IssuesHonest ==
  ASSUME NEW r, Ready(r), NEW m2, NEW m3, Honest(r, m2, m3), r.at \in {"check", "judge"}
  PROVE  Honest(Issues(r), m2, m3)
<1>1. Honest(Verdict(r, FALSE), m2, m3)
  BY VerdictHonest
<1>2. Honest([r EXCEPT !.at = "correct"], m2, m3)
  BY CheckingHonest DEF Checking, Ready
<1> QED BY <1>1, <1>2 DEF Issues

LEMMA RoutedHonest ==
  ASSUME NEW r, Ready(r), Fresh(r), NEW route \in Routes, NEW m2, NEW m3
  PROVE  Honest(Routed(r, route), m2, m3)
<1> DEFINE s == [r EXCEPT !.route = route]
<1>1. route \in {"direct", "convert"}
  BY ChoicesAssumption
<1>2. Ready(s) /\ Fresh(s) /\ s \in TurnRecord /\ s.route = route
  BY <1>1 DEF Ready, Fresh, Live, TurnRecord
<1>3. Routed(r, route) = IF route = "direct" THEN Execute(s, "wp3")
                         ELSE [r EXCEPT !.route = route, !.at = "convert"]
  BY DEF Routed
<1>4. CASE route = "direct"
  <2> HIDE DEF s
  <2>1. Honest(Execute(s, "wp3"), m2, m3)
    BY <1>2, FreshExecutes
  <2> QED BY <1>3, <1>4, <2>1
<1>5. CASE route = "convert"
  <2> DEFINE new == [r EXCEPT !.route = route, !.at = "convert"]
  <2>1. /\ new.at = "convert" /\ new.mode = r.mode /\ new.wp2Failed = r.wp2Failed
        /\ new.text = r.text /\ new.shown = r.shown /\ new.route = "convert"
    BY <1>5 DEF Ready, TurnRecord
  <2>2. r.text.size \in Nat
    BY Sizes DEF Ready
  <2> HIDE DEF new
  <2>3. Honest(new, m2, m3)
    BY <2>1, <2>2 DEF Honest, StreamKept, Fresh, Live, Checking, Kept
  <2> QED BY <1>3, <1>5, <2>3 DEF new
<1> QED BY <1>1, <1>4, <1>5

LEMMA GoOnHonest ==
  ASSUME NEW r, Ready(r), Fresh(r), NEW m2, NEW m3
  PROVE  Honest(GoOn(r), m2, m3)
<1>1. Honest(Executed(r, Answer(FALSE)), m2, m3)
  BY ExecutedHonest, AnswerIsText DEF Ready
<1>2. Honest([r EXCEPT !.at = "think"], m2, m3)
  BY FreshMoves DEF Ready
<1> QED BY <1>1, <1>2 DEF GoOn

LEMMA AnsweredHonest ==
  ASSUME NEW r, Ready(r), NEW m2, NEW m3, Honest(r, m2, m3), r.at \in {"store1", "archive"}
  PROVE  Honest(Answered(r), m2, m3)
<1> DEFINE new == Answered(r)
           shown == [r.text EXCEPT !.advised = r.advice]
<1>1. r.text \in Text /\ r.text.size \in Nat
  BY Sizes DEF Ready
<1>2. shown.size = r.text.size /\ shown.marked = r.text.marked
  BY <1>1 DEF Text
<1> HIDE DEF shown
<1>3. /\ new.at = "answered" /\ new.mode = r.mode /\ new.wp2Failed = r.wp2Failed
      /\ new.text = r.text /\ new.shown = shown /\ new.rewritten = r.rewritten
      /\ new.works = r.works
  BY AnsweredIsGood DEF shown
<1> HIDE DEF new
<1>4. Live(new) <=> Live(r)
  BY <1>3 DEF Live
<1>5. Honest(new, m2, m3)
  BY <1>1, <1>2, <1>3, <1>4
  DEF Honest, StreamKept, FailureKept, Checking, Kept, Early
<1> QED BY <1>5 DEF new

-----------------------------------------------------------------------------
(* What a turn reads of its zones after a step. *)
LEMMA MovesHonest ==
  ASSUME WorkflowInv, NEW t \in Turns, NEW new, Step(t, new), zone' = zone,
         Honest(new, zone["mom2"][t], zone["mom3"][t])
  PROVE  HonestTurn(t)'
<1>1. turn'[t] = new
  BY DEF Step, WorkflowInv
<1> QED BY <1>1 DEF HonestTurn, Honest, Live

LEMMA StoresHonest ==
  ASSUME WorkflowInv, NEW t \in Turns, NEW new, Step(t, new),
         NEW z \in Zones, NEW text \in Text, Store(z, t, text),
         Honest(new, IF z = "mom2" THEN text ELSE zone["mom2"][t],
                     IF z = "mom3" THEN text ELSE zone["mom3"][t])
  PROVE  HonestTurn(t)'
<1>1. turn'[t] = new
  BY DEF Step, WorkflowInv
<1>2. /\ zone'[z][t] = text
      /\ \A y \in Zones, s \in Turns : y # z \/ s # t => zone'[y][s] = zone[y][s]
  BY StoreEffect DEF WorkflowInv
<1>3. "mom2" \in Zones /\ "mom3" \in Zones
  BY DEF Zones
<1>4. /\ zone'["mom2"][t] = IF z = "mom2" THEN text ELSE zone["mom2"][t]
      /\ zone'["mom3"][t] = IF z = "mom3" THEN text ELSE zone["mom3"][t]
  BY <1>2, <1>3
<1> QED BY <1>1, <1>4 DEF HonestTurn, Honest, Live

LEMMA RoutingHonest ==
  ASSUME WorkflowInv, NEW t \in Turns, HonestTurn(t),
         SelectTask(t) \/ SelectMission(t) \/ Plan(t) \/ Route(t) \/ Convert(t)
  PROVE  HonestTurn(t)'
<1> DEFINE r == turn[t]
           m2 == zone["mom2"][t]
           m3 == zone["mom3"][t]
<1>1. GoodTurn(r) /\ r.at \in {"select", "plan", "route", "convert"} /\ zone' = zone
  BY DEF WorkflowInv, SelectTask, SelectMission, Plan, Route, Convert, Selected, KeepRest
<1>2. Ready(r) /\ r \in TurnRecord
  BY <1>1, QuietIsFree DEF Ready
<1>3. Fresh(r)
  BY <1>1, EarlyIsFresh DEF HonestTurn, Early, Checking
<1>4. CASE SelectTask(t)
  <2> DEFINE s == [r EXCEPT !.kind = "task"]
  <2>1. Ready(s) /\ Fresh(s) /\ s \in TurnRecord
    BY <1>2, <1>3 DEF Ready, Fresh, Live, TurnRecord
  <2>2. Step(t, [s EXCEPT !.at = "plan"]) \/ Step(t, Execute(s, "wp2"))
    BY <1>4 DEF SelectTask
  <2> HIDE DEF s
  <2>3. Honest([s EXCEPT !.at = "plan"], m2, m3) /\ Honest(Execute(s, "wp2"), m2, m3)
    BY <2>1, FreshMoves, FreshExecutes
  <2> QED BY <1>1, <2>2, <2>3, MovesHonest
<1>5. CASE SelectMission(t)
  <2>1. \/ Step(t, [r EXCEPT !.at = "route"])
        \/ \E route \in Routes : Step(t, Routed(r, route))
    BY <1>5 DEF SelectMission
  <2>2. Honest([r EXCEPT !.at = "route"], m2, m3)
    BY <1>2, <1>3, FreshMoves
  <2>3. \A route \in Routes : Honest(Routed(r, route), m2, m3)
    BY <1>2, <1>3, RoutedHonest
  <2> QED BY <1>1, <2>1, <2>2, <2>3, MovesHonest
<1>6. CASE Plan(t)
  <2>1. Honest(Execute(r, "wp2"), m2, m3)
    BY <1>2, <1>3, FreshExecutes
  <2> QED BY <1>1, <1>6, <2>1, MovesHonest DEF Plan
<1>7. CASE Route(t)
  <2>1. \A route \in Routes : Honest(Routed(r, route), m2, m3)
    BY <1>2, <1>3, RoutedHonest
  <2> QED BY <1>1, <1>7, <2>1, MovesHonest DEF Route
<1>8. CASE Convert(t)
  <2>1. PICK short \in BOOLEAN : Step(t, [r EXCEPT !.at = "store3", !.text = Answer(short)])
    BY <1>8 DEF Convert
  <2> DEFINE new == [r EXCEPT !.at = "store3", !.text = Answer(short)]
  <2>2. /\ new \in TurnRecord /\ new.at = "store3" /\ new.mode = r.mode
        /\ new.wp2Failed = r.wp2Failed /\ new.shown = r.shown /\ new.route = r.route
    BY <1>2, AnswerIsText DEF TurnRecord, Awaits
  <2>3. Live(r) => r.route = "convert"
    BY <1>8 DEF HonestTurn, Honest, StreamKept, Convert
  <2>4. Step(t, new)
    BY <2>1
  <2> HIDE DEF new
  <2>5. new.text.size \in Nat
    BY <2>2, Sizes
  <2>6. Honest(new, m2, m3)
    BY <1>3, <2>2, <2>3, <2>5 DEF Honest, StreamKept, Fresh, Live, Checking, Kept
  <2> QED BY <1>1, <2>4, <2>6, MovesHonest
<1> QED BY <1>4, <1>5, <1>6, <1>7, <1>8

LEMMA AgentHonest ==
  ASSUME WorkflowInv, NEW t \in Turns, HonestTurn(t),
         \/ AgentAnswers(t) \/ AgentCalls(t) \/ Supervise(t) \/ Complete(t)
         \/ \E c \in Calls : CallReturns(t, c)
  PROVE  HonestTurn(t)'
<1> DEFINE r == turn[t]
           m2 == zone["mom2"][t]
           m3 == zone["mom3"][t]
<1>1. /\ GoodTurn(r) /\ r \in TurnRecord /\ zone' = zone /\ ~r.text.advised
      /\ r.at \in {"think", "act", "supervise", "complete"}
  BY DEF WorkflowInv, GoodTurn, AgentAnswers, AgentCalls, Supervise, Complete, CallReturns,
     KeepRest
<1>2. Fresh(r)
  BY <1>1 DEF HonestTurn, Honest, StreamKept, FailureKept, Fresh, Early, Checking
<1>3. \A short \in BOOLEAN : Honest(Executed(r, Answer(short)), m2, m3)
  BY <1>1, <1>2, ExecutedHonest, AnswerIsText
<1>4. CASE AgentAnswers(t) \/ Complete(t)
  BY <1>1, <1>3, <1>4, MovesHonest DEF AgentAnswers, Complete
<1>5. CASE AgentCalls(t)
  <2>1. PICK calls \in (SUBSET Calls) \ {{}} :
          Step(t, [r EXCEPT !.at = "act", !.pending = calls, !.step = r.step + 1])
    BY <1>5 DEF AgentCalls
  <2> DEFINE new == [r EXCEPT !.at = "act", !.pending = calls, !.step = r.step + 1]
  <2>2. /\ new.at = "act" /\ new.mode = r.mode /\ new.wp2Failed = r.wp2Failed
        /\ new.shown = r.shown /\ new.text = r.text
    BY <1>1 DEF TurnRecord
  <2>3. r.text.size \in Nat
    BY <1>1, Sizes
  <2>4. Step(t, new)
    BY <2>1
  <2> HIDE DEF new
  <2>5. Honest(new, m2, m3)
    BY <1>2, <2>2, <2>3 DEF Honest, StreamKept, Fresh, Live, Checking, Kept
  <2> QED BY <1>1, <2>4, <2>5, MovesHonest
<1>6. CASE Supervise(t)
  <2>1. Ready(r)
    BY <1>1, <1>6, QuietIsFree DEF Supervise
  <2>2. Honest(GoOn(r), m2, m3)
    BY <1>2, <2>1, GoOnHonest
  <2> QED BY <1>1, <1>6, <2>2, MovesHonest DEF Supervise
<1>7. CASE \E c \in Calls : CallReturns(t, c)
  <2>1. PICK c \in Calls : CallReturns(t, c)
    BY <1>7
  <2> DEFINE s == [r EXCEPT !.pending = r.pending \ {c}]
  <2>2. s \in TurnRecord /\ Fresh(s) /\ s.at = r.at /\ s.text = r.text
    BY <1>1, <1>2 DEF Fresh, Live, TurnRecord
  <2>3. r.at = "act"
    BY <2>1 DEF CallReturns
  <2>4. Step(t, IF s.pending # {} THEN s
                ELSE IF Supervised(s) THEN [s EXCEPT !.at = "supervise"]
                ELSE GoOn(s))
    BY <2>1 DEF CallReturns
  <2> HIDE DEF s
  <2>5. Honest(s, m2, m3)
    BY <2>2, <2>3, FreshGoesOn
  <2>6. ASSUME s.pending = {}
        PROVE  Honest([s EXCEPT !.at = "supervise"], m2, m3) /\ Honest(GoOn(s), m2, m3)
    BY <1>1, <2>2, <2>6, FreshMoves, GoOnHonest DEF Ready
  <2> QED BY <1>1, <2>4, <2>5, <2>6, MovesHonest
<1> QED BY <1>4, <1>5, <1>6, <1>7

LEMMA CheckerHonest ==
  ASSUME WorkflowInv, NEW t \in Turns, HonestTurn(t),
         RuleCheck(t) \/ Judge(t) \/ Correct(t)
  PROVE  HonestTurn(t)'
<1> DEFINE r == turn[t]
           m2 == zone["mom2"][t]
           m3 == zone["mom3"][t]
<1>1. GoodTurn(r) /\ r.at \in Checking /\ zone' = zone /\ Honest(r, m2, m3)
  BY DEF WorkflowInv, RuleCheck, Judge, Correct, KeepRest, Checking, HonestTurn
<1>2. Ready(r) /\ r \in TurnRecord
  BY <1>1, QuietIsFree DEF Ready, Checking
<1>3. CASE RuleCheck(t)
  <2>1. r.at = "check" /\ (Step(t, Issues(r)) \/ Step(t, [r EXCEPT !.at = "judge"]))
    BY <1>3 DEF RuleCheck
  <2>2. Honest(Issues(r), m2, m3)
    BY <1>1, <1>2, <2>1, IssuesHonest
  <2>3. Honest([r EXCEPT !.at = "judge"], m2, m3)
    BY <1>1, <1>2, CheckingHonest DEF Checking
  <2> QED BY <1>1, <2>1, <2>2, <2>3, MovesHonest
<1>4. CASE Judge(t)
  <2>1. r.at = "judge" /\ (Step(t, Issues(r)) \/ Step(t, Verdict(r, TRUE)))
    BY <1>4 DEF Judge
  <2>2. Honest(Issues(r), m2, m3) /\ Honest(Verdict(r, TRUE), m2, m3)
    BY <1>1, <1>2, <2>1, IssuesHonest, VerdictHonest
  <2> QED BY <1>1, <2>1, <2>2, MovesHonest
<1>5. CASE Correct(t)
  <2>1. PICK short \in BOOLEAN, marked \in {FALSE, r.text.marked} :
          Step(t, [r EXCEPT !.at = "check", !.attempt = r.attempt + 1, !.rewritten = TRUE,
                            !.text = [Answer(short) EXCEPT !.marked = marked]])
    BY <1>5 DEF Correct
  <2> DEFINE text == [Answer(short) EXCEPT !.marked = marked]
             new == [r EXCEPT !.at = "check", !.attempt = r.attempt + 1,
                              !.rewritten = TRUE, !.text = text]
  <2>2. text.size \in Nat
    <3>1. Answer(short).size = Chunks
      BY DEF Answer
    <3>2. Answer(short) \in Text
      BY AnswerIsText
    <3> QED BY <3>1, <3>2, Bounds DEF Text
  <2>3. Step(t, new)
    BY <2>1
  <2> HIDE DEF text
  <2>4. /\ new.at = "check" /\ new.mode = r.mode /\ new.wp2Failed = r.wp2Failed
        /\ new.shown = r.shown /\ new.text = text /\ new.rewritten = TRUE
        /\ new.check = r.check
    BY <1>2 DEF TurnRecord
  <2> HIDE DEF new
  <2>5. Honest(new, m2, m3)
    BY <1>1, <2>2, <2>4 DEF Honest, StreamKept, FailureKept, Live, Checking, Kept, Early
  <2> QED BY <1>1, <2>3, <2>5, MovesHonest
<1> QED BY <1>3, <1>4, <1>5

LEMMA StoringHonest ==
  ASSUME WorkflowInv, NEW t \in Turns, HonestTurn(t),
         StoreMom3(t) \/ HandOff(t) \/ StoreMom2(t) \/ Keep(t)
  PROVE  HonestTurn(t)'
<1> DEFINE r == turn[t]
           m2 == zone["mom2"][t]
           m3 == zone["mom3"][t]
<1>1. /\ GoodTurn(r) /\ Honest(r, m2, m3) /\ r.at \in {"store3", "handoff", "store2", "keep"}
      /\ {"mom2", "mom3"} \subseteq Zones
  BY DEF WorkflowInv, HonestTurn, StoreMom3, HandOff, StoreMom2, Keep, Zones
<1>2. Ready(r) /\ r \in TurnRecord /\ r.text \in Text /\ r.text.size \in Nat
  BY <1>1, QuietIsFree, Sizes DEF Ready
<1>3. CASE StoreMom3(t)
  <2>1. Fresh(r) /\ (Live(r) => r.route = "convert")
    BY <1>1, <1>3, EarlyIsFresh DEF StoreMom3, Early, Checking, Honest, StreamKept
  <2>2. Honest([r EXCEPT !.at = "handoff"], m2, r.text)
    BY <1>2, <2>1, FreshMoves
  <2>3. r.route # "convert" => Honest(Check(r, "final"), m2, r.text)
    BY <1>2, <2>1, CheckHonest DEF Checks, Fresh
  <2> DEFINE new == IF r.route = "convert" THEN [r EXCEPT !.at = "handoff"]
                                           ELSE Check(r, "final")
  <2>4. Step(t, new) /\ Store("mom3", t, r.text)
    BY <1>3 DEF StoreMom3, Append
  <2>5. Honest(new, m2, r.text)
    BY <2>2, <2>3
  <2> HIDE DEF new
  <2> QED BY <1>1, <1>2, <2>4, <2>5, StoresHonest
<1>4. CASE HandOff(t)
  <2>1. Fresh(r)
    BY <1>1, <1>4, EarlyIsFresh DEF HandOff, Early, Checking
  <2>2. Honest(Check(r, "wp3"), m2, m3)
    BY <1>2, <2>1, CheckHonest DEF Checks, Fresh
  <2> QED BY <1>4, <2>2, MovesHonest DEF HandOff, KeepRest
<1>5. CASE StoreMom2(t)
  <2>1. ~Live(r) /\ (r.wp2Failed => r.text.marked)
    BY <1>1, <1>5 DEF StoreMom2, Honest, StreamKept, FailureKept
  <2>2. Honest(Check(r, "final"), r.text, m3)
    BY <1>2, <2>1, CheckHonest DEF Checks
  <2>3. Step(t, Check(r, "final")) /\ Store("mom2", t, r.text)
    BY <1>5 DEF StoreMom2, Append
  <2> QED BY <1>1, <1>2, <2>2, <2>3, StoresHonest
<1>6. CASE Keep(t)
  <2> DEFINE at == IF r.interrupts > 0 THEN "gone" ELSE "failed"
             own == OwnZone(r)
             n2 == IF own = "mom2" THEN r.text ELSE m2
             n3 == IF own = "mom3" THEN r.text ELSE m3
  <2>1. at \in {"gone", "failed"} /\ at \in Over /\ own \in {"mom2", "mom3"}
    BY DEF OwnZone, Over
  <2>2. ~r.wp2Failed /\ (Live(r) => r.shown.size <= r.text.size)
    BY <1>1, <1>6 DEF Keep, Honest, StreamKept, FailureKept, Checking
  <2>3. PICK new \in {[r EXCEPT !.at = "inspect"], Leave(r, at)} : Step(t, new)
    BY <1>6 DEF Keep
  <2>4. Store(own, t, r.text)
    BY <1>6 DEF Keep, Append
  <2>5. (IF r.works = "wp2" THEN n2 ELSE n3) = r.text
    BY DEF OwnZone
  <2>6. Holds(r.text, r.text.size) /\ (Live(r) => Holds(r.text, r.shown.size))
    BY <1>2, <2>2, NothingAssumption DEF Holds
  <2> HIDE DEF at
  <2>7. /\ new.at \in {"inspect", "gone", "failed"} /\ new.mode = r.mode
        /\ new.wp2Failed = r.wp2Failed /\ new.text = r.text /\ new.shown = r.shown
        /\ new.works = r.works
    <3>1. CASE new = [r EXCEPT !.at = "inspect"]
      BY <1>2, <3>1 DEF TurnRecord
    <3>2. CASE new = Leave(r, at)
      BY <1>2, <2>1, <3>2, LeaveKeeps DEF SameTurn
    <3> QED BY <2>3, <3>1, <3>2
  <2> HIDE DEF own, n2, n3
  <2>8. Honest(new, n2, n3)
    BY <2>2, <2>5, <2>6, <2>7 DEF Honest, StreamKept, Live, Early, Checking, Kept
  <2>9. Honest(new, IF own = "mom2" THEN r.text ELSE m2, IF own = "mom3" THEN r.text ELSE m3)
    BY <2>8 DEF n2, n3
  <2> QED BY <1>1, <1>2, <2>1, <2>3, <2>4, <2>9, StoresHonest
<1> QED BY <1>3, <1>4, <1>5, <1>6

(* The record of the turn and its archive. *)
LEMMA RecordingHonest ==
  ASSUME WorkflowInv, NEW t \in Turns, HonestTurn(t), StoreMom1(t) \/ Archive(t)
  PROVE  HonestTurn(t)'
<1> DEFINE r == turn[t]
           m2 == zone["mom2"][t]
           m3 == zone["mom3"][t]
           archived == [r EXCEPT !.at = "archive"]
<1>1. /\ GoodTurn(r) /\ Honest(r, m2, m3) /\ r.at \in {"store1", "archive"}
      /\ {"mom1", "shared"} \subseteq Zones
  BY DEF WorkflowInv, HonestTurn, StoreMom1, Archive, Zones
<1>2. Ready(r) /\ r \in TurnRecord /\ Recorded(r) \in Text
  BY <1>1, QuietIsFree, RecordedIsText DEF Ready
<1>3. Honest(Answered(r), m2, m3)
  BY <1>1, <1>2, AnsweredHonest
<1>4. r.at = "store1" => Honest(archived, m2, m3)
  <2> SUFFICES ASSUME r.at = "store1" PROVE Honest(archived, m2, m3)
    OBVIOUS
  <2>1. /\ archived.at = "archive" /\ archived.mode = r.mode /\ archived.text = r.text
        /\ archived.wp2Failed = r.wp2Failed /\ archived.shown = r.shown
        /\ archived.works = r.works /\ archived.rewritten = r.rewritten
    BY <1>2 DEF TurnRecord
  <2> HIDE DEF archived
  <2> QED BY <1>1, <2>1 DEF Honest, StreamKept, FailureKept, Live, Early, Checking, Kept
<1>5. PICK new : /\ Step(t, new) /\ Honest(new, m2, m3)
                 /\ zone' = zone \/ \E z \in {"mom1", "shared"} : Store(z, t, Recorded(r))
  <2>1. CASE StoreMom1(t)
    <3>1. Step(t, archived) \/ Step(t, Answered(r))
      BY <2>1 DEF StoreMom1
    <3>2. r.at = "store1" /\ Store("mom1", t, Recorded(r))
      BY <2>1 DEF StoreMom1, Append
    <3> HIDE DEF archived
    <3> QED BY <1>3, <1>4, <3>1, <3>2
  <2>2. CASE Archive(t)
    BY <1>3, <2>2 DEF Archive, Append
  <2> QED BY <2>1, <2>2
<1>6. ASSUME NEW z \in {"mom1", "shared"}, Store(z, t, Recorded(r)) PROVE HonestTurn(t)'
  <2>1. z \in Zones /\ z # "mom2" /\ z # "mom3"
    BY <1>1
  <2>2. Honest(new, IF z = "mom2" THEN Recorded(r) ELSE m2, IF z = "mom3" THEN Recorded(r) ELSE m3)
    BY <1>5, <2>1
  <2> QED BY <1>2, <1>5, <1>6, <2>1, <2>2, StoresHonest
<1> QED BY <1>5, <1>6, MovesHonest

-----------------------------------------------------------------------------
(* A stream that has begun goes on, to its end or to what follows it. *)
LEMMA StreamGoesOn ==
  ASSUME NEW r, NEW new, NEW m2, NEW m3, Honest(r, m2, m3),
         r.at \in {"think", "act", "supervise", "stream", "emit", "inspect", "advise"},
         new.mode = r.mode, new.wp2Failed = r.wp2Failed, new.works = r.works,
         \/ new.at \in {"stream", "emit", "keep"}
         \/ /\ new.at \in {"advise", "store1"} /\ r.at \in {"inspect", "advise"}
            /\ new.text = r.text,
         Live(r) => new.shown.size <= new.text.size
  PROVE  Honest(new, m2, m3)
<1>1. ~r.wp2Failed
  BY DEF Honest, FailureKept, Checking
<1>2. Live(new) <=> Live(r)
  BY DEF Live
<1> QED BY <1>1, <1>2 DEF Honest, StreamKept, Early, Checking, Kept

(* A turn that ends early. *)
LEMMA EndsHonest ==
  ASSUME NEW r, NEW new, NEW m2, NEW m3, NEW n2, NEW n3, r \in TurnRecord,
         m2 \in Text \cup {Nothing}, m3 \in Text \cup {Nothing},
         Honest(r, m2, m3), new.at \in {"failed", "gone"},
         new.mode = r.mode, new.wp2Failed = r.wp2Failed, new.works = r.works,
         new.text = r.text, new.shown = r.shown,
         r.wp2Failed => r.at \notin {"idle", "keep"},
         Live(r) => new.unstored \/ (n2 = m2 /\ n3 = m3 /\ r.at \in Early \cup Kept)
  PROVE  Honest(new, n2, n3)
<1>1. Live(new) <=> Live(r)
  BY DEF Live
<1>2. r.text.size \in Nat /\ r.shown.size \in Nat
  BY Sizes
<1>3. r.wp2Failed => FailureKept(new, n2)
  BY DEF FailureKept, Checking
<1>4. CASE Live(r)
  <2>1. ~r.wp2Failed /\ r.shown.size <= r.text.size
    BY <1>4 DEF Honest, StreamKept
  <2>2. new.at \notin Early \cup Kept \cup Checking \cup {"complete", "store2"}
    BY DEF Early, Kept, Checking
  <2>3. new.shown.size > 0 /\ ~new.unstored =>
          Holds(IF new.works = "wp2" THEN n2 ELSE n3, new.shown.size)
    <3>1. CASE r.at \in Early
      BY <1>2, <1>4, <3>1 DEF Honest, StreamKept
    <3>2. CASE r.at \in Kept /\ ~new.unstored
      <4> DEFINE own == IF r.works = "wp2" THEN m2 ELSE m3
      <4>1. Holds(own, r.text.size)
        BY <1>4, <3>2 DEF Honest, StreamKept
      <4>2. own # Nothing => own.size \in Nat
        BY Bounds DEF Text
      <4>3. (IF new.works = "wp2" THEN n2 ELSE n3) = own
        BY <1>4, <3>2
      <4> HIDE DEF own
      <4>4. Holds(own, new.shown.size)
        BY <1>2, <2>1, <4>1, <4>2 DEF Holds
      <4> QED BY <4>3, <4>4
    <3> QED BY <1>4, <3>1, <3>2
  <2>4. StreamKept(new, IF new.works = "wp2" THEN n2 ELSE n3)
    BY <2>1, <2>2, <2>3 DEF StreamKept, Checking, Early
  <2> QED BY <1>3, <2>1, <2>4 DEF Honest
<1> QED BY <1>1, <1>3, <1>4 DEF Honest

LEMMA StreamHonest ==
  ASSUME WorkflowInv, NEW t \in Turns, HonestTurn(t),
         StreamToken(t) \/ StreamEnds(t) \/ EmitChunk(t) \/ Inspect(t) \/ Advise(t)
  PROVE  HonestTurn(t)'
<1> DEFINE r == turn[t]
           m2 == zone["mom2"][t]
           m3 == zone["mom3"][t]
<1>1. /\ Honest(r, m2, m3) /\ r \in TurnRecord /\ r.text \in Text /\ r.shown \in Text
      /\ r.text.size \in Nat /\ r.shown.size \in Nat /\ zone' = zone
      /\ r.at \in {"stream", "emit", "inspect", "advise"}
      /\ Live(r) => r.shown.size <= r.text.size
  <2>1. r \in TurnRecord
    BY DEF WorkflowInv, GoodTurn
  <2> QED BY <2>1, Sizes DEF HonestTurn, Honest, StreamKept, StreamToken, StreamEnds,
           EmitChunk, Inspect, Advise, KeepRest
<1>2. CASE StreamToken(t)
  <2> DEFINE text == [r.text EXCEPT !.size = r.text.size + 1]
             shown == [r.shown EXCEPT !.size = r.text.size + 1]
             new == [r EXCEPT !.text = text, !.shown = shown]
  <2>1. Step(t, new)
    BY <1>1, <1>2 DEF StreamToken, Step, TurnRecord, Text
  <2>2. text.size = r.text.size + 1 /\ shown.size = r.text.size + 1
    BY <1>1 DEF Text
  <2> HIDE DEF text, shown
  <2>3. /\ new.at = r.at /\ new.mode = r.mode /\ new.wp2Failed = r.wp2Failed
        /\ new.works = r.works /\ new.text = text /\ new.shown = shown /\ r.at = "stream"
    BY <1>1, <1>2 DEF StreamToken, TurnRecord
  <2> HIDE DEF new
  <2>4. new.shown.size <= new.text.size
    BY <1>1, <2>2, <2>3
  <2>5. Honest(new, m2, m3)
    BY <1>1, <2>3, <2>4, StreamGoesOn
  <2> QED BY <1>1, <2>1, <2>5, MovesHonest
<1>3. CASE StreamEnds(t)
  <2>1. PICK short \in BOOLEAN :
          turn' = [turn EXCEPT ![t].at = "keep", ![t].text.short = short]
    BY <1>3 DEF StreamEnds
  <2> DEFINE text == [r.text EXCEPT !.short = short]
             new == [r EXCEPT !.at = "keep", !.text = text]
  <2>2. Step(t, new)
    BY <1>1, <2>1 DEF Step, TurnRecord
  <2>3. text.size = r.text.size
    BY <1>1 DEF Text
  <2> HIDE DEF text
  <2>4. /\ new.at = "keep" /\ new.mode = r.mode /\ new.wp2Failed = r.wp2Failed
        /\ new.works = r.works /\ new.text = text /\ new.shown = r.shown
    BY <1>1 DEF TurnRecord
  <2> HIDE DEF new
  <2>5. Live(r) => new.shown.size <= new.text.size
    BY <1>1, <2>3, <2>4
  <2>6. Honest(new, m2, m3)
    BY <1>1, <2>4, <2>5, StreamGoesOn
  <2> QED BY <1>1, <2>2, <2>6, MovesHonest
<1>4. CASE EmitChunk(t)
  <2>1. CASE r.shown.size < r.text.size
    <3> DEFINE shown == [r.shown EXCEPT !.size = r.shown.size + 1]
               new == [r EXCEPT !.shown = shown]
    <3>1. Step(t, new)
      BY <1>4, <2>1 DEF EmitChunk
    <3>2. shown.size = r.shown.size + 1
      BY <1>1 DEF Text
    <3> HIDE DEF shown
    <3>3. /\ new.at = "emit" /\ new.mode = r.mode /\ new.wp2Failed = r.wp2Failed
          /\ new.works = r.works /\ new.text = r.text /\ new.shown = shown
      BY <1>1, <1>4 DEF EmitChunk, TurnRecord
    <3> HIDE DEF new
    <3>4. new.shown.size <= new.text.size
      BY <1>1, <2>1, <3>2, <3>3
    <3>5. Honest(new, m2, m3)
      BY <1>1, <3>3, <3>4, StreamGoesOn
    <3> QED BY <1>1, <3>1, <3>5, MovesHonest
  <2>2. CASE ~(r.shown.size < r.text.size)
    <3> DEFINE new == [r EXCEPT !.at = "keep"]
    <3>1. Step(t, new)
      BY <1>4, <2>2 DEF EmitChunk
    <3>2. /\ new.at = "keep" /\ new.mode = r.mode /\ new.wp2Failed = r.wp2Failed
          /\ new.works = r.works /\ new.text = r.text /\ new.shown = r.shown
      BY <1>1 DEF TurnRecord
    <3> HIDE DEF new
    <3>3. Honest(new, m2, m3)
      BY <1>1, <3>2, StreamGoesOn
    <3> QED BY <1>1, <3>1, <3>3, MovesHonest
  <2> QED BY <2>1, <2>2
<1>5. CASE Inspect(t) \/ Advise(t)
  <2> DEFINE shown == [r.shown EXCEPT !.advised = TRUE]
             advised == [r EXCEPT !.at = "advise", !.advice = TRUE, !.shown = shown]
             written == [r EXCEPT !.at = "store1"]
  <2>1. r.at \in {"inspect", "advise"} /\ (Step(t, advised) \/ Step(t, written))
    BY <1>5 DEF Inspect, Advise
  <2>2. shown.size = r.shown.size
    BY <1>1 DEF Text
  <2> HIDE DEF shown
  <2>3. /\ advised.at = "advise" /\ advised.mode = r.mode /\ advised.wp2Failed = r.wp2Failed
        /\ advised.works = r.works /\ advised.text = r.text /\ advised.shown = shown
    BY <1>1 DEF TurnRecord
  <2>4. /\ written.at = "store1" /\ written.mode = r.mode /\ written.wp2Failed = r.wp2Failed
        /\ written.works = r.works /\ written.text = r.text /\ written.shown = r.shown
    BY <1>1 DEF TurnRecord
  <2> HIDE DEF advised, written
  <2>5. Honest(advised, m2, m3)
    BY <1>1, <2>1, <2>2, <2>3, StreamGoesOn
  <2>6. Honest(written, m2, m3)
    BY <1>1, <2>1, <2>4, StreamGoesOn
  <2> QED BY <1>1, <2>1, <2>5, <2>6, MovesHonest
<1> QED BY <1>2, <1>3, <1>4, <1>5

(* What an append of turn t may leave in the zones of the executors. *)
LEMMA AppendedHonest ==
  ASSUME WorkflowInv, NEW t \in Turns, Append(t) \/ UNCHANGED <<zone, memory>>,
         turn[t].at \notin {"keep", "store2", "store3"}
  PROVE  zone'["mom2"][t] = zone["mom2"][t] /\ zone'["mom3"][t] = zone["mom3"][t]
<1>1. /\ turn[t] \in TurnRecord /\ ZonesOK
      /\ {"mom1", "mom2", "mom3", "shared"} = Zones
  BY DEF WorkflowInv, GoodTurn, Zones
<1>2. ASSUME NEW z \in {"mom1", "shared"}, Store(z, t, Recorded(turn[t]))
      PROVE  zone'["mom2"][t] = zone["mom2"][t] /\ zone'["mom3"][t] = zone["mom3"][t]
  <2>1. z \in Zones /\ "mom2" \in Zones \ {z} /\ "mom3" \in Zones \ {z}
    BY <1>1
  <2>2. Recorded(turn[t]) \in Text
    BY <1>1, RecordedIsText
  <2>3. \A y \in Zones, u \in Turns : y # z \/ u # t => zone'[y][u] = zone[y][u]
    BY <1>1, <1>2, <2>1, <2>2, StoreEffect
  <2> QED BY <2>1, <2>3
<1> QED BY <1>1, <1>2, AppendKinds

(* The model raises. *)
LEMMA ModelFailureHonest ==
  ASSUME WorkflowInv, NEW t \in Turns, HonestTurn(t), ModelFails(t)
  PROVE  HonestTurn(t)'
<1> DEFINE r == turn[t]
           m2 == zone["mom2"][t]
           m3 == zone["mom3"][t]
           kept == [r EXCEPT !.at = "keep", !.failing = TRUE]
           failed == Leave(r, "failed")
<1>1. /\ GoodTurn(r) /\ Honest(r, m2, m3) /\ r \in TurnRecord /\ zone' = zone
      /\ m2 \in Text \cup {Nothing} /\ m3 \in Text \cup {Nothing} /\ t \in DOMAIN turn
  BY DEF WorkflowInv, GoodTurn, HonestTurn, ModelFails, KeepRest, ZonesOK, Zones
<1>2. /\ r.at \in {"select", "route", "convert", "think", "complete", "stream",
                   "judge", "correct", "inspect"}
      /\ Step(t, IF Streaming(r) THEN kept ELSE failed)
  BY <1>1 DEF ModelFails, Step
<1>3. /\ kept.at = "keep" /\ kept.mode = r.mode /\ kept.wp2Failed = r.wp2Failed
      /\ kept.works = r.works /\ kept.text = r.text /\ kept.shown = r.shown
  BY <1>1 DEF TurnRecord
<1>4. failed.at = "failed" /\ SameTurn(r, failed)
  BY <1>1, LeaveKeeps DEF Over
<1> HIDE DEF kept, failed
<1>5. ASSUME Streaming(r) PROVE Honest(kept, m2, m3)
  <2>1. Live(r) /\ r.at \in {"think", "act", "supervise", "stream", "emit"}
    BY <1>5 DEF Streaming
  <2>2. r.shown.size <= r.text.size
    BY <1>1, <2>1 DEF Honest, StreamKept
  <2> QED BY <1>1, <1>3, <2>1, <2>2, StreamGoesOn
<1>6. ASSUME ~Streaming(r) PROVE Honest(failed, m2, m3)
  <2>1. Live(r) => r.at \in Early \cup Kept
    BY <1>1, <1>2, <1>6 DEF Streaming, Honest, StreamKept, Early, Kept
  <2> QED BY <1>1, <1>2, <1>4, <2>1, EndsHonest DEF SameTurn
<1> QED BY <1>1, <1>2, <1>5, <1>6, MovesHonest

(* A zone raises, before or after it has stored: where it is the zone of an
   executor the turn says that it is unstored. *)
LEMMA FailureHonest ==
  ASSUME WorkflowInv, NEW t \in Turns, HonestTurn(t), StoreFails(t)
  PROVE  HonestTurn(t)'
<1> DEFINE r == turn[t]
           m2 == zone["mom2"][t]
           m3 == zone["mom3"][t]
           n2 == zone'["mom2"][t]
           n3 == zone'["mom3"][t]
           failed == [Leave(r, "failed") EXCEPT !.unstored = TRUE]
           new == IF r.at = "archive" THEN Answered(r) ELSE failed
<1>1. /\ GoodTurn(r) /\ Honest(r, m2, m3) /\ r \in TurnRecord /\ t \in DOMAIN turn
      /\ m2 \in Text \cup {Nothing} /\ m3 \in Text \cup {Nothing}
      /\ r.at \in {"store1", "store2", "store3", "handoff", "archive", "keep"}
      /\ Append(t) \/ UNCHANGED <<zone, memory>>
  BY DEF WorkflowInv, GoodTurn, HonestTurn, StoreFails, ZonesOK, Zones
<1>2. turn'[t] = new
  BY <1>1 DEF StoreFails
<1>3. CASE r.at = "archive"
  <2>1. n2 = m2 /\ n3 = m3
    BY <1>1, <1>3, AppendedHonest
  <2>2. Honest(Answered(r), m2, m3)
    BY <1>1, <1>3, QuietIsFree, AnsweredHonest
  <2>3. turn'[t] = Answered(r)
    BY <1>2, <1>3
  <2> HIDE DEF n2, n3, m2, m3, r, new
  <2>4. Honest(turn'[t], n2, n3)
    BY <2>1, <2>2, <2>3
  <2> QED BY <2>4 DEF HonestTurn, Honest, Live, n2, n3
<1>4. CASE r.at # "archive"
  <2>1. failed.at = "failed" /\ failed.unstored /\ SameTurn(r, failed)
    BY <1>1, LeaveUnstored DEF Over
  <2>2. r.wp2Failed => r.at \notin {"idle", "keep"}
    BY <1>1 DEF Honest, FailureKept, Checking
  <2>3. turn'[t] = failed
    BY <1>2, <1>4
  <2> HIDE DEF failed, new, n2, n3
  <2>4. Honest(failed, n2, n3)
    BY <1>1, <2>1, <2>2, EndsHonest DEF SameTurn
  <2> QED BY <2>3, <2>4 DEF HonestTurn, Honest, Live, n2, n3
<1> QED BY <1>3, <1>4

(* The client leaves: a stream that runs is kept first, and where a zone of an
   executor is cut off the turn says that it is unstored. *)
LEMMA InterruptHonest ==
  ASSUME WorkflowInv, NEW t \in Turns, HonestTurn(t), Interrupt(t)
  PROVE  HonestTurn(t)'
<1> DEFINE r == turn[t]
           m2 == zone["mom2"][t]
           m3 == zone["mom3"][t]
           s == [r EXCEPT !.interrupts = r.interrupts + 1, !.pending = {}]
           kept == [s EXCEPT !.at = "keep", !.failing = TRUE]
           gone == [Leave(s, "gone") EXCEPT !.unstored = s.at \in {"keep", "store2", "store3"}]
<1>1. /\ GoodTurn(r) /\ Honest(r, m2, m3) /\ r \in TurnRecord /\ t \in DOMAIN turn
      /\ m2 \in Text \cup {Nothing} /\ m3 \in Text \cup {Nothing} /\ ZonesOK
      /\ {"mom1", "mom2", "mom3", "shared"} = Zones
  BY DEF WorkflowInv, GoodTurn, HonestTurn, ZonesOK, Zones
<1>2. Step(t, IF Streaming(s) THEN kept ELSE gone) /\ r.at \in Awaits \ {"check"}
  BY DEF Interrupt, Step
<1>9. /\ s.at = r.at /\ s.mode = r.mode /\ s.wp2Failed = r.wp2Failed
      /\ s.works = r.works /\ s.text = r.text /\ s.shown = r.shown
      /\ s \in TurnRecord
  <2>1. r.interrupts \in 0..MaxInterrupts /\ r.interrupts < MaxInterrupts
    BY <1>1 DEF Interrupt, TurnRecord
  <2>2. r.interrupts + 1 \in 0..MaxInterrupts
    BY <2>1, Bounds
  <2> QED BY <1>1, <2>2 DEF TurnRecord
<1> HIDE DEF s
<1>3. /\ s.at = r.at /\ s.mode = r.mode
      /\ kept.at = "keep" /\ kept.mode = r.mode /\ kept.wp2Failed = r.wp2Failed
      /\ kept.works = r.works /\ kept.text = r.text /\ kept.shown = r.shown
      /\ gone.at = "gone" /\ gone.mode = r.mode /\ gone.wp2Failed = r.wp2Failed
      /\ gone.works = r.works /\ gone.text = r.text /\ gone.shown = r.shown
      /\ gone.unstored = (r.at \in {"keep", "store2", "store3"})
  <2>1. /\ kept.at = "keep" /\ kept.mode = s.mode /\ kept.wp2Failed = s.wp2Failed
        /\ kept.works = s.works /\ kept.text = s.text /\ kept.shown = s.shown
    BY <1>9 DEF TurnRecord
  <2>2. (s.at \in {"keep", "store2", "store3"}) \in BOOLEAN
    OBVIOUS
  <2>3. /\ gone.at = "gone" /\ SameTurn(s, gone)
        /\ gone.unstored = (s.at \in {"keep", "store2", "store3"})
    BY <1>9, <2>2, LeaveUnstored DEF Over
  <2> HIDE DEF kept, gone
  <2> QED BY <1>9, <2>1, <2>3 DEF SameTurn
<1>4. Streaming(s) <=> Streaming(r)
  BY <1>3 DEF Streaming, Live
<1> HIDE DEF kept, gone
<1>5. r.wp2Failed => r.at \notin {"idle", "keep"}
  BY <1>1 DEF Honest, FailureKept, Checking
<1>6. /\ turn'[t] = IF Streaming(r) THEN kept ELSE gone
      /\ r.at \notin {"keep", "store2", "store3"} =>
           zone'["mom2"][t] = m2 /\ zone'["mom3"][t] = m3
  <2>1. turn'[t] = IF Streaming(r) THEN kept ELSE gone
    BY <1>1, <1>2, <1>4 DEF Step
  <2>2. Append(t) \/ UNCHANGED <<zone, memory>>
    BY DEF Interrupt
  <2> QED BY <2>1, <2>2, AppendedHonest
<1>7. CASE Streaming(r)
  <2>1. Live(r) /\ r.at \in {"think", "act", "supervise", "stream", "emit"}
    BY <1>7 DEF Streaming
  <2>2. r.shown.size <= r.text.size
    BY <1>1, <2>1 DEF Honest, StreamKept
  <2>3. Honest(kept, m2, m3)
    BY <1>1, <1>3, <2>1, <2>2, StreamGoesOn
  <2>4. turn'[t] = kept /\ zone'["mom2"][t] = m2 /\ zone'["mom3"][t] = m3
    BY <1>6, <1>7, <2>1
  <2> QED BY <2>3, <2>4 DEF HonestTurn, Honest, Live
<1>8. CASE ~Streaming(r)
  <2> DEFINE n2 == zone'["mom2"][t]
             n3 == zone'["mom3"][t]
  <2>1. Live(r) => gone.unstored \/ (n2 = m2 /\ n3 = m3 /\ r.at \in Early \cup Kept)
    BY <1>1, <1>2, <1>3, <1>6, <1>8
    DEF Streaming, Honest, StreamKept, Early, Kept, Awaits
  <2>2. turn'[t] = gone
    BY <1>6, <1>8
  <2> HIDE DEF n2, n3
  <2>3. Honest(gone, n2, n3)
    BY <1>1, <1>3, <1>5, <2>1, EndsHonest
  <2> QED BY <2>2, <2>3 DEF HonestTurn, Honest, Live, n2, n3
<1> QED BY <1>7, <1>8

LEMMA StartHonest ==
  ASSUME WorkflowInv, NEW t \in Turns, Start(t)
  PROVE  HonestTurn(t)'
<1>1. PICK mode \in Modes, tools \in Toolsets :
        Step(t, [NewTurn EXCEPT !.at = "select", !.mode = mode, !.tools = tools])
  BY DEF Start
<1> DEFINE new == [NewTurn EXCEPT !.at = "select", !.mode = mode, !.tools = tools]
<1>2. /\ new.at = "select" /\ new.text = Empty /\ new.shown = Empty /\ ~new.wp2Failed
      /\ Step(t, new) /\ zone' = zone
  BY <1>1 DEF NewTurn, Start, KeepRest
<1> HIDE DEF new
<1>3. Honest(new, zone["mom2"][t], zone["mom3"][t])
  BY <1>2, EmptySize DEF Honest, StreamKept, Early, Checking, Kept
<1> QED BY <1>2, <1>3, MovesHonest

-----------------------------------------------------------------------------
LEMMA TurnHonest ==
  ASSUME WorkflowInv, NEW t \in Turns, HonestTurn(t), TurnStep(t)
  PROVE  HonestTurn(t)'
<1>1. CASE Start(t) \/ ModelFails(t) \/ StoreFails(t) \/ Interrupt(t)
  BY <1>1, StartHonest, ModelFailureHonest, FailureHonest, InterruptHonest
<1>2. CASE Progress(t) /\ ~AskForAccess(t)
  BY <1>2, RoutingHonest, AgentHonest, CheckerHonest, StoringHonest, RecordingHonest,
     StreamHonest DEF Progress
<1> QED BY <1>1, <1>2 DEF TurnStep

LEMMA HonestStep ==
  ASSUME WorkflowInv, [Next]_vars, \A t \in Turns : HonestTurn(t)
  PROVE  \A t \in Turns : HonestTurn(t)'
<1>1. ASSUME UNCHANGED <<turn, zone>> PROVE \A t \in Turns : HonestTurn(t)'
  BY <1>1 DEF HonestTurn, Honest, Live
<1>2. ASSUME NEW t \in Turns, TurnStep(t), NEW s \in Turns PROVE HonestTurn(s)'
  <2>1. CASE s = t
    BY <1>2, <2>1, TurnHonest
  <2>2. CASE s # t
    <3>1. turn'[s] = turn[s] /\ \A z \in Zones : zone'[z][s] = zone[z][s]
      BY <1>2, <2>2, TurnStepKeeps
    <3>2. zone'["mom2"][s] = zone["mom2"][s] /\ zone'["mom3"][s] = zone["mom3"][s]
      BY <3>1 DEF Zones
    <3> QED BY <3>1, <3>2 DEF HonestTurn, Honest, Live
  <2> QED BY <2>1, <2>2
<1>3. CASE Next
  BY <1>1, <1>2, <1>3, SmallSteps DEF Switch, Curate
<1>4. CASE UNCHANGED vars
  BY <1>1, <1>4 DEF vars
<1> QED BY <1>3, <1>4

LEMMA SpecHonest == Spec => [](\A t \in Turns : HonestTurn(t))
<1> DEFINE Inv == WorkflowInv /\ \A t \in Turns : HonestTurn(t)
<1>1. Init => Inv
  <2>1. Init => \A t \in Turns : HonestTurn(t)
    BY EmptySize DEF Init, NewTurn, HonestTurn, Honest, StreamKept, Early, Checking, Kept
  <2> QED BY <2>1, InitInv
<1>2. Inv /\ [Next]_vars => Inv'
  BY NextInv, HonestStep
<1>3. Inv => \A t \in Turns : HonestTurn(t)
  OBVIOUS
<1> QED BY <1>1, <1>2, <1>3, PTL DEF Spec

(* What the user has read of a stream is in the zone of its workspace when the
   turn is over, however it ended, unless the store failed or was cut off
   (wp2.py:366-369, wp3.py:154-156). *)
THEOREM WhatIsEmittedIsKept == Spec => []EmittedIsKept
<1>1. ASSUME WorkflowInv, \A t \in Turns : HonestTurn(t) PROVE EmittedIsKept
  <2> SUFFICES ASSUME NEW t \in Turns, Live(turn[t]), turn[t].at \in Over,
                      turn[t].shown.size > 0, ~turn[t].unstored
               PROVE  LET kept == zone[OwnZone(turn[t])][t] IN
                      kept # Nothing /\ kept.size >= turn[t].shown.size
    BY DEF EmittedIsKept
  <2> DEFINE r == turn[t]
             own == zone[OwnZone(r)][t]
  <2>1. StreamKept(r, own)
    BY <1>1 DEF HonestTurn, Honest, OwnZone
  <2>2. r \in TurnRecord /\ own \in Text \cup {Nothing}
    BY <1>1 DEF WorkflowInv, ZonesOK, Zones, OwnZone
  <2>3. r.text.size \in Nat /\ r.shown.size \in Nat /\ (own # Nothing => own.size \in Nat)
    BY <2>2, Sizes, Bounds DEF Text
  <2>4. r.at \in {"answered", "failed", "gone"}
    BY <2>1, <2>3 DEF StreamKept, Over, Early
  <2> HIDE DEF own, r
  <2>5. own # Nothing /\ own.size >= r.shown.size
    <3>1. r.shown.size > 0 /\ ~r.unstored
      BY DEF r
    <3>2. CASE r.at = "answered"
      BY <2>1, <2>3, <3>2 DEF StreamKept, Kept, Holds
    <3>3. CASE r.at \in {"failed", "gone"}
      BY <2>1, <3>1, <3>3 DEF StreamKept, Holds
    <3> QED BY <2>4, <3>2, <3>3
  <2> QED BY <2>5 DEF own, r
<1> QED BY <1>1, SpecInv, SpecHonest, PTL

(* A result that WP2's check gave up on reaches the user marked, unless A1's
   check rewrote it, and Mom2 holds the marked result
   (checker.py:61, wp2.py:267-280, wp1.py:588-600). *)
THEOREM FailuresAreTold == Spec => []FailureIsTold
<1>1. (\A t \in Turns : HonestTurn(t)) => FailureIsTold
  BY DEF HonestTurn, Honest, FailureKept, FailureIsTold
<1> QED BY <1>1, SpecHonest, PTL

(* Neither memory nor the user is spared anything: the two together
   (wp2.py:267-280, 366-369). *)
THEOREM NothingStaysHidden == Spec => []NothingIsHidden
<1>1. EmittedIsKept /\ FailureIsTold => NothingIsHidden
  BY DEF NothingIsHidden
<1> QED BY <1>1, WhatIsEmittedIsKept, FailuresAreTold, PTL
=============================================================================
