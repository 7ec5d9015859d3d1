----------------------------- MODULE AccessBroker -----------------------------
(***************************************************************************)
(* The channel through which the task and mission zones (Mom2, Mom3) may   *)
(* read the private zone Mom1 (src/autumn/core/memory/access.py).  A       *)
(* request gathers candidate entries, A1 adjudicates, A4 mediates, and the *)
(* decision is appended to an audit area.  Every arrow between the places  *)
(* of a request is an await, so Mom1 and the switch may change in between. *)
(* What a request finds is an id with the tags it was found under: a token *)
(* of a scope is an id or a tag.                                           *)
(***************************************************************************)
EXTENDS Naturals, FiniteSets

CONSTANTS
  Requests,     \* the requests that may be filed
  Entries,      \* the ids an entry of Mom1 can have
  Tags,         \* Tags[e]: the tags it is stored with
  Keys,         \* the ids of the values a query may name outright ("kv:...")
  Layers,       \* the sets of index layers a hit may come from
  Scopes,       \* the scopes a requester or A1 may name; {} is the wildcard
  MaxEntries,   \* max_entries of every request
  A4Present     \* whether a mediating model is configured

ASSUME BrokerAssumption ==
  /\ MaxEntries \in Nat \ {0}
  /\ A4Present \in BOOLEAN
  /\ IsFiniteSet(Entries) /\ IsFiniteSet(Keys)
  /\ Layers \subseteq SUBSET {"vector", "lexical"}

VARIABLES
  mom1,      \* the ids in Mom1's history; never written here
  stored,    \* the ids it has ever appended: its indexes forget none of them
  enabled,   \* the switch configure_4d flips in place
  request,   \* request[r]: where it is and what it has read
  audit      \* the decisions in the audit area

brokerVars == <<enabled, request, audit>>

(* Contents of a grant: what A4 wrote, previews of the entries, their ids
   and tags alone, or nothing. *)
Contents == {"none", "a4", "preview", "metadata"}
Places   == {"none", "gather", "adjudicate", "mediate", "record",
             "granted", "denied", "raised", "cancelled"}

Idle == [at |-> "none", scope |-> {}, candidates |-> {}, allowedScope |-> {},
         redact |-> FALSE, approved |-> FALSE, entries |-> {}, content |-> "none"]

Ids(found) == {e.id : e \in found}

Decision(r) == [of |-> r, granted |-> request[r].approved,
                entries |-> Ids(request[r].entries)]

(* What is found of the entries S: in the history with the tags they were
   stored with, in an index with the names of the layers for tags; and the
   values stored under a key. *)
FromHistory(S) == {[id |-> e, tags |-> Tags[e]] : e \in S}
FromIndex(S)   == {[id |-> e, tags |-> layers] : e \in S, layers \in Layers}
FromKeys       == {[id |-> k, tags |-> {"kv"}] : k \in Keys}

Findable(S) == FromHistory(S) \cup FromIndex(S) \cup FromKeys
Findings    == Findable(Entries)

BrokerTypeOK ==
  /\ enabled \in BOOLEAN
  /\ request \in [Requests ->
       [at : Places, scope : Scopes \cup {{}}, candidates : SUBSET Findings,
        allowedScope : Scopes \cup {{}}, redact : BOOLEAN, approved : BOOLEAN,
        entries : SUBSET Findings, content : Contents]]
  /\ audit \subseteq
       [of : Requests, granted : BOOLEAN, entries : SUBSET (Entries \cup Keys)]

BrokerInit ==
  /\ enabled \in BOOLEAN
  /\ request = [r \in Requests |-> Idle]
  /\ audit = {}

-----------------------------------------------------------------------------
InScope(entries, scope) ==
  IF scope = {} THEN entries
  ELSE {e \in entries : e.id \in scope \/ e.tags \cap scope # {}}

(* Mutant: one entry too many. *)
AtMostOff(entries, k) ==
  {S \in SUBSET entries :
     Cardinality(S) = IF Cardinality(entries) <= k THEN Cardinality(entries) ELSE k + 1}

(* A slice of at most k entries: the list's order is not modelled. *)
AtMost(entries, k) ==
  {S \in SUBSET entries :
     Cardinality(S) = IF Cardinality(entries) < k THEN Cardinality(entries) ELSE k}

Become(r, new) ==
  /\ request' = [request EXCEPT ![r] = new]
  /\ UNCHANGED enabled

-----------------------------------------------------------------------------
(* Mutant: the switch is not looked at. *)
ApplyUngated(r, scope) ==
  /\ request[r].at = "none"
  /\ Become(r, [Idle EXCEPT !.at = "gather", !.scope = scope])
  /\ UNCHANGED audit

(* request(): the switch is read once, before the first await. *)
Apply(r, scope) ==
  /\ request[r].at = "none"
  /\ Become(r, [Idle EXCEPT !.at = IF enabled THEN "gather" ELSE "record",
                            !.scope = scope])
  /\ UNCHANGED audit

(* _gather and the requester's own scope.  Recall finds at most 2k, the value
   the query names as a key and hits of the indexes, of entries forgotten since
   too; recency at most 2k of the history.  Either may raise and find none, and
   an id found twice is the one recall found.  With no candidate A1 is not
   asked. *)
Gather(r) ==
  /\ request[r].at = "gather"
  /\ \E recalled \in SUBSET (FromIndex(stored) \cup FromKeys),
        recent \in SUBSET FromHistory(mom1) :
       LET found == recalled \cup recent
           candidates == InScope(found, request[r].scope) IN
       /\ Cardinality(recalled) <= 2 * MaxEntries
       /\ Cardinality(recalled \cap FromKeys) <= 1
       /\ Cardinality(recent) <= 2 * MaxEntries
       /\ \A e, f \in found : e.id = f.id => e = f
       /\ Become(r, [request[r] EXCEPT
                       !.at = IF candidates = {} THEN "record" ELSE "adjudicate",
                       !.candidates = candidates])
  /\ UNCHANGED audit

(* A1 approves, with a scope of its own; the slice of max_entries follows, and
   nobody reads the candidates again. *)
Approve(r) ==
  /\ request[r].at = "adjudicate"
  /\ \E scope \in Scopes \cup {{}}, redact \in BOOLEAN :
       \E entries \in AtMost(InScope(request[r].candidates, scope), MaxEntries) :
          LET new == [request[r] EXCEPT !.approved = TRUE, !.allowedScope = scope,
                                        !.redact = redact, !.entries = entries,
                                        !.candidates = {}]
          IN  IF entries = {}
              THEN Become(r, [new EXCEPT !.at = "record"])
              ELSE IF A4Present
              THEN Become(r, [new EXCEPT !.at = "mediate"])
              ELSE Become(r, [new EXCEPT !.at = "record",
                                !.content = IF redact THEN "metadata" ELSE "preview"])
  /\ UNCHANGED audit

(* A1 denies, or its verdict cannot be read. *)
Deny(r) ==
  /\ request[r].at = "adjudicate"
  /\ Become(r, [request[r] EXCEPT !.at = "record", !.candidates = {}])
  /\ UNCHANGED audit

(* The call to A1 fails: none of the exceptions _adjudicate catches, so the
   request raises, and nothing is recorded. *)
AdjudicatorFails(r) ==
  /\ request[r].at = "adjudicate"
  /\ Become(r, [request[r] EXCEPT !.at = "raised", !.candidates = {}])
  /\ UNCHANGED audit

(* A4 answers, or fails and the mechanical view takes its place. *)
Mediate(r) ==
  /\ request[r].at = "mediate"
  /\ \E content \in {"a4", IF request[r].redact THEN "metadata" ELSE "preview"} :
       Become(r, [request[r] EXCEPT !.at = "record", !.content = content])
  /\ UNCHANGED audit

(* Mutant: every decision is written down as a grant. *)
RecordGrant(r) ==
  /\ request[r].at = "record"
  /\ Become(r, [request[r] EXCEPT
                  !.at = IF request[r].approved THEN "granted" ELSE "denied"])
  /\ audit' = audit \cup {[Decision(r) EXCEPT !.granted = TRUE]}

Record(r) ==
  /\ request[r].at = "record"
  /\ Become(r, [request[r] EXCEPT
                  !.at = IF request[r].approved THEN "granted" ELSE "denied"])
  /\ audit' = audit \cup {Decision(r)}

(* _record swallows the error of an audit area that cannot store. *)
RecordFails(r) ==
  /\ request[r].at = "record"
  /\ Become(r, [request[r] EXCEPT
                  !.at = IF request[r].approved THEN "granted" ELSE "denied"])
  /\ UNCHANGED audit

(* The task that awaits the request is cancelled; an append under way may
   have stored its entry. *)
CancelRequest(r) ==
  /\ request[r].at \in {"gather", "adjudicate", "mediate", "record"}
  /\ Become(r, [request[r] EXCEPT !.at = "cancelled", !.candidates = {}])
  /\ \/ UNCHANGED audit
     \/ request[r].at = "record" /\ audit' = audit \cup {Decision(r)}

(* configure_4d(mom1_access_enabled=...) while requests are in flight. *)
SetEnabled(on) ==
  /\ enabled # on
  /\ enabled' = on
  /\ UNCHANGED <<request, audit>>

Ended(r) == request[r].at \in {"granted", "denied", "raised", "cancelled"}

Deliberate(r) ==
  \/ Gather(r) \/ Approve(r) \/ Deny(r) \/ AdjudicatorFails(r)
  \/ Mediate(r) \/ Record(r)

-----------------------------------------------------------------------------
(* Nobody is given more than both scopes allow: the entries behind a grant
   were found in the requester's scope, are in the scope A1 narrowed it to,
   and are at most max_entries; a grant that demands redaction never falls
   back to previews of the texts; whoever was not approved gets nothing
   (access.py:186-199, 318-326). *)
GrantsAreNarrow ==
  \A r \in Requests :
    LET q == request[r] IN
    /\ q.entries \subseteq InScope(InScope(Findings, q.scope), q.allowedScope)
    /\ Cardinality(q.entries) <= MaxEntries
    /\ q.redact => q.content # "preview"
    /\ ~q.approved => q.entries = {} /\ q.content = "none"

(* The trail tells the truth: what it says of a request is what the request
   decided, and says it once; and it never speaks of a request whose
   adjudication failed (access.py:330-353). *)
TrailIsTrue ==
  /\ \A d \in audit : request[d.of].at \in {"granted", "denied", "cancelled"} /\ d = Decision(d.of)
  /\ \A c, d \in audit : c.of = d.of => c = d

(* The broker is the gate its documentation promises: what is between filing
   a request and settling it shows only when the requester is answered
   (access.py:1-40, 153-204). *)
GateStatus(q) ==
  CASE q.at = "none" -> "unfiled"
    [] q.at \in {"gather", "adjudicate", "mediate"} -> "considered"
    [] q.at = "record" -> IF q.approved THEN "considered" ELSE "refused"
    [] q.at \in {"raised", "cancelled"} -> "dropped"
    [] OTHER -> q.at

Gate == INSTANCE ReadGate WITH
  Entries <- Findings, Scopes <- Scopes \cup {{}}, Within <- InScope,
  Names   <- Ids, Most <- MaxEntries,
  held    <- Findable(stored),
  open    <- enabled,
  status  <- [r \in Requests |-> GateStatus(request[r])],
  scope   <- [r \in Requests |-> request[r].scope],
  given   <- [r \in Requests |->
                IF request[r].at = "granted" THEN request[r].entries ELSE {}],
  trail   <- audit

ImplementsReadGate == Gate!GateSpec

=============================================================================
