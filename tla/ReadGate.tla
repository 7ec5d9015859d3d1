------------------------------- MODULE ReadGate -------------------------------
(***************************************************************************)
(* What the channel to the private zone promises, without its protocol     *)
(* (the module docstring of src/autumn/core/memory/access.py): a request   *)
(* is settled once; a grant hands out entries the zone has held, of the    *)
(* scope the request named, and few of them; a request filed while the     *)
(* channel is closed is never granted, though it may be opened before the  *)
(* request is settled; the trail names what was decided, at most once for  *)
(* a request.  What the zone has forgotten may still be handed out: its    *)
(* indexes keep it.                                                        *)
(***************************************************************************)
EXTENDS Naturals, FiniteSets

CONSTANTS
  Requests,       \* the requests that may be filed
  Entries,        \* the entries the zone can hold, as they are found
  Scopes,         \* the scopes a request may name
  Within(_, _),   \* the entries of a set that a scope covers
  Names(_),       \* what the trail keeps of a set of entries
  Most            \* how many entries a grant may hand out

VARIABLES
  held,     \* the entries the private zone holds or has held
  open,     \* the switch of the channel
  status,   \* status[r]: how far request r is
  scope,    \* scope[r]: what it asks for
  given,    \* given[r]: the entries its requester was given
  trail     \* the decisions written down

gateVars == <<held, open, status, scope, given, trail>>

Filed   == {"considered", "refused"}
Settled == {"granted", "denied", "dropped"}

Told(r, granted, entries) == [of |-> r, granted |-> granted, entries |-> Names(entries)]

Handout(r) == {S \in SUBSET Within(held, scope[r]) : Cardinality(S) <= Most}

GateInit ==
  /\ held \subseteq Entries
  /\ open \in BOOLEAN
  /\ status = [r \in Requests |-> "unfiled"]
  /\ scope \in [Requests -> Scopes]
  /\ given = [r \in Requests |-> {}]
  /\ trail = {}

-----------------------------------------------------------------------------
File(r) ==
  /\ status[r] = "unfiled"
  /\ status' = [status EXCEPT ![r] = IF open THEN "considered" ELSE "refused"]
  /\ \E s \in Scopes : scope' = [scope EXCEPT ![r] = s]
  /\ UNCHANGED <<held, open, given, trail>>

Refuse(r) ==
  /\ status[r] = "considered"
  /\ status' = [status EXCEPT ![r] = "refused"]
  /\ UNCHANGED <<held, open, scope, given, trail>>

(* The zone that keeps the trail may fail. *)
WriteDown(decision) == trail' \in {trail, trail \cup {decision}}

Grant(r) ==
  /\ status[r] = "considered"
  /\ status' = [status EXCEPT ![r] = "granted"]
  /\ \E entries \in Handout(r) :
       /\ given' = [given EXCEPT ![r] = entries]
       /\ WriteDown(Told(r, TRUE, entries))
  /\ UNCHANGED <<held, open, scope>>

Deny(r) ==
  /\ status[r] = "refused"
  /\ status' = [status EXCEPT ![r] = "denied"]
  /\ WriteDown(Told(r, FALSE, {}))
  /\ UNCHANGED <<held, open, scope, given>>

(* The requester is gone, or an error takes its place; what was decided may
   have been written down. *)
Drop(r) ==
  /\ status[r] \in Filed
  /\ status' = [status EXCEPT ![r] = "dropped"]
  /\ \/ UNCHANGED trail
     \/ status[r] = "refused" /\ WriteDown(Told(r, FALSE, {}))
     \/ status[r] = "considered"
          /\ \E entries \in Handout(r) : WriteDown(Told(r, TRUE, entries))
  /\ UNCHANGED <<held, open, scope, given>>

Switch == open' = ~open /\ UNCHANGED <<held, status, scope, given, trail>>

(* The zone learns; what it forgets it has held. *)
Learn ==
  /\ held \subseteq held' /\ held' \subseteq Entries
  /\ UNCHANGED <<open, status, scope, given, trail>>

GateNext ==
  \/ \E r \in Requests : File(r) \/ Refuse(r) \/ Grant(r) \/ Deny(r) \/ Drop(r)
  \/ Switch
  \/ Learn

GateSafe == GateInit /\ [][GateNext]_gateVars

(* Every request filed is settled. *)
EveryRequestSettled ==
  \A r \in Requests : status[r] \in Filed ~> status[r] \in Settled

GateSpec == GateSafe /\ EveryRequestSettled

=============================================================================
