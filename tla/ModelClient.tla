------------------------------ MODULE ModelClient ------------------------------
(***************************************************************************)
(* The HTTP side of a model slot (src/autumn/core/api/base.py): a client   *)
(* made on first use and closed with the instance, and calls that are      *)
(* tried again after throttling, server and network errors.                *)
(***************************************************************************)
EXTENDS Naturals

CONSTANTS
  Callers,      \* tasks that call the model
  Tries,        \* 1 + len(_RETRY_DELAYS)
  MaxClients    \* bound: clients ever made

VARIABLES
  http,         \* _client: the number of the client in use; 0 is None
  made,         \* clients made so far
  open,         \* clients whose connections are not closed
  closing,      \* the client close() is waiting for; 0 is none
  req           \* req[c]: the call of c

hvars == <<http, made, open, closing, req>>

ASSUME ClientAssumption == Tries \in Nat \ {0} /\ MaxClients \in Nat \ {0}

(* by: the client the call took when it began. *)
NoCall == [at |-> "none", tries |-> 0, by |-> 0]

ClientTypeOK ==
  /\ http \in 0..MaxClients /\ made \in 0..MaxClients
  /\ open \subseteq 1..made /\ closing \in 0..made
  /\ req \in [Callers -> [at : {"none", "post", "sleep", "ok", "failed"},
                          tries : 0..Tries, by : 0..MaxClients]]

ClientInit ==
  /\ http = 0 /\ made = 0 /\ open = {} /\ closing = 0
  /\ req = [c \in Callers |-> NoCall]

(* _get_client and the first attempt. *)
Complete(c) ==
  /\ http # 0 \/ made < MaxClients
  /\ IF http # 0 THEN UNCHANGED <<http, made, open>>
     ELSE http' = made + 1 /\ made' = made + 1 /\ open' = open \cup {made + 1}
  /\ req' = [req EXCEPT ![c] = [at |-> "post", tries |-> 1, by |-> http']]
  /\ UNCHANGED closing

Set(c, what) == req' = [req EXCEPT ![c].at = what] /\ UNCHANGED <<http, made, open, closing>>

(* Mutant: one delay too many is taken from the list. *)
SpentLate(c) == req[c].tries > Tries

(* There is no delay left. *)
Spent(c) == req[c].tries = Tries

(* An answer; or an error that cannot go away, a client that was closed
   among them; or one that can, which the last attempt raises. *)
Posted(c) ==
  /\ req[c].at = "post"
  /\ \/ req[c].by \in open /\ Set(c, "ok")
     \/ Set(c, "failed")
     \/ req[c].by \in open /\ ~Spent(c) /\ Set(c, "sleep")

(* The delay is over: the same client is used again. *)
Again(c) ==
  /\ req[c].at = "sleep"
  /\ req' = [req EXCEPT ![c].at = "post", ![c].tries = @ + 1]
  /\ UNCHANGED <<http, made, open, closing>>

(* close: the connections go first, and the client is forgotten after. *)
Close ==
  /\ closing = 0 /\ http # 0
  /\ open' = open \ {http} /\ closing' = http
  /\ UNCHANGED <<http, made, req>>

(* Mutant: the client is kept. *)
ForgottenNever == http

(* close returns from aclose. *)
ForgottenClient == 0

Closed ==
  /\ closing # 0
  /\ http' = ForgottenClient /\ closing' = 0
  /\ UNCHANGED <<made, open, req>>

Serve(c) == Posted(c) \/ Again(c)

-----------------------------------------------------------------------------
(* Once close has returned no connection is left behind, and none that was
   closed is used for a new call (base.py:325-328, framework.py:1290-1297). *)
ClientIsOpen == closing = 0 => open = IF http = 0 THEN {} ELSE {http}
=============================================================================
