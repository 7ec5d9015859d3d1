-------------------------------- MODULE Plugins --------------------------------
(***************************************************************************)
(* What a framework instance knows of capabilities: the plugin registry    *)
(* (src/autumn/plugins/loader.py) and the MCP clients it owns              *)
(* (src/autumn/core/framework.py, _mcp_clients).  State and helpers, used  *)
(* by TerrRegistry and by Server.                                          *)
(***************************************************************************)
EXTENDS Naturals, FiniteSets, SequencesExt

CONSTANTS
  Instances,    \* Autumn objects
  Clients,      \* MCP clients, each with a server process of its own
  Terrs,        \* capability domains
  Names,        \* names of tools and skills
  Nobody,       \* no callable under this name
  Mortal        \* bound: the clients whose server may die on its own

ASSUME PluginsAssumption ==
  /\ Nobody \notin Clients \cup Terrs /\ Clients \cap Terrs = {}
  /\ Mortal \subseteq Clients

VARIABLES
  link,         \* link[c]: "up" while client c has a connected server, "dead"
                \* when that server has died and c has not been disconnected
  owned,        \* owned[i]: _mcp_clients
  registry,     \* registry[i][n]: the client or Terr whose callable n runs
  domain,       \* domain[i][t]: what is recorded of Terr t
  dirTerrs      \* dirTerrs[i]: the Terrs a plugin directory contributed

pluginVars == <<link, owned, registry, domain, dirTerrs>>

(* _terr_enabled.get(name, True): a Terr nobody knows counts as enabled. *)
NoDomain == [there |-> FALSE, enabled |-> TRUE, callables |-> {}, clients |-> {}]

Links == {"down", "up", "dead"}

PluginsTypeOK ==
  /\ link \in [Clients -> Links]
  /\ owned \in [Instances -> SUBSET Clients]
  /\ registry \in [Instances -> [Names -> Clients \cup Terrs \cup {Nobody}]]
  /\ domain \in [Instances -> [Terrs -> [there : BOOLEAN, enabled : BOOLEAN,
                    callables : SUBSET Names, clients : SUBSET Clients]]]
  /\ dirTerrs \in [Instances -> SUBSET Terrs]

PluginsInit ==
  /\ link = [c \in Clients |-> "down"]
  /\ owned = [i \in Instances |-> {}]
  /\ registry = [i \in Instances |-> [n \in Names |-> Nobody]]
  /\ domain = [i \in Instances |-> [t \in Terrs |-> NoDomain]]
  /\ dirTerrs = [i \in Instances |-> {}]

-----------------------------------------------------------------------------
(* register, for each of the names; a name in use is taken over.  With
   Nobody it is unregister. *)
Put(reg, names, who) == [n \in Names |-> IF n \in names THEN who ELSE reg[n]]

Register(i, names, who) == registry' = [registry EXCEPT ![i] = Put(@, names, who)]
Unregister(i, names)    == Register(i, names, Nobody)

(* Mutant: a Terr registered again is switched on. *)
RecordOn(d, callables) ==
  [d EXCEPT !.there = TRUE, !.enabled = TRUE, !.callables = callables]

(* register_terr: setdefault keeps the switch of a Terr that is there. *)
Record(d, callables) ==
  [d EXCEPT !.there = TRUE, !.enabled = IF d.there THEN @ ELSE TRUE,
            !.callables = callables]

(* Mutant: the switch of a Terr that is gone is None. *)
ForgottenAsNone(d) == [NoDomain EXCEPT !.clients = d.clients, !.enabled = Nobody]

(* Only the framework's remove_terr forgets the Terr's clients. *)
Forgotten(d) == [NoDomain EXCEPT !.clients = d.clients]

Up(c) == link' = [link EXCEPT ![c] = "up"]

(* Client c has a session that nobody has ended by disconnect(). *)
Held(c) == link[c] # "down"

(* A server dies on its own.  Its client keeps the session, and nobody is told
   (mcp_stdio.py:44-49: without reconnect attempts it "stays dead"). *)
Dies(c) == c \in Mortal /\ link[c] = "up" /\ link' = [link EXCEPT ![c] = "dead"]

=============================================================================
