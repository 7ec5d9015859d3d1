-------------------------------- MODULE Server --------------------------------
(***************************************************************************)
(* The HTTP server (src/autumn/server/app.py, integrations.py): framework  *)
(* instances replaced by /config/apply under apply_lock, MCP integrations  *)
(* and the code-graph layer under integration_lock.  A request captures    *)
(* the current instance when it arrives.                                   *)
(***************************************************************************)
EXTENDS Plugins

CONSTANTS
  Reqs,         \* tasks that serve requests
  Main,         \* the task of the lifespan: startup and shutdown
  Ids,          \* integrations
  Reads, Writes,\* Reads[id], Writes[id]: names of its tools, by what they do
  Graph,        \* the name of the code-graph layer's tool
  GraphClients, \* the clients of that layer
  Repos,        \* directories it may index
  EnvRepo,      \* the one the environment enables it for, or Nobody
  Kinds,        \* the requests made
  MaxRequests   \* bound: requests in a behaviour

ASSUME ServerAssumption ==
  /\ Instances = 1..Cardinality(Instances) /\ Cardinality(Instances) \in Nat \ {0}
  /\ MaxRequests \in Nat /\ IsFiniteSet(Reqs) /\ Main \notin Reqs
  /\ Nobody \notin Reqs \cup {Main} \cup Repos /\ EnvRepo \in Repos \cup {Nobody}
  /\ Ids \subseteq Terrs /\ GraphClients \subseteq Clients /\ Graph \in Names
  /\ Kinds \subseteq {"apply", "connect", "disconnect", "graph"}
  /\ \A id \in Ids : /\ Reads[id] \subseteq Names /\ Writes[id] \subseteq Names
                      /\ Reads[id] \cap Writes[id] = {}

(* Two servers offer a tool of this name: the registration of one takes over
   that of the other, with a warning at most, and whoever goes first takes the
   name along (loader.py:24-36; mcp_bridge.py:94-97 keeps names as they are). *)
Shared(n) ==
  \E id \in Ids : /\ n \in Reads[id] \cup Writes[id]
                 /\ \/ n = Graph
                    \/ \E other \in Ids \ {id} : n \in Reads[other] \cup Writes[other]

VARIABLES
  current,      \* app.state.autumn; 0 is None
  built,        \* instances built so far
  applyLock, integrationLock,   \* who holds them
  saved,        \* integrations and integration_write: the mode id is saved with
  runtime,      \* integration_runtime: id's handle
  graph,        \* graph[i]: _codebase_client and the repo of codebase
  job,          \* job[r]: what task r serves, and its local variables
  left,         \* requests that may still arrive
  serving,      \* "boot", "open", "down"
  overlapped,   \* an integration was worked on while an apply replaced instances
  unlisted      \* listing the code-graph tools has failed on a connected client

vars == <<current, built, applyLock, integrationLock, saved, runtime, graph,
          job, left, serving, overlapped, unlisted, pluginVars>>

locks == <<applyLock, integrationLock>>
app   == <<current, built, saved, runtime, graph>>
ghosts == <<left, serving, unlisted>>

NoHandle == [client |-> Nobody, write |-> FALSE]
NoGraph  == [client |-> Nobody, repo |-> Nobody]
Free == [kind |-> "none", at |-> "free", inst |-> 0, id |-> Nobody, write |-> FALSE,
         client |-> Nobody, todo |-> {}, new |-> [id \in Ids |-> NoHandle]]

Places == {"free", "apply", "flush", "close", "again", "lock", "drop", "link", "list",
           "undo", "stop", "glink", "glist"}
Targets  == Ids \cup Repos \cup {Nobody}
SomeInst == Instances \cup {0}
Someone  == Clients \cup {Nobody}
Handles  == [client : Someone, write : BOOLEAN]
JobRecord ==
  [kind : {"none", "boot", "apply", "connect", "disconnect", "graph", "shutdown"},
   at : Places, inst : SomeInst, id : Targets, write : BOOLEAN, client : Someone,
   todo : SUBSET (Clients \cup Ids), new : [Ids -> Handles]]

Tasks  == Reqs \cup {Main}
Modes  == {"none", "read", "write"}

(* Mutant: no mode is saved for reading. *)
ModeRaw(w) == IF w THEN "write" ELSE Nobody

Mode(w) == IF w THEN "write" ELSE "read"
Names_(id, write) == Reads[id] \cup IF write THEN Writes[id] ELSE {}

TypeOK ==
  /\ PluginsTypeOK
  /\ current \in 0..built /\ built \in 0..Cardinality(Instances)
  /\ applyLock \in Tasks \cup {Nobody} /\ integrationLock \in Tasks \cup {Nobody}
  /\ saved \in [Ids -> Modes]
  /\ runtime \in [Ids -> Handles]
  /\ graph \in [Instances -> [client : Someone, repo : Repos \cup {Nobody}]]
  /\ job \in [Tasks -> JobRecord]
  /\ left \in 0..MaxRequests /\ serving \in {"boot", "open", "down"}
  /\ overlapped \in BOOLEAN /\ unlisted \in BOOLEAN

Init ==
  /\ PluginsInit
  /\ current \in {0, 1} /\ built = current
  /\ applyLock = Nobody /\ integrationLock = Nobody
  /\ saved = [id \in Ids |-> "none"] /\ runtime = [id \in Ids |-> NoHandle]
  /\ graph = [i \in Instances |-> NoGraph]
  /\ job = [r \in Tasks |-> IF r = Main /\ current = 1 /\ EnvRepo # Nobody
                            THEN [Free EXCEPT !.kind = "boot", !.at = "lock", !.inst = 1,
                                              !.id = EnvRepo]
                            ELSE Free]
  /\ left = MaxRequests /\ serving = "boot"
  /\ overlapped = FALSE /\ unlisted = FALSE

-----------------------------------------------------------------------------
Go(r, new) == job' = [job EXCEPT ![r] = new]
At(r, st)  == Go(r, [job[r] EXCEPT !.at = st])

(* A client object nobody refers to stands for one that is made anew. *)
Unused(c) ==
  /\ link[c] = "down"
  /\ \A r \in Tasks : /\ job[r].client # c /\ c \notin job[r].todo
                      /\ \A id \in Ids : job[r].new[id].client # c
  /\ \A id \in Ids : runtime[id].client # c
  /\ \A i \in Instances : c \notin owned[i] /\ graph[i].client # c

Fresh(cs) == CHOOSE c \in cs : Unused(c)

Own(i, c)    == owned' = [owned EXCEPT ![i] = @ \cup {c}]
Disown(i, c) == owned' = [owned EXCEPT ![i] = @ \ {c}]
Down(c)      == link' = [link EXCEPT ![c] = "down"]

(* An apply is between the swap and the end of _reapply_integrations. *)
Replacing ==
  \E r \in Tasks : job[r].kind = "apply" /\
    job[r].at \in {"flush", "close", "again", "link", "list", "undo"}

(* Request r works inside integration_lock. *)
Working(r) == job[r].kind \in {"connect", "disconnect", "graph"} /\ integrationLock = r

(* ... on an instance that is being, or has been, replaced. *)
Overlap == \E r \in Tasks : Working(r) /\ (Replacing \/ job[r].inst # current)

(* ... or has nothing to disconnect there, and only forgets what is saved. *)
Forgets(r) == job[r].kind = "disconnect" /\ job[r].at = "lock" /\ job'[r].at = "free"

Notes ==
  overlapped' = (\/ overlapped \/ Overlap'
                 \/ Replacing /\ \E r \in Tasks : Forgets(r))

-----------------------------------------------------------------------------
(* A request arrives; _autumn_or_503. *)
Arrives(r, kind) ==
  /\ serving = "open" /\ job[r].at = "free" /\ kind \in Kinds
  /\ left > 0 /\ left' = left - 1
  /\ kind # "apply" => current # 0
  /\ UNCHANGED <<app, locks, pluginVars, serving, unlisted>>

Request(r, kind, st) == [Free EXCEPT !.kind = kind, !.at = st, !.inst = current]

CallApply(r) ==
  /\ Arrives(r, "apply") /\ Go(r, Request(r, "apply", "apply"))
  /\ built + Cardinality({k \in Reqs : job[k].at = "apply"}) < Cardinality(Instances)
CallConnect(r, id, write) ==
  /\ Arrives(r, "connect")
  /\ Go(r, [Request(r, "connect", "lock") EXCEPT !.id = id, !.write = write])
CallDisconnect(r, id) ==
  Arrives(r, "disconnect") /\ Go(r, [Request(r, "disconnect", "lock") EXCEPT !.id = id])
CallGraph(r, repo) ==
  Arrives(r, "graph") /\ Go(r, [Request(r, "graph", "lock") EXCEPT !.id = repo])

Return(r) == Go(r, Free)

-----------------------------------------------------------------------------
(* /config/apply: a new instance takes over at once, then the old is closed:
   its indexing is flushed, then the clients it owns by then are disconnected,
   then the list is cleared. *)
(* Mutant: /config/apply without apply_lock. *)
MayApplyAnytime == TRUE

MayApply == applyLock = Nobody

EnterApply(r) ==
  /\ job[r].at = "apply" /\ MayApply
  /\ applyLock' = r /\ current' = built + 1 /\ built' = built + 1
  /\ Go(r, [job[r] EXCEPT !.at = IF current = 0 THEN "again" ELSE "flush",
                          !.inst = IF current = 0 THEN built + 1 ELSE current,
                          !.todo = IF current = 0 THEN {id \in Ids : saved[id] # "none"} ELSE {}])
  /\ UNCHANGED <<integrationLock, saved, runtime, graph, pluginVars, ghosts>>

Flushed(r) ==
  /\ job[r].at = "flush"
  /\ Go(r, [job[r] EXCEPT !.at = "close", !.todo = owned[job[r].inst]])
  /\ UNCHANGED <<app, locks, pluginVars, ghosts>>

CloseOne(r) ==
  /\ job[r].at = "close"
  /\ IF job[r].todo # {}
     THEN \E c \in job[r].todo :
            Down(c) /\ Go(r, [job[r] EXCEPT !.todo = @ \ {c}]) /\ UNCHANGED owned
     ELSE /\ owned' = [owned EXCEPT ![job[r].inst] = {}]
          /\ Go(r, IF job[r].kind = "shutdown" THEN Free
                   ELSE [job[r] EXCEPT !.at = "again", !.inst = current,
                                       !.todo = {id \in Ids : saved[id] # "none"}])
          /\ UNCHANGED link
  /\ UNCHANGED <<app, locks, registry, domain, dirTerrs, ghosts>>

(* _reapply_integrations: the saved ones of its beginning, one after the
   other, in the mode saved by then. *)
ReapplyOne(r, id) ==
  /\ job[r].at = "again" /\ id \in job[r].todo
  /\ Go(r, [job[r] EXCEPT !.at = "link", !.id = id, !.write = saved[id] = "write",
                          !.todo = @ \ {id}])
  /\ UNCHANGED <<app, locks, pluginVars, ghosts>>

(* Mutant: the runtime map is not rebuilt. *)
RebuiltKept(r) == runtime

Rebuilt(r) == job[r].new

Reapplied(r) ==
  /\ job[r].at = "again" /\ job[r].todo = {}
  /\ runtime' = Rebuilt(r)
  /\ IF EnvRepo = Nobody
     THEN applyLock' = Nobody /\ Return(r)
     ELSE Go(r, [job[r] EXCEPT !.at = "lock", !.id = EnvRepo]) /\ UNCHANGED applyLock
  /\ UNCHANGED <<integrationLock, current, built, saved, graph, pluginVars, ghosts>>

-----------------------------------------------------------------------------
(* integrations.connect, for a request or for _reapply_integrations.  Only
   with the tools in hand does the framework come to know of the client. *)
Linked(r) ==
  /\ job[r].at = "link"
  /\ \E c \in Clients \ GraphClients :
       /\ Unused(c) /\ c = Fresh(Clients \ GraphClients)
       /\ Up(c) /\ Go(r, [job[r] EXCEPT !.at = "list", !.client = c])
  /\ UNCHANGED <<app, locks, owned, registry, domain, dirTerrs, ghosts>>

(* Mutant: an error keeps integration_lock. *)
NotConnectedLocked(r) ==
  /\ IF job[r].kind = "apply" THEN Go(r, [job[r] EXCEPT !.at = "again"]) ELSE Return(r)
  /\ UNCHANGED locks

(* The connection failed: an error for the request; the apply goes on. *)
NotConnected(r) ==
  IF job[r].kind = "apply"
  THEN Go(r, [job[r] EXCEPT !.at = "again", !.client = Nobody]) /\ UNCHANGED locks
  ELSE Return(r) /\ integrationLock' = Nobody /\ UNCHANGED applyLock

LinkFails(r) ==
  /\ job[r].at = "link" /\ NotConnected(r)
  /\ UNCHANGED <<app, pluginVars, ghosts>>

Listed(r) ==
  /\ job[r].at = "list" /\ link[job[r].client] = "up"
  /\ LET i == job[r].inst  id == job[r].id  w == job[r].write  c == job[r].client IN
     /\ Register(i, Names_(id, w), c)
     /\ domain' = [domain EXCEPT ![i][id] = Record(@, Names_(id, w))]
     /\ Own(i, c)
     /\ IF job[r].kind = "apply"
        THEN /\ Go(r, [job[r] EXCEPT !.at = "again", !.client = Nobody,
                                     !.new[id] = [client |-> c, write |-> w]])
             /\ UNCHANGED <<app, locks>>
        ELSE /\ runtime' = [runtime EXCEPT ![id] = [client |-> c, write |-> w]]
             /\ saved' = [saved EXCEPT ![id] = Mode(w)]
             /\ integrationLock' = Nobody /\ Return(r)
             /\ UNCHANGED <<applyLock, current, built, graph>>
  /\ UNCHANGED <<link, dirTerrs, ghosts>>

(* Listing fails: the client is disconnected, then the connection has failed. *)
ListFails(r) ==
  /\ job[r].at = "list" /\ At(r, "undo")
  /\ UNCHANGED <<app, locks, pluginVars, ghosts>>

Undone(r) ==
  /\ job[r].at = "undo" /\ Down(job[r].client) /\ NotConnected(r)
  /\ UNCHANGED <<app, owned, registry, domain, dirTerrs, ghosts>>

-----------------------------------------------------------------------------
(* Mutant: reconnecting leaves the tools of the old session. *)
ForgetClient(i, id, handle) ==
  /\ UNCHANGED <<registry, domain>>
  /\ Disown(i, handle.client)

(* integrations.disconnect of a handle: what names it had is unregistered on
   the captured instance, then its client is disconnected. *)
Forget(i, id, handle) ==
  /\ Unregister(i, Names_(id, handle.write))
  /\ domain' = [domain EXCEPT ![i][id] = Forgotten(@)]
  /\ Disown(i, handle.client)

(* integration_lock is taken for a connection or a disconnection: the handle
   leaves the runtime map first. *)
EnterIntegration(r) ==
  /\ job[r].at = "lock" /\ job[r].kind \in {"connect", "disconnect"}
  /\ integrationLock = Nobody
  /\ LET id == job[r].id  handle == runtime[job[r].id] IN
     /\ runtime' = [runtime EXCEPT ![id] = NoHandle]
     /\ IF handle # NoHandle
        THEN /\ Forget(job[r].inst, id, handle)
             /\ Go(r, [job[r] EXCEPT !.at = "drop", !.client = handle.client])
             /\ integrationLock' = r /\ UNCHANGED saved
        ELSE /\ UNCHANGED <<owned, registry, domain>>
             /\ IF job[r].kind = "connect"
                THEN At(r, "link") /\ integrationLock' = r /\ UNCHANGED saved
                ELSE Return(r) /\ saved' = [saved EXCEPT ![id] = "none"] /\ UNCHANGED integrationLock
  /\ UNCHANGED <<applyLock, current, built, graph, link, dirTerrs, ghosts>>

Dropped(r) ==
  /\ job[r].at = "drop" /\ Down(job[r].client)
  /\ IF job[r].kind = "connect"
     THEN Go(r, [job[r] EXCEPT !.at = "link", !.client = Nobody]) /\ UNCHANGED <<saved, integrationLock>>
     ELSE /\ saved' = [saved EXCEPT ![job[r].id] = "none"]
          /\ integrationLock' = Nobody /\ Return(r)
  /\ UNCHANGED <<applyLock, current, built, runtime, graph, owned, registry, domain, dirTerrs, ghosts>>

-----------------------------------------------------------------------------
(* The code-graph layer, switched by a request (id is the repo, Nobody for
   off), at startup and after an apply. *)
GraphDone(r) ==
  /\ integrationLock' = Nobody
  /\ IF job[r].kind = "apply" THEN applyLock' = Nobody ELSE UNCHANGED applyLock
  /\ Return(r)

(* Mutant: a start of a layer that runs does not stop it first. *)
MustStopNever(i) == FALSE

MustStop(i) == graph[i].repo # Nobody

EnterGraph(r) ==
  /\ job[r].at = "lock" /\ job[r].kind \in {"graph", "apply", "boot"}
  /\ integrationLock = Nobody
  /\ LET i == job[r].inst  repo == job[r].id IN
     IF graph[i].repo # Nobody /\ graph[i].repo = repo
     THEN /\ Return(r)
          /\ applyLock' = IF job[r].kind = "apply" THEN Nobody ELSE applyLock
          /\ UNCHANGED <<integrationLock, graph, owned, registry, domain>>
     ELSE /\ integrationLock' = r /\ UNCHANGED applyLock
          /\ IF repo = Nobody \/ MustStop(i)
             THEN /\ Unregister(i, {Graph})
                  /\ graph' = [graph EXCEPT ![i] = NoGraph]
                  /\ IF graph[i].client # Nobody THEN Disown(i, graph[i].client) ELSE UNCHANGED owned
                  /\ Go(r, [job[r] EXCEPT !.at = "stop", !.client = graph[i].client])
             ELSE At(r, "glink") /\ UNCHANGED <<graph, owned, registry>>
          /\ UNCHANGED domain
  /\ UNCHANGED <<current, built, saved, runtime, link, dirTerrs, ghosts>>

GraphStopped(r) ==
  /\ job[r].at = "stop"
  /\ IF job[r].client = Nobody THEN UNCHANGED link ELSE Down(job[r].client)
  /\ IF job[r].id = Nobody THEN GraphDone(r)
     ELSE Go(r, [job[r] EXCEPT !.at = "glink", !.client = Nobody]) /\ UNCHANGED locks
  /\ UNCHANGED <<app, owned, registry, domain, dirTerrs, ghosts>>

GraphLinked(r) ==
  /\ job[r].at = "glink"
  /\ \E c \in GraphClients :
       /\ Unused(c) /\ c = Fresh(GraphClients)
       /\ Up(c) /\ Own(job[r].inst, c)
       /\ graph' = [graph EXCEPT ![job[r].inst].client = c]
  /\ At(r, "glist")
  /\ UNCHANGED <<current, built, saved, runtime, locks, registry, domain, dirTerrs, ghosts>>

GraphListed(r) ==
  /\ job[r].at = "glist" /\ link[graph[job[r].inst].client] = "up"
  /\ Register(job[r].inst, {Graph}, graph[job[r].inst].client)
  /\ graph' = [graph EXCEPT ![job[r].inst].repo = job[r].id]
  /\ GraphDone(r)
  /\ UNCHANGED <<current, built, saved, runtime, link, owned, domain, dirTerrs, ghosts>>

(* Whatever step of the start fails, the client stays as it is. *)
GraphFails(r) ==
  /\ job[r].at \in {"glink", "glist"} /\ GraphDone(r)
  /\ unlisted' = (unlisted \/ job[r].at = "glist")
  /\ UNCHANGED <<app, pluginVars, left, serving>>

-----------------------------------------------------------------------------
Booted ==
  /\ serving = "boot" /\ job[Main].at = "free" /\ serving' = "open"
  /\ UNCHANGED <<app, locks, job, pluginVars, left, unlisted>>

Shutdown ==
  /\ serving = "open" /\ \A r \in Tasks : job[r].at = "free"
  /\ serving' = "down"
  /\ Go(Main, IF current = 0 THEN Free
              ELSE [Free EXCEPT !.kind = "shutdown", !.at = "flush", !.inst = current])
  /\ UNCHANGED <<app, locks, pluginVars, left, unlisted>>

ServerDies(c) ==
  /\ Dies(c)
  /\ UNCHANGED <<app, locks, job, owned, registry, domain, dirTerrs, ghosts>>

Progress(r) ==
  \/ EnterApply(r) \/ Flushed(r) \/ CloseOne(r) \/ Reapplied(r)
  \/ \E id \in Ids : ReapplyOne(r, id)
  \/ Linked(r) \/ LinkFails(r) \/ Listed(r) \/ ListFails(r) \/ Undone(r)
  \/ EnterIntegration(r) \/ Dropped(r)
  \/ EnterGraph(r) \/ GraphStopped(r) \/ GraphLinked(r) \/ GraphListed(r) \/ GraphFails(r)

Arrival(r) ==
  \/ CallApply(r)
  \/ \E id \in Ids : CallDisconnect(r, id)
  \/ \E id \in Ids, write \in BOOLEAN : CallConnect(r, id, write)
  \/ \E repo \in Repos \cup {Nobody} : CallGraph(r, repo)

Next ==
  /\ \/ \E r \in Reqs : Arrival(r)
     \/ \E r \in Tasks : Progress(r)
     \/ Booted \/ Shutdown
     \/ \E c \in Clients : ServerDies(c)
  /\ Notes

(* Connections, listings and model calls end: they have timeouts, but for the
   wait for a server to read what it is sent, which is assumed to end.  A lock
   is handed on. *)
Spec == /\ Init /\ [][Next]_vars
        /\ \A r \in Tasks : WF_vars(Progress(r) /\ Notes)

-----------------------------------------------------------------------------
(* What the client is shown of an integration and of the code-graph layer. *)
Status(id) == [connected |-> runtime[id] # NoHandle,
               tools |-> IF runtime[id] = NoHandle THEN {} ELSE Names_(id, runtime[id].write)]
GraphStatus(i) == [connected |-> graph[i].repo # Nobody,
                   tools |-> IF graph[i].repo = Nobody THEN {} ELSE {Graph}]

(* Client c has been connected and not disconnected, it is the current
   instance's, and it is behind the tools nobody else offers. *)
InUse(c, tools) ==
  /\ Held(c) /\ c \in owned[current]
  /\ \A n \in tools : registry[current][n] = c \/ Shared(n)

(* No server process without an owner: a client that is connected belongs to
   the current instance, to one that is being closed, or to a task at work on
   it (app.py:677-681, "can't leak"; integrations.py:204). *)
ClientsAreOwned ==
  ~overlapped => \A c \in Clients : Held(c) =>
    \/ current # 0 /\ c \in owned[current]
    \/ \E r \in Tasks : \/ job[r].client = c \/ c \in job[r].todo
                        \/ job[r].at = "flush" /\ c \in owned[job[r].inst]

Settled == ~overlapped /\ ~Replacing /\ serving # "down" /\ current # 0

(* What the status reports as connected is a connection of the current instance
   that nobody has ended, with its tools.  Its server may have died meanwhile:
   the status asks for the handle (app.py:702-722, 725-785). *)
ShownIsInUse ==
  Settled =>
    /\ \A id \in Ids : Status(id).connected => InUse(runtime[id].client, Status(id).tools)
    /\ GraphStatus(current).connected => InUse(graph[current].client, GraphStatus(current).tools)

(* No connection goes on behind the user's back: with nobody at work on the
   integrations, each connection of the current instance is one the status
   shows, unless listing the tools of the code graph has failed. *)
ConnectedIsShown ==
  Settled /\ ~unlisted /\ integrationLock = Nobody =>
    \A c \in owned[current] : Held(c) =>
      \/ \E id \in Ids : Status(id).connected /\ runtime[id].client = c
      \/ GraphStatus(current).connected /\ graph[current].client = c

(* A turn of the current instance can reach an integration's mutating tools
   only while the user's grant stands (integrations.py:165-172). *)
WritesAreGranted ==
  ~overlapped /\ current # 0 =>
    \A id \in Ids : saved[id] # "write" =>
      \A n \in Writes[id] : registry[current][n] = Nobody \/ Shared(n)

(* One code-graph server at a time on an instance, unless listing the tools
   of one has failed (framework.py:1189-1236). *)
OneGraph ==
  ~unlisted =>
    \A i \in Instances : Cardinality({c \in GraphClients \cap owned[i] : Held(c)}) <= 1

(* What is connected is what the status shows, and once. *)
RunningIsShown == TypeOK /\ ShownIsInUse /\ ConnectedIsShown /\ OneGraph

(* Every request is answered: apply_lock and integration_lock, taken in this
   order by an apply, block nobody for ever. *)
RequestsEnd == \A r \in Reqs : job[r].at # "free" ~> job[r].at = "free"
=============================================================================
