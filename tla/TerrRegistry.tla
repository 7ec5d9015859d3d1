----------------------------- MODULE TerrRegistry -----------------------------
(***************************************************************************)
(* Capability domains (Terrs) added to and removed from one framework      *)
(* instance at run time (src/autumn/core/framework.py, the plugin API,     *)
(* over src/autumn/plugins/loader.py).  An operation is a job; between its *)
(* steps it awaits an MCP server, and other jobs, turns and switches run.  *)
(* Callers run at most one operation at a time on a Terr.                  *)
(***************************************************************************)
EXTENDS Plugins

CONSTANTS
  Jobs,         \* tasks that use the plugin API
  Kinds,        \* the operations they call
  Mcps,         \* Mcps[t]: the sequence of MCP clients of Terr t
  Own,          \* Own[t]: the names of its direct tools and skills
  Serves,       \* Serves[c]: the names client c's server lists
  Faults,       \* "fail" (connect, list), "cancel", "raise" (disconnect)
  MaxJobs,      \* bound: operations in a behaviour
  Here          \* the instance

VARIABLES
  job,          \* job[j]: the operation of task j and its local variables
  left,         \* operations that may still be started
  off,          \* the Terrs the user has switched off and not on again
  open,         \* FALSE from close() on
  spoiled       \* what a fault left half-way: Terrs, and clients still up

vars == <<job, left, off, open, spoiled, pluginVars>>

ASSUME RegistryAssumption ==
  /\ Instances = {Here} /\ MaxJobs \in Nat
  /\ \A t \in Terrs : Mcps[t] \in Seq(Clients) /\ Own[t] \subseteq Names
  /\ \A c \in Clients : Serves[c] \subseteq Names

Free == [kind |-> "none", at |-> "free", terr |-> Nobody, todo |-> <<>>,
         names |-> {}, held |-> {}, wasOff |-> FALSE]

ClientsOf(t) == ToSet(Mcps[t])
NamesOf(t)   == Own[t] \cup UNION {Serves[c] : c \in ClientsOf(t)}
Source(w)    == {t \in Terrs : w = t \/ w \in ClientsOf(t)}
Terr(t)      == domain[Here][t]
Tool(n)      == registry[Here][n]

(* A client object belongs to one Terr at most. *)
ASSUME DistinctAssumption ==
  \A t, u \in Terrs : t # u => ClientsOf(t) \cap ClientsOf(u) = {}

(* Somebody else offers a callable of this name too: a registration takes over
   a name in use, with a warning at most, and whoever goes first takes the
   name along (loader.py:24-36, 87-89). *)
Shared(n) ==
  \/ \E t, u \in Terrs : t # u /\ n \in NamesOf(t) \cap NamesOf(u)
  \/ \E t \in Terrs, c \in Clients :
       n \in Serves[c] /\ (n \in Own[t] \/ (Source(c) = {} /\ n \in NamesOf(t)))

(* _collect_plugins: a callable of a Terr switched off is left out. *)
Collected ==
  {n \in Names : Tool(n) # Nobody /\ \A t \in Source(Tool(n)) : Terr(t).enabled}

TypeOK ==
  /\ PluginsTypeOK
  /\ job \in [Jobs -> [kind : Kinds \cup {"none"},
        at : {"free", "connect", "list", "open", "drain", "rollback", "teardown", "closing"},
        terr : Terrs \cup {Nobody}, todo : Seq(Clients), names : SUBSET Names,
        held : SUBSET Clients, wasOff : BOOLEAN]]
  /\ left \in 0..MaxJobs /\ off \subseteq Terrs
  /\ open \in BOOLEAN /\ spoiled \subseteq Terrs \cup Clients

Init ==
  /\ PluginsInit
  /\ job = [j \in Jobs |-> Free]
  /\ left = MaxJobs /\ off = {} /\ open = TRUE /\ spoiled = {}

-----------------------------------------------------------------------------
Go(j, new)    == job' = [job EXCEPT ![j] = new]
Set(t, new)   == domain' = [domain EXCEPT ![Here][t] = new]
Tools(new)    == registry' = [registry EXCEPT ![Here] = new]
NotFromDir(t) == dirTerrs' = [dirTerrs EXCEPT ![Here] = @ \ {t}]
Working(t)    == \E j \in Jobs : job[j].terr = t

(* The next client a loop over those of t in cs comes to. *)
First(t, cs) == Mcps[t][Min({i \in DOMAIN Mcps[t] : Mcps[t][i] \in cs})]

(* Mutants: the bridged tools are not recorded as the Terr's; a failure
   unregisters all that the Terr has; a loop over clients ends with the first,
   or does not move on. *)
CallablesDirect(kind, t) == Own[t]
UndoneAll(r)    == NamesOf(r.terr)
RestNone(r, c)  == [r EXCEPT !.held = {}]
RestAll(r, c)   == r

(* What register_terr records as the Terr's callables: add_terr passes the
   bridged names, open_terr does not. *)
Callables(kind, t) == IF kind = "open" THEN Own[t] ELSE NamesOf(t)

(* What a failed add_terr unregisters: what it had registered. *)
Undone(r) == r.names

(* The loops over clients to stop, past c. *)
Rest(r, c) == [r EXCEPT !.held = @ \ {c}]

Begin(j, kind) ==
  job[j].at = "free" /\ open /\ kind \in Kinds /\ left > 0 /\ left' = left - 1

BeginOn(j, kind, t) ==
  Begin(j, kind) /\ ~Working(t) /\ t \notin spoiled

(* The synchronous end of add_terr, open_terr and reload_terr, once there is
   no client left to connect; reg is the registry so far. *)
Finish(j, r, reg) ==
  LET t == r.terr
      d == Record(Terr(t), Callables(r.kind, t)) IN
  /\ Tools(Put(reg, Own[t], t))
  /\ IF r.kind = "open"
     THEN Set(t, d) /\ Go(j, [r EXCEPT !.at = "open", !.names = NamesOf(t)])
     ELSE /\ Set(t, [d EXCEPT !.clients = r.held, !.enabled = @ /\ ~r.wasOff])
          /\ Go(j, Free)

(* Connect the next client, or finish. *)
Continue(j, r, reg) ==
  IF r.todo = <<>> THEN Finish(j, r, reg)
  ELSE Tools(reg) /\ Go(j, [r EXCEPT !.at = "connect"]) /\ UNCHANGED domain

Job(kind, t) == [Free EXCEPT !.kind = kind, !.terr = t, !.todo = Mcps[t]]

-----------------------------------------------------------------------------
(* add_terr, also of a Terr the directory loaded without its clients;
   open_terr, of one that is not there. *)
Start(j, kind, t) ==
  /\ kind \in {"add", "open"} /\ BeginOn(j, kind, t)
  /\ Terr(t).there => kind = "add" /\ t \in dirTerrs[Here]
  /\ \A c \in ClientsOf(t) : link[c] = "down"
  /\ Continue(j, Job(kind, t), registry[Here])
  /\ UNCHANGED <<link, owned, dirTerrs, off, open, spoiled>>

(* add_mcp, of a client that is no Terr's. *)
AddMcp(j, c) ==
  /\ Begin(j, "mcp") /\ Source(c) = {} /\ link[c] = "down"
  /\ \A k \in Jobs : job[k].todo # <<c>>
  /\ Go(j, [Free EXCEPT !.kind = "mcp", !.at = "connect", !.todo = <<c>>])
  /\ UNCHANGED <<pluginVars, off, open, spoiled>>

(* A client is owned from the moment it is connected, but for open_terr. *)
Connected(j) ==
  /\ job[j].at = "connect"
  /\ LET r == job[j]  c == Head(r.todo) IN
     /\ Up(c)
     /\ owned' = IF r.kind = "open" THEN owned ELSE [owned EXCEPT ![Here] = @ \cup {c}]
     /\ Go(j, [r EXCEPT !.at = "list", !.held = @ \cup {c}])
  /\ UNCHANGED <<registry, domain, dirTerrs, left, off, open, spoiled>>

Listed(j) ==
  /\ job[j].at = "list" /\ link[Head(job[j].todo)] = "up"
  /\ LET c == Head(job[j].todo)
         r == [job[j] EXCEPT !.todo = Tail(@), !.names = @ \cup Serves[c]]
         reg == Put(registry[Here], Serves[c], c) IN
     IF r.kind = "mcp" THEN Tools(reg) /\ Go(j, Free) /\ UNCHANGED domain
                       ELSE Continue(j, r, reg)
  /\ UNCHANGED <<link, owned, dirTerrs, left, off, open, spoiled>>

(* A reload that does not end well has removed the Terr. *)
GoneOff(r) == IF r.kind = "reload" THEN off \ {r.terr} ELSE off

(* connect or list_tools raises.  add_terr unregisters what it registered and
   rolls its clients back; open_terr goes through its finally clause; add_mcp
   leaves things as they are. *)
Fails(j) ==
  /\ "fail" \in Faults /\ job[j].at \in {"connect", "list"}
  /\ LET r == job[j] IN
     CASE r.kind = "mcp"  -> Go(j, Free) /\ UNCHANGED registry
       [] r.kind = "open" -> Go(j, [r EXCEPT !.at = "drain"]) /\ UNCHANGED registry
       [] OTHER -> /\ Tools(Put(registry[Here], Undone(r), Nobody))
                   /\ Go(j, IF r.held = {} THEN Free ELSE [r EXCEPT !.at = "rollback"])
  /\ off' = GoneOff(job[j])
  /\ UNCHANGED <<link, owned, domain, dirTerrs, left, open, spoiled>>

(* A task that adds or removes a Terr is cancelled: `except Exception' does
   not see it.  Where it awaits a disconnect(), that client is disowned already
   and its server may have ended or not. *)
Cancelled(j) ==
  /\ "cancel" \in Faults /\ Go(j, Free) /\ off' = GoneOff(job[j])
  /\ \/ /\ job[j].at \in {"connect", "list"} /\ job[j].kind \in {"add", "reload"}
        /\ spoiled' = spoiled \cup {job[j].terr}
        /\ UNCHANGED <<link, owned>>
     \/ /\ job[j].at \in {"rollback", "teardown"}
        /\ LET c == First(job[j].terr, job[j].held) IN
           /\ spoiled' = spoiled \cup {job[j].terr, c}
           /\ owned' = [owned EXCEPT ![Here] = @ \ {c}]
           /\ \E ended \in BOOLEAN :
                link' = [link EXCEPT ![c] = IF ended THEN "down" ELSE @]
  /\ UNCHANGED <<registry, domain, dirTerrs, left, open>>

-----------------------------------------------------------------------------
(* disconnect() of c ends; it may raise and leave the server up. *)
Disconnected(c, raises) ==
  /\ raises => "raise" \in Faults
  /\ link' = [link EXCEPT ![c] = IF raises THEN @ ELSE "down"]
  /\ spoiled' = IF raises THEN spoiled \cup {c} ELSE spoiled

(* One client of a rollback or a removal: disowned, then disconnected.  With
   the last one, reload_terr goes on to add the Terr. *)
Stop(j) ==
  /\ job[j].at \in {"rollback", "teardown"}
  /\ LET c == First(job[j].terr, job[j].held)
         r == Rest(job[j], c) IN
     \E raises \in BOOLEAN :
       /\ owned' = [owned EXCEPT ![Here] = @ \ {c}]
       /\ Disconnected(c, raises)
       /\ IF r.held # {} THEN Go(j, r) /\ UNCHANGED <<registry, domain>>
          ELSE IF r.at = "teardown" /\ r.kind = "reload"
          THEN Continue(j, r, registry[Here])
          ELSE Go(j, Free) /\ UNCHANGED <<registry, domain>>
  /\ UNCHANGED <<dirTerrs, left, off, open>>

(* remove_terr, alone or as the first half of reload_terr: the registry
   forgets at once, the servers stop one by one. *)
RemoveTerr(j, kind, t) ==
  /\ kind \in {"remove", "reload"} /\ BeginOn(j, kind, t)
  /\ LET d == Terr(t)
         reg == Put(registry[Here], d.callables, Nobody)
         r == [Job(kind, t) EXCEPT !.wasOff = d.there /\ ~d.enabled] IN
     IF d.clients # {}
     THEN Tools(reg) /\ Set(t, NoDomain) /\ Go(j, [r EXCEPT !.at = "teardown", !.held = d.clients])
     ELSE IF kind = "remove" THEN Tools(reg) /\ Set(t, NoDomain) /\ Go(j, Free)
     ELSE IF Mcps[t] # <<>>
     THEN Tools(reg) /\ Set(t, NoDomain) /\ Go(j, [r EXCEPT !.at = "connect"])
     ELSE Finish(j, r, reg)
  /\ NotFromDir(t)
  /\ off' = IF kind = "remove" THEN off \ {t} ELSE off
  /\ UNCHANGED <<link, owned, open, spoiled>>

(* The block of open_terr is left. *)
Leave(j) ==
  /\ job[j].at = "open"
  /\ Go(j, [job[j] EXCEPT !.at = "drain"])
  /\ UNCHANGED <<pluginVars, left, off, open, spoiled>>

(* Its finally clause: the clients first, and an error of one ends it there. *)
Drain(j) ==
  /\ job[j].at = "drain" /\ job[j].held # {}
  /\ LET r == job[j]  c == First(r.terr, r.held) IN
     \E raises \in BOOLEAN :
       /\ raises => "raise" \in Faults
       /\ link' = [link EXCEPT ![c] = IF raises THEN @ ELSE "down"]
       /\ spoiled' = IF raises THEN spoiled \cup {r.terr} \cup r.held ELSE spoiled
       /\ Go(j, IF raises THEN Free ELSE Rest(r, c))
  /\ UNCHANGED <<owned, registry, domain, dirTerrs, left, off, open>>

Closed(j) ==
  /\ job[j].at = "drain" /\ job[j].held = {}
  /\ LET t == job[j].terr IN
     /\ Tools(Put(registry[Here], job[j].names, Nobody))
     /\ Set(t, Forgotten(Terr(t)))
     /\ NotFromDir(t) /\ off' = off \ {t}
  /\ Go(j, Free)
  /\ UNCHANGED <<link, owned, left, open, spoiled>>

-----------------------------------------------------------------------------
(* set_terr_enabled raises for a Terr that is not there. *)
Switch(t, on) ==
  /\ open /\ Terr(t).there /\ Terr(t).enabled # on
  /\ Set(t, [Terr(t) EXCEPT !.enabled = on])
  /\ off' = IF on THEN off \ {t} ELSE off \cup {t}
  /\ UNCHANGED <<link, owned, registry, dirTerrs, job, left, open, spoiled>>

(* reload_from_directory, whose files now define `new': all synchronous.
   What the directory contributed goes, its switches with it; then the direct
   callables of the new Terrs come, the last file's for a name of several. *)
ReloadDirectory(new) ==
  LET old == dirTerrs[Here]
      gone == UNION {Terr(t).callables : t \in old} IN
  /\ open /\ "directory" \in Kinds /\ left > 0 /\ left' = left - 1
  /\ \A t \in new \cup old : ~Working(t) /\ t \notin spoiled
  /\ \A t \in new \ old : ~Terr(t).there
  /\ \E last \in [Names -> Terrs \cup {Nobody}] :
       /\ \A n \in Names : IF \E t \in new : n \in Own[t]
                           THEN last[n] \in new /\ n \in Own[last[n]]
                           ELSE last[n] = Nobody
       /\ Tools([n \in Names |-> IF last[n] # Nobody THEN last[n]
                                 ELSE IF n \in gone THEN Nobody ELSE Tool(n)])
  /\ domain' = [domain EXCEPT ![Here] = [t \in Terrs |->
       LET d == IF t \in old THEN Forgotten(Terr(t)) ELSE Terr(t) IN
       IF t \in new THEN Record(d, Own[t]) ELSE d]]
  /\ dirTerrs' = [dirTerrs EXCEPT ![Here] = new]
  /\ off' = off \ old
  /\ UNCHANGED <<link, owned, job, open, spoiled>>

(* close(), once the operations have returned: the owned clients, one by one;
   an error does not keep it from the others. *)
Close(j) ==
  /\ open /\ "close" \in Kinds /\ \A k \in Jobs : job[k].at = "free"
  /\ Go(j, [Free EXCEPT !.kind = "close", !.at = "closing", !.held = owned[Here]])
  /\ open' = FALSE
  /\ UNCHANGED <<pluginVars, left, off, spoiled>>

CloseOne(j) ==
  /\ job[j].at = "closing"
  /\ IF job[j].held = {}
     THEN owned' = [owned EXCEPT ![Here] = {}] /\ Go(j, Free) /\ UNCHANGED <<link, spoiled>>
     ELSE \E c \in job[j].held, raises \in BOOLEAN :
            /\ Disconnected(c, raises)
            /\ Go(j, [job[j] EXCEPT !.held = @ \ {c}])
            /\ UNCHANGED owned
  /\ UNCHANGED <<registry, domain, dirTerrs, left, off, open>>

ServerDies(c) ==
  Dies(c) /\ UNCHANGED <<owned, registry, domain, dirTerrs, job, left, off, open, spoiled>>

Progress(j) ==
  \/ Connected(j) \/ Listed(j) \/ Fails(j) \/ Stop(j)
  \/ Drain(j) \/ Closed(j) \/ CloseOne(j)

Next ==
  \/ \E j \in Jobs :
       \/ \E t \in Terrs, kind \in Kinds : Start(j, kind, t) \/ RemoveTerr(j, kind, t)
       \/ \E c \in Clients : AddMcp(j, c)
       \/ Progress(j) \/ Cancelled(j) \/ Leave(j) \/ Close(j)
  \/ \E t \in Terrs, on \in BOOLEAN : Switch(t, on)
  \/ \E new \in SUBSET Terrs : ReloadDirectory(new)
  \/ \E c \in Clients : ServerDies(c)

(* A server answers, refuses, or times out; it is assumed to read its stdin. *)
Spec == Init /\ [][Next]_vars /\ \A j \in Jobs : WF_vars(Progress(j))

-----------------------------------------------------------------------------
(* No server process without somebody who will stop it: a client that is
   connected is owned, or held by an operation under way, or its own disconnect
   has raised or was cancelled (framework.py:1000-1150, 1269-1297). *)
ClientsAreOwned ==
  \A c \in Clients : Held(c) =>
    \/ c \in owned[Here] \cup spoiled
    \/ \E j \in Jobs : c \in job[j].held

(* A Terr that is gone leaves nothing the model could call; a client of it
   that is connected is remembered (framework.py:1083-1090, 1129-1139). *)
GoneIsGone ==
  \A t \in Terrs : ~Terr(t).there /\ ~Working(t) /\ t \notin spoiled =>
    /\ \A n \in Names : t \notin Source(Tool(n))
    /\ \A c \in ClientsOf(t) : Held(c) => c \in Terr(t).clients \cup spoiled

(* A Terr that is there is there as a whole, but for names that others offer
   too; a callable of it that a server runs has that server connected. *)
ThereIsWhole ==
  open => \A t \in Terrs : Terr(t).there /\ ~Working(t) /\ t \notin spoiled =>
    \A n \in Terr(t).callables :
      /\ t \in Source(Tool(n)) \/ Shared(n)
      /\ Tool(n) \in ClientsOf(t) => Held(Tool(n))

(* A Terr is there as a whole or gone as a whole. *)
WholeOrGone == TypeOK /\ GoneIsGone /\ ThereIsWhole

(* A Terr the user has switched off gives no callable to a turn until it is
   switched on, removed or loaded again by the directory; a reload of it under
   way is left out: it registers the Terr before it switches it off again. *)
OffStaysOff ==
  \A t \in off, n \in Collected :
    t \in Source(Tool(n)) => \E j \in Jobs : job[j].terr = t /\ job[j].kind = "reload"

(* Every operation ends. *)
JobsEnd ==
  \A j \in Jobs : job[j].at \notin {"free", "open"} ~> job[j].at \in {"free", "open"}
=============================================================================
