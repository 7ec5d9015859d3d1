----------------------------- MODULE Server_proofs -----------------------------
(***************************************************************************)
(* For any integrations, servers, instances and requests: unless an        *)
(* integration is worked on while an apply replaces the instance, no       *)
(* server is left without an owner, the status shows what is connected,    *)
(* and write tools stand only while granted.  The invariant says where     *)
(* each request can be, which lock it holds there, and, for the current    *)
(* instance, that its clients, its registry and the handles in force agree.*)
(***************************************************************************)
EXTENDS Server, FiniteSetTheorems, TLAPS

-----------------------------------------------------------------------------
(* Where a request can be, by its kind, and what its record holds there. *)
Rebuilding == {"flush", "close", "again", "link", "list", "undo"}
GraphPlaces == {"stop", "glink", "glist"}
NoHandles == [id \in Ids |-> NoHandle]

KindOK(r, j) ==
  /\ j.kind = "none"       => j.at = "free"
  /\ j.kind = "apply"      => r \in Reqs /\ j.at \in Rebuilding \cup GraphPlaces \cup {"apply", "lock"}
  /\ j.kind = "connect"    => r \in Reqs /\ j.at \in {"lock", "drop", "link", "list", "undo"}
  /\ j.kind = "disconnect" => r \in Reqs /\ j.at \in {"lock", "drop"}
  /\ j.kind = "graph"      => r \in Reqs /\ j.at \in GraphPlaces \cup {"lock"}
  /\ j.kind = "boot"       => r = Main /\ j.at \in GraphPlaces \cup {"lock"}
  /\ j.kind = "shutdown"   => r = Main /\ j.at \in {"flush", "close"}

(* The instance it works on: an apply closes the former, then fills the current. *)
InstOK(j) ==
  /\ j.kind \in {"connect", "disconnect", "graph"} => j.inst \in 1..current
  /\ j.kind \in {"boot", "shutdown"} => current # 0 /\ j.inst = current
  /\ j.kind = "apply" /\ j.at \in {"flush", "close"} => j.inst \in 1..current /\ j.inst # current
  /\ j.kind = "apply" /\ j.at \notin {"apply", "flush", "close"} => current # 0 /\ j.inst = current

IdOK(j) ==
  /\ j.kind \in {"connect", "disconnect"} \/ j.at \in {"link", "list", "undo"} => j.id \in Ids
  /\ j.kind \in {"graph", "boot"} \/ j.at \in GraphPlaces => j.id \in Repos \cup {Nobody}
  /\ (j.kind = "apply" /\ j.at = "lock") \/ j.at \in {"glink", "glist"} => j.id \in Repos

(* Clients in hand, clients to close, integrations to come, and new handles. *)
Again(j) == j.kind = "apply" /\ j.at \in {"again", "link", "list", "undo"}
HandOK(j) ==
  /\ j.at \in {"list", "undo", "drop"} => j.client \in Clients \ GraphClients
  /\ j.at = "stop" => j.client \in GraphClients \cup {Nobody}
  /\ j.at \notin {"list", "undo", "drop", "stop"} => j.client = Nobody
  /\ j.at = "close" => j.todo \subseteq Clients
  /\ Again(j) => j.todo \subseteq Ids
  /\ j.at # "close" /\ ~Again(j) => j.todo = {}
  /\ j.kind # "apply" \/ j.at \in {"apply", "flush", "close"} => j.new = NoHandles

JobOK(r, j) == KindOK(r, j) /\ InstOK(j) /\ IdOK(j) /\ HandOK(j)
JobsOK == \A r \in Tasks : JobOK(r, job[r])

(* Who is inside apply_lock, and inside integration_lock. *)
Applying(j) == j.kind = "apply" /\ j.at # "apply"
Inside(j) == \/ j.at \in {"drop", "stop", "glink", "glist"}
             \/ j.kind = "connect" /\ j.at \in {"link", "list", "undo"}

LocksOK == \A r \in Tasks : /\ Applying(job[r]) <=> applyLock = r
                            /\ Inside(job[r]) <=> integrationLock = r

(* Before the server opens and after it closed only the lifespan's task runs. *)
PhaseOK ==
  /\ serving # "open" => \A r \in Reqs : job[r].kind = "none"
  /\ serving = "boot" => job[Main].kind \in {"none", "boot"}
  /\ serving = "open" => job[Main].kind = "none"
  /\ serving = "down" => job[Main].kind \in {"none", "shutdown"}

(* Instances are built one after the other, and nothing is in one before. *)
Waiting == {k \in Reqs : job[k].at = "apply"}
BuiltOK ==
  /\ current = built /\ built + Cardinality(Waiting) <= Cardinality(Instances)
  /\ \A i \in Instances : i > current =>
       /\ owned[i] = {} /\ graph[i] = NoGraph
       /\ \A n \in Names : registry[i][n] = Nobody

(* Handles name connected clients, never those of the code graph. *)
RealHandles == {NoHandle} \cup [client : Clients \ GraphClients, write : BOOLEAN]
HandlesOK ==
  /\ \A id \in Ids : runtime[id] \in RealHandles
  /\ \A r \in Tasks : \A id \in Ids : job[r].new[id] \in RealHandles

(* The code graph of an instance, whoever works on which instance. *)
GraphOK(i) ==
  /\ graph[i].client \in GraphClients \cup {Nobody}
  /\ graph[i].repo # Nobody => graph[i].client # Nobody
  /\ ~Shared(Graph) =>
       registry[i][Graph] = IF graph[i].repo = Nobody THEN Nobody ELSE graph[i].client
  /\ \A r \in Tasks : job[r].inst = i =>
       /\ job[r].at \in GraphPlaces => graph[i].repo = Nobody
       /\ job[r].at = "glist" => graph[i].client # Nobody
  /\ ~unlisted =>
       /\ \A c \in GraphClients \cap owned[i] : link[c] # "down" => c = graph[i].client
       /\ graph[i].repo = Nobody /\ graph[i].client # Nobody =>
            \E r \in Tasks : job[r].at = "glist" /\ job[r].inst = i
GraphsOK == \A i \in Instances : GraphOK(i)

-----------------------------------------------------------------------------
(* The current instance has the handles hs and nothing else: each one's
   client is connected, owned and behind the tools that nobody else offers, and
   writes by the user's grant; and no other client is owned. *)
SoleNames(id) == {n \in Names_(id, TRUE) : ~Shared(n)}

Offered(id, h) == IF h = NoHandle THEN {} ELSE Names_(id, h.write)

Serves(id, h) ==
  /\ h # NoHandle /\ serving # "down" => h.client \in owned[current] /\ link[h.client] # "down"
  /\ \A n \in SoleNames(id) :
       registry[current][n] = IF n \in Offered(id, h) THEN h.client ELSE Nobody
  /\ h.write => saved[id] = "write"

InForce(hs) ==
  /\ \A id \in Ids : Serves(id, hs[id])
  /\ \A id, other \in Ids : id # other /\ hs[id] # NoHandle => hs[id].client # hs[other].client
  /\ \A c \in Clients \ GraphClients :
       c \in owned[current] => \E id \in Ids : hs[id].client = c

(* An apply at work: what it still has to connect has no handle yet. *)
Replaces(j) == j.kind = "apply" /\ j.at \in Rebuilding
PlanOK(j) ==
  Replaces(j) =>
    /\ \A id \in Ids : id \in j.todo => j.new[id] = NoHandle
    /\ j.at \in {"flush", "close"} => owned[current] = {} /\ graph[current] = NoGraph
    /\ j.at \in {"link", "list", "undo"} =>
         /\ j.new[j.id] = NoHandle /\ j.id \notin j.todo
         /\ j.write => saved[j.id] = "write"

RebuiltOK(j) == PlanOK(j) /\ (Replaces(j) => InForce(j.new))

(* A client in a task's hands is not yet, or no more, owned. *)
MineOK(j) ==
  /\ j.client # Nobody => current # 0 /\ j.client \notin owned[current]
  /\ j.at = "list" => link[j.client] # "down"
  /\ j.at = "drop" \/ (j.kind = "connect" /\ j.at # "lock") => runtime[j.id] = NoHandle
  /\ j.kind = "shutdown" /\ j.at = "close" =>
       \A c \in owned[current] : link[c] # "down" => c \in j.todo

GraphIsUp ==
  current # 0 /\ serving # "down" /\ graph[current].client # Nobody =>
    link[graph[current].client] # "down" /\ graph[current].client \in owned[current]

CleanOK ==
  /\ ~Replacing /\ current # 0 => InForce(runtime)
  /\ \A r \in Tasks : RebuiltOK(job[r]) /\ MineOK(job[r])
  /\ GraphIsUp

(* The places where a task is in nobody's way. *)
Idle(j) == j.at \in {"free", "apply", "lock"}

StructOK ==
  TypeOK /\ JobsOK /\ LocksOK /\ PhaseOK /\ BuiltOK /\ HandlesOK /\ GraphsOK

ServerInv ==
  /\ StructOK
  /\ Overlap => overlapped
  /\ ~overlapped => CleanOK
  /\ ClientsAreOwned

-----------------------------------------------------------------------------
(* Task r alone moves, and the records stay records. *)
Moves(r) == /\ job' \in [Tasks -> JobRecord]
            /\ \A k \in Tasks : k # r => job'[k] = job[k]

(* The locks change hands between r and nobody, as r's place says. *)
LockMoves(r) ==
  /\ Applying(job[r])' <=> applyLock' = r
  /\ Inside(job[r])' <=> integrationLock' = r
  /\ \A k \in Tasks : k # r => /\ applyLock' = k <=> applyLock = k
                               /\ integrationLock' = k <=> integrationLock = k

(* All but the place, the client and the integrations to come stays. *)
Kept(j, k) == k.kind = j.kind /\ k.inst = j.inst /\ k.new = j.new

LEMMA FreeRecord ==
  /\ Free \in JobRecord /\ Free.kind = "none" /\ Free.at = "free" /\ Free.inst = 0
  /\ Free.client = Nobody /\ Free.todo = {} /\ Free.new = NoHandles
BY DEF Free, JobRecord, Handles, NoHandle, NoHandles, Places, SomeInst, Targets, Someone

LEMMA GoMoves ==
  ASSUME TypeOK, NEW r \in Tasks, NEW new \in JobRecord, Go(r, new)
  PROVE  Moves(r) /\ job'[r] = new
BY DEF TypeOK, Go, Moves

(* What holds of the other tasks' records goes on to hold. *)
LEMMA Framed ==
  ASSUME ServerInv, NEW r \in Tasks, Moves(r), LockMoves(r), JobOK(r, job[r])',
         UNCHANGED <<current, serving>>, job'[r].kind \in {job[r].kind, "none"}
  PROVE  JobsOK' /\ LocksOK' /\ PhaseOK'
<1>1. JobsOK'
  <2> SUFFICES ASSUME NEW k \in Tasks, k # r PROVE JobOK(k, job[k])'
    BY DEF JobsOK
  <2>1. JobOK(k, job[k]) /\ job'[k] = job[k]
    BY DEF ServerInv, StructOK, JobsOK, Moves
  <2> QED  BY <2>1 DEF JobOK, KindOK, InstOK, IdOK, HandOK, Again
<1>2. LocksOK'
  <2> SUFFICES ASSUME NEW k \in Tasks, k # r
               PROVE  /\ Applying(job[k])' <=> applyLock' = k
                      /\ Inside(job[k])' <=> integrationLock' = k
    BY DEF LocksOK, LockMoves
  <2>1. job'[k] = job[k]
    BY DEF Moves
  <2> QED  BY <2>1 DEF ServerInv, StructOK, LocksOK, LockMoves, Applying, Inside
<1>3. PhaseOK'
  <2>1. \A k \in Tasks : job'[k].kind \in {job[k].kind, "none"}
    BY DEF Moves
  <2>2. Main \in Tasks /\ Reqs \subseteq Tasks
    BY DEF Tasks
  <2> QED  BY <2>1, <2>2 DEF ServerInv, StructOK, PhaseOK
<1> QED  BY <1>1, <1>2, <1>3

-----------------------------------------------------------------------------
(* Facts about the constants. *)
LEMMA Constants ==
  /\ Instances \subseteq Nat /\ 0 \notin Instances
  /\ \A i \in Instances : 1..i \subseteq Instances
  /\ Nobody \notin Clients /\ Nobody \notin Ids /\ Nobody \notin Tasks /\ Nobody \notin Repos
  /\ Clients \cap Ids = {} /\ GraphClients \subseteq Clients
BY ServerAssumption, PluginsAssumption DEF Tasks

LEMMA ToolNames ==
  ASSUME NEW id \in Ids
  PROVE  /\ Names_(id, TRUE) \subseteq Names /\ SoleNames(id) \subseteq Names_(id, TRUE)
         /\ \A w \in BOOLEAN : Names_(id, w) \subseteq Names_(id, TRUE)
         /\ Writes[id] \subseteq Names_(id, TRUE) /\ Writes[id] \cap Names_(id, FALSE) = {}
         /\ Graph \notin SoleNames(id) /\ (~Shared(Graph) => Graph \notin Names_(id, TRUE))
         /\ \A other \in Ids : other # id => SoleNames(id) \cap Names_(other, TRUE) = {}
<1>1. /\ Names_(id, TRUE) \subseteq Names /\ SoleNames(id) \subseteq Names_(id, TRUE)
      /\ \A w \in BOOLEAN : Names_(id, w) \subseteq Names_(id, TRUE)
      /\ Writes[id] \subseteq Names_(id, TRUE) /\ Writes[id] \cap Names_(id, FALSE) = {}
  BY ServerAssumption DEF Names_, SoleNames
<1>2. Graph \notin SoleNames(id) /\ (~Shared(Graph) => Graph \notin Names_(id, TRUE))
  BY DEF Names_, SoleNames, Shared
<1>3. \A other \in Ids : other # id => SoleNames(id) \cap Names_(other, TRUE) = {}
  BY DEF Names_, SoleNames, Shared
<1> QED BY <1>1, <1>2, <1>3

(* The instance at hand is one there is. *)
LEMMA CurrentIsBuilt ==
  ASSUME TypeOK
  PROVE  /\ current \in Nat /\ (current # 0 => current \in Instances)
         /\ \A i \in 1..current : i \in Instances
<1>1. /\ Instances = 1..Cardinality(Instances) /\ Cardinality(Instances) \in Nat
      /\ built \in 0..Cardinality(Instances) /\ current \in 0..built
  BY ServerAssumption DEF TypeOK
<1> DEFINE n == Cardinality(Instances)
<1> HIDE DEF n
<1>2. Instances = 1..n /\ n \in Nat /\ built \in 0..n /\ current \in 0..built
  BY <1>1 DEF n
<1> QED  BY <1>2

-----------------------------------------------------------------------------
(* What the operations on the registry return is well typed. *)
Domains == [there : BOOLEAN, enabled : BOOLEAN, callables : SUBSET Names, clients : SUBSET Clients]

LEMMA DomainType ==
  ASSUME PluginsTypeOK, NEW i \in Instances, NEW t \in Terrs, NEW d \in Domains
  PROVE  [domain EXCEPT ![i][t] = d] \in [Instances -> [Terrs -> Domains]]
<1>1. domain[i] \in [Terrs -> Domains] /\ domain \in [Instances -> [Terrs -> Domains]]
  BY DEF PluginsTypeOK, Domains
<1>2. [domain[i] EXCEPT ![t] = d] \in [Terrs -> Domains]
  BY <1>1
<1> QED  BY <1>1, <1>2

LEMMA RecordType ==
  ASSUME NEW d \in Domains, NEW names \in SUBSET Names
  PROVE  Record(d, names) \in Domains /\ Forgotten(d) \in Domains
BY DEF Record, Forgotten, NoDomain, Domains

-----------------------------------------------------------------------------
(* What is not touched goes on to hold. *)
LEMMA Handled ==
  ASSUME ServerInv, NEW r \in Tasks, Moves(r), runtime' = runtime, job'[r].new = job[r].new
  PROVE  HandlesOK'
BY DEF ServerInv, StructOK, HandlesOK, Moves

LEMMA BuiltKept ==
  ASSUME ServerInv, NEW r \in Tasks, Moves(r), job[r].at # "apply", job'[r].at # "apply",
         UNCHANGED <<current, built>>,
         \A i \in Instances : i > current =>
           owned'[i] = owned[i] /\ graph'[i] = graph[i] /\ registry'[i] = registry[i]
  PROVE  BuiltOK'
<1>1. Waiting' = Waiting
  BY DEF Waiting, Moves, Tasks
<1> QED  BY <1>1 DEF ServerInv, StructOK, BuiltOK

LEMMA GraphKept ==
  ASSUME ServerInv, NEW r \in Tasks, Moves(r), graph' = graph, unlisted' = unlisted,
         ~Shared(Graph) => \A i \in Instances : registry'[i][Graph] = registry[i][Graph],
         job[r].at \notin GraphPlaces, job'[r].at \notin GraphPlaces,
         \A i \in Instances, c \in GraphClients :
           c \in owned'[i] /\ link'[c] # "down" => c \in owned[i] /\ link[c] # "down"
  PROVE  GraphsOK'
<1> SUFFICES ASSUME NEW i \in Instances PROVE GraphOK(i)'
  BY DEF GraphsOK
<1>1. GraphOK(i)
  BY DEF ServerInv, StructOK, GraphsOK
<1>2. /\ graph'[i].client \in GraphClients \cup {Nobody}
      /\ graph'[i].repo # Nobody => graph'[i].client # Nobody
      /\ ~Shared(Graph) =>
           registry'[i][Graph] = IF graph'[i].repo = Nobody THEN Nobody ELSE graph'[i].client
  BY <1>1 DEF GraphOK
<1>3. ASSUME NEW k \in Tasks, job'[k].inst = i
      PROVE  /\ job'[k].at \in GraphPlaces => graph'[i].repo = Nobody
             /\ job'[k].at = "glist" => graph'[i].client # Nobody
  <2>1. CASE k = r
    BY <2>1 DEF GraphPlaces
  <2>2. CASE k # r
    BY <2>2, <1>3, <1>1 DEF GraphOK, Moves
  <2> QED  BY <2>1, <2>2
<1>4. ASSUME ~unlisted', NEW c \in GraphClients \cap owned'[i], link'[c] # "down"
      PROVE  c = graph'[i].client
  BY <1>4, <1>1 DEF GraphOK
<1>5. ASSUME ~unlisted', graph'[i].repo = Nobody, graph'[i].client # Nobody
      PROVE  \E k \in Tasks : job'[k].at = "glist" /\ job'[k].inst = i
  <2>1. PICK k \in Tasks : job[k].at = "glist" /\ job[k].inst = i
    BY <1>5, <1>1 DEF GraphOK
  <2>2. k # r
    BY <2>1 DEF GraphPlaces
  <2> QED  BY <2>1, <2>2 DEF Moves
<1> QED  BY <1>2, <1>3, <1>4, <1>5 DEF GraphOK

-----------------------------------------------------------------------------
(* One task at a time is at work, as long as nothing overlaps. *)
Others(r) == \A k \in Tasks : k # r =>
               Idle(job[k]) /\ job[k].client = Nobody /\ job[k].todo = {}

LEMMA AtWork ==
  ASSUME ServerInv, NEW r \in Tasks, ~Idle(job[r])
  PROVE  \/ Inside(job[r])
         \/ job[r].kind = "apply" /\ job[r].at \in Rebuilding
         \/ job[r].kind = "shutdown"
<1>1. job[r] \in JobRecord /\ KindOK(r, job[r])
  BY DEF ServerInv, StructOK, TypeOK, JobsOK, JobOK
<1> QED  BY <1>1 DEF KindOK, Idle, Inside, Rebuilding, GraphPlaces, JobRecord, Places

LEMMA IdleHands ==
  ASSUME ServerInv, NEW r \in Tasks, Idle(job[r])
  PROVE  job[r].client = Nobody /\ job[r].todo = {}
<1>1. HandOK(job[r])
  BY DEF ServerInv, StructOK, JobsOK, JobOK
<1> QED  BY <1>1 DEF HandOK, Idle, Again

(* Inside integration_lock one works on the current instance, and no apply is
   replacing it. *)
LEMMA InsideIsCurrent ==
  ASSUME ServerInv, ~overlapped, NEW r \in Tasks, Inside(job[r])
  PROVE  /\ ~Replacing /\ serving # "down"
         /\ job[r].inst = current /\ current # 0
<1>1. /\ KindOK(r, job[r]) /\ InstOK(job[r]) /\ job[r] \in JobRecord
      /\ \A k \in Tasks : Applying(job[k]) <=> applyLock = k
      /\ PhaseOK /\ ~Overlap /\ integrationLock = r
  BY DEF ServerInv, StructOK, TypeOK, JobsOK, JobOK, LocksOK
<1>2. job[r].kind \in {"connect", "disconnect", "graph", "apply", "boot"}
  BY <1>1 DEF KindOK, Inside, JobRecord, GraphPlaces
<1>3. serving # "down"
  BY <1>1, <1>2 DEF PhaseOK, Tasks
<1>4. CASE job[r].kind \in {"connect", "disconnect", "graph"}
  BY <1>1, <1>3, <1>4, CurrentIsBuilt DEF Overlap, Working, InstOK, ServerInv, StructOK
<1>5. CASE job[r].kind = "apply"
  <2>1. applyLock = r /\ job[r].at \notin Rebuilding /\ job[r].inst = current /\ current # 0
    BY <1>1, <1>5 DEF Applying, Inside, InstOK, Rebuilding
  <2> QED  BY <1>1, <1>3, <2>1 DEF Replacing, Applying, Rebuilding
<1>6. CASE job[r].kind = "boot"
  <2>1. serving = "boot" /\ job[r].inst = current /\ current # 0
    BY <1>1, <1>6, ServerAssumption DEF PhaseOK, InstOK, KindOK, ServerInv, StructOK, TypeOK
  <2>2. \A k \in Tasks : job[k].kind # "apply"
    BY <1>1, <2>1 DEF PhaseOK, Tasks
  <2> QED  BY <1>3, <2>1, <2>2 DEF Replacing
<1> QED  BY <1>2, <1>4, <1>5, <1>6

(* Whoever is at work is so alone. *)
LEMMA Alone ==
  ASSUME ServerInv, ~overlapped, NEW r \in Tasks, ~Idle(job[r])
  PROVE  Others(r)
<1> SUFFICES ASSUME NEW k \in Tasks, k # r, ~Idle(job[k]) PROVE FALSE
  BY IdleHands DEF Others
<1>1. /\ \A t \in Tasks : /\ Applying(job[t]) <=> applyLock = t
                          /\ Inside(job[t]) <=> integrationLock = t
      /\ PhaseOK /\ KindOK(r, job[r]) /\ KindOK(k, job[k])
  BY DEF ServerInv, StructOK, LocksOK, JobsOK, JobOK
<1>2. \A t \in {r, k} : \/ Inside(job[t])
                        \/ job[t].kind = "apply" /\ job[t].at \in Rebuilding
                        \/ job[t].kind = "shutdown"
  BY AtWork
<1>3. ~(job[r].kind = "shutdown" \/ job[k].kind = "shutdown")
  BY <1>1 DEF PhaseOK, KindOK, Idle, Tasks
<1>4. ~(Inside(job[r]) \/ Inside(job[k]))
  <2>1. ~(Inside(job[r]) /\ Inside(job[k]))
    BY <1>1
  <2>2. Inside(job[r]) \/ Inside(job[k]) => ~Replacing
    BY InsideIsCurrent
  <2> QED  BY <1>2, <1>3, <2>1, <2>2 DEF Replacing, Rebuilding
<1> QED  BY <1>1, <1>2, <1>3, <1>4 DEF Applying, Rebuilding

(* So is one that finds integration_lock free while no apply replaces. *)
LEMMA EntrantAlone ==
  ASSUME ServerInv, NEW r \in Tasks, job[r].at = "lock", integrationLock = Nobody, ~Replacing
  PROVE  Others(r)
<1> SUFFICES ASSUME NEW k \in Tasks, k # r, ~Idle(job[k]) PROVE FALSE
  BY IdleHands DEF Others
<1>1. /\ Inside(job[k]) <=> integrationLock = k
      /\ PhaseOK /\ KindOK(r, job[r]) /\ KindOK(k, job[k]) /\ job[r] \in JobRecord
  BY DEF ServerInv, StructOK, LocksOK, JobsOK, JobOK, TypeOK
<1>2. job[k].kind = "shutdown"
  BY <1>1, AtWork, Constants DEF Replacing, Rebuilding
<1>3. k = Main /\ r \in Reqs /\ serving = "down"
  BY <1>1, <1>2, ServerAssumption DEF KindOK, PhaseOK, Tasks, ServerInv, StructOK, TypeOK
<1> QED  BY <1>1, <1>3 DEF PhaseOK, KindOK

(* Then only its own record and what it changed matter. *)
LEMMA CleanStep ==
  ASSUME ServerInv, NEW r \in Tasks, Moves(r), Others(r),
         RebuiltOK(job[r])', MineOK(job[r])', GraphIsUp',
         ~Replaces(job'[r]) /\ current' # 0 => InForce(runtime)'
  PROVE  CleanOK'
<1>1. ASSUME NEW k \in Tasks, k # r
      PROVE  /\ RebuiltOK(job[k])' /\ MineOK(job[k])'
             /\ ~Replaces(job'[k])
  <2>1. /\ job'[k] = job[k] /\ Idle(job[k]) /\ job[k].client = Nobody
        /\ KindOK(k, job[k])
    BY <1>1 DEF Others, Moves, ServerInv, StructOK, JobsOK, JobOK
  <2> QED  BY <2>1 DEF RebuiltOK, PlanOK, Replaces, MineOK, Idle, KindOK, Rebuilding
<1>2. \A k \in Tasks : RebuiltOK(job[k])' /\ MineOK(job[k])'
  BY <1>1
<1>3. ~Replacing' /\ current' # 0 => InForce(runtime)'
  BY <1>1 DEF Replacing, Replaces, Rebuilding
<1> QED  BY <1>2, <1>3 DEF CleanOK

LEMMA OwnedStep ==
  ASSUME NEW r \in Tasks,
         \A c \in Clients : link'[c] # "down" =>
           \/ current' # 0 /\ c \in owned'[current']
           \/ job'[r].client = c \/ c \in job'[r].todo
           \/ job'[r].at = "flush" /\ c \in owned'[job'[r].inst]
  PROVE  ClientsAreOwned'
BY DEF ClientsAreOwned, Held

LEMMA OwnedBefore ==
  ASSUME ServerInv, ~overlapped, NEW r \in Tasks, Others(r), NEW c \in Clients, link[c] # "down"
  PROVE  \/ current # 0 /\ c \in owned[current]
         \/ job[r].client = c \/ c \in job[r].todo
         \/ job[r].at = "flush" /\ c \in owned[job[r].inst]
BY Constants DEF ServerInv, StructOK, ClientsAreOwned, Held, Others, Idle

-----------------------------------------------------------------------------
(* What the handles in force survive. *)
LEMMA InForceKept ==
  ASSUME NEW hs, \A id \in Ids : hs[id] \in RealHandles, InForce(hs),
         current' = current, serving' = serving,
         \A n \in Names : n # Graph => registry'[current][n] = registry[current][n],
         \A id \in Ids : hs[id].write /\ saved[id] = "write" => saved'[id] = "write",
         \A c \in Clients \ GraphClients : serving # "down" /\ c \in owned[current] =>
           /\ c \in owned'[current]
           /\ link[c] # "down" => link'[c] # "down",
         \A c \in Clients \ GraphClients : c \in owned'[current] => c \in owned[current]
  PROVE  InForce(hs)'
<1> SUFFICES ASSUME NEW id \in Ids PROVE Serves(id, hs[id])'
  BY DEF InForce
<1>1. Serves(id, hs[id]) /\ hs[id] \in RealHandles
  BY DEF InForce
<1>2. hs[id] # NoHandle => hs[id].client \in Clients \ GraphClients
  BY <1>1 DEF RealHandles
<1>3. \A n \in SoleNames(id) : registry'[current][n] = registry[current][n]
  BY ToolNames
<1>4. \A n \in SoleNames(id) :
        registry'[current][n] = IF n \in Offered(id, hs[id]) THEN hs[id].client ELSE Nobody
  BY <1>1, <1>3 DEF Serves
<1>5. hs[id].write => saved'[id] = "write"
  BY <1>1 DEF Serves
<1>6. hs[id] # NoHandle /\ serving # "down" =>
        hs[id].client \in owned'[current] /\ link'[hs[id].client] # "down"
  BY <1>1, <1>2 DEF Serves
<1> QED  BY <1>4, <1>5, <1>6 DEF Serves

LEMMA NewInForce ==
  ASSUME NEW hs, NEW r, InForce(hs)', job'[r].new = hs
  PROVE  InForce(job[r].new)'
<1>1. \A id \in Ids : Serves(id, job[r].new[id])'
  BY DEF InForce, Serves, Offered
<1>2. \A id, other \in Ids : id # other /\ job'[r].new[id] # NoHandle =>
                               job'[r].new[id].client # job'[r].new[other].client
  BY DEF InForce
<1> QED  BY <1>1, <1>2 DEF InForce

LEMMA RuntimeInForce ==
  ASSUME NEW hs, InForce(hs)', runtime' = hs
  PROVE  InForce(runtime)'
BY DEF InForce, Serves, Offered

LEMMA InForceListed ==
  ASSUME NEW hs, hs \in [Ids -> Handles], \A k \in Ids : hs[k] \in RealHandles, InForce(hs),
         NEW id \in Ids, hs[id] = NoHandle, NEW w \in BOOLEAN,
         NEW c \in Clients \ GraphClients, c \notin owned[current], link[c] # "down",
         current' = current, serving' = serving, serving # "down", link' = link,
         \A n \in Names : registry'[current][n] =
                            IF n \in Names_(id, w) THEN c ELSE registry[current][n],
         owned'[current] = owned[current] \cup {c},
         \A k \in Ids : k # id => saved'[k] = saved[k],
         w => saved'[id] = "write"
  PROVE  InForce([hs EXCEPT ![id] = [client |-> c, write |-> w]])'
<1> DEFINE h == [client |-> c, write |-> w]
           new == [hs EXCEPT ![id] = h]
<1>1. /\ h.client = c /\ h.write = w /\ h # NoHandle
      /\ new[id] = h /\ \A k \in Ids : k # id => new[k] = hs[k]
  BY Constants DEF NoHandle
<1> HIDE DEF h, new
<1>2. Serves(id, h)'
  <2>1. \A n \in SoleNames(id) : registry[current][n] = Nobody /\ n \in Names
    BY ToolNames DEF InForce, Serves, Offered
  <2>2. \A n \in SoleNames(id) :
          registry'[current][n] = IF n \in Offered(id, h) THEN h.client ELSE Nobody
    BY <1>1, <2>1 DEF Offered
  <2> QED  BY <1>1, <2>2 DEF Serves
<1>3. ASSUME NEW k \in Ids, k # id PROVE Serves(k, hs[k])'
  <2>1. Serves(k, hs[k])
    BY DEF InForce
  <2>2. \A n \in SoleNames(k) : registry'[current][n] = registry[current][n]
    BY <1>3, ToolNames
  <2> QED  BY <1>3, <2>1, <2>2 DEF Serves, Offered
<1>4. ASSUME NEW k \in Ids PROVE hs[k].client # c
  <2>1. hs[k] # NoHandle => hs[k].client \in owned[current]
    BY DEF InForce, Serves
  <2>2. NoHandle.client = Nobody
    BY DEF NoHandle
  <2> QED  BY <2>1, <2>2, Constants
<1>5. \A k, other \in Ids : k # other /\ new[k] # NoHandle => new[k].client # new[other].client
  BY <1>1, <1>4 DEF InForce
<1>7. \A d \in Clients \ GraphClients :
        d \in owned'[current] => \E k \in Ids : new[k].client = d
  <2> SUFFICES ASSUME NEW d \in Clients \ GraphClients, d \in owned[current]
               PROVE  \E k \in Ids : new[k].client = d
    BY <1>1
  <2>1. PICK k \in Ids : hs[k].client = d
    BY DEF InForce
  <2>2. k # id
    BY <2>1, Constants DEF NoHandle
  <2> QED BY <1>1, <2>1, <2>2
<1>6. InForce(new)'
  BY <1>1, <1>2, <1>3, <1>5, <1>7 DEF InForce
<1> QED  BY <1>6 DEF new, h

LEMMA InForceForgot ==
  ASSUME NEW hs, hs \in [Ids -> Handles], \A k \in Ids : hs[k] \in RealHandles, InForce(hs),
         NEW id \in Ids, hs[id] # NoHandle,
         current' = current, serving' = serving, link' = link, saved' = saved,
         \A n \in Names : registry'[current][n] =
             IF n \in Names_(id, hs[id].write) THEN Nobody ELSE registry[current][n],
         owned'[current] = owned[current] \ {hs[id].client}
  PROVE  InForce([hs EXCEPT ![id] = NoHandle])'
<1> DEFINE new == [hs EXCEPT ![id] = NoHandle]
<1>1. new[id] = NoHandle /\ \A k \in Ids : k # id => new[k] = hs[k]
  OBVIOUS
<1> HIDE DEF new
<1>2. Serves(id, NoHandle)'
  <2>1. \A n \in SoleNames(id) : n \in Names /\
          registry[current][n] = IF n \in Names_(id, hs[id].write) THEN hs[id].client ELSE Nobody
    BY ToolNames DEF InForce, Serves, Offered
  <2> QED  BY <2>1 DEF Serves, Offered, NoHandle
<1>3. ASSUME NEW k \in Ids, k # id PROVE Serves(k, hs[k])'
  <2>1. Serves(k, hs[k]) /\ (hs[k] # NoHandle => hs[k].client # hs[id].client)
    BY <1>3 DEF InForce
  <2>2. hs[id].write \in BOOLEAN
    BY DEF RealHandles, NoHandle
  <2>3. \A n \in SoleNames(k) : registry'[current][n] = registry[current][n]
    BY <1>3, <2>2, ToolNames
  <2> QED  BY <1>3, <2>1, <2>3 DEF Serves, Offered
<1>4. \A k, other \in Ids : k # other /\ new[k] # NoHandle => new[k].client # new[other].client
  <2>1. \A k \in Ids : hs[k] # NoHandle => hs[k].client # Nobody
    BY Constants DEF RealHandles
  <2> SUFFICES ASSUME NEW k \in Ids, NEW other \in Ids, k # other, new[k] # NoHandle
               PROVE  new[k].client # new[other].client
    OBVIOUS
  <2>2. k # id /\ hs[k] # NoHandle /\ new[k] = hs[k]
    BY <1>1
  <2>3. CASE other = id
    BY <1>1, <2>1, <2>2, <2>3 DEF NoHandle
  <2>4. CASE other # id
    BY <1>1, <2>2, <2>4 DEF InForce
  <2> QED  BY <2>3, <2>4
<1>6. \A d \in Clients \ GraphClients :
        d \in owned'[current] => \E k \in Ids : new[k].client = d
  <2> SUFFICES ASSUME NEW d \in Clients \ GraphClients, d \in owned'[current]
               PROVE  \E k \in Ids : new[k].client = d
    OBVIOUS
  <2>1. PICK k \in Ids : hs[k].client = d
    BY DEF InForce
  <2> QED BY <1>1, <2>1
<1>5. InForce(new)'
  BY <1>1, <1>2, <1>3, <1>4, <1>6 DEF InForce
<1> QED  BY <1>5 DEF new

(* A step that leaves the current instance and the handles as they are. *)
LEMMA QuietStep ==
  ASSUME ServerInv, ~overlapped, NEW r \in Tasks, Moves(r), Others(r),
         UNCHANGED <<current, serving, runtime, saved>>,
         current # 0 => UNCHANGED registry[current] /\ owned'[current] \subseteq owned[current],
         current # 0 /\ serving # "down" =>
           /\ UNCHANGED <<owned[current], graph[current]>>
           /\ \A c \in owned[current] : link'[c] = link[c],
         Replaces(job'[r]) = Replaces(job[r]), job'[r].new = job[r].new,
         PlanOK(job[r])', MineOK(job[r])'
  PROVE  CleanOK'
<1>1. CleanOK /\ HandlesOK
  BY DEF ServerInv, StructOK
<1>2. ASSUME NEW hs, \A id \in Ids : hs[id] \in RealHandles, InForce(hs), current # 0
      PROVE  InForce(hs)'
  BY <1>2, InForceKept
<1>3. Replaces(job[r]) => current # 0
  BY DEF ServerInv, StructOK, JobsOK, JobOK, InstOK, Replaces, Rebuilding
<1>4. RebuiltOK(job[r])'
  <2> SUFFICES ASSUME Replaces(job[r]) PROVE InForce(job[r].new)'
    BY DEF RebuiltOK
  <2> PICK hs : hs = job[r].new
    OBVIOUS
  <2>1. InForce(hs) /\ \A id \in Ids : hs[id] \in RealHandles
    BY <1>1 DEF CleanOK, RebuiltOK, HandlesOK
  <2> QED  BY <1>2, <1>3, <2>1, NewInForce
<1>5. ~Replaces(job'[r]) /\ current' # 0 => InForce(runtime)'
  <2> SUFFICES ASSUME ~Replaces(job[r]), current # 0 PROVE InForce(runtime)'
    OBVIOUS
  <2> PICK hs : hs = runtime
    OBVIOUS
  <2>1. ~Replacing
    BY DEF Replacing, Replaces, Rebuilding, Others, Idle
  <2>2. InForce(hs) /\ \A id \in Ids : hs[id] \in RealHandles
    BY <1>1, <2>1 DEF CleanOK, HandlesOK
  <2> QED  BY <1>2, <2>2, RuntimeInForce
<1>6. GraphIsUp'
  BY <1>1 DEF GraphIsUp, CleanOK
<1> QED  BY <1>4, <1>5, <1>6, CleanStep

-----------------------------------------------------------------------------
(* What each step of Next does to the invariant. *)
LEMMA Assembled ==
  ASSUME ServerInv, Notes, StructOK',
         ~overlapped /\ ~overlapped' => CleanOK' /\ ClientsAreOwned'
  PROVE  ServerInv'
BY DEF ServerInv, Notes, ClientsAreOwned, Held

(* A step that changes one record, what clients are up or owned, and what is
   saved. *)
LEMMA SavedJob ==
  ASSUME ServerInv, Notes, NEW r \in Tasks, Moves(r), LockMoves(r), JobOK(r, job[r])',
         UNCHANGED <<current, built, runtime, graph, registry, domain, dirTerrs, ghosts>>,
         saved' \in [Ids -> Modes],
         link' \in [Clients -> Links], owned' \in [Instances -> SUBSET Clients],
         \A i \in Instances : i > current => owned'[i] = owned[i],
         \A i \in Instances, c \in GraphClients :
           c \in owned'[i] /\ link'[c] # "down" => c \in owned[i] /\ link[c] # "down",
         applyLock' \in Tasks \cup {Nobody}, integrationLock' \in Tasks \cup {Nobody},
         job'[r].kind \in {job[r].kind, "none"}, job'[r].new = job[r].new,
         job[r].at \notin GraphPlaces \cup {"apply"}, job'[r].at \notin GraphPlaces \cup {"apply"}
  PROVE  StructOK'
<1>1. TypeOK'
  BY DEF ServerInv, StructOK, TypeOK, PluginsTypeOK, Moves, Notes, ghosts
<1>2. JobsOK' /\ LocksOK' /\ PhaseOK'
  BY Framed DEF ghosts
<1>3. BuiltOK'
  BY BuiltKept
<1>4. HandlesOK'
  BY Handled
<1>5. GraphsOK'
  BY GraphKept DEF ghosts
<1> QED  BY <1>1, <1>2, <1>3, <1>4, <1>5 DEF StructOK

(* A step that changes one record, and what clients are up or owned. *)
LEMMA LinkJob ==
  ASSUME ServerInv, Notes, NEW r \in Tasks, Moves(r), LockMoves(r), JobOK(r, job[r])',
         UNCHANGED <<app, registry, domain, dirTerrs, ghosts>>,
         link' \in [Clients -> Links], owned' \in [Instances -> SUBSET Clients],
         \A i \in Instances : i > current => owned'[i] = owned[i],
         \A i \in Instances, c \in GraphClients :
           c \in owned'[i] /\ link'[c] # "down" => c \in owned[i] /\ link[c] # "down",
         applyLock' \in Tasks \cup {Nobody}, integrationLock' \in Tasks \cup {Nobody},
         job'[r].kind \in {job[r].kind, "none"}, job'[r].new = job[r].new,
         job[r].at \notin GraphPlaces \cup {"apply"}, job'[r].at \notin GraphPlaces \cup {"apply"}
  PROVE  StructOK'
BY SavedJob DEF app, ServerInv, StructOK, TypeOK

(* A step that changes one record only. *)
LEMMA OnlyJob ==
  ASSUME ServerInv, Notes, NEW r \in Tasks, Moves(r), LockMoves(r), JobOK(r, job[r])',
         UNCHANGED <<app, pluginVars, ghosts>>,
         applyLock' \in Tasks \cup {Nobody}, integrationLock' \in Tasks \cup {Nobody},
         job'[r].kind \in {job[r].kind, "none"}, job'[r].new = job[r].new,
         job[r].at \notin GraphPlaces \cup {"apply"}, job'[r].at \notin GraphPlaces \cup {"apply"}
  PROVE  StructOK'
BY LinkJob DEF pluginVars, ServerInv, StructOK, TypeOK, PluginsTypeOK

LEMMA LinkedStep ==
  ASSUME ServerInv, NEW r \in Tasks, Linked(r), Notes
  PROVE  ServerInv'
<1> PICK c \in Clients \ GraphClients :
       Unused(c) /\ Up(c) /\ Go(r, [job[r] EXCEPT !.at = "list", !.client = c])
  BY DEF Linked
<1> DEFINE new == [job[r] EXCEPT !.at = "list", !.client = c]
<1>1. job[r] \in JobRecord /\ JobOK(r, job[r]) /\ job[r].at = "link"
  BY DEF ServerInv, StructOK, TypeOK, JobsOK, Linked
<1>2. c \in Someone /\ "list" \in Places
  BY DEF Someone, Places
<1>3. /\ new \in JobRecord /\ Kept(job[r], new) /\ new.at = "list" /\ new.client = c
      /\ new.id = job[r].id /\ new.todo = job[r].todo /\ new.write = job[r].write
  BY <1>1, <1>2 DEF JobRecord, Kept
<1>4. Moves(r) /\ job'[r] = new
  BY <1>3, GoMoves DEF ServerInv, StructOK
<1> HIDE DEF new
<1>5. /\ UNCHANGED <<app, locks, owned, registry, domain, dirTerrs, ghosts>>
      /\ link' = [link EXCEPT ![c] = "up"]
      /\ link \in [Clients -> Links]
  BY DEF Linked, Up, ServerInv, StructOK, TypeOK, PluginsTypeOK
<1>6. JobOK(r, job[r])'
  <2>1. KindOK(r, job[r])' /\ IdOK(job[r])'
    BY <1>1, <1>3, <1>4 DEF JobOK, KindOK, IdOK, Kept, Rebuilding, GraphPlaces
  <2>2. InstOK(job[r])'
    BY <1>1, <1>3, <1>4, <1>5 DEF JobOK, InstOK, app, Kept
  <2>3. HandOK(job[r])'
    BY <1>1, <1>3, <1>4 DEF JobOK, HandOK, Again, Kept
  <2> QED  BY <2>1, <2>2, <2>3 DEF JobOK
<1>7. LockMoves(r)
  BY <1>1, <1>3, <1>4, <1>5 DEF ServerInv, StructOK, LockMoves, LocksOK, Inside, Applying, locks, Kept
<1>8. StructOK'
  <2>1. link' \in [Clients -> Links] /\ owned' \in [Instances -> SUBSET Clients]
    BY <1>5 DEF ServerInv, StructOK, TypeOK, PluginsTypeOK, Links
  <2>2. applyLock' \in Tasks \cup {Nobody} /\ integrationLock' \in Tasks \cup {Nobody}
    BY <1>5 DEF locks, ServerInv, StructOK, TypeOK
  <2> QED  BY <1>1, <1>3, <1>4, <1>5, <1>6, <1>7, <2>1, <2>2, LinkJob, Constants DEF Kept, GraphPlaces
<1>9. ASSUME ~overlapped, ~overlapped' PROVE CleanOK' /\ ClientsAreOwned'
  <2>1. Others(r) /\ CleanOK
    BY <1>1, <1>9, Alone DEF Idle, ServerInv
  <2>2. current \in Instances
    BY <1>1, CurrentIsBuilt, Constants DEF JobOK, KindOK, InstOK, JobRecord, ServerInv, StructOK
  <2>3. c \notin owned[current]
    BY <2>2 DEF Unused
  <2>4. PlanOK(job[r])' /\ Replaces(job'[r]) = Replaces(job[r])
    BY <1>1, <1>3, <1>4, <1>5, <2>1
       DEF PlanOK, Replaces, RebuiltOK, CleanOK, Kept, app, Rebuilding
  <2>5. MineOK(job[r])'
    BY <1>1, <1>3, <1>4, <1>5, <2>1, <2>2, <2>3, Constants DEF MineOK, CleanOK, Kept, app
  <2>6. CleanOK'
    BY <1>3, <1>4, <1>5, <1>9, <2>1, <2>3, <2>4, <2>5, QuietStep DEF app, ghosts, Kept
  <2>7. ASSUME NEW d \in Clients, link'[d] # "down"
        PROVE  (current # 0 /\ d \in owned[current]) \/ job'[r].client = d \/ d \in job'[r].todo
    <3>1. CASE d = c
      BY <1>3, <1>4, <3>1
    <3>2. CASE d # c
      BY <1>1, <1>3, <1>4, <1>5, <1>9, <2>1, <2>7, <3>2, OwnedBefore, Constants DEF JobOK, HandOK
    <3> QED  BY <3>1, <3>2
  <2> QED  BY <1>5, <2>6, <2>7, OwnedStep DEF app
<1> QED  BY <1>8, <1>9, Assembled

LEMMA FlushedStep ==
  ASSUME ServerInv, NEW r \in Tasks, Flushed(r), Notes
  PROVE  ServerInv'
<1> DEFINE new == [job[r] EXCEPT !.at = "close", !.todo = owned[job[r].inst]]
<1>1. /\ job[r] \in JobRecord /\ JobOK(r, job[r]) /\ job[r].at = "flush"
      /\ UNCHANGED <<app, locks, pluginVars, ghosts>>
  BY DEF ServerInv, StructOK, TypeOK, JobsOK, Flushed
<1>2. job[r].kind \in {"apply", "shutdown"} /\ job[r].inst \in Instances
  BY <1>1, CurrentIsBuilt DEF JobOK, KindOK, InstOK, JobRecord, GraphPlaces, ServerInv, StructOK
<1>3. owned[job[r].inst] \in SUBSET (Clients \cup Ids) /\ "close" \in Places
  BY <1>2 DEF ServerInv, StructOK, TypeOK, PluginsTypeOK, Places
<1>4. /\ new \in JobRecord /\ Kept(job[r], new) /\ new.at = "close" /\ new.client = job[r].client
      /\ new.id = job[r].id /\ new.todo = owned[job[r].inst]
  BY <1>1, <1>3 DEF JobRecord, Kept
<1>5. Moves(r) /\ job'[r] = new
  BY <1>4, GoMoves DEF ServerInv, StructOK, Flushed
<1> HIDE DEF new
<1>6. JobOK(r, job[r])'
  <2>1. KindOK(r, job[r])' /\ IdOK(job[r])'
    BY <1>1, <1>2, <1>4, <1>5 DEF JobOK, KindOK, IdOK, Kept, Rebuilding, GraphPlaces
  <2>2. InstOK(job[r])'
    BY <1>1, <1>2, <1>4, <1>5 DEF JobOK, InstOK, app, Kept
  <2>3. owned[job[r].inst] \subseteq Clients
    BY <1>2 DEF ServerInv, StructOK, TypeOK, PluginsTypeOK
  <2>4. HandOK(job[r])'
    BY <1>1, <1>2, <1>4, <1>5, <2>3 DEF JobOK, HandOK, Again, Kept
  <2> QED  BY <2>1, <2>2, <2>4 DEF JobOK
<1>7. LockMoves(r)
  BY <1>1, <1>4, <1>5 DEF ServerInv, StructOK, LockMoves, LocksOK, Inside, Applying, locks, Kept
<1>8. StructOK'
  BY <1>1, <1>4, <1>5, <1>6, <1>7, OnlyJob
     DEF Kept, GraphPlaces, locks, ServerInv, StructOK, TypeOK
<1>9. ASSUME ~overlapped, ~overlapped' PROVE CleanOK' /\ ClientsAreOwned'
  <2>1. Others(r) /\ CleanOK
    BY <1>1, <1>9, Alone DEF Idle, ServerInv
  <2>2. PlanOK(job[r])' /\ Replaces(job'[r]) = Replaces(job[r])
    BY <1>1, <1>4, <1>5, <2>1
       DEF PlanOK, Replaces, RebuiltOK, CleanOK, Kept, app, pluginVars, Rebuilding, JobOK,
           HandOK, NoHandles
  <2>3. MineOK(job[r])'
    BY <1>1, <1>2, <1>4, <1>5 DEF MineOK, JobOK, HandOK, InstOK, Kept, app, pluginVars
  <2>4. CleanOK'
    BY <1>1, <1>4, <1>5, <1>9, <2>1, <2>2, <2>3, QuietStep DEF app, pluginVars, ghosts, Kept
  <2>5. ASSUME NEW d \in Clients, link'[d] # "down"
        PROVE  (current # 0 /\ d \in owned[current]) \/ d \in job'[r].todo
    BY <1>1, <1>4, <1>5, <1>9, <2>1, <2>5, OwnedBefore, Constants
       DEF JobOK, HandOK, Again, pluginVars
  <2> QED  BY <1>1, <2>4, <2>5, OwnedStep DEF app, pluginVars
<1> QED  BY <1>8, <1>9, Assembled

LEMMA ReapplyOneStep ==
  ASSUME ServerInv, NEW r \in Tasks, NEW id \in Ids, ReapplyOne(r, id), Notes
  PROVE  ServerInv'
<1> DEFINE new == [job[r] EXCEPT !.at = "link", !.id = id, !.write = saved[id] = "write",
                                 !.todo = @ \ {id}]
<1>1. /\ job[r] \in JobRecord /\ JobOK(r, job[r]) /\ job[r].at = "again" /\ id \in job[r].todo
      /\ UNCHANGED <<app, locks, pluginVars, ghosts>>
  BY DEF ServerInv, StructOK, TypeOK, JobsOK, ReapplyOne
<1>2. job[r].kind = "apply"
  BY <1>1 DEF JobOK, KindOK, JobRecord, GraphPlaces
<1>3. /\ job[r].todo \in SUBSET (Clients \cup Ids)
      /\ (job[r].todo \ {id}) \in SUBSET (Clients \cup Ids)
      /\ "link" \in Places /\ id \in Targets /\ (saved[id] = "write") \in BOOLEAN
  BY <1>1 DEF JobRecord, Places, Targets
<1>4. /\ new \in JobRecord /\ Kept(job[r], new) /\ new.at = "link" /\ new.client = job[r].client
      /\ new.id = id /\ new.todo = job[r].todo \ {id} /\ new.write = (saved[id] = "write")
  BY <1>1, <1>3 DEF JobRecord, Kept
<1>5. Moves(r) /\ job'[r] = new
  BY <1>4, GoMoves DEF ServerInv, StructOK, ReapplyOne
<1> HIDE DEF new
<1>6. JobOK(r, job[r])'
  <2>1. KindOK(r, job[r])' /\ IdOK(job[r])'
    BY <1>1, <1>2, <1>4, <1>5 DEF JobOK, KindOK, IdOK, Kept, Rebuilding, GraphPlaces
  <2>2. InstOK(job[r])'
    BY <1>1, <1>2, <1>4, <1>5 DEF JobOK, InstOK, app, Kept
  <2>3. HandOK(job[r])'
    BY <1>1, <1>2, <1>4, <1>5 DEF JobOK, HandOK, Again, Kept
  <2> QED  BY <2>1, <2>2, <2>3 DEF JobOK
<1>7. LockMoves(r)
  BY <1>1, <1>2, <1>4, <1>5 DEF ServerInv, StructOK, LockMoves, LocksOK, Inside, Applying, locks, Kept
<1>8. StructOK'
  BY <1>1, <1>4, <1>5, <1>6, <1>7, OnlyJob
     DEF Kept, GraphPlaces, locks, ServerInv, StructOK, TypeOK
<1>9. ASSUME ~overlapped, ~overlapped' PROVE CleanOK' /\ ClientsAreOwned'
  <2>1. Others(r) /\ CleanOK
    BY <1>1, <1>9, Alone DEF Idle, ServerInv
  <2>2. PlanOK(job[r])' /\ Replaces(job'[r]) = Replaces(job[r])
    <3>1. PlanOK(job[r]) /\ Replaces(job[r]) /\ Replaces(job'[r]) /\ saved' = saved
      BY <1>1, <1>2, <1>4, <1>5, <2>1
         DEF Replaces, RebuiltOK, CleanOK, Kept, app, Rebuilding
    <3>2. job'[r].new[id] = NoHandle /\ \A k \in Ids : k \in job'[r].todo => job'[r].new[k] = NoHandle
      BY <1>1, <1>4, <1>5, <3>1 DEF PlanOK, Kept, JobOK, HandOK, Again
    <3> QED BY <1>4, <1>5, <3>1, <3>2 DEF PlanOK
  <2>3. MineOK(job[r])'
    BY <1>1, <1>2, <1>4, <1>5 DEF MineOK, JobOK, HandOK, Kept
  <2>4. CleanOK'
    BY <1>1, <1>4, <1>5, <1>9, <2>1, <2>2, <2>3, QuietStep DEF app, pluginVars, ghosts, Kept
  <2>5. ASSUME NEW d \in Clients, link'[d] # "down"
        PROVE  current # 0 /\ d \in owned[current]
    BY <1>1, <1>2, <1>9, <2>1, <2>5, OwnedBefore, Constants DEF JobOK, HandOK, Again, pluginVars
  <2> QED  BY <1>1, <2>4, <2>5, OwnedStep DEF app, pluginVars
<1> QED  BY <1>8, <1>9, Assembled

LEMMA ListFailsStep ==
  ASSUME ServerInv, NEW r \in Tasks, ListFails(r), Notes
  PROVE  ServerInv'
<1> DEFINE new == [job[r] EXCEPT !.at = "undo"]
<1>1. /\ job[r] \in JobRecord /\ JobOK(r, job[r]) /\ job[r].at = "list"
      /\ UNCHANGED <<app, locks, pluginVars, ghosts>>
  BY DEF ServerInv, StructOK, TypeOK, JobsOK, ListFails
<1>2. "undo" \in Places
  BY DEF Places
<1>3. /\ new \in JobRecord /\ Kept(job[r], new) /\ new.at = "undo" /\ new.client = job[r].client
      /\ new.id = job[r].id /\ new.todo = job[r].todo /\ new.write = job[r].write
  BY <1>1, <1>2 DEF JobRecord, Kept
<1>4. Moves(r) /\ job'[r] = new
  BY <1>3, GoMoves DEF ServerInv, StructOK, ListFails, At
<1> HIDE DEF new
<1>5. JobOK(r, job[r])'
  <2>1. KindOK(r, job[r])' /\ IdOK(job[r])'
    BY <1>1, <1>3, <1>4 DEF JobOK, KindOK, IdOK, Kept, Rebuilding, GraphPlaces
  <2>2. InstOK(job[r])'
    BY <1>1, <1>3, <1>4 DEF JobOK, InstOK, app, Kept
  <2>3. HandOK(job[r])'
    BY <1>1, <1>3, <1>4 DEF JobOK, HandOK, Again, Kept
  <2> QED  BY <2>1, <2>2, <2>3 DEF JobOK
<1>6. LockMoves(r)
  BY <1>1, <1>3, <1>4 DEF ServerInv, StructOK, LockMoves, LocksOK, Inside, Applying, locks, Kept
<1>7. StructOK'
  BY <1>1, <1>3, <1>4, <1>5, <1>6, OnlyJob
     DEF Kept, GraphPlaces, locks, ServerInv, StructOK, TypeOK
<1>8. ASSUME ~overlapped, ~overlapped' PROVE CleanOK' /\ ClientsAreOwned'
  <2>1. Others(r) /\ CleanOK
    BY <1>1, <1>8, Alone DEF Idle, ServerInv
  <2>2. PlanOK(job[r])' /\ Replaces(job'[r]) = Replaces(job[r])
    BY <1>1, <1>3, <1>4, <2>1
       DEF PlanOK, Replaces, RebuiltOK, CleanOK, Kept, app, pluginVars, Rebuilding
  <2>3. MineOK(job[r])'
    BY <1>1, <1>3, <1>4, <2>1 DEF MineOK, CleanOK, Kept, app, pluginVars
  <2>4. CleanOK'
    BY <1>1, <1>3, <1>4, <1>8, <2>1, <2>2, <2>3, QuietStep DEF app, pluginVars, ghosts, Kept
  <2>5. ASSUME NEW d \in Clients, link'[d] # "down"
        PROVE  (current # 0 /\ d \in owned[current]) \/ job'[r].client = d \/ d \in job'[r].todo
    BY <1>1, <1>3, <1>4, <1>8, <2>1, <2>5, OwnedBefore DEF pluginVars
  <2> QED  BY <1>1, <2>4, <2>5, OwnedStep DEF app, pluginVars
<1> QED  BY <1>7, <1>8, Assembled

(* Where a failed connection leads. *)
LEMMA NotConnectedJob ==
  ASSUME ServerInv, NEW r \in Tasks, job[r].at \in {"link", "undo"}, NotConnected(r),
         UNCHANGED current
  PROVE  /\ Moves(r) /\ LockMoves(r) /\ JobOK(r, job[r])'
         /\ applyLock' \in Tasks \cup {Nobody} /\ integrationLock' \in Tasks \cup {Nobody}
         /\ job'[r].kind \in {job[r].kind, "none"} /\ job'[r].at \in {"again", "free"}
         /\ job'[r].new = job[r].new /\ job'[r].client = Nobody /\ job'[r].todo = job[r].todo
         /\ Replaces(job'[r]) = Replaces(job[r]) /\ (Replaces(job[r]) => job'[r].at = "again")
<1>1. /\ job[r] \in JobRecord /\ JobOK(r, job[r])
      /\ applyLock \in Tasks \cup {Nobody} /\ integrationLock \in Tasks \cup {Nobody}
  BY DEF ServerInv, StructOK, TypeOK, JobsOK
<1>2. job[r].kind \in {"apply", "connect"}
  BY <1>1 DEF JobOK, KindOK, JobRecord, GraphPlaces
<1>3. CASE job[r].kind = "apply"
  <2> DEFINE new == [job[r] EXCEPT !.at = "again", !.client = Nobody]
  <2>1. "again" \in Places /\ Nobody \in Someone
    BY DEF Places, Someone
  <2>2. /\ new \in JobRecord /\ Kept(job[r], new) /\ new.at = "again" /\ new.client = Nobody
        /\ new.id = job[r].id /\ new.todo = job[r].todo
    BY <1>1, <2>1 DEF JobRecord, Kept
  <2>3. Moves(r) /\ job'[r] = new
    BY <1>3, <2>2, GoMoves DEF ServerInv, StructOK, NotConnected
  <2> HIDE DEF new
  <2>4. LockMoves(r)
    BY <1>1, <1>3, <2>2, <2>3
       DEF ServerInv, StructOK, LockMoves, LocksOK, Inside, Applying, locks, Kept, NotConnected
  <2>5. KindOK(r, job[r])' /\ IdOK(job[r])'
    BY <1>1, <1>3, <2>2, <2>3 DEF JobOK, KindOK, IdOK, Kept, Rebuilding, GraphPlaces
  <2>6. InstOK(job[r])'
    BY <1>1, <1>3, <2>2, <2>3 DEF JobOK, InstOK, Kept
  <2>7. HandOK(job[r])'
    BY <1>1, <1>3, <2>2, <2>3 DEF JobOK, HandOK, Again, Kept
  <2> QED  BY <1>1, <1>3, <2>2, <2>3, <2>4, <2>5, <2>6, <2>7
              DEF JobOK, Kept, NotConnected, locks, Replaces, Rebuilding
<1>4. CASE job[r].kind = "connect"
  <2>1. Moves(r) /\ job'[r] = Free
    BY <1>4, FreeRecord, GoMoves DEF ServerInv, StructOK, NotConnected, Return
  <2>2. LockMoves(r)
    BY <1>1, <1>4, <2>1, FreeRecord, Constants
       DEF ServerInv, StructOK, LockMoves, LocksOK, Inside, Applying, NotConnected
  <2>3. JobOK(r, job[r])'
    BY <2>1, FreeRecord DEF JobOK, KindOK, IdOK, InstOK, HandOK, Again, GraphPlaces
  <2>4. job[r].new = NoHandles /\ job[r].todo = {}
    BY <1>1, <1>4 DEF JobOK, HandOK, Again
  <2> QED  BY <1>1, <1>4, <2>1, <2>2, <2>3, <2>4, FreeRecord DEF NotConnected, Replaces
<1> QED  BY <1>2, <1>3, <1>4

LEMMA LinkFailsStep ==
  ASSUME ServerInv, NEW r \in Tasks, LinkFails(r), Notes
  PROVE  ServerInv'
<1>1. /\ job[r] \in JobRecord /\ JobOK(r, job[r]) /\ job[r].at = "link" /\ NotConnected(r)
      /\ UNCHANGED <<app, pluginVars, ghosts>>
  BY DEF ServerInv, StructOK, TypeOK, JobsOK, LinkFails
<1>2. UNCHANGED current
  BY <1>1 DEF app
<1>3. StructOK'
  BY <1>1, <1>2, NotConnectedJob, OnlyJob DEF GraphPlaces
<1>4. ASSUME ~overlapped, ~overlapped' PROVE CleanOK' /\ ClientsAreOwned'
  <2>1. Others(r) /\ CleanOK
    BY <1>1, <1>4, Alone DEF Idle, ServerInv
  <2>2. PlanOK(job[r])'
    BY <1>1, <1>2, <2>1, NotConnectedJob
       DEF PlanOK, Replaces, RebuiltOK, CleanOK, app, pluginVars, Rebuilding
  <2>3. MineOK(job[r])'
    BY <1>1, <1>2, NotConnectedJob DEF MineOK, JobOK, KindOK
  <2>4. CleanOK'
    BY <1>1, <1>2, <1>4, <2>1, <2>2, <2>3, NotConnectedJob, QuietStep DEF app, pluginVars, ghosts
  <2>5. ASSUME NEW d \in Clients, link'[d] # "down"
        PROVE  (current # 0 /\ d \in owned[current]) \/ d \in job'[r].todo
    BY <1>1, <1>2, <1>4, <2>1, <2>5, OwnedBefore, NotConnectedJob, Constants DEF JobOK, HandOK, pluginVars
  <2> QED  BY <1>1, <2>4, <2>5, OwnedStep DEF app, pluginVars
<1> QED  BY <1>3, <1>4, Assembled

LEMMA UndoneStep ==
  ASSUME ServerInv, NEW r \in Tasks, Undone(r), Notes
  PROVE  ServerInv'
<1>1. /\ job[r] \in JobRecord /\ JobOK(r, job[r]) /\ job[r].at = "undo" /\ NotConnected(r)
      /\ UNCHANGED <<app, owned, registry, domain, dirTerrs, ghosts>>
      /\ link' = [link EXCEPT ![job[r].client] = "down"]
      /\ link \in [Clients -> Links] /\ owned \in [Instances -> SUBSET Clients]
  BY DEF ServerInv, StructOK, TypeOK, PluginsTypeOK, JobsOK, Undone, Down
<1>2. UNCHANGED current
  BY <1>1 DEF app
<1>3. job[r].client \in Clients
  BY <1>1 DEF JobOK, HandOK
<1>4. StructOK'
  <2>1. link' \in [Clients -> Links] /\ owned' \in [Instances -> SUBSET Clients]
    BY <1>1 DEF Links
  <2>2. \A c \in Clients : link'[c] # "down" => link[c] # "down"
    BY <1>1
  <2> QED  BY <1>1, <1>2, <2>1, <2>2, NotConnectedJob, LinkJob, Constants DEF GraphPlaces
<1>5. ASSUME ~overlapped, ~overlapped' PROVE CleanOK' /\ ClientsAreOwned'
  <2>1. Others(r) /\ CleanOK
    BY <1>1, <1>5, Alone DEF Idle, ServerInv
  <2>2. current \in Instances /\ job[r].client \notin owned[current]
    BY <1>3, <2>1, CurrentIsBuilt, Constants DEF CleanOK, MineOK, ServerInv, StructOK
  <2>3. PlanOK(job[r])'
    BY <1>1, <1>2, <2>1, NotConnectedJob DEF PlanOK, Replaces, RebuiltOK, CleanOK, app, Rebuilding
  <2>4. MineOK(job[r])'
    BY <1>1, <1>2, NotConnectedJob DEF MineOK, JobOK, KindOK
  <2>5. \A c \in owned[current] : link'[c] = link[c]
    BY <1>1, <2>2
  <2>6. CleanOK'
    BY <1>1, <1>2, <1>5, <2>1, <2>3, <2>4, <2>5, NotConnectedJob, QuietStep DEF app, ghosts
  <2>7. ASSUME NEW d \in Clients, link'[d] # "down"
        PROVE  (current # 0 /\ d \in owned[current]) \/ d \in job'[r].todo
    <3>1. d # job[r].client /\ link[d] # "down"
      BY <1>1, <1>3, <2>7
    <3> QED  BY <1>1, <1>2, <1>5, <2>1, <3>1, OwnedBefore, NotConnectedJob
  <2> QED  BY <1>1, <2>6, <2>7, OwnedStep DEF app
<1> QED  BY <1>4, <1>5, Assembled

LEMMA CloseOneStep ==
  ASSUME ServerInv, NEW r \in Tasks, CloseOne(r), Notes
  PROVE  ServerInv'
<1>1. /\ job[r] \in JobRecord /\ JobOK(r, job[r]) /\ job[r].at = "close"
      /\ UNCHANGED <<app, locks, registry, domain, dirTerrs, ghosts>>
      /\ link \in [Clients -> Links] /\ owned \in [Instances -> SUBSET Clients]
      /\ applyLock \in Tasks \cup {Nobody} /\ integrationLock \in Tasks \cup {Nobody}
  BY DEF ServerInv, StructOK, TypeOK, PluginsTypeOK, JobsOK, CloseOne
<1>2. /\ job[r].kind \in {"apply", "shutdown"} /\ job[r].inst \in Instances
      /\ current \in Instances /\ current # 0 /\ job[r].inst \in 1..current
      /\ job[r].kind = "apply" => job[r].inst # current
      /\ job[r].kind = "shutdown" => job[r].inst = current /\ serving = "down"
      /\ job[r].todo \subseteq Clients /\ job[r].client = Nobody /\ job[r].new = NoHandles
  <2>1. job[r].kind \in {"apply", "shutdown"}
    BY <1>1 DEF JobOK, KindOK, JobRecord, GraphPlaces
  <2>2. job[r].kind = "shutdown" => serving = "down"
    BY <1>1 DEF JobOK, KindOK, PhaseOK, ServerInv, StructOK, TypeOK
  <2>3. /\ current \in Nat /\ (current # 0 => current \in Instances)
        /\ \A i \in 1..current : i \in Instances
    BY CurrentIsBuilt DEF ServerInv, StructOK
  <2> QED  BY <1>1, <2>1, <2>2, <2>3 DEF JobOK, InstOK, HandOK
<1>3. CASE job[r].todo # {}
  <2> PICK c \in job[r].todo : /\ Down(c) /\ Go(r, [job[r] EXCEPT !.todo = @ \ {c}])
                               /\ UNCHANGED owned
    BY <1>3 DEF CloseOne
  <2> DEFINE new == [job[r] EXCEPT !.todo = @ \ {c}]
  <2>1. (job[r].todo \ {c}) \in SUBSET (Clients \cup Ids) /\ c \in Clients
    BY <1>2
  <2>2. /\ new \in JobRecord /\ Kept(job[r], new) /\ new.at = "close" /\ new.client = Nobody
        /\ new.id = job[r].id /\ new.todo = job[r].todo \ {c}
    BY <1>1, <1>2, <2>1 DEF JobRecord, Kept
  <2>3. Moves(r) /\ job'[r] = new
    BY <2>2, GoMoves DEF ServerInv, StructOK
  <2> HIDE DEF new
  <2>4. JobOK(r, job[r])'
    <3>1. KindOK(r, job[r])' /\ IdOK(job[r])'
      BY <1>1, <1>2, <2>2, <2>3 DEF JobOK, KindOK, IdOK, Kept, Rebuilding, GraphPlaces
    <3>2. InstOK(job[r])' /\ HandOK(job[r])'
      BY <1>1, <1>2, <2>2, <2>3 DEF JobOK, InstOK, HandOK, Again, app, Kept
    <3> QED  BY <3>1, <3>2 DEF JobOK
  <2>5. LockMoves(r)
    BY <1>1, <2>2, <2>3 DEF ServerInv, StructOK, LockMoves, LocksOK, Inside, Applying, locks, Kept
  <2>6. link' = [link EXCEPT ![c] = "down"]
    BY DEF Down
  <2>7. StructOK'
    <3>1. link' \in [Clients -> Links] /\ owned' \in [Instances -> SUBSET Clients]
      BY <1>1, <2>6 DEF Links
    <3>2. \A d \in Clients : link'[d] # "down" => link[d] # "down"
      BY <1>1, <2>6
    <3> QED  BY <1>1, <2>2, <2>3, <2>4, <2>5, <3>1, <3>2, LinkJob, Constants
                DEF Kept, GraphPlaces, locks
  <2>8. ASSUME ~overlapped, ~overlapped' PROVE CleanOK' /\ ClientsAreOwned'
    <3>1. Others(r) /\ CleanOK
      BY <1>1, <2>8, Alone DEF Idle, ServerInv
    <3>2. PlanOK(job[r])' /\ Replaces(job'[r]) = Replaces(job[r])
      BY <1>1, <1>2, <2>2, <2>3, <3>1
         DEF PlanOK, Replaces, RebuiltOK, CleanOK, Kept, app, Rebuilding
    <3>3. MineOK(job[r])'
      BY <1>1, <1>2, <2>1, <2>2, <2>3, <2>6, <3>1 DEF MineOK, CleanOK, Kept, app
    <3>4. serving # "down" => owned[current] = {}
      BY <1>1, <1>2, <3>1 DEF CleanOK, RebuiltOK, PlanOK, Replaces, Rebuilding
    <3>5. CleanOK'
      BY <1>1, <2>2, <2>3, <2>8, <3>1, <3>2, <3>3, <3>4, QuietStep DEF app, ghosts, Kept
    <3>6. ASSUME NEW d \in Clients, link'[d] # "down"
          PROVE  (current # 0 /\ d \in owned[current]) \/ d \in job'[r].todo
      <4>1. d # c /\ link[d] # "down"
        BY <1>1, <2>1, <2>6, <3>6
      <4> QED  BY <1>1, <1>2, <2>2, <2>3, <2>8, <3>1, <4>1, OwnedBefore, Constants
    <3> QED  BY <1>1, <3>5, <3>6, OwnedStep DEF app
  <2> QED  BY <2>7, <2>8, Assembled
<1>4. CASE job[r].todo = {}
  <2> DEFINE ids == {id \in Ids : saved[id] # "none"}
             new == IF job[r].kind = "shutdown" THEN Free
                    ELSE [job[r] EXCEPT !.at = "again", !.inst = current, !.todo = ids]
  <2>1. /\ owned' = [owned EXCEPT ![job[r].inst] = {}] /\ Go(r, new) /\ UNCHANGED link
    BY <1>4 DEF CloseOne
  <2>2. ids \in SUBSET (Clients \cup Ids) /\ current \in SomeInst /\ "again" \in Places
    BY <1>2 DEF SomeInst, Places
  <2> HIDE DEF ids
  <2>3. /\ new \in JobRecord /\ new.client = Nobody /\ new.new = NoHandles
        /\ job[r].kind = "shutdown" => new = Free
        /\ job[r].kind = "apply" => /\ new.kind = "apply" /\ new.at = "again"
                                    /\ new.inst = current /\ new.todo = ids
    BY <1>1, <1>2, <2>2, FreeRecord DEF JobRecord
  <2>4. Moves(r) /\ job'[r] = new
    BY <2>1, <2>3, GoMoves DEF ServerInv, StructOK
  <2> HIDE DEF new
  <2>5. JobOK(r, job[r])'
    <3>1. CASE job[r].kind = "shutdown"
      BY <2>3, <2>4, <3>1, FreeRecord DEF JobOK, KindOK, IdOK, InstOK, HandOK, Again, GraphPlaces
    <3>2. CASE job[r].kind = "apply"
      BY <1>1, <1>2, <2>3, <2>4, <3>2
         DEF JobOK, KindOK, IdOK, InstOK, HandOK, Again, GraphPlaces, Rebuilding, app, ids
    <3> QED  BY <1>2, <3>1, <3>2
  <2>6. LockMoves(r)
    BY <1>1, <1>2, <2>3, <2>4, FreeRecord
       DEF ServerInv, StructOK, LockMoves, LocksOK, Inside, Applying, locks
  <2>7. StructOK'
    <3>1. link' \in [Clients -> Links] /\ owned' \in [Instances -> SUBSET Clients]
      BY <1>1, <2>1
    <3>2. \A i \in Instances : owned'[i] \subseteq owned[i] /\ (i > current => owned'[i] = owned[i])
      BY <1>1, <1>2, <2>1, Constants
    <3>3. /\ job'[r].kind \in {job[r].kind, "none"} /\ job'[r].new = job[r].new
          /\ job'[r].at \in {"again", "free"}
      BY <1>2, <2>3, <2>4, FreeRecord
    <3> QED  BY <1>1, <2>1, <2>4, <2>5, <2>6, <3>1, <3>2, <3>3, LinkJob DEF GraphPlaces, locks
  <2>8. ASSUME ~overlapped, ~overlapped' PROVE CleanOK' /\ ClientsAreOwned'
    <3>1. Others(r) /\ CleanOK
      BY <1>1, <2>8, Alone DEF Idle, ServerInv
    <3>2. PlanOK(job[r])' /\ Replaces(job'[r]) = Replaces(job[r])
      BY <1>1, <1>2, <2>3, <2>4, FreeRecord DEF PlanOK, Replaces, Rebuilding, NoHandles
    <3>3. MineOK(job[r])'
      BY <1>2, <2>3, <2>4, FreeRecord DEF MineOK
    <3>4. serving # "down" => owned'[current] = owned[current]
      BY <1>1, <1>2, <2>1
    <3>5. CleanOK'
      BY <1>1, <1>2, <2>1, <2>3, <2>4, <2>8, <3>1, <3>2, <3>3, <3>4, FreeRecord, QuietStep
         DEF app, ghosts
    <3>6. ASSUME NEW d \in Clients, link'[d] # "down"
          PROVE  current # 0 /\ d \in owned'[current]
      <4>1. current # 0 /\ d \in owned[current]
        BY <1>1, <1>2, <1>4, <2>1, <2>8, <3>1, <3>6, OwnedBefore, Constants
      <4>2. job[r].kind # "shutdown"
        BY <1>1, <1>4, <2>1, <3>1, <3>6, <4>1 DEF CleanOK, MineOK
      <4> QED  BY <1>1, <1>2, <2>1, <4>1, <4>2
    <3> QED  BY <1>1, <3>5, <3>6, OwnedStep DEF app
  <2> QED  BY <2>7, <2>8, Assembled
<1> QED  BY <1>3, <1>4

LEMMA ReappliedStep ==
  ASSUME ServerInv, NEW r \in Tasks, Reapplied(r), Notes
  PROVE  ServerInv'
<1> DEFINE new == IF EnvRepo = Nobody THEN Free
                  ELSE [job[r] EXCEPT !.at = "lock", !.id = EnvRepo]
<1>1. /\ job[r] \in JobRecord /\ JobOK(r, job[r]) /\ job[r].at = "again" /\ job[r].todo = {}
      /\ UNCHANGED <<integrationLock, current, built, saved, graph, pluginVars, ghosts>>
      /\ runtime' = job[r].new /\ Go(r, new)
      /\ applyLock' = IF EnvRepo = Nobody THEN Nobody ELSE applyLock
      /\ applyLock \in Tasks \cup {Nobody} /\ job[r].new \in [Ids -> Handles]
  BY DEF ServerInv, StructOK, TypeOK, JobsOK, Reapplied, Rebuilt, Return, JobRecord
<1>2. job[r].kind = "apply" /\ job[r].client = Nobody
  BY <1>1 DEF JobOK, KindOK, HandOK, JobRecord, GraphPlaces
<1>3. "lock" \in Places /\ EnvRepo \in Targets
  BY ServerAssumption DEF Places, Targets
<1>4. /\ new \in JobRecord /\ new.client = Nobody /\ new.todo = {}
      /\ \A id \in Ids : new.new[id] = NoHandle \/ new.new[id] = job[r].new[id]
      /\ EnvRepo = Nobody => new = Free
      /\ EnvRepo # Nobody => /\ Kept(job[r], new) /\ new.at = "lock" /\ new.id = EnvRepo
  BY <1>1, <1>2, <1>3, FreeRecord DEF JobRecord, Kept, NoHandles
<1>5. Moves(r) /\ job'[r] = new
  BY <1>1, <1>4, GoMoves DEF ServerInv, StructOK
<1> HIDE DEF new
<1>6. JobOK(r, job[r])'
  <2>1. CASE EnvRepo = Nobody
    BY <1>4, <1>5, <2>1, FreeRecord DEF JobOK, KindOK, IdOK, InstOK, HandOK, Again, GraphPlaces
  <2>2. CASE EnvRepo # Nobody
    BY <1>1, <1>2, <1>4, <1>5, <2>2, ServerAssumption
       DEF JobOK, KindOK, IdOK, InstOK, HandOK, Again, GraphPlaces, Rebuilding, Kept
  <2> QED  BY <2>1, <2>2
<1>7. LockMoves(r)
  <2>1. applyLock = r /\ integrationLock # r
    BY <1>1, <1>2 DEF ServerInv, StructOK, LocksOK, Applying, Inside
  <2>2. CASE EnvRepo = Nobody
    BY <1>1, <1>4, <1>5, <2>1, <2>2, FreeRecord, Constants DEF LockMoves, Inside, Applying
  <2>3. CASE EnvRepo # Nobody
    BY <1>1, <1>2, <1>4, <1>5, <2>1, <2>3 DEF LockMoves, Inside, Applying, Kept
  <2> QED  BY <2>2, <2>3
<1>8. StructOK'
  <2>1. TypeOK'
    BY <1>1, <1>5
       DEF ServerInv, StructOK, TypeOK, PluginsTypeOK, Moves, Notes, pluginVars, ghosts
  <2>2. job'[r].kind \in {job[r].kind, "none"} /\ job'[r].at \in {"lock", "free"}
    BY <1>4, <1>5, FreeRecord DEF Kept
  <2>3. JobsOK' /\ LocksOK' /\ PhaseOK'
    BY <1>1, <1>5, <1>6, <1>7, <2>2, Framed DEF ghosts
  <2>4. BuiltOK'
    BY <1>1, <1>5, <2>2, BuiltKept DEF pluginVars
  <2>5. HandlesOK'
    BY <1>1, <1>4, <1>5 DEF ServerInv, StructOK, HandlesOK, RealHandles, Moves
  <2>6. GraphsOK'
    BY <1>1, <1>5, <2>2, GraphKept DEF pluginVars, ghosts, GraphPlaces
  <2> QED  BY <2>1, <2>3, <2>4, <2>5, <2>6 DEF StructOK
<1>9. ASSUME ~overlapped, ~overlapped' PROVE CleanOK' /\ ClientsAreOwned'
  <2>1. Others(r) /\ CleanOK
    BY <1>1, <1>9, Alone DEF Idle, ServerInv
  <2>2. ~Replaces(job'[r])
    BY <1>4, <1>5, FreeRecord DEF Replaces, Rebuilding
  <2>3. RebuiltOK(job[r])' /\ MineOK(job[r])'
    BY <1>2, <1>4, <1>5, <2>2, FreeRecord DEF RebuiltOK, PlanOK, MineOK, Replaces, Rebuilding, Kept
  <2>4. InForce(runtime)'
    <3> PICK hs : hs = job[r].new
      OBVIOUS
    <3>1. InForce(hs) /\ \A id \in Ids : hs[id] \in RealHandles
      BY <1>1, <1>2, <2>1
         DEF CleanOK, RebuiltOK, Replaces, Rebuilding, ServerInv, StructOK, HandlesOK
    <3> QED  BY <1>1, <3>1, InForceKept, RuntimeInForce DEF pluginVars, ghosts
  <2>5. GraphIsUp'
    BY <1>1, <2>1 DEF GraphIsUp, CleanOK, pluginVars, ghosts
  <2>6. CleanOK'
    BY <1>5, <2>1, <2>3, <2>4, <2>5, CleanStep
  <2>7. ASSUME NEW d \in Clients, link'[d] # "down"
        PROVE  current # 0 /\ d \in owned[current]
    BY <1>1, <1>2, <1>9, <2>1, <2>7, OwnedBefore, Constants DEF pluginVars
  <2> QED  BY <1>1, <2>6, <2>7, OwnedStep DEF pluginVars
<1> QED  BY <1>8, <1>9, Assembled

(* The tools are there: for an apply the handle is one of the new ones. *)
LEMMA ListedStep ==
  ASSUME ServerInv, NEW r \in Tasks, Listed(r), Notes
  PROVE  ServerInv'
<1> PICK i, id, w, c, h : /\ i = job[r].inst /\ id = job[r].id /\ w = job[r].write
                          /\ c = job[r].client /\ h = [client |-> c, write |-> w]
  OBVIOUS
<1> DEFINE hs == [job[r].new EXCEPT ![id] = h]
           new == IF job[r].kind = "apply"
                  THEN [job[r] EXCEPT !.at = "again", !.client = Nobody, !.new[id] = h]
                  ELSE Free
<1>1. /\ job[r] \in JobRecord /\ JobOK(r, job[r]) /\ job[r].at = "list" /\ PluginsTypeOK
      /\ UNCHANGED <<link, dirTerrs, ghosts, applyLock, current, built, graph>>
      /\ registry' = [registry EXCEPT ![i] = Put(@, Names_(id, w), c)]
      /\ owned' = [owned EXCEPT ![i] = @ \cup {c}]
      /\ domain' = [domain EXCEPT ![i][id] = Record(@, Names_(id, w))]
      /\ job[r].kind = "apply" => UNCHANGED <<runtime, saved, integrationLock>>
      /\ job[r].kind # "apply" => /\ runtime' = [runtime EXCEPT ![id] = h]
                                  /\ saved' = [saved EXCEPT ![id] = Mode(w)]
                                  /\ integrationLock' = Nobody
  BY DEF ServerInv, StructOK, TypeOK, JobsOK, Listed, Register, Own, Return, app, locks
<1>2. Go(r, new)
  BY DEF Listed, Return
<1>3. /\ job[r].kind \in {"apply", "connect"} /\ i \in Instances /\ i <= current /\ current \in Nat
      /\ id \in Ids /\ w \in BOOLEAN /\ c \in Clients \ GraphClients /\ h \in Handles /\ c # Nobody
      /\ job[r].kind = "connect" => job[r].new = NoHandles /\ job[r].todo = {}
      /\ job[r].kind = "apply" => i = current /\ job[r].todo \subseteq Ids
  <2>1. job[r].kind \in {"apply", "connect"}
    BY <1>1 DEF JobOK, KindOK, JobRecord, GraphPlaces
  <2>2. /\ current \in Nat /\ (current # 0 => current \in Instances)
        /\ \A k \in 1..current : k \in Instances
    BY CurrentIsBuilt DEF ServerInv, StructOK
  <2>3. c \in Clients \ GraphClients /\ w \in BOOLEAN /\ id \in Ids
    BY <1>1 DEF JobOK, HandOK, IdOK, JobRecord
  <2>4. h \in Handles /\ c # Nobody
    BY <2>3, Constants DEF Handles, Someone
  <2>5. i \in Instances /\ i <= current /\ (job[r].kind = "apply" => i = current)
    BY <1>1, <2>1, <2>2 DEF JobOK, InstOK
  <2> QED  BY <1>1, <2>1, <2>2, <2>3, <2>4, <2>5 DEF JobOK, HandOK, Again
<1>4. /\ hs \in [Ids -> Handles] /\ hs[id] = h
      /\ \A k \in Ids : k # id => hs[k] = job[r].new[k]
  BY <1>1, <1>3 DEF JobRecord
<1>5. /\ job[r].kind = "apply" =>
           new = [job[r] EXCEPT !.at = "again", !.client = Nobody, !.new = hs]
      /\ job[r].kind # "apply" => new = Free
  OBVIOUS
<1> HIDE DEF hs, new
<1>6. /\ new \in JobRecord /\ new.client = Nobody
      /\ job[r].kind = "connect" => new = Free
      /\ job[r].kind = "apply" => /\ new.kind = "apply" /\ new.at = "again" /\ new.inst = i
                                  /\ new.id = id /\ new.todo = job[r].todo /\ new.new = hs
  <2>1. "again" \in Places /\ Nobody \in Someone
    BY DEF Places, Someone
  <2>2. CASE job[r].kind = "apply"
    <3>1. /\ new = [job[r] EXCEPT !.at = "again", !.client = Nobody, !.new = hs]
          /\ job[r] \in JobRecord /\ job[r].inst = i /\ job[r].id = id
      BY <1>1, <1>5, <2>2
    <3> QED  BY <1>4, <2>1, <2>2, <3>1 DEF JobRecord
  <2>3. CASE job[r].kind = "connect"
    BY <1>5, <2>3, FreeRecord
  <2> QED  BY <1>3, <2>2, <2>3
<1>7. Moves(r) /\ job'[r] = new
  BY <1>2, <1>6, GoMoves DEF ServerInv, StructOK
<1>8. JobOK(r, job[r])'
  <2>1. CASE job[r].kind = "connect"
    BY <1>6, <1>7, <2>1, FreeRecord DEF JobOK, KindOK, IdOK, InstOK, HandOK, Again, GraphPlaces
  <2>2. CASE job[r].kind = "apply"
    BY <1>1, <1>3, <1>6, <1>7, <2>2
       DEF JobOK, KindOK, IdOK, InstOK, HandOK, Again, GraphPlaces, Rebuilding
  <2> QED  BY <1>3, <2>1, <2>2
<1>9. LockMoves(r)
  <2>1. /\ Applying(job[r]) <=> applyLock = r
        /\ Inside(job[r]) <=> integrationLock = r
    BY DEF ServerInv, StructOK, LocksOK
  <2>2. CASE job[r].kind = "connect"
    BY <1>1, <1>6, <1>7, <2>1, <2>2, FreeRecord, Constants DEF LockMoves, Inside, Applying
  <2>3. CASE job[r].kind = "apply"
    BY <1>1, <1>6, <1>7, <2>1, <2>3 DEF LockMoves, Inside, Applying
  <2> QED  BY <1>3, <2>2, <2>3
<1>10. /\ registry' \in [Instances -> [Names -> Clients \cup Terrs \cup {Nobody}]]
       /\ \A n \in Names : registry'[i][n] = IF n \in Names_(id, w) THEN c ELSE registry[i][n]
       /\ \A k \in Instances : k # i => registry'[k] = registry[k]
  <2>1. c \in Clients \cup Terrs \cup {Nobody}
    BY <1>3
  <2>2. Put(registry[i], Names_(id, w), c) \in [Names -> Clients \cup Terrs \cup {Nobody}]
    BY <1>1, <1>3, <2>1 DEF Put, PluginsTypeOK
  <2> QED  BY <1>1, <1>3, <2>2 DEF Put, PluginsTypeOK
<1>11. StructOK'
  <2>1. domain' \in [Instances -> [Terrs -> Domains]]
    <3>1. id \in Terrs /\ Names_(id, w) \in SUBSET Names
      BY <1>3, ServerAssumption DEF Names_
    <3>2. domain[i][id] \in Domains
      BY <1>1, <1>3, <3>1 DEF PluginsTypeOK, Domains
    <3>3. Record(domain[i][id], Names_(id, w)) \in Domains
      BY <3>1, <3>2, RecordType
    <3> QED  BY <1>1, <1>3, <3>1, <3>3, DomainType
  <2>2. PluginsTypeOK'
    <3>1. owned' \in [Instances -> SUBSET Clients]
      BY <1>1, <1>3 DEF PluginsTypeOK
    <3> QED  BY <1>1, <1>10, <2>1, <3>1 DEF PluginsTypeOK, Domains
  <2>3. runtime' \in [Ids -> Handles] /\ saved' \in [Ids -> Modes]
    BY <1>1, <1>3 DEF ServerInv, StructOK, TypeOK, Mode, Modes
  <2>4. TypeOK'
    BY <1>1, <1>3, <1>7, <2>2, <2>3 DEF ServerInv, StructOK, TypeOK, Moves, Notes, ghosts
  <2>5. job'[r].kind \in {job[r].kind, "none"} /\ job'[r].at \in {"again", "free"}
    BY <1>3, <1>6, <1>7, FreeRecord
  <2>6. JobsOK' /\ LocksOK' /\ PhaseOK'
    BY <1>1, <1>7, <1>8, <1>9, <2>5, Framed DEF ghosts
  <2>7. BuiltOK'
    <3>1. ASSUME NEW k \in Instances, k > current
          PROVE  owned'[k] = owned[k] /\ graph'[k] = graph[k] /\ registry'[k] = registry[k]
      <4>1. k # i
        BY <1>3, <3>1, Constants
      <4> QED  BY <1>1, <1>3, <1>10, <4>1 DEF PluginsTypeOK
    <3> QED  BY <1>1, <1>7, <2>5, <3>1, BuiltKept
  <2>8. HandlesOK'
    <3>1. h \in RealHandles
      BY <1>3 DEF RealHandles
    <3>2. \A k \in Ids : runtime'[k] \in RealHandles
      BY <1>1, <1>3, <3>1 DEF ServerInv, StructOK, TypeOK, HandlesOK
    <3>3. \A k \in Ids : job'[r].new[k] \in RealHandles
      BY <1>3, <1>4, <1>6, <1>7, <3>1, FreeRecord
         DEF ServerInv, StructOK, HandlesOK, NoHandles, RealHandles
    <3> QED  BY <1>7, <3>2, <3>3 DEF ServerInv, StructOK, HandlesOK, Moves
  <2>9. GraphsOK'
    <3>1. ~Shared(Graph) => \A k \in Instances : registry'[k][Graph] = registry[k][Graph]
      BY <1>3, <1>10, ServerAssumption, ToolNames
    <3>2. \A k \in Instances, d \in GraphClients :
            d \in owned'[k] /\ link'[d] # "down" => d \in owned[k] /\ link[d] # "down"
      BY <1>1, <1>3 DEF PluginsTypeOK
    <3> QED  BY <1>1, <1>7, <2>5, <3>1, <3>2, GraphKept DEF ghosts, GraphPlaces
  <2> QED  BY <2>4, <2>6, <2>7, <2>8, <2>9 DEF StructOK
<1>12. ASSUME ~overlapped, ~overlapped' PROVE CleanOK' /\ ClientsAreOwned'
  <2>1. Others(r) /\ CleanOK
    BY <1>1, <1>12, Alone DEF Idle, ServerInv
  <2>2. i = current /\ current # 0 /\ serving # "down" /\ (job[r].kind = "connect" => ~Replacing)
    <3>1. CASE job[r].kind = "connect"
      BY <1>1, <1>12, <3>1, InsideIsCurrent DEF Inside
    <3>2. CASE job[r].kind = "apply"
      BY <1>1, <1>3, <3>2, ServerAssumption DEF ServerInv, StructOK, PhaseOK, JobOK, KindOK, InstOK
    <3> QED  BY <1>3, <3>1, <3>2
  <2>3. c \notin owned[current] /\ link[c] # "down"
    BY <1>1, <1>3, <2>1 DEF CleanOK, MineOK
  <2>4. owned'[current] = owned[current] \cup {c}
    BY <1>1, <1>3, <2>2 DEF PluginsTypeOK
  <2>5. /\ \A n \in Names : registry'[current][n] =
                              IF n \in Names_(id, w) THEN c ELSE registry[current][n]
        /\ current' = current /\ serving' = serving /\ link' = link
    BY <1>1, <1>10, <2>2 DEF ghosts
  <2>6. Replaces(job'[r]) => job[r].kind = "apply"
    BY <1>3, <1>6, <1>7, FreeRecord DEF Replaces
  <2>7. RebuiltOK(job[r])'
    <3> SUFFICES ASSUME job[r].kind = "apply" PROVE RebuiltOK(job[r])'
      BY <2>6 DEF RebuiltOK, PlanOK
    <3> PICK old : old = job[r].new
      OBVIOUS
    <3>1. /\ InForce(old) /\ old[id] = NoHandle /\ id \notin job[r].todo
          /\ w => saved[id] = "write"
          /\ \A k \in Ids : k \in job[r].todo => old[k] = NoHandle
      BY <1>1, <2>1 DEF CleanOK, RebuiltOK, PlanOK, Replaces, Rebuilding
    <3>2. old \in [Ids -> Handles] /\ \A k \in Ids : old[k] \in RealHandles
      BY <1>1 DEF JobRecord, ServerInv, StructOK, HandlesOK
    <3>3. InForce([old EXCEPT ![id] = [client |-> c, write |-> w]])'
      BY <1>1, <1>3, <2>2, <2>3, <2>4, <2>5, <3>1, <3>2, InForceListed
    <3>4. job'[r].new = [old EXCEPT ![id] = [client |-> c, write |-> w]]
      BY <1>6, <1>7 DEF hs
    <3>5. InForce(job[r].new)'
      BY <3>3, <3>4, NewInForce
    <3>6. PlanOK(job[r])'
      BY <1>3, <1>4, <1>6, <1>7, <3>1 DEF PlanOK
    <3> QED  BY <3>5, <3>6 DEF RebuiltOK
  <2>8. MineOK(job[r])'
    BY <1>3, <1>6, <1>7, FreeRecord DEF MineOK
  <2>9. ~Replaces(job'[r]) /\ current' # 0 => InForce(runtime)'
    <3> SUFFICES ASSUME job[r].kind = "connect" PROVE InForce(runtime)'
      BY <1>3, <1>6, <1>7 DEF Replaces, Rebuilding
    <3> PICK old : old = runtime
      OBVIOUS
    <3>1. InForce(old) /\ old[id] = NoHandle
      BY <1>1, <2>1, <2>2 DEF CleanOK, MineOK
    <3>2. old \in [Ids -> Handles] /\ \A k \in Ids : old[k] \in RealHandles
      BY DEF ServerInv, StructOK, TypeOK, HandlesOK
    <3>3. /\ w => saved'[id] = "write"
          /\ \A k \in Ids : k # id => saved'[k] = saved[k]
      BY <1>1, <1>3 DEF ServerInv, StructOK, TypeOK, Mode
    <3>4. InForce([old EXCEPT ![id] = [client |-> c, write |-> w]])'
      BY <1>3, <2>2, <2>3, <2>4, <2>5, <3>1, <3>2, <3>3, InForceListed
    <3> QED  BY <1>1, <3>4, RuntimeInForce
  <2>10. GraphIsUp'
    BY <1>1, <2>1, <2>4, <2>5 DEF GraphIsUp, CleanOK
  <2>11. CleanOK'
    BY <1>7, <2>1, <2>7, <2>8, <2>9, <2>10, CleanStep
  <2>12. ASSUME NEW d \in Clients, link'[d] # "down"
         PROVE  current # 0 /\ d \in owned'[current]
    BY <1>1, <1>3, <1>12, <2>1, <2>2, <2>4, <2>5, <2>12, OwnedBefore, Constants
  <2> QED  BY <2>5, <2>11, <2>12, OwnedStep
<1> QED  BY <1>11, <1>12, Assembled

(* Entering integration_lock without an overlap: the instance at hand is the
   current one, and no apply replaces it. *)
LEMMA EntersCurrent ==
  ASSUME ServerInv, Notes, ~overlapped', NEW r \in Tasks, Moves(r),
         job'[r].kind \in {"connect", "disconnect", "graph"}, job'[r].kind = job[r].kind,
         job'[r].inst = job[r].inst, integrationLock' = r, UNCHANGED current
  PROVE  ~Replacing /\ job[r].inst = current
<1>1. ~Overlap'
  BY DEF Notes
<1>2. Working(r)'
  BY DEF Working
<1>3. ~Replacing' /\ job[r].inst = current
  BY <1>1, <1>2 DEF Overlap
<1>4. ~Replacing
  BY <1>3 DEF Replacing, Moves
<1> QED  BY <1>3, <1>4

LEMMA ForgetStep ==
  ASSUME ServerInv, NEW r \in Tasks, EnterIntegration(r), Notes, runtime[job[r].id] # NoHandle
  PROVE  ServerInv'
<1> PICK i, id, h, c : i = job[r].inst /\ id = job[r].id /\ h = runtime[id] /\ c = h.client
  OBVIOUS
<1> DEFINE new == [job[r] EXCEPT !.at = "drop", !.client = c]
<1>1. /\ job[r] \in JobRecord /\ JobOK(r, job[r]) /\ job[r].at = "lock" /\ PluginsTypeOK
      /\ job[r].kind \in {"connect", "disconnect"} /\ integrationLock = Nobody
      /\ UNCHANGED <<applyLock, current, built, graph, saved, link, dirTerrs, ghosts>>
      /\ runtime' = [runtime EXCEPT ![id] = NoHandle] /\ runtime \in [Ids -> Handles]
      /\ registry' = [registry EXCEPT ![i] = Put(@, Names_(id, h.write), Nobody)]
      /\ owned' = [owned EXCEPT ![i] = @ \ {c}]
      /\ domain' = [domain EXCEPT ![i][id] = Forgotten(@)]
      /\ integrationLock' = r
  BY DEF ServerInv, StructOK, TypeOK, JobsOK, EnterIntegration, Forget, Unregister, Register, Disown
<1>2. Go(r, new)
  BY DEF EnterIntegration
<1>3. /\ i \in Instances /\ i <= current /\ current \in Nat /\ current # 0
      /\ id \in Ids /\ h \in Handles /\ h.write \in BOOLEAN /\ c \in Clients \ GraphClients
  <2>1. /\ current \in Nat /\ \A k \in 1..current : k \in Instances
    BY CurrentIsBuilt DEF ServerInv, StructOK
  <2>2. i \in 1..current /\ id \in Ids
    BY <1>1 DEF JobOK, InstOK, IdOK
  <2>3. h \in [client : Clients \ GraphClients, write : BOOLEAN] /\ h \in Handles
    BY <1>1, <2>2 DEF ServerInv, StructOK, HandlesOK, RealHandles
  <2> QED  BY <2>1, <2>2, <2>3
<1>4. c \in Someone /\ "drop" \in Places
  BY <1>3 DEF Someone, Places
<1>5. /\ new \in JobRecord /\ Kept(job[r], new) /\ new.at = "drop" /\ new.client = c
      /\ new.id = id /\ new.todo = job[r].todo
  BY <1>1, <1>4 DEF JobRecord, Kept
<1>6. Moves(r) /\ job'[r] = new
  BY <1>2, <1>5, GoMoves DEF ServerInv, StructOK
<1> HIDE DEF new
<1>7. JobOK(r, job[r])'
  <2>1. KindOK(r, job[r])' /\ IdOK(job[r])'
    BY <1>1, <1>3, <1>5, <1>6 DEF JobOK, KindOK, IdOK, Kept, GraphPlaces
  <2>2. InstOK(job[r])' /\ HandOK(job[r])'
    BY <1>1, <1>3, <1>5, <1>6 DEF JobOK, InstOK, HandOK, Again, Kept
  <2> QED  BY <2>1, <2>2 DEF JobOK
<1>8. LockMoves(r)
  BY <1>1, <1>5, <1>6, Constants DEF ServerInv, StructOK, LockMoves, LocksOK, Inside, Applying, Kept
<1>9. /\ registry' \in [Instances -> [Names -> Clients \cup Terrs \cup {Nobody}]]
      /\ \A n \in Names :
           registry'[i][n] = IF n \in Names_(id, h.write) THEN Nobody ELSE registry[i][n]
      /\ \A k \in Instances : k # i => registry'[k] = registry[k]
  <2>1. Put(registry[i], Names_(id, h.write), Nobody) \in [Names -> Clients \cup Terrs \cup {Nobody}]
    BY <1>1, <1>3 DEF Put, PluginsTypeOK
  <2> QED  BY <1>1, <1>3, <2>1 DEF Put, PluginsTypeOK
<1>10. owned' \in [Instances -> SUBSET Clients] /\ \A k \in Instances : owned'[k] \subseteq owned[k]
  BY <1>1, <1>3 DEF PluginsTypeOK
<1>11. StructOK'
  <2>1. domain' \in [Instances -> [Terrs -> Domains]]
    <3>1. id \in Terrs /\ {} \in SUBSET Names
      BY <1>3, ServerAssumption
    <3>2. domain[i][id] \in Domains
      BY <1>1, <1>3, <3>1 DEF PluginsTypeOK, Domains
    <3>3. Forgotten(domain[i][id]) \in Domains
      BY <3>1, <3>2, RecordType
    <3> QED  BY <1>1, <1>3, <3>1, <3>3, DomainType
  <2>2. PluginsTypeOK'
    BY <1>1, <1>9, <1>10, <2>1 DEF PluginsTypeOK, Domains
  <2>3. runtime' \in [Ids -> Handles] /\ NoHandle \in Handles
    BY <1>1 DEF NoHandle, Handles, Someone
  <2>4. TypeOK'
    BY <1>1, <1>6, <2>2, <2>3 DEF ServerInv, StructOK, TypeOK, Moves, Notes, ghosts
  <2>5. JobsOK' /\ LocksOK' /\ PhaseOK'
    BY <1>1, <1>5, <1>6, <1>7, <1>8, Framed DEF ghosts, Kept
  <2>6. BuiltOK'
    <3>1. ASSUME NEW k \in Instances, k > current
          PROVE  owned'[k] = owned[k] /\ graph'[k] = graph[k] /\ registry'[k] = registry[k]
      <4>1. k # i
        BY <1>3, <3>1, Constants
      <4> QED  BY <1>1, <1>3, <1>9, <4>1 DEF PluginsTypeOK
    <3> QED  BY <1>1, <1>5, <1>6, <3>1, BuiltKept
  <2>7. HandlesOK'
    BY <1>1, <1>5, <1>6 DEF ServerInv, StructOK, HandlesOK, RealHandles, Moves, Kept
  <2>8. GraphsOK'
    <3>1. ~Shared(Graph) => \A k \in Instances : registry'[k][Graph] = registry[k][Graph]
      BY <1>3, <1>9, ServerAssumption, ToolNames
    <3> QED  BY <1>1, <1>5, <1>6, <1>10, <3>1, GraphKept DEF ghosts, GraphPlaces
  <2> QED  BY <2>4, <2>5, <2>6, <2>7, <2>8 DEF StructOK
<1>12. ASSUME ~overlapped, ~overlapped' PROVE CleanOK' /\ ClientsAreOwned'
  <2>1. ~Replacing /\ i = current /\ current # 0
    BY <1>1, <1>3, <1>5, <1>6, <1>12, EntersCurrent DEF Kept
  <2>2. Others(r) /\ CleanOK
    BY <1>1, <1>12, <2>1, EntrantAlone DEF ServerInv
  <2>3. owned'[current] = owned[current] \ {c}
    BY <1>1, <1>3, <2>1 DEF PluginsTypeOK
  <2>4. InForce(runtime)'
    <3> PICK old : old = runtime
      OBVIOUS
    <3>1. /\ InForce(old) /\ old \in [Ids -> Handles]
          /\ \A k \in Ids : old[k] \in RealHandles
      BY <1>1, <2>1, <2>2 DEF CleanOK, ServerInv, StructOK, HandlesOK
    <3>2. old[id] = h /\ old[id] # NoHandle
      OBVIOUS
    <3>3. /\ current' = current /\ serving' = serving /\ link' = link /\ saved' = saved
          /\ \A n \in Names : registry'[current][n] =
               IF n \in Names_(id, old[id].write) THEN Nobody ELSE registry[current][n]
          /\ owned'[current] = owned[current] \ {old[id].client}
      BY <1>1, <1>9, <2>1, <2>3 DEF ghosts
    <3>4. InForce([old EXCEPT ![id] = NoHandle])'
      BY <1>3, <3>1, <3>2, <3>3, InForceForgot
    <3> QED  BY <1>1, <3>4, RuntimeInForce
  <2>5. RebuiltOK(job[r])'
    BY <1>1, <1>5, <1>6 DEF RebuiltOK, PlanOK, Replaces, Kept
  <2>6. MineOK(job[r])'
    BY <1>1, <1>3, <1>5, <1>6, <2>1, <2>3 DEF MineOK, Kept
  <2>7. GraphIsUp'
    <3>1. current \in Instances /\ graph[current].client \in GraphClients \cup {Nobody}
      BY <1>3, <2>1 DEF ServerInv, StructOK, GraphsOK, GraphOK
    <3> QED  BY <1>1, <1>3, <2>2, <2>3, <3>1 DEF GraphIsUp, CleanOK, ghosts
  <2>8. CleanOK'
    BY <1>6, <2>2, <2>4, <2>5, <2>6, <2>7, CleanStep
  <2>9. ASSUME NEW d \in Clients, link'[d] # "down"
        PROVE  (current # 0 /\ d \in owned'[current]) \/ job'[r].client = d
    <3>1. d \in owned[current] \/ job[r].client = d \/ d \in job[r].todo
      BY <1>1, <1>12, <2>2, <2>9, OwnedBefore
    <3> QED  BY <1>1, <1>5, <1>6, <2>1, <2>3, <3>1, Constants DEF JobOK, HandOK, Again
  <2> QED  BY <1>1, <2>8, <2>9, OwnedStep
<1> QED  BY <1>11, <1>12, Assembled

(* Nothing to disconnect: a connection goes on at once. *)
LEMMA ConnectStep ==
  ASSUME ServerInv, NEW r \in Tasks, EnterIntegration(r), Notes, runtime[job[r].id] = NoHandle,
         job[r].kind = "connect"
  PROVE  ServerInv'
<1> DEFINE new == [job[r] EXCEPT !.at = "link"]
<1>1. /\ job[r] \in JobRecord /\ JobOK(r, job[r]) /\ job[r].at = "lock" /\ integrationLock = Nobody
      /\ runtime \in [Ids -> Handles] /\ job[r].id \in Ids
  BY DEF ServerInv, StructOK, TypeOK, JobsOK, JobOK, IdOK, EnterIntegration
<1>2. runtime' = runtime
  <2>1. runtime' = [runtime EXCEPT ![job[r].id] = NoHandle]
    BY DEF EnterIntegration
  <2> QED  BY <1>1, <2>1
<1>3. /\ UNCHANGED <<app, pluginVars, ghosts, applyLock>> /\ Go(r, new) /\ integrationLock' = r
  BY <1>2 DEF EnterIntegration, At, app, pluginVars
<1>4. "link" \in Places
  BY DEF Places
<1>5. /\ new \in JobRecord /\ Kept(job[r], new) /\ new.at = "link" /\ new.client = job[r].client
      /\ new.id = job[r].id /\ new.todo = job[r].todo
  BY <1>1, <1>4 DEF JobRecord, Kept
<1>6. Moves(r) /\ job'[r] = new
  BY <1>3, <1>5, GoMoves DEF ServerInv, StructOK
<1> HIDE DEF new
<1>7. JobOK(r, job[r])'
  <2>1. KindOK(r, job[r])' /\ IdOK(job[r])'
    BY <1>1, <1>5, <1>6 DEF JobOK, KindOK, IdOK, Kept, GraphPlaces
  <2>2. InstOK(job[r])' /\ HandOK(job[r])'
    BY <1>1, <1>3, <1>5, <1>6 DEF JobOK, InstOK, HandOK, Again, Kept, app
  <2> QED  BY <2>1, <2>2 DEF JobOK
<1>8. LockMoves(r)
  BY <1>1, <1>3, <1>5, <1>6, Constants
     DEF ServerInv, StructOK, LockMoves, LocksOK, Inside, Applying, Kept
<1>9. StructOK'
  <2>1. applyLock' \in Tasks \cup {Nobody} /\ integrationLock' \in Tasks \cup {Nobody}
    BY <1>3 DEF ServerInv, StructOK, TypeOK
  <2> QED  BY <1>1, <1>3, <1>5, <1>6, <1>7, <1>8, <2>1, OnlyJob DEF Kept, GraphPlaces
<1>10. ASSUME ~overlapped, ~overlapped' PROVE CleanOK' /\ ClientsAreOwned'
  <2>1. ~Replacing /\ job[r].inst = current
    BY <1>3, <1>5, <1>6, <1>10, EntersCurrent DEF Kept, app
  <2>2. Others(r)
    BY <1>1, <2>1, EntrantAlone
  <2>3. Replaces(job'[r]) = Replaces(job[r]) /\ PlanOK(job[r])'
    BY <1>5, <1>6 DEF Replaces, PlanOK, Kept
  <2>4. job[r].client = Nobody /\ job[r].todo = {}
    BY <1>1, IdleHands DEF Idle
  <2>5. MineOK(job[r])'
    BY <1>2, <1>5, <1>6, <2>4 DEF MineOK, Kept
  <2>6. CleanOK'
    BY <1>3, <1>5, <1>6, <1>10, <2>2, <2>3, <2>5, QuietStep DEF app, pluginVars, ghosts, Kept
  <2>7. ASSUME NEW d \in Clients, link'[d] # "down" PROVE current # 0 /\ d \in owned[current]
    BY <1>1, <1>3, <1>10, <2>2, <2>4, <2>7, OwnedBefore, Constants DEF pluginVars
  <2> QED  BY <1>3, <2>6, <2>7, OwnedStep DEF app, pluginVars
<1> QED  BY <1>9, <1>10, Assembled

(* ... and a disconnection only forgets what is saved. *)
LEMMA DisconnectStep ==
  ASSUME ServerInv, NEW r \in Tasks, EnterIntegration(r), Notes, runtime[job[r].id] = NoHandle,
         job[r].kind # "connect"
  PROVE  ServerInv'
<1> PICK id : id = job[r].id
  OBVIOUS
<1>1. /\ job[r] \in JobRecord /\ JobOK(r, job[r]) /\ job[r].at = "lock" /\ integrationLock = Nobody
      /\ runtime \in [Ids -> Handles] /\ saved \in [Ids -> Modes] /\ id \in Ids
      /\ job[r].kind = "disconnect"
  BY DEF ServerInv, StructOK, TypeOK, JobsOK, JobOK, IdOK, EnterIntegration
<1>2. runtime' = runtime /\ runtime[id] = NoHandle
  <2>1. runtime' = [runtime EXCEPT ![id] = NoHandle]
    BY DEF EnterIntegration
  <2> QED  BY <1>1, <2>1
<1>3. /\ UNCHANGED <<applyLock, integrationLock, current, built, runtime, graph, registry, domain,
                     dirTerrs, ghosts, link, owned>>
      /\ Go(r, Free) /\ saved' = [saved EXCEPT ![id] = "none"]
  BY <1>1, <1>2 DEF EnterIntegration, Return
<1>4. Moves(r) /\ job'[r] = Free
  BY <1>3, FreeRecord, GoMoves DEF ServerInv, StructOK
<1>5. JobOK(r, job[r])'
  BY <1>4, FreeRecord DEF JobOK, KindOK, IdOK, InstOK, HandOK, Again, GraphPlaces
<1>6. LockMoves(r)
  BY <1>1, <1>3, <1>4, FreeRecord, Constants
     DEF ServerInv, StructOK, LockMoves, LocksOK, Inside, Applying
<1>7. StructOK'
  <2>1. saved' \in [Ids -> Modes]
    BY <1>1, <1>3 DEF Modes
  <2>2. /\ link' \in [Clients -> Links] /\ owned' \in [Instances -> SUBSET Clients]
        /\ applyLock' \in Tasks \cup {Nobody} /\ integrationLock' \in Tasks \cup {Nobody}
    BY <1>3 DEF ServerInv, StructOK, TypeOK, PluginsTypeOK
  <2>3. job'[r].new = job[r].new
    BY <1>1, <1>4, FreeRecord DEF JobOK, HandOK
  <2> QED  BY <1>1, <1>3, <1>4, <1>5, <1>6, <2>1, <2>2, <2>3, FreeRecord, SavedJob DEF GraphPlaces
<1>8. ASSUME ~overlapped, ~overlapped' PROVE CleanOK' /\ ClientsAreOwned'
  <2>1. ~Replacing
    BY <1>1, <1>4, <1>8, FreeRecord DEF Notes, Forgets
  <2>2. Others(r) /\ CleanOK
    BY <1>1, <1>8, <2>1, EntrantAlone DEF ServerInv
  <2>3. RebuiltOK(job[r])' /\ MineOK(job[r])'
    BY <1>4, FreeRecord DEF RebuiltOK, PlanOK, Replaces, MineOK
  <2>4. current # 0 => InForce(runtime)'
    <3> SUFFICES ASSUME current # 0 PROVE InForce(runtime)'
      OBVIOUS
    <3> PICK hs : hs = runtime
      OBVIOUS
    <3>1. InForce(hs) /\ \A k \in Ids : hs[k] \in RealHandles
      BY <2>1, <2>2 DEF CleanOK, ServerInv, StructOK, HandlesOK
    <3>2. \A k \in Ids : hs[k].write /\ saved[k] = "write" => saved'[k] = "write"
      BY <1>1, <1>2, <1>3 DEF NoHandle
    <3>3. InForce(hs)'
      BY <1>3, <3>1, <3>2, InForceKept DEF ghosts
    <3> QED  BY <1>3, <3>3, RuntimeInForce
  <2>5. GraphIsUp'
    BY <1>3, <2>2 DEF GraphIsUp, CleanOK, ghosts
  <2>6. CleanOK'
    BY <1>3, <1>4, <2>2, <2>3, <2>4, <2>5, CleanStep
  <2>7. ASSUME NEW d \in Clients, link'[d] # "down" PROVE current # 0 /\ d \in owned[current]
    <3>1. job[r].client = Nobody /\ job[r].todo = {}
      BY <1>1, IdleHands DEF Idle
    <3> QED  BY <1>1, <1>3, <1>8, <2>2, <2>7, <3>1, OwnedBefore, Constants
  <2> QED  BY <1>3, <2>6, <2>7, OwnedStep
<1> QED  BY <1>7, <1>8, Assembled

(* The old client is disconnected. *)
LEMMA DroppedStep ==
  ASSUME ServerInv, NEW r \in Tasks, Dropped(r), Notes
  PROVE  ServerInv'
<1> PICK id, c : id = job[r].id /\ c = job[r].client
  OBVIOUS
<1> DEFINE new == IF job[r].kind = "connect" THEN [job[r] EXCEPT !.at = "link", !.client = Nobody]
                  ELSE Free
<1>1. /\ job[r] \in JobRecord /\ JobOK(r, job[r]) /\ job[r].at = "drop" /\ id \in Ids
      /\ job[r].kind \in {"connect", "disconnect"} /\ c \in Clients \ GraphClients /\ integrationLock = r
      /\ link \in [Clients -> Links] /\ saved \in [Ids -> Modes]
      /\ link' = [link EXCEPT ![c] = "down"]
      /\ UNCHANGED <<applyLock, current, built, runtime, graph, owned, registry, domain, dirTerrs, ghosts>>
      /\ job[r].kind = "connect" => UNCHANGED <<saved, integrationLock>>
      /\ job[r].kind # "connect" => saved' = [saved EXCEPT ![id] = "none"] /\ integrationLock' = Nobody
  <2>1. job[r] \in JobRecord /\ JobOK(r, job[r]) /\ job[r].at = "drop"
    BY DEF ServerInv, StructOK, TypeOK, JobsOK, Dropped
  <2>2. job[r].kind \in {"connect", "disconnect"}
    BY <2>1 DEF JobOK, KindOK, JobRecord, Rebuilding, GraphPlaces
  <2>3. id \in Ids /\ c \in Clients \ GraphClients
    BY <2>1, <2>2 DEF JobOK, IdOK, HandOK
  <2>4. integrationLock = r
    BY <2>1 DEF ServerInv, StructOK, LocksOK, Inside
  <2> QED  BY <2>1, <2>2, <2>3, <2>4 DEF ServerInv, StructOK, TypeOK, PluginsTypeOK, Dropped, Down
<1>2. Go(r, new)
  BY DEF Dropped, Return
<1>3. "link" \in Places /\ Nobody \in Someone
  BY DEF Places, Someone
<1>4. /\ new \in JobRecord
      /\ job[r].kind = "disconnect" => new = Free
      /\ job[r].kind = "connect" =>
           /\ Kept(job[r], new) /\ new.at = "link" /\ new.client = Nobody
           /\ new.id = id /\ new.todo = job[r].todo
  <2>1. CASE job[r].kind = "connect"
    BY <1>1, <1>3, <2>1 DEF JobRecord, Kept
  <2>2. CASE job[r].kind = "disconnect"
    BY <2>2, FreeRecord
  <2> QED  BY <1>1, <2>1, <2>2
<1>5. Moves(r) /\ job'[r] = new
  BY <1>2, <1>4, GoMoves DEF ServerInv, StructOK
<1> HIDE DEF new
<1>6. /\ JobOK(r, job[r])'
      /\ job'[r].new = job[r].new /\ job'[r].todo = {} /\ job[r].todo = {} /\ job'[r].client = Nobody
      /\ job'[r].at \in {"link", "free"} /\ job'[r].kind \in {job[r].kind, "none"}
      /\ job'[r].at = "link" => job'[r].kind = "connect" /\ job[r].kind = "connect"
  <2>1. job[r].todo = {} /\ job[r].new = NoHandles
    BY <1>1 DEF JobOK, HandOK, Again
  <2>2. CASE job[r].kind = "connect"
    <3>1. KindOK(r, job[r])' /\ IdOK(job[r])'
      BY <1>1, <1>4, <1>5, <2>2 DEF JobOK, KindOK, IdOK, Kept, GraphPlaces
    <3>2. InstOK(job[r])' /\ HandOK(job[r])'
      BY <1>1, <1>4, <1>5, <2>2 DEF JobOK, InstOK, HandOK, Again, Kept
    <3> QED  BY <1>4, <1>5, <2>1, <2>2, <3>1, <3>2 DEF JobOK, Kept
  <2>3. CASE job[r].kind = "disconnect"
    BY <1>4, <1>5, <2>1, <2>3, FreeRecord DEF JobOK, KindOK, IdOK, InstOK, HandOK, Again, GraphPlaces
  <2> QED  BY <1>1, <2>2, <2>3
<1>7. LockMoves(r)
  <2>1. CASE job[r].kind = "connect"
    BY <1>1, <1>4, <1>5, <2>1
       DEF ServerInv, StructOK, LockMoves, LocksOK, Inside, Applying, Kept
  <2>2. CASE job[r].kind = "disconnect"
    BY <1>1, <1>4, <1>5, <2>2, FreeRecord, Constants
       DEF ServerInv, StructOK, LockMoves, LocksOK, Inside, Applying
  <2> QED  BY <1>1, <2>1, <2>2
<1>8. StructOK'
  <2>1. saved' \in [Ids -> Modes]
    BY <1>1 DEF Modes
  <2>2. /\ link' \in [Clients -> Links] /\ owned' \in [Instances -> SUBSET Clients]
        /\ applyLock' \in Tasks \cup {Nobody} /\ integrationLock' \in Tasks \cup {Nobody}
    BY <1>1 DEF ServerInv, StructOK, TypeOK, PluginsTypeOK, Links
  <2>3. \A d \in Clients : link'[d] # "down" => link[d] # "down"
    BY <1>1
  <2> QED  BY <1>1, <1>5, <1>6, <1>7, <2>1, <2>2, <2>3, Constants, SavedJob DEF GraphPlaces
<1>9. ASSUME ~overlapped, ~overlapped' PROVE CleanOK' /\ ClientsAreOwned'
  <2>1. ~Replacing /\ serving # "down" /\ job[r].inst = current /\ current # 0
    BY <1>1, <1>9, InsideIsCurrent DEF Inside
  <2>2. Others(r) /\ CleanOK
    BY <1>1, <1>9, Alone DEF Idle, ServerInv
  <2>3. c \notin owned[current] /\ runtime[id] = NoHandle
    BY <1>1, <2>2, Constants DEF CleanOK, MineOK
  <2>4. RebuiltOK(job[r])' /\ MineOK(job[r])'
    BY <1>1, <1>4, <1>5, <1>6, <2>3, FreeRecord DEF RebuiltOK, PlanOK, Replaces, MineOK
  <2>5. InForce(runtime)'
    <3> PICK hs : hs = runtime
      OBVIOUS
    <3>1. InForce(hs) /\ \A k \in Ids : hs[k] \in RealHandles
      BY <2>1, <2>2 DEF CleanOK, ServerInv, StructOK, HandlesOK
    <3>2. \A k \in Ids : hs[k].write /\ saved[k] = "write" => saved'[k] = "write"
      BY <1>1, <2>3 DEF NoHandle
    <3>3. \A d \in Clients : d \in owned[current] => link'[d] = link[d]
      BY <1>1, <2>3
    <3>4. InForce(hs)'
      BY <1>1, <3>1, <3>2, <3>3, InForceKept DEF ghosts
    <3> QED  BY <1>1, <3>4, RuntimeInForce
  <2>6. GraphIsUp'
    <3>1. graph[current].client \in GraphClients \cup {Nobody}
      BY <2>1, CurrentIsBuilt DEF ServerInv, StructOK, GraphsOK, GraphOK
    <3> QED  BY <1>1, <2>1, <2>2, <2>3, <3>1, Constants DEF GraphIsUp, CleanOK, ghosts
  <2>7. CleanOK'
    BY <1>5, <2>2, <2>4, <2>5, <2>6, CleanStep
  <2>8. ASSUME NEW d \in Clients, link'[d] # "down" PROVE current # 0 /\ d \in owned[current]
    <3>1. link[d] # "down" /\ d # c
      BY <1>1, <2>8
    <3> QED  BY <1>1, <1>6, <1>9, <2>2, <3>1, OwnedBefore
  <2> QED  BY <1>1, <2>7, <2>8, OwnedStep
<1> QED  BY <1>8, <1>9, Assembled

-----------------------------------------------------------------------------
(* The code graph.  Whoever works on it holds integration_lock. *)
LEMMA GraphAlone ==
  ASSUME ServerInv, NEW r \in Tasks, integrationLock \in {r, Nobody}
  PROVE  /\ \A k \in Tasks : k # r => job[k].at \notin GraphPlaces
         /\ \A i \in Instances : graph[i].repo = Nobody /\ ~unlisted /\ job[r].at # "glist" =>
                                   graph[i].client = Nobody
<1>1. \A k \in Tasks : k # r => job[k].at \notin GraphPlaces
  BY Constants DEF ServerInv, StructOK, LocksOK, Inside, GraphPlaces
<1>2. ASSUME NEW i \in Instances, graph[i].repo = Nobody, ~unlisted, job[r].at # "glist"
      PROVE  graph[i].client = Nobody
  <2>1. GraphOK(i)
    BY DEF ServerInv, StructOK, GraphsOK
  <2> QED  BY <1>1, <1>2, <2>1 DEF GraphOK, GraphPlaces
<1> QED  BY <1>1, <1>2

LEMMA GraphWork ==
  ASSUME ServerInv, NEW r \in Tasks, job[r].at \in GraphPlaces
  PROVE  /\ job[r] \in JobRecord /\ JobOK(r, job[r]) /\ job[r].kind \in {"graph", "apply", "boot"}
         /\ job[r].inst \in Instances /\ job[r].inst <= current /\ current \in Nat
         /\ job[r].todo = {} /\ integrationLock = r
         /\ job[r].kind = "apply" <=> applyLock = r
         /\ graph[job[r].inst].repo = Nobody
<1>1. /\ job[r] \in JobRecord /\ JobOK(r, job[r])
      /\ Applying(job[r]) <=> applyLock = r
      /\ Inside(job[r]) <=> integrationLock = r
  BY DEF ServerInv, StructOK, TypeOK, JobsOK, LocksOK
<1>2. job[r].kind \in {"graph", "apply", "boot"}
  BY <1>1 DEF JobOK, KindOK, GraphPlaces, JobRecord
<1>3. /\ current \in Nat /\ (current # 0 => current \in Instances)
      /\ \A k \in 1..current : k \in Instances
  BY CurrentIsBuilt DEF ServerInv, StructOK
<1>4. job[r].inst \in Instances /\ job[r].inst <= current
  BY <1>1, <1>2, <1>3 DEF JobOK, InstOK, GraphPlaces
<1>5. job[r].todo = {}
  BY <1>1 DEF JobOK, HandOK, Again, GraphPlaces
<1>6. integrationLock = r /\ (job[r].kind = "apply" <=> applyLock = r)
  BY <1>1 DEF Inside, Applying, GraphPlaces
<1>7. graph[job[r].inst].repo = Nobody
  BY <1>4 DEF ServerInv, StructOK, GraphsOK, GraphOK
<1> QED  BY <1>1, <1>2, <1>3, <1>4, <1>5, <1>6, <1>7

(* The work is over: both locks are free of r. *)
LEMMA GraphDoneMoves ==
  ASSUME ServerInv, NEW r \in Tasks, job[r].at \in GraphPlaces, GraphDone(r)
  PROVE  /\ Moves(r) /\ job'[r] = Free /\ LockMoves(r) /\ JobOK(r, job[r])'
         /\ applyLock' \in Tasks \cup {Nobody} /\ integrationLock' \in Tasks \cup {Nobody}
<1>1. Moves(r) /\ job'[r] = Free
  BY FreeRecord, GoMoves DEF ServerInv, StructOK, GraphDone, Return
<1>2. JobOK(r, job[r])'
  BY <1>1, FreeRecord DEF JobOK, KindOK, IdOK, InstOK, HandOK, Again, GraphPlaces
<1>3. LockMoves(r)
  BY <1>1, GraphWork, FreeRecord, Constants DEF GraphDone, LockMoves, Applying, Inside
<1>4. applyLock' \in Tasks \cup {Nobody} /\ integrationLock' \in Tasks \cup {Nobody}
  BY DEF GraphDone, ServerInv, StructOK, TypeOK
<1> QED  BY <1>1, <1>2, <1>3, <1>4

(* A step of the work changes one record and one instance. *)
LEMMA GraphJob ==
  ASSUME ServerInv, Notes, NEW r \in Tasks, NEW i \in Instances, i <= current,
         Moves(r), LockMoves(r), JobOK(r, job[r])', integrationLock \in {r, Nobody},
         UNCHANGED <<current, built, saved, runtime, domain, dirTerrs, left, serving>>,
         unlisted' \in BOOLEAN, unlisted => unlisted',
         link' \in [Clients -> Links], owned' \in [Instances -> SUBSET Clients],
         registry' \in [Instances -> [Names -> Clients \cup Terrs \cup {Nobody}]],
         graph' \in [Instances -> [client : Someone, repo : Repos \cup {Nobody}]],
         applyLock' \in Tasks \cup {Nobody}, integrationLock' \in Tasks \cup {Nobody},
         \A k \in Instances : k # i =>
           owned'[k] = owned[k] /\ graph'[k] = graph[k] /\ registry'[k] = registry[k],
         \A k \in Instances, c \in GraphClients :
           k # i /\ c \in owned[k] /\ link'[c] # "down" => link[c] # "down",
         job'[r].kind \in {job[r].kind, "none"}, job'[r].new \in {job[r].new, NoHandles},
         job[r].at # "apply", job'[r].at # "apply",
         job[r].inst = i, job'[r].at \in GraphPlaces => job'[r].inst = i /\ graph'[i].repo = Nobody,
         job'[r].at = "glist" => graph'[i].client # Nobody,
         graph'[i].client \in GraphClients \cup {Nobody},
         graph'[i].repo # Nobody => graph'[i].client # Nobody,
         ~Shared(Graph) =>
           registry'[i][Graph] = IF graph'[i].repo = Nobody THEN Nobody ELSE graph'[i].client,
         ~unlisted' =>
           /\ \A c \in GraphClients \cap owned'[i] : link'[c] # "down" => c = graph'[i].client
           /\ graph'[i].repo = Nobody /\ graph'[i].client # Nobody => job'[r].at = "glist"
  PROVE  StructOK'
<1>1. TypeOK'
  BY DEF ServerInv, StructOK, TypeOK, PluginsTypeOK, Moves, Notes
<1>2. JobsOK' /\ LocksOK' /\ PhaseOK'
  BY Framed
<1>3. BuiltOK'
  <2>1. \A k \in Instances : k > current => k # i
    BY CurrentIsBuilt, Constants DEF ServerInv, StructOK
  <2> QED  BY <2>1, BuiltKept
<1>4. HandlesOK'
  <2>1. ASSUME NEW k \in Tasks, NEW id \in Ids PROVE job'[k].new[id] \in RealHandles
    <3>1. job[k].new[id] \in RealHandles
      BY DEF ServerInv, StructOK, HandlesOK
    <3>2. NoHandles[id] \in RealHandles
      BY DEF NoHandles, RealHandles
    <3>3. job'[k].new = job[k].new \/ job'[k].new = NoHandles
      BY DEF Moves
    <3> QED  BY <3>1, <3>2, <3>3
  <2>2. \A id \in Ids : runtime'[id] \in RealHandles
    BY DEF ServerInv, StructOK, HandlesOK
  <2> QED BY <2>1, <2>2 DEF HandlesOK
<1>5. \A k \in Tasks : k # r => job'[k].at \notin GraphPlaces /\ job[k].at \notin GraphPlaces
  BY GraphAlone DEF Moves
<1>6. GraphOK(i)'
  <2>1. \A k \in Tasks : job'[k].inst = i =>
          /\ job'[k].at \in GraphPlaces => graph'[i].repo = Nobody
          /\ job'[k].at = "glist" => graph'[i].client # Nobody
    BY <1>5 DEF GraphPlaces
  <2>2. job'[r].at = "glist" => job'[r].inst = i
    BY DEF GraphPlaces
  <2> QED  BY <2>1, <2>2 DEF GraphOK
<1>7. ASSUME NEW k \in Instances, k # i PROVE GraphOK(k)'
  <2>1. GraphOK(k) /\ owned'[k] = owned[k] /\ graph'[k] = graph[k] /\ registry'[k] = registry[k]
    BY <1>7 DEF ServerInv, StructOK, GraphsOK
  <2>2. \A t \in Tasks : job'[t].inst = k => job'[t].at \notin GraphPlaces
    BY <1>5, <1>7
  <2>3. ~unlisted /\ graph[k].repo = Nobody => graph[k].client = Nobody
    BY <1>5, <1>7, <2>1 DEF GraphOK, GraphPlaces
  <2>4. \A c \in GraphClients \cap owned[k] : ~unlisted /\ link'[c] # "down" => c = graph[k].client
    BY <1>7, <2>1 DEF GraphOK
  <2>5. \A t \in Tasks : job'[t].inst = k =>
          /\ job'[t].at \in GraphPlaces => graph'[k].repo = Nobody
          /\ job'[t].at = "glist" => graph'[k].client # Nobody
    BY <2>2 DEF GraphPlaces
  <2> QED  BY <2>1, <2>3, <2>4, <2>5 DEF GraphOK
<1> QED  BY <1>1, <1>2, <1>3, <1>4, <1>6, <1>7 DEF StructOK, GraphsOK

(* ... and none of the handles in force. *)
LEMMA GraphClean ==
  ASSUME ServerInv, ~overlapped, NEW r \in Tasks, Moves(r), Others(r), ~Replacing, current # 0,
         UNCHANGED <<current, serving, runtime, saved>>,
         \A n \in Names : n # Graph => registry'[current][n] = registry[current][n],
         \A c \in Clients \ GraphClients :
           (c \in owned[current] <=> c \in owned'[current]) /\ link'[c] = link[c],
         ~Replaces(job'[r]), MineOK(job[r])', GraphIsUp'
  PROVE  CleanOK'
<1>1. RebuiltOK(job[r])'
  BY DEF RebuiltOK, PlanOK
<1>2. InForce(runtime)'
  <2> PICK hs : hs = runtime
    OBVIOUS
  <2>1. InForce(hs) /\ \A id \in Ids : hs[id] \in RealHandles
    BY DEF ServerInv, CleanOK, StructOK, HandlesOK
  <2>2. InForce(hs)'
    BY <2>1, InForceKept
  <2> QED  BY <2>2, RuntimeInForce
<1> QED  BY <1>1, <1>2, CleanStep

LEMMA GraphFailsStep ==
  ASSUME ServerInv, NEW r \in Tasks, GraphFails(r), Notes
  PROVE  ServerInv'
<1> PICK i : i = job[r].inst
  OBVIOUS
<1>1. /\ job[r].at \in {"glink", "glist"} /\ GraphDone(r) /\ UNCHANGED <<app, pluginVars, left, serving>>
      /\ unlisted' = (unlisted \/ job[r].at = "glist") /\ unlisted \in BOOLEAN
      /\ integrationLock = r
  BY DEF GraphFails, ServerInv, StructOK, TypeOK, LocksOK, Inside
<1>2. job[r].at \in GraphPlaces
  BY <1>1 DEF GraphPlaces
<1>3. /\ i \in Instances /\ i <= current /\ GraphOK(i) /\ graph[i].repo = Nobody
      /\ job[r].todo = {} /\ job[r].client = Nobody
  BY <1>1, <1>2, GraphWork DEF ServerInv, StructOK, GraphsOK, JobOK, HandOK
<1>4. /\ Moves(r) /\ job'[r] = Free /\ LockMoves(r) /\ JobOK(r, job[r])'
      /\ applyLock' \in Tasks \cup {Nobody} /\ integrationLock' \in Tasks \cup {Nobody}
  BY <1>1, <1>2, GraphDoneMoves
<1>5. StructOK'
  <2>1. /\ link' \in [Clients -> Links] /\ owned' \in [Instances -> SUBSET Clients]
        /\ registry' \in [Instances -> [Names -> Clients \cup Terrs \cup {Nobody}]]
        /\ graph' \in [Instances -> [client : Someone, repo : Repos \cup {Nobody}]]
    BY <1>1 DEF app, pluginVars, ServerInv, StructOK, TypeOK, PluginsTypeOK
  <2>2. UNCHANGED <<current, built, saved, runtime, domain, dirTerrs, left, serving,
                    link, owned, registry, graph>>
    BY <1>1 DEF app, pluginVars
  <2>3. /\ graph'[i].client \in GraphClients \cup {Nobody}
        /\ graph'[i].repo # Nobody => graph'[i].client # Nobody
        /\ ~Shared(Graph) =>
             registry'[i][Graph] = IF graph'[i].repo = Nobody THEN Nobody ELSE graph'[i].client
        /\ \A c \in GraphClients \cap owned'[i] :
             ~unlisted' /\ link'[c] # "down" => c = graph'[i].client
    BY <1>1, <1>3, <2>2 DEF GraphOK
  <2>4. ~unlisted' => graph'[i].client = Nobody
    BY <1>1, <1>3, <2>2, GraphAlone
  <2>5. /\ job'[r].kind = "none" /\ job'[r].new = NoHandles
        /\ job'[r].at = "free" /\ job'[r].at \notin GraphPlaces
    BY <1>4, FreeRecord DEF GraphPlaces
  <2> QED  BY <1>1, <1>3, <1>4, <2>1, <2>2, <2>3, <2>4, <2>5, GraphJob
<1>6. ASSUME ~overlapped, ~overlapped' PROVE CleanOK' /\ ClientsAreOwned'
  <2>1. ~Replacing /\ serving # "down" /\ i = current /\ current # 0
    BY <1>1, <1>6, InsideIsCurrent DEF Inside
  <2>2. Others(r) /\ CleanOK
    BY <1>1, <1>6, Alone DEF Idle, ServerInv
  <2>3. ~Replaces(job'[r]) /\ MineOK(job[r])'
    BY <1>4, FreeRecord DEF Replaces, MineOK
  <2>4. UNCHANGED <<current, serving, runtime, saved, registry, owned, link, graph>>
    BY <1>1 DEF app, pluginVars
  <2>5. GraphIsUp'
    BY <2>2, <2>4 DEF GraphIsUp, CleanOK
  <2>6. CleanOK'
    BY <1>4, <1>6, <2>1, <2>2, <2>3, <2>4, <2>5, GraphClean
  <2>7. ASSUME NEW d \in Clients, link'[d] # "down" PROVE current # 0 /\ d \in owned[current]
    BY <1>1, <1>3, <1>6, <2>2, <2>4, <2>7, OwnedBefore, Constants
  <2> QED  BY <2>4, <2>6, <2>7, OwnedStep
<1> QED  BY <1>5, <1>6, Assembled

LEMMA GraphListedStep ==
  ASSUME ServerInv, NEW r \in Tasks, GraphListed(r), Notes
  PROVE  ServerInv'
<1> PICK i, c, repo : i = job[r].inst /\ c = graph[i].client /\ repo = job[r].id
  OBVIOUS
<1>1. /\ job[r].at = "glist" /\ GraphDone(r) /\ integrationLock = r /\ PluginsTypeOK
      /\ UNCHANGED <<current, built, saved, runtime, link, owned, domain, dirTerrs, ghosts>>
      /\ registry' = [registry EXCEPT ![i] = Put(@, {Graph}, c)]
      /\ graph' = [graph EXCEPT ![i].repo = repo]
      /\ graph \in [Instances -> [client : Someone, repo : Repos \cup {Nobody}]]
      /\ unlisted \in BOOLEAN
  BY DEF GraphListed, ServerInv, StructOK, TypeOK, LocksOK, Inside, Register
<1>2. job[r].at \in GraphPlaces
  BY <1>1 DEF GraphPlaces
<1>3. /\ i \in Instances /\ i <= current /\ GraphOK(i)
      /\ job[r].todo = {} /\ job[r].client = Nobody /\ repo \in Repos
  BY <1>1, <1>2, GraphWork DEF ServerInv, StructOK, GraphsOK, JobOK, HandOK, IdOK
<1>4. /\ Moves(r) /\ job'[r] = Free /\ LockMoves(r) /\ JobOK(r, job[r])'
      /\ applyLock' \in Tasks \cup {Nobody} /\ integrationLock' \in Tasks \cup {Nobody}
  BY <1>1, <1>2, GraphDoneMoves
<1>5. c \in GraphClients /\ c \in Clients /\ repo # Nobody /\ c # Nobody
  BY <1>1, <1>2, <1>3, Constants DEF GraphOK
<1>6. /\ graph'[i].repo = repo /\ graph'[i].client = c
      /\ \A k \in Instances : k # i => graph'[k] = graph[k]
      /\ graph' \in [Instances -> [client : Someone, repo : Repos \cup {Nobody}]]
  <2>1. graph[i] \in [client : Someone, repo : Repos \cup {Nobody}]
    BY <1>1, <1>3
  <2>2. [graph[i] EXCEPT !.repo = repo] \in [client : Someone, repo : Repos \cup {Nobody}]
    BY <1>3, <2>1
  <2> QED  BY <1>1, <1>3, <2>1, <2>2
<1>7. /\ registry' \in [Instances -> [Names -> Clients \cup Terrs \cup {Nobody}]]
      /\ \A n \in Names : registry'[i][n] = IF n = Graph THEN c ELSE registry[i][n]
      /\ \A k \in Instances : k # i => registry'[k] = registry[k]
  <2>1. Put(registry[i], {Graph}, c) \in [Names -> Clients \cup Terrs \cup {Nobody}]
    BY <1>1, <1>3, <1>5 DEF Put, PluginsTypeOK
  <2> QED  BY <1>1, <1>3, <2>1 DEF Put, PluginsTypeOK
<1>8. StructOK'
  <2>1. link' \in [Clients -> Links] /\ owned' \in [Instances -> SUBSET Clients]
    BY <1>1 DEF PluginsTypeOK
  <2>2. /\ registry'[i][Graph] = IF graph'[i].repo = Nobody THEN Nobody ELSE graph'[i].client
        /\ graph'[i].client \in GraphClients \cup {Nobody}
        /\ graph'[i].repo # Nobody /\ graph'[i].client # Nobody
    BY <1>5, <1>6, <1>7, ServerAssumption
  <2>3. \A d \in GraphClients \cap owned'[i] : ~unlisted' /\ link'[d] # "down" => d = graph'[i].client
    BY <1>1, <1>3, <1>6 DEF GraphOK, ghosts
  <2>4. /\ job'[r].kind = "none" /\ job'[r].new = NoHandles
        /\ job'[r].at = "free" /\ job'[r].at \notin GraphPlaces
    BY <1>4, FreeRecord DEF GraphPlaces
  <2>5. /\ UNCHANGED <<current, built, saved, runtime, domain, dirTerrs, left, serving, unlisted,
                       link, owned>>
        /\ unlisted' \in BOOLEAN /\ integrationLock \in {r, Nobody} /\ job[r].at # "apply"
    BY <1>1 DEF ghosts
  <2>6. \A k \in Instances : k # i =>
          owned'[k] = owned[k] /\ graph'[k] = graph[k] /\ registry'[k] = registry[k]
    BY <1>6, <1>7, <2>5
  <2> QED  BY <1>3, <1>4, <1>6, <1>7, <2>1, <2>2, <2>3, <2>4, <2>5, <2>6, GraphJob
<1>9. ASSUME ~overlapped, ~overlapped' PROVE CleanOK' /\ ClientsAreOwned'
  <2>1. ~Replacing /\ serving # "down" /\ i = current /\ current # 0
    BY <1>1, <1>9, InsideIsCurrent DEF Inside
  <2>2. Others(r) /\ CleanOK
    BY <1>1, <1>9, Alone DEF Idle, ServerInv
  <2>3. ~Replaces(job'[r]) /\ MineOK(job[r])'
    BY <1>4, FreeRecord DEF Replaces, MineOK
  <2>4. UNCHANGED <<current, serving, runtime, saved, owned, link>>
    BY <1>1 DEF ghosts
  <2>5. GraphIsUp'
    BY <1>6, <2>1, <2>2, <2>4 DEF GraphIsUp, CleanOK
  <2>6. CleanOK'
    BY <1>4, <1>7, <1>9, <2>1, <2>2, <2>3, <2>4, <2>5, GraphClean
  <2>7. ASSUME NEW d \in Clients, link'[d] # "down" PROVE current # 0 /\ d \in owned[current]
    BY <1>1, <1>3, <1>9, <2>2, <2>4, <2>7, OwnedBefore, Constants
  <2> QED  BY <2>4, <2>6, <2>7, OwnedStep
<1> QED  BY <1>8, <1>9, Assembled

LEMMA GraphLinkedStep ==
  ASSUME ServerInv, NEW r \in Tasks, GraphLinked(r), Notes
  PROVE  ServerInv'
<1> PICK i : i = job[r].inst
  OBVIOUS
<1> PICK c \in GraphClients :
       Unused(c) /\ Up(c) /\ Own(i, c) /\ graph' = [graph EXCEPT ![i].client = c]
  BY DEF GraphLinked
<1> DEFINE new == [job[r] EXCEPT !.at = "glist"]
<1>1. /\ job[r].at = "glink" /\ Go(r, new) /\ integrationLock = r /\ PluginsTypeOK
      /\ UNCHANGED <<current, built, saved, runtime, locks, registry, domain, dirTerrs, ghosts>>
      /\ link' = [link EXCEPT ![c] = "up"] /\ owned' = [owned EXCEPT ![i] = @ \cup {c}]
      /\ graph \in [Instances -> [client : Someone, repo : Repos \cup {Nobody}]]
      /\ unlisted \in BOOLEAN
  BY DEF GraphLinked, ServerInv, StructOK, TypeOK, LocksOK, Inside, At, Up, Own
<1>2. job[r].at \in GraphPlaces
  BY <1>1 DEF GraphPlaces
<1>3. /\ i \in Instances /\ i <= current /\ GraphOK(i) /\ graph[i].repo = Nobody
      /\ job[r] \in JobRecord /\ JobOK(r, job[r]) /\ job[r].kind \in {"graph", "apply", "boot"}
      /\ job[r].todo = {} /\ job[r].client = Nobody
  BY <1>1, <1>2, GraphWork DEF ServerInv, StructOK, GraphsOK, JobOK, HandOK
<1>4. c \in Clients /\ c # Nobody /\ c \in Someone /\ \A k \in Instances : c \notin owned[k]
  BY Constants DEF Someone, Unused
<1>5. /\ new \in JobRecord /\ Kept(job[r], new) /\ new.at = "glist" /\ new.client = Nobody
      /\ new.id = job[r].id /\ new.todo = {}
  <2>1. "glist" \in Places
    BY DEF Places
  <2> QED  BY <1>3, <2>1 DEF JobRecord, Kept
<1>6. Moves(r) /\ job'[r] = new
  BY <1>1, <1>5, GoMoves DEF ServerInv, StructOK
<1> HIDE DEF new
<1>7. JobOK(r, job[r])'
  <2>1. KindOK(r, job[r])' /\ IdOK(job[r])'
    BY <1>1, <1>3, <1>5, <1>6 DEF JobOK, KindOK, IdOK, Kept, GraphPlaces, Rebuilding
  <2>2. InstOK(job[r])' /\ HandOK(job[r])'
    BY <1>1, <1>3, <1>5, <1>6 DEF JobOK, InstOK, HandOK, Again, Kept
  <2> QED  BY <2>1, <2>2 DEF JobOK
<1>8. LockMoves(r)
  BY <1>1, <1>3, <1>5, <1>6 DEF ServerInv, StructOK, LockMoves, LocksOK, Inside, Applying, Kept, locks
<1>9. /\ graph'[i].repo = Nobody /\ graph'[i].client = c
      /\ \A k \in Instances : k # i => graph'[k] = graph[k]
      /\ graph' \in [Instances -> [client : Someone, repo : Repos \cup {Nobody}]]
  <2>1. graph[i] \in [client : Someone, repo : Repos \cup {Nobody}]
    BY <1>1, <1>3
  <2>2. [graph[i] EXCEPT !.client = c] \in [client : Someone, repo : Repos \cup {Nobody}]
    BY <1>4, <2>1
  <2>3. graph' = [graph EXCEPT ![i] = [graph[i] EXCEPT !.client = c]]
    OBVIOUS
  <2> QED  BY <1>1, <1>3, <2>1, <2>2, <2>3
<1>10. /\ owned' \in [Instances -> SUBSET Clients] /\ owned'[i] = owned[i] \cup {c}
       /\ \A k \in Instances : k # i => owned'[k] = owned[k]
       /\ link' \in [Clients -> Links] /\ link'[c] # "down"
       /\ \A d \in Clients : d # c => link'[d] = link[d]
  BY <1>1, <1>3, <1>4 DEF PluginsTypeOK, Links
<1>11. StructOK'
  <2>1. /\ registry' \in [Instances -> [Names -> Clients \cup Terrs \cup {Nobody}]]
        /\ registry' = registry /\ (~Shared(Graph) => registry'[i][Graph] = Nobody)
    BY <1>1, <1>3 DEF PluginsTypeOK, GraphOK
  <2>2. \A d \in GraphClients \cap owned'[i] : ~unlisted' /\ link'[d] # "down" => d = graph'[i].client
    <3> SUFFICES ASSUME NEW d \in GraphClients, d \in owned[i], ~unlisted, link'[d] # "down", d # c
                 PROVE  FALSE
      BY <1>1, <1>9, <1>10 DEF ghosts
    <3>1. graph[i].client = Nobody
      BY <1>1, <1>3, GraphAlone
    <3>2. link[d] # "down" /\ d \in Clients
      BY <1>10, Constants
    <3> QED  BY <1>3, <3>1, <3>2, Constants DEF GraphOK
  <2>3. \A k \in Instances, d \in GraphClients :
          k # i /\ d \in owned[k] /\ link'[d] # "down" => link[d] # "down"
    BY <1>4, <1>10, Constants
  <2>4. /\ UNCHANGED <<current, built, saved, runtime, domain, dirTerrs, left, serving, unlisted>>
        /\ applyLock' \in Tasks \cup {Nobody} /\ integrationLock' \in Tasks \cup {Nobody}
    BY <1>1 DEF ghosts, locks, ServerInv, StructOK, TypeOK
  <2>5. job'[r].kind = job[r].kind /\ job'[r].new = job[r].new /\ job'[r].inst = i
    BY <1>5, <1>6 DEF Kept
  <2> QED
    BY <1>1, <1>3, <1>4, <1>5, <1>6, <1>7, <1>8, <1>9, <1>10, <2>1, <2>2, <2>3, <2>4, <2>5, GraphJob
<1>12. ASSUME ~overlapped, ~overlapped' PROVE CleanOK' /\ ClientsAreOwned'
  <2>1. ~Replacing /\ serving # "down" /\ i = current /\ current # 0
    BY <1>1, <1>12, InsideIsCurrent DEF Inside
  <2>2. Others(r) /\ CleanOK
    BY <1>1, <1>12, Alone DEF Idle, ServerInv
  <2>3. ~Replaces(job'[r]) /\ MineOK(job[r])'
    BY <1>3, <1>5, <1>6 DEF Replaces, MineOK, Kept, Rebuilding
  <2>4. UNCHANGED <<current, serving, runtime, saved, registry>>
    BY <1>1 DEF ghosts
  <2>5. GraphIsUp'
    BY <1>9, <1>10, <2>1, <2>4 DEF GraphIsUp
  <2>6. \A d \in Clients \ GraphClients :
          (d \in owned[current] <=> d \in owned'[current]) /\ link'[d] = link[d]
    BY <1>10, <2>1
  <2>7. CleanOK'
    BY <1>6, <1>12, <2>1, <2>2, <2>3, <2>4, <2>5, <2>6, GraphClean
  <2>8. ASSUME NEW d \in Clients, link'[d] # "down" PROVE current # 0 /\ d \in owned'[current]
    <3>1. CASE d = c
      BY <1>10, <2>1, <3>1
    <3>2. CASE d # c
      BY <1>1, <1>3, <1>10, <1>12, <2>1, <2>2, <2>8, <3>2, OwnedBefore, Constants
    <3> QED  BY <3>1, <3>2
  <2> QED  BY <2>4, <2>7, <2>8, OwnedStep
<1> QED  BY <1>11, <1>12, Assembled

LEMMA GraphStoppedStep ==
  ASSUME ServerInv, NEW r \in Tasks, GraphStopped(r), Notes
  PROVE  ServerInv'
<1> PICK i, c : i = job[r].inst /\ c = job[r].client
  OBVIOUS
<1>1. /\ job[r].at = "stop" /\ integrationLock = r /\ link \in [Clients -> Links]
      /\ UNCHANGED <<app, owned, registry, domain, dirTerrs, ghosts>>
      /\ IF c = Nobody THEN link' = link ELSE link' = [link EXCEPT ![c] = "down"]
  BY DEF GraphStopped, ServerInv, StructOK, TypeOK, PluginsTypeOK, LocksOK, Inside, Down
<1>2. job[r].at \in GraphPlaces
  BY <1>1 DEF GraphPlaces
<1>3. /\ i \in Instances /\ i <= current /\ GraphOK(i) /\ graph[i].repo = Nobody
      /\ job[r] \in JobRecord /\ JobOK(r, job[r]) /\ job[r].kind \in {"graph", "apply", "boot"}
      /\ job[r].todo = {} /\ c \in GraphClients \cup {Nobody}
      /\ job[r].kind = "apply" <=> applyLock = r
  BY <1>1, <1>2, GraphWork DEF ServerInv, StructOK, GraphsOK, JobOK, HandOK
<1>4. /\ link' \in [Clients -> Links]
      /\ \A d \in Clients : link'[d] = IF d = c THEN "down" ELSE link[d]
  BY <1>1, <1>3, Constants DEF Links
<1>5. /\ Moves(r) /\ LockMoves(r) /\ JobOK(r, job[r])'
      /\ applyLock' \in Tasks \cup {Nobody} /\ integrationLock' \in Tasks \cup {Nobody}
      /\ job'[r].at \in {"glink", "free"} /\ job'[r].client = Nobody
      /\ job'[r].kind \in {job[r].kind, "none"} /\ job'[r].new \in {job[r].new, NoHandles}
      /\ job'[r].at = "glink" => job'[r].inst = i
      /\ job'[r].kind = "connect" => job'[r].at = "lock"
      /\ ~Replaces(job'[r])
  <2>1. CASE job[r].id = Nobody
    <3>1. GraphDone(r)
      BY <2>1 DEF GraphStopped
    <3>2. /\ Moves(r) /\ job'[r] = Free /\ LockMoves(r) /\ JobOK(r, job[r])'
          /\ applyLock' \in Tasks \cup {Nobody} /\ integrationLock' \in Tasks \cup {Nobody}
      BY <1>2, <3>1, GraphDoneMoves
    <3> QED  BY <3>2, FreeRecord DEF Replaces
  <2>2. CASE job[r].id # Nobody
    <3> DEFINE new == [job[r] EXCEPT !.at = "glink", !.client = Nobody]
    <3>1. Go(r, new) /\ UNCHANGED locks
      BY <2>2 DEF GraphStopped
    <3>2. "glink" \in Places /\ Nobody \in Someone
      BY DEF Places, Someone
    <3>3. /\ new \in JobRecord /\ Kept(job[r], new) /\ new.at = "glink" /\ new.client = Nobody
          /\ new.id = job[r].id /\ new.todo = {}
      BY <1>3, <3>2 DEF JobRecord, Kept
    <3>4. Moves(r) /\ job'[r] = new
      BY <3>1, <3>3, GoMoves DEF ServerInv, StructOK
    <3> HIDE DEF new
    <3>5. KindOK(r, job[r])' /\ IdOK(job[r])'
      BY <1>1, <1>3, <2>2, <3>3, <3>4 DEF JobOK, KindOK, IdOK, Kept, GraphPlaces, Rebuilding
    <3>6. InstOK(job[r])' /\ HandOK(job[r])'
      BY <1>1, <1>3, <3>3, <3>4 DEF JobOK, InstOK, HandOK, Again, Kept, app
    <3>7. LockMoves(r)
      BY <1>1, <1>3, <3>1, <3>3, <3>4
         DEF ServerInv, StructOK, LockMoves, LocksOK, Inside, Applying, Kept, locks
    <3>8. applyLock' \in Tasks \cup {Nobody} /\ integrationLock' \in Tasks \cup {Nobody}
      BY <3>1 DEF locks, ServerInv, StructOK, TypeOK
    <3>9. ~Replaces(job'[r])
      BY <3>3, <3>4 DEF Replaces, Rebuilding
    <3> QED  BY <1>3, <3>3, <3>4, <3>5, <3>6, <3>7, <3>8, <3>9 DEF JobOK, Kept
  <2> QED  BY <2>1, <2>2
<1>6. StructOK'
  <2>1. /\ owned' \in [Instances -> SUBSET Clients]
        /\ registry' \in [Instances -> [Names -> Clients \cup Terrs \cup {Nobody}]]
        /\ graph' \in [Instances -> [client : Someone, repo : Repos \cup {Nobody}]]
        /\ unlisted' \in BOOLEAN /\ job[r].at # "apply" /\ job'[r].at \notin {"apply", "glist"}
    BY <1>1, <1>5 DEF app, ghosts, ServerInv, StructOK, TypeOK, PluginsTypeOK
  <2>2. UNCHANGED <<current, built, saved, runtime, domain, dirTerrs, left, serving, unlisted,
                    owned, registry, graph>>
    BY <1>1 DEF app, ghosts
  <2>3. \A d \in Clients : link'[d] # "down" => link[d] # "down"
    BY <1>4
  <2>4. /\ graph'[i].client \in GraphClients \cup {Nobody} /\ graph'[i].repo = Nobody
        /\ ~Shared(Graph) =>
             registry'[i][Graph] = IF graph'[i].repo = Nobody THEN Nobody ELSE graph'[i].client
        /\ \A d \in GraphClients \cap owned'[i] :
             ~unlisted' /\ link'[d] # "down" => d = graph'[i].client
    BY <1>3, <2>2, <2>3, Constants DEF GraphOK
  <2>5. ~unlisted' => graph'[i].client = Nobody
    BY <1>1, <1>3, <2>2, GraphAlone
  <2>6. job'[r].at \in GraphPlaces => job'[r].inst = i /\ graph'[i].repo = Nobody
    BY <1>5, <2>4 DEF GraphPlaces
  <2> QED  BY <1>1, <1>3, <1>4, <1>5, <2>1, <2>2, <2>3, <2>4, <2>5, <2>6, Constants, GraphJob
<1>7. ASSUME ~overlapped, ~overlapped' PROVE CleanOK' /\ ClientsAreOwned'
  <2>1. ~Replacing /\ serving # "down" /\ i = current /\ current # 0
    BY <1>1, <1>7, InsideIsCurrent DEF Inside
  <2>2. Others(r) /\ CleanOK
    BY <1>1, <1>7, Alone DEF Idle, ServerInv
  <2>3. c # Nobody => c \notin owned[current]
    BY <2>2 DEF CleanOK, MineOK
  <2>4. UNCHANGED <<current, serving, runtime, saved, registry, owned, graph>>
    BY <1>1 DEF app, ghosts
  <2>5. MineOK(job[r])'
    <3>1. job'[r].kind # "connect" /\ job'[r].at \notin {"list", "drop", "close"} /\ job'[r].client = Nobody
      BY <1>3, <1>5
    <3> QED  BY <3>1 DEF MineOK
  <2>6. \A d \in owned[current] : d \in Clients /\ link'[d] = link[d]
    <3>1. owned[current] \subseteq Clients
      BY <1>3, <2>1 DEF ServerInv, StructOK, TypeOK, PluginsTypeOK
    <3> QED  BY <1>4, <2>3, <3>1, Constants
  <2>7. GraphIsUp'
    BY <2>2, <2>4, <2>6 DEF GraphIsUp, CleanOK
  <2>8. \A d \in Clients \ GraphClients : link'[d] = link[d]
    BY <1>3, <1>4, Constants
  <2>9. CleanOK'
    BY <1>5, <1>7, <2>1, <2>2, <2>4, <2>5, <2>7, <2>8, GraphClean
  <2>10. ASSUME NEW d \in Clients, link'[d] # "down" PROVE current # 0 /\ d \in owned[current]
    <3>1. link[d] # "down" /\ d # c
      BY <1>4, <2>10
    <3> QED  BY <1>1, <1>3, <1>7, <2>2, <3>1, OwnedBefore
  <2> QED  BY <2>4, <2>9, <2>10, OwnedStep
<1> QED  BY <1>6, <1>7, Assembled

-----------------------------------------------------------------------------
(* A task that is in nobody's way stays out of it. *)
LEMMA IdleStep ==
  ASSUME ServerInv, ~overlapped, NEW r \in Tasks, Moves(r), JobOK(r, job[r])',
         Idle(job[r]), Idle(job'[r]),
         UNCHANGED <<current, saved, runtime, graph, pluginVars>>,
         serving' = "down" <=> serving = "down"
  PROVE  CleanOK' /\ ClientsAreOwned'
<1>1. CleanOK /\ ClientsAreOwned
  BY DEF ServerInv
<1>2. /\ ~Replaces(job[r]) /\ ~Replaces(job'[r]) /\ job[r].client = Nobody /\ job[r].todo = {}
      /\ job'[r].client = Nobody /\ job'[r].todo = {}
      /\ job'[r].kind = "connect" => job'[r].at = "lock"
  BY IdleHands DEF Idle, Replaces, Rebuilding, JobOK, HandOK, KindOK, Again
<1>3. ASSUME NEW hs, InForce(hs) PROVE InForce(hs)'
  BY <1>3 DEF InForce, Serves, Offered, pluginVars
<1>4. ASSUME NEW k \in Tasks PROVE RebuiltOK(job[k])' /\ MineOK(job[k])'
  <2>1. CASE k = r
    BY <1>2, <2>1 DEF RebuiltOK, PlanOK, MineOK, Idle
  <2>2. CASE k # r
    <3>1. job'[k] = job[k] /\ RebuiltOK(job[k]) /\ MineOK(job[k])
      BY <1>1, <2>2 DEF Moves, CleanOK
    <3>2. MineOK(job[k])' /\ PlanOK(job[k])'
      BY <3>1 DEF MineOK, RebuiltOK, PlanOK, Replaces, pluginVars
    <3>3. Replaces(job'[k]) => InForce(job[k].new)'
      <4> PICK hs : hs = job[k].new
        OBVIOUS
      <4>1. Replaces(job'[k]) => InForce(hs)
        BY <3>1 DEF RebuiltOK
      <4> QED  BY <1>3, <3>1, <4>1, NewInForce
    <3> QED  BY <3>2, <3>3 DEF RebuiltOK
  <2> QED  BY <2>1, <2>2
<1>5. ~Replacing' /\ current' # 0 => InForce(runtime)'
  <2>1. \A k \in Tasks : Replaces(job[k]) => Replaces(job'[k])
    BY <1>2 DEF Moves, Replaces
  <2>2. ~Replacing' => ~Replacing
    BY <2>1 DEF Replacing, Replaces, Rebuilding
  <2> PICK hs : hs = runtime
    OBVIOUS
  <2>3. ~Replacing' /\ current' # 0 => InForce(hs)
    BY <1>1, <2>2 DEF CleanOK
  <2> QED  BY <1>3, <2>3, RuntimeInForce
<1>6. GraphIsUp'
  BY <1>1 DEF CleanOK, GraphIsUp, pluginVars
<1>7. CleanOK'
  BY <1>4, <1>5, <1>6 DEF CleanOK
<1>8. ClientsAreOwned'
  <2> SUFFICES ASSUME NEW c \in Clients, link[c] # "down"
               PROVE  \/ current # 0 /\ c \in owned[current]
                      \/ \E k \in Tasks : \/ job'[k].client = c \/ c \in job'[k].todo
                                          \/ job'[k].at = "flush" /\ c \in owned[job'[k].inst]
    BY DEF ClientsAreOwned, Held, pluginVars
  <2>1. CASE current # 0 /\ c \in owned[current]
    BY <2>1
  <2>2. CASE ~(current # 0 /\ c \in owned[current])
    <3>1. PICK k \in Tasks : \/ job[k].client = c \/ c \in job[k].todo
                             \/ job[k].at = "flush" /\ c \in owned[job[k].inst]
      BY <1>1, <2>2 DEF ClientsAreOwned, Held
    <3>2. k # r
      BY <1>2, <3>1, Constants DEF Idle
    <3> QED  BY <3>1, <3>2 DEF Moves
  <2> QED  BY <2>1, <2>2
<1> QED  BY <1>7, <1>8

(* Entering integration_lock for the code graph is done on the current
   instance, unless an overlap is noted. *)
LEMMA GraphEnters ==
  ASSUME ServerInv, Notes, ~overlapped', NEW r \in Tasks, Moves(r),
         job[r].at = "lock", job[r].kind \in {"graph", "apply", "boot"},
         job'[r].kind = job[r].kind, job'[r].inst = job[r].inst, integrationLock' = r,
         UNCHANGED current
  PROVE  ~Replacing /\ job[r].inst = current
<1>1. /\ KindOK(r, job[r]) /\ InstOK(job[r]) /\ PhaseOK
      /\ \A k \in Tasks : Applying(job[k]) <=> applyLock = k
  BY DEF ServerInv, StructOK, JobsOK, JobOK, LocksOK
<1>2. CASE job[r].kind = "graph"
  BY <1>2, EntersCurrent
<1>3. CASE job[r].kind = "apply"
  <2>1. applyLock = r /\ job[r].inst = current
    BY <1>1, <1>3 DEF Applying, InstOK
  <2> QED  BY <1>1, <2>1 DEF Replacing, Applying
<1>4. CASE job[r].kind = "boot"
  <2>1. serving = "boot" /\ job[r].inst = current
    BY <1>1, <1>4 DEF PhaseOK, InstOK, KindOK, ServerInv, StructOK, TypeOK
  <2>2. \A k \in Tasks : job[k].kind # "apply"
    BY <1>1, <2>1 DEF PhaseOK, Tasks
  <2> QED  BY <2>1, <2>2 DEF Replacing
<1> QED  BY <1>2, <1>3, <1>4

(* The layer runs on this directory already. *)
LEMMA SameRepoStep ==
  ASSUME ServerInv, NEW r \in Tasks, EnterGraph(r), Notes,
         graph[job[r].inst].repo # Nobody, graph[job[r].inst].repo = job[r].id
  PROVE  ServerInv'
<1> PICK i : i = job[r].inst
  OBVIOUS
<1>1. /\ job[r] \in JobRecord /\ JobOK(r, job[r]) /\ job[r].at = "lock" /\ integrationLock = Nobody
      /\ job[r].kind \in {"graph", "apply", "boot"} /\ Go(r, Free)
      /\ applyLock' = IF job[r].kind = "apply" THEN Nobody ELSE applyLock
      /\ UNCHANGED <<integrationLock, app, pluginVars, ghosts>>
  BY DEF EnterGraph, ServerInv, StructOK, TypeOK, JobsOK, Return, app, pluginVars
<1>2. Moves(r) /\ job'[r] = Free
  BY <1>1, FreeRecord, GoMoves DEF ServerInv, StructOK
<1>3. JobOK(r, job[r])'
  BY <1>2, FreeRecord DEF JobOK, KindOK, IdOK, InstOK, HandOK, Again, GraphPlaces
<1>4. LockMoves(r)
  <2>1. job[r].kind = "apply" <=> applyLock = r
    BY <1>1 DEF ServerInv, StructOK, LocksOK, Applying
  <2> QED  BY <1>1, <1>2, <2>1, FreeRecord, Constants DEF LockMoves, Applying, Inside
<1>5. i \in Instances /\ i <= current /\ GraphOK(i)
  <2>1. /\ current \in Nat /\ (current # 0 => current \in Instances)
        /\ \A k \in 1..current : k \in Instances
    BY CurrentIsBuilt DEF ServerInv, StructOK
  <2> QED  BY <1>1, <2>1 DEF JobOK, InstOK, ServerInv, StructOK, GraphsOK
<1>6. StructOK'
  <2>1. /\ link' \in [Clients -> Links] /\ owned' \in [Instances -> SUBSET Clients]
        /\ registry' \in [Instances -> [Names -> Clients \cup Terrs \cup {Nobody}]]
        /\ graph' \in [Instances -> [client : Someone, repo : Repos \cup {Nobody}]]
        /\ unlisted' \in BOOLEAN
        /\ applyLock' \in Tasks \cup {Nobody} /\ integrationLock' \in Tasks \cup {Nobody}
    BY <1>1 DEF app, pluginVars, ghosts, ServerInv, StructOK, TypeOK, PluginsTypeOK
  <2>2. UNCHANGED <<current, built, saved, runtime, domain, dirTerrs, left, serving, unlisted,
                    link, owned, registry, graph>>
    BY <1>1 DEF app, pluginVars, ghosts
  <2>3. /\ job'[r].kind = "none" /\ job'[r].new = NoHandles
        /\ job'[r].at = "free" /\ job'[r].at \notin GraphPlaces
    BY <1>2, FreeRecord DEF GraphPlaces
  <2>4. /\ graph'[i].client \in GraphClients \cup {Nobody}
        /\ graph'[i].repo # Nobody /\ graph'[i].client # Nobody
        /\ ~Shared(Graph) =>
             registry'[i][Graph] = IF graph'[i].repo = Nobody THEN Nobody ELSE graph'[i].client
        /\ \A c \in GraphClients \cap owned'[i] :
             ~unlisted' /\ link'[c] # "down" => c = graph'[i].client
    BY <1>5, <2>2 DEF GraphOK
  <2> QED  BY <1>1, <1>2, <1>3, <1>4, <1>5, <2>1, <2>2, <2>3, <2>4, GraphJob
<1>7. ASSUME ~overlapped, ~overlapped' PROVE CleanOK' /\ ClientsAreOwned'
  <2>1. UNCHANGED <<current, saved, runtime, graph, pluginVars, serving>>
    BY <1>1 DEF app, ghosts
  <2> QED  BY <1>1, <1>2, <1>3, <1>7, <2>1, FreeRecord, IdleStep DEF Idle
<1> QED  BY <1>6, <1>7, Assembled

(* The layer is stopped: switched off, or on for another directory. *)
LEMMA StopStep ==
  ASSUME ServerInv, NEW r \in Tasks, EnterGraph(r), Notes,
         ~(graph[job[r].inst].repo # Nobody /\ graph[job[r].inst].repo = job[r].id),
         job[r].id = Nobody \/ MustStop(job[r].inst)
  PROVE  ServerInv'
<1> PICK i, c : i = job[r].inst /\ c = graph[i].client
  OBVIOUS
<1> DEFINE new == [job[r] EXCEPT !.at = "stop", !.client = c]
<1>1. /\ job[r] \in JobRecord /\ JobOK(r, job[r]) /\ job[r].at = "lock" /\ integrationLock = Nobody
      /\ job[r].kind \in {"graph", "apply", "boot"} /\ Go(r, new) /\ integrationLock' = r
      /\ registry' = [registry EXCEPT ![i] = Put(@, {Graph}, Nobody)]
      /\ graph' = [graph EXCEPT ![i] = NoGraph]
      /\ IF c # Nobody THEN owned' = [owned EXCEPT ![i] = @ \ {c}] ELSE owned' = owned
      /\ UNCHANGED <<applyLock, current, built, saved, runtime, link, domain, dirTerrs, ghosts>>
      /\ PluginsTypeOK /\ unlisted \in BOOLEAN
      /\ graph \in [Instances -> [client : Someone, repo : Repos \cup {Nobody}]]
  BY DEF EnterGraph, ServerInv, StructOK, TypeOK, JobsOK, Unregister, Register, Disown
<1>2. i \in Instances /\ i <= current /\ current \in Nat /\ current # 0 /\ GraphOK(i)
  <2>1. /\ current \in Nat /\ (current # 0 => current \in Instances)
        /\ \A k \in 1..current : k \in Instances
    BY CurrentIsBuilt DEF ServerInv, StructOK
  <2> QED  BY <1>1, <2>1 DEF JobOK, InstOK, ServerInv, StructOK, GraphsOK
<1>3. c \in GraphClients \cup {Nobody} /\ c \in Someone /\ "stop" \in Places
  BY <1>2, Constants DEF GraphOK, Someone, Places
<1>4. /\ new \in JobRecord /\ Kept(job[r], new) /\ new.at = "stop" /\ new.client = c
      /\ new.id = job[r].id /\ new.todo = job[r].todo
  BY <1>1, <1>3 DEF JobRecord, Kept
<1>5. Moves(r) /\ job'[r] = new
  BY <1>1, <1>4, GoMoves DEF ServerInv, StructOK
<1> HIDE DEF new
<1>6. JobOK(r, job[r])'
  <2>1. KindOK(r, job[r])' /\ IdOK(job[r])'
    BY <1>1, <1>4, <1>5 DEF JobOK, KindOK, IdOK, Kept, GraphPlaces
  <2>2. InstOK(job[r])' /\ HandOK(job[r])'
    BY <1>1, <1>3, <1>4, <1>5 DEF JobOK, InstOK, HandOK, Again, Kept
  <2> QED  BY <2>1, <2>2 DEF JobOK
<1>7. LockMoves(r)
  BY <1>1, <1>4, <1>5, Constants
     DEF ServerInv, StructOK, LockMoves, LocksOK, Inside, Applying, Kept
<1>8. /\ registry' \in [Instances -> [Names -> Clients \cup Terrs \cup {Nobody}]]
      /\ \A n \in Names : registry'[i][n] = IF n = Graph THEN Nobody ELSE registry[i][n]
      /\ \A k \in Instances : k # i => registry'[k] = registry[k]
  <2>1. Put(registry[i], {Graph}, Nobody) \in [Names -> Clients \cup Terrs \cup {Nobody}]
    BY <1>1, <1>2 DEF Put, PluginsTypeOK
  <2> QED  BY <1>1, <1>2, <2>1 DEF Put, PluginsTypeOK
<1>9. /\ owned' \in [Instances -> SUBSET Clients] /\ owned'[i] = owned[i] \ {c}
      /\ \A k \in Instances : k # i => owned'[k] = owned[k]
  <2>1. owned \in [Instances -> SUBSET Clients] /\ owned[i] \subseteq Clients
    BY <1>1, <1>2 DEF PluginsTypeOK
  <2>2. CASE c # Nobody
    BY <1>1, <1>2, <2>1, <2>2
  <2>3. CASE c = Nobody
    BY <1>1, <2>1, <2>3, Constants
  <2> QED  BY <2>2, <2>3
<1>10. /\ graph'[i].client = Nobody /\ graph'[i].repo = Nobody
       /\ \A k \in Instances : k # i => graph'[k] = graph[k]
       /\ graph' \in [Instances -> [client : Someone, repo : Repos \cup {Nobody}]]
  <2>1. NoGraph \in [client : Someone, repo : Repos \cup {Nobody}]
    BY DEF NoGraph, Someone
  <2> QED  BY <1>1, <1>2, <2>1 DEF NoGraph
<1>11. StructOK'
  <2>1. link' \in [Clients -> Links]
    BY <1>1 DEF PluginsTypeOK
  <2>2. /\ registry'[i][Graph] = IF graph'[i].repo = Nobody THEN Nobody ELSE graph'[i].client
        /\ graph'[i].client \in GraphClients \cup {Nobody} /\ graph'[i].repo = Nobody
        /\ graph'[i].client = Nobody
    BY <1>8, <1>10, ServerAssumption
  <2>3. \A d \in GraphClients \cap owned'[i] : ~unlisted' /\ link'[d] # "down" => d = graph'[i].client
    BY <1>1, <1>2, <1>9 DEF GraphOK, ghosts
  <2>4. /\ UNCHANGED <<current, built, saved, runtime, domain, dirTerrs, left, serving, unlisted>>
        /\ applyLock' \in Tasks \cup {Nobody} /\ integrationLock' \in Tasks \cup {Nobody}
        /\ unlisted' \in BOOLEAN /\ integrationLock \in {r, Nobody} /\ job[r].at # "apply"
        /\ \A k \in Instances, d \in GraphClients :
             k # i /\ d \in owned[k] /\ link'[d] # "down" => link[d] # "down"
    BY <1>1 DEF ghosts, ServerInv, StructOK, TypeOK
  <2>5. /\ job'[r].kind = job[r].kind /\ job'[r].new = job[r].new /\ job'[r].inst = i
        /\ job'[r].at = "stop"
    BY <1>4, <1>5 DEF Kept
  <2>6. \A k \in Instances : k # i =>
          owned'[k] = owned[k] /\ graph'[k] = graph[k] /\ registry'[k] = registry[k]
    BY <1>8, <1>9, <1>10
  <2> QED
    BY <1>2, <1>5, <1>6, <1>7, <1>8, <1>9, <1>10, <2>1, <2>2, <2>3, <2>4, <2>5, <2>6, GraphJob
<1>12. ASSUME ~overlapped, ~overlapped' PROVE CleanOK' /\ ClientsAreOwned'
  <2>1. ~Replacing /\ i = current
    BY <1>1, <1>4, <1>5, <1>12, GraphEnters DEF Kept
  <2>2. Others(r)
    BY <1>1, <2>1, EntrantAlone
  <2>3. ~Replaces(job'[r]) /\ MineOK(job[r])'
    BY <1>1, <1>2, <1>4, <1>5, <1>9, <2>1 DEF Replaces, MineOK, Kept, Rebuilding
  <2>4. UNCHANGED <<current, serving, runtime, saved, link>>
    BY <1>1 DEF ghosts
  <2>5. GraphIsUp'
    BY <1>10, <2>1, <2>4 DEF GraphIsUp
  <2>6. \A d \in Clients \ GraphClients :
          (d \in owned[current] <=> d \in owned'[current]) /\ link'[d] = link[d]
    BY <1>3, <1>9, <2>1, <2>4, Constants
  <2>7. CleanOK'
    BY <1>2, <1>5, <1>8, <1>12, <2>1, <2>2, <2>3, <2>4, <2>5, <2>6, GraphClean
  <2>8. ASSUME NEW d \in Clients, link'[d] # "down"
        PROVE  (current # 0 /\ d \in owned'[current]) \/ job'[r].client = d
    <3>1. job[r].client = Nobody /\ job[r].todo = {}
      BY <1>1, IdleHands DEF Idle
    <3> QED  BY <1>1, <1>2, <1>4, <1>5, <1>9, <1>12, <2>1, <2>2, <2>8, <3>1, OwnedBefore, Constants
  <2> QED  BY <2>4, <2>7, <2>8, OwnedStep
<1> QED  BY <1>11, <1>12, Assembled

(* Nothing runs there: the start goes on at once. *)
LEMMA StartStep ==
  ASSUME ServerInv, NEW r \in Tasks, EnterGraph(r), Notes,
         ~(graph[job[r].inst].repo # Nobody /\ graph[job[r].inst].repo = job[r].id),
         ~(job[r].id = Nobody \/ MustStop(job[r].inst))
  PROVE  ServerInv'
<1> PICK i : i = job[r].inst
  OBVIOUS
<1> DEFINE new == [job[r] EXCEPT !.at = "glink"]
<1>1. /\ job[r] \in JobRecord /\ JobOK(r, job[r]) /\ job[r].at = "lock" /\ integrationLock = Nobody
      /\ job[r].kind \in {"graph", "apply", "boot"} /\ Go(r, new) /\ integrationLock' = r
      /\ UNCHANGED <<applyLock, app, pluginVars, ghosts>>
      /\ graph[i].repo = Nobody /\ job[r].id # Nobody
  BY DEF EnterGraph, ServerInv, StructOK, TypeOK, JobsOK, MustStop, At, app, pluginVars
<1>2. i \in Instances /\ i <= current /\ current \in Nat /\ current # 0 /\ GraphOK(i)
  <2>1. /\ current \in Nat /\ (current # 0 => current \in Instances)
        /\ \A k \in 1..current : k \in Instances
    BY CurrentIsBuilt DEF ServerInv, StructOK
  <2> QED  BY <1>1, <2>1 DEF JobOK, InstOK, ServerInv, StructOK, GraphsOK
<1>3. "glink" \in Places
  BY DEF Places
<1>4. /\ new \in JobRecord /\ Kept(job[r], new) /\ new.at = "glink" /\ new.client = job[r].client
      /\ new.id = job[r].id /\ new.todo = job[r].todo
  BY <1>1, <1>3 DEF JobRecord, Kept
<1>5. Moves(r) /\ job'[r] = new
  BY <1>1, <1>4, GoMoves DEF ServerInv, StructOK
<1> HIDE DEF new
<1>6. JobOK(r, job[r])'
  <2>1. KindOK(r, job[r])' /\ IdOK(job[r])'
    BY <1>1, <1>4, <1>5 DEF JobOK, KindOK, IdOK, Kept, GraphPlaces
  <2>2. InstOK(job[r])' /\ HandOK(job[r])'
    BY <1>1, <1>4, <1>5 DEF JobOK, InstOK, HandOK, Again, Kept, app
  <2> QED  BY <2>1, <2>2 DEF JobOK
<1>7. LockMoves(r)
  BY <1>1, <1>4, <1>5, Constants
     DEF ServerInv, StructOK, LockMoves, LocksOK, Inside, Applying, Kept
<1>8. StructOK'
  <2>1. /\ link' \in [Clients -> Links] /\ owned' \in [Instances -> SUBSET Clients]
        /\ registry' \in [Instances -> [Names -> Clients \cup Terrs \cup {Nobody}]]
        /\ graph' \in [Instances -> [client : Someone, repo : Repos \cup {Nobody}]]
        /\ unlisted' \in BOOLEAN /\ integrationLock \in {r, Nobody} /\ job[r].at # "apply"
        /\ applyLock' \in Tasks \cup {Nobody} /\ integrationLock' \in Tasks \cup {Nobody}
    BY <1>1 DEF app, pluginVars, ghosts, ServerInv, StructOK, TypeOK, PluginsTypeOK
  <2>2. UNCHANGED <<current, built, saved, runtime, domain, dirTerrs, left, serving, unlisted,
                    link, owned, registry, graph>>
    BY <1>1 DEF app, pluginVars, ghosts
  <2>3. /\ job'[r].kind = job[r].kind /\ job'[r].new = job[r].new /\ job'[r].inst = i
        /\ job'[r].at = "glink"
    BY <1>4, <1>5 DEF Kept
  <2>4. /\ graph'[i].client \in GraphClients \cup {Nobody} /\ graph'[i].repo = Nobody
        /\ ~Shared(Graph) =>
             registry'[i][Graph] = IF graph'[i].repo = Nobody THEN Nobody ELSE graph'[i].client
        /\ \A c \in GraphClients \cap owned'[i] :
             ~unlisted' /\ link'[c] # "down" => c = graph'[i].client
    BY <1>1, <1>2, <2>2 DEF GraphOK
  <2>5. ~unlisted' => graph'[i].client = Nobody
    BY <1>1, <1>2, <2>2, GraphAlone
  <2> QED  BY <1>2, <1>5, <1>6, <1>7, <2>1, <2>2, <2>3, <2>4, <2>5, GraphJob
<1>9. ASSUME ~overlapped, ~overlapped' PROVE CleanOK' /\ ClientsAreOwned'
  <2>1. UNCHANGED <<current, serving, runtime, saved, link, owned, registry, graph>>
    BY <1>1 DEF app, pluginVars, ghosts
  <2>2. ~Replacing /\ i = current
    BY <1>1, <1>4, <1>5, <1>9, <2>1, GraphEnters DEF Kept
  <2>3. Others(r) /\ CleanOK
    BY <1>1, <1>9, <2>2, EntrantAlone DEF ServerInv
  <2>4. job[r].client = Nobody /\ job[r].todo = {}
    BY <1>1, IdleHands DEF Idle
  <2>5. ~Replaces(job'[r]) /\ MineOK(job[r])'
    BY <1>1, <1>4, <1>5, <2>4 DEF Replaces, MineOK, Kept, Rebuilding
  <2>6. GraphIsUp'
    BY <2>1, <2>3 DEF GraphIsUp, CleanOK
  <2>7. CleanOK'
    BY <1>2, <1>5, <1>9, <2>1, <2>2, <2>3, <2>5, <2>6, GraphClean
  <2>8. ASSUME NEW d \in Clients, link'[d] # "down" PROVE current # 0 /\ d \in owned[current]
    BY <1>1, <1>9, <2>1, <2>3, <2>4, <2>8, OwnedBefore, Constants
  <2> QED  BY <2>1, <2>7, <2>8, OwnedStep
<1> QED  BY <1>8, <1>9, Assembled

-----------------------------------------------------------------------------
(* A new instance takes over. *)
LEMMA FiniteReqs == IsFiniteSet(Waiting) /\ Cardinality(Waiting) \in Nat
<1>1. Waiting \subseteq Reqs /\ IsFiniteSet(Reqs)
  BY ServerAssumption DEF Waiting
<1> QED  BY <1>1, FS_Subset, FS_CardinalityType

LEMMA EnterApplyStep ==
  ASSUME ServerInv, NEW r \in Tasks, EnterApply(r), Notes
  PROVE  ServerInv'
<1> PICK todo : todo = IF current = 0 THEN {id \in Ids : saved[id] # "none"} ELSE {}
  OBVIOUS
<1> DEFINE new == [job[r] EXCEPT !.at = IF current = 0 THEN "again" ELSE "flush",
                                 !.inst = IF current = 0 THEN built + 1 ELSE current,
                                 !.todo = todo]
<1>1. /\ job[r] \in JobRecord /\ JobOK(r, job[r]) /\ job[r].at = "apply" /\ applyLock = Nobody
      /\ applyLock' = r /\ current' = built + 1 /\ built' = built + 1 /\ Go(r, new)
      /\ UNCHANGED <<integrationLock, saved, runtime, graph, pluginVars, ghosts>>
      /\ current = built /\ BuiltOK
  BY DEF EnterApply, MayApply, ServerInv, StructOK, TypeOK, JobsOK, BuiltOK
<1>2. /\ job[r].kind = "apply" /\ r \in Reqs /\ job[r].client = Nobody /\ job[r].new = NoHandles
  BY <1>1 DEF JobOK, KindOK, HandOK, JobRecord, GraphPlaces, Rebuilding
<1>3. serving = "open"
  BY <1>1, <1>2 DEF ServerInv, StructOK, PhaseOK, TypeOK
<1>4. /\ IsFiniteSet(Waiting) /\ r \in Waiting /\ Cardinality(Waiting) \in Nat
      /\ Cardinality(Waiting \ {r}) = Cardinality(Waiting) - 1 /\ Cardinality(Waiting \ {r}) \in Nat
  <2>1. r \in Waiting
    BY <1>1, <1>2 DEF Waiting
  <2> QED  BY <2>1, FiniteReqs, FS_RemoveElement, FS_CardinalityType
<1>5. /\ built \in Nat /\ built + 1 <= Cardinality(Instances) /\ built + 1 \in Instances
      /\ Cardinality(Instances) \in Nat
  <2>1. built \in Nat /\ built + Cardinality(Waiting) <= Cardinality(Instances)
    BY <1>1, CurrentIsBuilt DEF BuiltOK, ServerInv, StructOK
  <2> DEFINE n == Cardinality(Instances)
  <2>2. Instances = 1..n /\ n \in Nat
    BY ServerAssumption
  <2> HIDE DEF n
  <2>3. built + 1 <= n
    <3>1. built + Cardinality(Waiting) <= n
      BY <2>1 DEF n
    <3> QED  BY <1>4, <2>1, <2>2, <3>1
  <2>4. built + 1 \in Instances
    BY <2>1, <2>2, <2>3
  <2> QED  BY <2>1, <2>2, <2>3, <2>4 DEF n
<1>6. /\ new \in JobRecord /\ new.kind = "apply" /\ new.client = Nobody /\ new.new = NoHandles
      /\ new.todo = todo /\ todo \subseteq Ids
      /\ current = 0 => new.at = "again" /\ new.inst = built + 1
      /\ current # 0 => new.at = "flush" /\ new.inst = current /\ todo = {}
  <2>1. (IF current = 0 THEN "again" ELSE "flush") \in Places
    BY DEF Places
  <2>2. (IF current = 0 THEN built + 1 ELSE current) \in SomeInst
    BY <1>1, <1>5, CurrentIsBuilt DEF SomeInst, ServerInv, StructOK
  <2>3. todo \in SUBSET (Clients \cup Ids)
    OBVIOUS
  <2> QED  BY <1>1, <1>2, <2>1, <2>2, <2>3 DEF JobRecord
<1>7. Moves(r) /\ job'[r] = new
  BY <1>1, <1>6, GoMoves DEF ServerInv, StructOK
<1> HIDE DEF new
<1>8. Waiting' = Waiting \ {r}
  BY <1>2, <1>6, <1>7 DEF Waiting, Moves, Tasks
<1>9. JobsOK'
  <2>1. JobOK(r, job[r])'
    BY <1>1, <1>2, <1>5, <1>6, <1>7
       DEF JobOK, KindOK, IdOK, InstOK, HandOK, Again, Rebuilding, GraphPlaces
  <2>2. ASSUME NEW k \in Tasks, k # r PROVE JobOK(k, job[k])'
    <3>1. /\ job'[k] = job[k] /\ JobOK(k, job[k])
          /\ Applying(job[k]) <=> applyLock = k
      BY <1>7, <2>2 DEF Moves, ServerInv, StructOK, JobsOK, LocksOK
    <3>2. ~Applying(job[k]) /\ job[k].kind \notin {"boot", "shutdown"}
      BY <1>1, <1>3, <3>1, Constants DEF ServerInv, StructOK, PhaseOK, JobOK, KindOK
    <3>3. 1..current \subseteq 1..current'
      BY <1>1, <1>5
    <3> QED  BY <3>1, <3>2, <3>3 DEF JobOK, KindOK, IdOK, InstOK, HandOK, Again, Applying
  <2> QED  BY <2>1, <2>2 DEF JobsOK
<1>10. LocksOK'
  BY <1>1, <1>2, <1>6, <1>7, Constants
     DEF ServerInv, StructOK, LocksOK, Applying, Inside, Moves
<1>11. PhaseOK'
  BY <1>1, <1>2, <1>3, <1>7, ServerAssumption
     DEF ServerInv, StructOK, PhaseOK, Moves, ghosts, Tasks
<1>12. BuiltOK'
  <2>1. current' = built' /\ built' + Cardinality(Waiting)' <= Cardinality(Instances)
    BY <1>1, <1>4, <1>5, <1>8 DEF BuiltOK
  <2>2. \A i \in Instances : i > current' => i > current
    BY <1>1, <1>5, Constants
  <2> QED  BY <1>1, <2>1, <2>2 DEF BuiltOK, pluginVars
<1>13. StructOK'
  <2>1. current' \in 0..built' /\ built' \in 0..Cardinality(Instances)
    BY <1>1, <1>5
  <2>2. TypeOK'
    BY <1>1, <1>7, <2>1
       DEF ServerInv, StructOK, TypeOK, PluginsTypeOK, Moves, Notes, pluginVars, ghosts
  <2>3. HandlesOK'
    BY <1>1, <1>2, <1>6, <1>7, Handled
  <2>4. GraphsOK'
    BY <1>1, <1>6, <1>7, GraphKept DEF pluginVars, ghosts, GraphPlaces
  <2> QED  BY <1>9, <1>10, <1>11, <1>12, <2>2, <2>3, <2>4 DEF StructOK
<1>14. ASSUME ~overlapped, ~overlapped' PROVE CleanOK' /\ ClientsAreOwned'
  <2>1. Others(r)
    <3> SUFFICES ASSUME NEW k \in Tasks, k # r, ~Idle(job[k]) PROVE FALSE
      BY IdleHands DEF Others
    <3>1. /\ KindOK(k, job[k]) /\ job[k] \in JobRecord /\ job'[k] = job[k]
          /\ Applying(job[k]) <=> applyLock = k
          /\ Inside(job[k]) <=> integrationLock = k
      BY <1>7 DEF ServerInv, StructOK, JobsOK, JobOK, LocksOK, TypeOK, Moves
    <3>2. ~Applying(job[k]) /\ job[k].kind \notin {"boot", "shutdown"}
      BY <1>1, <1>3, <3>1, Constants DEF ServerInv, StructOK, PhaseOK, KindOK
    <3>3. integrationLock = k
      BY <3>1, <3>2, AtWork DEF Applying, Rebuilding
    <3>4. Replacing'
      BY <1>6, <1>7 DEF Replacing
    <3>5. job[k].kind \in {"connect", "disconnect", "graph"}
      BY <3>1, <3>2, <3>3 DEF Applying, Inside, JobRecord, KindOK
    <3> QED  BY <1>1, <1>14, <3>1, <3>3, <3>4, <3>5 DEF Notes, Overlap, Working
  <2>2. /\ owned[current'] = {} /\ graph[current'] = NoGraph
        /\ \A n \in Names : registry[current'][n] = Nobody
    <3>1. built + 1 > current
      BY <1>1, <1>5
    <3> QED  BY <1>1, <1>5, <3>1 DEF BuiltOK
  <2>3. UNCHANGED <<owned, graph, registry, link, saved, runtime, serving>>
    BY <1>1 DEF pluginVars, ghosts
  <2>4. Replaces(job'[r])
    BY <1>6, <1>7 DEF Replaces, Rebuilding
  <2>5. PlanOK(job[r])'
    BY <1>6, <1>7, <2>2, <2>3 DEF PlanOK, NoHandles
  <2>6. InForce(job[r].new)'
    <3>1. job'[r].new = NoHandles /\ \A id \in Ids : NoHandles[id] = NoHandle
      BY <1>6, <1>7 DEF NoHandles
    <3>2. \A id \in Ids : \A n \in SoleNames(id) : registry'[current'][n] = Nobody
      BY <2>2, <2>3, ToolNames
    <3>3. NoHandle.write = FALSE
      BY DEF NoHandle
    <3>4. \A id \in Ids : Serves(id, NoHandle)'
      BY <3>2, <3>3 DEF Serves, Offered
    <3>6. \A c \in Clients : c \notin owned'[current']
      BY <2>2, <2>3
    <3>5. InForce(NoHandles)'
      BY <3>1, <3>4, <3>6 DEF InForce
    <3> QED  BY <3>1, <3>5, NewInForce
  <2>7. MineOK(job[r])'
    BY <1>6, <1>7 DEF MineOK
  <2>8. GraphIsUp'
    BY <2>2, <2>3 DEF GraphIsUp, NoGraph
  <2>9. CleanOK'
    BY <1>7, <2>1, <2>4, <2>5, <2>6, <2>7, <2>8, CleanStep DEF RebuiltOK
  <2>10. ASSUME NEW d \in Clients, link'[d] # "down"
         PROVE  job'[r].at = "flush" /\ d \in owned'[job'[r].inst]
    <3>1. job[r].client = Nobody /\ job[r].todo = {}
      BY <1>1, IdleHands DEF Idle
    <3>2. current # 0 /\ d \in owned[current]
      BY <1>1, <1>14, <2>1, <2>3, <2>10, <3>1, OwnedBefore, Constants
    <3> QED  BY <1>6, <1>7, <2>3, <3>2
  <2> QED  BY <2>9, <2>10, OwnedStep
<1> QED  BY <1>13, <1>14, Assembled

-----------------------------------------------------------------------------
(* A request arrives at a task that is free. *)
LEMMA ArrivalJob ==
  ASSUME ServerInv, Notes, NEW r \in Reqs, NEW new \in JobRecord, Go(r, new),
         job[r].at = "free", serving = "open",
         KindOK(r, new), IdOK(new), HandOK(new), InstOK(new), Idle(new), ~Applying(new), ~Inside(new),
         new.new = NoHandles, UNCHANGED <<app, locks, pluginVars, serving, unlisted>>,
         left' \in 0..MaxRequests, BuiltOK'
  PROVE  ServerInv'
<1>1. r \in Tasks /\ r # Main /\ job[r] \in JobRecord /\ JobOK(r, job[r])
  BY ServerAssumption DEF Tasks, ServerInv, StructOK, TypeOK, JobsOK
<1>2. Moves(r) /\ job'[r] = new
  BY <1>1, GoMoves DEF ServerInv, StructOK
<1>3. UNCHANGED <<current, built, saved, runtime, graph, applyLock, integrationLock, link, owned,
                  registry, domain, dirTerrs>>
  BY DEF app, locks, pluginVars
<1>4. job[r].new = NoHandles /\ ~Applying(job[r]) /\ ~Inside(job[r])
  BY <1>1 DEF JobOK, KindOK, HandOK, Rebuilding, GraphPlaces, Applying, Inside
<1>5. JobsOK'
  <2>1. JobOK(r, job[r])'
    BY <1>2, <1>3 DEF JobOK, KindOK, IdOK, InstOK, HandOK, Again
  <2>2. ASSUME NEW k \in Tasks, k # r PROVE JobOK(k, job[k])'
    <3>1. job'[k] = job[k] /\ JobOK(k, job[k])
      BY <1>2, <2>2 DEF Moves, ServerInv, StructOK, JobsOK
    <3> QED  BY <1>3, <3>1 DEF JobOK, KindOK, IdOK, InstOK, HandOK, Again
  <2> QED  BY <2>1, <2>2 DEF JobsOK
<1>6. LocksOK'
  <2> SUFFICES ASSUME NEW k \in Tasks
               PROVE  /\ Applying(job[k])' <=> applyLock' = k
                      /\ Inside(job[k])' <=> integrationLock' = k
    BY DEF LocksOK
  <2>1. /\ Applying(job[k]) <=> applyLock = k
        /\ Inside(job[k]) <=> integrationLock = k
    BY DEF ServerInv, StructOK, LocksOK
  <2>2. CASE k = r
    BY <1>2, <1>3, <1>4, <2>1, <2>2 DEF Applying, Inside
  <2>3. CASE k # r
    BY <1>2, <1>3, <2>1, <2>3 DEF Applying, Inside, Moves
  <2> QED  BY <2>2, <2>3
<1>7. PhaseOK'
  BY <1>1, <1>2 DEF ServerInv, StructOK, PhaseOK, Moves, Tasks
<1>8. StructOK'
  <2>1. TypeOK'
    BY <1>2, <1>3 DEF ServerInv, StructOK, TypeOK, PluginsTypeOK, Moves, Notes
  <2>2. HandlesOK'
    BY <1>1, <1>2, <1>3, <1>4, Handled
  <2>3. GraphsOK'
    BY <1>1, <1>2, <1>3, GraphKept DEF GraphPlaces, Idle
  <2> QED  BY <1>5, <1>6, <1>7, <2>1, <2>2, <2>3 DEF StructOK
<1>9. ASSUME ~overlapped, ~overlapped' PROVE CleanOK' /\ ClientsAreOwned'
  <2>1. JobOK(r, job[r])'
    BY <1>1, <1>5 DEF JobsOK
  <2> QED  BY <1>1, <1>2, <1>3, <1>9, <2>1, IdleStep DEF Idle
<1> QED  BY <1>8, <1>9, Assembled

LEMMA RequestRecord ==
  ASSUME TypeOK, NEW r, NEW kind \in {"apply", "connect", "disconnect", "graph"},
         NEW st \in {"apply", "lock"}
  PROVE  LET new == Request(r, kind, st) IN
         /\ new \in JobRecord /\ new.kind = kind /\ new.at = st /\ new.inst = current
         /\ new.client = Nobody /\ new.todo = {} /\ new.new = NoHandles
<1>1. current \in SomeInst /\ st \in Places
  BY CurrentIsBuilt DEF SomeInst, Places
<1> QED  BY <1>1, FreeRecord DEF Request, JobRecord

(* What arrives waits, on the instance that is there. *)
LEMMA Waits ==
  ASSUME ServerInv, Notes, NEW r \in Reqs, NEW new \in JobRecord, Go(r, new),
         NEW kind \in {"connect", "disconnect", "graph"}, Arrives(r, kind),
         new.kind = kind, new.at = "lock", new.inst = current, new.client = Nobody,
         new.todo = {}, new.new = NoHandles,
         kind \in {"connect", "disconnect"} => new.id \in Ids,
         kind = "graph" => new.id \in Repos \cup {Nobody}
  PROVE  ServerInv'
<1>1. /\ job[r].at = "free" /\ serving = "open" /\ current # 0 /\ left > 0 /\ left' = left - 1
      /\ UNCHANGED <<app, locks, pluginVars, serving, unlisted>>
  BY DEF Arrives
<1>2. KindOK(r, new) /\ IdOK(new) /\ HandOK(new) /\ Idle(new) /\ ~Applying(new) /\ ~Inside(new)
  BY DEF KindOK, IdOK, HandOK, Idle, Applying, Inside, Again, GraphPlaces
<1>3. InstOK(new)
  BY <1>1, CurrentIsBuilt DEF InstOK, ServerInv, StructOK
<1>4. left' \in 0..MaxRequests
  BY <1>1, ServerAssumption DEF ServerInv, StructOK, TypeOK
<1>5. BuiltOK'
  <2>1. r \in Tasks /\ Moves(r) /\ job'[r] = new
    BY GoMoves DEF Tasks, ServerInv, StructOK
  <2> QED  BY <1>1, <2>1, BuiltKept DEF app, pluginVars
<1> QED  BY <1>1, <1>2, <1>3, <1>4, <1>5, ArrivalJob

LEMMA CallApplyStep ==
  ASSUME ServerInv, Notes, NEW r \in Reqs, CallApply(r)
  PROVE  ServerInv'
<1> PICK new : new = Request(r, "apply", "apply")
  OBVIOUS
<1>1. /\ job[r].at = "free" /\ serving = "open" /\ left > 0 /\ left' = left - 1
      /\ UNCHANGED <<app, locks, pluginVars, serving, unlisted>> /\ Go(r, new)
      /\ built + Cardinality(Waiting) < Cardinality(Instances)
  BY DEF CallApply, Arrives, Waiting
<1>2. /\ new \in JobRecord /\ new.kind = "apply" /\ new.at = "apply" /\ new.inst = current
      /\ new.client = Nobody /\ new.todo = {} /\ new.new = NoHandles
  BY RequestRecord DEF ServerInv, StructOK
<1>3. KindOK(r, new) /\ IdOK(new) /\ HandOK(new) /\ Idle(new) /\ ~Applying(new) /\ ~Inside(new)
      /\ InstOK(new)
  BY <1>2 DEF KindOK, IdOK, HandOK, Idle, Applying, Inside, Again, GraphPlaces, InstOK
<1>4. left' \in 0..MaxRequests
  BY <1>1, ServerAssumption DEF ServerInv, StructOK, TypeOK
<1>5. r \in Tasks /\ Moves(r) /\ job'[r] = new
  BY <1>1, <1>2, GoMoves DEF Tasks, ServerInv, StructOK
<1>6. BuiltOK'
  <2>1. Waiting' = Waiting \cup {r} /\ r \notin Waiting
    BY <1>1, <1>2, <1>5 DEF Waiting, Moves, Tasks
  <2>2. Cardinality(Waiting') = Cardinality(Waiting) + 1
    BY <2>1, FiniteReqs, FS_AddElement
  <2>3. built \in Nat /\ Cardinality(Instances) \in Nat /\ built' = built /\ BuiltOK
    BY <1>1, CurrentIsBuilt, ServerAssumption DEF ServerInv, StructOK, BuiltOK, app
  <2>4. built' + Cardinality(Waiting)' <= Cardinality(Instances)
    BY <1>1, <2>2, <2>3, FiniteReqs
  <2> QED  BY <1>1, <2>3, <2>4 DEF BuiltOK, app, pluginVars
<1> QED  BY <1>1, <1>2, <1>3, <1>4, <1>6, ArrivalJob

LEMMA ArrivalStep ==
  ASSUME ServerInv, Notes, NEW r \in Reqs, Arrival(r)
  PROVE  ServerInv'
<1>1. CASE CallApply(r)
  BY <1>1, CallApplyStep
<1>2. CASE \E id \in Ids : CallDisconnect(r, id)
  <2>1. PICK id \in Ids : CallDisconnect(r, id)
    BY <1>2
  <2> PICK base : base = Request(r, "disconnect", "lock")
    OBVIOUS
  <2>2. /\ base \in JobRecord /\ base.kind = "disconnect" /\ base.at = "lock" /\ base.inst = current
        /\ base.client = Nobody /\ base.todo = {} /\ base.new = NoHandles
    BY RequestRecord DEF ServerInv, StructOK
  <2> DEFINE new == [base EXCEPT !.id = id]
  <2>3. Arrives(r, "disconnect") /\ Go(r, new)
    BY <2>1 DEF CallDisconnect
  <2>4. id \in Targets
    BY DEF Targets
  <2>5. /\ new \in JobRecord /\ new.kind = "disconnect" /\ new.at = "lock" /\ new.inst = current
        /\ new.client = Nobody /\ new.todo = {} /\ new.new = NoHandles /\ new.id = id
    BY <2>2, <2>4 DEF JobRecord
  <2> HIDE DEF new
  <2> QED  BY <2>3, <2>5, Waits
<1>3. CASE \E id \in Ids, write \in BOOLEAN : CallConnect(r, id, write)
  <2>1. PICK id \in Ids, write \in BOOLEAN : CallConnect(r, id, write)
    BY <1>3
  <2> PICK base : base = Request(r, "connect", "lock")
    OBVIOUS
  <2>2. /\ base \in JobRecord /\ base.kind = "connect" /\ base.at = "lock" /\ base.inst = current
        /\ base.client = Nobody /\ base.todo = {} /\ base.new = NoHandles
    BY RequestRecord DEF ServerInv, StructOK
  <2> DEFINE new == [base EXCEPT !.id = id, !.write = write]
  <2>3. Arrives(r, "connect") /\ Go(r, new)
    BY <2>1 DEF CallConnect
  <2>4. id \in Targets
    BY DEF Targets
  <2>5. /\ new \in JobRecord /\ new.kind = "connect" /\ new.at = "lock" /\ new.inst = current
        /\ new.client = Nobody /\ new.todo = {} /\ new.new = NoHandles /\ new.id = id
    BY <2>2, <2>4 DEF JobRecord
  <2> HIDE DEF new
  <2> QED  BY <2>3, <2>5, Waits
<1>4. CASE \E repo \in Repos \cup {Nobody} : CallGraph(r, repo)
  <2>1. PICK repo \in Repos \cup {Nobody} : CallGraph(r, repo)
    BY <1>4
  <2> PICK base : base = Request(r, "graph", "lock")
    OBVIOUS
  <2>2. /\ base \in JobRecord /\ base.kind = "graph" /\ base.at = "lock" /\ base.inst = current
        /\ base.client = Nobody /\ base.todo = {} /\ base.new = NoHandles
    BY RequestRecord DEF ServerInv, StructOK
  <2> DEFINE new == [base EXCEPT !.id = repo]
  <2>3. Arrives(r, "graph") /\ Go(r, new)
    BY <2>1 DEF CallGraph
  <2>4. repo \in Targets
    BY DEF Targets
  <2>5. /\ new \in JobRecord /\ new.kind = "graph" /\ new.at = "lock" /\ new.inst = current
        /\ new.client = Nobody /\ new.todo = {} /\ new.new = NoHandles /\ new.id = repo
    BY <2>2, <2>4 DEF JobRecord
  <2> HIDE DEF new
  <2> QED  BY <2>3, <2>5, Waits
<1> QED  BY <1>1, <1>2, <1>3, <1>4 DEF Arrival

-----------------------------------------------------------------------------
(* The lifespan: startup is over, the server opens; it closes. *)
LEMMA BootedStep ==
  ASSUME ServerInv, Notes, Booted
  PROVE  ServerInv'
<1>1. /\ serving = "boot" /\ serving' = "open" /\ job[Main].at = "free" /\ job' = job
      /\ UNCHANGED <<app, locks, pluginVars, left, unlisted>>
  BY DEF Booted
<1>2. UNCHANGED <<current, built, saved, runtime, graph, applyLock, integrationLock, link, owned,
                  registry, domain, dirTerrs>>
  BY <1>1 DEF app, locks, pluginVars
<1>3. Main \in Tasks /\ JobOK(Main, job[Main]) /\ job[Main] \in JobRecord
  BY DEF Tasks, ServerInv, StructOK, JobsOK, TypeOK
<1>4. PhaseOK'
  <2>1. job[Main].kind = "none"
    BY <1>1, <1>3 DEF JobOK, KindOK, GraphPlaces, ServerInv, StructOK, PhaseOK
  <2> QED  BY <1>1, <2>1 DEF PhaseOK
<1>5. StructOK'
  <2>1. TypeOK'
    BY <1>1, <1>2 DEF ServerInv, StructOK, TypeOK, PluginsTypeOK, Notes
  <2>2. JobsOK'
    BY <1>1, <1>2 DEF ServerInv, StructOK, JobsOK, JobOK, KindOK, InstOK, IdOK, HandOK, Again
  <2>3. LocksOK' /\ BuiltOK' /\ HandlesOK' /\ GraphsOK'
    BY <1>1, <1>2 DEF ServerInv, StructOK, LocksOK, Applying, Inside, BuiltOK, Waiting, HandlesOK,
                      GraphsOK, GraphOK
  <2> QED  BY <1>4, <2>1, <2>2, <2>3 DEF StructOK
<1>6. ASSUME ~overlapped, ~overlapped' PROVE CleanOK' /\ ClientsAreOwned'
  <2>1. Moves(Main)
    BY <1>1 DEF Moves, ServerInv, StructOK, TypeOK
  <2>2. JobOK(Main, job[Main])'
    BY <1>3, <1>5 DEF StructOK, JobsOK
  <2>3. UNCHANGED <<current, saved, runtime, graph, pluginVars>> /\ job'[Main] = job[Main]
    BY <1>1, <1>2
  <2> QED  BY <1>1, <1>3, <1>6, <2>1, <2>2, <2>3, IdleStep DEF Idle
<1> QED  BY <1>5, <1>6, Assembled

LEMMA ShutdownStep ==
  ASSUME ServerInv, Notes, Shutdown
  PROVE  ServerInv'
<1> DEFINE new == IF current = 0 THEN Free
                  ELSE [Free EXCEPT !.kind = "shutdown", !.at = "flush", !.inst = current]
<1>1. /\ serving = "open" /\ serving' = "down" /\ \A k \in Tasks : job[k].at = "free"
      /\ UNCHANGED <<app, locks, pluginVars, left, unlisted>> /\ Go(Main, new)
  BY DEF Shutdown
<1>2. UNCHANGED <<current, built, saved, runtime, graph, applyLock, integrationLock, link, owned,
                  registry, domain, dirTerrs>>
  BY <1>1 DEF app, locks, pluginVars
<1>3. \A k \in Tasks : job[k].kind = "none" /\ job[k].new = NoHandles /\ job[k].client = Nobody
                       /\ job[k].todo = {}
  <2> SUFFICES ASSUME NEW k \in Tasks
               PROVE  job[k].kind = "none" /\ job[k].new = NoHandles /\ job[k].client = Nobody
                      /\ job[k].todo = {}
    OBVIOUS
  <2>1. JobOK(k, job[k]) /\ job[k] \in JobRecord /\ job[k].at = "free"
    BY <1>1 DEF ServerInv, StructOK, JobsOK, TypeOK
  <2>2. job[k].kind = "none"
    BY <2>1 DEF JobOK, KindOK, GraphPlaces, Rebuilding, JobRecord
  <2> QED  BY <2>1, <2>2 DEF JobOK, HandOK, Again
<1>4. /\ new \in JobRecord /\ new.client = Nobody /\ new.todo = {} /\ new.new = NoHandles
      /\ current = 0 => new.kind = "none" /\ new.at = "free"
      /\ current # 0 => new.kind = "shutdown" /\ new.at = "flush" /\ new.inst = current
  <2>1. current \in SomeInst /\ "flush" \in Places
    BY CurrentIsBuilt DEF ServerInv, StructOK, SomeInst, Places
  <2> QED  BY <2>1, FreeRecord DEF JobRecord
<1>5. Main \in Tasks /\ Main \notin Reqs /\ Moves(Main) /\ job'[Main] = new
  BY <1>1, <1>4, GoMoves, ServerAssumption DEF Tasks, ServerInv, StructOK
<1> HIDE DEF new
<1>6. JobsOK'
  <2>1. JobOK(Main, job[Main])'
    BY <1>2, <1>4, <1>5 DEF JobOK, KindOK, InstOK, IdOK, HandOK, Again, GraphPlaces
  <2>2. ASSUME NEW k \in Tasks, k # Main PROVE JobOK(k, job[k])'
    <3>1. job'[k] = job[k] /\ JobOK(k, job[k])
      BY <1>5, <2>2 DEF Moves, ServerInv, StructOK, JobsOK
    <3> QED  BY <1>2, <3>1 DEF JobOK, KindOK, InstOK, IdOK, HandOK, Again
  <2> QED  BY <2>1, <2>2 DEF JobsOK
<1>7. LocksOK' /\ PhaseOK'
  <2>1. \A k \in Tasks : /\ ~Applying(job[k]) /\ ~Inside(job[k])
                         /\ ~Applying(job'[k]) /\ ~Inside(job'[k])
    BY <1>1, <1>3, <1>4, <1>5 DEF Moves, Applying, Inside
  <2>2. \A k \in Tasks : applyLock # k /\ integrationLock # k
    BY <2>1 DEF ServerInv, StructOK, LocksOK
  <2>3. LocksOK'
    BY <1>2, <2>1, <2>2 DEF LocksOK, Applying, Inside
  <2>4. PhaseOK'
    BY <1>1, <1>3, <1>4, <1>5 DEF PhaseOK, Moves, Tasks
  <2> QED  BY <2>3, <2>4
<1>8. StructOK'
  <2>1. TypeOK'
    BY <1>1, <1>2, <1>5 DEF ServerInv, StructOK, TypeOK, PluginsTypeOK, Notes, Moves
  <2>2. job[Main].at = "free" /\ job'[Main].at \in {"free", "flush"} /\ job'[Main].new = job[Main].new
    BY <1>1, <1>3, <1>4, <1>5
  <2>3. BuiltOK' /\ HandlesOK'
    BY <1>2, <1>5, <2>2, BuiltKept, Handled
  <2>4. GraphsOK'
    BY <1>1, <1>2, <1>5, <2>2, GraphKept DEF GraphPlaces
  <2> QED  BY <1>6, <1>7, <2>1, <2>3, <2>4 DEF StructOK
<1>9. ASSUME ~overlapped, ~overlapped' PROVE CleanOK' /\ ClientsAreOwned'
  <2>1. Others(Main) /\ CleanOK
    BY <1>1, <1>3, <1>9 DEF Others, Idle, ServerInv
  <2>2. /\ RebuiltOK(job[Main])' /\ MineOK(job[Main])'
    BY <1>4, <1>5 DEF RebuiltOK, PlanOK, Replaces, MineOK
  <2>3. current # 0 => InForce(runtime)'
    <3> SUFFICES ASSUME current # 0 PROVE InForce(runtime)'
      OBVIOUS
    <3> PICK hs : hs = runtime
      OBVIOUS
    <3>1. InForce(hs)
      BY <1>3, <2>1 DEF CleanOK, Replacing
    <3>2. InForce(hs)'
      BY <1>1, <1>2, <3>1 DEF InForce, Serves, Offered
    <3> QED  BY <1>2, <3>2, RuntimeInForce
  <2>4. GraphIsUp'
    BY <1>1 DEF GraphIsUp
  <2>5. CleanOK'
    BY <1>2, <1>5, <2>1, <2>2, <2>3, <2>4, CleanStep
  <2>6. ASSUME NEW d \in Clients, link'[d] # "down" PROVE current # 0 /\ d \in owned[current]
    BY <1>1, <1>2, <1>3, <1>5, <1>9, <2>1, <2>6, OwnedBefore, Constants
  <2> QED  BY <1>2, <1>5, <2>5, <2>6, OwnedStep
<1> QED  BY <1>8, <1>9, Assembled

-----------------------------------------------------------------------------
(* The invariant holds at first, and every step keeps it. *)
LEMMA InitInvariant ==
  ASSUME Init
  PROVE  ServerInv
<1>1. /\ Cardinality(Instances) \in Nat \ {0} /\ current \in 0..1 /\ built = current
      /\ MaxRequests \in Nat
  BY ServerAssumption DEF Init
<1>2. 1 \in Instances
  <2> DEFINE n == Cardinality(Instances)
  <2>1. Instances = 1..n /\ n \in Nat \ {0}
    BY ServerAssumption
  <2> HIDE DEF n
  <2> QED  BY <2>1
<1> PICK boot : boot = [Free EXCEPT !.kind = "boot", !.at = "lock", !.inst = 1, !.id = EnvRepo]
  OBVIOUS
<1>3. EnvRepo # Nobody => /\ boot \in JobRecord /\ boot.kind = "boot" /\ boot.at = "lock"
                          /\ boot.inst = 1 /\ boot.id = EnvRepo /\ boot.client = Nobody
                          /\ boot.todo = {} /\ boot.new = NoHandles
  <2>1. 1 \in SomeInst /\ "lock" \in Places /\ EnvRepo \in Targets
    BY <1>2, ServerAssumption DEF SomeInst, Places, Targets
  <2> QED  BY <2>1, FreeRecord DEF JobRecord
<1>4. ASSUME NEW k \in Tasks
      PROVE  job[k] = Free \/ (k = Main /\ current = 1 /\ EnvRepo # Nobody /\ job[k] = boot)
  BY DEF Init
<1>5. job \in [Tasks -> JobRecord]
  <2>1. \A k \in Tasks : job[k] \in JobRecord
    BY <1>3, <1>4, FreeRecord
  <2>2. job = [k \in Tasks |-> job[k]]
    BY DEF Init
  <2> QED  BY <2>1, <2>2
<1>6. ASSUME NEW k \in Tasks
      PROVE  /\ job[k].at \in {"free", "lock"} /\ job[k].kind \in {"none", "boot"}
             /\ job[k].kind = "boot" => /\ k = Main /\ current = 1 /\ job[k].inst = 1
                                        /\ job[k].id \in Repos /\ job[k].at = "lock"
             /\ job[k].kind = "none" => job[k].at = "free"
             /\ job[k].client = Nobody /\ job[k].todo = {} /\ job[k].new = NoHandles
  BY <1>3, <1>4, FreeRecord, ServerAssumption
<1>7. TypeOK
  <2>1. PluginsTypeOK
    BY DEF Init, PluginsInit, PluginsTypeOK, NoDomain, Links
  <2>2. runtime \in [Ids -> Handles] /\ saved \in [Ids -> Modes]
    BY DEF Init, NoHandle, Handles, Someone, Modes
  <2>3. graph \in [Instances -> [client : Someone, repo : Repos \cup {Nobody}]]
    BY DEF Init, NoGraph, Someone
  <2>4. current \in 0..built /\ built \in 0..Cardinality(Instances)
    BY <1>1
  <2>5. left \in 0..MaxRequests
    BY <1>1 DEF Init
  <2> QED  BY <1>5, <2>1, <2>2, <2>3, <2>4, <2>5 DEF Init, TypeOK
<1>8. JobsOK
  BY <1>1, <1>6 DEF JobsOK, JobOK, KindOK, InstOK, IdOK, HandOK, Again, GraphPlaces
<1>9. LocksOK
  BY <1>6, Constants DEF Init, LocksOK, Applying, Inside
<1>10. PhaseOK
  <2>1. serving = "boot" /\ Main \in Tasks /\ Reqs \subseteq Tasks /\ Main \notin Reqs
    BY ServerAssumption DEF Init, Tasks
  <2> QED  BY <1>6, <2>1 DEF PhaseOK
<1>11. BuiltOK
  <2>1. Waiting = {} /\ Cardinality(Waiting) = 0
    BY <1>6, FS_EmptySet DEF Waiting, Tasks
  <2>2. \A i \in Instances :
          owned[i] = {} /\ graph[i] = NoGraph /\ \A n \in Names : registry[i][n] = Nobody
    BY DEF Init, PluginsInit
  <2> QED  BY <1>1, <2>1, <2>2 DEF BuiltOK
<1>12. HandlesOK
  BY <1>6 DEF HandlesOK, RealHandles, Init, NoHandles
<1>13. GraphsOK
  <2> SUFFICES ASSUME NEW i \in Instances PROVE GraphOK(i)
    BY DEF GraphsOK
  <2>1. /\ graph[i].client = Nobody /\ graph[i].repo = Nobody /\ owned[i] = {}
        /\ registry[i][Graph] = Nobody
    BY ServerAssumption DEF Init, PluginsInit, NoGraph
  <2> QED  BY <1>6, <2>1 DEF GraphOK, GraphPlaces
<1>14. StructOK
  BY <1>7, <1>8, <1>9, <1>10, <1>11, <1>12, <1>13 DEF StructOK
<1>15. ~Overlap
  BY Constants DEF Init, Overlap, Working
<1>16. CleanOK
  <2>1. current # 0 => InForce(runtime)
    <3> SUFFICES ASSUME current # 0 PROVE InForce(runtime)
      OBVIOUS
    <3>1. current = 1 /\ \A n \in Names : registry[current][n] = Nobody
      BY <1>1, <1>2 DEF Init, PluginsInit
    <3>2. \A id \in Ids : runtime[id] = NoHandle
      BY DEF Init
    <3>3. \A id \in Ids : SoleNames(id) \subseteq Names
      BY ToolNames
    <3>6. \A c \in Clients : c \notin owned[current]
      BY <1>1, <1>2, <3>1 DEF Init, PluginsInit
    <3>4. NoHandle.write = FALSE
      BY DEF NoHandle
    <3>5. \A id \in Ids : Serves(id, runtime[id])
      BY <3>1, <3>2, <3>3, <3>4 DEF Serves, Offered
    <3> QED  BY <3>2, <3>5, <3>6 DEF InForce
  <2>2. \A k \in Tasks : RebuiltOK(job[k]) /\ MineOK(job[k])
    BY <1>6 DEF RebuiltOK, PlanOK, Replaces, MineOK
  <2>3. GraphIsUp
    BY <1>1, <1>2 DEF GraphIsUp, Init, NoGraph
  <2> QED  BY <2>1, <2>2, <2>3 DEF CleanOK
<1>17. ClientsAreOwned
  BY DEF ClientsAreOwned, Held, Init, PluginsInit
<1> QED  BY <1>14, <1>15, <1>16, <1>17 DEF ServerInv

LEMMA ProgressStep ==
  ASSUME ServerInv, Notes, NEW r \in Tasks, Progress(r)
  PROVE  ServerInv'
<1>1. CASE EnterApply(r) \/ Flushed(r) \/ CloseOne(r) \/ Reapplied(r)
  BY <1>1, EnterApplyStep, FlushedStep, CloseOneStep, ReappliedStep
<1>2. CASE \E id \in Ids : ReapplyOne(r, id)
  BY <1>2, ReapplyOneStep
<1>3. CASE Linked(r) \/ LinkFails(r) \/ Listed(r) \/ ListFails(r) \/ Undone(r)
  BY <1>3, LinkedStep, LinkFailsStep, ListedStep, ListFailsStep, UndoneStep
<1>4. CASE EnterIntegration(r) \/ Dropped(r)
  BY <1>4, ForgetStep, ConnectStep, DisconnectStep, DroppedStep
<1>5. CASE EnterGraph(r)
  BY <1>5, SameRepoStep, StopStep, StartStep
<1>6. CASE GraphStopped(r) \/ GraphLinked(r) \/ GraphListed(r) \/ GraphFails(r)
  BY <1>6, GraphStoppedStep, GraphLinkedStep, GraphListedStep, GraphFailsStep
<1> QED  BY <1>1, <1>2, <1>3, <1>4, <1>5, <1>6 DEF Progress

LEMMA StutterKeeps ==
  ASSUME ServerInv, UNCHANGED vars
  PROVE  ServerInv'
<1>1. UNCHANGED <<current, built, applyLock, integrationLock, saved, runtime, graph, job, left,
                  serving, overlapped, unlisted, link, owned, registry, domain, dirTerrs>>
  BY DEF vars, pluginVars
<1>2. TypeOK' /\ JobsOK' /\ LocksOK' /\ PhaseOK'
  BY <1>1 DEF ServerInv, StructOK, TypeOK, PluginsTypeOK, JobsOK, JobOK, KindOK, InstOK, IdOK,
              HandOK, Again, LocksOK, Applying, Inside, PhaseOK
<1>3. BuiltOK' /\ HandlesOK' /\ GraphsOK'
  BY <1>1 DEF ServerInv, StructOK, BuiltOK, Waiting, HandlesOK, GraphsOK, GraphOK
<1>4. Overlap' = Overlap
  BY <1>1 DEF Overlap, Working, Replacing
<1>5. CleanOK => CleanOK'
  <2>1. Replacing' = Replacing /\ (GraphIsUp => GraphIsUp')
    BY <1>1 DEF Replacing, GraphIsUp
  <2>2. InForce(runtime) => InForce(runtime)'
    BY <1>1 DEF InForce, Serves, Offered
  <2>3. \A k \in Tasks : RebuiltOK(job[k]) /\ MineOK(job[k]) => RebuiltOK(job[k])' /\ MineOK(job[k])'
    <3> SUFFICES ASSUME NEW k \in Tasks, RebuiltOK(job[k]), MineOK(job[k])
                 PROVE  RebuiltOK(job[k])' /\ MineOK(job[k])'
      OBVIOUS
    <3>1. MineOK(job[k])' /\ PlanOK(job[k])'
      BY <1>1 DEF MineOK, RebuiltOK, PlanOK, Replaces
    <3>2. Replaces(job'[k]) => InForce(job[k].new)'
      <4> PICK hs : hs = job[k].new
        OBVIOUS
      <4>1. Replaces(job'[k]) => InForce(hs)
        BY <1>1 DEF RebuiltOK
      <4>2. InForce(hs) => InForce(hs)'
        BY <1>1 DEF InForce, Serves, Offered
      <4> QED  BY <1>1, <4>1, <4>2, NewInForce
    <3> QED  BY <3>1, <3>2 DEF RebuiltOK
  <2> QED  BY <1>1, <2>1, <2>2, <2>3 DEF CleanOK
<1>6. ClientsAreOwned'
  BY <1>1 DEF ServerInv, ClientsAreOwned, Held
<1> QED  BY <1>1, <1>2, <1>3, <1>4, <1>5, <1>6 DEF ServerInv, StructOK

(* A server that dies changes nobody's account of it. *)
LEMMA ServerDiesStep ==
  ASSUME ServerInv, NEW c \in Clients, ServerDies(c), Notes
  PROVE  ServerInv'
<1>1. /\ link' = [link EXCEPT ![c] = "dead"] /\ link[c] = "up"
      /\ UNCHANGED <<current, built, applyLock, integrationLock, saved, runtime, graph, job, left,
                     serving, unlisted, owned, registry, domain, dirTerrs>>
  BY DEF ServerDies, Dies, app, locks, ghosts
<1>2. /\ link' \in [Clients -> Links] /\ overlapped' \in BOOLEAN
      /\ \A d \in Clients : link'[d] # "down" <=> link[d] # "down"
  BY <1>1 DEF ServerInv, StructOK, TypeOK, PluginsTypeOK, Links, Notes
<1>3. TypeOK' /\ JobsOK' /\ LocksOK' /\ PhaseOK'
  <2>1. TypeOK'
    BY <1>1, <1>2 DEF ServerInv, StructOK, TypeOK, PluginsTypeOK
  <2>2. JobsOK' /\ LocksOK' /\ PhaseOK'
    BY <1>1 DEF ServerInv, StructOK, JobsOK, JobOK, KindOK, InstOK, IdOK,
                HandOK, Again, LocksOK, Applying, Inside, PhaseOK
  <2> QED BY <2>1, <2>2
<1>4. BuiltOK' /\ HandlesOK'
  BY <1>1 DEF ServerInv, StructOK, BuiltOK, Waiting, HandlesOK
<1>5. GraphsOK'
  <2> SUFFICES ASSUME NEW i \in Instances PROVE GraphOK(i)'
    BY DEF GraphsOK
  <2>1. GraphOK(i) /\ owned[i] \subseteq Clients
    BY DEF ServerInv, StructOK, GraphsOK, TypeOK, PluginsTypeOK
  <2> QED BY <1>1, <1>2, <2>1 DEF GraphOK
<1>6. overlapped \/ overlapped' \/ CleanOK
  BY DEF ServerInv
<1>7. overlapped => overlapped'
  BY DEF Notes
<1>8. ASSUME CleanOK PROVE CleanOK'
  <2>1. ASSUME NEW hs, \A id \in Ids : hs[id] \in RealHandles, InForce(hs) PROVE InForce(hs)'
    BY <1>1, <1>2, <2>1, InForceKept
  <2>2. Replacing' = Replacing
    BY <1>1 DEF Replacing
  <2>3. ~Replacing' /\ current' # 0 => InForce(runtime)'
    <3> PICK hs : hs = runtime
      OBVIOUS
    <3>1. ~Replacing' /\ current' # 0 => InForce(hs)
      BY <1>1, <1>8, <2>2 DEF CleanOK
    <3>2. \A id \in Ids : hs[id] \in RealHandles
      BY DEF ServerInv, StructOK, HandlesOK
    <3> QED BY <1>1, <2>1, <3>1, <3>2, RuntimeInForce
  <2>4. ASSUME NEW k \in Tasks PROVE RebuiltOK(job[k])' /\ MineOK(job[k])'
    <3>1. RebuiltOK(job[k]) /\ MineOK(job[k]) /\ job'[k] = job[k] /\ HandOK(job[k])
      BY <1>1, <1>8 DEF CleanOK, ServerInv, StructOK, JobsOK, JobOK
    <3>2. PlanOK(job[k])'
      BY <1>1, <3>1 DEF RebuiltOK, PlanOK, Replaces
    <3>3. MineOK(job[k])'
      <4>1. job[k].at = "list" => job[k].client \in Clients
        BY <3>1 DEF HandOK
      <4>2. current # 0 => owned[current] \subseteq Clients
        BY CurrentIsBuilt DEF ServerInv, StructOK, TypeOK, PluginsTypeOK
      <4>3. job[k].kind = "shutdown" => current # 0
        BY DEF ServerInv, StructOK, JobsOK, JobOK, InstOK
      <4> QED BY <1>1, <1>2, <3>1, <4>1, <4>2, <4>3 DEF MineOK
    <3>4. Replaces(job'[k]) => InForce(job[k].new)'
      <4> PICK hs : hs = job[k].new
        OBVIOUS
      <4>1. Replaces(job'[k]) => InForce(hs)
        BY <3>1 DEF RebuiltOK
      <4>2. \A id \in Ids : hs[id] \in RealHandles
        BY DEF ServerInv, StructOK, HandlesOK
      <4> QED BY <2>1, <3>1, <4>1, <4>2, NewInForce
    <3> QED BY <3>2, <3>4, <3>3 DEF RebuiltOK
  <2>5. GraphIsUp'
    <3>1. current # 0 => graph[current].client \in GraphClients \cup {Nobody}
      BY CurrentIsBuilt DEF ServerInv, StructOK, GraphsOK, GraphOK
    <3>2. GraphIsUp
      BY <1>8 DEF CleanOK
    <3> QED BY <1>1, <1>2, <3>1, <3>2, Constants DEF GraphIsUp
  <2> QED BY <2>3, <2>4, <2>5 DEF CleanOK
<1>9. Overlap' => overlapped'
  BY DEF Notes
<1>10. ClientsAreOwned'
  BY <1>1, <1>2, <1>7 DEF ServerInv, ClientsAreOwned, Held
<1> QED  BY <1>3, <1>4, <1>5, <1>6, <1>7, <1>8, <1>9, <1>10 DEF ServerInv, StructOK

-----------------------------------------------------------------------------
(* Every request is where its kind can be, holds the locks of that place, and
   works on an instance there is; and unless an integration is worked on while
   an apply replaces the instance, the current instance has the handles in
   force and nothing else (app.py:650-785, 835-912; integrations.py:150-260). *)
THEOREM ServerInvariant == Spec => []ServerInv
<1>1. Init => ServerInv
  BY InitInvariant
<1>2. ServerInv /\ [Next]_vars => ServerInv'
  <2> SUFFICES ASSUME ServerInv, [Next]_vars PROVE ServerInv'
    OBVIOUS
  <2>1. CASE UNCHANGED vars
    BY <2>1, StutterKeeps
  <2>2. CASE Next
    <3>1. Notes
      BY <2>2 DEF Next
    <3>2. CASE \E r \in Reqs : Arrival(r)
      BY <3>1, <3>2, ArrivalStep
    <3>3. CASE \E r \in Tasks : Progress(r)
      BY <3>1, <3>3, ProgressStep
    <3>4. CASE Booted \/ Shutdown
      BY <3>1, <3>4, BootedStep, ShutdownStep
    <3>5. CASE \E c \in Clients : ServerDies(c)
      BY <3>1, <3>5, ServerDiesStep
    <3> QED  BY <2>2, <3>2, <3>3, <3>4, <3>5 DEF Next
  <2> QED  BY <2>1, <2>2
<1> QED  BY <1>1, <1>2, PTL DEF Spec

(* No server process is left without an owner by an apply, a connection or a
   disconnection, whatever fails on the way (app.py:677-681, "can't leak";
   integrations.py:204). *)
THEOREM NoServerLeaks == Spec => []ClientsAreOwned
<1>1. ServerInv => ClientsAreOwned
  BY DEF ServerInv
<1> QED  BY <1>1, ServerInvariant, PTL

(* Mutating tools are within a turn's reach only while the user's grant
   stands, an apply's reconnections included (integrations.py:165-172). *)
THEOREM GrantsAreKept == Spec => []WritesAreGranted
<1>1. ServerInv => WritesAreGranted
  <2> SUFFICES ASSUME ServerInv, ~overlapped, current # 0,
                      NEW id \in Ids, saved[id] # "write", NEW n \in Writes[id], ~Shared(n)
               PROVE  registry[current][n] = Nobody
    BY DEF WritesAreGranted
  <2>1. PICK hs : InForce(hs) /\ \A k \in Ids : hs[k] \in RealHandles
    <3>1. CASE ~Replacing
      BY <3>1 DEF ServerInv, CleanOK, StructOK, HandlesOK
    <3>2. CASE Replacing
      <4>1. PICK r \in Tasks : Replaces(job[r])
        BY <3>2 DEF Replacing, Replaces, Rebuilding
      <4> QED  BY <4>1 DEF ServerInv, CleanOK, RebuiltOK, StructOK, HandlesOK
    <3> QED  BY <3>1, <3>2
  <2>2. Serves(id, hs[id])
    BY <2>1 DEF InForce
  <2>3. hs[id].write = FALSE
    <3>1. hs[id] \in RealHandles
      BY <2>1
    <3>2. NoHandle.write = FALSE
      BY DEF NoHandle
    <3>3. hs[id] # NoHandle => hs[id].write \in BOOLEAN
      BY <3>1 DEF RealHandles
    <3> QED  BY <2>2, <3>2, <3>3 DEF Serves
  <2>4. n \in SoleNames(id) /\ n \notin Names_(id, FALSE)
    BY ToolNames DEF SoleNames
  <2> QED  BY <2>2, <2>3, <2>4 DEF Serves, Offered
<1> QED  BY <1>1, ServerInvariant, PTL

(* What the status shows as connected and what is connected are the same: the
   current instance owns the client, nobody has ended its session, and its
   tools are routed to it, but for names that two servers offer; no connection
   goes on unshown; and there is one code-graph server (app.py:702-785,
   framework.py:1189-1236).  Whether the server behind a session still lives is
   not part of it: the status does not ask (app.py:735, 763-768). *)
THEOREM StatusIsTrue == Spec => []RunningIsShown
<1>1. ServerInv => RunningIsShown
  <2> SUFFICES ASSUME ServerInv PROVE TypeOK /\ ShownIsInUse /\ ConnectedIsShown /\ OneGraph
    BY DEF RunningIsShown
  <2>1. TypeOK
    BY DEF ServerInv, StructOK
  <2>2. Settled => InForce(runtime) /\ GraphIsUp /\ GraphOK(current)
    BY <2>1, CurrentIsBuilt DEF Settled, ServerInv, CleanOK, StructOK, GraphsOK
  <2>3. ShownIsInUse
    <3> SUFFICES ASSUME Settled
                 PROVE  /\ \A id \in Ids : Status(id).connected =>
                             InUse(runtime[id].client, Status(id).tools)
                        /\ GraphStatus(current).connected =>
                             InUse(graph[current].client, GraphStatus(current).tools)
      BY DEF ShownIsInUse
    <3>1. serving # "down" /\ current # 0
      BY DEF Settled
    <3>2. ASSUME NEW id \in Ids, Status(id).connected
          PROVE  InUse(runtime[id].client, Status(id).tools)
      <4>1. runtime[id] # NoHandle /\ Serves(id, runtime[id]) /\ runtime[id].write \in BOOLEAN
        BY <2>1, <2>2, <3>2 DEF Status, InForce, TypeOK, Handles
      <4>2. Status(id).tools = Names_(id, runtime[id].write)
        BY <4>1 DEF Status
      <4>3. \A n \in Names_(id, runtime[id].write) : n \in SoleNames(id) \/ Shared(n)
        BY <4>1, ToolNames DEF SoleNames
      <4> QED  BY <3>1, <4>1, <4>2, <4>3 DEF Serves, Offered, InUse, Held
    <3>3. ASSUME GraphStatus(current).connected
          PROVE  InUse(graph[current].client, GraphStatus(current).tools)
      <4>1. graph[current].repo # Nobody /\ GraphStatus(current).tools = {Graph}
        BY <3>3 DEF GraphStatus
      <4> QED  BY <2>2, <3>1, <4>1 DEF GraphOK, GraphIsUp, InUse, Held
    <3> QED  BY <3>2, <3>3
  <2>4. ConnectedIsShown
    <3> SUFFICES ASSUME Settled, ~unlisted, integrationLock = Nobody,
                        NEW c \in owned[current], Held(c)
                 PROVE  \/ \E id \in Ids : Status(id).connected /\ runtime[id].client = c
                        \/ GraphStatus(current).connected /\ graph[current].client = c
      BY DEF ConnectedIsShown
    <3>1. c \in Clients /\ c # Nobody /\ current # 0 /\ current \in Instances
      BY <2>1, CurrentIsBuilt, Constants DEF Settled, TypeOK, PluginsTypeOK
    <3>2. CASE c \notin GraphClients
      <4>1. PICK id \in Ids : runtime[id].client = c
        BY <2>2, <3>1, <3>2 DEF InForce
      <4>2. runtime[id] # NoHandle
        BY <3>1, <4>1 DEF NoHandle
      <4> QED BY <4>1, <4>2 DEF Status
    <3>3. CASE c \in GraphClients
      <4>1. graph[current].client = c
        BY <2>2, <3>3 DEF GraphOK, Held
      <4>2. \A r \in Tasks : job[r].at # "glist"
        BY Constants DEF ServerInv, StructOK, LocksOK, Inside
      <4>3. graph[current].repo # Nobody
        BY <2>2, <3>1, <4>1, <4>2 DEF GraphOK
      <4> QED BY <4>1, <4>3 DEF GraphStatus
    <3> QED BY <3>2, <3>3
  <2>5. OneGraph
    <3> SUFFICES ASSUME ~unlisted, NEW i \in Instances
                 PROVE  Cardinality({c \in GraphClients \cap owned[i] : Held(c)}) <= 1
      BY DEF OneGraph
    <3> DEFINE Here == {c \in GraphClients \cap owned[i] : Held(c)}
    <3>1. Here \subseteq {graph[i].client}
      BY DEF ServerInv, StructOK, GraphsOK, GraphOK, Held
    <3>2. IsFiniteSet({graph[i].client}) /\ Cardinality({graph[i].client}) = 1
      BY FS_Singleton
    <3>3. Cardinality(Here) <= 1
      BY <3>1, <3>2, FS_Subset
    <3> QED  BY <3>3
  <2> QED  BY <2>1, <2>3, <2>4, <2>5
<1> QED  BY <1>1, ServerInvariant, PTL
=============================================================================
