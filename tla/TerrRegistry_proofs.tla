-------------------------- MODULE TerrRegistry_proofs --------------------------
(***************************************************************************)
(* For any Terrs, clients, names and tasks: no server is left without an   *)
(* owner, a Terr is there as a whole or gone as a whole, and one that the  *)
(* user switched off stays off.  The invariant says what each place of an  *)
(* operation has already registered, connected and still to undo.          *)
(***************************************************************************)
EXTENDS TerrRegistry, WellFoundedInduction, TLAPS

Bringing == {"connect", "list"}

(* The names of t that nobody else offers. *)
Sole(t) == {n \in NamesOf(t) : ~Shared(n)}

(* Every callable has been registered for its own client or Terr. *)
NamesOK ==
  \A n \in Names :
    /\ Tool(n) \in Terrs => n \in Own[Tool(n)]
    /\ Tool(n) \in Clients => n \in Serves[Tool(n)]

(* Whatever the callables of Terr t are, the registry has t behind them. *)
OfTerr(t, n) == t \in Source(Tool(n))

-----------------------------------------------------------------------------
(* What the operation r on Terr t has done so far, place by place. *)

(* A Terr that is there before it is added is one of the directory's. *)
AsBefore(t) ==
  IF Terr(t).there THEN \A n \in Terr(t).callables : Tool(n) = t \/ Shared(n)
                   ELSE Terr(t).callables = {}

BringingOK(t, r) ==
  /\ r.kind \in {"add", "open", "reload"}
  /\ r.todo # <<>> /\ ClientsOf(t) = ToSet(r.todo) \cup r.held
  /\ r.at = "list" => Head(r.todo) \in r.held
  /\ r.kind # "open" => r.held \subseteq owned[Here]
  /\ \A c \in r.held : Held(c)
  /\ \A c \in ClientsOf(t) : c \notin ToSet(r.todo) => Serves[c] \subseteq r.names
  /\ \A n \in r.names : Tool(n) \in r.held \/ Shared(n)
  /\ \A n \in Names : /\ OfTerr(t, n) => n \in r.names \cup Terr(t).callables
                      /\ Tool(n) \in ClientsOf(t) => n \in r.names
  /\ AsBefore(t)
  /\ Terr(t).there => r.kind = "add"
  /\ t \in off => Terr(t).there \/ (r.kind = "reload" /\ r.wasOff)

(* Each client it has still to disconnect is owned. *)
HeldAreOwned(r) == \A c \in r.held : Held(c) => c \in owned[Here] \cup spoiled

RollbackOK(t, r) ==
  /\ r.kind \in {"add", "reload"} /\ r.held # {} /\ HeldAreOwned(r)
  /\ \A n \in Names : /\ OfTerr(t, n) => n \in Terr(t).callables
                      /\ Tool(n) \notin ClientsOf(t)
  /\ AsBefore(t)
  /\ Terr(t).there => r.kind = "add"
  /\ t \in off => Terr(t).there

TeardownOK(t, r) ==
  /\ r.kind \in {"remove", "reload"} /\ r.held # {} /\ r.names = {} /\ HeldAreOwned(r)
  /\ r.todo = Mcps[t]
  /\ \A n \in Names : ~OfTerr(t, n)
  /\ Terr(t) = NoDomain
  /\ t \in off => r.kind = "reload" /\ r.wasOff

OpenOK(t, r) ==
  /\ r.kind = "open" /\ r.names = NamesOf(t)
  /\ Terr(t).there

DrainOK(t, r) ==
  /\ r.kind = "open"
  /\ \A n \in Names : OfTerr(t, n) => n \in r.names
  /\ t \in off => Terr(t).there

JobOnOK(t, r) ==
  /\ open
  /\ r.held \subseteq ClientsOf(t) /\ r.names \subseteq NamesOf(t)
  /\ \A c \in ClientsOf(t) : Held(c) => c \in r.held \cup spoiled
  /\ \/ r.at \in Bringing /\ BringingOK(t, r)
     \/ r.at = "rollback" /\ RollbackOK(t, r)
     \/ r.at = "teardown" /\ TeardownOK(t, r)
     \/ r.at = "open" /\ OpenOK(t, r)
     \/ r.at = "drain" /\ DrainOK(t, r)

(* A Terr no operation is on, and that no fault has left half-way. *)
QuietOK(t) ==
  LET d == Terr(t) IN
  /\ \A n \in Names : OfTerr(t, n) => n \in d.callables
  /\ ~d.there => d.callables = {}
  /\ open /\ d.there => \A n \in d.callables :
       (OfTerr(t, n) \/ Shared(n)) /\ (Tool(n) \in ClientsOf(t) => Held(Tool(n)))
  /\ \A c \in ClientsOf(t) : Held(c) => c \in d.clients \cup spoiled

TerrOK(t) ==
  /\ Terr(t).clients \subseteq ClientsOf(t) /\ Terr(t).callables \subseteq NamesOf(t)
  /\ t \in off /\ Terr(t).there => ~Terr(t).enabled
  /\ ~Working(t) /\ t \notin spoiled => QuietOK(t)
  /\ ~Working(t) => (t \in off => Terr(t).there)
  /\ \A j \in Jobs : job[j].terr = t => JobOnOK(t, job[j])

-----------------------------------------------------------------------------
(* The operations that are not on a Terr, and who runs beside whom. *)
LoneOK(r) ==
  /\ r.kind = "mcp" /\ r.at \in Bringing
  /\ \E c \in Clients : Source(c) = {} /\ r.todo = <<c>> /\ r.held \subseteq {c}
  /\ r.held \subseteq owned[Here]

ClosingOK(j) ==
  /\ job[j].kind = "close" /\ job[j].at = "closing" /\ ~open
  /\ \A k \in Jobs : k # j => job[k] = Free
  /\ \A c \in Clients : Held(c) => c \in job[j].held \cup spoiled

JobsOK ==
  /\ \A j \in Jobs : job[j].terr = Nobody =>
       job[j] = Free \/ (LoneOK(job[j]) /\ open) \/ ClosingOK(j)
  /\ \A j, k \in Jobs : job[j].terr = job[k].terr => j = k \/ job[j].terr = Nobody

RegistryInv ==
  TypeOK /\ NamesOK /\ JobsOK /\ (\A t \in Terrs : TerrOK(t)) /\ ClientsAreOwned

-----------------------------------------------------------------------------
(* What the model's operators return. *)
JobRecord == [kind : Kinds \cup {"none"},
  at : {"free", "connect", "list", "open", "drain", "rollback", "teardown", "closing"},
  terr : Terrs \cup {Nobody}, todo : Seq(Clients), names : SUBSET Names,
  held : SUBSET Clients, wasOff : BOOLEAN]

DomainRecord == [there : BOOLEAN, enabled : BOOLEAN,
                 callables : SUBSET Names, clients : SUBSET Clients]

Registered == [Names -> Clients \cup Terrs \cup {Nobody}]

LEMMA Apart ==
  /\ Nobody \notin Clients \cup Terrs /\ Clients \cap Terrs = {}
  /\ Here \in Instances
  /\ \A t \in Terrs : Mcps[t] \in Seq(Clients) /\ ClientsOf(t) \subseteq Clients
                      /\ Own[t] \subseteq Names /\ NamesOf(t) \subseteq Names
  /\ \A c \in Clients : Serves[c] \subseteq Names
  /\ \A t, u \in Terrs : t # u =>
       Sole(t) \cap NamesOf(u) = {} /\ ClientsOf(t) \cap ClientsOf(u) = {}
<1>1. \A t \in Terrs : Mcps[t] \in Seq(Clients) => ClientsOf(t) \subseteq Clients
  BY DEF ClientsOf, ToSet
<1>2. \A t \in Terrs : ClientsOf(t) \subseteq Clients /\ Own[t] \subseteq Names
  BY <1>1, RegistryAssumption
<1>3. \A t \in Terrs : NamesOf(t) \subseteq Names
  BY <1>2, RegistryAssumption DEF NamesOf
<1>4. \A t, u \in Terrs : t # u => Sole(t) \cap NamesOf(u) = {}
  BY DEF Sole, Shared
<1> QED BY <1>2, <1>3, <1>4, PluginsAssumption, RegistryAssumption, DistinctAssumption

LEMMA TypeParts ==
  ASSUME TypeOK
  PROVE  /\ \A j \in Jobs : job[j] \in JobRecord
         /\ \A t \in Terrs : Terr(t) \in DomainRecord
         /\ registry[Here] \in Registered
         /\ owned[Here] \subseteq Clients
         /\ dirTerrs[Here] \subseteq Terrs
BY Apart DEF TypeOK, PluginsTypeOK, JobRecord, DomainRecord, Registered, Terr

(* The first client of Terr t in cs is one of cs. *)
LEMMA FirstIsOne ==
  ASSUME NEW t \in Terrs, NEW cs \in SUBSET ClientsOf(t), cs # {}
  PROVE  First(t, cs) \in cs
<1> DEFINE at == {i \in DOMAIN Mcps[t] : Mcps[t][i] \in cs}
           R == OpToRel(<, Nat)
<1>1. at \subseteq Nat /\ at # {}
  <2>1. Mcps[t] \in Seq(Clients)
    BY Apart
  <2>2. DOMAIN Mcps[t] = 1..Len(Mcps[t]) /\ Len(Mcps[t]) \in Nat
    BY <2>1
  <2>3. PICK c \in cs : c \in ClientsOf(t)
    OBVIOUS
  <2>4. PICK i \in DOMAIN Mcps[t] : Mcps[t][i] = c
    BY <2>3 DEF ClientsOf, ToSet
  <2> QED BY <2>2, <2>3, <2>4
<1>2. PICK m \in at : \A y \in at : ~(<<y, m>> \in R)
  <2> HIDE DEF at, R
  <2> QED BY <1>1, NatLessThanWellFounded, WFMin DEF R
<1>3. \A y \in at : m <= y
  <2> SUFFICES ASSUME NEW y \in at PROVE m <= y
    OBVIOUS
  <2>1. m \in Nat /\ y \in Nat
    BY <1>1, <1>2
  <2>2. ~(y < m)
    BY <1>2, <2>1 DEF OpToRel
  <2> QED BY <2>1, <2>2
<1>4. Min(at) \in at
  <2> HIDE DEF at
  <2> QED BY <1>2, <1>3 DEF Min
<1> QED BY <1>4 DEF First

(* Head and tail of what a job has still to connect. *)
LEMMA HeadAndRest ==
  ASSUME NEW s \in Seq(Clients), s # <<>>
  PROVE  /\ Head(s) \in Clients /\ Tail(s) \in Seq(Clients)
         /\ ToSet(s) = {Head(s)} \cup ToSet(Tail(s))
<1>1. /\ Head(s) = s[1] /\ Len(s) \in Nat \ {0} /\ DOMAIN s = 1..Len(s)
      /\ Tail(s) \in Seq(Clients) /\ Len(Tail(s)) = Len(s) - 1
      /\ DOMAIN Tail(s) = 1..(Len(s) - 1)
      /\ \A i \in 1..(Len(s) - 1) : Tail(s)[i] = s[i + 1]
  OBVIOUS
<1>2. ToSet(s) \subseteq {Head(s)} \cup ToSet(Tail(s))
  <2> SUFFICES ASSUME NEW i \in 1..Len(s)
               PROVE  s[i] \in {Head(s)} \cup ToSet(Tail(s))
    BY <1>1 DEF ToSet
  <2>1. CASE i = 1
    BY <1>1, <2>1
  <2>2. CASE i # 1
    <3>1. i - 1 \in 1..(Len(s) - 1) /\ (i - 1) + 1 = i
      BY <1>1, <2>2
    <3>2. Tail(s)[i - 1] = s[i]
      BY <1>1, <3>1
    <3> QED BY <1>1, <3>1, <3>2 DEF ToSet
  <2> QED BY <2>1, <2>2
<1>3. {Head(s)} \cup ToSet(Tail(s)) \subseteq ToSet(s)
  <2>1. 1 \in 1..Len(s) /\ \A i \in 1..(Len(s) - 1) : i + 1 \in 1..Len(s)
    BY <1>1
  <2> QED BY <1>1, <2>1 DEF ToSet
<1> QED BY <1>1, <1>2, <1>3

LEMMA ToolsStep ==
  ASSUME TypeOK, NEW new \in Registered, Tools(new)
  PROVE  /\ registry' \in [Instances -> Registered]
         /\ \A n \in Names : Tool(n)' = new[n]
BY Apart DEF TypeOK, PluginsTypeOK, Tools, Tool, Registered

LEMMA SetStep ==
  ASSUME TypeOK, NEW t \in Terrs, NEW new \in DomainRecord, Set(t, new)
  PROVE  /\ domain' \in [Instances -> [Terrs -> DomainRecord]]
         /\ Terr(t)' = new
         /\ \A u \in Terrs : u # t => Terr(u)' = Terr(u)
<1>1. domain \in [Instances -> [Terrs -> DomainRecord]]
  BY DEF TypeOK, PluginsTypeOK, DomainRecord
<1>2. domain' = [domain EXCEPT ![Here] = [domain[Here] EXCEPT ![t] = new]]
  BY DEF Set
<1>3. [domain[Here] EXCEPT ![t] = new] \in [Terrs -> DomainRecord]
  BY <1>1, Apart
<1> QED BY <1>1, <1>2, <1>3, Apart DEF Terr

LEMMA GoStep ==
  ASSUME TypeOK, NEW j \in Jobs, NEW new \in JobRecord, Go(j, new)
  PROVE  /\ job' \in [Jobs -> JobRecord]
         /\ job'[j] = new
         /\ \A k \in Jobs : k # j => job'[k] = job[k]
BY DEF TypeOK, Go, JobRecord

LEMMA FreeIsAJob == Free \in JobRecord
BY DEF Free, JobRecord

LEMMA PutIsRegistered ==
  ASSUME NEW reg \in Registered, NEW names, NEW who \in Clients \cup Terrs \cup {Nobody}
  PROVE  /\ Put(reg, names, who) \in Registered
         /\ \A n \in Names : Put(reg, names, who)[n] = IF n \in names THEN who ELSE reg[n]
BY DEF Put, Registered

-----------------------------------------------------------------------------
(* A step of task j that touches nothing of a Terr but t. *)
OnlyTerr(j, t) ==
  /\ \A k \in Jobs : k # j => job'[k] = job[k]
  /\ \A u \in Terrs : u # t =>
       Terr(u)' = Terr(u) /\ (u \in spoiled' <=> u \in spoiled) /\ (u \in off' <=> u \in off)
  /\ \A c \in Clients : c \notin ClientsOf(t) =>
       /\ Held(c)' <=> Held(c)
       /\ c \in owned'[Here] <=> c \in owned[Here]
       /\ c \in spoiled' <=> c \in spoiled
  /\ \A n \in Names :
       /\ n \notin NamesOf(t) => Tool(n)' = Tool(n)
       /\ Tool(n)' = Tool(n) \/ Tool(n)' \in {Nobody, t} \cup ClientsOf(t)
  /\ open' = open

(* A step that changes nothing of Terr u: its callables and record, its
   clients, the operations on it. *)
Same(u) ==
  /\ Terr(u)' = Terr(u) /\ open' = open
  /\ u \in spoiled' <=> u \in spoiled
  /\ u \in off' <=> u \in off
  /\ \A c \in ClientsOf(u) : /\ Held(c)' <=> Held(c)
                             /\ c \in owned'[Here] <=> c \in owned[Here]
                             /\ c \in spoiled' <=> c \in spoiled
  /\ \A n \in Sole(u) : Tool(n)' = Tool(n)
  /\ \A n \in Names : Tool(n)' = Tool(n) \/ Tool(n)' \notin {u} \cup ClientsOf(u)
  /\ \A k \in Jobs : job[k].terr = u \/ job'[k].terr = u => job'[k] = job[k]

(* Whom a callable of t can belong to, and the other way round. *)
LEMMA OwnNames ==
  ASSUME NEW t \in Terrs, NEW n \in Names, NamesOK
  PROVE  OfTerr(t, n) =>
           /\ n \in NamesOf(t)
           /\ Tool(n) = t \/ Tool(n) \in ClientsOf(t)
BY Apart DEF NamesOK, OfTerr, Source, NamesOf

LEMMA SourceIsTerr ==
  ASSUME NEW t \in Terrs
  PROVE  /\ \A n \in Names : OfTerr(t, n) <=> Tool(n) = t \/ Tool(n) \in ClientsOf(t)
BY DEF OfTerr, Source

LEMMA SameKeeps ==
  ASSUME RegistryInv, NamesOK', NEW u \in Terrs, Same(u)
  PROVE  TerrOK(u)'
<1>1. /\ Terr(u)' = Terr(u) /\ open' = open
      /\ u \in off' <=> u \in off
      /\ u \in spoiled' <=> u \in spoiled
      /\ \A n \in Sole(u) : Tool(n)' = Tool(n)
      /\ \A n \in Names : Tool(n)' = Tool(n) \/ Tool(n)' \notin {u} \cup ClientsOf(u)
      /\ \A c \in ClientsOf(u) : /\ Held(c)' <=> Held(c)
                                 /\ c \in owned'[Here] <=> c \in owned[Here]
                                 /\ c \in spoiled' <=> c \in spoiled
      /\ \A k \in Jobs : job[k].terr = u \/ job'[k].terr = u => job'[k] = job[k]
  BY DEF Same
<1>2. \A n \in Names :
        /\ OfTerr(u, n)' => OfTerr(u, n)
        /\ Tool(n)' \in ClientsOf(u) => Tool(n)' = Tool(n)
  BY <1>1, Apart DEF OfTerr, Source
<1>3. \A n \in Sole(u) : OfTerr(u, n)' <=> OfTerr(u, n)
  BY <1>1, Apart DEF OfTerr, Source
<1>4. TerrOK(u) /\ Terr(u).callables \subseteq NamesOf(u)
  BY DEF RegistryInv, TerrOK
<1>5. Working(u)' <=> Working(u)
  BY <1>1 DEF Working
<1>6. QuietOK(u) => QuietOK(u)'
  <2>1. \A n \in Terr(u).callables : n \in Names /\ (n \in Sole(u) \/ Shared(n))
    BY <1>4, Apart DEF Sole
  <2> SUFFICES ASSUME QuietOK(u) PROVE QuietOK(u)'
    OBVIOUS
  <2>2. ASSUME open, Terr(u).there, NEW n \in Terr(u).callables
        PROVE  /\ OfTerr(u, n)' \/ Shared(n)
               /\ Tool(n)' \in ClientsOf(u) => Held(Tool(n))'
    <3>1. OfTerr(u, n) \/ Shared(n)
      BY <2>2 DEF QuietOK
    <3>2. ASSUME NEW c \in ClientsOf(u), Tool(n)' = c PROVE Held(c)'
      <4>1. Tool(n) = c
        BY <1>2, <2>1, <3>2
      <4>2. Held(c)
        BY <2>2, <4>1 DEF QuietOK
      <4> QED BY <1>1, <4>2
    <3>3. Tool(n)' \in ClientsOf(u) => Held(Tool(n))'
      BY <3>2 DEF Held
    <3> QED BY <1>3, <2>1, <3>1, <3>3
  <2> QED BY <1>1, <1>2, <2>2 DEF QuietOK
<1>7. ASSUME NEW k \in Jobs, job'[k].terr = u PROVE JobOnOK(u, job[k])'
  <2>1. job'[k] = job[k] /\ JobOnOK(u, job[k])
    BY <1>1, <1>4, <1>7 DEF TerrOK
  <2>2. AsBefore(u) => AsBefore(u)'
    <3>1. \A n \in Terr(u).callables : n \in Sole(u) \/ Shared(n)
      BY <1>4 DEF Sole
    <3> QED BY <1>1, <3>1 DEF AsBefore
  <2>3. /\ job[k].held \subseteq ClientsOf(u) /\ job[k].names \subseteq NamesOf(u)
        /\ \A n \in job[k].names : n \in Sole(u) \/ Shared(n)
    BY <2>1 DEF JobOnOK, Sole
  <2>4. BringingOK(u, job[k]) => BringingOK(u, job[k])'
    BY <1>1, <1>2, <2>1, <2>2, <2>3 DEF BringingOK
  <2>10. HeldAreOwned(job[k]) => HeldAreOwned(job[k])'
    BY <1>1, <2>1, <2>3 DEF HeldAreOwned
  <2>5. RollbackOK(u, job[k]) => RollbackOK(u, job[k])'
    BY <1>1, <1>2, <2>1, <2>2, <2>10 DEF RollbackOK
  <2>6. TeardownOK(u, job[k]) => TeardownOK(u, job[k])'
    BY <1>1, <1>2, <2>1, <2>10 DEF TeardownOK
  <2>7. OpenOK(u, job[k]) => OpenOK(u, job[k])'
    BY <1>1, <2>1 DEF OpenOK
  <2>8. DrainOK(u, job[k]) => DrainOK(u, job[k])'
    BY <1>1, <1>2, <2>1 DEF DrainOK
  <2>9. \A c \in ClientsOf(u) : Held(c)' => c \in job[k].held \cup spoiled'
    BY <1>1, <2>1 DEF JobOnOK
  <2> QED BY <1>1, <2>1, <2>3, <2>4, <2>5, <2>6, <2>7, <2>8, <2>9 DEF JobOnOK
<1> QED BY <1>1, <1>4, <1>5, <1>6, <1>7 DEF TerrOK

(* So a step on Terr t changes nothing of what is known of the others. *)
LEMMA OthersKept ==
  ASSUME RegistryInv, NEW j \in Jobs, NEW t \in Terrs, OnlyTerr(j, t), NamesOK',
         job[j].terr \in {t, Nobody}, job'[j].terr \in {t, Nobody},
         NEW u \in Terrs, u # t
  PROVE  TerrOK(u)'
<1>1. u # Nobody /\ \A k \in Jobs : job[k].terr = u \/ job'[k].terr = u => job'[k] = job[k]
  BY Apart DEF OnlyTerr
<1>2. /\ \A n \in Sole(u) : n \in Names /\ n \notin NamesOf(t)
      /\ \A c \in ClientsOf(u) : c \in Clients /\ c \notin ClientsOf(t) /\ c # t /\ c # Nobody
  BY Apart DEF Sole
<1>3. \A n \in Names : Tool(n)' = Tool(n) \/ Tool(n)' \notin {u} \cup ClientsOf(u)
  <2>1. u \notin ClientsOf(t)
    BY Apart
  <2> QED BY <1>1, <1>2, <2>1 DEF OnlyTerr
<1>4. Same(u)
  BY <1>1, <1>2, <1>3 DEF Same, OnlyTerr
<1> QED BY <1>4, SameKeeps

(* Somebody will stop each server of the set cs that is up. *)
Owned(cs) ==
  \A c \in cs : Held(c) =>
    c \in owned[Here] \cup spoiled \/ \E j \in Jobs : c \in job[j].held

(* What a step of an operation on Terr t has to show: what it says of t. *)
LEMMA TerrStep ==
  ASSUME RegistryInv, NEW j \in Jobs, NEW t \in Terrs, OnlyTerr(j, t), open,
         job[j].terr = t \/ (job[j] = Free /\ ~Working(t)),
         job'[j].terr = t \/ job'[j] = Free,
         TypeOK', NamesOK', TerrOK(t)', Owned(ClientsOf(t))'
  PROVE  RegistryInv'
<1>1. Free.terr = Nobody /\ Free.held = {} /\ t # Nobody
  BY Apart DEF Free
<1>2. job[j].terr \in {t, Nobody} /\ job'[j].terr \in {t, Nobody}
  BY <1>1
<1>3. \A u \in Terrs : TerrOK(u)'
  BY <1>2, OthersKept
<1>4. \A k \in Jobs : k # j => job'[k] = job[k] /\ job[k].terr # t
  <2>1. \A k \in Jobs : k # j => job'[k] = job[k]
    BY DEF OnlyTerr
  <2>2. \A k \in Jobs : k # j => job[k].terr # t
    BY <1>1 DEF RegistryInv, JobsOK, Working
  <2> QED BY <2>1, <2>2
<1>5. JobsOK'
  <2>1. \A i, k \in Jobs : job'[i].terr = job'[k].terr => i = k \/ job'[i].terr = Nobody
    BY <1>1, <1>4 DEF RegistryInv, JobsOK
  <2>2. ASSUME NEW k \in Jobs, k # j, job'[k].terr = Nobody
        PROVE  (job[k] = Free \/ (LoneOK(job[k]) /\ open) \/ ClosingOK(k))'
    <3>1. job[k] = Free \/ LoneOK(job[k])
      BY <1>4, <2>2 DEF RegistryInv, JobsOK, ClosingOK
    <3>2. ASSUME LoneOK(job[k]) PROVE LoneOK(job[k])'
      <4>1. PICK c \in Clients : Source(c) = {} /\ job[k].todo = <<c>> /\ job[k].held \subseteq {c}
        BY <3>2 DEF LoneOK
      <4>2. c \notin ClientsOf(t)
        BY <4>1 DEF Source
      <4>3. c \in owned'[Here] <=> c \in owned[Here]
        BY <4>2 DEF OnlyTerr
      <4> QED BY <1>4, <2>2, <3>2, <4>1, <4>3 DEF LoneOK
    <3> QED BY <1>4, <2>2, <3>1, <3>2 DEF OnlyTerr
  <2>3. job'[j].terr = Nobody => job'[j] = Free
    BY <1>1
  <2> QED BY <2>1, <2>2, <2>3 DEF JobsOK
<1>6. ClientsAreOwned'
  <2> SUFFICES ASSUME NEW c \in Clients, c \notin ClientsOf(t), Held(c)'
               PROVE  \/ c \in owned'[Here] \cup spoiled'
                      \/ \E k \in Jobs : c \in job'[k].held
    BY DEF ClientsAreOwned, Owned
  <2>1. \/ c \in owned[Here] \cup spoiled
        \/ \E k \in Jobs : c \in job[k].held
    BY DEF RegistryInv, ClientsAreOwned, OnlyTerr
  <2>2. c \notin job[j].held
    BY <1>1 DEF RegistryInv, TerrOK, JobOnOK
  <2> QED BY <1>4, <2>1, <2>2 DEF OnlyTerr
<1> QED BY <1>3, <1>5, <1>6 DEF RegistryInv

(* A task that goes on working on t, or is done with it. *)
LEMMA TerrAtWork ==
  ASSUME NEW j \in Jobs, NEW t \in Terrs, job'[j].terr = t,
         \A k \in Jobs : k # j => job'[k].terr # t,
         JobOnOK(t, job[j])',
         Terr(t)'.clients \subseteq ClientsOf(t), Terr(t)'.callables \subseteq NamesOf(t),
         t \in off' /\ Terr(t)'.there => ~Terr(t)'.enabled
  PROVE  TerrOK(t)'
<1>1. Working(t)'
  BY DEF Working
<1>2. \A k \in Jobs : job'[k].terr = t => JobOnOK(t, job[k])'
  OBVIOUS
<1> QED BY <1>1, <1>2 DEF TerrOK

LEMMA TerrAtRest ==
  ASSUME NEW t \in Terrs, \A k \in Jobs : job'[k].terr # t,
         t \notin spoiled' => QuietOK(t)',
         Terr(t)'.clients \subseteq ClientsOf(t), Terr(t)'.callables \subseteq NamesOf(t),
         t \in off' => Terr(t)'.there /\ ~Terr(t)'.enabled
  PROVE  TerrOK(t)'
<1>1. ~Working(t)'
  BY DEF Working
<1> QED BY <1>1 DEF TerrOK

(* A task that is on a Terr is the only one; so is one that starts on it. *)
LEMMA Alone ==
  ASSUME RegistryInv, NEW j \in Jobs, NEW t \in Terrs,
         job[j].terr = t \/ (job[j] = Free /\ ~Working(t))
  PROVE  \A k \in Jobs : k # j => job[k].terr # t
BY Apart DEF RegistryInv, JobsOK, Working, Free

(* With no task on Terr t its clients are in nobody's hands. *)
LEMMA NotHeldByOthers ==
  ASSUME RegistryInv, NEW t \in Terrs, ~Working(t), open
  PROVE  \A c \in ClientsOf(t) : \A k \in Jobs : c \notin job[k].held
<1> SUFFICES ASSUME NEW c \in ClientsOf(t), NEW k \in Jobs, c \in job[k].held PROVE FALSE
  OBVIOUS
<1>1. job[k].terr \in Terrs \cup {Nobody} /\ job[k].terr # t
  BY TypeParts DEF RegistryInv, JobRecord, Working
<1>2. CASE job[k].terr \in Terrs
  <2>1. job[k].held \subseteq ClientsOf(job[k].terr)
    BY <1>2 DEF RegistryInv, TerrOK, JobOnOK
  <2> QED BY <1>1, <1>2, <2>1, Apart
<1>3. CASE job[k].terr = Nobody
  <2>1. LoneOK(job[k])
    BY <1>3 DEF RegistryInv, JobsOK, ClosingOK, Free
  <2> QED BY <2>1 DEF LoneOK, Source
<1> QED BY <1>1, <1>2, <1>3

(* A task that is free holds nothing; the others are on a Terr, or alone. *)
LEMMA FreeOnes ==
  ASSUME RegistryInv, NEW j \in Jobs
  PROVE  /\ job[j].at = "free" => job[j] = Free
         /\ job[j].at \in {"rollback", "teardown", "open", "drain"} =>
              job[j].terr \in Terrs /\ JobOnOK(job[j].terr, job[j])
         /\ job[j].at \in Bringing =>
              \/ job[j].terr \in Terrs /\ JobOnOK(job[j].terr, job[j]) /\ job[j].kind # "mcp"
              \/ job[j].terr = Nobody /\ LoneOK(job[j]) /\ open
         /\ job[j].at = "closing" => job[j].terr = Nobody /\ ClosingOK(j)
<1>1. job[j] \in JobRecord
  BY TypeParts DEF RegistryInv
<1>2. job[j].terr \in Terrs \cup {Nobody}
  BY <1>1 DEF JobRecord
<1>3. CASE job[j].terr \in Terrs
  <2>1. JobOnOK(job[j].terr, job[j])
    BY <1>3 DEF RegistryInv, TerrOK
  <2>2. job[j].at \in Bringing => BringingOK(job[j].terr, job[j])
    BY <2>1 DEF JobOnOK, Bringing
  <2> QED BY <1>3, <2>1, <2>2 DEF JobOnOK, Bringing, BringingOK
<1>4. CASE job[j].terr = Nobody
  <2>1. job[j] = Free \/ (LoneOK(job[j]) /\ open) \/ ClosingOK(j)
    BY <1>4 DEF RegistryInv, JobsOK
  <2>2. Free.at = "free"
    BY DEF Free
  <2> QED BY <1>4, <2>1, <2>2 DEF LoneOK, ClosingOK, Bringing
<1> QED BY <1>2, <1>3, <1>4

-----------------------------------------------------------------------------
(* The variables that Finish and Continue leave alone. *)
Beside == <<link, owned, off, open, spoiled>>

(* Every name of reg is there for its own client or Terr, and only those of
   Terr t differ from the registry. *)
RegOK(t, reg) ==
  /\ reg \in Registered
  /\ \A n \in Names :
       /\ n \notin NamesOf(t) => reg[n] = Tool(n)
       /\ reg[n] = Tool(n) \/ reg[n] \in {Nobody, t} \cup ClientsOf(t)
  /\ \A n \in Names : /\ reg[n] \in Terrs => n \in Own[reg[n]]
                      /\ reg[n] \in Clients => n \in Serves[reg[n]]

(* What the end of a registration finds: every client up, its tools bridged. *)
AllBrought(t, r, reg) ==
  /\ r \in JobRecord /\ r.terr = t /\ r.todo = <<>>
  /\ r.kind \in {"add", "open", "reload"}
  /\ r.held = ClientsOf(t) /\ \A c \in r.held : Held(c)
  /\ r.kind # "open" => r.held \subseteq owned[Here]
  /\ \A n \in NamesOf(t) : n \notin Own[t] => reg[n] \in ClientsOf(t) \/ Shared(n)
  /\ r.kind = "open" => ~Terr(t).there
  /\ t \in off => Terr(t).there \/ (r.kind = "reload" /\ r.wasOff)

LEMMA FinishWell ==
  ASSUME RegistryInv, NEW j \in Jobs, NEW t \in Terrs, NEW r, NEW reg, open,
         job[j].terr = t \/ (job[j] = Free /\ ~Working(t)),
         RegOK(t, reg), AllBrought(t, r, reg), Finish(j, r, reg),
         UNCHANGED Beside, dirTerrs' \in [Instances -> SUBSET Terrs], left' \in 0..MaxJobs
  PROVE  RegistryInv'
<1> DEFINE put == Put(reg, Own[t], t)
           rec == Record(Terr(t), Callables(r.kind, t))
           new == IF r.kind = "open" THEN rec
                  ELSE [rec EXCEPT !.clients = r.held, !.enabled = @ /\ ~r.wasOff]
           next == IF r.kind = "open" THEN [r EXCEPT !.at = "open", !.names = NamesOf(t)]
                   ELSE Free
<1>1. TypeOK /\ NamesOK /\ TerrOK(t)
  BY DEF RegistryInv
<1>2. Terr(t) \in DomainRecord /\ Terr(t).there \in BOOLEAN /\ Terr(t).enabled \in BOOLEAN
      /\ Terr(t).clients \subseteq ClientsOf(t)
  BY <1>1, TypeParts DEF DomainRecord, TerrOK
<1>3. Callables(r.kind, t) \subseteq NamesOf(t) /\ NamesOf(t) \subseteq Names
      /\ ClientsOf(t) \subseteq Clients /\ Own[t] \subseteq NamesOf(t)
  BY Apart DEF Callables, NamesOf
<1>4. /\ rec \in DomainRecord /\ rec.there /\ rec.callables = Callables(r.kind, t)
      /\ rec.clients = Terr(t).clients /\ (Terr(t).there => rec.enabled = Terr(t).enabled)
  BY <1>2, <1>3 DEF Record, DomainRecord
<1>5. r.wasOff \in BOOLEAN /\ r.held = ClientsOf(t) /\ r.kind \in {"add", "open", "reload"}
  BY DEF AllBrought, JobRecord
<1>6. /\ new \in DomainRecord /\ new.there
      /\ new.callables = Callables(r.kind, t) /\ new.clients \subseteq ClientsOf(t)
      /\ r.kind # "open" => new.clients = ClientsOf(t)
      /\ t \in off => ~new.enabled
  <2> HIDE DEF rec
  <2>1. rec \in DomainRecord
    BY <1>4
  <2>2. new \in DomainRecord
    BY <1>3, <1>5, <2>1 DEF DomainRecord
  <2>3. new.there /\ new.callables = Callables(r.kind, t)
    BY <1>4, <1>5, <2>1 DEF DomainRecord
  <2>4. new.clients \subseteq ClientsOf(t) /\ (r.kind # "open" => new.clients = ClientsOf(t))
    BY <1>2, <1>4, <1>5, <2>1 DEF DomainRecord
  <2>5. ASSUME t \in off PROVE ~new.enabled
    <3>1. r.kind # "open" /\ (Terr(t).there \/ r.wasOff)
      BY <1>5, <2>5 DEF AllBrought
    <3>2. new.enabled <=> rec.enabled /\ ~r.wasOff
      BY <1>4, <2>1, <3>1 DEF DomainRecord
    <3>3. Terr(t).there => ~rec.enabled
      BY <1>1, <1>4, <2>5 DEF TerrOK
    <3> QED BY <3>1, <3>2, <3>3
  <2> QED BY <2>2, <2>3, <2>4, <2>5
<1>7. put \in Registered /\ \A n \in Names : put[n] = IF n \in Own[t] THEN t ELSE reg[n]
  BY PutIsRegistered DEF RegOK
<1>8. next \in JobRecord /\ (next = Free \/ next.terr = t)
  <2>1. r \in JobRecord /\ r.terr = t
    BY DEF AllBrought
  <2> QED BY <1>3, <2>1, FreeIsAJob DEF JobRecord
<1>9. Tools(put) /\ Set(t, new) /\ Go(j, next)
  <2>1. r.terr = t
    BY DEF AllBrought
  <2> QED BY <2>1 DEF Finish
<1> HIDE DEF put, rec, new, next
<1>10. /\ registry' \in [Instances -> Registered]
       /\ \A n \in Names : Tool(n)' = put[n]
  BY <1>1, <1>7, <1>9, ToolsStep
<1>11. /\ domain' \in [Instances -> [Terrs -> DomainRecord]] /\ Terr(t)' = new
       /\ \A u \in Terrs : u # t => Terr(u)' = Terr(u)
  BY <1>1, <1>6, <1>9, SetStep
<1>12. /\ job' \in [Jobs -> JobRecord] /\ job'[j] = next
       /\ \A k \in Jobs : k # j => job'[k] = job[k]
  BY <1>1, <1>8, <1>9, GoStep
<1>13. TypeOK'
  BY <1>1, <1>10, <1>11, <1>12 DEF TypeOK, PluginsTypeOK, Beside, DomainRecord, JobRecord, Registered
<1>14. OnlyTerr(j, t)
  <2>1. \A n \in Names :
          /\ n \notin NamesOf(t) => Tool(n)' = Tool(n)
          /\ Tool(n)' = Tool(n) \/ Tool(n)' \in {Nobody, t} \cup ClientsOf(t)
    BY <1>3, <1>7, <1>10 DEF RegOK
  <2> QED BY <1>11, <1>12, <2>1 DEF OnlyTerr, Beside, Held
<1>15. NamesOK'
  BY <1>7, <1>10, Apart DEF RegOK, NamesOK
<1>16. \A n \in Names : OfTerr(t, n)' => n \in NamesOf(t)
  BY <1>15, Apart DEF NamesOK, OfTerr, Source, NamesOf
<1>17. \A k \in Jobs : k # j => job'[k].terr # t
  BY <1>12, Alone
<1>18. \A n \in NamesOf(t) : Tool(n)' = t \/ Tool(n)' \in ClientsOf(t) \/ Shared(n)
  BY <1>3, <1>7, <1>10 DEF AllBrought
<1>19. \A c \in ClientsOf(t) : Held(c)'
  BY <1>5 DEF AllBrought, Held, Beside
<1>20. TerrOK(t)'
  <2>1. CASE r.kind = "open"
    <3>1. /\ next.terr = t /\ next.at = "open" /\ next.kind = "open"
          /\ next.names = NamesOf(t) /\ next.held = ClientsOf(t)
      BY <2>1, <1>5 DEF next, AllBrought, JobRecord
    <3>2. JobOnOK(t, job[j])'
      BY <1>6, <1>11, <1>12, <3>1 DEF JobOnOK, OpenOK, Beside
    <3> QED BY <1>3, <1>6, <1>11, <1>12, <1>17, <3>1, <3>2, TerrAtWork DEF Beside
  <2>2. CASE r.kind # "open"
    <3>1. next = Free /\ t # Nobody /\ Free.terr = Nobody
      BY <2>2, Apart DEF next, Free
    <3>2. new.callables = NamesOf(t) /\ new.clients = ClientsOf(t)
      BY <1>6, <2>2 DEF Callables
    <3>3. QuietOK(t)'
      <4>1. \A n \in Names : OfTerr(t, n)' => n \in new.callables
        BY <1>16, <3>2
      <4>2. \A n \in new.callables : /\ OfTerr(t, n)' \/ Shared(n)
                                     /\ Tool(n)' \in ClientsOf(t) => Held(Tool(n))'
        <5> SUFFICES ASSUME NEW n \in NamesOf(t)
                     PROVE  /\ OfTerr(t, n)' \/ Shared(n)
                            /\ Tool(n)' \in ClientsOf(t) => Held(Tool(n))'
          BY <3>2
        <5>1. OfTerr(t, n)' \/ Shared(n)
          BY <1>18 DEF OfTerr, Source
        <5> QED BY <5>1, <1>19 DEF Held
      <4> QED BY <1>6, <1>11, <3>2, <4>1, <4>2 DEF QuietOK
    <3> QED BY <1>3, <1>6, <1>11, <1>12, <1>17, <3>1, <3>3, TerrAtRest DEF Beside
  <2> QED BY <2>1, <2>2
<1>21. Owned(ClientsOf(t))'
  <2>1. CASE r.kind = "open"
    <3>1. next.held = ClientsOf(t)
      BY <2>1, <1>5 DEF next, JobRecord, AllBrought
    <3> QED BY <1>12, <3>1 DEF Owned
  <2>2. CASE r.kind # "open"
    BY <2>2, <1>5 DEF Owned, AllBrought, Beside
  <2> QED BY <2>1, <2>2
<1> QED BY <1>8, <1>12, <1>13, <1>14, <1>15, <1>20, <1>21, TerrStep

(* What BringingOK says, of a registry that is about to be. *)
SoFar(t, r, reg) ==
  /\ r \in JobRecord /\ r.terr = t /\ r.kind \in {"add", "open", "reload"}
  /\ r.names \subseteq NamesOf(t)
  /\ ClientsOf(t) = ToSet(r.todo) \cup r.held
  /\ r.kind # "open" => r.held \subseteq owned[Here]
  /\ \A c \in r.held : Held(c)
  /\ \A c \in ClientsOf(t) : Held(c) => c \in r.held \cup spoiled
  /\ \A c \in ClientsOf(t) : c \notin ToSet(r.todo) => Serves[c] \subseteq r.names
  /\ \A n \in r.names : reg[n] \in r.held \/ Shared(n)
  /\ \A n \in Names :
       /\ reg[n] \in {t} \cup ClientsOf(t) => n \in r.names \cup Terr(t).callables
       /\ reg[n] \in ClientsOf(t) => n \in r.names
  /\ IF Terr(t).there THEN \A n \in Terr(t).callables : reg[n] = t \/ Shared(n)
                      ELSE Terr(t).callables = {}
  /\ Terr(t).there => r.kind = "add"
  /\ t \in off => Terr(t).there \/ (r.kind = "reload" /\ r.wasOff)

LEMMA ContinueWell ==
  ASSUME RegistryInv, NEW j \in Jobs, NEW t \in Terrs, NEW r, NEW reg, open,
         job[j].terr = t \/ (job[j] = Free /\ ~Working(t)),
         RegOK(t, reg), SoFar(t, r, reg), Continue(j, r, reg),
         UNCHANGED Beside, dirTerrs' \in [Instances -> SUBSET Terrs], left' \in 0..MaxJobs
  PROVE  RegistryInv'
<1>1. CASE r.todo = <<>>
  <2>1. ToSet(r.todo) = {}
    BY <1>1 DEF ToSet
  <2>2. AllBrought(t, r, reg)
    <3>1. r.held = ClientsOf(t)
      BY <2>1 DEF SoFar
    <3>2. \A n \in NamesOf(t) : n \notin Own[t] => reg[n] \in ClientsOf(t) \/ Shared(n)
      <4> SUFFICES ASSUME NEW n \in NamesOf(t), n \notin Own[t]
                   PROVE  reg[n] \in ClientsOf(t) \/ Shared(n)
        OBVIOUS
      <4>1. PICK c \in ClientsOf(t) : n \in Serves[c]
        BY DEF NamesOf
      <4> QED BY <2>1, <3>1, <4>1 DEF SoFar
    <3>3. r.kind = "open" => ~Terr(t).there
      BY DEF SoFar
    <3> QED BY <1>1, <3>1, <3>2, <3>3 DEF SoFar, AllBrought
  <2> QED BY <1>1, <2>2, FinishWell DEF Continue
<1>2. CASE r.todo # <<>>
  <2> DEFINE next == [r EXCEPT !.at = "connect"]
  <2>1. Tools(reg) /\ Go(j, next) /\ UNCHANGED domain
    BY <1>2 DEF Continue
  <2>2. /\ next \in JobRecord /\ next.terr = t /\ next.at = "connect" /\ next.kind = r.kind
        /\ next.todo = r.todo /\ next.held = r.held /\ next.names = r.names
        /\ next.wasOff = r.wasOff
    BY DEF SoFar, JobRecord
  <2> HIDE DEF next
  <2>3. TypeOK /\ TerrOK(t)
    BY DEF RegistryInv
  <2>4. /\ registry' \in [Instances -> Registered]
        /\ \A n \in Names : Tool(n)' = reg[n]
    BY <2>1, <2>3, ToolsStep DEF RegOK
  <2>5. /\ job' \in [Jobs -> JobRecord] /\ job'[j] = next
        /\ \A k \in Jobs : k # j => job'[k] = job[k]
    BY <2>1, <2>2, <2>3, GoStep
  <2>6. \A u \in Terrs : Terr(u)' = Terr(u)
    BY <2>1 DEF Terr
  <2>7. TypeOK'
    BY <2>1, <2>3, <2>4, <2>5 DEF TypeOK, PluginsTypeOK, Beside, JobRecord, Registered
  <2>8. OnlyTerr(j, t)
    BY <2>4, <2>5, <2>6 DEF OnlyTerr, Beside, RegOK, Held
  <2>9. NamesOK'
    BY <2>4 DEF RegOK, NamesOK
  <2>10. BringingOK(t, job[j])'
    <3>1. \A n \in Names : /\ OfTerr(t, n)' => n \in r.names \cup Terr(t).callables
                           /\ Tool(n)' \in ClientsOf(t) => n \in r.names
      BY <2>4 DEF SoFar, OfTerr, Source
    <3>2. AsBefore(t)'
      <4>1. Terr(t).callables \subseteq Names
        BY <2>3, Apart DEF TerrOK
      <4> QED BY <2>4, <2>6, <4>1 DEF SoFar, AsBefore
    <3>3. \A n \in r.names : Tool(n)' \in r.held \/ Shared(n)
      BY <2>4, Apart DEF SoFar
    <3> QED BY <1>2, <2>2, <2>5, <2>6, <3>1, <3>2, <3>3 DEF BringingOK, SoFar, Beside, Held
  <2>11. JobOnOK(t, job[j])'
    BY <2>2, <2>5, <2>10 DEF JobOnOK, SoFar, Beside, Held, Bringing
  <2>12. TerrOK(t)'
    <3>1. \A k \in Jobs : k # j => job'[k].terr # t
      BY <2>5, Alone
    <3> QED BY <2>2, <2>3, <2>5, <2>6, <2>11, <3>1, TerrAtWork DEF Beside, TerrOK
  <2>13. Owned(ClientsOf(t))'
    BY <2>2, <2>5 DEF SoFar, Owned, Held, Beside
  <2> QED BY <2>2, <2>5, <2>7, <2>8, <2>9, <2>12, <2>13, TerrStep
<1> QED BY <1>1, <1>2

(* The registry as it is, and with names of t put in or taken out. *)
LEMMA RegAsItIs ==
  ASSUME RegistryInv, NEW t \in Terrs
  PROVE  RegOK(t, registry[Here])
BY TypeParts DEF RegistryInv, RegOK, NamesOK, Tool

LEMMA PutOfTerr ==
  ASSUME RegistryInv, NEW t \in Terrs, NEW names \in SUBSET NamesOf(t),
         NEW who \in {Nobody, t} \cup ClientsOf(t),
         who = t => names \subseteq Own[t],
         who \in ClientsOf(t) => names \subseteq Serves[who]
  PROVE  /\ RegOK(t, Put(registry[Here], names, who))
         /\ \A n \in Names : Put(registry[Here], names, who)[n]
                               = IF n \in names THEN who ELSE Tool(n)
<1>1. who \in Clients \cup Terrs \cup {Nobody}
  BY Apart
<1>2. registry[Here] \in Registered
  BY TypeParts DEF RegistryInv
<1>3. /\ Put(registry[Here], names, who) \in Registered
      /\ \A n \in Names : Put(registry[Here], names, who)[n]
                               = IF n \in names THEN who ELSE Tool(n)
  BY <1>1, <1>2, PutIsRegistered DEF Tool
<1> QED BY <1>3, Apart DEF RegistryInv, RegOK, NamesOK

(* A client of a lone task or a Terr: add_terr, open_terr. *)
LEMMA StartKeeps ==
  ASSUME RegistryInv, NEW j \in Jobs, NEW t \in Terrs, NEW kind \in Kinds, Start(j, kind, t)
  PROVE  RegistryInv'
<1> DEFINE r == Job(kind, t)
<1>1. /\ job[j] = Free /\ open /\ ~Working(t) /\ t \notin spoiled
      /\ left' \in 0..MaxJobs /\ kind \in {"add", "open"} /\ kind \in Kinds
  <2>1. left \in 0..MaxJobs /\ MaxJobs \in Nat
    BY RegistryAssumption DEF RegistryInv, TypeOK
  <2> QED BY <2>1, FreeOnes DEF Start, BeginOn, Begin
<1>2. TypeOK /\ TerrOK(t) /\ QuietOK(t)
  BY <1>1 DEF RegistryInv, TerrOK
<1>3. /\ r \in JobRecord /\ r.terr = t /\ r.kind = kind /\ r.todo = Mcps[t]
      /\ r.names = {} /\ r.held = {}
  BY <1>1, Apart DEF Job, Free, JobRecord
<1> HIDE DEF r
<1>4. \A c \in ClientsOf(t) : ~Held(c)
  BY DEF Start, Held
<1>5. \A n \in Terr(t).callables :
        Terr(t).there => (Tool(n) = t \/ Shared(n)) /\ Tool(n) \notin ClientsOf(t)
  <2>1. Terr(t).there => \A n \in Terr(t).callables :
          (OfTerr(t, n) \/ Shared(n)) /\ (Tool(n) \in ClientsOf(t) => Held(Tool(n)))
    BY <1>1, <1>2 DEF QuietOK
  <2>2. \A n \in Terr(t).callables : n \in Names
    BY <1>2, Apart DEF TerrOK
  <2> QED BY <1>4, <2>1, <2>2, SourceIsTerr, Apart
<1>6. SoFar(t, r, registry[Here])
  <2>1. \A n \in Names : /\ Tool(n) \in {t} \cup ClientsOf(t) => n \in Terr(t).callables
                         /\ Tool(n) \notin ClientsOf(t)
    <3>1. \A n \in Names : Tool(n) \in {t} \cup ClientsOf(t) => n \in Terr(t).callables
      BY <1>2, SourceIsTerr DEF QuietOK
    <3>2. ~Terr(t).there => Terr(t).callables = {}
      BY <1>2 DEF QuietOK
    <3> QED BY <1>5, <3>1, <3>2
  <2>2. Terr(t).there => kind = "add"
    BY DEF Start
  <2>3. t \in off => Terr(t).there
    BY <1>1, <1>2 DEF TerrOK
  <2>4. ~Terr(t).there => Terr(t).callables = {}
    BY <1>2 DEF QuietOK
  <2>5. ClientsOf(t) = ToSet(r.todo)
    BY <1>3 DEF ClientsOf
  <2> QED BY <1>1, <1>3, <1>4, <1>5, <2>1, <2>2, <2>3, <2>4, <2>5 DEF SoFar, Tool
<1>7. Continue(j, r, registry[Here]) /\ UNCHANGED Beside /\ dirTerrs' \in [Instances -> SUBSET Terrs]
  BY <1>2 DEF Start, r, Beside, TypeOK, PluginsTypeOK
<1> QED BY <1>1, <1>6, <1>7, RegAsItIs, ContinueWell

-----------------------------------------------------------------------------
(* Connecting and listing, of a Terr's clients and of a lone one. *)
LEMMA ConnectedKeepsTerr ==
  ASSUME RegistryInv, NEW j \in Jobs, NEW t \in Terrs, job[j].terr = t, Connected(j)
  PROVE  RegistryInv'
<1> DEFINE c == Head(job[j].todo)
           next == [job[j] EXCEPT !.at = "list", !.held = @ \cup {c}]
<1>1. job[j].at = "connect" /\ job[j] \in JobRecord /\ TypeOK
  BY TypeParts DEF Connected, RegistryInv
<1>2. JobOnOK(t, job[j]) /\ open
  BY <1>1, FreeOnes DEF Bringing, JobOnOK, RegistryInv, TerrOK
<1>3. BringingOK(t, job[j])
  BY <1>1, <1>2 DEF JobOnOK
<1>4. c \in ToSet(job[j].todo) /\ c \in ClientsOf(t) /\ c \in Clients
  <2>1. job[j].todo \in Seq(Clients) /\ job[j].todo # <<>>
    BY <1>1, <1>3 DEF JobRecord, BringingOK
  <2> QED BY <1>3, <2>1, HeadAndRest, Apart DEF BringingOK
<1>5. /\ next \in JobRecord /\ next.terr = t /\ next.at = "list" /\ next.kind = job[j].kind
      /\ next.todo = job[j].todo /\ next.names = job[j].names
      /\ next.held = job[j].held \cup {c} /\ next.wasOff = job[j].wasOff
  BY <1>1, <1>4 DEF JobRecord
<1>6. /\ link' = [link EXCEPT ![c] = "up"] /\ Go(j, next)
      /\ owned' = IF job[j].kind = "open" THEN owned ELSE [owned EXCEPT ![Here] = @ \cup {c}]
      /\ UNCHANGED <<registry, domain, dirTerrs, left, off, open, spoiled>>
  BY DEF Connected, Up
<1> HIDE DEF c, next
<1>7. /\ job' \in [Jobs -> JobRecord] /\ job'[j] = next
      /\ \A k \in Jobs : k # j => job'[k] = job[k]
  BY <1>1, <1>5, <1>6, GoStep
<1>8. /\ link' \in [Clients -> Links] /\ owned' \in [Instances -> SUBSET Clients]
      /\ link'[c] # "down" /\ \A d \in Clients : d # c => link'[d] = link[d]
      /\ owned'[Here] = IF job[j].kind = "open" THEN owned[Here] ELSE owned[Here] \cup {c}
  BY <1>1, <1>4, <1>6, Apart DEF TypeOK, PluginsTypeOK, Links
<1>9. (\A u \in Terrs : Terr(u)' = Terr(u)) /\ (\A n \in Names : Tool(n)' = Tool(n))
  BY <1>6 DEF Terr, Tool
<1>10. TypeOK'
  BY <1>1, <1>6, <1>7, <1>8 DEF TypeOK, PluginsTypeOK, JobRecord
<1>11. OnlyTerr(j, t)
  BY <1>4, <1>6, <1>7, <1>8, <1>9 DEF OnlyTerr, Held
<1>12. NamesOK'
  BY <1>9 DEF RegistryInv, NamesOK
<1>13. BringingOK(t, job[j])'
  <2>1. AsBefore(t)'
    <3>1. Terr(t).callables \subseteq Names
      BY Apart DEF RegistryInv, TerrOK
    <3> QED BY <1>3, <1>9, <3>1 DEF BringingOK, AsBefore
  <2>2. \A n \in Names : (OfTerr(t, n)' <=> OfTerr(t, n)) /\ Tool(n)' = Tool(n)
    BY <1>9 DEF OfTerr, Source
  <2>3. \A n \in job[j].names : Tool(n)' = Tool(n)
    BY <1>1, <1>9 DEF JobRecord
  <2>4. c = Head(job[j].todo)
    BY DEF c
  <2>5. ClientsOf(t) = ToSet(next.todo) \cup next.held
    BY <1>3, <1>4, <1>5 DEF BringingOK
  <2>6. \A d \in next.held : Held(d)'
    BY <1>3, <1>5, <1>8, Apart, <2>5 DEF BringingOK, Held
  <2>7. next.kind # "open" => next.held \subseteq owned'[Here]
    BY <1>3, <1>5, <1>8 DEF BringingOK
  <2>8. Terr(t)' = Terr(t)
    BY <1>9
  <2> QED BY <1>3, <1>5, <1>6, <1>7, <2>1, <2>2, <2>3, <2>4, <2>5, <2>6, <2>7, <2>8 DEF BringingOK
<1>14. JobOnOK(t, job[j])'
  <2>1. ClientsOf(t) \subseteq Clients
    BY Apart
  <2> QED BY <1>2, <1>4, <1>5, <1>6, <1>7, <1>8, <1>13, <2>1 DEF JobOnOK, Bringing, Held
<1>15. TerrOK(t)'
  <2>1. \A k \in Jobs : k # j => job'[k].terr # t
    BY <1>7, Alone
  <2> QED BY <1>5, <1>6, <1>7, <1>9, <1>14, <2>1, TerrAtWork DEF RegistryInv, TerrOK
<1>16. Owned(ClientsOf(t))'
  BY <1>7, <1>14 DEF JobOnOK, Owned
<1> QED BY <1>2, <1>5, <1>7, <1>10, <1>11, <1>12, <1>15, <1>16, TerrStep

LEMMA ListedKeepsTerr ==
  ASSUME RegistryInv, NEW j \in Jobs, NEW t \in Terrs, job[j].terr = t, Listed(j)
  PROVE  RegistryInv'
<1> DEFINE c == Head(job[j].todo)
           next == [job[j] EXCEPT !.todo = Tail(@), !.names = @ \cup Serves[c]]
           reg == Put(registry[Here], Serves[c], c)
<1>1. job[j].at = "list" /\ job[j] \in JobRecord /\ TypeOK
  BY TypeParts DEF Listed, RegistryInv
<1>2. JobOnOK(t, job[j]) /\ open
  BY <1>1, FreeOnes DEF Bringing, JobOnOK, RegistryInv, TerrOK
<1>3. BringingOK(t, job[j])
  BY <1>1, <1>2 DEF JobOnOK
<1>4. /\ ToSet(job[j].todo) = {c} \cup ToSet(Tail(job[j].todo))
      /\ Tail(job[j].todo) \in Seq(Clients)
      /\ c \in ClientsOf(t) /\ c \in Clients /\ c \in job[j].held
  <2>1. job[j].todo \in Seq(Clients) /\ job[j].todo # <<>>
    BY <1>1, <1>3 DEF JobRecord, BringingOK
  <2> QED BY <1>1, <1>3, <2>1, HeadAndRest, Apart DEF BringingOK
<1>5. Serves[c] \subseteq NamesOf(t) /\ Serves[c] \subseteq Names
  BY <1>4, Apart DEF NamesOf
<1>6. /\ next \in JobRecord /\ next.terr = t /\ next.at = "list" /\ next.kind = job[j].kind
      /\ next.todo = Tail(job[j].todo) /\ next.names = job[j].names \cup Serves[c]
      /\ next.held = job[j].held /\ next.wasOff = job[j].wasOff
  BY <1>1, <1>4, <1>5 DEF JobRecord
<1>7. Continue(j, next, reg) /\ UNCHANGED <<link, owned, dirTerrs, left, off, open, spoiled>>
  BY <1>3 DEF Listed, BringingOK
<1> HIDE DEF c, next
<1>8. /\ RegOK(t, reg)
      /\ \A n \in Names : reg[n] = IF n \in Serves[c] THEN c ELSE Tool(n)
  BY <1>4, <1>5, PutOfTerr, Apart
<1> HIDE DEF reg
<1>9. SoFar(t, next, reg)
  <2>1. \A n \in next.names : reg[n] \in next.held \/ Shared(n)
    BY <1>1, <1>3, <1>4, <1>5, <1>6, <1>8 DEF BringingOK, JobRecord
  <2>2. \A n \in Names :
          /\ reg[n] \in {t} \cup ClientsOf(t) => n \in next.names \cup Terr(t).callables
          /\ reg[n] \in ClientsOf(t) => n \in next.names
    BY <1>3, <1>6, <1>8, SourceIsTerr DEF BringingOK
  <2>3. IF Terr(t).there THEN \A n \in Terr(t).callables : reg[n] = t \/ Shared(n)
                         ELSE Terr(t).callables = {}
    <3>1. ASSUME Terr(t).there, NEW n \in Terr(t).callables, ~Shared(n) PROVE reg[n] = t
      <4>1. n \in Names /\ Tool(n) = t
        BY <1>3, <3>1, Apart DEF BringingOK, AsBefore, RegistryInv, TerrOK
      <4>2. n \notin Serves[c]
        <5>1. n \in Own[t]
          BY <4>1 DEF RegistryInv, NamesOK
        <5> QED BY <1>4, <3>1, <5>1 DEF Shared
      <4> QED BY <1>8, <4>1, <4>2
    <3> QED BY <1>3, <3>1 DEF BringingOK, AsBefore
  <2>4. \A d \in ClientsOf(t) : d \notin ToSet(next.todo) => Serves[d] \subseteq next.names
    BY <1>3, <1>4, <1>6 DEF BringingOK
  <2>5. ClientsOf(t) = ToSet(next.todo) \cup next.held
    BY <1>3, <1>4, <1>6 DEF BringingOK
  <2>6. next.names \subseteq NamesOf(t)
    BY <1>2, <1>5, <1>6 DEF JobOnOK
  <2> QED BY <1>2, <1>3, <1>6, <2>1, <2>2, <2>3, <2>4, <2>5, <2>6 DEF SoFar, BringingOK, JobOnOK
<1>10. UNCHANGED Beside /\ dirTerrs' \in [Instances -> SUBSET Terrs] /\ left' \in 0..MaxJobs
  BY <1>1, <1>7 DEF Beside, TypeOK, PluginsTypeOK
<1> QED BY <1>2, <1>7, <1>8, <1>9, <1>10, ContinueWell

-----------------------------------------------------------------------------
(* Failing and being cancelled: what was registered goes, or stays behind. *)
LEMMA FailsKeepsTerr ==
  ASSUME RegistryInv, NEW j \in Jobs, NEW t \in Terrs, job[j].terr = t, Fails(j)
  PROVE  RegistryInv'
<1> DEFINE drain == [job[j] EXCEPT !.at = "drain"]
           back  == [job[j] EXCEPT !.at = "rollback"]
           reg   == Put(registry[Here], job[j].names, Nobody)
           next  == IF job[j].kind = "open" THEN drain
                    ELSE IF job[j].held = {} THEN Free ELSE back
           tools == IF job[j].kind = "open" THEN registry[Here] ELSE reg
<1>1. job[j].at \in Bringing /\ job[j] \in JobRecord /\ TypeOK /\ NamesOK /\ TerrOK(t)
  BY TypeParts DEF Fails, RegistryInv, Bringing
<1>2. JobOnOK(t, job[j]) /\ open
  BY <1>1 DEF JobOnOK, TerrOK
<1>3. BringingOK(t, job[j])
  BY <1>1, <1>2 DEF JobOnOK, Bringing
<1>4. /\ job[j].names \subseteq NamesOf(t) /\ job[j].kind \in {"add", "open", "reload"}
  BY <1>2, <1>3 DEF JobOnOK, BringingOK
<1>5. /\ RegOK(t, reg) /\ \A n \in Names : reg[n] = IF n \in job[j].names THEN Nobody ELSE Tool(n)
  <2>1. Nobody # t /\ Nobody \notin ClientsOf(t) /\ job[j].names \in SUBSET NamesOf(t)
    BY <1>4, Apart
  <2> QED BY <2>1, PutOfTerr
<1>6. /\ RegOK(t, tools) /\ \A n \in Names : tools[n] \in {Nobody, Tool(n)}
      /\ job[j].kind = "open" => \A n \in Names : tools[n] = Tool(n)
      /\ job[j].kind # "open" => \A n \in Names :
           tools[n] = IF n \in job[j].names THEN Nobody ELSE Tool(n)
  <2>1. RegOK(t, registry[Here]) /\ \A n \in Names : registry[Here][n] = Tool(n)
    BY RegAsItIs DEF Tool
  <2> HIDE DEF reg
  <2> QED BY <1>5, <2>1
<1>7. /\ drain \in JobRecord /\ drain.terr = t /\ drain.at = "drain" /\ drain.kind = job[j].kind
      /\ drain.names = job[j].names /\ drain.held = job[j].held
      /\ back \in JobRecord /\ back.terr = t /\ back.at = "rollback" /\ back.kind = job[j].kind
      /\ back.names = job[j].names /\ back.held = job[j].held
  BY <1>1 DEF JobRecord
<1>8. /\ registry' = [registry EXCEPT ![Here] = tools]
  BY <1>1, <1>4, Apart DEF Fails, Tools, Undone, TypeOK, PluginsTypeOK
<1>9. Go(j, next) /\ off' = GoneOff(job[j])
      /\ UNCHANGED <<link, owned, domain, dirTerrs, left, open, spoiled>>
  BY <1>4 DEF Fails
<1> HIDE DEF drain, back, reg
<1>10. next \in JobRecord /\ (next = Free \/ next.terr = t)
  BY <1>7, FreeIsAJob
<1> HIDE DEF next, tools
<1>11. /\ job' \in [Jobs -> JobRecord] /\ job'[j] = next
       /\ \A k \in Jobs : k # j => job'[k] = job[k]
  BY <1>1, <1>9, <1>10, GoStep
<1>12. /\ registry' \in [Instances -> Registered]
       /\ \A n \in Names : Tool(n)' = tools[n]
  BY <1>1, <1>6, <1>8, ToolsStep DEF Tools, RegOK
<1>13. \A u \in Terrs : Terr(u)' = Terr(u)
  BY <1>9 DEF Terr
<1>14. off' \subseteq off /\ \A u \in Terrs : u # t => (u \in off' <=> u \in off)
  BY <1>9 DEF GoneOff
<1>15. TypeOK'
  BY <1>1, <1>9, <1>11, <1>12, <1>14 DEF TypeOK, PluginsTypeOK, JobRecord, Registered
<1>16. OnlyTerr(j, t)
  BY <1>6, <1>9, <1>11, <1>12, <1>13, <1>14 DEF OnlyTerr, RegOK, Held
<1>17. NamesOK'
  BY <1>6, <1>12 DEF RegOK, NamesOK
<1>18. /\ AsBefore(t)' /\ \A n \in Names : OfTerr(t, n)' => OfTerr(t, n)
  <2>1. \A n \in Names : OfTerr(t, n)' => OfTerr(t, n)
    BY <1>6, <1>12, SourceIsTerr, Apart DEF OfTerr, Source
  <2>2. Terr(t).there => \A n \in Terr(t).callables :
          n \in Names /\ (n \notin job[j].names \/ Shared(n))
    <3>1. \A n \in job[j].names : Tool(n) \in Clients \/ Shared(n)
      BY <1>2, <1>3, Apart DEF BringingOK, JobOnOK
    <3> QED BY <1>1, <1>3, <3>1, Apart DEF BringingOK, AsBefore, TerrOK
  <2>3. Terr(t).there => job[j].kind # "open"
    BY <1>3 DEF BringingOK
  <2> QED BY <1>3, <1>6, <1>12, <1>13, <2>1, <2>2, <2>3 DEF BringingOK, AsBefore
<1>19. job[j].kind # "open" => \A n \in Names : /\ OfTerr(t, n)' => n \in Terr(t).callables
                                                /\ Tool(n)' \notin ClientsOf(t)
  <2> SUFFICES ASSUME job[j].kind # "open", NEW n \in Names, OfTerr(t, n)'
               PROVE  n \in Terr(t).callables /\ Tool(n)' \notin ClientsOf(t)
    BY DEF OfTerr, Source
  <2>1. tools[n] # Nobody
    BY <1>12, Apart DEF OfTerr, Source
  <2>2. Tool(n)' = Tool(n) /\ n \notin job[j].names
    BY <1>3, <1>6, <1>12, <2>1
  <2>3. OfTerr(t, n)
    BY <1>18
  <2> QED BY <1>3, <2>2, <2>3 DEF BringingOK
<1>20. t \in off' => Terr(t).there
  BY <1>3, <1>9 DEF BringingOK, GoneOff
<1>21. \A k \in Jobs : k # j => job'[k].terr # t
  BY <1>11, Alone
<1>22. /\ Terr(t).clients \subseteq ClientsOf(t) /\ Terr(t).callables \subseteq NamesOf(t)
       /\ t \in off' /\ Terr(t).there => ~Terr(t).enabled
  BY <1>1, <1>14 DEF TerrOK
<1>23. CASE job[j].kind = "open"
  <2>1. /\ next.terr = t /\ next.at = "drain" /\ next.kind = "open"
        /\ next.names = job[j].names /\ next.held = job[j].held
    BY <1>7, <1>23 DEF next
  <2>2. \A n \in Names : OfTerr(t, n) => n \in job[j].names
    BY <1>3, <1>23 DEF BringingOK, AsBefore
  <2>3. JobOnOK(t, job[j])'
    BY <1>2, <1>4, <1>9, <1>11, <1>13, <1>18, <1>20, <2>1, <2>2 DEF JobOnOK, DrainOK, Held
  <2>4. TerrOK(t)'
    BY <1>11, <1>13, <1>21, <1>22, <2>1, <2>3, TerrAtWork
  <2>5. Owned(ClientsOf(t))'
    BY <1>11, <2>3 DEF JobOnOK, Owned
  <2> QED BY <1>2, <1>11, <1>15, <1>16, <1>17, <2>1, <2>4, <2>5, TerrStep
<1>24. CASE job[j].kind # "open" /\ job[j].held # {}
  <2>1. /\ next.terr = t /\ next.at = "rollback" /\ next.kind \in {"add", "reload"}
        /\ next.names = job[j].names /\ next.held = job[j].held /\ next.kind = job[j].kind
    BY <1>4, <1>7, <1>24 DEF next
  <2>2. RollbackOK(t, job[j])'
    <3>1. HeldAreOwned(job[j])'
      BY <1>3, <1>9, <1>11, <1>24, <2>1 DEF HeldAreOwned, BringingOK
    <3> QED BY <1>3, <1>11, <1>13, <1>18, <1>19, <1>20, <1>24, <2>1, <3>1 DEF RollbackOK, BringingOK
  <2>3. JobOnOK(t, job[j])'
    BY <1>2, <1>9, <1>11, <2>1, <2>2 DEF JobOnOK, Held
  <2>4. TerrOK(t)'
    BY <1>11, <1>13, <1>21, <1>22, <2>1, <2>3, TerrAtWork
  <2>5. Owned(ClientsOf(t))'
    BY <1>11, <2>3 DEF JobOnOK, Owned
  <2> QED BY <1>2, <1>11, <1>15, <1>16, <1>17, <2>1, <2>4, <2>5, TerrStep
<1>25. CASE job[j].kind # "open" /\ job[j].held = {}
  <2>1. next = Free /\ Free.terr # t
    BY <1>25, Apart DEF next, Free
  <2>2. \A c \in ClientsOf(t) : Held(c)' => c \in spoiled'
    BY <1>2, <1>9, <1>25 DEF JobOnOK, Held
  <2>3. QuietOK(t)'
    <3>1. Terr(t).callables \subseteq Names
      BY <1>22, Apart
    <3>2. Terr(t).there => \A n \in Terr(t).callables :
            (Tool(n)' = t \/ Shared(n)) /\ Tool(n)' \notin ClientsOf(t)
      BY <1>13, <1>18, <1>19, <1>25, <3>1 DEF AsBefore
    <3>3. Terr(t).there => \A n \in Terr(t).callables : OfTerr(t, n)' \/ Shared(n)
      BY <3>2 DEF OfTerr, Source
    <3>4. ~Terr(t).there => Terr(t).callables = {}
      BY <1>13, <1>18 DEF AsBefore
    <3> QED BY <1>13, <1>19, <1>25, <2>2, <3>2, <3>3, <3>4, Apart DEF QuietOK
  <2>4. TerrOK(t)'
    BY <1>11, <1>13, <1>20, <1>21, <1>22, <2>1, <2>3, TerrAtRest
  <2>5. Owned(ClientsOf(t))'
    BY <2>2 DEF Owned
  <2> QED BY <1>2, <1>11, <1>15, <1>16, <1>17, <2>1, <2>4, <2>5, TerrStep
<1> QED BY <1>23, <1>24, <1>25

LEMMA CancelledKeeps ==
  ASSUME RegistryInv, NEW j \in Jobs, Cancelled(j)
  PROVE  RegistryInv'
<1>1. /\ job[j].at \in Bringing \cup {"rollback", "teardown"}
      /\ job[j].at \in Bringing => job[j].kind \in {"add", "reload"} /\ job[j].kind # "mcp"
  BY DEF Cancelled, Bringing
<1>2. job[j].terr \in Terrs /\ JobOnOK(job[j].terr, job[j])
  BY <1>1, FreeOnes DEF LoneOK
<1>3. PICK t \in Terrs : t = job[j].terr
  BY <1>2
<1>4. /\ open /\ JobOnOK(t, job[j])
      /\ job[j].at \in Bringing => BringingOK(t, job[j])
      /\ job[j].at = "rollback" => RollbackOK(t, job[j])
      /\ job[j].at = "teardown" => TeardownOK(t, job[j])
  BY <1>1, <1>2, <1>3 DEF JobOnOK, Bringing
<1>5. Go(j, Free) /\ off' = GoneOff(job[j]) /\ UNCHANGED <<registry, domain, dirTerrs, left, open>>
  BY DEF Cancelled
<1>6. TypeOK /\ NamesOK /\ TerrOK(t)
  BY DEF RegistryInv
<1>7. /\ job' \in [Jobs -> JobRecord] /\ job'[j] = Free
      /\ \A k \in Jobs : k # j => job'[k] = job[k]
  BY <1>5, <1>6, GoStep, FreeIsAJob
<1>8. (\A u \in Terrs : Terr(u)' = Terr(u)) /\ (\A n \in Names : Tool(n)' = Tool(n))
  BY <1>5 DEF Terr, Tool
<1>9. off' \subseteq off /\ \A u \in Terrs : u # t => (u \in off' <=> u \in off)
  BY <1>3, <1>5 DEF GoneOff
<1>10. /\ link' \in [Clients -> Links] /\ owned' \in [Instances -> SUBSET Clients]
       /\ spoiled' \subseteq Terrs \cup Clients
       /\ t \in spoiled' /\ \A u \in Terrs : u # t => (u \in spoiled' <=> u \in spoiled)
       /\ \A d \in Clients : d \notin ClientsOf(t) =>
            /\ Held(d)' <=> Held(d)
            /\ d \in owned'[Here] <=> d \in owned[Here]
            /\ d \in spoiled' <=> d \in spoiled
       /\ Owned(ClientsOf(t))'
  <2>1. CASE job[j].at \in Bringing
    <3>1. spoiled' = spoiled \cup {t} /\ UNCHANGED <<link, owned>>
      BY <1>3, <2>1 DEF Cancelled, Bringing
    <3>2. \A d \in ClientsOf(t) : Held(d)' => d \in owned'[Here] \cup spoiled'
      BY <1>1, <1>4, <2>1, <3>1 DEF BringingOK, JobOnOK, Held
    <3>3. Owned(ClientsOf(t))'
      BY <3>2 DEF Owned
    <3> QED BY <1>6, <3>1, <3>3, Apart DEF TypeOK, PluginsTypeOK, Held
  <2>2. CASE job[j].at \in {"rollback", "teardown"}
    <3>1. PICK c \in job[j].held : c = First(t, job[j].held)
      BY <1>4, <2>2, FirstIsOne DEF JobOnOK, RollbackOK, TeardownOK
    <3>2. c \in ClientsOf(t) /\ c \in Clients
      BY <1>4, <3>1, Apart DEF JobOnOK
    <3>3. PICK ended \in BOOLEAN :
            /\ spoiled' = spoiled \cup {t, c}
            /\ owned' = [owned EXCEPT ![Here] = @ \ {c}]
            /\ link' = [link EXCEPT ![c] = IF ended THEN "down" ELSE @]
      BY <1>3, <2>2, <3>1 DEF Cancelled, Bringing
    <3>4. /\ link' \in [Clients -> Links] /\ owned' \in [Instances -> SUBSET Clients]
          /\ owned'[Here] = owned[Here] \ {c}
          /\ \A d \in Clients : d # c => link'[d] = link[d]
      BY <1>6, <3>2, <3>3, Apart DEF TypeOK, PluginsTypeOK, Links
    <3>5. spoiled' \subseteq Terrs \cup Clients /\ \A u \in Terrs : u # c
      BY <1>6, <3>2, <3>3, Apart DEF TypeOK
    <3>6. ASSUME NEW d \in ClientsOf(t), Held(d)'
          PROVE  d \in owned'[Here] \cup spoiled' \/ \E k \in Jobs : d \in job'[k].held
      <4>1. CASE d = c
        BY <3>3, <4>1
      <4>2. CASE d # c
        <5>1. d \in Clients /\ Held(d)
          BY <3>4, <3>6, <4>2, Apart DEF Held
        <5>2. d \in owned[Here] \cup spoiled \/ \E k \in Jobs : d \in job[k].held
          BY <5>1 DEF RegistryInv, ClientsAreOwned
        <5>3. d \in job[j].held => d \in owned[Here] \cup spoiled
          BY <1>4, <2>2, <5>1 DEF RollbackOK, TeardownOK, HeldAreOwned
        <5>4. d \in owned[Here] \cup spoiled \/ \E k \in Jobs : k # j /\ d \in job[k].held
          BY <5>2, <5>3
        <5> QED BY <1>7, <3>4, <3>3, <4>2, <5>4
      <4> QED BY <4>1, <4>2
    <3>7. Owned(ClientsOf(t))'
      BY <3>6 DEF Owned
    <3>8. \A d \in Clients : d \notin ClientsOf(t) =>
            (Held(d)' <=> Held(d)) /\ d # t /\ d # c
      BY <3>2, <3>4, Apart DEF Held
    <3> QED BY <3>3, <3>4, <3>5, <3>7, <3>8
  <2> QED BY <1>1, <2>1, <2>2
<1>11. TypeOK'
  BY <1>5, <1>6, <1>7, <1>9, <1>10 DEF TypeOK, PluginsTypeOK, JobRecord
<1>12. OnlyTerr(j, t)
  BY <1>5, <1>7, <1>8, <1>9, <1>10 DEF OnlyTerr
<1>13. NamesOK'
  BY <1>6, <1>8 DEF NamesOK
<1>14. TerrOK(t)'
  <2>1. \A k \in Jobs : job'[k].terr # t
    BY <1>3, <1>7, Alone, Apart DEF Free
  <2>2. t \in off' => Terr(t).there
    <3>1. job[j].kind = "reload" => t \notin off'
      BY <1>3, <1>5 DEF GoneOff
    <3> QED BY <1>1, <1>4, <1>9, <3>1 DEF BringingOK, RollbackOK, TeardownOK
  <2> QED BY <1>6, <1>8, <1>9, <1>10, <2>1, <2>2, TerrAtRest DEF TerrOK
<1> QED BY <1>3, <1>4, <1>7, <1>10, <1>11, <1>12, <1>13, <1>14, TerrStep

-----------------------------------------------------------------------------
(* Stopping clients one by one: rollback and removal, and the block of
   open_terr. *)
LEMMA StopKeeps ==
  ASSUME RegistryInv, NEW j \in Jobs, Stop(j)
  PROVE  RegistryInv'
<1>1. job[j].at \in {"rollback", "teardown"} /\ job[j] \in JobRecord
      /\ TypeOK /\ NamesOK
  BY TypeParts DEF Stop, RegistryInv
<1>2. PICK t \in Terrs : t = job[j].terr
  BY <1>1, FreeOnes
<1>3. JobOnOK(t, job[j]) /\ open /\ TerrOK(t)
  BY <1>1, <1>2, FreeOnes DEF JobOnOK, RegistryInv
<1>4. /\ job[j].at = "rollback" => RollbackOK(t, job[j])
      /\ job[j].at = "teardown" => TeardownOK(t, job[j])
  BY <1>1, <1>3 DEF JobOnOK, Bringing
<1>5. PICK c \in job[j].held : c = First(t, job[j].held)
  BY <1>1, <1>3, <1>4, FirstIsOne DEF JobOnOK, RollbackOK, TeardownOK
<1>6. c \in ClientsOf(t) /\ c \in Clients
  BY <1>3, <1>5, Apart DEF JobOnOK
<1> DEFINE rest == Rest(job[j], c)
<1>7. /\ rest \in JobRecord /\ rest.terr = t /\ rest.at = job[j].at /\ rest.kind = job[j].kind
      /\ rest.todo = job[j].todo /\ rest.names = job[j].names
      /\ rest.held = job[j].held \ {c} /\ rest.wasOff = job[j].wasOff
  BY <1>1, <1>2 DEF Rest, JobRecord
<1> HIDE DEF rest
<1>8. PICK raises \in BOOLEAN :
       /\ owned' = [owned EXCEPT ![Here] = @ \ {c}]
       /\ Disconnected(c, raises)
       /\ IF rest.held # {} THEN Go(j, rest) /\ UNCHANGED <<registry, domain>>
          ELSE IF rest.at = "teardown" /\ rest.kind = "reload"
          THEN Continue(j, rest, registry[Here])
          ELSE Go(j, Free) /\ UNCHANGED <<registry, domain>>
  BY <1>2, <1>5 DEF Stop, rest
<1>9. UNCHANGED <<dirTerrs, left, off, open>>
  BY DEF Stop
<1>10. Mcps[t] # <<>>
  BY <1>6 DEF ClientsOf, ToSet
<1> DEFINE again == [rest EXCEPT !.at = "connect"]
           next == IF rest.held # {} THEN rest
                   ELSE IF rest.at = "teardown" /\ rest.kind = "reload" THEN again ELSE Free
<1>11. /\ again \in JobRecord /\ again.terr = t /\ again.at = "connect" /\ again.kind = rest.kind
       /\ again.todo = rest.todo /\ again.names = rest.names
       /\ again.held = rest.held /\ again.wasOff = rest.wasOff
  BY <1>7 DEF JobRecord
<1>12. /\ Go(j, next) /\ UNCHANGED domain /\ registry' = registry
  <2>1. Tools(registry[Here]) => registry' = registry
    BY <1>1, Apart DEF Tools, TypeOK, PluginsTypeOK
  <2>2. rest.at = "teardown" => rest.todo # <<>>
    BY <1>4, <1>7, <1>10 DEF TeardownOK
  <2> QED BY <1>8, <2>1, <2>2 DEF Continue
<1>13. next \in JobRecord /\ (next = Free \/ next.terr = t)
  BY <1>7, <1>11, FreeIsAJob
<1> HIDE DEF again, next
<1>14. /\ job' \in [Jobs -> JobRecord] /\ job'[j] = next
       /\ \A k \in Jobs : k # j => job'[k] = job[k]
  BY <1>1, <1>12, <1>13, GoStep
<1>15. /\ link' \in [Clients -> Links] /\ owned' \in [Instances -> SUBSET Clients]
       /\ link'[c] # "down" => c \in spoiled'
       /\ \A d \in Clients : d # c => link'[d] = link[d] /\ (d \in spoiled' <=> d \in spoiled)
       /\ owned'[Here] = owned[Here] \ {c}
       /\ spoiled' \subseteq Terrs \cup Clients
       /\ \A u \in Terrs : u \in spoiled' <=> u \in spoiled
  BY <1>1, <1>6, <1>8, Apart DEF Disconnected, TypeOK, PluginsTypeOK, Links
<1>16. (\A u \in Terrs : Terr(u)' = Terr(u)) /\ (\A n \in Names : Tool(n)' = Tool(n))
  BY <1>12 DEF Terr, Tool
<1>17. TypeOK'
  BY <1>1, <1>9, <1>12, <1>14, <1>15 DEF TypeOK, PluginsTypeOK, JobRecord
<1>18. OnlyTerr(j, t)
  BY <1>6, <1>9, <1>14, <1>15, <1>16 DEF OnlyTerr, Held
<1>19. NamesOK' /\ (AsBefore(t) => AsBefore(t)') /\ \A n \in Names : OfTerr(t, n)' <=> OfTerr(t, n)
  <2>1. Terr(t).callables \subseteq Names
    BY <1>3, Apart DEF TerrOK
  <2> QED BY <1>1, <1>16, <2>1 DEF NamesOK, AsBefore, OfTerr, Source
<1>20. \A d \in ClientsOf(t) : Held(d)' => d \in rest.held \cup spoiled'
  <2> SUFFICES ASSUME NEW d \in ClientsOf(t), Held(d)', d # c, d \notin spoiled'
               PROVE  d \in rest.held
    BY <1>15 DEF Held
  <2>1. d \in Clients /\ link[d] # "down" /\ d \notin spoiled
    BY <1>15, Apart DEF Held
  <2> QED BY <1>3, <1>7, <2>1 DEF JobOnOK, Held
<1>21. \A k \in Jobs : k # j => job'[k].terr # t
  BY <1>2, <1>14, Alone
<1>22. /\ Terr(t)'.clients \subseteq ClientsOf(t) /\ Terr(t)'.callables \subseteq NamesOf(t)
       /\ t \in off' /\ Terr(t)'.there => ~Terr(t)'.enabled
  BY <1>3, <1>9, <1>16 DEF TerrOK
<1>23. rest.held \subseteq ClientsOf(t) /\ rest.names \subseteq NamesOf(t)
  BY <1>3, <1>7 DEF JobOnOK
<1>24. CASE next = Free
  <2>1. rest.held = {} /\ ~(job[j].at = "teardown" /\ job[j].kind = "reload")
    <3>1. t # Nobody /\ Free.terr = Nobody
      BY Apart DEF Free
    <3> QED BY <1>7, <1>11, <1>24, <3>1 DEF next
  <2>2. t \in off => Terr(t).there
    BY <1>1, <1>4, <2>1 DEF RollbackOK, TeardownOK
  <2>3. QuietOK(t)'
    <3>1. Terr(t)' = Terr(t) /\ (AsBefore(t) => AsBefore(t)')
      BY <1>16, <1>19
    <3>2. AsBefore(t)
      BY <1>1, <1>4 DEF RollbackOK, TeardownOK, NoDomain, AsBefore
    <3>3. \A n \in Names : (OfTerr(t, n)' => n \in Terr(t).callables) /\ Tool(n)' \notin ClientsOf(t)
      BY <1>1, <1>4, <1>16, <1>19, SourceIsTerr DEF RollbackOK, TeardownOK
    <3>4. Terr(t).there => \A n \in Terr(t).callables : n \in Names /\ (OfTerr(t, n)' \/ Shared(n))
      BY <1>3, <3>1, <3>2, Apart DEF AsBefore, OfTerr, Source, TerrOK
    <3>5. ~Terr(t).there => Terr(t).callables = {}
      BY <3>2 DEF AsBefore
    <3> QED BY <1>20, <2>1, <3>1, <3>3, <3>4, <3>5 DEF QuietOK
  <2>4. \A k \in Jobs : job'[k].terr # t
    BY <1>14, <1>21, <1>24, Apart DEF Free
  <2>5. TerrOK(t)'
    BY <1>9, <1>16, <1>22, <2>2, <2>3, <2>4, TerrAtRest
  <2>6. Owned(ClientsOf(t))'
    BY <1>20, <2>1 DEF Owned
  <2> QED BY <1>2, <1>3, <1>14, <1>17, <1>18, <1>19, <1>24, <2>5, <2>6, TerrStep
<1>25. CASE rest.held # {}
  <2>1. next = rest
    BY <1>25 DEF next
  <2>7. HeldAreOwned(job[j])'
    <3>1. \A d \in rest.held : d \in Clients /\ d # c /\ d \in job[j].held
      BY <1>1, <1>7 DEF JobRecord
    <3>2. HeldAreOwned(job[j])
      BY <1>1, <1>4 DEF RollbackOK, TeardownOK
    <3> QED BY <1>14, <1>15, <2>1, <3>1, <3>2 DEF HeldAreOwned, Held
  <2>2. /\ rest.at = "rollback" => RollbackOK(t, job[j])'
        /\ rest.at = "teardown" => TeardownOK(t, job[j])'
    BY <1>4, <1>7, <1>9, <1>14, <1>16, <1>19, <1>25, <2>1, <2>7 DEF RollbackOK, TeardownOK
  <2>3. JobOnOK(t, job[j])'
    BY <1>1, <1>3, <1>7, <1>9, <1>14, <1>20, <1>23, <2>1, <2>2 DEF JobOnOK
  <2>4. TerrOK(t)'
    BY <1>7, <1>14, <1>21, <1>22, <2>1, <2>3, TerrAtWork
  <2>5. Owned(ClientsOf(t))'
    BY <1>14, <1>20, <2>1 DEF Owned
  <2> QED BY <1>2, <1>3, <1>7, <1>14, <1>17, <1>18, <1>19, <2>1, <2>4, <2>5, TerrStep
<1>26. CASE rest.held = {} /\ next # Free
  <2>1. next = again /\ job[j].at = "teardown" /\ job[j].kind = "reload"
    BY <1>7, <1>26 DEF next
  <2>2. TeardownOK(t, job[j])
    BY <1>4, <2>1
  <2>3. BringingOK(t, job[j])'
    <3>1. ToSet(next.todo) = ClientsOf(t) /\ next.todo # <<>> /\ next.held = {} /\ next.names = {}
          /\ next.kind = "reload" /\ next.wasOff = job[j].wasOff /\ next.at = "connect"
      BY <1>7, <1>10, <1>11, <1>26, <2>1, <2>2 DEF TeardownOK, ClientsOf
    <3>2. ~Terr(t)'.there /\ Terr(t)'.callables = {}
      BY <1>16, <2>2 DEF TeardownOK, NoDomain
    <3>3. AsBefore(t)'
      BY <3>2 DEF AsBefore
    <3>4. \A n \in Names : ~OfTerr(t, n)' /\ Tool(n)' \notin ClientsOf(t)
      BY <1>16, <1>19, <2>2, SourceIsTerr DEF TeardownOK
    <3>5. job'[j] = next /\ (t \in off' => next.wasOff)
      BY <1>9, <1>14, <2>2, <3>1 DEF TeardownOK
    <3> QED BY <3>1, <3>2, <3>3, <3>4, <3>5 DEF BringingOK
  <2>4. JobOnOK(t, job[j])'
    BY <1>3, <1>9, <1>11, <1>14, <1>20, <1>23, <2>1, <2>3 DEF JobOnOK, Bringing
  <2>5. TerrOK(t)'
    BY <1>11, <1>14, <1>21, <1>22, <2>1, <2>4, TerrAtWork
  <2>6. Owned(ClientsOf(t))'
    BY <1>20, <1>26 DEF Owned
  <2> QED BY <1>2, <1>3, <1>11, <1>14, <1>17, <1>18, <1>19, <2>1, <2>5, <2>6, TerrStep
<1> QED BY <1>24, <1>25, <1>26

LEMMA RemoveTerrKeeps ==
  ASSUME RegistryInv, NEW j \in Jobs, NEW t \in Terrs, NEW kind \in Kinds, RemoveTerr(j, kind, t)
  PROVE  RegistryInv'
<1> DEFINE d == Terr(t)
           reg == Put(registry[Here], d.callables, Nobody)
           r == [Job(kind, t) EXCEPT !.wasOff = d.there /\ ~d.enabled]
           down == [r EXCEPT !.at = "teardown", !.held = d.clients]
           conn == [r EXCEPT !.at = "connect"]
           next == IF d.clients # {} THEN down ELSE IF kind = "remove" THEN Free ELSE conn
           finishing == d.clients = {} /\ kind # "remove" /\ Mcps[t] = <<>>
<1>1. /\ job[j] = Free /\ open /\ ~Working(t) /\ t \notin spoiled
      /\ left' \in 0..MaxJobs /\ kind \in {"remove", "reload"} /\ kind \in Kinds
  <2>1. left \in 0..MaxJobs /\ MaxJobs \in Nat
    BY RegistryAssumption DEF RegistryInv, TypeOK
  <2> QED BY <2>1, FreeOnes DEF RemoveTerr, BeginOn, Begin
<1>2. TypeOK /\ NamesOK /\ TerrOK(t) /\ QuietOK(t) /\ d \in DomainRecord
  BY <1>1, TypeParts DEF RegistryInv, TerrOK
<1>3. /\ d.callables \subseteq NamesOf(t) /\ d.clients \subseteq ClientsOf(t)
      /\ d.clients \subseteq Clients /\ d.there \in BOOLEAN /\ d.enabled \in BOOLEAN
  BY <1>2, Apart DEF TerrOK, DomainRecord
<1>4. /\ RegOK(t, reg) /\ \A n \in Names : reg[n] = IF n \in d.callables THEN Nobody ELSE Tool(n)
  <2>1. Nobody # t /\ Nobody \notin ClientsOf(t) /\ d.callables \in SUBSET NamesOf(t)
    BY <1>3, Apart
  <2> QED BY <2>1, PutOfTerr
<1>5. /\ r \in JobRecord /\ r.terr = t /\ r.kind = kind /\ r.todo = Mcps[t]
      /\ r.names = {} /\ r.held = {} /\ r.wasOff = (d.there /\ ~d.enabled)
  BY <1>1, <1>3, Apart DEF Job, Free, JobRecord
<1>6. /\ dirTerrs' \in [Instances -> SUBSET Terrs]
      /\ off' = IF kind = "remove" THEN off \ {t} ELSE off
      /\ UNCHANGED <<link, owned, open, spoiled>>
  BY <1>2 DEF RemoveTerr, NotFromDir, TypeOK, PluginsTypeOK
<1>7. finishing => Finish(j, r, reg)
  BY DEF RemoveTerr
<1>8. ~finishing => Tools(reg) /\ Set(t, NoDomain) /\ Go(j, next)
  BY <1>1 DEF RemoveTerr
<1>9. t \in off => d.there /\ ~d.enabled
  BY <1>1, <1>2 DEF TerrOK
<1>10. \A c \in ClientsOf(t) : Held(c) => c \in d.clients \cup spoiled
  BY <1>2 DEF QuietOK
<1>11. \A n \in Names : OfTerr(t, n) => n \in d.callables
  BY <1>2 DEF QuietOK
<1> HIDE DEF reg, d, r
<1>12. CASE finishing
  <2>1. kind = "reload" /\ ClientsOf(t) = {}
    BY <1>1, <1>12 DEF ClientsOf, ToSet
  <2>2. AllBrought(t, r, reg)
    <3>1. \A n \in NamesOf(t) : n \in Own[t]
      BY <2>1 DEF NamesOf
    <3> QED BY <1>5, <1>9, <1>12, <2>1, <3>1 DEF AllBrought
  <2> QED BY <1>1, <1>4, <1>6, <1>7, <1>12, <2>1, <2>2, FinishWell DEF Beside
<1>13. CASE ~finishing
  <2>1. /\ down \in JobRecord /\ down.terr = t /\ down.at = "teardown" /\ down.kind = kind
        /\ down.todo = Mcps[t] /\ down.names = {} /\ down.held = d.clients
        /\ down.wasOff = r.wasOff
        /\ conn \in JobRecord /\ conn.terr = t /\ conn.at = "connect" /\ conn.kind = kind
        /\ conn.todo = Mcps[t] /\ conn.names = {} /\ conn.held = {}
        /\ conn.wasOff = r.wasOff
    BY <1>3, <1>5 DEF JobRecord
  <2>2. next \in JobRecord /\ (next = Free \/ next.terr = t)
    BY <2>1, FreeIsAJob
  <2> HIDE DEF down, conn
  <2>3. NoDomain \in DomainRecord /\ NoDomain.clients = {} /\ NoDomain.callables = {}
        /\ ~NoDomain.there
    BY DEF NoDomain, DomainRecord
  <2>4. Tools(reg) /\ Set(t, NoDomain) /\ Go(j, next)
    BY <1>8, <1>13
  <2> HIDE DEF next, finishing
  <2>5. /\ registry' \in [Instances -> Registered]
        /\ \A n \in Names : Tool(n)' = reg[n]
    BY <1>2, <1>4, <2>4, ToolsStep DEF RegOK
  <2>6. /\ domain' \in [Instances -> [Terrs -> DomainRecord]] /\ Terr(t)' = NoDomain
        /\ \A u \in Terrs : u # t => Terr(u)' = Terr(u)
    BY <1>2, <2>3, <2>4, SetStep
  <2>7. /\ job' \in [Jobs -> JobRecord] /\ job'[j] = next
        /\ \A k \in Jobs : k # j => job'[k] = job[k]
    BY <1>2, <2>2, <2>4, GoStep
  <2>8. TypeOK'
    <3>1. off' \subseteq Terrs
      BY <1>2, <1>6 DEF TypeOK
    <3> QED BY <1>1, <1>2, <1>6, <2>5, <2>6, <2>7, <3>1
          DEF TypeOK, PluginsTypeOK, DomainRecord, JobRecord, Registered
  <2>9. OnlyTerr(j, t)
    BY <1>4, <1>6, <2>5, <2>6, <2>7 DEF OnlyTerr, RegOK, Held
  <2>10. NamesOK'
    BY <1>4, <2>5 DEF RegOK, NamesOK
  <2>11. \A n \in Names : ~OfTerr(t, n)'
    BY <1>4, <1>11, <2>5, Apart DEF OfTerr, Source
  <2>12. \A k \in Jobs : k # j => job'[k].terr # t
    BY <1>1, <2>7, Alone
  <2>13. CASE d.clients # {}
    <3>1. next = down
      BY <2>13 DEF next
    <3>6. HeldAreOwned(job[j])'
      <4>1. \A c \in d.clients : c \in Clients /\ c \in ClientsOf(t)
        BY <1>3
      <4>2. \A k \in Jobs : d.clients \cap job[k].held = {}
        BY <1>1, <4>1, NotHeldByOthers
      <4>3. \A c \in d.clients : Held(c) => c \in owned[Here] \cup spoiled
        BY <4>1, <4>2 DEF RegistryInv, ClientsAreOwned
      <4>4. job'[j].held = d.clients
        BY <2>1, <2>7, <3>1
      <4> QED BY <1>6, <4>3, <4>4 DEF HeldAreOwned, Held
    <3>2. TeardownOK(t, job[j])'
      BY <1>1, <1>5, <1>6, <1>9, <2>1, <2>6, <2>7, <2>11, <2>13, <3>1, <3>6 DEF TeardownOK
    <3>3. JobOnOK(t, job[j])'
      BY <1>1, <1>3, <1>6, <1>10, <2>1, <2>7, <3>1, <3>2 DEF JobOnOK, Held
    <3>4. TerrOK(t)'
      BY <2>1, <2>3, <2>6, <2>7, <2>12, <3>1, <3>3, TerrAtWork
    <3>5. Owned(ClientsOf(t))'
      BY <1>6, <1>10, <2>1, <2>7, <3>1 DEF Owned, Held
    <3> QED BY <1>1, <2>1, <2>7, <2>8, <2>9, <2>10, <3>1, <3>4, <3>5, TerrStep
  <2>14. CASE d.clients = {} /\ kind = "remove"
    <3>1. next = Free /\ Free.terr # t
      BY <2>14, Apart DEF next, Free
    <3>2. QuietOK(t)'
      BY <1>6, <1>10, <2>3, <2>6, <2>11, <2>14 DEF QuietOK, Held
    <3>3. TerrOK(t)'
      BY <1>6, <2>3, <2>6, <2>7, <2>12, <2>14, <3>1, <3>2, TerrAtRest
    <3>4. Owned(ClientsOf(t))'
      BY <1>6, <1>10, <2>14 DEF Owned, Held
    <3> QED BY <1>1, <2>7, <2>8, <2>9, <2>10, <3>1, <3>3, <3>4, TerrStep
  <2>15. CASE d.clients = {} /\ kind # "remove"
    <3>1. next = conn /\ kind = "reload" /\ Mcps[t] # <<>>
      BY <1>1, <1>13, <2>15 DEF next, finishing
    <3>2. AsBefore(t)'
      BY <2>3, <2>6 DEF AsBefore
    <3>3. BringingOK(t, job[j])'
      <4>1. \A n \in Names : ~OfTerr(t, n)' /\ Tool(n)' \notin ClientsOf(t)
        BY <2>11, SourceIsTerr DEF OfTerr, Source
      <4> QED BY <1>5, <1>6, <1>9, <2>1, <2>3, <2>6, <2>7, <3>1, <3>2, <4>1 DEF BringingOK, ClientsOf
    <3>4. JobOnOK(t, job[j])'
      BY <1>1, <1>6, <1>10, <2>1, <2>7, <2>15, <3>1, <3>3 DEF JobOnOK, Held, Bringing
    <3>5. TerrOK(t)'
      BY <2>1, <2>3, <2>6, <2>7, <2>12, <3>1, <3>4, TerrAtWork
    <3>6. Owned(ClientsOf(t))'
      BY <1>6, <1>10, <2>15 DEF Owned, Held
    <3> QED BY <1>1, <2>1, <2>7, <2>8, <2>9, <2>10, <3>1, <3>5, <3>6, TerrStep
  <2> QED BY <2>13, <2>14, <2>15
<1> QED BY <1>12, <1>13

LEMMA LeaveKeeps ==
  ASSUME RegistryInv, NEW j \in Jobs, Leave(j)
  PROVE  RegistryInv'
<1> DEFINE next == [job[j] EXCEPT !.at = "drain"]
<1>1. job[j].at = "open" /\ job[j] \in JobRecord /\ TypeOK /\ NamesOK
  BY TypeParts DEF Leave, RegistryInv
<1>2. PICK t \in Terrs : t = job[j].terr
  BY <1>1, FreeOnes
<1>3. JobOnOK(t, job[j]) /\ open /\ TerrOK(t) /\ OpenOK(t, job[j])
  BY <1>1, <1>2, FreeOnes DEF JobOnOK, RegistryInv, Bringing
<1>4. /\ next \in JobRecord /\ next.terr = t /\ next.at = "drain" /\ next.kind = job[j].kind
      /\ next.names = job[j].names /\ next.held = job[j].held
  BY <1>1, <1>2 DEF JobRecord
<1>5. Go(j, next) /\ UNCHANGED <<pluginVars, left, off, open, spoiled>>
  BY DEF Leave
<1> HIDE DEF next
<1>6. /\ job' \in [Jobs -> JobRecord] /\ job'[j] = next
      /\ \A k \in Jobs : k # j => job'[k] = job[k]
  BY <1>1, <1>4, <1>5, GoStep
<1>7. (\A u \in Terrs : Terr(u)' = Terr(u)) /\ (\A n \in Names : Tool(n)' = Tool(n))
  BY <1>5 DEF Terr, Tool, pluginVars
<1>8. TypeOK' /\ OnlyTerr(j, t) /\ NamesOK'
  BY <1>1, <1>5, <1>6, <1>7 DEF TypeOK, PluginsTypeOK, pluginVars, JobRecord, OnlyTerr, NamesOK, Held
<1>9. JobOnOK(t, job[j])'
  <2>1. DrainOK(t, job[j])'
    BY <1>3, <1>4, <1>5, <1>6, <1>7, <1>8, OwnNames, Apart DEF OpenOK, DrainOK, OfTerr, Source, NamesOK, NamesOf
  <2> QED BY <1>3, <1>4, <1>5, <1>6, <2>1 DEF JobOnOK, Held, pluginVars
<1>10. TerrOK(t)'
  BY <1>2, <1>3, <1>4, <1>5, <1>6, <1>7, <1>9, Alone, TerrAtWork DEF TerrOK
<1>11. Owned(ClientsOf(t))'
  BY <1>6, <1>9 DEF JobOnOK, Owned
<1> QED BY <1>2, <1>3, <1>4, <1>6, <1>8, <1>10, <1>11, TerrStep

LEMMA DrainKeeps ==
  ASSUME RegistryInv, NEW j \in Jobs, Drain(j)
  PROVE  RegistryInv'
<1>1. job[j].at = "drain" /\ job[j].held # {} /\ job[j] \in JobRecord /\ TypeOK /\ NamesOK
  BY TypeParts DEF Drain, RegistryInv
<1>2. PICK t \in Terrs : t = job[j].terr
  BY <1>1, FreeOnes
<1>3. JobOnOK(t, job[j]) /\ open /\ TerrOK(t) /\ DrainOK(t, job[j])
  BY <1>1, <1>2, FreeOnes DEF JobOnOK, RegistryInv, Bringing
<1>4. PICK c \in job[j].held : c = First(t, job[j].held)
  BY <1>1, <1>3, FirstIsOne DEF JobOnOK
<1>5. c \in ClientsOf(t) /\ c \in Clients
  BY <1>3, <1>4, Apart DEF JobOnOK
<1> DEFINE rest == Rest(job[j], c)
<1>6. /\ rest \in JobRecord /\ rest.terr = t /\ rest.at = "drain" /\ rest.kind = job[j].kind
      /\ rest.names = job[j].names /\ rest.held = job[j].held \ {c}
  BY <1>1, <1>2 DEF Rest, JobRecord
<1> HIDE DEF rest
<1>7. PICK raises \in BOOLEAN :
       /\ link' = [link EXCEPT ![c] = IF raises THEN @ ELSE "down"]
       /\ spoiled' = IF raises THEN spoiled \cup {t} \cup job[j].held ELSE spoiled
       /\ Go(j, IF raises THEN Free ELSE rest)
  BY <1>2, <1>4 DEF Drain, rest
<1> DEFINE next == IF raises THEN Free ELSE rest
<1>8. UNCHANGED <<owned, registry, domain, dirTerrs, left, off, open>>
  BY DEF Drain
<1>9. /\ job' \in [Jobs -> JobRecord] /\ job'[j] = next
      /\ \A k \in Jobs : k # j => job'[k] = job[k]
  <2>1. next \in JobRecord /\ Go(j, next)
    BY <1>6, <1>7, FreeIsAJob
  <2> HIDE DEF next
  <2> QED BY <1>1, <2>1, GoStep
<1>10. (\A u \in Terrs : Terr(u)' = Terr(u)) /\ (\A n \in Names : Tool(n)' = Tool(n))
  BY <1>8 DEF Terr, Tool
<1>11. job[j].held \subseteq ClientsOf(t) /\ job[j].held \subseteq Clients
  BY <1>3, Apart DEF JobOnOK
<1>12. /\ link' \in [Clients -> Links]
       /\ spoiled' \subseteq Terrs \cup Clients
       /\ \A d \in Clients : d # c => link'[d] = link[d]
       /\ ~raises => link'[c] = "down" /\ spoiled' = spoiled
       /\ raises => spoiled' = spoiled \cup {t} \cup job[j].held
  BY <1>1, <1>2, <1>5, <1>7, <1>11 DEF TypeOK, PluginsTypeOK, Links
<1>13. TypeOK'
  BY <1>1, <1>8, <1>9, <1>12 DEF TypeOK, PluginsTypeOK, JobRecord
<1>14. OnlyTerr(j, t)
  <2>1. \A u \in Terrs : u # t => (u \in spoiled' <=> u \in spoiled)
    BY <1>11, <1>12, Apart
  <2>2. \A d \in Clients : d \notin ClientsOf(t) => (d \in spoiled' <=> d \in spoiled)
    BY <1>11, <1>12, Apart
  <2> QED BY <1>5, <1>8, <1>9, <1>10, <1>12, <2>1, <2>2 DEF OnlyTerr, Held
<1>15. NamesOK' /\ \A n \in Names : OfTerr(t, n)' <=> OfTerr(t, n)
  BY <1>1, <1>10 DEF NamesOK, OfTerr, Source
<1>16. \A d \in ClientsOf(t) : Held(d)' => d \in next.held \cup spoiled'
  <2> SUFFICES ASSUME NEW d \in ClientsOf(t), Held(d)', d \notin spoiled'
               PROVE  d \in next.held
    OBVIOUS
  <2>1. d # c \/ raises
    BY <1>12 DEF Held
  <2>2. ~raises
    BY <1>3, <1>4, <1>12, <2>1, Apart DEF JobOnOK, Held
  <2> QED BY <1>3, <1>6, <1>12, <2>1, <2>2, Apart DEF JobOnOK, Held
<1>17. \A k \in Jobs : k # j => job'[k].terr # t
  BY <1>2, <1>9, Alone
<1>18. CASE raises
  <2>1. next = Free /\ Free.terr # t /\ Free.held = {}
    BY <1>18, Apart DEF Free
  <2>2. TerrOK(t)'
    <3>1. t \in spoiled' /\ \A k \in Jobs : job'[k].terr # t
      BY <1>9, <1>12, <1>17, <1>18, <2>1
    <3> QED BY <1>3, <1>8, <1>10, <3>1, TerrAtRest DEF DrainOK, TerrOK
  <2>3. Owned(ClientsOf(t))'
    BY <1>16, <2>1 DEF Owned
  <2> QED BY <1>2, <1>3, <1>9, <1>13, <1>14, <1>15, <2>1, <2>2, <2>3, TerrStep
<1>19. CASE ~raises
  <2>1. next = rest
    BY <1>19
  <2> HIDE DEF next
  <2>2. DrainOK(t, job[j])'
    BY <1>3, <1>6, <1>8, <1>9, <1>10, <1>15, <2>1 DEF DrainOK
  <2>3. JobOnOK(t, job[j])'
    BY <1>3, <1>6, <1>8, <1>9, <1>16, <2>1, <2>2 DEF JobOnOK
  <2>4. TerrOK(t)'
    BY <1>3, <1>6, <1>8, <1>9, <1>10, <1>17, <2>1, <2>3, TerrAtWork DEF TerrOK
  <2>5. Owned(ClientsOf(t))'
    BY <1>9, <1>16 DEF Owned
  <2> QED BY <1>2, <1>3, <1>6, <1>9, <1>13, <1>14, <1>15, <2>1, <2>4, <2>5, TerrStep
<1> QED BY <1>18, <1>19

LEMMA ClosedKeeps ==
  ASSUME RegistryInv, NEW j \in Jobs, Closed(j)
  PROVE  RegistryInv'
<1>1. job[j].at = "drain" /\ job[j].held = {} /\ TypeOK /\ NamesOK
  BY DEF Closed, RegistryInv
<1>2. PICK t \in Terrs : t = job[j].terr
  BY <1>1, FreeOnes
<1>3. JobOnOK(t, job[j]) /\ open /\ TerrOK(t) /\ DrainOK(t, job[j])
  BY <1>1, <1>2, FreeOnes DEF JobOnOK, RegistryInv, Bringing
<1> DEFINE reg == Put(registry[Here], job[j].names, Nobody)
           new == Forgotten(Terr(t))
<1>4. /\ Tools(reg) /\ Set(t, new) /\ Go(j, Free)
      /\ dirTerrs' = [dirTerrs EXCEPT ![Here] = @ \ {t}] /\ off' = off \ {t}
      /\ UNCHANGED <<link, owned, left, open, spoiled>>
  BY <1>2 DEF Closed, NotFromDir
<1>5. /\ RegOK(t, reg) /\ \A n \in Names : reg[n] = IF n \in job[j].names THEN Nobody ELSE Tool(n)
  <2>1. Nobody # t /\ Nobody \notin ClientsOf(t) /\ job[j].names \in SUBSET NamesOf(t)
    BY <1>3, Apart DEF JobOnOK
  <2> QED BY <2>1, PutOfTerr
<1>6. /\ new \in DomainRecord /\ ~new.there /\ new.callables = {}
      /\ new.clients = Terr(t).clients
  BY <1>1, TypeParts DEF Forgotten, NoDomain, DomainRecord
<1> HIDE DEF reg, new
<1>7. /\ registry' \in [Instances -> Registered]
      /\ \A n \in Names : Tool(n)' = reg[n]
  BY <1>1, <1>4, <1>5, ToolsStep DEF RegOK
<1>8. /\ domain' \in [Instances -> [Terrs -> DomainRecord]] /\ Terr(t)' = new
      /\ \A u \in Terrs : u # t => Terr(u)' = Terr(u)
  BY <1>1, <1>4, <1>6, SetStep
<1>9. /\ job' \in [Jobs -> JobRecord] /\ job'[j] = Free
      /\ \A k \in Jobs : k # j => job'[k] = job[k]
  BY <1>1, <1>4, GoStep, FreeIsAJob
<1>10. TypeOK'
  <2>1. off' \subseteq Terrs
    BY <1>1, <1>4 DEF TypeOK
  <2>2. dirTerrs' \in [Instances -> SUBSET Terrs]
    BY <1>1, <1>4 DEF TypeOK, PluginsTypeOK
  <2> QED BY <1>1, <1>4, <1>7, <1>8, <1>9, <2>1, <2>2
          DEF TypeOK, PluginsTypeOK, DomainRecord, JobRecord, Registered
<1>11. OnlyTerr(j, t)
  BY <1>4, <1>5, <1>7, <1>8, <1>9 DEF OnlyTerr, RegOK, Held
<1>12. NamesOK'
  BY <1>5, <1>7 DEF RegOK, NamesOK
<1>13. \A n \in Names : ~OfTerr(t, n)'
  BY <1>3, <1>5, <1>7, Apart DEF DrainOK, OfTerr, Source
<1>14. \A c \in ClientsOf(t) : Held(c)' => c \in spoiled'
  BY <1>1, <1>3, <1>4 DEF JobOnOK, Held
<1>15. TerrOK(t)'
  <2>1. \A k \in Jobs : job'[k].terr # t
    BY <1>2, <1>9, Alone, Apart DEF Free
  <2>2. QuietOK(t)'
    BY <1>6, <1>8, <1>13, <1>14 DEF QuietOK
  <2>3. new.clients \subseteq ClientsOf(t)
    BY <1>3, <1>6 DEF TerrOK
  <2> QED BY <1>4, <1>6, <1>8, <2>1, <2>2, <2>3, TerrAtRest
<1>16. Owned(ClientsOf(t))'
  BY <1>14 DEF Owned
<1> QED BY <1>2, <1>3, <1>9, <1>10, <1>11, <1>12, <1>15, <1>16, TerrStep

-----------------------------------------------------------------------------
(* add_mcp: a client that is no Terr's. *)
LEMMA LoneStep ==
  ASSUME RegistryInv, NEW j \in Jobs, job[j] = Free \/ LoneOK(job[j]), open,
         \A k \in Jobs : k # j => job'[k] = job[k],
         job[j].terr = Nobody, job'[j].terr = Nobody,
         job'[j] = Free \/ LoneOK(job[j])',
         TypeOK', NamesOK',
         UNCHANGED <<domain, off, open, spoiled>>,
         owned[Here] \subseteq owned'[Here],
         \A c \in Clients : (Held(c)' <=> Held(c)) \/ c \in owned'[Here],
         \A u \in Terrs : /\ \A n \in Sole(u) : Tool(n)' = Tool(n)
                          /\ \A n \in Names : Tool(n)' = Tool(n) \/ Tool(n)' \notin {u} \cup ClientsOf(u)
                          /\ \A c \in ClientsOf(u) :
                               (Held(c)' <=> Held(c)) /\ (c \in owned'[Here] => c \in owned[Here])
  PROVE  RegistryInv'
<1>1. \A u \in Terrs : Same(u)
  BY Apart DEF Same, Terr
<1>2. \A u \in Terrs : TerrOK(u)'
  BY <1>1, SameKeeps
<1>3. JobsOK'
  <2>1. \A i, k \in Jobs : job'[i].terr = job'[k].terr => i = k \/ job'[i].terr = Nobody
    BY DEF RegistryInv, JobsOK
  <2>2. ASSUME NEW k \in Jobs, k # j, job[k].terr = Nobody
        PROVE  job'[k] = Free \/ LoneOK(job[k])'
    <3>1. job[k] = Free \/ LoneOK(job[k])
      BY <2>2 DEF RegistryInv, JobsOK, ClosingOK
    <3> QED BY <2>2, <3>1 DEF LoneOK
  <2> QED BY <2>1, <2>2 DEF JobsOK
<1>4. ClientsAreOwned'
  <2> SUFFICES ASSUME NEW c \in Clients, Held(c)', c \notin owned'[Here], c \notin spoiled
               PROVE  \E k \in Jobs : c \in job'[k].held
    BY DEF ClientsAreOwned
  <2>1. Held(c) /\ c \notin owned[Here]
    OBVIOUS
  <2>2. PICK k \in Jobs : c \in job[k].held
    BY <2>1 DEF RegistryInv, ClientsAreOwned
  <2>3. k # j
    BY <2>1, <2>2 DEF LoneOK, Free
  <2> QED BY <2>2, <2>3
<1> QED BY <1>2, <1>3, <1>4 DEF RegistryInv

LEMMA AddMcpKeeps ==
  ASSUME RegistryInv, NEW j \in Jobs, NEW c \in Clients, AddMcp(j, c)
  PROVE  RegistryInv'
<1> DEFINE next == [Free EXCEPT !.kind = "mcp", !.at = "connect", !.todo = <<c>>]
<1>1. TypeOK /\ NamesOK /\ job[j] = Free /\ open /\ "mcp" \in Kinds /\ Source(c) = {}
      /\ left' \in 0..MaxJobs
  <2>1. left \in 0..MaxJobs /\ MaxJobs \in Nat
    BY RegistryAssumption DEF RegistryInv, TypeOK
  <2> QED BY <2>1, FreeOnes DEF AddMcp, Begin, RegistryInv
<1>2. /\ next \in JobRecord /\ next.kind = "mcp" /\ next.at = "connect" /\ next.todo = <<c>>
      /\ next.held = {} /\ next.terr = Nobody
  <2>1. <<c>> \in Seq(Clients)
    OBVIOUS
  <2> QED BY <1>1, <2>1 DEF Free, JobRecord
<1>3. Go(j, next) /\ UNCHANGED <<pluginVars, off, open, spoiled>>
  BY DEF AddMcp
<1> HIDE DEF next
<1>4. /\ job' \in [Jobs -> JobRecord] /\ job'[j] = next
      /\ \A k \in Jobs : k # j => job'[k] = job[k]
  BY <1>1, <1>2, <1>3, GoStep
<1>5. TypeOK' /\ NamesOK'
  BY <1>1, <1>3, <1>4 DEF TypeOK, PluginsTypeOK, pluginVars, JobRecord, NamesOK, Tool
<1>6. LoneOK(job[j])'
  BY <1>1, <1>2, <1>4 DEF LoneOK, Bringing
<1>7. job[j].terr = Nobody
  BY <1>1 DEF Free
<1>8. /\ UNCHANGED <<domain, off, open, spoiled>> /\ link' = link /\ owned' = owned
      /\ \A n \in Names : Tool(n)' = Tool(n)
  BY <1>3 DEF pluginVars, Tool
<1>9. \A d \in Clients : Held(d)' <=> Held(d)
  BY <1>8 DEF Held
<1>10. \A u \in Terrs : Sole(u) \subseteq Names
  BY Apart DEF Sole
<1> QED BY <1>1, <1>2, <1>4, <1>5, <1>6, <1>7, <1>8, <1>9, <1>10, Apart, LoneStep

(* What a lone task has in hand. *)
LEMMA LoneOnes ==
  ASSUME RegistryInv, NEW j \in Jobs, job[j].at \in Bringing, job[j].terr = Nobody
  PROVE  /\ job[j] \in JobRecord /\ job[j].kind = "mcp" /\ open /\ LoneOK(job[j])
         /\ \E c \in Clients : /\ Source(c) = {} /\ job[j].todo = <<c>>
                               /\ Head(job[j].todo) = c /\ job[j].held \subseteq {c}
                               /\ \A u \in Terrs : c \notin ClientsOf(u)
<1>1. job[j] \in JobRecord /\ LoneOK(job[j]) /\ open
  BY TypeParts, FreeOnes, Apart DEF RegistryInv
<1>2. PICK c \in Clients : Source(c) = {} /\ job[j].todo = <<c>> /\ job[j].held \subseteq {c}
  BY <1>1 DEF LoneOK
<1>3. Head(<<c>>) = c
  OBVIOUS
<1> QED BY <1>1, <1>2, <1>3 DEF LoneOK, Source

LEMMA LoneKeeps ==
  ASSUME RegistryInv, NEW j \in Jobs, job[j].terr = Nobody,
         Connected(j) \/ Listed(j) \/ Fails(j)
  PROVE  RegistryInv'
<1>1. job[j].at \in Bringing /\ TypeOK /\ NamesOK
  BY DEF Connected, Listed, Fails, Bringing, RegistryInv
<1>2. job[j] \in JobRecord /\ job[j].kind = "mcp" /\ open /\ LoneOK(job[j])
  BY <1>1, LoneOnes
<1>3. PICK c \in Clients : /\ Source(c) = {} /\ job[j].todo = <<c>>
                           /\ Head(job[j].todo) = c /\ job[j].held \subseteq {c}
                           /\ \A u \in Terrs : c \notin ClientsOf(u)
  BY <1>1, LoneOnes
<1>4. Free.terr = Nobody
  BY DEF Free
<1>5. CASE Connected(j)
  <2> DEFINE next == [job[j] EXCEPT !.at = "list", !.held = @ \cup {c}]
  <2>1. /\ next \in JobRecord /\ next.kind = "mcp" /\ next.at = "list" /\ next.todo = <<c>>
        /\ next.held = {c} /\ next.terr = Nobody
    BY <1>2, <1>3 DEF JobRecord
  <2>2. /\ link' = [link EXCEPT ![c] = "up"] /\ Go(j, next)
        /\ owned' = [owned EXCEPT ![Here] = @ \cup {c}]
        /\ UNCHANGED <<registry, domain, dirTerrs, left, off, open, spoiled>>
    BY <1>2, <1>3, <1>5 DEF Connected, Up
  <2> HIDE DEF next
  <2>3. /\ job' \in [Jobs -> JobRecord] /\ job'[j] = next
        /\ \A k \in Jobs : k # j => job'[k] = job[k]
    BY <1>1, <2>1, <2>2, GoStep
  <2>4. /\ link' \in [Clients -> Links] /\ owned' \in [Instances -> SUBSET Clients]
        /\ \A d \in Clients : d # c => link'[d] = link[d]
        /\ owned'[Here] = owned[Here] \cup {c}
    BY <1>1, <2>2, Apart DEF TypeOK, PluginsTypeOK, Links
  <2>5. TypeOK' /\ NamesOK' /\ \A n \in Names : Tool(n)' = Tool(n)
    BY <1>1, <2>2, <2>3, <2>4 DEF TypeOK, PluginsTypeOK, JobRecord, NamesOK, Tool
  <2>6. LoneOK(job[j])'
    BY <1>3, <2>1, <2>3, <2>4 DEF LoneOK, Bringing
  <2>7. /\ \A d \in Clients : d # c => (Held(d)' <=> Held(d))
        /\ \A u \in Terrs : Sole(u) \subseteq Names
    BY <2>4, Apart DEF Held, Sole
  <2> QED BY <1>2, <1>3, <2>1, <2>2, <2>3, <2>4, <2>5, <2>6, <2>7, Apart, LoneStep
<1>6. CASE Listed(j)
  <2> DEFINE reg == Put(registry[Here], Serves[c], c)
  <2>1. /\ Tools(reg) /\ Go(j, Free)
        /\ UNCHANGED <<domain, link, owned, dirTerrs, left, off, open, spoiled>>
    BY <1>2, <1>3, <1>6 DEF Listed
  <2>2. reg \in Registered /\ \A n \in Names : reg[n] = IF n \in Serves[c] THEN c ELSE Tool(n)
    BY <1>1, TypeParts, PutIsRegistered DEF Tool
  <2> HIDE DEF reg
  <2>3. /\ job' \in [Jobs -> JobRecord] /\ job'[j] = Free
        /\ \A k \in Jobs : k # j => job'[k] = job[k]
    BY <1>1, <2>1, GoStep, FreeIsAJob
  <2>4. /\ registry' \in [Instances -> Registered]
        /\ \A n \in Names : Tool(n)' = reg[n]
    BY <1>1, <2>1, <2>2, ToolsStep
  <2>5. TypeOK'
    BY <1>1, <2>1, <2>3, <2>4 DEF TypeOK, PluginsTypeOK, JobRecord, Registered
  <2>6. NamesOK'
    BY <1>1, <2>2, <2>4, Apart DEF NamesOK
  <2>7. ASSUME NEW u \in Terrs
        PROVE  /\ \A n \in Sole(u) : Tool(n)' = Tool(n)
               /\ \A n \in Names : Tool(n)' = Tool(n) \/ Tool(n)' \notin {u} \cup ClientsOf(u)
    <3>1. \A n \in Sole(u) : n \in Names /\ n \notin Serves[c]
      BY <1>3, Apart DEF Sole, Shared
    <3> QED BY <1>3, <2>2, <2>4, <3>1, Apart
  <2>8. \A d \in Clients : Held(d)' <=> Held(d)
    BY <2>1 DEF Held
  <2> QED BY <1>2, <1>4, <2>1, <2>3, <2>5, <2>6, <2>7, <2>8, Apart, LoneStep
<1>7. CASE Fails(j)
  <2>1. /\ Go(j, Free) /\ registry' = registry /\ off' = off
        /\ UNCHANGED <<link, owned, domain, dirTerrs, left, open, spoiled>>
    BY <1>2, <1>7 DEF Fails, GoneOff
  <2>2. /\ job' \in [Jobs -> JobRecord] /\ job'[j] = Free
        /\ \A k \in Jobs : k # j => job'[k] = job[k]
    BY <1>1, <2>1, GoStep, FreeIsAJob
  <2>3. TypeOK' /\ NamesOK' /\ \A n \in Names : Tool(n)' = Tool(n)
    BY <1>1, <2>1, <2>2 DEF TypeOK, PluginsTypeOK, JobRecord, NamesOK, Tool
  <2>4. /\ \A d \in Clients : Held(d)' <=> Held(d)
        /\ \A u \in Terrs : Sole(u) \subseteq Names
    BY <2>1, Apart DEF Held, Sole
  <2> QED BY <1>2, <1>4, <2>1, <2>2, <2>3, <2>4, Apart, LoneStep
<1> QED BY <1>5, <1>6, <1>7

-----------------------------------------------------------------------------
(* The switches and the plugin directory. *)
LEMMA SwitchKeeps ==
  ASSUME RegistryInv, NEW t \in Terrs, NEW on \in BOOLEAN, Switch(t, on)
  PROVE  RegistryInv'
<1> DEFINE new == [Terr(t) EXCEPT !.enabled = on]
<1>1. TypeOK /\ NamesOK /\ TerrOK(t) /\ Terr(t) \in DomainRecord /\ Terr(t).there
  BY TypeParts DEF RegistryInv, Switch
<1>2. /\ new \in DomainRecord /\ new.there /\ new.enabled = on
      /\ new.callables = Terr(t).callables /\ new.clients = Terr(t).clients
  BY <1>1 DEF DomainRecord
<1>3. /\ Set(t, new) /\ off' = IF on THEN off \ {t} ELSE off \cup {t}
      /\ UNCHANGED <<link, owned, registry, dirTerrs, job, left, open, spoiled>>
  BY DEF Switch
<1> HIDE DEF new
<1>4. /\ domain' \in [Instances -> [Terrs -> DomainRecord]] /\ Terr(t)' = new
      /\ \A u \in Terrs : u # t => Terr(u)' = Terr(u)
  BY <1>1, <1>2, <1>3, SetStep
<1>5. TypeOK' /\ NamesOK'
  BY <1>1, <1>3, <1>4 DEF TypeOK, PluginsTypeOK, DomainRecord, NamesOK, Tool
<1>6. \A u \in Terrs : u # t => TerrOK(u)'
  <2>1. \A u \in Terrs : u # t => Same(u)
    BY <1>3, <1>4 DEF Same, Tool, Held
  <2> QED BY <1>5, <2>1, SameKeeps
<1>7. TerrOK(t)'
  <2>1. t \in off' => ~new.enabled
    BY <1>2, <1>3
  <2>2. \A n \in Names : OfTerr(t, n)' <=> OfTerr(t, n)
    BY <1>3 DEF OfTerr, Source, Tool
  <2>3. (Working(t)' <=> Working(t)) /\ (t \in spoiled' <=> t \in spoiled)
    BY <1>3 DEF Working
  <2>4. Terr(t).callables \subseteq Names
    BY <1>1, Apart DEF TerrOK
  <2>5. QuietOK(t) => QuietOK(t)'
    BY <1>2, <1>3, <1>4, <2>2, <2>4 DEF QuietOK, Held, Tool
  <2>6. ASSUME NEW k \in Jobs, job'[k].terr = t PROVE JobOnOK(t, job[k])'
    <3>1. job'[k] = job[k] /\ JobOnOK(t, job[k])
      BY <1>1, <1>3, <2>6 DEF TerrOK
    <3>2. AsBefore(t) => AsBefore(t)'
      BY <1>1, <1>2, <1>3, <1>4, <2>4 DEF AsBefore, Tool
    <3>3. BringingOK(t, job[k]) => BringingOK(t, job[k])'
      BY <1>1, <1>2, <1>3, <1>4, <2>2, <3>1, <3>2 DEF BringingOK, Held, Tool
    <3>4. RollbackOK(t, job[k]) => RollbackOK(t, job[k])'
      <4>1. \A n \in Names : Tool(n)' = Tool(n)
        BY <1>3 DEF Tool
      <4>2. HeldAreOwned(job[k]) => HeldAreOwned(job[k])'
        BY <1>3, <3>1 DEF HeldAreOwned, Held
      <4> QED BY <1>1, <1>2, <1>3, <1>4, <2>2, <3>1, <3>2, <4>1, <4>2 DEF RollbackOK
    <3>5. ~TeardownOK(t, job[k])
      BY <1>1 DEF TeardownOK, NoDomain
    <3>6. OpenOK(t, job[k]) => OpenOK(t, job[k])'
      BY <1>2, <1>3, <1>4, <3>1 DEF OpenOK
    <3>7. DrainOK(t, job[k]) => DrainOK(t, job[k])'
      BY <1>2, <1>3, <1>4, <2>2, <3>1 DEF DrainOK
    <3> QED BY <1>3, <3>1, <3>3, <3>4, <3>5, <3>6, <3>7 DEF JobOnOK, Held
  <2> QED BY <1>1, <1>2, <1>4, <2>1, <2>3, <2>5, <2>6 DEF TerrOK
<1>8. JobsOK'
  BY <1>3 DEF RegistryInv, JobsOK, LoneOK, ClosingOK, Held
<1>9. ClientsAreOwned'
  BY <1>3 DEF RegistryInv, ClientsAreOwned, Held
<1> QED BY <1>5, <1>6, <1>7, <1>8, <1>9 DEF RegistryInv

LEMMA ReloadDirectoryKeeps ==
  ASSUME RegistryInv, NEW new \in SUBSET Terrs, ReloadDirectory(new)
  PROVE  RegistryInv'
<1> DEFINE old == dirTerrs[Here]
           gone == UNION {Terr(t).callables : t \in old}
           rec(t) == LET d == IF t \in old THEN Forgotten(Terr(t)) ELSE Terr(t) IN
                     IF t \in new THEN Record(d, Own[t]) ELSE d
<1>1. TypeOK /\ NamesOK /\ open /\ left' \in 0..MaxJobs /\ old \subseteq Terrs
  <2>1. left \in 0..MaxJobs /\ MaxJobs \in Nat
    BY RegistryAssumption DEF RegistryInv, TypeOK
  <2> QED BY <2>1, TypeParts DEF ReloadDirectory, RegistryInv
<1>0. PICK last \in [Names -> Terrs \cup {Nobody}] :
        /\ \A n \in Names : IF \E t \in new : n \in Own[t]
                            THEN last[n] \in new /\ n \in Own[last[n]]
                            ELSE last[n] = Nobody
        /\ Tools([n \in Names |-> IF last[n] # Nobody THEN last[n]
                                  ELSE IF n \in gone THEN Nobody ELSE Tool(n)])
  BY DEF ReloadDirectory
<1> DEFINE tools == [n \in Names |-> IF last[n] # Nobody THEN last[n]
                                     ELSE IF n \in gone THEN Nobody ELSE Tool(n)]
<1>2. /\ \A t \in new \cup old : ~Working(t) /\ t \notin spoiled
      /\ \A t \in new \ old : ~Terr(t).there
      /\ Tools(tools)
      /\ domain' = [domain EXCEPT ![Here] = [t \in Terrs |-> rec(t)]]
      /\ dirTerrs' = [dirTerrs EXCEPT ![Here] = new]
      /\ off' = off \ old
      /\ UNCHANGED <<link, owned, job, open, spoiled>>
  BY <1>0 DEF ReloadDirectory
<1>3. \A t \in Terrs :
        /\ TerrOK(t) /\ Terr(t) \in DomainRecord
        /\ Terr(t).callables \subseteq NamesOf(t) /\ Terr(t).clients \subseteq ClientsOf(t)
        /\ Own[t] \subseteq NamesOf(t) /\ NamesOf(t) \subseteq Names
  BY <1>1, TypeParts, Apart DEF RegistryInv, TerrOK, NamesOf
<1>4. \A t \in Terrs : t \notin new \cup old => rec(t) = Terr(t)
  OBVIOUS
<1>5. \A t \in old : t \notin new =>
        rec(t) \in DomainRecord /\ ~rec(t).there /\ rec(t).callables = {}
        /\ rec(t).clients = Terr(t).clients
  BY <1>1, <1>3 DEF Forgotten, NoDomain, DomainRecord
<1>6. \A t \in new :
        rec(t) \in DomainRecord /\ rec(t).there /\ rec(t).callables = Own[t]
        /\ rec(t).clients = Terr(t).clients
  <2> SUFFICES ASSUME NEW t \in new
               PROVE  rec(t) \in DomainRecord /\ rec(t).there /\ rec(t).callables = Own[t]
                      /\ rec(t).clients = Terr(t).clients
    OBVIOUS
  <2> DEFINE d == IF t \in old THEN Forgotten(Terr(t)) ELSE Terr(t)
  <2>1. d \in DomainRecord /\ d.clients = Terr(t).clients
    <3>1. /\ Forgotten(Terr(t)) \in DomainRecord
          /\ Forgotten(Terr(t)).clients = Terr(t).clients
      BY <1>1, <1>3 DEF Forgotten, NoDomain, DomainRecord
    <3> QED BY <1>3, <3>1
  <2>2. rec(t) = Record(d, Own[t])
    OBVIOUS
  <2>3. Own[t] \subseteq Names
    BY Apart
  <2> HIDE DEF rec, d
  <2> QED BY <2>1, <2>2, <2>3 DEF Record, DomainRecord
<1>7. \A t \in Terrs : rec(t) \in DomainRecord
  BY <1>3, <1>4, <1>5, <1>6
<1> HIDE DEF rec
<1>8. /\ domain' \in [Instances -> [Terrs -> DomainRecord]]
      /\ \A t \in Terrs : Terr(t)' = rec(t)
  <2>1. [t \in Terrs |-> rec(t)] \in [Terrs -> DomainRecord]
    BY <1>7
  <2>2. domain \in [Instances -> [Terrs -> DomainRecord]]
    BY <1>1 DEF TypeOK, PluginsTypeOK, DomainRecord
  <2> QED BY <1>2, <2>1, <2>2, Apart DEF Terr
<1>9. \A t \in new : \A n \in Own[t] :
        n \in Names /\ tools[n] \in new /\ n \in Own[tools[n]]
  BY <1>0, <1>3, Apart
<1>10. \A n \in Names : (\A t \in new : n \notin Own[t]) =>
         tools[n] = IF n \in gone THEN Nobody ELSE Tool(n)
  BY <1>0
<1>11. tools \in Registered
  <2>1. \A n \in Names : tools[n] \in Clients \cup Terrs \cup {Nobody}
    <3>1. \A n \in Names : Tool(n) \in Clients \cup Terrs \cup {Nobody}
      BY <1>1, TypeParts DEF Registered, Tool
    <3> QED BY <1>9, <1>10, <3>1
  <2> QED BY <2>1 DEF Registered
<1> HIDE DEF tools
<1>12. /\ registry' \in [Instances -> Registered]
       /\ \A n \in Names : Tool(n)' = tools[n]
  BY <1>1, <1>2, <1>11, ToolsStep
<1>13. TypeOK'
  <2>1. dirTerrs' \in [Instances -> SUBSET Terrs] /\ off' \subseteq Terrs
    BY <1>1, <1>2 DEF TypeOK, PluginsTypeOK
  <2> QED BY <1>1, <1>2, <1>8, <1>12, <2>1 DEF TypeOK, PluginsTypeOK, DomainRecord, Registered
<1>14. NamesOK'
  <2> SUFFICES ASSUME NEW n \in Names
               PROVE  /\ Tool(n)' \in Terrs => n \in Own[Tool(n)']
                      /\ Tool(n)' \in Clients => n \in Serves[Tool(n)']
    BY DEF NamesOK
  <2>1. CASE \E t \in new : n \in Own[t]
    BY <1>9, <1>12, <2>1, Apart
  <2>2. CASE \A t \in new : n \notin Own[t]
    BY <1>1, <1>10, <1>12, <2>2, Apart DEF NamesOK
  <2> QED BY <2>1, <2>2
<1>15. \A t \in Terrs : t \notin new \cup old => Same(t)
  <2> SUFFICES ASSUME NEW t \in Terrs, t \notin new \cup old PROVE Same(t)
    OBVIOUS
  <2>1. \A n \in Sole(t) : n \in Names /\ n \notin gone /\ \A u \in new : n \notin Own[u]
    <3>1. Sole(t) \subseteq Names
      BY <1>3 DEF Sole
    <3> QED BY <1>1, <1>3, <3>1, Apart
  <2>2. \A n \in Sole(t) : Tool(n)' = Tool(n)
    BY <1>10, <1>12, <2>1
  <2>3. \A n \in Names : Tool(n)' = Tool(n) \/ Tool(n)' \notin {t} \cup ClientsOf(t)
    <3>1. \A n \in Names : tools[n] \in new \cup {Nobody, Tool(n)}
      BY <1>9, <1>10
    <3>2. \A u \in new \cup {Nobody} : u \notin {t} \cup ClientsOf(t)
      BY Apart
    <3> QED BY <1>12, <3>1, <3>2
  <2> QED BY <1>2, <1>4, <1>8, <2>2, <2>3 DEF Same, Held
<1>16. \A t \in new \cup old : TerrOK(t)'
  <2> SUFFICES ASSUME NEW t \in new \cup old PROVE TerrOK(t)'
    OBVIOUS
  <2>1. /\ t \in Terrs /\ ~Working(t) /\ t \notin spoiled /\ QuietOK(t)
        /\ Terr(t)' = rec(t)
    BY <1>1, <1>2, <1>3, <1>8 DEF TerrOK
  <2>2. \A k \in Jobs : job'[k].terr # t
    BY <1>2, <2>1 DEF Working
  <2>3. t \notin off'
    BY <1>2, <1>3, <2>1 DEF TerrOK
  <2>4. \A n \in Names : OfTerr(t, n)' => t \in new /\ n \in Own[t]
    <3> SUFFICES ASSUME NEW n \in Names, OfTerr(t, n)' PROVE t \in new /\ n \in Own[t]
      OBVIOUS
    <3>1. n \in NamesOf(t) /\ Tool(n)' \in {t} \cup ClientsOf(t)
      BY <1>14, <2>1, Apart DEF NamesOK, OfTerr, Source, NamesOf
    <3>2. CASE \E u \in new : n \in Own[u]
      <4>1. Tool(n)' \in new /\ n \in Own[Tool(n)']
        BY <1>9, <1>12, <3>2
      <4> QED BY <2>1, <3>1, <4>1, Apart
    <3>3. CASE \A u \in new : n \notin Own[u]
      <4>1. n \notin gone /\ Tool(n) \in {t} \cup ClientsOf(t)
        BY <1>10, <1>12, <2>1, <3>1, <3>3, Apart
      <4>2. n \in Terr(t).callables
        BY <2>1, <4>1, SourceIsTerr DEF QuietOK
      <4>3. t \in new /\ t \notin old
        BY <4>1, <4>2
      <4> QED BY <1>2, <2>1, <4>2, <4>3 DEF QuietOK
    <3> QED BY <3>2, <3>3
  <2>5. t \in new => \A n \in Own[t] : (OfTerr(t, n)' \/ Shared(n)) /\ Tool(n)' \notin ClientsOf(t)
    <3> SUFFICES ASSUME t \in new, NEW n \in Own[t]
                 PROVE  (OfTerr(t, n)' \/ Shared(n)) /\ Tool(n)' \notin ClientsOf(t)
      OBVIOUS
    <3>1. Tool(n)' \in new /\ n \in Own[Tool(n)']
      BY <1>9, <1>12
    <3>2. PICK u \in new : u = Tool(n)'
      BY <3>1
    <3>3. u = t \/ Shared(n)
      BY <2>1, <3>1, <3>2 DEF Shared, NamesOf
    <3> QED BY <2>1, <3>2, <3>3, Apart DEF OfTerr, Source
  <2>6. QuietOK(t)'
    <3>1. \A c \in ClientsOf(t) : Held(c)' => c \in rec(t).clients \cup spoiled'
      BY <1>2, <1>5, <1>6, <2>1 DEF QuietOK, Held
    <3> QED BY <1>5, <1>6, <2>1, <2>4, <2>5, <3>1 DEF QuietOK
  <2>7. rec(t).clients \subseteq ClientsOf(t) /\ rec(t).callables \subseteq NamesOf(t)
    BY <1>3, <1>5, <1>6, <2>1
  <2> QED BY <2>1, <2>2, <2>3, <2>6, <2>7, TerrAtRest
<1>17. \A t \in Terrs : TerrOK(t)'
  BY <1>14, <1>15, <1>16, SameKeeps
<1>18. JobsOK'
  BY <1>2 DEF RegistryInv, JobsOK, LoneOK, ClosingOK, Held
<1>19. ClientsAreOwned'
  BY <1>2 DEF RegistryInv, ClientsAreOwned, Held
<1> QED BY <1>13, <1>14, <1>17, <1>18, <1>19 DEF RegistryInv

-----------------------------------------------------------------------------
(* close(). *)
LEMMA CloseKeeps ==
  ASSUME RegistryInv, NEW j \in Jobs, Close(j) \/ CloseOne(j)
  PROVE  RegistryInv'
<1>1. TypeOK /\ NamesOK
  BY DEF RegistryInv
<1>2. CASE Close(j)
  <2> DEFINE next == [Free EXCEPT !.kind = "close", !.at = "closing", !.held = owned[Here]]
  <2>1. open /\ "close" \in Kinds /\ \A k \in Jobs : job[k] = Free
    BY <1>2, FreeOnes DEF Close
  <2>2. /\ next \in JobRecord /\ next.kind = "close" /\ next.at = "closing" /\ next.terr = Nobody
        /\ next.held = owned[Here] /\ next.todo = <<>>
    BY <1>1, <2>1, TypeParts DEF Free, JobRecord
  <2>3. Go(j, next) /\ ~open' /\ open' \in BOOLEAN /\ UNCHANGED <<pluginVars, left, off, spoiled>>
    BY <1>2 DEF Close
  <2> HIDE DEF next
  <2>4. /\ job' \in [Jobs -> JobRecord] /\ job'[j] = next
        /\ \A k \in Jobs : k # j => job'[k] = Free
    BY <1>1, <2>1, <2>2, <2>3, GoStep
  <2>5. TypeOK' /\ NamesOK'
    BY <1>1, <2>3, <2>4 DEF TypeOK, PluginsTypeOK, pluginVars, JobRecord, NamesOK, Tool
  <2>6. \A c \in Clients : Held(c)' => c \in owned[Here] \cup spoiled
    BY <2>1, <2>3 DEF RegistryInv, ClientsAreOwned, Held, pluginVars, Free
  <2>7. JobsOK'
    <3>1. ClosingOK(j)'
      BY <2>2, <2>3, <2>4, <2>6 DEF ClosingOK
    <3> QED BY <2>2, <2>4, <3>1 DEF JobsOK, Free
  <2>8. ASSUME NEW t \in Terrs PROVE TerrOK(t)'
    <3>1. \A k \in Jobs : job[k].terr # t /\ job'[k].terr # t
      BY <2>1, <2>2, <2>4, Apart DEF Free
    <3>2. TerrOK(t) /\ ~Working(t) /\ ~Working(t)'
      BY <3>1 DEF RegistryInv, Working
    <3>3. /\ Terr(t)' = Terr(t) /\ \A n \in Names : OfTerr(t, n)' <=> OfTerr(t, n)
      BY <2>3 DEF Terr, OfTerr, Source, Tool, pluginVars
    <3>4. QuietOK(t) => QuietOK(t)'
      BY <2>3, <3>3 DEF QuietOK, Held, pluginVars
    <3> QED BY <2>3, <3>1, <3>2, <3>3, <3>4 DEF TerrOK
  <2>9. ClientsAreOwned'
    BY <2>3, <2>6 DEF ClientsAreOwned, Held, pluginVars
  <2> QED BY <2>5, <2>7, <2>8, <2>9 DEF RegistryInv
<1>3. CASE CloseOne(j)
  <2>1. job[j].at = "closing" /\ job[j] \in JobRecord /\ ClosingOK(j) /\ job[j].terr = Nobody
    BY <1>1, <1>3, TypeParts, FreeOnes DEF CloseOne
  <2>2. ~open /\ \A k \in Jobs : k # j => job[k] = Free
    BY <2>1 DEF ClosingOK
  <2>3. UNCHANGED <<registry, domain, dirTerrs, left, off, open>>
    BY <1>3 DEF CloseOne
  <2>4. /\ link' \in [Clients -> Links] /\ owned' \in [Instances -> SUBSET Clients]
        /\ spoiled' \subseteq Terrs \cup Clients
        /\ \A t \in Terrs : t \in spoiled' <=> t \in spoiled
        /\ \A c \in Clients : Held(c)' => Held(c)
        /\ \A c \in Clients : c \in spoiled => c \in spoiled'
        /\ job' \in [Jobs -> JobRecord] /\ \A k \in Jobs : k # j => job'[k] = Free
        /\ job'[j].terr = Nobody /\ (job'[j] = Free \/ ClosingOK(j)')
        /\ \A c \in Clients : Held(c)' =>
             c \in spoiled' \/ (job'[j] # Free /\ c \in job'[j].held)
    <3>1. CASE job[j].held = {}
      <4>1. owned' = [owned EXCEPT ![Here] = {}] /\ Go(j, Free) /\ UNCHANGED <<link, spoiled>>
        BY <1>3, <3>1 DEF CloseOne
      <4>2. /\ job' \in [Jobs -> JobRecord] /\ job'[j] = Free
            /\ \A k \in Jobs : k # j => job'[k] = job[k]
        BY <1>1, <4>1, GoStep, FreeIsAJob
      <4>3. owned' \in [Instances -> SUBSET Clients]
        BY <1>1, <4>1 DEF TypeOK, PluginsTypeOK
      <4> QED BY <1>1, <2>1, <2>2, <3>1, <4>1, <4>2, <4>3
              DEF TypeOK, PluginsTypeOK, Held, ClosingOK, Free
    <3>2. CASE job[j].held # {}
      <4>1. PICK c \in job[j].held, raises \in BOOLEAN :
              /\ Disconnected(c, raises)
              /\ Go(j, [job[j] EXCEPT !.held = @ \ {c}])
              /\ UNCHANGED owned
        BY <1>3, <3>2 DEF CloseOne
      <4> DEFINE next == [job[j] EXCEPT !.held = @ \ {c}]
      <4>2. /\ next \in JobRecord /\ next.kind = job[j].kind /\ next.at = job[j].at
            /\ next.terr = job[j].terr /\ next.held = job[j].held \ {c}
        BY <2>1 DEF JobRecord
      <4>3. Go(j, next) /\ c \in Clients
        BY <2>1, <4>1 DEF JobRecord
      <4> HIDE DEF next
      <4>4. /\ job' \in [Jobs -> JobRecord] /\ job'[j] = next
            /\ \A k \in Jobs : k # j => job'[k] = job[k]
        BY <1>1, <4>2, <4>3, GoStep
      <4>5. /\ link' \in [Clients -> Links]
            /\ link'[c] # "down" => c \in spoiled' /\ link[c] # "down"
            /\ \A d \in Clients : d # c => link'[d] = link[d] /\ (d \in spoiled' <=> d \in spoiled)
            /\ spoiled \subseteq spoiled' /\ spoiled' \subseteq spoiled \cup {c}
            /\ \A t \in Terrs : t \in spoiled' <=> t \in spoiled
        BY <1>1, <4>1, <4>3, Apart DEF Disconnected, TypeOK, PluginsTypeOK, Links
      <4>6. \A d \in Clients : Held(d)' => d \in next.held \cup spoiled'
        BY <2>1, <4>2, <4>5 DEF ClosingOK, Held
      <4>7. next # Free
        BY <2>1, <4>2 DEF Free
      <4>8. ClosingOK(j)'
        BY <2>1, <2>2, <2>3, <4>2, <4>4, <4>6 DEF ClosingOK
      <4>9. spoiled' \subseteq Terrs \cup Clients /\ owned' \in [Instances -> SUBSET Clients]
        BY <1>1, <4>1, <4>3, <4>5 DEF TypeOK, PluginsTypeOK
      <4>10. \A d \in Clients : Held(d)' => Held(d)
        BY <4>5 DEF Held
      <4> QED BY <2>1, <2>2, <4>2, <4>4, <4>5, <4>6, <4>7, <4>8, <4>9, <4>10
    <3> QED BY <3>1, <3>2
  <2>5. TypeOK' /\ NamesOK'
    BY <1>1, <2>3, <2>4 DEF TypeOK, PluginsTypeOK, JobRecord, NamesOK, Tool
  <2>6. JobsOK'
    BY <2>4, Apart DEF JobsOK, Free
  <2>7. ASSUME NEW t \in Terrs PROVE TerrOK(t)'
    <3>1. \A k \in Jobs : job[k].terr # t /\ job'[k].terr # t
      BY <2>1, <2>2, <2>4, Apart DEF Free
    <3>2. TerrOK(t) /\ ~Working(t) /\ ~Working(t)'
      BY <3>1 DEF RegistryInv, Working
    <3>3. /\ Terr(t)' = Terr(t) /\ \A n \in Names : OfTerr(t, n)' <=> OfTerr(t, n)
      BY <2>3 DEF Terr, OfTerr, Source, Tool
    <3>4. QuietOK(t) => QuietOK(t)'
      BY <2>2, <2>3, <2>4, <3>3, Apart DEF QuietOK
    <3> QED BY <2>3, <2>4, <3>1, <3>2, <3>3, <3>4 DEF TerrOK
  <2>8. ClientsAreOwned'
    BY <2>4 DEF ClientsAreOwned, Held
  <2> QED BY <2>5, <2>6, <2>7, <2>8 DEF RegistryInv
<1> QED BY <1>2, <1>3

-----------------------------------------------------------------------------
(* A server that dies changes nobody's account of it. *)
LEMMA ServerDiesKeeps ==
  ASSUME RegistryInv, NEW c \in Clients, ServerDies(c)
  PROVE  RegistryInv'
<1>1. /\ link' = [link EXCEPT ![c] = "dead"] /\ link[c] = "up"
      /\ UNCHANGED <<owned, registry, domain, dirTerrs, job, left, off, open, spoiled>>
  BY DEF ServerDies, Dies
<1>2. TypeOK'
  <2>1. link' \in [Clients -> Links]
    BY <1>1 DEF RegistryInv, TypeOK, PluginsTypeOK, Links
  <2> QED BY <1>1, <2>1 DEF RegistryInv, TypeOK, PluginsTypeOK
<1>3. \A d \in Clients : Held(d)' <=> Held(d)
  BY <1>1 DEF RegistryInv, TypeOK, PluginsTypeOK, Held
<1>4. NamesOK' /\ \A u \in Terrs : Same(u)
  <2>1. \A u \in Terrs : ClientsOf(u) \subseteq Clients
    BY Apart
  <2>2. NamesOK'
    BY <1>1 DEF RegistryInv, NamesOK, Tool
  <2> QED BY <1>1, <1>3, <2>1, <2>2 DEF Same, Terr, Tool
<1>5. \A u \in Terrs : TerrOK(u)'
  BY <1>4, SameKeeps
<1>6. JobsOK'
  BY <1>1, <1>3 DEF RegistryInv, JobsOK, LoneOK, ClosingOK
<1>7. ClientsAreOwned'
  BY <1>1, <1>3 DEF RegistryInv, ClientsAreOwned
<1> QED BY <1>2, <1>4, <1>5, <1>6, <1>7 DEF RegistryInv

-----------------------------------------------------------------------------
LEMMA RegistryInit == Init => RegistryInv
<1> SUFFICES ASSUME Init PROVE RegistryInv
  OBVIOUS
<1>1. /\ \A t \in Terrs : Terr(t) = NoDomain
      /\ \A n \in Names : Tool(n) = Nobody
      /\ \A c \in Clients : link[c] = "down"
      /\ \A j \in Jobs : job[j] = Free
  BY Apart DEF Init, PluginsInit, Terr, Tool
<1>2. TypeOK
  <2>1. NoDomain \in DomainRecord /\ MaxJobs \in Nat
    BY RegistryAssumption DEF NoDomain, DomainRecord
  <2>2. job \in [Jobs -> JobRecord]
    BY FreeIsAJob DEF Init
  <2>3. PluginsTypeOK
    BY <2>1 DEF Init, PluginsInit, PluginsTypeOK, Links, DomainRecord
  <2> QED BY <2>1, <2>2, <2>3 DEF Init, TypeOK, JobRecord
<1>3. NamesOK /\ JobsOK
  <2>1. NamesOK
    BY <1>1, Apart DEF NamesOK
  <2>2. Free.terr = Nobody
    BY DEF Free
  <2> QED BY <1>1, <2>1, <2>2 DEF JobsOK
<1>4. ASSUME NEW t \in Terrs PROVE TerrOK(t)
  <2>1. \A n \in Names : ~OfTerr(t, n)
    BY <1>1, Apart DEF OfTerr, Source
  <2>2. QuietOK(t)
    BY <1>1, <2>1, Apart DEF QuietOK, NoDomain, Held
  <2> QED BY <1>1, <2>2, Apart DEF TerrOK, NoDomain, Init, Free
<1>5. ClientsAreOwned
  BY <1>1 DEF ClientsAreOwned, Held
<1> QED BY <1>2, <1>3, <1>4, <1>5 DEF RegistryInv

LEMMA RegistryStep == RegistryInv /\ [Next]_vars => RegistryInv'
<1> SUFFICES ASSUME RegistryInv, [Next]_vars PROVE RegistryInv'
  OBVIOUS
<1>1. ASSUME UNCHANGED vars PROVE RegistryInv'
  <2>1. NamesOK' /\ \A u \in Terrs : Same(u)
    BY <1>1 DEF vars, pluginVars, RegistryInv, NamesOK, Tool, Same, Terr, Held
  <2>2. \A u \in Terrs : TerrOK(u)'
    BY <2>1, SameKeeps
  <2>3. TypeOK' /\ JobsOK' /\ ClientsAreOwned'
    BY <1>1 DEF vars, pluginVars, RegistryInv, TypeOK, PluginsTypeOK, JobsOK,
                LoneOK, ClosingOK, Held, ClientsAreOwned
  <2> QED BY <2>1, <2>2, <2>3 DEF RegistryInv
<1>2. ASSUME NEW j \in Jobs, NEW t \in Terrs, NEW kind \in Kinds,
             Start(j, kind, t) \/ RemoveTerr(j, kind, t)
      PROVE  RegistryInv'
  BY <1>2, StartKeeps, RemoveTerrKeeps
<1>3. ASSUME NEW j \in Jobs, Connected(j) \/ Listed(j) \/ Fails(j)
      PROVE  RegistryInv'
  <2>1. job[j].terr \in Terrs \cup {Nobody}
    BY TypeParts DEF RegistryInv, JobRecord
  <2> QED BY <1>3, <2>1, ConnectedKeepsTerr, ListedKeepsTerr, FailsKeepsTerr, LoneKeeps
<1>4. ASSUME NEW j \in Jobs, Progress(j) PROVE RegistryInv'
  BY <1>3, <1>4, StopKeeps, DrainKeeps, ClosedKeeps, CloseKeeps DEF Progress
<1>5. ASSUME NEW j \in Jobs, NEW c \in Clients, AddMcp(j, c) PROVE RegistryInv'
  BY <1>5, AddMcpKeeps
<1>6. ASSUME NEW j \in Jobs, Cancelled(j) \/ Leave(j) \/ Close(j) PROVE RegistryInv'
  BY <1>6, CancelledKeeps, LeaveKeeps, CloseKeeps
<1>7. ASSUME NEW t \in Terrs, NEW on \in BOOLEAN, Switch(t, on) PROVE RegistryInv'
  BY <1>7, SwitchKeeps
<1>8. ASSUME NEW new \in SUBSET Terrs, ReloadDirectory(new) PROVE RegistryInv'
  BY <1>8, ReloadDirectoryKeeps
<1>9. ASSUME NEW c \in Clients, ServerDies(c) PROVE RegistryInv'
  BY <1>9, ServerDiesKeeps
<1> QED BY <1>1, <1>2, <1>4, <1>5, <1>6, <1>7, <1>8, <1>9 DEF Next

(* At every moment of every operation the registry, the owners and the record
   of a Terr agree with how far the operation has come (framework.py:1034-1170,
   loader.py:24-162). *)
THEOREM RegistryInvariant == Spec => []RegistryInv
<1> QED BY RegistryInit, RegistryStep, PTL DEF Spec

(* A Terr that no operation is on, and no fault has left half-way, is there
   with each of its callables, but for names that others offer too, and with
   the session of each client that runs one; or it is gone with all of them
   (framework.py:1080-1150; loader.py:24-36, 87-89 for the names). *)
THEOREM TerrsAreWholeOrGone == Spec => []WholeOrGone
<1>1. RegistryInv => WholeOrGone
  <2> SUFFICES ASSUME RegistryInv PROVE WholeOrGone
    OBVIOUS
  <2>1. \A t \in Terrs : ~Working(t) /\ t \notin spoiled => QuietOK(t)
    BY DEF RegistryInv, TerrOK
  <2>2. GoneIsGone
    BY <2>1 DEF GoneIsGone, QuietOK, OfTerr, Held
  <2>3. ThereIsWhole
    BY <2>1 DEF ThereIsWhole, QuietOK, OfTerr, Held
  <2> QED BY <2>2, <2>3 DEF WholeOrGone, RegistryInv
<1> QED BY <1>1, RegistryInvariant, PTL

(* No MCP session is open without somebody who will end it
   (framework.py:1000-1150, 1269-1297). *)
THEOREM NoServerIsLost == Spec => []ClientsAreOwned
<1>1. RegistryInv => ClientsAreOwned
  BY DEF RegistryInv
<1> QED BY <1>1, RegistryInvariant, PTL

(* No turn is given a callable of a Terr that is switched off, whatever is
   removed, added, reloaded or failing meanwhile (framework.py:777-829, 1152-1170). *)
THEOREM SwitchedOffStaysOff == Spec => []OffStaysOff
<1>1. RegistryInv => OffStaysOff
  <2> SUFFICES ASSUME RegistryInv, NEW t \in off, NEW n \in Collected, OfTerr(t, n)
               PROVE  \E j \in Jobs : job[j].terr = t /\ job[j].kind = "reload"
    BY DEF OffStaysOff, OfTerr
  <2>1. t \in Terrs /\ n \in Names /\ Terr(t).enabled
    BY DEF RegistryInv, TypeOK, Collected, OfTerr, Source
  <2>2. TerrOK(t) /\ ~Terr(t).there
    BY <2>1 DEF RegistryInv, TerrOK
  <2>3. PICK j \in Jobs : job[j].terr = t
    BY <2>2 DEF TerrOK, Working
  <2>4. JobOnOK(t, job[j])
    BY <2>2, <2>3 DEF TerrOK
  <2> QED BY <2>1, <2>2, <2>3, <2>4
          DEF JobOnOK, BringingOK, RollbackOK, TeardownOK, OpenOK, DrainOK
<1> QED BY <1>1, RegistryInvariant, PTL
=============================================================================
