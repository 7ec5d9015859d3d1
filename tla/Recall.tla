-------------------------------- MODULE Recall --------------------------------
(***************************************************************************)
(* A memory area with its search indexes (src/autumn/core/memory/base.py,  *)
(* the SQLite stores under backends/): entries indexed as they are         *)
(* appended or in the background, keys remembered and indexed, recall over *)
(* keys and both indexes, and what A4 and the user do with 4D dimensions   *)
(* (memory/skills.py, workspace/wp4.py): annotate, push at the start of a  *)
(* turn, reinforce what was recalled.  Autumn.close drains the background  *)
(* work and closes the embedding client.  Operations on the history are    *)
(* atomic here, as MemoryArea is shown to make them.                       *)
(***************************************************************************)
EXTENDS Naturals, SequencesExt, FiniteSets

CONSTANTS
  Requests,     \* the entry or value one stores has its name
  Old,          \* reminders with an interval, stored and indexed by an earlier process
  Keys,         \* keys of remember and recall; "kv" is the hit of one that was found
  K,            \* hits a search returns at most
  Scale,        \* scores are counted in 1 / Scale, which makes those of K ranks whole
  Ops,          \* Ops[t]: the requests t may be
  Settings,     \* configurations: background indexing, a lexical layer
  Relevance,    \* how near the query may be to texts, and which match its words, in order
  Offers,       \* dimensions a user or A4 may give an entry
  None

Entries == Old \cup Requests
Operations == {"turn", "remember", "recall", "activate", "ask", "preview", "curate",
               "annotate", "forget"}

ASSUME RecallAssumption ==
  /\ {None, "kv"} \cap (Entries \cup Keys) = {} /\ Old \cap Requests = {} /\ Entries \cap Keys = {}
  /\ IsFiniteSet(Old) /\ {K, Scale} \subseteq Nat \ {0}
  /\ \A n \in 1..K : Scale % (59 + n) = 0
  /\ Ops \in [Requests -> SUBSET Operations]
  /\ \A q \in Relevance : /\ q.near \in Seq(Entries \cup Keys) /\ IsInjective(q.near)
                          /\ q.match \in Seq(Entries) /\ IsInjective(q.match)
  /\ Settings \subseteq [async : BOOLEAN, lexical : BOOLEAN]
  /\ Offers \subseteq [mode : {"context", "remind"}, purpose : BOOLEAN]

VARIABLES
  hist,         \* ids in the history, oldest first
  dims,         \* dims[e]: the dimensions of entry e
  kv,           \* kv[k]: the request whose value key k has, or None
  vec,          \* vec[i]: the text the vector index has for id i, or None
  lex,          \* ids in the lexical index
  job,          \* job[e]: how far the indexing of e has come
  setting,      \* the configuration, which does not change
  query,        \* what a query is near to and matches, which does not change
  client,       \* the embedding client
  closer,       \* Autumn.close, with the jobs it waits for
  request,      \* request[t]: where t is, and what it has found
  asked,        \* asked[t]: entries t has given A4 to annotate
  late          \* entries: annotated by the user while A4 was asked (A4),
                \* stored after the flush began (flush); keys: set by two at once (keys)

recallVars == <<hist, dims, kv, vec, lex, job, setting, query, client, closer, request, asked, late>>

Modes   == {"context", "remind"}
Push    == {"remind"}
NoDims  == [mode |-> "context", purpose |-> FALSE, by |-> None, cooling |-> FALSE]
NoRequest  == [op |-> "none", at |-> "idle", key |-> None, kv |-> FALSE,
            v |-> <<>>, l |-> <<>>, fired |-> {}]
Stages  == {"none", "embed", "store", "lexical", "done", "failed", "cut"}
Running == {"embed", "store", "lexical"}

Places  == {"idle", "push", "append", "index", "scan", "write", "set", "embedKey", "storeKey",
            "lookup", "preview", "curate", "annotate", "forget", "embed", "search", "lexical",
            "found", "answer", "done", "raised"}
Request == [op : Operations \cup {"none"}, at : Places, key : Keys \cup {None}, kv : BOOLEAN,
            v : Seq(Entries \cup Keys), l : Seq(Entries \cup Keys), fired : SUBSET Entries]
Dims    == [mode : Modes, purpose : BOOLEAN, by : {None, "user", "a4"}, cooling : BOOLEAN]

RecallTypeOK ==
  /\ hist \in Seq(Entries) /\ IsInjective(hist)
  /\ dims \in [Entries -> Dims]
  /\ kv \in [Keys -> Requests \cup {None}]
  /\ vec \in [Entries \cup Keys -> Entries \cup {None}] /\ lex \subseteq Entries
  /\ job \in [Requests -> Stages]
  /\ setting \in Settings /\ query \in Relevance
  /\ client \in {"open", "closed"}
  /\ closer \in [at : {"idle", "flush", "embedding", "done"}, jobs : SUBSET Requests]
  /\ asked \in [Requests -> SUBSET Entries]
  /\ late \in [a4 : SUBSET Entries, flush : SUBSET Requests, keys : SUBSET Keys]
  /\ request \in [Requests -> Request]
  /\ \A t \in Requests : \A s \in {request[t].v, request[t].l} : IsInjective(s) /\ Len(s) <= K

(* The members of S by the strict order R, and those of S in a sequence. *)
Ordered(S, R) ==
  [n \in 1..Cardinality(S) |-> CHOOSE x \in S : Cardinality({y \in S : <<y, x>> \in R}) = n - 1]

Rank(s, i) == CHOOSE n \in 1..Len(s) : s[n] = i
Precedes(s) == {p \in ToSet(s) \X ToSet(s) : Rank(s, p[1]) < Rank(s, p[2])}
Only(s, S)  == Ordered(ToSet(s) \cap S, Precedes(s))

RecallInit ==
  /\ hist = SetToSeq(Old) /\ kv = [k \in Keys |-> None]
  /\ dims = [e \in Entries |->
               IF e \in Old THEN [NoDims EXCEPT !.mode = "remind", !.by = "user"] ELSE NoDims]
  /\ setting \in Settings /\ query \in Relevance
  /\ vec = [i \in Entries \cup Keys |-> IF i \in Old THEN i ELSE None]
  /\ lex = IF setting.lexical THEN Old ELSE {}
  /\ job = [t \in Requests |-> "none"] /\ client = "open"
  /\ closer = [at |-> "idle", jobs |-> {}]
  /\ request = [t \in Requests |-> NoRequest] /\ asked = [t \in Requests |-> {}]
  /\ late = [a4 |-> {}, flush |-> {}, keys |-> {}]

-----------------------------------------------------------------------------
Stored == ToSet(hist)
At(t, at) == request[t].at = at
MoveTo(t, at) == request' = [request EXCEPT ![t].at = at]
Ended(t)  == request[t].at \in {"done", "raised"}
Finish(t, how) == request' = [request EXCEPT ![t] = [NoRequest EXCEPT !.op = request[t].op, !.at = how]]

Start(op) == CASE op = "turn" -> "push" [] op = "remember" -> "set"
               [] op \in {"recall", "activate", "ask"} -> "lookup"
               [] op \in {"preview", "curate", "annotate", "forget"} -> op

Begin(t) ==
  /\ At(t, "idle")
  /\ \E op \in Ops[t] :
       \E k \in IF op = "remember" THEN Keys
                ELSE IF op \in {"recall", "activate", "ask"} THEN Keys \cup {None} ELSE {None} :
         request' = [request EXCEPT ![t] = [NoRequest EXCEPT !.op = op, !.at = Start(op), !.key = k]]
  /\ UNCHANGED <<hist, dims, kv, vec, lex, job, setting, query, client, closer, asked, late>>

-----------------------------------------------------------------------------
(* A turn: what is pushed, the entry stored, indexed, and offered to A4. *)

(* Trigger.weight: the interval since the entry was last used has passed. *)
Due(e) == ~dims[e].cooling

(* Aim.align: no purpose is open to any turn, another may or may not be. *)
Aligned == {s \in SUBSET Stored : \A e \in Stored : dims[e].purpose \/ e \in s}

(* activation: the trigger or the aim may veto an entry. *)
Activated(e, aligned) == Due(e) /\ e \in aligned

(* activate_push *)
Fired(aligned) == {e \in Stored : dims[e].mode \in Push /\ Activated(e, aligned)}

(* _compute_push: the reminders a turn is told. *)
PushTurn(t) ==
  /\ At(t, "push")
  /\ \E aligned \in Aligned :
       request' = [request EXCEPT ![t].at = "append", ![t].fired = Fired(aligned)]
  /\ UNCHANGED <<hist, dims, kv, vec, lex, job, setting, query, client, closer, asked, late>>

(* push_preview: what a turn would be told; nothing is recorded. *)
PreviewPush(t) ==
  /\ At(t, "preview")
  /\ \E aligned \in Aligned : request' = [request EXCEPT ![t].at = "done", ![t].fired = Fired(aligned)]
  /\ UNCHANGED <<hist, dims, kv, vec, lex, job, setting, query, client, closer, asked, late>>

(* append_history: stored, then indexed here or by a task of its own. *)
AppendEntry(t) ==
  /\ At(t, "append")
  /\ hist' = Append(hist, t) /\ job' = [job EXCEPT ![t] = "embed"]
  /\ request' = [request EXCEPT ![t].at = IF setting.async THEN "scan" ELSE "index", ![t].fired = {}]
  /\ late' = [late EXCEPT !.flush = @ \cup (IF closer.at = "idle" THEN {} ELSE {t})]
  /\ UNCHANGED <<dims, kv, vec, lex, setting, query, client, closer, asked>>

(* Synchronous indexing raises out of append_history. *)
Indexed(t) ==
  /\ At(t, "index") /\ job[t] \notin Running
  /\ IF job[t] = "done" THEN MoveTo(t, "scan") ELSE Finish(t, "raised")
  /\ UNCHANGED <<hist, dims, kv, vec, lex, job, setting, query, client, closer, asked, late>>

(* Mutant: the vector index is enough. *)
AfterStoreDone == "done"

(* _index_now: the vector layer, then the lexical one when there is one. *)
AfterStore == IF setting.lexical THEN "lexical" ELSE "done"

(* Mutant: what is indexed already is not indexed again. *)
IndexKept(i, text) == vec' = IF vec[i] = None THEN [vec EXCEPT ![i] = text] ELSE vec

(* SQLiteVectorStore: INSERT OR REPLACE. *)
IndexAs(i, text) == vec' = [vec EXCEPT ![i] = text]

IndexJob(e) ==
  /\ \/ /\ job[e] = "embed" /\ client = "open"
        /\ job' = [job EXCEPT ![e] = "store"] /\ UNCHANGED <<vec, lex>>
     \/ /\ job[e] = "store"
        /\ job' = [job EXCEPT ![e] = AfterStore] /\ IndexAs(e, e) /\ UNCHANGED lex
     \/ /\ job[e] = "lexical"
        /\ job' = [job EXCEPT ![e] = "done"] /\ lex' = lex \cup {e} /\ UNCHANGED vec
     \/ /\ job[e] = "embed" /\ UNCHANGED <<vec, lex>>   \* the service or the client fails
        /\ job' = [job EXCEPT ![e] = IF client = "open" THEN "failed" ELSE "cut"]
  /\ UNCHANGED <<hist, dims, kv, setting, query, client, closer, request, asked, late>>

-----------------------------------------------------------------------------
(* annotate_recent: after a turn for the newest entry, on request for all. *)

Unannotated(e) == dims[e].mode = "context" /\ ~dims[e].purpose

(* Mutant: everything in the window is offered. *)
OfferedAll(w) == w

(* only_unannotated *)
ToOffer(w) == {e \in w : Unannotated(e)}

(* Nothing left to ask A4 about ends the request. *)
Offer(t, window) ==
  /\ asked' = [asked EXCEPT ![t] = ToOffer(window)]
  /\ IF ToOffer(window) = {} THEN Finish(t, "done") ELSE MoveTo(t, "write")
  /\ UNCHANGED <<hist, dims, kv, vec, lex, job, setting, query, client, closer, late>>

(* _auto_annotate_turn: the newest entry, which another turn may have stored. *)
ScanTurn(t) == At(t, "scan") /\ Offer(t, IF hist = <<>> THEN {} ELSE {Last(hist)})

Curate(t) == At(t, "curate") /\ Offer(t, Stored)

(* annotate: merged onto an entry that is still there, the ledger kept.  A
   purpose that is not given is left as it was. *)
Annotated(e, new, who) ==
  IF e \notin Stored THEN dims
  ELSE [dims EXCEPT ![e] = [dims[e] EXCEPT !.mode = new.mode, !.by = who,
                                           !.purpose = dims[e].purpose \/ new.purpose]]

(* A4's items are written one at a time; what it left out is not, and nothing
   when it failed. *)
Write(t) ==
  /\ At(t, "write")
  /\ \/ \E e \in asked[t], new \in Offers :
          /\ asked' = [asked EXCEPT ![t] = @ \ {e}] /\ dims' = Annotated(e, new, "a4")
          /\ IF asked[t] = {e} THEN Finish(t, "done") ELSE MoveTo(t, "write")
     \/ asked' = [asked EXCEPT ![t] = {}] /\ Finish(t, "done") /\ UNCHANGED dims
  /\ UNCHANGED <<hist, kv, vec, lex, job, setting, query, client, closer, late>>

UserAnnotates(t) ==
  /\ At(t, "annotate") /\ Finish(t, "done")
  /\ \E e \in Entries, new \in Offers :
       /\ dims' = Annotated(e, new, "user")
       /\ late' = [late EXCEPT !.a4 = @ \cup (IF \E u \in Requests : e \in asked[u] THEN {e} ELSE {})]
  /\ UNCHANGED <<hist, kv, vec, lex, job, setting, query, client, closer, asked>>

(* forget leaves both indexes as they are. *)
Forget(t) ==
  /\ At(t, "forget") /\ Finish(t, "done")
  /\ \E e \in Entries : hist' = Only(hist, Stored \ {e})
  /\ UNCHANGED <<dims, kv, vec, lex, job, setting, query, client, closer, asked, late>>

-----------------------------------------------------------------------------
(* remember: the key is set, then its text indexed. *)
InRemember(k) == {t \in Requests : request[t].key = k /\ request[t].at \in {"embedKey", "storeKey"}}

SetKey(t) ==
  /\ At(t, "set") /\ MoveTo(t, "embedKey")
  /\ kv' = [kv EXCEPT ![request[t].key] = t]
  /\ late' = [late EXCEPT !.keys = @ \cup (IF InRemember(request[t].key) = {} THEN {}
                                           ELSE {request[t].key})]
  /\ UNCHANGED <<hist, dims, vec, lex, job, setting, query, client, closer, asked>>

EmbedKey(t) ==
  /\ At(t, "embedKey")
  /\ Finish(t, "raised") \/ (client = "open" /\ MoveTo(t, "storeKey"))
  /\ UNCHANGED <<hist, dims, kv, vec, lex, job, setting, query, client, closer, asked, late>>

StoreKey(t) ==
  /\ At(t, "storeKey") /\ Finish(t, "done")
  /\ IndexAs(request[t].key, t)
  /\ UNCHANGED <<hist, dims, kv, lex, job, setting, query, client, closer, asked, late>>

-----------------------------------------------------------------------------
(* recall: the key, then the nearest texts, then the keyword matches.  What is
   asked of WP4 is asked of the shared zone, which has keys and no index. *)
AfterVectors == IF setting.lexical THEN "lexical" ELSE "found"

Lookup(t) ==
  /\ At(t, "lookup")
  /\ LET found == request[t].key # None /\ kv[request[t].key] # None IN
     request' = [request EXCEPT ![t].kv = found,
                          ![t].at = IF (K > 1 \/ ~found) /\ request[t].op # "ask" THEN "embed" ELSE "found"]
  /\ UNCHANGED <<hist, dims, kv, vec, lex, job, setting, query, client, closer, asked, late>>

(* A layer that fails is skipped. *)
EmbedQuery(t) ==
  /\ At(t, "embed")
  /\ MoveTo(t, AfterVectors) \/ (client = "open" /\ MoveTo(t, "search"))
  /\ UNCHANGED <<hist, dims, kv, vec, lex, job, setting, query, client, closer, asked, late>>

(* Mutant: every row that matches. *)
TopWhole(s) == s

Top(s) == SubSeq(s, 1, IF Len(s) < K THEN Len(s) ELSE K)

SearchVectors(t) ==
  /\ At(t, "search")
  /\ request' = [request EXCEPT ![t].at = AfterVectors,
                          ![t].v = Top(Only(query.near, {i \in DOMAIN vec : vec[i] # None}))]
  /\ UNCHANGED <<hist, dims, kv, vec, lex, job, setting, query, client, closer, asked, late>>

SearchLexical(t) ==
  /\ At(t, "lexical")
  /\ request' = [request EXCEPT ![t].at = "found",
                          ![t].l = Top(Only(query.match, lex))]
  /\ UNCHANGED <<hist, dims, kv, vec, lex, job, setting, query, client, closer, asked, late>>

(* 1 / (60 + rank), ranks counted from 0 *)
Share(s, i) == IF i \in ToSet(s) THEN Scale \div (59 + Rank(s, i)) ELSE 0

(* Mutant: the lower a keyword hit's bm25 the better, taken the wrong way. *)
ScoreLowest(v, l, i) == Share(v, i) + (IF i \in ToSet(l) THEN Rank(l, i) * (Scale \div 60) ELSE 0)

(* _hybrid_search: reciprocal ranks, added.  With one layer it keeps the
   layer's order, as the path without a lexical layer does. *)
Score(v, l, i) == Share(v, i) + Share(l, i)

(* recall: a key found weighs 2.0 and a fused hit at most 1.5, by its score;
   equal ones stay as they came, the vector layer's first. *)
Came(v, l, i) == IF i \in ToSet(v) THEN Rank(v, i) ELSE Len(v) + Rank(l, i)

Found(v, l) == ToSet(v) \cup ToSet(l)

Ranking(v, l) ==
  {p \in Found(v, l) \X Found(v, l) :
     \/ Score(v, l, p[1]) > Score(v, l, p[2])
     \/ Score(v, l, p[1]) = Score(v, l, p[2]) /\ Came(v, l, p[1]) < Came(v, l, p[2])}

Fused(v, l) == Ordered(Found(v, l), Ranking(v, l))

Hits(t) ==
  Top((IF request[t].kv THEN <<"kv">> ELSE <<>>) \o Fused(request[t].v, request[t].l))

(* reinforce: the entries in ids that are still there are stamped, which
   starts the interval of one that has any. *)
Reinforced(ids) ==
  [e \in Entries |-> IF e \in ids \cap Old \cap Stored THEN [dims[e] EXCEPT !.cooling = TRUE]
                                                     ELSE dims[e]]

(* A hit of an index is made of its text, and is seen as context. *)
SeenAs(i) == "context"

(* A4 answers from the snippets; a key's value is returned as it is. *)
ThenAnswer(t) == IF Hits(t) = <<>> \/ (request[t].op = "recall" /\ request[t].kv)
                 THEN Finish(t, "done") ELSE MoveTo(t, "answer")

(* The recall skill leaves out the hits it sees as reminders. *)
SkillReinforces(t) ==
  /\ At(t, "found") /\ request[t].op = "recall" /\ ThenAnswer(t)
  /\ dims' = Reinforced({i \in ToSet(Hits(t)) : SeenAs(i) \notin Push})
  /\ UNCHANGED <<hist, kv, vec, lex, job, setting, query, client, closer, asked, late>>

(* WP4Mem.process: a question about the memory stamps nothing. *)
Ask(t) ==
  /\ At(t, "found") /\ request[t].op = "ask" /\ ThenAnswer(t)
  /\ UNCHANGED <<hist, dims, kv, vec, lex, job, setting, query, client, closer, asked, late>>

(* Without A4 the skill returns the snippets; the question raises. *)
AnswerQuery(t) ==
  /\ At(t, "answer")
  /\ Finish(t, "done") \/ (request[t].op = "ask" /\ Finish(t, "raised"))
  /\ UNCHANGED <<hist, dims, kv, vec, lex, job, setting, query, client, closer, asked, late>>

(* activate stamps every hit. *)
ActivateReinforces(t) ==
  /\ At(t, "found") /\ request[t].op = "activate" /\ Finish(t, "done")
  /\ dims' = Reinforced(ToSet(Hits(t)))
  /\ UNCHANGED <<hist, kv, vec, lex, job, setting, query, client, closer, asked, late>>

(* The interval of a reminder passes. *)
Tick(e) ==
  /\ dims[e].cooling /\ dims' = [dims EXCEPT ![e].cooling = FALSE]
  /\ UNCHANGED <<hist, kv, vec, lex, job, setting, query, client, closer, request, asked, late>>

-----------------------------------------------------------------------------
(* Mutant: the flush looks at the jobs that have reached a store. *)
InFlightStoring == {e \in Requests : job[e] \in {"store", "lexical"}}

InFlight == {e \in Requests : job[e] \in Running}

(* Mutant: only a job that succeeded is over. *)
DrainedDone == \A e \in closer.jobs : job[e] = "done"

(* gather with return_exceptions *)
Drained == \A e \in closer.jobs : job[e] \notin Running

(* Autumn.close: flush_index gathers the tasks there are, then the embedding
   client is closed.  Synchronous indexing is nobody's task. *)
Close ==
  /\ \/ /\ closer.at = "idle" /\ UNCHANGED client
        /\ closer' = [at |-> "flush", jobs |-> IF setting.async THEN InFlight ELSE {}]
     \/ /\ closer.at = "flush" /\ Drained
        /\ closer' = [at |-> "embedding", jobs |-> {}] /\ UNCHANGED client
     \/ /\ closer.at = "embedding" /\ client' = "closed"
        /\ closer' = [closer EXCEPT !.at = "done"]
  /\ UNCHANGED <<hist, dims, kv, vec, lex, job, setting, query, request, asked, late>>

Step(t) ==
  \/ PushTurn(t) \/ AppendEntry(t) \/ Indexed(t) \/ ScanTurn(t) \/ Write(t)
  \/ PreviewPush(t) \/ Curate(t) \/ UserAnnotates(t) \/ Forget(t) \/ SetKey(t) \/ EmbedKey(t) \/ StoreKey(t)
  \/ Lookup(t) \/ EmbedQuery(t) \/ SearchVectors(t) \/ SearchLexical(t)
  \/ SkillReinforces(t) \/ Ask(t) \/ AnswerQuery(t) \/ ActivateReinforces(t)

RecallNext ==
  \/ \E t \in Requests : Begin(t) \/ Step(t) \/ IndexJob(t)
  \/ \E e \in Old : Tick(e)
  \/ Close

(* A request that began goes on, and so do the background tasks and a close. *)
RecallSpec ==
  /\ RecallInit /\ [][RecallNext]_recallVars
  /\ \A t \in Requests : WF_recallVars(Step(t)) /\ WF_recallVars(IndexJob(t))
  /\ WF_recallVars(closer.at # "idle" /\ Close)

-----------------------------------------------------------------------------
(* An entry that is stored is in every index, unless its indexing is under
   way or the embedding failed; and a synchronous append that returned has it
   in all of them. *)
StoredIsIndexed ==
  \A t \in Requests : t \in Stored =>
    \/ vec[t] = t /\ (setting.lexical => t \in lex)
    \/ job[t] \in Running /\ (setting.async \/ request[t].at = "index")
    \/ job[t] \in {"failed", "cut"} /\ (setting.async \/ request[t].at \in {"index", "raised"})

(* Autumn.close drains background indexing before it closes the embedding
   client: a background job meets a closed client only when its entry was
   stored after the flush began. *)
DrainedBeforeClose ==
  setting.async => \A t \in Requests : job[t] = "cut" => t \in late.flush

(* The index has the text of the value a key has, when nobody is storing it:
   unless two requests set the key at one time, or indexing the last value
   failed. *)
KeyTextIsCurrent ==
  \A k \in Keys : (kv[k] # None /\ InRemember(k) = {} /\ k \notin late.keys) =>
    vec[k] = kv[k] \/ request[kv[k]].at = "raised"

Above(v, l, a, b) ==
  \A s \in {v, l} : b \in ToSet(s) => a \in ToSet(s) /\ Rank(s, a) < Rank(s, b)

(* What is returned is the best of what was found: a key that was found comes
   first, and no hit stands before one that both layers rank above it. *)
BestFirst ==
  \A t \in Requests : At(t, "found") =>
    LET h == Hits(t)  v == request[t].v  l == request[t].l IN
    /\ request[t].kv => h # <<>> /\ Head(h) = "kv"
    /\ \A b \in ToSet(h) \ {"kv"}, a \in Found(v, l) :
         a # b /\ Above(v, l, a, b) => a \in ToSet(h) /\ Rank(h, a) < Rank(h, b)

(* What was stored can be found: it is indexed or known not to be, a key by
   its last value, the best first. *)
RecallIsSound ==
  RecallTypeOK /\ StoredIsIndexed /\ DrainedBeforeClose /\ KeyTextIsCurrent /\ BestFirst

(* A4 never replaces dimensions a user gave an entry, unless the user gave
   them while A4 was being asked or they look as if nobody had: context and
   no purpose. *)
AnnotationsKept ==
  [][\A e \in Entries :
       dims[e].by = "user" /\ dims'[e].by = "a4" => e \in late.a4 \/ Unannotated(e)]_recallVars

(* Every request that begins ends, and a close that waits for the background
   indexing closes the client. *)
CallsEnd ==
  <>[](closer.at \in {"idle", "done"} /\ \A t \in Requests : At(t, "idle") \/ Ended(t))
===============================================================================
