# TLA+ models of Autumn

Autumn (`src/autumn`) is a Python framework, run as a library or behind a
FastAPI server, that takes a conversation turn through three model slots (A1 to
A3, workspaces WP1 to WP3) and keeps what it learns in memory zones curated by
a fourth (A4, WP4). It is one asyncio process: tasks interleave at every
`await`, a client that disconnects cancels its task at one, model calls fail or
take minutes, MCP servers are subprocesses that hang or die, and SQLite
statements and file operations run on a thread pool next to the event loop.

The modules here model the parts whose correctness hangs on that. TLC checks
small instances; TLAPS proves the central properties for all instances.

1. [Inventory](#1-inventory), 2. [Modules](#2-modules), 3. [Runs](#3-runs),
4. [Proofs](#4-proofs), 5. [What the code does that its texts do not
say](#5-what-the-code-does-that-its-texts-do-not-say),
6. [Not modelled](#6-not-modelled), 7. [Running](#7-running),
8. [Left to do](#8-left-to-do)

## 1. Inventory

Per component: the state it keeps, its operations, and what it interacts with.

| Component, and the module that models it | State | Operations | Interacts with |
|---|---|---|---|
| **Memory area** (`core/memory/base.py`): `MemoryArea` over `History` | backend key `<zone>:history` (a list of entries), `_history_lock`, 4D flag | `append_history`, `pin`, `unpin`, `reinforce`, `forget`, `consolidate`, `set_profile`, reads | its backend at every operation; A4 in `consolidate` |
| **Layered store** (`backends/hybrid_backend.py`, `sqlite_backend.py`): `HybridStore` | a dictionary in front, the rows of SQLite, statements in the pool | `get`, `set`, `clear_session`, restart | areas, with or without their lock |
| **Markdown store** (`backends/markdown_backend.py`): `MarkdownStore` | a directory per zone, a file per entry, temporary files | `get`, `set`, `delete` of a history; `MemoryArea.clear` | areas, with or without their lock; threads that outlive tasks |
| **Indexes and recall** (`base.py`, `vector_backend.py`, `lexical_backend.py`, `skills.py`, 4D of `wp4.py`): `Recall` | vector and BM25 tables, background tasks, dimensions | index on append or in the background, `flush_index`, `remember`, `recall`, `annotate`, `activate_push`, user annotations | areas, the embedding service, A4, `close` |
| **Life cycle of a turn** (`framework.py`, `base.py`, `wp4.py`): `MemoryPasses` | Mom1's history, what each pass has read and has yet to write | annotate, extract, profile, consolidate, evolve, one after the other; the same on request | areas, A4, other turns, the user's forget and use |
| **Mom1 access channel** (`access.py`, `skills.py`): `AccessBroker` | the switch, the requests, the audit area | gather, adjudicate, mediate, record | Mom1, A1, A4, the agents |
| **Turn pipeline and agent loop** (`wp1.py` to `wp3.py`, `checker.py`, `selector.py`, `agent.py`): `Workflow` | the stages of a turn, Mom1 to Mom3, the shared zone | select, plan, route, convert, execute, check and correct, supervise, store, archive; buffered and streamed | the model slots, the zones, tools, the broker |
| **Capability registry** (`framework.py`, `terr.py`, `plugins/loader.py`, `bridge.py`): `TerrRegistry` over `Plugins` | plugins, Terrs and their switches, owned MCP clients | `add_mcp`, `add_terr`, `open_terr`, `remove_terr`, `reload_terr`, directory reload, `close` | MCP clients, turns |
| **MCP over stdio** (`components/mcp_stdio.py`): `StdioMCP` | the subprocess, its pipes, `_closed`, `_connecting`, `_generation`, `_reconnect_lock` | `connect`, `disconnect`, `call_tool`, `list_tools`, reconnect | a subprocess; the gathered tool calls of an agent |
| **Code-graph layer** (`codebase/memory.py`): `CodeGraph` | index flag, cached brief, one lock | `ensure_indexed`, `architecture_brief`, `refresh`, stop | an MCP server, turns, the indexing task |
| **Event stream** (`server/app.py`, `/stream`): `EventStream` | the task of the next event, what was sent | heartbeat, frames, hang-up, clean-up | the client, the turn |
| **HTTP server** (`server/app.py`, `integrations.py`): `Server` over `Plugins` | the current instance, saved and running integrations, two locks | startup, `/config/apply`, connect, disconnect, code-graph switch, shutdown | instances, MCP clients |
| **Project zones** (`project.py`, `project_intelligence.py`): `ProjectZones` | zones by id, metadata, registry, `_meta_lock` | metadata edits, `remember`, inference, register, list, clear | their backend, A1 |
| **Model client** (`core/api/base.py`): `ModelClient` | the HTTP client, calls and their attempts | complete with retries, close | requests, the service |
| Configuration, prompts, network policy, builtin tools, web and desktop clients | | | not modelled, section 6 |

What is hard, and what correctness means there:

* **Memory area.** Every write is a read-modify-write of one key across two
  awaits; `consolidate` awaits a model in the middle, holding the lock. No
  update may be lost, a removal must be one the call was entitled to, pins must
  outlive normal entries, one profile per scope, bounded size, and a failing
  model or a cancelled caller must not leave the lock taken.
* **Stores.** Reads take no lock; the cache is written before the row; a history
  is many files rewritten one by one; statements and file operations outlive
  cancelled tasks. What was acknowledged must stay readable and survive a death.
* **Indexes.** An entry is stored before it is indexed and indexing may fail or
  meet a closing client; what a user annotated must not be replaced by A4.
* **Life cycle.** Passes work on what they read before a model call. Each turn
  should be mined once, one rule made per intent, and a profile account for
  every turn it is newer than.
* **Turns.** Whatever fails, what the user was shown and what memory holds must
  agree; a failed check must be told; a turn must end.
* **Access channel.** The verdict is about candidates read earlier; a grant may
  hand out no more than was asked, allowed and capped, and the trail must be true.
* **Capabilities and server.** A registration awaits servers half way through, an
  instance is replaced under the requests that hold it. No server process may be
  left without an owner, and what is shown as connected must be so.
* **MCP client.** Several callers share one pipe and one subprocess. No subprocess
  may be orphaned, no restored link torn down, no answer reach the wrong call.
* **Code graph and streams.** A stream is abandoned while its turn waits for, or
  holds, the lock others need; a refresh forgets an index others are using.
* **Projects.** Metadata is read, edited and written back under a lock that the
  inference by A1 and the clear do not take.

The hazards are listed at their lines in `PROJECT.json`, each with the
properties that would catch it.

## 2. Modules

| Module | What it is | Uses |
|---|---|---|
| `History` | what the operations of an area compute from a history. Pure operators | |
| `AtomicHistory` | abstract specification: a call takes effect at one moment between invocation and return, or not at all | `History` |
| `MemoryArea` | the detailed specification: lock, snapshot, get and set, model call, cancellation | `AtomicHistory` |
| `HybridStore` | cache, row, pool and restart under tasks that append and that read | |
| `MarkdownStore` | files, threads, deaths under writers, readers and a clear | |
| `MemoryPasses` | the hooks of a turn, over atomic area operations | `History` |
| `Recall` | indexing, recall and 4D, over atomic area operations | |
| `ReadGate` | abstract specification of the access channel: what a request is given, never how | |
| `AccessBroker` | the protocol of a request | |
| `Workflow` | turns with their agents, checkers and zones; a turn's agent files requests with the broker | `AccessBroker`; `ReadGate` by INSTANCE |
| `Plugins` | the registry and the owned clients of an instance; state and helpers | |
| `TerrRegistry` | the plugin API of one instance | `Plugins` |
| `Server` | several instances, one current, under two locks | `Plugins` |
| `StdioMCP` | requests, reconnection, handshakes and teardowns over subprocesses | |
| `EventStream` | one `/stream` response | |
| `CodeGraph` | the code-graph layer under the turns of streams | `EventStream` |
| `ModelClient` | calls with retries over an HTTP client that may be closed | |
| `ProjectZones` | project requests, of which some call A1 | `ModelClient` |
| `MC...` | small instances for TLC | the module each is named after |
| `Memory_proofs` | lemmas and theorems | `MemoryArea`, `MemoryPasses`, `History` |
| `Stores_proofs` | | `HybridStore`, `MarkdownStore` |
| `Indexes_proofs` | | `Recall`, `CodeGraph`, `EventStream` |
| `Workflow_proofs` | | `Workflow`, `AccessBroker` |
| `TerrRegistry_proofs`, `Server_proofs`, `StdioMCP_proofs`, `ProjectZones_proofs` | | the module each is named after; the last with `ModelClient` |

How they compose. `MemoryArea` takes its backend to be an atomic register;
`HybridStore` and `MarkdownStore` look below it, at when the register behaves
like one. `MemoryArea` implements `AtomicHistory`, which entitles
`MemoryPasses`, `Recall` and `Workflow` to treat an operation of an area as one
step. `Workflow` composes turns with the broker: they share Mom1, which turns
append to while requests are adjudicated, and the refinement to `ReadGate` is of
that composition. `Server` and `TerrRegistry` look at the same registry from
above (instances replaced) and from inside (one instance's operations).
`CodeGraph` composes a stream with what its turn waits for, `ProjectZones`
requests with the model client they share with `close`.

### How state and actions correspond to the code

*History.* A history is a function from ids to entries. Python's list order is
the `slot` of an entry: `list.append` takes the next slot, the sort by
timestamp that ends `_evict` and `consolidate` sets the slot to the timestamp,
and equal slots are ordered by id because ids are made in creation order and the
sort is stable. Importances are counted in halves so that the pin threshold 1.5
is 3. Decay is `2^-(age/half_life)` in whole half lives, and the utility of an
entry is its use count, an increasing function that is 0 for an unused entry.

*MemoryArea.* `CallOperation` binds the arguments and reads the clock, before
the lock as in the code; `GetHistory` is the lock and the backend get;
`SetHistory` the computation, the set and the release; `AskModel`,
`ModelAnswers` and `ModelFails` the model call of `consolidate`;
`ReturnUnchanged` the returns without a write. `Cancel` is a cancellation at
any await: the `async with` releases the lock.

*HybridStore.* The history is abstracted to the set of ids appended. A task that appends
goes `waiting` for the lock, `reading` (cold cache), `read`, `writing`,
`written`; between two awaits it runs alone, so warming the cache and
overwriting it is one step. `orphans` are statements that a thread had picked up
when their task was cancelled. `Reopen`, a restart, keeps only the row.
It shares no name with `MarkdownStore`, so that one module can have the proofs of both.

*MarkdownStore.* `job[x]` is the function a task (or, after a cancellation, its
orphaned thread) has on the pool, and one step of it is one call to the file
system: list, look, read; open the temporary file, fill it, move it into place;
list, unlink. An entry's text is its version, `Torn` a file opened and not yet
filled. The temporary file is per entry (`<id>.md.tmp`), so two threads writing
one entry share it. `FileError` is an `OSError`, `Restart` a death: the files
stay.

*MemoryPasses.* `at[t]` is the hook that the turn of conversation `t` is in,
`phase[t]` whether it looks at its gate, reads, awaits A4 or stores.
`PlainTurn` is `process` and `stream`, which stop after the write of WP1,
`TracedTurn` the `_with_trace` forms, which go on. `RequestEvolve`,
`RequestProfile` and `ManualConsolidate` are the HTTP requests for the same
passes. `Oldest` takes what fits a prompt, from the front of the history. `excused`
remembers what the promises do not cover (below). `MemoryPasses` and `Recall` share
no name with the modules whose proofs they stand beside.

*Recall.* `job[t]` is how far the indexing of entry `t` is: the embedding, the
vector row, the lexical row. With `setting.async` it is a background task of
`_index_tasks`; otherwise `append_history` awaits it. `closer` is
`Autumn.close`. `late` remembers what overlapped (below). `Score` is the
reciprocal rank fusion with its constant 60, computed exactly over the two
rankings, in units of `1 / Scale`; `Ranking` is Python's stable sort by it, and
`Ordered` lists a set by such an order without recursion. Dimensions are a mode,
whether there is a purpose, and who gave them.

*AccessBroker and Workflow.* A place (`at`) is the await a request or a turn is
at. Between two places everything is computed in one step, as functions of the
turn's record (`Execute`, `Check`, `Executed`, `Verdict`, `Answered` and so on),
so an action is one line of control. A text is how much of it there is, whether
the rule check refuses it, and whether it carries WP2's failure marker or the
quality advisory. `Progress` is what the code does by itself; `ModelFails` and
`StoreFails` the exceptions, the latter with the entry stored or not, since `append_history`
stores and then indexes (`base.py:610-618`); `Append` is the append a turn awaits, `Interrupt` a client that leaves (in a stream:
`GeneratorExit` at a yield, and the `finally` clauses that then store).
`AskForAccess` is the call of the skill `request_mom1_access` among the gathered
calls of an agent step; `CallReturns` lets a reply in only when the request has
ended. `stored` are the ids Mom1 has ever appended and `mom1` those of its history:
an append purges and evicts, itself perhaps, and `Curate` is what forgets,
consolidates and appends beside the turns. What a request finds (`Gather`) is an id
with tags: stored tags when the history has it, the layer's name when an index does,
which may be of an id long forgotten, `kv` when the query names a key. `Switch` is
`configure_4d`, either way. In `ReadGate` a grant hands out what the zone holds *or
has held*, and a request that finds the channel closed when it is filed is refused
even if it is opened before the refusal.

*Plugins, TerrRegistry and Server.* A name of a tool maps to whose callable runs:
a Terr for a direct tool, a client for a bridged one. A job walks through its
servers: `connect`, `list`, then on a failure `rollback`. A loop over the clients
held follows the order of the Terr's own list (`First`). `Collected` is what a
turn gathers of the registry. In `Server` a request captures the instance when
it arrives and keeps it while it waits for a lock; an instance is built only while
one is left for the requests that wait (a bound). `owned` tells
who would stop a server; `link` whether its client has a session (`Held`), and whether
the server behind it still runs: a server that dies by itself leaves its client and
everything that refers to it as they were (`mcp_stdio.py:44-49`). Tool names may
coincide; `Shared` names are taken over by whoever registers last.

*StdioMCP.* A task waits for a line, a timer, the reconnect lock, the exit or
the start of a process. `call[t]` has the local variables of `_request` and
`_request_once`. The server answers in any order, dies at any time, never
answers, or never reads: `drain` and `notify` are the waits of `_send`
(`mcp_stdio.py:268`), which no timer bounds. Reading is modelled as asyncio does
it: one reader may wait, a second gets `RuntimeError`.

*CodeGraph and EventStream.* The lock is a queue, its holder first. The brief is
the version of the code it describes. In a stream, `next` is the task of
`__anext__`; `Look` is a round of the loop, `Ping` the heartbeat, `HungUp` and
`Finally` the clean-up of a client that left, which cancels the task and with it
the turn wherever it waits.

*ProjectZones and ModelClient.* A zone is an object with its own `_meta_lock`,
made on first use; after a clear a request may still hold the old object.
`ideal` is what the finished requests should have left, one after the other. A
call of A1 takes the HTTP client when it begins and keeps it through its
attempts; `Close` waits for `aclose`.

## 3. Runs

`PROJECT.json` names for each run its properties and for each property a mutant:
a plausible bug, written next to the definition it replaces and commented
*Mutant*, that breaks the property. A property that is a conjunction has its
parts in brackets.

| Run | States | Actors | Properties, and what the run shows |
|---|---|---|---|
| `Area` | 84 thousand | two tasks, all seven calls, cancelled anywhere, A4 failing | `AreaIsConsistent` (`AreaTypeOK`, `SnapshotCurrent`, `OneProfilePerScope`); `SizeBound`; `EntriesAreKept` (`OnlyOwnEffects`, `PinsSurvive`, `UsesNeverForgotten`, `RecentSurviveConsolidation`); `ImplementsAtomicHistory`; `EveryCallReturns`. Under the lock each call is atomic and removes only what it may |
| `HybridLayers` | 95 thousand | three appenders, a cold getter, failing statements, cancellations, `end_session`, restarts | `LayersAgree` (`HybridTypeOK`, `VisibleUnlessOverlapped`, `DurableUnlessOverlapped`); `GrowsUnlessOverlapped`; `HybridCallsEnd`. Without overlaps nothing acknowledged is hidden or lost |
| `HybridColdRead` | violation | two appenders, a getter | `AckedVisible`: a cold read that resumes after an append hides the appended entry |
| `Markdown` | 190 thousand | two writers, a reader, a clear, deaths and errors | `DiskIsTrue` (`TypeOK`, `AckedSurvive`, `DirectoryIsHistory`, `ReadsAreComplete`); `NoRollback`; `CallsEnd`. Without overlaps a history of many files reads as one that was written whole |
| `Recall` | 140 thousand | three requests, background indexing, `close` | `RecallIsSound` (`RecallTypeOK`, `StoredIsIndexed`, `DrainedBeforeClose`, `KeyTextIsCurrent`, `BestFirst`); `AnnotationsKept`; `CallsEnd`. The indexes hold what is stored, and A4 leaves the user's annotations alone |
| `Passes` | 2.0 million | a conversation that may leave, five hooks and the same on request, A4 failing, facts forgotten | `DerivedOnce` (`TypeOK`, `SourcesMinedOnce`, `OneRulePerIntent`); `DeltaMissesNothing`. Each turn is mined once, each intent has one rule, and a profile missed nothing, whatever was evicted, forgotten or abandoned between |
| `Workflow` | 524 thousand | a turn, its agent, checkers and zones, a request for Mom1, Mom1 forgetting and learning, the broker's switch | `MemoryIsTrue` (`TypeOK`, `AnswersAreRecorded`, `MemoryIsClean`); `NothingIsHidden` (`EmittedIsKept`, `FailureIsTold`); `RequestsAreTrue` (`GrantsAreNarrow`, `TrailIsTrue`); `ImplementsReadGate`; `TurnsEnd`. What a user saw and what memory holds agree, whatever fails, but for an answer that was stored and then could not be indexed |
| `Registry` | 51 thousand | two operations on two Terrs that share a name and a lone client; a server that dies | `ClientsAreOwned`; `WholeOrGone` (`TypeOK`, `GoneIsGone`, `ThereIsWhole`); `OffStaysOff`; `JobsEnd`. A failed registration leaves nothing behind |
| `Server` | 172 thousand | two requests and the autostart, two instances; servers that die | `ClientsAreOwned`; `RunningIsShown` (`TypeOK`, `ShownIsInUse`, `ConnectedIsShown`, `OneGraph`); `WritesAreGranted`; `RequestsEnd`. Two locks suffice for instances and integrations: what is shown as connected is a connection in use, and no other is left |
| `StdioReconnect` | 530 thousand | two callers, a disconnect, a cancellation, hanging and dying servers | `LinkIsHeld` (`TypeOK`, `AliveHasHandle`); `AnswersAreOwn`; `SparesFreshLink`; `CallsEnd`. No orphan, no foreign answer, no fresh link torn down; only a server that never reads its stdin holds a call up |
| `CodeGraph` | 247 thousand | a stream, a turn, a refresh, the indexing task | `RefreshIsFresh`; `StreamsAreClean` (`TypeOK`, `UpstreamStops`, `StreamsAreWhole`); `IndexedOnce`; `StreamsEnd`. A client that leaves frees the lock its turn held |
| `Zones` | 138 thousand | three requests, of which any may infer or clear, and `close` | `ClientIsOpen`; `ZonesAreTrue` (`TypeOK`, `NothingLost`, `ListIsWhole`); `RequestsEnd`. Metadata edits are not lost to each other |

Deadlock is not checked: in every model the program may be idle for ever once
the bounds are reached, and idleness is a legal end. That nothing *waits* for
ever is what `EveryCallReturns`, `CallsEnd`, `HybridCallsEnd`, `TurnsEnd`, `JobsEnd`, `RequestsEnd`
and `StreamsEnd` say; `Passes` has no such property, its turns end when A4 does.

### Exemptions

Some promises hold only while certain things do not overlap. A history variable,
no part of the program, then records the overlap, and the property says
"unless". Each exemption stands for an execution of the program that breaks the
promise; section 5 has those that contradict a text.

| Variable | Set when |
|---|---|
| `HybridStore!overlapped` | a cold read is under way during an append, or a statement outlives its task |
| `MarkdownStore!raced` | a clear meets a writer, or a thread outlives its task |
| `Recall!late` | the user annotates an entry A4 is being asked about; an entry is stored after the flush of `close` began; two requests set one key at a time |
| `MemoryPasses!excused` | two extractions have read one source, or two evolutions one intent, at one time; a turn is stored while a profile is being made, or does not fit its prompt |
| `ProjectZones!raced` | a clear meets another request of its project; an inference falls between the halves of an edit, or the other way round |
| `Server!overlapped`, `unlisted` | an integration was at work, or a disconnection found none to disconnect, while an apply replaced the instance; listing the tools of a connected code graph failed |
| `TerrRegistry!Shared`, `Server!Shared` (of a name, no variable) | two Terrs or servers offer a callable of that name |
| `TerrRegistry!spoiled` | what a cancellation or a raising `disconnect` left half-way |
| `CodeGraph!overtaken` | a turn was past `ensure_indexed` when a refresh began |

### Bounds

* *Area.* `Limit = 2` is the least at which a pin and a normal entry compete; four
  calls fill the history, evict, and leave one to overlap each step. Two tasks
  suffice for a lost update. The proofs remove all these bounds. One exception to
  `SizeBound` lies beyond them: with `min_candidates = 1` a profile can be
  unpinned, summarised alone and renewed, each time leaving a pin more. That
  takes six calls, and the theorem states the condition that excludes it.
* *HybridStore.* Three appenders and four appends give one in the lock, a
  cancelled one, one waiting, and an append after each loss. Proved without bounds.
* *MarkdownStore.* Two entries, of which an append evicts one; three calls and one
  fault (an error, a death or a cancellation) in any of their steps. Proved without bounds.
* *Recall.* Two hits of three candidates, so one is cut; an entry of an earlier
  process; the third request may be any of
  the operations. Proved without bounds.
* *MemoryPasses.* The gates (2, 2, 4, 3) and windows (2) keep the order of the
  defaults: extraction first, then profile, evolve and consolidation near the
  limit. Six ids allow a turn, its facts, a profile, a summary and a rule in every
  order. `ProfileWindow = 6` means no delta is cut. One conversation never overlaps
  itself, so `excused` stays empty and the run is the strict form of the properties;
  the theorems are for any number of conversations, with the exemptions.
* *Workflow.* One turn, one tagged entry that is no turn's and one key, so that a
  request can find the entry in the history and in an index, by its tag and not, and
  one entry more than `MaxEntries = 1`; the entry may be forgotten before it is handed out. Two retries, two agent steps, two chunks and two interruptions reach
  each limit and one attempt past it. The theorems cover any number of turns.
* *Registry, Server.* Two operations at once, three in all, so that one follows
  what two left; a Terr with two servers, for a failure after a success, of which one offers a name
  of the other Terr. The servers that may die (`Mortal`) are one of that Terr, and an
  integration's and the code graph's. Two
  instances: one is replaced, its successor replaced in turn is the same again.
* *StdioMCP.* One reconnect attempt, two processes, a call each: the budget is
  exhausted, a process replaced, and both callers meet each stage of it.
* *CodeGraph.* One event besides the last, two versions of the code.
* *ProjectZones.* Two projects, of which one is the default; two attempts per
  model call; two HTTP clients, the second opened after a close.

### Fairness

Every specification of liveness gives weak fairness to each task's own steps and
to nothing else: the event loop resumes what can run, the pool runs what was sent
to it, `asyncio.Lock` serves waiters in order (the guards on arrival order say
so), model and embedding calls end because `httpx` has timeouts
(`api/base.py:82`, `api/embedding.py:30`), and `asyncio.wait_for` bounds each
read of a subprocess and each exit. Two things have no such bound:

* `_send` awaits `drain()` outside the `wait_for` of the request
  (`mcp_stdio.py:250-252, 268`). `StdioMCP` gives the wait no fairness, and `CallsEnd`
  says that each task returns or waits for ever in a drain, or for the reconnect lock
  behind a handshake in one. `JobsEnd`, `RequestsEnd` of `Server`, `IndexedOnce` and
  `StreamsEnd` assume that the servers read what they are sent.
* Tools and skills (`agent.py:201-223`). `TurnsEnd` assumes that they return; the one
  that asks for Mom1 is modelled, and does.

Not fair: making a call, cancelling, a client
that leaves, failing, restarting, `end_session`, and all that a subprocess does.

## 4. Proofs

Eight modules hold them. Nothing is assumed but the constants' assumptions
(`ASSUME` in the modules, each weaker than the program's own ranges) and what a
theorem states.

**MemoryArea.** The inductive invariant `AreaInv` says which task is in which
stage: only the lock's holder is past the lock, its snapshot is the stored
history, ids are times already read, and what a stage needs of the call's
arguments. Without the stages neither `SnapshotCurrent` nor the type is
inductive: a release would be blamed on a task that does not hold the lock.

* `AreaTypeCorrect`, `SnapshotIsCurrent`, `ProfilesAreSingle`, together
  `AreaStaysConsistent`: from `AreaInv` and the effect of each operation on the
  profile entries.
* `AreaImplementsAtomicHistory`: each step of the area maps to `Invoke`,
  `Perform`, `Abandon`, `SetFourD`, `TimePasses` or a stutter. `SetHistory` is
  `Perform` *because* the snapshot is current; this is where the lock matters.
* `HistoryIsBounded`: `OthersBounded` bounds the entries that are not profiles by
  the limit: appends evict down to it, a summary replaces at least one of them. The
  latter needs that nobody unpins, or that `min_candidates` exceeds the number of
  scopes (`SummariesReplace`).
* `NoForeignEffects`, `PinnedEntriesSurvive`, `UsesStay`, `RecentEntriesStay`,
  together `EntriesStayKept`: from `FreshIds` (no stored entry has the id of a call
  in progress) and, per operation, what it may remove (`RemovalsAllowed`), what it
  does to use counts (`UsesGrow`), and what it leaves of the newest entries
  (`RecentAreKept`).

The first part of `Memory_proofs` has the lemmas on the operators: the best `k` of a set are at
most `k` of its members (`BestSize`), eviction returns at most `Limit` entries
(`EvictWithin`), every operation turns histories into histories.

**MemoryPasses.** `PassInv` says where a conversation's pass is and that what it has
read has ids that were drawn by then (`PassPlacesOK`), and for each kind of pass what
binds the history to what the passes under way have in hand:

* `MinedOK`: a fact shares a source with an extraction under way only if that very
  extraction stored it, and two extractions have no source in common. This is what
  makes `SourcesMinedOnce` survive the awaits: facts are stored one at a time, and
  a source stays pending until the first of them is.
* `RulesOK`: nobody is about to make a rule for an intent that has one, two
  evolutions have no intent in common, and nobody annotates a rule, which would
  change its intent.
* `FoldedOK`: a turn that is not in the prompt of the profile being made has been
  in one before.

Each is stated up to `excused`. From it `DerivedStaysOnce` and `ProfilesMissNothing`,
for any number of conversations, gates, windows, intents and disconnections. The
lemmas say what eviction, consolidation, `set_profile` and forgetting leave of an
entry (`Grown`: no entry is new but the one the call made, and none changes its
time or kind). TLC checked `PassInv` on the run's instance before.

**HybridStore.** `HybridTypeCorrect` holds as it is. For the rest `LayersInv` holds while
`~overlapped`: the cache, if any, contains the row; an appender's value contains the
row and its own entry; a cold getter has read the row as it is; no getter is under
way while an appender is. From it `EntriesStayVisible`, `EntriesStayDurable` (together
with the types `LayersStayAgreed`) and `RowOnlyGrows`, for any number of appenders,
getters, cancellations, failures and restarts.

**MarkdownStore.** `MarkdownInv` has a part that always holds (`BasicInv`) and one that
holds while `~raced` (`CalmOK`).

* *Always.* Who is where has which function on the pool, with what in it (`CallsOK`).
  No version is newer than the calls made, less those that have not yet made their
  change (`VersionsOK`): each change adds one, and without this the bound in the
  type is not inductive. The entry a writer is about to append is in no file,
  temporary file or list (`FreshOK`).
* *While `~raced`.* At most one task changes the directory, and no orphaned thread
  does (`AloneOK`); no file in place is torn, and everything that was acknowledged
  and that no later call was to drop has one (`DiskOK`); and, for each stage of a write,
  which files it has put in place, that its list has everything safe, and that no
  file in place is newer than the one that will replace it (`StoreOK`). A read in the
  lock knows the files as they are (`LoadOK`); one outside it has, or will still look
  at, what was promised to it (`ReadOK`).

From it `DirectoryIsTrue` and the action property `FilesNeverRollBack`, for any
number of writers, readers, clearers, calls, faults and cancellations, and any
limit. Nothing is assumed but that the roles are disjoint. A torn temporary file is
harmless because `replace` moves only what its own `fill` completed; an evicted
entry is safe to unlink because the sweep comes after the last `replace`. TLC
checked `MarkdownInv` before, with a second clear, more faults and more cancellable
tasks than the run has (672 thousand states).

**Workflow and AccessBroker.** `WorkflowInv` joins what a turn's record must be at
each place (`GoodTurn`), that a turn is on record exactly if it answered or
emitted (`OnRecord`), what the zones hold (`ZonesOK`), and the broker's invariant
(`BrokerInv`): a request's candidates, verdict, grant and trail fit its place.
It is inductive for any number of turns and requests because every action touches
one turn, and requests are pending only while their turn is at the call.

* `TypeCorrect`, `AnswersStayRecorded` (a turn that raised left nothing in Mom1, or, if the append
  itself raised, the answer it was about to give), `MemoryStaysClean`, together
  `MemoryStaysTrue`; `GrantsStayNarrow`, `TrailStaysTrue`, together
  `RequestsStayTrue`.
* `BrokerIsGate`: turns, agents, the broker and everything that interrupts them
  implement the safety part of `ReadGate`: each step is one of its actions or
  changes nothing it shows. What is held there is what may be found of any id
  ever stored (`Findable(stored)`), so the proof needs that a request's candidates
  stay among those though the history shrinks.
* `WhatIsEmittedIsKept`, `FailuresAreTold`, together `NothingStaysHidden`: `Honest` is inductive beside `WorkflowInv`. It follows a turn's
  record and its texts in Mom2 and Mom3 from place to place: nothing of a stream is
  shown before its workspace streams (`Early`); from `Keep` on the workspace's zone
  holds at least the text; and a turn whose check failed has its marker in the
  text, then in Mom2, or was rewritten.

**TerrRegistry.** `RegistryInv` says of each Terr what the names, the clients and
the switch are. If no operation is on it and no fault has left it half-way
(`QuietOK`), a Terr that is gone has nothing, and one that is there has all its
callables but for `Shared` names, whose servers are connected. If one is on it, `JobOnOK` says for each place what
has been done and is to do: which servers are connected, owned and listed, what is
registered, and, in a rollback or a teardown, what is left to stop. That at most
one operation is on a Terr is part of it. From it `TerrsAreWholeOrGone`,
`NoServerIsLost` and `SwitchedOffStaysOff`. Assumed: no two
Terrs have one client object (`DistinctAssumption`). Names are free: of a `Shared` name,
which a registration takes over with a warning at most and a removal takes along
(`loader.py:24-36, 87-89`), the theorem says that it runs no callable of a Terr that
is gone, and leaves open whose of those that are there it runs.

**Server.** `ServerInv` has a part that always holds (`StructOK`): who holds which
lock at which place, that requests work on instances there are, that nothing is in
an instance not yet built, and whose the code-graph clients are. A second part
(`CleanOK`) holds unless `overlapped`: the current instance has the handles in
force and nothing else; while an apply rebuilds, those in force are the ones it
has made so far. The third is who owns a client at each place. From it
`NoServerLeaks`, `GrantsAreKept`, `StatusIsTrue`. The proof found an overlap no
run reaches, since it takes four requests (section 5, 8): `overlapped` counts it
now. `StatusIsTrue` says both ways what a status can be trusted for: what it shows as
connected is a connection of the current instance that nobody has ended, behind the
tools nobody else offers; and while nobody is at work on the integrations there is no
other connection. Whether the server is alive it does not say (section 5, 17).
Nothing is assumed of tool names.

**StdioMCP.** `StdioInv` joins four facts. `LinkOK`: a process with its pipe open is
the one held, and who is about to spawn has none. `TasksOK`: who reconnects or
shakes hands has the lock, and the owner brings the first process up before there
is a caller. `FreshOK`: a process newer than the one a waiting call was sent to is
still shaking hands, or `_generation` has counted it; without it nothing says that
the test of `_reconnect` (line 237) suffices. `MessagesOK`: an id names one request,
in the pipes of every process. From it `LinkStaysHeld`, `AnswersStayOwn`, and the
action property `FreshLinksAreSpared`. Assumed: nothing but that the owner is not
one of the callers. (`StdioInv` was checked by TLC before, with more calls and
processes than the run has.)

**CodeGraph and EventStream.** `CodeGraphInv`: who waits is in the lock's queue once
and who calls the server is its head (`QueueOK`); a stream has given all its turn
made but the event in flight (`StreamOK`); and, unless `overtaken`, what there is,
or comes of a call under way, is of the time of every refresh that has forgotten
the old index (`FreshOK`). From it `StreamsLeaveNothing`, `RefreshesAreFresh`, and
the action property `IndexesOnce`. Assumed: the tasks that refresh are not turns
(they are requests of the server).

**Recall.** `RecallInv`: an entry is stored once, by a request whose indexing has not
begun, and its vector row is there before its lexical row is made (`AppendedOK`);
background work that a close does not wait for was stored after it began, and the
client is closed last (`DrainOK`); only the request whose value a key has may be
storing the key's text (`KeysOK`); and what A4 is asked about no user has annotated,
or did meanwhile, or left as if untouched (`AskedOK`). From it `RecallStaysSound` and
the action property `AnnotationsStay`, for any number of requests, keys and earlier
reminders, synchronous or in the background, with and without a lexical layer.

The order of what is recalled, `BestFirst`, needs the lemmas on the operators. A set
listed by a strict total order (`Ordered`) has each member once, and a member before
another exactly if the order says so (`OrderedLists`; the rank of a member is the
number of those below it, which grows along the order, `RankGrows`). The fused
ranking is such an order because two hits with one score came at different places
(`LayersFound`, `RankingOrders`), and a hit that both layers rank above another has
the larger share of each (`ShareShrinks`, `AboveRanks`); cutting to the best `K`
keeps what stands before a hit that is kept (`HitsRanked`). Assumed: a query ranks no
text twice, the ids of entries and keys differ, and `Scale` is a common multiple of
60 to `59 + K`, so that the shares are whole numbers (`WholeShares`).

**ProjectZones and ModelClient.** `ZonesInv`: the queue of a zone's lock has no task
twice, and the one that writes is its head (`LocksOK`); unless a project is in
`raced`, its requests have the zone that is cached, a clear is alone, an edit has
read what is stored, and what is stored is `ideal` (`ZoneOK`); a listing has found
what it must, or has it before it (`ListOK`); and at most the client in use is open
(`ClientOK`). From it `ZonesStayTrue` and `ClientStaysOpen`. Assumed: sanitizing an
id twice is sanitizing it once.

**Only model-checked.** Liveness (fairness and `ENABLED` are outside the prover), and
with it the liveness of `ReadGate`. Every safety invariant and every action property of
a passing run is a theorem. With two conversations a source may be mined twice
and an intent have two rules (section 5, 6): that is what `excused` stands for, and the
theorems say that nothing else does it.

## 5. What the code does that its texts do not say

The first is a run; the others were met while modelling, and are what the guards
and exemptions above keep apart from the properties.

1. **A cold read undoes an append** (`HybridColdRead`). `HybridBackend.get`
   misses, awaits the row, and stores what it read in the cache without looking
   again. An append that finished meanwhile is hidden, and the next append writes
   the shortened history to disk. `base.py:349`: the lock "Serialises the
   read-modify-write cycle in append_history so concurrent turns cannot lose
   entries"; reads take no lock.
2. **A cancelled append overwrites a later one.** The lock is released when the task
   is cancelled, the thread with its statement goes on (`sqlite_backend.py:60`).
3. **disconnect is not final.** `_closed` is read before the backoff, the teardown
   and the spawn (`mcp_stdio.py:240`), against the comment at line 84, "Set by an
   intentional disconnect() so a late in-flight request can't resurrect the
   subprocess".
4. **Concurrent calls of one server are refused.** Both read the same
   `StreamReader` (`mcp_stdio.py:277`), while `agent.py` gathers tool calls "so
   they run concurrently".
5. **Turns are consolidated unmined.** The window of extraction keeps turns
   *pending*, "mined on a later pass, never silently dropped" (`base.py:1033`);
   the consolidation of the same turn (`framework.py:614`) does not ask.
6. **Two rules for one intent.** Turns overlap, and `evolve` checks before its model
   call only (`base.py:1126`: "Intents already evolved into a ``case`` are
   skipped, so re-runs don't duplicate"). Extraction and synthesis have the same
   shape across conversations.
7. **The first profile forgets the newest turns.** The prompt is cut from the front of
   the history (`base.py:1258`), the profile is newer than all of it, and
   `only_new` starts from there; line 1237 says "The first synthesis (no profile
   yet) still folds everything".
8. **A revoked grant can live on.** An integration reconnected read-only while an
   apply rebuilds the instance (`app.py:1169`) may come up with the grant it had
   before, although mutating tools "are withheld from the agent entirely"
   (`integrations.py:174-181`). Likewise an integration disconnected meanwhile may come
   back: `_disconnect_mcp` (835-859) forgets what is saved, while
   `_reapply_integrations` (702-723) goes on with the list it copied and with what it
   has read of it.
9. **A stream remembers its advisory.** `wp1.py:797` stores what it emitted, the
   advisory included; lines 336-338 say that the advisory "never re-enters memory".
10. **A failing adjudicator is not a denial.** `access.py:275` says "An access gate
    must fail closed"; the error of the model call itself is not caught, the
    request raises, and the trail has nothing of it.
11. **Recall uses up reminders.** `skills.py:88-91` spares push-eligible entries, but
    judges by the copy in the index, made without its dimensions; `reinforce` then
    stamps the stored reminder, whose id the hit has (`base.py:777-778` takes ids
    of hits to be synthetic).
12. **Capabilities.** `reload_terr` lets a switched-off Terr be on while its servers
    connect (`framework.py:1156-1168`, "stays off across the swap"). `add_mcp` and
    `start_codebase_memory` keep a client whose listing failed (1008, 1215), so a
    retry connects a second. `open_terr` stops at the first `disconnect` that
    raises (1073).
13. **Projects.** The inference writes back metadata it read before A1 was asked
    (`project_intelligence.py:96`), and `clear_project` forgets a registration or an
    object that another request has just renewed (`project.py:356`).
14. **Indexes.** Nothing is pruned when entries are forgotten, evicted or
    consolidated, so recall may return what is gone, and the broker hand it out
    (`base.py:701-730`, `access.py:206-219`). `close` waits for the indexing
    that was in flight and not for what is stored after that.
15. **Markdown.** Two threads that write one entry share `<id>.md.tmp`.
16. **Usage.** `last_usage` is a field of the model's client; a turn captures what
    another's call left there (`wp1.py:105-112`).
17. **A dead server stays connected.** The status asks for the handle
    (`app.py:735, 763-768`), which a crash leaves in place: with no reconnect attempts, the default,
    "the client stays dead" (`mcp_stdio.py:44-49`) and is shown as connected.
18. **Timeouts do not bound a request.** "``initialize`` and ``tools/call`` are both
    bounded by this" (`mcp_stdio.py:40-43`), but the wait for the server to read
    (268) is not, and in a handshake it keeps the reconnect lock.
19. **A turn can fail and be remembered.** With synchronous indexing an error of the
    embedding service leaves `append_history` after the entry is stored
    (`base.py:610-618`); the user sees an error, and the next turn recalls the answer.

A design limit: `base.py:573` says pins are never evicted, while `_evict` keeps
only the most recent `limit` pins when pins alone exceed it, as its own docstring
says; and with `limit` pins the entry just appended is the one evicted, though
`append_history` returns it as stored. Summaries, profiles and rules are all
created pinned and nothing retires them, so a long-lived area gets there.
`PinsSurvive` carries the exception.

## 6. Not modelled

* *Whole components.* Configuration and types (`config.py`, `types.py`), prompts
  (text), the network policy and the builtin tools (pure functions, or one call to
  an operating system or a service each), the embedding client beyond being open or
  closed, the web and desktop clients (other programs).
* *In the memory area.* Contents of entries and prompts: ids stand for them. Time is
  a counter that each reading advances, so no two readings are equal (the code's
  may be; entries made by one pass share their time in `MemoryPasses`, where it
  matters). Keys other than the history, except those of `remember`. `annotate`
  outside `MemoryPasses` and `Recall`; the fact cap, `max_skills` and the order of
  evolve's clusters.
* *In recall and 4D.* Recall by tags, the order of activations, the embedding
  client's cache, WP4's audit log, the `configure_4d` switches other than the
  broker's, reannotation of everything, manual extraction. The ranking is that of
  fused reciprocal ranks, computed without rounding.
* *In the Markdown store.* Keys that are not histories, and the frontmatter.
* *In turns.* Token usage; the texts of errors; a validated stream counts as
  buffered, which it is until its check; the run has one turn (section 3).
* *In the registry and the server.* Skills that only wrap operations, request
  validation and endpoints that read; a second `connect` of a connected MCP client;
  cancellations of `close`, and of the requests of `Server`. A cancellation of `open_terr`
  or `add_mcp` is the same step as a failure (`Fails`). The health of a server: a
  status shows a connection, not a live process; and the code graph's client, which
  reconnects (`mcp_catalog.py:116`), counts as alive while it can.

## 7. Running

In this directory, `tlc -workers 2 -config Area.cfg MCMemoryArea`, and so on:

| Configuration | Module | | Configuration | Module |
|---|---|---|---|---|
| `Area` | `MCMemoryArea` | | `Registry` | `MCTerrRegistry` |
| `HybridLayers`, `HybridColdRead` | `MCHybridStore` | | `Server` | `MCServer` |
| `Markdown` | `MCMarkdownStore` | | `StdioReconnect` | `MCStdioMCP` |
| `Recall` | `MCRecall` | | `CodeGraph` | `MCCodeGraph` |
| `Passes` | `MCMemoryPasses` | | `Zones` | `MCProjectZones` |
| `Workflow` | `MCWorkflow` | | | |

`tlapm Memory_proofs.tla`, and likewise the other modules of proofs.
`PROJECT.json` maps each definition to the lines it models.

## 8. Left to do

In this order:

1. An abstract specification of a project's metadata (an atomic map), which
   `ProjectZones` implements while `~raced`, in place of its variable `ideal`.
2. A run of `Passes` with two conversations. The gates and windows multiply its states
   beyond what a run may take; the theorems cover it.
3. The operations that `PROJECT.json` names as left out of components modelled in part.
