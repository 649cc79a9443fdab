# A TLA+ verification project for overhang

overhang serves mixture-of-experts models too large for memory: a daemon
(`daemon/`, Rust) offers an HTTP API and runs one inference engine at a time
(`engines/`, C) as a child process, which streams expert weights from disk
through a small cache. A desktop app (`app/`, Rust) talks to the daemon. All
paths below are relative to `src/`.

`PROJECT.json` is the machine-readable index: components, runs, the lines each
definition models, hazards, findings, theorems.

## 1. The system

| part | state | operations | talks to |
|---|---|---|---|
| engine handle, `daemon/src/engine.rs` | `proc`, `next_id`, `history`, `model_dir`/`engine_bin`, `SharedStatus` | `load`, `spawn`, `eject`, `mark_down`, `generate`, `generate_once` | the engine's pipes; the handlers, through one `tokio::sync::Mutex` |
| handlers, `daemon/src/server.rs` | `AppState`: the mutex, `tok` | chat (blocking, streaming), `/engine/load`, `/engine/eject`; `/status`, `/system`, `/v1/models`, `/events` | clients; `Engine`; `ChatCtx` |
| chat, `daemon/src/chat.rs` | `StreamDecoder`: ids, previous text | `push`, `strip_stop`, `Template::render` | tokenizer library |
| containers, `daemon/src/models.rs`, `config.rs` | none (files) | `scan`, `inspect`, `verify_container`, `engine_for`, `model_root` | file system |
| hardware, `daemon/src/system.rs`; wiring, `main.rs` | facts read once | | |
| serve loop, `engines/{qwen,olmoe,gemma}.c` | position, KV cache, recurrent state | request, refuse, prefill, decode, `done`, `stop` | stdin/stdout, `PROTOCOL.md` |
| expert cache, same files | per layer: slots, `used`, the model's clock | `expert_get`; per-token use, batch union | safetensors reads |
| speculative decoding, `engines/gemma.c` | `hist`, `hlen`, `pos` | `ngram_draft`, batched verification | serve loop |
| MLX shim, `engines/bonsai_mlx.py` | `cache`, `history` | the same protocol | mlx_lm |
| storage, `include/st.h`, `json.h`, `tier.h`, `compat.h` | tensor index, descriptors | `st_init`, `st_find`, reads | files |
| Metal, `metal/om_metal.mm` | arena, weight cache, scratch buffers | `omm_alloc`, `omm_moe_act`, `omm_dense` | GPU |
| app backend, `app/src/api.rs` | `Shared`: messages, generating, loading_model, capacity, latches | command loop, `run_chat`, `load`, `eject`, `fetch_status`, events loop | HTTP, WebSocket, views |
| views, `app/src/views`, `egui_legacy` | fingerprint of the last paint | button gates, optimistic eject | `Shared`, command channel |
| tools, run scripts | | conversion, oracles, benchmarks | |

What is hard in it, and what correctness means, part by part:

* **Warm-append.** The daemon keeps in `history` what it believes the engine's
  context is, and sends only a suffix when a prompt extends it. Two processes
  hold two copies of one fact and update them at different moments; refusals,
  retries, timeouts that drop a future, and engine deaths come in between. It is
  correct when a caller cannot tell it from decoding every prompt from scratch.
* **Serve loop.** Lines are read between jobs only. It is correct when any
  pipelined series of lines is answered serially and completely, and no series
  makes the context outgrow its allocation.
* **Lifecycle.** Chat, load and eject interleave at one mutex; load changes three
  things (selection, process, tokenizer) with awaits in between, at each of which
  it may fail or be dropped. It is correct when process, selection, tokenizer and
  status agree whenever they are used, no process is orphaned, and a hung engine
  does not wedge the daemon.
* **Expert cache.** A slot returned stays valid only until the next eviction. It
  is correct when what a layer computes with is what it asked for.
* **Stream.** Text is decoded again with every token, cut at stop strings, diffed,
  sent as lines, received in arbitrary chunks. It is correct when the transcript is
  what the blocking endpoint would have answered, and every answer ends.
* **Containers.** `/status` lists directories, `/engine/load` verifies one, the
  engine opens it, and all the while it may be half copied. It is correct when what
  is listed can be asked for, and what is verified can be opened.
* **App.** A command loop, an events task and a window share `Shared`; replies are
  stale when they arrive, views gate buttons on flags the backend sets later, and
  paint only when a fingerprint changes. It is correct when an answer goes into its
  own message, the flags tell what the backend does, nothing on the screen is
  stale, and the app's picture of the daemon becomes right.
* **Speculative decoding**: same tokens, same context as greedy decoding.

The `hazards` list of `PROJECT.json` gives each of these at its line, with the
properties that cover it, or a note where they cover it in part or not at all.

## 2. Modules

```
EngineServe ----> WarmAppend ----> MCWarmAppend      (WarmAppend, WarmDrop,
     |                |                                GemmaHistory)
     |                +--refines--> StatelessDecode
     |                +----> WarmAppend_proofs
     +----------> ServeProtocol -> MCServeProtocol   (ServeProtocol)
                      +----> ServeProtocol_proofs
EngineLifecycle                                       (Lifecycle)
     +----> EngineLifecycle_proofs
ExpertCache                                           (ExpertCache, BatchUnion)
     +----> ExpertCache_proofs
SpecDecode -----> MCSpecDecode                        (SpecDecode)
     +----> SpecDecode_proofs
ChatStream -----> MCChatStream                        (ChatStream, StreamRenders)
     +----> ChatStream_proofs
Containers -----> App ----> AppViews ----> MCAppViews (App, HalfCopied)
                                |
                                +----> AppViews_proofs
InductionLemmas: used by the proofs of ExpertCache, SpecDecode, ServeProtocol
                 and ChatStream
```

Definitions commented `Mutant` are deliberately wrong variants of the definition
that follows them. No specification uses them; each one is substituted for its
original to see that the property listed with it in `PROJECT.json` is violated.

### EngineServe
One engine process. `stdin` and `stdout` are its pipes as sequences of lines,
`kv` the token ids its caches stand for, `job` the request in work. A forward pass
is abstracted to the context it consumes; `Decode(ctx)` is the set of tokens that
may be the arg max after `ctx` (a set, since two builds may break a tie of float
sums differently). `AnswerStop`, `Refuse` and `Accept` are the branches taken when
a line has been read, `Emit` a turn of the decode loop, `Finish` the `done` line,
`Exit` the process's end; what it had flushed stays readable. The three engines
differ in `Slack` (gemma keeps `SPEC_K` positions free) and `FeedsLast` (qwen and
olmoe step the network on an answer's last token, gemma leaves the loop first).
`PROTOCOL.md` rules out neither. In the models, ids are handed out from 1 and
`id = 0` marks "no job"; the daemon's `next_id` starts the same way.

### WarmAppend
EngineServe with `Engine::generate` and `generate_once` at the other end. `Begin`
decides warm or cold and writes the request (`BeginOnDead`: the write fails;
`BeginWithSpawn`: there was no process; `SpawnFails`). The read loop is one action
per kind of line: `ReadStale` (another id), `ReadTok`, `ReadDone`, `RetryCold` and
`FailOnError` (an error line), `ReadEof`. Each includes what `generate` does after
`generate_once` returns without an await in between: setting or clearing `history`,
`mark_down`. `DropCall` is the dropped future: at `REQUEST_TIMEOUT`, with no code
run. `EjectDropped` is an eject whose client has gone. A line is written and read
whole; a half-written line is a listed hazard that is not modelled. Requests are
serial, as the mutex makes them; EngineLifecycle is about the mutex.

A cold retry after a refused warm append is, without dropped calls, refused again:
the two requests need the same room. It helps only when the engine's context is
not the history.

### StatelessDecode
What `generate` promises: the greedy continuation of the whole prompt, complete
when it is reported done, or a failure. It has no engine, no history and no
context. WarmAppend implements it under a refinement mapping that hides the
request id and the warm flag of the call.

### ServeProtocol
EngineServe with a client that pipelines any requests and stop lines, which the
daemon never does. The reference `Replies` computes the answer to a series of
lines one whole request after the other, with a fold. In it, as in the code, a
stop line is read after the request it names has ended and gets a second `done`
line, where `PROTOCOL.md:39-42` has it accepted mid-generation. The runs use
a network without ties for it.

### EngineLifecycle
One task per HTTP request, one action from each await to the next. `waiters` and
`holder` are the FIFO mutex; `selected` is `model_dir`/`engine_bin`; `saved` is
`prev` of `load`; `proc`, `booting` and `reaping` are the child in `Engine.proc`,
in `spawn()` before its ready line, and in `eject()` at `wait()`. `child` is the
operating system's view: killed is `dying` until torn down. A generation only
holds the mutex and ends somehow. The checks of `load` before the lock change
nothing and are part of `Arrive`. Chat futures are dropped by `REQUEST_TIMEOUT`
only (the streaming one is a spawned task; a client that leaves a blocking chat
has the same effect as its timeout); load and eject futures by `Disconnect`, when
their client goes away. A load dropped in its spawn keeps the new selection and the
old tokenizer, against `server.rs:304-306`, and a dropped eject leaves the status
up. `abandoned` records that this has happened and no load has succeeded since: the
properties require agreement where it is false, and what is left of it where it is
true. `Child` names processes, and a spawn needs a name that is free.

### ExpertCache
One layer's `LCache`. `Get` is `expert_get` with `i` the slot it returns; `Step`
uses the slot at once (qwen always, olmoe on the CPU); `BeginBatch`, `Collect`,
`Compute` are the union of a batch (gemma always, olmoe's GPU prefill): slots of
all the experts chosen, in increasing number, then the computation. A slot's
weights are the expert they are of. `recent` records accesses for the properties.
The model's clock is shared by all layers; one layer sees an increasing
subsequence of it, and only its order matters. `Cap >= 1` is an assumption:
olmoe and gemma enforce it, qwen takes `QCACHE` as it is.

### SpecDecode
gemma's serve loop in the detail EngineServe leaves out: `hist` and the n-gram
draft (`Draft`), the batched verification and the rollback of `pos`. One action is
one iteration of the decode loop: `Leave`, `Step` without a draft, `Verify` with
one. `kv` keeps the tokens written by a rejected draft beyond `pos`. `row` is the
context behind the logits in hand. `start`, `n` and `out` record the answer for the
properties. `hist` may outgrow `max_t` here as it does in the code: it gains a token
on the context per answer, and the check looks at the context (a listed hazard). Stop lines and pipes are EngineServe's; requests come one after the
other. `Speculates` is `GEMMA_SPEC=1`.

### ChatStream
One streamed answer. A token is a sequence of bytes, a character one or two bytes,
so a token may begin or end inside a character; `Lossy` is what tokenizer and
`from_utf8_lossy` make of such bytes. `Generate` is `on_tok` with
`StreamDecoder::push`; `Finish`, `TimeOut` and `GenerationFails` are the three ends
of the SSE task, each with `[DONE]`, and `Abort` is the daemon's end. `body` holds
the bytes sent and not received, `Receive` takes any number of them and feeds
`run_chat`'s line buffer. JSON, the `data:` prefix and keep-alive comments (lines
that `run_chat` passes over) are left out. `Blocking` is `blocking_completion` for the
same tokens, the reference for the properties. Special tokens are text, as with
`decode(ids, false)`.

### Containers
A container as a directory of files that may be missing or cut short: `Listed`
(`scan`), `Readable` and `Fits` (`inspect`), `Verified` (`verify_container`), `Opens`
(`st_init`) and `Boots` (whether the reads at start-up meet a cut shard: they may or
may not). The RAM estimate is an amount that grows with the shards whose header can
be read. Names, engines by model type and the QCACHE cap have no state.

### App
The app's backend over the daemon's HTTP API. `at` is the await the backend is in:
the command channel, one of its requests, or a chat's stream. A request is sent by
one step, served by another (`/status` by two, since it reads the model and the up
flag one after the other) and taken in by a third; commands wait in `queue`. The
daemon is `older` if it lacks three of the routes. `RequestFails` is the client's
connect failure or its 300 s, after which the daemon may or may not have acted.
Loads check the container, then eject, then boot. `Happens` is what the app does not
do: the daemon stops, hangs, starts; others load, eject and chat; containers are
copied and removed. `events_connected`, figures, `last_error` and the system report
are left out. The transcript keeps of a message its author and whether it is
empty, text or an error; ChatStream has the text.

### AppViews
The window. The operators from `Slot` to `Screen` say what is painted of a `Shared`
`s` on tab `t`, `Controls` which controls that offers, `Fingerprint` what
`fingerprint()` hashes of it. `painted` are the controls on the screen; a click acts
on a control that is painted, but on the `Shared` of its moment. `MaybeNotify`
over-approximates the repaint: `last_fp` is not kept, the window may lag behind for
any time and then paints; that the comparison of fingerprints passes no difference
over is what `FingerprintCovers` says. Stats has figures only and is left out.

Not in `Screen`, and painted by the code without being hashed (`views/mod.rs:100`
says "everything"): `last_error` on the "not running" pane (`mod.rs:410`), a row's
sizes (`library.rs:216`), the number of installed models on the System tab
(`system.rs:156`), and on the Stats tab the sparkline once its history is 240 long
(`mod.rs:151`, `api.rs:505`). They are stale until something hashed changes.

## 3. Runs

| run | checks | shows |
|---|---|---|
| WarmAppend | `TypeOK`, `HistoryIsState`, `Conversation`, `IsStateless`, `CallEnds` | qwen/olmoe, engine deaths, no dropped calls: warm-append is invisible to callers |
| WarmDrop | `ColdExact`, `OneAnswerPending`, `IdsInOrder`, `ContextBound`, `CallEnds` | gemma, calls dropped at any await, deaths, hung engines: what survives even then |
| ServeProtocol | `AnswersAreSerial`, `AllAnswered` | any three pipelined lines, death at any moment |
| ExpertCache | `TypeOK`, `BatchIntact`, `HoldsTheRecent` | batches that fit |
| SpecDecode | `TypeOK`, `GreedyEquivalent`, `ContextIsConversation`, `KvFits` | speculation on, series of warm and cold requests |
| Lifecycle | `TypeOK`, `TokMatchesEngine`, `OneSelection`, `StatusAgrees`, `NoOrphan`, `IInv`, `RequestsEnd` | two requests, any handler dropped at any await, engines that die or hang for ever |
| ChatStream | `TypeOK`, `StreamedIsBlocking`, `StopNeverShown`, `NothingInvented`, `TranscriptIsStreamed`, `AnswerEnds` | tokens that split characters and stop strings, every cut of the body into chunks, hung engine, broken connection |
| App | `TypeOK`, `OwnAnswer`, `FlagsTell`, `FingerprintCovers`, `LoadsFound`, `RefusesMissingShards`, `BackendReturns`, `Converges` | two clicks and one outside event in every order, old and new daemon, up or down at the start |

Four runs end in a counterexample, each about a statement of the repository:

| run | statement | what the code does |
|---|---|---|
| GemmaHistory | `engine.rs:100-103`: history is what the engine's state represents | gemma's context lacks the last token of the answer |
| BatchUnion | `gemma.c:635-636`: experts loaded for this layer are not evicted | they are, during the collection, when the union exceeds the slots |
| StreamRenders | `chat.rs:123-125`: characters of several tokens render correctly | the first part is sent as U+FFFD, after which the completed character is not an extension of what was sent, and is dropped |
| HalfCopied | `server.rs:274-276`: half-copied containers are refused before ejecting | a shard cut in its data has a good header and passes; the working engine is gone |

`StreamedIsBlocking` therefore speaks of tokens of whole characters, and
`RefusesMissingShards` of containers with an index whose shards are missing or cut in
their header; `TranscriptIsStreamed` leaves out chunks that end inside a character,
which `api.rs:436` decodes by themselves.

Deadlock is checked except in ServeProtocol, where the client stops
after `MaxSent` lines, ExpertCache and BatchUnion, where `MaxClock` ends the run, the
ChatStream runs, which end with the answer, and the App runs, where a backend may
wait for a user who has stopped clicking.

**Bounds.** WarmAppend: two tokens, one of them end-of-sequence; `MCDecode` depends
on every position of the context, with ties, so a wrong context shows in tokens.
Prompts are long enough to extend an earlier prompt with its answer; `MaxT = 6`
(`MaxT = 7` with gemma's slack) refuses the longest prompt with the largest budget,
warm and cold; `MaxId = 3` gives a first call, a
call that extends it (or is abandoned), and one after that. `MaxId` bounds only the
requests written, in the guards of the `Begin` actions; the one cold retry may
exceed it. WarmDrop has fewer prompts because abandoned jobs multiply the states.
ServeProtocol: three lines are a request, one that depends on its context, and a
third to suffer from the second; `MaxT = 5` with `Slack = 1` refuses even some
requests that reset. ExpertCache: five experts over three slots, six accesses, so
that a full cache evicts twice and a batch both hits and replaces; BatchUnion has
one slot too few. SpecDecode: the choice depends on the last tokens and the length,
so that drafts of up to two tokens are rejected, accepted in part and in full, with
an end-of-sequence at each place; `MaxT = 14` just admits the longest request.
Lifecycle: two tasks are a holder and a waiter, of any two kinds; two containers; two
process names, one live and one being torn down. (The invariants also hold with three
tasks, 849 thousand states.) ChatStream: whole characters, both halves of a wide one, a
second half with a character behind it, a stop string as one token and as two, and a
second stop string that begins like an answer; `MaxTokens = 3` is a character in two
tokens with one before or after it. (With four tokens and a stop string that begins
again inside itself the invariants hold as well, 1.4 million states; without the
second, `NothingInvented` once said too much: of a stop string `a>a` the stream may
have shown `a` twice.) App: `MaxClicks` = 2 is a click and one made before
its consequences are in (send then eject, load then send, refresh in between); `MaxEvents` = 1 is one event at any moment of those; two containers, of
which the other may be missing its config.json and a shard (in HalfCopied, the end of
a shard); `Budget = 2` is both shards, so that every row fits.

**Fairness.** `FairSpec` of WarmAppend: the daemon's task is polled when a line or
end of file can be read, and a live engine works on. `HungSpec` assumes nothing of
the engine, only polling and the timer: `CallEnds` then rests on
`REQUEST_TIMEOUT`. EngineLifecycle: a task that can go on does (for a spawning
one, spawn's 300 s limit guarantees it), `REQUEST_TIMEOUT` fires for chats, and
the kernel tears down what was killed. No fairness is assumed of clients, of
engines' deaths, or of engines becoming ready or finishing. ServeProtocol: the
engine works while it lives. ChatStream: `REQUEST_TIMEOUT` fires and bytes sent
arrive; nothing is assumed of the engine. App: a live daemon serves the request it
has, and the backend's thread goes on, for which it has a reply, the poll's timer or
the client's timeout (`RequestFails`, `StreamFails`). Nothing is assumed of the user,
of the outside world or of the events task: `Converges` rests on polling.

## 4. Proofs

All theorems hold for every value of the constants, under the named assumptions of
the modules (`EngineAssumption`, `DaemonAssumption`, `ClientAssumption`,
`LifecycleAssumption`, `CacheAssumption`, `SpecAssumption`, `StreamAssumption`,
`AppAssumption`, `ViewsAssumption`: types of the constants, at least one slot, `None`
is no member, stop strings are not empty and have no replacement character, the
event syntax is no text).
Every safety property and every action property the passing runs check is proved.

* **WarmAppend_proofs.** `TypeCorrect`: `[]TypeOK`. `ContextBounded`:
  `[]ContextBound`, with dropped calls, deaths and both kinds of engine; the
  inductive invariant `Room` bounds the context plus the tokens still to come, and
  gives a job at least its printed tokens.
  `ColdIsExact`, `OneAnswer` and `IdsOrdered` hold in the same generality. They speak
  of one call, and become inductive only together and with what is in the pipes,
  abandoned jobs included: `Wire` says that ids ascend from what is printed through
  the job in work to what is unread, none ahead of `nextId` (`InOrder`); that the
  current call has exactly one answer unread, in work or printed (`Pending`); and,
  for a cold call, that what has been read and what is printed and still to be made
  are one greedy answer to the prompt (`Cold`).
  `ConversationHolds`, assuming
  `FeedsLast` and `~CanDrop`: `Conversation` is inductive on top of `TypeOK`. It is
  needed because `HistoryIsState` speaks of moments between calls and says nothing
  of how a call gets there: `Conversation` ties the unread lines in the pipe to the
  tail of the engine's context in each phase of a call (unread, decoding,
  answered, refused). `HistoryCorrect` and `Refinement` (`IsStateless`) follow from
  it. GemmaHistory shows that the first assumption cannot go; with `CanDrop` a timeout
  leaves `history` behind the engine's context, and both fail.
* **ServeProtocol_proofs.** `SerialAnswers`: `[]AnswersAreSerial` for any series of
  lines, assuming `Deterministic` (one arg max after each context). The hypothesis is
  in the property, not in the proof: the reference chooses one answer and can be
  compared with another only if there is no other; the run's network is of this
  kind. `IInv`: for some `k`, the first `k` lines sent have been replied to in full,
  the rest is unread, and if a job is in work what it has printed is the beginning of
  reply `k`. That the reference's `CHOOSE` has an answer to choose, and that an answer
  is unique as far as it goes, is shown by induction on the tokens left
  (`AnswerExists`, `AnswersAgree`).
* **EngineLifecycle_proofs.** With handlers dropped at any await: `TypeCorrect`
  (types and `Ownership`), `NoOrphans`, and `Coherent`: `IInv` is inductive on top of
  the types. `Coherence` says, step by step of a load or an eject, where selection,
  tokenizer and status may differ, and what is left of their agreement once a client
  has abandoned one. `TokenizerCoherent`, `SelectionCoherent` and `StatusCoherent`
  follow from it.
* **AppViews_proofs.** `TypeCorrect`: types, with `RepliesFit`, which says what kind
  of reply a request may have. `FingerprintFaithful`: `Screen(s, t)` is a function of
  `Fingerprint(s, t)` for any two states (`FingerprintDecides`), hence no step changes
  the one and not the other. `FlagsHonest` and `AnswersOwned` are inductive with the
  types; for the second, that nothing but a chat's start and a Clear that finds
  nothing generating changes the number of messages. `ListedIsFound` (`LoadsFound`)
  needs `OffersFindable`, because a load travels far before it is answered: every
  container in a row the app knows or is about to be told of, behind a painted button,
  in a command sent or in the request in flight is on disk or has been removed.
  `MissingShardsRefused` (`RefusesMissingShards`): what passes `verify_container` with
  an index can be opened, and nothing else of a load takes an engine down.
* **ExpertCache_proofs.** `TypeCorrect`. `BatchKept`: `[]BatchIntact` if
  `MaxUnion <= Cap`. The invariant orders the slots by age: those collected by the
  batch are younger than all others, so as long as collected and wanted experts
  together are at most `Cap`, the least recently used slot is not one of them.
  `RecentKept` (`HoldsTheRecent`): by `Ages`, a slot's `used` is the time of its
  expert's last access, whatever is cached is younger than whatever is not, and a slot
  is free only if nothing was evicted; the counting at the end is the pigeonhole.
* **SpecDecode_proofs.** `DraftsInvisible`, `RollbackIsExact` and `BatchesFit` are
  inductive together with the types and `Room`: an iteration that goes on has tokens
  left, of which a draft takes all but one. Of an iteration with a draft, every token
  accepted is compared with the arg max of its row, whose context is the conversation
  up to there, and the rollback with the answer so lengthened.
* **ChatStream_proofs.** `TranscriptExact`, `StopsHidden`, `EndpointsAgree`,
  `SaidOnce`, for any vocabulary, characters and stop strings. The text operators first: decoding and
  encoding of a concatenation, where no character is cut (`Lossy`, `Encode`), and the
  parser run over one (`Run`). Then the invariant `IInv`. For the app (`Reading`): there
  is a parser `v` that reads the same body without cuts, and the half of a character
  `h` that the last chunk ended in. What is to come, after `h`, takes `v` to exactly
  what was streamed (`Fine`: over a beginning of it at every character), and the real
  parser differs from `v` only by replacement characters (`Sim`): what it shows ends
  as what `v` shows ends, after a replacement character (`Tailed`), so that it has no
  stop string if `v` has none. If no chunk was cut, the two are one. For the decoder
  (`Decodes`), in the same way: what is streamed ends as what is decoded ends, which
  is what makes the cut at stop strings reach what was already sent.
  `EndpointsAgree` adds that an old stop string stays the first one and a new one
  begins after all that was sent (`StripMore`).
  `SaidOnce` (`NothingInvented`) needs to know what of a stop string may have been
  shown before it was complete: some beginning of the decoded text is free of stop
  strings and has all that was streamed as a subsequence (`Said`). One more token
  adds to the text or completes a character; then the last replacement character
  goes, which what is shown has no part of (`EmbedsPlain`). A text without the first stop
  string reaches beyond what is kept by less than that stop string (`SaidIsKept`).
* **InductionLemmas.** The library's induction theorems take a predicate, which the
  provers cannot instantiate. Over natural numbers a set does as well, and follows
  from a theorem about sets (strict inclusion of finite sets is well-founded). With it
  folds, `FlattenSeq` and `CHOOSE` can be reasoned about: each proof exhibits
  the function the fold is made of, and goes by induction on the length.

Only model-checked: all liveness (`CallEnds`, `AllAnswered`, `RequestsEnd`,
`AnswerEnds`, `BackendReturns`, `Converges`), which rests on fairness and `ENABLED`,
out of the prover's reach.

## 5. Plan

Done, in this order: EngineServe, WarmAppend with StatelessDecode, EngineLifecycle,
ServeProtocol, ExpertCache, SpecDecode; then ChatStream, Containers, App, AppViews and
dropped handlers in EngineLifecycle; then the proofs of all of these. Next:

1. **Storage**: the hash index of `st.h` (termination and correctness of probing),
   the tier helpers with 32-bit counters, the context check in `int` width.
2. **MLX shim**: the fourth serve loop against ServeProtocol's reference.
3. **Pipe**: request lines written in pieces, and a handler dropped between two.
4. Proofs: an abstract specification of the streamed answer that ChatStream
   implements.

## 6. Not modelled

Forward passes and GPU kernels (floating point; the models keep only which context
they consume), converters and oracles, run scripts, `json.h`, `compat.h`,
`system.rs`, `main.rs`, the Stats tab, `egui_legacy`. Of parts that are modelled: the
chat templates and the tokenizer (formatting; a library), `model_root`, `engine_for`
and `effective_qcache` (functions of names and numbers), the contents of `/events`.
Token statistics, formatting and logging are left out everywhere. The parts of
section 5 are not modelled yet.
