# rkmodel-server in TLA+

A verification project kept beside the rkmodel-server source: TLA+ modules of
the daemon and its frontend, TLC configurations that check them on small instances,
and TLAPS proofs for every instance. Line numbers refer to the files under
`src/`; `PROJECT.json` gives the lines behind every definition.

Run a check with `tlc -config Worker_live.cfg Worker` (module and
configuration of each run are in the table below), a proof with
`tlapm WorkerProofs.tla`.

## 1. The system

Two processes. The **daemon** (`rkmodel-server`) loads models onto a Rockchip
NPU and serves them over gRPC; speech recognition it hands on to a third
process, rkwhisperd. The **frontend** (`rkmodel-server-openai`) is an HTTP
server with OpenAI's API, and a client of the daemon through
`rkmodel-server-client`. `rkmodel-server-protocol` holds the types and errors
both share.

```text
 HTTP client -> routes -> client -> [gRPC] -> service -> worker thread -> rkllm
                  |                              |
             decoder thread                 pump + reader -> [socket] -> rkwhisperd
```

### Inventory

| Component | State | Operations | Interacts through | What makes it correct |
| --- | --- | --- | --- | --- |
| Worker queue and cancellation (`worker/mod.rs`) | queue of jobs, `current`, cancel flags, event channels | submit, run_job, cancel on drop | sync_channel, mutex, atomics, mpsc per call | an abort hits its own run or nothing; a stream is the run's output in order, whole when it ends with Done; a stopped run has no final event; a leaver frees the worker; every call ends |
| rkllm backend (`worker/rkllm.rs`) | session, `last_prefill` | load, run, abort | callbacks of the runtime | counts of its own prompt only; errors of either kind reported |
| Usage and finish reason (`worker/mod.rs:245-263`) | text callbacks, reasoning tokens | generated_tokens, finish_reason | Done event | counts agree with what was sent; a cut answer is called one |
| Reasoning splitter (`generate/reasoning.rs`) | state, held tail, reasoning tokens | push, finish | called per callback | cutting the output into chunks changes nothing; nothing held without need |
| Sampling and budgets (`generate/sampling.rs`) | none | resolve | called per call | overrides keep every default; budget within the ceiling; no temperature of zero |
| Chat template (`generate/template.rs`) | compiled template | render, strip_special | called per call | what a template refuses reaches no worker |
| Registry and loaders (`registry.rs`, `models.rs`) | state of each model, loaded workers | set_state, check, load_generate | one thread per model, two RwLocks | Ready implies a worker; a failed load stops nobody else |
| Whisper probe (`transcribe/probe.rs`) | last state per model | run | registry | the registry follows rkwhisperd |
| gRPC service (`service.rs`) | none of its own | invoke, invoke_stream, models | worker, transcribe, registry | checks before work; all-or-nothing; a dropped stream cancels |
| Transcription session (`transcribe/mod.rs`) | two tasks, one event channel | start, collect, drop | mpsc, task aborts, sender and receiver of rkwhisperd | no transcript of a truncated clip; nothing outlives its call |
| rkwhisper adapter (`transcribe/rkwhisper.rs`) | socket path | open, send, finish, recv | rkwhisperd's socket | errors keep their kind |
| gRPC client (`rkmodel-server-client`) | channel | invoke, invoke_stream, models | gRPC | a failed upload never looks complete |
| Errors (`protocol/error.rs`, `openai/error.rs`) | none | to status, from status, to HTTP | both boundaries | kind and delay survive |
| Protocol conversion (`protocol/convert.rs`) | none | TryFrom, From | both boundaries | round trips; what is unset or unknown is refused |
| Chat and Responses streams (`routes.rs`, `chat.rs`, `responses.rs`) | open item, open part, text so far | one event per daemon event | SSE | events well nested, last one once |
| Transcription route (`routes.rs:458-525`) | segments, done flag | one handler | decoder, client | 200 only for a finished transcript |
| Audio decoding (`audio/decode.rs`) | resampler, chunk, counter | run, send | blocking thread, bounded channel | nothing lost at block borders; ends with its request |
| Multipart and formats (`audio/mod.rs`) | none | parse, body | called per upload | the first bad field refuses the form; the last of repeated fields counts |
| Configuration, start (`config.rs`, `main.rs`) | the file | validate, token | registry, loaders, probe | the daemon serves only what it can serve |
| Ids, build, tools, SDK test | - | - | - | - |

Hard behaviours: the runtime's `abort` is not scoped to a run and runs are
cancelled from another thread while the worker moves on; event channels fill
and block a thread; drops carry cancellation through two processes; a worker
thread may die with calls queued; the runtime miscounts; rkwhisperd and the
network may fail or hang at any point. The hazards are listed in
`PROJECT.json`, each at its line, with the properties that catch it.

## 2. Modules

| Module | What it is |
| --- | --- |
| `RunStream` | Abstract: what a worker promises the calls it accepts |
| `Worker` | The worker, its queue, channels, cancellation and callers; implements `RunStream` |
| `WorkerProofs` | Type correctness, the scoping of aborts, that a cancelled job in the queue never runs, the four stream invariants of `Worker`, and that nobody waits on everybody and every accepted call comes closer, proved |
| `WorkerRefinement` | That `Worker` implements `RunStream`, proved |
| `Usage`, `UsageProofs` | Token counts and finish reason over runs on one session, and the proofs of its invariants |
| `Reasoning`, `MCReasoning` | The reasoning splitter against a reference definition |
| `ReasoningProofs` | That it agrees with the reference for all markers, texts and chunks, proved |
| `Transcribe` | One upload, from the decoder thread to the HTTP answer, across both processes |
| `TranscribeProofs` | Type correctness, that a 200 is the whole transcript of its audio, that only rkwhisperd can hold an upload up and that every step shortens it, proved |
| `Decode`, `DecodeProofs` | The samples of one upload: blocks, delay, messages and the counter |
| `Protocol` | Operators: results, conversions to and from the wire, errors on their way to HTTP |
| `Registry`, `MCRegistry`, `RegistryProofs` | The file, the loaders, the probe, `check` and the states they publish, and the proofs of its invariants and of what its steps never do |
| `Generate` | Operators: prompt, sampling, budget and splitter of one run |
| `Requests`, `Endpoints` | Operators: what the frontend reads, and what it writes |
| `Serving`, `MCServing` | A call through both processes, composed of the six above |
| `ServingProofs` | That what is sent over the wire decodes to itself, what budgets and conversions give for every value, and that every call keeps its types, checks, budgets, errors, promises of health and shapes of streams, and that its two adapters agree, proved on top of `RegistryProofs` |

`Serving` extends `Registry`, `Generate`, `Requests`, `Endpoints` and through
them `Protocol`: its state is the daemon's models and one call. `Worker` and
`Transcribe` take that call's two long parts apart, the run in its queue and
the upload on its way; `Decode` takes apart the decoder of `Transcribe`, and
`Usage` and `Reasoning` what a run computes.

### Worker

One state machine with two kinds of thread. The worker thread is a program
counter `wpc` over `run_job`: `recv` (waiting for a job), `check` (the flag),
`claim` (before `current` is set), `call`, `prefill`, `decode`, `send`,
`stopping` (in `Backend::run`), `clear` (before `current` is reset), `settle`
(the flag again), `flush`, `report`, and `dead` after a panic. Each call `r`
has a task, `client[r]`: `open` while it reads, then the steps of
`RunHandle::drop` one by one - `flagged`, `aborting`, `unlocking`, `dropping`
- and `gone`. A step is one access to shared state: the channel, the mutex, a
flag. `lock` is the mutex while a cancel is inside it; the worker's own
critical sections are a single assignment and take one step that needs the
lock free.

Events are abstracted to their place in the output: a delta is the index of
its piece, Done the number of pieces the output splits into. That is what
order, loss and wholeness can be said about; the text is not modelled.
`truncated` is the set of requests whose run was stopped early, `sent` and
`final` are what was published; they decide no step.

The refinement mapping reads the stage of a call off the queue, the job and
the client's state. `RunStream` has no bound, lock, flag or backend: runs one
at a time in order of acceptance, at most one final event, a stream cut only
by a crash or for a client that left.

### Usage

One session, one run after another. A step is a callback of the runtime or the
end of a run. The runtime is external and does what MODEL_SERVER.md measured:
it skips the prefill of the prompt its cache holds and then reports zero, it
may report one token short after a prefill of its own, its final callback may
carry no counts, and tokens without text exist. A prompt stands for its number
of tokens. `Remember` is the entry of `last_prefill`.

### Reasoning

The parser as a state machine fed with chunks, beside the whole input and the
whole output. Every emitted character carries the state it was emitted in, so
piece borders do not count and order and attribution do. `Split` is the
reference: the output read one character at a time with all of it at hand.
Markers are assumed non-empty: nothing in `config.rs` checks it, and `push`
does not return on an empty one.

### Transcribe

Seven actors: decoder thread, outbound stream, handler (frontend); response
stream, pump, reader (daemon); rkwhisperd. Between them: the PCM channel, the
request messages, the event channel, the response messages, rkwhisperd's
responses, all bounded. An upload is the number of chunks it decodes to; a
chunk has no content. Cancellation is modelled as the code does it: by
dropping one end of something and by `SessionHandle` aborting both tasks.
`call` is `open` until the frontend answers or the connection is lost.
The end of a request stream (`out = "closed"`) and its loss (`call # "open"`)
are different observations for the pump, which is what the truncated-upload
finding is about. Left out: messages of a transcribe call that carry no audio
(`service.rs:199-205`), which the client never sends. The unary
`transcribe_once` is in `Serving`.

### Decode

The decoder thread's samples as numbers: a sample the resampler writes is its
place in all it ever writes, so that losing, doubling and reordering can be
told apart without a signal. `pc` follows `run`: a packet, `push` block by
block, the messages that are full, and at the end `finish`, the flush with
silence and the last, short message. `skip`, `taken` and `written` are the
fields of `Resampling`; `fed` and `total` are what rubato was given and wrote.
rubato is external and may produce, block by block, whatever keeps it at most
`lag` frames behind its input (`Produces`). `lag` is chosen with the recording
and never looked at, as in the code: it is a matter of the rate, and
`Source::open` takes any rate a header declares. `upto` and `gap` are history and
decide no step. A recording that is at the target rate already takes the
other branch of every choice, as in the code. The same thread's channel, and
what a closed one does to the call, are in `Transcribe`.

### Protocol, Generate, Requests, Endpoints

Modules of operators, one for each function, without state. `Protocol` writes
a generated enum as its number and a oneof as a tagged record, so that the
conversions can fail where the code's do: on a number this build does not
know and on a oneof that is not set. An error is a kind and, for `Busy`, a
delay; messages are left out. `Generate` is what `queue_generate` computes
before it submits: the prompt as the turns given to the template, the
sampling override in tenths, and the budget in an int of `Width` bits, as the
runtime's `i32` wraps. `Requests` lists what a request is refused for in the
code's order, since the first problem is the one a client is told.
`Endpoints` has the bodies and the two event loops; a loop's local variables
are a record, and one iteration an operator on it. Text is the sequence of
pieces it was concatenated from; timestamps are in milliseconds. `Selected`
is an iterator's filter, defined by the rank of the places it keeps and not by
recursion, so that it can be reasoned about.

### Registry

From the file to what `/health` shows. `Start` is `main`: a file that fails
validation, or a token file that cannot be read, ends the daemon. One loader
per rkllm model that generates goes through `template`, `weights`, `insert`
and `publish`; between the last two the worker is there and the state still
says Loading. The probe is one task at place `turn` of the file, which asks
rkwhisperd and reports in two steps, since the registry may be read between
them. `last` is its own memory, on which it decides whether to publish.
`Crash` is the panic of module `Worker` seen from outside: the entry in
`Models` stays, and so does the state. rkwhisperd is external: for each model
it serves, does not, or hangs.

### Serving

One call at a time, with all of `Registry` moving between any two of its
steps; the interference of calls with each other is in `Worker`. `step` is
how far the call is: `frontend`, `rpc`, `check` (one step for each input),
`start`, then `run` for `invoke` or `stream` for `invoke_stream`, and
`answered`. Checking an input and starting it are different steps because a
model can change in between, and `invoke` starts its inputs one after another.
A run is a sequence of events, `script`, chosen when it starts, of the kinds a
run on that model can produce; `CrashUnder` cuts it short, `TakeEvent` carries
one event over the wire and through the endpoint's loop. A hang-up drops the
call at any step. A connection between frontend and daemon that is lost in the
middle of a call is modelled in `Transcribe` only, not here. Clients either go
through the frontend or speak the protocol to the daemon themselves (`kind = "foreign"`), which may send what
the frontend never would: several inputs, an unset oneof, another version.
`answer` is a sequence, `<<>>` until the one body is there, so that no body has
to be told apart from its absence.
`ran`, `played`, `cause`, `cut` and `promised` are history.

## 3. Runs

| Run | Module / configuration | Shows |
| --- | --- | --- |
| `worker_safety` | `Worker_safety` | types; an abort hits only its own run; a stopped run has no final event; a stream is cut only by a crash; streams in order and whole through full channels; `Worker` implements `RunStream` |
| `worker_live` | `Worker_live` | a leaver frees the worker; a request cancelled in the queue never runs; every accepted call ends |
| `worker_prefill` | `Worker_prefill` | finding: a cancel may miss the prefill |
| `usage_counts` | `Usage_counts` | types; counts belong to their prompt and add up; a cut is a Length |
| `reasoning_split` | `MCReasoning_split` | chunking is invisible; only what may be a marker is held |
| `transcribe_upload` | `Transcribe_upload` | types; a 200 is the whole transcript of the audio it counts; nothing outlives the handler, in either process; a hang-up stops the job in rkwhisperd; every upload is answered |
| `transcribe_truncated` | `Transcribe_truncated` | finding: half an upload is answered 200 |
| `transcribe_silent` | `Transcribe_silent` | finding: a stream ends with neither Done nor an error |
| `decode` | `Decode_clip` | types; the samples sent are contiguous; a clip is as long as its recording, but for the end of it that the flush leaves in the resampler, and the counter says so |
| `registry` | `MCRegistry`, `Registry_models` | types; Ready has a worker; the probe's memory is the registry's state; Loading has a loader; loaders settle; the registry follows rkwhisperd |
| `serving` | `MCServing`, `Serving_calls` | types; checks before work, outputs in line with inputs; errors keep their answer; budgets hold; two endpoints read alike; a stream adds up to the unary body, is well formed, and says how it ended; a healthy answer stays true |
| `responses_places` | `MCServing`, `Serving_places` | finding: two output items at place 0 |

### Bounds, and why they are enough

- **Calls.** Two: an abort that goes astray needs a cancelled call and another
  one running, an order of service needs two waiting. The queue takes both in
  the safety run and one in the liveness run, where a call can be refused.
- **Buffers.** Event channel of one or two where the code has 64 and 16, PCM
  channel of one where it has four, so that they fill within one run. `Window`
  stands for whatever HTTP/2 and a socket buffer hold.
- **Callbacks and pieces.** Two callbacks of up to two pieces and a held tail
  on a channel of two, which fills, drains and fills again; in the liveness
  run one callback of two pieces on a channel of one.
- **Uploads.** Up to two chunks and two segments through channels of one: more
  than each buffer holds, and a failure can fall before, between and after.
  The runs of the two findings take one segment.
- **Usage.** Two prompts, budgets one and two and none, three tokens: a run
  can stay below, meet and lack a budget, and runs are unbounded in number.
- **Reasoning.** All texts of up to nine characters over two letters, chunks
  of up to five, markers `aab` and `abab`, which overlap themselves and each
  other more than `<think>` and `</think>` do; a text can hold two of each.
- **Samples.** Three frames in for two out, blocks of eight frames, a delay of
  two, messages of three samples, recordings of up to forty frames in
  packets of none, one, four or eleven: packets end short of a block, on it and
  past it, so do blocks' outputs with messages, and rounding matters because
  neither rate divides the other. A block is worth five samples. With a lag of
  two the flush reaches everything and every clip must be whole; with a lag of
  nine the resampler may hold back more than a block, and clips do end short.
- **Models.** Files of one to three models: two loaders side by side, two
  probed models with a loaded one between them in the file, all three backends,
  and one file for each reason to refuse.
- **Requests.** Thirty-three requests and protocol messages, each there for a branch
  of the code, and runs of up to two deltas of either kind with every ending:
  two are what it takes for kinds to alternate. `invoke` has up to two inputs.
  Ints have four bits, so that a budget of nine is clamped by a ceiling of six
  and wraps where there is none.

`CHECK_DEADLOCK FALSE` is set for `reasoning_split` and `decode`, where a
finished parser or decoder has no step, and for `registry`, where a daemon
that refused its file has none. Elsewhere the rest state is an explicit `Idle` step (or,
in `Usage`, another run), so a deadlock of the threads would be found.

### Fairness

- `Worker!FairSpec`: the worker thread is scheduled and each run of the
  runtime ends; a drop that began is carried through, since it runs
  synchronously on its task. Nothing is assumed of clients.
- `Worker!ClientsRead`, the premise of `EveryCallEnds`: a client that stays
  keeps reading. Without it a client that neither reads nor leaves stops the model for everybody
  (`worker/mod.rs:198`), and `EveryCallEnds` is false: that is the code's
  actual behaviour, bounded only by HTTP/2 keepalive.
- `Transcribe!FairSpec`: threads and tasks of both processes are scheduled,
  and an aborted task ends at its next await. Nothing is assumed of
  rkwhisperd, which may hang, nor of the network.
- `Transcribe!WhisperCancels`, the premise of `HangUpStopsJob`: rkwhisperd
  notices a dropped session.
- `Transcribe!WhisperAnswers`, the premise of `UploadIsAnswered`: it opens or
  refuses sessions, takes audio, and completes or cancels what it was given.
  No timeout in the code answers for it.
- `Registry!RegistryFairness`: `main` gets through, loader threads run and
  their reads end, the probe's timer fires and its task is scheduled. Nothing
  is assumed of rkwhisperd. `ProbeFollows` takes as a premise that it stays as
  it is and that none of its models hangs a probe, for which there is no
  timeout either.
- `Serving`, `Decode` and `Usage` state safety only; that a call comes to its
  end is `EveryCallEnds` of `Worker` and `UploadIsAnswered` of `Transcribe`,
  where the queues and channels it could get stuck in are.

## 4. Findings

1. **A failed decode is transcribed as a complete clip.** The client's
   outbound stream ends with `break` (`client/lib.rs:98`), which to the daemon
   is the end of the audio; its comment, and the one at
   `transcribe/mod.rs:103-105`, say that the daemon cancels.
   (`transcribe_truncated`)
2. **A stream without an end.** After `send_audio` or `finish` fails, the
   acknowledging `Cancelled` is swallowed although nobody has left
   (`transcribe/mod.rs:134`), against `protocol/lib.rs:53`. The frontend's own
   check for Done turns it into an error. (`transcribe_silent`)
3. **A cancel can miss the prefill** (`worker/mod.rs:166`), against
   MODEL_SERVER.md:435-437. (`worker_prefill`)
4. **Two items at one place.** A Responses stream whose run writes text before
   it reasons adds the message at `output_index` 0, then the reasoning item at
   0 as well, carries 1 for the rest of the message, and ends with a body that
   lists the reasoning first (`routes.rs:341`), so that the stream does not add
   up to that body, against `routes.rs:385-387`. `EventsReplay` shows that
   every other run does. (`responses_places`)

### Observations without a run

Differences met while modelling that need no state space to see:

- A cancelled job is skipped when the worker reaches it and keeps its slot of
  the queue until then (`worker/mod.rs:145`); MODEL_SERVER.md:429 says it is
  removed.
- A run that ends by itself on the last token of its budget is a Length
  (`worker/mod.rs:260`), against MODEL_SERVER.md:582-584.
- A worker that died leaves its model Ready: calls to it are Unavailable, and
  `/health` stays 200. `HealthIsHonest` holds but for that.
- A stream cut by such a death ends with neither a terminal event nor an error
  (`routes.rs:211-215`, `379-383`, whose comments think of cancelled runs
  only); `protocol/lib.rs:53` promises one of the two. `EndIsTold` holds but
  for that.
- A rkllm or rknn model that offers only `embed` has no loader
  (`models.rs:48-56`), so it says Loading for good and `/health` stays 503.
- A configured temperature of zero goes into the session's `Param` as it is
  (`rkllm.rs:64`), while a requested one is guarded (`sampling.rs:43-48`).
- Without a configured ceiling, a budget of 2^31 or more wraps in `n as i32`
  (`rkllm.rs:152`); `BudgetsHold` and its theorem assume a ceiling the int
  holds.
- `finish` flushes one block of 1024 frames whatever rubato still holds
  (`audio/decode.rs:306-319`), and its comment expects nothing to be left: the
  flush "can only deliver the remainder", and the counter "reaches the clip's
  full length" (`decode.rs:135-137`). That is so where a block is worth more
  samples than the delay and the lag together, which nothing checks. rubato is
  not part of the repository and its lag not known here, but FFT resamplers
  commonly work in multiples of the reduced ratio, which at 22254 Hz is 8000
  frames out for 11127 in and at 44101 Hz 16000 for 44101: there more than a
  block can stay behind, the end of a recording is lost, and one shorter than
  that sends no audio at all. `OnlyTheTailIsHeld` says what the code makes of
  any lag. The tests of `decode` try 44100 and 48000 Hz at a few lengths.

## 5. Proofs

All proof modules hold for every value of the constants, under the named
assumptions listed at the end of this section.

**WorkerProofs.** `TypeCorrect` and `AbortIsScoped`. Neither is inductive
alone: that an abort hits its own run rests on `current` naming the job in
flight for as long as a cancel that compared it keeps the lock. `CancelInv`
adds to the types `JobInv` (a job is held exactly between `recv` and its drop;
a piece is left when one is sent), `LockInv` (the lock belongs to the cancel
inside it, which keeps `current` from moving; `current` names the job whenever
a run may be in flight) and `FlagInv` (a cancel begins after the flag is
stored; a receiver is dropped after that). One step per action, one level down
per conjunct where the action disturbs several.

The second half of the module proves `StoppedHasNoFinal`, `CutNeedsCrash`,
`ReadsInOrder` and `DoneIsWhole`: what `run_job` promises the reader of a stream, for any number
of calls, queue depth, channel size and splitting into pieces. They rest on
`CancelInv` and on one invariant each of where things are:

- `PlaceInv`: a call is in one place - not accepted yet, once in the queue, on
  the thread, or past it; so a stream that is over stays over (`StaysOver`).
- `FinalInv`: nothing final is published while a call is alive, and a job that
  is about to publish was not stopped short. That last part is where
  `AbortHitsOwnRun` is used: whoever was stopped is flagged, and `settle`
  reads the flag again.
- `Spared`: a call flagged while it waits stays flagged and never waits again,
  and the thread holds its job at the first check at most; that it is so from
  then on is `CancelledNeverRuns`.
- `EndInv`: only the drop of a call sets its flag (`LeftInv`), a job leaves an
  open call only behind a final event (`ToldInv`), and that event stays the
  last of the channel until it is read (`LastInv`). So a stream found empty
  and over has been told, unless the thread died.
- `QuietInv`, `RunInv`, `CountInv`: nothing was sent for a waiting call; the
  job has sent what the parser produced but for what is unsent, and leaves
  pieces unsent only for a client that left; what was sent is what was read
  plus what is buffered, less a final event. With them the next delta has the next index and Done
  carries the number of those before it.

The per-stream part (`Stream`) is a predicate over constants, with one lemma
for an event more (`Sends`) and one for an event less (`Reads`), so that the
step proof only says which channel a step touches.

The last two parts are about progress. Its fairness and ENABLED are beyond the
prover, but what it rests on is not: that somebody can always go on, and that
going on leads somewhere. `ThreadMay`, `CancelMay` and `ReadMay` are the
guards of the worker thread, a cancel and a reading client, written out by
hand.

- Who waits for whom. The thread waits for a job, for the mutex, or for room
  in the channel of a client that is still there; a cancel waits for the mutex
  only; a reader for an event or for the end of its stream. Whoever has the
  mutex can go on (`HolderMoves`). So a call whose client has left is never
  held up (`LeaversGoOn`): `RunHandle::drop` keeps the receiver while it
  cancels and drops it last, and with the receiver gone `blocking_send`
  returns (`GoneInv`). And while any call is not over, the thread, a cancel or
  a reader can go on (`NobodyIsStuck`): a full channel has a reader, and a
  dead worker leaves streams that end.
- How far a call is. `Distance(r)` is the number of steps of the worker thread
  until the job of `r` is over at the latest: what is left of the run in
  flight (`Toll`), and a whole run (`Longest`) for each job in front of it.
  `CallsComeCloser`: every step of the thread makes it smaller, and no step of
  anybody else makes it larger, so no call is overtaken. `WaitIsBounded`: it
  is at most `Slots * (Longest + 1) + Longest`, by the bound of the queue.
  That a run has a longest length is the model's `MaxCallbacks` and
  `MaxPieces`, which stand for the budget of a run and the output it gives.

**WorkerRefinement.** `WorkerImplementsRunStream`: `Spec => Contract!Spec`, by
one lemma per kind of step on top of `StreamInv`. Taking a job maps to
`Begin`, because no other call is active; a dropped job to `Abandon`, because
it was flagged; a read of the final event to `ReadFinal`, because everything
sent was read before it; an end found without one to `ReadCut`, because only a
dead worker leaves one. Cancels, the lock and the thread's own bookkeeping
stutter. The contract states safety only.

**UsageProofs.** `UsageTypeCorrect`, `InputIsAlwaysOwn`, `CountsAlwaysAddUp`,
`CutIsAlwaysLength`. A Done event is computed in one step from counts that
three parties kept, so the invariant `IInv` says of each count what it is
worth before: the remembered prefill is its prompt's, the runtime's is the
current prompt's or skipped, the daemon's counts stay below the runtime's
tokens (equal while no token was silent), a cut run has spent its budget.
Three lemmas state what `prefill_tokens`, `generated_tokens` and the Done
event return under it.

**ReasoningProofs.** `TypeCorrect`, `ChunkingIsInvisible`, `NothingHeldInVain`,
for any two non-empty markers, whether they overlap or not, and any text and
chunks. `ChunksAreInvisible` is not inductive: the held tail counts as text in
it, and the next chunk may make a marker of it. The invariant has `Resumes`
instead: for every continuation `c`, the split of the input with `c` is what
was emitted, followed by the split of the held tail with `c` in the present
state. `push` keeps it by `LoopSound`, which says the same of one buffer:
`LoopGoesOn` for a round that finds its marker, `LoopStops` for the last one,
where the longest tail that could be a marker is kept and `Skip` passes over
the rest, since no marker begins there whatever follows. With `c` empty the
tail is text (`HeldIsText`), and that is `ChunksAreInvisible`.

`Loop` and `Split` are recursive functions. Two lemmas do for them what the
library's induction theorems cannot here: `Recursion`, that a definition which
descends to a smaller number has a solution, so that the equations hold; and
`Least`, that a non-empty set of numbers has a least one, so that what held of
some text but not of all would fail on a shortest one.

**RegistryProofs.** `TypeCorrect`, `WorkersAreThere`, `ReportsAreEnough`,
`LoadingMeansIt`, for every set of configuration files. `IInv` is the types,
`LoadingIsBacked` and `LastIsPublished` themselves, and two conjuncts: `Phases`
(before the daemon serves nothing has moved; once it serves, its file is
valid) and `Loading` (who has a loader, and that one that is past `insert` has
a worker). What keeps a loader from writing the state of a probed model is the
uniqueness of ids that `FileOk` demands: lemma `Apart` draws from it that no
model is both loaded and probed, and each step of the one kind then leaves the
other's conjuncts alone. Two action properties that no run states are what
`LoadsSettle` and `ProbeFollows` rest on: `LoadersSettleOnce` (a loader only
goes forward, and its model stays as it ended; with `OwnStates`, that a model
with a loader is never unavailable or absent) and `ProbeMissesNone` (after a
report the registry says what the probe saw, even when the report is left out
as no change, and no round skips a model).

**DecodeProofs.** `TypeCorrect`, `NothingMissing`, `TailIsBounded`, for all
rates, block sizes, delays, lags, packets and behaviours of rubato within
`Produces`. None assumes that the flush is long enough. `Bookkeeping` says,
place by place in `run`, how `frames`, `taken` and `mono` add up, that what was
written is what was encoded, and what `skip` and `upto` are worth: while packets are read, everything rubato wrote past its
delay has been written; the short last block and the flush leave either that
or everything that is owed. After the flush rubato was given a block more than
the recording, so that it has written all but `lag` of what both are worth
(`HeldAtMost`): what is missing is at most `Stuck`, which is nothing where the
block is worth more than the delay and the lag. That is the condition under
which a clip is whole, and it is part of the statement, not assumed.
The arithmetic of rounded quotients is in lemmas of its own (`WorthGrows`,
`OwedGrows`, `OwedIsWorth`), and one lemma, `BlockKeeps`, serves all three
callers of `block`.

**TranscribeProofs.** `TypeCorrect`, `Consistency` and `FairConsistency`: a
200 holds every segment rkwhisperd issued for it, and counts the audio it
heard, however long the upload and however small the channels.
The argument is conservation. `AudioFlows`: until something is dropped, a
chunk the decoder sent is in its channel, on the wire, in the pump's hands or
heard. `SegmentsFlow`: while the call is open, a segment is in one of the
channels between rkwhisperd and the handler or collected. What makes the
counts meet at the end is that each end is told last: a decoder's failure is
the last item of its channel (`FailureIsLast`), a final response is the last
of its (`FinalIsLast`), tasks start and end with the session (`SessionLives`),
and rkwhisperd's Done answers `finish`, which the pump calls when nothing is
left to send (`DoneIsHonest`). One lemma per actor's step.
`FairConsistency` carries the same to the specification with fairness, which
the runs check.

Two more parts are the core of the three liveness properties, as in
`WorkerProofs`. `OwnMay` is the guard of whatever the two processes do on
their own, `WhisperOwes` that of what rkwhisperd is expected to do.

- `NothingIsStuck`: once an upload is answered or given up, what is left of it
  can go on without rkwhisperd. `OnlyWhisperHolds`: until then, somebody can
  go on or rkwhisperd owes a step. The channels form a ring through both
  processes, and the proof follows it: from the handler against the flow of
  the answer (`ReadingMoves`), and, where nothing is on the way back, from the
  pump against the flow of the audio (`OutwardMoves`). It needs two more
  invariants: `Ending` (a call is over exactly when it is answered; a stream
  that has ended has aborted its tasks) and `FinalIsThere` (a job that is over
  has said so, and a reader still alive will find it).
- `UploadsAreFinite`: `StepsLeft` gives every item in a channel and every task
  the steps it can still cost, more the further it has to go, and every step
  but a segment or a note of rkwhisperd (`Hears`) makes it smaller. The length
  of an upload is the model's `MaxChunks`.

**ServingProofs.** First the operators `Serving` is built from, for every
delay, budget, ceiling and temperature: `CrossingKeepsAnswer`,
`RetryAfterIsEnough`, `InputsCross`, `OutputsCross`, `ModelsCross` and
`EventsCross` for the wire, `BudgetWithinCeiling` and `OverrideIsWarm` for the
budget and the override, `TimestampsReadBack` for the cues of a transcript.
The crossings say that an input, an output, an event and an entry of the model
list decode to what was encoded; each goes through its parts, since a oneof
that is not set and a number nobody knows are where decoding fails, and
`CollectSame` is the loop over messages and parts. Then the calls, of any
number of inputs and with runs of any length, by invariants that are inductive
one upon the other, each with its theorem:

- `RegistryHolds`: the invariant of `RegistryProofs` holds below the calls, and
  `ServingKeepsRegistry`: what `Serving` does to the registry is what
  `Registry` allows, step by step, so that its properties carry over. (Safety
  only: `Serving` does not assume the fairness of the loaders.)
- `Stages`: which parts of a call there are at each step, and that the message
  sent to the daemon is one the protocol has (`Wired`).
- `Backed`: a worker that is there was inserted; once 200 was promised, each
  model that generates stays Ready and keeps its worker. `Passing`: a call
  that was let through has its worker, and its failure is one of the errors
  the daemon reports. `HealthHonest` follows: a refusal after the promise met
  a dead worker.
- `Checking`: inputs are checked in order, all of them before one is started,
  and each is what was decoded of the message. `Jobs`: a job was made of an
  input that passed, with its model's settings; with the theorems on the
  operators, `BudgetsKept`, for models with a ceiling that the int holds.
  `Filled`: outputs are made of the events of their own run, one for each input; with `Checking`, `AllOrNothingKept`.
- `Playing`: while the endpoint's loop runs, what it has written is well
  nested (`Writing`), and the end of the run is the last of what it has not
  taken, unless a crash has cut it off. `ErrorsSurviveAlways` and
  `EndToldAlways` follow.
- `Matching`: while the loop runs, what it has gathered is what the events
  carried (`Gathered`): the chunks of a chat stream one by one, the text and
  the reasoning of a Responses stream as concatenated. The sequences of both
  sides grow by one lemma each (`ValuesAppend`, `BearingAppend`), since
  `Selected` has no recursion to induct over: the induction is the one over
  the steps. `StreamAddsUp` follows when the run has ended.
- `Replaying`: while the loop of `/v1/responses` runs, replaying what it has
  sent gives the items its flags say are open or closed, with the text
  gathered so far in each. A replay of one more event is one step from the
  replay before it (`Replay` is a recursive function over the places of the
  stream, so that two of them agree as far as the shorter goes, by the least
  place at which they would not); with `Matching`, `EventsReplayAlways`.
- `Called`: the call that is served is one of `Calls`, and so a request and its
  counterpart of the same meaning. What follows is about operators alone:
  turn by turn the two adapters read the same message (`TurnRead`,
  `MessagesAgree`), instructions shift the turns by one (`TurnsAt`), and
  neither finds a problem where the other has none (`ChatAdmits`,
  `ResponsesAdmits`). `AdaptersAgreeAlways` follows for every pair that
  `Counterparts` (module `Requests`) relates, with any number of turns.
- `Shaped`: a call is answered once and only when it ends, a stream has the
  locals of its own endpoint's loop, and an input is folded after it was
  checked. With `Called`, `Checking`, `Passing` and `Playing` it gives
  `CallsTyped`, the type of every variable, which is not inductive alone.

**Assumptions.** All are on constants, and TLC evaluates them on the runs'
values. `WorkerAssumption`, `UsageAssumption`, `TranscribeAssumption`,
`DecodeAssumption`, `RegistryAssumption`, `WidthAssumption`,
`ReasoningAssumption` (markers are not empty, see the module) and
`ServingAssumption` give the constants their types and keep sizes that the
code fixes above zero. `NoneAssumption` and
`CallsAssumption` say that the absent value of an Option is none of its
values: no delay, error, call, Done or text is `None`; `NamesAssumption`
says it of the roles and of the fields a refusal names. `CallOk` in
`CallsAssumption` gives a call the types serde and prost give it, with no bound
on its inputs, and its twin, where it has one, the same meaning
(`Counterparts`): `twin` is not seen by any step, it only names the second
request that `AdaptersAgree` compares with.

**Only model-checked.** The liveness properties, since fairness and ENABLED are
beyond the prover. For `Worker` and `Transcribe` the state part of their
argument is proved - somebody can go on, and every step of theirs shortens
what is left - and for `Registry` that loaders and rounds only go forward; the
temporal part is left to TLC. Every invariant and every other action
property that a run checks is stated by a theorem, but for those of the four
runs that find them violated.

## 6. Not modelled, and the plan

What could be added, in order of importance:

1. `Serving` with two calls at once over `RunStream`: what a call may meet in a
   queue is nondeterministic now, which admits more than the code does.
2. A connection lost in the middle of a generate call, which `Serving` leaves
   out.
3. The removal of special tokens (`template.rs:98-106`), which is about text.

Left out for good: the Jinja engine, TOML and multipart parsing, argument
parsing and the frontend's own start, random ids and times, generated code,
tools and the SDK conformance test; the data of embeddings, which the daemon
answers with Unimplemented, and of images, which the frontend refuses and the
template replaces by a placeholder; the NPU runtimes,
rkwhisperd, rubato, symphonia, tonic and HTTP/2 beyond what the code in `src/`
observes of them.
