# GFXInfer: TLA+ models and proofs

GFXInfer is a single-model, single-GPU inference engine (C++20/HIP): it converts the checkpoint of one model into a
`.gfxi` artifact, loads the artifact into device memory, and decodes text with a target model and a draft model (MTP)
that proposes tokens the target model verifies in blocks. This directory holds TLA+ modules translated from its
source, TLC configurations that check them on small instances, and proofs for all instances. Paths below are relative
to the repository; `qwen_runtime.cpp` and the like are in `src/`.

## 1. The system

| component | state | operations | hard behaviour |
|---|---|---|---|
| Decode session (`qwen_runtime.cpp`, `kernels/qwen_ops.hip`) | positions of the target and the draft cache, two recurrent-state buffers and their parity, K/V caches, rollback logs, hidden rows, two captured graphs, three flags | `create` (with graph capture), `greedy_step`, `block_step`, `mtp_draft`, `speculative_step` | stale buffers and pointers after swaps and rollbacks; failures half way; two positions that move by different rules; the context limit |
| Engine (`engine.cpp`) | resident tensor table, weight arena | `create` (budget, placement, upload), `find_device_tensor` | binary search over a table in artifact order; offsets and budgets at limits |
| HTTP server (`server/main.cpp`) | listener, one connection, the request's loop variables | accept loop, `handle_signal`, request parsing, `generate`, `handle_chat` | a loop that must respect the session's guards; streaming while text is incomplete; closing a reply after a failure; a signal racing accept and close |
| CLI (`cli/main.cpp`) | none between commands | generate, inspect, convert, benchmarks | the generate loop is the server's |
| Artifact view and writers (`artifact.cpp`) | file mapping; temporary file, per-tensor progress, checksums | `ArtifactView::open`/`find`, `ArtifactWriter::write`, `ArtifactStreamWriter::create`/`append_*`/`finalize` | crash and failure between system calls, several writers of one path, offset arithmetic that wraps, overlap tests |
| Converter (`converter.cpp`) | the plan, the writer | `make_plan`, `select_draft_head_rows`, `write_quantized*`, `convert_qwen38` | order of the plan; boundaries of the row selection |
| Quantization (`quantization.cpp`) | none | pack and unpack codes, `quantize_group128`, `tile_group128_for_gfx12` | codes across byte boundaries |
| Tokenizer (`tokenizer.cpp`) | vocabulary, merges | `encode`, `decode` | overlapping merges |
| SafeTensors reader (`safetensors.cpp`) | file mapping, tensor table | `open`, index and directory validation | ranges and overlaps from an untrusted file |
| Model specification (`qwen38_spec.cpp`) | constant tables | inventory, `validate` | the sorted inventory others rely on |
| Device discovery (`device.cpp`), low-bit kernels (`kernels/lowbit_gemv.hip`), scripts, tests | none | one query; floating-point kernels | not a subject of TLA+ |

How they interact. The CLI and the server own an `Engine` and create one `QwenDecodeSession` per request; the session
holds pointers into the engine's tensor table and makes no concurrent calls. All device work of a session goes to one
stream, so the host's program order is the device's order; the device is a second process that executes the queue
later and reads host memory that was staged for it, and the host waits only where it reads tokens back. The engine's
upload copies are asynchronous in the same way and read the mapped artifact. The server
handles one connection at a time on its one thread; the only other actor is the signal handler. The converter reads
the SafeTensors directory, plans tensors in the order of the specification, and drives the stream writer, dropping it
on the first failure. The engine reads the artifact through `ArtifactView`.

What makes each correct:

* *Decode session*: whatever is accepted, rejected or rolled back, the committed recurrent state, the caches and the
  positions are those of exactly the accepted tokens, and the answers are those of serial greedy decoding.
* *Device stream*: queued work reads the words and positions of its own round; a round judges its own tokens.
* *Engine*: a lookup finds the tensor of that name if the table holds one; no two tensors overlap in the arena, every
  one is uploaded, and no copy outlives the memory it uses.
* *Server*: it makes only calls the session takes; the client gets the serial answer in whole characters and in the
  protocol's order; every request ends; the answer does not depend on how the network cuts a request, unless its headers are
  just within their limit (section 6); a signal ends the server.
* *Artifact*: the final path never names an incomplete file; accepted ranges are disjoint and inside the file.
* *Converter*: what it installs is what the kernels read, row by row, under the recipe the manifest names, even if
  the source is replaced meanwhile, and of finite weights; a validated source is refused later only for a weight
  that is not finite, which the validation does not look for.
* *Tokenizer*: an encoding is that of the reference tokenizer and decodes to the text.
* *Pure algorithms* (packing, tiling, merging, row selection): equal to a reference definition on bounded inputs.

`PROJECT.json` lists under `hazards` what is hard to test, each at its line, with the properties that cover it.

## 2. Modules

`SessionCalls` is the abstract specification in the middle: `DecodeSession` implements it, `Generate` uses it.

    SerialDecode   <== implements ==  DecodeSession  == implements ==>  SessionCalls  <== extends ==  Generate
    DeviceStream   (the host and the HIP stream of the same calls)
    TensorLookup   (Converter.make_plan, Engine.find_device_tensor, binding of the draft head)
    ArtifactStream (ArtifactStreamWriter and the file system)
    EngineLoad     <== extends == ArtifactLayout (layout of the writers, checks of ArtifactView::open)
    Convert        <== extends == Lowbit (packing, tiling, expansion), SafeTensors (source validation)
    Server         <== extends == ChatRequest (checks of a chat body); a chat that passes is Generate
    Tokenizer

### SerialDecode
What decoding promises: a session consumes batches of tokens and answers each token with the target model's argmax
after it. Speculation is nothing but a batch whose tokens happen to be the model's own answers.

### DecodeSession
The session itself. Each public call that only waits at its end is one action; `speculative_step` is split at every
point where the code tests a status (`Begin`, `Propose`, `Verify` or `LaunchGraph`, `AcceptPrefix` or `AcceptAll`), and
each such point has its failure action (`ProposalFails`, `VerifierFails`, `GraphFails`, `DownloadFails`,
`RestoreFails`, `TailFails`, ...), which rolls back or leaves the session advanced exactly as the code does.
`CaptureGraph` is the capture of the two graphs at creation.

Device data is abstracted to its provenance: a recurrent state, a K/V entry or a hidden row is the token history it
was computed from, or `Corrupt`. `RunTarget` gives `Corrupt` as soon as the state and the cache entries a launch reads
are not of one and the same history, so a stale buffer, a wrong position or a missing replay cannot go unnoticed. The
target model is a function `Target` of the history; this assumes what the code assumes, that block and single-token
kernels select the same token. Draft tokens are arbitrary, as nothing depends on the draft model being good.

A caller's obligation, `Promised`: the token given to `mtp_draft` is the one the target is fed next. The callers in
`src/` keep it, which `Generate` checks (`CallerKeepsPromise`). A session whose call failed for good is dropped by all
callers (`discarded`).

### SessionCalls
The session as callers see it, one step a call: the tokens fed, the last answer, how far the draft cache has followed,
and whether the last call was refused, failed or broke the session.

### Generate
One chat request: `Open`, `CreateSession`, the prefill (`Sync`, `Prefill`), the decode loop (`DecodeOne`,
`DecodeRound`), `consume_token` once per token of an answer (`ConsumeTerminal`, `ConsumeContent`), and the end of the
reply (`Finish`, `SendUsage`, `ReportError`, `SendDone`). Every call of the session and every send can fail. A token's
text is a sequence of byte classes, enough to tell complete characters from incomplete and invalid ones. The CLI's
generate command has the same loop without the stream.

### TensorLookup
The order of tensors in an artifact, the binary search probe by probe, and the session's choice of its draft head. A
name is its rank in the order of names.

### ArtifactStream
The stream writer, one action per system call, with several writers of one final path, and a file system that loses
what was not synced. A file is the set of its parts (chunks of the planes, manifest). `CallFails` covers every failing
call, perhaps after a partial effect; the writer is then destroyed (`Unlink`), as its callers drop it. `Kill` ends a
process anywhere; `Crash` takes the directory back to some state since written (`Commit`) and loses any unsynced parts.

### DeviceStream
The session's calls once more, for what `DecodeSession` abstracts from: host and device are two processes. The host
enqueues (`Stage`, `UploadSeed`, `UploadBase`, `UploadMtp`, `LaunchGraph`; or `Propose` and `Verify`), tests each status and waits
(`Synchronize`, `TargetReturns`); `Execute` takes the head of the queue at any time. A copy from host memory reads it
either when it is enqueued or when it is executed, the code cannot know which. A device word is what it was computed
from: the seed of its round, the MTP positions of the proposals behind it, the base position of an answer. Callers
may repeat calls that failed, so work of a failed round may still be queued when the next call begins. The staging of such
a round is safe for a reason that no line states: after its launch the positions are one further apart than a speculative
call accepts, until an `mtp_draft` has succeeded, and that call synchronizes. Copies of a round that failed before its
launch may read the staging of a later round; the later round's own copies come behind them. `Destroy` waits for the queue because `hipFree` does. In an untiled artifact a round of more than eight rows
is refused only when its verifier is enqueued, behind its proposals; `RollBack` is then the only way on.

### ArtifactLayout and EngineLoad
`ArtifactLayout` is the framing of a file: the offsets the writers choose for a plan, and the tests `ArtifactView::open`
makes of the header and of an entry, on unsigned words that wrap. `EngineLoad` is `ArtifactView::open` (one step per
entry and per neighbour of the sorted ranges), `Engine::create` from the identity and the budget to `Upload` and
`Synchronize`, and `~Impl`. The device performs the enqueued copies in any order (`Copy`); every call can fail, and an
error returns with copies in flight. `hipStreamDestroy` does not wait for them, `hipFree` does, and the mapping goes last.

### Lowbit, SafeTensors and Convert
`Lowbit` packs codes into bytes, tiles them for gfx1200 and expands them as the kernels do; bytes and words are sets of
bit positions. `SafeTensors` has the checks of a shard, of the index and of the model directory. `Convert` is
`convert_qwen38`: options, validation, the second reading of the source, the plan, the selection of the draft head's
rows, one step per chunk of rows, resource by resource, and the end. `Replace` may replace the source between any two
steps. A plane is the sequence of what was appended to it; `InstalledReadable` reads it with the kernels' index
arithmetic and with the kernel the recipe selects. The writer's temporary file is `ArtifactStream`'s.

### ChatRequest and Server
`ChatRequest` says what a chat body asks for or what is wrong with it. `Server` is the process: `ParseOptions`, `Load`,
`listen_socket`, `Publish` (the handler may use the descriptor), the loop (`TestRunning`, `Accept`, `ReadHeaders`,
`ParseHeaders`, `ReadBody`, `Route`, `CloseClient`) and the end. `Signal` starts a handler between any two steps of the
main thread or of the other signal's handler, and the main thread stands still until the handler returns. Sockets are external: a
backlog, bytes that arrive in pieces, a close that resets a connection with unread input. Clients send, stop or hang
up. A chat that passes the checks ends in a reply or a refusal; what happens in between is `Generate`.

### Tokenizer
`from_json` with its checks and tables, then `encode`: `Scan` to the next added token, `Pretoken`, one `MergePass` over all
occurrences of the best pair, `Emit`; and `decode`. The reference beside it merges one occurrence at a time. `std::sort` may put
added tokens of one length in any order. `Consistent` and `Trained` say what of a vocabulary `from_json` does not test and the properties need.

## 3. What is checked

| run | instance | shows |
|---|---|---|
| `decode_session` | 2 tokens, context 6, blocks of up to 3 rows, graph of 2 | all invariants of `DecodeSession`, and that it implements `SerialDecode` and `SessionCalls` |
| `decode_errors` | same, context 4 | violation: errors do not always roll back (section 6) |
| `tensor_lookup` | every sorted table of up to 5 names, with and without draft tensors | each lookup stays in the table and is right when the table is sorted |
| `tensor_lookup_ranked` | the 866 + 2 tensors of a ranked artifact | violation: the draft tensors are never found |
| `generate` | 5 tokens, prompts of 1 to 3, budgets of 1 to 5, context 6, depths 0, 1 and 3, all reply forms | the loop respects the session, answers serially, streams whole characters, closes the reply in order and ends |
| `artifact_stream` | 2 writers of different numbers, 2 planes, 4 files | the final path names only whole artifacts; nothing is left behind |
| `artifact_shared` | 2 writers with the same number | violation: an incomplete file is installed |
| `device_stream` | 2 tokens, context 5, blocks of up to 3 rows (2 untiled), graphs of 0, 2 or 3 rows, calls begun behind up to 5 queued entries and after up to 1 failed call | a prepared graph reads its round's seed and positions; a round judges its own tokens |
| `engine_load` | words of 6 bits, alignments 4 and 8 for 256 and 512, all writers' files of a resource and two tensors, damaged and reordered files, budgets and sizes of memory | files that open have separate payloads; an engine handed out is complete; no copy outlives its memory; writers' files open |
| `server` | 2 clients, 2 signals, backlog 1, pieces of 2 bytes, headers of up to 3 | answers and resets do not depend on the pieces, but for headers just within the limit; every connection is served; a signal ends the server |
| `convert` | groups of 2 fragments, tiles of 2 rows, 5 tensors in 2 shards, 6 tokens of which 3 are special, all rankings by counts of 0 and 1, 10 option sets, weights that are not finite in a first or a later chunk, one replacement of the source | what is installed is finite and read back by the kernels; the draft rows are the best; a valid source converts unless a weight is not finite |
| `tokenizer` | 6 byte values, up to 3 of 8 merges, 3 added tokens of which one begins another, 16 texts of up to 6 bytes, 8 bad vocabularies | encodings are the reference's, decode to the text and come to an end |

Why the bounds are enough. A decode session has two buffers and two graphs, so what a swap can spoil shows after at
most two full acceptances; six positions hold a prefill, two graph rounds and an eager round of three rows, up to the
context limit, where the room check decides. Blocks of three rows have a first, a middle and a last row, and
partial acceptances of different length. The target model of the instance is the parity of a history's ones, so one
wrong token anywhere changes the answer. In `Generate` the context is smaller than the longest prompt with the largest
budget, a round can be cut by the budget, by a terminal token and by both, and the five tokens contain a whole
character, a character in two tokens, a stray continuation byte and a terminal token; the answer depends on all
tokens of the history and their places. Tables of zero to seven entries have every shape of a halving. Two
writers with four files can meet in every pair of steps; each plane is one chunk, which a writer has either appended or not.
In `DeviceStream` a prepared round queues six entries, so five entries and a failure let a call begin while all of a
failed round but one entry is queued, and two lengths of graph separate prepared from eager rounds. `EngineLoad` needs words small enough
that offsets, sizes and alignments reach their end: with six bits there are files whose sums pass the end of a word, and three
planes can overlap, nest and leave a gap. `Server` has requests for the branches of the parser, requests whose headers and bodies
are short, too long or followed by more, and one client that waits while the other is handled. `Convert` has matrices of every
format, whole and broken tiles, an LM head twice the draft head, and rankings that have the special tokens among the best rows or not, in every combination;
codes take every value in every column of a fragment. The tokenizer's merges overlap, chain and repeat.
A run per property with a mutated definition (`mutants`; the definitions commented "Fault") shows that each
property fails when the code has a plausible bug.

Fairness. `DecodeSession`, `TensorLookup`, `DeviceStream`, `ArtifactStream`, `EngineLoad`, `Convert` and `Tokenizer` make no liveness
claim (that `encode` ends is stated as a measure that each step lessens, `EncodeAdvances`). `Server` has weak fairness of its main thread and of the handler, and none of clients, signals or any outcome: a
`recv` that nothing reaches gives up after `SO_RCVTIMEO` (300 s), `generate` returns (`RequestEnds` of `Generate`), and `accept` is left either with a
connection or, once the handler has closed the listener, with an error. That is all that `SignalEnds` and
`ConnectionServed` need. Signals are delivered to the main thread, which assumes that the threads of the HIP runtime
block them. `Generate` has weak fairness of the handler as a whole, never of one
outcome: the server's one thread does nothing else, calls of the session return, and a send gives up after
`SO_SNDTIMEO` (300 s, `server/main.cpp:752`). Deadlock is checked except in `TensorLookup`, which stops when
`create` has returned an error, and in `Convert` and `Tokenizer`, single calls that stop when they have returned; the other
modules end in an explicit stutter (`closed`, `Exited`, `Gone`).

## 4. What is proved

All for arbitrary constants under the modules' named assumptions.

`DecodeSession_proofs`: every invariant that the run checks, and that
`DecodeSession` implements `SerialDecode` (`Refinement`). `CommittedState` is not inductive: nothing in it says what a round in
progress has left behind. The inductive invariant `Inductive` adds to it, as named parts, the positions of a round
relative to its base, that the buffer in use and the caches hold the accepted history *during* the round
(`HistoryHeld`, `RoundIsolated`), what the verifier left in the other buffer, the logs and the rows
(`RoundEvaluated`), that the hidden state and the snapshot are those of the last accepted token (`HiddenIsCurrent`),
and that graphs fit the buffers (`GraphsCaptured`). The proof has one lemma per action; the lemma `Evaluation` says
once what `RunTarget` computes from a coherent state, and both ways to launch a verifier use it. Refinement follows
because at the judgement the outputs are the answers of the whole block and the accepted prefix agrees with them.

The same module proves `MtpFollowsTarget` (`DraftCacheFollows`). The property speaks of the entries below `mtp_position`, which moves
over entries that a round wrote before it was judged, so `DraftCache` adds what the entries of a round in progress are
(`RoundEntries`): the round's inputs in order, the first on the snapshot and the others on the draft model's state.
`RoundFollows` is the core: once the accepted prefix joins the history, exactly these entries follow it. A full
acceptance adds one entry, conditioned on the exact row before it (`AcceptAllCache`).

Its last part: `DecodeSession` implements `SessionCalls` (`CallRefinement`), so what `Generate_proofs`
shows of a loop over `SessionCalls` holds over the session itself. The mapping reads the draft position from the round's
base until the round is judged.

`Artifact_proofs`, first part: the search never leaves the table, sorted or not, and in a sorted table of any size the answer
is right. The invariant is the classic one: everything before `first` is smaller than the target, everything from
`first + count` on is not.

`Generate_proofs`: the loop makes no call that the session rejects (`NoCallIsRefused`), keeps what `DecodeSession`
assumes of it (`CallerPromiseKept`), answers with the serial continuation (`AnswersAreSerial`), and puts the events of a
reply on the connection in the order of the protocol (`RepliesAreWellFormed`), for every prompt,
budget, depth, context and target model. The properties speak of the tokens consumed so far, which is too little to
carry a round that is only half consumed. The invariant `LoopInv` speaks of the whole answer, `emitted \o pending`:
the session has been fed the prompt and all of the answer but its last token, and each token of the answer is the
target model's. Consuming a token leaves the answer as it is (`Consumed`), and a round extends it (`Histories`,
`AnswerGrows`). That the draft cache is aligned at every round follows because a single step under drafting is made
only for the budget's last token. For the reply, `Protocol` says at each point of the
handler which kinds of events can be on the connection, all of a lower stage than what may be sent next (`Sending`,
`Losing`). The session is that of `SessionCalls`, so `SpeculationAccepted` and `Room` are the
guards the session itself has. What a stream sends of the text is whole at every point (`StreamsWholeText`), for pieces that
cut characters anywhere. Its invariant `TextInv` says that the deltas are a prefix of the text that the scan of `valid_utf8_prefix`
accepts to its end, and that nothing accepted is missing while the client is there (`UpToDate`). The scan is a recursive function:
`ScanExists` constructs it, `ScanOfPart` says that from a place it passes through it behaves as on the rest of the text alone, and
`ScanPasses` that a longer text is scanned through the accepted prefix; so the bytes behind `sent_bytes` are whole characters too.

`Server_proofs`: the type invariant; `AnswersFitRequests`, whose invariant `RequestInv` says for every place of `handle_connection`
what has been read and found of the request so far (`Progress`, `Accepted`), with the one exception `CutMatters`: headers within less than a piece of the limit,
to which the answer may be that they are too long; `GoodRequestsNotReset`, which leaves out that same answer and needs besides that
no more bytes arrive than the client sends, or a byte that came late would undo that all was read; and `SignalsReachAccept`, the safety half of
`SignalEnds`: whenever signals come, the loop never waits in `accept` on a socket that is open after the last handler has returned.
Its invariant `SignalInv` follows the descriptor through `listen_socket`, `Publish`, the handlers that interrupt each other and the close,
for any number of signals. That the server then ends is liveness, and model-checked.

`Artifact_proofs`, second part, the stream writer: the type invariant without any condition; `FinalAlwaysComplete` and `NothingLeftBehind` under
`DistinctTemporaries`, that no two writers share a temporary path. The source does not establish this condition, and
`artifact_shared` shows that it is needed. The invariant `Installing` says that a writer that is filling a file is
filling the one its temporary path names (`OwnFile`), how far that file is at each stage (`Progress`), and that both
the directory and what the disk holds of it name whole, synced files as final (`FinalsWhole`).

`DeviceStream_proofs`: both properties, for every block size, context, queue length and number of failures (the bounds of
the run are not used). A property of the head of the queue is not inductive, so the invariant speaks of every entry by its
place: the three copies that a graph at place g needs stand at g-3 to g-1, and what would stand before place 1 has been
executed and its effect is in the device words (`SeedUp`, `BaseUp`, `MtpUp`). `GraphsUploaded` says this of launched graphs,
`UploadsQueued` of one that is about to be launched, `RoundQueued` of the proposals, the verifier and the downloads of the round in
progress. `GraphsBlock` is the argument why staging is safe: while a graph is queued the positions are those its launch
left, and no speculative call is accepted.

`EngineLoad_proofs`: the type invariant (no sum leaves a word), `PayloadsSeparate`, `EngineReady`,
`NoCopyAfterRelease` and `WrittenOpens`, for every word size, any file whose fields are words (`FilesAssumption`) and any plan whose
sizes and alignments are words (`PlansAssumption`). The invariant records what each stage of `open` has established (`Opening`), the arena
as a chain in which each placement begins behind the end of all before it (`Laid`), the copies enqueued so far
(`Uploaded`) and who holds what (`Held`). Payloads are apart because in a sorted sequence whose neighbours do not overlap, the end of each is at most the
begin of every later one, and no end wraps, as each range is inside the file; `AlignedSize` is the one lemma about the arena's arithmetic. `WrittenOpens` is about the writers' layout, a recursive function of the plan:
`PlacedSteps` constructs it, `PlacedAll` shows from one tensor to the next that every plane begins aligned behind the end of all before it (`PlacedWell`) and
that an error is never undone, and `NamesFit` that each name lies in the string table. From this the header and the entries pass (`WrittenHeader`,
`WrittenEntryValid`) and no two neighbours of the sorted ranges overlap (`WrittenFollows`); that the fields of such a file are words follows too.

`Convert_proofs`: `DraftHeadIsBest`, for every vocabulary, ranking, set of special tokens and size of draft head. Sorting is stated as
the code's order has it, by the number of better rows: `Sorted` shows from this count that the result is the same rows in the order of
`better`. The replacement is a fold over the special tokens; `Placing` is what holds after each of them: those so far are among the rows,
no other special token has been displaced, what was displaced is worse than every other row that is left, and there is room for the rest, because
there are at most as many special tokens as rows. `ValidSourceIsConverted`: a validated source is refused later only if a matrix to be quantized has a weight that is not finite. It needs that
the validation sees every name of the index: the validation adds up the bytes of the tensors it finds, and the sum is that of all tensors
only if none is missing (`SumSteps`, `PartsCounted`, `SourceComplete`). `SourceInv` then carries what each stage has loaded from
the same directory, and `WriteInv` says how many bytes of each plane are written when the next chunk begins at `row`;
that the last chunk ends at the planned size is the arithmetic of packed rows. The theorem about chunks covers every chunk size, a multiple
of the tile or not, and every number of rows. `WeightInv` says that what is quantized is still what was validated.

`InstalledIsReadable`: an installed artifact is complete, and the kernels its recipe selects find the code and the scale of every
weight, for every model, `KTiles`, `TileRows` and size of the chunks. It is proved in three parts.
The first is about bits: a code of two, three or four bits that `pack_codes` or a gfx1200 layout has stored, also across the border of a byte, is what the
matching expansion returns in its lane (`CodesExpand`); each stage of an expansion has a lemma that says where bit `m` of the packed word is.
The second is about places: the address of a fragment is a number in mixed radix, tile of rows, group, fragment in the group, row in the tile, and two fragments of a
matrix never share one (`TilePlaceDigits`). A chunk that begins at a whole tile is therefore appended exactly where one tiling of
all rows would put it (`TilePlaceAfter`, `RowsAppended`); that chunks begin at whole tiles is part of the invariant (`Holding`).
The third is the invariant `ContentInv` over the steps: what each plane holds up to `item` and `row`, and `ReadablePlan`, what the recipe
relies on in the plan: three-bit codes occur only where the recipe names the sequential layout, never in the embedding, and the draft head
and its table of ids have the same rows. The embedding needs the assumption `EmbedAssumption`, that it is not a tensor of an MLP: `is_early_mlp`
(`converter.cpp:78-93`) asks for `.mlp.` in the name, which `embed_tokens` does not have.

`InstalledIsFinite`: no weight that is not finite gets into an installed artifact. `FiniteInv` says that the rows of the items so far, and the rows
of the current item before `row`, are finite; `ChunkFinite` adds those of a chunk, and `Installed` says that the entries are the planned ones.

Sums, scans and folds are recursive functions. Where a theorem needs their value, it is shown by the least counterexample
(`LeastOf` and `Upwards` from the well-foundedness of the naturals), as no induction theorem with an operator for parameter can be used.

`Tokenizer_proofs`: `EncodeAdvances`, `DecodeInverts` and `EncodesAsReference`, for every alphabet, vocabulary, list of merges, list of added
tokens and text; `from_json` may order added tokens of one length in any way. The invariant `IInv` says what was loaded, and that inside
a segment the token that ends it is the one found first (`FirstSpecial`).
`DecodeInverts` has nothing to do with which pairs merge. Its invariant `DInv` says that what the output decodes to, followed by
the encoding of everything that is left (the pretokens, the token that ends the segment, the text from the cursor), is at each step the encoding of
the whole text; a merge only concatenates neighbours. `CInv` says that each symbol is one byte or the two parts of a merge, which is why a complete
vocabulary refuses none. `Consistent` excludes vocabularies that `from_json` does not refuse and that have no inverse: one id for two pieces.
`EncodesAsReference` compares a pass over all occurrences with merges one at a time. `PassIsOneByOne` is the core. After the leftmost occurrence
of the best pair is merged, the pair is still the best, as a pair that holds the new piece comes later in a list of merges as training makes
them (`TrainedOrder`, `LaterMerges`), and the next occurrence is where the pass finds it (`FirstStays`); so a pass is as many single merges as it merges pairs.
The invariant `EInv` then says that the symbols are `Reached` from the pretoken by single merges, and that the output and the reference's tokens of all
that is left are the reference's tokens of the text. Without `Trained` the two tokenizers differ: a merge listed before those that make its parts may
overtake the rest of a pass.

Only model-checked: every liveness property, which the prover cannot treat (fairness and ENABLED). Every other property of the
passing runs is a theorem.

## 5. What is not modelled

* Floating-point arithmetic: the kernels' numerics, the choice of scales and the rounding of weights (also that the
  scale of very large finite weights is infinite as a half). Whether a weight is finite is modelled.
* Allocation and binding failures of the session's `create`, after which there is no session.
* `ArtifactWriter::write`'s system calls: only tests call it; its layout is in `ArtifactLayout`.
* Of the tokenizer: the contraction and line-break alternatives of the pretokenizer, the Unicode tables and NFC beyond
  one composed pair, the coding of UTF-8.
* JSON syntax (a header, index or body that may be refused), JSON escaping, the wording of replies and reports.
* The CLI's argument parsing, benchmarks and reports: straight-line input and output without state. Its generate
  command is the loop of `Generate`.
* The lifetime of the vectors a failing round's download writes (`qwen_runtime.cpp:1487`): a copy to pageable memory is
  complete when the call returns, so this is a question about the HIP runtime.
* An `unlink` that fails in the writer's destructor, which ignores it (`artifact.cpp:573`): `NoLitter` assumes it succeeds.
* An added token of no length, with which `encode` does not end (`tokenizer.cpp:352`): `EncodeAdvances` assumes there is none.
* Device discovery (its failure and the memory it reports are inputs of `EngineLoad`), scripts, tests, benchmarks.

`PROJECT.json` gives the reason for each component.

## 6. Where the code and its documents disagree

* `decode_errors`: `docs/ARCHITECTURE.md:38` has errors roll back; a launch of `greedy_step` or `block_step` that fails half way, and a
  failure of `speculative_step` after its verifier was launched, leave the session changed. The callers drop it.
* `tensor_lookup_ranked`: `make_plan` appends the ranked draft head behind the sorted inventory, the engine's table keeps
  that order, and the binary search misses it: the session proposes from the first rows of the LM head.
* `artifact_shared`: the temporary path differs only by process number, and a `create` that finds it taken unlinks it
  in the destructor; the other writer's rename then fails or installs whatever the path names by then.
* The limit of the headers: `server/main.cpp:247` compares all bytes received with it before it looks for the end of the headers. The
  piece that ends them may bring up to 4095 bytes of the body, so headers of 61,442 to 65,536 bytes are answered or refused ("HTTP headers
  exceed 64 KiB", line 248) depending on how the network cuts the request. `AnswerIsOfRequest` allows exactly this (`CutMatters`);
  without it the run `server` finds a request that one cut has answered and another refused.

## 7. Plan

Built: `SerialDecode`, `DecodeSession`, `TensorLookup`, `SessionCalls`, `Generate`, `ArtifactStream`, `DeviceStream`,
`ArtifactLayout`/`EngineLoad`, `ChatRequest`/`Server` `Lowbit`/`SafeTensors`/`Convert` and `Tokenizer`,
each with proofs.

Left: the remaining alternatives of the pretokenizer.
