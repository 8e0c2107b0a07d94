# A TLA+ model of causa

causa is a Rust library for running language-model turns: a *kernel* of facts
(context blocks, tool batches, ports), a *runtime* that drives model rounds and
executes tool calls, a *protocol* layer that translates provider wire formats, a
*provider* crate that speaks HTTP, and an *extension* crate with an MCP tool
source. This directory holds TLA+ modules of the parts whose correctness is a
matter of ordering, interleaving and partial failure, TLC runs over small
instances, and TLAPS proofs for every instance.

Source paths below are relative to `src/crates/`.

## 1. Inventory

| Part | State | Operations | What is hard |
|---|---|---|---|
| `causa-kernel/src/ports/batch.rs` `ToolBatch` | entries, length of the completed prefix | `new`, `validate`, `resolve_at`, entry accessors | swaps reorder the pending suffix; handed as `&mut` to host code |
| `causa-runtime/src/executor/` `BoundTools::process` with `processors.rs` | the lent batch, the started-call record, a `FuturesUnordered` of calls | entry checks, processors, dispatch, settlement | concurrent tools; stop in the middle of anything; processors dropped half-way |
| `causa-runtime/src/driver/` `TurnRunner` | context, round, declaration counter, current batch | one round: bind, record tools, prepare, invoke, commit, process, commit | a stop at every await and in every observer call; which result wins; nothing lost |
| `causa-runtime/src/executor/source.rs` cache | listing with version, latest refresh token | `describe` | source changes between reads; concurrent binds; failures |
| `executor/registry.rs`, `catalog.rs` | registrations | register, unregister, bind | registration while a bind is under way |
| `causa-runtime/src/retry/` | attempt number | invoke, stream, backoff | what may be retried; stop during backoff |
| `causa-kernel` context edits, tool changes, conversion | block list | `apply`, `between`, `apply_to`, `to_blocks` | index arithmetic; all or nothing |
| `causa-protocol` rendering and parsing, three formats | none (a frame is built per request) | validate, plan tools, render, parse | unknown fields kept, host edits under kept wire data, order of messages and results |
| `causa-protocol` stream assemblies, three formats | open blocks, items or calls, stop reason | apply one event, finish | events lost, repeated, interleaved; a last call cut off by the token limit |
| `causa-protocol` SSE parser and stream decoder | buffers, counters, fuse | decode, finish | arbitrary chunk boundaries, limits |
| `causa-protocol` error envelopes, stop reasons | none | classify | what may be retried |
| `causa-provider` transport and stream | response body, decoder | send, read, map errors | failures before and after the request is out; a stop at every await |
| `causa-extension` MCP source | client, version | list, invoke, close | list changes, failing calls whose effect is unknown |

Parts call each other as follows. A host calls `TurnRunner`; the runner asks the
executor to *bind* (which reads the registry and each dynamic source's cache),
commits a tool change, lets a host *preparer* edit the context, asks a
*gateway* (a provider, perhaps wrapped by the retrying gateway) for an output,
commits its declarations, and lends a `ToolBatch` to `BoundTools::process`,
which runs host *processors* and tools. Everything shares one `CallControl`: a
cancellation token any thread may fire, and a deadline. Observers are called
synchronously and may cancel from inside the call.

What makes each part correct:

* **batch**: a valid partition and unique identities survive every resolution;
* **processing**: a call left pending never ran, a call that ran has a result,
  a collected result survives, `Ok` reports what really happened whatever
  processors tried, and a stop ends the call;
* **runner**: at every exit the declared calls are exactly the answered ones and
  those of the returned batch, the observer was shown every commit, the model is
  never asked with a call open, limits hold, a stop ends the run;
* **cache**: a bind never gets a listing older than the version it observed,
  and never one from before a failed refresh;
* **catalog**: a binding comes from sources that were registered together, a
  name in it is one tool, the one dispatch will run;
* **retry**: an attempt whose outcome is unknown, or of which the caller saw
  anything, is never repeated; waits are honoured and end before the deadline;
* **rendering**: a request says what the conversation is, offers what the round
  bound, sends model output back value for value, and never changes what earlier
  requests of the conversation said;
* **streaming**: the assembled answer is the answer that was streamed, or the
  stream fails; what the host heard on the way agrees with it;
* **provider**: the deltas are those of the bytes, however they are cut; limits
  hold; an error is reported the same whether the call streams or not; a stop
  ends the call;
* **MCP**: statuses never claim more than is known; a result says the answer's
  structured value or else a line for each of its blocks, and its references are
  the artifacts that were stored.

## 2. Modules

| Module | Models | Kind |
|---|---|---|
| `ToolBatch` | `ports/batch.rs`: batch values, `validate`, `check_resolve`, `resolve_at` | operators |
| `ToolProcessing` | one `BoundTools::process` call: `processing.rs`, `collection.rs`, `dispatch.rs`, `processors.rs` | state machine |
| `MCToolProcessing` | its small instance | TLC |
| `ToolProcessingProofs` | what `resolve_at` does to a batch; two inductive invariants, all safety properties | proofs |
| `TurnRunner` | one run of the driver loop, `driver/*.rs` | state machine |
| `TurnProofs` | of `TurnRunner`: inductive invariant, all safety properties, the refinement of `TurnLedger`; of `ContextEdit`: edits do what they mean, ids keep their meaning | proofs |
| `DynamicSource` | the listing cache of one source, `executor/source.rs`, under concurrent binds | state machine |
| `MCDynamicSource` | its small instance | TLC |
| `ToolCatalog` | `executor/catalog.rs` bind, `executor/registry.rs` | state machine |
| `MCToolCatalog` | its small instance | TLC |
| `ToolSourceProofs` | the inductive invariants of `DynamicSource`, `ToolCatalog` and `McpSource`, and their properties | proofs |
| `ContextEdit` | one edit of a context, kernel `context/material/state/edit.rs` | state machine over pure operators |
| `MCContextEdit` | its small instance | TLC |
| `ToolSet` | surfaces and their difference, kernel `context/tools.rs` | operators |
| `ToolChange` | the change blocks of a context, and `tool_change` of the driver | state machine over `ToolSet` |
| `RetryingGateway` | one logical call of `retry/gateway.rs` under `retry/policy.rs` | state machine |
| `RetryingGatewayProofs` | inductive invariant and its four safety properties | proofs |
| `TurnLedger` | what a run promises a host that keeps its own record | abstract specification |
| `WireFrame` | `context_frame.rs`, `tool_history.rs`: the walk from blocks to segments, exchange checks, tool placement | operators over `ToolSet` |
| `AnthropicWire`, `ChatWire`, `ResponsesWire` | `anthropic.rs`, `openai_chat.rs`, `openai_responses.rs`: render a request, parse a response | operators, each on the one before |
| `Conversation` | a conversation held over one format, with kernel `to_blocks` | state machine over the above |
| `MCConversation` | its small instance | TLC |
| `ConversationProofs` | requests in all three formats, and contexts, offer the tools bound | proofs |
| `PrefixProofs` | requests keep the earlier ones, in all three formats | proofs, on `ConversationProofs` |
| `StreamFrame`, `AnthropicStream`, `ChatStream`, `ResponsesStream` | `streaming/`: the assembly of each format, one event at a time | operators |
| `StreamAssembly` | one streamed answer with the faults of the way, and the host that hears it | state machine over the above |
| `MCStreamAssembly` | its scripts | TLC |
| `StreamAssemblyProofs` | what the host heard is what the output says; a Responses output is its last event's answer | proofs |
| `SseParser` | `sse_parser/parser.rs` | operators |
| `StreamDecoder` | `streaming/decoder.rs` over `SseParser`, the assembly a table | operators |
| `GatewayTransport` | error classification of `gateway_transport.rs` and `error_envelope.rs` | operators |
| `ProviderStream` | one call of `kernel_gateway/`: send, establish, read, decode, yield | state machine over the above |
| `MCProviderStream` | its streams, answers and tables | TLC |
| `ProviderStreamProofs` | one classification of errors, with or without streaming; a stream yields what its body says, however it is cut | proofs |
| `McpSource` | one MCP call, `mcp.rs`, and `ToolBridge::execute` of `composition.rs` | state machine |
| `MCMcpSource` | its small instance | TLC |

### ToolProcessing

`batch` is the `ToolBatch` the caller lent. `pc` is the await or check the
processing future is at; `phase`, `index`, `previous` are `process_phase`'s
parameters and locals. `task[c]` is the state of the call's future: `new` (in
the `FuturesUnordered`, not polled), `entered` (in its first poll, start
recorded), `running` (the tool was polled), `ready`, `collected`. Because one
poll runs a call from its entry check to its first await, no other call is
polled and the stop branch of the `select!` is not looked at while some call is
`entered` (`InPoll`). `started` is the shared set `dispatch` keeps outside the
futures. `ran`, `handoff` are history variables.

The environment cancels, lets the deadline pass, completes tools (perhaps with
another call's ID, perhaps never) and edits the batch as a processor through its
`&mut`: the accessors, `resolve_at`, reordering, and entries replaced by ones
built elsewhere. A processor's edits are separate steps, so that a stop can drop
it between two of them, as the `select!` in `process_phase` does.

`resolve()` retries while a new block ID collides; the model chooses any ID of
the finite `BlockId` that `check_resolve` accepts. `ControlError` and messages
are reduced to the name of the error returned.

### TurnRunner

A context is reduced to what the loop reads and writes: the tools its change
blocks add up to, the declared calls and the results present. Steps end at the
control checks, the only places where another thread's cancellation is seen; an
observer that cancels inside a notification is the same as one that cancels just
before the step that notifies. `process` starts calls (`ToolStarts`), which are
then `"running"`, and ends with one of the outcomes `ToolProcessing` establishes:
complete when `Ok` (`OkReportsWhatHappened`), partly decided otherwise, and with
nothing left running, because only the future that started a call can settle it.
Its error keeps the cause it ended for, so a stop seen by `process` is reported as
the stop it was. `processed = "Clash"` stands for a result carrying a
block ID the context already holds, which a processor can cause and only
`Context::apply` notices. `seen` is the record of a host that stores every
`BlocksCommitted` event.

`TurnLedger` is the contract: calls are declared a batch at a time with nothing
open, answered as a whole, or handed back as a whole when the run ends.
`LedgerKept` is the refinement, with a call's fate computed from `seen` and
`returned`.

### DynamicSource

A listing is the number of changes the catalog had seen when the source took it,
so that staleness is an order. `version` follows: it is bumped some time after a
change, and `announced[v]` remembers what the catalog was when `v` was set. This
is what an MCP server's `tools/list_changed` notification does; a source that
bumps *before* it changes promises nothing, and the model has no such source.
The cache lock makes each of the two critical sections of `describe` one step
(`Hit`/`Refresh`, `Publish`); reading the version is a step of its own.
`latest_refresh`, an `Arc` compared by address, is the caller that set it.

### ToolCatalog

One bind, because binds share only the registry and read it once. A
registration is an entry of its own (`registration`), as each has its own cache.
A source answers any listing, or fails; the names of one listing enter the
catalog in one step, because a failure anywhere in it drops the whole bind.
`described` is history: which entries were described, with what.

### ContextEdit

An edit is built one replacement at a time and then committed or dropped.
`Retained`, `Effective`, `Walk` are the steps of `validate_edit` and `apply` on
indices, as in the code; `Effective` is their order by start, which is one order
only, because retained ranges start at different positions. The walk stands for
both: validation counts the ids along the same path the edit later takes, so one
definition says what both do. `HashMap` and `HashSet` become sets and quantifiers.
Which mismatch or duplicate is reported first is left out. The reference `Meant` looks at positions and never
sorts or walks: a replacement *stands* if no later one claims a position of its,
and each position says what is inserted there and whether its block stays.

### ToolChange

The context is reduced to its change blocks (`recorded`). `RecordTools` is the driver's
`tool_change` after a bind; a host may add any change block (repeated and unknown
names included) and remove any block between rounds. `bound` is history.

### RetryingGateway

`invoke` and `stream` run the same loop, so one machine stands for both: an
attempt comes to a value (an output, or a stream's first item), an `Err`, a
stream whose first item is an error, or an empty stream. The result has the same
form, because the wrapper is a gateway itself. The clock is a counter in the
unit of the durations and ticks between any two steps: the check that a wait
ends in time reads an earlier clock than the sleep does (`DecideWait`,
`StartSleep`), timers are late, and an answer may still be taken after the
deadline passed. The token is looked at first, as in the biased `select!`.
`Backoff(n)` is the set of waits the jitter can produce, up to rounding. Once a
stream is handed on, the wrapper has no part in it. `Instant` overflow of a
server's delay is not modelled (there is no largest moment).

### Conversation

The context is the list of blocks, with contents: a host says something, a
round's tools are recorded, an answer is parsed and committed, the results of
its calls follow in any order of completion, and the host may at the end edit
what is there. `request` is what that context renders to, in every state, and
`sent` what was sent when the model was asked.

A JSON object is a record and a field no adapter knows is the field `x`. A text
is a sequence of tokens, of which `sp` is not visible. Arguments are
`[value, spelling]`, because a string of arguments must go back as it was
spelled while the facts hold its value. The three formats keep their own layout,
with what the properties read of it: roles, content, calls, results, tools,
residual fields.

The code departs from value-equal round trips in a few places which the answers
of the instance avoid: an empty `tool_calls` list is left out again, a Responses
message without text keeps no item of its own, a `tool_use` without `input` gets
one, blank text is omitted. The cache marker of Anthropic requests is modelled on
messages, not on the last system block and the last tool, and neither is the
placeholder tool that stands for deferred ones. Generation options, extra body
fields, usage and the display of reasoning are left out.

### StreamAssembly

A script is a sequence of events with the answer it streams. Legal interleavings
(`Mingle`) come before faults: an event lost, repeated, swapped with its
neighbour, replaced by a provider error, or the last to arrive. An assembly takes
one event and gives its next state and deltas, or fails; `Finish` is the end of
the body. Events with missing or mistyped fields (all refused), usage and the
byte budget of an assembly are left out, and so are the arguments a Responses
item collects, which nothing reads. `WellFormed` is the types of the fields that
are read, and all a script is assumed to be besides that it ends, for Responses,
with the answer.

`DeltasAgree` compares what the host has heard with the output. It took the proof
to state it right. The deltas of a text do not name their block, so the texts of
two blocks that are open at once reach the host in the order they are spoken, while
the output has them block by block: `spoken` and `mixed` remember whether that
happened, and the text is compared when it did not. And a Responses answer with a
refusal keeps the stop reason `Refusal` when it was cut off, so that a call that
was cut off is missing from an output that does not say `MaxTokens`. The scripts
`AMingled` and `RRefusedCutOff` reach both cases.

### ProviderStream

A byte is a token, some of which stand for several (`data:`). `Meaning` says
which deltas an event's data stands for and `Document` which error a JSON body
reports, so that `StreamDecoder` is independent of the formats: what events mean is
`StreamAssembly`'s subject. `server` is the response that will be given;
`unsent` the part of its body still to arrive, in chunks of any length. `pc` is
the await or check `stream`, `invoke` or `model_stream` is at; a poll of the
stream runs from `Poll` to the next delta or wait. Cancellation and deadline are
looked at where the code looks: before rendering, around every await, before and
after each window that is decoded. The `yield_now` after 32 turns is not there,
because a step may come at any time anyway.

### McpSource

rmcp and the server are the environment: a request is sent, may run, may be
answered or refused, while the connection may fail with any of rmcp's errors, the
call may be cancelled, reach its deadline, or be dropped by the executor at any
await. The answer's blocks are translated one by one, because the store is asked
for each and may refuse any of them. An image stands for audio and binary
resources, which take the same path. `outcome.says` is the content of the result:
the structured value, if the tool returned one, in place of the lines of all
blocks (`Observation`), and otherwise those lines. The references of stored
artifacts are in the result either way. Artifacts persisted before a call is dropped
stay without a reference, in the code as in the model; `ContentAccountedFor`
speaks of calls that return.

## 3. Runs

| Run | Instance | Shows |
|---|---|---|
| `tool_processing` | 2 calls, bound or not, one processor before and one after dispatch, 2 arbitrary edits, deadline and call timeout | a cut-short dispatch leaves pending calls that never ran and collected results; nothing starts after a stop, nor is settled as if it had; the batch is valid whenever the runtime resolves; only bound names are dispatched; `Ok` tells the truth; a stop ends it though tools and processors hang |
| `turn_runner` | 2 rounds of up to 2 calls, preparer, deadline, limit 3 | what is declared is answered or returned, and nothing returned still runs; the observer saw it; causes are chosen in order; limits hold; the ledger refinement; a stop ends a run in which nothing answers, and the limits one in which everything does |
| `dynamic_source` | 4 concurrent describes, 2 changes, 1 bump | answers are as new as the version read, nothing older than a failed refresh is served, answers from the cache do not go back in time |
| `tool_catalog` | 1 static tool, 2 source ids, 4 registrations, listings of up to 2 of 3 names | a binding's sources were registered together; names are unique and reach the source that listed them |
| `context_edit` | contexts of up to 2 blocks, 3 replacements and an append, each of one block or none, known, changed or new | blocks end up where the edit means them, also when what ousted a replacement is ousted; nothing is refused without cause; ids keep their meaning |
| `tool_change` | 2 names with 2 definitions, 3 change blocks | what the context offers is what was bound, each name once |
| `retrying_gateway` | 3 attempts, waits of 0 to 4, a deadline or none | nothing that must not be repeated is, the policy and the server's delay are kept, the result is real; a stop ends the call though attempts hang |
| `conversation` | 4 formats and options, 4 acts of host, runtime and model, one edit | a request says what the conversation is, offers what was bound, returns model output value for value, and keeps what was sent before |
| `stream_assembly` | 19 streams, every legal interleaving, 2 faults | the final output is what the batch parser makes of the same answer; deltas agree with it; only faults and limits fail a stream |
| `provider_stream` | 100 streams and 548 other answers, any chunks, window 3, limits 4, 8 and 15 bytes, 2 deltas | the deltas are those an uncut reading of the bytes gives; errors are reported alike with and without streaming; a stop ends the call though the network is silent |
| `mcp_call` | one call, answers of up to 3 blocks, with a structured value or without | a status claims no more than is known; a result says the structured value or has a line for every block, and a reference for every artifact |
| `mcp_failed_status` | as above | a divergence: see Findings |

**Bounds.** In `tool_processing`, `BlockId` holds the declarations' IDs and as
many result IDs, so a result ID can collide with a declaration and with another
result. Two calls give one that is collected, running or not entered while the
other is in any of these states when dispatch breaks; the theorems hold for every
number of calls. Two edits are the fewest for an edit that hides another; a
processor that needs more than two edits to break a handoff check would have to
break it first with fewer, because the check compares whole snapshots. `U32Max`
equals the call limit, so that the declaration counter really reaches its end.
Four describes are enough for an overtaken refresh, a failed one, and two
readers of what they left; two changes under one bump are the fewest that a
version cannot tell apart. Four registrations allow both ids to be replaced
during one bind, with listings that collide with each other, with themselves and
with the static tool. Two blocks give every relation of two ranges, empty or
not, at both ends of a context and between two blocks, and a range past the end;
ids are compared between two inserted blocks, between an insert and an append,
and with originals kept, moved or removed. Three replacements are the fewest for
a chain of conflicts. Three change blocks are the fewest with one to remove
between two others. In `RetryingGateway`, waits by the wrapper (0 to 2) are
shorter than the accepted server delay (3), which is shorter than the refused one
(4); one deadline falls within an attempt and one within a wait; `MaxTime` bounds
free ticking only, a sleep always comes to its end.

Four acts of a conversation are enough for two rounds with a change of tools
between them and a host message before, between or after, and for a second
answer that uses the first one's call id. Answers of another gateway come first
only. An edit, which removes a block or rewrites a text of the assistant or the
arguments of a call, is the conversation's last step, because the request it
leads to shows what it did and nothing remembers it otherwise. A bind is
followed by an answer that is committed: a failed round leaves nothing but its
tool change.

Two faults in a stream are the fewest for a loss that another one covers up.
For Anthropic and Chat streams `OutputIsTheAnswer` speaks of one fault that is no
loss, repetition or swap of fragments of one text or string: two can remove a
whole block, and a fragment more or less is a text like any other, which no
receiver could tell. A Responses stream ends with a snapshot and is held to it
under any faults.
`MaxItems` is 3, with scripts at it and beyond: of blocks, items and calls, and of
the parts of a Responses item, both those that are streamed and those that only the
last event holds.

The limits of `provider_stream` are the least that let a stream with two events
pass and another one break each of them: a line, an event, the whole, the deltas
of one event, a buffered body. Window 3 is shorter than the chunks and no divisor
of them, so a window ends between a carriage return and its line feed. Answers
that are not streams vary status, retry headers, envelope, code, and a body that
is empty, too long, no JSON or no text.

**Fairness.** The processing future and the runner are polled whenever they can
make progress (weak fairness of `Runtime`): that is what an executor does for a
future whose waker fired, and both the token and the deadline timer wake it.
Timers fire (weak fairness of `Backstop`, and of `Tick` in `RetryingGateway`).
The retrying wrapper goes on when it can (`Wrapper`). A provider's call does its
local steps (`Moves`, stated over `pc`, which each of them changes) and wakes when
its control stops (`StopWait`); the host polls the stream to its end. Nothing is
assumed of tools, processors, preparers, gateways, the network or the MCP server.
Only `RunEnds`, that a run nobody disturbs ends, has the fairness of what the run
waits for as its premise (`Answering`). In `TurnRunner`, a stopped `bind` or
`process` ends by itself (both race the same control; for `process` this is
`StopEnds` of `ToolProcessing`).

**Deadlock** is checked in the runs of the executor, the runner, the catalog, the
cache, the edits and the wrapper, where `Terminated` or the like is the stutter of
what has returned. A conversation that reached its bound, a stream that ended and
a call that returned really stop: these runs do not check it.

**Findings.** `mcp_failed_status`: the kernel documents `Failed` as "the tool ran
and reported failure". The bridge records every `Unavailable` and `Protocol`
error of a source as `Failed`, among them arguments that are no object, for which
nothing was sent, and a connection that closed after the request left, when the
tool may have succeeded. A test of `composition.rs` shows that the mapping is
meant; a host cannot take the status for more than it is.

Met while modelling, and no run of its own: the comment before the translation of
an MCP answer (`mcp.rs`, 548-553) says that text becomes the observation and that
one line names each stored artifact. With a structured value neither is so (603-606):
the value is the whole content, and a stored image has its reference but no line.
The website (`connect-mcp-servers.mdx`) does say "or its structured content when the
tool returns some", and `ContentAccountedFor` claims what the code does.

## 4. Proofs

`ToolProcessingProofs` proves, for any number of calls, any IDs, tools, results
and processors, and any number of edits:

* `TypeCorrect`: `Spec => []TypeOK`;
* `ResolveCannotFail`: `Spec => []ResolvesValidBatch`, so the `.expect` of
  settlement is justified and every other `resolve` fails for its own reasons
  only;
* `PendingIsSafeToRun`: `Spec => []PendingNeverRan`;
* `CollectedIsKept`: `Spec => []CollectedResultsKept`;
* `ResultsAppend`: `Spec => ResultsOnlyAppended`, which also says that a call not
  started when a stop is there stays pending and not started (`LateSiblingsKept`);
* `PendingIsBound`: `Spec => []DispatchesBoundTools`;
* `OkIsTrue`: `Spec => []OkReportsWhatHappened`.

None of these is inductive. `PendingNeverRan` speaks of the end only, so the
invariant `IInv` adds what holds on the way: a task that was polled is recorded
in `started` (`EnteredInv`, `StartInv`), after settlement no started call is
pending (`SettledInv`), tasks still waiting are pending in the batch
(`WaitingInv`), collected ones are decided with their answer's status
(`KeptInv`), and the phase agrees with the program counter (`PhaseInv`). The
lemma `ResolveKeepsStatuses` is the heart of the step: resolving one call
changes no other call's status, because `resolve_at` swaps entries and never
rewrites one; `ResolveSpares` says the same of the calls nobody started. `ResolveAtEffect` says what `resolve_at` does to a batch and
`ResolveAtValid` that it keeps it valid. The last two theorems need a second
invariant, `ReportInv`, over the whole call: the checks around a processor keep
the set of declared calls (`DeclaredInv`), what was handed to dispatch was valid
(`HandoffInv`), while dispatch runs each call stands, against that handoff, where
its future is (`DispatchedInv`), and after dispatch every batch that was accepted
reports that outcome, whatever a processor edits in between (`ReportedInv`).

`TurnProofs` proves of `TurnRunner`, for any calls, tools, surfaces, limits, widths of the
declaration counter and edits of preparers, `NothingOpen` (`AsksWithNothingOpen`),
`NoCallLost` (`BatchAccountedFor`), `ObserverComplete` (`ObserverSawEverything`),
`Precedence` (`CauseOutranks`), `Limits` (`LimitsHold`), that a processed batch
can be appended (`BatchStaysAppendable`), and `RunKeepsLedger`: `Spec =>
LedgerKept`, the refinement of `TurnLedger`, shown for the initial state and for
each action as a step of the ledger or a stutter. None of the properties is
inductive, because each speaks of one place in the loop. The invariant says which
batches there can be at each place (`ShapeInv`), that a new batch's calls were
never declared (`FreshInv`), that all the host was told of is answered but for
the batch that is open (`OpenInv`), that the host was told of what the context
holds but for a commit whose notification is next (`ToldInv`), what the tools
in the context and in the frame are (`SurfaceInv`), where an unknown outcome
still is (`OutcomeInv`), what was counted so far, exactly (`CountInv`), that a call
runs only while `process` does (`RunningInv`), and that a stop is selected only
where nothing that comes before it was there to select (`CauseInv`).

Of `ContextEdit` it proves `MeantIsDone` (`EditSpec => EditIsWhatWasMeant`) and
`IdentitiesKept` (`EditSpec => IdentityKept`) for any blocks, ranges, inserts and
appends, and any number of replacements. The algorithms are
folds, the references speak of positions. Each fold is first shown to be the
end of a chain, one application of its operator per link (`RetainedFold`,
`WalkFold`, `FlattenIsChain`); what holds of every link is then shown by the
least number it might fail for (`Upward`), which
needs no induction theorem. What is retained is what no later
replacement conflicts with (`RetainedStands`), a conflict is a position both
claim (`ConflictIsCommonClaim`), so that standing ranges come one after the other
(`OrderApart`) with only kept blocks between them (`Gap`, `Ahead`), and link by
link the walk has written what the positions up to there mean (`WalkIsMeant`).
`Verdict` then says that `validate_edit` refuses exactly what is refusable.

`ConversationProofs` proves `ConversationOffersBound` (`Spec =>
[]OffersBoundTools`): in all three formats, with changes in place or folded, every
request that is sent offers the tools bound last and each once, for any surfaces,
host messages, answers, foreign answers, results and edits; and
`ContextOffersBound` (`ToolsSpec => []OfferedIsBound`) for any names, definitions
and host changes. Both rest on what the folds of `ToolSet` make of definitions, by
name (`PutFacts`, `OnlyFacts`, `WithdrawFacts`), and on `BetweenFacts`: applying the
difference of two sets of tools to the first gives the second.

The invariant of the conversation, `OffersInv`, says that the context is one of
well-typed blocks and that the changes in it add up to the tools bound. What an
answer, a result, a message or an edit puts there is no change (`ParseFacts`,
`ToBlocksQuiet`, `QuietAppended` and its relatives), and a round that binds records the
difference. `RenderOffers` then says that a request offers what its context adds
up to, in two parts. The plan's declaration and the changes left in place make the
tools in force (`PlanFacts`): the changes among the segments are all changes of the
context but the first (`LaterChangesFacts`), and where they only add, the
declaration with all of theirs has each tool once (`AddsOnlyNewFacts`). And each
format writes what the segments hold: Chat Completions never leaves a change in
place (`ChatOffers`); a Responses segment becomes items that add its change's tools
or none (`ResponsesOffers`). For Anthropic the renderer's state after each segment is
described (`At`, `Honest`): the tools it keeps in `offered` are what the changes written
so far make of the declaration, and the blocks a change is written as - withdrawals
that are not defined again, then additions - do to a list of tools what the change does
(`WrittenOut`, `AppendChangeFacts`, `WrittenOffers`); the cache markers put in afterwards
change none of it (`MarkedCarried`). An answer's items are bounded by the
assumptions of `Conversation`: arrays are arrays, and no model answers with an item
of `additional_tools`, which only requests contain.

`PrefixProofs` proves `ConversationKeepsEarlier` (`Spec => []EarlierMessagesKept`):
in all three formats a request keeps every one sent before it. `KeptInv` adds to
`OffersInv` that each request sent renders a beginning of the context in which
something was asked (`AreSent`), and that the one about to be sent renders all of
it; no action takes blocks away but an edit, which forgets what was sent. What is
left is a statement about two contexts, one a beginning of the other and both valid
frames. Exchanges are complete before a request, so a later result answers a later
call (`ResultsFollow`), and the longer context normalizes to the segments of the
shorter one and then others, all of later blocks (`RenderedSplits`); a run of one
block therefore ends where it did (`RunsKept`), and the system text in front is the
same. Chat messages and Responses items are then those there were and more
(`Onward`): of Chat the message that is still put together and the media that wait
for the results are what the end of the shorter request sends as well
(`FinishedFacts`). An Anthropic request may go on in its last message, so each
segment is shown to extend what was written, whatever that was (`Tells`,
`SegmentsExtend`), and the marker of the cache, taken off both, leaves this as it is
(`MarksGone`, `ExtendingKeeps`). The tools stay once changes go in place, because the
first change of a context decides what is declared (`PlanKept`).

`ProviderStreamProofs` proves `SameEnd` (`OneClassification`) for any responses,
limits and chunks: what is buffered and what is still to arrive make up the body,
within the limit (`BytesInv`), so what is classified at the end is the body and
not the way it was cut.

It also proves `StreamYields` (`YieldsWhatWasSent`), for any bodies, limits and
meanings of events. The reference reads the whole body at once: where its lines
and events end, what is wrong with it and where, what its usable events say. The
code has a byte at a time and a state. The proof is in three parts:

* *Positions.* For every position `p` of a body there is one parser, `ParserAt`
  (its line is what follows the last line end, its data the joined values of the
  lines since the last blank one, and so on), and one decoder, `DecoderAt`. The
  reference's data and deltas are chains over positions (`DataSteps`,
  `SaidSteps`). Only the name of an event is left open, because no delta depends
  on it.
* *Cuts.* `DecodeSseAt` and `DecodedAt`: the parser or decoder of `p`, given the
  bytes from `p` to any `q`, is at the first position where the body is wrong and
  fails (`WrongAt` says that this is where the reference says so too), is at the
  end of the first event that says something and returns it, or is the parser or
  decoder of `q`. The loop is a recursive function; the set of its outcomes of
  these three kinds is closed under a turn and its measure falls, which needs no
  induction theorem (`Upward` takes the least exception).
* *The call.* `Streams` is inductive: while a stream is read, its decoder is
  that of a position `p`, nothing is wrong up to there, what was delivered and
  what is queued make up what the body says up to `p`, and chunk and unread bytes
  are the rest of the body (`Alive`); or the body is wrong and all it says has
  been delivered (`Dead`). `EndsWell` keeps the end, and `YieldsWhatWasSent`
  alone is not inductive because it says nothing of the decoder.

Nothing is assumed of the tables but their types (`MeaningAssumption`: an event
stands for a sequence of deltas). `LineStart`, `EventData` and the loops of
`DecodeSse` and `Decoded` are stated so that they can be followed position by
position: the loops as recursive functions, the data of an event as the
flattening of what each of its positions gives.

`StreamAssemblyProofs` proves, for any streams of the three formats whose events
have the types they are read at, and any number of faults:

* `CallsAreHeard`: the calls the host has heard when a stream ends well are those of
  the output, by position, under their ids and names, and at most one more, which
  was cut off;
* `DeltasAreTheOutput`: for Anthropic and Chat streams `DeltasAgree` as a whole, the
  arguments and the text too;
* `ResponsesOutput`: for Responses streams `OutputIsTheAnswer`, under any faults.

The invariant says of each format how what was heard follows from the assembly's
state. *Anthropic* (`AInv`): each block that is a call has the next number, and the
call heard under it has the block's id, name and arguments until the block closes and
what they parse to afterwards (`Counted`, `HeardCalls`); the text heard is that of
the blocks in their order as long as nothing was mixed up (`HeardTexts`). *Chat*
(`CHeard`): the tools are the calls heard, word for word. *Responses* (`RInv`): each
item that is a call is heard under its number, with its id and name, and the items
before it tell the number. `MessageStop`, `ChatDone` and the terminal event then turn
that state into the output: what was closed, what is whole, and what the snapshot
confirms are the same calls in the same order, because leaving out can only happen
at the end (`Ended`, `REnded`). Outputs flatten a sequence of pieces; `SpreadChain`
and its relatives follow such a flattening piece by piece, and `Upward` takes the
least exception instead of an induction theorem. The faults need no case of
their own beyond `FaultsKeepInv`: whatever is lost, repeated or moved, what arrives
are still events of the script.

The assumptions are `EventsAssumption` (the types), `TerminalAssumption` (the last
event of a Responses stream holds the answer), both evaluated by TLC on the scripts.

`ToolSourceProofs` proves of `McpSource` `ClaimIsKnown` (`ClaimsWhatIsKnown`) and
`ContentKept` (`ContentAccountedFor`) for any answers a server may give, with a
structured value or without. The invariant
says how far the call and its request are (`PlaceInv`), what an outcome rests on and
what it says (`OutcomeInv`), and that the blocks translated so far have their lines and those
stored their references, in order (`TranslatedInv`).

It proves of `DynamicSource` `FreshListing`, `FailureHidesOlder` and
`HitsMoveForward` for any number of callers, changes and bumps. The invariant
adds how versions, announcements and listings are ordered (what was announced
under a version read earlier is at most what a later listing has), that the
cached listing was filed by the latest refresh under the version it observed, and
that what was served is at most what the cache holds or will hold.

It proves of `ToolCatalog` `RegistryIdsUnique`, `OneMoment` and `NamesRoute` for
any names, listings, sources and orders of registration. The invariant says how
far the bind has come (`ProgressInv`), that what was described so far is a prefix
of a snapshot that was the registry at one moment (`SnapshotInv`), and that the
names taken so far are distinct and reach who listed them (`StaticInv`,
`TargetsInv`); `UniqueConcat` and `WithoutEffect` are the facts about sequences
it needs.

`RetryingGatewayProofs` proves `NothingRepeated`, `PolicyHonoured`,
`ResultExplained` and `GivesUpForCause` for every policy, delay and deadline.
The invariant ties the counter to the attempts that ran (`CountInv`), says that
whatever is followed by an attempt may be repeated from the moment the wait is
decided (`RepeatInv`), that the wait slept is one the policy allows (`WaitInv`)
and, once over, one that was owed (`OwedInv`). `ExpiredIsACause` is the reason
why a deadline noticed late still justifies giving up.

The assumptions are the named `ASSUME`s of the component modules, and TLC
evaluates them in the runs. They type the constants, say that a value standing
for "none" is none of the values it stands beside, and otherwise state what the
code checks or guarantees where the constant comes from: declared IDs are
distinct (`ToolBatch::new`), an edit starts from a context without a repeated id
(`Context::from_blocks`), static tools have distinct names, there are finitely
many tool names, a decode window is not empty.

Only model-checked:

* Liveness (`StopEnds`, `RunEnds`, `StoppedStreamEnds` and the like): the prover
  has no rules for fairness and `ENABLED`.
* `OnlyFaultsFail` of `StreamAssembly`, `OutputIsTheAnswer` for Anthropic and Chat,
  and of `DeltasAgree` the arguments and the text of Responses streams: they compare
  what is assembled with an answer the script gives separately. What a script of an
  answer is would have to be defined for all answers first, by recursion over their
  content, and reasoned about by induction over it.
* `RoundTrip` and `SaysTheConversation` of `Conversation`: they compare the contents
  of whole requests, which the wire modules write in several nested passes and three
  layouts, with what a reader makes of them. What is proved of the tools and of the
  earlier messages says how far a proof goes: a lemma for each pass and format.

## 5. Not modelled

* Wording, logging, tracing spans, usage records, generation options and their
  bounds, extra body fields, headers, builders: data that nothing here decides
  over.
* The resolution of media references before a request (`media.rs`, provider): a
  reference is inline, remote, or not to be shown.
* Events and responses with missing or mistyped fields: all refused with one
  error.
* Byte budgets of an assembly's output; the other limits are there.
* Connecting to an MCP server, the pages of a listing, and closing: rmcp's. The
  listing's version and its cache are `DynamicSource`.
* The default `stream` of a gateway that only has `invoke`: one delta and an end.
* Block and id types, tool declarations and the preparer trait: they have no
  behaviour of their own. Facade crate, examples, website: no logic.

## 6. Plan

All parts with control of their own are modelled, and every safety property of
the executor, the runner, the cache, the catalog, the context, the retrying
gateway, the provider stream and the MCP source is proved, of the stream
assemblies what does not compare them with a given answer, and of the conversation
which tools it offers and that it keeps what it sent. What is left to prove:

| Step | Module | Worth proving |
|---|---|---|
| 1 | `PrefixProofs` | `SaysTheConversation`: with the chains of the three renderers at hand, what a reader makes of each segment |
| 2 | a definition of the streams of an answer | `OutputIsTheAnswer` for Anthropic and Chat: the undisturbed stream of any answer gives it |

Compositions present: `TurnRunner` with the outcomes of `ToolProcessing` (by its
established properties) and with `TurnLedger`; `Conversation` with the renderers,
parsers and `ToolSet`; `StreamAssembly` with the batch parsers of the three
formats, which are its reference; `ProviderStream` with parser, decoder and
classification.
