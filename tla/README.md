# A TLA+ model of nanobee

nanobee is a small asyncio kernel for AI agents.  Messages arrive from channels
(HTTP, DingTalk, a terminal), from timed jobs and from background subagents; the
kernel runs one *turn* for each message: it rebuilds the chat history, calls a
language model in a loop that executes tools, saves what happened, reports it to
plugins and hands the reply to the channel.  Everything runs in one event loop, so
there is no parallelism, but there is a suspension point at almost every line that
matters, and most of the shared state is read before one and written after it.

This directory models that: what can happen between two suspension points, in
which orders, under which cancellations, time-outs, failures and restarts; and
the pure functions on which the correctness of the data rests (message lists,
streams, cards, plugin directories).  `.tla` files named after a component are the
models, `MC*.tla` and `.cfg` files are the instances TLC checks (`McpOwner` needs a `.cfg` only), `*_proofs.tla` are
proved with TLAPS for every value of the constants.

    tlc -workers 2 -config TurnDispatch.cfg MCTurnDispatch
    tlapm Kernel_proofs.tla

Source references are relative to `src/nanobee`.  `PROJECT.json` lists the
components with their status, maps every definition to the lines it models, and
names, line by line, what is hard to test in this code (`hazards`).

## 1. The system

```
 gateway: svc start / stop / restart ──> one process per instance
 instance: soul guard, plugins, tools ──> prompt sources of each turn

 channels ─┐                              ┌─ commands /stop, /new   (no lock)
 cron jobs ├─> Kernel.handle_message ─────┤
 subagents ┘   gate, connect_mcp,         └─> AgentLoop.dispatch
               _active_turns                    blocking hooks of the last turn
                                                LockManager: user lock, global gate
                                                RESTORE → BUILD → RUN → SAVE → RESPOND
                                                  │        │       │       │       │
                         session storage ─────────┴────────┘       │  session   attachments
                         subagent results ─────────┘               │  storage
                                                   AgentRunner ────┤ request: retries, breakers,
                                                                   │   failover, vendors' formats
                                                                   ├ stream: assembly, live edits
                                                                   └ ToolPipeline: guards, batches
                                                   tools ── MCP owners, tool_cron, tool_history,
                                                            spawn, message
               reports  ──> hook tasks ──> plugins (audit records)
               deltas, tools, ends of streams ──> cards, event streams
               reply ──> card | markdown | HTTP body | terminal, and its files
 Kernel.shutdown: close the gate, drain turns, drain hooks, stop channels,
                  close MCP, flush sessions, unload plugins
```

### Components, their state and what makes them correct

| component | state | operations | hard behaviour | correct when |
|---|---|---|---|---|
| `LockManager` (`kernel/lock_manager.py`) | a lock per user, one semaphore, their queues | acquire, hand-over, release | a waiter is cancelled in either queue | one turn per user, at most N in all, nothing leaks |
| message path (`kernel/kernel.py`, `agent/loop.py`) | `_active_turns`, `_pending_blockers`, hook tasks, the closing flag | handle_message, dispatch, turn states, /stop, shutdown | two messages of one user, cancellation at any await, bounded drains | one report per turn; shutdown ends and loses nothing; /stop reaches the turn |
| subagent results (`agent/subagent.py`, `loop.py`) | running tasks, result buffer, pending queues | spawn, announce, inject, BUILD, end of dispatch | results arrive while several turns wait, build or end | each result once, soon; the limit |
| MCP owners and wrappers (`agent/mcp_manager.py`, `agent/tools/mcp.py`) | `_owners`, cooldown, each owner's task, queue and connection, the session of each wrapper | connect, reconnect, close, calls with two kinds of retry | connects, rebuilds, kills, calls and closes overlap, each bounded by a time-out | one connection, no session rebuilt for nothing or handed back dead, every call ends, nothing survives a close |
| session storage (`session/*`, `tool_history`) | cache, files, archive | get_or_create, save, trim, consolidate, /new, flush | commands and crashes beside turns; cuts between a call and its result | legal history for the provider and in the file, nothing lost, resets hold |
| runner (`agent/runner.py`), `message` tool | the message list, limits, injected messages, attachments | model call, tools, retries, finalization, injection, RESPOND | recoveries and injections interleave | the list stays legal, injected messages are kept and seen, files go with the reply once |
| timed jobs (`builtin/tool_cron`) | job list, frozen flag, file, timer task | add, remove, list, tick, restart | arming the timer cancels the tick that executes | due jobs are reached, run once, never come back |
| model requests (`providers/base.py`, `fallback_provider.py`, vendors' providers) | retry counters, two circuit breakers | request, retry, failover, conversion of the messages | breakers shared by all turns; a stream that breaks off | no two models' text in one answer, no early error, legal requests |
| streamed answers (`providers/*`, `utils/file_edit_events.py`) | buffers of a stream, rows of live edits | assemble, throttle, flush, hand over | mixed pieces of parallel calls, cut-off and repeated streams | the calls that run are the answer's, every row is right and gets closed |
| tool calls (`agent/tool_pipeline.py`, `fault_classifier.py`) | batches, repetition counters | guards, gather, notices, faults | one call of a gather fails; /stop | no call outlives its turn or runs without its lock |
| audit (`builtin/audit_logger`, `plugins/hook_mixin.py`) | a slot per user, spans, records | started, pre/post, completed | hooks travel through task chains of different length | a record tells the truth about its turn |
| DingTalk, HTTP, terminal (`builtin/channel_*`) | card, v2 draft and pump, buffers, emoji, replies under way | receive, delta, tool, end of stream, finish, deliver, upload | requests refused or failed after the server did them; pump beside turn | the message is read; the reply and its files arrive, once where nothing failed |
| gateway (`gateway/*`, `cli/svc.py`) | pid files, processes, ports | start, stop, restart, status | commands overlap, die, meet reused pids and hanging gateways | one process per instance, which the pid file names |
| instance (`bootstrap.py`, `plugin_manager.py`, `context_pipeline.py`, `soul_guard.py`) | plugins, tools, skill cache, `core.md` and its hash | boot, turn, shutdown, edits, crash | any order of directories, rings, torn writes, stale caches | the same plugins in any order, fresh skills, no unaccepted core |

How they interact: the lock of a user is held from the end of the blocking hooks
to the end of SAVE; everything that touches a session outside it (`/new`, the
flush at shutdown, the tools of another session's turn) is a hazard.  Cron jobs and subagent
triggers enter through `handle_message` like any message, so they queue for the
same lock as the user's own turns, and a tool call of the user's turn can cancel
the cron tick that waits for that very turn.  Messages for a user with a turn
under way go into that turn's queue when `try_inject` finds one, else they
become a task of their own.  Channels see a turn twice: while it runs, as deltas,
tool notices and ends of streams, and when it is over, as the reply; the card has
to make one text of both.

## 2. The modules

| module | models | how |
|---|---|---|
| `UserMutex` | what `acquire` promises: one body per user, at most `MaxConcurrent` | abstract specification |
| `LockManager` | `lock_manager.py` | one variable per primitive (`lockOwner`, `lockQ`, `gateFree`, `gateQ`); `stage` is the await a task is at.  Implements `UserMutex` |
| `TurnDispatch` | `_handle_message_impl`, `dispatch`, the state machine of `_process_message`, reports and hooks, `/stop`, `shutdown` | EXTENDS `LockManager` and drives its actions; `phase` is the suspension point of a task |
| `SubagentDelivery` | `SubagentManager`, the injector, `inject_message`, the pending queues, BUILD | one user; the lock is the line of turns |
| `McpOwner` | `MCPManager`, `_ServerOwner`, `connect_mcp_servers` and the calls of the wrappers, for one server | owner objects and connections are numbered, so stale ones can be told apart |
| `ChatHistory` | lists of messages: repair, cuts, governance, the trace ledger, the audit of a file | operators only |
| `SessionHistory` | `SessionManager`, `SessionStore`, BUILD and SAVE, `tool_history`, `/new`, crash | uses `ChatHistory`; cache and files are functions of the session |
| `TurnRunner` | `AgentRunner._run_core`, the `message` tool, RESPOND | uses `ChatHistory`; answers of the model are arbitrary |
| `CronService` | `CronService`, `_on_job_execute`, the tool | each timer task is a record with its program counter |
| `RequestMessages`, `VendorMessages` | what a provider makes of a list before it sends it; turns of Anthropic and Bedrock, items of the Responses API | operators only |
| `ModelRequest` | `_request_model`, `_run_with_retry`, `FallbackProvider`, the Responses breaker | several requests share the breakers and a clock |
| `StreamAssembly` | how four protocols put an answer together, streamed or whole | operators on the sequence of events |
| `FileEditTracker` | `StreamingFileEditTracker`: rows, throttling, flush, hand-over | operators on the tracker's state |
| `StreamedCalls` | one iteration: the stream, the rows, the calls that run | composes the two |
| `DingTalkInbound`, `HttpChannel` | what a channel reads out of a message or a request; the event stream | operators only |
| `CardDraft`, `LegacyCard` | the draft and frames of a v2 card; sender, `CardManager` and emoji of a legacy card | operators; every request takes its outcome from a record |
| `DingTalkOutbound` | files of a reply: markers in the text, upload, messages that carry them | operators only |
| `CardReply` | a message from its receipt to the reply on a card, as markdown, as an HTTP answer or on the terminal | composes the six above; the v2 pump is a task beside the turn |
| `ToolGuards` | batches, guards, classification of faults | operators only |
| `AuditTrail` | the slot the audit plugin keeps for a user | operators only |
| `AuditedTurns` | turns, their tool calls in a gather, hook tasks, audit records | composes the two; `ready` is the event loop's queue |
| `GatewayInstances` | `svc` commands, pid files, processes, health ports | a command is a process that may die between two steps |
| `PluginSet` | scan, load order, tools of an instance | operators only |
| `InstanceLife` | boot, turns and end of an instance while its files are edited; skill layers and their cache | on `PluginSet` |

Conventions.  An action is what the code does from one suspension point to the
next.  A cancellation is a flag that is set by the canceller and delivered by an
action of its own, as in asyncio.  A time-out is an action that may happen whenever
its await is pending.  Definitions named `Slip_...` are not part of the system: each
is a plausible slip in the code (a dropped guard, a missing reset) and stands beside
the definition it would replace, to test that a property notices.

What one module takes from another is stated where it is taken: `SubagentDelivery`
and `SessionHistory` serialise turns because `LockManager` is proved to;
`CronService` assumes that a user's lock is fair because `TurnDispatch` answers
every message (`Answered`); `TurnRunner` and `CardReply` take one answer or error for
each request because `ModelRequest` returns one (`Returns`); `TurnRunner` gives every
call one result because `AuditedTurns` does.

### Abstractions

* `LockManager`, `TurnDispatch`: a turn's work is one step per state.  asyncio's
  lock and semaphore are the standard library's, modelled from their use.
* `SubagentDelivery`: what a subagent does while it runs is `TurnRunner`'s; trigger
  messages are counted, their text is blank in the code too.
* `McpOwner`: what a transport does while it connects, and the tools' schemas.
  An `aclose` that raises (`mcp_manager.py:322-326`) counts as closed.
  A connection that is given up after a time-out is `leaked`, as in the code.
* `ChatHistory`: texts are values; token budgets are "the last k messages fit"
  for every k.  Image parts, truncation and redaction are left out.
* `SessionHistory`: one file per session; failed writes and corrupt files are
  left out, as are session ids that `_safe_key` maps to one name.
* `CronService`: one user's service; time is a small integer; cron expressions
  and `every` jobs are "again after `Period`".  `worst` is a history variable: the
  worst that happened so far (`Calm`, the jobs were `Changed` while one was
  executed, a write `Failed`); it never enables or disables a step and only
  conditions the properties.
* `ModelRequest`: an error is a record of what the code asks of it (retryable,
  status, what the text speaks of); pauses may last any time.
* `StreamAssembly`: the arguments of a call are tokens, a path or a line, which is
  what `file_edit_events.py` looks for in the JSON.
* `CardReply`: a text is a sequence of pieces (deltas, notices), so that what is
  shown can be compared with what was said.  A request is done, refused, or
  reported as failed though the server did it.
* `DingTalkOutbound`: a file says where it lies, whether it may be read, its size,
  and which of the requests made for it fails.
* `AuditedTurns`: times, previews, redaction and the writing of the file.
* `GatewayInstances`: a pid is a name with the state of the process behind it.
* `InstanceLife`: a version of a file is the moment it was written.  A scan for skills
  is one step, and so are the reading of the old hash, the comparison and the emptying of the hash file.

## 3. The runs

Every run asks one question of one composition, with all of its modules' actions.

| run | question | instance |
|---|---|---|
| `turn_dispatch` | the message path: safety, and does everything end | alice sends two messages that may overlap, one waits for MCP; bob sends one that may hang for ever; gate of 1; `/stop` and shutdown at any moment |
| `subagent_delivery` | results, limit | two messages in two chats, three subagents, limit 1, queue room 1 |
| `mcp_owner` | connections and calls | two connecting messages, one call, one close; 2 connections, 1 owner object |
| `session_history` | what is stored and shown | two turns (one maybe a blank trigger), a cron turn, a result, keep 3, valve 5, two archives, one crash |
| `turn_runner` | the list and the reply | 3 iterations, 2 calls per answer (the second is `message`), 3 injected messages, turn or subagent |
| `cron_service` | scheduler and file | a one-time job and a recurring one, 2 timer tasks at a time, 1 restart, time 0..2 |
| `model_request` | retries, failover, what is sent | two requests (one streams, one has images), 2 fallback models, 3 errors; all 4680 histories of up to four pieces |
| `streamed_calls` | streams and live edits | five answers, four protocols, streamed or whole, 2 attempts |
| `card_reply` | messages and replies | six ways to answer (v2 card, legacy card, push, event stream, JSON, terminal), every kind of message, 2 to 3 deltas, 1 to 2 tools, up to 2 failed requests in one operation, files with every fault |
| `audited_turns` | tools, lock and records | two turns, one round of one or two calls of four tools |
| `gateway_instances` | processes and pid files | two instances with one port, two commands of any kind, two faults |
| `instance_life` | boot and prompts | every directory of two plugins and nine of up to four, two with a `plugin.toml` that cannot be read; two boots, two edits, two turns |

### Their properties

`turn_dispatch`
* `MutexSpec`: the message path, with every error and cancellation, implements `UserMutex`.
* `LocksSound`: no permit or lock leaks or is returned twice.
* `OneReport`: exactly one terminal report per turn, on all paths out of it.
* `ActiveTurnsServe`: `_active_turns` never names a message that is over; for a channel
  that sends one message at a time `/stop` finds the running turn, and a shutdown
  that exceeded no bound leaves no turn and no report behind.  (For others: section 6.)
* `Answered`: each message let in is answered even when another user's turn hangs,
  as long as a permit is left.
* `CancellationEnds`: shutdown ends whatever hangs; a cancelled message ends and
  returns its lock and permit.

`subagent_delivery`
* `OnceInBufferOrHistory`: an announced result is in the buffer or one session, once.
* `LimitRespected`; `WaitingTurnTakesResults`: a turn in line takes what is buffered.

`mcp_owner`
* `OneConnection`: never two live connections, but those given up or of orphans.
* `RefreshIsRight`: a rebuild tears down the session its caller found dead, and a
  caller is not handed the dead one again (but see section 6).
* `EveryCallEnds`: every call ends, without any time-out of its own on the reconnect.
* `CloseLeavesNothing`: even for an owner that was still opening when the close gave up.

`session_history`
* `HistoryLegal`: calls and results match in what BUILD shows, wherever earlier turns
  cut; the file has no other blemish than orphans at its head, which the next
  repair removes; a cron turn and the chat do not see each other.
* `StoredIsKept`: a restart loses nothing of a turn; no write but `/new` takes the newest message,
  unless it is a tool result whose call a cut has taken, or a subagent's result that no turn has saved when the process dies.
* `ResetIsCleanAlone`: `/new` leaves nothing of earlier turns, for messages that did not overlap.

`turn_runner`
* `ListLegal`: every cut to a budget is legal and has the newest user message.
* `InjectedOnce`: injected messages are merged once and shown to the model, and what
  the user gets is what the list records.
* `AttachedOnce`: the reply carries each file the turn's calls named, once, and none that only earlier turns
  named; a call that was cut off and refused still names what the repair left of its arguments.

`cron_service`
* `TimerCovers`: through all the cancellations of `_arm_timer`, something will look
  at the earliest job in time, until a write fails.
* `StoreKeepsWord`: a crash loses no accepted job, and a tick with an older list brings
  no removed one back.
* `ExecutedOnce`, `DueIsRun`: hold unless the jobs are changed while one is executed;
  what happens then is in section 6.

`model_request`
* `FailoverSound`: one call shows the text of one model only; an error comes back only when
  every model was asked that could have done better; images are given up only
  for an answer.
* `RequestsLegal`: what is sent of any of the histories alternates and pairs
  up, with images and without, in each of the vendors' formats, and no item id is used twice.
* `Returns`: every request comes back.

`streamed_calls`
* `AnswerIsKept`: what is put together at any time is a beginning of the answer, and
  what runs is the whole answer or nothing.
* `FlushShowsAll`: the flush shows what throttling held back.
* `RowsClosed`: no file is shown as being edited when the iteration is over (with the
  exceptions of section 6).

`card_reply`
* `MessageAnswered`: what the user said is read, whatever downloads do; the reply arrives, on the
  card or as markdown, and where no request failed exactly once; its files arrive
  once or the user is told which did not.  `Excused` lists every departure by name.
* `PumpSound`: no frame is lost between the pump's wake flag, its pending slot and its task.
* `CardSettles`: no step of a finished card still runs, no pump outlives the
  delivery, an untroubled card ends finished and with the emoji that says so.

`audited_turns`
* `RecordsSound`: one record per turn, with calls of that turn only, that agrees with its report.
* `CallsEndWithTurn`: a tool runs only under its turn's lock and no call survives its turn.
* `EveryTurnRecorded`: in the end.

`gateway_instances`
* `PidFilesSound`: a pid file never names another instance's process unless the
  number was reused; one command at a time keeps one process per instance.
* `CommandsEnd`: though gateways hang.

`instance_life`
* `PluginsSound`: what is loaded does not depend on the order of the directories, each
  plugin after what it requires; a start fails for a ring, a `plugin.toml` that cannot be read or a
  plugin that cannot be enabled, and for nothing else; only enabled plugins own tools.
* `SkillsFresh`: no prompt shows a skill that was gone longer than the cache's time.
* `SoulSound`: no `core.md` is accepted other than the one accepted before, also when it is edited
  while it is checked, and a start is refused only for a change or a torn hash.

The type invariant of each module is the first conjunct of one of these.

### Bounds, and why they are enough

* *Two messages of a user* are the least with an overwritten `_active_turns`
  entry; a second user with a gate of 1 makes both queues non-empty and lets one user's
  cancellation meet the other's wait.  The proofs cover any number.
* *Three subagents, limit 1, room 1*: a refused spawn, a freed slot and a
  full queue all occur; two chats of one user tell sessions apart.
* *Two connections*: the first and one rebuilt by a reconnect or by a connect after a
  failure, so stale and current sessions coexist.  A second owner object is
  needed only for orphans (section 6); the properties name them for larger instances.
* *Valve 5, keep 3*: traces of three messages with two calls are cut
  between call and result by the valve, by a trim and by a consolidation.  The
  tools refuse to keep fewer than 2 (`tool_history/plugin.py:198`).
* *Two empty retries, one length recovery, two cycles of two injections, three
  iterations*: each limit is reached within one run.  The code has 2, 2, 5 and 3
  (`runner.py:68-71`); the limits only count.
* *Two timer tasks*: a tick that executes and one that sleeps or executes
  beside it.  A new timer may not be armed while all tasks of the model are
  in use; with two this excludes a third tick only.
* *Time 0..2* with `AtDelay = Period = 1`: a job comes due, runs and comes due again.
* *Threshold 2, cooldown 1, one retry* (code: 3, 60 s, 3 delays): a breaker opens,
  cools down and is probed while another request is under way.  Four pieces of
  history put every two kinds next to each other at the start, in the middle and at the end.
* *Five answers*: parallel edits of two files, a patch of two files beside another
  tool, content before the path, one id for two calls, pieces without a name,
  text alone.  Two attempts let a stream break off and be repeated.
* *Card*: a second delta is needed for a frame to wait behind a push, a third to pass the
  buffer's limit of 2 on a legacy card; two tools exceed `MaxSteps = 1`; two failures
  defeat an operation and its fallback.  `EmojiAttempts = 3` and `MaxAttempts = 2`
  make retries run out; `MediaMax = 2`, chunks of 1 and sizes 1 to 3 make a file small,
  chunked and too large.
* *Two turns*: the second starts while the first one's hooks are under way.
  *One round of two calls*: a batch in a gather, a throttled repetition, and two single batches.
* *Two commands, two pids*: one instance restarts while the other command sees its file;
  two faults reach a reused pid after a crash.
* *Two boots, two edits*: a start after a crash between any two writes, with a change before the first,
  between its reading, comparison and writing of the hash, and after it.

`CHECK_DEADLOCK` is off where the system stops by design: its messages have been
answered, its jobs are done or its bounds are reached.

Symmetry is used in `turn_runner` only, over the injected messages, and with
invariants only.

### Fairness, and what justifies it

* The event loop resumes tasks whose await is over and delivers cancellations:
  weak fairness of those actions.
* The waits of `shutdown` have deadlines (`kernel.py:580-603`): weak fairness of
  the disjunction of "quiet" and "deadline".
* A turn's work and a plugin's hook end, because provider calls, tools and MCP
  have time-outs — except for the messages in `MayHang`, which get no fairness at all.
* An MCP owner's opening and teardown run under `asyncio.timeout` and each request under
  `wait_for`; the callers' own time-outs on a reconnect are *not* assumed to happen.
  (The `aclose` after an attempt that timed out, `mcp.py:714-720`, has no bound of its
  own; that it ends is assumed.)
* Cron: ticks, turns and deliveries end, time passes; strong fairness of `TakeLock`
  stands for the FIFO lock, which other turns may take in between.
* Subagents and triggers end and start; the user is not assumed to write again.
* Model requests: clients have idle and total time-outs, sleeps end.
* Audited turns: the loop runs what is ready; the provider and tools answer or time out.
* Gateway: a command goes on; the processes it controls may hang in any state.
* Never assumed: that a user stops, resets, retries, or that anything fails.

## 4. What is proved

Proofs hold for all values of the constants that satisfy the named assumptions
(finite sets of tasks, positive bounds, disjoint names; `MaxConcurrent` may be 0,
the code's "no limit").

| module | theorems | properties of runs they state |
|---|---|---|
| `Kernel_proofs`, about `LockManager` | `LockTyping`, `LockHeld`, `Serialised`, `GateConserved`, `Refinement` | `MutexSpec` |
| `Kernel_proofs`, about `TurnDispatch` | `TurnsSerialised`, `Typing`, `NothingLeaks`, `TurnsReported`, `ReportedOnce`, `ExactlyOneReport`, `StopAndDrainReach` | `LocksSound`, `OneReport`, `ActiveTurnsServe` |
| `Kernel_proofs`, about `SubagentDelivery` | `LimitHolds`, `ResultsKeptOnce` | `LimitRespected`, `OnceInBufferOrHistory` |
| `ChatHistory_proofs` | lemmas about lists of messages, for the next two | |
| `SessionHistory_proofs` | `HistorySound`, `HistoryStaysLegal`, `ResetStaysClean`, `WhatIsStoredIsKept` | `HistoryLegal`, `ResetIsCleanAlone`, `StoredIsKept` |
| `TurnRunner_proofs` | `ListsLegal`, `InjectedHeard`, `FilesAttached` | `ListLegal`, `InjectedOnce`, `AttachedOnce` |
| `CronService_proofs` | `AcceptedIsStored`, `RemovedForGood`, `WordKept`, `SomethingWatches`, `ExecutionsAreSingle` | `StoreKeepsWord`, `TimerCovers`, `ExecutedOnce` |
| `Tools_proofs`, about `McpOwner` | `OneStack`, `RefreshIsSound` | `OneConnection`, `RefreshIsRight` |
| `Tools_proofs`, about `AuditedTurns` | `CallsEnd`, `RecordsAreSound` | `CallsEndWithTurn`, `RecordsSound` |
| `Services_proofs`, about `ModelRequest` | `FailoverNeverMixes` | `FailoverSound` |
| `Services_proofs`, about `CardReply` | `PumpMissesNothing`, `CardsSettle` | `PumpSound`, `CardSettles` |
| `Instances_proofs`, about `GatewayInstances` | `PidFilesTell` | `PidFilesSound` |
| `Instances_proofs`, about `InstanceLife` | `ChangedCoreIsRefused`, `PromptsAreFresh` | `SoulSound`, `SkillsFresh` |

TLC checks the properties of the last column on one instance, the theorems state them for all.

*Lock manager.*  Serialisation is not inductive alone: a task between lock and
gate is not inside, and nothing in "no two inside" says it owns the lock.  The
strengthening is `LockHeldByLiveTask` (a lock is owned exactly by a task of that
user that is inside or at the gate) with the type invariant: two tasks inside of
one user would both own one lock.  `PermitsConserved` counts
tasks inside; its lemmas say by how much each action changes that count.
`Refinement` then maps `AcquireFree`, `LockGranted` and `GateGranted` to `Enter`
or a stutter, `Release` to `Leave`, and both cancellations to stutters; the guards of `Enter`
come from the two invariants.

*Message path.*  `DispatchUsesLock` shows that each of its steps is a lock step or leaves
the lock alone, so all of the above carries over to the whole
path (`TurnsSerialised`, `NothingLeaks`), without a word about hooks or shutdown.  For reports
the invariant is `ReportInv`: `PhasesAgree` (where a task is in the turn and where
it is in the lock agree, and a turn before SAVE has no report), `EveryTurnReported`
and `OnlyBegunReported`.  `EveryTurnReported` alone fails to be inductive at
`Abort`: a task that ends in the lock's queue must be known not to have begun.
`NoSecondReport` follows because `RunDone`, the one step that could lower a report's
rank, happens where `PhasesAgree` knows it to be "none".  `ExactlyOneReport` joins both halves.
For `/stop` and the drain the invariant is `ActiveInv`.  What the drain leaves in flight
depends on three things at once: a serial user has one task that is neither idle nor done
(`SerialOne`), and it is the one `_active_turns` names (`SerialEntry`); a task that waits for MCP,
which registers late, is one that needs MCP (`McpOnly`); and `Drained` says, for every later state
of the shutdown, which tasks its first and second wait covered.

*Session history.*  `HistoryLegal` is not inductive: a list that is legal when it is shown says nothing of
what the next cut leaves.  `IInv` therefore says of every cached, stored, held and shown list that it
is `Whole`: each answer of the model has exactly its results right behind it, no result comes twice, and a result
without its call stands where nothing but summaries and results stand before it (`Bare`), which is what a
cut between a call and its results leaves.  `Whole` is kept by every suffix (`CutTail`), by a summary in front (`SystemInFront`)
and by user messages behind (`UsersBehind`); `DropHead` turns it into `Legal`, which has no result without
its call (`DropHeadLegal`), and `LegalIs` shows that to be `LegalChat`.  `PersistWhole` is the ledger of SAVE: the
fold over the increment is taken apart into its steps (`Growing`), each of which puts a
message, an answer with the placeholders it needs, or a result behind the list (`GrowPlain`, `GrowAnswer`, `GrowTool`).
`Placed` adds whose messages a list holds: a message stands in the session of its turn, and one of a run
only once the turn has reached SAVE, so no later SAVE of another turn can declare the same calls.
With `AloneClean` (for a user whose messages never overlapped, turns met by `/new` are over
and nothing of theirs is stored) this is inductive; `LegalStep` says once what a step may do to the files of a session
(seven forms, from `Same` to `Empties`), every action is shown to be one, and the properties follow from it alone.
The proof assumes of a run (`Increment`) that its messages are its own, that it declares no call twice and that
results stand behind their declaration; the last two are what `ListsLegal` proves of `TurnRunner`, and that
providers number calls uniquely within a session is assumed, as the code does.

*Lists of messages.*  `ChatHistory_proofs` says what the operators of `ChatHistory` return.  Folds, flattenings and the
search for a legal start are recursive functions in the library; `FoldExists`, `FlattenRuns` and `LegalStartRuns` show by a
least counterexample (`Counting`) that each is the last of a sequence of steps.  `PickedAre` and `PickedParts`
describe the places a filter keeps, `LegalIs` puts `LegalChat` in terms of who declares and who
answers a call at which place.  The context governance follows: `RepairLegal` (dropping orphans and filling in placeholders
leaves a list that is legal), `SnipLegal` (so does cutting to a budget, which keeps
the system messages and the newest user message), both joined in `GovernedLegal` for every budget.

*Turn runner.*  `Legal` is not inductive: while tools run, the last message has calls without
results.  `Executing` says what holds then: the list in front of the last message is legal, and that message
makes exactly the calls that are pending or broken, each once; `ExecuteTools` answers them all, so the list is legal
again when the model is waited for.  No call is declared twice because a call has the number of its iteration
(`CallsBefore`: behind the question are calls of earlier iterations, in front of it calls of other turns).
`Anchored` keeps the head of the list (system messages, the question at its place), so `GovernedLegal` applies to each request.
For `InjectedOnce`, `Holding` says that an input is held by one user message if it was taken and by none
before; merging into the last user message and putting a new one behind both keep that
(`Heard` adds that what was taken and not yet shown is in the newest message, so that only
a run that stops at its limit of iterations may end without showing it).  For `AttachedOnce`, `CallsBefore` tells the calls of
this run, cut off or complete, from those of earlier turns, and `MentionsAre` and `DeclaredMediaIs` say what the two
flattenings and the fold of the collection keep.
Assumed is how a run starts (`StartAssumption`): the system prompt, perhaps a summary, the session's list and the
question, which is what BUILD puts together, and that the session's list is legal, which is `HistoryStaysLegal`.
So the two proofs close a circle over turns: a legal session gives a legal run, and that gives a legal session.

*Subagents.*  The check in `spawn` counts `_running_tasks`, the promise is about
running subagents: `LimitInv` adds that the latter are among the former.  That a result is kept
once needs both directions: `Somewhere` (announced and not lost means buffered or in a
history) and `NowhereElse` (the buffer and each history are without repetition, and what a
history has is in no other and not in the buffer), with `Types` to know that who is still running is in neither.

*Timed jobs.*  `IInv` orders three sets: memory within file within the ids ever given
out, with `removed` outside of them.  It holds although a failing write leaves the
file as it was, because every change made in memory alone takes a job away or
changes one.  `WordKept` joins the two promises.
`WatchInv` carries `TimerCovers`: only the timer sleeps, and while the service runs and no write
has failed, a tick is on duty that no cancellation will end, or a sleeper wakes in time for memory and file
both, since a reload may put the one in the place of the other.
The minimum over the due times that `NextWake` takes is shown to be one by `LeastNatural`.
`CalmInv` carries `ExecutedOnce`, as long as nobody changed the jobs under a
tick: `OneRuns` (a single tick runs, it is the timer and has read the present store) and
`RanIsOver` (a one-time job that ran is past, off in the file once the tick has ended, and until
then off in memory or being delivered).  The second is what makes a restart harmless.

*MCP.*  `Types` says for every request in a queue, for every call and every closer which owner
it concerns and which connections it may name (`Good`: a stale connection is one that was opened).
`Stacks` is `OneConnection` with its reasons: a connection that was not leaked is the stack of one live
owner, no two owners share one, and every live owner is the registered one or an orphan.
`Latest` relates the wrapper to the owner's stack and puts a rebuilt connection behind the
one its caller found dead: connections are numbered in the order they are opened.

*Tool calls.*  `CallsEndWithTurn` speaks of calls, and what makes it hold is the order of the event loop's queue.
`QueueTyped` says that a task of a call, of a batch or of a turn is queued at most once (`JoinedQueue` and `YieldsIs` tell what
a step leaves of the order), `CallsAhead` that the task in which a turn goes on after a batch is never in front of one of its calls:
so when it runs no call is left, which `NoneLeft` turns into the guard for the end of the turn.
`BatchWhole` is why a cancellation leaves none behind: a call that waits is queued, and in a cancelled turn every
call that is not done is cancelled and queued; `CallsHome` says that a call that runs or is queued belongs to the batch of the turn
that holds the lock.  All three are about turns none of whose calls was broken by the progress
callback (`Broken`), which is the exception the property names: `gather` then lets the others run on.  `BatchesAre` says of
the fold of `_partition` that each call of an answer is in exactly one batch, `WakesAre` which
tasks `/stop` wakes.

*Audit records.*  `RecordsSound` rests on whose the slot is when a hook finds it, which again only the order of the queue
decides.  `StartsInLine`: the steps of a started hook are in front of the reply of its turn and of the started hook of any later
turn, so at the first call of a turn none is left to overwrite the slot.  `ReportsInLine`: the report of a turn that returned
is in front of the started hook of every other turn at the stage where they could pass each other; an abandoned turn has one step
more to go, and nothing of the kind is said of it, which is the exception the property names.  With `SlotInLine` the slot is the running turn's
once that was started, and remains the returned turn's until it is recorded.  `SlotOf` says what it has: the calls of its turn that
passed the guards (`Hooked`), pending those without a result.  `CallsPlaced` is why no call of a turn that is over changes it: a call
that waits in the queue is in front of the step in which its turn goes on.

*Requests.*  `Own` says, for one request, what holds of its text and presets at each point: the text the
listener has is that of the preset under way or is empty, every working preset before a fallback was asked
before it, an answer without text was given after all were asked, and images are only gone from
the question when the answer is there and is good.
`Shared` types the two breakers.  Of the operators `NextPreset` and `Settle` the proofs need only
that a next preset is behind the present one and what a request may settle to.

*Cards.*  `PumpSound` is inductive only when it is said of every place a frame may be in: `PumpHolds` says that the
newest of what waits, is in the pump's hand or was tried last is the frame of the present draft, and that a pump that
runs belongs to a v2 card whose turn streams or responds.  So a change of the draft must submit, which `ShowIs` shows, and
what ends a push must leave the frame it pushed behind as the one it tried (`PumpEndsIs`).
`CardSettles` speaks of a reply that was delivered, and what makes it hold was decided long before: `Later` says of each
operation of the sender and the card manager that a failed request leaves a trouble no later operation
forgets (`StreamContentIs`, `FinalizeCardIs`, `TriggerEmotionIs` and so on), so a card without troubles
is one every request of which worked; `Finishing` and `EmojiTold` carry what such a card shows from the
end of its stream to the end of the delivery.  That no row runs on a finished card comes from the turn: every row of
the draft that runs is that of a tool that runs (`DraftSound`, by `KeepLastIs`, `WithoutIs`), a turn responds
when no tool runs, and the terminal push is the only one that finishes a v2 card.

*Gateway.*  A command that was suspended knows a pid and an instance; `CmdOk` says what is left of that
knowledge once other commands, processes and reuse of pids had their turn.  `NamesInv`
(a pid file that names a process of the instance names the right one) holds always; `SoloInv` is about
commands that do not overlap, where also no process is without its file except between its spawn and
the write of its pid.

*Instance.*  `Fresh`: the cached list of a layer is one of the lists the layer had within the time to live
(`recent[age]`), and a list that was just scanned is the present one.  An edit makes every
entry of `recent` one older, a tick of the clock makes `age` one older, and both keep it.  `SoulInv`:
a hash that is not torn is that of the accepted core.  It needs that the hash written is the one that was
compared (`found`), whatever `core.md` has become meanwhile; the comparison then decides for `accepted`.

## 5. What is only model-checked

* All liveness (`Answered`, `CancellationEnds`, `WaitingTurnTakesResults`, `EveryCallEnds`,
  `CloseLeavesNothing`, `DueIsRun`, `Returns`, `EveryTurnRecorded`, `CommandsEnd`): fairness
  and ENABLED are outside of what the prover handles.
* What functions over data compute (`RequestMessages`, `VendorMessages`,
  `StreamAssembly`, `FileEditTracker`, `DingTalkInbound`, `DingTalkOutbound`, `PluginSet`).  They
  are folds, filters and flattenings of the community modules, about which the
  library states nothing.  What `ChatHistory_proofs` does for message lists (`FoldExists`, `FlattenRuns`, `PickedAre`) is
  not done for these.  So `RequestsLegal`, `AnswerIsKept`, `FlushShowsAll`, `RowsClosed`, `MessageAnswered` and
  `PluginsSound` rest on TLC: each of them depends on what such an operator returns.

## 6. Where the code departs from what it says

### Stated as properties that do not hold

Each stands in its module with the sentence it takes from the code, and TLC
refutes it when it is put into the module's `.cfg`.

* `StopReachesRunningTurn` (TurnDispatch): of two overlapping messages `/stop` cancels the one
  `_active_turns` names, which may be the one that waits (`kernel.py:340, 370`; README.md:32).
* `ShutdownLosesNothing` (TurnDispatch): the first of two
  overlapping messages to end pops the other's `_active_turns` entry; the drain sees
  nothing in flight, and plugins are unloaded under a running turn (`kernel.py:370`; 610-612).
  A message that waits in `connect_mcp` registers after the drain has looked (`kernel.py:332`).
* `BlockNextHonoured` (TurnDispatch): the group is registered by a task that may run after the
  next dispatch looked for it (`loop.py:762`; docs/plugin_development.md:496).
* `ReturnsToOrigin` (SubagentDelivery): the buffer is per user, so the result goes to whichever
  session builds first (`loop.py:1386`; `subagent.py:244`).
* `DeliveredUnprompted` (SubagentDelivery): a trigger put into the queue of a turn past BUILD is
  dropped as blank, and the result waits for the next message (`loop.py:1078`, 556-557).
* `ResetIsClean` (SessionHistory): with overlapping messages `/new` does not cancel the running
  turn, which then saves into the fresh session (`command_router.py:179`).
* `FreshReclaimed` (SessionHistory): a cron turn that ends before SAVE leaves its one-off session
  (`loop.py:1645`; 1613-1615).
* `SummaryReachesModel` (SessionHistory): a consolidation that cuts behind a tool
  call leaves an orphaned result; the repair of the next BUILD drops everything up
  to it, the new summary included (`loop.py:1427`; `session_manager.py:149-151`).
* `NewResets` (SessionHistory, `RawIsKey = FALSE`): `/new` looks the session up by the raw
  sender id, which the store refuses when it is not a storage key (`command_router.py:185`).
* `AppendOnly`, `ReplyIsSuccess`, `NoErrorAsReply` (TurnRunner): injected messages are merged into
  stored ones (`runner.py:157`; 340); the error of an earlier iteration stays beside a
  later reply, and RESPOND then sends an apology without text or files (`runner.py:804`; `specs.py:195-198`);
  an error text of the finalization request is delivered as the reply (`runner.py:583`; 508, 674).
* `CutOffAttachesNothing` (TurnRunner): a call with cut-off arguments is refused, and the model is told that it was not
  executed (`utils/runtime.py:40`), but its arguments were repaired when they were read (`openai_compat_provider.py:959`, 1147) and
  stored as valid JSON (`base.py:88`), so the files left in them go out with the reply (`message.py:147`), a name cut in its middle included.
* `BadDescriptorIsSkipped` (InstanceLife): "one plugin's configuration error must not block the start"
  (`plugins/base.py:56`), but a `plugin.toml` that does not parse or that `PluginMetadata` refuses raises out of `scan`
  (`plugin_manager.py:33`, 37, 132) through `load_all` and ends `boot` (`kernel.py:156`).
* `OneTimeIsScheduled`, `RemovedNeverStarts` (CronService): a one-time job missed while
  the process was down is kept and never scheduled (`service.py:377`; skills/cron/SKILL.md:14); a job removed while the
  tick's list holds it still starts (`service.py:435`; `plugin.py:426`).
* `DueIsRunInTheEnd` (CronService): two ticks may cancel each other's successors for ever
  (`service.py:441`).

### Reached by the models and named as exceptions in properties

* *Messages and MCP.*  `connect` looks an owner up and
  starts it in a task; in between another connect removes it, and the revived
  owner's connection belongs to nobody (`orphans`; `mcp_manager.py:482`, 495-496).  Callers share a wrapper
  object: a call whose new session is dead too is handed the same session
  again (`mcp_manager.py:347`).
* *Timed jobs.*  A tool call of the user's own turn cancels the tick that waits for that
  turn; the cancelled job counts as done, and a one-time job is deleted unrun
  (`service.py:392`, 610).  A write at the end of a tick that fails leaves the scheduler
  without a timer until the next change (`service.py:438`).  A refused "add" starts the service.
* *Runner.*  A message injected when the very first answer of the model fails is merged
  into the question, before the boundary of what SAVE stores (`runner.py:120-158`; `loop.py:1930`).
  Files a subagent registers with `message` are never delivered, though the tool says so; those
  of a call that failed or was refused are.  Images of the question go out again with the reply (`loop.py:1352`, 1971-1974).
* *Requests.*  "Allow one probe attempt" (`fallback_provider.py:108-110`): concurrent requests all
  probe.  A transient error after text was streamed is retried and the text comes twice.
  Merging two user messages one of which has image blocks drops the other's text (`base.py:446`).
* *Streams.*  `_parse` joins all choices, but one that ended normally speaks for
  all: calls another choice cut off are run (`CutOffElsewhere`).  Rows of live edits stay open when
  a guard stops the call (`tool_pipeline.py:149-165`), after a repeated stream and with repeated
  ids (`file_edit_events.py:557`, 579).
* *Cards.*  On a legacy card the answer of the finalization never shows (`runner.py:582-583`;
  `card_pipeline.py:208`), and the text of an error is lost when the card had streamed
  and its last step fails (`sender.py:587-590`; `channel.py:393`).  A final push that fails after the
  server did it sends the reply twice.  The first empty retry finalizes the legacy card.  A message
  absorbed by a running turn leaves its card generating and its pump waiting.  The thinking emoji stays
  when the card could not be opened (`sender.py:820`) and after errors.  `message.py:325` promises
  a failed card on error, but `_on_message` lets no exception out.
* *Files of a reply.*  A marked local image is never shown: the callback of
  `image_processor.py:78` takes three arguments and gets four.  Markers are processed in the markdown
  fallback only and show raw on cards.  An upload answer that is no JSON ends the delivery of the files behind
  it, and a pushed reply goes out twice.  A notification on a card drops its files.  With the
  default `media_max_mb` the chunked upload is out of reach.
* *HTTP.*  A streaming client gets what was streamed and nothing else: no command
  response, error notification or finalization (`plugin.py:418-440`).  Files are not delivered over
  HTTP or on the terminal; a request with images alone is refused.
* *Inbound.*  Items without a file name, and two pictures of a user, are saved under one
  name; the later overwrites the earlier.
* *Tools and audit.*  A progress callback that raises breaks the gather, whose other calls run
  on after the turn gave its lock back.  `execute_all` runs the remaining batches after a fatal error, against
  its docstring.  The started hook of the next turn can overtake the report of an
  abandoned one and its spans are lost.  Repeated call ids close the wrong span.
* *Gateway.*  Two starts at once both spawn; the loser, and a process whose pid was never written,
  belong to nobody (`runtime.py:253`).  `stop` and `status` remove the pid file whatever it names by then
  (`runtime.py:313`).  A reused pid makes `start` say "already running" and `stop` signal a stranger.  `restart`
  ignores that its stop failed.  The health poll takes anybody's answer on the port.
* *Instance.*  Built-in skills come before the instance's in the prompt
  (`context_pipeline.py:247-262`; README.md:56).  Filters of plugins are ignored for users without lists (`loop.py:1550`;
  docs/plugin_development.md:353).  A crash while the hash is written makes every later start a
  refusal, and so does an edit of `core.md` during its own check.  `core.md` removed between its making and its
  reading ends the start with a FileNotFoundError.  A ring of plugins ends in a RecursionError.  Of two plugins with one name the later
  directory describes the earlier one.

### Seen while reading, not in a model

`LockManager`'s docstring claims re-entrancy (`lock_manager.py:43`), but a nested acquire by
one task would wait for itself.  Messages left in a pending queue when dispatch ends are dropped.
Bare file paths in a text are only found after a blank (`media/constants.py`).  The files long tool results are
spilled to are named by call id, and an id that repeats keeps the old content (`utils/helpers.py`).
`discover()` lets an AttributeError out for a `config.yaml` that is no mapping (`gateway/discovery.py:87-88`), which ends the
command.  A hash file removed between `exists` and `open` ends the start (`soul_guard.py:92-93`).

## 7. Checking that the properties can fail

For each property of each run `PROJECT.json` names a mutant: a `Slip_...`
definition or another operator that takes the place of one definition, as a slip
in the code would.  TLC finds the property violated for all of them under the run's
own configuration.  For instance: a cancelled waiter of the gate that keeps its user's lock;
a BUILD that does not empty the buffer; a teardown that was given up and counts as closed;
a repair that drops nothing; a merge that replaces; a tick that does not freeze the store;
a failed push that drops the frame submitted meanwhile; a stop that gives up on a hanging gateway and
removes its file; a skill cache that never expires.

## 8. What is not modelled, and why

* Construction of providers, image and transcription clients, parsing of documents:
  configuration, single requests and data.
* Shell, file and echo tools: one call of the operating system each.
* Task store (`tool_task`): its docstring worries about a table of locks that forgets one in use, but
  the lock is held over no await, so on one event loop nothing can come in between; the file is replaced as a whole.
* Sandbox, network and workspace policies: predicates over one call, whose verdict `ToolGuards` takes.
* Event bus, presets, agent hooks, schemas of tools: no state that two actors share across a suspension point.
* DingTalk's token cache, QPS limiter and the loop that reopens the stream: in the models a
  request is refused or fails at any time.
* Command line, configuration, packaging: start-up code that runs once.
* Code without a caller: `LockManager.clear`, `SubagentManager.cancel_by_session`,
  `CronService.run_job/enable_job/update_job/register_system_job`, `SessionManager.fork`,
  the write interception of `SoulGuard`, the unloading of a single plugin.
* Inside modelled components: checkpoints and accounting of usage, corrupt session and job files,
  failed writes of sessions, thumbnails, wording and rendering.  `PROJECT.json` says for each component what is left out.

## 9. Plan

The models are written.  The safety of locks, turns, subagents, sessions, the runner, timed jobs, MCP owners, tool calls,
audit records, failover, cards and instances is proved; the text of replies, streams and request formats are only model-checked.  What is left:

1. `RequestsLegal`: what `RequestMessages` makes of a legal list, on top of `GovernedLegal`.
2. `PluginsSound`: the order `load_plugin` finds, a recursive function over the declared dependencies.

Abstract specifications still worth stating: a mailbox that `SubagentDelivery`
implements (announced, then delivered once), a durable log per session that
`SessionHistory` implements between resets, and a set of due jobs that
`CronService` implements while it is calm.
