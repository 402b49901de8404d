# Verification of the procurement harness

TLA+ modules of the state machines and protocols of this repository, the TLC
instances that check them, and TLAPS proofs of what matters most. Line numbers
refer to the commit the project was written from. `PROJECT.json` has, for every
definition, the lines it stands for; `JAVA` abbreviates
`src/procurement-service/src/main/java/com/caijiatai/procurement`, `PY`
`src/src/agentharness`.

## 1. The system

```
 React workbench ──HTTP──► Java host (Spring Boot, JAVA) ──► MySQL / InnoDB
                               │  ▲                          Redis (lock, caches)
      caijiatai.commands (Kafka)│  │ caijiatai.results, .events, .rpc
                               ▼  │
                           Python agent (PY) ──► SQLite: runs, checkpoints, leases,
                                                 tool_invocations, internal_operations
```

The **host** owns the business: purchase tasks, quotes, comparison snapshots,
reviews, decisions, orders, settlements, invoices. Its database is InnoDB at
REPEATABLE READ; a service locks the row it is about (`lockById`, `FOR UPDATE`),
and most rows have a JPA `@Version`. Work for the agent is a row of the
outbox table `agent_command`, written in the business transaction; a scheduled
worker sends it to Kafka and one listener thread applies the results.

The **agent** owns durable runs: a model is asked turn by turn, the tools it
asks for are called, and after every step a checkpoint is saved so that another
process can go on. A ledger (`internal_operations`) makes the commands
idempotent. The deployed process is `agent_service.py`; `web_main.py` with the
API server is the other launcher and has a sweeper of expired leases.

### 1.1 Components

| component | state | operations | what is hard | what makes it correct | module |
|---|---|---|---|---|---|
| Orders, receipts, settlements (`order/`, `settlement/`) | `purchase_order`, `settlement`, idempotency records | ship, receive (partial), close; settle, pay | the payment gate reads invoices it has no lock on; repeated requests; sums at the boundary | paid only if every active invoice is reconciled, and for ever after; closed only if paid or cancelled | Fulfilment |
| Invoices (`invoice/`) | `invoice`, parse commands | upload, parse result, match, correct, void, force, reconcile | a parse result arrives while the order is being paid, twice, or late | one invoice per completed parse | Fulfilment |
| Agent command delivery (`agent/`, PY `api/internal_agent.py`, `agent_service.py`) | outbox row, topics, ledger, AI task's verdict | accept, dispatch, republish, give up, claim, complete, replay, apply, cancel, requeue | lost, repeated, late records; death of either side; a detached row written over newer ones; timeout against answer | a result applied at most once; status says so; one verdict; every command settles | AgentCommand, CommandVerdict |
| Decisions and approvals (`approval/`) | `pending_decision`, `procurement_decision` | request, finalize, fail | reads older than the lock; a nested transaction that commits first; two requests; timeout against decision | decided once, on the input as it is, by a request that never was stale | Decision |
| Human review (`review/`) | `review` | queue, act, finalize, stale | stale evidence, direct decisions beside it | the same | Decision |
| Purchase task and inputs (`task/`) | status, generation, version, snapshot | correct, upload, import, analyse, invalidate | input changes at every point of the above | the same | Decision (in part) |
| Durable runs (PY `engine/runtime.py`, `lifecycle.py`) | `runs.status`, checkpoint, loop memory | run, turn, finish, resume, cancel, interrupt | death between two writes, stops at every await | nothing that is done is done again | DurableRun |
| Run leases (PY `engine/lease.py`, `storage/leases.py`) | owner, expiry | acquire, beat, expire, recover, release | expiry against restart | a leased run does not stay running for ever | DurableRun |
| Tool execution (PY `engine/tool_execution.py`) | `tool_invocations`, grants | gate, ask, run, time out, reconcile, resolve | an attempt whose outcome nobody knows | an effect is not repeated without a person | DurableRun |
| Provider gateway (PY `providers/gateway.py`) | circuit, slots, bucket, queue | admit, queue, pace, call, record, retry, degrade | cancellation at every await, one probe shared by all runs | no slot is lost, the probe's flag has a holder, every turn ends | ProviderGateway |
| Model turns (PY `providers/openai_adapter.py`, the stream loop of `runtime.py`) | calls put together from pieces, limits, attempts | read an event, emit, consume, fall back, retry, stop | late ids, interleaved calls, cut streams, output before a retry | calls that are made are whole, nothing shown twice | ModelTurn |
| Conversation (PY `engine/context.py`, `compaction.py`, `verification.py`, `storage/messages.py`) | messages in memory, checkpoint and table; folded ids | say, group, cut, fold, verify, save, restore | three copies of one list, any of them stale after a death | the goal is sent, calls go with their results, what is folded stays so | Conversation |
| Procurement stages and tools (PY `procurement/agent_tools.py`, `api/internal_agent.py`) | the task's run, its metadata, results of tools | the commands of a task on its one run | results of other commands in the same run, redelivery after a death, a model that skips its tool | a result is its command's own, one run per model, the decided run stays | TaskRun |
| Agent events (PY `agent_service.py`, `storage/events.py`; JAVA `agent/KafkaEventConsumer`) | rows, counter, watermark, topic, projection | append, number, publish, restart, collect, trim, project | the number outlives neither table nor topic alone | numbers advance; nothing is lost but a twin | EventStream |
| AI task timeline (`ai/`) | `ai_task`, step records | create, step events, succeed, fail, retry, cancel, stale | events over another topic than results, after the end, repeated | an ended task shows no open step; one publication | AiTimeline |
| Human interactions (`interaction/`) | questions and answers | ask, answer, retry, cancel, stale | an answer to a question that went stale | every answer ends | retry in AgentCommand, answers in TaskRun |
| Contracts (`contract/`) | drafts, signatures | draft, check, sign | one writer | – | not modelled |
| Comparison engine, quotes and corrections (`comparison/`, `quote/`) | quotes, conflicts | compare, correct, merge | decimals, ties; which fields conflict | deterministic for one input | their use in Decision |
| Runtime queries (rpc topics) | correlation map | query, retry | lost replies | read-only | not modelled |
| Redis lock and caches | keys with expiry | lock, put, evict | expiry, fallback to no lock | safety must not rest on it | not modelled: Decision holds without it |
| Outbox and idempotency housekeeping | retention | clean | a key reused after 30 days | – | records kept for ever in Fulfilment |
| Agent storage (PY `storage/`) | SQLite | transactions | which writes are one transaction | – | the variables of the agent's modules |
| Live stream of the agent (PY `api/server.py`, `engine/events.py`, `useAgentStream.ts`) | cursor, subscription, queue; the page's last number | accept, replay, deliver, poll, reconnect | rows that come in two ways or in none; broken connections | sent once, in order; nothing is passed over but what nobody announced | LiveStream |
| Inspector API, sandbox, redaction, parsers, demo data, workbench, build | – | – | – | – | not modelled, or as named in `PROJECT.json` |

How they interact: the host's services write `agent_command` in their own
transaction; `AgentOutboxWorker` and `KafkaResultConsumer` are two threads that
write the same rows; the listener calls `AgentResultApplication`, which calls
the task, review, approval, invoice and AI task services, one of them
(`finalizeFromAgent`) in a transaction of its own (`REQUIRES_NEW`). On the other
side one consumer thread claims the operation in the ledger, resumes the task's
run, writes the outcome and publishes it.

On the agent's side one thing contains the next: a command works on the task's
run (TaskRun), a run is a loop of turns and batches of tool calls under a lease
(DurableRun) over a conversation (Conversation), a turn is a stream of a
provider (ModelTurn), and a stream goes through the gateway (ProviderGateway).
What it does on the way becomes events (EventStream), and those of its steps and
its result become the buyer's timeline (AiTimeline); a page may also follow the
agent's own stream of the same rows (LiveStream). Each module has the others
by the outcomes they may have.

## 2. Plan

Done, in this order: Fulfilment (money leaves the system here) with its proofs;
CommandVerdict, the abstract promise of the host about an accepted command, and
AgentCommand, the delivery that implements it, with their proofs; Decision;
DurableRun; then the layers around the run, ProviderGateway, ModelTurn,
Conversation and TaskRun; then what leaves the agent besides results, EventStream,
AiTimeline and LiveStream; then the proofs of ProviderGateway, AiTimeline,
Decision, DurableRun, TaskRun and LiveStream, and those of EventStream,
ModelTurn and Conversation.

What could come next: the questions to the buyer and the task's status
`waiting_human`; contracts; two live processes on one data directory, where the
lease has no fencing; an abstract tool call that DurableRun implements; the
comparison as an operator checked against a reference definition.

## 3. Modules and the code

| module | lines of the system | what it is |
|---|---|---|
| `Fulfilment` | OrderService, SettlementService, InvoiceService, KafkaResultConsumer (parse) | specification |
| `CommandVerdict` | what the business data show of a command | abstract specification |
| `AgentCommand` | AgentCommand, AgentOutboxWorker, KafkaResultConsumer, internal_operations, InternalAgentCommands, agent_service | specification, implements CommandVerdict |
| `Decision` | ProcurementTaskService, AgentResultApplication, ReviewService, ApprovalService, PendingDecision | specification |
| `DurableRun` | runtime, lifecycle, lease, tool_execution, storage/leases | specification |
| `ProviderGateway` | gateway, the retry loop of runtime | specification |
| `ModelTurn` | openai_adapter, the stream loop of runtime | specification |
| `Conversation` | context, compaction, verification, lifecycle, storage/messages, session_history | specification |
| `TaskRun` | internal_agent, agent_tools, internal_operations, resume of runtime | specification |
| `EventStream` | agent_service, engine/events, storage/events, maintenance, KafkaEventConsumer | specification |
| `AiTimeline` | AiTaskService, AiTask, AiTaskRecord, KafkaResultConsumer, the step reports of internal_agent | specification |
| `LiveStream` | the stream of api/server, engine/events, useAgentStream.ts | specification |
| `*Proofs` | | theorems about the module of that name, section 5; `AgentCommandProofs` also about CommandVerdict, `ProviderGatewayProofs` about ModelTurn |
| `EventProofs` | | theorems about EventStream, AiTimeline and LiveStream |
| `MC*` | | the constants of the runs and their symmetry |

An operator named as a helper with a suffix and commented `Mutant:` stands
before the helper it alters; it is used by no specification and says what a
plausible bug there would be.

### 3.1 Fulfilment

Variables are rows: `order`, `settlement`, `invoice`, `command`, and the two
scopes of idempotency records. `finance[o]` is the settlement transaction that
holds the settlement's row lock, `consuming` the commands whose row the listener
has read outside any transaction.

A transaction is one action if everything it decides on is under a lock. A
settlement transition is two (`FinanceBegin`, `FinanceCommit`), because
`isReconciledForSettlement` reads invoices and commands without locks
(`SettlementService.java:111`) and they may change before the commit; a parse
result is two (`ResultRead`, then `ApplyParse` or `RejectParse`), because
`onResult` reads the command before the transaction. `CommandFails` is the
worker's timeout as well as a failed result. The status tables `OrderMachine`,
`SettlementMachine` and `InvoiceMachine` are the code's.

Amounts, unit prices and tax are one boolean (`agrees`); the quantity is kept,
because it is what receipts and invoices are compared by, 0 being an invoice
without one. Idempotency keys are remembered for ever; the cleaner drops them
after 30 days, and a repeat after that is a new request.

### 3.2 CommandVerdict and AgentCommand

`CommandVerdict` has one variable: a command has no verdict, is open, applied,
failed or cancelled; failed may become cancelled, applied never changes.

`AgentCommand` has the outbox row, the two topics (`sent`/`read` count the
records of one command, `results`/`offset` are one partition), the ledger, the
agent's thread and the listener with the **copy of the row it holds**: the
listener writes that copy back with a new status, whatever the row says by then
(a JPA merge of a detached entity). Sends are asked for and not awaited: a
record may be lost (`Send`), and one may exist although the transaction rolled
back (`SendRolledBack`). Restarts of either process re-read from any offset
committed before.

The effect of a result on the business is a counter (`applied`) and, for an
analysis, the AI task's other verdicts (`gaveUp`). `approve_decision` is one of
the commands that record no failure here; its two transactions are Decision's.
The partitions of `caijiatai.commands` are kept per command, which allows more
orders than the topic's keys do.

The refinement maps `verdict[op]` to "none", "applied", `gaveUp[op]` or "open".

### 3.3 Decision

One task. `task.ver` is the JPA version, `task.gen` the generation of its input,
`data` a version number of requirement and quotes; a snapshot is the `data` it
compared, and comparing again gives the same result exactly when the data are
the same. `Awardable` are the data for which some quote is eligible.

Two-step transactions: REPEATABLE READ gives a transaction the view of its first
plain read, which comes before it waits for the task's lock. So `RequestBegins`
fixes whether an analysis is in flight and whether the task is decided, and
`RequestCommits` decides with the locked row and that older view
(`ApprovalService.java:122`); `ListenerTakes` fixes the quotes the comparison
will be repeated on, and `Decide`, `Refuse` or `DecideFails` follows;
`WorkerBegins` reads the pending decision, and `WorkerFails` writes that copy.
`Decide` is the nested transaction: it commits before `ListenerCompletes`
finalizes the review and completes the command, and `HostStops` may come between.

Approving kinds of review actions are one. A repeated request with a known key
changes nothing and is left out. "ready" is also "review". The Redis lock is
left out on purpose: it falls back to nothing and expires after ten seconds, so
the properties are checked without it. Reopening, deletion, creation and
`waiting_human` are not modelled.

### 3.4 DurableRun

Rows: `status`, the lease (`owner`, `fresh`), the checkpoint (`cpPhase`,
`cpPending`, `cpDone`), the invocations (`inv`, `attempts`). Memory of the
process: `pc`, `batch`, the gate (`ungated`, `allowed`, `recovering`, `asking`),
the executor (`running`, `ran`, `tries`), `done`, the cancel event, the stop
request under way. `Crash` forgets the memory and keeps the rows; `Boot` is the
next process and recovers a lease only if it has expired by then; `Sweep` is the
API server's and exists when `Sweeper` is true.

What one asyncio task does between two awaits is one action, except where dying
between two writes leaves a state nothing else leaves: `CreateRun`/`Begin` (row,
then lease), `ModelCalls`/`BatchStart` (two checkpoints), `Finish`/`EndStatus`/
`Release` (checkpoint, status, lease), `StopRequested`/`StopPreserves` (signal,
then checkpoint).

The replay policy of each call is chosen by `Init`, so one run covers every
combination. Model, tools and verification appear by their outcomes; `received`
also stands for `validated` and `approved`. `execute_batch` looks at calls in
the order of the batch, the model in any order. A permission given for a whole
run (`allow_run`) is not modelled: a gated call is asked about every time. A
turn only asks for calls it has not asked for before, as ids are fresh. Child
runs, token and cost budgets are left out.

### 3.5 ProviderGateway

State of the gateway (`until`, `probe`, `outcomes`, `free`, `waiting`, `tokens`)
and, per turn, where its attempt is (`stage`), whether it took the probe's flag
(`holds`), whether it has shown output and which attempt it is. `Arrive` is
`acquire` up to its first await, `Acquires` what happens when a slot and a token
are there (or are not, in time), `StreamEnds` the end of a stream with `record`
and `release`, `Cancel` a cancellation at any of the awaits. One event loop runs
all turns, so an action is what happens between two awaits.

The clock is left out: an open circuit may become half-open at any later moment
(`OpenElapses`), a recorded outcome may push any number of old ones out of the
window, a missing token may be due within the wait or not. Statistics and events
of the gateway are read by nothing and left out. A turn stands for a run's
current turn; runs share only the gateway.

### 3.6 ModelTurn

The provider sends events of one of the two protocols (`Responses`, `Chat`): a
call announced, a piece of its arguments, its end, an id that comes late, text,
an end with or without a reason, an error. The adapter (`calls`, `known`,
`owner`) turns each into items; the loop takes them one at a time (`Consume`),
and the adapter reads on only when there are none left, as a generator does.
`Stopped` is a stop, an interrupt or the time limit between two items. `TurnEnds`
is what the loop makes of it: calls, an answer, a failure, a cancellation; and a
retry or the fallback to the other protocol opens a new stream.

A text of arguments is the number of pieces of it; `Objects` are the lengths at
which it is a JSON object. Limits of calls per turn and per run, of bytes and of
output are kept; tokens and costs are a limit that may be found reached; the
shape of requests is left out.

### 3.7 Conversation

A message has a number, a role and a size; the list is in memory (`messages`), in
the checkpoint (`cp`) and in the table (`rows`, by `seq` and then as inserted),
and `Longest` chooses among the three as `checkpoint_messages` does. A turn
groups messages so that calls stay with their results (`Valid`), keeps what fits
in the budget, folds the oldest groups beyond the threshold into the summary
(`Folds`) and is sent what is left (`Sent`). Verification adds messages and
counts its attempts. `Crash` forgets the memory, `Stop` leaves it through
`Finish` or `Preserved`, `Resume` puts it together from the disk.

Which tool runs when is DurableRun's matter: a batch here gives results one after
the other or stops. Verification runs its validators in order and may ask for
several commands, after an answer as after a final output of a tool; a command
is the same kind of batch (`CheckCommand`, `BatchEnds`), and one whose outcome
is unknown stays pending while verification goes on. What a validator finds is
an outcome. A summary has a fixed size.

### 3.8 TaskRun

`ledger` and `result` are the operations' rows, `runs` the runs of the task in
the order of creation, `job` the dispatch under way with what its run has in
memory, `host` what the context of the task says and what the host has sent and
applied. `Claim` takes a command, one action of `Begins` per kind of command
does what `_dispatch` does before the run goes on, or fails before that
(`BeginFails`), `EngineResumes` to `BatchPauses` are the run, `Collects`,
`Rejects`, `Escalates` and `FallsBack` what the dispatch makes of its state;
`Crash` is the process, with a recovery that finds the lease of the dead one
expired or not.

The planner of tier 0 goes by the stage; a model of a higher tier may call any
tool, answer or fail. A tool that fetches the context gives an error as its
result when that fails, and nothing else happens. The contents of requirements,
quotes and contracts are left out: a result of a tool is what kind it is, of
which files, of which decision, and in which command. Merged into one step are
reading the context and writing the metadata, and the checkpoints of a turn and
of its batch. The path of an answer whose run is gone, the second binding of a
reopened task, and what a run that was given up for a better model still holds,
are left out. Delivery is AgentCommand's.

### 3.9 EventStream

`store` is the agent's database (rows, `sqlite_sequence`, the watermark), `seq`
the counter in memory, `taken` what each of the two publishing threads has
numbered and not sent, `topic` the one partition of `caijiatai.events`, `stored`
and `offset` the host. `UpdateRun` appends rows in a transaction, `PublishRow`,
`HeartbeatLoop` and `AiStep` take a number (whose write to the watermark may fail),
`Send` sends it, `Restart` seeds the counter from what it finds, `Collect` drops
the rows of an old run, `Trim` is retention, `OnEvent` is the consumer with its
check for a record it has, its second key and its re-keying.

All events of a run are of one type, which makes two of them the same to the
host's second key as soon as they fall into one second: the hard case. `Trim`
removes only what the host has read. `Island` are numbers the host kept from
before the watermark existed.

### 3.10 AiTimeline

One task, its attempts with a command each, its records, and the two topics. The
agent (`job`, `ledger`) executes a command and reports five steps, which the
host applies in whatever order they come (`ApplyStep`), to the task as it then
is. `Succeed`, `Fail`, `Refuse`, `Retry`, `Cancel`, `GiveUp`, `MarkStale` are
the service's methods, each with the records it writes and closes
(`ClosedTask`). A retry has a command of its own, so the attempt stands for the
operation. A step reported as failed would end the task
(`AiTaskService.java:244-250`); the agent never sends one
(`agent_service.py:433-434`), so `ApplyStep` has no such branch. Loss,
repetition and crashes are counted together in `faults`. Durations, summaries,
progress and delivery notes are left out.

### 3.11 LiveStream

One connection of one page. `rows` is the events table, a row's number its place;
`phase`, `cursor`, `fetched` and `queue` are the generator, `wire` what it sent
and the page has not received, `last` and `shown` the page. `Emit` is the engine:
the row is committed and announced in one piece of the event loop's work, and
`call_soon_threadsafe` keeps the order of the announcements. `Store` is everything
else that commits rows: the lease sweep, in a thread of the same process, and any
other process on the data directory. `ReadPage` runs in a thread and `SendPage` on
the loop, so rows may be committed between the two. `Deliver` is the live loop,
`Heartbeat` its two seconds of silence, `Break` loses all that is under way, and
`Accept` begins the next connection where the page stands, or at the end of the
table when it has received nothing.

Rows are never removed here (no endpoint collects runs), so a page of rows is a
range of numbers. That `Deliver` may find an announcement late, after the poll has
begun, is the same as a row committed during the poll.

## 4. Runs

| run | instance | states | checks |
|---|---|---|---|
| `fulfilment` | 2 orders of quantity 2, 2 uploads and 2 numbers they compete for, 3 keys | 506 k | PaidOnlyReconciled, PaidFreezesInvoices, SettlementIffAllReceived, ReceiptsCountOnce, OneInvoicePerCompletedParse |
| `agent_command` | an analysis, or an answer the buyer queues again up to twice: 2 attempts, 3 records a topic, 1 stop of each side; worker fair | 408 k | CompletedIsAppliedOnce, AppliedIsDurable, RerunNeedsRestart, ImplementsVerdict, CommandsSettle |
| `decision` | 2 requests, 2 edits, 2 analyses, 1 stop; fair | 2.6 M | OneDecision, DecidedOnCurrentEvidence, StaleNeverDecides, ApprovalSettles |
| `durable_run` | 2 calls of any policy, one of which needs leave, 1 turn, 2 processes, 1 stop, 1 retry by a person; fair | 1.6 M | NeverRepeated, AllowedEachTime, ResultsAreFinal, LeasedRunSettles |
| `gateway` | 3 turns, 2 slots, 1 token, 1 retry each, one degradable; fair | 194 k | SlotsConserved, ProbeHeldByCall, TurnsEnd |
| `model_turn` | 2 calls, turns of one or two, 5 events a stream, 1 retry, both protocols | 7.8 M | CallsAreWhole, FragmentsOnce, OneStreamHeard |
| `conversation` | 7 messages, a session with and without earlier runs, 1 death, 1 stop, 1 resume | 872 k | GoalIsSent, PairsAreWhole, FoldedStaysFolded, LeavesAllItSaid |
| `task_run` | 8 kinds of commands in 6 plans, 2 models, 4 steps, 1 death, 1 repeated answer; fair | 301 k | ResultIsOwn, OneRunPerTier, DecidedRunStays, EveryCommandEnds |
| `event_stream` | 3 numbers, 3 seconds, an old row at 2, 1 failed write, 1 repeated delivery | 2.3 M | NumbersAdvance, LostOnlyToTwins, StoredOnce |
| `event_stream_dropped` | the same without failures | – | violation of NewEventsKept |
| `live_stream` | 3 rows, pages of 2, 1 number without a row, 2 broken connections; fair | 72 k | SkippedOnlySilently, SendsForward, RowsShown |
| `ai_timeline` | 1 retry, 2 losses, repetitions or crashes | 6.2 M | EndedIsClosed, PublishedOnce |

Why the bounds are enough for what they are to show:

* *Fulfilment*: two batches are the least with a partial receipt, two invoices
  the least with one reconciled and one not, two uploads the least with one in
  flight when another is done, two orders are needed because a number is unique
  over all of them, and three keys ship and receive twice.
* *AgentCommand*: two attempts are the least with a republication and a
  give-up, three records allow one more than the attempts (a rolled-back send)
  and a result repeated twice; a stop of each side interrupts every pair of
  steps. One command is accepted (`MaxCommands`), of either kind. Commands share only the two threads and the partition of results; the
  case of several commands is covered by the theorems, which hold for every
  `Op`.
* *Decision*: two requests are the least for a superseded one and for a second
  decision; two edits let the input change before and after the request; two
  analyses give an old snapshot and a new one; more stops repeat what one does.
* *DurableRun*: two calls give a batch of which one ran and one did not, and the
  death a resume of it at any point. A resume that dies again adds nothing that
  the row of a call does not say; that it is safe, with more calls and turns, is
  what the theorems show.
* *ProviderGateway*: two slots and three turns make one wait, one token makes
  one pace, and the third turn is there to be let through as the next probe while
  the first still holds the flag. Two outcomes are enough to open and to close.
* *ModelTurn*: two calls are the least that interleave and the least beyond a
  limit of one; five events are a call's beginning, its arguments in two pieces,
  its end, and one of the other call or of the end of the stream.
* *Conversation*: seven messages are a goal, two batches with calls and results
  and what a verification adds, with sizes at which the budget of eight cuts and
  the threshold of four folds. The death and the stop may fall anywhere.
* *TaskRun*: a plan is the commands the host sends to the task; a conversation
  with an answer, an import, an analysis with a decision, a binding with two
  commands, a ladder of two models, and commands without a run. One death falls
  between any two steps of any of them. `MaxSteps` is less than the calls that a
  model may make, so that the limit is reached.
* *EventStream*: three numbers are one before the old row, one that meets it and
  one after it, or two of one run within one second and a third.
* *AiTimeline*: one retry makes an attempt before; two faults lose one thing and
  repeat another.
* *LiveStream*: pages of two and three rows make a replay of a full page and a
  short one, and a poll that leaves a row; two broken connections make one that
  resumes and one that breaks again. What the bounds leave out the theorems cover.

Deadlock is not checked: all these systems may come to rest (a finished run, a
closed order), and the bounds end them.

### 4.1 Fairness

* `AgentCommand!FairSpec`: weak fairness of `Worker(op)`, a scheduled method
  that polls all due rows. Neither Kafka, nor the agent, nor the listener is
  assumed to do anything; that is the point of the timeout.
* `Decision!FairSpec`: weak fairness of `Finish(r)` (the listener finishes what
  it has taken: a local transaction) and `Work(r)` (the same worker). Taking a
  result is not fair: it may never come.
* `DurableRun!FairSpec`: weak fairness of `Loop` (the event loop; provider and
  tools end or time out), `Boot` (compose restarts the container), `Sweep` (a
  task of the API server) and `LeaseExpires` (time passes). Answers of people are
  not fair. A run that waits for a person's answer has the status
  `waiting_approval`, not `running`, so LeasedRunSettles asks nothing of people.
* `ProviderGateway!FairSpec`: time passes (`OpenElapses`, `Refill`), a back-off
  ends, what is admitted goes on (`Acquires`), and a stream ends, by the timeouts
  of the client if by nothing else (`StreamEnds`). Cancellations are not fair, and
  whether a new turn comes is not either.
* `TaskRun!FairSpec`: the consumer thread claims what was sent and the dispatch
  goes on. Deaths and repeated answers are finitely many.
* `LiveStream!FairSpec`: the generator goes on (the loop runs what is ready, a
  read ends, a queue that stays empty times out; the page reconnects after its
  back-off), and the browser handles what arrives. No row and no breakage is fair.

## 5. Proofs

Assumptions are the named ones of the modules (`FulfilmentAssumption`,
`TaskRunAssumption`, ...): sentinels are not members of the sets, limits are
naturals, positive where the code needs it, and sets that must be disjoint are.
Sets of orders, numbers, commands, operations, requests, calls, turns and
files may have any size, and the bounds of the runs any value. Two sets are
finite: the keys receipts are sent with, over which quantities are added up, and
the numbers the host kept from before the watermark existed (`Island`). What
stands for a Python None is none of the ids, names, keys and words it may be
compared with.

**FulfilmentProofs.** `TypeCorrect` first. `PaymentGate` and `PaymentFreezes`
rest on one fact, `GateHeld`: an order that is paid, *or whose row a settlement
transition holds after its gate*, is reconciled with no upload being parsed.
PaidOnlyReconciled alone is not inductive: a commit would need the gate it does
not look at again. With the row held no invoice can be added, since uploads and
parse results wait for the same lock, and a reconciled or voided invoice has no
transition left; so what the gate saw is what the commit finds.
`ClosingRule` and `SettlementDerivation` come from `StatusTable`, which ties an
order's status to what it has received and to the existence of its settlement.
`ParsesAndInvoices` needs that a result in the consumer's hands is of an upload
that is not completed (`HeldAwaits`): the transaction that completes it registers
a number that was free, and no invoice row goes away or changes its order. `ReceiptsAdd` is about a sum over the keys, a function defined by recursion
on finite sets. That it exists, and that changing one key's quantity changes the
sum by the difference, is proved once for every finite set, by a least subset at
which it would fail (`SubsetInduction`); then a receipt under a new key adds what it says, and a
repeated one adds nothing.

**AgentCommandProofs.** The inductive invariant is

    IInv == TypeOK /\ CompletedIsAppliedOnce /\ HeldIsOpen /\ SuccessIsDurable
            /\ AppliedIsDurable /\ OnlyAccepted /\ VerdictKinds /\ OneAnalysisVerdict

`HeldIsOpen`: while the listener holds a copy, the command it is of has not been
applied; this is why writing an old copy over the row does no harm to
CompletedIsAppliedOnce. `SuccessIsDurable`: a success in the topic, or in the
agent's hand, is of an operation the ledger has as completed. `OnlyAccepted`:
whatever is on its way is of an accepted command; `VerdictKinds`: only analyses
are given up. `TypeCorrect`, `AppliedOnce`, `Durable` and `OneVerdict` follow.
`Implements` is the refinement: `Touches(op)` says that a step leaves rows of
other operations alone, and each action either leaves the mapped verdicts or
moves one of them as `CommandVerdict` allows. `RerunsArePaid` counts: the
ledger's attempts of an operation that is no answer are at most one more than the
restarts, and one less while it is free to be claimed, since a claim of an
operation that was claimed before needs a restart in between.

**DecisionProofs.** The invariant is about the version of the task's row, which
every transaction that changes the task raises. `Behind`: a request's version is
not ahead of the task's, and one that was stale or is done is below it;
`Matches`: a request of the task's own version is pending, and the task waits for
it with its snapshot; `Known`: whatever the listener, the worker or a command
holds is of a request there is; `Sees`: while the listener decides on a request
of the task's version, the quotes it has read are those of the input as it is.
Then what the transaction finds after it has the lock (the version unchanged) is
enough for `DecidesOnCurrentEvidence` and `StaleRequestsNeverDecide`, though all
else it decides on is older than the lock; `DecisionIsFinal` needs in addition
that the task is looked at for a decision under the lock.

**DurableRunProofs.** `Phases` says what the row of a call is while memory holds
the call: one that may run is received, the one a person is asked about waits,
one whose tool runs was started, and no call is in two of these places. `Stands`
ties the row to the attempts and to the results there are, `HasLeave` the leaves
a gated call was given to its attempts, `Unrepeated` the attempts that may have
acted to somebody's permission. NeverRepeated alone would be lost at a boot,
which forgets the memory: what is then known of a call is its row, and `Stands`
says enough of it. `NeverRepeatsUnasked`, `EveryAttemptIsAllowed` and
`ResultsStay` follow.

**ProviderGatewayProofs.** ProbeHeldByCall is inductive but for the shape of what
is kept per turn. The steps to look at are the ways out of the gateway: whoever
leaves and held the flag drops it, and a turn that leaves without it finds
another that holds it (`ProbeIsHeld`). `SlotsAreConserved` needs the queue: each
turn that waits is in it once and nobody else is, and it is empty while a slot is
free; then a slot that is given back goes to the head of the queue, which is a
turn without one, and the number of holders stays what it was.

The part about ModelTurn rests on what can be between the adapter and the loop
(`ItemsInv`): either all that one event makes ready of one call, its start if it
had none, `d` pieces, its end if it is complete, of which the loop has consumed a
beginning (`Emission`); or a text, an error or the last items of a stream
(`LastItems`). `CallInv`: a call with an id has it alone and nothing of it is
kept back, one without has sent nothing. `BegunInv`: what the loop has begun is a
call of the adapter, and a call with an id is begun or its start is on its way.
`EndedInv`: the arguments of an ended call are those the adapter completed it
with. Then the pieces the loop has and the `d` that are on their way are the
pieces the adapter has seen (`PiecesArriveOnce`). A stream that is done leaves
nothing on its way and no call without an id, so when every call the loop began
has ended, they are whole and are all there are (`CallsEndWhole`). FragmentsOnce
alone is not inductive: it does not say that pieces are sent only after the
start. `OneStreamIsHeard` needs only that output and the streams heard of go
together.

**ConversationProofs.** The list is kept in three places, none written together
with another, and the four properties are about whichever of them is taken up
next. `ConvInv` is what the three have in common. `AgreeInv`: in each of the list
that is worked on, the checkpoint and the table, no message comes twice and
users' messages come in the order of their numbers; one number is one message
everywhere; the messages of the run are all in the table, and with them the
newest goal; no goal is folded. `RowsInv`: the table is sorted by places in the
list, and a death makes the list shorter, so that a later message can be given
an earlier place; a user's message is never beyond the end of the list, so the
order of the goals is the order of the rows. `LongerInv`: a checkpoint longer
than the list is no longer than the table, and one as long as the table holds
what the list said in this run (`LeavesAllItSaid` needs it where `Longest` takes
the longer one). `QuietInv`: until a process dies the list in memory is the
longest of the three, and what is folded is whole groups, all with their results;
after a death neither need be so, which is why FoldedStaysFolded promises its
second half only without one.

Every action is one of three kinds (`StepKind`): it says one message (`Adds`),
writes one of the lists over another (`Writes`), or folds (`Folding`), and each
kind keeps each part. The lemmas under them are about the operators: a message
put into a list at a place (`InsertIs`), the groups of a list (each message is in
one group, a user's message is a group of its own, a group of a list one message
longer is an old one or has the new message), what the budget may cut
(`GoalStays`) and what the summary may fold (`FoldsWhole`). What is folded or
kept is only ever used as a set of whole groups, so nothing is assumed about how
sizes add up: the theorems hold for whichever groups the arithmetic chooses. No
theorem says that the chosen ones fit the budget.

**TaskRunProofs.** The argument rests on the one command that creates the task's
run. `Commands`: the host has sent at most one, and all runs are of it.
`Bindings` and `BoundFirst`: as long as it has no result the task is bound to no
run, so no other command works on its runs and none of them has a decision; once
it has one, it is never claimed again. `Climbing`: while it is executed, its run
is the last, and those before it are of cheaper models (`TiersRunOnce`). `Fresh`
follows a value from the tool to the collected result: a comparison is collected
for the command that asked for it (`ResultsAreOwn`). A completed run is not
resumed, and a bound task gets no new run (`DecidedRunIsKept`).

**EventProofs.** In the part about LiveStream, `QueueInv`: what is announced
and lies beyond what has been read is in the queue, which is sorted; so the
head of the queue has no announced row between it and the cursor, and a jump of
the cursor passes only rows nobody announced. `Overtaken(n)` keeps the
announced row that passed n, with nothing of what is under way, nor the page,
standing between the two, so that a page that breaks off later has passed both
or none. `WireInv`: what is under way is sorted, beyond the page and not beyond
the cursor; the order of sending follows.

In the part about AiTimeline EndedIsClosed and RunsByOwnSteps are inductive.
PublishedOnce needs to know why an attempt has no second publication: until the
task succeeds every publication is the agent's fifth step, whose repetition is
recognised by its number; the command that succeeds is the only live one and of
its attempt; and while it is live nothing has closed that step.

The part about EventStream follows the numbers. `IdInv`: each number taken is in
the hands of one thread or in one record of the topic. `SavedInv`: one that
reached the watermark is not above it, nor above the counter in memory; a write
that fails leaves a number that only table or topic know. So a number that was
saved is below all that a restart begins with (`NumbersOnlyAdvance`).
`SecondInv`: within one second numbers only rise, because a restart takes longer
than that. `OriginInv`: a row of the host is from before the watermark or is of
an event of the topic, with its run and second; `CopyInv`: where an event is kept
its number is taken, and a second row of it has no run and another number.
`LostInv` then names, for whatever the host has read and does not have, the row
that stands in its place, its `Twin`, and the earlier record it is of
(`LosesOnlyToTwins`); `ProjectsOnce` is the second half of `CopyInv`.

Proved for every instance and not listed in a run: `ClosingRule`
(ClosedIsPaidOrCancelled), `OneVerdict` (OneAnalysisVerdict, whose cases
`ImplementsVerdict` checks), `RunsOnlyByOwnSteps` (RunsByOwnSteps) and the type
invariants.

Every invariant and every action property of the runs is the statement of a
theorem. Model-checked only is liveness (`CommandsSettle`, `ApprovalSettles`,
`LeasedRunSettles`, `TurnsEnd`, `EveryCommandEnds`, `RowsShown`), since liveness
under fairness and ENABLED are out of the proof system's reach. There are no
RECURSIVE operators; recursion is in functions and in the folds of the community
modules.

## 6. Findings

Where the code does something else than a document of the repository says:

**A new event can be dropped as a repetition** (`event_stream_dropped`).
`KafkaEventConsumer.java:55-57` says the event's time is part of the key so that
a number that comes again cannot silently discard a new event, and
`RuntimeEventRepository.java:39` says the same. Line 69 moves an event whose
number is taken to the last number plus one, which is the number of the agent's
next event; when that comes within the same second, line 60 finds the moved row
under its number and time and skips it. Two heartbeats are enough, without any
failure, loss or repeated delivery. The next collision moves the next event, so
all later numbers of the host stay one ahead.

Seen while modelling, without a run of their own.

*Host.* README.md:101 compares a paid invoice with the quantity received;
`InvoiceService.java:211` compares once, with what has been received by then,
and later receipts do not match it again, so an order can be paid whose invoices
and receipts differ. docs/demo-playbook.md:75 has only one of a correction and
an approval succeed; `ProcurementTaskService.java:301` and `358` do not look at
the decision, so a correction after it succeeds too and takes the task back,
leaving decision and order. docs/demo-playbook.md:76 rules out a decision
without the rest, but `finalizeFromAgent` commits before the listener
(`ApprovalService.java:187`): until the redelivery the decision exists and its
command is open. `failPendingDecision` writes a pending decision it read before
the lock (`ReviewService.java:259`, `PendingDecision.java:116`), so a completed
one may turn stale. A review of a task that was decided and analysed again waits
for ever (`ReviewService.java:211`). A comparison is dated by the clock, so one
on either side of midnight UTC is refused (`ApprovalService.java:223`), never
wrong. `markTaskStale` leaves a task's open steps open, against
`AiTaskRecord.java:85-90` (EndedIsClosed exempts stale tasks for this); a
success for a task that is still pending throws and is retried.

*Commands.* `internal_operations.py:150` opens a failed answer for an explicit
retry, `internal_agent.py:228` does so for whichever delivery comes next. A model
that answers a command in plain text completes the task's only run, which no
later command can resume. A decision redelivered after its run completed but
before the ledger did is refused and fails; an import redelivered after a death in
the middle of parsing fails; a conversation's start redelivered after a death
finds its interrupted run and fails, where docs/demo-playbook.md:74 says
otherwise. A resume of a run that a dead process left running, with a lease that
has not expired, is refused. An answer with a file drops attachments that the
start left unparsed (`internal_agent.py:485-498`). `max_steps` is shared by all
commands of a task. A call that a dead process left is made up for by the next
command, behind its input.

*Runs.* `lifecycle.py:46-47` says pending calls shrink only when completed; a
process that dies between the checkpoint of a turn and that of its batch is
resumed without them (`runtime.py:739`).
docs/procurement-workbench-refactor-plan.md:261 has a stopped run continue;
`agent_service.py:277` recovers leases once, at the start, when a lease of the
process before may still be valid, and that process has no sweeper
(LeasedRunSettles holds beside the API server, which has one). `interrupt`
marks a run interrupted that has meanwhile completed (`runtime.py:393`). After a
death the messages table is longer than the list in memory, and `finish` takes it
for the checkpoint, without the session's history (`lifecycle.py:204`). A death
between saving a result and the checkpoint, then a stop and a resume, send two
results for one call; a resume with input while calls are pending puts the input
between the calls and their results. `cancel` of a paused run resets the attempts
of its verification. A turn cut off by a stop leaves calls with no arguments
pending, which the resume executes. A provider that says it was cancelled ends the
run as cancelled.

*Gateway.* `gateway.py:124-128` allows one probe at a time; a call let through
before the circuit opened frees the flag of another. `record` returns "closed"
while the circuit is open. Degradable requests are refused when they are rate
limited, though lines 8-9 promise them a template.

*Events.* `occurred_at` has the precision of a second, and two events of a run and
a type within one are taken for one. A re-keyed heartbeat that is delivered again
is projected again (docs/threat-model.md:70 knows of it). Two threads number and
send without a common lock, so a reader by number (`EventStreamService.java:45`)
may pass one that comes later. `server.py:467` has
one read of the table per heartbeat make up for what is not pushed, so that
nothing is lost in a gap of the subscription; the read comes after two seconds
without an event (line 470), and a pushed event moves the cursor to its own
number (line 491), so a `run_interrupted` of the lease sweep (`leases.py:156`),
announced to nobody, is passed over when the engine announces its next event
first (SkippedOnlySilently says no more than this is lost). Events appended and not published at a death never
are. A page that has received no event yet has no cursor to resume from
(`useAgentStream.ts:43`): when its connection breaks, the next one begins at the
end of the table, and what was appended in between is not shown.

## 7. Assumptions and what is not modelled

Assumed, as `compose.yaml` deploys it: one host, one worker and one listener
thread (Kafka concurrency 1); one agent process at a time per data directory,
with one consumer thread; one partition of the events' topic. Two live processes
on one directory, where a lease without fencing would matter (`lease.py:80`), are
not modelled. Database transactions are atomic and locks are row locks; a deadlock
the database breaks is a rollback, and the step is simply taken again.

Not modelled: the rest of the workbench and the HTTP boundary (no state that outlives a
request; repeated requests are inputs of the models), caches (read-only copies),
suppliers, reports, audit, artifacts, demonstration data, migrations, build;
parsers, judges and the contents of prompts and messages (data, not control);
contracts (one writer, one machine); child runs of the agent; the maintenance of
its storage, which no endpoint calls; calendar time. `PROJECT.json` lists every
component with its reason and, under `hazards`, the places where the code is hard
to test, each with the properties that watch it.
