----------------------------- MODULE AgentCommand -----------------------------
(***************************************************************************)
(* How a command of the business host reaches the agent and how its result *)
(* comes back: the outbox row and its worker (AgentCommand,                *)
(* AgentOutboxWorker), the topics caijiatai.commands and caijiatai.results,*)
(* the agent's durable ledger and its single consumer thread               *)
(* (internal_operations, InternalAgentCommands.execute, agent_service) and *)
(* the host's result consumer (KafkaResultConsumer).                       *)
(*                                                                         *)
(* Nothing in between is exactly-once.  The worker sends before it commits *)
(* and never learns that a send was lost; both consumers may see a record  *)
(* again after a restart; the agent may stop in the middle of its work; a  *)
(* result may be lost.  The result consumer reads the command's row        *)
(* outside any transaction, and writes the copy it has read, with the new  *)
(* status, over whatever the row holds by then.                            *)
(*                                                                         *)
(* What the commands have in common is here.  What a verdict does to the   *)
(* business data is told apart only as far as it decides about the         *)
(* command: an analysis has an AI task that takes one verdict and can be   *)
(* cancelled, an answer to the agent's question can be queued again by the *)
(* buyer until it is applied, and the other commands record no failure.    *)
(***************************************************************************)
EXTENDS Integers, Sequences, FiniteSets

CONSTANTS
    Op,           \* operation ids of the commands
    Analyze,      \* those of type analyze
    Answer,       \* those of type human_interaction_answer
    NoOp,         \* not an operation id
    MaxAttempts,  \* MAX_DELIVERY_ATTEMPTS
    MaxCommands,  \* bound: commands accepted
    MaxRecords,   \* bound: records of one command, and records of results
    MaxStops,     \* bound: stops of the agent, and of the host
    MaxRequeues   \* bound: times the buyer queues an answer again

ASSUME AgentCommandAssumption ==
    /\ Analyze \subseteq Op
    /\ Answer \subseteq Op
    /\ Analyze \cap Answer = {}
    /\ NoOp \notin Op
    /\ MaxAttempts \in Nat \ {0}
    /\ {MaxCommands, MaxRecords, MaxStops, MaxRequeues} \subseteq Nat

VARIABLES
    command,   \* per operation: the outbox row
    sent,      \* per operation: its records in caijiatai.commands
    read,      \* per operation: how many of them the agent's consumer has read
    ledger,    \* per operation: its row of internal_operations
    agent,     \* the agent's consumer thread
    results,   \* caijiatai.results: one partition
    offset,    \* how many results the listener is done with
    consumer,  \* the listener thread: the copy of the row it has read
    applied,   \* per operation: how often its result was applied
    gaveUp,    \* per analysis: failed or cancelled, the AI task's other verdicts
    runs,      \* history, per operation: dispatches in the agent
    requeues,  \* history, per operation: the buyer's requeues
    stops      \* history: how often the agent, and the host, has stopped

host == <<command, consumer, applied, gaveUp>>
topics == <<sent, read, results, offset>>
history == <<runs, requeues, stops>>
vars == <<host, topics, ledger, agent, history>>

\* pending and published are the statuses the worker acts on; dispatching is
\* overwritten in the same transaction and accepted is the HTTP mode's.
Terminal == {"completed", "failed", "cancelled"}
Row == [status : {"none", "pending", "published"} \cup Terminal, attempts : Nat]
LedgerStatus == {"absent", "accepted", "executing", "completed", "failed"}
Message == [op : Op, ok : BOOLEAN]

IdleAgent == [pc |-> "idle", op |-> NoOp, ok |-> FALSE]
IdleConsumer == [pc |-> "idle", row |-> [status |-> "none", attempts |-> 0]]

Init ==
    /\ command = [op \in Op |-> [status |-> "none", attempts |-> 0]]
    /\ sent = [op \in Op |-> 0]
    /\ read = [op \in Op |-> 0]
    /\ ledger = [op \in Op |-> "absent"]
    /\ agent = IdleAgent
    /\ results = <<>>
    /\ offset = 0
    /\ consumer = IdleConsumer
    /\ applied = [op \in Op |-> 0]
    /\ gaveUp = [op \in Op |-> "no"]
    /\ runs = [op \in Op |-> 0]
    /\ requeues = [op \in Op |-> 0]
    /\ stops = [agent |-> 0, host |-> 0]

-----------------------------------------------------------------------------
(* The business host: the services that accept, cancel and requeue, and the *)
(* outbox worker.  A worker transaction holds the row's lock throughout.    *)

\* Mutant: a failure is recorded over the verdict the task has.
VerdictAfterFailureOverwrites(op) == "failed"

\* recordTerminalFailure: aiTasks.fail leaves a task alone that has a verdict.
VerdictAfterFailure(op) ==
    IF op \in Analyze /\ applied[op] = 0 /\ gaveUp[op] = "no" THEN "failed" ELSE gaveUp[op]

\* recordTerminalFailure records a failure for an analysis; for the other
\* types modelled here it changes nothing.
RecordTerminalFailure(op) == gaveUp' = [gaveUp EXCEPT ![op] = VerdictAfterFailure(op)]

\* The producer is asked and not waited for: the record gets there or is lost.
Send(op) ==
    \/ sent[op] < MaxRecords /\ sent' = [sent EXCEPT ![op] = @ + 1]
    \/ UNCHANGED sent

Accept(op) ==
    /\ command[op].status = "none"
    /\ Cardinality({o \in Op : command[o].status # "none"}) < MaxCommands
    /\ command' = [command EXCEPT ![op].status = "pending"]
    /\ UNCHANGED <<consumer, applied, gaveUp, topics, ledger, agent, history>>

Published(op) == [status |-> "published", attempts |-> command[op].attempts + 1]

\* dispatch(), first loop: dispatching, send, published.
Dispatch(op) ==
    /\ command[op].status = "pending"
    /\ Send(op)
    /\ command' = [command EXCEPT ![op] = Published(op)]
    /\ UNCHANGED <<consumer, applied, gaveUp, read, results, offset, ledger, agent, history>>

\* Mutant: the worker looks for a missing result only after the first send.
AwaitedTooLongOnce(op) == command[op].status = "published" /\ command[op].attempts = 1

\* lockPublishedStale: published ten minutes ago, and time passes.
AwaitedTooLong(op) == command[op].status = "published"

\* attempts reached the limit: the next timeout is a failure.
Exhausted(op) == command[op].attempts >= MaxAttempts

\* dispatch(), second loop: no result yet.
Republish(op) ==
    /\ AwaitedTooLong(op)
    /\ ~Exhausted(op)
    /\ Send(op)
    /\ command' = [command EXCEPT ![op] = Published(op)]
    /\ UNCHANGED <<consumer, applied, gaveUp, read, results, offset, ledger, agent, history>>

\* The same when the producer throws: retry() puts the command back.
RepublishThrows(op) ==
    /\ AwaitedTooLong(op)
    /\ ~Exhausted(op)
    /\ command' = [command EXCEPT ![op].status = "pending"]
    /\ UNCHANGED <<consumer, applied, gaveUp, topics, ledger, agent, history>>

\* The transaction rolls back after a send: the record is there, the row unchanged.
SendRolledBack(op) ==
    /\ command[op].status \in {"pending", "published"}
    /\ sent[op] < MaxRecords
    /\ sent' = [sent EXCEPT ![op] = @ + 1]
    /\ UNCHANGED <<host, read, results, offset, ledger, agent, history>>

\* terminalFailure: no result after the last attempt.
GiveUp(op) ==
    /\ AwaitedTooLong(op)
    /\ Exhausted(op)
    /\ command' = [command EXCEPT ![op].status = "failed"]
    /\ RecordTerminalFailure(op)
    /\ UNCHANGED <<consumer, applied, topics, ledger, agent, history>>

\* HumanInteractionService.retry: the interaction is ANSWERED, not yet APPLIED,
\* and requeue() acts on a failed or cancelled command only.
MayRequeue(op) == applied[op] = 0 /\ command[op].status \in {"failed", "cancelled"}

Requeue(op) ==
    /\ op \in Answer
    /\ MayRequeue(op)
    /\ requeues[op] < MaxRequeues
    /\ command' = [command EXCEPT ![op].status = "pending"]
    /\ requeues' = [requeues EXCEPT ![op] = @ + 1]
    /\ UNCHANGED <<consumer, applied, gaveUp, topics, ledger, agent, runs, stops>>

\* AiTaskService.cancel, and markTaskStale when the task's input changes: the AI
\* task is locked, the command is not.  A failed task may be cancelled; its
\* command, read before the failure was written, may be overwritten then.
Cancel(op) ==
    /\ op \in Analyze
    /\ command[op].status # "none"
    /\ applied[op] = 0
    /\ gaveUp[op] # "cancelled"
    /\ gaveUp' = [gaveUp EXCEPT ![op] = "cancelled"]
    /\ \/ command' = [command EXCEPT ![op].status = "cancelled"]
       \/ /\ command[op].status \in Terminal
          /\ UNCHANGED command
    /\ UNCHANGED <<consumer, applied, topics, ledger, agent, history>>

-----------------------------------------------------------------------------
(* The agent: one consumer thread, one process. *)

Unread(op) == read[op] < sent[op]

\* Mutant: a failed operation of any type is opened again.
ClaimableAgain(op) == ledger[op] \in {"absent", "accepted", "failed"}

\* accept, reopen_failed for an answer, and the compare-and-set of claim: two or
\* three transactions, of which only the last is visible to anyone.
Claimable(op) ==
    \/ ledger[op] \in {"absent", "accepted"}
    \/ ledger[op] = "failed" /\ op \in Answer

AgentClaims(op) ==
    /\ agent.pc = "idle"
    /\ Unread(op)
    /\ Claimable(op)
    /\ read' = [read EXCEPT ![op] = @ + 1]
    /\ ledger' = [ledger EXCEPT ![op] = "executing"]
    /\ agent' = [pc |-> "dispatching", op |-> op, ok |-> FALSE]
    /\ runs' = [runs EXCEPT ![op] = @ + 1]
    /\ UNCHANGED <<host, sent, results, offset, requeues, stops>>

\* A replay: the recorded result, the recorded error, or duplicate_command.
AgentReplays(op) ==
    /\ agent.pc = "idle"
    /\ Unread(op)
    /\ ~Claimable(op)
    /\ read' = [read EXCEPT ![op] = @ + 1]
    /\ agent' = [pc |-> "publishing", op |-> op, ok |-> ledger[op] = "completed"]
    /\ UNCHANGED <<host, sent, results, offset, ledger, history>>

\* complete or fail, then the answer to the host.
AgentFinishes(ok) ==
    /\ agent.pc = "dispatching"
    /\ ledger' = [ledger EXCEPT ![agent.op] = IF ok THEN "completed" ELSE "failed"]
    /\ agent' = [agent EXCEPT !.pc = "publishing", !.ok = ok]
    /\ UNCHANGED <<host, topics, history>>

\* The write to the ledger throws: handle_command publishes a failure, and the
\* claim stays until the process is started again.
AgentLedgerThrows ==
    /\ agent.pc = "dispatching"
    /\ agent' = [agent EXCEPT !.pc = "publishing", !.ok = FALSE]
    /\ UNCHANGED <<host, topics, ledger, history>>

\* _publish_result: the record gets there or is lost.
AgentPublishes ==
    /\ agent.pc = "publishing"
    /\ agent' = IdleAgent
    /\ \/ /\ Len(results) < MaxRecords
          /\ results' = Append(results, [op |-> agent.op, ok |-> agent.ok])
       \/ UNCHANGED results
    /\ UNCHANGED <<host, sent, read, offset, ledger, history>>

\* Mutant: abandoned claims are reopened together with what was completed.
RecoveredAll == [op \in Op |-> IF ledger[op] = "absent" THEN "absent" ELSE "accepted"]

\* recover_abandoned_claims, at construction of the service.
Recovered == [op \in Op |-> IF ledger[op] = "executing" THEN "accepted" ELSE ledger[op]]

\* The process stops and starts: it reads again from an offset it has committed.
AgentRestarts ==
    /\ stops.agent < MaxStops
    /\ stops' = [stops EXCEPT !.agent = @ + 1]
    /\ agent' = IdleAgent
    /\ ledger' = Recovered
    /\ \E committed \in [Op -> 0 .. MaxRecords] :
          /\ \A op \in Op : committed[op] <= read[op]
          /\ read' = committed
    /\ UNCHANGED <<host, sent, results, offset, runs, requeues>>

-----------------------------------------------------------------------------
(* The result consumer: one listener thread. *)

Current == results[offset + 1]
Done == offset' = offset + 1
Holding == consumer.pc = "holding"
Write(op, status) == command' = [command EXCEPT ![op] = [consumer.row EXCEPT !.status = status]]

\* Mutant: the listener does not look at the row's status.
AwaitsResultAlways(op) == TRUE

AwaitsResult(op) == command[op].status \notin Terminal

\* findById outside any transaction; a command that is done needs nothing.
ConsumerReads ==
    /\ consumer.pc = "idle"
    /\ offset < Len(results)
    /\ IF AwaitsResult(Current.op)
          THEN /\ consumer' = [pc |-> "holding", row |-> command[Current.op]]
               /\ UNCHANGED offset
          ELSE /\ Done
               /\ UNCHANGED consumer
    /\ UNCHANGED <<command, applied, gaveUp, sent, read, results, ledger, agent, history>>

\* A task that was failed or cancelled meanwhile throws at its state machine.
Applies(op) == gaveUp[op] = "no"

ConsumerApplies ==
    /\ Holding
    /\ Current.ok
    /\ Applies(Current.op)
    /\ applied' = [applied EXCEPT ![Current.op] = @ + 1]
    /\ Write(Current.op, "completed")
    /\ Done
    /\ consumer' = IdleConsumer
    /\ UNCHANGED <<gaveUp, sent, read, results, ledger, agent, history>>

\* A failed result, or one the business refuses (ApiException: a transaction of
\* its own after the first has rolled back).
ConsumerFails ==
    /\ Holding
    /\ Write(Current.op, "failed")
    /\ RecordTerminalFailure(Current.op)
    /\ Done
    /\ consumer' = IdleConsumer
    /\ UNCHANGED <<applied, sent, read, results, ledger, agent, history>>

\* Any other exception rolls back: the record comes again, or goes to the DLQ.
ConsumerThrows ==
    /\ Holding
    /\ consumer' = IdleConsumer
    /\ Done \/ UNCHANGED offset
    /\ UNCHANGED <<command, applied, gaveUp, sent, read, results, ledger, agent, history>>

\* The host stops and starts; offsets are committed after the listener returns.
HostRestarts ==
    /\ stops.host < MaxStops
    /\ stops' = [stops EXCEPT !.host = @ + 1]
    /\ consumer' = IdleConsumer
    /\ \E committed \in 0 .. offset : offset' = committed
    /\ UNCHANGED <<command, applied, gaveUp, sent, read, results, ledger, agent, runs, requeues>>

-----------------------------------------------------------------------------

Worker(op) == Dispatch(op) \/ Republish(op) \/ RepublishThrows(op) \/ GiveUp(op)

Next ==
    \/ \E op \in Op :
          \/ Accept(op) \/ Requeue(op) \/ Cancel(op)
          \/ Dispatch(op) \/ Republish(op) \/ RepublishThrows(op)
          \/ SendRolledBack(op) \/ GiveUp(op)
          \/ AgentClaims(op) \/ AgentReplays(op)
    \/ \E ok \in BOOLEAN : AgentFinishes(ok)
    \/ AgentLedgerThrows \/ AgentPublishes \/ AgentRestarts
    \/ ConsumerReads \/ ConsumerApplies \/ ConsumerFails \/ ConsumerThrows
    \/ HostRestarts

Spec == Init /\ [][Next]_vars

\* The worker is a scheduled task: time passes, and it gets to every command.
FairSpec == Spec /\ \A op \in Op : WF_vars(Worker(op))

-----------------------------------------------------------------------------
(* Properties. *)

\* The rows, the records read and sent, and both threads keep their shapes.
TypeOK ==
    /\ command \in [Op -> Row]
    /\ sent \in [Op -> Nat]
    /\ read \in [Op -> Nat]
    /\ \A op \in Op : read[op] <= sent[op]
    /\ ledger \in [Op -> LedgerStatus]
    /\ agent \in [pc : {"idle", "dispatching", "publishing"}, op : Op \cup {NoOp}, ok : BOOLEAN]
    /\ results \in Seq(Message)
    /\ offset \in 0 .. Len(results)
    /\ consumer \in [pc : {"idle", "holding"}, row : Row]
    /\ applied \in [Op -> Nat]
    /\ gaveUp \in [Op -> {"no", "failed", "cancelled"}]
    /\ runs \in [Op -> Nat]
    /\ requeues \in [Op -> Nat]
    /\ stops \in [agent : Nat, host : Nat]

\* No result is applied twice, however often the command is sent, replayed by
\* the agent, delivered again by Kafka or queued again by the buyer; and the row
\* says completed exactly when the result was applied, although the worker and
\* the buyer write the row between the consumer's read of it and its write.
CompletedIsAppliedOnce ==
    \A op \in Op :
        /\ applied[op] \in {0, 1}
        /\ command[op].status = "completed" <=> applied[op] = 1

\* What the host has applied the agent still knows: a result is applied only if
\* the ledger holds it durably, so that every later delivery gets the same one.
AppliedIsDurable == \A op \in Op : applied[op] > 0 => ledger[op] = "completed"

\* An analysis has one verdict: a result is never applied to an AI task that was
\* failed by a timeout or cancelled by the buyer while the result was on its way,
\* and a row that says cancelled belongs to a cancelled task.
OneAnalysisVerdict ==
    \A op \in Analyze :
        /\ applied[op] > 0 => gaveUp[op] = "no"
        /\ command[op].status = "cancelled" => gaveUp[op] = "cancelled"
        /\ command[op].status = "failed" => gaveUp[op] # "no"

\* Redelivery alone never makes the agent do its work again: an operation other
\* than an answer is dispatched a second time only after the process has stopped.
RerunNeedsRestart ==
    \A op \in Op \ Answer : runs[op] <= 1 + stops.agent

\* Whatever is lost on the way, every command gets a final status: the worker
\* notices a missing result and gives up after the last attempt.
CommandsSettle ==
    \A op \in Op : command[op].status \in {"pending", "published"}
                       ~> command[op].status \in Terminal

Verdict ==
    [op \in Op |-> IF command[op].status = "none" THEN "none"
                   ELSE IF applied[op] > 0 THEN "applied"
                   ELSE IF gaveUp[op] # "no" THEN gaveUp[op]
                   ELSE "open"]

Promise == INSTANCE CommandVerdict WITH verdict <- Verdict

\* All of the delivery shows in the business data as one verdict per command.
ImplementsVerdict == Promise!Spec
===============================================================================
