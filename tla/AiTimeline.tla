------------------------------- MODULE AiTimeline ------------------------------
(***************************************************************************)
(* One analysis task of the host (ai/AiTaskService, AiTask, AiTaskRecord)  *)
(* and its timeline: the agent reports steps over one topic and the result *)
(* over another, each repeated when the command is, and the task may be    *)
(* failed, retried under a new command, cancelled or made stale meanwhile. *)
(* How a command is delivered and answered is AgentCommand's matter; how   *)
(* events are numbered and kept apart is EventStream's.                    *)
(*                                                                         *)
(* A retry sends a new command and starts a new attempt, so the attempt    *)
(* stands for the operation of the task's command.                         *)
(***************************************************************************)
EXTENDS Integers, Sequences, FiniteSets, FiniteSetsExt

CONSTANTS
    MaxRetries,  \* max_retries of the task
    MaxFaults    \* bound: commands and step events that come again, step events that are lost, crashes

ASSUME AiTimelineAssumption == {MaxRetries, MaxFaults} \subseteq Nat

Attempts == 1 .. MaxRetries + 1

VARIABLES
    task,     \* status, retry_count, retryable and stale of the task
    command,  \* per attempt, the status of its command
    records,  \* the task's AiTaskRecords
    inbox,    \* attempts whose command the agent has yet to read
    job,      \* the attempt the agent executes and the last step it came to
    ledger,   \* per attempt, what the agent's execution came to
    events,   \* step events the host has yet to read
    results,  \* attempts whose result is in the results topic, which may repeat them
    faults    \* history

hostVars == <<task, command, records>>
agentVars == <<job, ledger, results>>
timelineVars == <<task, command, records, inbox, job, ledger, events, results, faults>>

Record(a, n, step, status) == [attempt |-> a, sequence |-> n, step |-> step, status |-> status]
NoJob == [attempt |-> 0, step |-> 0]
Step(a, n) == [attempt |-> a, step |-> n]
Placeholder(a) == Record(a, 0, "INPUT_VALIDATE", "PENDING")

TimelineInit ==
    /\ task = [status |-> "PENDING", retries |-> 0, retryable |-> FALSE, stale |-> FALSE]
    /\ command = [a \in Attempts |-> IF a = 1 THEN "accepted" ELSE "none"]
    /\ records = {Placeholder(1)}
    /\ inbox = {} /\ job = NoJob /\ ledger = [a \in Attempts |-> "none"]
    /\ events = <<>> /\ results = {} /\ faults = 0

Attempt == task.retries + 1
Terminal == {"SUCCEEDED", "FAILED", "CANCELLED"}
Live(a) == command[a] \in {"accepted", "published"}

(* The steps of one execution, in order; what fails reports no further step. *)
StepOf(n) == IF n <= 2 THEN "INPUT_VALIDATE" ELSE IF n <= 4 THEN "RULE_ANALYSIS" ELSE "RESULT_PUBLISH"
StatusOf(n) == IF n \in {2, 4} THEN "SUCCEEDED" ELSE "RUNNING"
Failures == {"retryable", "final"}

-------------------------------------------------------------------------------
(* The agent *)

Faulty == faults < MaxFaults /\ faults' = faults + 1

(* One command at a time. *)
Begin(a) ==
    /\ job = NoJob /\ a \in inbox
    /\ inbox' = inbox \ {a}
    /\ job' = Step(a, 1) /\ events' = Append(events, job')
    /\ UNCHANGED <<hostVars, ledger, results, faults>>

(* A step may fail to be published: the command goes on. *)
Report(arrives) ==
    /\ job.step \in 1 .. 4
    /\ job.step >= 3 => ledger[job.attempt] = "ok"
    /\ job' = [job EXCEPT !.step = @ + 1]
    /\ IF arrives THEN events' = Append(events, job') /\ UNCHANGED faults
       ELSE Faulty /\ UNCHANGED events
    /\ UNCHANGED <<hostVars, inbox, ledger, results>>

(* The command fails validation after the first step, or is executed after the third. *)
Execute(verdict) ==
    /\ job.step = 3 \/ (job.step = 1 /\ verdict \in Failures)
    /\ ledger[job.attempt] = "none"
    /\ ledger' = [ledger EXCEPT ![job.attempt] = verdict]
    /\ UNCHANGED <<hostVars, inbox, job, events, results, faults>>

(* The command ends with its result, also when it is the one an earlier execution left. *)
PublishResult ==
    /\ job # NoJob
    /\ IF ledger[job.attempt] = "ok" THEN job.step = 5
       ELSE ledger[job.attempt] \in Failures /\ job.step \in {1, 3}
    /\ results' = results \cup {job.attempt} /\ job' = NoJob
    /\ UNCHANGED <<hostVars, inbox, ledger, events, faults>>

(* The process dies over a command, whose offset is committed or not. *)
Crash(redelivered) ==
    /\ job # NoJob /\ Faulty
    /\ job' = NoJob /\ inbox' = IF redelivered THEN inbox \cup {job.attempt} ELSE inbox
    /\ UNCHANGED <<hostVars, ledger, events, results>>

-------------------------------------------------------------------------------
(* The host *)

(* The command is sent; when the transaction is rolled back after that, it is sent again. *)
Dispatch(a, commits) ==
    /\ command[a] = "accepted" /\ inbox' = inbox \cup {a}
    /\ IF commits
       THEN /\ command' = [command EXCEPT ![a] = "published"]
            /\ task' = [task EXCEPT !.status = IF @ = "PENDING" THEN "DISPATCHING" ELSE @]
            /\ UNCHANGED faults
       ELSE Faulty /\ UNCHANGED <<command, task>>
    /\ UNCHANGED <<records, agentVars, events>>

(* A result that is late: the command is sent again. *)
Republish(a) ==
    /\ command[a] = "published" /\ Faulty
    /\ inbox' = inbox \cup {a}
    /\ UNCHANGED <<hostVars, agentVars, events>>

Unfinished(r) == r.status \in {"PENDING", "RUNNING"}
(* Closing ends the open ones of some records. *)
Closed(R, status) == {IF Unfinished(r) THEN [r EXCEPT !.status = status] ELSE r : r \in R}
ClosedUpTo(R, a, n, status) ==
    LET chosen == {r \in R : r.attempt = a /\ r.sequence <= n} IN Closed(chosen, status) \cup (R \ chosen)
ClosedAttempt(R, a, status) == ClosedUpTo(R, a, 5, status)

ReportedRecords(m) ==
    ClosedUpTo(records, m.attempt, 0, "SUCCEEDED")
        \cup {Record(m.attempt, m.step, StepOf(m.step), StatusOf(m.step))}

(* Whether a step is of the task's command, and the task still open. *)
StepCounts(m) == task.status \notin Terminal /\ m.attempt = Attempt

(* A step is running or over: the agent reports no failed one, which would end the task. *)
ApplyStep(again) ==
    /\ events # <<>>
    /\ LET m == Head(events)
           known == \E r \in records : r.attempt = m.attempt /\ r.sequence = m.step
       IN  IF StepCounts(m) /\ ~known
           THEN records' = ReportedRecords(m) /\ task' = [task EXCEPT !.status = "RUNNING"]
           ELSE UNCHANGED <<records, task>>
    /\ IF again THEN Faulty /\ UNCHANGED events ELSE events' = Tail(events) /\ UNCHANGED faults
    /\ UNCHANGED <<command, inbox, agentVars>>

NextSequence(R, a) == Max({r.sequence : r \in {q \in R : q.attempt = a}} \cup {0}) + 1

(* Mutant: the publication is recorded without asking whether the agent has reported it. *)
WithPublicationAgain(R, a) == R \cup {Record(a, NextSequence(R, a), "RESULT_PUBLISH", "SUCCEEDED")}
(* The publication is on the timeline: as reported, or now. *)
WithPublication(R, a) ==
    IF \E r \in R : r.attempt = a /\ r.step = "RESULT_PUBLISH" THEN R
    ELSE R \cup {Record(a, NextSequence(R, a), "RESULT_PUBLISH", "SUCCEEDED")}

(* A succeeded task presents a closed timeline. *)
Reconciled(a) == WithPublication(Closed(ClosedAttempt(records, a, "SUCCEEDED"), "SKIPPED"), a)

(* A failure closes the open steps, or has a record of its own, of whatever step, when there is none. *)
FailedRecords(a) ==
    LET closed == ClosedAttempt(records, a, "FAILED")
        failure == Record(a, NextSequence(records, a), "INPUT_VALIDATE", "FAILED")
    IN  Closed(IF closed = records THEN records \cup {failure} ELSE closed, "SKIPPED")

MayRetry(retryable) == retryable /\ task.retries < MaxRetries /\ ~task.stale

(* aiTasks.fail, and the retry that the consumer of results starts at once. *)
Fails(a, retryable, automatic) ==
    LET may == MayRetry(retryable)
        next == IF may /\ automatic THEN a + 1 ELSE a
    IN  /\ task' = [task EXCEPT !.status = IF next = a THEN "FAILED" ELSE "RETRYING",
                                !.retries = next - 1, !.retryable = may /\ next = a]
        /\ records' = IF next = a THEN FailedRecords(a) ELSE FailedRecords(a) \cup {Placeholder(next)}
        /\ command' = [b \in Attempts |-> IF b = a THEN "failed" ELSE IF b = next THEN "accepted" ELSE command[b]]

(* A result of a command that has ended is a repetition. *)
Succeed(a) ==
    /\ a \in results /\ ledger[a] = "ok" /\ Live(a) /\ task.status # "PENDING"
    /\ command' = [command EXCEPT ![a] = "completed"]
    /\ task' = [task EXCEPT !.status = "SUCCEEDED", !.retryable = FALSE]
    /\ records' = Reconciled(a)
    /\ UNCHANGED <<inbox, agentVars, events, faults>>

Fail(a) ==
    /\ a \in results /\ ledger[a] \in Failures /\ Live(a)
    /\ Fails(a, ledger[a] = "retryable", TRUE)
    /\ UNCHANGED <<inbox, agentVars, events, faults>>

(* The host cannot use the result: the comparison or the evidence is refused. *)
Refuse(a) ==
    /\ a \in results /\ ledger[a] = "ok" /\ Live(a)
    /\ Fails(a, FALSE, TRUE)
    /\ UNCHANGED <<inbox, agentVars, events, faults>>

(* The host stops waiting for the agent: the buyer may retry. *)
GiveUp(a) ==
    /\ Live(a) /\ Fails(a, TRUE, FALSE)
    /\ UNCHANGED <<inbox, agentVars, events, faults>>

(* The buyer retries a failed task under a new command. *)
Retry ==
    /\ task.status = "FAILED" /\ task.retryable /\ ~task.stale
    /\ task' = [task EXCEPT !.status = "RETRYING", !.retries = @ + 1, !.retryable = FALSE]
    /\ command' = [command EXCEPT ![Attempt + 1] = "accepted"]
    /\ records' = records \cup {Placeholder(Attempt + 1)}
    /\ UNCHANGED <<inbox, agentVars, events, faults>>

Withdrawn == [a \in Attempts |-> IF Live(a) THEN "cancelled" ELSE command[a]]

(* Mutant: a cancelled task keeps its open steps, as a stale one does. *)
KeptOpen(status) == records
(* Every open step of the task is closed, whatever its attempt. *)
ClosedTask(status) == Closed(records, status)

Cancel ==
    /\ task.status \notin {"SUCCEEDED", "CANCELLED"}
    /\ task' = [task EXCEPT !.status = "CANCELLED", !.retryable = FALSE]
    /\ command' = Withdrawn /\ records' = ClosedTask("SKIPPED")
    /\ UNCHANGED <<inbox, agentVars, events, faults>>

(* The task's inputs change. *)
MarkStale ==
    /\ ~task.stale
    /\ task' = [task EXCEPT !.stale = TRUE, !.retryable = FALSE,
                            !.status = IF @ = "SUCCEEDED" THEN @ ELSE "CANCELLED"]
    /\ command' = Withdrawn
    /\ UNCHANGED <<records, inbox, agentVars, events, faults>>

TimelineNext ==
    \/ \E a \in Attempts :
        \/ Begin(a) \/ Republish(a) \/ Succeed(a) \/ Fail(a) \/ Refuse(a) \/ GiveUp(a)
        \/ \E commits \in BOOLEAN : Dispatch(a, commits)
    \/ \E b \in BOOLEAN : Report(b) \/ Crash(b) \/ ApplyStep(b)
    \/ \E verdict \in Failures \cup {"ok"} : Execute(verdict)
    \/ PublishResult \/ Retry \/ Cancel \/ MarkStale

TimelineSpec == TimelineInit /\ [][TimelineNext]_timelineVars

-------------------------------------------------------------------------------

(* A task that has ended shows no open step, of this or an earlier attempt, however late or
   often steps are read; a task made stale is the exception (AiTaskRecord.close). *)
EndedIsClosed ==
    task.status \in Terminal /\ ~task.stale => \A r \in records : ~Unfinished(r)

(* A task is shown as running only for a step of its present command: what is left of the
   attempt before cannot start it (AiTaskService.applyStepEvent). *)
RunsByOwnSteps ==
    task.status = "RUNNING" => \E r \in records : r.attempt = Attempt /\ r.sequence > 0

(* The publication of a succeeded task's result is on its timeline exactly once, and over,
   whether the result or the agent's steps came first (reconcileTimelineOnSuccess). *)
PublishedOnce ==
    task.status = "SUCCEEDED" =>
        \E r \in records : /\ r.status = "SUCCEEDED"
                           /\ {q \in records : q.attempt = Attempt /\ q.step = "RESULT_PUBLISH"} = {r}
===============================================================================
