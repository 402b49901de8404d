------------------------------ MODULE DurableRun ------------------------------
(***************************************************************************)
(* One run of the Python agent (engine/runtime.py): its model turns, its   *)
(* batches of tool calls (engine/tool_execution.py), the checkpoint from   *)
(* which it resumes (engine/lifecycle.py), the lease of the process that   *)
(* works on it (engine/lease.py, storage/leases.py), and what a person     *)
(* decides about a call whose outcome nobody knows.                        *)
(*                                                                         *)
(* A process may die between any two writes: the database keeps the first  *)
(* of the variables below, the memory of the process is gone.  What one    *)
(* asyncio task does between two awaits is one step as far as the process  *)
(* itself is concerned, and is split where dying between two of its writes *)
(* leaves a state that nothing else leaves.  One process at a time uses    *)
(* the data directory, as in compose.yaml.                                 *)
(*                                                                         *)
(* received also stands for validated and approved: nothing that reads an  *)
(* invocation tells the three apart.  Child runs, budgets other than the   *)
(* number of model turns, compaction and the contents of messages are left *)
(* out; verification appears by its outcomes.                              *)
(***************************************************************************)
EXTENDS Integers, FiniteSets

CONSTANTS
    Calls,       \* the tool calls the model may ask for
    NoCall,      \* not a call
    Gated,       \* the calls a person must allow each time
    Parallel,    \* the calls of tools that declare themselves parallel-safe
    MaxTurns,    \* budget.max_steps: model turns of the run, over all its resumes
    MaxAttempts, \* spec.max_attempts of a safe tool
    Sweeper,     \* whether the process looks for expired leases while it runs
    MaxBoots,    \* bound: processes, one after the other
    MaxStops,    \* bound: stop requests, cancelled tasks and heartbeats that give up
    MaxRetries   \* bound: people's decisions to retry an uncertain call

Policy == {"safe", "reconcile", "never"}

ASSUME DurableRunAssumption ==
    /\ NoCall \notin Calls
    /\ Gated \subseteq Calls /\ Parallel \subseteq Calls
    /\ {MaxTurns, MaxBoots, MaxStops, MaxRetries} \subseteq Nat
    /\ MaxAttempts \in Nat \ {0}
    /\ Sweeper \in BOOLEAN

VARIABLES
    status,     \* runs.status; "none" before there is a run
    owner,      \* run_leases.owner_id: the process that holds the lease, 0 without one
    fresh,      \* whether the lease has not expired
    cpPhase,    \* the phase of the checkpoint
    cpPending,  \* its pending tool calls
    cpDone,     \* its completed tool calls, whose results its messages carry
    inv,        \* per call: tool_invocations.status; "none" without a row
    attempts,   \* per call: attempts started
    issued,     \* the calls in the assistant messages of the checkpoint
    turns,      \* the model turns the checkpoint counts
    policy,     \* per call: the replay policy of its tool
    boot,       \* the process that runs, or ran last
    up,         \* whether it runs
    pc,         \* where its work on the run is
    batch,      \* ctx.pending_tool_calls
    ungated,    \* calls of the batch execute_batch has not looked at yet
    allowed,    \* calls that may run
    recovering, \* of these, the ones an earlier attempt left open
    running,    \* calls whose tool is running
    ran,        \* calls of the batch that ran
    tries,      \* per call: attempts in this execution of it
    inLoop,     \* whether the batch is of a model turn, or one that a resume takes up
    done,       \* completed_tool_ids in memory
    asking,     \* the call a person is asked about
    cancel,     \* the cancel event with its mode
    uncertain,  \* ctx.indeterminate_reason
    beating,    \* whether the heartbeat of the lease runs
    stopper,    \* the stop request that is being delivered
    verdict,    \* the status finish() is writing
    grants,     \* history, per call: times a person allowed it
    retries,    \* history, per call: times a person chose to retry it
    stops       \* history: stop requests, cancelled tasks and heartbeats that gave up

checkpoint == <<cpPhase, cpPending, cpDone>>
lease == <<owner, fresh>>
tools == <<inv, attempts>>
process == <<boot, up, policy>>
gate == <<ungated, allowed, recovering, asking>>
execution == <<running, ran, tries>>
signals == <<cancel, stopper, beating>>
history == <<grants, retries, stops>>
vars ==
    <<status, lease, checkpoint, tools, issued, turns, process, pc, batch, inLoop, gate, execution, done,
      signals, uncertain, verdict, history>>

Resumable == {"interrupted", "cancelled", "waiting_approval", "require_human"}
RunStatus == {"none", "running", "completed", "failed"} \cup Resumable
InvocationStatus ==
    {"none", "received", "waiting_approval", "running", "indeterminate", "cancelled",
     "failed", "succeeded"}
HasResult == {"succeeded", "failed"}

Init ==
    /\ status = "none" /\ owner = 0 /\ fresh = FALSE
    /\ cpPhase = "model_turn" /\ cpPending = {} /\ cpDone = {}
    /\ inv = [c \in Calls |-> "none"] /\ attempts = [c \in Calls |-> 0]
    /\ issued = {} /\ turns = 0
    /\ policy \in [Calls -> Policy]
    /\ boot = 1 /\ up = TRUE
    /\ pc = "idle" /\ batch = {} /\ done = {} /\ uncertain = FALSE /\ verdict = "none"
    /\ ungated = {} /\ allowed = {} /\ recovering = {} /\ asking = NoCall
    /\ running = {} /\ ran = {} /\ tries = [c \in Calls |-> 0] /\ inLoop = FALSE
    /\ cancel = "none" /\ stopper = "none" /\ beating = FALSE
    /\ grants = [c \in Calls |-> 0] /\ retries = [c \in Calls |-> 0]
    /\ stops = 0

-----------------------------------------------------------------------------
(* Processes and the lease. *)

\* The memory of a process that has no work on the run.
Forgotten ==
    /\ pc' = "idle" /\ batch' = {} /\ done' = {} /\ uncertain' = FALSE /\ verdict' = "none"
    /\ ungated' = {} /\ allowed' = {} /\ recovering' = {} /\ asking' = NoCall
    /\ running' = {} /\ ran' = {} /\ tries' = [c \in Calls |-> 0] /\ inLoop' = FALSE
    /\ cancel' = "none" /\ beating' = FALSE

\* A process that dies takes its memory along and leaves its lease.
Crash ==
    /\ up /\ boot < MaxBoots
    /\ up' = FALSE /\ stopper' = "none"
    /\ Forgotten
    /\ UNCHANGED <<status, lease, checkpoint, tools, issued, turns, boot, policy, history>>

\* A lease expires when nobody renews it any more.
LeaseExpires ==
    /\ owner # 0 /\ fresh
    /\ ~up \/ owner # boot \/ ~beating
    /\ fresh' = FALSE
    /\ UNCHANGED <<status, owner, checkpoint, tools, issued, turns, process, pc, batch, inLoop, gate,
                   execution, done, signals, uncertain, verdict, history>>

\* What the recovery of an expired lease makes of a call: an attempt that may have had an
\* effect outside is over, and nobody knows how it ended.
InvAfterLoss(c) == IF inv[c] = "running" /\ policy[c] = "never" THEN "indeterminate" ELSE inv[c]

\* recover_expired_run_leases, one transaction.
RecoverOnlyLease == owner' = 0 /\ fresh' = FALSE /\ UNCHANGED <<status, inv>>
RecoverExpired ==
    /\ owner' = 0 /\ fresh' = FALSE
    /\ IF status \in {"running", "waiting_approval"}
       THEN /\ status' = "interrupted"
            /\ inv' = [c \in Calls |-> InvAfterLoss(c)]
       ELSE UNCHANGED <<status, inv>>

Expired == owner # 0 /\ ~fresh

\* The next process starts and recovers what has expired by then.
Boot ==
    /\ ~up /\ boot < MaxBoots
    /\ boot' = boot + 1 /\ up' = TRUE
    /\ IF Expired THEN RecoverExpired ELSE UNCHANGED <<status, lease, inv>>
    /\ UNCHANGED <<checkpoint, attempts, issued, turns, policy, pc, batch, inLoop, gate, execution, done,
                   signals, uncertain, verdict, history>>

\* The API server recovers leases as long as it runs; it does not look at what this very
\* process is working on.
Sweep ==
    /\ Sweeper /\ up /\ Expired
    /\ RecoverExpired
    /\ UNCHANGED <<checkpoint, attempts, issued, turns, process, pc, batch, inLoop, gate, execution, done,
                   signals, uncertain, verdict, history>>

\* Three heartbeats in a row could not be written: the loop is told to stop, the tools are not.
HeartbeatGivesUp ==
    /\ beating /\ pc \in {"stream", "approval", "exec"} /\ stops < MaxStops
    /\ beating' = FALSE /\ cancel' = "interrupted" /\ stops' = stops + 1
    /\ UNCHANGED <<status, lease, checkpoint, tools, issued, turns, process, pc, batch, inLoop, gate,
                   execution, done, stopper, uncertain, verdict, grants, retries>>

-----------------------------------------------------------------------------
(* Starting, resuming and ending the work on the run. *)

\* harness.run: the row is there before the lease is.
CreateRun ==
    /\ up /\ pc = "idle" /\ status = "none"
    /\ status' = "running" /\ pc' = "created"
    /\ UNCHANGED <<lease, checkpoint, tools, issued, turns, process, batch, inLoop, gate, execution, done,
                   signals, uncertain, verdict, history>>

Begin ==
    /\ pc = "created"
    /\ owner' = boot /\ fresh' = TRUE /\ beating' = TRUE
    /\ pc' = "top"
    /\ UNCHANGED <<status, checkpoint, tools, issued, turns, process, batch, inLoop, gate, execution, done,
                   cancel, stopper, uncertain, verdict, history>>

LeaseIsFree == owner = 0 \/ owner = boot \/ ~fresh

\* The calls of the checkpoint a resumed run still has to make.
Incomplete == cpPending \ cpDone

\* Only these phases lead back into the batch; after any other the model is asked again.
ResumesBatch == Incomplete # {} /\ cpPhase \in {"tool_batch", "waiting_approval"}

Resume ==
    /\ up /\ pc = "idle"
    /\ status \in Resumable /\ LeaseIsFree
    /\ owner' = boot /\ fresh' = TRUE /\ beating' = TRUE
    /\ status' = "running"
    /\ batch' = Incomplete /\ done' = cpDone
    /\ inLoop' = FALSE /\ pc' = IF ResumesBatch THEN "called" ELSE "top"
    /\ UNCHANGED <<checkpoint, tools, issued, turns, process, gate, execution, cancel, stopper,
                   uncertain, verdict, history>>

\* The calls a stopped run keeps for its resume.
Kept == (IF batch # {} THEN batch ELSE cpPending) \ cpDone

\* lifecycle.finish: the checkpoint first, the row of the run after it.
Finish(s) ==
    /\ cpPhase' = IF s = "completed" THEN "terminal" ELSE "tool_batch"
    /\ cpPending' = IF s \in Resumable THEN Kept ELSE {}
    /\ cpDone' = cpDone
    /\ verdict' = s /\ pc' = "ending"
    /\ running' = {} /\ ran' = {} /\ UNCHANGED tries
    /\ ungated' = {} /\ allowed' = {} /\ recovering' = {} /\ asking' = NoCall

EndStatus ==
    /\ pc = "ending"
    /\ status' = verdict /\ pc' = "ended"
    /\ UNCHANGED <<lease, checkpoint, tools, issued, turns, process, batch, inLoop, gate, execution, done,
                   signals, uncertain, verdict, history>>

\* _cleanup_run_state: the lease is given back and the memory of the run forgotten.
Release ==
    /\ pc = "ended"
    /\ IF owner = boot THEN owner' = 0 /\ fresh' = FALSE ELSE UNCHANGED lease
    /\ Forgotten
    /\ UNCHANGED <<status, checkpoint, tools, issued, turns, process, stopper, history>>

-----------------------------------------------------------------------------
(* Model turns. *)

Stopped == cancel # "none"

BudgetLeft == turns < MaxTurns

\* The top of the loop: a stop or an exhausted budget ends the run, or the model is asked.
LoopTop ==
    /\ pc = "top"
    /\ \/ Stopped /\ Finish(cancel)
       \/ ~Stopped /\ ~BudgetLeft /\ Finish("failed")
       \/ /\ ~Stopped /\ BudgetLeft
          /\ pc' = "stream"
          /\ UNCHANGED <<checkpoint, gate, execution, verdict>>
    /\ UNCHANGED <<status, lease, tools, issued, turns, process, batch, inLoop, done, signals, uncertain,
                   history>>

\* The checkpoint after a model turn that asked for the calls S.
TurnCheckpoint(S) ==
    /\ cpPhase' = "model_turn" /\ cpPending' = S /\ cpDone' = done
    /\ issued' = issued \cup S /\ turns' = turns + 1

\* The turn ends with tool calls.
ModelCalls ==
    /\ pc = "stream"
    /\ \E S \in SUBSET (Calls \ issued) \ {{}} : TurnCheckpoint(S) /\ batch' = S
    /\ inLoop' = TRUE /\ pc' = "called"
    /\ UNCHANGED <<status, lease, tools, process, gate, execution, done, signals, uncertain, verdict,
                   history>>

\* The turn breaks off: stopped, timed out, or failed by the provider or a budget.  The calls
\* that had arrived are in the checkpoint; finish() keeps them if the run may resume.
ModelBreaksOff ==
    /\ pc = "stream"
    /\ \E S \in SUBSET (Calls \ issued), s \in {"failed", "interrupted", "cancelled"} :
        /\ s = "cancelled" => cancel = "cancelled"
        /\ issued' = issued \cup S /\ turns' = turns + 1
        /\ cpPhase' = "tool_batch" /\ cpDone' = done
        /\ cpPending' = IF s = "failed" THEN {} ELSE (IF batch # {} THEN batch ELSE S) \ done
        /\ verdict' = s
    /\ pc' = "ending"
    /\ UNCHANGED <<status, lease, tools, process, batch, inLoop, gate, execution, done, signals, uncertain,
                   history>>

\* The turn ends without calls: the answer is accepted, refused, sent back for another turn or
\* put to a person by the verification of the run.
ModelAnswers ==
    /\ pc = "stream"
    /\ turns' = turns + 1 /\ cpDone' = done
    /\ \/ \E s \in {"completed", "failed"} :
            /\ cpPhase' = IF s = "completed" THEN "terminal" ELSE "tool_batch"
            /\ cpPending' = {} /\ verdict' = s /\ pc' = "ending"
       \/ /\ cpPhase' = "model_turn" /\ cpPending' = {}
          /\ verdict' = "require_human" /\ pc' = "ending"
       \/ /\ cpPhase' = "model_turn" /\ cpPending' = {}
          /\ pc' = "top" /\ UNCHANGED verdict
    /\ UNCHANGED <<status, lease, tools, issued, process, batch, inLoop, gate, execution, done, signals,
                   uncertain, history>>

\* Whatever else the loop raises fails the run and leaves the checkpoint as it is.
LoopRaises ==
    /\ pc = "stream"
    /\ verdict' = "failed" /\ pc' = "ending"
    /\ UNCHANGED <<status, lease, checkpoint, tools, issued, turns, process, batch, inLoop, gate, execution,
                   done, signals, uncertain, history>>

-----------------------------------------------------------------------------
(* A batch of tool calls. *)

\* execute_batch writes its checkpoint before it looks at any call.
BatchStart ==
    /\ pc = "called"
    /\ cpPhase' = "tool_batch" /\ cpPending' = batch /\ cpDone' = done
    /\ ungated' = batch /\ pc' = "gate"
    /\ UNCHANGED <<status, lease, tools, issued, turns, process, batch, inLoop, allowed, recovering,
                   asking, execution, done, signals, uncertain, verdict, history>>

\* A call whose result the ledger of invocations has.
SettledByCheckpoint(c) == c \in cpDone
Settled(c) == inv[c] \in HasResult

\* A call whose earlier attempt may have had its effect outside.
MayHaveActedIfRecovered(c) == inv[c] = "indeterminate"
MayHaveActed(c) == inv[c] = "indeterminate" \/ (inv[c] = "running" /\ policy[c] = "never")

\* The result an earlier attempt left is used again.
Reuse(c) ==
    /\ Settled(c)
    /\ done' = done \cup {c}
    /\ UNCHANGED <<status, cpPhase, cpPending, cpDone, inv, pc, allowed, recovering, asking, uncertain>>

\* The call is left alone, and the run will ask a person.
LeaveUncertain(c) ==
    /\ MayHaveActed(c)
    /\ inv' = [inv EXCEPT ![c] = "indeterminate"]
    /\ uncertain' = TRUE
    /\ UNCHANGED <<status, cpPhase, cpPending, cpDone, pc, allowed, recovering, asking, done>>

\* The tool is unknown, its arguments are invalid, or the run may not write.
Refuse(c) ==
    /\ ~Settled(c) /\ ~MayHaveActed(c)
    /\ inv' = [inv EXCEPT ![c] = "failed"] /\ done' = done \cup {c}
    /\ UNCHANGED <<status, cpPhase, cpPending, cpDone, pc, allowed, recovering, asking, uncertain>>

Open(c) == recovering' = IF inv[c] \in {"running", "cancelled"} THEN recovering \cup {c} ELSE recovering

\* A call a person must allow, in this attempt as in every earlier one.
NeedsLeaveOnce(c) == c \in Gated /\ grants[c] = 0
NeedsLeave(c) == c \in Gated

Pass(c) ==
    /\ ~Settled(c) /\ ~MayHaveActed(c) /\ ~NeedsLeave(c)
    /\ inv' = [inv EXCEPT ![c] = "received"]
    /\ Open(c) /\ allowed' = allowed \cup {c}
    /\ UNCHANGED <<status, cpPhase, cpPending, cpDone, pc, asking, done, uncertain>>

Ask(c) ==
    /\ ~Settled(c) /\ ~MayHaveActed(c) /\ NeedsLeave(c)
    /\ inv' = [inv EXCEPT ![c] = "waiting_approval"]
    /\ Open(c)
    /\ status' = "waiting_approval"
    /\ cpPhase' = "waiting_approval" /\ cpPending' = batch /\ cpDone' = done
    /\ asking' = c /\ pc' = "approval"
    /\ UNCHANGED <<allowed, done, uncertain>>

\* execute_batch takes the calls one by one.
Gate ==
    /\ pc = "gate"
    /\ \E c \in ungated :
        /\ ungated' = ungated \ {c}
        /\ Reuse(c) \/ LeaveUncertain(c) \/ Refuse(c) \/ Pass(c) \/ Ask(c)
    /\ UNCHANGED <<lease, attempts, issued, turns, process, batch, inLoop, execution, signals,
                   verdict, history>>

\* The person answers: allow, or deny, which is the call's result.
Answered ==
    /\ pc = "approval" /\ ~Stopped
    /\ status' = "running" /\ pc' = "gate" /\ asking' = NoCall
    /\ \/ /\ grants' = [grants EXCEPT ![asking] = @ + 1]
          /\ inv' = [inv EXCEPT ![asking] = "received"]
          /\ allowed' = allowed \cup {asking} /\ UNCHANGED done
       \/ /\ inv' = [inv EXCEPT ![asking] = "failed"]
          /\ done' = done \cup {asking} /\ UNCHANGED <<grants, allowed>>
    /\ UNCHANGED <<lease, checkpoint, attempts, issued, turns, process, batch, inLoop, ungated,
                   recovering, execution, signals, uncertain, verdict, retries, stops>>

\* A stop while the person is asked ends the batch without its checkpoint; the calls that were
\* allowed before do not run.
StoppedWhileAsking ==
    /\ pc = "approval" /\ Stopped
    /\ IF uncertain
       THEN Finish("require_human")
       ELSE /\ pc' = "top" /\ ungated' = {} /\ allowed' = {} /\ recovering' = {} /\ asking' = NoCall
            /\ UNCHANGED <<checkpoint, execution, verdict>>
    /\ UNCHANGED <<status, lease, tools, issued, turns, process, batch, inLoop, done, signals, uncertain,
                   history>>

GateEnds ==
    /\ pc = "gate" /\ ungated = {}
    /\ pc' = "exec"
    /\ UNCHANGED <<status, lease, checkpoint, tools, issued, turns, process, batch, inLoop, gate, execution,
                   done, signals, uncertain, verdict, history>>

-----------------------------------------------------------------------------
(* Running the tools. *)

\* run_batch: calls that are not parallel-safe run alone.
MayRun(c) == running = {} \/ running \cup {c} \subseteq Parallel

StartAttempt(c) ==
    /\ inv' = [inv EXCEPT ![c] = "running"]
    /\ attempts' = [attempts EXCEPT ![c] = @ + 1]
    /\ running' = running \cup {c}

\* _run_tool_invocation: an interrupted call of a tool that can tell whether it took effect is
\* not started again before it has been asked.
NeedsReconciling(c) == c \in recovering /\ policy[c] = "reconcile"

StartCall ==
    /\ pc = "exec"
    /\ \E c \in allowed :
        /\ MayRun(c)
        /\ allowed' = allowed \ {c}
        /\ tries' = [tries EXCEPT ![c] = 1]
        /\ IF Stopped
           THEN UNCHANGED <<tools, running, ran, uncertain>>
           ELSE \/ StartAttempt(c) /\ UNCHANGED <<ran, uncertain>>
                \/ /\ NeedsReconciling(c)
                   /\ ran' = ran \cup {c} /\ UNCHANGED <<attempts, running>>
                   /\ \/ inv' = [inv EXCEPT ![c] = "succeeded"] /\ UNCHANGED uncertain
                      \/ inv' = [inv EXCEPT ![c] = "indeterminate"] /\ uncertain' = TRUE
    /\ UNCHANGED <<status, lease, checkpoint, issued, turns, process, pc, batch, inLoop, ungated,
                   recovering, asking, done, signals, verdict, history>>

Ends(c, s) ==
    /\ inv' = [inv EXCEPT ![c] = s]
    /\ running' = running \ {c} /\ ran' = ran \cup {c}
    /\ UNCHANGED <<attempts, tries>>

\* The tool returns: a result, or an error of its own.
Returns(c) == (Ends(c, "succeeded") \/ Ends(c, "failed")) /\ UNCHANGED uncertain

EndsUncertain(c) == Ends(c, "indeterminate") /\ uncertain' = TRUE

\* The tool is cut off by its timeout or by a stop, or fails and may be tried again: only a safe
\* one is.
CutOff(c) ==
    \/ policy[c] = "never" /\ EndsUncertain(c)
    \/ /\ policy[c] = "reconcile"
       /\ \/ EndsUncertain(c)
          \/ Ends(c, "succeeded") /\ UNCHANGED uncertain
          \/ Ends(c, IF Stopped THEN "cancelled" ELSE "failed") /\ UNCHANGED uncertain
    \/ /\ policy[c] = "safe"
       /\ IF Stopped THEN Ends(c, "cancelled")
          ELSE IF tries[c] < MaxAttempts
               THEN /\ attempts' = [attempts EXCEPT ![c] = @ + 1]
                    /\ tries' = [tries EXCEPT ![c] = @ + 1]
                    /\ UNCHANGED <<inv, running, ran>>
               ELSE Ends(c, "failed")
       /\ UNCHANGED uncertain

ToolEnds ==
    /\ pc = "exec"
    /\ \E c \in running : Returns(c) \/ CutOff(c)
    /\ UNCHANGED <<status, lease, checkpoint, issued, turns, process, pc, batch, inLoop, gate, done,
                   signals, verdict, history>>

Finished == {c \in ran : inv[c] = "succeeded" \/ (inv[c] = "failed" /\ ~Stopped)}

\* What follows a batch without uncertain calls: the next turn, or, when the batch belongs to a
\* turn of this loop, what its results ask for: a pause, an answer that is verified, a failure
\* (two pauses at once, too much output).
NextTurn(left) ==
    cpPhase' = "tool_batch" /\ cpPending' = left /\ pc' = "top" /\ UNCHANGED verdict
Pause ==
    /\ inLoop /\ \E c \in batch : batch = {c} /\ inv[c] = "succeeded"
    /\ cpPending' = {} /\ pc' = "ending"
    /\ \/ cpPhase' = "model_turn" /\ verdict' = "require_human"
       \/ cpPhase' = "waiting_approval" /\ verdict' = "waiting_approval"
Conclude ==
    /\ inLoop /\ \A c \in batch : inv[c] = "succeeded"
    /\ cpPending' = {}
    /\ \/ cpPhase' = "terminal" /\ verdict' = "completed" /\ pc' = "ending"
       \/ cpPhase' = "model_turn" /\ verdict' = "require_human" /\ pc' = "ending"
       \/ cpPhase' = "model_turn" /\ pc' = "top" /\ UNCHANGED verdict

GiveUp ==
    /\ inLoop
    /\ cpPending' = {} /\ cpPhase' = "tool_batch" /\ verdict' = "failed" /\ pc' = "ending"

EndBatch ==
    /\ pc = "exec" /\ allowed = {} /\ running = {}
    /\ done' = done \cup Finished /\ cpDone' = done'
    /\ batch' = batch \ done'
    /\ IF uncertain
       THEN /\ cpPhase' = "tool_batch" /\ cpPending' = batch'
            /\ verdict' = "require_human" /\ pc' = "ending"
       ELSE NextTurn(batch') \/ Pause \/ Conclude \/ GiveUp
    /\ ran' = {} /\ recovering' = {} /\ tries' = [c \in Calls |-> 0]
    /\ UNCHANGED <<status, lease, tools, issued, turns, process, inLoop, ungated, allowed, asking,
                   running, signals, uncertain, history>>

-----------------------------------------------------------------------------
(* Stops, time limits and people. *)

Awaiting == pc \in {"stream", "approval", "exec"}

\* cancel and interrupt of the run this process works on: first the signal ...
StopRequested ==
    /\ Awaiting /\ stopper = "none" /\ stops < MaxStops
    /\ \E mode \in {"cancelled", "interrupted"} : cancel' = mode /\ stopper' = mode
    /\ stops' = stops + 1
    /\ UNCHANGED <<status, lease, checkpoint, tools, issued, turns, process, pc, batch, inLoop, gate,
                   execution, done, beating, uncertain, verdict, grants, retries>>

\* preserve_checkpoint
Preserve ==
    /\ cpPhase' = "tool_batch" /\ cpDone' = cpDone
    /\ cpPending' = IF batch # {} THEN batch ELSE Incomplete

\* ... then, when the tools have been told, the checkpoint.  By then the loop may have ended the
\* run: interrupt marks it interrupted whatever its status, cancel looks at the status again.
StopPreserves ==
    /\ up /\ stopper # "none" /\ (Awaiting \/ pc = "idle")
    /\ stopper' = "none"
    /\ Preserve
    /\ status' = IF pc # "idle" THEN status
                 ELSE IF stopper = "interrupted" \/ status \in {"running", "waiting_approval"}
                      THEN stopper ELSE status
    /\ UNCHANGED <<lease, tools, issued, turns, process, pc, batch, inLoop, gate, execution, done,
                   cancel, beating, uncertain, verdict, history>>

\* cancel of a run this process does not work on.
CancelIdle ==
    /\ up /\ pc = "idle" /\ stopper = "none" /\ stops < MaxStops
    /\ status \in {"running", "waiting_approval", "require_human"}
    /\ status' = IF status = "require_human" THEN status ELSE "cancelled"
    /\ Preserve
    /\ stops' = stops + 1
    /\ UNCHANGED <<lease, tools, issued, turns, process, pc, batch, inLoop, gate, execution, done,
                   signals, uncertain, verdict, grants, retries>>

\* The task of the loop is cancelled from outside; a tool that runs is cut off and its row stays.
Aborted ==
    /\ Awaiting /\ ~Stopped /\ stops < MaxStops
    /\ Preserve
    /\ verdict' = "interrupted" /\ pc' = "ending"
    /\ running' = {} /\ stops' = stops + 1
    /\ UNCHANGED <<status, lease, tools, issued, turns, process, batch, inLoop, gate, ran, tries,
                   done, signals, uncertain, grants, retries>>

\* budget.max_wall_time_s of this run() or resume()
WallTimeout ==
    /\ Awaiting /\ ~Stopped
    /\ Finish("failed")
    /\ UNCHANGED <<status, lease, tools, issued, turns, process, batch, inLoop, done, signals,
                   uncertain, history>>

\* resolve_indeterminate_tool: a person looks at the outside world and decides.
Resolve ==
    /\ up /\ pc = "idle" /\ status = "require_human"
    /\ \E c \in Calls :
        /\ inv[c] = "indeterminate"
        /\ \/ /\ \E s \in HasResult : inv' = [inv EXCEPT ![c] = s]
              /\ UNCHANGED retries
           \/ /\ retries[c] < MaxRetries
              /\ inv' = [inv EXCEPT ![c] = "received"]
              /\ retries' = [retries EXCEPT ![c] = @ + 1]
    /\ UNCHANGED <<status, lease, checkpoint, attempts, issued, turns, process, pc, batch, inLoop,
                   gate, execution, done, signals, uncertain, verdict, grants, stops>>

-----------------------------------------------------------------------------
Loop ==
    \/ Begin \/ LoopTop \/ ModelCalls \/ ModelBreaksOff \/ ModelAnswers \/ LoopRaises
    \/ BatchStart \/ Gate \/ StoppedWhileAsking \/ GateEnds \/ StartCall \/ ToolEnds \/ EndBatch
    \/ EndStatus \/ Release

Next ==
    \/ Loop
    \/ CreateRun \/ Resume \/ Answered \/ Resolve
    \/ StopRequested \/ StopPreserves \/ CancelIdle \/ Aborted \/ WallTimeout
    \/ Crash \/ Boot \/ Sweep \/ LeaseExpires \/ HeartbeatGivesUp

Spec == Init /\ [][Next]_vars

\* The event loop runs what is ready, providers and tools answer or time out, time passes, and
\* the container is started again.  People need not act.
FairSpec ==
    /\ Spec
    /\ WF_vars(Loop) /\ WF_vars(Boot) /\ WF_vars(Sweep) /\ WF_vars(LeaseExpires)

-----------------------------------------------------------------------------

\* A tool that may not be repeated is started once, and again only when a person who looked at
\* the outside world has asked for it: not by a resume, a stop, a time limit, a lease that was
\* lost, or the recovery of a run whose process died.
NeverRepeated == \A c \in Calls : policy[c] = "never" => attempts[c] <= 1 + retries[c]

\* A call a person must allow is started at most as often as it was allowed, so an answer given
\* before a stop or a death is not an answer for what comes after; only a safe tool's own
\* repetitions share one answer.
AllowedEachTime ==
    \A c \in Gated : policy[c] # "safe" => attempts[c] <= grants[c]

\* A result is kept: whoever works on the run later, the call is neither started nor judged again.
ResultsAreFinal ==
    [][\A c \in Calls : inv[c] \in HasResult => inv'[c] = inv[c] /\ attempts'[c] = attempts[c]]_vars

\* A run that somebody holds a lease on does not stay running for ever: it ends, pauses, or is
\* recovered when its process has died, and can then be resumed.
LeasedRunSettles == (status = "running" /\ owner # 0) ~> status # "running"

===============================================================================
