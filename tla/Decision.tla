------------------------------- MODULE Decision -------------------------------
(***************************************************************************)
(* How one purchase task is decided: its inputs and their corrections      *)
(* (ProcurementTaskService), the comparison snapshots its analyses publish *)
(* and the human reviews queued for them (AgentResultApplication,          *)
(* ReviewService), the decision requests (ApprovalService.request) and the *)
(* final transaction that turns one of them into the formal decision and   *)
(* the purchase order (ApprovalService.finalizeFromAgent).                 *)
(*                                                                         *)
(* Every transaction here locks the task's row, so between its lock and its *)
(* commit it is one step.  What it read before it got the lock is not: the *)
(* reads that take no lock see the database as it was at the first of them *)
(* (repeatable read), and that is before the wait for the lock.  A request *)
(* has therefore a step that begins it, and so have the final transaction  *)
(* and the worker's failure of a decision.  The final transaction commits  *)
(* before the listener's own, which finishes the review and the command.   *)
(*                                                                         *)
(* Commands and results are AgentCommand's matter: here a command is open  *)
(* until it has a verdict, and while it is open either verdict may arrive. *)
(* "ready" also stands for the status review, of an input whose fields are *)
(* not all confirmed; a task of that status is one no analysis starts for. *)
(***************************************************************************)
EXTENDS Integers, Sequences

CONSTANTS
    Request,      \* ids of decision requests: a pending decision and its command
    NoRequest,    \* not a request
    Awardable,    \* the inputs for which some quote is eligible
    MaxEdits,     \* bound: corrections and uploads of the input
    MaxAnalyses,  \* bound: analyses started
    MaxStops      \* bound: stops of the host

ASSUME DecisionAssumption ==
    /\ NoRequest \notin Request
    /\ Awardable \subseteq Nat
    /\ {MaxEdits, MaxAnalyses, MaxStops} \subseteq Nat

VARIABLES
    task,       \* the row of the task
    data,       \* the input an analysis compares: requirement and quotes
    importing,  \* the generation of the last quote import without a result, or 0
    snapshots,  \* the comparison snapshots: the input each compared
    reviews,    \* the review of each snapshot
    analyzing,  \* how many analyze commands are in flight
    asking,     \* per request: the transaction that is waiting for the lock
    pending,    \* per request: the row of pending_decision
    command,    \* per request: its approve_decision command
    decision,   \* the request whose decision is the formal one
    order,      \* the request whose decision created the purchase order
    listener,   \* the listener thread of caijiatai.results
    worker,     \* the outbox worker
    started,    \* history: analyses started
    answered,   \* history: the requests whose result has been received
    stops       \* history: stops of the host

evidence == <<data, importing, snapshots, analyzing, started>>
processes == <<asking, listener, worker, answered, stops>>
vars == <<task, evidence, reviews, pending, command, decision, order, processes>>

NoSnapshot == 0
Direct == 0   \* a request that does not come from a review

TaskStatus == {"collecting", "ready", "analyzed", "approval_pending", "approved", "no_award"}
Decided == {"approved", "no_award"}
ReviewStatus == {"PENDING", "APPROVED", "NO_AWARD", "REJECTED", "STALE"}
PendingStatus == {"none", "pending", "stale", "completed"}

Review ==
    [status : ReviewStatus, gen : Nat, ver : Nat, acted : BOOLEAN, by : Request \cup {NoRequest}]
PendingDecision == [status : PendingStatus, gen : Nat, ver : Nat, snap : Nat]

NotAsking == [begun |-> FALSE, review |-> Direct, analyzing |-> FALSE, decided |-> FALSE]
IdleListener == [pc |-> "idle", req |-> NoRequest, saw |-> 0]
IdleWorker == [req |-> NoRequest, saw |-> "none", review |-> 0]

Init ==
    /\ task = [status |-> "ready", gen |-> 1, ver |-> 0, snap |-> NoSnapshot]
    /\ data = 1
    /\ importing = 0
    /\ snapshots = <<>>
    /\ reviews = <<>>
    /\ analyzing = 0
    /\ asking = [r \in Request |-> NotAsking]
    /\ pending = [r \in Request |-> [status |-> "none", gen |-> 0, ver |-> 0, snap |-> NoSnapshot]]
    /\ command = [r \in Request |-> "none"]
    /\ decision = NoRequest
    /\ order = NoRequest
    /\ listener = IdleListener
    /\ worker = IdleWorker
    /\ started = 0
    /\ answered = {}
    /\ stops = 0

-----------------------------------------------------------------------------
(* The input and its analyses. *)

MayEdit == task.gen <= MaxEdits

\* invalidate(): the pending decisions become stale.
OpenRequestsStale ==
    [r \in Request |->
        IF pending[r].status = "pending" THEN [pending[r] EXCEPT !.status = "stale"] ELSE pending[r]]

\* markBusinessStale, of the reviews.
PendingReviewsStale ==
    [s \in DOMAIN reviews |->
        IF reviews[s].status = "PENDING" THEN [reviews[s] EXCEPT !.status = "STALE"] ELSE reviews[s]]

\* invalidate(): a new generation without a snapshot; analyses in flight are cancelled.
Invalidate(status) ==
    /\ task' = [task EXCEPT !.status = status, !.gen = @ + 1, !.ver = @ + 1, !.snap = NoSnapshot]
    /\ analyzing' = 0
    /\ reviews' = PendingReviewsStale
    /\ pending' = OpenRequestsStale

\* correctQuote and correctRequirement: no look at the decision.
Correct ==
    /\ MayEdit
    /\ Invalidate("ready")
    /\ data' = data + 1
    /\ UNCHANGED <<importing, snapshots, started, command, decision, order, processes>>

\* uploadQuotes: the quotes come later, with the result of the import.
UploadQuotes ==
    /\ MayEdit
    /\ decision = NoRequest
    /\ Invalidate("collecting")
    /\ importing' = task.gen + 1
    /\ UNCHANGED <<data, snapshots, started, command, decision, order, processes>>

\* importQuote: the quotes are saved, unless the generation is another by now.
ImportArrives ==
    /\ listener.pc = "idle"
    /\ importing # 0
    /\ importing' = 0
    /\ \/ /\ importing = task.gen
          /\ data' = data + 1
          /\ task' = [task EXCEPT !.status = "ready", !.ver = @ + 1]
       \/ UNCHANGED <<data, task>>   \* stale, or the import failed
    /\ UNCHANGED <<snapshots, analyzing, started, reviews, pending, command, decision, order, processes>>

\* AiTaskService.create: it looks at the input only, and leaves the task's row alone.
StartAnalysis ==
    /\ started < MaxAnalyses
    /\ analyzing' = analyzing + 1
    /\ started' = started + 1
    /\ UNCHANGED <<task, data, importing, snapshots, reviews, pending, command, decision, order, processes>>

NewSnapshot == Len(snapshots) + 1

\* analyze(): the comparison is done now, on the input as it is now; the task
\* gets the snapshot whatever its status, and the review is queued.
AnalysisArrives ==
    /\ listener.pc = "idle"
    /\ analyzing > 0
    /\ analyzing' = analyzing - 1
    /\ snapshots' = Append(snapshots, data)
    /\ task' = [task EXCEPT !.status = "analyzed", !.ver = @ + 1, !.snap = NewSnapshot]
    /\ reviews' = Append(reviews, [status |-> "PENDING", gen |-> task.gen, ver |-> task.ver + 1,
                                   acted |-> FALSE, by |-> NoRequest])
    /\ UNCHANGED <<data, importing, started, pending, command, decision, order, processes>>

\* A failed, cancelled or timed-out analysis leaves the task as it is: the
\* status analyzing, from which it would be restored, is never set.
AnalysisFails ==
    /\ analyzing > 0
    /\ analyzing' = analyzing - 1
    /\ UNCHANGED <<task, data, importing, snapshots, started, reviews, pending, command, decision,
                   order, processes>>

-----------------------------------------------------------------------------
(* Requests, from the decision page and from a review. *)

\* validateCurrentEvidence, and the review has not been acted on.
Actionable(s) ==
    /\ reviews[s].status = "PENDING"
    /\ ~reviews[s].acted
    /\ reviews[s].gen = task.gen
    /\ reviews[s].ver = task.ver
    /\ task.snap = s

FromReview(r) == asking[r].review # Direct

\* The idempotency record is looked up, which fixes what the transaction sees.
RequestBegins(r) ==
    /\ pending[r].status = "none"
    /\ ~asking[r].begun
    /\ \E s \in {Direct} \cup DOMAIN reviews :
         asking' = [asking EXCEPT ![r] =
            [begun |-> TRUE, review |-> s, analyzing |-> analyzing > 0, decided |-> decision # NoRequest]]
    /\ UNCHANGED <<task, evidence, reviews, pending, command, decision, order, listener, worker, answered, stops>>

\* What the locked row and the older view must say for a request to be made.
MayRequest(r) ==
    /\ ~asking[r].analyzing
    /\ ~asking[r].decided
    /\ task.snap # NoSnapshot
    /\ FromReview(r) => Actionable(asking[r].review)

\* The request is bound to the version its own commit gives the task.
RequestCommits(r) ==
    /\ asking[r].begun
    /\ MayRequest(r)
    /\ task' = [task EXCEPT !.status = "approval_pending", !.ver = @ + 1]
    /\ pending' = [pending EXCEPT ![r] =
          [status |-> "pending", gen |-> task.gen, ver |-> task.ver + 1, snap |-> task.snap]]
    /\ command' = [command EXCEPT ![r] = "open"]
    /\ IF FromReview(r)
       THEN reviews' = [reviews EXCEPT ![asking[r].review].acted = TRUE, ![asking[r].review].by = r]
       ELSE UNCHANGED reviews
    /\ asking' = [asking EXCEPT ![r] = NotAsking]
    /\ UNCHANGED <<evidence, decision, order, listener, worker, answered, stops>>

\* Turned down, or answered with the decision there is: the review that asked
\* counts as acted on then, and is bound to no pending decision.
RequestEnds(r) ==
    /\ asking[r].begun
    /\ ~MayRequest(r)
    /\ IF /\ ~asking[r].analyzing
          /\ asking[r].decided
          /\ FromReview(r)
          /\ Actionable(asking[r].review)
       THEN reviews' = [reviews EXCEPT ![asking[r].review].acted = TRUE]
       ELSE UNCHANGED reviews
    /\ asking' = [asking EXCEPT ![r] = NotAsking]
    /\ UNCHANGED <<task, evidence, pending, command, decision, order, listener, worker, answered, stops>>

\* action() with REJECT_AND_RETRY.
RejectAndRetry(s) ==
    /\ Actionable(s)
    /\ reviews' = [reviews EXCEPT ![s].status = "REJECTED", ![s].acted = TRUE]
    /\ task' = [task EXCEPT !.status = "ready", !.ver = @ + 1, !.snap = NoSnapshot]
    /\ UNCHANGED <<evidence, pending, command, decision, order, processes>>

-----------------------------------------------------------------------------
(* The final transaction, and the listener's transaction around it. *)

\* onResult has read the command's row, and the final transaction the pending
\* decision: what it sees of the quotes is fixed, it waits for the task's lock.
ListenerTakes(r) ==
    /\ listener.pc = "idle"
    /\ command[r] = "open"
    /\ listener' = [pc |-> "deciding", req |-> r, saw |-> data]
    /\ answered' = answered \cup {r}
    /\ UNCHANGED <<task, evidence, reviews, pending, command, decision, order, asking, worker, stops>>

\* Mutant: the version is not compared.
CurrentWithoutVersion(r) == task.gen = pending[r].gen /\ task.snap = pending[r].snap

\* Version, generation and snapshot are those of the request.
Current(r) ==
    /\ task.ver = pending[r].ver
    /\ task.gen = pending[r].gen
    /\ task.snap = pending[r].snap

\* Mutant: the comparison is not done again.
RecomputedNot(r) == TRUE

\* The comparison, done again on the quotes the transaction sees.
Recomputed(r) == listener.saw = snapshots[pending[r].snap]

\* Mutant: no constraint keeps a second decision of the task out.
UndecidedUnchecked == TRUE

\* procurement_decision.task_id is unique.
Undecided == decision = NoRequest

\* validateSelection: an award if a quote is eligible, else none.
Verdict(s) == IF snapshots[s] \in Awardable THEN "approved" ELSE "no_award"

\* ensureOrderForApprovedTask: the order there is stays the order.
OrderAfter(r) == IF Verdict(pending[r].snap) = "approved" /\ order = NoRequest THEN r ELSE order

Deciding(r) == listener.pc = "deciding" /\ listener.req = r

Decide(r) ==
    /\ Deciding(r)
    /\ decision # r
    /\ Current(r)
    /\ Recomputed(r)
    /\ Undecided
    /\ decision' = r
    /\ task' = [task EXCEPT !.status = Verdict(pending[r].snap), !.ver = @ + 1]
    /\ order' = OrderAfter(r)
    /\ pending' = [pending EXCEPT ![r].status = "completed"]
    /\ listener' = [listener EXCEPT !.pc = "decided"]
    /\ UNCHANGED <<evidence, reviews, command, asking, worker, answered, stops>>

\* The result of a request that has its decision already.
DecideAgain(r) ==
    /\ Deciding(r)
    /\ decision = r
    /\ listener' = [listener EXCEPT !.pc = "decided"]
    /\ UNCHANGED <<task, evidence, reviews, pending, command, decision, order, asking, worker, answered, stops>>

\* stale(): the transaction rolls back, and the failure is recorded in another.
Refuse(r) ==
    /\ Deciding(r)
    /\ decision # r
    /\ ~(Current(r) /\ Recomputed(r))
    /\ listener' = [listener EXCEPT !.pc = "refused"]
    /\ UNCHANGED <<task, evidence, reviews, pending, command, decision, order, asking, worker, answered, stops>>

\* The insertion fails, not with an ApiException: the record is retried and goes
\* to the dead letters, and the command stays open.
DecideFails(r) ==
    /\ Deciding(r)
    /\ decision # r
    /\ Current(r)
    /\ Recomputed(r)
    /\ ~Undecided
    /\ listener' = IdleListener
    /\ UNCHANGED <<task, evidence, reviews, pending, command, decision, order, asking, worker, answered, stops>>

\* finalizeDecision: without a bound review, the waiting one of the snapshot decided on.
DirectReview(r) == {s \in DOMAIN reviews : reviews[s].status = "PENDING" /\ s = pending[r].snap}

Bound(r) == {s \in DOMAIN reviews : reviews[s].by = r}

ReviewOutcome(r) == IF Verdict(pending[r].snap) = "approved" THEN "APPROVED" ELSE "NO_AWARD"

FinalizeReview(r) ==
    LET finalized == IF Bound(r) # {} THEN Bound(r) ELSE DirectReview(r)
    IN  reviews' = [s \in DOMAIN reviews |->
            IF s \in finalized
            THEN [reviews[s] EXCEPT !.status = ReviewOutcome(r), !.acted = TRUE, !.by = r]
            ELSE reviews[s]]

\* The listener's transaction commits; it waits while the worker holds the command.
ListenerCompletes(r) ==
    /\ listener.pc = "decided" /\ listener.req = r
    /\ worker.req # r
    /\ FinalizeReview(r)
    /\ command' = [command EXCEPT ![r] = "completed"]
    /\ listener' = IdleListener
    /\ UNCHANGED <<task, evidence, pending, decision, order, asking, worker, answered, stops>>

-----------------------------------------------------------------------------
(* The failure of a request: failPendingDecision, by the listener and by the worker. *)

\* Mutant: the task is left as it is.
RestoredNever(r) == task

\* restoreAnalyzedAfterFailedApproval.
Restored(r) ==
    IF task.status = "approval_pending" /\ task.snap = pending[r].snap
    THEN [task EXCEPT !.status = "analyzed", !.ver = @ + 1]
    ELSE task

\* pending is written as it was read, with status stale.
FailPending(r, bound) ==
    /\ pending' = [pending EXCEPT ![r].status = "stale"]
    /\ reviews' = [s \in DOMAIN reviews |->
          IF s \in bound THEN [reviews[s] EXCEPT !.status = "STALE"] ELSE reviews[s]]
    /\ task' = Restored(r)

Waiting(r) == {s \in Bound(r) : reviews[s].status = "PENDING"}

\* The refusal above, or a failed result: the agent does not send one after it has
\* sent the other (AgentCommand).
ListenerFails(r) ==
    /\ \/ listener.pc = "refused" /\ listener.req = r
       \/ listener.pc = "idle" /\ command[r] = "open" /\ r \notin answered
    /\ worker.req # r
    /\ IF pending[r].status = "completed"
       THEN UNCHANGED <<pending, reviews, task>>
       ELSE FailPending(r, Waiting(r))
    /\ command' = [command EXCEPT ![r] = "failed"]
    /\ listener' = IdleListener
    /\ UNCHANGED <<evidence, decision, order, asking, worker, answered, stops>>

\* The last attempt has timed out.  The worker holds the command's row, has read
\* the pending decision and its review, and waits for the task's lock.
WorkerBegins(r) ==
    /\ worker.req = NoRequest
    /\ command[r] = "open"
    /\ \E s \in 0 .. Len(reviews) :
         /\ IF Waiting(r) = {} THEN s = 0 ELSE s \in Waiting(r)
         /\ worker' = [req |-> r, saw |-> pending[r].status, review |-> s]
    /\ UNCHANGED <<task, evidence, reviews, pending, command, decision, order, asking, listener, answered, stops>>

\* The review's version tells that somebody else has changed it.
ReviewUnchanged == worker.review # 0 => reviews[worker.review].status = "PENDING"

WorkerFails(r) ==
    /\ worker.req = r
    /\ worker.saw = "completed" \/ ReviewUnchanged
    /\ IF worker.saw = "completed"
       THEN UNCHANGED <<pending, reviews, task>>
       ELSE FailPending(r, {worker.review} \ {0})
    /\ command' = [command EXCEPT ![r] = "failed"]
    /\ worker' = IdleWorker
    /\ UNCHANGED <<evidence, decision, order, asking, listener, answered, stops>>

\* The optimistic lock fails: rolled back, until the next poll.
WorkerConflicts(r) ==
    /\ worker.req = r
    /\ worker.saw # "completed"
    /\ ~ReviewUnchanged
    /\ worker' = IdleWorker
    /\ UNCHANGED <<task, evidence, reviews, pending, command, decision, order, asking, listener, answered, stops>>

\* A stop rolls back what is not committed; the result is delivered again.
HostStops ==
    /\ stops < MaxStops
    /\ stops' = stops + 1
    /\ asking' = [r \in Request |-> NotAsking]
    /\ listener' = IdleListener
    /\ worker' = IdleWorker
    /\ UNCHANGED <<task, evidence, reviews, pending, command, decision, order, answered>>

-----------------------------------------------------------------------------
Input == Correct \/ UploadQuotes \/ ImportArrives \/ StartAnalysis \/ AnalysisArrives \/ AnalysisFails

Ask(r) == RequestBegins(r) \/ RequestCommits(r) \/ RequestEnds(r)

Listen(r) ==
    \/ ListenerTakes(r) \/ Decide(r) \/ DecideAgain(r) \/ Refuse(r) \/ DecideFails(r)
    \/ ListenerCompletes(r) \/ ListenerFails(r)

Work(r) == WorkerBegins(r) \/ WorkerFails(r) \/ WorkerConflicts(r)

Next ==
    \/ Input
    \/ \E r \in Request : Ask(r) \/ Listen(r) \/ Work(r)
    \/ \E s \in DOMAIN reviews : RejectAndRetry(s)
    \/ HostStops

Spec == Init /\ [][Next]_vars

\* The listener finishes what it has taken, and the worker is scheduled.
Finish(r) ==
    \/ Decide(r) \/ DecideAgain(r) \/ Refuse(r) \/ DecideFails(r) \/ ListenerCompletes(r)
    \/ listener.pc = "refused" /\ ListenerFails(r)

FairSpec == Spec /\ \A r \in Request : WF_vars(Finish(r)) /\ WF_vars(Work(r))

-----------------------------------------------------------------------------
(* Properties. *)

\* A task is decided once: no later result, request or correction replaces the
\* decision or its order (release-checklist.md:97).
OneDecision ==
    [][decision # NoRequest => decision' = decision /\ order' = order]_vars

\* A decision is taken on the snapshot the task has, and the snapshot is of the
\* input as it is, whatever was corrected, imported or analysed since it was
\* asked for (architecture.md:80).
DecidedOnCurrentEvidence ==
    [][decision' # decision =>
         /\ task.snap = pending[decision'].snap
         /\ snapshots[task.snap] = data
         /\ task.status = "approval_pending"]_vars

\* A request that has become stale, by a correction, a newer request, a failure
\* or a timeout, never leads to the decision (release-checklist.md:98).
StaleNeverDecides ==
    [][\A r \in Request : pending[r].status = "stale" => decision' = decision \/ decision' # r]_vars

\* A task does not wait for its approval for ever: with a worker that gives up on
\* a command without a result, it is decided, corrected or back to analyzed.
ApprovalSettles == task.status = "approval_pending" ~> task.status # "approval_pending"

===============================================================================
