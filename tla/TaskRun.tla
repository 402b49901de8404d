-------------------------------- MODULE TaskRun --------------------------------
(***************************************************************************)
(* The commands of one purchase task as the agent executes them on the     *)
(* task's run: the ledger of operations (storage/internal_operations.py),  *)
(* the dispatch of each type of command (api/internal_agent.py), the stage *)
(* and the data they merge into the run, and the procurement tools that    *)
(* read and change them (procurement/agent_tools.py).                      *)
(*                                                                         *)
(* All commands of a task resume one and the same run.  Who plans it is    *)
(* tier 0, the deterministic planner in the process, or a model, which may *)
(* call any tool, answer in plain text or fail; a start climbs the ladder  *)
(* of models.  Delivery and what the host does with results is             *)
(* AgentCommand's matter, the run's lease and its calls are DurableRun's.  *)
(***************************************************************************)
EXTENDS Integers, Sequences

CONSTANTS
    Op,          \* the commands of the task
    NoOp,        \* no command
    Kind,        \* operation_type of a command
    Files,       \* the attachments a command brings
    Ladder,      \* number of models configured when a command comes; 0: only the planner
    MaxSteps,    \* max_steps of a run, over all its resumes
    Plans,       \* bound: the host sends the commands of one of these sets
    MaxCrashes,  \* bound: processes that die
    MaxReopens   \* bound: failed answers that are sent again

Kinds == {"start", "bind", "answer", "import", "analyze", "approve", "resume", "pure"}
Tools == {"capture", "parse", "review", "comparison", "record"}

ASSUME TaskRunAssumption ==
    /\ NoOp \notin Op /\ Kind \in [Op -> Kinds] /\ DOMAIN Files = Op
    /\ Ladder \in [Op -> Nat] /\ MaxSteps \in Nat /\ {MaxCrashes, MaxReopens} \subseteq Nat /\ Plans \subseteq SUBSET Op

VARIABLES
    host,     \* what the context of the task says, and what the host has sent and applied
    ledger,   \* internal_operations.status
    result,   \* internal_operations.result
    runs,     \* the runs of the task, as created
    job,      \* the dispatch under way and its run in memory
    count     \* history: dead processes and commands sent again

vars == <<host, ledger, result, runs, job, count>>

NoTool == "none"
Value(is, files, of, by) == [is |-> is, files |-> files, of |-> of, by |-> by]
NoValue == Value("none", {}, NoOp, NoOp)

Idle == [pc |-> "idle", op |-> NoOp, run |-> 0, seen |-> {}, value |-> NoValue, redo |-> FALSE]

Init ==
    /\ host = [sent |-> {}, applied |-> {}, bound |-> 0, ready |-> FALSE, compared |-> FALSE,
               asked |-> FALSE, decision |-> [op \in Op |-> "none"]]
    /\ ledger = [op \in Op |-> "none"]
    /\ result = [op \in Op |-> [run |-> 0, value |-> NoValue]]
    /\ runs = <<>> /\ job = Idle
    /\ count = [crashes |-> 0, reopens |-> 0]

Ended(op) == ledger[op] \in {"completed", "failed"}
Creates(op) == Kind[op] \in {"start", "bind"}

-----------------------------------------------------------------------------
(* The host, as far as the agent sees it in the context of the task.       *)

\* When the host may send a command of each kind.
MaySend(op) ==
    CASE Creates(op) -> \A o \in host.sent : ~Creates(o)
      [] Kind[op] = "answer" -> host.asked
      [] Kind[op] = "analyze" -> host.bound # 0 /\ host.ready
      [] Kind[op] = "approve" -> host.compared /\ \A o \in Op : host.decision[o] # "pending"
      [] Kind[op] = "pure" -> TRUE
      [] OTHER -> host.bound # 0

Send(op) ==
    /\ op \notin host.sent /\ MaySend(op) /\ \E plan \in Plans : host.sent \cup {op} \subseteq plan
    /\ host' = [host EXCEPT !.sent = @ \cup {op},
                            !.asked = @ /\ Kind[op] # "answer",
                            !.decision[op] = IF Kind[op] = "approve" THEN "pending" ELSE @]
    /\ UNCHANGED <<ledger, result, runs, job, count>>

\* The buyer confirms the inputs, or edits them: then comparison and decision are stale.
HostChanges ==
    /\ host.bound # 0
    /\ host' = [host EXCEPT !.ready = ~@, !.compared = FALSE,
                            !.decision = [o \in Op |-> IF @[o] = "pending" THEN "stale" ELSE @[o]]]
    /\ UNCHANGED <<ledger, result, runs, job, count>>

\* The result of a command arrives: the task is bound to the run, asks, or is compared.
HostApplies(op) ==
    /\ ledger[op] = "completed" /\ op \notin host.applied
    /\ host' = [host EXCEPT !.applied = @ \cup {op},
                            !.bound = IF Creates(op) THEN result[op].run ELSE @,
                            !.asked = @ \/ result[op].value.is = "question",
                            !.compared = @ \/ (Kind[op] = "analyze" /\ host.ready)]
    /\ UNCHANGED <<ledger, result, runs, job, count>>

-----------------------------------------------------------------------------
(* The ledger: accept and claim a delivered command (execute).             *)

Claim(op) ==
    /\ job.pc = "idle" /\ op \in host.sent /\ ledger[op] \in {"none", "accepted"}
    /\ ledger' = [ledger EXCEPT ![op] = "executing"]
    /\ job' = [Idle EXCEPT !.pc = "begin", !.op = op]
    /\ UNCHANGED <<host, result, runs, count>>

\* Only the answer of a human is taken up again once it has failed.
Reopen(op) ==
    /\ Kind[op] = "answer" /\ ledger[op] = "failed" /\ count.reopens < MaxReopens
    /\ ledger' = [ledger EXCEPT ![op] = "accepted"]
    /\ count' = [count EXCEPT !.reopens = @ + 1]
    /\ UNCHANGED <<host, result, runs, job>>

Complete(r, value) ==
    /\ ledger' = [ledger EXCEPT ![job.op] = "completed"]
    /\ result' = [result EXCEPT ![job.op] = [run |-> r, value |-> value]]
    /\ job' = Idle
    /\ UNCHANGED <<host, runs, count>>

Fail ==
    /\ ledger' = [ledger EXCEPT ![job.op] = "failed"]
    /\ job' = Idle
    /\ UNCHANGED <<host, result, runs, count>>

-----------------------------------------------------------------------------
(* The dispatch of each type of command.                                   *)

NewRun(op, tier, stage) ==
    [op |-> op, tier |-> tier, status |-> "running", error |-> "none", stage |-> stage,
     files |-> Files[op], decision |-> NoOp, latest |-> [t \in Tools |-> NoValue],
     call |-> NoTool, saved |-> FALSE, seen |-> {}, steps |-> 0, said |-> {}, kept |-> {}]

\* A run that gave way to a newer one of its command: what it left is read no more.
Left(run) == [NewRun(run.op, run.tier, "capture") EXCEPT !.status = run.status]

Creating(tier, stage) ==
    /\ runs' = Append([r \in DOMAIN runs |-> Left(runs[r])], NewRun(job.op, tier, stage))
    /\ job' = [Idle EXCEPT !.pc = "turn", !.op = job.op, !.run = Len(runs) + 1]
    /\ UNCHANGED <<host, ledger, result, count>>

\* Mutant: the runs of an operation are not looked for.
NoRunsOf(op) == {}

\* _run_for_operation: the newest run that was made for the operation.
RunsOf(op) == {r \in DOMAIN runs : runs[r].op = op}
Newest(op) == CHOOSE r \in RunsOf(op) : \A q \in RunsOf(op) : q <= r

\* A message known to the semantic cache needs no model.
StartRuns ==
    /\ job.pc = "begin" /\ Kind[job.op] = "start" /\ RunsOf(job.op) = {}
    /\ \E tier \in {0} \cup (IF Ladder[job.op] = 0 THEN {} ELSE {1}) : Creating(tier, "capture")

\* The command is here again after the process died: its run is not resumed.
StartFinds ==
    /\ job.pc = "begin" /\ Kind[job.op] = "start" /\ RunsOf(job.op) # {}
    /\ job' = [job EXCEPT !.pc = "found", !.run = Newest(job.op)]
    /\ UNCHANGED <<host, ledger, result, runs, count>>

BindRuns ==
    /\ job.pc = "begin" /\ Kind[job.op] = "bind" /\ RunsOf(job.op) = {}
    /\ \E tier \in {0, Ladder[job.op]} : Creating(tier, "bind")

BindFinds ==
    /\ job.pc = "begin" /\ Kind[job.op] = "bind" /\ RunsOf(job.op) # {}
    /\ Complete(Newest(job.op), NoValue)

\* What a command leaves in the metadata of the task's run before it resumes it.
Merges(stage, files, decision) ==
    /\ runs' = [runs EXCEPT ![host.bound].stage = stage, ![host.bound].files = files,
                            ![host.bound].decision = decision]
    /\ job' = [job EXCEPT !.pc = "resume", !.run = host.bound]
    /\ UNCHANGED <<host, ledger, result, count>>

Bound == runs[host.bound]

ImportMerges ==
    /\ job.pc = "begin" /\ Kind[job.op] = "import"
    /\ Merges("import_quote", Files[job.op], Bound.decision)

AnalyzeMerges ==
    /\ job.pc = "begin" /\ Kind[job.op] = "analyze"
    /\ Merges("comparison", Bound.files, Bound.decision)

ResumeMerges ==
    /\ job.pc = "begin" /\ Kind[job.op] = "resume"
    /\ Merges("review", Bound.files, Bound.decision)

ApproveMerges ==
    /\ job.pc = "begin" /\ Kind[job.op] = "approve" /\ host.decision[job.op] = "pending"
    /\ Merges("decision", Bound.files, job.op)

\* An answer replaces the attachments when it brings any; its message may already be
\* among the messages, and is then put back into the checkpoint and not said again.
Answered ==
    [Bound EXCEPT !.stage = "capture",
                  !.files = IF Files[job.op] = {} THEN @ ELSE Files[job.op],
                  !.seen = IF job.op \in Bound.said \ Bound.kept THEN {} ELSE @,
                  !.kept = @ \cup ({job.op} \cap Bound.said)]

AnswerMerges ==
    /\ job.pc = "begin" /\ Kind[job.op] = "answer"
    /\ runs' = [runs EXCEPT ![host.bound] = Answered]
    /\ job' = [job EXCEPT !.run = host.bound,
                          !.pc = IF job.op \in Bound.kept /\ Bound.status = "require_human"
                                 THEN "collect" ELSE "resume"]
    /\ UNCHANGED <<host, ledger, result, count>>

\* Invoices, differences and drafts are computed without a run.
Computes ==
    /\ job.pc = "begin" /\ Kind[job.op] = "pure"
    /\ Complete(0, NoValue)

\* Whatever the kind, a command may fail before it touches a run: its context or its file
\* cannot be fetched or does not fit, the host no longer waits for the decision, there is no
\* provider.  Only a run that is there already is looked up first.
BeginFails ==
    /\ job.pc = "begin" /\ (Creates(job.op) => RunsOf(job.op) = {})
    /\ Fail

-----------------------------------------------------------------------------
(* The run: turns, tools and pauses (engine/runtime.py).                   *)

R == runs[job.run]

\* Mutant: a run that is over can be resumed.
ResumesAll(status) == status # "running"

Resumable(status) == status \in {"interrupted", "cancelled", "waiting_approval", "require_human"}

Answers == {op \in Op : Kind[op] = "answer"}

EngineResumes ==
    /\ job.pc = "resume" /\ Resumable(R.status)
    /\ runs' = [runs EXCEPT ![job.run].status = "running", ![job.run].error = "none",
                            ![job.run].said = @ \cup ({job.op} \cap Answers)]
    /\ job' = [job EXCEPT !.pc = IF R.call = NoTool THEN "turn" ELSE IF R.saved THEN "saved" ELSE "act",
                          !.seen = IF job.op \in R.said THEN R.seen ELSE {},
                          !.redo = R.call # NoTool]
    /\ UNCHANGED <<host, ledger, result, count>>

EngineRefuses ==
    /\ job.pc = "resume" /\ ~Resumable(R.status)
    /\ Fail

RunEnds(status, error) ==
    /\ runs' = [runs EXCEPT ![job.run].status = status, ![job.run].error = error,
                            ![job.run].kept = R.said]
    /\ job' = [job EXCEPT !.pc = "collect"]
    /\ UNCHANGED <<host, ledger, result, count>>

AtLimit == R.steps >= MaxSteps

LimitReached ==
    /\ job.pc = "turn" /\ AtLimit
    /\ RunEnds("failed", "other")

NotYet(missing, otherwise) == IF missing \notin job.seen THEN missing ELSE otherwise

\* _next_tool: the planner goes by the stage and the tools since the last input.
NextTool ==
    CASE R.stage = "capture" -> NotYet("capture", NotYet("parse", "review"))
      [] R.stage = "import_quote" -> NotYet("parse", "review")
      [] R.stage = "comparison" -> "comparison"
      [] R.stage = "decision" -> "record"
      [] OTHER -> "review"

TurnCalls ==
    /\ job.pc = "turn" /\ ~AtLimit
    /\ \E tool \in IF R.tier = 0 THEN {NextTool} ELSE Tools :
           runs' = [runs EXCEPT ![job.run].call = tool, ![job.run].saved = FALSE,
                                ![job.run].seen = job.seen, ![job.run].kept = R.said]
    /\ job' = [job EXCEPT !.pc = "act", !.redo = FALSE]
    /\ UNCHANGED <<host, ledger, result, count>>

\* A model may end the run in plain text, whatever stage it is in.
ModelAnswers ==
    /\ job.pc = "turn" /\ ~AtLimit /\ R.tier > 0
    /\ RunEnds("completed", "none")

ModelFails ==
    /\ job.pc = "turn" /\ ~AtLimit /\ R.tier > 0
    /\ \E error \in {"protocol", "other"} : RunEnds("failed", error)

\* What a tool may give, and the stage and the attachments it leaves.
Gives(is, files, of, stage, left) ==
    [value |-> Value(is, files, of, job.op), stage |-> stage, left |-> left]

Plain(is) == Gives(is, {}, NoOp, R.stage, R.files)

Captures == {Plain("requirement"), Gives("question", {}, NoOp, "capture", R.files)}

\* All attachments are read, and then none is pending; a failing download leaves them.
Parses == {Gives("quotes", R.files, NoOp, R.stage, {}), Plain("error")}

\* The tools below ask the host for the context of the task, which may fail; a review does so
\* only when the inputs have been captured.
Reviews ==
    {Gives("review", {}, NoOp, "review", R.files)}
        \cup (IF R.stage \in {"capture", "import_quote", "bind"} THEN {} ELSE {Plain("error")})

Compares ==
    {Plain("error"),
     IF host.bound # job.run THEN Plain("error")
     ELSE IF ~host.ready THEN Plain("blocked")
     ELSE Gives("requested", {}, NoOp, "approval", R.files)}

\* Evidence of the decision that was merged last, if the host still waits for it.
Records ==
    {Plain("error"),
     IF R.decision # NoOp /\ host.decision[R.decision] = "pending"
     THEN Gives("evidence", {}, R.decision, "terminal", R.files)
     ELSE Plain("error")}

Outcomes ==
    CASE R.call = "capture" -> Captures
      [] R.call = "parse" -> Parses
      [] R.call = "review" -> Reviews
      [] R.call = "comparison" -> Compares
      [] R.call = "record" -> Records

ToolActs ==
    /\ job.pc = "act"
    /\ \E o \in Outcomes :
           /\ runs' = [runs EXCEPT ![job.run].stage = o.stage, ![job.run].files = o.left]
           /\ job' = [job EXCEPT !.pc = "acted", !.value = o.value]
    /\ UNCHANGED <<host, ledger, result, count>>

ToolSaved ==
    /\ job.pc = "acted"
    /\ runs' = [runs EXCEPT ![job.run].latest[R.call] = job.value, ![job.run].saved = TRUE]
    /\ job' = [job EXCEPT !.pc = "saved"]
    /\ UNCHANGED <<host, ledger, result, count>>

\* How a result of a tool ends the run's work, if it does.
Pauses(value) ==
    CASE value.is \in {"question", "review", "blocked"} -> "require_human"
      [] value.is = "requested" -> "waiting_approval"
      [] value.is = "evidence" -> "completed"
      [] OTHER -> "running"

\* A call left over from before a resume is only made up for: its pause is not heeded, and
\* its result stands behind the new input, where no turn is shown it.
BatchGoesOn ==
    LET seen == IF job.redo THEN job.seen ELSE job.seen \cup {R.call}
    IN /\ job.pc = "saved" /\ (job.redo \/ Pauses(job.value) = "running")
       /\ runs' = [runs EXCEPT ![job.run].call = NoTool, ![job.run].steps = @ + 1,
                               ![job.run].seen = seen, ![job.run].kept = R.said]
       /\ job' = [job EXCEPT !.pc = "turn", !.seen = seen, !.redo = FALSE]
       /\ UNCHANGED <<host, ledger, result, count>>

BatchPauses ==
    /\ job.pc = "saved" /\ ~job.redo /\ Pauses(job.value) # "running"
    /\ runs' = [runs EXCEPT ![job.run].call = NoTool, ![job.run].steps = @ + 1,
                            ![job.run].seen = job.seen \cup {R.call}, ![job.run].kept = R.said,
                            ![job.run].status = Pauses(job.value)]
    /\ job' = [job EXCEPT !.pc = "collect"]
    /\ UNCHANGED <<host, ledger, result, count>>

-----------------------------------------------------------------------------
(* The result of a command, from the state of the run and its tools.       *)

\* Only a start that made its run itself climbs the ladder.
Climbs == job.pc = "collect" /\ Kind[job.op] = "start" /\ R.status = "failed"

Escalates ==
    /\ Climbs /\ R.tier \in 1 .. Ladder[job.op] - 1
    /\ Creating(R.tier + 1, "capture")

\* A protocol error of the last model leaves the work to the planner.
ClimbsDown == Climbs /\ R.tier = Ladder[job.op] /\ R.error = "protocol"

FallsBack ==
    /\ ClimbsDown
    /\ Creating(0, "capture")

Wanted ==
    CASE Kind[job.op] = "analyze" -> "waiting_approval"
      [] Kind[job.op] = "approve" -> "completed"
      [] OTHER -> "require_human"

\* _latest_tool_payload: the newest result of the tool, whoever asked for it.
NewestOfTool ==
    CASE Kind[job.op] \in {"start", "answer"} ->
            IF R.latest["capture"].is = "requirement"
            THEN {v \in {R.latest["parse"]} : v.is = "quotes"}
            ELSE {v \in {R.latest["capture"]} : v.is = "question"}
      [] Kind[job.op] = "import" -> {v \in {R.latest["parse"]} : v.is = "quotes"}
      [] Kind[job.op] = "approve" -> {v \in {R.latest["record"]} : v.is = "evidence"}
      [] Kind[job.op] = "analyze" -> {R.latest["comparison"]}
      [] OTHER -> {NoValue}

\* The evidence of its tools that a command accepts: at most one value.
Evidence ==
    {v \in NewestOfTool : /\ Kind[job.op] = "import" => v.files = Files[job.op]
                          /\ Kind[job.op] = "approve" => v.of = job.op}

Accepted == {v \in Evidence : R.status = Wanted}

Collects ==
    /\ job.pc \in {"collect", "found"}
    /\ \E v \in Accepted : Complete(job.run, v)

Rejects ==
    /\ job.pc \in {"collect", "found"} /\ Accepted = {}
    /\ ~Climbs \/ (R.tier \notin 1 .. Ladder[job.op] - 1 /\ ~ClimbsDown)
    /\ Fail

-----------------------------------------------------------------------------
(* The process dies: what it claimed is claimable again, and a run whose   *)
(* lease has run out is interrupted; one whose lease has not stays running.*)

\* Mutant: what a dead process had claimed stays claimed.
NotRecovered(status) == status

Recovered(status) == IF status = "executing" THEN "accepted" ELSE status

Crash ==
    /\ count.crashes < MaxCrashes /\ job.pc # "idle"
    /\ count' = [count EXCEPT !.crashes = @ + 1]
    /\ ledger' = [op \in Op |-> Recovered(ledger[op])]
    /\ \E left \in {"interrupted", "running"} :
           runs' = [r \in DOMAIN runs |-> IF runs[r].status # "running" THEN runs[r]
                                         ELSE [runs[r] EXCEPT !.status = left]]
    /\ job' = Idle
    /\ UNCHANGED <<host, result>>

Begins ==
    \/ StartRuns \/ StartFinds \/ BindRuns \/ BindFinds \/ ImportMerges \/ AnalyzeMerges
    \/ ResumeMerges \/ ApproveMerges \/ AnswerMerges \/ Computes \/ BeginFails

Works ==
    \/ EngineResumes \/ EngineRefuses \/ LimitReached \/ TurnCalls \/ ModelAnswers \/ ModelFails
    \/ ToolActs \/ ToolSaved \/ BatchGoesOn \/ BatchPauses
    \/ Escalates \/ FallsBack \/ Collects \/ Rejects

Next ==
    \/ \E op \in Op : Send(op) \/ HostApplies(op) \/ Claim(op) \/ Reopen(op)
    \/ HostChanges \/ Begins \/ Works \/ Crash

Spec == Init /\ [][Next]_vars

\* The consumer hands over what was sent, and the dispatch goes on; the process dies and a
\* failed answer is sent again only so often.
FairSpec ==
    /\ Spec
    /\ WF_vars(\E op \in Op : Claim(op))
    /\ WF_vars(Begins \/ Works)

-----------------------------------------------------------------------------
(* Properties.                                                             *)

\* What a command reports to the host is about its own files and its own decision, and an
\* analysis about a comparison asked for in it, though all commands of the task leave their
\* traces in one run, a model may skip the tool it was told to call, and a call that a dead
\* process left is made up for by the next command (_import_quote, _analyze, _approve).
ResultIsOwn ==
    \A op \in Op :
        LET v == result[op].value
        IN ledger[op] = "completed" =>
               /\ Kind[op] = "import" => v.files = Files[op]
               /\ Kind[op] = "analyze" => v.is = "requested" /\ v.by = op
               /\ Kind[op] = "approve" => v.of = op

\* However often a command that creates a run is delivered, and whenever the process dies,
\* it makes at most one run with each model and one with the planner (_run_for_operation).
OneRunPerTier ==
    \A r, q \in DOMAIN runs :
        (runs[r].op = runs[q].op /\ runs[r].tier = runs[q].tier) => r = q

\* A run that recorded the formal decision keeps its outcome, its evidence and its steps,
\* whichever commands of the task still arrive (record_decision_evidence, RunEngine.resume).
DecidedRunStays ==
    [][\A r \in DOMAIN runs :
           (runs[r].status = "completed" /\ runs[r].latest["record"].is = "evidence") =>
               /\ runs'[r].status = "completed"
               /\ runs'[r].latest = runs[r].latest /\ runs'[r].steps = runs[r].steps]_vars

\* Every command that the host sends ends as completed or failed, though the planner or a
\* model may call the same tool in vain over and over, and the process may die after it
\* claimed the command (recover_abandoned_claims, max_steps).
EveryCommandEnds ==
    \A op \in Op : (op \in host.sent) ~> Ended(op)

=============================================================================
