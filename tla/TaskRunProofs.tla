------------------------------ MODULE TaskRunProofs ------------------------------
(***************************************************************************)
(* The commands of a purchase task and its run, for any commands, ladders, *)
(* attachments, deaths and repeated answers: a result is about its own     *)
(* command, a command makes one run with each model, and the run that      *)
(* recorded the formal decision stays as it is.                            *)
(*                                                                         *)
(* The argument rests on the one command that creates the task's run: the  *)
(* host sends no second one, and as long as it has no result the task is   *)
(* bound to no run, so no other command works on its runs and none of them *)
(* has a decision; once it has one, it is never claimed again.             *)
(***************************************************************************)
EXTENDS TaskRun, WellFoundedInduction, TLAPS

(* A set of numbers up to n has a greatest. *)
LEMMA Greatest ==
    ASSUME NEW n \in Nat, NEW S, S \subseteq 1 .. n, S # {}
    PROVE  \E r \in S : \A q \in S : q <= r
  <1> DEFINE T == {n - r : r \in S}
  <1>1. \A r \in S : n - r \in T /\ n - r \in Nat
    OBVIOUS
  <1>2. \A x \in T : \E r \in S : x = n - r
    OBVIOUS
  <1> HIDE DEF T
  <1>3. T \subseteq Nat /\ T # {}
    BY <1>1, <1>2
  <1>4. PICK x \in T : \A y \in T : ~(<<y, x>> \in OpToRel(<, Nat))
    BY <1>3, NatLessThanWellFounded, WFMin
  <1>5. \A y \in T : ~(y < x)
    BY <1>3, <1>4 DEF OpToRel
  <1>6. PICK r \in S : x = n - r
    BY <1>2
  <1>7. \A q \in S : ~(n - q < n - r)
    BY <1>1, <1>5, <1>6
  <1> QED BY <1>7


(* The length of a list given as a function. *)
LEMMA LenIs ==
    ASSUME NEW n \in Nat, NEW s, s = [i \in 1 .. n |-> s[i]]
    PROVE  Len(s) = n
  <1> DEFINE S == {s[i] : i \in 1 .. n}
  <1>1. s \in [1 .. n -> S]
    OBVIOUS
  <1> HIDE DEF S
  <1> QED BY <1>1

(* What appending to it gives. *)
LEMMA AppendIs ==
    ASSUME NEW n \in Nat, NEW s, s = [i \in 1 .. n |-> s[i]], NEW x
    PROVE  Append(s, x) = [i \in 1 .. n + 1 |-> IF i <= n THEN s[i] ELSE x]
  <1> DEFINE S == {s[i] : i \in 1 .. n} \cup {x}
  <1>1. s \in [1 .. n -> S] /\ x \in S
    OBVIOUS
  <1> HIDE DEF S
  <1>2. s \in Seq(S) /\ Len(s) = n
    BY <1>1
  <1> QED BY <1>1, <1>2

-------------------------------------------------------------------------------
(* The invariant. *)

IsRun(x) ==
    x = [op |-> x.op, tier |-> x.tier, status |-> x.status, error |-> x.error, stage |-> x.stage,
         files |-> x.files, decision |-> x.decision, latest |-> x.latest, call |-> x.call,
         saved |-> x.saved, seen |-> x.seen, steps |-> x.steps, said |-> x.said, kept |-> x.kept]

IsHost(h) ==
    h = [sent |-> h.sent, applied |-> h.applied, bound |-> h.bound, ready |-> h.ready,
         compared |-> h.compared, asked |-> h.asked, decision |-> h.decision]

IsJob(j) == j = [pc |-> j.pc, op |-> j.op, run |-> j.run, seen |-> j.seen, value |-> j.value, redo |-> j.redo]

Shapes ==
    /\ IsHost(host) /\ IsJob(job)
    /\ ledger = [o \in Op |-> ledger[o]] /\ result = [o \in Op |-> result[o]]
    /\ Len(runs) \in Nat /\ runs = [r \in 1 .. Len(runs) |-> runs[r]]

(* A run's record, its tier, and a call that is a tool's. *)
GoodRun(x) ==
    /\ IsRun(x) /\ x.tier \in Nat /\ x.call \in Tools \cup {NoTool}
    /\ x.latest = [t \in Tools |-> x.latest[t]]
    /\ x.error = "protocol" => x.tier # 0

GoodRuns == \A r \in 1 .. Len(runs) : GoodRun(runs[r])

IsRunOf(r) == r \in 1 .. Len(runs)

(* Commands are sent before they are in the ledger, and one of them creates. *)
Commands ==
    /\ host.sent \subseteq Op
    /\ \A o \in Op : ledger[o] # "none" => o \in host.sent
    /\ \A o, q \in host.sent : Creates(o) /\ Creates(q) => o = q
    /\ \A r \in 1 .. Len(runs) : runs[r].op \in host.sent /\ Creates(runs[r].op)

(* The task is bound to a run by the result of that command. *)
Bindings ==
    /\ host.bound = 0 \/ IsRunOf(host.bound)
    /\ host.bound # 0 => \E o \in host.sent : Creates(o)
    /\ host.bound # 0 => \A o \in host.sent : Creates(o) => ledger[o] = "completed"
    /\ \A o \in Op : ledger[o] = "completed" /\ Creates(o) => IsRunOf(result[o].run)
    /\ \A o \in Op : ledger[o] = "completed" /\ result[o].value.is = "question" => Creates(o) \/ host.bound # 0

(* What only a bound task has. *)
BoundFirst ==
    host.bound = 0 =>
        /\ \A o \in host.sent : Kind[o] \in {"start", "bind", "pure"}
        /\ ~host.asked /\ ~host.compared
        /\ \A r \in 1 .. Len(runs) : runs[r].decision = NoOp /\ runs[r].latest["record"].is # "evidence"
        /\ job.pc \in {"acted", "saved"} => job.value.is # "evidence"
        /\ job.pc # "resume"

InTurn == job.pc \in {"turn", "act", "acted", "saved"}

(* The dispatch is of a command that is executed, on a run that is there. *)
Working ==
    /\ job.pc # "idle" => job.op \in Op /\ ledger[job.op] = "executing"
    /\ InTurn \/ job.pc \in {"resume", "collect", "found"} => IsRunOf(job.run)
    /\ InTurn => runs[job.run].status = "running"
    /\ job.pc \in {"act", "acted", "saved"} => runs[job.run].call \in Tools
    /\ job.pc = "found" => Kind[job.op] = "start"
    /\ job.pc = "resume" => ~Creates(job.op)

(* The run of the creating command is the last, and the models before it were cheaper. *)
Climbing ==
    (InTurn \/ job.pc = "collect") /\ Creates(job.op) =>
        /\ job.run = Len(runs)
        /\ runs[job.run].tier > 0 =>
               \A r \in 1 .. Len(runs) - 1 : 0 < runs[r].tier /\ runs[r].tier < runs[job.run].tier

(* The value of the tool that ran last in this dispatch, and the pause it led to. *)
Fresh ==
    /\ job.pc = "acted" \/ (job.pc = "saved" /\ ~job.redo) =>
           /\ job.value.by = job.op
           /\ job.value.is = "requested" => runs[job.run].call = "comparison"
    /\ job.pc = "saved" /\ ~job.redo => runs[job.run].latest[runs[job.run].call] = job.value
    /\ job.pc = "collect" /\ Kind[job.op] = "analyze" /\ runs[job.run].status = "waiting_approval" =>
           LET v == runs[job.run].latest["comparison"] IN v.is = "requested" /\ v.by = job.op

TiersDiffer == \A r, q \in 1 .. Len(runs) : runs[r].tier = runs[q].tier => r = q

IInv ==
    /\ Shapes /\ GoodRuns /\ Commands /\ Bindings /\ BoundFirst /\ Working /\ Climbing /\ Fresh
    /\ TiersDiffer /\ ResultIsOwn

(* What a step keeps of a run that recorded the decision. *)
Stays ==
    \A r \in 1 .. Len(runs) :
        (runs[r].status = "completed" /\ runs[r].latest["record"].is = "evidence") =>
            /\ runs'[r].status = "completed"
            /\ runs'[r].latest = runs[r].latest /\ runs'[r].steps = runs[r].steps

(* Nothing is sent at first. *)
LEMMA InitIInv == Init => IInv
  <1> SUFFICES ASSUME Init PROVE IInv
    OBVIOUS
  <1>1. /\ host = [sent |-> {}, applied |-> {}, bound |-> 0, ready |-> FALSE, compared |-> FALSE,
                   asked |-> FALSE, decision |-> [op \in Op |-> "none"]]
        /\ ledger = [op \in Op |-> "none"] /\ result = [op \in Op |-> result[op]]
        /\ runs = << >> /\ Len(runs) = 0 /\ job.pc = "idle" /\ IsJob(job)
    BY DEF Init, Idle, IsJob
  <1>2. Shapes
    <2>1. IsHost(host)
      BY <1>1 DEF IsHost
    <2> QED BY <1>1, <2>1 DEF Shapes
  <1>3. GoodRuns /\ Climbing /\ Fresh /\ TiersDiffer
    BY <1>1 DEF GoodRuns, Climbing, InTurn, Fresh, TiersDiffer
  <1>4. Commands /\ Bindings /\ BoundFirst /\ Working /\ ResultIsOwn
    BY <1>1 DEF Commands, Bindings, BoundFirst, Working, InTurn, ResultIsOwn
  <1> QED BY <1>2, <1>3, <1>4 DEF IInv

-------------------------------------------------------------------------------
(* The engine's steps change one run. *)

(* One run of the list is replaced. *)
LEMMA OneChanged ==
    ASSUME Shapes, NEW k, IsRunOf(k), NEW x, runs' = [runs EXCEPT ![k] = x]
    PROVE  /\ Len(runs)' = Len(runs)
           /\ runs' = [r \in 1 .. Len(runs)' |-> runs'[r]]
           /\ runs'[k] = x /\ \A r \in 1 .. Len(runs) : r # k => runs'[r] = runs[r]
  <1>1. runs' = [r \in 1 .. Len(runs) |-> IF r = k THEN x ELSE runs[r]]
    BY DEF Shapes
  <1>2. runs' = [r \in 1 .. Len(runs) |-> runs'[r]]
    BY <1>1
  <1>3. Len(runs') = Len(runs)
    BY <1>2, LenIs DEF Shapes
  <1> QED BY <1>1, <1>2, <1>3 DEF IsRunOf

(* A change of the run the dispatch works on keeps what the run is of, and what was decided. *)
LEMMA RunStep ==
    ASSUME IInv, UNCHANGED <<host, ledger, result>>, InTurn \/ job.pc = "resume",
           NEW x, runs' = [runs EXCEPT ![job.run] = x],
           GoodRun(x), x.op = R.op, x.tier = R.tier, x.decision = R.decision,
           x.latest["record"].is = "evidence" => host.bound # 0,
           IsJob(job)', job'.op = job.op, job'.run = job.run,
           job'.pc \in {"turn", "act", "acted", "saved", "collect"},
           job'.pc # "collect" => x.status = "running",
           job'.pc \in {"act", "acted", "saved"} => x.call \in Tools,
           job'.pc \in {"acted", "saved"} /\ job'.value.is = "evidence" => host.bound # 0,
           job'.pc = "acted" \/ (job'.pc = "saved" /\ ~job'.redo) =>
               job'.value.by = job.op /\ (job'.value.is = "requested" => x.call = "comparison"),
           job'.pc = "saved" /\ ~job'.redo => x.latest[x.call] = job'.value,
           job'.pc = "collect" /\ x.status = "waiting_approval" =>
               x.latest["comparison"].is = "requested" /\ x.latest["comparison"].by = job.op,
           R.status # "completed"
    PROVE  IInv' /\ Stays
  <1>1. IsRunOf(job.run)
    BY DEF IInv, Working
  <1>2. /\ Len(runs)' = Len(runs)
        /\ runs' = [r \in 1 .. Len(runs)' |-> runs'[r]]
        /\ runs'[job.run] = x /\ \A r \in 1 .. Len(runs) : r # job.run => runs'[r] = runs[r]
    BY <1>1, OneChanged DEF IInv
  <1>3. /\ \A r \in 1 .. Len(runs) : /\ runs'[r].op = runs[r].op /\ runs'[r].tier = runs[r].tier
                                     /\ runs'[r].decision = runs[r].decision
        /\ runs'[job'.run] = x
    BY <1>2 DEF R
  <1>4. Shapes'
    BY <1>2 DEF IInv, Shapes
  <1>5. GoodRuns'
    BY <1>2 DEF IInv, GoodRuns
  <1>6. Commands' /\ Bindings'
    BY <1>2, <1>3 DEF IInv, Commands, Bindings, IsRunOf
  <1>7. BoundFirst'
    BY <1>2, <1>3 DEF IInv, BoundFirst
  <1>8. Working'
    BY <1>1, <1>2, <1>3 DEF IInv, Working, InTurn, IsRunOf
  <1>9. Climbing'
    <2>1. Creates(job.op) =>
              /\ job.run = Len(runs)
              /\ runs[job.run].tier > 0 =>
                     \A r \in 1 .. Len(runs) - 1 : 0 < runs[r].tier /\ runs[r].tier < runs[job.run].tier
      BY DEF IInv, Climbing, Working
    <2>2. Len(runs) \in Nat
      BY DEF IInv, Shapes
    <2> QED BY <1>1, <1>2, <1>3, <2>1, <2>2 DEF Climbing, IsRunOf
  <1>10. Fresh'
    BY <1>3 DEF Fresh
  <1>11. TiersDiffer'
    BY <1>2, <1>3 DEF IInv, TiersDiffer
  <1>12. ResultIsOwn'
    BY DEF IInv, ResultIsOwn
  <1>13. Stays
    BY <1>2 DEF Stays, R
  <1> QED BY <1>4, <1>5, <1>6, <1>7, <1>8, <1>9, <1>10, <1>11, <1>12, <1>13 DEF IInv

(* The runs are a list. *)
LEMMA RunsAreList == IInv => runs = [r \in 1 .. Len(runs) |-> runs[r]]
  BY DEF IInv, Shapes

(* The run the dispatch works on. *)
LEMMA Worked ==
    ASSUME IInv, InTurn \/ job.pc = "resume"
    PROVE  /\ IsRunOf(job.run) /\ GoodRun(R) /\ job.op \in Op /\ IsJob(job)
           /\ InTurn => R.status = "running"
           /\ R.latest["record"].is = "evidence" \/ R.decision # NoOp => host.bound # 0
  BY DEF IInv, Shapes, Working, GoodRuns, BoundFirst, InTurn, R, IsRunOf

(* A resume of a run that has not ended. *)
LEMMA EngineResumesKeeps ==
    ASSUME IInv, EngineResumes
    PROVE  IInv' /\ Stays
  <1>x. PICK x : x = [R EXCEPT !.status = "running", !.error = "none", !.said = R.said \cup ({job.op} \cap Answers)]
    OBVIOUS
  <1>1. /\ job.pc = "resume" /\ Resumable(R.status) /\ UNCHANGED <<host, ledger, result>>
        /\ runs' = [runs EXCEPT ![job.run].status = "running", ![job.run].error = "none",
                                ![job.run].said = @ \cup ({job.op} \cap Answers)]
        /\ job' = [job EXCEPT !.pc = IF R.call = NoTool THEN "turn" ELSE IF R.saved THEN "saved" ELSE "act",
                              !.seen = IF job.op \in R.said THEN R.seen ELSE {},
                              !.redo = R.call # NoTool]
    BY DEF EngineResumes
  <1>2. IsRunOf(job.run) /\ GoodRun(R) /\ IsJob(job)
    BY <1>1, Worked
  <1>3. runs' = [runs EXCEPT ![job.run] = x]
    BY <1>x, <1>1, <1>2, RunsAreList DEF IsRunOf, R
  <1>y. IsRun(R)
    BY <1>2 DEF GoodRun
  <1>4. /\ GoodRun(x) /\ x.op = R.op /\ x.tier = R.tier /\ x.decision = R.decision
        /\ x.latest = R.latest /\ x.status = "running" /\ x.call = R.call
    <2>1. IsRun(x) /\ x.error = "none" /\ x.op = R.op /\ x.tier = R.tier /\ x.decision = R.decision
        /\ x.latest = R.latest /\ x.status = "running" /\ x.call = R.call
      BY <1>x, <1>y DEF IsRun
    <2>2. R.tier \in Nat /\ R.call \in Tools \cup {NoTool} /\ R.latest = [t \in Tools |-> R.latest[t]]
          /\ (R.error = "protocol" => R.tier # 0)
      BY <1>2 DEF GoodRun
    <2>3. GoodRun(x)
      BY <2>1, <2>2 DEF GoodRun
    <2> QED BY <2>1, <2>3
  <1>5. IsJob(job)' /\ job'.op = job.op /\ job'.run = job.run /\ job'.redo = (R.call # NoTool)
        /\ job'.pc = (IF R.call = NoTool THEN "turn" ELSE IF R.saved THEN "saved" ELSE "act")
    BY <1>1, <1>2 DEF IsJob
  <1>6. /\ job'.pc \in {"turn", "saved", "act"}
        /\ job'.pc \in {"saved", "act"} => job'.redo /\ x.call \in Tools
    <2>1. R.call \in Tools \cup {NoTool} /\ x.call = R.call
      BY <1>2, <1>4 DEF GoodRun
    <2>2. CASE R.call = NoTool
      <3>1. job'.pc = "turn"
        BY <1>5, <2>2
      <3> QED BY <3>1
    <2>3. CASE R.call # NoTool
      <3>1. job'.pc \in {"saved", "act"} /\ job'.redo
        BY <1>5, <2>3
      <3>2. x.call \in Tools
        BY <2>1, <2>3
      <3> QED BY <3>1, <3>2
    <2> QED BY <2>2, <2>3
  <1>7. host.bound # 0 /\ R.status # "completed"
    BY <1>1 DEF IInv, BoundFirst, Resumable
  <1> QED BY <1>1, <1>3, <1>4, <1>5, <1>6, <1>7, RunStep

(* A run ends in a turn: it has asked for no leave. *)
LEMMA RunEndsKeeps ==
    ASSUME IInv, job.pc = "turn", NEW status \in {"completed", "failed"}, NEW error,
           RunEnds(status, error), error = "protocol" => R.tier > 0
    PROVE  IInv' /\ Stays
  <1>x. PICK x : x = [R EXCEPT !.status = status, !.error = error, !.kept = R.said]
    OBVIOUS
  <1>1. /\ runs' = [runs EXCEPT ![job.run].status = status, ![job.run].error = error, ![job.run].kept = R.said]
        /\ job' = [job EXCEPT !.pc = "collect"] /\ UNCHANGED <<host, ledger, result>>
    BY DEF RunEnds
  <1>2. IsRunOf(job.run) /\ GoodRun(R) /\ IsJob(job) /\ R.status = "running"
        /\ (R.latest["record"].is = "evidence" => host.bound # 0)
    BY Worked DEF InTurn
  <1>3. runs' = [runs EXCEPT ![job.run] = x]
    BY <1>x, <1>1, <1>2, RunsAreList DEF IsRunOf, R
  <1>y. IsRun(R)
    BY <1>2 DEF GoodRun
  <1>4. /\ GoodRun(x) /\ x.op = R.op /\ x.tier = R.tier /\ x.decision = R.decision
        /\ x.latest = R.latest /\ x.status = status
    <2>1. IsRun(x) /\ x.error = error /\ x.op = R.op /\ x.tier = R.tier /\ x.decision = R.decision
        /\ x.latest = R.latest /\ x.status = status /\ x.call = R.call
      BY <1>x, <1>y DEF IsRun
    <2>2. R.tier \in Nat /\ R.call \in Tools \cup {NoTool} /\ R.latest = [t \in Tools |-> R.latest[t]]
          /\ (R.error = "protocol" => R.tier # 0)
      BY <1>2 DEF GoodRun
    <2>3. GoodRun(x)
      BY <2>1, <2>2 DEF GoodRun
    <2> QED BY <2>1, <2>3
  <1>5. IsJob(job)' /\ job'.op = job.op /\ job'.run = job.run /\ job'.pc = "collect"
    BY <1>1, <1>2 DEF IsJob
  <1> QED BY <1>1, <1>2, <1>3, <1>4, <1>5, RunStep DEF InTurn

(* A turn of a model or the planner asks for a tool. *)
LEMMA TurnCallsKeeps ==
    ASSUME IInv, TurnCalls
    PROVE  IInv' /\ Stays
  <1>1. PICK tool \in Tools :
            runs' = [runs EXCEPT ![job.run].call = tool, ![job.run].saved = FALSE,
                                 ![job.run].seen = job.seen, ![job.run].kept = R.said]
    BY DEF TurnCalls, NextTool, NotYet, Tools
  <1>x. PICK x : x = [R EXCEPT !.call = tool, !.saved = FALSE, !.seen = job.seen, !.kept = R.said]
    OBVIOUS
  <1>2. job.pc = "turn" /\ UNCHANGED <<host, ledger, result>> /\ job' = [job EXCEPT !.pc = "act", !.redo = FALSE]
    BY DEF TurnCalls
  <1>3. IsRunOf(job.run) /\ GoodRun(R) /\ IsJob(job) /\ R.status = "running"
        /\ (R.latest["record"].is = "evidence" => host.bound # 0)
    BY <1>2, Worked DEF InTurn
  <1>4. runs' = [runs EXCEPT ![job.run] = x]
    BY <1>x, <1>1, <1>3, RunsAreList DEF IsRunOf, R
  <1>y. IsRun(R)
    BY <1>3 DEF GoodRun
  <1>5. /\ GoodRun(x) /\ x.op = R.op /\ x.tier = R.tier /\ x.decision = R.decision
        /\ x.latest = R.latest /\ x.status = "running" /\ x.call \in Tools
    <2>1. IsRun(x) /\ x.error = R.error /\ x.op = R.op /\ x.tier = R.tier /\ x.decision = R.decision
        /\ x.latest = R.latest /\ x.status = R.status /\ x.call = tool
      BY <1>x, <1>y DEF IsRun
    <2>2. R.tier \in Nat /\ R.call \in Tools \cup {NoTool} /\ R.latest = [t \in Tools |-> R.latest[t]]
          /\ (R.error = "protocol" => R.tier # 0)
      BY <1>3 DEF GoodRun
    <2>3. GoodRun(x)
      BY <2>1, <2>2 DEF GoodRun
    <2> QED BY <1>3, <2>1, <2>3
  <1>6. IsJob(job)' /\ job'.op = job.op /\ job'.run = job.run /\ job'.pc = "act"
    BY <1>2, <1>3 DEF IsJob
  <1> QED BY <1>2, <1>3, <1>4, <1>5, <1>6, RunStep DEF InTurn

(* What a tool gives is of this command; only the comparison asks for leave, and only a run that
   was given a decision has evidence of it. *)
LEMMA ToolActsKeeps ==
    ASSUME IInv, ToolActs
    PROVE  IInv' /\ Stays
  <1>1. PICK o \in Outcomes :
            /\ runs' = [runs EXCEPT ![job.run].stage = o.stage, ![job.run].files = o.left]
            /\ job' = [job EXCEPT !.pc = "acted", !.value = o.value]
    BY DEF ToolActs
  <1>x. PICK x : x = [R EXCEPT !.stage = o.stage, !.files = o.left]
    OBVIOUS
  <1>2. job.pc = "act" /\ UNCHANGED <<host, ledger, result>>
    BY DEF ToolActs
  <1>3. IsRunOf(job.run) /\ GoodRun(R) /\ IsJob(job) /\ R.status = "running"
        /\ (R.latest["record"].is = "evidence" \/ R.decision # NoOp => host.bound # 0)
    BY <1>2, Worked DEF InTurn
  <1>4. R.call \in Tools
    BY <1>2 DEF IInv, Working, R
  <1>5. /\ o.value.by = job.op /\ (o.value.is = "requested" => R.call = "comparison")
        /\ (o.value.is = "evidence" => R.decision # NoOp)
    BY <1>4 DEF Outcomes, Captures, Parses, Reviews, Compares, Records, Plain, Gives, Value, Tools
  <1>6. runs' = [runs EXCEPT ![job.run] = x]
    BY <1>x, <1>1, <1>3, RunsAreList DEF IsRunOf, R
  <1>y. IsRun(R)
    BY <1>3 DEF GoodRun
  <1>7. /\ GoodRun(x) /\ x.op = R.op /\ x.tier = R.tier /\ x.decision = R.decision
        /\ x.latest = R.latest /\ x.status = "running" /\ x.call = R.call
    <2>1. IsRun(x) /\ x.error = R.error /\ x.op = R.op /\ x.tier = R.tier /\ x.decision = R.decision
        /\ x.latest = R.latest /\ x.status = R.status /\ x.call = R.call
      BY <1>x, <1>y DEF IsRun
    <2>2. R.tier \in Nat /\ R.call \in Tools \cup {NoTool} /\ R.latest = [t \in Tools |-> R.latest[t]]
          /\ (R.error = "protocol" => R.tier # 0)
      BY <1>3 DEF GoodRun
    <2>3. GoodRun(x)
      BY <2>1, <2>2 DEF GoodRun
    <2> QED BY <1>3, <2>1, <2>3
  <1>8. IsJob(job)' /\ job'.op = job.op /\ job'.run = job.run /\ job'.pc = "acted" /\ job'.value = o.value
    BY <1>1, <1>3 DEF IsJob
  <1> QED BY <1>2, <1>3, <1>4, <1>5, <1>6, <1>7, <1>8, RunStep DEF InTurn

(* The tool's value becomes its latest result. *)
LEMMA ToolSavedKeeps ==
    ASSUME IInv, ToolSaved
    PROVE  IInv' /\ Stays
  <1>x. PICK x : x = [R EXCEPT !.latest = [R.latest EXCEPT ![R.call] = job.value], !.saved = TRUE]
    OBVIOUS
  <1>1. /\ runs' = [runs EXCEPT ![job.run].latest[R.call] = job.value, ![job.run].saved = TRUE]
        /\ job' = [job EXCEPT !.pc = "saved"] /\ job.pc = "acted" /\ UNCHANGED <<host, ledger, result>>
    BY DEF ToolSaved
  <1>2. IsRunOf(job.run) /\ GoodRun(R) /\ IsJob(job) /\ R.status = "running"
        /\ (R.latest["record"].is = "evidence" => host.bound # 0)
    BY <1>1, Worked DEF InTurn
  <1>3. R.call \in Tools
    BY <1>1 DEF IInv, Working, R
  <1>4. /\ job.value.by = job.op /\ (job.value.is = "requested" => R.call = "comparison")
        /\ (job.value.is = "evidence" => host.bound # 0)
    BY <1>1 DEF IInv, Fresh, BoundFirst, R
  <1>5. runs' = [runs EXCEPT ![job.run] = x]
    BY <1>x, <1>1, <1>2, RunsAreList DEF IsRunOf, R
  <1>y. IsRun(R)
    BY <1>2 DEF GoodRun
  <1>6. /\ IsRun(x) /\ x.op = R.op /\ x.tier = R.tier /\ x.decision = R.decision /\ x.error = R.error
        /\ x.latest = [R.latest EXCEPT ![R.call] = job.value] /\ x.status = "running" /\ x.call = R.call
    <2>1. /\ IsRun(x) /\ x.op = R.op /\ x.tier = R.tier /\ x.decision = R.decision /\ x.error = R.error
          /\ x.latest = [R.latest EXCEPT ![R.call] = job.value] /\ x.status = R.status /\ x.call = R.call
      BY <1>x, <1>y DEF IsRun
    <2> QED BY <1>2, <2>1
  <1>7. /\ x.latest = [t \in Tools |-> x.latest[t]] /\ x.latest[x.call] = job.value
        /\ x.latest["record"] \in {R.latest["record"], job.value}
    BY <1>2, <1>3, <1>6 DEF GoodRun, Tools
  <1>8. GoodRun(x)
    <2>1. R.tier \in Nat /\ (R.error = "protocol" => R.tier # 0)
      BY <1>2 DEF GoodRun
    <2> QED BY <1>3, <1>6, <1>7, <2>1 DEF GoodRun
  <1>9. /\ IsJob(job)' /\ job'.op = job.op /\ job'.run = job.run /\ job'.pc = "saved"
        /\ job'.value = job.value
    BY <1>1, <1>2 DEF IsJob
  <1> QED BY <1>1, <1>2, <1>3, <1>4, <1>5, <1>6, <1>7, <1>8, <1>9, RunStep DEF InTurn

(* The batch goes on with the next turn. *)
LEMMA BatchGoesOnKeeps ==
    ASSUME IInv, BatchGoesOn
    PROVE  IInv' /\ Stays
  <1>1. PICK seen :
            /\ runs' = [runs EXCEPT ![job.run].call = NoTool, ![job.run].steps = @ + 1,
                                    ![job.run].seen = seen, ![job.run].kept = R.said]
            /\ job' = [job EXCEPT !.pc = "turn", !.seen = seen, !.redo = FALSE]
    BY DEF BatchGoesOn
  <1>x. PICK x : x = [R EXCEPT !.call = NoTool, !.steps = R.steps + 1, !.seen = seen, !.kept = R.said]
    OBVIOUS
  <1>2. job.pc = "saved" /\ UNCHANGED <<host, ledger, result>>
    BY DEF BatchGoesOn
  <1>3. IsRunOf(job.run) /\ GoodRun(R) /\ IsJob(job) /\ R.status = "running"
        /\ (R.latest["record"].is = "evidence" => host.bound # 0)
    BY <1>2, Worked DEF InTurn
  <1>4. runs' = [runs EXCEPT ![job.run] = x]
    BY <1>x, <1>1, <1>3, RunsAreList DEF IsRunOf, R
  <1>y. IsRun(R)
    BY <1>3 DEF GoodRun
  <1>5. /\ GoodRun(x) /\ x.op = R.op /\ x.tier = R.tier /\ x.decision = R.decision
        /\ x.latest = R.latest /\ x.status = "running"
    <2>1. IsRun(x) /\ x.error = R.error /\ x.op = R.op /\ x.tier = R.tier /\ x.decision = R.decision
        /\ x.latest = R.latest /\ x.status = R.status /\ x.call = NoTool
      BY <1>x, <1>y DEF IsRun
    <2>2. R.tier \in Nat /\ R.latest = [t \in Tools |-> R.latest[t]]
          /\ (R.error = "protocol" => R.tier # 0)
      BY <1>3 DEF GoodRun
    <2>3. GoodRun(x)
      BY <2>1, <2>2 DEF GoodRun
    <2> QED BY <1>3, <2>1, <2>3
  <1>6. IsJob(job)' /\ job'.op = job.op /\ job'.run = job.run /\ job'.pc = "turn"
    BY <1>1, <1>3 DEF IsJob
  <1> QED BY <1>2, <1>3, <1>4, <1>5, <1>6, RunStep DEF InTurn

(* A pause: what asks for leave was a comparison of this command. *)
LEMMA BatchPausesKeeps ==
    ASSUME IInv, BatchPauses
    PROVE  IInv' /\ Stays
  <1>1. PICK seen, status :
            /\ runs' = [runs EXCEPT ![job.run].call = NoTool, ![job.run].steps = @ + 1,
                                    ![job.run].seen = seen, ![job.run].kept = R.said,
                                    ![job.run].status = status]
            /\ job' = [job EXCEPT !.pc = "collect"]
            /\ status = Pauses(job.value)
    BY DEF BatchPauses
  <1>x. PICK x : x = [R EXCEPT !.call = NoTool, !.steps = R.steps + 1, !.seen = seen, !.kept = R.said,
                               !.status = status]
    OBVIOUS
  <1>2. job.pc = "saved" /\ ~job.redo /\ UNCHANGED <<host, ledger, result>>
    BY DEF BatchPauses
  <1>3. IsRunOf(job.run) /\ GoodRun(R) /\ IsJob(job) /\ R.status = "running"
        /\ (R.latest["record"].is = "evidence" => host.bound # 0)
    BY <1>2, Worked DEF InTurn
  <1>4. runs' = [runs EXCEPT ![job.run] = x]
    BY <1>x, <1>1, <1>3, RunsAreList DEF IsRunOf, R
  <1>y. IsRun(R)
    BY <1>3 DEF GoodRun
  <1>5. /\ GoodRun(x) /\ x.op = R.op /\ x.tier = R.tier /\ x.decision = R.decision
        /\ x.latest = R.latest /\ x.status = status
    <2>1. IsRun(x) /\ x.error = R.error /\ x.op = R.op /\ x.tier = R.tier /\ x.decision = R.decision
        /\ x.latest = R.latest /\ x.status = status /\ x.call = NoTool
      BY <1>x, <1>y DEF IsRun
    <2>2. R.tier \in Nat /\ R.latest = [t \in Tools |-> R.latest[t]]
          /\ (R.error = "protocol" => R.tier # 0)
      BY <1>3 DEF GoodRun
    <2>3. GoodRun(x)
      BY <2>1, <2>2 DEF GoodRun
    <2> QED BY <2>1, <2>3
  <1>6. IsJob(job)' /\ job'.op = job.op /\ job'.run = job.run /\ job'.pc = "collect"
    BY <1>1, <1>3 DEF IsJob
  <1>7. status = "waiting_approval" => R.latest["comparison"].is = "requested" /\ R.latest["comparison"].by = job.op
    <2>1. status = "waiting_approval" => job.value.is = "requested"
      BY <1>1 DEF Pauses
    <2>2. /\ job.value.by = job.op /\ (job.value.is = "requested" => R.call = "comparison")
          /\ R.latest[R.call] = job.value
      BY <1>2 DEF IInv, Fresh, R
    <2> QED BY <2>1, <2>2
  <1> QED BY <1>2, <1>3, <1>4, <1>5, <1>6, <1>7, RunStep DEF InTurn

-------------------------------------------------------------------------------
(* The command that creates the task's run. *)

(* Until that command has its result, the task is bound to no run. *)
LEMMA Unbound ==
    ASSUME IInv, job.pc # "idle", Creates(job.op)
    PROVE  host.bound = 0
  BY DEF IInv, Working, Commands, Bindings

(* What a new run and one that was given up are. *)
LEMMA NewAndLeft ==
    ASSUME NEW op, NEW tier \in Nat, NEW stage
    PROVE  /\ GoodRun(NewRun(op, tier, stage))
           /\ NewRun(op, tier, stage).op = op /\ NewRun(op, tier, stage).tier = tier
           /\ NewRun(op, tier, stage).status = "running" /\ NewRun(op, tier, stage).decision = NoOp
           /\ NewRun(op, tier, stage).latest = [t \in Tools |-> NoValue]
  BY DEF NewRun, GoodRun, IsRun, NoTool

(* The same of the runs before. *)
LEMMA LeftIs ==
    ASSUME NEW run, GoodRun(run)
    PROVE  /\ GoodRun(Left(run)) /\ Left(run).op = run.op /\ Left(run).tier = run.tier
           /\ Left(run).decision = NoOp /\ Left(run).latest = [t \in Tools |-> NoValue]
  <1>1. PICK y : y = NewRun(run.op, run.tier, "capture")
    OBVIOUS
  <1>2. run.tier \in Nat
    BY DEF GoodRun
  <1>3. /\ GoodRun(y) /\ y.op = run.op /\ y.tier = run.tier /\ y.decision = NoOp
        /\ y.latest = [t \in Tools |-> NoValue]
    BY <1>1, <1>2, NewAndLeft
  <1>4. PICK x : x = [y EXCEPT !.status = run.status]
    OBVIOUS
  <1>5. IsRun(x) /\ x.error = y.error /\ x.op = y.op /\ x.tier = y.tier /\ x.decision = y.decision
        /\ x.latest = y.latest /\ x.call = y.call
    <2>1. IsRun(y)
      BY <1>3 DEF GoodRun
    <2> QED BY <1>4, <2>1 DEF IsRun
  <1>6. Left(run) = x
    BY <1>1, <1>4 DEF Left
  <1>7. GoodRun(x)
    BY <1>3, <1>5 DEF GoodRun
  <1> QED BY <1>3, <1>5, <1>6, <1>7

(* A new run of the creating command: no run before it has its model. *)
LEMMA CreatingKeeps ==
    ASSUME IInv, NEW tier \in Nat, NEW stage, Creating(tier, stage),
           job.pc # "idle", Creates(job.op),
           \A r \in 1 .. Len(runs) : runs[r].tier # tier,
           tier > 0 => \A r \in 1 .. Len(runs) : 0 < runs[r].tier /\ runs[r].tier < tier
    PROVE  IInv' /\ Stays
  <1>1. /\ runs' = Append([r \in DOMAIN runs |-> Left(runs[r])], NewRun(job.op, tier, stage))
        /\ job' = [Idle EXCEPT !.pc = "turn", !.op = job.op, !.run = Len(runs) + 1]
        /\ UNCHANGED <<host, ledger, result>>
    BY DEF Creating
  <1> DEFINE n == Len(runs)
  <1>2. n \in Nat /\ DOMAIN runs = 1 .. n
    BY DEF IInv, Shapes
  <1>3. PICK left : left = [r \in 1 .. n |-> Left(runs[r])]
    OBVIOUS
  <1>4. PICK new : new = NewRun(job.op, tier, stage)
    OBVIOUS
  <1>5. runs' = [r \in 1 .. n + 1 |-> IF r <= n THEN left[r] ELSE new]
    <2>1. runs' = Append(left, new)
      BY <1>1, <1>2, <1>3, <1>4
    <2>2. left = [r \in 1 .. n |-> left[r]]
      BY <1>3
    <2> HIDE DEF n
    <2> QED BY <1>2, <2>1, <2>2, AppendIs
  <1>6. Len(runs') = n + 1 /\ runs' = [r \in 1 .. n + 1 |-> runs'[r]]
    <2>1. runs' = [r \in 1 .. n + 1 |-> runs'[r]]
      BY <1>5
    <2> HIDE DEF n
    <2> QED BY <1>2, <2>1, LenIs
  <1>7. /\ runs'[n + 1] = new
        /\ \A r \in 1 .. n : runs'[r] = left[r]
    BY <1>2, <1>5
  <1>8. /\ GoodRun(new) /\ new.op = job.op /\ new.tier = tier /\ new.status = "running"
        /\ new.decision = NoOp /\ new.latest = [t \in Tools |-> NoValue]
    BY <1>4, NewAndLeft
  <1>9. \A r \in 1 .. n :
            /\ GoodRun(left[r]) /\ left[r].op = runs[r].op /\ left[r].tier = runs[r].tier
            /\ left[r].decision = NoOp /\ left[r].latest = [t \in Tools |-> NoValue]
    BY <1>3, LeftIs DEF IInv, GoodRuns
  <1>10. \A r \in 1 .. n + 1 : r \in 1 .. n \/ r = n + 1
    BY <1>2
  <1>11. /\ IsJob(job)' /\ job'.pc = "turn" /\ job'.op = job.op /\ job'.run = n + 1
    BY <1>1 DEF IsJob, Idle
  <1>12. host.bound = 0 /\ job.op \in Op /\ ledger[job.op] = "executing" /\ job.op \in host.sent
    BY Unbound DEF IInv, Working, Commands
  <1> HIDE DEF n
  <1>13. Shapes'
    BY <1>1, <1>2, <1>6, <1>11 DEF IInv, Shapes, n
  <1>14. GoodRuns'
    BY <1>6, <1>7, <1>8, <1>9, <1>10 DEF GoodRuns
  <1>15. Commands'
    <2>1. \A r \in 1 .. n + 1 : runs'[r].op \in host.sent /\ Creates(runs'[r].op)
      <3>1. \A r \in 1 .. n : runs[r].op \in host.sent /\ Creates(runs[r].op)
        BY DEF IInv, Commands, n
      <3> QED BY <1>7, <1>8, <1>9, <1>10, <1>12, <3>1
    <2>2. /\ host.sent \subseteq Op
          /\ \A o \in Op : ledger[o] # "none" => o \in host.sent
          /\ \A o, q \in host.sent : Creates(o) /\ Creates(q) => o = q
      BY DEF IInv, Commands
    <2> QED BY <1>1, <1>6, <2>1, <2>2 DEF Commands, Creates
  <1>16. Bindings'
    BY <1>1, <1>2, <1>6, <1>12 DEF IInv, Bindings, IsRunOf, n
  <1>17. BoundFirst'
    <2>1. \A r \in 1 .. n + 1 : runs'[r].decision = NoOp /\ runs'[r].latest["record"] = NoValue
      BY <1>7, <1>8, <1>9, <1>10 DEF Tools
    <2>2. NoValue.is # "evidence"
      BY DEF NoValue, Value
    <2> QED BY <1>1, <1>6, <1>11, <1>12, <2>1, <2>2 DEF IInv, BoundFirst
  <1>18. Working'
    BY <1>1, <1>2, <1>6, <1>7, <1>8, <1>11, <1>12 DEF Working, InTurn, IsRunOf
  <1>19. Climbing'
    <2>1. \A r \in 1 .. Len(runs)' - 1 : tier > 0 => 0 < runs'[r].tier /\ runs'[r].tier < tier
      BY <1>2, <1>6, <1>7, <1>9 DEF n
    <2> QED BY <1>6, <1>7, <1>8, <1>11, <2>1 DEF Climbing
  <1>20. Fresh'
    BY <1>11 DEF Fresh
  <1>21. TiersDiffer'
    BY <1>6, <1>7, <1>8, <1>9, <1>10 DEF IInv, TiersDiffer, n
  <1>22. ResultIsOwn'
    BY <1>1 DEF IInv, ResultIsOwn
  <1>23. Stays
    BY <1>12 DEF Stays, IInv, BoundFirst
  <1> QED BY <1>13, <1>14, <1>15, <1>16, <1>17, <1>18, <1>19, <1>20, <1>21, <1>22, <1>23 DEF IInv

(* All runs are of the creating command. *)
LEMMA OnlyItsRuns ==
    ASSUME IInv, job.pc # "idle", Creates(job.op)
    PROVE  RunsOf(job.op) = 1 .. Len(runs)
  BY DEF IInv, Shapes, Working, Commands, RunsOf

(* The first run of a start or of a binding. *)
LEMMA FirstRunKeeps ==
    ASSUME IInv, StartRuns \/ BindRuns
    PROVE  IInv' /\ Stays
  <1>1. job.pc = "begin" /\ Creates(job.op) /\ RunsOf(job.op) = {} /\ job.op \in Op
    BY DEF StartRuns, BindRuns, Creates, IInv, Working
  <1>2. 1 .. Len(runs) = {}
    BY <1>1, OnlyItsRuns
  <1>3. PICK tier \in Nat, stage \in {"capture", "bind"} : Creating(tier, stage)
    <2>1. Ladder[job.op] \in Nat
      BY <1>1, TaskRunAssumption
    <2> QED BY <2>1 DEF StartRuns, BindRuns
  <1> QED BY <1>1, <1>2, <1>3, CreatingKeeps

(* The run that failed and those before it. *)
LEMMA Failing ==
    ASSUME IInv, Climbs
    PROVE  /\ job.pc = "collect" /\ Creates(job.op) /\ job.op \in Op
           /\ Len(runs) \in Nat /\ job.run = Len(runs) /\ R.tier \in Nat /\ GoodRun(R)
           /\ \A r \in 1 .. Len(runs) : runs[r].tier \in Nat
           /\ R.tier > 0 => \A r \in 1 .. Len(runs) : 0 < runs[r].tier /\ runs[r].tier <= R.tier
  <1>1. job.pc = "collect" /\ Creates(job.op) /\ job.op \in Op
    BY DEF Climbs, Creates, IInv, Working
  <1>2. Len(runs) \in Nat /\ job.run = Len(runs) /\ IsRunOf(job.run)
    BY <1>1 DEF IInv, Shapes, Climbing, Working
  <1>3. R.tier \in Nat /\ \A r \in 1 .. Len(runs) : runs[r].tier \in Nat
    BY <1>2 DEF IInv, GoodRuns, GoodRun, IsRunOf, R
  <1>4. GoodRun(R)
    BY <1>2 DEF IInv, GoodRuns, IsRunOf, R
  <1>5. ASSUME R.tier > 0, NEW r \in 1 .. Len(runs)
        PROVE  0 < runs[r].tier /\ runs[r].tier <= R.tier
    <2>1. CASE r = Len(runs)
      BY <1>2, <1>3, <1>5, <2>1 DEF R
    <2>2. CASE r # Len(runs)
      <3>1. r \in 1 .. Len(runs) - 1
        BY <1>2, <2>2
      <3> QED BY <1>1, <1>2, <1>3, <1>5, <3>1 DEF IInv, Climbing, R
    <2> QED BY <2>1, <2>2
  <1> QED BY <1>1, <1>2, <1>3, <1>4, <1>5

(* The next model up the ladder. *)
LEMMA EscalatesKeeps ==
    ASSUME IInv, Escalates
    PROVE  IInv' /\ Stays
  <1>1. Climbs /\ R.tier \in 1 .. Ladder[job.op] - 1 /\ Creating(R.tier + 1, "capture")
    BY DEF Escalates
  <1>2. /\ job.pc = "collect" /\ Creates(job.op) /\ R.tier \in Nat /\ R.tier > 0
        /\ \A r \in 1 .. Len(runs) : runs[r].tier \in Nat /\ 0 < runs[r].tier /\ runs[r].tier <= R.tier
    BY <1>1, Failing, TaskRunAssumption
  <1>3. PICK tier \in Nat : tier = R.tier + 1
    BY <1>2
  <1>4. \A r \in 1 .. Len(runs) : runs[r].tier # tier /\ 0 < runs[r].tier /\ runs[r].tier < tier
    BY <1>2, <1>3
  <1>5. Creating(tier, "capture")
    BY <1>1, <1>3
  <1> QED BY <1>2, <1>4, <1>5, CreatingKeeps

(* The planner, after the last model. *)
LEMMA FallsBackKeeps ==
    ASSUME IInv, FallsBack
    PROVE  IInv' /\ Stays
  <1>1. Climbs /\ R.error = "protocol" /\ Creating(0, "capture")
    BY DEF FallsBack, ClimbsDown
  <1>2. R.tier > 0
    BY <1>1, Failing DEF GoodRun
  <1>3. /\ job.pc = "collect" /\ Creates(job.op)
        /\ \A r \in 1 .. Len(runs) : runs[r].tier # 0
    BY <1>1, <1>2, Failing
  <1>4. PICK tier \in Nat, stage \in {"capture", "bind"} : tier = 0 /\ Creating(tier, stage)
    BY <1>1
  <1> QED BY <1>3, <1>4, CreatingKeeps

-------------------------------------------------------------------------------
(* The other commands begin. *)

(* A step that leaves the runs alone keeps what is said of them. *)
LEMMA RunsStay ==
    ASSUME IInv, UNCHANGED runs
    PROVE  GoodRuns' /\ TiersDiffer' /\ Stays
  BY DEF IInv, GoodRuns, TiersDiffer, Stays

(* A creating command that is here again finds its newest run. *)
LEMMA NewestIs ==
    ASSUME IInv, NEW op, RunsOf(op) # {}
    PROVE  IsRunOf(Newest(op))
  <1>1. RunsOf(op) \subseteq 1 .. Len(runs) /\ Len(runs) \in Nat
    BY DEF IInv, Shapes, RunsOf
  <1>2. \E r \in RunsOf(op) : \A q \in RunsOf(op) : q <= r
    BY <1>1, Greatest
  <1>3. Newest(op) \in RunsOf(op)
    BY <1>2 DEF Newest
  <1> QED BY <1>1, <1>3 DEF IsRunOf

(* A start that finds its run has still to be answered for. *)
LEMMA StartFindsKeeps ==
    ASSUME IInv, StartFinds
    PROVE  IInv' /\ Stays
  <1>1. /\ job.pc = "begin" /\ Kind[job.op] = "start" /\ RunsOf(job.op) # {}
        /\ job' = [job EXCEPT !.pc = "found", !.run = Newest(job.op)]
        /\ UNCHANGED <<host, ledger, result, runs>>
    BY DEF StartFinds
  <1>2. IsRunOf(Newest(job.op)) /\ IsJob(job)
    BY <1>1, NewestIs DEF IInv, Shapes
  <1>3. IsJob(job)' /\ job'.pc = "found" /\ job'.op = job.op /\ IsRunOf(job'.run)
    BY <1>1, <1>2 DEF IsJob
  <1>4. GoodRuns' /\ TiersDiffer' /\ Stays
    BY <1>1, RunsStay
  <1>5. Shapes' /\ Commands' /\ Bindings' /\ ResultIsOwn'
    BY <1>1, <1>3 DEF IInv, Shapes, Commands, Bindings, IsRunOf, ResultIsOwn
  <1>6. BoundFirst' /\ Working' /\ Climbing' /\ Fresh'
    BY <1>1, <1>3 DEF IInv, BoundFirst, Working, Climbing, Fresh, InTurn, IsRunOf
  <1> QED BY <1>4, <1>5, <1>6 DEF IInv

(* A command ends with a result of its own. *)
LEMMA CompleteKeeps ==
    ASSUME IInv, job.pc # "idle", NEW r, NEW v, Complete(r, v),
           Creates(job.op) => IsRunOf(r),
           v.is = "question" => Creates(job.op) \/ host.bound # 0,
           Kind[job.op] = "import" => v.files = Files[job.op],
           Kind[job.op] = "analyze" => v.is = "requested" /\ v.by = job.op,
           Kind[job.op] = "approve" => v.of = job.op
    PROVE  IInv' /\ Stays
  <1>1. /\ ledger' = [ledger EXCEPT ![job.op] = "completed"]
        /\ result' = [result EXCEPT ![job.op] = [run |-> r, value |-> v]]
        /\ job' = Idle /\ UNCHANGED <<host, runs>>
    BY DEF Complete
  <1>2. job.op \in Op /\ ledger[job.op] = "executing"
    BY DEF IInv, Working
  <1>3. /\ ledger' = [o \in Op |-> IF o = job.op THEN "completed" ELSE ledger[o]]
        /\ result' = [o \in Op |-> IF o = job.op THEN [run |-> r, value |-> v] ELSE result[o]]
    BY <1>1, <1>2 DEF IInv, Shapes
  <1>4. /\ ledger'[job.op] = "completed" /\ result'[job.op].run = r /\ result'[job.op].value = v
        /\ \A o \in Op : o # job.op => ledger'[o] = ledger[o] /\ result'[o] = result[o]
    BY <1>2, <1>3
  <1>5. IsJob(job)' /\ job'.pc = "idle"
    BY <1>1 DEF IsJob, Idle
  <1>6. GoodRuns' /\ TiersDiffer' /\ Stays
    BY <1>1, RunsStay
  <1>7. Shapes'
    BY <1>1, <1>3, <1>5 DEF IInv, Shapes
  <1>8. Commands'
    BY <1>1, <1>2, <1>4 DEF IInv, Commands, Creates
  <1>9. Bindings'
    BY <1>1, <1>2, <1>4 DEF IInv, Bindings, IsRunOf, Creates, Commands
  <1>10. BoundFirst' /\ Working' /\ Climbing' /\ Fresh'
    BY <1>1, <1>5 DEF IInv, BoundFirst, Working, Climbing, Fresh, InTurn
  <1>11. ResultIsOwn'
    BY <1>4 DEF IInv, ResultIsOwn
  <1> QED BY <1>6, <1>7, <1>8, <1>9, <1>10, <1>11 DEF IInv

(* A command fails. *)
LEMMA FailKeeps ==
    ASSUME IInv, job.pc # "idle", Fail
    PROVE  IInv' /\ Stays
  <1>1. /\ ledger' = [ledger EXCEPT ![job.op] = "failed"]
        /\ job' = Idle /\ UNCHANGED <<host, result, runs>>
    BY DEF Fail
  <1>2. job.op \in Op /\ ledger[job.op] = "executing"
    BY DEF IInv, Working
  <1>3. ledger' = [o \in Op |-> IF o = job.op THEN "failed" ELSE ledger[o]]
    BY <1>1, <1>2 DEF IInv, Shapes
  <1>4. /\ ledger'[job.op] = "failed"
        /\ \A o \in Op : o # job.op => ledger'[o] = ledger[o]
    BY <1>2, <1>3
  <1>5. IsJob(job)' /\ job'.pc = "idle"
    BY <1>1 DEF IsJob, Idle
  <1>6. GoodRuns' /\ TiersDiffer' /\ Stays
    BY <1>1, RunsStay
  <1>7. Shapes' /\ Commands'
    BY <1>1, <1>2, <1>3, <1>4, <1>5 DEF IInv, Shapes, Commands, Creates
  <1>8. Bindings'
    BY <1>1, <1>2, <1>4 DEF IInv, Bindings, IsRunOf, Creates, Commands
  <1>9. BoundFirst' /\ Working' /\ Climbing' /\ Fresh'
    BY <1>1, <1>5 DEF IInv, BoundFirst, Working, Climbing, Fresh, InTurn
  <1>10. ResultIsOwn'
    BY <1>1, <1>4 DEF IInv, ResultIsOwn
  <1> QED BY <1>6, <1>7, <1>8, <1>9, <1>10 DEF IInv

(* A command that may come to a bound task only changes that task's run. *)
LEMMA BoundChanged ==
    ASSUME IInv, job.pc = "begin", Kind[job.op] \notin {"start", "bind", "pure"},
           UNCHANGED <<host, ledger, result>>,
           NEW x, runs' = [runs EXCEPT ![host.bound] = x],
           IsRunOf(host.bound) => /\ GoodRun(x) /\ x.op = Bound.op /\ x.tier = Bound.tier
                                  /\ x.status = Bound.status /\ x.latest = Bound.latest /\ x.steps = Bound.steps,
           IsJob(job)', job'.op = job.op, job'.run = host.bound, job'.pc \in {"resume", "collect"},
           job'.pc = "collect" => Kind[job.op] # "analyze"
    PROVE  IInv' /\ Stays
  <1>1. host.bound # 0 /\ IsRunOf(host.bound)
    BY DEF IInv, BoundFirst, Working, Commands, Bindings
  <1>2. /\ Len(runs)' = Len(runs)
        /\ runs' = [r \in 1 .. Len(runs)' |-> runs'[r]]
        /\ runs'[host.bound] = x /\ \A r \in 1 .. Len(runs) : r # host.bound => runs'[r] = runs[r]
    BY <1>1, OneChanged DEF IInv
  <1>3. \A r \in 1 .. Len(runs) :
            /\ runs'[r].op = runs[r].op /\ runs'[r].tier = runs[r].tier
            /\ runs'[r].status = runs[r].status /\ runs'[r].latest = runs[r].latest
            /\ runs'[r].steps = runs[r].steps
    BY <1>1, <1>2 DEF Bound
  <1>4. ~Creates(job.op)
    BY DEF Creates
  <1>5. Shapes'
    BY <1>2 DEF IInv, Shapes
  <1>6. GoodRuns'
    BY <1>1, <1>2 DEF IInv, GoodRuns
  <1>7. Commands' /\ Bindings'
    BY <1>2, <1>3 DEF IInv, Commands, Bindings, IsRunOf
  <1>8. BoundFirst'
    BY <1>1 DEF BoundFirst
  <1>9. Working'
    BY <1>1, <1>2, <1>4 DEF IInv, Working, InTurn, IsRunOf
  <1>10. Climbing' /\ Fresh'
    BY <1>4 DEF Climbing, Fresh, InTurn
  <1>11. TiersDiffer'
    BY <1>2, <1>3 DEF IInv, TiersDiffer
  <1>12. ResultIsOwn'
    BY DEF IInv, ResultIsOwn
  <1>13. Stays
    BY <1>3 DEF Stays
  <1> QED BY <1>5, <1>6, <1>7, <1>8, <1>9, <1>10, <1>11, <1>12, <1>13 DEF IInv

(* What a command leaves in the run before it resumes it. *)
LEMMA MergesKeeps ==
    ASSUME IInv, ImportMerges \/ AnalyzeMerges \/ ResumeMerges \/ ApproveMerges
    PROVE  IInv' /\ Stays
  <1>1. PICK stage, files, decision : Merges(stage, files, decision)
    BY DEF ImportMerges, AnalyzeMerges, ResumeMerges, ApproveMerges
  <1>2. job.pc = "begin" /\ Kind[job.op] \notin {"start", "bind", "pure"}
    BY DEF ImportMerges, AnalyzeMerges, ResumeMerges, ApproveMerges
  <1>3. /\ runs' = [runs EXCEPT ![host.bound].stage = stage, ![host.bound].files = files,
                                ![host.bound].decision = decision]
        /\ job' = [job EXCEPT !.pc = "resume", !.run = host.bound]
        /\ UNCHANGED <<host, ledger, result>>
    BY <1>1 DEF Merges
  <1>4. IsRunOf(host.bound) /\ IsJob(job)
    BY <1>2 DEF IInv, BoundFirst, Working, Commands, Bindings, Shapes
  <1>5. PICK x : x = [Bound EXCEPT !.stage = stage, !.files = files, !.decision = decision]
    OBVIOUS
  <1>6. runs' = [runs EXCEPT ![host.bound] = x]
    BY <1>3, <1>4, <1>5, RunsAreList DEF IsRunOf, Bound
  <1>7. GoodRun(Bound)
    BY <1>4 DEF IInv, GoodRuns, IsRunOf, Bound
  <1>8. IsRun(Bound)
    BY <1>7 DEF GoodRun
  <1>9. /\ IsRun(x) /\ x.op = Bound.op /\ x.tier = Bound.tier /\ x.status = Bound.status
        /\ x.latest = Bound.latest /\ x.steps = Bound.steps /\ x.call = Bound.call /\ x.error = Bound.error
    BY <1>5, <1>8 DEF IsRun
  <1>10. GoodRun(x)
    BY <1>7, <1>9 DEF GoodRun
  <1>11. IsJob(job)' /\ job'.op = job.op /\ job'.run = host.bound /\ job'.pc = "resume"
    BY <1>3, <1>4 DEF IsJob
  <1> QED BY <1>2, <1>3, <1>6, <1>9, <1>10, <1>11, BoundChanged

(* An answer is put before the run, or found to have been taken up already. *)
LEMMA AnswerMergesKeeps ==
    ASSUME IInv, AnswerMerges
    PROVE  IInv' /\ Stays
  <1>1. job.pc = "begin" /\ Kind[job.op] = "answer" /\ UNCHANGED <<host, ledger, result>>
        /\ runs' = [runs EXCEPT ![host.bound] = Answered]
    BY DEF AnswerMerges
  <1>2. PICK pc \in {"resume", "collect"} : job' = [job EXCEPT !.run = host.bound, !.pc = pc]
    BY DEF AnswerMerges
  <1>3. IsRunOf(host.bound) /\ IsJob(job)
    BY <1>1 DEF IInv, BoundFirst, Working, Commands, Bindings, Shapes
  <1>4. GoodRun(Bound)
    BY <1>3 DEF IInv, GoodRuns, IsRunOf, Bound
  <1>5. IsRun(Bound)
    BY <1>4 DEF GoodRun
  <1>6. PICK a, b, c : Answered = [Bound EXCEPT !.stage = "capture", !.files = a, !.seen = b, !.kept = c]
    <2>1. /\ Bound.files = Bound.files /\ Bound.seen = Bound.seen
          /\ Answered = [Bound EXCEPT !.stage = "capture",
                             !.files = IF Files[job.op] = {} THEN Bound.files ELSE Files[job.op],
                             !.seen = IF job.op \in Bound.said \ Bound.kept THEN {} ELSE Bound.seen,
                             !.kept = Bound.kept \cup ({job.op} \cap Bound.said)]
      BY <1>5 DEF Answered, IsRun
    <2> QED BY <2>1
  <1>7. PICK x : x = Answered
    OBVIOUS
  <1>8. /\ IsRun(x) /\ x.op = Bound.op /\ x.tier = Bound.tier /\ x.status = Bound.status
        /\ x.latest = Bound.latest /\ x.steps = Bound.steps /\ x.call = Bound.call /\ x.error = Bound.error
    BY <1>5, <1>6, <1>7 DEF IsRun
  <1>9. GoodRun(x)
    BY <1>4, <1>8 DEF GoodRun
  <1>10. IsJob(job)' /\ job'.op = job.op /\ job'.run = host.bound /\ job'.pc = pc
    BY <1>2, <1>3 DEF IsJob
  <1>11. runs' = [runs EXCEPT ![host.bound] = x]
    BY <1>1, <1>7
  <1> QED BY <1>1, <1>8, <1>9, <1>10, <1>11, BoundChanged

-------------------------------------------------------------------------------
(* The ends of a command. *)

(* Without a run, with the run that is there already, or with a failure. *)
LEMMA EndsAtOnce ==
    ASSUME IInv, BindFinds \/ BeginFails \/ Computes \/ EngineRefuses \/ Rejects
    PROVE  IInv' /\ Stays
  <1>1. NoValue.is # "question"
    BY DEF NoValue, Value
  <1>2. CASE BindFinds
    <2>1. /\ job.pc # "idle" /\ Kind[job.op] = "bind" /\ Complete(Newest(job.op), NoValue)
          /\ IsRunOf(Newest(job.op))
      BY <1>2, NewestIs DEF BindFinds
    <2> QED BY <1>1, <2>1, CompleteKeeps
  <1>3. CASE Computes
    <2>1. job.pc # "idle" /\ Kind[job.op] = "pure" /\ Complete(0, NoValue)
      BY <1>3 DEF Computes
    <2> QED BY <1>1, <2>1, CompleteKeeps DEF Creates
  <1>4. CASE BeginFails \/ EngineRefuses \/ Rejects
    <2>1. job.pc # "idle" /\ Fail
      BY <1>4 DEF BeginFails, EngineRefuses, Rejects
    <2> QED BY <2>1, FailKeeps
  <1> QED BY <1>2, <1>3, <1>4

(* With what the run's tools gave: the evidence is the command's own. *)
LEMMA CollectsKeeps ==
    ASSUME IInv, Collects
    PROVE  IInv' /\ Stays
  <1>1. PICK v \in Accepted : Complete(job.run, v)
    BY DEF Collects
  <1>2. /\ job.pc \in {"collect", "found"} /\ job.op \in Op /\ IsRunOf(job.run)
        /\ job.op \in host.sent
    BY DEF Collects, IInv, Working, Commands
  <1>3. v \in NewestOfTool /\ R.status = Wanted
        /\ (Kind[job.op] = "import" => v.files = Files[job.op])
        /\ (Kind[job.op] = "approve" => v.of = job.op)
    BY <1>1 DEF Accepted, Evidence
  <1>4. Kind[job.op] = "analyze" => v.is = "requested" /\ v.by = job.op
    <2> SUFFICES ASSUME Kind[job.op] = "analyze" PROVE v.is = "requested" /\ v.by = job.op
      OBVIOUS
    <2>1. job.pc = "collect"
      BY <1>2 DEF IInv, Working
    <2>2. v = R.latest["comparison"] /\ R.status = "waiting_approval"
      BY <1>3 DEF NewestOfTool, Wanted
    <2> QED BY <2>1, <2>2 DEF IInv, Fresh, R
  <1>5. v.is = "question" => Creates(job.op) \/ host.bound # 0
    <2>1. CASE Kind[job.op] = "pure"
      <3>1. v = NoValue
        BY <1>3, <2>1 DEF NewestOfTool
      <3> QED BY <3>1 DEF NoValue, Value
    <2>2. CASE Kind[job.op] # "pure"
      BY <1>2, <2>2 DEF IInv, BoundFirst, Creates
    <2> QED BY <2>1, <2>2
  <1> QED BY <1>1, <1>2, <1>3, <1>4, <1>5, CompleteKeeps

-------------------------------------------------------------------------------
(* The host and the ledger. *)

(* A command is sent: no second one that creates, and only to a bound task what needs its run. *)
LEMMA SendKeeps ==
    ASSUME IInv, NEW op \in Op, Send(op)
    PROVE  IInv' /\ Stays
  <1>1. /\ MaySend(op) /\ op \notin host.sent
        /\ host' = [host EXCEPT !.sent = @ \cup {op},
                                !.asked = @ /\ Kind[op] # "answer",
                                !.decision[op] = IF Kind[op] = "approve" THEN "pending" ELSE @]
        /\ UNCHANGED <<ledger, result, runs, job>>
    BY DEF Send
  <1>2. IsHost(host)' /\ host'.sent = host.sent \cup {op} /\ host'.bound = host.bound
        /\ host'.compared = host.compared
    BY <1>1 DEF IInv, Shapes, IsHost
  <1>3. host'.asked => host.asked
    <2>1. host'.asked = (host.asked /\ Kind[op] # "answer")
      BY <1>1 DEF IInv, Shapes, IsHost
    <2> QED BY <2>1, Zenon
  <1>4. Kind[op] \in Kinds
    BY TaskRunAssumption
  <1>5. Creates(op) => \A o \in host.sent : ~Creates(o)
    BY <1>1 DEF MaySend, Creates
  <1>6. host.bound = 0 => Kind[op] \in {"start", "bind", "pure"}
    <2> SUFFICES ASSUME host.bound = 0, Kind[op] \notin {"start", "bind", "pure"} PROVE FALSE
      OBVIOUS
    <2>1. ~host.asked /\ ~host.compared
      BY DEF IInv, BoundFirst
    <2>2. Kind[op] \in {"answer", "import", "analyze", "approve", "resume"} /\ ~Creates(op)
      BY <1>4 DEF Kinds, Creates
    <2>3. CASE Kind[op] = "answer"
      BY <1>1, <2>1, <2>2, <2>3 DEF MaySend
    <2>4. CASE Kind[op] = "approve"
      BY <1>1, <2>1, <2>2, <2>4 DEF MaySend
    <2>5. CASE Kind[op] = "analyze"
      BY <1>1, <2>2, <2>5 DEF MaySend
    <2>6. CASE Kind[op] \in {"import", "resume"}
      BY <1>1, <2>2, <2>6 DEF MaySend
    <2> QED BY <2>2, <2>3, <2>4, <2>5, <2>6
  <1>7. GoodRuns' /\ TiersDiffer' /\ Stays
    BY <1>1, RunsStay
  <1>8. Shapes' /\ ResultIsOwn'
    BY <1>1, <1>2 DEF IInv, Shapes, ResultIsOwn
  <1>9. Commands'
    BY <1>1, <1>2, <1>5 DEF IInv, Commands, Creates
  <1>10. Bindings'
    BY <1>1, <1>2, <1>5 DEF IInv, Bindings, IsRunOf, Creates
  <1>11. BoundFirst'
    BY <1>1, <1>2, <1>3, <1>6 DEF IInv, BoundFirst
  <1>12. Working' /\ Climbing' /\ Fresh'
    BY <1>1 DEF IInv, Working, Climbing, Fresh, InTurn, IsRunOf, Creates
  <1> QED BY <1>7, <1>8, <1>9, <1>10, <1>11, <1>12 DEF IInv

(* The buyer changes the inputs of a bound task. *)
LEMMA HostChangesKeeps ==
    ASSUME IInv, HostChanges
    PROVE  IInv' /\ Stays
  <1>1. /\ host.bound # 0 /\ UNCHANGED <<ledger, result, runs, job>>
        /\ host' = [host EXCEPT !.ready = ~@, !.compared = FALSE,
                                !.decision = [o \in Op |-> IF @[o] = "pending" THEN "stale" ELSE @[o]]]
    BY DEF HostChanges
  <1>2. IsHost(host)' /\ host'.sent = host.sent /\ host'.bound = host.bound
    BY <1>1 DEF IInv, Shapes, IsHost
  <1>3. GoodRuns' /\ TiersDiffer' /\ Stays
    BY <1>1, RunsStay
  <1>4. Shapes' /\ ResultIsOwn' /\ Commands' /\ Bindings'
    <2>1. Shapes' /\ ResultIsOwn'
      BY <1>1, <1>2 DEF IInv, Shapes, ResultIsOwn
    <2>2. Commands'
      BY <1>1, <1>2 DEF IInv, Commands, Creates
    <2>3. Bindings'
      BY <1>1, <1>2 DEF IInv, Bindings, IsRunOf, Creates
    <2> QED BY <2>1, <2>2, <2>3
  <1>5. BoundFirst'
    BY <1>1, <1>2 DEF BoundFirst
  <1>6. Working' /\ Climbing' /\ Fresh'
    BY <1>1 DEF IInv, Working, Climbing, Fresh, InTurn, IsRunOf, Creates
  <1> QED BY <1>3, <1>4, <1>5, <1>6 DEF IInv

(* A result is applied: that of the creating command binds the task. *)
LEMMA HostAppliesKeeps ==
    ASSUME IInv, NEW op \in Op, HostApplies(op)
    PROVE  IInv' /\ Stays
  <1>1. /\ ledger[op] = "completed" /\ UNCHANGED <<ledger, result, runs, job>>
        /\ host' = [host EXCEPT !.applied = @ \cup {op},
                                !.bound = IF Creates(op) THEN result[op].run ELSE @,
                                !.asked = @ \/ result[op].value.is = "question",
                                !.compared = @ \/ (Kind[op] = "analyze" /\ host.ready)]
    BY DEF HostApplies
  <1>2. /\ IsHost(host)' /\ host'.sent = host.sent
        /\ host'.bound = (IF Creates(op) THEN result[op].run ELSE host.bound)
        /\ host'.asked = (host.asked \/ result[op].value.is = "question")
        /\ host'.compared = (host.compared \/ (Kind[op] = "analyze" /\ host.ready))
    BY <1>1 DEF IInv, Shapes, IsHost
  <1>3. op \in host.sent /\ (Creates(op) => IsRunOf(result[op].run) /\ result[op].run # 0)
    BY <1>1 DEF IInv, Commands, Bindings, IsRunOf
  <1>4. GoodRuns' /\ TiersDiffer' /\ Stays
    BY <1>1, RunsStay
  <1>5. Shapes' /\ ResultIsOwn' /\ Commands'
    BY <1>1, <1>2 DEF IInv, Shapes, ResultIsOwn, Commands, Creates
  <1>6. Bindings'
    <2>1. CASE Creates(op)
      <3>1. \A o \in host.sent : Creates(o) => o = op
        BY <1>3, <2>1 DEF IInv, Commands
      <3>2. host'.bound # 0 /\ IsRunOf(host'.bound)
        BY <1>2, <1>3, <2>1
      <3> QED BY <1>1, <1>2, <1>3, <2>1, <3>1, <3>2 DEF IInv, Bindings, IsRunOf, Creates
    <2>2. CASE ~Creates(op)
      <3>1. host'.bound = host.bound
        BY <1>2, <2>2
      <3> QED BY <1>1, <1>2, <3>1 DEF IInv, Bindings, IsRunOf, Creates
    <2> QED BY <2>1, <2>2
  <1>7. BoundFirst'
    <2> SUFFICES ASSUME host'.bound = 0 PROVE BoundFirst'
      BY DEF BoundFirst
    <2>1. ~Creates(op) /\ host.bound = 0
      BY <1>2, <1>3
    <2>2. result[op].value.is # "question"
      BY <1>1, <2>1 DEF IInv, Bindings
    <2>3. Kind[op] # "analyze"
      BY <1>3, <2>1 DEF IInv, BoundFirst
    <2>4. ~host.asked /\ ~host.compared
      BY <2>1 DEF IInv, BoundFirst
    <2>5. ~host'.asked /\ ~host'.compared
      BY <1>2, <2>2, <2>3, <2>4, Zenon
    <2> QED BY <1>1, <1>2, <2>1, <2>5 DEF IInv, BoundFirst
  <1>8. Working' /\ Climbing' /\ Fresh'
    BY <1>1 DEF IInv, Working, Climbing, Fresh, InTurn, IsRunOf, Creates
  <1> QED BY <1>4, <1>5, <1>6, <1>7, <1>8 DEF IInv

(* A command is claimed: one that has its result is not. *)
LEMMA ClaimKeeps ==
    ASSUME IInv, NEW op \in Op, Claim(op)
    PROVE  IInv' /\ Stays
  <1>1. /\ ledger[op] \in {"none", "accepted"} /\ op \in host.sent
        /\ ledger' = [ledger EXCEPT ![op] = "executing"]
        /\ job' = [Idle EXCEPT !.pc = "begin", !.op = op]
        /\ UNCHANGED <<host, result, runs>>
    BY DEF Claim
  <1>2. ledger' = [o \in Op |-> IF o = op THEN "executing" ELSE ledger[o]]
    BY <1>1 DEF IInv, Shapes
  <1>3. /\ ledger'[op] = "executing"
        /\ \A o \in Op : o # op => ledger'[o] = ledger[o]
    BY <1>2
  <1>4. IsJob(job)' /\ job'.pc = "begin" /\ job'.op = op
    BY <1>1 DEF IsJob, Idle
  <1>5. GoodRuns' /\ TiersDiffer' /\ Stays
    BY <1>1, RunsStay
  <1>6. Shapes' /\ Commands'
    BY <1>1, <1>2, <1>3, <1>4 DEF IInv, Shapes, Commands, Creates
  <1>7. Bindings'
    <2>1. Creates(op) => host.bound = 0
      BY <1>1 DEF IInv, Bindings
    <2> QED BY <1>1, <1>3, <2>1 DEF IInv, Bindings, IsRunOf, Creates, Commands
  <1>8. BoundFirst' /\ Working' /\ Climbing' /\ Fresh'
    BY <1>1, <1>3, <1>4 DEF IInv, BoundFirst, Working, Climbing, Fresh, InTurn
  <1>9. ResultIsOwn'
    BY <1>1, <1>3 DEF IInv, ResultIsOwn
  <1> QED BY <1>5, <1>6, <1>7, <1>8, <1>9 DEF IInv

(* A failed answer is accepted again. *)
LEMMA ReopenKeeps ==
    ASSUME IInv, NEW op \in Op, Reopen(op)
    PROVE  IInv' /\ Stays
  <1>1. /\ ledger[op] = "failed"
        /\ ledger' = [ledger EXCEPT ![op] = "accepted"]
        /\ UNCHANGED <<host, result, runs, job>>
    BY DEF Reopen
  <1>2. ledger' = [o \in Op |-> IF o = op THEN "accepted" ELSE ledger[o]]
    BY <1>1 DEF IInv, Shapes
  <1>3. /\ ledger'[op] = "accepted"
        /\ \A o \in Op : o # op => ledger'[o] = ledger[o]
    BY <1>2
  <1>4. GoodRuns' /\ TiersDiffer' /\ Stays
    BY <1>1, RunsStay
  <1>5. Shapes' /\ Commands'
    BY <1>1, <1>2, <1>3 DEF IInv, Shapes, Commands, Creates
  <1>6. Bindings'
    BY <1>1, <1>3 DEF IInv, Bindings, IsRunOf, Creates, Commands
  <1>7. BoundFirst' /\ Climbing' /\ Fresh'
    BY <1>1 DEF IInv, BoundFirst, Climbing, Fresh, InTurn, IsRunOf, Creates
  <1>8. Working'
    BY <1>1, <1>3 DEF IInv, Working, InTurn, IsRunOf, Creates
  <1>9. ResultIsOwn'
    BY <1>1, <1>3 DEF IInv, ResultIsOwn
  <1> QED BY <1>4, <1>5, <1>6, <1>7, <1>8, <1>9 DEF IInv

(* The process dies: claims are given back, running runs are interrupted or stay behind. *)
LEMMA CrashKeeps ==
    ASSUME IInv, Crash
    PROVE  IInv' /\ Stays
  <1>1. /\ ledger' = [op \in Op |-> Recovered(ledger[op])] /\ job' = Idle
        /\ UNCHANGED <<host, result>>
    BY DEF Crash
  <1>2. PICK left : runs' = [r \in DOMAIN runs |-> IF runs[r].status # "running" THEN runs[r]
                                                  ELSE [runs[r] EXCEPT !.status = left]]
    BY DEF Crash
  <1>3. DOMAIN runs = 1 .. Len(runs) /\ Len(runs) \in Nat
    BY DEF IInv, Shapes
  <1>4. runs' = [r \in 1 .. Len(runs) |-> runs'[r]] /\ Len(runs)' = Len(runs)
    <2>1. runs' = [r \in 1 .. Len(runs) |-> runs'[r]]
      BY <1>2, <1>3
    <2> QED BY <1>3, <2>1, LenIs
  <1>5. ASSUME NEW r \in 1 .. Len(runs)
        PROVE  /\ GoodRun(runs'[r])
               /\ runs'[r].op = runs[r].op /\ runs'[r].tier = runs[r].tier
               /\ runs'[r].decision = runs[r].decision /\ runs'[r].latest = runs[r].latest
               /\ runs'[r].steps = runs[r].steps
               /\ runs[r].status = "completed" => runs'[r].status = "completed"
    <2>1. GoodRun(runs[r])
      BY DEF IInv, GoodRuns
    <2>2. CASE runs[r].status # "running"
      <3>1. runs'[r] = runs[r]
        BY <1>2, <1>3, <2>2
      <3> QED BY <2>1, <3>1
    <2>3. CASE runs[r].status = "running"
      <3>1. PICK y : y = runs[r]
        OBVIOUS
      <3>2. runs'[r] = [y EXCEPT !.status = left]
        BY <1>2, <1>3, <2>3, <3>1
      <3>3. PICK x : x = [y EXCEPT !.status = left]
        OBVIOUS
      <3>4. IsRun(y)
        BY <2>1, <3>1 DEF GoodRun
      <3>5. /\ IsRun(x) /\ x.op = y.op /\ x.tier = y.tier /\ x.decision = y.decision
            /\ x.latest = y.latest /\ x.steps = y.steps /\ x.call = y.call /\ x.error = y.error
        BY <3>3, <3>4 DEF IsRun
      <3>6. GoodRun(x)
        BY <2>1, <3>1, <3>5 DEF GoodRun
      <3>7. runs'[r] = x
        BY <3>2, <3>3
      <3> QED BY <2>3, <3>1, <3>5, <3>6, <3>7
    <2> QED BY <2>2, <2>3
  <1>6. IsJob(job)' /\ job'.pc = "idle"
    BY <1>1 DEF IsJob, Idle
  <1>7. \A o \in Op : /\ ledger'[o] = "completed" <=> ledger[o] = "completed"
                      /\ ledger'[o] = "none" <=> ledger[o] = "none"
    BY <1>1 DEF Recovered
  <1>8. Shapes'
    BY <1>1, <1>3, <1>4, <1>6 DEF IInv, Shapes
  <1>9. GoodRuns' /\ TiersDiffer'
    BY <1>4, <1>5 DEF IInv, GoodRuns, TiersDiffer
  <1>10. Commands'
    BY <1>1, <1>4, <1>5, <1>7 DEF IInv, Commands, Creates
  <1>11. Bindings'
    BY <1>1, <1>4, <1>7 DEF IInv, Bindings, Commands, IsRunOf, Creates
  <1>12. BoundFirst'
    BY <1>1, <1>4, <1>5, <1>6 DEF IInv, BoundFirst
  <1>13. Working' /\ Climbing' /\ Fresh'
    BY <1>6 DEF Working, Climbing, Fresh, InTurn
  <1>14. ResultIsOwn'
    BY <1>1, <1>7 DEF IInv, ResultIsOwn
  <1>15. Stays
    BY <1>5 DEF Stays
  <1> QED BY <1>8, <1>9, <1>10, <1>11, <1>12, <1>13, <1>14, <1>15 DEF IInv

-------------------------------------------------------------------------------
(* The theorems. *)

(* Every step keeps the invariant and the run of the decision. *)
LEMMA NextIInv ==
    ASSUME IInv, [Next]_vars
    PROVE  IInv' /\ Stays
  <1>1. CASE \E op \in Op : Send(op) \/ HostApplies(op) \/ Claim(op) \/ Reopen(op)
    BY <1>1, SendKeeps, HostAppliesKeeps, ClaimKeeps, ReopenKeeps
  <1>2. CASE HostChanges
    BY <1>2, HostChangesKeeps
  <1>3. CASE Begins
    BY <1>3, FirstRunKeeps, StartFindsKeeps, MergesKeeps, AnswerMergesKeeps, EndsAtOnce DEF Begins
  <1>4. CASE Works
    <2>1. CASE LimitReached
      BY <2>1, RunEndsKeeps DEF LimitReached
    <2>2. CASE ModelAnswers
      BY <2>2, RunEndsKeeps DEF ModelAnswers
    <2>3. CASE ModelFails
      BY <2>3, RunEndsKeeps DEF ModelFails
    <2> QED BY <1>4, <2>1, <2>2, <2>3, EngineResumesKeeps, EndsAtOnce, TurnCallsKeeps, ToolActsKeeps,
               ToolSavedKeeps, BatchGoesOnKeeps, BatchPausesKeeps, EscalatesKeeps, FallsBackKeeps,
               CollectsKeeps DEF Works
  <1>5. CASE Crash
    BY <1>5, CrashKeeps
  <1>6. CASE UNCHANGED vars
    <2>1. UNCHANGED <<host, ledger, result, runs, job>>
      BY <1>6 DEF vars
    <2>2. GoodRuns' /\ TiersDiffer' /\ Stays
      BY <2>1, RunsStay
    <2> QED BY <2>1, <2>2 DEF IInv, Shapes, Commands, Bindings, BoundFirst, Working, Climbing, Fresh,
                              ResultIsOwn, InTurn, IsRunOf, Creates
  <1> QED BY <1>1, <1>2, <1>3, <1>4, <1>5, <1>6 DEF Next

(* A completed import, analysis or decision reports its own files, its own comparison or its own
   decision, whatever the other commands of the task left in the run (_import_quote, _analyze,
   _approve). *)
THEOREM ResultsAreOwn == Spec => []ResultIsOwn
  <1>1. IInv /\ [Next]_vars => IInv'
    BY NextIInv
  <1>2. IInv => ResultIsOwn
    BY DEF IInv
  <1> QED BY InitIInv, <1>1, <1>2, PTL DEF Spec

(* However often the creating command comes, there is one run for each model and for the planner
   (_run_for_operation and the ladder of _start_conversation). *)
THEOREM TiersRunOnce == Spec => []OneRunPerTier
  <1>1. IInv /\ [Next]_vars => IInv'
    BY NextIInv
  <1>2. IInv => OneRunPerTier
    BY DEF IInv, Shapes, TiersDiffer, OneRunPerTier
  <1> QED BY InitIInv, <1>1, <1>2, PTL DEF Spec

(* No later command, death or repeated answer changes the outcome, the evidence or the steps of the
   run that recorded the formal decision (record_decision_evidence, RunEngine.resume). *)
THEOREM DecidedRunIsKept == Spec => DecidedRunStays
  <1>1. IInv /\ [Next]_vars => IInv'
    BY NextIInv
  <1>2. IInv /\ [Next]_vars =>
            [\A r \in DOMAIN runs :
                (runs[r].status = "completed" /\ runs[r].latest["record"].is = "evidence") =>
                    /\ runs'[r].status = "completed"
                    /\ runs'[r].latest = runs[r].latest /\ runs'[r].steps = runs[r].steps]_vars
    BY NextIInv DEF Stays, IInv, Shapes
  <1> QED BY InitIInv, <1>1, <1>2, PTL DEF Spec, DecidedRunStays
==================================================================================
