---------------------------- MODULE DurableRunProofs ----------------------------
(***************************************************************************)
(* The tool calls of a durable run, for any number of calls, turns,        *)
(* processes, stops and leases that are lost: a call that may not be       *)
(* repeated is not, one that needs a person's leave has it each time, and  *)
(* a result is final.                                                      *)
(*                                                                         *)
(* None of the three is inductive.  What makes them so is what the row of  *)
(* a call says while memory holds it: a call that may run is received, the *)
(* one a person is asked about waits, one whose tool runs was started, and *)
(* no call is in two of these places.                                      *)
(***************************************************************************)
EXTENDS DurableRun, TLAPS

core == <<inv, attempts, policy, grants, retries>>

Typed ==
    /\ inv \in [Calls -> InvocationStatus] /\ policy \in [Calls -> Policy]
    /\ attempts \in [Calls -> Nat] /\ grants \in [Calls -> Nat] /\ retries \in [Calls -> Nat]

(* Where memory is empty. *)
Phases ==
    /\ pc \notin {"gate", "approval", "ending", "ended"} => ungated = {}
    /\ pc \notin {"gate", "approval", "exec", "ending", "ended"} => allowed = {}
    /\ pc # "exec" => running = {}
    /\ pc \notin {"approval", "ending", "ended"} => asking = NoCall

(* What the row of a call says while memory holds it. *)
Stands(c) ==
    /\ c \in allowed => inv[c] = "received"
    /\ c = asking => inv[c] = "waiting_approval"
    /\ c \in running => inv[c] \in {"running", "indeterminate"}
    /\ c \in ungated => c \notin allowed /\ c # asking

(* A call that may run has a leave that no attempt has used. *)
HasLeave(c) ==
    policy[c] # "safe" => /\ attempts[c] <= grants[c]
                          /\ c \in allowed => attempts[c] < grants[c]

(* A call that has yet to run has used up no decision to retry it. *)
Unrepeated(c) ==
    policy[c] = "never" =>
        /\ inv[c] # "cancelled" /\ attempts[c] <= 1 + retries[c]
        /\ inv[c] \in {"none", "received", "waiting_approval"} => attempts[c] <= retries[c]

IInv ==
    /\ Typed /\ Phases
    /\ \A c \in Calls : Stands(c) /\ Unrepeated(c)
    /\ \A c \in Gated : HasLeave(c)

(* What a step keeps of a call with a result. *)
Final == \A c \in Calls : inv[c] \in HasResult => inv'[c] = inv[c] /\ attempts'[c] = attempts[c]

(* A new run has called nothing. *)
LEMMA InitIInv == Init => IInv
  <1> SUFFICES ASSUME Init PROVE IInv
    OBVIOUS
  <1>1. Typed
    BY DEF Init, Typed, InvocationStatus
  <1>2. Phases
    BY DEF Init, Phases
  <1>3. \A c \in Calls : Stands(c) /\ Unrepeated(c)
    BY DurableRunAssumption DEF Init, Stands, Unrepeated
  <1>4. \A c \in Gated : HasLeave(c)
    BY DurableRunAssumption DEF Init, HasLeave
  <1> QED BY <1>1, <1>2, <1>3, <1>4 DEF IInv

(* A step that touches no row and lets memory forget. *)
LEMMA ForgetKeeps ==
    ASSUME IInv, UNCHANGED core, Phases',
           ungated' \subseteq ungated, allowed' \subseteq allowed, running' \subseteq running,
           asking' \in {asking, NoCall}
    PROVE  IInv' /\ Final
  <1>1. UNCHANGED <<inv, attempts, policy, grants, retries>>
    BY DEF core
  <1>2. Typed'
    BY <1>1 DEF IInv, Typed
  <1>3. \A c \in Calls : Stands(c)' /\ Unrepeated(c)'
    BY <1>1, DurableRunAssumption DEF IInv, Stands, Unrepeated
  <1>4. \A c \in Gated : HasLeave(c)'
    BY <1>1 DEF IInv, HasLeave
  <1> QED BY <1>1, <1>2, <1>3, <1>4 DEF IInv, Final

(* Steps that begin, end or wait for work: none of them touches a row. *)
LEMMA QuietKeeps ==
    ASSUME IInv,
           \/ Begin \/ LoopTop \/ ModelCalls \/ ModelBreaksOff \/ ModelAnswers \/ LoopRaises
           \/ StoppedWhileAsking \/ GateEnds \/ EndBatch \/ EndStatus \/ Release
           \/ CreateRun \/ Resume \/ StopRequested \/ StopPreserves \/ CancelIdle
           \/ Aborted \/ WallTimeout \/ Crash \/ LeaseExpires \/ HeartbeatGivesUp
           \/ UNCHANGED vars
    PROVE  IInv' /\ Final
  <1>1. CASE Begin \/ CreateRun \/ Resume \/ EndStatus \/ ModelCalls \/ ModelBreaksOff \/ ModelAnswers
              \/ LoopRaises
    <2>1. UNCHANGED <<inv, attempts, policy, grants, retries, ungated, allowed, running, asking>>
      BY <1>1 DEF Begin, CreateRun, Resume, EndStatus, ModelCalls, ModelBreaksOff, ModelAnswers, LoopRaises,
                  tools, process, history, gate, execution
    <2>2. Phases'
      BY <1>1, <2>1 DEF IInv, Phases, Begin, CreateRun, Resume, EndStatus, ModelCalls, ModelBreaksOff,
                        ModelAnswers, LoopRaises
    <2> QED BY <2>1, <2>2, ForgetKeeps DEF core
  <1>2. CASE StopRequested \/ StopPreserves \/ CancelIdle \/ LeaseExpires \/ HeartbeatGivesUp
              \/ UNCHANGED vars
    <2>1. UNCHANGED <<inv, attempts, policy, grants, retries, ungated, allowed, running, asking, pc>>
      BY <1>2 DEF StopRequested, StopPreserves, CancelIdle, LeaseExpires, HeartbeatGivesUp, vars,
                  tools, process, history, gate, execution
    <2>2. Phases'
      BY <2>1 DEF IInv, Phases
    <2> QED BY <2>1, <2>2, ForgetKeeps DEF core
  <1>3. CASE Crash \/ Release
    <2>1. UNCHANGED <<inv, attempts, policy, grants, retries>> /\ Forgotten
      BY <1>3 DEF Crash, Release, tools, process, history
    <2>2. Phases'
      BY <2>1 DEF Forgotten, Phases
    <2> QED BY <2>1, <2>2, ForgetKeeps DEF core, Forgotten
  <1>4. CASE LoopTop \/ WallTimeout \/ StoppedWhileAsking
    <2>1. UNCHANGED <<inv, attempts, policy, grants, retries>>
      BY <1>4 DEF LoopTop, WallTimeout, StoppedWhileAsking, tools, process, history
    <2>2. \/ /\ pc' = "ending" /\ ungated' = {} /\ allowed' = {} /\ running' = {} /\ asking' = NoCall
          \/ /\ pc = "top" /\ pc' = "stream" /\ UNCHANGED <<ungated, allowed, running, asking>>
          \/ /\ pc = "approval" /\ pc' = "top" /\ ungated' = {} /\ allowed' = {} /\ asking' = NoCall
             /\ UNCHANGED running
      BY <1>4 DEF LoopTop, WallTimeout, StoppedWhileAsking, Finish, gate, execution
    <2>3. Phases'
      BY <2>2 DEF IInv, Phases
    <2> QED BY <2>1, <2>2, <2>3, ForgetKeeps DEF core
  <1>5. CASE GateEnds \/ Aborted \/ EndBatch
    <2>1. /\ UNCHANGED <<inv, attempts, policy, grants, retries, ungated, allowed, asking>>
          /\ running' \subseteq running
      BY <1>5 DEF GateEnds, Aborted, EndBatch, tools, process, history, gate, execution
    <2>2. \/ pc = "gate" /\ ungated = {} /\ pc' = "exec"
          \/ pc' = "ending" /\ running' = {}
          \/ pc = "exec" /\ allowed = {} /\ running' = {} /\ pc' = "top"
      BY <1>5 DEF GateEnds, Aborted, EndBatch, NextTurn, Pause, Conclude, GiveUp
    <2>3. Phases'
      BY <2>1, <2>2 DEF IInv, Phases
    <2> QED BY <2>1, <2>3, ForgetKeeps DEF core
  <1> QED BY <1>1, <1>2, <1>3, <1>4, <1>5

(* The recovery of a lease ends attempts, and gives no call a result. *)
LEMMA RecoveryKeeps ==
    ASSUME IInv, Boot \/ Sweep
    PROVE  IInv' /\ Final
  <1>1. UNCHANGED <<attempts, policy, grants, retries, ungated, allowed, running, asking, pc>>
    BY DEF Boot, Sweep, process, history, gate, execution
  <1>2. inv' = inv \/ inv' = [c \in Calls |-> InvAfterLoss(c)]
    BY DEF Boot, Sweep, RecoverExpired
  <1>3. inv' \in [Calls -> InvocationStatus]
        /\ \A c \in Calls : inv'[c] = inv[c] \/ (inv[c] = "running" /\ inv'[c] = "indeterminate")
    BY <1>2 DEF IInv, Typed, InvAfterLoss, InvocationStatus
  <1>4. Typed' /\ Phases'
    BY <1>1, <1>3 DEF IInv, Typed, Phases
  <1>5. \A c \in Calls : Stands(c)' /\ Unrepeated(c)'
    BY <1>1, <1>3 DEF IInv, Stands, Unrepeated
  <1>6. \A c \in Gated : HasLeave(c)'
    BY <1>1 DEF IInv, HasLeave
  <1>7. Final
    BY <1>1, <1>3 DEF Final, HasResult
  <1> QED BY <1>4, <1>5, <1>6, <1>7 DEF IInv

(* A batch begins with memory empty. *)
LEMMA BatchStartKeeps ==
    ASSUME IInv, BatchStart
    PROVE  IInv' /\ Final
  <1>1. /\ UNCHANGED <<inv, attempts, policy, grants, retries, allowed, running, asking>>
        /\ pc = "called" /\ pc' = "gate"
    BY DEF BatchStart, tools, process, history, execution
  <1>2. allowed = {} /\ running = {} /\ asking = NoCall
    BY <1>1 DEF IInv, Phases
  <1>3. Typed' /\ Phases'
    BY <1>1, <1>2 DEF IInv, Typed, Phases
  <1>4. \A c \in Calls : Stands(c)' /\ Unrepeated(c)'
    BY <1>1, <1>2, DurableRunAssumption DEF IInv, Stands, Unrepeated
  <1>5. \A c \in Gated : HasLeave(c)'
    BY <1>1 DEF IInv, HasLeave
  <1> QED BY <1>1, <1>3, <1>4, <1>5 DEF IInv, Final

(* A call is let through, asked about or settled without being started; only one without a
   result, that no attempt may have acted for, is let through or asked about. *)
LEMMA GateKeeps ==
    ASSUME IInv, Gate
    PROVE  IInv' /\ Final
  <1>1. PICK c \in ungated : /\ ungated' = ungated \ {c}
                             /\ Reuse(c) \/ LeaveUncertain(c) \/ Refuse(c) \/ Pass(c) \/ Ask(c)
    BY DEF Gate
  <1>2. UNCHANGED <<attempts, policy, grants, retries, running>> /\ pc = "gate"
    BY DEF Gate, process, history, execution
  <1>3. asking = NoCall /\ running = {}
    BY <1>2 DEF IInv, Phases
  <1>4. \/ /\ inv' = inv /\ UNCHANGED <<allowed, asking, pc>>
        \/ /\ inv' = [inv EXCEPT ![c] = "indeterminate"] /\ UNCHANGED <<allowed, asking, pc>>
           /\ ~Settled(c)
        \/ /\ inv' = [inv EXCEPT ![c] = "failed"] /\ UNCHANGED <<allowed, asking, pc>>
           /\ ~Settled(c)
        \/ /\ inv' = [inv EXCEPT ![c] = "received"] /\ allowed' = allowed \cup {c}
           /\ UNCHANGED <<asking, pc>> /\ c \notin Gated
           /\ ~Settled(c) /\ ~MayHaveActed(c)
        \/ /\ inv' = [inv EXCEPT ![c] = "waiting_approval"] /\ UNCHANGED allowed
           /\ asking' = c /\ pc' = "approval"
           /\ ~Settled(c) /\ ~MayHaveActed(c)
    BY <1>1 DEF Reuse, LeaveUncertain, Refuse, Pass, Ask, NeedsLeave, MayHaveActed, Settled, HasResult
  <1>5. inv' \in [Calls -> InvocationStatus] /\ \A q \in Calls : q # c => inv'[q] = inv[q]
    BY <1>4 DEF IInv, Typed, InvocationStatus
  <1>6. Typed'
    BY <1>2, <1>5 DEF IInv, Typed
  <1>7. Phases'
    BY <1>1, <1>2, <1>3, <1>4 DEF Phases
  <1>8. ASSUME NEW q \in Calls PROVE Stands(q)' /\ Unrepeated(q)' /\ (inv[q] \in HasResult => inv'[q] = inv[q])
    <2>1. CASE q # c
      <3>1. q \in allowed' => q \in allowed
        BY <1>4, <2>1
      <3>2. q = asking' => q = asking
        BY <1>4, <2>1
      <3> QED BY <1>1, <1>2, <1>3, <1>5, <2>1, <3>1, <3>2 DEF IInv, Stands, Unrepeated
    <2>2. CASE q = c
      <3>1. c \in Calls /\ c \notin allowed /\ c # NoCall
        BY <1>1, <2>2, DurableRunAssumption DEF IInv, Stands
      <3>2. c \notin ungated'
        BY <1>1
      <3>3. inv[c] \in InvocationStatus /\ policy[c] \in Policy
        BY <3>1 DEF IInv, Typed
      <3>4. Stands(c)'
        BY <1>2, <1>3, <1>4, <3>1, <3>2 DEF Stands, IInv, Typed
      <3>5. Unrepeated(c)
        BY <3>1 DEF IInv
      <3>6. Unrepeated(c)'
        BY <1>2, <1>4, <3>1, <3>3, <3>5 DEF Unrepeated, Settled, MayHaveActed, InvocationStatus, HasResult, IInv, Typed
      <3>7. inv[c] \in HasResult => inv'[c] = inv[c]
        BY <1>4, <3>1 DEF Settled
      <3> QED BY <2>2, <3>4, <3>6, <3>7
    <2> QED BY <2>1, <2>2
  <1>9. \A q \in Gated : HasLeave(q)'
    BY <1>2, <1>4 DEF IInv, HasLeave
  <1> QED BY <1>2, <1>6, <1>7, <1>8, <1>9 DEF IInv, Final

(* A person's leave is for one attempt more. *)
LEMMA AnsweredKeeps ==
    ASSUME IInv, Answered
    PROVE  IInv' /\ Final
  <1>1. /\ UNCHANGED <<attempts, policy, retries, ungated, running>>
        /\ pc = "approval" /\ pc' = "gate" /\ asking' = NoCall
    BY DEF Answered, process, execution
  <1>2. \/ /\ grants' = [grants EXCEPT ![asking] = @ + 1]
           /\ inv' = [inv EXCEPT ![asking] = "received"] /\ allowed' = allowed \cup {asking}
        \/ /\ inv' = [inv EXCEPT ![asking] = "failed"] /\ UNCHANGED <<grants, allowed>>
    BY DEF Answered
  <1>3. Typed'
    BY <1>1, <1>2 DEF IInv, Typed, InvocationStatus
  <1>4. running = {} /\ Phases'
    BY <1>1 DEF IInv, Phases
  <1>5. ASSUME NEW q \in Calls PROVE Stands(q)' /\ Unrepeated(q)' /\ (inv[q] \in HasResult => inv'[q] = inv[q])
    <2>1. q # NoCall
      BY DurableRunAssumption
    <2>2. CASE q # asking
      BY <1>1, <1>2, <1>4, <2>1, <2>2 DEF IInv, Typed, Stands, Unrepeated
    <2>3. CASE q = asking
      <3>1. inv[q] = "waiting_approval" /\ q \notin allowed /\ q \notin ungated
        BY <2>3 DEF IInv, Stands
      <3> QED BY <1>1, <1>2, <1>4, <2>1, <2>3, <3>1 DEF IInv, Typed, Stands, Unrepeated, HasResult
    <2> QED BY <2>2, <2>3
  <1>6. ASSUME NEW q \in Gated PROVE HasLeave(q)'
    <2>1. q \in Calls /\ grants[q] \in Nat /\ attempts[q] \in Nat
      BY DurableRunAssumption DEF IInv, Typed
    <2>2. CASE q # asking
      BY <1>1, <1>2, <2>1, <2>2 DEF IInv, Typed, HasLeave
    <2>3. CASE q = asking
      <3>1. q \notin allowed
        BY <2>1, <2>3 DEF IInv, Stands
      <3>2. grants'[q] = grants[q] + 1 \/ (grants'[q] = grants[q] /\ allowed' = allowed)
        BY <1>2, <2>1, <2>3 DEF IInv, Typed
      <3> QED BY <1>1, <2>1, <2>3, <3>1, <3>2 DEF IInv, HasLeave
    <2> QED BY <2>2, <2>3
  <1> QED BY <1>1, <1>3, <1>4, <1>5, <1>6 DEF IInv, Final

(* An attempt uses up what let the call run. *)
LEMMA StartCallKeeps ==
    ASSUME IInv, StartCall
    PROVE  IInv' /\ Final
  <1>1. PICK c \in allowed :
            /\ allowed' = allowed \ {c}
            /\ \/ UNCHANGED <<inv, attempts, running>>
               \/ StartAttempt(c)
               \/ NeedsReconciling(c) /\ UNCHANGED <<attempts, running>>
                  /\ inv' \in {[inv EXCEPT ![c] = "succeeded"], [inv EXCEPT ![c] = "indeterminate"]}
    BY DEF StartCall, tools
  <1>2. UNCHANGED <<policy, grants, retries, ungated, asking, pc>> /\ pc = "exec"
    BY DEF StartCall, process, history
  <1>3. asking = NoCall /\ ungated = {}
    BY <1>2 DEF IInv, Phases
  <1>4. inv' \in [Calls -> InvocationStatus] /\ attempts' \in [Calls -> Nat]
    BY <1>1 DEF StartAttempt, IInv, Typed, InvocationStatus
  <1>5. Typed' /\ Phases'
    BY <1>2, <1>4 DEF IInv, Typed, Phases
  <1>6. ASSUME NEW q \in Calls
        PROVE  Stands(q)' /\ Unrepeated(q)' /\ (inv[q] \in HasResult => inv'[q] = inv[q] /\ attempts'[q] = attempts[q])
    <2>1. q # NoCall /\ attempts[q] \in Nat /\ retries[q] \in Nat
      BY DurableRunAssumption DEF IInv, Typed
    <2>2. CASE q # c
      <3>1. inv'[q] = inv[q] /\ attempts'[q] = attempts[q] /\ (q \in running' <=> q \in running)
        BY <1>1, <2>2 DEF StartAttempt, IInv, Typed
      <3> QED BY <1>1, <1>2, <1>3, <2>1, <3>1 DEF IInv, Stands, Unrepeated
    <2>3. CASE q = c
      <3>1. inv[q] = "received" /\ q \notin running
        BY <1>1, <2>3 DEF IInv, Stands
      <3>2. \/ inv'[q] = inv[q] /\ attempts'[q] = attempts[q] /\ running' = running
            \/ inv'[q] = "running" /\ attempts'[q] = attempts[q] + 1
            \/ /\ policy[q] = "reconcile" /\ inv'[q] \in {"succeeded", "indeterminate"}
               /\ attempts'[q] = attempts[q] /\ running' = running
        BY <1>1, <2>3 DEF StartAttempt, NeedsReconciling, IInv, Typed
      <3>3. Stands(q)'
        BY <1>1, <1>2, <1>3, <2>1, <2>3, <3>1, <3>2 DEF Stands
      <3>4. Unrepeated(q)'
        BY <1>2, <2>1, <3>1, <3>2 DEF IInv, Unrepeated
      <3> QED BY <3>1, <3>3, <3>4 DEF HasResult
    <2> QED BY <2>2, <2>3
  <1>7. ASSUME NEW q \in Gated PROVE HasLeave(q)'
    <2>1. q \in Calls /\ attempts[q] \in Nat /\ grants[q] \in Nat
      BY DurableRunAssumption DEF IInv, Typed
    <2>2. CASE q # c
      <3>1. attempts'[q] = attempts[q]
        BY <1>1, <2>1, <2>2 DEF StartAttempt, IInv, Typed
      <3> QED BY <1>1, <1>2, <3>1 DEF IInv, HasLeave
    <2>3. CASE q = c
      <3>1. attempts'[q] \in {attempts[q], attempts[q] + 1} /\ q \notin allowed'
        BY <1>1, <2>1, <2>3 DEF StartAttempt, IInv, Typed
      <3> QED BY <1>1, <1>2, <2>1, <2>3, <3>1 DEF IInv, HasLeave
    <2> QED BY <2>2, <2>3
  <1> QED BY <1>5, <1>6, <1>7 DEF IInv, Final

(* A tool ends once; only a safe one begins again by itself. *)
LEMMA ToolEndsKeeps ==
    ASSUME IInv, ToolEnds
    PROVE  IInv' /\ Final
  <1>1. PICK c \in running : Returns(c) \/ CutOff(c)
    BY DEF ToolEnds
  <1>2. UNCHANGED <<policy, grants, retries, ungated, allowed, asking, pc>> /\ pc = "exec"
    BY DEF ToolEnds, process, history, gate
  <1>3. \/ /\ \E s \in {"succeeded", "failed", "indeterminate", "cancelled"} :
                  inv' = [inv EXCEPT ![c] = s] /\ (s = "cancelled" => policy[c] # "never")
           /\ running' = running \ {c} /\ attempts' = attempts
        \/ /\ policy[c] = "safe" /\ attempts' = [attempts EXCEPT ![c] = @ + 1]
           /\ UNCHANGED <<inv, running>>
    BY <1>1 DEF Returns, CutOff, EndsUncertain, Ends
  <1>4. inv' \in [Calls -> InvocationStatus] /\ attempts' \in [Calls -> Nat]
    BY <1>3 DEF IInv, Typed, InvocationStatus
  <1>5. Typed' /\ Phases'
    BY <1>2, <1>4 DEF IInv, Typed, Phases
  <1>6. ASSUME NEW q \in Calls
        PROVE  Stands(q)' /\ Unrepeated(q)' /\ (inv[q] \in HasResult => inv'[q] = inv[q] /\ attempts'[q] = attempts[q])
    <2>1. q # NoCall /\ attempts[q] \in Nat /\ retries[q] \in Nat
      BY DurableRunAssumption DEF IInv, Typed
    <2>2. CASE q # c
      <3>1. inv'[q] = inv[q] /\ attempts'[q] = attempts[q] /\ (q \in running' <=> q \in running)
        BY <1>3, <2>2 DEF IInv, Typed
      <3> QED BY <1>2, <2>1, <3>1 DEF IInv, Stands, Unrepeated
    <2>3. CASE q = c
      <3>1. inv[q] \in {"running", "indeterminate"} /\ q \notin allowed /\ q # asking
        BY <1>1, <2>3 DEF IInv, Stands
      <3>2. \/ /\ inv'[q] \in {"succeeded", "failed", "indeterminate", "cancelled"}
               /\ inv'[q] = "cancelled" => policy[q] # "never"
               /\ attempts'[q] = attempts[q] /\ q \notin running'
            \/ policy[q] = "safe" /\ inv'[q] = inv[q]
        BY <1>3, <2>3 DEF IInv, Typed
      <3>3. Stands(q)'
        BY <1>2, <2>1, <3>1, <3>2 DEF IInv, Stands
      <3>4. Unrepeated(q)'
        BY <1>2, <2>1, <3>2 DEF IInv, Unrepeated
      <3> QED BY <3>1, <3>3, <3>4 DEF HasResult
    <2> QED BY <2>2, <2>3
  <1>7. ASSUME NEW q \in Gated PROVE HasLeave(q)'
    <2>1. q \in Calls
      BY DurableRunAssumption
    <2>2. policy[q] # "safe" => attempts'[q] = attempts[q]
      BY <1>3, <2>1 DEF IInv, Typed
    <2> QED BY <1>2, <2>2 DEF IInv, HasLeave
  <1> QED BY <1>5, <1>6, <1>7 DEF IInv, Final

(* A person decides about calls of unknown outcome only, while memory is empty. *)
LEMMA ResolveKeeps ==
    ASSUME IInv, Resolve
    PROVE  IInv' /\ Final
  <1>1. PICK c \in Calls :
            /\ inv[c] = "indeterminate"
            /\ \/ retries' = retries /\ \E s \in HasResult : inv' = [inv EXCEPT ![c] = s]
               \/ retries' = [retries EXCEPT ![c] = @ + 1] /\ inv' = [inv EXCEPT ![c] = "received"]
    BY DEF Resolve
  <1>2. UNCHANGED <<policy, grants, attempts, ungated, allowed, running, asking, pc>> /\ pc = "idle"
    BY DEF Resolve, process, gate, execution
  <1>3. ungated = {} /\ allowed = {} /\ running = {} /\ asking = NoCall
    BY <1>2 DEF IInv, Phases
  <1>4. inv' \in [Calls -> InvocationStatus] /\ retries' \in [Calls -> Nat]
    BY <1>1 DEF IInv, Typed, InvocationStatus, HasResult
  <1>5. Typed' /\ Phases'
    BY <1>2, <1>4 DEF IInv, Typed, Phases
  <1>6. ASSUME NEW q \in Calls PROVE Stands(q)' /\ Unrepeated(q)' /\ (inv[q] \in HasResult => inv'[q] = inv[q])
    <2>1. q # NoCall /\ attempts[q] \in Nat /\ retries[q] \in Nat
      BY DurableRunAssumption DEF IInv, Typed
    <2>2. Stands(q)'
      BY <1>2, <1>3, <2>1 DEF Stands
    <2>3. CASE q # c
      <3>1. inv'[q] = inv[q] /\ retries'[q] = retries[q]
        BY <1>1, <2>3 DEF IInv, Typed
      <3> QED BY <1>2, <2>2, <3>1 DEF IInv, Unrepeated
    <2>4. CASE q = c
      <3>1. \/ retries'[q] = retries[q] /\ inv'[q] \in HasResult
            \/ retries'[q] = retries[q] + 1 /\ inv'[q] = "received"
        BY <1>1, <2>4 DEF IInv, Typed
      <3>2. Unrepeated(q)'
        BY <1>2, <2>1, <3>1 DEF IInv, Unrepeated, HasResult
      <3> QED BY <1>1, <2>2, <2>4, <3>2 DEF HasResult
    <2> QED BY <2>3, <2>4
  <1>7. \A q \in Gated : HasLeave(q)'
    BY <1>2 DEF IInv, HasLeave
  <1> QED BY <1>2, <1>5, <1>6, <1>7 DEF IInv, Final

-------------------------------------------------------------------------------
(* Every step keeps the invariant and the results. *)
LEMMA NextIInv == IInv /\ [Next]_vars => IInv' /\ Final
  BY QuietKeeps, RecoveryKeeps, BatchStartKeeps, GateKeeps, AnsweredKeeps, StartCallKeeps, ToolEndsKeeps,
     ResolveKeeps DEF Next, Loop

(* So it always holds. *)
LEMMA IInvHolds == Spec => []IInv
  <1>1. IInv /\ [Next]_vars => IInv'
    BY NextIInv
  <1> QED BY <1>1, InitIInv, PTL DEF Spec

(* A tool that may not be repeated is started once for itself and once for every decision of a
   person to retry it (execute_batch, recover_expired_run_leases, resolve_indeterminate_tool). *)
THEOREM NeverRepeatsUnasked == Spec => []NeverRepeated
  <1>1. IInv => NeverRepeated
    BY DEF IInv, NeverRepeated, Unrepeated
  <1> QED BY <1>1, IInvHolds, PTL

(* Each attempt at a gated call has a leave of its own, whatever is stopped, resumed or recovered
   in between (execute_batch). *)
THEOREM EveryAttemptIsAllowed == Spec => []AllowedEachTime
  <1>1. IInv => AllowedEachTime
    BY DEF IInv, AllowedEachTime, HasLeave
  <1> QED BY <1>1, IInvHolds, PTL

(* A call with a result is neither started nor judged again (execute_batch, recover_expired_run_leases). *)
THEOREM ResultsStay == Spec => ResultsAreFinal
  <1>1. IInv /\ [Next]_vars =>
            [\A c \in Calls : inv[c] \in HasResult => inv'[c] = inv[c] /\ attempts'[c] = attempts[c]]_vars
    BY NextIInv DEF Final
  <1> QED BY <1>1, IInvHolds, PTL DEF Spec, ResultsAreFinal
=================================================================================
