----------------------------- MODULE DecisionProofs -----------------------------
(***************************************************************************)
(* A purchase task is decided once, on the evidence it has, and by no      *)
(* request that has become stale: for any number of requests, corrections, *)
(* analyses and stops of the host.                                         *)
(*                                                                         *)
(* The argument is about the version of the task's row.  Every transaction *)
(* that changes the task raises it, so a request whose version is still    *)
(* the task's is pending, and the task waits for it with its snapshot; and *)
(* while the listener decides on such a request, nothing has changed the   *)
(* quotes it has read.                                                     *)
(***************************************************************************)
EXTENDS Decision, TLAPS

Shapes ==
    /\ task = [status |-> task.status, gen |-> task.gen, ver |-> task.ver, snap |-> task.snap]
    /\ task.ver \in Nat
    /\ pending = [r \in Request |-> pending[r]]
    /\ \A r \in Request :
         /\ pending[r] = [status |-> pending[r].status, gen |-> pending[r].gen,
                          ver |-> pending[r].ver, snap |-> pending[r].snap]
         /\ pending[r].ver \in Nat
    /\ command = [r \in Request |-> command[r]]
    /\ asking = [r \in Request |-> asking[r]]
    /\ listener = [pc |-> listener.pc, req |-> listener.req, saw |-> listener.saw]

(* A step that raises the version. *)
TaskRaised ==
    /\ task' = [status |-> task'.status, gen |-> task'.gen, ver |-> task'.ver, snap |-> task'.snap]
    /\ task'.ver = task.ver + 1

Exists(r) == pending[r].status # "none"
Newest(r) == Exists(r) /\ pending[r].ver = task.ver

(* No request is ahead of the task. *)
Behind == \A r \in Request : pending[r].ver <= task.ver

(* The task waits for the request that has its version. *)
Matches ==
    \A r \in Request : Newest(r) =>
        /\ task.status = "approval_pending" /\ task.snap = pending[r].snap
        /\ pending[r].status = "pending"

(* Whoever works on a request works on one that was made, and is made once. *)
Known ==
    \A r \in Request :
        /\ command[r] # "none" => Exists(r)
        /\ asking[r].begun => ~Exists(r)
        /\ worker.req = r => Exists(r)
        /\ listener.pc # "idle" /\ listener.req = r => Exists(r)

(* The listener sees the quotes as they are while the request is the newest. *)
Sees ==
    \A r \in Request : Deciding(r) /\ pending[r].ver = task.ver => listener.saw = data

IInv == Shapes /\ Behind /\ Matches /\ Known /\ Sees

(* At first there is no request. *)
LEMMA InitIInv == Init => IInv
  <1> SUFFICES ASSUME Init PROVE IInv
    OBVIOUS
  <1>1. /\ task = [status |-> "ready", gen |-> 1, ver |-> 0, snap |-> 0]
        /\ pending = [r \in Request |-> [status |-> "none", gen |-> 0, ver |-> 0, snap |-> 0]]
        /\ command = [r \in Request |-> "none"] /\ asking = [r \in Request |-> NotAsking]
        /\ listener = IdleListener /\ worker = IdleWorker
    BY DEF Init, NoSnapshot
  <1>2. Shapes
    BY <1>1 DEF Shapes, IdleListener
  <1>3. Behind /\ Matches /\ Sees
    BY <1>1 DEF Behind, Matches, Sees, Newest, Exists, Deciding, IdleListener
  <1>4. Known
    BY <1>1, DecisionAssumption DEF Known, Exists, NotAsking, IdleListener, IdleWorker
  <1> QED BY <1>2, <1>3, <1>4 DEF IInv

(* A transaction that raises the version leaves every request behind. *)
LEMMA RaisedKeeps ==
    ASSUME IInv, Shapes', Known', task'.ver = task.ver + 1,
           \A r \in Request : pending'[r].ver = pending[r].ver
    PROVE  IInv'
  <1>1. \A r \in Request : pending'[r].ver < task'.ver
    BY DEF IInv, Shapes, Behind
  <1> QED BY <1>1 DEF IInv, Shapes, Behind, Matches, Newest, Sees

(* A transaction that leaves the task, the requests and the input alone. *)
LEMMA AloneKeeps ==
    ASSUME IInv, UNCHANGED <<task, pending, data>>, Shapes', Known',
           \A r \in Request : Deciding(r)' => (Deciding(r) /\ UNCHANGED listener) \/ listener'.saw = data
    PROVE  IInv'
  <1>1. Behind' /\ Matches'
    BY DEF IInv, Behind, Matches, Newest, Exists
  <1>2. Sees'
    BY DEF IInv, Sees, Deciding
  <1> QED BY <1>1, <1>2 DEF IInv

(* Invalidating the input raises the version, and unmakes no request. *)
LEMMA InvalidateKeeps ==
    ASSUME IInv, NEW status, Invalidate(status), UNCHANGED <<command, asking, listener, worker>>
    PROVE  IInv'
  <1>1. /\ task' = [task EXCEPT !.status = status, !.gen = @ + 1, !.ver = @ + 1, !.snap = NoSnapshot]
        /\ pending' = OpenRequestsStale
    BY DEF Invalidate
  <1>2. TaskRaised
    BY <1>1 DEF IInv, Shapes, TaskRaised
  <1>3. \A r \in Request :
            /\ pending'[r] = [status |-> pending'[r].status, gen |-> pending'[r].gen,
                              ver |-> pending'[r].ver, snap |-> pending'[r].snap]
            /\ pending'[r].ver = pending[r].ver /\ (Exists(r)' <=> Exists(r))
    BY <1>1 DEF OpenRequestsStale, IInv, Shapes, Exists
  <1>4. pending' = [r \in Request |-> pending'[r]]
    BY <1>1 DEF OpenRequestsStale
  <1>5. Shapes'
    BY <1>2, <1>3, <1>4 DEF IInv, Shapes, TaskRaised
  <1>6. Known'
    BY <1>3 DEF IInv, Known
  <1> QED BY <1>2, <1>3, <1>5, <1>6, RaisedKeeps DEF TaskRaised

(* The input's transactions: the listener is idle when one changes what it would compare. *)
LEMMA InputKeeps == IInv /\ Input => IInv'
  <1> SUFFICES ASSUME IInv, Input PROVE IInv'
    OBVIOUS
  <1>1. CASE Correct \/ UploadQuotes
    BY <1>1, InvalidateKeeps DEF Correct, UploadQuotes, processes
  <1>2. CASE ImportArrives
    <2>1. UNCHANGED <<pending, command, asking, listener, worker>> /\ listener.pc = "idle"
      BY <1>2 DEF ImportArrives, processes
    <2>2. Known'
      BY <2>1 DEF IInv, Known, Exists
    <2>3. CASE task' = [task EXCEPT !.status = "ready", !.ver = @ + 1]
      <3>1. TaskRaised
        BY <2>3 DEF IInv, Shapes, TaskRaised
      <3>2. Shapes'
        BY <2>1, <3>1 DEF IInv, Shapes, TaskRaised
      <3> QED BY <2>1, <2>2, <3>1, <3>2, RaisedKeeps DEF TaskRaised
    <2>4. CASE UNCHANGED <<data, task>>
      <3>1. Shapes'
        BY <2>1, <2>4 DEF IInv, Shapes
      <3> QED BY <2>1, <2>2, <2>4, <3>1, AloneKeeps DEF Deciding
    <2> QED BY <1>2, <2>3, <2>4 DEF ImportArrives
  <1>3. CASE AnalysisArrives
    <2>1. /\ UNCHANGED <<pending, command, asking, listener, worker>>
          /\ task' = [task EXCEPT !.status = "analyzed", !.ver = @ + 1, !.snap = NewSnapshot]
      BY <1>3 DEF AnalysisArrives, processes
    <2>2. TaskRaised
      BY <2>1 DEF IInv, Shapes, TaskRaised
    <2>3. Shapes'
      BY <2>1, <2>2 DEF IInv, Shapes, TaskRaised
    <2>4. Known'
      BY <2>1 DEF IInv, Known, Exists
    <2> QED BY <2>1, <2>2, <2>3, <2>4, RaisedKeeps DEF TaskRaised
  <1>4. CASE StartAnalysis \/ AnalysisFails
    <2>1. UNCHANGED <<task, data, pending, command, asking, listener, worker>>
      BY <1>4 DEF StartAnalysis, AnalysisFails, processes
    <2>2. Shapes' /\ Known'
      BY <2>1 DEF IInv, Shapes, Known, Exists
    <2> QED BY <2>1, <2>2, AloneKeeps DEF Deciding
  <1> QED BY <1>1, <1>2, <1>3, <1>4 DEF Input

-------------------------------------------------------------------------------
(* A request is made once, and is then the newest. *)
LEMMA AskKeeps ==
    ASSUME IInv, NEW r \in Request, Ask(r)
    PROVE  IInv'
  <1>1. CASE RequestBegins(r) \/ RequestEnds(r)
    <2>1. /\ UNCHANGED <<task, data, pending, command, listener, worker>>
          /\ \E a : asking' = [asking EXCEPT ![r] = a] /\ (a.begun => ~Exists(r))
      <3>1. CASE RequestBegins(r)
        <4>1. ~Exists(r) /\ \E a : asking' = [asking EXCEPT ![r] = a]
          BY <3>1 DEF RequestBegins, Exists
        <4> QED BY <3>1, <4>1 DEF RequestBegins, evidence
      <3>2. CASE RequestEnds(r)
        <4>1. /\ asking' = [asking EXCEPT ![r] = NotAsking]
              /\ UNCHANGED <<task, data, pending, command, listener, worker>>
          BY <3>2 DEF RequestEnds, evidence
        <4>2. ~NotAsking.begun
          BY DEF NotAsking
        <4> QED BY <4>1, <4>2
      <3> QED BY <1>1, <3>1, <3>2
    <2>2. Shapes'
      BY <2>1 DEF IInv, Shapes
    <2>3. Known'
      BY <2>1 DEF IInv, Shapes, Known, Exists
    <2> QED BY <2>1, <2>2, <2>3, AloneKeeps DEF Deciding
  <1>2. CASE RequestCommits(r)
    <2> DEFINE new == [status |-> "pending", gen |-> task.gen, ver |-> task.ver + 1, snap |-> task.snap]
    <2>1. /\ task' = [task EXCEPT !.status = "approval_pending", !.ver = @ + 1]
          /\ pending' = [pending EXCEPT ![r] = new] /\ command' = [command EXCEPT ![r] = "open"]
          /\ asking' = [asking EXCEPT ![r] = NotAsking] /\ UNCHANGED <<data, listener, worker>>
          /\ asking[r].begun
      BY <1>2 DEF RequestCommits, evidence
    <2>2. TaskRaised /\ task'.status = "approval_pending" /\ task'.snap = task.snap
      BY <2>1 DEF IInv, Shapes, TaskRaised
    <2>3. pending' = [q \in Request |-> IF q = r THEN new ELSE pending[q]]
      BY <2>1 DEF IInv, Shapes
    <2>4. Shapes'
      <3>1. \A q \in Request :
              /\ pending'[q] = [status |-> pending'[q].status, gen |-> pending'[q].gen,
                                ver |-> pending'[q].ver, snap |-> pending'[q].snap]
              /\ pending'[q].ver \in Nat
        BY <2>3 DEF IInv, Shapes
      <3>2. pending' = [q \in Request |-> pending'[q]]
        BY <2>3
      <3> QED BY <2>1, <2>2, <3>1, <3>2 DEF IInv, Shapes, TaskRaised
    <2>5. Behind'
      BY <2>2, <2>3 DEF IInv, Shapes, Behind, TaskRaised
    <2>6. Matches'
      <3>1. \A q \in Request : Newest(q)' => q = r
        BY <2>2, <2>3 DEF IInv, Shapes, Behind, Newest, Exists, TaskRaised
      <3> QED BY <2>2, <2>3, <3>1 DEF Matches
    <2>7. Known'
      <3>1. \A q \in Request : Exists(q)' <=> q = r \/ Exists(q)
        BY <2>3 DEF Exists
      <3>2. \A q \in Request : /\ command'[q] # "none" => q = r \/ command[q] # "none"
                               /\ asking'[q].begun => q # r /\ asking[q].begun
        BY <2>1 DEF IInv, Shapes, NotAsking
      <3> QED BY <2>1, <3>1, <3>2 DEF IInv, Known
    <2>8. Sees'
      <3>1. \A q \in Request : Deciding(q)' => q # r
        BY <2>1 DEF Deciding, IInv, Known
      <3>2. \A q \in Request : q # r => pending'[q].ver # task'.ver
        BY <2>2, <2>3 DEF IInv, Shapes, Behind, TaskRaised
      <3> QED BY <3>1, <3>2 DEF Sees
    <2> QED BY <2>4, <2>5, <2>6, <2>7, <2>8 DEF IInv
  <1> QED BY <1>1, <1>2 DEF Ask

(* A failure of a request: the task it keeps waiting is restored, or waits for another. *)
LEMMA FailPendingKeeps ==
    ASSUME IInv, NEW r \in Request, NEW bound, FailPending(r, bound), Exists(r),
           command' = [command EXCEPT ![r] = "failed"],
           UNCHANGED <<asking, data>>,
           /\ listener' = listener \/ listener' = IdleListener
           /\ worker' = worker \/ worker' = IdleWorker
    PROVE  IInv'
  <1>1. pending' = [pending EXCEPT ![r].status = "stale"] /\ task' = Restored(r)
    BY DEF FailPending
  <1>2. \A q \in Request :
            /\ pending'[q] = [status |-> pending'[q].status, gen |-> pending'[q].gen,
                              ver |-> pending'[q].ver, snap |-> pending'[q].snap]
            /\ pending'[q].ver = pending[q].ver /\ pending'[q].snap = pending[q].snap
            /\ (Exists(q)' <=> Exists(q)) /\ (q # r => pending'[q] = pending[q])
    <2>1. \A q \in Request :
              pending'[q] = IF q = r THEN [pending[r] EXCEPT !.status = "stale"] ELSE pending[q]
      BY <1>1 DEF IInv, Shapes
    <2>2. pending[r] = [status |-> pending[r].status, gen |-> pending[r].gen,
                        ver |-> pending[r].ver, snap |-> pending[r].snap]
      BY DEF IInv, Shapes
    <2>3. pending'[r] = [status |-> "stale", gen |-> pending[r].gen,
                         ver |-> pending[r].ver, snap |-> pending[r].snap]
      BY <2>1, <2>2
    <2>4. \A q \in Request : Exists(q)' <=> Exists(q)
      BY <2>1, <2>3 DEF Exists
    <2> QED BY <2>1, <2>3, <2>4 DEF IInv, Shapes
  <1>3. pending' = [q \in Request |-> pending'[q]]
    BY <1>1 DEF IInv, Shapes
  <1>4. Known'
    <2>1. \A q \in Request : command'[q] # "none" => q = r \/ command[q] # "none"
      BY DEF IInv, Shapes
    <2>2. \A q \in Request : /\ worker'.req = q => worker.req = q
                             /\ listener'.pc # "idle" => listener' = listener
      BY DecisionAssumption DEF IdleListener, IdleWorker
    <2> QED BY <1>2, <2>1, <2>2 DEF IInv, Known
  <1>5. /\ command' = [q \in Request |-> command'[q]]
        /\ listener' = [pc |-> listener'.pc, req |-> listener'.req, saw |-> listener'.saw]
    BY DEF IInv, Shapes, IdleListener
  <1>6. CASE task' = [task EXCEPT !.status = "analyzed", !.ver = @ + 1]
    <2>1. TaskRaised
      BY <1>6 DEF IInv, Shapes, TaskRaised
    <2>2. Shapes'
      BY <1>2, <1>3, <1>5, <2>1 DEF IInv, Shapes, TaskRaised
    <2> QED BY <1>2, <1>4, <2>1, <2>2, RaisedKeeps DEF TaskRaised
  <1>7. CASE task' = task /\ ~Newest(r)
    <2>1. Shapes'
      BY <1>2, <1>3, <1>5, <1>7 DEF IInv, Shapes
    <2>2. Behind'
      BY <1>2, <1>7 DEF IInv, Behind
    <2>3. Matches'
      <3>1. \A q \in Request : Newest(q)' => Newest(q) /\ q # r
        BY <1>2, <1>7 DEF Newest
      <3> QED BY <1>2, <1>7, <3>1 DEF IInv, Matches
    <2>4. Sees'
      <3>1. \A q \in Request : Deciding(q)' => Deciding(q) /\ listener' = listener
        BY DEF Deciding, IdleListener
      <3> QED BY <1>2, <1>7, <3>1 DEF IInv, Sees
    <2> QED BY <1>4, <2>1, <2>2, <2>3, <2>4 DEF IInv
  <1> QED BY <1>1, <1>6, <1>7 DEF Restored, IInv, Matches

(* The listener's and the worker's steps that leave task, requests and input alone. *)
LEMMA QuietKeeps ==
    ASSUME IInv, UNCHANGED <<task, pending, data>>,
           command' = command,
           \/ asking' = asking
           \/ asking' = [r \in Request |-> NotAsking],
           \/ listener' = IdleListener \/ listener' = listener
           \/ \E pc : pc # "deciding" /\ listener.pc # "idle" /\ listener' = [listener EXCEPT !.pc = pc]
           \/ \E r \in Request : Exists(r) /\ listener' = [pc |-> "deciding", req |-> r, saw |-> data],
           \/ worker' = worker \/ worker' = IdleWorker
           \/ \E r \in Request : Exists(r) /\ worker'.req = r
    PROVE  IInv'
  <1>1. command' = [r \in Request |-> command'[r]] /\ \A r \in Request : command'[r] # "none" => Exists(r)
    BY DEF IInv, Shapes, Known
  <1>2. asking' = [r \in Request |-> asking'[r]] /\ \A r \in Request : asking'[r].begun => ~Exists(r)
    BY DEF IInv, Shapes, Known, NotAsking
  <1>3. listener' = [pc |-> listener'.pc, req |-> listener'.req, saw |-> listener'.saw]
    BY DEF IInv, Shapes, IdleListener
  <1>4. \A r \in Request : listener'.pc # "idle" /\ listener'.req = r => Exists(r)
    BY DEF IInv, Shapes, Known, IdleListener
  <1>5. \A r \in Request : worker'.req = r => Exists(r)
    BY DecisionAssumption DEF IInv, Known, IdleWorker
  <1>6. Shapes'
    BY <1>1, <1>2, <1>3 DEF IInv, Shapes
  <1>7. Known'
    BY <1>1, <1>2, <1>4, <1>5 DEF Known, Exists
  <1>8. \A r \in Request : Deciding(r)' => (Deciding(r) /\ UNCHANGED listener) \/ listener'.saw = data
    BY DEF Deciding, IInv, Shapes, IdleListener
  <1> QED BY <1>6, <1>7, <1>8, AloneKeeps

(* A command that ends, of a request that was made. *)
LEMMA CommandEnds ==
    ASSUME IInv, NEW r \in Request, Exists(r), NEW v, command' = [command EXCEPT ![r] = v],
           UNCHANGED <<task, pending, data, asking>>,
           listener' = listener \/ listener' = IdleListener,
           worker' = worker \/ worker' = IdleWorker
    PROVE  IInv'
  <1>1. Shapes'
    BY DEF IInv, Shapes, IdleListener
  <1>2. Known'
    <2>1. \A q \in Request : command'[q] # "none" => q = r \/ command[q] # "none"
      BY DEF IInv, Shapes
    <2>2. \A q \in Request : /\ worker'.req = q => worker.req = q
                             /\ listener'.pc # "idle" => listener' = listener
      BY DecisionAssumption DEF IdleListener, IdleWorker
    <2> QED BY <2>1, <2>2 DEF IInv, Known, Exists
  <1>3. \A q \in Request : Deciding(q)' => (Deciding(q) /\ UNCHANGED listener) \/ listener'.saw = data
    BY DEF Deciding, IdleListener
  <1> QED BY <1>1, <1>2, <1>3, AloneKeeps

(* The listener decides on a request that was made, and leaves it behind the task. *)
LEMMA ListenKeeps ==
    ASSUME IInv, NEW r \in Request, Listen(r)
    PROVE  IInv'
  <1>1. CASE ListenerTakes(r)
    <2>1. /\ listener' = [pc |-> "deciding", req |-> r, saw |-> data]
          /\ UNCHANGED <<task, pending, data, command, asking, worker>> /\ command[r] = "open"
      BY <1>1 DEF ListenerTakes, evidence
    <2>2. Exists(r)
      BY <2>1 DEF IInv, Known
    <2> QED BY <2>1, <2>2, QuietKeeps
  <1>2. CASE Decide(r)
    <2>1. /\ task' = [task EXCEPT !.status = Verdict(pending[r].snap), !.ver = @ + 1]
          /\ pending' = [pending EXCEPT ![r].status = "completed"]
          /\ listener' = [listener EXCEPT !.pc = "decided"] /\ listener.pc # "idle" /\ listener.req = r
          /\ UNCHANGED <<command, asking, worker>>
      BY <1>2 DEF Decide, Deciding
    <2>2. TaskRaised
      BY <2>1 DEF IInv, Shapes, TaskRaised
    <2>3. Exists(r)
      BY <2>1 DEF IInv, Known
    <2>4. \A q \in Request :
              /\ pending'[q] = [status |-> pending'[q].status, gen |-> pending'[q].gen,
                                ver |-> pending'[q].ver, snap |-> pending'[q].snap]
              /\ pending'[q].ver = pending[q].ver /\ (Exists(q)' <=> Exists(q))
      <3>1. \A q \in Request :
                pending'[q] = IF q = r THEN [pending[r] EXCEPT !.status = "completed"] ELSE pending[q]
        BY <2>1 DEF IInv, Shapes
      <3>2. pending[r] = [status |-> pending[r].status, gen |-> pending[r].gen,
                          ver |-> pending[r].ver, snap |-> pending[r].snap]
        BY DEF IInv, Shapes
      <3>3. pending'[r] = [status |-> "completed", gen |-> pending[r].gen,
                           ver |-> pending[r].ver, snap |-> pending[r].snap]
        BY <3>1, <3>2
      <3>4. \A q \in Request : Exists(q)' <=> Exists(q)
        BY <2>3, <3>1, <3>3 DEF Exists
      <3> QED BY <3>1, <3>3, <3>4 DEF IInv, Shapes
    <2>5. listener' = [pc |-> "decided", req |-> r, saw |-> listener.saw]
      BY <2>1 DEF IInv, Shapes
    <2>6. pending' = [q \in Request |-> pending'[q]]
      BY <2>1 DEF IInv, Shapes
    <2>7. Shapes'
      BY <2>1, <2>2, <2>4, <2>5, <2>6 DEF IInv, Shapes, TaskRaised
    <2>8. Known'
      BY <2>1, <2>3, <2>4, <2>5 DEF IInv, Known
    <2> QED BY <2>2, <2>4, <2>7, <2>8, RaisedKeeps DEF TaskRaised
  <1>3. CASE DecideAgain(r) \/ Refuse(r)
    <2>1. /\ UNCHANGED <<task, pending, data, command, asking, worker>> /\ listener.pc # "idle"
          /\ \E pc : pc # "deciding" /\ listener' = [listener EXCEPT !.pc = pc]
      BY <1>3 DEF DecideAgain, Refuse, evidence, Deciding
    <2> QED BY <2>1, QuietKeeps
  <1>4. CASE DecideFails(r)
    <2>1. UNCHANGED <<task, pending, data, command, asking, worker>> /\ listener' = IdleListener
      BY <1>4 DEF DecideFails, evidence
    <2> QED BY <2>1, QuietKeeps
  <1>5. CASE ListenerCompletes(r)
    <2>1. /\ UNCHANGED <<task, pending, data, asking, worker>> /\ listener' = IdleListener
          /\ command' = [command EXCEPT ![r] = "completed"] /\ listener.pc # "idle" /\ listener.req = r
      BY <1>5 DEF ListenerCompletes, evidence
    <2>2. Exists(r)
      BY <2>1 DEF IInv, Known
    <2> QED BY <2>1, <2>2, CommandEnds
  <1>6. CASE ListenerFails(r)
    <2>1. /\ UNCHANGED <<data, asking, worker>> /\ listener' = IdleListener
          /\ command' = [command EXCEPT ![r] = "failed"]
      BY <1>6 DEF ListenerFails, evidence
    <2>2. Exists(r)
      BY <1>6 DEF ListenerFails, IInv, Known
    <2>3. CASE UNCHANGED <<task, pending>>
      BY <2>1, <2>2, <2>3, CommandEnds
    <2>4. CASE FailPending(r, Waiting(r))
      BY <2>1, <2>2, <2>4, FailPendingKeeps
    <2> QED BY <1>6, <2>3, <2>4 DEF ListenerFails
  <1> QED BY <1>1, <1>2, <1>3, <1>4, <1>5, <1>6 DEF Listen

(* The worker gives up on a request that was made. *)
LEMMA WorkKeeps ==
    ASSUME IInv, NEW r \in Request, Work(r)
    PROVE  IInv'
  <1>1. CASE WorkerBegins(r)
    <2>1. /\ UNCHANGED <<task, pending, data, command, asking, listener>> /\ command[r] = "open"
          /\ worker'.req = r
      BY <1>1 DEF WorkerBegins, evidence
    <2>2. Exists(r)
      BY <2>1 DEF IInv, Known
    <2> QED BY <2>1, <2>2, QuietKeeps
  <1>2. CASE WorkerFails(r)
    <2>1. /\ UNCHANGED <<data, asking, listener>> /\ worker' = IdleWorker
          /\ command' = [command EXCEPT ![r] = "failed"] /\ worker.req = r
      BY <1>2 DEF WorkerFails, evidence
    <2>2. Exists(r)
      BY <2>1 DEF IInv, Known
    <2>3. CASE UNCHANGED <<task, pending>>
      BY <2>1, <2>2, <2>3, CommandEnds
    <2>4. CASE FailPending(r, {worker.review} \ {0})
      BY <2>1, <2>2, <2>4, FailPendingKeeps
    <2> QED BY <1>2, <2>3, <2>4 DEF WorkerFails
  <1>3. CASE WorkerConflicts(r)
    <2>1. UNCHANGED <<task, pending, data, command, asking, listener>> /\ worker' = IdleWorker
      BY <1>3 DEF WorkerConflicts, evidence
    <2> QED BY <2>1, QuietKeeps
  <1> QED BY <1>1, <1>2, <1>3 DEF Work

(* Every step keeps the invariant. *)
LEMMA NextIInv == IInv /\ [Next]_vars => IInv'
  <1> SUFFICES ASSUME IInv, [Next]_vars PROVE IInv'
    OBVIOUS
  <1>1. CASE Input
    BY <1>1, InputKeeps
  <1>2. ASSUME NEW r \in Request, Ask(r) \/ Listen(r) \/ Work(r) PROVE IInv'
    BY <1>2, AskKeeps, ListenKeeps, WorkKeeps
  <1>3. ASSUME NEW s \in DOMAIN reviews, RejectAndRetry(s) PROVE IInv'
    <2>1. /\ UNCHANGED <<pending, command, asking, listener, worker>>
          /\ task' = [task EXCEPT !.status = "ready", !.ver = @ + 1, !.snap = NoSnapshot]
      BY <1>3 DEF RejectAndRetry, processes
    <2>2. TaskRaised
      BY <2>1 DEF IInv, Shapes, TaskRaised
    <2>3. Shapes'
      BY <2>1, <2>2 DEF IInv, Shapes, TaskRaised
    <2>4. Known'
      BY <2>1 DEF IInv, Known, Exists
    <2> QED BY <2>1, <2>2, <2>3, <2>4, RaisedKeeps DEF TaskRaised
  <1>4. CASE HostStops
    <2>1. /\ UNCHANGED <<task, pending, data, command>> /\ asking' = [r \in Request |-> NotAsking]
          /\ listener' = IdleListener /\ worker' = IdleWorker
      BY <1>4 DEF HostStops, evidence
    <2> QED BY <2>1, QuietKeeps
  <1>5. CASE UNCHANGED vars
    <2>1. UNCHANGED <<task, pending, data, command, asking, listener, worker>>
      BY <1>5 DEF vars, evidence, processes
    <2> QED BY <2>1, QuietKeeps
  <1> QED BY <1>1, <1>2, <1>3, <1>4, <1>5 DEF Next

(* So it always holds. *)
LEMMA IInvHolds == Spec => []IInv
  BY InitIInv, NextIInv, PTL DEF Spec

-------------------------------------------------------------------------------
(* Only the final transaction decides, and orders. *)
LEMMA OnlyDecide ==
    ASSUME [Next]_vars
    PROVE  UNCHANGED <<decision, order>> \/ \E r \in Request : Decide(r)
  <1>1. CASE Input
    BY <1>1 DEF Input, Correct, UploadQuotes, ImportArrives, StartAnalysis, AnalysisArrives, AnalysisFails
  <1>2. ASSUME NEW r \in Request, Ask(r) \/ Work(r) PROVE UNCHANGED <<decision, order>>
    BY <1>2 DEF Ask, Work, RequestBegins, RequestCommits, RequestEnds, WorkerBegins, WorkerFails,
                WorkerConflicts
  <1>3. ASSUME NEW r \in Request, Listen(r), ~Decide(r) PROVE UNCHANGED <<decision, order>>
    BY <1>3 DEF Listen, ListenerTakes, DecideAgain, Refuse, DecideFails, ListenerCompletes, ListenerFails
  <1>4. CASE \E s \in DOMAIN reviews : RejectAndRetry(s)
    BY <1>4 DEF RejectAndRetry
  <1>5. CASE HostStops \/ UNCHANGED vars
    BY <1>5 DEF HostStops, vars
  <1> QED BY <1>1, <1>2, <1>3, <1>4, <1>5 DEF Next

(* The decision of a task and its purchase order are final: no result, request or correction
   replaces them (ApprovalService.finalizeFromAgent). *)
THEOREM DecisionIsFinal == Spec => OneDecision
  <1>1. [Next]_vars => [decision # NoRequest => decision' = decision /\ order' = order]_vars
    BY OnlyDecide DEF Decide, Undecided
  <1> QED BY <1>1, PTL DEF Spec, OneDecision

(* A request that has become stale never decides: its version is not the task's any more
   (ApprovalService.finalizeFromAgent). *)
THEOREM StaleRequestsNeverDecide == Spec => StaleNeverDecides
  <1>1. IInv /\ [Next]_vars =>
            [\A r \in Request : pending[r].status = "stale" => decision' = decision \/ decision' # r]_vars
    <2> SUFFICES ASSUME IInv, [Next]_vars, NEW r \in Request, pending[r].status = "stale", Decide(r)
                 PROVE  FALSE
      BY OnlyDecide DEF Decide
    <2>1. Newest(r)
      BY DEF Decide, Current, Newest, Exists
    <2> QED BY <2>1 DEF IInv, Matches
  <1> QED BY <1>1, IInvHolds, PTL DEF Spec, StaleNeverDecides

(* The decision is taken while the task waits for it, on the task's snapshot, and the snapshot is
   of the input as it is then (ApprovalService.finalizeFromAgent). *)
THEOREM DecidesOnCurrentEvidence == Spec => DecidedOnCurrentEvidence
  <1>1. IInv /\ [Next]_vars =>
            [decision' # decision =>
                 /\ task.snap = pending[decision'].snap
                 /\ snapshots[task.snap] = data
                 /\ task.status = "approval_pending"]_vars
    <2> SUFFICES ASSUME IInv, NEW r \in Request, Decide(r)
                 PROVE  /\ task.snap = pending[r].snap /\ snapshots[task.snap] = data
                        /\ task.status = "approval_pending"
      BY OnlyDecide DEF Decide
    <2>1. Deciding(r) /\ Current(r) /\ Recomputed(r)
      BY DEF Decide
    <2>2. Newest(r)
      BY <2>1 DEF Deciding, Current, Newest, Exists, IInv, Known
    <2>3. listener.saw = data
      BY <2>1 DEF IInv, Sees, Current
    <2> QED BY <2>1, <2>2, <2>3 DEF Current, Recomputed, IInv, Matches
  <1> QED BY <1>1, IInvHolds, PTL DEF Spec, DecidedOnCurrentEvidence
=================================================================================
