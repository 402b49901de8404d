-------------------------- MODULE AgentCommandProofs --------------------------
(***************************************************************************)
(* AgentCommand proved for every set of operations and every bound: type   *)
(* correctness, application at most once, durability of what was applied,  *)
(* one verdict per analysis, and the refinement of CommandVerdict.         *)
(***************************************************************************)
EXTENDS AgentCommand, TLAPS

\* Init is typed.
LEMMA InitTyped == Init => TypeOK
  <1> SUFFICES ASSUME Init PROVE TypeOK
    OBVIOUS
  <1>1. command \in [Op -> Row]
    BY DEF Init, Row, Terminal
  <1>2. agent \in [pc : {"idle", "dispatching", "publishing"}, op : Op \cup {NoOp}, ok : BOOLEAN]
    BY DEF Init, IdleAgent
  <1>3. results \in Seq(Message) /\ offset \in 0 .. Len(results)
    BY DEF Init
  <1>4. consumer \in [pc : {"idle", "holding"}, row : Row]
    BY DEF Init, IdleConsumer, Row
  <1> QED BY <1>1, <1>2, <1>3, <1>4 DEF Init, TypeOK, LedgerStatus

\* The entries of the log are messages; an append keeps the old ones.
LEMMA EntryTyped ==
    ASSUME TypeOK, NEW i \in 1 .. Len(results)
    PROVE  results[i] \in Message /\ results[i].op \in Op /\ results[i].ok \in BOOLEAN
  <1>1. results[i] \in Message
    BY DEF TypeOK
  <1> QED BY <1>1 DEF Message

\* An append keeps the entries of the log and adds one.
LEMMA AppendLog ==
    ASSUME NEW s \in Seq(Message), NEW m \in Message
    PROVE  /\ Append(s, m) \in Seq(Message)
           /\ Len(Append(s, m)) = Len(s) + 1
           /\ \A i \in 1 .. Len(s) : Append(s, m)[i] = s[i]
           /\ Append(s, m)[Len(s) + 1] = m
  OBVIOUS

-----------------------------------------------------------------------------
(* The strengthening.                                                       *)

\* A row the listener holds has not been applied; its record is in the log.
HeldIsOpen ==
    Holding => /\ offset < Len(results)
               /\ applied[Current.op] = 0

\* A success in the log, or about to be published, is in the ledger.
SuccessIsDurable ==
    /\ \A i \in 1 .. Len(results) :
          results[i].ok => ledger[results[i].op] = "completed"
    /\ agent.pc = "publishing" /\ agent.ok => ledger[agent.op] = "completed"
    /\ agent.pc = "dispatching" => ledger[agent.op] = "executing"

\* The agent and the log know only commands that have been accepted.
OnlyAccepted ==
    /\ agent.pc # "idle" => agent.op \in Op
    /\ \A op \in Op : command[op].status = "none" =>
          /\ sent[op] = 0
          /\ applied[op] = 0
          /\ gaveUp[op] = "no"
          /\ agent.op # op
          /\ \A i \in 1 .. Len(results) : results[i].op # op

\* Verdicts other than success are recorded for analyses, and never over success.
VerdictKinds ==
    \A op \in Op : gaveUp[op] # "no" => op \in Analyze /\ applied[op] = 0

IInv ==
    /\ TypeOK
    /\ CompletedIsAppliedOnce
    /\ HeldIsOpen
    /\ SuccessIsDurable
    /\ AppliedIsDurable
    /\ OnlyAccepted
    /\ VerdictKinds
    /\ OneAnalysisVerdict

\* The strengthening holds before the first command.
LEMMA InitInv == Init => IInv
  <1> SUFFICES ASSUME Init PROVE IInv
    OBVIOUS
  <1>1. TypeOK
    BY InitTyped
  <1>2. 1 .. Len(results) = {}
    BY DEF Init
  <1>3. HeldIsOpen /\ SuccessIsDurable
    BY <1>2 DEF Init, HeldIsOpen, Holding, IdleConsumer, SuccessIsDurable, IdleAgent
  <1>4. OnlyAccepted
    BY <1>2, AgentCommandAssumption DEF Init, OnlyAccepted, IdleAgent
  <1>5. CompletedIsAppliedOnce /\ AppliedIsDurable /\ VerdictKinds /\ OneAnalysisVerdict
    BY AgentCommandAssumption
    DEF Init, CompletedIsAppliedOnce, AppliedIsDurable, VerdictKinds, OneAnalysisVerdict
  <1> QED BY <1>1, <1>3, <1>4, <1>5 DEF IInv

\* What the listener holds is an entry of the log.
LEMMA HeldEntry ==
    ASSUME IInv, Holding
    PROVE  offset + 1 \in 1 .. Len(results) /\ Current.op \in Op /\ consumer.row \in Row
  <1>1. TypeOK /\ offset \in Nat /\ offset < Len(results) /\ Len(results) \in Nat
    BY DEF IInv, HeldIsOpen, TypeOK
  <1>2. offset + 1 \in 1 .. Len(results)
    BY <1>1
  <1> QED BY <1>1, <1>2, EntryTyped DEF Current, TypeOK

\* A send, lost or not, leaves no more read than sent.
LEMMA SendTyped ==
    ASSUME TypeOK, NEW op \in Op, Send(op)
    PROVE  sent' \in [Op -> Nat] /\ \A o \in Op : read[o] <= sent'[o]
  <1>1. sent \in [Op -> Nat] /\ read \in [Op -> Nat] /\ \A o \in Op : read[o] <= sent[o]
    BY DEF TypeOK
  <1>2. CASE sent' = [sent EXCEPT ![op] = @ + 1]
    BY <1>1, <1>2
  <1>3. CASE UNCHANGED sent
    BY <1>1, <1>3
  <1> QED BY <1>2, <1>3 DEF Send

\* What the agent publishes is a message.
LEMMA PublishedMessage ==
    ASSUME IInv, agent.pc # "idle"
    PROVE  [op |-> agent.op, ok |-> agent.ok] \in Message
  BY DEF IInv, OnlyAccepted, TypeOK, Message

\* An update of one row's status, and of one row, keeps the rows typed.
LEMMA StatusTyped ==
    ASSUME command \in [Op -> Row], NEW op \in Op,
           NEW s \in {"none", "pending", "published", "completed", "failed", "cancelled"},
           command' = [command EXCEPT ![op].status = s]
    PROVE  command' \in [Op -> Row]
  <1>1. command[op] \in Row
    OBVIOUS
  <1>2. [command[op] EXCEPT !.status = s] \in Row
    BY <1>1 DEF Row, Terminal
  <1>3. command' = [command EXCEPT ![op] = [command[op] EXCEPT !.status = s]]
    OBVIOUS
  <1> QED BY <1>2, <1>3

\* The row the worker writes is a row.
LEMMA PublishedTyped ==
    ASSUME command \in [Op -> Row], NEW op \in Op, command' = [command EXCEPT ![op] = Published(op)]
    PROVE  command' \in [Op -> Row]
  <1>1. command[op] \in Row
    OBVIOUS
  <1>2. Published(op) \in Row
    BY <1>1 DEF Row, Published
  <1> QED BY <1>2

\* The listener's write of its copy is a row.
LEMMA WriteTyped ==
    ASSUME command \in [Op -> Row], consumer.row \in Row, NEW op \in Op,
           NEW s \in {"completed", "failed"}, Write(op, s)
    PROVE  command' \in [Op -> Row]
  <1>1. [consumer.row EXCEPT !.status = s] \in Row
    BY DEF Row, Terminal
  <1> QED BY <1>1 DEF Write

-----------------------------------------------------------------------------
(* Types: per action, the variables it changes. *)

\* Every step keeps the types.
LEMMA NextTyped == IInv /\ [Next]_vars => TypeOK'
  <1> SUFFICES ASSUME IInv, [Next]_vars PROVE TypeOK'
    OBVIOUS
  <1>0. TypeOK
    BY DEF IInv
  <1>1. ASSUME NEW op \in Op, Accept(op) PROVE TypeOK'
    <2>1. command' \in [Op -> Row]
      <3>1. command \in [Op -> Row] /\ command' = [command EXCEPT ![op].status = "pending"]
        BY <1>0, <1>1 DEF TypeOK, Accept
      <3> QED BY <3>1, StatusTyped
    <2>2. UNCHANGED <<sent, read, ledger, agent, results, offset, consumer, applied, gaveUp, runs, requeues, stops>>
      BY <1>1 DEF Accept, host, topics, history
    <2> QED BY <1>0, <2>1, <2>2 DEF TypeOK
  <1>2. ASSUME NEW op \in Op, Dispatch(op) PROVE TypeOK'
    <2>1. command' \in [Op -> Row]
      <3>1. command \in [Op -> Row] /\ command' = [command EXCEPT ![op] = Published(op)]
        BY <1>0, <1>2 DEF TypeOK, Dispatch
      <3> QED BY <3>1, PublishedTyped
    <2>2. sent' \in [Op -> Nat] /\ \A o \in Op : read[o] <= sent'[o]
      BY <1>0, <1>2, SendTyped DEF Dispatch
    <2>3. UNCHANGED <<read, ledger, agent, results, offset, consumer, applied, gaveUp, runs, requeues, stops>>
      BY <1>2 DEF Dispatch, host, topics, history
    <2> QED BY <1>0, <2>1, <2>2, <2>3 DEF TypeOK
  <1>3. ASSUME NEW op \in Op, Republish(op) PROVE TypeOK'
    <2>1. command' \in [Op -> Row]
      <3>1. command \in [Op -> Row] /\ command' = [command EXCEPT ![op] = Published(op)]
        BY <1>0, <1>3 DEF TypeOK, Republish
      <3> QED BY <3>1, PublishedTyped
    <2>2. sent' \in [Op -> Nat] /\ \A o \in Op : read[o] <= sent'[o]
      BY <1>0, <1>3, SendTyped DEF Republish
    <2>3. UNCHANGED <<read, ledger, agent, results, offset, consumer, applied, gaveUp, runs, requeues, stops>>
      BY <1>3 DEF Republish, host, topics, history
    <2> QED BY <1>0, <2>1, <2>2, <2>3 DEF TypeOK
  <1>4. ASSUME NEW op \in Op, RepublishThrows(op) PROVE TypeOK'
    <2>1. command' \in [Op -> Row]
      <3>1. command \in [Op -> Row] /\ command' = [command EXCEPT ![op].status = "pending"]
        BY <1>0, <1>4 DEF TypeOK, RepublishThrows
      <3> QED BY <3>1, StatusTyped
    <2>2. UNCHANGED <<sent, read, ledger, agent, results, offset, consumer, applied, gaveUp, runs, requeues, stops>>
      BY <1>4 DEF RepublishThrows, host, topics, history
    <2> QED BY <1>0, <2>1, <2>2 DEF TypeOK
  <1>5. ASSUME NEW op \in Op, SendRolledBack(op) PROVE TypeOK'
    <2>1. sent' \in [Op -> Nat] /\ \A o \in Op : read[o] <= sent'[o]
      <3>1. sent' = [sent EXCEPT ![op] = @ + 1]
        BY <1>5 DEF SendRolledBack
      <3>2. sent \in [Op -> Nat] /\ read \in [Op -> Nat] /\ \A o \in Op : read[o] <= sent[o]
        BY <1>0 DEF TypeOK
      <3> QED BY <3>1, <3>2
    <2>2. UNCHANGED <<command, read, ledger, agent, results, offset, consumer, applied, gaveUp, runs, requeues, stops>>
      BY <1>5 DEF SendRolledBack, host, topics, history
    <2> QED BY <1>0, <2>1, <2>2 DEF TypeOK
  <1>6. ASSUME NEW op \in Op, GiveUp(op) PROVE TypeOK'
    <2>1. command' \in [Op -> Row]
      <3>1. command \in [Op -> Row] /\ command' = [command EXCEPT ![op].status = "failed"]
        BY <1>0, <1>6 DEF TypeOK, GiveUp
      <3> QED BY <3>1, StatusTyped
    <2>2. gaveUp' \in [Op -> {"no", "failed", "cancelled"}]
      BY <1>0, <1>6 DEF TypeOK, GiveUp, RecordTerminalFailure, VerdictAfterFailure
    <2>3. UNCHANGED <<sent, read, ledger, agent, results, offset, consumer, applied, runs, requeues, stops>>
      BY <1>6 DEF GiveUp, host, topics, history
    <2> QED BY <1>0, <2>1, <2>2, <2>3 DEF TypeOK
  <1>7. ASSUME NEW op \in Op, Requeue(op) PROVE TypeOK'
    <2>1. command' \in [Op -> Row]
      <3>1. command \in [Op -> Row] /\ command' = [command EXCEPT ![op].status = "pending"]
        BY <1>0, <1>7 DEF TypeOK, Requeue
      <3> QED BY <3>1, StatusTyped
    <2>2. requeues' \in [Op -> Nat]
      BY <1>0, <1>7 DEF TypeOK, Requeue
    <2>3. UNCHANGED <<sent, read, ledger, agent, results, offset, consumer, applied, gaveUp, runs, stops>>
      BY <1>7 DEF Requeue, host, topics, history
    <2> QED BY <1>0, <2>1, <2>2, <2>3 DEF TypeOK
  <1>8. ASSUME NEW op \in Op, Cancel(op) PROVE TypeOK'
    <2>1. command' \in [Op -> Row]
      <3>1. /\ command \in [Op -> Row]
            /\ command' = [command EXCEPT ![op].status = "cancelled"] \/ command' = command
        BY <1>0, <1>8 DEF TypeOK, Cancel
      <3>2. CASE command' = [command EXCEPT ![op].status = "cancelled"]
        BY <3>1, <3>2, StatusTyped
      <3> QED BY <3>1, <3>2
    <2>2. gaveUp' \in [Op -> {"no", "failed", "cancelled"}]
      BY <1>0, <1>8 DEF TypeOK, Cancel, RecordTerminalFailure, VerdictAfterFailure
    <2>3. UNCHANGED <<sent, read, ledger, agent, results, offset, consumer, applied, runs, requeues, stops>>
      BY <1>8 DEF Cancel, host, topics, history
    <2> QED BY <1>0, <2>1, <2>2, <2>3 DEF TypeOK
  <1>9. ASSUME NEW op \in Op, AgentClaims(op) PROVE TypeOK'
    <2>1. read' \in [Op -> Nat] /\ \A o \in Op : read'[o] <= sent[o]
      <3>1. read' = [read EXCEPT ![op] = @ + 1] /\ read[op] < sent[op]
        BY <1>9 DEF AgentClaims, Unread
      <3>2. sent \in [Op -> Nat] /\ read \in [Op -> Nat] /\ \A o \in Op : read[o] <= sent[o]
        BY <1>0 DEF TypeOK
      <3> QED BY <3>1, <3>2
    <2>2. ledger' \in [Op -> LedgerStatus]
      BY <1>0, <1>9 DEF TypeOK, AgentClaims, LedgerStatus
    <2>3. agent' \in [pc : {"idle", "dispatching", "publishing"}, op : Op \cup {NoOp}, ok : BOOLEAN]
      BY <1>0, <1>9 DEF TypeOK, AgentClaims, IdleAgent
    <2>4. runs' \in [Op -> Nat]
      BY <1>0, <1>9 DEF TypeOK, AgentClaims
    <2>5. UNCHANGED <<command, sent, results, offset, consumer, applied, gaveUp, requeues, stops>>
      BY <1>9 DEF AgentClaims, host, topics, history
    <2> QED BY <1>0, <2>1, <2>2, <2>3, <2>4, <2>5 DEF TypeOK
  <1>10. ASSUME NEW op \in Op, AgentReplays(op) PROVE TypeOK'
    <2>1. read' \in [Op -> Nat] /\ \A o \in Op : read'[o] <= sent[o]
      <3>1. read' = [read EXCEPT ![op] = @ + 1] /\ read[op] < sent[op]
        BY <1>10 DEF AgentReplays, Unread
      <3>2. sent \in [Op -> Nat] /\ read \in [Op -> Nat] /\ \A o \in Op : read[o] <= sent[o]
        BY <1>0 DEF TypeOK
      <3> QED BY <3>1, <3>2
    <2>2. agent' \in [pc : {"idle", "dispatching", "publishing"}, op : Op \cup {NoOp}, ok : BOOLEAN]
      BY <1>0, <1>10 DEF TypeOK, AgentReplays, IdleAgent
    <2>3. UNCHANGED <<command, sent, ledger, results, offset, consumer, applied, gaveUp, runs, requeues, stops>>
      BY <1>10 DEF AgentReplays, host, topics, history
    <2> QED BY <1>0, <2>1, <2>2, <2>3 DEF TypeOK
  <1>11. ASSUME NEW ok \in BOOLEAN, AgentFinishes(ok) PROVE TypeOK'
    <2>1. ledger' \in [Op -> LedgerStatus]
      BY <1>0, <1>11 DEF TypeOK, AgentFinishes, LedgerStatus
    <2>2. agent' \in [pc : {"idle", "dispatching", "publishing"}, op : Op \cup {NoOp}, ok : BOOLEAN]
      BY <1>0, <1>11 DEF TypeOK, AgentFinishes, IdleAgent
    <2>3. UNCHANGED <<command, sent, read, results, offset, consumer, applied, gaveUp, runs, requeues, stops>>
      BY <1>11 DEF AgentFinishes, host, topics, history
    <2> QED BY <1>0, <2>1, <2>2, <2>3 DEF TypeOK
  <1>12. CASE AgentLedgerThrows
    <2>1. agent' \in [pc : {"idle", "dispatching", "publishing"}, op : Op \cup {NoOp}, ok : BOOLEAN]
      BY <1>0, <1>12 DEF TypeOK, AgentLedgerThrows, IdleAgent
    <2>2. UNCHANGED <<command, sent, read, ledger, results, offset, consumer, applied, gaveUp, runs, requeues, stops>>
      BY <1>12 DEF AgentLedgerThrows, host, topics, history
    <2> QED BY <1>0, <2>1, <2>2 DEF TypeOK
  <1>13. CASE AgentPublishes
    <2>1. agent' \in [pc : {"idle", "dispatching", "publishing"}, op : Op \cup {NoOp}, ok : BOOLEAN]
      BY <1>0, <1>13 DEF TypeOK, AgentPublishes, IdleAgent
    <2>2. results' \in Seq(Message) /\ offset \in 0 .. Len(results')
      <3>1. results \in Seq(Message) /\ offset \in 0 .. Len(results)
        BY <1>0 DEF TypeOK
      <3>2. [op |-> agent.op, ok |-> agent.ok] \in Message
        BY <1>13, PublishedMessage DEF AgentPublishes
      <3>3. CASE results' = Append(results, [op |-> agent.op, ok |-> agent.ok])
        BY <3>1, <3>2, <3>3, AppendLog
      <3> QED BY <1>13, <3>1, <3>3 DEF AgentPublishes
    <2>3. UNCHANGED <<command, sent, read, ledger, offset, consumer, applied, gaveUp, runs, requeues, stops>>
      BY <1>13 DEF AgentPublishes, host, topics, history
    <2> QED BY <1>0, <2>1, <2>2, <2>3 DEF TypeOK
  <1>14. CASE AgentRestarts
    <2>1. read' \in [Op -> Nat] /\ \A o \in Op : read'[o] <= sent[o]
      <3>1. PICK committed \in [Op -> 0 .. MaxRecords] :
                 read' = committed /\ \A o \in Op : committed[o] <= read[o]
        BY <1>14 DEF AgentRestarts
      <3>2. MaxRecords \in Nat /\ read \in [Op -> Nat] /\ sent \in [Op -> Nat]
        BY <1>0, AgentCommandAssumption DEF TypeOK
      <3>3. \A o \in Op : committed[o] \in Nat
        BY <3>2
      <3>4. read' \in [Op -> Nat]
        BY <3>1, <3>3
      <3>5. \A o \in Op : read[o] <= sent[o]
        BY <1>0 DEF TypeOK
      <3> QED BY <3>1, <3>2, <3>3, <3>4, <3>5
    <2>2. ledger' \in [Op -> LedgerStatus]
      BY <1>0, <1>14 DEF TypeOK, AgentRestarts, Recovered, LedgerStatus
    <2>3. agent' \in [pc : {"idle", "dispatching", "publishing"}, op : Op \cup {NoOp}, ok : BOOLEAN]
      BY <1>0, <1>14 DEF TypeOK, AgentRestarts, IdleAgent
    <2>4. stops' \in [agent : Nat, host : Nat]
      <3>1. stops \in [agent : Nat, host : Nat]
        BY <1>0 DEF TypeOK
      <3> QED BY <3>1, <1>14 DEF AgentRestarts
    <2>5. UNCHANGED <<command, sent, results, offset, consumer, applied, gaveUp, runs, requeues>>
      BY <1>14 DEF AgentRestarts, host, topics, history
    <2> QED BY <1>0, <2>1, <2>2, <2>3, <2>4, <2>5 DEF TypeOK
  <1>15. CASE ConsumerReads
    <2>1. offset + 1 \in 1 .. Len(results) /\ Current.op \in Op
      <3>1. offset + 1 \in 1 .. Len(results)
        BY <1>0, <1>15 DEF ConsumerReads, TypeOK
      <3> QED BY <1>0, <3>1, EntryTyped DEF Current
    <2>2. offset' \in 0 .. Len(results)
      BY <1>0, <1>15, <2>1 DEF TypeOK, ConsumerReads, Done
    <2>3. consumer' \in [pc : {"idle", "holding"}, row : Row]
      BY <1>0, <1>15, <2>1 DEF TypeOK, ConsumerReads, IdleConsumer, Row
    <2>4. UNCHANGED <<command, sent, read, ledger, agent, results, applied, gaveUp, runs, requeues, stops>>
      BY <1>15 DEF ConsumerReads, host, topics, history
    <2> QED BY <1>0, <2>1, <2>2, <2>3, <2>4 DEF TypeOK
  <1>16. CASE ConsumerApplies
    <2>1. offset + 1 \in 1 .. Len(results) /\ Current.op \in Op /\ consumer.row \in Row
      BY <1>16, HeldEntry DEF ConsumerApplies
    <2>2. command' \in [Op -> Row]
      <3>1. command \in [Op -> Row] /\ Write(Current.op, "completed")
        BY <1>0, <1>16 DEF TypeOK, ConsumerApplies
      <3> QED BY <2>1, <3>1, WriteTyped
    <2>3. offset' \in 0 .. Len(results)
      BY <1>0, <1>16, <2>1 DEF TypeOK, ConsumerApplies, Done
    <2>4. consumer' \in [pc : {"idle", "holding"}, row : Row]
      BY <1>0, <1>16, <2>1 DEF TypeOK, ConsumerApplies, IdleConsumer, Row
    <2>5. applied' \in [Op -> Nat]
      <3>1. applied \in [Op -> Nat]
        BY <1>0 DEF TypeOK
      <3>2. applied' = [applied EXCEPT ![Current.op] = @ + 1]
        BY <1>16 DEF ConsumerApplies
      <3> QED BY <2>1, <3>1, <3>2
    <2>6. UNCHANGED <<sent, read, ledger, agent, results, gaveUp, runs, requeues, stops>>
      BY <1>16 DEF ConsumerApplies, host, topics, history
    <2> QED BY <1>0, <2>1, <2>2, <2>3, <2>4, <2>5, <2>6 DEF TypeOK
  <1>17. CASE ConsumerFails
    <2>1. offset + 1 \in 1 .. Len(results) /\ Current.op \in Op /\ consumer.row \in Row
      BY <1>17, HeldEntry DEF ConsumerFails
    <2>2. command' \in [Op -> Row]
      <3>1. command \in [Op -> Row] /\ Write(Current.op, "failed")
        BY <1>0, <1>17 DEF TypeOK, ConsumerFails
      <3> QED BY <2>1, <3>1, WriteTyped
    <2>3. offset' \in 0 .. Len(results)
      BY <1>0, <1>17, <2>1 DEF TypeOK, ConsumerFails, Done
    <2>4. consumer' \in [pc : {"idle", "holding"}, row : Row]
      BY <1>0, <1>17, <2>1 DEF TypeOK, ConsumerFails, IdleConsumer, Row
    <2>5. gaveUp' \in [Op -> {"no", "failed", "cancelled"}]
      BY <1>0, <1>17, <2>1 DEF TypeOK, ConsumerFails, RecordTerminalFailure, VerdictAfterFailure
    <2>6. UNCHANGED <<sent, read, ledger, agent, results, applied, runs, requeues, stops>>
      BY <1>17 DEF ConsumerFails, host, topics, history
    <2> QED BY <1>0, <2>1, <2>2, <2>3, <2>4, <2>5, <2>6 DEF TypeOK
  <1>18. CASE ConsumerThrows
    <2>1. offset + 1 \in 1 .. Len(results) /\ Current.op \in Op /\ consumer.row \in Row
      BY <1>18, HeldEntry DEF ConsumerThrows
    <2>2. offset' \in 0 .. Len(results)
      BY <1>0, <1>18, <2>1 DEF TypeOK, ConsumerThrows, Done
    <2>3. consumer' \in [pc : {"idle", "holding"}, row : Row]
      BY <1>0, <1>18, <2>1 DEF TypeOK, ConsumerThrows, IdleConsumer, Row
    <2>4. UNCHANGED <<command, sent, read, ledger, agent, results, applied, gaveUp, runs, requeues, stops>>
      BY <1>18 DEF ConsumerThrows, host, topics, history
    <2> QED BY <1>0, <2>1, <2>2, <2>3, <2>4 DEF TypeOK
  <1>19. CASE HostRestarts
    <2>1. offset' \in 0 .. Len(results)
      BY <1>0, <1>19 DEF TypeOK, HostRestarts, Done
    <2>2. consumer' \in [pc : {"idle", "holding"}, row : Row]
      BY <1>0, <1>19 DEF TypeOK, HostRestarts, IdleConsumer, Row
    <2>3. stops' \in [agent : Nat, host : Nat]
      <3>1. stops \in [agent : Nat, host : Nat]
        BY <1>0 DEF TypeOK
      <3> QED BY <3>1, <1>19 DEF HostRestarts
    <2>4. UNCHANGED <<command, sent, read, ledger, agent, results, applied, gaveUp, runs, requeues>>
      BY <1>19 DEF HostRestarts, host, topics, history
    <2> QED BY <1>0, <2>1, <2>2, <2>3, <2>4 DEF TypeOK
  <1>20. CASE UNCHANGED vars
    BY <1>0, <1>20 DEF TypeOK, vars, host, topics, history
  <1> QED BY <1>1, <1>2, <1>3, <1>4, <1>5, <1>6, <1>7, <1>8, <1>9, <1>10, <1>11, <1>12, <1>13, <1>14, <1>15, <1>16, <1>17, <1>18, <1>19, <1>20 DEF Next

-----------------------------------------------------------------------------
(* Durability.  Only the agent touches the ledger, and no step of it takes    *)
(* back a completed operation.                                                *)

\* Publishing keeps the entries of the log and adds at most what the agent holds.
LEMMA LogGrows ==
    ASSUME IInv, AgentPublishes
    PROVE  /\ \A i \in 1 .. Len(results) : i \in 1 .. Len(results') /\ results'[i] = results[i]
           /\ \A i \in 1 .. Len(results') : i \in 1 .. Len(results)
                 \/ results'[i] = [op |-> agent.op, ok |-> agent.ok]
  <1>1. results \in Seq(Message) /\ Len(results) \in Nat
    BY DEF IInv, TypeOK
  <1>2. [op |-> agent.op, ok |-> agent.ok] \in Message
    BY PublishedMessage DEF AgentPublishes
  <1>3. CASE results' = Append(results, [op |-> agent.op, ok |-> agent.ok])
    BY <1>1, <1>2, <1>3, AppendLog
  <1>4. CASE UNCHANGED results
    BY <1>4
  <1> QED BY <1>3, <1>4 DEF AgentPublishes

\* Every step keeps successes, and what was applied, durable.
LEMMA NextDurable == IInv /\ [Next]_vars => SuccessIsDurable' /\ AppliedIsDurable'
  <1> SUFFICES ASSUME IInv, [Next]_vars PROVE SuccessIsDurable' /\ AppliedIsDurable'
    OBVIOUS
  <1>0. TypeOK /\ SuccessIsDurable /\ AppliedIsDurable
    BY DEF IInv
  <1>1. CASE UNCHANGED <<ledger, agent, results, applied>>
    BY <1>0, <1>1 DEF SuccessIsDurable, AppliedIsDurable
  <1>2. ASSUME NEW op \in Op, AgentClaims(op) PROVE SuccessIsDurable' /\ AppliedIsDurable'
    <2>1. ledger[op] # "completed" /\ ledger' = [ledger EXCEPT ![op] = "executing"]
          /\ agent' = [pc |-> "dispatching", op |-> op, ok |-> FALSE]
          /\ UNCHANGED <<results, applied>>
      BY <1>2 DEF AgentClaims, Claimable, host
    <2>2. \A o \in Op : ledger[o] = "completed" => ledger'[o] = "completed"
      BY <1>0, <2>1 DEF TypeOK
    <2>3. \A i \in 1 .. Len(results) : results[i].op \in Op
      BY <1>0, EntryTyped
    <2>4. ledger'[op] = "executing"
      BY <1>0, <2>1 DEF TypeOK
    <2> QED BY <1>0, <2>1, <2>2, <2>3, <2>4 DEF SuccessIsDurable, AppliedIsDurable
  <1>3. ASSUME NEW op \in Op, AgentReplays(op) PROVE SuccessIsDurable' /\ AppliedIsDurable'
    BY <1>0, <1>3 DEF AgentReplays, host, SuccessIsDurable, AppliedIsDurable
  <1>4. ASSUME NEW ok \in BOOLEAN, AgentFinishes(ok) PROVE SuccessIsDurable' /\ AppliedIsDurable'
    <2>1. /\ agent.op \in Op
          /\ ledger[agent.op] = "executing"
          /\ ledger' = [ledger EXCEPT ![agent.op] = IF ok THEN "completed" ELSE "failed"]
          /\ agent' = [agent EXCEPT !.pc = "publishing", !.ok = ok]
          /\ UNCHANGED <<results, applied>>
      BY <1>0, <1>4 DEF AgentFinishes, host, topics, IInv, OnlyAccepted, SuccessIsDurable
    <2>2. \A o \in Op : ledger[o] = "completed" => ledger'[o] = "completed"
      BY <1>0, <2>1 DEF TypeOK
    <2>3. \A i \in 1 .. Len(results) : results[i].op \in Op
      BY <1>0, EntryTyped
    <2>4. agent'.pc = "publishing" /\ agent'.op = agent.op /\ agent'.ok = ok
      BY <1>0, <2>1 DEF TypeOK
    <2>5. ok => ledger'[agent.op] = "completed"
      BY <1>0, <2>1 DEF TypeOK
    <2> QED BY <1>0, <2>1, <2>2, <2>3, <2>4, <2>5 DEF SuccessIsDurable, AppliedIsDurable
  <1>5. CASE AgentLedgerThrows
    <2>1. agent'.pc = "publishing" /\ ~agent'.ok /\ UNCHANGED <<ledger, results, applied>>
      BY <1>0, <1>5 DEF AgentLedgerThrows, TypeOK, host, topics
    <2> QED BY <1>0, <2>1 DEF SuccessIsDurable, AppliedIsDurable
  <1>6. CASE AgentPublishes
    <2>1. agent'.pc = "idle" /\ agent.pc = "publishing" /\ UNCHANGED <<ledger, applied>>
      BY <1>6 DEF AgentPublishes, IdleAgent, host
    <2>2. \A i \in 1 .. Len(results') : results'[i].ok => ledger[results'[i].op] = "completed"
      BY <1>0, <1>6, <2>1, LogGrows DEF SuccessIsDurable
    <2> QED BY <1>0, <2>1, <2>2 DEF SuccessIsDurable, AppliedIsDurable
  <1>7. CASE AgentRestarts
    <2>1. agent'.pc = "idle" /\ ledger' = Recovered /\ UNCHANGED <<results, applied>>
      BY <1>7 DEF AgentRestarts, IdleAgent, host
    <2>2. \A o \in Op : ledger[o] = "completed" => ledger'[o] = "completed"
      BY <2>1 DEF Recovered
    <2>3. \A i \in 1 .. Len(results) : results[i].op \in Op
      BY <1>0, EntryTyped
    <2> QED BY <1>0, <2>1, <2>2, <2>3 DEF SuccessIsDurable, AppliedIsDurable
  <1>8. CASE ConsumerApplies
    <2>1. offset + 1 \in 1 .. Len(results) /\ Current.op \in Op
      BY <1>8, HeldEntry DEF ConsumerApplies
    <2>2. ledger[Current.op] = "completed"
      BY <1>0, <1>8, <2>1 DEF SuccessIsDurable, ConsumerApplies, Current
    <2>3. applied' = [applied EXCEPT ![Current.op] = @ + 1] /\ UNCHANGED <<ledger, agent, results>>
      BY <1>8 DEF ConsumerApplies
    <2>4. \A o \in Op : applied'[o] > 0 => ledger[o] = "completed"
      BY <1>0, <2>1, <2>2, <2>3 DEF TypeOK, AppliedIsDurable
    <2> QED BY <1>0, <2>3, <2>4 DEF SuccessIsDurable, AppliedIsDurable
  <1>9. ASSUME NEW op \in Op,
               \/ Accept(op) \/ Requeue(op) \/ Cancel(op) \/ Dispatch(op) \/ Republish(op)
               \/ RepublishThrows(op) \/ SendRolledBack(op) \/ GiveUp(op)
        PROVE  UNCHANGED <<ledger, agent, results, applied>>
    BY <1>9 DEF Accept, Requeue, Cancel, Dispatch, Republish, RepublishThrows, SendRolledBack,
                GiveUp, host, topics
  <1>10. ASSUME ConsumerReads \/ ConsumerFails \/ ConsumerThrows \/ HostRestarts
         PROVE  UNCHANGED <<ledger, agent, results, applied>>
    BY <1>10 DEF ConsumerReads, ConsumerFails, ConsumerThrows, HostRestarts
  <1>11. ASSUME UNCHANGED vars PROVE UNCHANGED <<ledger, agent, results, applied>>
    BY <1>11 DEF vars, host, topics
  <1> QED BY <1>1, <1>2, <1>3, <1>4, <1>5, <1>6, <1>7, <1>8, <1>9, <1>10, <1>11 DEF Next

-----------------------------------------------------------------------------
(* The row.  Between the listener's read and its write nobody else applies a  *)
(* result, so the copy it writes back with "completed" had not been applied.  *)

\* A step of the worker or the buyer that completes no row, and takes no completion
\* back, keeps status and application together.
LEMMA RowKept ==
    ASSUME IInv, UNCHANGED <<applied, consumer, results, offset>>,
           \A op \in Op : command'[op].status = "completed" <=> command[op].status = "completed"
    PROVE  CompletedIsAppliedOnce' /\ HeldIsOpen'
  BY DEF IInv, CompletedIsAppliedOnce, HeldIsOpen, Holding, Current

\* Every step keeps status and application together.
LEMMA NextRow == IInv /\ [Next]_vars => CompletedIsAppliedOnce' /\ HeldIsOpen'
  <1> SUFFICES ASSUME IInv, [Next]_vars PROVE CompletedIsAppliedOnce' /\ HeldIsOpen'
    OBVIOUS
  <1>0. TypeOK /\ CompletedIsAppliedOnce /\ HeldIsOpen
    BY DEF IInv
  <1> DEFINE Goal == CompletedIsAppliedOnce' /\ HeldIsOpen'
  <1>1. ASSUME NEW op \in Op, NEW row,
               command' = [command EXCEPT ![op] = row],
               row.status # "completed", command[op].status # "completed",
               UNCHANGED <<applied, consumer, results, offset>>
        PROVE  Goal
    <2>1. \A o \in Op : command'[o].status = "completed" <=> command[o].status = "completed"
      BY <1>0, <1>1 DEF TypeOK
    <2> QED BY <1>1, <2>1, RowKept
  <1>2. ASSUME NEW op \in Op, NEW s, s # "completed",
               command' = [command EXCEPT ![op].status = s],
               command[op].status # "completed",
               UNCHANGED <<applied, consumer, results, offset>>
        PROVE  Goal
    <2>1. command[op] \in Row
      BY <1>0 DEF TypeOK
    <2>2. [command[op] EXCEPT !.status = s].status = s
      BY <2>1 DEF Row
    <2>3. command' = [command EXCEPT ![op] = [command[op] EXCEPT !.status = s]]
      BY <1>2
    <2> QED BY <1>1, <1>2, <2>2, <2>3
  <1>3. ASSUME UNCHANGED <<command, applied, consumer, results, offset>> PROVE Goal
    BY <1>3, RowKept
  <1>4. ASSUME NEW op \in Op, Accept(op) PROVE Goal
    BY <1>2, <1>4 DEF Accept, topics
  <1>5. ASSUME NEW op \in Op, Dispatch(op) PROVE Goal
    <2>1. /\ command[op].status = "pending"
          /\ command' = [command EXCEPT ![op] = Published(op)]
          /\ UNCHANGED <<applied, consumer, results, offset>>
      BY <1>5 DEF Dispatch
    <2>2. Published(op).status # "completed"
      BY DEF Published
    <2> QED BY <1>1, <2>1, <2>2
  <1>6. ASSUME NEW op \in Op, Republish(op) PROVE Goal
    <2>1. /\ command[op].status = "published"
          /\ command' = [command EXCEPT ![op] = Published(op)]
          /\ UNCHANGED <<applied, consumer, results, offset>>
      BY <1>6 DEF Republish, AwaitedTooLong
    <2>2. Published(op).status # "completed"
      BY DEF Published
    <2> QED BY <1>1, <2>1, <2>2
  <1>7. ASSUME NEW op \in Op, RepublishThrows(op) PROVE Goal
    <2>1. /\ command[op].status = "published"
          /\ command' = [command EXCEPT ![op].status = "pending"]
          /\ UNCHANGED <<applied, consumer, results, offset>>
      BY <1>7 DEF RepublishThrows, AwaitedTooLong, topics
    <2> QED BY <1>2, <2>1
  <1>8. ASSUME NEW op \in Op, GiveUp(op) PROVE Goal
    <2>1. /\ command[op].status = "published"
          /\ command' = [command EXCEPT ![op].status = "failed"]
          /\ UNCHANGED <<applied, consumer, results, offset>>
      BY <1>8 DEF GiveUp, AwaitedTooLong, topics
    <2> QED BY <1>2, <2>1
  <1>9. ASSUME NEW op \in Op, Requeue(op) PROVE Goal
    <2>1. /\ command[op].status \in {"failed", "cancelled"}
          /\ command' = [command EXCEPT ![op].status = "pending"]
          /\ UNCHANGED <<applied, consumer, results, offset>>
      BY <1>9 DEF Requeue, MayRequeue, topics
    <2> QED BY <1>2, <2>1
  <1>10. ASSUME NEW op \in Op, Cancel(op) PROVE Goal
    <2>1. command[op].status # "completed" /\ UNCHANGED <<applied, consumer, results, offset>>
      BY <1>0, <1>10 DEF Cancel, CompletedIsAppliedOnce, topics
    <2>2. command' = [command EXCEPT ![op].status = "cancelled"] \/ command' = command
      BY <1>10 DEF Cancel
    <2> QED BY <1>2, <1>3, <2>1, <2>2
  <1>11. CASE AgentPublishes
    <2>1. UNCHANGED <<command, applied, consumer, offset>>
      BY <1>11 DEF AgentPublishes, host
    <2>2. CompletedIsAppliedOnce'
      BY <1>0, <2>1 DEF CompletedIsAppliedOnce
    <2>3. ASSUME Holding PROVE offset < Len(results') /\ results'[offset + 1] = results[offset + 1]
      <3>1. offset + 1 \in 1 .. Len(results)
        BY <2>3, HeldEntry
      <3>2. offset \in Nat /\ Len(results) \in Nat /\ Len(results') \in Nat
        BY <1>0, <1>11, PublishedMessage, AppendLog DEF TypeOK, AgentPublishes
      <3> QED BY <1>11, <3>1, <3>2, LogGrows
    <2> QED BY <1>0, <2>1, <2>2, <2>3 DEF HeldIsOpen, Holding, Current
  <1>12. CASE ConsumerReads
    <2>1. UNCHANGED <<command, applied, results>> /\ offset < Len(results)
      BY <1>12 DEF ConsumerReads
    <2>2. CompletedIsAppliedOnce'
      BY <1>0, <2>1 DEF CompletedIsAppliedOnce
    <2>3. Current.op \in Op
      <3>1. offset + 1 \in 1 .. Len(results)
        BY <1>0, <2>1 DEF TypeOK
      <3> QED BY <1>0, <3>1, EntryTyped DEF Current
    <2>4. CASE AwaitsResult(Current.op)
      <3>1. applied[Current.op] = 0
        BY <1>0, <2>3, <2>4 DEF CompletedIsAppliedOnce, AwaitsResult, Terminal
      <3> QED BY <1>12, <2>1, <2>2, <2>4, <3>1 DEF ConsumerReads, HeldIsOpen, Holding, Current
    <2>5. CASE ~AwaitsResult(Current.op)
      BY <1>12, <2>2, <2>5 DEF ConsumerReads, HeldIsOpen, Holding
    <2> QED BY <2>4, <2>5
  <1>13. CASE ConsumerApplies
    <2>1. Current.op \in Op /\ applied[Current.op] = 0 /\ consumer.row \in Row
      BY <1>0, <1>13, HeldEntry DEF ConsumerApplies, HeldIsOpen
    <2>2. /\ applied' = [applied EXCEPT ![Current.op] = @ + 1]
          /\ command' = [command EXCEPT ![Current.op] = [consumer.row EXCEPT !.status = "completed"]]
          /\ consumer'.pc = "idle"
      BY <1>13 DEF ConsumerApplies, Write, IdleConsumer
    <2>3. [consumer.row EXCEPT !.status = "completed"].status = "completed"
      BY <2>1 DEF Row
    <2>4. CompletedIsAppliedOnce'
      BY <1>0, <2>1, <2>2, <2>3 DEF TypeOK, CompletedIsAppliedOnce
    <2> QED BY <2>2, <2>4 DEF HeldIsOpen, Holding
  <1>14. CASE ConsumerFails
    <2>1. Current.op \in Op /\ applied[Current.op] = 0 /\ consumer.row \in Row
      BY <1>0, <1>14, HeldEntry DEF ConsumerFails, HeldIsOpen
    <2>2. /\ UNCHANGED applied
          /\ command' = [command EXCEPT ![Current.op] = [consumer.row EXCEPT !.status = "failed"]]
          /\ consumer'.pc = "idle"
      BY <1>14 DEF ConsumerFails, Write, IdleConsumer
    <2>3. [consumer.row EXCEPT !.status = "failed"].status = "failed"
      BY <2>1 DEF Row
    <2>4. CompletedIsAppliedOnce'
      BY <1>0, <2>1, <2>2, <2>3 DEF TypeOK, CompletedIsAppliedOnce
    <2> QED BY <2>2, <2>4 DEF HeldIsOpen, Holding
  <1>15. ASSUME ConsumerThrows \/ HostRestarts PROVE Goal
    <2>1. consumer'.pc = "idle" /\ UNCHANGED <<command, applied>>
      BY <1>15 DEF ConsumerThrows, HostRestarts, IdleConsumer
    <2> QED BY <1>0, <2>1 DEF CompletedIsAppliedOnce, HeldIsOpen, Holding
  <1>16. ASSUME NEW op \in Op, SendRolledBack(op) \/ AgentClaims(op) \/ AgentReplays(op)
         PROVE  UNCHANGED <<command, applied, consumer, results, offset>>
    BY <1>16 DEF SendRolledBack, AgentClaims, AgentReplays, host
  <1>17. ASSUME NEW ok \in BOOLEAN, AgentFinishes(ok)
         PROVE  UNCHANGED <<command, applied, consumer, results, offset>>
    BY <1>17 DEF AgentFinishes, host, topics
  <1>18. ASSUME AgentLedgerThrows \/ AgentRestarts \/ UNCHANGED vars
         PROVE  UNCHANGED <<command, applied, consumer, results, offset>>
    BY <1>18 DEF AgentLedgerThrows, AgentRestarts, vars, host, topics
  <1> QED BY <1>3, <1>4, <1>5, <1>6, <1>7, <1>8, <1>9, <1>10, <1>11, <1>12, <1>13, <1>14, <1>15,
             <1>16, <1>17, <1>18 DEF Next

-----------------------------------------------------------------------------
(* What the host's steps on one operation touch.                            *)

\* A step that touches, of what the host keeps, only what belongs to op.
Touches(op) ==
    \A o \in Op \ {op} :
        /\ command'[o] = command[o]
        /\ sent'[o] = sent[o]
        /\ applied'[o] = applied[o]
        /\ gaveUp'[o] = gaveUp[o]

\* The host's writes of one command touch that command only.
LEMMA WorkerTouches ==
    ASSUME IInv, NEW op \in Op,
           \/ Accept(op) \/ Requeue(op) \/ RepublishThrows(op) \/ Dispatch(op) \/ Republish(op)
           \/ SendRolledBack(op) \/ GiveUp(op) \/ Cancel(op)
    PROVE  Touches(op)
  <1>0. /\ command \in [Op -> Row]
        /\ sent \in [Op -> Nat]
        /\ gaveUp \in [Op -> {"no", "failed", "cancelled"}]
    BY DEF IInv, TypeOK
  <1>1. CASE Accept(op)
    BY <1>0, <1>1 DEF Accept, Touches, topics
  <1>2. CASE Requeue(op)
    BY <1>0, <1>2 DEF Requeue, Touches, topics
  <1>3. CASE RepublishThrows(op)
    BY <1>0, <1>3 DEF RepublishThrows, Touches, topics
  <1>4. CASE Dispatch(op)
    BY <1>0, <1>4 DEF Dispatch, Send, Touches
  <1>5. CASE Republish(op)
    BY <1>0, <1>5 DEF Republish, Send, Touches
  <1>6. CASE SendRolledBack(op)
    BY <1>0, <1>6 DEF SendRolledBack, Touches, host
  <1>7. CASE GiveUp(op)
    BY <1>0, <1>7 DEF GiveUp, RecordTerminalFailure, Touches, topics
  <1>8. CASE Cancel(op)
    BY <1>0, <1>8 DEF Cancel, Touches, topics
  <1> QED BY <1>1, <1>2, <1>3, <1>4, <1>5, <1>6, <1>7, <1>8

\* The listener's writes: the row it holds, and the verdict of its operation.
LEMMA ListenerTouches ==
    ASSUME IInv, ConsumerApplies \/ ConsumerFails
    PROVE  Current.op \in Op /\ Touches(Current.op)
  <1>0. /\ command \in [Op -> Row]
        /\ applied \in [Op -> Nat]
        /\ gaveUp \in [Op -> {"no", "failed", "cancelled"}]
    BY DEF IInv, TypeOK
  <1>1. Current.op \in Op
    BY HeldEntry DEF ConsumerApplies, ConsumerFails
  <1>2. CASE ConsumerApplies
    BY <1>0, <1>1, <1>2 DEF ConsumerApplies, Write, Touches
  <1>3. CASE ConsumerFails
    BY <1>0, <1>1, <1>3 DEF ConsumerFails, RecordTerminalFailure, Write, Touches
  <1> QED BY <1>1, <1>2, <1>3

\* The status each of them leaves the row with.
LEMMA StatusAfter ==
    ASSUME IInv, NEW op \in Op
    PROVE  /\ Accept(op) \/ Requeue(op) \/ RepublishThrows(op) => command'[op].status = "pending"
           /\ Dispatch(op) \/ Republish(op) => command'[op].status = "published"
           /\ GiveUp(op) => command'[op].status = "failed"
           /\ SendRolledBack(op) => command'[op] = command[op]
           /\ Cancel(op) => \/ command'[op].status = "cancelled"
                            \/ command'[op] = command[op] /\ command[op].status # "none"
           /\ ConsumerApplies /\ op = Current.op => command'[op].status = "completed"
           /\ ConsumerFails /\ op = Current.op => command'[op].status = "failed"
  <1>0. command \in [Op -> Row] /\ command[op] \in [status : {"none", "pending", "published"} \cup Terminal, attempts : Nat]
    BY DEF IInv, TypeOK, Row
  <1>1. ASSUME NEW s, command' = [command EXCEPT ![op].status = s] PROVE command'[op].status = s
    <2>1. command'[op] = [command[op] EXCEPT !.status = s]
      BY <1>0, <1>1
    <2> QED BY <1>0, <2>1
  <1>2. Accept(op) => command'[op].status = "pending"
    BY <1>1 DEF Accept
  <1>3. Requeue(op) => command'[op].status = "pending"
    BY <1>1 DEF Requeue
  <1>4. RepublishThrows(op) => command'[op].status = "pending"
    BY <1>1 DEF RepublishThrows
  <1>5. Dispatch(op) => command'[op].status = "published"
    BY <1>0 DEF Dispatch, Published
  <1>6. Republish(op) => command'[op].status = "published"
    BY <1>0 DEF Republish, Published
  <1>7. GiveUp(op) => command'[op].status = "failed"
    BY <1>1 DEF GiveUp
  <1>8. SendRolledBack(op) => command'[op] = command[op]
    BY DEF SendRolledBack, host
  <1>9. Cancel(op) => \/ command'[op].status = "cancelled"
                      \/ command'[op] = command[op] /\ command[op].status # "none"
    BY <1>1 DEF Cancel, Terminal
  <1>10. ASSUME NEW s, Holding, op = Current.op, Write(op, s) PROVE command'[op].status = s
    <2>1. consumer.row \in [status : {"none", "pending", "published"} \cup Terminal, attempts : Nat]
      BY <1>10, HeldEntry DEF Row
    <2>2. command'[op] = [consumer.row EXCEPT !.status = s]
      BY <1>0, <1>10 DEF Write
    <2> QED BY <2>1, <2>2
  <1>11. ConsumerApplies /\ op = Current.op => command'[op].status = "completed"
    BY <1>10 DEF ConsumerApplies
  <1>12. ConsumerFails /\ op = Current.op => command'[op].status = "failed"
    BY <1>10 DEF ConsumerFails
  <1> QED BY <1>2, <1>3, <1>4, <1>5, <1>6, <1>7, <1>8, <1>9, <1>11, <1>12

-----------------------------------------------------------------------------
(* Only accepted commands are known to the agent and to the log.            *)

\* A step that touches one accepted command keeps OnlyAccepted.
LEMMA HostStepAccepted ==
    ASSUME IInv, NEW op \in Op, Touches(op), command'[op].status # "none", UNCHANGED <<agent, results>>
    PROVE  OnlyAccepted'
  <1>1. ASSUME NEW o \in Op, command'[o].status = "none"
        PROVE  o # op /\ command[o].status = "none"
    BY <1>1 DEF Touches
  <1> QED BY <1>1 DEF IInv, OnlyAccepted, Touches

\* A command with a record in the log has been accepted.
LEMMA LogAccepted ==
    ASSUME IInv, NEW i \in 1 .. Len(results)
    PROVE  command[results[i].op].status # "none"
  BY EntryTyped DEF IInv, OnlyAccepted

\* A step of the agent that takes up, and publishes, accepted commands only keeps
\* OnlyAccepted.
LEMMA AgentStepAccepted ==
    ASSUME IInv, UNCHANGED <<command, sent, applied, gaveUp>>,
           agent'.pc # "idle" => agent'.op \in Op,
           agent'.op \in Op => command[agent'.op].status # "none",
           \A i \in 1 .. Len(results') :
              \/ i \in 1 .. Len(results) /\ results'[i] = results[i]
              \/ command[results'[i].op].status # "none"
    PROVE  OnlyAccepted'
  BY LogAccepted DEF IInv, OnlyAccepted

\* Nothing is on its way for a command that was not accepted.
LEMMA NextOnlyAccepted == IInv /\ [Next]_vars => OnlyAccepted'
  <1> SUFFICES ASSUME IInv, [Next]_vars PROVE OnlyAccepted'
    OBVIOUS
  <1>0. /\ OnlyAccepted
        /\ sent \in [Op -> Nat] /\ read \in [Op -> Nat]
        /\ agent \in [pc : {"idle", "dispatching", "publishing"}, op : Op \cup {NoOp}, ok : BOOLEAN]
    BY DEF IInv, TypeOK
  <1>1. ASSUME NEW op \in Op,
               \/ Accept(op) \/ Requeue(op) \/ RepublishThrows(op) \/ Dispatch(op) \/ Republish(op)
               \/ GiveUp(op) \/ SendRolledBack(op) \/ Cancel(op)
        PROVE  OnlyAccepted'
    <2>1. UNCHANGED <<agent, results>>
      BY <1>1 DEF Accept, Requeue, RepublishThrows, Dispatch, Republish, GiveUp, SendRolledBack,
                  Cancel, topics
    <2>2. Touches(op)
      BY <1>1, WorkerTouches
    <2>3. SendRolledBack(op) => command[op].status # "none"
      BY DEF SendRolledBack
    <2>4. command'[op].status # "none"
      BY <1>1, <2>3, StatusAfter
    <2> QED BY <2>1, <2>2, <2>4, HostStepAccepted
  <1>2. CASE ConsumerApplies \/ ConsumerFails
    <2>1. UNCHANGED <<agent, results>>
      BY <1>2 DEF ConsumerApplies, ConsumerFails
    <2>2. Current.op \in Op /\ Touches(Current.op)
      BY <1>2, ListenerTouches
    <2>3. command'[Current.op].status # "none"
      BY <1>2, <2>2, StatusAfter
    <2> QED BY <2>1, <2>2, <2>3, HostStepAccepted
  <1>3. CASE UNCHANGED <<command, sent, applied, gaveUp, agent, results>>
    BY <1>0, <1>3 DEF OnlyAccepted
  <1>4. ASSUME NEW op \in Op, AgentClaims(op) \/ AgentReplays(op) PROVE OnlyAccepted'
    <2>1. /\ UNCHANGED <<command, sent, applied, gaveUp, results>>
          /\ agent'.op = op
          /\ Unread(op)
      BY <1>4 DEF AgentClaims, AgentReplays, host
    <2>2. command[op].status # "none"
      BY <1>0, <2>1 DEF Unread, OnlyAccepted
    <2> QED BY <2>1, <2>2, AgentStepAccepted
  <1>5. ASSUME (\E ok \in BOOLEAN : AgentFinishes(ok)) \/ AgentLedgerThrows PROVE OnlyAccepted'
    <2>1. /\ UNCHANGED <<command, sent, applied, gaveUp, results>>
          /\ agent'.op = agent.op
          /\ agent.pc = "dispatching"
      BY <1>0, <1>5 DEF AgentFinishes, AgentLedgerThrows, host, topics
    <2>2. agent.op \in Op /\ command[agent.op].status # "none"
      BY <1>0, <2>1 DEF OnlyAccepted
    <2> QED BY <2>1, <2>2, AgentStepAccepted
  <1>6. CASE AgentPublishes
    <2>1. UNCHANGED <<command, sent, applied, gaveUp>> /\ agent'.op = NoOp /\ agent'.pc = "idle"
      BY <1>6 DEF AgentPublishes, IdleAgent, host
    <2>2. agent.op \in Op /\ command[agent.op].status # "none"
      BY <1>0, <1>6 DEF OnlyAccepted, AgentPublishes
    <2>3. \A i \in 1 .. Len(results') :
             \/ i \in 1 .. Len(results) /\ results'[i] = results[i]
             \/ command[results'[i].op].status # "none"
      BY <1>6, <2>2, LogGrows
    <2> QED BY <2>1, <2>3, AgentStepAccepted, AgentCommandAssumption
  <1>7. CASE AgentRestarts
    <2>1. UNCHANGED <<command, sent, applied, gaveUp, results>> /\ agent'.op = NoOp /\ agent'.pc = "idle"
      BY <1>7 DEF AgentRestarts, IdleAgent, host
    <2> QED BY <2>1, AgentStepAccepted, AgentCommandAssumption
  <1>8. ASSUME ConsumerReads \/ ConsumerThrows \/ HostRestarts
        PROVE  UNCHANGED <<command, sent, applied, gaveUp, agent, results>>
    BY <1>8 DEF ConsumerReads, ConsumerThrows, HostRestarts
  <1>9. ASSUME UNCHANGED vars PROVE UNCHANGED <<command, sent, applied, gaveUp, agent, results>>
    BY <1>9 DEF vars, host, topics
  <1> QED BY <1>1, <1>2, <1>3, <1>4, <1>5, <1>6, <1>7, <1>8, <1>9 DEF Next

-----------------------------------------------------------------------------
(* Verdicts.                                                                *)

\* What a step that touches only op has to leave op with.
LEMMA VerdictStep ==
    ASSUME IInv, NEW op \in Op, Touches(op),
           gaveUp'[op] # "no" => op \in Analyze /\ applied'[op] = 0,
           op \in Analyze => /\ command'[op].status = "cancelled" => gaveUp'[op] = "cancelled"
                             /\ command'[op].status = "failed" => gaveUp'[op] # "no"
    PROVE  VerdictKinds' /\ OneAnalysisVerdict'
  <1>1. VerdictKinds'
    BY DEF IInv, VerdictKinds, Touches
  <1>2. \A o \in Analyze : o \in Op
    BY AgentCommandAssumption
  <1>3. ASSUME NEW o \in Analyze PROVE applied'[o] > 0 => gaveUp'[o] = "no"
    BY <1>1, <1>2 DEF VerdictKinds
  <1> QED BY <1>2, <1>3, <1>1 DEF IInv, OneAnalysisVerdict, Touches

\* Every step keeps the verdicts of analyses apart.
LEMMA NextVerdict == IInv /\ [Next]_vars => VerdictKinds' /\ OneAnalysisVerdict'
  <1> SUFFICES ASSUME IInv, [Next]_vars PROVE VerdictKinds' /\ OneAnalysisVerdict'
    OBVIOUS
  <1>0. /\ VerdictKinds /\ OneAnalysisVerdict
        /\ applied \in [Op -> Nat]
        /\ gaveUp \in [Op -> {"no", "failed", "cancelled"}]
    BY DEF IInv, TypeOK
  <1>1. ASSUME NEW op \in Op,
               \/ Accept(op) \/ Requeue(op) \/ RepublishThrows(op) \/ Dispatch(op) \/ Republish(op)
               \/ SendRolledBack(op)
        PROVE  VerdictKinds' /\ OneAnalysisVerdict'
    <2>1. UNCHANGED <<applied, gaveUp>>
      BY <1>1 DEF Accept, Requeue, RepublishThrows, Dispatch, Republish, SendRolledBack, host
    <2>2. command'[op].status \in {"pending", "published"}
      <3>1. SendRolledBack(op) => command[op].status \in {"pending", "published"}
        BY DEF SendRolledBack
      <3> QED BY <1>1, <3>1, StatusAfter
    <2>3. Touches(op)
      BY <1>1, WorkerTouches
    <2> QED BY <1>0, <2>1, <2>2, <2>3, VerdictStep DEF VerdictKinds
  <1>2. ASSUME NEW op \in Op, GiveUp(op) PROVE VerdictKinds' /\ OneAnalysisVerdict'
    <2>1. gaveUp'[op] = VerdictAfterFailure(op) /\ UNCHANGED applied
      BY <1>0, <1>2 DEF GiveUp, RecordTerminalFailure
    <2>2. command[op].status = "published"
      BY <1>2 DEF GiveUp, AwaitedTooLong
    <2>3. applied[op] = 0
      BY <2>2 DEF IInv, CompletedIsAppliedOnce
    <2>4. Touches(op) /\ command'[op].status = "failed"
      BY <1>2, WorkerTouches, StatusAfter
    <2> QED BY <1>0, <2>1, <2>3, <2>4, VerdictStep DEF VerdictKinds, VerdictAfterFailure
  <1>3. ASSUME NEW op \in Op, Cancel(op) PROVE VerdictKinds' /\ OneAnalysisVerdict'
    <2>1. op \in Analyze /\ applied[op] = 0 /\ gaveUp'[op] = "cancelled" /\ UNCHANGED applied
      BY <1>0, <1>3 DEF Cancel
    <2>2. Touches(op)
      BY <1>3, WorkerTouches
    <2> QED BY <2>1, <2>2, VerdictStep
  <1>4. CASE ConsumerApplies
    <2>1. Current.op \in Op /\ Touches(Current.op)
      BY <1>4, ListenerTouches
    <2>2. command'[Current.op].status = "completed"
      BY <1>4, <2>1, StatusAfter
    <2>3. gaveUp'[Current.op] = "no"
      BY <1>4 DEF ConsumerApplies, Applies
    <2> QED BY <2>1, <2>2, <2>3, VerdictStep
  <1>5. CASE ConsumerFails
    <2>1. Current.op \in Op /\ Touches(Current.op)
      BY <1>5, ListenerTouches
    <2>2. command'[Current.op].status = "failed"
      BY <1>5, <2>1, StatusAfter
    <2>3. applied'[Current.op] = 0 /\ applied[Current.op] = 0
      BY <1>5 DEF ConsumerFails, IInv, HeldIsOpen
    <2>4. gaveUp'[Current.op] = VerdictAfterFailure(Current.op)
      BY <1>0, <1>5, <2>1 DEF ConsumerFails, RecordTerminalFailure
    <2> QED BY <1>0, <2>1, <2>2, <2>3, <2>4, VerdictStep DEF VerdictKinds, VerdictAfterFailure
  <1>6. CASE UNCHANGED <<command, applied, gaveUp>>
    BY <1>0, <1>6 DEF VerdictKinds, OneAnalysisVerdict
  <1>7. ASSUME NEW op \in Op, AgentClaims(op) \/ AgentReplays(op) PROVE UNCHANGED <<command, applied, gaveUp>>
    BY <1>7 DEF AgentClaims, AgentReplays, host
  <1>8. ASSUME NEW ok \in BOOLEAN, AgentFinishes(ok) PROVE UNCHANGED <<command, applied, gaveUp>>
    BY <1>8 DEF AgentFinishes, host
  <1>9. ASSUME AgentLedgerThrows \/ AgentPublishes \/ AgentRestarts \/ UNCHANGED vars
        PROVE  UNCHANGED <<command, applied, gaveUp>>
    BY <1>9 DEF AgentLedgerThrows, AgentPublishes, AgentRestarts, vars, host
  <1>10. ASSUME ConsumerReads \/ ConsumerThrows \/ HostRestarts PROVE UNCHANGED <<command, applied, gaveUp>>
    BY <1>10 DEF ConsumerReads, ConsumerThrows, HostRestarts
  <1> QED BY <1>1, <1>2, <1>3, <1>4, <1>5, <1>6, <1>7, <1>8, <1>9, <1>10 DEF Next

-----------------------------------------------------------------------------
(* The invariant and the theorems.                                          *)

\* The strengthening is inductive.
LEMMA NextInv == IInv /\ [Next]_vars => IInv'
  <1> SUFFICES ASSUME IInv, [Next]_vars PROVE IInv'
    OBVIOUS
  <1> QED BY NextTyped, NextRow, NextDurable, NextOnlyAccepted, NextVerdict DEF IInv

\* It holds in every reachable state.
LEMMA Invariance == Spec => []IInv
  BY InitInv, NextInv, PTL DEF Spec

\* The variables of the delivery keep their types: in particular the agent never
\* reads beyond what was sent, and the listener never beyond the log.
THEOREM TypeCorrect == Spec => []TypeOK
  <1>1. IInv => TypeOK
    BY DEF IInv
  <1> QED BY <1>1, Invariance, PTL

\* KafkaResultConsumer applies the result of a command at most once, and the
\* outbox row says completed exactly when it did, for any number of commands,
\* sends, redeliveries, requeues and restarts.
THEOREM AppliedOnce == Spec => []CompletedIsAppliedOnce
  <1>1. IInv => CompletedIsAppliedOnce
    BY DEF IInv
  <1> QED BY <1>1, Invariance, PTL

\* A result the host has applied is in the agent's ledger as completed and stays
\* there: no restart of the agent opens that operation again.
THEOREM Durable == Spec => []AppliedIsDurable
  <1>1. IInv => AppliedIsDurable
    BY DEF IInv
  <1> QED BY <1>1, Invariance, PTL

\* An analysis gets one verdict: applied, or failed and perhaps cancelled
\* afterwards; the row of the command and the AI task agree about a failure.
THEOREM OneVerdict == Spec => []OneAnalysisVerdict
  <1>1. IInv => OneAnalysisVerdict
    BY DEF IInv
  <1> QED BY <1>1, Invariance, PTL

-----------------------------------------------------------------------------
(* How often the agent dispatches.                                           *)

\* A claim is open only when it was never dispatched, or when a restart has
\* released it: that restart pays for the dispatch to come.
DispatchesPaid ==
    \A op \in Op \ Answer :
        /\ ledger[op] = "absent" => runs[op] = 0
        /\ ledger[op] = "accepted" => runs[op] <= stops.agent
        /\ runs[op] <= 1 + stops.agent

\* Every step keeps the dispatches paid for.
LEMMA NextDispatches == IInv /\ DispatchesPaid /\ [Next]_vars => DispatchesPaid'
  <1> SUFFICES ASSUME IInv, DispatchesPaid, [Next]_vars PROVE DispatchesPaid'
    OBVIOUS
  <1>0. /\ runs \in [Op -> Nat] /\ ledger \in [Op -> LedgerStatus]
        /\ stops \in [agent : Nat, host : Nat] /\ stops.agent \in Nat
    BY DEF IInv, TypeOK
  <1>1. ASSUME NEW op \in Op, AgentClaims(op) PROVE DispatchesPaid'
    <2>1. /\ ledger' = [ledger EXCEPT ![op] = "executing"]
          /\ runs' = [runs EXCEPT ![op] = @ + 1]
          /\ UNCHANGED stops
      BY <1>1 DEF AgentClaims
    <2>2. op \notin Answer => ledger[op] \in {"absent", "accepted"}
      BY <1>1 DEF AgentClaims, Claimable
    <2>3. op \notin Answer => runs[op] <= stops.agent
      BY <1>0, <2>2 DEF DispatchesPaid
    <2>4. ASSUME NEW o \in Op \ Answer, o = op PROVE ledger'[o] = "executing" /\ runs'[o] <= 1 + stops'.agent
      BY <1>0, <2>1, <2>3, <2>4
    <2>5. ASSUME NEW o \in Op \ Answer, o # op PROVE ledger'[o] = ledger[o] /\ runs'[o] = runs[o]
      BY <1>0, <2>1, <2>5
    <2> QED BY <2>1, <2>4, <2>5 DEF DispatchesPaid
  <1>2. ASSUME NEW ok \in BOOLEAN, AgentFinishes(ok) PROVE DispatchesPaid'
    <2>1. /\ ledger' = [ledger EXCEPT ![agent.op] = IF ok THEN "completed" ELSE "failed"]
          /\ UNCHANGED <<runs, stops>>
      BY <1>2 DEF AgentFinishes, history
    <2>2. \A o \in Op : ledger'[o] \in {ledger[o], "completed", "failed"}
      BY <1>0, <2>1
    <2> QED BY <2>1, <2>2 DEF DispatchesPaid
  <1>3. CASE AgentRestarts
    <2>1. stops'.agent = stops.agent + 1 /\ UNCHANGED runs /\ ledger' = Recovered
      BY <1>0, <1>3 DEF AgentRestarts
    <2>2. \A o \in Op : ledger'[o] = "absent" => ledger[o] = "absent"
      BY <2>1 DEF Recovered
    <2> QED BY <1>0, <2>1, <2>2 DEF DispatchesPaid
  <1>4. CASE UNCHANGED <<ledger, runs, stops>>
    BY <1>4 DEF DispatchesPaid
  <1>5. ASSUME NEW op \in Op,
               \/ Accept(op) \/ Requeue(op) \/ Cancel(op) \/ Dispatch(op) \/ Republish(op)
               \/ RepublishThrows(op) \/ SendRolledBack(op) \/ GiveUp(op) \/ AgentReplays(op)
        PROVE  UNCHANGED <<ledger, runs, stops>>
    BY <1>5
    DEF Accept, Requeue, Cancel, Dispatch, Republish, RepublishThrows, SendRolledBack, GiveUp, AgentReplays, history
  <1>6. ASSUME AgentLedgerThrows \/ AgentPublishes \/ ConsumerReads \/ ConsumerApplies \/ ConsumerFails
               \/ ConsumerThrows \/ UNCHANGED vars
        PROVE  UNCHANGED <<ledger, runs, stops>>
    BY <1>6
    DEF AgentLedgerThrows, AgentPublishes, ConsumerReads, ConsumerApplies, ConsumerFails, ConsumerThrows, vars, history
  <1>7. CASE HostRestarts
    <2>1. UNCHANGED <<ledger, runs>> /\ stops'.agent = stops.agent
      BY <1>0, <1>7 DEF HostRestarts
    <2> QED BY <2>1 DEF DispatchesPaid
  <1> QED BY <1>1, <1>2, <1>3, <1>4, <1>5, <1>6, <1>7 DEF Next

\* However often a command is sent, redelivered or read again, the agent works
\* on it once, and once more for every restart of its process; answers, which
\* reopen_failed may open again, are the only exception.
THEOREM RerunsArePaid == Spec => []RerunNeedsRestart
  <1>1. Init => DispatchesPaid
    BY DEF Init, DispatchesPaid
  <1>2. DispatchesPaid => RerunNeedsRestart
    BY DEF DispatchesPaid, RerunNeedsRestart
  <1> QED BY <1>1, <1>2, Invariance, NextDispatches, PTL DEF Spec

-----------------------------------------------------------------------------
(* The refinement.  A step that touches op moves its verdict as the promise  *)
(* allows, or not at all.                                                    *)

VerdictOf(op) ==
    IF command[op].status = "none" THEN "none"
    ELSE IF applied[op] > 0 THEN "applied"
    ELSE IF gaveUp[op] # "no" THEN gaveUp[op]
    ELSE "open"

Moved(op) ==
    \/ VerdictOf(op)' = VerdictOf(op)
    \/ VerdictOf(op) = "none" /\ VerdictOf(op)' = "open"
    \/ VerdictOf(op) = "open" /\ VerdictOf(op)' = "applied"
    \/ VerdictOf(op) = "open" /\ VerdictOf(op)' = "failed"
    \/ VerdictOf(op) \in {"open", "failed"} /\ VerdictOf(op)' = "cancelled"

\* A verdict moved as described is a step of CommandVerdict.
LEMMA MovedStep ==
    ASSUME NEW op \in Op, Touches(op), Moved(op)
    PROVE  [Promise!Next]_Verdict
  <1>1. Verdict = [o \in Op |-> VerdictOf(o)] /\ Verdict' = [o \in Op |-> VerdictOf(o)']
    BY DEF Verdict, VerdictOf
  <1>2. \A o \in Op \ {op} : VerdictOf(o)' = VerdictOf(o)
    BY DEF Touches, VerdictOf
  <1>3. Verdict' = [Verdict EXCEPT ![op] = VerdictOf(op)'] /\ Verdict[op] = VerdictOf(op)
    BY <1>1, <1>2
  <1>4. CASE VerdictOf(op)' = VerdictOf(op)
    BY <1>1, <1>2, <1>4
  <1>5. CASE VerdictOf(op)' # VerdictOf(op)
    BY <1>3, <1>5
    DEF Moved, Promise!Next, Promise!Accept, Promise!Apply, Promise!Refuse, Promise!Cancel, Promise!Give
  <1> QED BY <1>4, <1>5

\* Every step of the delivery is a step of CommandVerdict or a stutter.
LEMMA StepRefines == IInv /\ [Next]_vars => [Promise!Next]_Verdict
  <1> SUFFICES ASSUME IInv, [Next]_vars PROVE [Promise!Next]_Verdict
    OBVIOUS
  <1>0. /\ VerdictKinds /\ CompletedIsAppliedOnce /\ OnlyAccepted
        /\ applied \in [Op -> Nat]
        /\ gaveUp \in [Op -> {"no", "failed", "cancelled"}]
    BY DEF IInv, TypeOK
  <1>1. ASSUME NEW op \in Op, Accept(op) PROVE [Promise!Next]_Verdict
    <2>1. command[op].status = "none" /\ UNCHANGED <<applied, gaveUp>>
      BY <1>1 DEF Accept
    <2>2. Touches(op) /\ command'[op].status = "pending"
      BY <1>1, WorkerTouches, StatusAfter
    <2>3. applied[op] = 0 /\ gaveUp[op] = "no"
      BY <1>0, <2>1 DEF OnlyAccepted
    <2>4. Moved(op)
      BY <2>1, <2>2, <2>3 DEF Moved, VerdictOf
    <2> QED BY <2>2, <2>4, MovedStep
  <1>2. ASSUME NEW op \in Op,
               \/ Requeue(op) \/ RepublishThrows(op) \/ Dispatch(op) \/ Republish(op) \/ SendRolledBack(op)
        PROVE [Promise!Next]_Verdict
    <2>1. command[op].status # "none" /\ UNCHANGED <<applied, gaveUp>>
      BY <1>2 DEF Requeue, MayRequeue, RepublishThrows, Dispatch, Republish, AwaitedTooLong, SendRolledBack, host
    <2>2. Touches(op) /\ command'[op].status # "none"
      BY <1>2, <2>1, WorkerTouches, StatusAfter
    <2>3. Moved(op)
      BY <2>1, <2>2 DEF Moved, VerdictOf
    <2> QED BY <2>2, <2>3, MovedStep
  <1>3. ASSUME NEW op \in Op, GiveUp(op) PROVE [Promise!Next]_Verdict
    <2>1. command[op].status = "published" /\ UNCHANGED applied /\ gaveUp'[op] = VerdictAfterFailure(op)
      BY <1>0, <1>3 DEF GiveUp, AwaitedTooLong, RecordTerminalFailure
    <2>2. Touches(op) /\ command'[op].status = "failed"
      BY <1>3, WorkerTouches, StatusAfter
    <2>3. Moved(op)
      BY <1>0, <2>1, <2>2 DEF Moved, VerdictOf, VerdictAfterFailure, CompletedIsAppliedOnce
    <2> QED BY <2>2, <2>3, MovedStep
  <1>4. ASSUME NEW op \in Op, Cancel(op) PROVE [Promise!Next]_Verdict
    <2>1. /\ command[op].status # "none" /\ applied[op] = 0 /\ gaveUp[op] \in {"no", "failed"}
          /\ UNCHANGED applied /\ gaveUp'[op] = "cancelled"
      BY <1>0, <1>4 DEF Cancel
    <2>2. Touches(op) /\ command'[op].status # "none"
      BY <1>4, WorkerTouches, StatusAfter
    <2>3. Moved(op)
      BY <2>1, <2>2 DEF Moved, VerdictOf
    <2> QED BY <2>2, <2>3, MovedStep
  <1>5. CASE ConsumerApplies
    <2>1. PICK op \in Op : op = Current.op /\ Touches(op) /\ applied[op] = 0
      BY <1>5, ListenerTouches DEF IInv, HeldIsOpen, ConsumerApplies
    <2>2. command[op].status # "none"
      <3>1. offset + 1 \in 1 .. Len(results)
        BY <1>5, HeldEntry DEF ConsumerApplies
      <3> QED BY <2>1, <3>1, LogAccepted DEF Current
    <2>3. command'[op].status = "completed"
      BY <1>5, <2>1, StatusAfter
    <2>4. gaveUp[op] = "no" /\ applied'[op] = 1
      BY <1>0, <1>5, <2>1 DEF ConsumerApplies, Applies
    <2>5. Moved(op)
      BY <2>1, <2>2, <2>3, <2>4 DEF Moved, VerdictOf
    <2> QED BY <2>1, <2>5, MovedStep
  <1>6. CASE ConsumerFails
    <2>1. PICK op \in Op : op = Current.op /\ Touches(op) /\ applied[op] = 0
      BY <1>6, ListenerTouches DEF IInv, HeldIsOpen, ConsumerFails
    <2>2. command[op].status # "none"
      <3>1. offset + 1 \in 1 .. Len(results)
        BY <1>6, HeldEntry DEF ConsumerFails
      <3> QED BY <2>1, <3>1, LogAccepted DEF Current
    <2>3. command'[op].status = "failed"
      BY <1>6, <2>1, StatusAfter
    <2>4. gaveUp'[op] = VerdictAfterFailure(op) /\ UNCHANGED applied
      BY <1>0, <1>6, <2>1 DEF ConsumerFails, RecordTerminalFailure
    <2>5. Moved(op)
      BY <2>1, <2>2, <2>3, <2>4 DEF Moved, VerdictOf, VerdictAfterFailure
    <2> QED BY <2>1, <2>5, MovedStep
  <1>7. CASE UNCHANGED <<command, applied, gaveUp>>
    BY <1>7 DEF Verdict
  <1>8. ASSUME NEW op \in Op, AgentClaims(op) \/ AgentReplays(op) PROVE UNCHANGED <<command, applied, gaveUp>>
    BY <1>8 DEF AgentClaims, AgentReplays, host
  <1>9. ASSUME NEW ok \in BOOLEAN, AgentFinishes(ok) PROVE UNCHANGED <<command, applied, gaveUp>>
    BY <1>9 DEF AgentFinishes, host
  <1>10. ASSUME AgentLedgerThrows \/ AgentPublishes \/ AgentRestarts \/ UNCHANGED vars
         PROVE  UNCHANGED <<command, applied, gaveUp>>
    BY <1>10 DEF AgentLedgerThrows, AgentPublishes, AgentRestarts, vars, host
  <1>11. ASSUME ConsumerReads \/ ConsumerThrows \/ HostRestarts PROVE UNCHANGED <<command, applied, gaveUp>>
    BY <1>11 DEF ConsumerReads, ConsumerThrows, HostRestarts
  <1> QED BY <1>1, <1>2, <1>3, <1>4, <1>5, <1>6, <1>7, <1>8, <1>9, <1>10, <1>11 DEF Next

\* Outbox, Kafka, ledger and listener together are one verdict per command: the
\* steps of the delivery are steps of CommandVerdict or leave the verdict alone.
THEOREM Implements == Spec => ImplementsVerdict
  <1>1. Init => Promise!Init
    BY DEF Init, Promise!Init, Verdict
  <1> QED BY <1>1, Invariance, StepRefines, PTL DEF Spec, ImplementsVerdict, Promise!Spec

===============================================================================
