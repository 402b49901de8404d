--------------------------- MODULE FulfilmentProofs ---------------------------
(***************************************************************************)
(* Fulfilment proved for every set of orders, invoices, commands and keys  *)
(* and every quantity: type correctness, the payment gate and what it      *)
(* freezes, and the tie between receipts, settlement and closing.          *)
(***************************************************************************)
EXTENDS Fulfilment, FiniteSetTheorems, TLAPS

(* Absent values and requests have the shapes TypeOK gives them. *)
LEMMA ConstantsTyped ==
    /\ NoRequest \in OrderRequest
    /\ NotUploaded \in [order : Orders \cup {NoOrder}, status : CommandStatus]
    /\ Unregistered \in [order : Orders \cup {NoOrder}, quantity : 0 .. Quantity,
                         matched : BOOLEAN, status : InvoiceStatus]
  BY FulfilmentAssumption
     DEF NoRequest, OrderRequest, NotUploaded, CommandStatus, Unregistered, InvoiceStatus

\* Init is typed.
LEMMA InitTyped == Init => TypeOK
  <1>1. 0 \in 0 .. Quantity
    BY FulfilmentAssumption
  <1> QED BY <1>1, ConstantsTyped DEF Init, TypeOK, OrderStatus, SettlementStatus

(* Type correctness: no step of any transaction leaves the declared shapes. *)
LEMMA NextTyped == TypeOK /\ [Next]_vars => TypeOK'
  <1> SUFFICES ASSUME TypeOK, [Next]_vars PROVE TypeOK'
    OBVIOUS
  <1>1. ASSUME NEW o \in Orders, NEW k \in Keys, Ship(o, k) PROVE TypeOK'
    <2>1. order' \in [Orders -> [status : OrderStatus, received : 0 .. Quantity]]
      <3>1. order' = [order EXCEPT ![o].status = "SHIPPED"] /\ "SHIPPED" \in OrderStatus
        BY <1>1 DEF Ship, OrderStatus
      <3>2. order \in [Orders -> [status : OrderStatus, received : 0 .. Quantity]]
        BY DEF TypeOK
      <3> QED BY <3>1, <3>2
    <2>2. orderIdem' \in [Orders -> [Keys -> OrderRequest]]
      BY <1>1, FulfilmentAssumption DEF TypeOK, Ship, Remember, OrderRequest
    <2> QED BY <1>1, <2>1, <2>2 DEF TypeOK, Ship
  <1>2. ASSUME NEW o \in Orders, NEW k \in Keys, NEW q \in 1 .. Quantity, Receive(o, k, q)
        PROVE  TypeOK'
    <2>1. order' \in [Orders -> [status : OrderStatus, received : 0 .. Quantity]]
      BY <1>2, FulfilmentAssumption DEF TypeOK, Receive, FitsOrder
    <2>2. orderIdem' \in [Orders -> [Keys -> OrderRequest]]
      BY <1>2, FulfilmentAssumption DEF TypeOK, Receive, Remember, OrderRequest
    <2>3. settlement' \in [Orders -> SettlementStatus]
      BY <1>2 DEF TypeOK, Receive, DeriveSettlement, SettlementStatus
    <2> QED BY <1>2, <2>1, <2>2, <2>3 DEF TypeOK, Receive
  <1>3. ASSUME NEW o \in Orders, NEW k \in Keys, Close(o, k) PROVE TypeOK'
    <2>1. order' \in [Orders -> [status : OrderStatus, received : 0 .. Quantity]]
      <3>1. order' = [order EXCEPT ![o].status = "CLOSED"] /\ "CLOSED" \in OrderStatus
        BY <1>3 DEF Close, OrderStatus
      <3>2. order \in [Orders -> [status : OrderStatus, received : 0 .. Quantity]]
        BY DEF TypeOK
      <3> QED BY <3>1, <3>2
    <2>2. orderIdem' \in [Orders -> [Keys -> OrderRequest]]
      BY <1>3, FulfilmentAssumption DEF TypeOK, Close, Remember, OrderRequest
    <2> QED BY <1>3, <2>1, <2>2 DEF TypeOK, Close
  <1>4. ASSUME NEW o \in Orders, FinanceNext(o) PROVE TypeOK'
    <2>1. ASSUME NEW k \in Keys, NEW e \in {"SETTLE", "PAY"}, FinanceBegin(o, k, e) PROVE TypeOK'
      BY <2>1 DEF TypeOK, FinanceBegin
    <2>2. CASE FinanceCommit(o)
      BY <2>2 DEF TypeOK, FinanceCommit, SettlementLocked
    <2>3. CASE FinanceRollback(o)
      BY <2>3 DEF TypeOK, FinanceRollback
    <2> QED BY <1>4, <2>1, <2>2, <2>3 DEF FinanceNext
  <1>5. ASSUME NEW c \in Commands, CommandNext(c) PROVE TypeOK'
    <2>1. ASSUME NEW o \in Orders, Upload(o, c) PROVE TypeOK'
      BY <2>1 DEF TypeOK, Upload, CommandStatus
    <2>2. CASE ResultRead(c) \/ ConsumerCrash(c)
      BY <2>2 DEF TypeOK, ResultRead, ConsumerCrash
    <2>3. CASE CommandFails(c) \/ RejectParse(c)
      <3>1. /\ command' = [command EXCEPT ![c].status = "failed"]
            /\ consuming' \subseteq consuming
            /\ UNCHANGED <<order, orderIdem, settlement, settleIdem, finance, invoice>>
        BY <2>3 DEF CommandFails, RejectParse
      <3>2. command' \in [Commands -> [order : Orders \cup {NoOrder}, status : CommandStatus]]
        BY <3>1 DEF TypeOK, CommandStatus
      <3> QED BY <3>1, <3>2 DEF TypeOK
    <2>4. ASSUME NEW i \in InvoiceNos, NEW q \in 0 .. Quantity, NEW agrees \in BOOLEAN,
                 ApplyParse(c, i, q, agrees)
          PROVE  TypeOK'
      BY <2>4 DEF TypeOK, ApplyParse, MatchOutcome, Matches, InvoiceStatus, CommandStatus
    <2> QED BY <1>5, <2>1, <2>2, <2>3, <2>4 DEF CommandNext
  <1>6. ASSUME NEW i \in InvoiceNos, InvoiceNext(i) PROVE TypeOK'
    <2>1. ASSUME NEW e, NEW s \in InvoiceStatus, InvoiceStep(i, e, s) PROVE TypeOK'
      BY <2>1 DEF TypeOK, InvoiceStep
    <2>2. ASSUME NEW q \in 0 .. Quantity, NEW agrees \in BOOLEAN, Correct(i, q, agrees)
          PROVE  TypeOK'
      BY <2>2 DEF TypeOK, Correct, MatchOutcome, Matches, InvoiceStatus
    <2> QED BY <1>6, <2>1, <2>2 DEF InvoiceNext, Void, ForceMatch, Reconcile, InvoiceStatus
  <1>7. CASE UNCHANGED vars
    BY <1>7 DEF TypeOK, vars
  <1> QED BY <1>1, <1>2, <1>3, <1>4, <1>5, <1>6, <1>7 DEF Next, OrderNext

\* Orders, settlements, invoices and records keep their shapes; in particular the
\* goods received never exceed the quantity ordered (OrderService.transition).
THEOREM TypeCorrect == Spec => []TypeOK
  BY InitTyped, NextTyped, PTL DEF Spec

-----------------------------------------------------------------------------
(* The payment gate.  PaidOnlyReconciled is not inductive: FinanceCommit     *)
(* writes PAID from a gate read earlier.  The strengthening says that the    *)
(* gate stays open from the moment the settlement row is locked.             *)

Sealed(o) == SettlementLocked(o) \/ settlement[o] = "PAID"

GateHeld == \A o \in Orders : Sealed(o) => ReconciledForSettlement(o)

\* What keeps the gate of o open: its active invoices and reconciled ones stay
\* as they are, and no command of o enters flight.
LEMMA GateKept ==
    ASSUME NEW o \in Orders, TypeOK, ReconciledForSettlement(o),
           \A i \in InvoiceNos :
              /\ invoice[i].order = o => invoice'[i] = invoice[i]
              /\ invoice'[i].order = o => invoice[i].order = o,
           \A c \in Commands : command'[c].order = o /\ command'[c].status = "in_flight"
              => command[c].order = o /\ command[c].status = "in_flight"
    PROVE  ReconciledForSettlement(o)'
  <1>1. ActiveInvoices(o)' = ActiveInvoices(o)
    BY DEF ActiveInvoices, InvoicesOf
  <1>2. AllReconciled(o)'
    BY <1>1 DEF ReconciledForSettlement, AllReconciled, ActiveInvoices, InvoicesOf
  <1>3. ~ParseInFlight(o)'
    BY DEF ReconciledForSettlement, ParseInFlight
  <1> QED BY <1>2, <1>3 DEF ReconciledForSettlement

\* No move of the invoice machine starts in a status the gate admits, and none
\* can add an invoice to an order.
LEMMA InvoiceMachineLeavesReconciled ==
    \A e, s : \A from \in {"absent", "RECONCILED", "VOIDED"} : <<from, e, s>> \notin InvoiceMachine
  BY DEF InvoiceMachine

\* Under the gate an invoice of the order is reconciled or void.
LEMMA GateStatuses ==
    ASSUME NEW o \in Orders, ReconciledForSettlement(o), NEW i \in InvoicesOf(o)
    PROVE  invoice[i].status \in {"RECONCILED", "VOIDED"}
  BY DEF ReconciledForSettlement, AllReconciled, ActiveInvoices, InvoicesOf

\* While an order is sealed no step touches its invoices or starts a parse of it.
LEMMA SealedKeepsGate ==
    ASSUME TypeOK, GateHeld, [Next]_vars, NEW o \in Orders, Sealed(o)
    PROVE  /\ \A i \in InvoiceNos :
                /\ invoice[i].order = o => invoice'[i] = invoice[i]
                /\ invoice'[i].order = o => invoice[i].order = o
           /\ \A c \in Commands : command'[c].order = o /\ command'[c].status = "in_flight"
                => command[c].order = o /\ command[c].status = "in_flight"
  <1> DEFINE InvoicesKept == \A i \in InvoiceNos :
                /\ invoice[i].order = o => invoice'[i] = invoice[i]
                /\ invoice'[i].order = o => invoice[i].order = o
             ParsesKept == \A c \in Commands :
                command'[c].order = o /\ command'[c].status = "in_flight"
                => command[c].order = o /\ command[c].status = "in_flight"
  <1>g. ReconciledForSettlement(o)
    BY DEF GateHeld
  <1>1. ASSUME NEW p \in Orders, OrderNext(p) \/ FinanceNext(p) PROVE InvoicesKept /\ ParsesKept
    BY <1>1 DEF OrderNext, FinanceNext, Ship, Receive, Close, FinanceBegin, FinanceCommit,
                FinanceRollback
  <1>2. ASSUME NEW c \in Commands, CommandNext(c) PROVE InvoicesKept /\ ParsesKept
    <2>1. ASSUME NEW p \in Orders, Upload(p, c) PROVE InvoicesKept /\ ParsesKept
      <3>1. p # o
        BY <2>1 DEF Upload, InvoiceCanBeAdded, Sealed
      <3> QED BY <2>1, <3>1 DEF Upload, TypeOK
    <2>2. CASE ResultRead(c) \/ ConsumerCrash(c)
      BY <2>2 DEF ResultRead, ConsumerCrash
    <2>3. CASE CommandFails(c) \/ RejectParse(c)
      <3>1. /\ command' = [command EXCEPT ![c].status = "failed"]
            /\ invoice' = invoice
        BY <2>3 DEF CommandFails, RejectParse
      <3>2. ParsesKept
        BY <3>1 DEF TypeOK
      <3> QED BY <3>1, <3>2
    <2>4. ASSUME NEW i \in InvoiceNos, NEW q \in 0 .. Quantity, NEW agrees \in BOOLEAN,
                 ApplyParse(c, i, q, agrees)
          PROVE  InvoicesKept /\ ParsesKept
      <3>1. command[c].order # o
        BY <2>4 DEF ApplyParse, InvoiceCanBeAdded, Sealed
      <3>2. InvoicesKept
        BY <2>4, <3>1, FulfilmentAssumption DEF ApplyParse, TypeOK, Unregistered
      <3>3. ParsesKept
        BY <2>4, <3>1 DEF ApplyParse, TypeOK
      <3> QED BY <3>2, <3>3
    <2> QED BY <1>2, <2>1, <2>2, <2>3, <2>4 DEF CommandNext
  <1>3. ASSUME NEW i \in InvoiceNos, InvoiceNext(i) PROVE InvoicesKept /\ ParsesKept
    <2>1. ASSUME NEW e, NEW s, <<invoice[i].status, e, s>> \in InvoiceMachine
          PROVE  invoice[i].order # o
      BY <2>1, <1>g, GateStatuses, InvoiceMachineLeavesReconciled DEF InvoicesOf
    <2>2. ASSUME NEW e, NEW s, InvoiceStep(i, e, s) PROVE InvoicesKept /\ ParsesKept
      <3>1. invoice[i].order # o
        BY <2>1, <2>2 DEF InvoiceStep
      <3> QED BY <2>2, <3>1 DEF InvoiceStep, TypeOK
    <2>3. ASSUME NEW q \in 0 .. Quantity, NEW agrees \in BOOLEAN, Correct(i, q, agrees)
          PROVE  InvoicesKept /\ ParsesKept
      <3>1. invoice[i].order # o
        BY <2>1, <2>3 DEF Correct
      <3> QED BY <2>3, <3>1 DEF Correct, TypeOK
    <2> QED BY <1>3, <2>2, <2>3 DEF InvoiceNext, Void, ForceMatch, Reconcile
  <1>4. CASE UNCHANGED vars
    BY <1>4 DEF vars
  <1> QED BY <1>1, <1>2, <1>3, <1>4 DEF Next

\* No order is sealed at first.
LEMMA InitGate == Init => GateHeld
  BY DEF Init, GateHeld, Sealed, SettlementLocked

\* An order is sealed by FinanceBegin, which evaluates the gate, and stays sealed
\* until a rollback or, after PAY, for ever.
LEMMA NextGate == TypeOK /\ GateHeld /\ [Next]_vars => GateHeld'
  <1> SUFFICES ASSUME TypeOK, GateHeld, [Next]_vars, NEW o \in Orders, Sealed(o)'
               PROVE  ReconciledForSettlement(o)'
    BY DEF GateHeld
  <1>1. CASE Sealed(o)
    <2>1. ReconciledForSettlement(o)
      BY <1>1 DEF GateHeld
    <2> QED BY <1>1, <2>1, SealedKeepsGate, GateKept
  <1>2. CASE ~Sealed(o)
    <2>1. \E k \in Keys, e \in {"SETTLE", "PAY"} : FinanceBegin(o, k, e)
      <3>1. ASSUME NEW p \in Orders, OrderNext(p) PROVE FALSE
        <4>1. finance' = finance
          BY <3>1 DEF OrderNext, Ship, Receive, Close
        <4>2. settlement[o] # "PAID" => settlement'[o] # "PAID"
          BY <3>1 DEF OrderNext, Ship, Receive, Close, DeriveSettlement, TypeOK
        <4> QED BY <4>1, <4>2, <1>2 DEF Sealed, SettlementLocked
      <3>2. ASSUME NEW p \in Orders, FinanceCommit(p) \/ FinanceRollback(p) PROVE FALSE
        BY <3>2, <1>2 DEF FinanceCommit, FinanceRollback, TypeOK, Sealed, SettlementLocked
      <3>3. ASSUME NEW p \in Orders, NEW k \in Keys, NEW e \in {"SETTLE", "PAY"},
                   FinanceBegin(p, k, e), p # o
            PROVE  FALSE
        BY <3>3, <1>2 DEF FinanceBegin, TypeOK, Sealed, SettlementLocked
      <3>4. ASSUME NEW c \in Commands, CommandNext(c) PROVE FALSE
        <4>1. UNCHANGED <<finance, settlement>>
          BY <3>4 DEF CommandNext, Upload, ResultRead, ConsumerCrash, CommandFails,
                      ApplyParse, RejectParse
        <4> QED BY <4>1, <1>2 DEF Sealed, SettlementLocked
      <3>5. ASSUME NEW i \in InvoiceNos, InvoiceNext(i) PROVE FALSE
        <4>1. UNCHANGED <<finance, settlement>>
          BY <3>5 DEF InvoiceNext, Void, ForceMatch, Reconcile, InvoiceStep, Correct
        <4> QED BY <4>1, <1>2 DEF Sealed, SettlementLocked
      <3>6. CASE UNCHANGED vars
        BY <3>6, <1>2 DEF vars, Sealed, SettlementLocked
      <3> QED BY <3>1, <3>2, <3>3, <3>4, <3>5, <3>6 DEF Next, FinanceNext
    <2> QED BY <2>1 DEF FinanceBegin, ReconciledForSettlement, AllReconciled, ActiveInvoices,
                        InvoicesOf, ParseInFlight
  <1> QED BY <1>1, <1>2

\* A paid order has only reconciled invoices, at least one of them, and no upload
\* being parsed (SettlementService.transition, InvoiceService.upload and
\* applyParseResult).
THEOREM PaymentGate == Spec => []PaidOnlyReconciled
  <1>1. TypeOK /\ GateHeld => PaidOnlyReconciled
    BY DEF GateHeld, Sealed, PaidOnlyReconciled
  <1> QED BY <1>1, InitTyped, NextTyped, InitGate, NextGate, PTL DEF Spec

\* The invoices of a paid order never change again.
THEOREM PaymentFreezes == Spec => PaidFreezesInvoices
  <1>1. TypeOK /\ GateHeld /\ [Next]_vars =>
          [\A o \in Orders : settlement[o] = "PAID" =>
             /\ InvoicesOf(o)' = InvoicesOf(o)
             /\ \A i \in InvoicesOf(o) : invoice'[i] = invoice[i]]_vars
    <2> SUFFICES ASSUME TypeOK, GateHeld, [Next]_vars, NEW o \in Orders, settlement[o] = "PAID"
                 PROVE  /\ InvoicesOf(o)' = InvoicesOf(o)
                        /\ \A i \in InvoicesOf(o) : invoice'[i] = invoice[i]
      OBVIOUS
    <2>1. Sealed(o)
      BY DEF Sealed
    <2> QED BY <2>1, SealedKeepsGate DEF InvoicesOf
  <1> QED BY <1>1, InitTyped, NextTyped, InitGate, NextGate, PTL DEF Spec, PaidFreezesInvoices

-----------------------------------------------------------------------------
(* Receipts, settlement and closing.  The two properties follow from a table *)
(* of what each order status says about the goods and the settlement.        *)

StatusTable ==
    \A o \in Orders :
        /\ order[o].status \in {"PENDING_SHIPMENT", "SHIPPED"} =>
              order[o].received = 0 /\ settlement[o] = "absent"
        /\ order[o].status = "PARTIALLY_RECEIVED" =>
              order[o].received \in 1 .. (Quantity - 1) /\ settlement[o] = "absent"
        /\ order[o].status = "RECEIVED" =>
              order[o].received = Quantity /\ settlement[o] # "absent"
        /\ order[o].status = "CLOSED" =>
              \/ order[o].received = Quantity /\ settlement[o] = "PAID"
              \/ order[o].received = 0 /\ settlement[o] = "absent"

\* New orders are pending shipment, without goods or settlement.
LEMMA InitTable == Init => StatusTable
  BY DEF Init, StatusTable

\* Every step keeps the table.
LEMMA NextTable == TypeOK /\ StatusTable /\ [Next]_vars => StatusTable'
  <1> SUFFICES ASSUME TypeOK, StatusTable, [Next]_vars PROVE StatusTable'
    OBVIOUS
  <1>1. ASSUME NEW o \in Orders, NEW k \in Keys, Ship(o, k) PROVE StatusTable'
    BY <1>1 DEF Ship, OrderMachine, StatusTable, TypeOK
  <1>2. ASSUME NEW o \in Orders, NEW k \in Keys, NEW q \in 1 .. Quantity, Receive(o, k, q)
        PROVE  StatusTable'
    <2> DEFINE total == order[o].received + q
    <2>1. order[o].status \in {"SHIPPED", "PARTIALLY_RECEIVED"}
      BY <1>2 DEF Receive, OrderMachine
    <2>2. settlement[o] = "absent" /\ total \in 1 .. Quantity
      BY <1>2, <2>1, FulfilmentAssumption DEF StatusTable, Receive, FitsOrder, TypeOK
    <2>3. CASE total = Quantity
      <3>1. /\ order' = [order EXCEPT ![o] = [status |-> "RECEIVED", received |-> total]]
            /\ settlement' = [settlement EXCEPT ![o] = "UNSETTLED"]
        BY <1>2, <2>2, <2>3
           DEF Receive, OrderMachine, DerivesSettlement, DeriveSettlement, TypeOK
      <3> QED BY <2>3, <3>1 DEF StatusTable, TypeOK
    <2>4. CASE total # Quantity
      <3>1. /\ order' = [order EXCEPT ![o] = [status |-> "PARTIALLY_RECEIVED", received |-> total]]
            /\ settlement' = settlement
        BY <1>2, <2>4 DEF Receive, OrderMachine, DerivesSettlement
      <3>2. total \in 1 .. (Quantity - 1)
        BY <2>2, <2>4, FulfilmentAssumption
      <3> QED BY <2>2, <3>1, <3>2 DEF StatusTable, TypeOK
    <2> QED BY <2>3, <2>4
  <1>3. ASSUME NEW o \in Orders, NEW k \in Keys, Close(o, k) PROVE StatusTable'
    BY <1>3 DEF Close, MayClose, OrderMachine, StatusTable, TypeOK
  <1>4. ASSUME NEW o \in Orders, FinanceNext(o) PROVE StatusTable'
    <2>1. CASE FinanceCommit(o)
      BY <2>1 DEF FinanceCommit, SettlementMachine, StatusTable, TypeOK
    <2>2. CASE ~FinanceCommit(o)
      BY <1>4, <2>2 DEF FinanceNext, FinanceBegin, FinanceRollback, StatusTable
    <2> QED BY <2>1, <2>2
  <1>5. ASSUME NEW c \in Commands, CommandNext(c) PROVE StatusTable'
    BY <1>5 DEF CommandNext, Upload, ResultRead, ConsumerCrash, CommandFails, ApplyParse,
                RejectParse, StatusTable
  <1>6. ASSUME NEW i \in InvoiceNos, InvoiceNext(i) PROVE StatusTable'
    BY <1>6 DEF InvoiceNext, Void, ForceMatch, Reconcile, InvoiceStep, Correct, StatusTable
  <1>7. CASE UNCHANGED vars
    BY <1>7 DEF vars, StatusTable
  <1> QED BY <1>1, <1>2, <1>3, <1>4, <1>5, <1>6, <1>7 DEF Next, OrderNext

\* An order with goods closes only once paid, a cancelled one has none
\* (OrderService.transition).
THEOREM ClosingRule == Spec => []ClosedIsPaidOrCancelled
  <1>1. StatusTable => ClosedIsPaidOrCancelled
    BY DEF StatusTable, ClosedIsPaidOrCancelled
  <1> QED BY <1>1, InitTyped, NextTyped, InitTable, NextTable, PTL DEF Spec

\* A settlement exists exactly when every ordered unit was received
\* (OrderService.deriveSettlement).
THEOREM SettlementDerivation == Spec => []SettlementIffAllReceived
  <1>1. TypeOK /\ StatusTable => SettlementIffAllReceived
    BY FulfilmentAssumption DEF TypeOK, OrderStatus, StatusTable, SettlementIffAllReceived
  <1> QED BY <1>1, InitTyped, NextTyped, InitTable, NextTable, PTL DEF Spec

-----------------------------------------------------------------------------
(* Parse commands and invoices.  The two counts go up in one step, ApplyParse, *)
(* and nothing takes from either; what has to be known is that the step never  *)
(* meets a command that is completed already, nor one without an order.        *)

CompletedOf(o) == { c \in Commands : command[c] = [order |-> o, status |-> "completed"] }

\* A result in the consumer's hands belongs to an upload that is not completed.
HeldAwaits ==
    \A c \in Commands :
        /\ command[c].status # "absent" => command[c].order \in Orders
        /\ c \in consuming => command[c].status \in {"in_flight", "failed"}

Paired(o) ==
    /\ IsFiniteSet(InvoicesOf(o))
    /\ IsFiniteSet(CompletedOf(o))
    /\ Cardinality(InvoicesOf(o)) = Cardinality(CompletedOf(o))

ParsesPaired == HeldAwaits /\ \A o \in Orders : Paired(o)

\* Nothing is uploaded or registered at first.
LEMMA InitPaired == Init => ParsesPaired
  <1> SUFFICES ASSUME Init PROVE ParsesPaired
    OBVIOUS
  <1>1. HeldAwaits
    BY DEF Init, HeldAwaits, NotUploaded
  <1>2. ASSUME NEW o \in Orders PROVE InvoicesOf(o) = {} /\ CompletedOf(o) = {}
    BY FulfilmentAssumption DEF Init, InvoicesOf, CompletedOf, Unregistered, NotUploaded
  <1> QED BY <1>1, <1>2, FS_EmptySet DEF ParsesPaired, Paired

\* A step that leaves both sets of every order alone keeps them paired.
LEMMA PairedKept ==
    ASSUME \A o \in Orders : Paired(o),
           \A o \in Orders : InvoicesOf(o)' = InvoicesOf(o) /\ CompletedOf(o)' = CompletedOf(o)
    PROVE  \A o \in Orders : Paired(o)'
  BY DEF Paired

\* A command that is not completed and does not become it leaves the sets alone.
LEMMA CommandMoves ==
    ASSUME TypeOK, NEW c \in Commands, command[c].status # "completed",
           NEW r \in [order : Orders \cup {NoOrder}, status : CommandStatus \ {"completed"}],
           command' = [command EXCEPT ![c] = r], UNCHANGED invoice
    PROVE  \A o \in Orders : InvoicesOf(o)' = InvoicesOf(o) /\ CompletedOf(o)' = CompletedOf(o)
  <1>1. \A d \in Commands : d # c => command'[d] = command[d]
    BY DEF TypeOK
  <1>2. command'[c].status # "completed"
    BY DEF TypeOK
  <1> QED BY <1>1, <1>2 DEF InvoicesOf, CompletedOf

\* The step that registers an invoice adds it, and its command, to the order of
\* the upload, and to no other order.
LEMMA ParseRegisters ==
    ASSUME TypeOK, HeldAwaits, NEW c \in Commands, NEW i \in InvoiceNos,
           NEW q \in 0 .. Quantity, NEW agrees \in BOOLEAN, ApplyParse(c, i, q, agrees),
           NEW o \in Orders
    PROVE  IF o = command[c].order
              THEN /\ i \notin InvoicesOf(o) /\ InvoicesOf(o)' = InvoicesOf(o) \cup {i}
                   /\ c \notin CompletedOf(o) /\ CompletedOf(o)' = CompletedOf(o) \cup {c}
              ELSE InvoicesOf(o)' = InvoicesOf(o) /\ CompletedOf(o)' = CompletedOf(o)
  <1>1. /\ c \in consuming /\ invoice[i].order = NoOrder
        /\ invoice'[i].order = command[c].order
        /\ \A j \in InvoiceNos : j # i => invoice'[j] = invoice[j]
    BY DEF ApplyParse, TypeOK, Unregistered
  <1>2. /\ command'[c].order = command[c].order /\ command'[c].status = "completed"
        /\ \A d \in Commands : d # c => command'[d] = command[d]
        /\ command' \in [Commands -> [order : Orders \cup {NoOrder}, status : CommandStatus]]
    BY DEF ApplyParse, TypeOK, CommandStatus
  <1>3. command[c].status # "completed" /\ command[c].order \in Orders
    BY <1>1 DEF HeldAwaits
  <1>4. command'[c] = [order |-> command[c].order, status |-> "completed"]
    BY <1>2
  <1>5. NoOrder \notin Orders
    BY FulfilmentAssumption
  <1>6. CASE o = command[c].order
    <2>1. i \notin InvoicesOf(o) /\ InvoicesOf(o)' = InvoicesOf(o) \cup {i}
      BY <1>1, <1>5, <1>6 DEF InvoicesOf
    <2>2. c \notin CompletedOf(o) /\ CompletedOf(o)' = CompletedOf(o) \cup {c}
      BY <1>2, <1>3, <1>4, <1>6 DEF CompletedOf
    <2> QED BY <1>6, <2>1, <2>2
  <1>7. CASE o # command[c].order
    <2>1. InvoicesOf(o)' = InvoicesOf(o)
      BY <1>1, <1>5, <1>7 DEF InvoicesOf
    <2>2. CompletedOf(o)' = CompletedOf(o)
      BY <1>2, <1>3, <1>4, <1>7 DEF CompletedOf
    <2> QED BY <1>7, <2>1, <2>2
  <1> QED BY <1>6, <1>7

\* Every step keeps invoices and completed commands paired.
LEMMA NextPaired == TypeOK /\ ParsesPaired /\ [Next]_vars => ParsesPaired'
  <1> SUFFICES ASSUME TypeOK, ParsesPaired, [Next]_vars PROVE ParsesPaired'
    OBVIOUS
  <1> DEFINE Same == \A o \in Orders : InvoicesOf(o)' = InvoicesOf(o) /\ CompletedOf(o)' = CompletedOf(o)
  <1>0. HeldAwaits /\ \A o \in Orders : Paired(o)
    BY DEF ParsesPaired
  <1>1. ASSUME NEW c \in Commands, NEW o \in Orders, Upload(o, c) PROVE HeldAwaits' /\ Same
    <2>1. /\ command[c].status = "absent" /\ UNCHANGED <<invoice, consuming>>
          /\ command' = [command EXCEPT ![c] = [order |-> o, status |-> "in_flight"]]
      BY <1>1 DEF Upload, NotUploaded
    <2>2. c \notin consuming
      BY <1>0, <2>1 DEF HeldAwaits
    <2>3. HeldAwaits'
      BY <1>0, <2>1, <2>2 DEF HeldAwaits, TypeOK
    <2>4. [order |-> o, status |-> "in_flight"]
             \in [order : Orders \cup {NoOrder}, status : CommandStatus \ {"completed"}]
      BY DEF CommandStatus
    <2> QED BY <2>1, <2>3, <2>4, CommandMoves
  <1>2. ASSUME NEW c \in Commands, ResultRead(c) \/ ConsumerCrash(c) PROVE HeldAwaits' /\ Same
    <2>1. HeldAwaits'
      BY <1>0, <1>2 DEF HeldAwaits, ResultRead, AwaitsResult, ConsumerCrash
    <2>2. UNCHANGED <<command, invoice>>
      BY <1>2 DEF ResultRead, ConsumerCrash
    <2> QED BY <2>1, <2>2 DEF InvoicesOf, CompletedOf
  <1>3. ASSUME NEW c \in Commands, CommandFails(c) \/ RejectParse(c) PROVE HeldAwaits' /\ Same
    <2>1. /\ command[c].status \in {"in_flight", "failed"} /\ UNCHANGED invoice
          /\ command' = [command EXCEPT ![c].status = "failed"] /\ consuming' \subseteq consuming
      BY <1>0, <1>3 DEF CommandFails, RejectParse, HeldAwaits
    <2>2. /\ command' = [command EXCEPT ![c] = [order |-> command[c].order, status |-> "failed"]]
          /\ command[c].order \in Orders
      <3>1. command \in [Commands -> [order : Orders \cup {NoOrder}, status : CommandStatus]]
        BY DEF TypeOK
      <3>2. [command[c] EXCEPT !.status = "failed"] = [order |-> command[c].order, status |-> "failed"]
        BY <3>1
      <3>3. command' = [command EXCEPT ![c] = [command[c] EXCEPT !.status = "failed"]]
        BY <2>1, <3>1
      <3> QED BY <1>0, <2>1, <3>2, <3>3 DEF HeldAwaits
    <2>3. HeldAwaits'
      BY <1>0, <2>1, <2>2 DEF HeldAwaits, TypeOK
    <2>4. [order |-> command[c].order, status |-> "failed"]
             \in [order : Orders \cup {NoOrder}, status : CommandStatus \ {"completed"}]
      BY <2>2 DEF CommandStatus
    <2> QED BY <2>1, <2>2, <2>3, <2>4, CommandMoves
  <1>4. ASSUME NEW c \in Commands, NEW i \in InvoiceNos, NEW q \in 0 .. Quantity,
               NEW agrees \in BOOLEAN, ApplyParse(c, i, q, agrees)
        PROVE  HeldAwaits' /\ \A o \in Orders : Paired(o)'
    <2>1. /\ command' = [command EXCEPT ![c].status = "completed"]
          /\ consuming' = consuming \ {c} /\ c \in consuming
      BY <1>4 DEF ApplyParse
    <2>2. HeldAwaits'
      BY <1>0, <2>1 DEF HeldAwaits, TypeOK
    <2>3. ASSUME NEW o \in Orders, o = command[c].order PROVE Paired(o)'
      <3>1. /\ i \notin InvoicesOf(o) /\ InvoicesOf(o)' = InvoicesOf(o) \cup {i}
            /\ c \notin CompletedOf(o) /\ CompletedOf(o)' = CompletedOf(o) \cup {c}
        BY <1>0, <1>4, <2>3, ParseRegisters
      <3>2. IsFiniteSet(InvoicesOf(o)) /\ IsFiniteSet(CompletedOf(o))
            /\ Cardinality(InvoicesOf(o)) = Cardinality(CompletedOf(o))
        BY <1>0 DEF Paired
      <3>3. /\ IsFiniteSet(InvoicesOf(o)')
            /\ Cardinality(InvoicesOf(o)') = Cardinality(InvoicesOf(o)) + 1
        BY <3>1, <3>2, FS_AddElement
      <3>4. /\ IsFiniteSet(CompletedOf(o)')
            /\ Cardinality(CompletedOf(o)') = Cardinality(CompletedOf(o)) + 1
        BY <3>1, <3>2, FS_AddElement
      <3> QED BY <3>2, <3>3, <3>4 DEF Paired
    <2>4. ASSUME NEW o \in Orders, o # command[c].order PROVE Paired(o)'
      <3>1. InvoicesOf(o)' = InvoicesOf(o) /\ CompletedOf(o)' = CompletedOf(o)
        BY <1>0, <1>4, <2>4, ParseRegisters
      <3> QED BY <1>0, <3>1 DEF Paired
    <2> QED BY <2>2, <2>3, <2>4
  <1>5. ASSUME NEW i \in InvoiceNos, InvoiceNext(i) PROVE HeldAwaits' /\ Same
    <2>1. UNCHANGED <<command, consuming>>
      BY <1>5 DEF InvoiceNext, Void, ForceMatch, Reconcile, InvoiceStep, Correct
    <2>2. \A j \in InvoiceNos : invoice'[j].order = invoice[j].order
      <3>1. ASSUME NEW e, NEW s, InvoiceStep(i, e, s) PROVE \A j \in InvoiceNos : invoice'[j].order = invoice[j].order
        BY <3>1 DEF InvoiceStep, TypeOK
      <3>2. ASSUME NEW q \in 0 .. Quantity, NEW agrees \in BOOLEAN, Correct(i, q, agrees)
            PROVE  \A j \in InvoiceNos : invoice'[j].order = invoice[j].order
        BY <3>2 DEF Correct, TypeOK
      <3> QED BY <1>5, <3>1, <3>2 DEF InvoiceNext, Void, ForceMatch, Reconcile
    <2> QED BY <1>0, <2>1, <2>2 DEF HeldAwaits, InvoicesOf, CompletedOf
  <1>6. ASSUME NEW o \in Orders, OrderNext(o) \/ FinanceNext(o) PROVE UNCHANGED <<command, consuming, invoice>>
    BY <1>6 DEF OrderNext, Ship, Receive, Close, FinanceNext, FinanceBegin, FinanceCommit, FinanceRollback
  <1>7. ASSUME UNCHANGED <<command, consuming, invoice>> PROVE HeldAwaits' /\ Same
    BY <1>0, <1>7 DEF HeldAwaits, InvoicesOf, CompletedOf
  <1>8. ASSUME NEW c \in Commands, CommandNext(c) PROVE ParsesPaired'
    BY <1>0, <1>8, <1>1, <1>2, <1>3, <1>4, PairedKept DEF CommandNext, ParsesPaired
  <1>9. CASE HeldAwaits' /\ Same
    BY <1>0, <1>9, PairedKept DEF ParsesPaired
  <1> QED BY <1>5, <1>6, <1>7, <1>8, <1>9 DEF Next, vars

\* However often a result is delivered, refused or read before its command
\* failed, each completed upload has registered one invoice with its order, and
\* each registered invoice comes from one (KafkaResultConsumer.onResult).
THEOREM ParsesAndInvoices == Spec => []OneInvoicePerCompletedParse
  <1>1. ParsesPaired => OneInvoicePerCompletedParse
    BY DEF ParsesPaired, Paired, CompletedOf, OneInvoicePerCompletedParse
  <1> QED BY <1>1, InitTyped, NextTyped, InitPaired, NextPaired, PTL DEF Spec

-----------------------------------------------------------------------------
(* Sums over a finite set.  MapThenSumSet is a recursive function on the      *)
(* subsets of the set: it has to be shown to exist before anything is known   *)
(* of its values, and both take an induction.                                 *)

\* A set that holds a subset of S whenever it holds all smaller ones of it holds
\* them all.
LEMMA SubsetInduction ==
    ASSUME NEW S, IsFiniteSet(S), NEW G,
           \A T \in SUBSET S : (\A U \in SUBSET T : U # T => U \in G) => T \in G
    PROVE  \A T \in SUBSET S : T \in G
  <1> DEFINE Bad == { T \in SUBSET S : T \notin G }
  <1>1. SUFFICES ASSUME Bad # {} PROVE FALSE
    OBVIOUS
  <1>2. IsWellFoundedOn(StrictSubsetOrdering(S), SUBSET S)
    BY FS_StrictSubsetOrderingWellFounded, FS_FiniteSubsetsOfFinite
  <1>3. PICK T \in Bad : \A U \in Bad : ~ (<<U, T>> \in StrictSubsetOrdering(S))
    <2> HIDE DEF Bad
    <2>1. Bad \subseteq SUBSET S
      BY DEF Bad
    <2> QED BY <1>1, <1>2, <2>1, WFMin
  <1>4. \A U \in SUBSET T : U # T => U \in G
    <2> SUFFICES ASSUME NEW U \in SUBSET T, U # T, U \notin G PROVE FALSE
      OBVIOUS
    <2>1. <<U, T>> \in StrictSubsetOrdering(S)
      BY DEF StrictSubsetOrdering
    <2> QED BY <1>3, <2>1
  <1> QED BY <1>4

\* The same for the natural numbers.
LEMMA NatInduced ==
    ASSUME NEW G, 0 \in G, \A n \in Nat : n \in G => n + 1 \in G
    PROVE  \A n \in Nat : n \in G
  <1> DEFINE Bad == { n \in Nat : n \notin G }
  <1>1. SUFFICES ASSUME Bad # {} PROVE FALSE
    OBVIOUS
  <1>2. PICK n \in Bad : \A m \in Bad : ~ (<<m, n>> \in OpToRel(<, Nat))
    <2> HIDE DEF Bad
    <2>1. Bad \subseteq Nat
      BY DEF Bad
    <2> QED BY <1>1, <2>1, WFMin, NatLessThanWellFounded
  <1>3. n \in Nat /\ n # 0 /\ n - 1 \in Nat
    OBVIOUS
  <1>4. n - 1 \in Bad
    BY <1>3
  <1>5. <<n - 1, n>> \in OpToRel(<, Nat)
    BY <1>3 DEF OpToRel
  <1> QED BY <1>2, <1>4, <1>5

First(s) == CHOOSE x \in s : TRUE

\* One step of the recursion, and the functions it leaves as they are.
Unfolded(K, h, g) ==
    [s \in SUBSET K |-> IF s = {} THEN 0 ELSE h[First(s)] + g[s \ {First(s)}]]
SumsOver(K, h, g) == g = Unfolded(K, h, g)
GoodUpTo(K, h, g, n) == \A s \in SUBSET K : Cardinality(s) <= n => g[s] = Unfolded(K, h, g)[s]

LEMMA FirstIn == ASSUME NEW s, s # {} PROVE First(s) \in s
  BY DEF First

\* One more step is right for sets of one more element.
LEMMA UnfoldedOnce ==
    ASSUME NEW K, IsFiniteSet(K), NEW h \in [K -> Nat], NEW g \in [SUBSET K -> Nat], NEW n \in Nat,
           GoodUpTo(K, h, g, n), NEW f, f = Unfolded(K, h, g)
    PROVE  f \in [SUBSET K -> Nat] /\ GoodUpTo(K, h, f, n + 1)
  <1>1. f \in [SUBSET K -> Nat]
    BY FirstIn DEF Unfolded
  <1>2. ASSUME NEW s \in SUBSET K, Cardinality(s) <= n + 1 PROVE f[s] = Unfolded(K, h, f)[s]
    <2>1. CASE s = {}
      BY <2>1 DEF Unfolded
    <2>2. CASE s # {}
      <3> DEFINE r == s \ {First(s)}
      <3>1. First(s) \in s /\ IsFiniteSet(s) /\ Cardinality(s) \in Nat
        BY <2>2, FirstIn, FS_Subset, FS_CardinalityType
      <3>2. r \in SUBSET K /\ Cardinality(r) <= n
        <4>1. Cardinality(r) = Cardinality(s) - 1
          BY <3>1, FS_RemoveElement
        <4> QED BY <1>2, <3>1, <4>1
      <3>5. g[r] = f[r]
        BY <3>2 DEF GoodUpTo
      <3>3. f[s] = h[First(s)] + g[r]
        BY <2>2 DEF Unfolded
      <3>4. Unfolded(K, h, f)[s] = h[First(s)] + f[r]
        BY <2>2 DEF Unfolded
      <3> HIDE DEF r
      <3> QED BY <3>3, <3>4, <3>5
    <2> QED BY <2>1, <2>2
  <1> QED BY <1>1, <1>2 DEF GoodUpTo

\* The recursion has a function, whose values are natural numbers.
LEMMA SumsExist ==
    ASSUME NEW K, IsFiniteSet(K), NEW h \in [K -> Nat]
    PROVE  \E g \in [SUBSET K -> Nat] : SumsOver(K, h, g)
  <1> DEFINE G == { n \in Nat : \E g \in [SUBSET K -> Nat] : GoodUpTo(K, h, g, n) }
  <1>1. \A s \in SUBSET K : IsFiniteSet(s) /\ Cardinality(s) \in Nat /\ Cardinality(s) <= Cardinality(K)
    BY FS_Subset, FS_CardinalityType
  <1>2. 0 \in G
    <2>1. [s \in SUBSET K |-> 0] \in [SUBSET K -> Nat]
      OBVIOUS
    <2>2. \A s \in SUBSET K : Cardinality(s) <= 0 => s = {}
      BY <1>1, FS_EmptySet
    <2>3. GoodUpTo(K, h, [s \in SUBSET K |-> 0], 0)
      BY <2>2 DEF GoodUpTo, Unfolded
    <2> QED BY <2>1, <2>3
  <1>3. ASSUME NEW n \in Nat, n \in G PROVE n + 1 \in G
    <2>1. PICK g \in [SUBSET K -> Nat] : GoodUpTo(K, h, g, n)
      BY <1>3
    <2>2. PICK f : f = Unfolded(K, h, g)
      OBVIOUS
    <2>3. f \in [SUBSET K -> Nat] /\ GoodUpTo(K, h, f, n + 1)
      BY <2>1, <2>2, UnfoldedOnce
    <2> QED BY <2>3
  <1>4. Cardinality(K) \in G
    <2> HIDE DEF G
    <2> QED BY <1>1, <1>2, <1>3, NatInduced
  <1>5. PICK g \in [SUBSET K -> Nat] : GoodUpTo(K, h, g, Cardinality(K))
    BY <1>4
  <1>6. PICK f : f = Unfolded(K, h, g)
    OBVIOUS
  <1>7. f \in [SUBSET K -> Nat]
    BY <1>5, <1>6, FirstIn DEF Unfolded
  <1>8. \A s \in SUBSET K : g[s] = f[s]
    BY <1>1, <1>5, <1>6 DEF GoodUpTo
  <1>9. g = f
    BY <1>7, <1>8
  <1> QED BY <1>6, <1>9 DEF SumsOver

Adds(h, k, q, h2) == h2 = [h EXCEPT ![k] = @ + q]

\* Adding q to the value of one element adds q to the sums it is part of; with
\* q = 0, a function has one sum.
LEMMA SumsAdd ==
    ASSUME NEW K, IsFiniteSet(K), NEW k, NEW q \in Nat,
           NEW h \in [K -> Nat], NEW h2, Adds(h, k, q, h2),
           NEW g, SumsOver(K, h, g), NEW g2, SumsOver(K, h2, g2)
    PROVE  \A s \in SUBSET K : g[s] \in Nat /\ g2[s] = g[s] + (IF k \in s THEN q ELSE 0)
  <1> DEFINE G == { s \in SUBSET K : g[s] \in Nat /\ g2[s] = g[s] + (IF k \in s THEN q ELSE 0) }
  <1>1. ASSUME NEW T \in SUBSET K, \A U \in SUBSET T : U # T => U \in G PROVE T \in G
    <2>1. CASE T = {}
      <3>1. g[T] = 0 /\ g2[T] = 0
        BY <2>1 DEF SumsOver, Unfolded
      <3> QED BY <2>1, <3>1
    <2>2. CASE T # {}
      <3> DEFINE x == First(T)
                 U == T \ {x}
      <3>1. x \in T /\ x \in K /\ U \in SUBSET T /\ U # T
        BY <2>2, FirstIn
      <3>2. g[T] = h[x] + g[U] /\ g2[T] = h2[x] + g2[U]
        BY <2>2 DEF SumsOver, Unfolded
      <3>3. g[U] \in Nat /\ g2[U] = g[U] + (IF k \in U THEN q ELSE 0)
        BY <1>1, <3>1
      <3>4. h[x] \in Nat /\ h2[x] = h[x] + (IF k = x THEN q ELSE 0)
        BY <3>1 DEF Adds
      <3>5. (k \in T <=> k = x \/ k \in U) /\ ~(k = x /\ k \in U)
        BY <3>1
      <3> HIDE DEF x, U
      <3>6. g[T] \in Nat /\ g2[T] = g[T] + (IF k \in T THEN q ELSE 0)
        BY <3>2, <3>3, <3>4, <3>5
      <3> QED BY <3>6
    <2> QED BY <2>1, <2>2
  <1> HIDE DEF G
  <1>2. \A s \in SUBSET K : s \in G
    BY <1>1, SubsetInduction
  <1> QED BY <1>2 DEF G

-----------------------------------------------------------------------------
(* Receipts.  What an order has received is the sum of its records.         *)

Quantities(r) == [k \in Keys |-> r[k].quantity]
RecordedSum(r) == MapThenSumSet(LAMBDA k : r[k].quantity, Keys)

\* The sum over the records of an order is the recursion's.
LEMMA RecordedUnfolds ==
    ASSUME NEW r \in [Keys -> OrderRequest]
    PROVE  /\ Quantities(r) \in [Keys -> Nat]
           /\ \E g : SumsOver(Keys, Quantities(r), g) /\ RecordedSum(r) = g[Keys]
  <1> DEFINE Fixed(g) == g = [s \in SUBSET Keys |->
                 IF s = {} THEN 0
                 ELSE r[CHOOSE x \in s : TRUE].quantity + g[s \ {CHOOSE x \in s : TRUE}]]
             iter == CHOOSE g : Fixed(g)
  <1>1. Quantities(r) \in [Keys -> Nat]
    <2>1. \A k \in Keys : r[k].quantity \in 0 .. Quantity
      BY DEF OrderRequest
    <2> QED BY <2>1, FulfilmentAssumption DEF Quantities
  <1>2. PICK g : SumsOver(Keys, Quantities(r), g)
    BY <1>1, SumsExist, FulfilmentAssumption
  <1>3. \A f : SumsOver(Keys, Quantities(r), f) <=> Fixed(f)
    <2> TAKE f
    <2>1. \A s \in SUBSET Keys : s # {} => Quantities(r)[First(s)] = r[First(s)].quantity
      BY FirstIn DEF Quantities
    <2>2. Unfolded(Keys, Quantities(r), f)
             = [s \in SUBSET Keys |-> IF s = {} THEN 0 ELSE r[First(s)].quantity + f[s \ {First(s)}]]
      BY <2>1 DEF Unfolded
    <2> QED BY <2>2 DEF First, SumsOver
  <1>4. Fixed(iter)
    <2>1. Fixed(g)
      BY <1>2, <1>3
    <2> QED BY <2>1
  <1>5. RecordedSum(r) = iter[Keys]
    BY DEF RecordedSum, MapThenSumSet, MapThenFoldSet
  <1> HIDE DEF iter
  <1> QED BY <1>1, <1>3, <1>4, <1>5

DifferBy(r, k, q, s) ==
    \A j \in Keys : s[j].quantity = IF j = k THEN r[j].quantity + q ELSE r[j].quantity

\* Two tables of records that differ by q under one key have sums that differ by q.
LEMMA RecordAdds ==
    ASSUME NEW r \in [Keys -> OrderRequest], NEW s \in [Keys -> OrderRequest], NEW k \in Keys, NEW q \in Nat,
           DifferBy(r, k, q, s)
    PROVE  RecordedSum(s) = RecordedSum(r) + q /\ RecordedSum(r) \in Nat
  <1>1. PICK g : SumsOver(Keys, Quantities(r), g) /\ RecordedSum(r) = g[Keys]
    BY RecordedUnfolds
  <1>2. PICK f : SumsOver(Keys, Quantities(s), f) /\ RecordedSum(s) = f[Keys]
    BY RecordedUnfolds
  <1>3. Adds(Quantities(r), k, q, Quantities(s))
    BY DEF Adds, DifferBy, Quantities
  <1>4. Quantities(r) \in [Keys -> Nat] /\ IsFiniteSet(Keys)
    BY RecordedUnfolds, FulfilmentAssumption
  <1>5. \A x \in SUBSET Keys : g[x] \in Nat /\ f[x] = g[x] + (IF k \in x THEN q ELSE 0)
    BY <1>1, <1>2, <1>3, <1>4, SumsAdd
  <1> QED BY <1>1, <1>2, <1>5

\* The sum of no records is zero.
LEMMA NoRecords ==
    ASSUME NEW r \in [Keys -> OrderRequest], \A k \in Keys : r[k] = NoRequest
    PROVE  RecordedSum(r) = 0
  <1>1. PICK g : SumsOver(Keys, Quantities(r), g) /\ RecordedSum(r) = g[Keys]
    BY RecordedUnfolds
  <1>2. PICK zero : zero = [s \in SUBSET Keys |-> 0]
    OBVIOUS
  <1>3. SumsOver(Keys, Quantities(r), zero)
    <2>1. \A k \in Keys : Quantities(r)[k] = 0
      BY DEF Quantities, NoRequest
    <2> QED BY <1>2, <2>1, FirstIn DEF SumsOver, Unfolded
  <1>4. PICK q \in Nat : q = 0
    OBVIOUS
  <1>5. /\ Quantities(r) \in [Keys -> Nat] /\ Adds(Quantities(r), NoKey, q, Quantities(r))
        /\ IsFiniteSet(Keys)
    <2>1. Quantities(r) \in [Keys -> Nat]
      BY RecordedUnfolds
    <2> QED BY <1>4, <2>1, FulfilmentAssumption DEF Adds
  <1>6. \A s \in SUBSET Keys : g[s] \in Nat /\ zero[s] = g[s] + (IF NoKey \in s THEN q ELSE 0)
    BY <1>1, <1>3, <1>5, SumsAdd
  <1>7. zero[Keys] = 0
    BY <1>2
  <1> QED BY <1>1, <1>4, <1>6, <1>7

\* What every order has received is the sum of its records.
ReceiptsRecorded == \A o \in Orders : order[o].received = RecordedSum(orderIdem[o])

\* Every step keeps it: only receipts count, and a receipt is recorded under a
\* key that was not on record.
LEMMA NextReceipts == TypeOK /\ ReceiptsRecorded /\ [Next]_vars => ReceiptsRecorded'
  <1> SUFFICES ASSUME TypeOK, ReceiptsRecorded, [Next]_vars PROVE ReceiptsRecorded'
    OBVIOUS
  <1>0. TypeOK'
    BY NextTyped
  <1>1. ASSUME NEW o \in Orders, NEW k \in Keys, NEW e, NEW q \in Nat, NEW s,
               FirstUse(orderIdem[o], k), Remember(o, k, e, q),
               order' = [order EXCEPT ![o] = [status |-> s, received |-> order[o].received + q]]
        PROVE  ReceiptsRecorded'
    <2>1. /\ order \in [Orders -> [status : OrderStatus, received : 0 .. Quantity]]
          /\ orderIdem \in [Orders -> [Keys -> OrderRequest]]
          /\ orderIdem' \in [Orders -> [Keys -> OrderRequest]]
      BY <1>0 DEF TypeOK
    <2>2. ASSUME NEW p \in Orders, p # o PROVE order'[p].received = RecordedSum(orderIdem'[p])
      <3>1. order'[p] = order[p] /\ orderIdem'[p] = orderIdem[p]
        BY <1>1, <2>1, <2>2 DEF Remember
      <3> QED BY <3>1 DEF ReceiptsRecorded
    <2>3. order'[o].received = RecordedSum(orderIdem'[o])
      <3>1. orderIdem'[o] = [orderIdem[o] EXCEPT ![k] = [event |-> e, quantity |-> q]]
        BY <1>1, <2>1 DEF Remember
      <3>2. orderIdem[o][k].quantity = 0 /\ orderIdem[o] \in [Keys -> OrderRequest]
        BY <1>1, <2>1 DEF FirstUse, NoRequest
      <3>3. DifferBy(orderIdem[o], k, q, orderIdem'[o])
        BY <1>1, <3>1, <3>2 DEF DifferBy
      <3>4. RecordedSum(orderIdem'[o]) = RecordedSum(orderIdem[o]) + q
        <4>1. orderIdem[o] \in [Keys -> OrderRequest] /\ orderIdem'[o] \in [Keys -> OrderRequest]
          BY <2>1
        <4> QED BY <3>3, <4>1, RecordAdds
      <3>5. order'[o].received = order[o].received + q
        BY <1>1, <2>1
      <3> QED BY <3>4, <3>5 DEF ReceiptsRecorded
    <2> QED BY <2>2, <2>3 DEF ReceiptsRecorded
  <1>2. ASSUME NEW o \in Orders, NEW k \in Keys, Ship(o, k) \/ Close(o, k) PROVE ReceiptsRecorded'
    <2>1. PICK e, s : /\ FirstUse(orderIdem[o], k) /\ Remember(o, k, e, 0)
                      /\ order' = [order EXCEPT ![o].status = s]
      BY <1>2 DEF Ship, Close
    <2>2. order' = [order EXCEPT ![o] = [status |-> s, received |-> order[o].received + 0]]
      <3>1. order \in [Orders -> [status : OrderStatus, received : 0 .. Quantity]]
        BY DEF TypeOK
      <3>2. order[o].received + 0 = order[o].received
        BY <3>1, FulfilmentAssumption
      <3>3. [order[o] EXCEPT !.status = s] = [status |-> s, received |-> order[o].received]
        BY <3>1
      <3>4. order' = [order EXCEPT ![o] = [order[o] EXCEPT !.status = s]]
        BY <2>1, <3>1
      <3> QED BY <3>2, <3>3, <3>4
    <2> QED BY <1>1, <2>1, <2>2
  <1>3. ASSUME NEW o \in Orders, NEW k \in Keys, NEW q \in 1 .. Quantity, Receive(o, k, q)
        PROVE  ReceiptsRecorded'
    <2>1. PICK s : /\ FirstUse(orderIdem[o], k) /\ Remember(o, k, "RECEIVE", q)
                   /\ order' = [order EXCEPT ![o] = [status |-> s, received |-> order[o].received + q]]
      BY <1>3 DEF Receive
    <2>2. q \in Nat
      BY FulfilmentAssumption
    <2> QED BY <1>1, <2>1, <2>2
  <1>4. ASSUME NEW o \in Orders, FinanceNext(o) PROVE UNCHANGED <<order, orderIdem>>
    BY <1>4 DEF FinanceNext, FinanceBegin, FinanceCommit, FinanceRollback
  <1>5. ASSUME NEW c \in Commands, CommandNext(c) PROVE UNCHANGED <<order, orderIdem>>
    BY <1>5 DEF CommandNext, Upload, ResultRead, ConsumerCrash, CommandFails, ApplyParse, RejectParse
  <1>6. ASSUME NEW i \in InvoiceNos, InvoiceNext(i) PROVE UNCHANGED <<order, orderIdem>>
    BY <1>6 DEF InvoiceNext, Void, ForceMatch, Reconcile, InvoiceStep, Correct
  <1>7. CASE UNCHANGED <<order, orderIdem>>
    BY <1>7 DEF ReceiptsRecorded
  <1> QED BY <1>2, <1>3, <1>4, <1>5, <1>6, <1>7 DEF Next, OrderNext, vars

\* The goods on the order are the receipts on record, each counted once, for any
\* number of batches, keys and repeated requests (OrderService.transition).
THEOREM ReceiptsAdd == Spec => []ReceiptsCountOnce
  <1>1. Init => ReceiptsRecorded
    <2> SUFFICES ASSUME Init, NEW o \in Orders PROVE order[o].received = RecordedSum(orderIdem[o])
      BY DEF ReceiptsRecorded
    <2>1. orderIdem[o] \in [Keys -> OrderRequest] /\ \A k \in Keys : orderIdem[o][k] = NoRequest
      BY ConstantsTyped DEF Init
    <2>2. order[o].received = 0
      BY DEF Init
    <2> QED BY <2>1, <2>2, NoRecords
  <1>2. ReceiptsRecorded => ReceiptsCountOnce
    BY DEF ReceiptsRecorded, RecordedSum, ReceiptsCountOnce
  <1> QED BY <1>1, <1>2, InitTyped, NextTyped, NextReceipts, PTL DEF Spec

=============================================================================
