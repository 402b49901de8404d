------------------------------ MODULE Fulfilment ------------------------------
(***************************************************************************)
(* From an approved purchase to its payment: the purchase order and its    *)
(* receipts (OrderService), the settlement derived from a complete receipt *)
(* (SettlementService) and the supplier's invoices with the parse commands *)
(* that register them (InvoiceService, KafkaResultConsumer).               *)
(*                                                                         *)
(* Three kinds of transaction meet here.  Order transitions, uploads and   *)
(* parse results lock the order row; uploads and parse results lock the    *)
(* settlement row after it; invoice actions lock one invoice row and       *)
(* nothing else; a settlement transition locks the settlement row and      *)
(* reads the invoices without locking them.  A transaction whose decisive  *)
(* reads are all under a lock is one action.  A settlement transition is   *)
(* two, FinanceBegin (lock, snapshot reads, gate) and FinanceCommit (the   *)
(* write), because the invoices it has read may change in between; so is a *)
(* parse result, ResultRead (the consumer reads the command outside any    *)
(* transaction) and ApplyParse or RejectParse (the transaction).           *)
(***************************************************************************)
EXTENDS FiniteSetsExt

CONSTANTS
    Orders,         \* purchase orders, each derived from an approved task
    InvoiceNos,     \* numbers printed on invoices: unique in the whole system
    Commands,       \* parse_invoice commands, one per upload idempotency key
    Keys,           \* Idempotency-Key values a client may send
    NoOrder, NoKey, \* absent values
    Quantity        \* the quantity every order asks for

ASSUME FulfilmentAssumption ==
    /\ NoOrder \notin Orders
    /\ NoKey \notin Keys
    /\ IsFiniteSet(Keys)
    /\ Quantity \in Nat \ {0}

NoRequest == [event |-> "NONE", quantity |-> 0]
NotUploaded == [order |-> NoOrder, status |-> "absent"]
Unregistered == [order |-> NoOrder, quantity |-> 0, matched |-> FALSE, status |-> "absent"]
Idle == [event |-> "NONE", key |-> NoKey]

VARIABLES
    order,        \* per order: its status and receivedQuantity (0 is null)
    orderIdem,    \* idempotency records of scope order_transition:<id>
    settlement,   \* per order: the status of its settlement, "absent" before it exists
    settleIdem,   \* idempotency records of scope settlement_transition:<id>
    finance,      \* per order: the settlement transaction that holds the row lock
    invoice,      \* per number: the registered invoice; matched is its last match result
    command,      \* per upload: the parse_invoice command
    consuming     \* commands whose result the consumer has read and not yet applied

vars == <<order, orderIdem, settlement, settleIdem, finance, invoice, command, consuming>>

OrderStatus == {"PENDING_SHIPMENT", "SHIPPED", "PARTIALLY_RECEIVED", "RECEIVED", "CLOSED"}
SettlementStatus == {"absent", "UNSETTLED", "SETTLED", "PAID"}
InvoiceStatus == {"absent", "REGISTERED", "MATCHED", "DIFF_HOLD", "VOIDED", "RECONCILED"}
\* pending, dispatching, accepted and published are one status here, "in_flight":
\* the gate treats them alike (IN_FLIGHT_COMMAND_STATUSES).
CommandStatus == {"absent", "in_flight", "completed", "failed"}

OrderRequest == [event : {"NONE", "SHIP", "RECEIVE", "CLOSE"}, quantity : 0 .. Quantity]

-----------------------------------------------------------------------------
(* The registered state machines, as the set of permitted moves. *)

OrderMachine ==
    { <<"PENDING_SHIPMENT", "SHIP", "SHIPPED">>,
      <<"SHIPPED", "RECEIVE", "PARTIALLY_RECEIVED">>,
      <<"PARTIALLY_RECEIVED", "RECEIVE", "PARTIALLY_RECEIVED">>,
      <<"SHIPPED", "RECEIVE_COMPLETE", "RECEIVED">>,
      <<"PARTIALLY_RECEIVED", "RECEIVE_COMPLETE", "RECEIVED">>,
      <<"PENDING_SHIPMENT", "CLOSE", "CLOSED">>,
      <<"RECEIVED", "CLOSE", "CLOSED">> }

SettlementMachine == { <<"UNSETTLED", "SETTLE", "SETTLED">>, <<"SETTLED", "PAY", "PAID">> }

\* Mutant: a reconciled invoice may still be voided.
InvoiceMachineVoidsReconciled ==
    { <<"REGISTERED", "MATCH", "MATCHED">>,
      <<"REGISTERED", "HOLD", "DIFF_HOLD">>,
      <<"DIFF_HOLD", "MATCH", "MATCHED">>,
      <<"DIFF_HOLD", "FORCE_MATCH", "MATCHED">>,
      <<"DIFF_HOLD", "VOID", "VOIDED">>,
      <<"MATCHED", "RECONCILE", "RECONCILED">>,
      <<"RECONCILED", "VOID", "VOIDED">> }

InvoiceMachine ==
    { <<"REGISTERED", "MATCH", "MATCHED">>,
      <<"REGISTERED", "HOLD", "DIFF_HOLD">>,
      <<"REGISTERED", "VOID", "VOIDED">>,
      <<"DIFF_HOLD", "MATCH", "MATCHED">>,
      <<"DIFF_HOLD", "FORCE_MATCH", "MATCHED">>,
      <<"DIFF_HOLD", "VOID", "VOIDED">>,
      <<"MATCHED", "RECONCILE", "RECONCILED">> }

\* Mutant: the record is not looked up before the transition.
FirstUseUnchecked(idem, k) == TRUE

\* A request whose key is on record is answered from the record (or refused when
\* the payload differs): in both cases nothing changes, so it is not an action.
FirstUse(idem, k) == idem[k] = NoRequest
FirstFinanceUse(idem, k) == idem[k] = "NONE"

\* InnoDB row lock on the settlement: held by a settlement transition from
\* lockById to its commit.
SettlementLocked(o) == finance[o] # Idle

-----------------------------------------------------------------------------
(* Invoices: matching and the gate of the settlement. *)

InvoicesOf(o) == { i \in InvoiceNos : invoice[i].order = o }
ActiveInvoices(o) == { i \in InvoicesOf(o) : invoice[i].status # "VOIDED" }
ParseInFlight(o) == \E c \in Commands : command[c].order = o /\ command[c].status = "in_flight"

\* What the three-way match compares an invoice with: the goods receipts when
\* there are any, the ordered quantity otherwise.
EffectiveQuantity(o) == IF order[o].received = 0 THEN Quantity ELSE order[o].received

\* q is the invoiced quantity (0: the invoice shows none, which skips the
\* comparison).  agrees stands for the comparisons of the total with the landed
\* total and of the tax rate; with both quantities equal the unit price follows.
Matches(o, q, agrees) == agrees /\ q \in {0, EffectiveQuantity(o)}

\* The status an invoice in status `from` has after match().
MatchOutcome(o, q, agrees) == IF Matches(o, q, agrees) THEN "MATCHED" ELSE "DIFF_HOLD"

AllReconciled(o) ==
    /\ ActiveInvoices(o) # {}
    /\ \A i \in ActiveInvoices(o) : invoice[i].status = "RECONCILED"

\* isReconciledForSettlement
ReconciledForSettlement(o) == ~ParseInFlight(o) /\ AllReconciled(o)

\* Mutant: only closed orders refuse an invoice.
InvoiceCanBeAddedAfterPayment(o) == order[o].status # "CLOSED"

\* assertInvoiceCanBeAdded: waits for the settlement row lock.
InvoiceCanBeAdded(o) == order[o].status # "CLOSED" /\ settlement[o] # "PAID"

-----------------------------------------------------------------------------
Init ==
    /\ order = [o \in Orders |-> [status |-> "PENDING_SHIPMENT", received |-> 0]]
    /\ orderIdem = [o \in Orders |-> [k \in Keys |-> NoRequest]]
    /\ settlement = [o \in Orders |-> "absent"]
    /\ settleIdem = [o \in Orders |-> [k \in Keys |-> "NONE"]]
    /\ finance = [o \in Orders |-> Idle]
    /\ invoice = [i \in InvoiceNos |-> Unregistered]
    /\ command = [c \in Commands |-> NotUploaded]
    /\ consuming = {}

-----------------------------------------------------------------------------
(* OrderService.transition *)

\* Store the answer under the key, in the transaction of the transition.
Remember(o, k, e, q) == orderIdem' = [orderIdem EXCEPT ![o][k] = [event |-> e, quantity |-> q]]

Ship(o, k) ==
    /\ FirstUse(orderIdem[o], k)
    /\ <<order[o].status, "SHIP", "SHIPPED">> \in OrderMachine
    /\ order' = [order EXCEPT ![o].status = "SHIPPED"]
    /\ Remember(o, k, "SHIP", 0)
    /\ UNCHANGED <<settlement, settleIdem, finance, invoice, command, consuming>>

\* Receipts over the ordered quantity are refused.
FitsOrder(total) == total <= Quantity

\* Mutant: every receipt derives the settlement.
DerivesSettlementEarly(event) == TRUE

DerivesSettlement(event) == event = "RECEIVE_COMPLETE"

\* deriveSettlement: find or create.
DeriveSettlement(o) ==
    settlement' = [settlement EXCEPT ![o] = IF @ = "absent" THEN "UNSETTLED" ELSE @]

\* One batch q of goods.  The batch that completes the order turns the event
\* into RECEIVE_COMPLETE and derives the settlement; one too many is refused.
Receive(o, k, q) ==
    LET total == order[o].received + q
        event == IF total = Quantity THEN "RECEIVE_COMPLETE" ELSE "RECEIVE"
    IN  /\ FirstUse(orderIdem[o], k)
        /\ q > 0
        /\ FitsOrder(total)
        /\ \E s \in OrderStatus :
              /\ <<order[o].status, event, s>> \in OrderMachine
              /\ order' = [order EXCEPT ![o] = [status |-> s, received |-> total]]
        /\ IF DerivesSettlement(event) THEN DeriveSettlement(o) ELSE UNCHANGED settlement
        /\ Remember(o, k, "RECEIVE", q)
        /\ UNCHANGED <<settleIdem, finance, invoice, command, consuming>>

\* A received order closes once it is paid.
MayClose(o) == order[o].status = "RECEIVED" => settlement[o] = "PAID"

\* Cancel an order that was not shipped, or complete one that was paid.
Close(o, k) ==
    /\ FirstUse(orderIdem[o], k)
    /\ <<order[o].status, "CLOSE", "CLOSED">> \in OrderMachine
    /\ MayClose(o)
    /\ order' = [order EXCEPT ![o].status = "CLOSED"]
    /\ Remember(o, k, "CLOSE", 0)
    /\ UNCHANGED <<settlement, settleIdem, finance, invoice, command, consuming>>

-----------------------------------------------------------------------------
(* SettlementService.transition: settle and pay *)

\* Take the settlement row, look the key up and evaluate the gate; a refusal
\* ends the transaction with nothing written.
FinanceBegin(o, k, e) ==
    /\ ~SettlementLocked(o)
    /\ settlement[o] # "absent"
    /\ FirstFinanceUse(settleIdem[o], k)
    /\ \E s \in SettlementStatus : <<settlement[o], e, s>> \in SettlementMachine
    /\ ReconciledForSettlement(o)
    /\ finance' = [finance EXCEPT ![o] = [event |-> e, key |-> k]]
    /\ UNCHANGED <<order, orderIdem, settlement, settleIdem, invoice, command, consuming>>

FinanceCommit(o) ==
    /\ SettlementLocked(o)
    /\ \E s \in SettlementStatus :
          /\ <<settlement[o], finance[o].event, s>> \in SettlementMachine
          /\ settlement' = [settlement EXCEPT ![o] = s]
    /\ settleIdem' = [settleIdem EXCEPT ![o][finance[o].key] = finance[o].event]
    /\ finance' = [finance EXCEPT ![o] = Idle]
    /\ UNCHANGED <<order, orderIdem, invoice, command, consuming>>

\* The process dies or the database rolls back before the commit.
FinanceRollback(o) ==
    /\ SettlementLocked(o)
    /\ finance' = [finance EXCEPT ![o] = Idle]
    /\ UNCHANGED <<order, orderIdem, settlement, settleIdem, invoice, command, consuming>>

-----------------------------------------------------------------------------
(* InvoiceService: upload, parse results, and the buyer's actions *)

Upload(o, c) ==
    /\ command[c] = NotUploaded
    /\ ~SettlementLocked(o)
    /\ InvoiceCanBeAdded(o)
    /\ command' = [command EXCEPT ![c] = [order |-> o, status |-> "in_flight"]]
    /\ UNCHANGED <<order, orderIdem, settlement, settleIdem, finance, invoice, consuming>>

\* Mutant: a result delivered twice is applied twice.
AwaitsResultAgain(c) == command[c].status # "absent"

\* completed, failed and cancelled commands ignore further results.
AwaitsResult(c) == command[c].status = "in_flight"

\* onResult reads the command with no transaction: terminal ones are skipped.
ResultRead(c) ==
    /\ c \notin consuming
    /\ AwaitsResult(c)
    /\ consuming' = consuming \cup {c}
    /\ UNCHANGED <<order, orderIdem, settlement, settleIdem, finance, invoice, command>>

\* The consumer dies; the record is delivered again.
ConsumerCrash(c) ==
    /\ c \in consuming
    /\ consuming' = consuming \ {c}
    /\ UNCHANGED <<order, orderIdem, settlement, settleIdem, finance, invoice, command>>

\* The outbox worker gives up on the command (stale result, failed delivery), or
\* the agent reports that it failed; a consumer may hold an older read of it.
CommandFails(c) ==
    /\ command[c].status = "in_flight"
    /\ command' = [command EXCEPT ![c].status = "failed"]
    /\ UNCHANGED <<order, orderIdem, settlement, settleIdem, finance, invoice, consuming>>

\* applyParseResult, command.complete and the merge of the detached command in
\* one transaction: the merge writes "completed" whatever the row says by now.
ApplyParse(c, i, q, agrees) ==
    LET o == command[c].order IN
    /\ c \in consuming
    /\ ~SettlementLocked(o)
    /\ InvoiceCanBeAdded(o)
    /\ invoice[i] = Unregistered
    /\ invoice' = [invoice EXCEPT ![i] =
          [order |-> o, quantity |-> q,
           matched |-> Matches(o, q, agrees), status |-> MatchOutcome(o, q, agrees)]]
    /\ command' = [command EXCEPT ![c].status = "completed"]
    /\ consuming' = consuming \ {c}
    /\ UNCHANGED <<order, orderIdem, settlement, settleIdem, finance>>

\* The same transaction refused: the order is closed or paid, the number is
\* taken, or the parse shows no number or total.  A second transaction fails
\* the command.
RejectParse(c) ==
    /\ c \in consuming
    /\ ~SettlementLocked(command[c].order)
    /\ command' = [command EXCEPT ![c].status = "failed"]
    /\ consuming' = consuming \ {c}
    /\ UNCHANGED <<order, orderIdem, settlement, settleIdem, finance, invoice>>

InvoiceStep(i, e, s) ==
    /\ <<invoice[i].status, e, s>> \in InvoiceMachine
    /\ invoice' = [invoice EXCEPT ![i].status = s]
    /\ UNCHANGED <<order, orderIdem, settlement, settleIdem, finance, command, consuming>>

Void(i) == InvoiceStep(i, "VOID", "VOIDED")
ForceMatch(i) == InvoiceStep(i, "FORCE_MATCH", "MATCHED")
Reconcile(i) == InvoiceStep(i, "RECONCILE", "RECONCILED")

\* A buyer overwrites the invoice's figures; it is matched again.  match()
\* writes the outcome even where the machine has no move (DIFF_HOLD stays).
Correct(i, q, agrees) ==
    /\ \E e \in {"MATCH", "HOLD"}, s \in InvoiceStatus :
          <<invoice[i].status, e, s>> \in InvoiceMachine
    /\ invoice' = [invoice EXCEPT ![i] =
          [order |-> @.order, quantity |-> q,
           matched |-> Matches(@.order, q, agrees), status |-> MatchOutcome(@.order, q, agrees)]]
    /\ UNCHANGED <<order, orderIdem, settlement, settleIdem, finance, command, consuming>>

-----------------------------------------------------------------------------
OrderNext(o) ==
    \/ \E k \in Keys : Ship(o, k)
    \/ \E k \in Keys, q \in 1 .. Quantity : Receive(o, k, q)
    \/ \E k \in Keys : Close(o, k)

FinanceNext(o) ==
    \/ \E k \in Keys, e \in {"SETTLE", "PAY"} : FinanceBegin(o, k, e)
    \/ FinanceCommit(o)
    \/ FinanceRollback(o)

CommandNext(c) ==
    \/ \E o \in Orders : Upload(o, c)
    \/ ResultRead(c)
    \/ ConsumerCrash(c)
    \/ CommandFails(c)
    \/ \E i \in InvoiceNos, q \in 0 .. Quantity, agrees \in BOOLEAN : ApplyParse(c, i, q, agrees)
    \/ RejectParse(c)

InvoiceNext(i) ==
    \/ Void(i)
    \/ ForceMatch(i)
    \/ Reconcile(i)
    \/ \E q \in 0 .. Quantity, agrees \in BOOLEAN : Correct(i, q, agrees)

Next ==
    \/ \E o \in Orders : OrderNext(o) \/ FinanceNext(o)
    \/ \E c \in Commands : CommandNext(c)
    \/ \E i \in InvoiceNos : InvoiceNext(i)

Spec == Init /\ [][Next]_vars

-----------------------------------------------------------------------------
(* Properties *)

\* Every variable keeps the shape its table gives it.
TypeOK ==
    /\ order \in [Orders -> [status : OrderStatus, received : 0 .. Quantity]]
    /\ orderIdem \in [Orders -> [Keys -> OrderRequest]]
    /\ settlement \in [Orders -> SettlementStatus]
    /\ settleIdem \in [Orders -> [Keys -> {"NONE", "SETTLE", "PAY"}]]
    /\ finance \in [Orders -> {Idle} \cup [event : {"SETTLE", "PAY"}, key : Keys]]
    /\ invoice \in [InvoiceNos -> [order : Orders \cup {NoOrder}, quantity : 0 .. Quantity,
                                   matched : BOOLEAN, status : InvoiceStatus]]
    /\ command \in [Commands -> [order : Orders \cup {NoOrder}, status : CommandStatus]]
    /\ consuming \subseteq Commands

\* Money leaves only for reconciled invoices, and stays that way: an order that
\* is paid has an active invoice, none that is not reconciled and no upload
\* still being parsed, although the gate ran without the invoices' locks,
\* before the commit, and invoices keep being parsed, corrected and voided.
PaidOnlyReconciled == \A o \in Orders : settlement[o] = "PAID" => ReconciledForSettlement(o)

\* Once an order is paid its invoices are frozen: none is added, corrected or
\* voided, whatever transaction was already under way when it was paid.
PaidFreezesInvoices ==
    [][\A o \in Orders : settlement[o] = "PAID" =>
          /\ InvoicesOf(o)' = InvoicesOf(o)
          /\ \A i \in InvoicesOf(o) : invoice'[i] = invoice[i]]_vars

\* An order that received goods closes only after its payment; one that is
\* cancelled has no goods and owes nothing.
ClosedIsPaidOrCancelled ==
    \A o \in Orders : order[o].status = "CLOSED" =>
        \/ settlement[o] = "PAID" /\ order[o].received = Quantity
        \/ settlement[o] = "absent" /\ order[o].received = 0

\* A settlement exists exactly from the moment all the goods are in, over all
\* ways of splitting the receipts into batches.
SettlementIffAllReceived ==
    \A o \in Orders : settlement[o] # "absent" <=> order[o].received = Quantity

\* A request repeated under its Idempotency-Key counts once: what the order has
\* received is the sum of the receipts on record, one per key.
ReceiptsCountOnce ==
    \A o \in Orders :
        order[o].received = MapThenSumSet(LAMBDA k : orderIdem[o][k].quantity, Keys)

\* A parse command and its invoice agree: as many invoices are registered for an
\* order as commands completed, whatever failed, crashed or was read stale.
OneInvoicePerCompletedParse ==
    \A o \in Orders :
        Cardinality(InvoicesOf(o))
            = Cardinality({ c \in Commands : command[c] = [order |-> o, status |-> "completed"] })

=============================================================================
