\* Two orders received in up to two batches, whose two uploads and two invoices may compete.
SPECIFICATION Spec
CONSTANTS
    Orders = {o1, o2}
    InvoiceNos = {n1, n2}
    Commands = {c1, c2}
    Keys = {k1, k2, k3}
    NoOrder = NoOrder
    NoKey = NoKey
    Quantity = 2
SYMMETRY Symmetric
CHECK_DEADLOCK FALSE
INVARIANTS
    PaidOnlyReconciled
    SettlementIffAllReceived
    ReceiptsCountOnce
    OneInvoicePerCompletedParse
PROPERTIES
    PaidFreezesInvoices
