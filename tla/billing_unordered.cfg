SPECIFICATION Spec
CONSTANTS
    u1 = u1
    u2 = u2
    c1 = c1
    c2 = c2
    s1 = s1
    j1 = j1
    j2 = j2
    None = None
    Users = {u1, u2}
    Customers = {c1, c2}
    Subs = {s1}
    Jobs = {j1, j2}
    InvoiceEvents = {"invoice_payment_paid"}
    InOrder = FALSE
    MaxEvents = 5
    MaxInvoices = 1
    MaxRetries = 0
    MaxAdminActs = 1
SYMMETRY Symmetry
CHECK_DEADLOCK FALSE
INVARIANTS
    RecordsBelongToOwner
    AccessHasCause
