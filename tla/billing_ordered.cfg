SPECIFICATION Spec
CONSTANTS
    u1 = u1
    c1 = c1
    s1 = s1
    j1 = j1
    j2 = j2
    None = None
    Users = {u1}
    Customers = {c1}
    Subs = {s1}
    Jobs = {j1, j2}
    InvoiceEvents = {"invoice_payment_paid"}
    InOrder = TRUE
    MaxEvents = 9
    MaxInvoices = 2
    MaxRetries = 1
    MaxAdminActs = 0
SYMMETRY Symmetry
CHECK_DEADLOCK FALSE
INVARIANTS
    TypeOK
    
    PaymentsRecorded
