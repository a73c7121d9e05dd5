\* Two checkouts, two webhook deliveries, an administrator; three events.
SPECIFICATION Spec
CONSTANTS
    Checkout = {k1, k2}
    Webhook = {h1, h2}
    Admin = {}
    NoRow = NoRow
    Keep = Keep
    Corrections = {"canceled"}
    MaxCustomers = 2
    MaxEvents = 3
    MaxEdits = 0
    MaxCrashes = 1
SYMMETRY Symmetric
INVARIANTS
    TypeOK
    NothingDropped
    OneCustomer
    Converged
CHECK_DEADLOCK FALSE
