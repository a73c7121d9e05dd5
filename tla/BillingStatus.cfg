\* The statuses an undisturbed checkout stores.
SPECIFICATION Spec
CONSTANTS
    Checkout = {k1, k2}
    Webhook = {h1, h2}
    Admin = {adm}
    NoRow = NoRow
    Keep = Keep
    Corrections = {"canceled"}
    MaxCustomers = 2
    MaxEvents = 3
    MaxEdits = 0
    MaxCrashes = 0
SYMMETRY Symmetric
INVARIANT StatusIsChoice
CHECK_DEADLOCK FALSE
