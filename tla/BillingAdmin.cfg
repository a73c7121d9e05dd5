\* One checkout, two webhook deliveries against an administrator.
SPECIFICATION Spec
CONSTANTS
    Checkout = {k1}
    Webhook = {h1, h2}
    Admin = {adm}
    NoRow = NoRow
    Keep = Keep
    Corrections = {"canceled"}
    MaxCustomers = 1
    MaxEvents = 3
    MaxEdits = 1
    MaxCrashes = 0
SYMMETRY Symmetric
PROPERTY CancelSticks
CHECK_DEADLOCK FALSE
