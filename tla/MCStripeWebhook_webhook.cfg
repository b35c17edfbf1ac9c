SPECIFICATION Spec
CONSTANTS
    Payload = {p, q}
    Time = {1, 2, 3}
    Foreign = Foreign
    Malformed = Malformed
    Tolerance = 1
    MaxSignatures = 2
    MaxItems = 4
SYMMETRY MCSymmetry
CHECK_DEADLOCK FALSE
INVARIANTS
    WebhookTypeOK
    AcceptsTheGenuine
