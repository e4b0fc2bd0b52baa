SPECIFICATION Spec
CONSTANTS
    Credentials = {c1, c2, c3}
    Agents = {a1}
    Admins = {m1, m2}
    NoCredential = NoCredential
    Requests = {r1, r2, r3}
    Slots = 1
INVARIANTS TypeOK SentWasAllowed RotatedOnce
SYMMETRY Symmetry
CHECK_DEADLOCK FALSE
