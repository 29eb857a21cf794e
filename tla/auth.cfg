\* Three registrations for two logins with two passwords, and one failure.  Once
\* all are answered nothing is left to do.
CONSTANTS
    Registration = {r1, r2, r3}
    Login = {l1, l2}
    Password = {p1, p2}
    MaxFaults = 1
SPECIFICATION Spec
CHECK_DEADLOCK FALSE
INVARIANTS
    TypeOK
    AcceptedCanLogin
    RefusalJustified
