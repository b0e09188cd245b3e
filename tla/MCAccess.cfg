\* An administrator and a user, two requests at a time, and every way to get
\* and to lose a session; the limiter lets two attempts into a window.
SPECIFICATION Spec
CONSTANTS
    Admin = admin
    User = {admin, user}
    Device = {d1, d2}
    Jti = {j1, j2}
    Challenge = {c1}
    Request = {r1, r2}
    RateMax = 2
    Window = 1
    MaxCalls = 5
    MaxTime = 1
    MaxRestarts = 1
    NoUser = nobody
    NoDevice = nodevice
SYMMETRY Interchangeable
INVARIANTS
    ChallengeOnce
    RevokedHasNoSession
    SessionsMatchDevices
    UnapprovedStaysOut
    BootstrapGuarded
PROPERTIES
    EndedStaysEnded
\* Once nobody is active, no session is left and the restarts are used up,
\* nothing more can happen: the last administrator may revoke himself.
CHECK_DEADLOCK FALSE
