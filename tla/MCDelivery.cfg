CONSTANTS
    u1 = u1
    u2 = u2
    d1 = d1
    d2 = d2
    c1 = c1
    c2 = c2
    k1 = k1
    mail = mail
    push1 = push1
    Client = {c1, c2}
    Worker = {k1}
    User = {u1, u2}
    Device = {d1, d2}
    Task = {mail, push1}
    Push = {push1}
    For <- MCFor
    MaxRetry = 1
    MaxReturns = 1
    Nobody = Nobody
    NoTask = NoTask
SPECIFICATION FairSpec
INVARIANTS
    RunsBounded
    RegistrationHolds
PROPERTIES
    TaskEnds
