\* Two users, three refresh tokens, one reset; up to three requests of several steps.
CONSTANTS
    h1 = h1
    h2 = h2
    u1 = u1
    u2 = u2
    t1 = t1
    t2 = t2
    t3 = t3
    Handler = {h1, h2}
    User = {u1, u2}
    Token = {t1, t2, t3}
    Reset = {r1}
    Org = Org
    Nobody = Nobody
    MaxRequests = 3
SPECIFICATION Spec
SYMMETRY MCSymmetry
INVARIANTS KeepsAdmin OneSessionPerLogin SignedOut
PROPERTIES WhatEndedStays
