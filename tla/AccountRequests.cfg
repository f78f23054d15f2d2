\* Requests of two browsers.  One overlaps another or is cut short, something expires
\* early or the status changes once.  Eras, not passwords, tell the credentials apart.
SPECIFICATION Spec
CONSTANTS
    Browsers = {b1, b2}
    Passwords = {w1}
    Secrets = {k1, k2}
    Codes = {c1, c2}
    Sessions = {s1, s2, s3}
    ResetTokens = {t1}
    MaxChanges = 2
    MaxMishaps = 1
    MaxLapses = 1
SYMMETRY Shuffle
INVARIANTS
    TypeOK
    SessionsAreCurrent
    GoodForOnce
    FactorIsUsable
PROPERTIES
    CallerAloneStays
CHECK_DEADLOCK FALSE
