CONSTANTS
    b1 = b1  u1 = u1  u2 = u2  k1 = k1  w1 = w1  w2 = w2
    NoKey = NoKey
    Broadcasts = {b1}
    Legacy = {b1}
    Users = {u1, u2}
    Keys = {k1}
    Workers = {w1, w2}
    BatchSize = 2
    MaxFaults = 3
SPECIFICATION FairSpec
CHECK_DEADLOCK FALSE
INVARIANTS AudienceAsConfirmed StopsSending ProgressHonest
PROPERTIES EveryRowSettles
