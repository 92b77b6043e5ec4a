SPECIFICATION FairSpec
CONSTANTS
    o1 = o1
    a = a
    b = b
    d = d
    NoReq = NoReq
    Ops <- MCOps
    Reqs <- MCReqs
    OpOf <- MCOpOf
    MethodOf <- MCMethodOf
    MaxCrashes = 2
INVARIANTS OneRunAtATime CommittedOnce AnswersAgree NoOrphanMarker
PROPERTIES EveryCallEnds
