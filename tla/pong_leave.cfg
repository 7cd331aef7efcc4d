SPECIFICATION Spec

CONSTANTS
    g1 = g1
    s1 = s1
    s2 = s2
    s3 = s3
    s4 = s4
    Games = {g1}
    Streams = {s1, s2, s3}

INVARIANTS
    NobodyPlaysStopped

CHECK_DEADLOCK FALSE
