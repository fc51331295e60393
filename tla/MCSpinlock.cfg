CONSTANTS
    c1 = c1
    c2 = c2
    CPUs <- MCCPUs

SPECIFICATION FairSpec

INVARIANT TypeOK
INVARIANT MutualExclusion
INVARIANT NoSelfDeadlock

PROPERTY IrqStateRestored
PROPERTY FreeLockIsTaken
