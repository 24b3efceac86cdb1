SPECIFICATION FairSpec
CONSTANTS
    None = None
    alice = alice
    bob = bob
    carol = carol
    rawBob = rawBob
    rawBOB = rawBOB
    rawCarol = rawCarol
    Users = {alice, bob, carol}
    Registered = {alice, bob}
    RawIds = {rawBob, rawBOB, rawCarol}
    Normal <- Spelling
    Chats = {c1, c2}
    Messages = {m1,m2,m3}
    Requests = {r1, r2}
    MaxTime = 2
    Millisecond = 2
INVARIANT TypeOK
INVARIANT PointerConsistent
INVARIANT AnnouncedExactly
INVARIANT ListedChatIsFound
INVARIANT NewestUnlessOverlapped
INVARIANT WaitsAreShort
PROPERTY AtomicWrites
PROPERTY EveryRequestEnds
CHECK_DEADLOCK FALSE
