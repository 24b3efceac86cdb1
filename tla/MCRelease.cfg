SPECIFICATION Spec
CONSTANTS
    NumFiles = 3
    NumOld = 1
    j1 = j1
    j2 = j2
    p1 = p1
    p2 = p2
    Pods = {j1, j2}
    BackoffLimit = 1
    Posts = {p1, p2}
    Waiting = Waiting
    Breaking = {2}
    NoRelease = NoRelease
SYMMETRY Symmetry
INVARIANTS TypeOK AppliedInOrder AppliedOnce NewServesFullSchema
INVARIANTS StoredBlogHasImage NoOrphanImage AnswerMatchesStores
PROPERTY OneUpgrade
CHECK_DEADLOCK FALSE
