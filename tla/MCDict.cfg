\* Table sizes 2, 4 and 8: two rehashes, five colliding keys, two values, and an
\* iterator that lookups interfere with.
CONSTANTS
    Key <- MCKey
    Hash <- MCHash
    Val = {va, vb}
    NULL = NULL
    InitialSize = 2
    Iter = {i1}
SPECIFICATION Spec
INVARIANTS TypeOK WellPlaced LoadBounded IteratorVisitsAllOnce
PROPERTY ImplementsMap
