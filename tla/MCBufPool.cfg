\* Three threads, two pages; slots that fill a page to its end and slots that do not.
CONSTANTS
    Thread = {t1, t2, t3}
    SlotSize = {2, 3, 4}
    PageBytes = 7
    Header = 1
    MaxPages = 2
    NULL = NULL
    Written = Written
SPECIFICATION Spec
INVARIANTS NoOverlap FreeListSound NothingLost
