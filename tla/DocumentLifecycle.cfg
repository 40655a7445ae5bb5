\* Two documents, two overlapping deletions, one download, crashes.
SPECIFICATION Spec
CONSTANTS
    x = x
    y = y
    t1 = t1
    t2 = t2
    r1 = r1
    Documents = {x, y}
    Deleters = {t1, t2}
    Readers = {r1}
    None = None
SYMMETRY Symmetry
INVARIANTS
    BytesHaveARow
    StoredIsThere
    DeletedStaysGone
    ReturnedIsReadable
