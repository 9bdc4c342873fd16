SPECIFICATION VmSpec
CONSTANTS
    p1 = p1
    p2 = p2
    Procs = {p1, p2}
    FRAMES = 6
    PAGE_SIZE = 2
    PAGES_PER_TABLE = 2
    LAST_PAGE = 4
    HeapBase = 4
    Addresses = {4, 5, 6, 8}
    Lengths = {1, 4}
    MaxVmas = 2
SYMMETRY Symmetry
CONSTRAINT VmBound
PROPERTY BrkKeepsHeap
