\* baselines.py:101: the next version is free when nothing overlaps.
SPECIFICATION Spec
CONSTANTS
    r1 = r1  r2 = r2
    Requests <- OneRequest
    MaxVersion = 2
    PageLimit = 2
INVARIANT NumbersAreFree
