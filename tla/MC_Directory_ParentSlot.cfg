\* The root and three more sectors, two names, directories created with two
\* records (the parent link and one free slot) so that a third record is
\* appended.  The uninitialised in_use of a parent link reads as either value.
CONSTANTS
    r = r
    s1 = s1
    s2 = s2
    s3 = s3
    x = x
    y = y
    h1 = h1
    Secs <- MCSecs
    ROOT = r
    Names = {x, y}
    NoName = NoName
    NoSec = NoSec
    EntryCnt = 2
    Garbage = {TRUE, FALSE}
    Fds = {h1}
    MaxReads = 2
    ReaddirOnFiles = FALSE
    Dot = Dot
    DotDot = DotDot
    PathLen = 2

SPECIFICATION Spec
SYMMETRY Symmetry

INVARIANT ParentLink
