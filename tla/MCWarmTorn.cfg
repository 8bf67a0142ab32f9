\* Two pages and three processes: one that saves, one whose save fails or is
\* interrupted, and one that restores.
SPECIFICATION Spec
CONSTANTS
  Contents = {a, b}
  Garbage = Garbage
  NoPage = NoPage
  Pages = 2
  MaxRuns = 3
INVARIANT RestoredIsSnapshot
CHECK_DEADLOCK FALSE
