SPECIFICATION BoundedSpec
CONSTANTS Readers = {r1, r2}
 Writers = {w1, w2}
 nil = nil
 Wrap = 3
INVARIANTS WriterAlone PhaseFair
PROPERTIES WritersQueueFairly
