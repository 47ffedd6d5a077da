SPECIFICATION Spec
CONSTANTS Helpers = {h1, h2}
 master = master
 repeating = TRUE
 blockSize = 1
 Sizes = {1, 3}
 MaxBatches = 2
INVARIANT NoneLeftBehind
