SPECIFICATION SuiteSpec
CONSTANTS
 Helpers = {h1, h2}
 master = master
 repeating = TRUE
 blockSize = 1
 Sizes = {5}
 MaxBatches = 2
 a = a
 b = b
 c = c
INVARIANTS BatchesWorked NoneLeftBehind ProfilesApart InfosFinal
PROPERTIES SharesFinish RunReturns WriteReturns
