SPECIFICATION Spec
CONSTANTS Main = m
 Workers = {w1, w2}
 Process = process
 Cores = 2
 none = none
INVARIANTS WrittenOnce AllWritten
