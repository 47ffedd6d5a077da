SPECIFICATION Spec
CONSTANTS Main = m
 Workers = {w1, w2}
 noThread = noThread
 Creators = {m}
 Samplers = {}
 SoftFailures = FALSE
INVARIANTS WalkOnList FinishedBeforeProcess ExitWaits
