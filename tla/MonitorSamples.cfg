SPECIFICATION FairSpec
CONSTANTS Main = m
 Workers = {w}
 noThread = noThread
 Creators = {m, w}
 Samplers = {m, w}
 SoftFailures = TRUE
INVARIANTS SamplesApart
PROPERTIES ExitCompletes
