SPECIFICATION SuiteSpec
CONSTANTS
 Main = m
 Workers = {w}
 Callbacks = {c}
 Ops = {o1, o2}
 none = none
 r1 = r1
 w1 = w1
 w2 = w2
 Senders = {s1, s2}
 MaxSends = 3
 Target = 2
 Word = 16
 Streams = {x1, x2}
 streams_per_thread = 1
 MaxItems = 2
 nobody = nobody
 nil = nil
INVARIANTS NothingLost ZeroMeansDelivered MainAttributesAll
PROPERTIES EveryoneGetsIn ItemsReceived ThreadsEnd
