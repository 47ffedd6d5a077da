SPECIFICATION SuiteSpec
CONSTANTS
 Threads = {t1, t2, t3}
 nil = nil
 PushThreads = {t1, t2, t3, t4}
 streams_per_thread = 2
 none = none
 IdThreads = {t1, t2, t3}
 BLOCK_SIZE = 2
 NUM_BLOCKS = 2
 FirstIds = {3, 5}
 MaxGets = 3
 NULL = NULL
 \* Addresses 4 and 36 have one id and share their entry with 12; the id of
 \* 32 is 0.
 BlameThreads = {t1, t2}
 Mutexes = {4}
 Events = {12, 32, 36}
 N = 2
 Low = 32
 Wrap = 3
 Weights = {2}
 MaxSamples = 3
 MaxUses = 3
 t1 = t1
 t2 = t2
 t3 = t3
 lsent = lsent
 rsent = rsent
INVARIANTS MutualExclusion NodeAlive ChannelsPlaced OwnChannel BlameConserved ListSound Linearizable
           PoisonExact OneBuilder
PROPERTIES ImplementsFairLock
