SPECIFICATION SuiteSpec
CONSTANTS
 Producers = {p1, p2}
 consumer = consumer
 main = main
 Entries = {e1, e2, e3}
 nil = nil
INVARIANTS NullMeansEmpty TraceRight WavePassed RegionsInOrder AllProcessed TracesApart
PROPERTIES ImplementsFifoQueues
