SPECIFICATION Spec
CONSTANTS Inputs <- Rewinding
 Disorder = {1}
 FallbackBound = 5
 FallbackLimit = 4
 StagingMax = 2
 BufferMax = 2
INVARIANT RewoundTraceRight
