SPECIFICATION Spec
CONSTANTS a = a
 b = b
 c = c
 Size = 2
 Workers <- Teams
 Profiles <- Inputs
 Summary <- Small
 bufferSize = 20
 startOffset = 6
 NumRanges = 3
 needsLock = FALSE
INVARIANT ProfilesApart
