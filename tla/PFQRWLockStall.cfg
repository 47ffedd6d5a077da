SPECIFICATION Spec
CONSTANTS Readers = {r1, r2}
 Writers = {w1}
 nil = nil
 Wrap = 16
INVARIANT Exclusive
