CONSTANTS
  w1 = w1  w2 = w2  A = A  B = B
  Workers = {w1, w2}
  Owners = {A, B}
  OwnerOf <- OneProcessEach
  TTL = 2
  MaxTime = 4
  NoLease = NoLease
SPECIFICATION MCSpec
INVARIANT MutualExclusion
 
 
 
CHECK_DEADLOCK FALSE
