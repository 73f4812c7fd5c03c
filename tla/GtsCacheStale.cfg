CONSTANTS
  Node = {n1, n2}
  Txn = {t1, t2}
  Reader = {r1}
  Kind <- ImplicitAndSingle
  Part <- BothAndOne
  n1 = n1
  n2 = n2
  t1 = t1
  t2 = t2
  GtsCache = TRUE
  MaxLead = 1
  MaxTime = 4
  MaxCrashes = 1
SPECIFICATION Spec
INVARIANT ReadsThePast
CHECK_DEADLOCK FALSE
