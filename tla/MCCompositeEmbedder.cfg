\* Every pair of sub-embedder options, Embedder::new, then queries and documents embedded.
CONSTANTS
  t1 = t1
  t2 = t2
  t3 = t3
  q = q
  Kinds <- MCKinds
  Models <- MCModels
  TestTexts <- MCTestTexts
  Texts <- MCTexts
  MaxDistNum = 1
  MaxDistDen = 100
SPECIFICATION Spec
\* Once every text has been embedded on both sides nothing changes any more.
CHECK_DEADLOCK FALSE
INVARIANTS
  ProducedFitStore
