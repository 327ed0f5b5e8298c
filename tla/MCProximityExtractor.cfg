\* Every precision change and interleaving of the two closures, under fairness.
CONSTANTS
  a = a
  b = b
  Words <- MCWords
  Texts <- MCTexts
  Slots <- MCSlots
  MaxDistance <- MCMaxDistance
SPECIFICATION FairSpec
INVARIANTS
  SorterIndexInRange
  IndexRebuiltByDeltas
PROPERTIES
  Termination
  ImplementsDeltas
