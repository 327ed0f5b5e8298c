CONSTANTS
  a = a
  b = b
  Words <- MCWords
  Texts <- MCTexts
  Slots <- MCCrossSlots
  MaxDistance <- MCMaxDistance
SPECIFICATION Spec
INVARIANT
  DocumentPairsAcrossFields
