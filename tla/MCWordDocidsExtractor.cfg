CONSTANTS
  Slots <- MCSlots
  Words <- MCWords
  Texts <- MCTexts
  ExactFids <- MCExactFids
  ExactWords <- MCExactWords
SPECIFICATION Spec
INVARIANTS
  TypeOK
  WordIndexRebuiltByDeltas
  WordFidIndexRebuiltByDeltas
