SPECIFICATION Spec
CONSTANTS
  Keys <- TypingKeys
  Readers = {r}
  KB_BUFFER_SIZE = 6
  Nul = nul
  MaxStrokes = 3
  MaxWire = 3
INVARIANT TypeOK
INVARIANT PressedIsHeld
INVARIANT ModifiersSettle
PROPERTY IsQueue
