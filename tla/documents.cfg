CONSTANTS
  Settings <- small_Settings
  Paragraphs <- small_Paragraphs
  MaxParagraphs = 2
  Chunks <- small_Chunks
  MaxChunks = 3
  Searches <- small_Searches

SPECIFICATION Spec

INVARIANTS
  ChunksAreWhole
  SearchesAgree

CHECK_DEADLOCK FALSE
