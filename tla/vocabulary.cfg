SPECIFICATION Spec
CONSTANTS
  Characters <- MCCharacters
  Vocabularies <- MCVocabularies
  Words <- MCWords
  Prefix <- MCPrefix
  UnkToken <- MCUnk
  Hash <- MCHash
  PowersOfTwo = {1, 2, 4, 8, 16, 32}
  LinearEdges = 8
  MaxInputChars = 3
INVARIANTS TypeOK EveryTokenFound NoDuplicateStored OnlyDuplicatesRaise WriterSatisfiesLoader WordPieceIsReference
