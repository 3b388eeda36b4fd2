SPECIFICATION Spec
CONSTANTS
  Width <- MCWidth
  Cont = "~"
  Blank = " "
  Space = {" ", "s"}
  Punct = {",", "[", "]"}
  Control = {"^"}
  Cjk = {"J"}
  Mark = {"m"}
  Lower <- MCLower
  Nfd <- MCNfd
  Added <- MCAdded
  Vocab <- MCVocab
  ContVocab <- MCContVocab
  MaxTokenChars = 2
  MaxInputChars = 3
  Unk = "unk"
  DropUnk = TRUE
  Batches <- MCBlankBatches
  Limits = {0, 1, 2}
  BytesPerToken = 2
  MinBytes = 2
  MaxBytes = 4
  Backscan = 2
  EmptyRaises = TRUE
  Policies = {TRUE, FALSE}
INVARIANT BlamedTextFails
