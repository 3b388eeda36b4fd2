SPECIFICATION Spec
CONSTANTS
  ExpBits = 4
  MantBits = 6
  HExpBits = 3
  HMantBits = 3
  WordBits = 14
  Vectors <- MCVectors
  Blobs <- MCBlobs
INVARIANTS TypeOK UnreadFloatsIntact BlobIsNearest RoundTrip
