\* Tree invariants over every interleaving of batches, discards and purges.
CONSTANTS
  a = a
  b = b
  KeyLen = 3
  Keys <- MCKeys
  Values <- MCValues
  NoValue = NoValue
  Placeholder = Placeholder
  NoCache = NoCache
  MaxVersion = 2
  MaxSetSize = 2
  MaxSetsPerBatch = 2
SPECIFICATION Spec
SYMMETRY ValueSymmetry
INVARIANTS
  TypeOK
  RootHashIsReference
  ProofsVerify
  RangeProofsAreRightSiblings
  StaleIndexExact
  NoOperationFails
