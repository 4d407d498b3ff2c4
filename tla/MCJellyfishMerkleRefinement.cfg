\* The tree refines VersionedKV (no symmetry: a temporal property).
CONSTANTS
  a = a
  b = b
  KeyLen = 3
  Keys <- MCKeys
  Values <- MCValues
  NoValue = NoValue
  Placeholder = Placeholder
  NoCache = NoCache
  MaxVersion = 1
  MaxSetSize = 2
  MaxSetsPerBatch = 2
SPECIFICATION HSpec
PROPERTY
  ImplementsVersionedKV
