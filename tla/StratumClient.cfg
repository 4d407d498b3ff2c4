\* 8-bit U256.  Jobs at two heights or a height that does not parse, with
\* boundaries 0, 1, 2 (a hard job), 200 (an easy one), or hex that fails or is too
\* long; three lines from the server.  RandomX gives 5 or 100, and
\* mine_job reaches two nonces.
CONSTANTS
  W = 8
  Heights = {1, 2}
  PowHashes = {p1}
  Boundaries = {0, 1, 2, 200, BadHex, TooLong}
  BadHex = BadHex
  TooLong = TooLong
  BadHeight = BadHeight
  PowValues = {5, 100}
  MaxTries = 2
  NoVM = NoVM
  MaxMessages = 3
  NoJob = NoJob
SPECIFICATION Spec
\* run returns when the connection ends, on an error, or by a panic.
CHECK_DEADLOCK FALSE
PROPERTIES
  SessionEnds
