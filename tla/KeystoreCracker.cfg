\* Two threads share three candidate passwords taken in packages of two.
CONSTANTS
  Threads = {t1, t2}
  NumPasswords = 3
  PackageSize = 2
  NoPassword = NoPassword
SPECIFICATION Spec
\* run() really returns once every thread has finished: that state has no
\* successor.
CHECK_DEADLOCK FALSE
INVARIANTS
  PasswordsConserved
PROPERTIES
  FoundStopsAll
