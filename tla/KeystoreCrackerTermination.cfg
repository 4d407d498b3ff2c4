\* Does run() return?  Same bounds as KeystoreCracker.cfg.
CONSTANTS
  Threads = {t1, t2}
  NumPasswords = 3
  PackageSize = 2
  NoPassword = NoPassword
SPECIFICATION Spec
CHECK_DEADLOCK FALSE
PROPERTIES
  Termination
