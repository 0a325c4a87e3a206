CONSTANTS
  Threads = {t1, t2, t3}
  Tokens = 2
  Nobody = Nobody
SPECIFICATION Spec
SYMMETRY ThreadSymmetry
INVARIANT MutexExcludes
