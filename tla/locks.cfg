\* Three threads, each making up to two calls of the engine's operations.
SPECIFICATION Spec
CONSTANTS
  Threads = {t1, t2, t3}
  MaxCalls = 2
  Idle = Idle
SYMMETRY ThreadSymmetry
\* Callers may stop calling.
CHECK_DEADLOCK FALSE
INVARIANTS DeadlockFree
