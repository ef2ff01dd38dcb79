\* Four chunks, each of which may be damaged or fail to be written.
SPECIFICATION Spec
CONSTANT Total = 4
\* The Action stops once it has reported.
CHECK_DEADLOCK FALSE
INVARIANTS
  IInv
