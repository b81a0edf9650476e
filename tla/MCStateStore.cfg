SPECIFICATION Spec
CONSTANTS
  c1 = c1
  c2 = c2
  Callers <- MCCallers
  Ids = {t1}
  Validators = {v1, v2}
  NoValidator = NoValidator
  Absent = Absent
  MaxBytes = 2
  MaxCounter = 7
SYMMETRY MCSymmetry
INVARIANTS
  TypeOK
  RowsStayReadable
  CopiesAreExactOrBehind
  OneClaimPerGeneration
PROPERTIES
  MutationsSeeCurrentRow
  RepresentationFrozen
  ImplementsLifecycle
CHECK_DEADLOCK TRUE
