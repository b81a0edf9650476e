SPECIFICATION Spec
CONSTANTS
  chrome = chrome
  brave = brave
  custom = custom
  a = a
  b = b
  Standard <- MCStandard
  Custom <- MCCustom
  Callers <- MCCallers
  MaxEdits = 1
SYMMETRY MCSymmetry
INVARIANTS
  HostServesTracked
  LeastPrivilege
PROPERTIES
  CompletedMeansServed
