\* Every document with each of its fields varied alone, intact, cut off or tampered with.
SPECIFICATION Spec
CONSTANTS
  Absent = Absent
  OverlongTexts = {"overlong"}
  MalformedIds = {"malformed"}
  Digests <- MCDigests
  ListBound = 2
  Values <- MCValues
  Templates <- MCTemplates
  UnitValues <- MCUnitValues
INVARIANTS RoundTrip Canonical PartsAreRefused DamageIsRefused
\* A document that was read is done with.
CHECK_DEADLOCK FALSE
