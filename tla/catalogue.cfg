\* Two profiles of two generations, six configurations and four bodies of evidence.
SPECIFICATION Spec
CONSTANTS
  OverlongTexts = {}
  Absent = Absent
  Profiles <- MCProfiles
  Requests <- MCRequests
  Evidence <- MCEvidence
  ProfileGenerations = 2
  MaxProfiles = 2
  ConfigurationBound = 2
  CapabilityBound = 2
  RestartBound = 1
INVARIANTS LiveIsRealisable AlreadyCurrentIsTrue ContainersLoad BoundProfilesAreDefined
PROPERTIES LessEvidenceLiftsOnlyLimits GenerationsAreImmutable
\* Every counter is bounded.
CHECK_DEADLOCK FALSE
