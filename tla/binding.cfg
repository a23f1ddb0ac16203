\* Two threads bind two ports while devices are replaced and bound ports are mutated.
SPECIFICATION Spec
CONSTANTS
  Publishers <- OnePublisher
  Boots <- OneBoot
  Attempts <- MCAttempts
  Payloads <- MCPayloads
  ValidPayloads <- MCValidPayloads
  Profiles <- MCProfiles
  DefinedProfiles <- MCDefinedProfiles
  Overlay <- MCOverlay
  Ports <- TwoPorts
  Devices <- TwoDevices
  InitialPublishers <- AllRegistered
  ProviderBindings <- ProviderAnswers
  InitialRecord <- Bound
  Requests <- MCBoundRequests
  Threads = {t1, t2}
  MaxDeliveries = 1
  MaxEpoch = 2
  MaxDeviceGeneration = 2
  MaxTopology = 1
  ExplicitRegistration = TRUE
  RequireOwnership = TRUE
  AdapterPolicy = "Apply"
  InitialAttempt = InitialAttempt
  NoProfile = NoProfile
  NoConfiguration = NoConfiguration
  NoOwner = NoOwner
  NoDelegate = NoDelegate
  NoDigest = NoDigest
  NoArg = NoArg
  NoRequest = NoRequest
  NoRecord = NoRecord
  Unregistered = Unregistered
  BindRequests <- MCBindRequests
  PortBound = 1
  DeviceBound = 1
  ProfileId <- MCProfileId
  AggregateOf <- MCAggregateOf
  DerivedFrom <- MCDerivedFrom
  NoAggregate = NoAggregate
  NoParent = NoParent
  NoDevice = NoDevice
SYMMETRY ThreadSymmetry
\* Clients may stop sending requests.
CHECK_DEADLOCK FALSE
INVARIANTS QueriesMissNothing IndexesAgree AcknowledgedBindingsHold BoundsHold
