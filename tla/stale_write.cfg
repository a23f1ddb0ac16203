\* Two writers gather and write their state through.
SPECIFICATION Spec
CONSTANTS
  Publishers <- OnePublisher
  Boots <- TwoBoots
  Attempts <- MCAttempts
  Payloads <- MCPayloads
  ValidPayloads <- MCValidPayloads
  Profiles <- MCProfiles
  DefinedProfiles <- MCDefinedProfiles
  Overlay <- MCOverlay
  Ports <- MCPorts
  Devices <- MCDevices
  DeviceOf <- MCDeviceOf
  InitialPublishers <- NoneRegistered
  ProviderBindings <- ProviderAnswers
  InitialRecord <- Bound
  Requests <- ConcurrentRequests
  MaxEpoch = 2
  MaxDeviceGeneration = 1
  MaxTopology = 1
  ExplicitRegistration = FALSE
  RequireOwnership = TRUE
  AdapterPolicy = "ApplyAndVerify"
  InitialAttempt = InitialAttempt
  NoProfile = NoProfile
  NoConfiguration = NoConfiguration
  NoOwner = NoOwner
  NoDelegate = NoDelegate
  NoDigest = NoDigest
  NoArg = NoArg
  Unregistered = Unregistered
  Writers = {w1, w2}
  ConfiguredEpoch = 1
  MaxGeneration = 6
  NoTables = NoTables
  NoImage = NoImage
SYMMETRY WriterSymmetry
\* Clients may stop sending requests, and a coordinator may stay down.
CHECK_DEADLOCK FALSE
INVARIANTS AcknowledgedIsDurable
