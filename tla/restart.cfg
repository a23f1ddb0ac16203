\* One writer; the coordinator may crash at any step and restarts from its container.
SPECIFICATION Spec
CONSTANTS
  Publishers <- OnePublisher
  Boots <- TwoBoots
  Attempts <- MCAttempts
  Payloads <- MCPayloads
  ValidPayloads <- MCValidPayloads
  Profiles <- MCProfiles
  DefinedProfiles <- MCDefinedProfiles
  Overlay <- MCOverlay
  Ports <- MCPorts
  Devices <- MCDevices
  DeviceOf <- MCDeviceOf
  InitialPublishers <- NoneRegistered
  ProviderBindings <- ProviderAnswers
  InitialRecord <- Bound
  Requests <- RestartRequests
  MaxEpoch = 4
  MaxDeviceGeneration = 2
  MaxTopology = 2
  ExplicitRegistration = FALSE
  RequireOwnership = TRUE
  AdapterPolicy = "ApplyAndVerify"
  InitialAttempt = InitialAttempt
  NoProfile = NoProfile
  NoConfiguration = NoConfiguration
  NoOwner = NoOwner
  NoDelegate = NoDelegate
  NoDigest = NoDigest
  NoArg = NoArg
  Unregistered = Unregistered
  Writers = {w1}
  ConfiguredEpoch = 1
  MaxGeneration = 5
  NoTables = NoTables
  NoImage = NoImage
\* Clients may stop sending requests, and a coordinator may stay down.
CHECK_DEADLOCK FALSE
INVARIANTS TypeOK AcknowledgedIsDurable RestartIsPossible
PROPERTIES TrustIsEarned LastingEpochsEnd
