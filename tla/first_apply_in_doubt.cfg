\* The first apply of a port ends with an unknown outcome.
SPECIFICATION Spec
CONSTANTS
  Publishers <- OnePublisher
  Boots <- OneBoot
  Attempts <- MCAttempts
  Payloads <- MCPayloads
  ValidPayloads <- MCValidPayloads
  Profiles <- MCProfiles
  DefinedProfiles <- MCDefinedProfiles
  Overlay <- MCOverlay
  Ports <- MCPorts
  Devices <- MCDevices
  DeviceOf <- MCDeviceOf
  InitialPublishers <- AllRegistered
  ProviderBindings <- ProviderAnswers
  InitialRecord <- Bound
  Requests <- FirstConfiguration
  Threads = {t1}
  MaxDeliveries = 1
  MaxEpoch = 1
  MaxDeviceGeneration = 1
  MaxTopology = 1
  ExplicitRegistration = TRUE
  RequireOwnership = TRUE
  AdapterPolicy = "Apply"
  InitialAttempt = InitialAttempt
  NoProfile = NoProfile
  NoConfiguration = NoConfiguration
  NoOwner = NoOwner
  NoDelegate = NoDelegate
  NoDigest = NoDigest
  NoArg = NoArg
  NoRequest = NoRequest
  NoRecord = NoRecord
  NoHardware = NoHardware
  Unregistered = Unregistered
\* Clients may stop sending requests.
CHECK_DEADLOCK FALSE
INVARIANTS ValidRecords
