\* Concurrent mutations of a configured port and a change of its owner, each delivered once.
SPECIFICATION Spec
CONSTANTS
  Publishers <- TwoPublishers
  Boots <- OneBoot
  Attempts <- MCAttempts
  Payloads <- MCPayloads
  ValidPayloads <- MCValidPayloads
  Profiles <- MCProfiles
  DefinedProfiles <- MCDefinedProfiles
  Overlay <- MCOverlay
  Ports <- MCPorts
  Devices <- MCDevices
  DeviceOf <- MCDeviceOf
  InitialPublishers <- AllRegistered
  ProviderBindings <- ProviderAnswers
  InitialRecord <- Shareable
  Requests <- RaceRequests
  Threads = {t1, t2}
  MaxDeliveries = 1
  MaxEpoch = 2
  MaxDeviceGeneration = 1
  MaxTopology = 1
  ExplicitRegistration = TRUE
  RequireOwnership = TRUE
  AdapterPolicy = "DesiredStateOnly"
  InitialAttempt = InitialAttempt
  NoProfile = NoProfile
  NoConfiguration = NoConfiguration
  NoOwner = NoOwner
  NoDelegate = NoDelegate
  NoDigest = NoDigest
  NoArg = NoArg
  NoRequest = NoRequest
  NoRecord = NoRecord
  NoHardware = NoHardware
  Unregistered = Unregistered
SYMMETRY ThreadSymmetry
\* Clients may stop sending requests.
CHECK_DEADLOCK FALSE
INVARIANTS NoLostUpdate SupportedWhileLive
PROPERTIES OwnerCommits GenerationsAdvance
