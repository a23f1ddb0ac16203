\* The life of a port from its binding on, one request at a time.
SPECIFICATION Spec
CONSTANTS
  Publishers <- OnePublisher
  Boots <- OneBoot
  Attempts <- MCAttempts
  Payloads <- MCPayloads
  ValidPayloads <- MCValidPayloads
  Profiles <- MCProfiles
  DefinedProfiles <- MCDefinedProfiles
  Overlay <- MCOverlay
  Ports <- MCPorts
  Devices <- MCDevices
  DeviceOf <- MCDeviceOf
  InitialPublishers <- AllRegistered
  ProviderBindings <- ProviderAnswers
  InitialRecord <- BoundWithoutEvidence
  Requests <- LifecycleRequests
  Threads = {t1}
  MaxDeliveries = 1
  MaxEpoch = 1
  MaxDeviceGeneration = 1
  MaxTopology = 1
  ExplicitRegistration = TRUE
  RequireOwnership = TRUE
  AdapterPolicy = "DesiredStateOnly"
  InitialAttempt = InitialAttempt
  NoProfile = NoProfile
  NoConfiguration = NoConfiguration
  NoOwner = NoOwner
  NoDelegate = NoDelegate
  NoDigest = NoDigest
  NoArg = NoArg
  NoRequest = NoRequest
  NoRecord = NoRecord
  NoHardware = NoHardware
  Unregistered = Unregistered
\* Clients may stop sending requests.
CHECK_DEADLOCK FALSE
INVARIANTS TypeOK ValidRecords
PROPERTIES RevivedByReconcileOnly
