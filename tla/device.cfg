\* Two threads race for the device and for the record; every adapter outcome is possible.
SPECIFICATION Spec
CONSTANTS
  Publishers <- OnePublisher
  Boots <- OneBoot
  Attempts <- MCAttempts
  Payloads <- MCPayloads
  ValidPayloads <- MCValidPayloads
  Profiles <- MCProfiles
  DefinedProfiles <- MCDefinedProfiles
  Overlay <- MCOverlay
  Ports <- MCPorts
  Devices <- MCDevices
  DeviceOf <- MCDeviceOf
  InitialPublishers <- AllRegistered
  ProviderBindings <- ProviderAnswers
  InitialRecord <- Verified
  Requests <- DeviceRequests
  Threads = {t1, t2}
  MaxDeliveries = 1
  MaxEpoch = 1
  MaxDeviceGeneration = 1
  MaxTopology = 1
  ExplicitRegistration = TRUE
  RequireOwnership = TRUE
  AdapterPolicy = "ApplyAndVerify"
  InitialAttempt = InitialAttempt
  NoProfile = NoProfile
  NoConfiguration = NoConfiguration
  NoOwner = NoOwner
  NoDelegate = NoDelegate
  NoDigest = NoDigest
  NoArg = NoArg
  NoRequest = NoRequest
  NoRecord = NoRecord
  NoHardware = NoHardware
  Unregistered = Unregistered
SYMMETRY ThreadSymmetry
\* Clients may stop sending requests.
CHECK_DEADLOCK FALSE
PROPERTIES RetiredForever ImplementsStore
