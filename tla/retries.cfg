\* Requests that state expectations are delivered twice; publishers restart, an epoch begins, the device and the topology are replaced.
SPECIFICATION Spec
CONSTANTS
  Publishers <- OnePublisher
  Boots <- TwoBoots
  Attempts <- MCAttempts
  Payloads <- MCPayloads
  ValidPayloads <- MCValidPayloads
  Profiles <- MCProfiles
  DefinedProfiles <- MCDefinedProfiles
  Overlay <- MCOverlay
  Ports <- MCPorts
  Devices <- MCDevices
  DeviceOf <- MCDeviceOf
  InitialPublishers <- NoneRegistered
  ProviderBindings <- ProviderAnswers
  InitialRecord <- DesiredOnly
  Requests <- RetriedRequests
  Threads = {t1, t2}
  MaxDeliveries = 2
  MaxEpoch = 2
  MaxDeviceGeneration = 2
  MaxTopology = 2
  ExplicitRegistration = FALSE
  RequireOwnership = TRUE
  AdapterPolicy = "Apply"
  InitialAttempt = InitialAttempt
  NoProfile = NoProfile
  NoConfiguration = NoConfiguration
  NoOwner = NoOwner
  NoDelegate = NoDelegate
  NoDigest = NoDigest
  NoArg = NoArg
  NoRequest = NoRequest
  NoRecord = NoRecord
  NoHardware = NoHardware
  Unregistered = Unregistered
SYMMETRY ThreadSymmetry
\* Clients may stop sending requests.
CHECK_DEADLOCK FALSE
INVARIANTS ConfigurationCommitsOnce LiveIncarnationsAreCurrent
