\* A FabricClient and another peer at a server with room for one session.
SPECIFICATION Spec
CONSTANTS
  Clients = {c1, c2}
  FabricClients = {c1}
  Sessions = {s1}
  Handles = {h1, h2}
  MaxSessions = 1
  CallKinds <- MCCallKinds
  RawKinds <- MCRawKinds
  Buffer = 1
  NoHandle = NoHandle
  NoSession = NoSession
  NoRequest = NoRequest
\* The server may stay down.
CHECK_DEADLOCK FALSE
INVARIANTS RegisteredSocketsAreOwn JoinedIsQuiet
PROPERTIES JoinReturns CallsReturn RetryIsServed
