\* Four services and the gateway in front of them, one request.
SPECIFICATION FairSpec
CONSTANTS
  r1 = r1
  Requests <- MCRequests
  Names <- MCNames
  Routes <- MCRoutes
  Ports <- MCPorts
  EnvAddr <- MCEnvAddr
  DefaultPort = 1
  LeaseTTL = 2
  CallTimeout = 1
  UploadTimeout = 1
  ShutdownTimeout = 1
  MaxEvents = 2
  NoRoute = NoRoute
INVARIANTS
  TypeOK
  AnswersHonest
  FailuresExplained
  AdvertisedAlive
  ServingAdvertised
  ImagesReadable
PROPERTIES
  Answered
