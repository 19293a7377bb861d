\* Three generations of settings, one child and a child of that.
SPECIFICATION Spec
CONSTANTS
  Configs <- MCConfigs
  SocketAddress = "peer"
  Messages <- MCMessages
  Children = {c1, c2}
  MaxRevision = 3
  MaxVerdicts = 2
INVARIANTS
  CallIsTransparent
  ErrorsAreFailures
  RouteIsKnown
  DecisionTravels
  AdmittedUnderOneConfig
  RecordedFromTheRequest
  FailureReachesNative
