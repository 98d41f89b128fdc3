SPECIFICATION Spec
CONSTANTS
  NoValue = NoValue
  Broken = Broken
  Addresses <- AllAddresses
  Loopback = {"127.0.0.1", "::1"}
  Unspecified = {"0.0.0.0"}
  Interfaces = {"127.0.0.1", "10.0.0.5"}
  Resolvers <- SomeResolvers
  Listens <- SomeListens
  Endpoints <- SomeEndpoints
  Environments <- SomeEnvironments
INVARIANT
  TypeOK
PROPERTIES
  NoLoopWhileNamesHold
  RefusalsAreJustified
