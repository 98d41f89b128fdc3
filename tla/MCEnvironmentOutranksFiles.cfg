SPECIFICATION Spec
CONSTANTS
  Binaries <- SomeBinaries
  CommandLines <- SomeCommandLines
  Environments <- SomeEnvironments
  FileSystems <- SomeFileSystems
  Loops <- SomeLoops
INVARIANT EnvironmentOutranksFiles
