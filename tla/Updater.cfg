CONSTANTS
  Files = {exe, f1}
  Exe = exe
  Shipped = 0
  MaxVersion = 3
  MaxLag = 0
  MaxUpdates = 2
  Manifest = Manifest
SPECIFICATION FairSpec
INVARIANTS
  TypeOK
  InstallIsWhole
  OneAtWork
  ReportsAreComplete
  ChainsAreFew
PROPERTIES
  ImplementsInstallation
  UpdateEnds
