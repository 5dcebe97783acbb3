SPECIFICATION MainSpec
CONSTANTS
  Names <- MCNames
  Versions <- MCVersions
  Configs <- MCConfigs
  Sources = {"model", "missing model", "directory", "directory/", "missing directory", "missing default directory"}
  Launches <- ImageLaunches
  Files <- NoFiles
  Numeric <- MCNumeric
  Slashed = {"d/"}
  MaxFiles <- OneFile
  Bad = Bad
  NoFile = NoFile
  NoLaunch = NoLaunch
INVARIANTS FlagsOverrideEnvironment
