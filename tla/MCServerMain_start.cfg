SPECIFICATION MainSpec
CONSTANTS
  Names <- MCNames
  Versions <- MCVersions
  Configs <- MCConfigs
  Sources = {"model", "missing model", "directory", "directory/", "missing directory", "missing default directory"}
  Launches <- MCLaunches
  Files <- MCFiles
  Numeric <- MCNumeric
  Slashed = {"d/"}
  MaxFiles <- FewFiles
  Bad = Bad
  NoFile = NoFile
  NoLaunch = NoLaunch
INVARIANTS MainTypeOK ServesAsSpelled BatcherOfTheModel LaterSourceWins ServesWhatWasChosen
PROPERTIES InitConfigKeepsFiles
