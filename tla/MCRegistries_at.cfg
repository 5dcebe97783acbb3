SPECIFICATION Spec
CONSTANTS
  Names <- NamesWithAt
  Versions <- TwoVersions
  Configs <- FourConfigs
  Sources = {"model", "missing model", "directory", "missing directory", "missing default directory"}
INVARIANT BatcherOfTheModel
CHECK_DEADLOCK FALSE
