SPECIFICATION Spec
CONSTANTS
  Names <- PlainNames
  Versions <- TwoVersions
  Configs <- FourConfigs
  Sources = {"directory/"}
INVARIANT ServesWhatIsThere
CHECK_DEADLOCK FALSE
