SPECIFICATION Spec
CONSTANTS
  Unset <- UnsetValue
  MaxW = 3
  majority = majority
  tag = tag
  Strings <- TwoStrings
  Defaults <- SmallDefaults
  Options <- SmallOptions
  Apis <- SmallApis
  Settable = {0, 1}
  FirstIds = {3, 7}
  IdModulus = 8
  MaxCalls = 2
INVARIANTS NoReplyLeftBehind SuccessIsTheServers OptionsReachTheServer
CHECK_DEADLOCK FALSE
