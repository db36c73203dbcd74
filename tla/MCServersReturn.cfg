SPECIFICATION LiveSpec
CONSTANTS
  Name <- MCName
  Machine <- MCMachine
  Me <- MCMe
  MemberLists <- MCMemberLists
  Clients <- OneClient
  Start <- StartWithForeign
  PingInterval = 1
  MasterInterval = 2
  MaxChanges = 2
  MaxWait = 0
  MaxPid = 1
PROPERTY ServersReturn
