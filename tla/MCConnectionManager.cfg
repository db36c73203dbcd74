SPECIFICATION Spec
CONSTANTS
  Name <- MCName
  Machine <- MCMachine
  Me <- MCMe
  MemberLists <- MCMemberLists
  Clients <- MCClients
  Start <- MCStart
  PingInterval = 1
  MasterInterval = 2
  MaxChanges = 2
  MaxWait = 1
  MaxPid = 2
INVARIANTS BlacklistSound RoleRecent SocketRecent
