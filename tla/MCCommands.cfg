SPECIFICATION Spec
CONSTANTS
  Servers <- MCServers
  Tagged <- MCTagged
  Preferences <- MCPreferences
  Deployments <- MCDeployments
  MaxElections = 2
  MaxCalls = 2
INVARIANTS WritesReachPrimary ReadPrefKept ValuesAreDone ListsAreThatServers
CHECK_DEADLOCK FALSE
