SPECIFICATION Spec
CONSTANTS
  None = None
  Absent = Absent
  Builtin = {"DIRECT", "REJECT"}
  plain = plain
  hostile = hostile
  Profiles <- MCProfiles
  Text <- MCText
  Global <- MCGlobal
  Page <- MCPage
  Clashes <- MCClashes
  DefaultClash <- MCClash
  DefaultVerge <- MCVerge
  PatchSet <- MCPatchSet
  PortChoices <- MCPorts
  Modes <- MCModes
  MinPort = 2
  MaxPort = 4
  MaxWork = 2
  MaxFaults = 1
  MaxTaken = 1
  MaxEnds = 1
INVARIANTS
  ConfigurationHolds
  SettingsAgree
  NamedPortIsServed
PROPERTIES
  OperationsEnd
CHECK_DEADLOCK FALSE
