SPECIFICATION Spec
CONSTANTS
  Console = {c1, c2, c3}
  Name = {n1}
  NoName = NoName
  MEMBER_MAX = 2
  NicSlots = 2
  MaxCommands = 4
SYMMETRY Consoles
INVARIANTS TypeOK NoSplitRoom HostRosterExact
