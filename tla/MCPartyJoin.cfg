SPECIFICATION Spec
CONSTANTS
  Console = {c1, c2}
  Name = {n1}
  NoName = NoName
  MEMBER_MAX = 2
  NicSlots = 2
  MaxCommands = 3
PROPERTY JoinsAreCounted
