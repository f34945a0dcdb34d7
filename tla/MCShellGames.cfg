SPECIFICATION ShellSpec
CONSTANTS
  Lines <- MCLines
  Numeral <- MCNumeral
  COHERENCE_START = 12
  COHERENCE_MAX = 14
  APP_BUDGET = 2
INVARIANT
  SubcommandHeard
