SPECIFICATION Spec
CONSTANTS
  Workers = {w1, w2}
  MaxCommands = 2
  MaxRepeat = 1
  Lines <- MCLines
INVARIANTS ExecutesItsLine
