SPECIFICATION InputSpec
CONSTANTS
  Board = Board
  Hotkeys = Hotkeys
  Devices = {Board, Hotkeys}
  Ctrl = Ctrl
  Shift = Shift
  Up = Up
  Omen = Omen
  Layout <- MCLayout
  Specials = {}
  Users = {u1}
  Unbound = Unbound
  Buffer = 2
  MaxThreads = 2
INVARIANTS
  HeardAsTyped
  OneActivation
