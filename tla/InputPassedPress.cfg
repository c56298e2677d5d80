\* A key is still down when a reset or a marked release ends its hold.
SPECIFICATION InputSpec
CONSTANTS
  back = back
  letter = letter
  control = control
  cancel = cancel
  act = act
  Keys = {back, letter}
  Plain = Plain
  Modifiers = {Plain, control}
  ReservedKeys = {back}
  Commands = {cancel, act}
  Defaults <- MCDefaults
  Unbound = Unbound
  Unarmed = Unarmed
  Up = Up
  Targets = {w1, w2}
  NoTarget = NoTarget
  a = a
  b = b
  c = c
  board = board
  hand = hand
  Nodes = {a, b, c}
  Zones = {board, hand}
  Specs <- MCSpecs
  None = None
  MaxModals = 2
PROPERTY PassedPressHasItsRelease
