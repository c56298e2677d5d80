\* One reserved key and another, with and without a modifier; two windows.  Two
\* nodes, one of which changes zones, and nested modals.
SPECIFICATION InputSpec
CONSTANTS
  back = back
  letter = letter
  control = control
  cancel = cancel
  act = act
  Keys = {back, letter}
  Plain = Plain
  Modifiers = {Plain, control}
  ReservedKeys = {back}
  Commands = {cancel, act}
  Defaults <- MCDefaults
  Unbound = Unbound
  Unarmed = Unarmed
  Up = Up
  Targets = {w1, w2}
  NoTarget = NoTarget
  a = a
  b = b
  c = c
  board = board
  hand = hand
  Nodes = {a, b, c}
  Zones = {board, hand}
  Specs <- MCSpecs
  None = None
  MaxModals = 2
INVARIANTS
  HeldKeysAreDown
  TextIsNeverTaken
  FocusIsConsistent
  RestoringIsExact
PROPERTIES
  PhasesBelongTogether
  KeystrokesAreWhole
