\* Two accounts with two games, up to three fetches in flight.
SPECIFICATION Spec
CONSTANTS
  Accounts = {ann, bob}
  Games = {g1, g2}
  NoAccount = NoAccount
  NoGame = NoGame
  Calls = {c1, c2, c3}
INVARIANTS
  ShownIsOwn
  Selection
PROPERTIES
  LoadingEnds
CHECK_DEADLOCK FALSE
