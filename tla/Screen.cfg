SPECIFICATION Spec
CONSTANT
  MaxPlayers = 3
INVARIANTS
  ScreenAgrees
  OnlyScreenPlays
PROPERTY
  EndIsShown
CHECK_DEADLOCK FALSE
