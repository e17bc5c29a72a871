SPECIFICATION Spec
CONSTANTS
  Fake = {f1, f2}
  Player = player
  Champion = {a, b}
  Themed = {a, b}
  NoChampion = NoChampion
  Idle = Idle
  Resting = Resting
  Prompt = TRUE
  Meddling = FALSE
  MaxInFlight = 0
SYMMETRY Symmetry
PROPERTY
  NoPickFromThinAir
