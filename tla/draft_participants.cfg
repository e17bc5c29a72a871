CONSTANTS
  c1 = c1  c2 = c2  o1 = o1  o2 = o2  o3 = o3
  red = red  blue = blue  star = star  base = base
  Member = {m1, m2, m3}
  Champion <- Champions
  NoChampion = NoChampion
  Option <- Options
  ChampionOf <- SmallChampionOf
  Color <- Colors
  NoColor = NoColor
  ColorOf <- SmallColorOf
  Line <- Lines
  NoLine = NoLine
  LineOf <- SmallLineOf
  Base = base
  Owned <- SmallOwned
  OwnPick = OwnPick
  NoCombo = NoCombo
  MaxColors = 1
  MaxMembers = 3
  HistoryLimit = 1
SPECIFICATION Spec
SYMMETRY Symmetry
INVARIANT ParticipantsHaveTheColor
