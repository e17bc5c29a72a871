SPECIFICATION Spec
CONSTANTS
  Room = {r1, r2}
  Member = {m1, m2, m3}
  Socket = {s1, s2}
  Name = {n1, n2}
  NameOf <- MCNameOf
  NoMember = NoMember
  NoSeat = NoSeat
  m1 = m1
  m2 = m2
  m3 = m3
  n1 = n1
  n2 = n2
  MaxRooms = 2
  MaxMembers = 2
  PendingTTL = 4
  Grace = 3
  RoomTTL = 5
  SweepPeriod = 2
  Overlap = FALSE
  Roaming = TRUE
SYMMETRY Symmetry
INVARIANT NoForgottenSeat
