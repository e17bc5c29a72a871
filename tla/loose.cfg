SPECIFICATION Spec
CONSTANTS
  Room = {r1, r2}
  Member = {m1, m2}
  Socket = {s1, s2}
  Name = {n1, n2}
  NameOf <- MCNameOf
  NoMember = NoMember
  NoSeat = NoSeat
  m1 = m1
  m2 = m2
  m3 = m3
  n1 = n1
  n2 = n2
  MaxRooms = 2
  MaxMembers = 2
  PendingTTL = 2
  Grace = 2
  RoomTTL = 3
  SweepPeriod = 1
  Overlap = TRUE
  Roaming = TRUE
INVARIANT TimersMatchSeats
PROPERTY DesertedRoomCloses
