SPECIFICATION FeedSpec
CONSTANTS
  Room = {r1}
  Member = {m1, m2, m3}
  Socket = {s1, s2}
  Name = {m1, m2, m3}
  NameOf <- MCNameOf
  NoMember = NoMember
  NoSeat = NoSeat
  m1 = m1
  m2 = m2
  m3 = m3
  Content = {plain, locked}
  Fresh = plain
  plain = plain
  locked = locked
  Strip <- MCStrip
  clientVersion <- MCVersion
  s1 = s1
  s2 = s2
  MaxRooms = 1
  MaxMembers = 3
  PendingTTL = 4
  Grace = 3
  RoomTTL = 4
  SweepPeriod = 2
  Overlap = FALSE
  Roaming = FALSE
SYMMETRY Symmetry
INVARIANTS
  TypeOK
  OwnerIsOldest
  NoForgottenSeat
  GraceOnlyWhileAway
  NoSilentListener
  TimersServedInTime
  FeedTypeOK
  ViewsAreCurrent
  VersionsAreOfTheLiving
PROPERTIES
  ReconnectedIsNeverEvicted
  SeatsLast
