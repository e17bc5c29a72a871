SPECIFICATION Spec
CONSTANTS
  Socket = {s1, s2, s3}
  Puuid = {a, b, c}
  a = a
  b = b
  c = c
  FriendList <- MCFriendList
  InvitePair <- MCInvitePair
  NoSocket = NoSocket
  NoPuuid = NoPuuid
  InviteLimit = 2
  InviteCleanup = 2
SYMMETRY Symmetry
INVARIANTS
  TypeOK
  OneToOne
  PersonalChannel
  NoGhostFriend
  NoMissedFriend
PROPERTY InvitesArePaced
