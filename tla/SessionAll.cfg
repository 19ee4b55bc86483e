CONSTANTS
  Main = Main
  Other = Other
  al = al
  me = me
  phone = phone
  desk = desk
  NoRes = NoRes
  Room = Room
  Me = Me
  Renamed = Renamed
  Guest = Guest
  Contacts <- MCContacts
  FullJids <- MCFullJids
  Self <- MCSelf
  QueueLen = 2
  Scenarios <- MCScenarios
SPECIFICATION Spec
CHECK_DEADLOCK FALSE
INVARIANTS TypeOK EmptyWasUnknown RoomTracksOccupants AppliedBeforeWake
PROPERTIES RosterIsReplica PresenceIsReplica
