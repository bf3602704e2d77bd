SPECIFICATION MCSpec
CHECK_DEADLOCK FALSE
CONSTANTS
  me = me
  system = system
  pal = pal
  red = red
  blue = blue
  Me = me
  System = system
  Peers = {pal}
  RoomNames <- MCRoomNames
  Sent <- MCSent
  MaxLog = 2
  Limit = 1
  Cap = 1
  LaneSize = 1
  StyledRooms = {blue, red}
  Dm = pal
  Markdowns = {markdown}
  NoMarkdown = nothing
  MaxPosts = 1
INVARIANTS
  RungIsOnScreen
  SavesWhereItSays
PROPERTIES
  MarksWhatItShows
  PrintsOnce
  HalfWrittenOnlyWhenStale
