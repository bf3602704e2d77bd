\* A ring of two lines, two things typed, two submits under way.
SPECIFICATION ComposerSpec
CONSTANTS
  Commands <- MCCommands
  Takes = {"dm"}
  Instant = {"who", "whoami"}
  Names <- MCNames
  RoomNames = {"gate"}
  Paths <- MCPaths
  Directories = {"src/"}
  Lines = {"hello"}
  Nothing = ""
  Completes <- MCCompletes
  Cap = 2
  MaxTyped = 2
  MaxSubmits = 2
INVARIANTS
  ListIsOverTheText
PROPERTIES
  TextIsKept
  EnterGetsThrough
