SPECIFICATION ScreenSpec
CONSTANTS
  NUM_COLUMNS = 6
  NUM_ROWS = 5
  TAM_BUFFER = 2
  Glyph <- SmallGlyph
  Color <- SmallColor
  Newline = "newline"
  ROWS = 2
  COLUMNS = 2
  LEFT = 2
  TOP = 2
  LABEL = 5
  Message <- SmallMessage
  Picture <- SmallPicture
  Pid <- SmallPid
INVARIANTS ConsoleTypeOK FrameIsRight
PROPERTY WriteIsWhole
CHECK_DEADLOCK FALSE
