SPECIFICATION Spec
CONSTANTS
  t1 = t1
  t2 = t2
  Tiles = {t1, t2}
  Colors <- MCColors
  Junk = Junk
  DirectPresents = FALSE
  OnlyHwPresents = FALSE
  MaxFronts = 1
  Hazards = {}
  Pixmaps = {root, win}
  Root = root
  Scanouts = {root}
  GlPixmaps = {}
  NoPixmap = NoPixmap
  NoReply = NoReply
  Lost = Lost
  Blend <- MCBlend
  RenderCheck = TRUE
  Rects <- MCOneRect
  Translations <- MCShift
CONSTRAINT
  MCFewLost
INVARIANTS
  ContentsKept
  NothingHeldAway
PROPERTIES
  ClientSpec
