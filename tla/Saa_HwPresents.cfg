SPECIFICATION FairSpec
CONSTANTS
  t1 = t1
  t2 = t2
  Tiles = {t1}
  Colors <- MCColors
  Junk = Junk
  DirectPresents = FALSE
  OnlyHwPresents = TRUE
  MaxFronts = 1
  Hazards = {}
  Pixmaps = {root, win}
  Root = root
  Scanouts = {root}
  GlPixmaps = {win}
  NoPixmap = NoPixmap
  NoReply = NoReply
  Lost = Lost
  Blend <- MCBlend
  RenderCheck = TRUE
  Rects <- MCRects
  Translations <- MCInPlace
INVARIANTS
  TypeOK
  ContentsKept
  ScreenFresh
  StorageAgrees
PROPERTIES
  HandsOffAway
  ScreenCatchesUp
