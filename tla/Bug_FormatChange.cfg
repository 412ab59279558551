SPECIFICATION Spec
CONSTANTS
  t1 = t1
  t2 = t2
  Tiles = {t1}
  Colors <- MCColors
  Junk = Junk
  DirectPresents = FALSE
  OnlyHwPresents = FALSE
  MaxFronts = 1
  Hazards = {"format_change"}
  Pixmaps = {root, win}
  Root = root
  Scanouts = {root}
  GlPixmaps = {}
  NoPixmap = NoPixmap
  NoReply = NoReply
  Lost = Lost
  Blend <- MCBlend
  RenderCheck = TRUE
  Rects <- MCRects
  Translations <- MCInPlace
INVARIANTS
  SurfaceValid
