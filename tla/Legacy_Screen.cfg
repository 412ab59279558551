SPECIFICATION Spec
CONSTANTS
  VideoRam = 256
  Images <- MCImages
  Clips = {whole}
  NoClip = NoClip
  NoArea = NoArea
  Ids = {0, 2}
  Capabilities <- MCCapabilities
  MaxSize <- MCMaxSize
  MinInitial <- MCMinInitial
  Formats <- MCFormats
  DepthOptions <- MCDepthOptions
  DefaultModes <- MCDefaultModes
  Requested <- MCRequested
  Layouts <- MCLayouts
  GuiLayouts <- MCGuiLayouts
  NoOption = NoOption
  MaxGenerations = 2
  Allocations = {TRUE, FALSE}
  NoState = NoState
  NoMode = NoMode
  SingleDisplay = SingleDisplay
INVARIANTS
  TypeOK
  HostShowsTopology
  SvgaIdKept
  StreamApart
  KeyPainted
PROPERTIES
  SwitchedTogether
  CurrentModeKept
CHECK_DEADLOCK FALSE
