SPECIFICATION Spec
CONSTANTS
  Streams = {s1, s2}
  Handles = {h1, h2}
  Images <- MCImages
  Clips = {whole, part}
  NoClip = NoClip
  NoStream = NoStream
  NoHandle = NoHandle
  NoSurface = NoSurface
  NoBlit = NoBlit
  Faults = {"create", "map", "validate", "timeout", "blit", "fence"}
  Sources <- MCSources
  MaxInflight = 3
  Attributes = {"default", "brighter"}
  NoPort = NoPort
  Hosts <- MCHosts
INVARIANTS
  OverlayHeld
  
  FrameWhole
  CopiesApart
