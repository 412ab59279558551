SPECIFICATION Spec
CONSTANTS
  Hosts = {"none", "xmir", "xwl"}
  Faults <- MCFaults
  FirstSize <- MCFirstSize
  Sizes <- MCSizes
  MaxFbSize = 6
  Layouts = {one, two}
  Connectors = {c1}
  Cursors = {k1, k2}
  NoCursor = NoCursor
  NoLayout = NoLayout
  NoOutput = NoOutput
  NoScanout = NoScanout
  MaxGenerations = 2
INVARIANTS
  MasterWithVT
  HooksWhole
  ShownWhole
CHECK_DEADLOCK FALSE
