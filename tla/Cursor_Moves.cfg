SPECIFICATION Spec
CONSTANTS
  Xs <- MCXs
  Ys <- MCYs
  Regions <- MCRegions
  Bypass2 = TRUE
INVARIANTS
  TypeOK
  OutOfSight
  ComesBack
PROPERTIES
  DefinedFirst
