SPECIFICATION FairSpec
CONSTANTS
  update = update
  define = define
  Words <- MCWords
  NoWord = NoWord
  Min = 2
  Max = 6
INVARIANTS
  TypeOK
  NeverOverrun
  DrainedWhenAway
PROPERTIES
  WaitsEnd
  QueueSpec
