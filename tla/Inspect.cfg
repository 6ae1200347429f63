SPECIFICATION ISpec
CONSTANT
  Scenarios <- Inspected
INVARIANTS
  AnnouncedHappens
  RefusalTouchesNothing
PROPERTIES
  IntruderKept
