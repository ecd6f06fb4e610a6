SPECIFICATION Spec
CONSTANTS
  k1 = k1
  k2 = k2
  seeded = seeded
  other = other
  gandhi = gandhi
  newcomer = newcomer
  Calls <- TwoCalls
  Tags <- Tags2
  Names <- Names2
  Seed <- SeedGandhi
  Requests <- SwipesAndRegistrations
  MaxCrashes = 0
  NoName = NoName
  NoTag = NoTag
  NoRequest = NoRequest
  NoTable = NoTable
INVARIANT SwipeShown
