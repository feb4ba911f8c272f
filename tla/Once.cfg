SPECIFICATION CanonicalSpec
CONSTANTS
  c1 = c1
  c2 = c2
  c3 = c3
  Clients <- MCClients
  k1 = k1
  k2 = k2
  plain = plain
  taken = taken
  alsoTaken = alsoTaken
  slug = slug
  Keys <- MCKeys
  Identities <- MCIdentities
  Slugs <- MCSlugs
  SlugOf <- MCSlugOf
  NoSlug = NoSlug
  MaxFaults = 1
  NoReply = NoReply
CHECK_DEADLOCK FALSE
INVARIANTS AllOrNothing
PROPERTY ImplementsOnceOnly
PROPERTY EveryCallerIsAnswered
