SPECIFICATION FairSpec
CONSTANTS
  Requested = {r1, r2}
  Volunteered = {v}
  Blank = {v}
  MaxWait = 4
  MaxFails = 3
  MaxRivals = 2
INVARIANTS
  NoLeftover
  ShownWhenRead
  OffersCurrent
PROPERTIES
  Reconnects
