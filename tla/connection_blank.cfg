SPECIFICATION Spec
CONSTANTS
  Requested = {r1, r2}
  Volunteered = {v}
  Blank = {v}
  MaxWait = 4
  MaxFails = 1
  MaxRivals = 0
INVARIANTS OffersAll
