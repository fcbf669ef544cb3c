SPECIFICATION Spec
CONSTANTS
  Addrs = {a1, a2, a3}
  Dests = {d1, d2}
  NULL = NULL
  Wild = Wild
  MaxSends = 4
INVARIANTS
  SentIsListed
CHECK_DEADLOCK FALSE
