CONSTANTS
  empty = empty
  one = one
  other = other
  big = big
  none = none
  Pushers = {p1, p2}
  Removers = {r1}
  Payloads = {empty, big}
  PayloadLen <- MCPayloadLen
  NoPayload = none
  Cap = 3
  Hdr = 1
  HeadMod = 16
  LenMod = 16
  MaxReserved = 4
  MaxHead = 9
SPECIFICATION FairSpec
PROPERTIES PushAlwaysReturns
