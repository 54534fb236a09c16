CONSTANTS
  empty = empty
  one = one
  other = other
  big = big
  none = none
  Pushers = {p1}
  Removers = {r1, r2, r3}
  Payloads = {empty, one}
  PayloadLen <- MCPayloadLen
  NoPayload = none
  Cap = 3
  Hdr = 1
  HeadMod = 16
  LenMod = 16
  MaxReserved = 4
  MaxHead = 7
SPECIFICATION Spec
INVARIANTS SingleGuard RemoversBehind GuardShowsRecord
CONSTRAINT NotCarried
SYMMETRY ThreadSymmetry
