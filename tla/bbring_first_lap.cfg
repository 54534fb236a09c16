CONSTANTS
  empty = empty
  one = one
  other = other
  big = big
  none = none
  Pushers = {p1, p2, p3}
  Removers = {r1}
  Payloads = {empty, one, other, big}
  PayloadLen <- MCPayloadLen
  NoPayload = none
  Cap = 5
  Hdr = 1
  HeadMod = 32
  LenMod = 16
  MaxReserved = 5
  MaxHead = 14
SPECIFICATION Spec
INVARIANTS TypeOK RegionsApart GuardShowsRecord TurnIsHeld
PROPERTIES NoneMeansEmpty RefinesQueue AdmittedWhenRoom
CONSTRAINT NoFault
SYMMETRY Symmetry
