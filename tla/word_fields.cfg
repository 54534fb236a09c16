CONSTANTS
  HeadMod = 16
  LenMod = 4
  HeadMask = 16
  LenMask = 4
  Sizes = {1, 3}
SPECIFICATION WSpec
INVARIANTS FieldsAgree
