SPECIFICATION Spec
CONSTANTS
  NoBound = NoBound
  Nothing = Nothing
  Absent = Absent
  Unset = Unset
  Primitive = Primitive
  Unused = Unused
INVARIANT ParenthesesStay
