SPECIFICATION Spec
CONSTANTS
  Leaves <- MCLeaves
  Values <- MCValues
  Nothing = Nothing
  Shown <- MCShown
INVARIANTS
  SlotsMatchWalk
  DecodesTheValue
