SPECIFICATION Spec
CONSTANTS
  HalfWord = 8
  Bodies <- XBodies
  Immediates <- XImmediates
  Locations = {0, 9}
  Targets = {1, 6, 21}
INVARIANTS TypeOK SameEffect PatchFits RedecodesOrRefuses
PROPERTIES RunsThrough
