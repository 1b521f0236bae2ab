SPECIFICATION PathsSpec
CONSTANTS
  Top = Top
  Bottom = Bottom
  MinInt <- MCMinInt
  MaxInt = 2
  Generators <- MCGenerators
  MaxEdges = 4
INVARIANTS TypeOK PathSound PathExact JoinOrderIrrelevant
CHECK_DEADLOCK FALSE
