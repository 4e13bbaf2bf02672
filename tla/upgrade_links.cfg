SPECIFICATION UpgradeSpec
CONSTANTS
  x = x
  y = y
  Content = {x, y}
  Labelled = {x}
  Origin = {"s", "t"}
  SchemaColumns <- MCSchemaColumns
  Columns <- MCColumns
  Vintage <- MCVintage
  Proc = {"p", "q"}
  MaxStarts = 3
  MaxWrites = 2
  MaxFaults = 1
INVARIANT LabelsCanBeLinked
CHECK_DEADLOCK FALSE
