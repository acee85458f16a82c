\* Two units, two filter entries, two sensor records; the controller is a CM15A.
SPECIFICATION Spec
CONSTANTS
  Units = {1, 2}
  MaxSensors = 3
  DupMax = 2
  DupTime = 1
  Profiles <- MCProfiles
  Capacity = 2
  Cm19a = FALSE
  Lamps = {1}
INVARIANTS
  StationTypeOK
  RecordMatchesLine
  FilterRemembers
  SensorsReadBack
CONSTRAINT StillComparable
