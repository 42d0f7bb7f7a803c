\* Files of up to nine lines.
CONSTANTS
  Lines <- MCLines
  MaxLines = 9
  InputNames <- MCInputNames
  OutputNames <- MCOutputNames
  Numbers <- MCNumbers
SPECIFICATION Spec
INVARIANTS TypeOK AcceptedIsCircuit ScheduleIsTight
