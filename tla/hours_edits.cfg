SPECIFICATION Spec
CONSTANTS
  Day = 4
  Noon = 2
  Soon = 1
  Weekdays = 2
  Dates = 1
  Typings <- MCTypings
  Edits = {e1, e2}
SYMMETRY Symmetry
INVARIANTS TypeOK HoursAsTyped ClosesWhenSaid
