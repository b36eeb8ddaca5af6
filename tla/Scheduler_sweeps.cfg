SPECIFICATION Spec
CONSTANTS
  Gifts = {g1, g2}
  Absent = absent
  Passes = {s1, s2}
  MaxRestarts = 1
PROPERTIES
  OnlyStaleRowsStarve
  
\* The gifts come to their ends.
CHECK_DEADLOCK FALSE
