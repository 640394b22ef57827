CONSTANTS
  Args <- CommandLines
  elem_size = 4
SPECIFICATION FairSpec
PROPERTIES SweepEnds
