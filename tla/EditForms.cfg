SPECIFICATION Spec
CONSTANTS
  Fields = {phone, address}
  Values = {v1, v2}
  First = v1
  MaxWrites = 1
INVARIANT SendsOnlyWhatChanged
CHECK_DEADLOCK FALSE
