\* In-place changes only, no manual reload: is every one of them taken up?
SPECIFICATION FairSpec
CONSTANTS
  Contents = {old, new, torn}
  Loadable = {old, new}
  NoContent = NoContent
  Saves = {"inPlace"}
  MaxChanges = 2
  MaxManual = 0
PROPERTY
  EveryChangeTakesEffect
CHECK_DEADLOCK FALSE
