\* Every editor, in place or by renaming, with touches and manual reloads.
SPECIFICATION FairSpec
CONSTANTS
  Contents = {old, new, torn}
  Loadable = {old, new}
  NoContent = NoContent
  Saves = {"inPlace", "rename"}
  MaxChanges = 4
  MaxManual = 1
INVARIANTS
  TypeOK
  HashIsOfActive
PROPERTIES
  CarefulChangesTakeEffect
  EventsCatchUp
CHECK_DEADLOCK FALSE
