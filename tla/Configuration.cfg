SPECIFICATION FairSpec
CONSTANTS
  Pages = {p1, p2}
  Settings = {old, new}
  Template = old
  None = None
  MaxMail = 1
INVARIANTS TypeOK 
PROPERTIES  SavedComesBack
CHECK_DEADLOCK FALSE
