CONSTANTS
  Flows <- MCFlows
  Patience = {TRUE, FALSE}
  MaxSignIns = 3
  MaxHasty = 2
  Accounts = {a1, a2}
  Life = 1
  ClientLife = 3
  Margin = 1
  Delay = 1
  MaxFailures = 1
  MaxTime = 4
SPECIFICATION Spec
CHECK_DEADLOCK FALSE
INVARIANTS
  TypeOK
  SavedBelongsTogether
  AddedAsSelected
PROPERTY ExpiryIsNoticed
