SPECIFICATION Spec
CONSTANTS
  MinVolume <- NarrowMin
  MaxVolume <- NarrowMax
  Center <- CenterVolume
  Band = 1
  ChanCap = 2
  CanSet = {TRUE, FALSE}
  PromptEcho = TRUE
  Budgets <- BothBudgets
INVARIANTS
  TypeOK
  StepsAreTurns
PROPERTIES
  Agreement
  Centering
  VolumeIsSetDirectly
CHECK_DEADLOCK FALSE
