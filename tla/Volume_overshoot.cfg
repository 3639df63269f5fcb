SPECIFICATION Spec
CONSTANTS
  MinVolume <- NarrowMin
  MaxVolume <- NarrowMax
  Center <- CenterVolume
  Band = 1
  ChanCap = 2
  CanSet = {FALSE}
  PromptEcho = TRUE
  Budgets <- SettingOnly
PROPERTIES
  VolumeIsSet
CHECK_DEADLOCK FALSE
