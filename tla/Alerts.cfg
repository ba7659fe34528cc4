CONSTANTS
  Contents <- MCContents
  Forms <- MCForms
  Cap = 2
  Keep = 1
  Period = 2
  HookTimeout = 1
  DefaultCooldown = 3
  MaxTime = 5
  MaxPkts = 3
  MaxRules = 2
SPECIFICATION Spec
INVARIANTS BufferRecent CooldownSpacing DeletedIsSilent LastTriggeredIsOwn
PROPERTIES NoFalseAlarm EvaluationEnds
