SPECIFICATION Spec
CONSTANTS
  Keycode <- MCKeycode
  Upper <- MCUpper
  Keystring <- MCKeystring
  Keyboard <- MCKeyboard
  Foreign <- MCForeign
  Key <- MCKey
  State <- MCState
  Presses = 3
  PipeCap = 1
  Stops = TRUE
INVARIANTS
  TypeOK
  HotkeyIsExact
  PressesAccountedFor
PROPERTIES
  StopTakesEffect
  ImplementsSummons
  PressesAnswered
CHECK_DEADLOCK FALSE
