SPECIFICATION WindowFairSpec
CONSTANTS
  Window <- Windows
  DefaultWindow = "1h"
  Rest = {1, 2}
  MaxFail = 1
  MaxPick = 2
  MaxOutside = 2
  MaxTick = 1
CHECK_DEADLOCK FALSE
INVARIANTS
  PageShowsUrlWindow
  PickerStraysExplained
PROPERTIES
  PageCatchesUp
