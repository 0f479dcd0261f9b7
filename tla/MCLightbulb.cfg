SPECIFICATION Spec
CONSTANTS
  RandHue = {200}
  RandSaturation = {30}
  RandBrightness = {49}
  FlashIntervals = {0}
  AppStates <- MCAppStates
  MaxRequests = 2
INVARIANTS TypeOK OffIsDark ShowsState
PROPERTIES EventuallyShown Flashes
