SPECIFICATION SpecServer
CONSTANTS
  RandHue = {0, 18}
  RandSaturation = {6, 10}
  RandBrightness = {20, 49}
  FlashIntervals = {0}
  AppStates = {}
  MaxRequests = 4
  Payloads <- MCPayloads
  HoldTicks = 50
  MaxLag = 9
INVARIANTS TypeOKServer EachColourShown
PROPERTIES NoFlicker ImplementsResource
