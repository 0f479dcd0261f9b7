SPECIFICATION Spec
CONSTANTS
  MaxHue = 359
  Saturations <- AllPercents
  Brightnesses <- SomePercents
INVARIANTS CloseToHsv WithinBrightness
PROPERTY SmoothSweep
