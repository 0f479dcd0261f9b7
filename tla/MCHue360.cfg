SPECIFICATION Spec
CONSTANTS
  MaxHue = 360
  Saturations <- AllPercents
  Brightnesses <- SomePercents
INVARIANT RgbInPercent
