CONSTANTS
  Spacing = 2
  MaxAbsTick = 15
  DefaultWidth = 4
  Markets <- NearMarkets
  Rules <- OnlyExpand
  Ranges <- NarrowRanges
  Window = 3
  MaxGap = 2
  SampleTicks = {0}
SPECIFICATION ExpandSpec
INVARIANT ExpandResets
CHECK_DEADLOCK FALSE
