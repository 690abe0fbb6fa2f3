CONSTANTS
  Price <- Prices
  NoSpan = NoSpan
  MaxPrints = 4
  MaxTakes = 3
SPECIFICATION Spec
CHECK_DEADLOCK FALSE
INVARIANTS SpansCutTape NothingUnpublished
