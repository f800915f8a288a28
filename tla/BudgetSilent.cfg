\* handlers.ts:717: spending over the budget is "over".
SPECIFICATION VariationSpec
CONSTANTS
  VariationOrders = {v1}
  Deciders = {q1}
  NoVariation = NoVariation
  Impacts = {20}
  Budget = 100
  Spends = {45, 60}
  MaxSpent = 210
INVARIANT OverspendIsFlagged
