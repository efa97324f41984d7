CONSTANTS
  Lines <- ThreeLines
  Products = {p1}
  Quantities = {150}
  Rates = {333, 20}
  Percents = {500, 1800}
  NoValue = NoValue
SPECIFICATION FairSpec
CHECK_DEADLOCK FALSE
INVARIANTS TypeOK AccumulatorsAddUp TaxNearExact StoredAddsUp
PROPERTY Settles
