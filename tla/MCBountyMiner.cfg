SPECIFICATION Spec
CONSTANTS
  k1 = k1
  k2 = k2
  p = p
  q = q
  r = r
  None = None
  Devices = {d1, d2}
  Keys = {k1, k2}
  Patterns = {p, q, r}
  Value <- MCValue
  min_value = 2
  Offers <- MCOffers
  MaxFetches = 2
  MaxFinds = 3
INVARIANT BatchesRight
PROPERTY HandedOver
