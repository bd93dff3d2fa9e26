SPECIFICATION Spec
CONSTANTS
  shirt = shirt  belt = belt  v1 = v1  v2 = v2  v3 = v3  v4 = v4  v5 = v5
  small = small  large = large  huge = huge
  cheap = cheap  dear = dear  sale = sale  l1 = l1  l2 = l2
  r1 = r1  r2 = r2  r3 = r3  r4 = r4
  Product = {shirt, belt}
  Variant = {v1, v2, v3, v4, v5}
  Size = {small, large, huge}
  NoSize = NoSize
  Price = {cheap, dear, sale}
  Omitted = Omitted
  NoRow = NoRow
  Line = {l1, l2}
  FirstVariant <- MCFirstVariant
  Request = {r1, r2, r3, r4}
  Traffic <- MCTraffic
INVARIANTS OneVariantMode BatchSeesAllSizes PriceIsLastAskedUnlessStale TablesSound
PROPERTIES LinePriceIsCurrentUnlessRepriced
