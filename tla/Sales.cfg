SPECIFICATION SalesSpec
CONSTANTS
  a = a  b = b  shirt = shirt  mug = mug  cap = cap
  s1 = s1  s2 = s2  s3 = s3
  i1 = i1  i2 = i2  i3 = i3  i4 = i4  i5 = i5  i6 = i6
  k1 = k1  k2 = k2  k3 = k3  k4 = k4  k5 = k5
  e1 = e1  e2 = e2  e3 = e3  e4 = e4  e5 = e5
  p1 = p1  p2 = p2  p3 = p3  p4 = p4  p5 = p5
  l1 = l1  l2 = l2  l3 = l3  l4 = l4  l5 = l5
  Store <- MCStore
  Product <- MCProduct
  Variant <- MCVariant
  Sale <- MCSale
  Item <- MCItem
  ProductOf <- MCProductOf
  StoreOf <- MCStoreOf
  SaleStore <- MCSaleStore
  EmailStore = {}
  NoItem = NoItem
  Nobody = Nobody
  NoValue = NoValue
  Request = {k1, k2, k3, k4, k5, e1, e2, e3, e4, e5, p1, p2, p3, p4, p5}
  Task <- SalesTask
INVARIANTS TypeOK SaleCountsOnce NumbersSequential TotalsMatch StockIsLedger
PROPERTIES FinalizedFrozen AtomicServices
SYMMETRY SameTask
