SPECIFICATION Spec
CONSTANTS
  demo = demo  demo2 = demo2  shop = shop
  r1 = r1  r2 = r2  r3 = r3
  Store = {demo, demo2, shop}
  Demo = demo
  Shop = shop
  NoStore = NoStore
  Variant = {1, 2}
  ProductOf <- MCProductOf
  PurchasePrice <- Cost
  SalePrice <- Price
  Opening <- MCOpening
  Lines <- MCLines
  Empty = 6
  SaleSpecs <- MCSaleSpecs
  ShopSales <- MCShopSales
  FirstDay <- First
  LastDay = 4
  Never = Never
  Channel = {"shop", "web"}
  LowStockThreshold = 2
  TopSize = 10
  MaxRange = 9
  ReportSpan = 2
  Today = Today
  Request = {r1, r2, r3}
  Traffic <- MCTraffic
INVARIANTS NoCompletedSaleAhead TablesSound ReportAddsUp
PROPERTIES TimelineMovesTogether
