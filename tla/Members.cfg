SPECIFICATION Spec
CONSTANTS
  s1 = s1  s2 = s2  s3 = s3  s4 = s4
  ann = ann  bob = bob  cem = cem  dee = dee  eve = eve  fay = fay  gus = gus
  p1 = p1  p2 = p2  p3 = p3  p4 = p4  p5 = p5  p6 = p6
  k1 = k1  k2 = k2  k3 = k3  k4 = k4  k5 = k5  k6 = k6  k7 = k7
  t1 = t1  t2 = t2  t3 = t3  t4 = t4
  r1 = r1  r2 = r2  r3 = r3
  User = {ann, bob, cem, dee, eve, fay, gus}
  Store = {s1, s2, s3, s4}
  Phone = {p1, p2, p3, p4, p5, p6}
  Key = {k1, k2, k3, k4, k5, k6, k7}
  Token = {t1, t2, t3, t4}
  NoRow = NoRow
  NoUser = NoUser
  NoPhone = NoPhone
  Request = {r1, r2, r3}
  Traffic <- MCTraffic
  FirstMember <- MCMember
  FirstOffer <- MCOffer
  FirstPhone <- MCPhone
INVARIANTS StoreKeepsManager TablesSound
PROPERTIES ImplementsRoster ExpiredIsRefused EveryRequestEnds
