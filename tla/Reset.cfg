SPECIFICATION Spec
CONSTANTS
  ann = ann  p1 = p1  p2 = p2  home = home  cafe = cafe
  old = old  new = new  other = other  weak = weak
  c1 = c1  c2 = c2  c3 = c3  c4 = c4  t1 = t1  t2 = t2
  r1 = r1  r2 = r2  r3 = r3
  Challenge = {c1, c2, c3, c4}
  User = {ann}
  Phone = {p1, p2}
  Ip = {home, cafe}
  Token = {t1, t2}
  Password = {old, new, other, weak}
  Weak = {weak}
  NoRow = NoRow
  NoUser = NoUser
  PhoneLimit = 3
  IpLimit = 3
  MaxAttempts = 2
  PhoneOf <- MCPhoneOf
  FirstPassword <- MCFirstPassword
  FirstChallenges <- MCFirstChallenges
  Request = {r1, r2, r3}
  Traffic <- MCTraffic
INVARIANTS GuessesBounded CodesSound LimitsHoldUnlessCrowded OldTokensAreBlacklisted
PROPERTIES ChangeNeedsCurrent EveryRequestEnds
