SPECIFICATION Spec
CONSTANTS
  shoe = shoe  boot = boot  w1 = w1  w2 = w2  w3 = w3
  r1 = r1  r2 = r2  r3 = r3  r4 = r4  r5 = r5  r6 = r6
  Row <- MCRow
  Name <- MCName
  NoName = NoName
  Nobody = Nobody
  Request = {r1, r2, r3, r4, r5, r6}
  Task <- DemandTask
INVARIANTS TypeOK CountIsDemandUnlessSaved DemandIsRecorded
