CONSTANTS
  a = a  b = b  t1 = t1  t2 = t2  t3 = t3
  Node = {a, b}
  Thread = {t1, t2, t3}
  Reach <- Pumping
  MaxDepth = 3
  None = None
SPECIFICATION FairSpec
INVARIANTS TypeOK NoUseAfterFree ExclusiveUse ClosedIsFreed NoCircularWait
PROPERTIES ClosedOnlyDrains CallsEnd CloseLeadsToFree
