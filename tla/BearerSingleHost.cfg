CONSTANTS
  ble1 = ble1  ble2 = ble2  t1 = t1  t2 = t2
  Bearer = {ble1, ble2}
  Local = {1}
  Controller = {t1}
  NameOf <- Shared
  BaseLinkId = 1
  MaxLinks = 2
  Liberties = {"early"}
  None = None
SPECIFICATION FairSpec
INVARIANT Settled
PROPERTIES DisableDarkens LedgerSpec
