CONSTANTS
  ble1 = ble1  ble2 = ble2  t1 = t1  t2 = t2
  Bearer = {ble1}
  Local = {1}
  Controller = {t1, t2}
  NameOf <- Sole
  BaseLinkId = 1
  MaxLinks = 1
  Liberties = {}
  None = None
SPECIFICATION Spec
INVARIANT DisabledStaysDown
