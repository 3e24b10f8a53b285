CONSTANTS
  ble1 = ble1  ble2 = ble2  t1 = t1  t2 = t2
  Bearer = {ble1, ble2}
  Local = {1}
  Controller = {t1, t2}
  NameOf <- Shared
  BaseLinkId = 1
  MaxLinks = 2
  Liberties = {}
  None = None
SPECIFICATION Spec
SYMMETRY Symmetry
INVARIANTS TypeOK RoutesAgree NoStaleRoute DisabledIsDark OnePlace ConsumerTracks
