SPECIFICATION AdminSpec
CONSTANTS
  FacesOf <- Registered
  Stations <- TheStation
  Models = {"m"}
  Prices = {"p"}
  Absent = Absent
  Keys <- TheKeys
  KeyOwner <- Owner
  NoPool = NoPool
  Handlers = {h1, h2, h3}
  Last = h3
  Ops <- All
  LastOps <- Repair
  MaxFailures = 1
SYMMETRY Symmetric
INVARIANTS KeysServed  VendorShared MetadataKept PricesKept ModelsFresh
