SPECIFICATION Spec
CONSTANTS
  Ffs = {"adb", "ptp"}
  Plain = {"accessory"}
  Requests <- MCRequests
  Supported <- MCSupported
  AnyVendor <- MCAnyVendor
  Vendor = {"diag"}
  VendorConfigs = {"user", "diag"}
  VendorLinks <- MCVendorLinks
  Resets = TRUE
INVARIANTS TypeOK ReplyTrue StaysDown HostIdentity
PROPERTIES RequestReturns PullsUp
