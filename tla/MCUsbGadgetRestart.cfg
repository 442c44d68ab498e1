SPECIFICATION Spec
CONSTANTS
  Ffs = {"adb"}
  Plain = {"accessory"}
  Requests <- MCRequestsOne
  Supported <- MCSupportedOne
  AnyVendor <- MCAnyVendor
  Vendor = {"diag"}
  VendorConfigs = {"user"}
  VendorLinks <- MCVendorLinksOne
  Resets = FALSE
PROPERTIES RestartPullsUp
