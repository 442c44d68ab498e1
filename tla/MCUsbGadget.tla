----------------------------- MODULE MCUsbGadget -----------------------------
(* Two functionfs functions and a kernel function: no request, one daemon, *)
(* two daemons (with an id only without vendor functions), none (with an   *)
(* id whatever the vendor functions are), and a combination without an id. *)
EXTENDS UsbGadget, TLC

MCRequests == {{}, {"adb"}, {"adb", "ptp"}, {"accessory"}, {"ptp", "accessory"}}
MCSupported == {<<{"adb"}, "user">>, <<{"adb"}, "diag">>, <<{"adb", "ptp"}, "user">>}
MCAnyVendor == {{"accessory"}}
MCVendorLinks == "user" :> {} @@ "diag" :> {"diag"}

MCRequestsOne == {{}, {"adb"}, {"accessory"}}
MCSupportedOne == {<<{"adb"}, "user">>}
MCVendorLinksOne == "user" :> {}
=============================================================================
