------------------------------ MODULE MCUsbPort ------------------------------
(* Two binder threads: one registers and removes the callback and switches *)
(* power roles, the other switches modes and asks for the status, so that  *)
(* switches compete and callbacks come and go while one is in progress.    *)
EXTENDS UsbPort

MCBinders == {"b1", "b2"}
MCCalls == [b \in MCBinders |-> IF b = "b1" THEN {"setCallback", "power"}
                                           ELSE {"mode", "query"}]
=============================================================================
