SPECIFICATION Spec
CONSTANTS
  Binders <- MCBinders
  Workers = {"w1"}
  Callbacks = {"c1"}
  Calls <- MCCalls
  MaxQueue = 1
  Free = "Free"
INVARIANTS TypeOK NoLostSignal SwitchUndisturbed FailureRestores WorkerFollowsCallback
PROPERTIES BusyUnregister SwitchReturns
