SPECIFICATION FairSpec
CONSTANTS
  MaxChanges = 1
PROPERTY SignalDestroysThread
\* The binder thread may wait for the worker for ever (run typec_join).
CHECK_DEADLOCK FALSE
