SPECIFICATION FairSpec
CONSTANTS
  MaxChanges = 3
INVARIANTS TypeOK NoLostPartner StopReachesItsWorker StatusConverges
PROPERTIES ApiSpec RoleSwitchEnds RemovalEnds
\* The binder thread may wait for the worker for ever (run typec_join).
CHECK_DEADLOCK FALSE
