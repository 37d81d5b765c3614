SPECIFICATION FairSpec
CONSTANTS
  Cut = {0, 2, 3, 5}
  len = 4
  GNTP_WINSIZE = 5
  GNTP_TIMEOUT = 1
  SendWindow = 3
  RxRing = 2
  MaxFaults = 2
  MayFail = TRUE
INVARIANT DeliveredAsSent
PROPERTY Completes
CHECK_DEADLOCK FALSE
