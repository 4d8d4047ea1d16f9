\* Two documents of one account, two confirmations and one sweep at a time;
\* reservations of two ticks, a plan that may shrink.
CONSTANTS
  Documents = {d1, d2}
  NoDocument = NoDocument
  Calls = {c1, c2}
  Sweeps = {s1}
  NoObject = NoObject
  DeclaredSizes = {0, 2, 3}
  UploadedSizes = {1, 2}
  Quotas = {2, 4}
  MaxFileSize = 2
  ReservationTTL = 1
  MaxWait = 1
  MaxClock = 2
SPECIFICATION Spec
SYMMETRY DocumentsAndCallsAlike
INVARIANTS
  TypeOK
  UsedIsConfirmed
  RoomIsPromisedOnce
  ConfirmedKeepsObject
PROPERTIES
  SettledReservationsStay
CHECK_DEADLOCK FALSE
