\* One document whose object has the wrong size at first, confirmed by one call
\* at a time, with neither sweeps nor plan changes.
CONSTANTS
  Documents = {d1}
  NoDocument = NoDocument
  Calls = {c1}
  Sweeps = {}
  NoObject = NoObject
  DeclaredSizes = {2}
  UploadedSizes = {1, 2}
  Quotas = {4}
  MaxFileSize = 2
  ReservationTTL = 1
  MaxWait = 0
  MaxClock = 1
SPECIFICATION Spec
INVARIANTS
  MismatchIsFinal
CHECK_DEADLOCK FALSE
