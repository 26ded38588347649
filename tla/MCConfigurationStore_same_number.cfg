SPECIFICATION Spec
CONSTANTS
  u1 = u1
  u2 = u2
  u3 = u3
  u4 = u4
  d1 = d1
  d2 = d2
  f1 = f1
  f2 = f2
  v1 = v1
  v2 = v2
  l1 = l1
  k1 = k1
  s1 = s1
  word = word
  Uploads = {u1, u2}
  Devices = {d1, d2}
  Contents = {f1, f2}
  Vendors = {v1, v2}
  Lines = {l1}
  DeviceOf <- TwoDeviceOf
  ContentOf <- TwoContentOf
  Hint <- UnknownHint
  NoHint = nohint
  NoVendor = novendor
  NoContent = nocontent
  NoLine = noline
  NoUpload = noupload
  Guess <- MCGuess
  Sure = {f1}
  Parses <- MCParses
  LineOf <- MCLineOf
  Confirms = {k1}
  ConfirmedVendor <- MCConfirmedVendor
  Scans = {s1}
  OneAtATime = FALSE
  MaxCrashes = 0
INVARIANTS VersionsNumberedOnce
\* The uploads, the confirmation and the scan are over.
CHECK_DEADLOCK FALSE
