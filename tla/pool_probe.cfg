CONSTANTS
  r1 = r1
  r2 = r2
  r3 = r3
  Probe = h
  Req = {r1, r2, r3, h}
  Threads = 2
  Connections = 1
  pool_timeout = 2
  ProbeTimeout = 1
SPECIFICATION DatabaseSpec
INVARIANTS
  ProbeInTime
