SPECIFICATION FairSpec
CONSTANTS
  Updates = {u1}
  Digests = {g1, g2}
  Streams = {s1, s2}
  Nobody = nobody
  NoDigest = none
  QueueCap = 1
  MaxUp = 1
  MaxFaults = 0
PROPERTY Converges
