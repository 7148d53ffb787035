\* Three streams and two publications, channels of one event.
CONSTANTS
  u1 = u1
  u2 = u2
  u3 = u3
  p1 = p1
  p2 = p2
  Subscribers = {u1, u2, u3}
  Publications = {p1, p2}
  ChannelSize = 1
  Empty = Empty
SPECIFICATION BrokerSpec
SYMMETRY StreamSymmetry
INVARIANTS
  PublishReachesAll
CHECK_DEADLOCK FALSE
