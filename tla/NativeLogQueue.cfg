\* Two producers, a ring of two cells and a budget of four bytes for records of
\* one or three: both limits are hit, and positions lap the ring twice.
SPECIFICATION FairSpec
CONSTANTS
  Producers = {p1, p2}
  Capacity = 2
  MaxBytes = 4
  Sizes = {1, 3}
  MaxOffers = 2
INVARIANT
  RingIsSound
PROPERTIES
  ImplementsChannel
  QueuedIsDelivered
CHECK_DEADLOCK FALSE
