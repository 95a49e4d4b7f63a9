\* A web sink that fails, times out and stores late.  It stops once every request
\* is served.
SPECIFICATION FairSpec
CONSTANTS
  Requests = {q1, q2, q3}
  RingSize = 2
  ErrorsSize = 2
  ReportLimit = 1
  Sink = "http"
INVARIANT DeliveredOrReported
INVARIANT SinkFollowsRing
INVARIANT NoErrorsMeansDelivered
PROPERTY EveryRequestIsRecorded
CHECK_DEADLOCK FALSE
