SPECIFICATION Spec
CONSTANTS
  Feeds = {f1, f2}
  Reports = {r1, r2}
  Tasks = {t1, t2}
  ResultBuffer = 1
  Queue <- OwnQueues
INVARIANTS
  EndedFeedIsComplete
  ReportReachesItsSubscribers
  ReportsKeepTheirOrder
  
SYMMETRY Symmetry
PROPERTY
  FeedsDeliverInOrder
