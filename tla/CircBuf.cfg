\* One enqueuer with more buffers than slots: how workers and loggers use it.
CONSTANTS
  Enqueuers = {e1}
  Items = {p1, p2, p3, p4}
  Capacity = 3
  NULL = NULL
SPECIFICATION FairSpec
PROPERTIES
  ImplementsFifo
  EveryItemArrives
