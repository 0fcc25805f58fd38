SPECIFICATION FairSpec
CONSTANTS
  Devs = {d1}
  N = 5
  Thresh = 1
  Budget = 1
  Nobody = nobody
PROPERTIES Reclaimed QueueWakes
