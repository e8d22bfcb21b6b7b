CONSTANTS
  Threads = {t1, t2, t3}
  Nobody = nobody
  Amounts = {1, 2}
  Objects <- MCObjects
  Setups <- MCSetups
  MaxThreads = 3
  BlockJobs <- MCBlockJobs
  SmallBlock = 3
  MaxDecThreads = 3
SPECIFICATION HurriedSpec
INVARIANT OkIsComplete
