SPECIFICATION Spec
CONSTANTS
  Consumers = {c1, c2}
  Maxima    = {1, 2}
  BlockSize = 2
  IndexSize = 2
  PoolSize  = 1
  BlockNum  = 3
  MaxItems  = 5
  MaxOvercommit = 1
SYMMETRY Symmetry
INVARIANTS TypeOK CountsAgree HeadBehindTail AssertsHold OneOwner EndsClean
PROPERTY FifoSpec
CHECK_DEADLOCK FALSE
