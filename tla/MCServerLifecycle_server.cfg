\* Every choice of servers; one handler of requests.
CONSTANTS
  Handlers = {h1}
  Main = Main
  Nobody = Nobody
SPECIFICATION LifeSpec
INVARIANTS
  PoolOutlivesServices
PROPERTIES
  RunReturns
\* The process ends when Run has returned.
CHECK_DEADLOCK FALSE
