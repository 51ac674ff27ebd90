CONSTANTS
  Files = {"a.sol", "b.sol", "c.sol", "d.sol"}
  Workers = {w1, w2}
  Cap = 1
SPECIFICATION Spec
INVARIANTS TaskConserved
PROPERTIES ImplementsScan AllProcessed Main2Returns
CHECK_DEADLOCK FALSE
