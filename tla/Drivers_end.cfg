CONSTANTS
  Files = {"a.sol", "b.sol", "c.sol", "d.sol"}
  Workers = {w1, w2}
  Cap = 1
SPECIFICATION Spec
PROPERTY Returns
CHECK_DEADLOCK FALSE
