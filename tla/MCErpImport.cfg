SPECIFICATION Spec
CONSTANTS
  c1 = c1
  c2 = c2
  c3 = c3
  c4 = c4
  host1 = host1
  host2 = host2
  bolt = bolt
  Calls = {c1, c2, c3, c4}
  Processes = {host1, host2}
  Nobody = Nobody
  Parts = {bolt}
  host <- OnTwoProcesses
  Initial <- One
  Snapshot <- Two
  Feed <- Zero
  MaxMoves = 1
SYMMETRY SameProcess
CHECK_DEADLOCK FALSE
INVARIANTS TypeOK ImportAdjustsOnce CompletedDidItsRows
