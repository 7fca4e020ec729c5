SPECIFICATION Spec
CONSTANTS
  Threads = {"t1", "t2"}
  EdgeNodes <- EdgesOfX
  RecvNodes <- NodesOfX
  SendNodes <- NodesOfY
  Share <- Halves
CHECK_DEADLOCK FALSE
INVARIANT EdgeNodesCopied
