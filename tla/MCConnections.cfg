SPECIFICATION Spec
CONSTANTS
  Conn = {1, 2}
  Password = {"p1", "p2"}
  MaxRequests = 3
INVARIANTS TypeOK TasksReferToConnections EngineFitsConnections AcceptedIsStored
CHECK_DEADLOCK FALSE
