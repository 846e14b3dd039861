\* Three connections, three names and addresses, two descriptors, two slots.
SPECIFICATION Spec
CONSTANTS
  None = None
  c1 = c1 c2 = c2 c3 = c3
  ana = ana beto = beto carla = carla
  ip1 = ip1 ip2 = ip2 ip3 = ip3
  Conn = {c1, c2, c3}
  Name = {ana, beto, carla}
  LongName = {}
  IP = {ip1, ip2, ip3}
  PeerIP <- IPs3
  Estado = {"ACTIVO", "INACTIVO"}
  Fd <- Fds2
  MaxClients = 2
  Script <- Sessions3
  InCap = 1
  OutCap = 1
  ListCap = 2
  Reader = {}
INVARIANTS IInv DirectMessageTarget AnswerReachesAsker
PROPERTIES LeavesByItself ImplementsRoom
