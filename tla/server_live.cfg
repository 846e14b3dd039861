\* Every peer keeps reading, or goes away; a list of two users is cut.
SPECIFICATION LiveSpec
CONSTANTS
  None = None
  c1 = c1 c2 = c2 c3 = c3
  ana = ana beto = beto carla = carla
  ip1 = ip1 ip2 = ip2 ip3 = ip3
  Conn = {c1, c2}
  Name = {ana, beto}
  LongName = {}
  IP = {ip1, ip2}
  PeerIP <- IPs2
  Estado = {"ACTIVO", "INACTIVO"}
  Fd <- Fds2
  MaxClients = 2
  Script <- Live2
  InCap = 1
  OutCap = 1
  ListCap = 1
  Reader = {c1, c2}
PROPERTIES LockReleased GoneIsReleased
