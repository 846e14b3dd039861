\* Two threads look for the name before either of them adds it.
SPECIFICATION Spec
CONSTANTS
  None = None
  c1 = c1 c2 = c2
  ana = ana beto = beto
  ip1 = ip1 ip2 = ip2
  Conn = {c1, c2}
  Name = {ana, beto}
  IP = {ip1, ip2}
  Estado = {"ACTIVO", "INACTIVO", "OCUPADO"}
  Fd <- Fds2
  MaxClients = 4
  MutexWorks = TRUE
  Script <- Same2
  InCap = 1
  OutCap = 1
  MayIdle <- NoRow
  Reader = {c1, c2}
  Inactivity = Inactivity
INVARIANT UniqueUsers
