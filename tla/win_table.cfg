\* Two users at the same time, and two rows, so that the table fills.
SPECIFICATION Spec
CONSTANTS
  None = None
  c1 = c1 c2 = c2
  ana = ana beto = beto
  ip1 = ip1 ip2 = ip2
  Conn = {c1, c2}
  Name = {ana, beto}
  IP = {ip1, ip2}
  Estado = {"ACTIVO", "INACTIVO", "OCUPADO"}
  Fd <- Fds2
  MaxClients = 2
  MutexWorks = TRUE
  Script <- Table2
  InCap = 1
  OutCap = 1
  MayIdle <- NoRow
  Reader = {c1, c2}
  Inactivity = Inactivity
INVARIANT IInv
PROPERTIES RowsAreKept
