\* One socket number, so that whoever comes next has it, and two rows.
SPECIFICATION LiveSpec
CONSTANTS
  None = None
  c1 = c1 c2 = c2
  ana = ana beto = beto
  ip1 = ip1 ip2 = ip2
  Conn = {c1, c2}
  Name = {ana, beto}
  IP = {ip1, ip2}
  Estado = {"ACTIVO", "INACTIVO", "OCUPADO"}
  Fd <- Fds1
  MaxClients = 2
  MutexWorks = TRUE
  Script <- Idle2
  InCap = 1
  OutCap = 1
  MayIdle <- Row0
  Reader = {c1, c2}
  Inactivity = Inactivity
INVARIANT IInv
PROPERTIES StatusHasAReason IdleBecomesInactive
