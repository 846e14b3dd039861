---------------------------- MODULE MCLinuxServer ----------------------------
(***************************************************************************)
(* Instances of LinuxServer for TLC: who connects from where, under which  *)
(* name, and which requests its program sends.                             *)
(***************************************************************************)
EXTENDS LinuxServer, TLC

CONSTANTS c1, c2, c3, ana, beto, carla, ip1, ip2, ip3

Req(t, u) == [NoReq EXCEPT !.type = t, !.usuario = u]
Dm(u, v)  == [NoReq EXCEPT !.type = "DM", !.usuario = u, !.destino = v]
Est(u, e) == [NoReq EXCEPT !.type = "ESTADO", !.usuario = u, !.estado = e]

Fds2 == {4, 5}

\* Three addresses.  c1 asks for a second name, c2 for the first of them: the
\* table of two is full when the third comes.
IPs3 == (c1 :> ip1) @@ (c2 :> ip2) @@ (c3 :> ip3)
Sessions3 ==
  (c1 :> {Req("REGISTRO", ana), Req("REGISTRO", carla), Req("EXIT", ana)}) @@
  (c2 :> {Req("REGISTRO", ana), Dm(ana, beto)}) @@
  (c3 :> {Req("REGISTRO", beto), Est(beto, "INACTIVO"), Req("MOSTRAR", beto)})

\* Two connections with names of their own.
IPs2 == (c1 :> ip1) @@ (c2 :> ip2)

\* Requests that send while the mutex is held.
Live2 ==
  (c1 :> {Req("REGISTRO", ana), Req("BROADCAST", ana)}) @@
  (c2 :> {Req("REGISTRO", beto), Dm(beto, ana), Req("LISTA", None)})
===============================================================================
