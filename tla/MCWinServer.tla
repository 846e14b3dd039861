----------------------------- MODULE MCWinServer -----------------------------
(***************************************************************************)
(* Instances of WinServer for TLC.                                         *)
(***************************************************************************)
EXTENDS WinServer, TLC

CONSTANTS c1, c2, ana, beto, ip1, ip2

Req(t, u) == [NoReq EXCEPT !.type = t, !.usuario = u]
Reg(u, a) == [Req("REGISTRO", u) EXCEPT !.ip = a]
Dm(u, v)  == [Req("DM", u) EXCEPT !.destino = v]
Est(u, e) == [Req("ESTADO", u) EXCEPT !.estado = e]

Fds1 == {4}
Fds2 == {4, 8}
Row0 == {0}
NoRow == {}

\* c2 speaks of ana's status, though it is not ana.
Table2 ==
  (c1 :> {Reg(ana, ip1), Req("LISTA", None)}) @@
  (c2 :> {Reg(beto, ip2), Est(ana, "OCUPADO"), Req("BROADCAST", None),
          Dm(beto, ana), Req("MOSTRAR", ana)})

\* c2 leaves by EXIT, and its thread reads on.
Idle2 ==
  (c1 :> {Reg(ana, ip1), Req("BROADCAST", None)}) @@
  (c2 :> {Reg(beto, ip2), Est(ana, "OCUPADO"), Req("EXIT", beto)})

\* Two programs that both ask for the name ana.
Same2 == (c1 :> {Reg(ana, ip1)}) @@ (c2 :> {Reg(ana, ip2)})

\* As Same2; the bridge sends EXIT for a page that leaves, also when its
\* registration was refused (frontend/server.js:271).
Leave2 == (c1 :> {Reg(ana, ip1)}) @@ (c2 :> {Reg(ana, ip2), Req("EXIT", ana)})
===============================================================================
