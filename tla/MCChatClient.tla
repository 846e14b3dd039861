---------------------------- MODULE MCChatClient ----------------------------
(***************************************************************************)
(* An instance of ChatClient for TLC: the user ana among others.  Of       *)
(* commands and messages with the same program, one stands for all.        *)
(***************************************************************************)
EXTENDS ChatClient, TLC

CONSTANTS ana, beto

Cmd(c)    == [cmd |-> c, estado |-> None]
Est(e)    == [cmd |-> "ESTADO", estado |-> e]
Msg(k, f) == [kind |-> k, from |-> f, users |-> 0]

Commands ==
  {Cmd("BROADCAST"), Cmd("LISTA"), Cmd("AYUDA"), Cmd("EXIT"), Est("OCUPADO"),
   Est("otro")}
Messages ==
  {Msg("ERROR", None), Msg("DM", beto), Msg("BROADCAST", ana), Msg("OTRO", None),
   [kind |-> "LISTA", from |-> None, users |-> 1]}
Silence == {Msg("OTRO", None)}
=============================================================================
