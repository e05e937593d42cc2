--------------------------- MODULE MCConnection ---------------------------
(***************************************************************************)
(* Two commands, one of which the player answers without its cmdId: enough *)
(* for one to hold the write half while the other queues, and for one's    *)
(* answer to come when only the other is waiting.                          *)
(***************************************************************************)
EXTENDS Connection

CONSTANTS c1, c2, none

TwoCmds == {c1, c2}
OneUntagged == {c1}
===========================================================================
