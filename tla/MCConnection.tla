---------------------------- MODULE MCConnection ----------------------------
(* A small instance of Connection: two delays are enough for the first of  *)
(* the table, its last and the attempts past its end.                      *)
EXTENDS Connection

MCBackoff == <<1, 2>>

=============================================================================
