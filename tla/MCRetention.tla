---------------------------- MODULE MCRetention -----------------------------
(* A small instance of Retention: photos that expire before their rows, and *)
(* rows that go before their photos.                                        *)
EXTENDS Retention

MCRetentions == {[images |-> 1, events |-> 2], [images |-> 2, events |-> 1]}

=============================================================================
