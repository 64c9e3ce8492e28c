----------------------------- MODULE MCSession -----------------------------
(* The instance TLC checks: a window that is made larger once and an arrow *)
(* key; or a window of one size, and so many keys that everything between  *)
(* the UI thread and the server's state may be full both ways.             *)
EXTENDS Session

MCSize == <<1, 2>>
Arrow(pressed) == [code |-> "Arrow", pressed |-> pressed]
MCTyped == [i \in 1 .. 9 |-> Arrow(i =< 4)]
MCNothing == <<>>
============================================================================
