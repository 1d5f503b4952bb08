----------------------------- MODULE MCTxManager -----------------------------
(* Small instances of TxManager for TLC. *)
EXTENDS TxManager, TLC

CONSTANTS c1, c2, c3

\* c2 is made by the function of c1; c3 stands alone.
OneNested == c1 :> NoCall @@ c2 :> c1 @@ c3 :> NoCall

\* c2 is made by the function of c1, and c3 by the function of c2.
TwoNested == c1 :> NoCall @@ c2 :> c1 @@ c3 :> c2

\* Milliseconds for two calls; less than one for the nested call.
SomeTimeouts == c1 :> 1000 @@ c2 :> 999 @@ c3 :> 1000
NoTimeouts == c1 :> 0 @@ c2 :> 0 @@ c3 :> 0
=============================================================================
