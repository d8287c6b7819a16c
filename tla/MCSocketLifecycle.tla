------------------------- MODULE MCSocketLifecycle -------------------------
(***************************************************************************)
(* TLC instances of SocketLifecycle.                                       *)
(***************************************************************************)
EXTENDS SocketLifecycle

\* The listeners whose calls matter: "data" takes a pin, "close" is called
\* between the unpin and maybeDestroy.
MCEvents == {"data", "close"}

\* A connect may meet another that is outstanding.
MCMaxOps == [connect |-> 2, write |-> 1]
MCOneOp  == [connect |-> 1, write |-> 1]
=============================================================================
