------------------------------- MODULE MCChatTurn -------------------------------
(***************************************************************************)
(* A small instance of ChatTurn.                                           *)
(***************************************************************************)
EXTENDS ChatTurn, TLC

CONSTANTS t1, t2

MCServes == (t1 :> Paths) @@ (t2 :> {"kb"})

=============================================================================
