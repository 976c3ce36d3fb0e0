---------------------------- MODULE MCClientFlow ----------------------------
(* Instance of ClientFlow: two leaders that take turns.                      *)
EXTENDS ClientFlow

MCLeader == {1, 2}
=============================================================================
