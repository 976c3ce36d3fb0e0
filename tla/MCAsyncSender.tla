--------------------------- MODULE MCAsyncSender ---------------------------
(* A burst of two messages from a sender to a server that stays up.        *)
EXTENDS AsyncSender

MCBurst == <<1, 1>>
=============================================================================
