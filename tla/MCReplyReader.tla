--------------------------- MODULE MCReplyReader ---------------------------
(* ReplyReader on a small instance. *)
EXTENDS ReplyReader
=============================================================================
