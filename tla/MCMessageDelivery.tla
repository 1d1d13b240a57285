------------------------- MODULE MCMessageDelivery -------------------------
(* MessageDelivery with one comment.                                       *)
EXTENDS MessageDelivery

CONSTANT m1
=============================================================================
