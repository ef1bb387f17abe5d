----------------------- MODULE MCLinkWebhookDelivery -----------------------
(* A small instance of LinkWebhookDelivery for TLC. *)
EXTENDS LinkWebhookDelivery
==============================================================================
