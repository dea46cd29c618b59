-------------------------- MODULE MCSessionDelivery --------------------------
(* SessionDelivery with the small instances of SessionManager. *)
EXTENDS MCSessionManager, SessionDelivery
=============================================================================
