-------------------------- MODULE MCNotifications --------------------------
(* Two sessions and two dispatchers that race for one queue. *)
EXTENDS Notifications
=============================================================================
