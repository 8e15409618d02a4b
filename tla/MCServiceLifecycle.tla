------------------------- MODULE MCServiceLifecycle -------------------------
(* The four services for TLC. *)
EXTENDS ServiceLifecycle

AllServices == {"persister", "trends", "brief", "collector"}

=============================================================================
