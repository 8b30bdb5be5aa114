---------------------------- MODULE MCStandalone ----------------------------
(* Exit statuses of a child: killed by SIGTERM, success, a failure.          *)
EXTENDS Standalone

MCCodes == {-15, 0, 2}
=============================================================================
