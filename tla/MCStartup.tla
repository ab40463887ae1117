----------------------------- MODULE MCStartup -----------------------------
(***************************************************************************)
(* Instances of Startup, and with it of PortBinding.                       *)
(***************************************************************************)
EXTENDS Startup

MCProcesses == 1 .. MemberCount
=============================================================================
