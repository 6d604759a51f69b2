--------------------------- MODULE MCLateReaders ---------------------------
(***************************************************************************)
(* LateReaders for TLC.  The late readers are a function of the log, so    *)
(* the view of the state is that of LeaseProtocol.                         *)
(***************************************************************************)
EXTENDS LateReaders, MCLeaseProtocol
=============================================================================
