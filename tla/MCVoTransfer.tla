----------------------------- MODULE MCVoTransfer -----------------------------
(***************************************************************************)
(* An instance of VoTransfer for TLC.                                      *)
(***************************************************************************)
EXTENDS VoTransfer

===============================================================================
