-------------------------- MODULE MCEntryExecution --------------------------
(* EntryExecution for TLC.                                                  *)
EXTENDS EntryExecution

(* What the properties promise ends with the first slip, so a behaviour is  *)
(* not followed beyond it.                                                  *)
NothingSlipped == slips = {}
=============================================================================
