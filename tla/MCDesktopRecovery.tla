-------------------------- MODULE MCDesktopRecovery --------------------------
(* A small instance of DesktopRecovery for TLC: two slots, two versions of  *)
(* each file.                                                              *)
EXTENDS DesktopRecovery

CONSTANTS MCSlotCount

MCSlots == 1..MCSlotCount
==============================================================================
