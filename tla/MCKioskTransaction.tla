-------------------------- MODULE MCKioskTransaction --------------------------
(***************************************************************************)
(* One kiosk of each kind, and seven commands: creating a personal kiosk   *)
(* with a borrowed cap, one use of it and finalize().  Two replacements:   *)
(* one after create(), which leaves a share pending, and one back to a     *)
(* kiosk shared before.                                                    *)
(***************************************************************************)
EXTENDS KioskTransaction
=============================================================================
