--------------------------- MODULE MCJournalVDev ---------------------------
(***************************************************************************)
(* A journal device with few small chunks, shared by the log devices.      *)
(***************************************************************************)
EXTENDS JournalVDev

(* Log devices differ in nothing but their name. *)
Symmetry == Permutations(LogDevs)

(* The properties say nothing of what follows a crash that cuts off a       *)
(* change of a chunk list, so those behaviours are not followed further.    *)
Untorn == ~torn
=============================================================================
