------------------------------ MODULE MCReminder ------------------------------
(***************************************************************************)
(* Small instances of Reminder for TLC.                                    *)
(***************************************************************************)
EXTENDS Reminder, TLC

\* Schedulers are told apart by Slow.
Symmetry == Permutations(Bookings)
=============================================================================
