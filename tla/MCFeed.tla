-------------------------------- MODULE MCFeed --------------------------------
(***************************************************************************)
(* Small instances of Feed for TLC.                                        *)
(***************************************************************************)
EXTENDS Feed, TLC

Symmetry == Permutations(Ids) \cup Permutations(Entries)

\* Readings meet no store's addresses; one that has every excuse is not followed.
Focus ==
  reader.pc # "idle" => registered \subseteq Users /\ ~(reader.left /\ reader.came)
===============================================================================
