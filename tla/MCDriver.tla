------------------------------ MODULE MCDriver ------------------------------
(***************************************************************************)
(* Room for two cards and one platform device more, so that one too many   *)
(* can be asked for and, in a race, be added; a writer, which meets the    *)
(* module's own thread loading and exiting; and a file.  A probe fails in  *)
(* drm_dev_register, which leaves the whole setup, or in the setup, whose  *)
(* error path leaves the modeset objects or kills the thread.              *)
(***************************************************************************)
EXTENDS EvdiDriver, TLC

CONSTANTS d1, d2, d3

MCFailures == {[card |-> "none", held |-> Setup, dies |-> FALSE]}
              \cup [card : {"none"}, held : {{"modeset"}}, dies : BOOLEAN]

MCDevs == {d1, d2, d3}
Symmetry == Permutations(MCDevs)

=============================================================================
