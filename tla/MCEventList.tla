---------------------------- MODULE MCEventList ----------------------------
(* Two clients, two senders; the second event is an update_ready. *)
EXTENDS EvdiEventList

CONSTANTS f1, f2, e1, e2, e3

MCFiles == {f1, f2}
MCSenders == {"commit", "cursor"}
MCEvents == {e1, e2, e3}
MCUpdateReadies == {e2}

=============================================================================
