--------------------------- MODULE MC_WatchStream ---------------------------
(***************************************************************************)
(* WatchStream on one document and two reads of it.                        *)
(***************************************************************************)
EXTENDS WatchStream

CONSTANTS k1, r1, r2

=============================================================================
