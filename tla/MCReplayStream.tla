--------------------------- MODULE MCReplayStream ---------------------------
(***************************************************************************)
(* ReplayStream with three keys: left and fire, which are recorded, and up, *)
(* which is not.                                                            *)
(***************************************************************************)
EXTENDS ReplayStream

CONSTANTS left, fire, up, sentinel

MCButtons  == {left, fire, up}
MCRecorded == {left, fire}
MCJunk     == [key_flags |-> {fire}, cycle_count |-> 1]
=============================================================================
