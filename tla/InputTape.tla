------------------------------ MODULE InputTape ------------------------------
(***************************************************************************)
(* What the input seam of Icy Tower promises, with no record stream in it: *)
(* a recording is a tape of the keys held at each consumed tick, and a     *)
(* playback of that tape holds, tick by tick, the same keys.               *)
(*                                                                         *)
(* The tape starts with one empty entry that no tick produced, and the     *)
(* first tick of a playback holds whatever the caller left in the control  *)
(* struct: a playback is the recording delayed by exactly two ticks, and   *)
(* silence after its last entry.  ReplayStream implements this.            *)
(***************************************************************************)
EXTENDS Naturals, Sequences

CONSTANTS Recorded      \* the keys a recording keeps: left, right, fire

VARIABLES
  mode,     \* "recording", "saved" or "playback"
  tape,     \* the keys held at each recorded tick, after one empty entry
  played,   \* ticks of the current playback
  held      \* the keys the simulation steers by after the last tick

vars == <<mode, tape, played, held>>

Init ==
  /\ mode = "recording"
  /\ tape = << {} >>
  /\ played = 0
  /\ held \in SUBSET Recorded

\* A tick of a live player is written on the tape and steers at once.
Record ==
  /\ mode = "recording"
  /\ \E keys \in SUBSET Recorded :
       /\ tape' = Append(tape, keys)
       /\ held' = keys
  /\ UNCHANGED <<mode, played>>

\* A dead player's keys still reach the simulation, and are not recorded.
Ignore ==
  /\ mode = "recording"
  /\ held' \in SUBSET Recorded
  /\ UNCHANGED <<mode, tape, played>>

Save ==
  /\ mode = "recording"
  /\ mode' = "saved"
  /\ UNCHANGED <<tape, played, held>>

\* A playback starts over at the head of the tape, whatever it did before.
Load ==
  /\ mode # "recording"
  /\ mode' = "playback"
  /\ played' = 0
  /\ held' \in SUBSET Recorded
  /\ UNCHANGED tape

Play ==
  /\ mode = "playback"
  /\ played' = played + 1
  /\ held' = IF played = 0 THEN held
             ELSE IF played <= Len(tape) THEN tape[played] ELSE {}
  /\ UNCHANGED <<mode, tape>>

Next == Record \/ Ignore \/ Save \/ Load \/ Play

Spec == Init /\ [][Next]_vars
=============================================================================
