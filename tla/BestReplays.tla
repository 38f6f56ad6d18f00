----------------------------- MODULE BestReplays -----------------------------
(***************************************************************************)
(* The files play() leaves when a game is over (save_personal_bests() and  *)
(* save_profile()): a replay for each personal best that was beaten, the   *)
(* replay of the last game, and the profile that names the best replays.   *)
(* None of it is atomic and hardly a result is looked at: the old replay   *)
(* is deleted, the new one opened - which empties it - and filled, and the *)
(* profile saved only after the last of them.  Any of these steps may fail *)
(* and the process may be killed between any two.                          *)
(*                                                                         *)
(* The fifteen bests are numbered 1 .. Bests in the order they are saved   *)
(* in.  The name of a best replay is made of the handle, the kind of best  *)
(* and the value, and is set whenever the value is: here the value stands  *)
(* for it, and a profile is a function from bests to values, 0 having the  *)
(* empty name.  Left out: the profile's totals, its _stats.txt, mkdir().   *)
(***************************************************************************)
EXTENDS Integers

CONSTANTS
  Bests,      \* the kinds of best in a profile, 15
  MaxValue,   \* bound: the largest value of a best
  MaxGames    \* bound: games finished

ASSUME BestAssumption == {Bests, MaxValue, MaxGames} \subseteq Nat

VARIABLES
  pc,           \* how far the process is; "off" when none runs
  slot,         \* the best save_personal_bests is at
  games,        \* games finished
  demo,         \* the finished game, with the values it reached
  best,         \* profile, in memory
  uberChecksum, \* the game it is the checksum of, NoGame for 0
  files,        \* replay_directory
  itp,          \* the profile's file
  unsaved,      \* history: bests beaten since the profile was saved
  hurt,         \* history: bests whose replay was not written, or not kept
  litter        \* history: bests that may have left a file behind

vars == <<pc, slot, games, demo, best, uberChecksum, files, itp, unsaved,
          hurt, litter>>

history == <<unsaved, hurt, litter>>

Kinds    == 1 .. Bests
Values   == 0 .. MaxValue
Profiles == [Kinds -> Values]
Games    == [id : 1 .. MaxGames, value : Profiles]
NoGame   == [id |-> 0, value |-> [s \in Kinds |-> 0]]

\* What a replay's name finds: nothing, a file that load_replay refuses, or
\* the game in it.
Missing == [state |-> "missing", game |-> NoGame]
Torn    == [state |-> "torn", game |-> NoGame]
Whole(g) == [state |-> "whole", game |-> g]
Contents == {Missing, Torn} \cup {Whole(g) : g \in Games}

Replay(s, v) == <<s, v>>
LastGame     == <<0, 0>>          \* last_game.itr
FileNames    == (Kinds \X Values) \cup {LastGame}

TornItp    == [state |-> "torn", best |-> NoGame.value]
Itp(p)     == [state |-> "whole", best |-> p]

Init ==
  /\ pc = "menu" /\ slot = 1 /\ games = 0
  /\ demo = NoGame /\ uberChecksum = NoGame
  /\ best = NoGame.value
  /\ files = [n \in FileNames |-> Missing]
  /\ itp = Itp(best)
  /\ unsaved = {} /\ hurt = {} /\ litter = {}

-----------------------------------------------------------------------------
(* save_personal_bests                                                     *)

\* play() has ended: a recorded game, one with custom floors, or one that
\* is not saved - it was quit, or was a replay.
FinishGame(p) ==
  /\ pc = "menu" /\ games < MaxGames
  /\ games' = games + 1
  /\ demo' = [id |-> games', value |-> p]
  /\ slot' = 1
  /\ pc' \in {"bests", "last", "profile"}
  /\ UNCHANGED <<best, uberChecksum, files, itp, history>>

Beaten(s) == best[s] < demo.value[s]

KeepBest ==
  /\ pc = "bests" /\ slot \in Kinds /\ ~Beaten(slot)
  /\ slot' = slot + 1
  /\ UNCHANGED <<pc, games, demo, best, uberChecksum, files, itp, history>>

\* A delete that finds the name already overwritten with the new one.
DeletesNewName(s) == Replay(s, demo.value[s])

\* A delete that was copied from another kind of best.
DeletesNeighbour(s) == Replay(1, best[1])

\* The replay myDeleteFile is asked to remove.
OldReplay(s) == Replay(s, best[s])

\* The value, then myDeleteFile, which may fail unnoticed, then the name.
BeatBest ==
  /\ pc = "bests" /\ slot \in Kinds /\ Beaten(slot)
  /\ best' = [best EXCEPT ![slot] = demo.value[slot]]
  /\ \/ files' = [files EXCEPT ![OldReplay(slot)] = Missing] /\ UNCHANGED litter
     \/ UNCHANGED files /\ litter' = litter \cup {slot}
  /\ pc' = "open"
  /\ unsaved' = unsaved \cup {slot}
  /\ hurt' = hurt \ {slot}
  /\ UNCHANGED <<slot, games, demo, uberChecksum, itp>>

\* save_replay opens the file, and gives up when it cannot.
OpenBest ==
  /\ pc = "open"
  /\ \/ /\ files' = [files EXCEPT ![Replay(slot, best[slot])] = Torn]
        /\ pc' = "fill"
        /\ UNCHANGED <<slot, hurt>>
     \/ /\ pc' = "bests" /\ slot' = slot + 1
        /\ hurt' = hurt \cup {slot}
        /\ UNCHANGED files
  /\ UNCHANGED <<games, demo, best, uberChecksum, itp, unsaved, litter>>

\* ... and writes it, without looking whether there was room.
FillBest ==
  /\ pc = "fill"
  /\ \/ files' = [files EXCEPT ![Replay(slot, best[slot])] = Whole(demo)] /\ UNCHANGED hurt
     \/ UNCHANGED files /\ hurt' = hurt \cup {slot}
  /\ pc' = "bests" /\ slot' = slot + 1
  /\ UNCHANGED <<games, demo, best, uberChecksum, itp, unsaved, litter>>

BestsDone ==
  /\ pc = "bests" /\ slot \notin Kinds
  /\ pc' = "last"
  /\ UNCHANGED <<slot, games, demo, best, uberChecksum, files, itp, history>>

\* A failure that is answered like a success.
FailureIgnored == demo

\* uberChecksum when last_game.itr could not be opened.
ChecksumOfFailure == NoGame

OpenLast ==
  /\ pc = "last"
  /\ \/ /\ files' = [files EXCEPT ![LastGame] = Torn]
        /\ pc' = "fill last"
        /\ UNCHANGED uberChecksum
     \/ /\ uberChecksum' = ChecksumOfFailure
        /\ pc' = "profile"
        /\ UNCHANGED files
  /\ UNCHANGED <<slot, games, demo, best, itp, history>>

FillLast ==
  /\ pc = "fill last"
  /\ \/ files' = [files EXCEPT ![LastGame] = Whole(demo)]
     \/ UNCHANGED files
  /\ pc' = "read last"
  /\ UNCHANGED <<slot, games, demo, best, uberChecksum, itp, history>>

\* The file is read back; one that cannot be leaves uberChecksum as it was.
ReadLast ==
  /\ pc = "read last"
  /\ uberChecksum' = IF files[LastGame].state = "whole" THEN demo ELSE uberChecksum
  /\ pc' = "profile"
  /\ UNCHANGED <<slot, games, demo, best, files, itp, history>>

-----------------------------------------------------------------------------
(* save_profile, whose result play() ignores                               *)

OpenProfile ==
  /\ pc = "profile"
  /\ \/ itp' = TornItp /\ pc' = "fill profile"
     \/ pc' = "menu" /\ UNCHANGED itp
  /\ UNCHANGED <<slot, games, demo, best, uberChecksum, files, history>>

FillProfile ==
  /\ pc = "fill profile"
  /\ \/ itp' = Itp(best) /\ unsaved' = {}
     \/ UNCHANGED <<itp, unsaved>>
  /\ pc' = "menu"
  /\ UNCHANGED <<slot, games, demo, best, uberChecksum, files, hurt, litter>>

Save ==
  \/ KeepBest \/ BeatBest \/ OpenBest \/ FillBest \/ BestsDone
  \/ OpenLast \/ FillLast \/ ReadLast
  \/ OpenProfile \/ FillProfile

-----------------------------------------------------------------------------
(* The process is ended at any moment and started again.  load_profile()   *)
(* is not among the sources; it is taken to refuse a torn profile.         *)

Crash ==
  /\ pc # "off"
  /\ pc' = "off"
  /\ hurt' = hurt \cup unsaved
  /\ litter' = litter \cup unsaved
  /\ UNCHANGED <<slot, games, demo, best, uberChecksum, files, itp, unsaved>>

Start ==
  /\ pc = "off" /\ itp.state = "whole"
  /\ pc' = "menu"
  /\ slot' = 1 /\ demo' = NoGame /\ uberChecksum' = NoGame
  /\ best' = itp.best
  /\ unsaved' = {}
  /\ UNCHANGED <<games, files, itp, hurt, litter>>

Next ==
  \/ \E p \in Profiles : FinishGame(p)
  \/ Save \/ Crash \/ Start

Spec == Init /\ [][Next]_vars

-----------------------------------------------------------------------------
(* Properties.                                                             *)

TypeOK ==
  /\ pc \in {"menu", "bests", "open", "fill", "last", "fill last", "read last",
             "profile", "fill profile", "off"}
  /\ slot \in 1 .. Bests + 1
  /\ games \in 0 .. MaxGames
  /\ demo \in Games \cup {NoGame} /\ uberChecksum \in Games \cup {NoGame}
  /\ best \in Profiles
  /\ files \in [FileNames -> Contents]
  /\ itp \in {TornItp} \cup {Itp(p) : p \in Profiles}
  /\ unsaved \in SUBSET Kinds /\ hurt \in SUBSET Kinds /\ litter \in SUBSET Kinds

\* The profile's file of best s is there, complete, and shows what it claims.
Kept(p, s) ==
  p[s] > 0 => /\ files[Replay(s, p[s])].state = "whole"
              /\ files[Replay(s, p[s])].game.value[s] = p[s]

\* The best replays a profile names can be watched, across games, failures
\* and crashes: one can be missing or incomplete only if writing it failed,
\* or if the process died between beating the best and saving the profile -
\* and only until that best is beaten again.
BestsCanBeWatched == pc = "menu" => \A s \in Kinds : s \in hurt \/ Kept(best, s)

\* A best that is beaten leaves no file behind, unless its deletion failed or
\* the process died before the profile was saved.
NothingLeftBehind ==
  pc = "menu" =>
    \A s \in Kinds \ litter : \A v \in Values \ {best[s]} :
      files[Replay(s, v)].state = "missing"

\* uberChecksum never vouches for another game than the one last_game.itr
\* holds: it is 0, or that game's, whenever the file can be read at all.
ChecksumIsTheLastGames ==
  pc = "menu" /\ files[LastGame].state = "whole" =>
    uberChecksum \in {NoGame, files[LastGame].game}
=============================================================================
