-------------------------- MODULE BestReplaysProofs --------------------------
(***************************************************************************)
(* What is left on disk when the saving of the best replays fails or is    *)
(* cut short: proved for any number of bests, values and games.            *)
(*                                                                         *)
(* The invariant says of every moment what the properties say of the menu. *)
(* A best that was beaten since the profile was saved is where memory and  *)
(* disk differ; a crash turns exactly these into bests that may be hurt,   *)
(* and for all the others the profile read back is the one that was lost.  *)
(***************************************************************************)
EXTENDS BestReplays, TLAPS

Saving == {"bests", "open", "fill", "last", "fill last", "read last",
           "profile", "fill profile"}

\* The best whose replay is being replaced.
Writing(s) == pc \in {"open", "fill"} /\ s = slot

WritingOK ==
  /\ pc \in Saving => demo \in Games
  /\ pc \in {"open", "fill"} =>
       slot \in Kinds /\ slot \in unsaved /\ best[slot] = demo.value[slot]

KeptOK == \A s \in Kinds : s \in hurt \/ Writing(s) \/ Kept(best, s)

LitterOK ==
  \A s \in Kinds \ litter : \A v \in Values \ {best[s]} :
    files[Replay(s, v)].state = "missing"

\* Memory and disk.
SavedOK ==
  /\ itp.state = "whole" => \A s \in Kinds \ unsaved : itp.best[s] = best[s]
  /\ pc = "off" => unsaved \subseteq hurt /\ unsaved \subseteq litter

ChecksumOK ==
  LET last == files[LastGame]
  IN  /\ pc = "fill last" => last.state # "whole"
      /\ pc = "read last" /\ last.state = "whole" => last.game = demo
      /\ pc \notin {"fill last", "read last", "off"} /\ last.state = "whole" =>
           uberChecksum \in {NoGame, last.game}

IInv == TypeOK /\ WritingOK /\ KeptOK /\ LitterOK /\ SavedOK /\ ChecksumOK

USE BestAssumption

-----------------------------------------------------------------------------
(* Data.                                                                   *)

LEMMA ContentTypes ==
  /\ Missing \in Contents /\ Torn \in Contents
  /\ \A g \in Games : Whole(g) \in Contents
  /\ Missing.state = "missing" /\ Torn.state = "torn"
  /\ \A g \in Games : Whole(g).state = "whole" /\ Whole(g).game = g
BY DEF Missing, Torn, Whole, Contents

LEMMA Names ==
  /\ LastGame \in FileNames
  /\ \A s \in Kinds, v \in Values :
       /\ Replay(s, v) \in FileNames /\ Replay(s, v) # LastGame
       /\ \A t \in Kinds, w \in Values : Replay(s, v) = Replay(t, w) => s = t /\ v = w
BY DEF LastGame, FileNames, Replay, Kinds

LEMMA GameTypes ==
  /\ NoGame.value \in Profiles /\ \A s \in Kinds : NoGame.value[s] = 0
  /\ \A g \in Games : g.value \in Profiles
  /\ \A p \in Profiles, s \in Kinds : p[s] \in Values
<1>1. NoGame.value = [s \in Kinds |-> 0]
  BY DEF NoGame
<1>2. NoGame.value \in Profiles /\ \A s \in Kinds : NoGame.value[s] = 0
  BY <1>1 DEF Profiles, Values
<1>3. \A g \in Games : g.value \in Profiles
  BY DEF Games
<1>4. \A p \in Profiles, s \in Kinds : p[s] \in Values
  BY DEF Profiles
<1> QED
  BY <1>2, <1>3, <1>4

LEMMA ItpTypes ==
  \A p \in Profiles : Itp(p).state = "whole" /\ Itp(p).best = p
BY DEF Itp

LEMMA ItpWhole ==
  ASSUME TypeOK, itp.state = "whole"
  PROVE  itp.best \in Profiles
<1>1. itp # TornItp
  BY DEF TornItp
<1>2. PICK p \in Profiles : itp = Itp(p)
  BY <1>1 DEF TypeOK
<1> QED
  BY <1>2, ItpTypes

LEMMA InitIInv == Init => IInv
<1> SUFFICES ASSUME Init
             PROVE  IInv
  OBVIOUS
<1>1. \A n \in FileNames : files[n] = Missing
  BY DEF Init
<1>2. best \in Profiles /\ \A s \in Kinds : best[s] = 0
  BY GameTypes DEF Init
<1>3. TypeOK
  <2>1. files \in [FileNames -> Contents]
    BY ContentTypes DEF Init
  <2>2. itp \in {TornItp} \cup {Itp(p) : p \in Profiles}
    BY <1>2 DEF Init
  <2>3. slot \in 1 .. Bests + 1 /\ games \in 0 .. MaxGames
    BY DEF Init
  <2> QED
    BY <1>2, <2>1, <2>2, <2>3 DEF Init, TypeOK
<1>4. WritingOK
  BY DEF Init, WritingOK, Saving
<1>5. KeptOK
  BY <1>2 DEF KeptOK, Kept
<1>6. LitterOK
  BY <1>1, ContentTypes, Names DEF LitterOK
<1>7. SavedOK
  BY <1>2, ItpTypes DEF Init, SavedOK
<1>8. ChecksumOK
  BY <1>1, ContentTypes, Names DEF Init, ChecksumOK
<1> QED
  BY <1>3, <1>4, <1>5, <1>6, <1>7, <1>8 DEF IInv

-----------------------------------------------------------------------------
(* The steps of save_personal_bests.                                       *)

LEMMA FinishIInv ==
  ASSUME IInv, NEW p \in Profiles, FinishGame(p)
  PROVE  IInv'
<1>1. demo' \in Games
  BY DEF FinishGame, Games, IInv, TypeOK
<1>2. TypeOK'
  <2>1. games' \in 0 .. MaxGames /\ slot' \in 1 .. Bests + 1
    BY DEF FinishGame, IInv, TypeOK
  <2> QED
    BY <1>1, <2>1 DEF IInv, TypeOK, FinishGame, history
<1>3. WritingOK'
  BY <1>1 DEF FinishGame, WritingOK
<1>4. KeptOK'
  BY DEF IInv, FinishGame, KeptOK, Writing, Kept, history
<1>5. LitterOK' /\ SavedOK'
  BY DEF IInv, FinishGame, LitterOK, SavedOK, history
<1>6. ChecksumOK'
  BY DEF IInv, FinishGame, ChecksumOK
<1> QED
  BY <1>2, <1>3, <1>4, <1>5, <1>6 DEF IInv

LEMMA KeepIInv == IInv /\ KeepBest => IInv'
<1> SUFFICES ASSUME IInv, KeepBest
             PROVE  IInv'
  OBVIOUS
<1>1. TypeOK'
  BY DEF IInv, TypeOK, KeepBest, history, Kinds
<1>2. WritingOK'
  BY DEF IInv, KeepBest, WritingOK, Saving
<1>3. KeptOK'
  BY DEF IInv, KeepBest, KeptOK, Writing, Kept, history
<1>4. LitterOK' /\ SavedOK' /\ ChecksumOK'
  BY DEF IInv, KeepBest, LitterOK, SavedOK, ChecksumOK, history
<1> QED
  BY <1>1, <1>2, <1>3, <1>4 DEF IInv

LEMMA BeatIInv == IInv /\ BeatBest => IInv'
<1> SUFFICES ASSUME IInv, BeatBest
             PROVE  IInv'
  OBVIOUS
<1>1. /\ pc = "bests" /\ slot \in Kinds /\ demo \in Games
      /\ best \in Profiles /\ demo.value[slot] \in Values /\ best[slot] \in Values
      /\ files \in [FileNames -> Contents]
  BY GameTypes DEF IInv, TypeOK, WritingOK, BeatBest, Saving
<1>2. /\ best' = [best EXCEPT ![slot] = demo.value[slot]]
      /\ best' \in Profiles /\ best'[slot] = demo.value[slot]
      /\ \A s \in Kinds : s # slot => best'[s] = best[s]
  BY <1>1 DEF BeatBest, Profiles
<1>3. /\ files' \in [FileNames -> Contents]
      /\ \A n \in FileNames : n # Replay(slot, best[slot]) => files'[n] = files[n]
      /\ slot \notin litter' => files'[Replay(slot, best[slot])].state = "missing"
      /\ litter' \in SUBSET Kinds /\ litter \subseteq litter'
  BY <1>1, ContentTypes, Names DEF BeatBest, OldReplay, IInv, TypeOK
<1>4. TypeOK'
  BY <1>1, <1>2, <1>3 DEF IInv, TypeOK, BeatBest
<1>5. WritingOK'
  BY <1>1, <1>2 DEF IInv, WritingOK, BeatBest
<1>6. KeptOK'
  <2> SUFFICES ASSUME NEW s \in Kinds, s \notin hurt', ~Writing(s)'
               PROVE  Kept(best, s)'
    BY DEF KeptOK
  <2>1. s # slot /\ s \notin hurt /\ ~Writing(s)
    BY DEF BeatBest, Writing
  <2>2. Kept(best, s)
    BY <2>1 DEF IInv, KeptOK
  <2>3. best'[s] = best[s] /\ best[s] \in Values
    BY <1>1, <1>2, <2>1, GameTypes
  <2>4. files'[Replay(s, best[s])] = files[Replay(s, best[s])]
    BY <1>1, <1>3, <2>1, <2>3, Names
  <2> QED
    BY <2>2, <2>3, <2>4 DEF Kept
<1>7. LitterOK'
  <2> SUFFICES ASSUME NEW s \in Kinds, s \notin litter', NEW v \in Values, v # best'[s]
               PROVE  files'[Replay(s, v)].state = "missing"
    BY DEF LitterOK
  <2>1. CASE s = slot /\ v = best[slot]
    BY <1>3, <2>1
  <2>2. CASE ~(s = slot /\ v = best[slot])
    <3>1. files'[Replay(s, v)] = files[Replay(s, v)]
      BY <1>1, <1>3, <2>2, Names
    <3>2. s \notin litter /\ v # best[s]
      BY <1>2, <1>3, <2>2
    <3> QED
      BY <3>1, <3>2 DEF IInv, LitterOK
  <2> QED
    BY <2>1, <2>2
<1>8. SavedOK'
  BY <1>1, <1>2 DEF IInv, SavedOK, BeatBest
<1>9. ChecksumOK'
  <2>1. files'[LastGame] = files[LastGame]
    BY <1>1, <1>3, Names
  <2> QED
    BY <1>1, <2>1 DEF IInv, ChecksumOK, BeatBest
<1> QED
  BY <1>4, <1>5, <1>6, <1>7, <1>8, <1>9 DEF IInv

\* What the two steps that write the replay of the best at slot share.
LEMMA WriteIInv ==
  ASSUME IInv, pc \in {"open", "fill"}, NEW c \in Contents,
         files' = [files EXCEPT ![Replay(slot, best[slot])] = c] \/ UNCHANGED files,
         pc' \in {"fill", "bests"}, hurt' \in SUBSET Kinds,
         pc' = "bests" => slot' = slot + 1,
         pc' = "fill" => slot' = slot,
         hurt \subseteq hurt',
         \A s \in Kinds \ hurt' : pc' = "bests" /\ s = slot => Kept(best, s)',
         UNCHANGED <<games, demo, best, uberChecksum, itp, unsaved, litter>>
  PROVE  IInv'
<1>1. /\ slot \in Kinds /\ slot \in unsaved /\ demo \in Games
      /\ best[slot] = demo.value[slot] /\ best \in Profiles /\ best[slot] \in Values
      /\ files \in [FileNames -> Contents]
  BY GameTypes DEF IInv, TypeOK, WritingOK, Saving
<1>2. /\ files' \in [FileNames -> Contents]
      /\ \A n \in FileNames : n # Replay(slot, best[slot]) => files'[n] = files[n]
  BY <1>1
<1>3. TypeOK'
  <2>1. slot' \in 1 .. Bests + 1
    BY <1>1 DEF Kinds
  <2> QED
    BY <1>2, <2>1 DEF IInv, TypeOK
<1>4. WritingOK'
  BY <1>1 DEF WritingOK
<1>5. KeptOK'
  <2> SUFFICES ASSUME NEW s \in Kinds, s \notin hurt', ~Writing(s)'
               PROVE  Kept(best, s)'
    BY DEF KeptOK
  <2>1. CASE s = slot
    BY <2>1 DEF Writing
  <2>2. CASE s # slot
    <3>1. Kept(best, s) /\ best[s] \in Values
      BY <1>1, <2>2, GameTypes DEF IInv, KeptOK, Writing
    <3>2. files'[Replay(s, best[s])] = files[Replay(s, best[s])]
      BY <1>1, <1>2, <2>2, <3>1, Names
    <3> QED
      BY <3>1, <3>2 DEF Kept
  <2> QED
    BY <2>1, <2>2
<1>6. LitterOK'
  <2> SUFFICES ASSUME NEW s \in Kinds, s \notin litter, NEW v \in Values, v # best[s]
               PROVE  files'[Replay(s, v)].state = "missing"
    BY DEF LitterOK
  <2>1. files'[Replay(s, v)] = files[Replay(s, v)]
    BY <1>1, <1>2, Names
  <2> QED
    BY <2>1 DEF IInv, LitterOK
<1>7. SavedOK'
  BY DEF IInv, SavedOK
<1>8. ChecksumOK'
  <2>1. files'[LastGame] = files[LastGame]
    BY <1>1, <1>2, Names
  <2> QED
    BY <2>1 DEF IInv, ChecksumOK
<1> QED
  BY <1>3, <1>4, <1>5, <1>6, <1>7, <1>8 DEF IInv

LEMMA OpenIInv == IInv /\ OpenBest => IInv'
<1> SUFFICES ASSUME IInv, OpenBest
             PROVE  IInv'
  OBVIOUS
<1>1. slot \in Kinds /\ hurt \in SUBSET Kinds
  BY DEF IInv, TypeOK, WritingOK, OpenBest
<1>2. CASE pc' = "fill"
  BY <1>1, <1>2, ContentTypes, WriteIInv DEF OpenBest
<1>3. CASE pc' = "bests"
  BY <1>1, <1>3, ContentTypes, WriteIInv DEF OpenBest
<1> QED
  BY <1>2, <1>3 DEF OpenBest

LEMMA FillIInv == IInv /\ FillBest => IInv'
<1> SUFFICES ASSUME IInv, FillBest
             PROVE  IInv'
  OBVIOUS
<1>1. /\ slot \in Kinds /\ hurt \in SUBSET Kinds /\ demo \in Games
      /\ best[slot] = demo.value[slot] /\ best[slot] \in Values
      /\ files \in [FileNames -> Contents]
  BY GameTypes DEF IInv, TypeOK, WritingOK, FillBest, Saving
<1>2. CASE hurt' = hurt \cup {slot} /\ UNCHANGED files
  BY <1>1, <1>2, ContentTypes, WriteIInv DEF FillBest
<1>3. CASE files' = [files EXCEPT ![Replay(slot, best[slot])] = Whole(demo)] /\ UNCHANGED hurt
  <2>1. files'[Replay(slot, best[slot])] = Whole(demo) /\ best' = best
    BY <1>1, <1>3, Names DEF FillBest
  <2>2. Whole(demo) \in Contents /\ Whole(demo).state = "whole" /\ Whole(demo).game = demo
    BY <1>1, ContentTypes
  <2>3. files'[Replay(slot, best'[slot])].state = "whole"
        /\ files'[Replay(slot, best'[slot])].game.value[slot] = best'[slot]
    BY <1>1, <2>1, <2>2
  <2>4. \A s \in Kinds \ hurt' : pc' = "bests" /\ s = slot => Kept(best, s)'
    BY <2>3 DEF Kept
  <2> QED
    BY <1>1, <1>3, <2>2, <2>4, WriteIInv DEF FillBest
<1> QED
  BY <1>2, <1>3 DEF FillBest

LEMMA DoneIInv == IInv /\ BestsDone => IInv'
<1> SUFFICES ASSUME IInv, BestsDone
             PROVE  IInv'
  OBVIOUS
<1>1. TypeOK' /\ WritingOK'
  BY DEF IInv, TypeOK, BestsDone, WritingOK, Saving, history
<1>2. KeptOK'
  BY DEF IInv, BestsDone, KeptOK, Writing, Kept, history
<1>3. LitterOK' /\ SavedOK' /\ ChecksumOK'
  BY DEF IInv, BestsDone, LitterOK, SavedOK, ChecksumOK, history
<1> QED
  BY <1>1, <1>2, <1>3 DEF IInv

\* What the steps share that write, or do not write, last_game.itr.
LEMMA LastIInv ==
  ASSUME IInv, pc \in {"last", "fill last", "read last"}, NEW c \in Contents,
         files' = [files EXCEPT ![LastGame] = c] \/ UNCHANGED files,
         pc' \in {"fill last", "read last", "profile"},
         uberChecksum' \in Games \cup {NoGame},
         UNCHANGED <<slot, games, demo, best, itp, history>>,
         ChecksumOK'
  PROVE  IInv'
<1>1. files \in [FileNames -> Contents] /\ best \in Profiles
  BY DEF IInv, TypeOK
<1>2. /\ files' \in [FileNames -> Contents]
      /\ \A n \in FileNames : n # LastGame => files'[n] = files[n]
  BY <1>1
<1>3. TypeOK'
  BY <1>2 DEF IInv, TypeOK, history
<1>4. WritingOK'
  BY DEF IInv, WritingOK, Saving
<1>5. KeptOK'
  <2> SUFFICES ASSUME NEW s \in Kinds, s \notin hurt
               PROVE  Kept(best, s)'
    BY DEF KeptOK, history
  <2>1. Kept(best, s)
    BY DEF IInv, KeptOK, Writing
  <2>2. files'[Replay(s, best[s])] = files[Replay(s, best[s])]
    BY <1>1, <1>2, GameTypes, Names
  <2> QED
    BY <2>1, <2>2 DEF Kept
<1>6. LitterOK'
  <2> SUFFICES ASSUME NEW s \in Kinds, s \notin litter, NEW v \in Values, v # best[s]
               PROVE  files'[Replay(s, v)].state = "missing"
    BY DEF LitterOK, history
  <2>1. files'[Replay(s, v)] = files[Replay(s, v)]
    BY <1>2, Names
  <2> QED
    BY <2>1 DEF IInv, LitterOK
<1>7. SavedOK'
  BY DEF IInv, SavedOK, history
<1> QED
  BY <1>3, <1>4, <1>5, <1>6, <1>7 DEF IInv

LEMMA OpenLastIInv == IInv /\ OpenLast => IInv'
<1> SUFFICES ASSUME IInv, OpenLast
             PROVE  IInv'
  OBVIOUS
<1>1. uberChecksum' \in Games \cup {NoGame} /\ files[LastGame] \in Contents
  BY Names DEF OpenLast, ChecksumOfFailure, IInv, TypeOK
<1>2. ChecksumOK'
  <2>1. CASE pc' = "fill last"
    <3>1. files' = [files EXCEPT ![LastGame] = Torn]
      BY <2>1 DEF OpenLast
    <3>2. files'[LastGame] = Torn
      BY <3>1, Names DEF IInv, TypeOK
    <3> QED
      BY <2>1, <3>2, ContentTypes DEF ChecksumOK
  <2>2. CASE pc' = "profile"
    BY <2>2 DEF OpenLast, ChecksumOfFailure, ChecksumOK
  <2> QED
    BY <2>1, <2>2 DEF OpenLast
<1> QED
  BY <1>1, <1>2, ContentTypes, LastIInv DEF OpenLast

LEMMA FillLastIInv == IInv /\ FillLast => IInv'
<1> SUFFICES ASSUME IInv, FillLast
             PROVE  IInv'
  OBVIOUS
<1>1. uberChecksum' \in Games \cup {NoGame} /\ demo \in Games
  BY DEF FillLast, IInv, TypeOK, WritingOK, Saving
<1>2. ChecksumOK'
  <2>1. CASE files' = [files EXCEPT ![LastGame] = Whole(demo)]
    <3>1. files'[LastGame] = Whole(demo)
      BY <2>1, Names DEF IInv, TypeOK
    <3> QED
      BY <1>1, <3>1, ContentTypes DEF FillLast, ChecksumOK
  <2>2. CASE UNCHANGED files
    BY <2>2 DEF IInv, FillLast, ChecksumOK
  <2> QED
    BY <2>1, <2>2 DEF FillLast
<1> QED
  BY <1>1, <1>2, ContentTypes, LastIInv DEF FillLast

LEMMA ReadLastIInv == IInv /\ ReadLast => IInv'
<1> SUFFICES ASSUME IInv, ReadLast
             PROVE  IInv'
  OBVIOUS
<1>1. uberChecksum' \in Games \cup {NoGame}
  BY DEF ReadLast, IInv, TypeOK
<1>2. ChecksumOK'
  BY DEF IInv, ReadLast, ChecksumOK
<1> QED
  BY <1>1, <1>2, ContentTypes, LastIInv DEF ReadLast

-----------------------------------------------------------------------------
(* The profile, the crash and the new start.                               *)

LEMMA OpenProfileIInv == IInv /\ OpenProfile => IInv'
<1> SUFFICES ASSUME IInv, OpenProfile
             PROVE  IInv'
  OBVIOUS
<1>1. /\ pc = "profile" /\ pc' \in {"fill profile", "menu"}
      /\ itp' = TornItp \/ UNCHANGED itp
      /\ UNCHANGED <<slot, games, demo, best, uberChecksum, files, history>>
  BY DEF OpenProfile
<1>2. TypeOK'
  BY <1>1 DEF IInv, TypeOK, history
<1>3. WritingOK'
  BY <1>1 DEF IInv, WritingOK, Saving
<1>4. KeptOK'
  BY <1>1 DEF IInv, KeptOK, Writing, Kept, history
<1>5. LitterOK'
  BY <1>1 DEF IInv, LitterOK, history
<1>6. SavedOK'
  <2>1. TornItp.state # "whole"
    BY DEF TornItp
  <2> QED
    BY <1>1, <2>1 DEF IInv, SavedOK, history
<1>7. ChecksumOK'
  BY <1>1 DEF IInv, ChecksumOK
<1> QED
  BY <1>2, <1>3, <1>4, <1>5, <1>6, <1>7 DEF IInv

LEMMA FillProfileIInv == IInv /\ FillProfile => IInv'
<1> SUFFICES ASSUME IInv, FillProfile
             PROVE  IInv'
  OBVIOUS
<1>1. TypeOK' /\ WritingOK'
  BY DEF IInv, TypeOK, FillProfile, WritingOK, Saving
<1>2. KeptOK'
  BY DEF IInv, FillProfile, KeptOK, Writing, Kept
<1>3. LitterOK'
  BY DEF IInv, FillProfile, LitterOK
<1>4. SavedOK'
  BY ItpTypes DEF IInv, TypeOK, FillProfile, SavedOK
<1>5. ChecksumOK'
  BY DEF IInv, FillProfile, ChecksumOK
<1> QED
  BY <1>1, <1>2, <1>3, <1>4, <1>5 DEF IInv

LEMMA CrashIInv == IInv /\ Crash => IInv'
<1> SUFFICES ASSUME IInv, Crash
             PROVE  IInv'
  OBVIOUS
<1>1. TypeOK' /\ WritingOK'
  BY DEF IInv, TypeOK, Crash, WritingOK, Saving
<1>2. KeptOK'
  BY DEF IInv, Crash, KeptOK, WritingOK, Writing, Kept
<1>3. LitterOK' /\ SavedOK' /\ ChecksumOK'
  BY DEF IInv, TypeOK, Crash, LitterOK, SavedOK, ChecksumOK
<1> QED
  BY <1>1, <1>2, <1>3 DEF IInv

LEMMA StartIInv == IInv /\ Start => IInv'
<1> SUFFICES ASSUME IInv, Start
             PROVE  IInv'
  OBVIOUS
<1>1. best' \in Profiles
  BY ItpWhole DEF IInv, Start
<1>2. TypeOK' /\ WritingOK'
  <2>1. slot' \in 1 .. Bests + 1
    BY DEF Start
  <2> QED
    BY <1>1, <2>1 DEF IInv, TypeOK, Start, WritingOK, Saving
<1>3. /\ unsaved \subseteq hurt /\ unsaved \subseteq litter
      /\ \A s \in Kinds \ unsaved : best'[s] = best[s]
      /\ files' = files /\ hurt' = hurt /\ litter' = litter
  BY DEF IInv, SavedOK, Start
<1>4. KeptOK'
  <2> SUFFICES ASSUME NEW s \in Kinds, s \notin hurt
               PROVE  Kept(best, s)'
    BY <1>3 DEF KeptOK
  <2>1. Kept(best, s) /\ best'[s] = best[s]
    BY <1>3 DEF IInv, KeptOK, Writing, Start
  <2> QED
    BY <1>3, <2>1 DEF Kept
<1>5. LitterOK'
  <2> SUFFICES ASSUME NEW s \in Kinds, s \notin litter, NEW v \in Values, v # best'[s]
               PROVE  files[Replay(s, v)].state = "missing"
    BY <1>3 DEF LitterOK
  <2>1. best'[s] = best[s]
    BY <1>3
  <2> QED
    BY <2>1 DEF IInv, LitterOK
<1>6. SavedOK' /\ ChecksumOK'
  BY DEF Start, SavedOK, ChecksumOK
<1> QED
  BY <1>2, <1>4, <1>5, <1>6 DEF IInv

LEMMA NextIInv == IInv /\ [Next]_vars => IInv'
<1>1. ASSUME IInv, NEW p \in Profiles, FinishGame(p)
      PROVE  IInv'
  BY <1>1, FinishIInv
<1>2. ASSUME IInv, UNCHANGED vars
      PROVE  IInv'
  <2> USE DEF vars, history
  <2>1. TypeOK' /\ WritingOK'
    BY <1>2 DEF IInv, TypeOK, WritingOK
  <2>2. KeptOK' /\ LitterOK'
    BY <1>2 DEF IInv, KeptOK, Writing, Kept, LitterOK
  <2>3. SavedOK' /\ ChecksumOK'
    BY <1>2 DEF IInv, SavedOK, ChecksumOK
  <2> QED
    BY <2>1, <2>2, <2>3 DEF IInv
<1> QED
  BY <1>1, <1>2, KeepIInv, BeatIInv, OpenIInv, FillIInv, DoneIInv, OpenLastIInv,
     FillLastIInv, ReadLastIInv, OpenProfileIInv, FillProfileIInv, CrashIInv,
     StartIInv DEF Next, Save

LEMMA Invariance == Spec => []IInv
BY InitIInv, NextIInv, PTL DEF Spec

-----------------------------------------------------------------------------
(* The theorems.                                                           *)

\* A named best replay is there, complete and shows its value, unless its
\* writing failed or the process died before the profile was saved.
THEOREM BestsKept == Spec => []BestsCanBeWatched
<1>1. IInv => BestsCanBeWatched
  BY DEF IInv, KeptOK, Writing, BestsCanBeWatched
<1> QED
  BY <1>1, Invariance, PTL

\* No replay of a beaten best stays behind, but for the same two exceptions.
THEOREM NoLitter == Spec => []NothingLeftBehind
<1>1. IInv => NothingLeftBehind
  BY DEF IInv, LitterOK, NothingLeftBehind
<1> QED
  BY <1>1, Invariance, PTL

\* The checksum is that of the game in last_game.itr, when it has one.
THEOREM ChecksumHonest == Spec => []ChecksumIsTheLastGames
<1>1. IInv => ChecksumIsTheLastGames
  BY DEF IInv, ChecksumOK, ChecksumIsTheLastGames
<1> QED
  BY <1>1, Invariance, PTL

=============================================================================
