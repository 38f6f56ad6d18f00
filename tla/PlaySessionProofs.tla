-------------------------- MODULE PlaySessionProofs --------------------------
(***************************************************************************)
(* What a call of play() counts, times, stores and leaves running, proved  *)
(* for every number of keys, every clock and every speed of dying.         *)
(*                                                                         *)
(* None of the properties is inductive: they speak of what is stored when  *)
(* a game is over, and it is the loop, far behind, that decided it.  IInv  *)
(* says at every program counter how the game stands: which clock is       *)
(* running (Timing), why the loop is still going or is not (Looping), and  *)
(* what was decided when it ended (Ending).                                *)
(***************************************************************************)
EXTENDS PlaySession, TLAPS

LoopPCs == TickPCs \cup PausePCs \cup ReplayPCs
EscPCs  == {"esc_release", "esc_wait", "esc_pausekey", "esc_decide"}

\* The player has fallen, or has left by Escape.
Ended == fell \/ counted.quit # 0

\* The clock of a recorded game: what the game has lasted is now - startTime,
\* or pauseTime - startTime in a pause, until its end; from then on it is
\* endTime - startTime, unless a later pause moved startTime.
Timing ==
  /\ pauseTime <= now /\ endTime <= now
  /\ seconds <= active
  /\ pc \in LoopPCs \cup {"over"} => seconds = 0
  /\ recording =>
       /\ pc \in TickPCs /\ ~Ended => now = startTime + active
       /\ pc \in PausePCs /\ ~Ended => pauseTime = startTime + active
       /\ pc \in PausePCs /\ Ended => endTime <= pauseTime
       /\ ~Ended => endTime = 0
       /\ endTime <= startTime + active
       /\ endTime > 0 /\ pauseTime < endTime => endTime = startTime + active
  /\ PlayTimeComplete

\* The loop: whose parts are for games and whose for replays, and why it ends.
Looping ==
  /\ pc \in {"keys", "pausekey", "bests"} \cup EscPCs
            \cup {"pause_release", "pause_wait", "pause_drain"} => recording
  /\ pc \in {"transport"} \cup ReplayPCs => ~recording
  /\ pc \in LoopPCs =>
       /\ fell <=> dead # 0
       /\ quit => ~playing
  /\ pc \in {"shot", "frame"} => ~quit /\ playing = (recording => dead <= DeathOver)
  /\ pc \in {"shot", "frame", "keys"} \cup EscPCs => counted.quit = 0
  /\ pc \in EscPCs => dead = 0
  /\ recording /\ ~playing /\ ~quit => fell
  /\ recording /\ quit => counted.quit = 1 \/ close

\* The books: counted.quit in the loop, the rest once it has ended.
Ending ==
  /\ counted.quit \in {0, 1}
  /\ counted.quit = 1 => quit
  /\ pc \in LoopPCs \cup {"over", "bests"} =>
       counted.played = 0 /\ counted.custom = 0 /\ lastGame = "none"
  /\ pc \notin LoopPCs /\ recording => quit \/ close \/ fell
  /\ quit => lastGame = "none" /\ counted.played = 0 /\ counted.custom = 0
  /\ counted.played + counted.custom <= 1
  /\ pc \notin LoopPCs \cup {"over", "bests"} /\ recording /\ ~quit =>
       /\ lastGame # "none"
       /\ IF custom THEN counted.custom = 1 ELSE counted.played = 1

\* What is shown and stored.
Storing ==
  /\ pc \notin LoopPCs \cup {"over", "bests", "alert_release", "alert_wait",
                             "alert_drain", "profile"} => "profile" \in stored
  /\ pc \notin {"menu", "teardown", "exit"} => "config" \notin stored
  /\ pc \in {"slide", "results", "commit", "unlock", "unlock_release",
             "unlock_wait", "config"} => ~quit
  /\ gotHigh => recording /\ fell /\ ~quit
               /\ pc \in {"slide", "results", "commit", "unlock", "unlock_release",
                          "unlock_wait", "config", "menu", "teardown", "exit"}
  /\ hisc => gotHigh /\ ~custom
  /\ MusicStops

IInv == TypeOK /\ Timing /\ Looping /\ Ending /\ Storing
-----------------------------------------------------------------------------
(* Steps that only wait: nothing but the keyboard, the flags and the place *)
(* in a dialogue changes.                                                  *)

Waits == {<<"esc_release", "esc_wait">>, <<"esc_wait", "esc_pausekey">>,
          <<"esc_pausekey", "esc_decide">>,
          <<"pause_release", "pause_wait">>, <<"pause_wait", "pause_drain">>,
          <<"space_release", "space_wait">>, <<"space_wait", "space_drain">>,
          <<"space_drain", "draw">>, <<"draw", "head">>,
          <<"alert_release", "alert_wait">>, <<"alert_wait", "alert_drain">>,
          <<"alert_drain", "profile">>,
          <<"results", "commit">>, <<"unlock", "unlock_release">>,
          <<"unlock_release", "unlock_wait">>, <<"unlock_wait", "config">>,
          <<"unlock", "config">>}

LEMMA Waiting ==
  ASSUME IInv,
         UNCHANGED <<close, playing, quit, dead, kind, clock, books, fell>>,
         pc' = pc \/ <<pc, pc'>> \in Waits,
         keys' \in SUBSET Keys, typed' \in BOOLEAN, flags' \in SUBSET ControlKeys
  PROVE  IInv'
PROOF
<1> USE DEF kind, clock, books
<1>1. TypeOK'
  BY DEF IInv, TypeOK, Waits, PCs, TickPCs, PausePCs, ReplayPCs, FinishPCs
<1>2. Timing'
  BY DEF IInv, TypeOK, Timing, Waits, Ended, PlayTimeComplete, LoopPCs, TickPCs,
         PausePCs, ReplayPCs, Looping
<1>3. Looping'
  BY DEF IInv, TypeOK, Looping, Waits, EscPCs, LoopPCs, TickPCs, PausePCs, ReplayPCs
<1>4. Ending'
  BY DEF IInv, Ending, Waits, LoopPCs, TickPCs, PausePCs, ReplayPCs
<1>5. Storing'
  BY DEF IInv, Storing, Waits, LoopPCs, TickPCs, PausePCs, ReplayPCs, MusicStops
<1> QED BY <1>1, <1>2, <1>3, <1>4, <1>5 DEF IInv
-----------------------------------------------------------------------------
(* The other steps, one lemma each.                                        *)

LEMMA SecondStep == IInv /\ Second => IInv'
PROOF
<1> SUFFICES ASSUME IInv, Second PROVE IInv'
  OBVIOUS
<1> USE DEF kind, clock, books, input
<1>1. TypeOK'
  BY DEF IInv, TypeOK, Timing, Second, PCs, TickPCs, PausePCs, ReplayPCs, FinishPCs
<1>2. Timing'
  BY DEF IInv, TypeOK, Timing, Looping, Ending, Second, Ended, PlayTimeComplete,
         EscPCs, LoopPCs, TickPCs, PausePCs, ReplayPCs
<1>3. Looping'
  BY DEF IInv, TypeOK, Looping, Ending, Second, EscPCs, LoopPCs, TickPCs, PausePCs,
         ReplayPCs
<1>4. Ending'
  BY DEF IInv, TypeOK, Looping, Ending, Second, EscPCs, LoopPCs, TickPCs, PausePCs,
         ReplayPCs
<1>5. Storing'
  BY DEF IInv, TypeOK, Looping, Ending, Storing, Second, MusicStops, LoopPCs, TickPCs,
         PausePCs, ReplayPCs
<1> QED BY <1>1, <1>2, <1>3, <1>4, <1>5 DEF IInv

LEMMA CloseStep == IInv /\ clickedCloseButton => IInv'
PROOF
<1> SUFFICES ASSUME IInv, clickedCloseButton PROVE IInv'
  OBVIOUS
<1> USE DEF kind, clock, books, input
<1>1. TypeOK'
  BY DEF IInv, TypeOK, Timing, clickedCloseButton, PCs, TickPCs, PausePCs, ReplayPCs,
         FinishPCs
<1>2. Timing'
  BY DEF IInv, TypeOK, Timing, Looping, Ending, clickedCloseButton, Ended,
         PlayTimeComplete, EscPCs, LoopPCs, TickPCs, PausePCs, ReplayPCs
<1>3. Looping'
  BY DEF IInv, TypeOK, Looping, Ending, clickedCloseButton, EscPCs, LoopPCs, TickPCs,
         PausePCs, ReplayPCs
<1>4. Ending'
  BY DEF IInv, TypeOK, Looping, Ending, clickedCloseButton, EscPCs, LoopPCs, TickPCs,
         PausePCs, ReplayPCs
<1>5. Storing'
  BY DEF IInv, TypeOK, Looping, Ending, Storing, clickedCloseButton, MusicStops,
         LoopPCs, TickPCs, PausePCs, ReplayPCs
<1> QED BY <1>1, <1>2, <1>3, <1>4, <1>5 DEF IInv

LEMMA TickStep == IInv /\ Tick => IInv'
PROOF
<1> SUFFICES ASSUME IInv, Tick PROVE IInv'
  OBVIOUS
<1> USE DEF kind, clock, books, input
<1>1. TypeOK'
  BY PlayAssumption DEF IInv, TypeOK, Timing, Tick, PCs, TickPCs, PausePCs, ReplayPCs,
         FinishPCs, Poll
<1>2. Timing'
  BY PlayAssumption DEF IInv, TypeOK, Timing, Looping, Ending, Tick, Ended,
         PlayTimeComplete, EscPCs, LoopPCs, TickPCs, PausePCs, ReplayPCs
<1>3. Looping'
  BY PlayAssumption DEF IInv, TypeOK, Looping, Ending, Tick, EscPCs, LoopPCs, TickPCs,
         PausePCs, ReplayPCs
<1>4. Ending'
  BY DEF IInv, TypeOK, Looping, Ending, Tick, EscPCs, LoopPCs, TickPCs, PausePCs,
         ReplayPCs
<1>5. Storing'
  BY DEF IInv, TypeOK, Looping, Ending, Storing, Tick, MusicStops, LoopPCs, TickPCs,
         PausePCs, ReplayPCs
<1> QED BY <1>1, <1>2, <1>3, <1>4, <1>5 DEF IInv

LEMMA ShotStep == IInv /\ ShotDone => IInv'
PROOF
<1> SUFFICES ASSUME IInv, ShotDone PROVE IInv'
  OBVIOUS
<1> USE DEF kind, clock, books, input
<1>1. TypeOK'
  BY DEF IInv, TypeOK, Timing, ShotDone, Rebased, At, PCs, TickPCs, PausePCs,
         ReplayPCs, FinishPCs
<1>2. Timing'
  BY DEF IInv, TypeOK, Timing, Looping, Ending, ShotDone, Rebased, At, Ended,
         PlayTimeComplete, EscPCs, LoopPCs, TickPCs, PausePCs, ReplayPCs
<1>3. Looping'
  BY DEF IInv, TypeOK, Looping, Ending, ShotDone, Rebased, At, EscPCs, LoopPCs,
         TickPCs, PausePCs, ReplayPCs
<1>4. Ending'
  BY DEF IInv, TypeOK, Looping, Ending, ShotDone, Rebased, At, EscPCs, LoopPCs,
         TickPCs, PausePCs, ReplayPCs
<1>5. Storing'
  BY DEF IInv, TypeOK, Looping, Ending, Storing, ShotDone, Rebased, At, MusicStops,
         LoopPCs, TickPCs, PausePCs, ReplayPCs
<1> QED BY <1>1, <1>2, <1>3, <1>4, <1>5 DEF IInv

LEMMA FrameStep == IInv /\ Frame => IInv'
PROOF
<1> SUFFICES ASSUME IInv, Frame PROVE IInv'
  OBVIOUS
<1> USE DEF kind, clock, books, input
<1>1. TypeOK'
  BY PlayAssumption DEF IInv, TypeOK, Timing, Frame, NextDead, At, PCs, TickPCs,
         PausePCs, ReplayPCs, FinishPCs
<1>2. Timing'
  BY PlayAssumption DEF IInv, TypeOK, Timing, Looping, Ending, Frame, NextDead, At,
         Ended, PlayTimeComplete, EscPCs, LoopPCs, TickPCs, PausePCs, ReplayPCs
<1>3. Looping'
  BY PlayAssumption DEF IInv, TypeOK, Looping, Ending, Frame, NextDead, At, EscPCs,
         LoopPCs, TickPCs, PausePCs, ReplayPCs
<1>4. Ending'
  BY DEF IInv, TypeOK, Looping, Ending, Frame, NextDead, At, EscPCs, LoopPCs, TickPCs,
         PausePCs, ReplayPCs
<1>5. Storing'
  BY DEF IInv, TypeOK, Looping, Ending, Storing, Frame, NextDead, At, MusicStops,
         LoopPCs, TickPCs, PausePCs, ReplayPCs
<1> QED BY <1>1, <1>2, <1>3, <1>4, <1>5 DEF IInv

LEMMA EscapeStep == IInv /\ EscapeKey => IInv'
PROOF
<1> SUFFICES ASSUME IInv, EscapeKey PROVE IInv'
  OBVIOUS
<1> USE DEF kind, clock, books, input
<1>1. TypeOK'
  <2>1. pc' \in PCs
    BY DEF IInv, TypeOK, EscapeKey, PCs, TickPCs, PausePCs, FinishPCs
  <2>2. playing' \in BOOLEAN
    BY DEF IInv, EscapeKey, TypeOK
  <2>3. flags' \in SUBSET ControlKeys
    BY DEF IInv, EscapeKey, TypeOK, Poll
  <2> QED BY <2>1, <2>2, <2>3 DEF IInv, TypeOK, EscapeKey
<1>2. Timing'
  BY DEF IInv, TypeOK, Timing, Looping, Ending, EscapeKey, Ended, PlayTimeComplete,
         EscPCs, LoopPCs, TickPCs, PausePCs, ReplayPCs
<1>3. Looping'
  BY DEF IInv, TypeOK, Looping, Ending, EscapeKey, EscPCs, LoopPCs, TickPCs, PausePCs,
         ReplayPCs
<1>4. Ending'
  BY DEF IInv, TypeOK, Looping, Ending, EscapeKey, EscPCs, LoopPCs, TickPCs, PausePCs,
         ReplayPCs
<1>5. Storing'
  BY DEF IInv, TypeOK, Looping, Ending, Storing, EscapeKey, MusicStops, LoopPCs,
         TickPCs, PausePCs, ReplayPCs
<1> QED BY <1>1, <1>2, <1>3, <1>4, <1>5 DEF IInv

LEMMA EscDecideStep == IInv /\ EscDecide => IInv'
PROOF
<1> SUFFICES ASSUME IInv, EscDecide PROVE IInv'
  OBVIOUS
<1> USE DEF kind, clock, books, input
<1>1. TypeOK'
  <2>1. pc' \in PCs
    BY DEF IInv, TypeOK, EscDecide, At, PCs, TickPCs, PausePCs, FinishPCs
  <2>2. typed' \in BOOLEAN
    BY DEF IInv, EscDecide
  <2>3. quit' \in BOOLEAN /\ playing' \in BOOLEAN
    BY DEF IInv, EscDecide, QuitFromPause, TypeOK
  <2>4. startTime' \in Nat
    BY DEF IInv, EscDecide, Rebased, Timing, TypeOK
  <2>5. endTime' \in Nat
    BY DEF IInv, EscDecide, QuitFromPause, TypeOK
  <2>6. counted' \in [{"played", "custom", "quit"} -> Nat]
    BY DEF IInv, EscDecide, QuitFromPause, TypeOK
  <2> QED BY <2>1, <2>2, <2>3, <2>4, <2>5, <2>6 DEF IInv, TypeOK, EscDecide
<1>2. Timing'
  BY DEF IInv, TypeOK, Timing, Looping, Ending, EscDecide, QuitFromPause, Rebased, At,
         Ended, PlayTimeComplete, EscPCs, LoopPCs, TickPCs, PausePCs, ReplayPCs
<1>3. Looping'
  BY DEF IInv, TypeOK, Looping, Ending, EscDecide, QuitFromPause, Rebased, At, EscPCs,
         LoopPCs, TickPCs, PausePCs, ReplayPCs
<1>4. Ending'
  BY DEF IInv, TypeOK, Looping, Ending, EscDecide, QuitFromPause, Rebased, At, EscPCs,
         LoopPCs, TickPCs, PausePCs, ReplayPCs
<1>5. Storing'
  BY DEF IInv, TypeOK, Looping, Ending, Storing, EscDecide, QuitFromPause, Rebased,
         At, MusicStops, LoopPCs, TickPCs, PausePCs, ReplayPCs
<1> QED BY <1>1, <1>2, <1>3, <1>4, <1>5 DEF IInv

LEMMA PauseStep == IInv /\ PauseKey => IInv'
PROOF
<1> SUFFICES ASSUME IInv, PauseKey PROVE IInv'
  OBVIOUS
<1> USE DEF kind, clock, books, input
<1>1. TypeOK'
  BY DEF IInv, TypeOK, Timing, PauseKey, PCs, TickPCs, PausePCs, ReplayPCs, FinishPCs,
         Poll
<1>2. Timing'
  BY DEF IInv, TypeOK, Timing, Looping, Ending, PauseKey, Ended, PlayTimeComplete,
         EscPCs, LoopPCs, TickPCs, PausePCs, ReplayPCs
<1>3. Looping'
  BY DEF IInv, TypeOK, Looping, Ending, PauseKey, EscPCs, LoopPCs, TickPCs, PausePCs,
         ReplayPCs
<1>4. Ending'
  BY DEF IInv, TypeOK, Looping, Ending, PauseKey, EscPCs, LoopPCs, TickPCs, PausePCs,
         ReplayPCs
<1>5. Storing'
  BY DEF IInv, TypeOK, Looping, Ending, Storing, PauseKey, MusicStops, LoopPCs,
         TickPCs, PausePCs, ReplayPCs
<1> QED BY <1>1, <1>2, <1>3, <1>4, <1>5 DEF IInv

LEMMA ResumeStep == IInv /\ PauseDrain => IInv'
PROOF
<1> SUFFICES ASSUME IInv, PauseDrain PROVE IInv'
  OBVIOUS
<1> USE DEF kind, clock, books, input
<1>1. CASE Keep("pause_drain")
  BY <1>1, Waiting DEF Keep, Poll, IInv, TypeOK
<1>2. CASE /\ At("pause_drain", "draw")
           /\ Resume
           /\ UNCHANGED <<input, flags, playing, quit, dead, kind, now, endTime,
                          pauseTime, seconds, active, books, fell>>
  <2>1. TypeOK'
    <3>1. pc' \in PCs
      BY <1>2 DEF At, PCs, TickPCs
    <3>2. startTime' \in Nat
      BY <1>2 DEF IInv, TypeOK, Timing, Resume, Rebased
    <3> QED BY <1>2, <3>1, <3>2 DEF IInv, TypeOK
  <2>2. Timing'
    BY <1>2 DEF IInv, TypeOK, Timing, Looping, At, Resume, Rebased, Ended, PlayTimeComplete,
       LoopPCs, TickPCs, PausePCs, ReplayPCs
  <2>3. Looping'
    BY <1>2 DEF IInv, Looping, At, EscPCs, LoopPCs, TickPCs, PausePCs, ReplayPCs
  <2>4. Ending'
    BY <1>2 DEF IInv, Ending, At, LoopPCs, TickPCs, PausePCs, ReplayPCs
  <2>5. Storing'
    BY <1>2 DEF IInv, Storing, At, MusicStops, LoopPCs, TickPCs, PausePCs, ReplayPCs
  <2> QED BY <2>1, <2>2, <2>3, <2>4, <2>5 DEF IInv
<1> QED BY <1>1, <1>2 DEF PauseDrain

LEMMA TransportStep == IInv /\ Transport => IInv'
PROOF
<1> SUFFICES ASSUME IInv, Transport PROVE IInv'
  OBVIOUS
<1> USE DEF kind, clock, books, input
<1>1. TypeOK'
  BY DEF IInv, TypeOK, Timing, Transport, PCs, TickPCs, PausePCs, ReplayPCs, FinishPCs
<1>2. Timing'
  BY DEF IInv, TypeOK, Timing, Looping, Ending, Transport, Ended, PlayTimeComplete,
         EscPCs, LoopPCs, TickPCs, PausePCs, ReplayPCs
<1>3. Looping'
  BY DEF IInv, TypeOK, Looping, Ending, Transport, EscPCs, LoopPCs, TickPCs, PausePCs,
         ReplayPCs
<1>4. Ending'
  BY DEF IInv, TypeOK, Looping, Ending, Transport, EscPCs, LoopPCs, TickPCs, PausePCs,
         ReplayPCs
<1>5. Storing'
  BY DEF IInv, TypeOK, Looping, Ending, Storing, Transport, MusicStops, LoopPCs,
         TickPCs, PausePCs, ReplayPCs
<1> QED BY <1>1, <1>2, <1>3, <1>4, <1>5 DEF IInv

LEMMA LoopEndsStep == IInv /\ LoopEnds => IInv'
PROOF
<1> SUFFICES ASSUME IInv, LoopEnds PROVE IInv'
  OBVIOUS
<1> USE DEF kind, clock, books, input
<1>1. TypeOK'
  BY DEF IInv, TypeOK, Timing, LoopEnds, At, Leave, PCs, TickPCs, PausePCs, ReplayPCs,
         FinishPCs
<1>2. Timing'
  BY DEF IInv, TypeOK, Timing, Looping, Ending, LoopEnds, At, Leave, Ended,
         PlayTimeComplete, EscPCs, LoopPCs, TickPCs, PausePCs, ReplayPCs
<1>3. Looping'
  BY DEF IInv, TypeOK, Looping, Ending, LoopEnds, At, Leave, EscPCs, LoopPCs, TickPCs,
         PausePCs, ReplayPCs
<1>4. Ending'
  BY DEF IInv, TypeOK, Looping, Ending, LoopEnds, At, Leave, EscPCs, LoopPCs, TickPCs,
         PausePCs, ReplayPCs
<1>5. Storing'
  BY DEF IInv, TypeOK, Looping, Ending, Storing, LoopEnds, At, Leave, MusicStops,
         LoopPCs, TickPCs, PausePCs, ReplayPCs
<1> QED BY <1>1, <1>2, <1>3, <1>4, <1>5 DEF IInv

LEMMA OverStep == IInv /\ Over => IInv'
PROOF
<1> SUFFICES ASSUME IInv, Over PROVE IInv'
  OBVIOUS
<1> USE DEF kind, clock, books, input
<1>1. TypeOK'
  BY DEF IInv, TypeOK, Timing, Over, At, PCs, TickPCs, PausePCs, ReplayPCs, FinishPCs
<1>2. Timing'
  BY DEF IInv, TypeOK, Timing, Looping, Ending, Over, At, Ended, PlayTimeComplete,
         EscPCs, LoopPCs, TickPCs, PausePCs, ReplayPCs
<1>3. Looping'
  BY DEF IInv, TypeOK, Looping, Ending, Over, At, EscPCs, LoopPCs, TickPCs, PausePCs,
         ReplayPCs
<1>4. Ending'
  BY DEF IInv, TypeOK, Looping, Ending, Over, At, EscPCs, LoopPCs, TickPCs, PausePCs,
         ReplayPCs
<1>5. Storing'
  BY DEF IInv, TypeOK, Looping, Ending, Storing, Over, At, MusicStops, LoopPCs,
         TickPCs, PausePCs, ReplayPCs
<1> QED BY <1>1, <1>2, <1>3, <1>4, <1>5 DEF IInv

LEMMA BestsStep == IInv /\ Bests => IInv'
PROOF
<1> SUFFICES ASSUME IInv, Bests PROVE IInv'
  OBVIOUS
<1> USE DEF kind, clock, books, input
<1>1. TypeOK'
  BY DEF IInv, TypeOK, Timing, Bests, CountsAsPlayed, PCs, TickPCs, PausePCs,
         ReplayPCs, FinishPCs, Poll
<1>2. Timing'
  BY DEF IInv, TypeOK, Timing, Looping, Ending, Bests, CountsAsPlayed, Ended,
         PlayTimeComplete, EscPCs, LoopPCs, TickPCs, PausePCs, ReplayPCs
<1>3. Looping'
  BY DEF IInv, TypeOK, Looping, Ending, Bests, CountsAsPlayed, EscPCs, LoopPCs,
         TickPCs, PausePCs, ReplayPCs
<1>4. Ending'
  BY DEF IInv, TypeOK, Looping, Ending, Bests, CountsAsPlayed, EscPCs, LoopPCs,
         TickPCs, PausePCs, ReplayPCs
<1>5. Storing'
  BY DEF IInv, TypeOK, Looping, Ending, Storing, Bests, CountsAsPlayed, MusicStops,
         LoopPCs, TickPCs, PausePCs, ReplayPCs
<1> QED BY <1>1, <1>2, <1>3, <1>4, <1>5 DEF IInv

LEMMA ProfileStep == IInv /\ SaveProfile => IInv'
PROOF
<1> SUFFICES ASSUME IInv, SaveProfile PROVE IInv'
  OBVIOUS
<1> USE DEF kind, clock, books, input
<1>1. TypeOK'
  BY DEF IInv, TypeOK, Timing, SaveProfile, At, PCs, TickPCs, PausePCs, ReplayPCs,
         FinishPCs
<1>2. Timing'
  BY DEF IInv, TypeOK, Timing, Looping, Ending, SaveProfile, At, Ended,
         PlayTimeComplete, EscPCs, LoopPCs, TickPCs, PausePCs, ReplayPCs
<1>3. Looping'
  BY DEF IInv, TypeOK, Looping, Ending, SaveProfile, At, EscPCs, LoopPCs, TickPCs,
         PausePCs, ReplayPCs
<1>4. Ending'
  BY DEF IInv, TypeOK, Looping, Ending, SaveProfile, At, EscPCs, LoopPCs, TickPCs,
         PausePCs, ReplayPCs
<1>5. Storing'
  BY DEF IInv, TypeOK, Looping, Ending, Storing, SaveProfile, At, MusicStops, LoopPCs,
         TickPCs, PausePCs, ReplayPCs
<1> QED BY <1>1, <1>2, <1>3, <1>4, <1>5 DEF IInv

LEMMA GateStep == IInv /\ Gate => IInv'
PROOF
<1> SUFFICES ASSUME IInv, Gate PROVE IInv'
  OBVIOUS
<1> USE DEF kind, clock, books, input
<1>1. TypeOK'
  BY DEF IInv, TypeOK, Timing, Gate, ShowsResults, At, PCs, TickPCs, PausePCs,
         ReplayPCs, FinishPCs
<1>2. Timing'
  BY DEF IInv, TypeOK, Timing, Looping, Ending, Gate, ShowsResults, At, Ended,
         PlayTimeComplete, EscPCs, LoopPCs, TickPCs, PausePCs, ReplayPCs
<1>3. Looping'
  BY DEF IInv, TypeOK, Looping, Ending, Gate, ShowsResults, At, EscPCs, LoopPCs,
         TickPCs, PausePCs, ReplayPCs
<1>4. Ending'
  BY DEF IInv, TypeOK, Looping, Ending, Gate, ShowsResults, At, EscPCs, LoopPCs,
         TickPCs, PausePCs, ReplayPCs
<1>5. Storing'
  BY DEF IInv, TypeOK, Looping, Ending, Storing, Gate, ShowsResults, At, MusicStops,
         LoopPCs, TickPCs, PausePCs, ReplayPCs
<1> QED BY <1>1, <1>2, <1>3, <1>4, <1>5 DEF IInv

LEMMA SlideStep == IInv /\ Slide => IInv'
PROOF
<1> SUFFICES ASSUME IInv, Slide PROVE IInv'
  OBVIOUS
<1> USE DEF kind, clock, books, input
<1>1. TypeOK'
  <2>1. pc' \in PCs
    BY DEF IInv, TypeOK, Slide, At, PCs, TickPCs, PausePCs, FinishPCs
  <2>2. typed' \in BOOLEAN
    BY PlayAssumption DEF IInv, Slide
  <2>3. dead' \in 0 .. DeathCap + DeathStep
    BY PlayAssumption DEF IInv, Slide
  <2> QED BY <2>1, <2>2, <2>3 DEF IInv, TypeOK, Slide
<1>2. Timing'
  BY PlayAssumption DEF IInv, TypeOK, Timing, Looping, Ending, Slide, At, Ended,
         PlayTimeComplete, EscPCs, LoopPCs, TickPCs, PausePCs, ReplayPCs
<1>3. Looping'
  BY PlayAssumption DEF IInv, TypeOK, Looping, Ending, Slide, At, EscPCs, LoopPCs,
         TickPCs, PausePCs, ReplayPCs
<1>4. Ending'
  BY DEF IInv, TypeOK, Looping, Ending, Slide, At, EscPCs, LoopPCs, TickPCs, PausePCs,
         ReplayPCs
<1>5. Storing'
  BY DEF IInv, TypeOK, Looping, Ending, Storing, Slide, At, MusicStops, LoopPCs,
         TickPCs, PausePCs, ReplayPCs
<1> QED BY <1>1, <1>2, <1>3, <1>4, <1>5 DEF IInv

LEMMA CloseResultsStep == IInv /\ CloseResults => IInv'
PROOF
<1> SUFFICES ASSUME IInv, CloseResults PROVE IInv'
  OBVIOUS
<1> USE DEF kind, clock, books, input
<1>1. TypeOK'
  <2>1. pc' \in PCs
    BY DEF IInv, TypeOK, CloseResults, At, PCs, TickPCs, PausePCs, FinishPCs
  <2>2. again' \in BOOLEAN
    BY DEF IInv, CloseResults
  <2> QED BY <2>1, <2>2 DEF IInv, TypeOK, CloseResults
<1>2. Timing'
  BY DEF IInv, TypeOK, Timing, Looping, Ending, CloseResults, At, Ended,
         PlayTimeComplete, EscPCs, LoopPCs, TickPCs, PausePCs, ReplayPCs
<1>3. Looping'
  BY DEF IInv, TypeOK, Looping, Ending, CloseResults, At, EscPCs, LoopPCs, TickPCs,
         PausePCs, ReplayPCs
<1>4. Ending'
  BY DEF IInv, TypeOK, Looping, Ending, CloseResults, At, EscPCs, LoopPCs, TickPCs,
         PausePCs, ReplayPCs
<1>5. Storing'
  BY DEF IInv, TypeOK, Looping, Ending, Storing, CloseResults, At, MusicStops,
         LoopPCs, TickPCs, PausePCs, ReplayPCs
<1> QED BY <1>1, <1>2, <1>3, <1>4, <1>5 DEF IInv

LEMMA ResultsStep == IInv /\ ResultsRound => IInv'
PROOF
<1> SUFFICES ASSUME IInv, ResultsRound PROVE IInv'
  OBVIOUS
<1> USE DEF kind, clock, books, input
<1>1. TypeOK'
  <2>1. pc' \in PCs
    BY DEF IInv, TypeOK, ResultsRound, PCs, TickPCs, PausePCs, FinishPCs
  <2>2. typed' \in BOOLEAN
    BY DEF IInv, ResultsRound, TypeOK
  <2>3. flags' \in SUBSET ControlKeys
    BY DEF IInv, ResultsRound, Poll, TypeOK
  <2>4. done' \in 0 .. 2
    BY DEF IInv, ResultsRound, TypeOK
  <2> QED BY <2>1, <2>2, <2>3, <2>4 DEF IInv, TypeOK, ResultsRound
<1>2. Timing'
  BY DEF IInv, TypeOK, Timing, Looping, Ending, ResultsRound, Ended, PlayTimeComplete,
         EscPCs, LoopPCs, TickPCs, PausePCs, ReplayPCs
<1>3. Looping'
  BY DEF IInv, TypeOK, Looping, Ending, ResultsRound, EscPCs, LoopPCs, TickPCs,
         PausePCs, ReplayPCs
<1>4. Ending'
  BY DEF IInv, TypeOK, Looping, Ending, ResultsRound, EscPCs, LoopPCs, TickPCs,
         PausePCs, ReplayPCs
<1>5. Storing'
  BY DEF IInv, TypeOK, Looping, Ending, Storing, ResultsRound, MusicStops, LoopPCs,
         TickPCs, PausePCs, ReplayPCs
<1> QED BY <1>1, <1>2, <1>3, <1>4, <1>5 DEF IInv

LEMMA CommitStep == IInv /\ Commit => IInv'
PROOF
<1> SUFFICES ASSUME IInv, Commit PROVE IInv'
  OBVIOUS
<1> USE DEF kind, clock, books, input
<1>1. TypeOK'
  BY DEF IInv, TypeOK, Timing, Commit, At, PCs, TickPCs, PausePCs, ReplayPCs,
         FinishPCs
<1>2. Timing'
  BY DEF IInv, TypeOK, Timing, Looping, Ending, Commit, At, Ended, PlayTimeComplete,
         EscPCs, LoopPCs, TickPCs, PausePCs, ReplayPCs
<1>3. Looping'
  BY DEF IInv, TypeOK, Looping, Ending, Commit, At, EscPCs, LoopPCs, TickPCs,
         PausePCs, ReplayPCs
<1>4. Ending'
  BY DEF IInv, TypeOK, Looping, Ending, Commit, At, EscPCs, LoopPCs, TickPCs,
         PausePCs, ReplayPCs
<1>5. Storing'
  BY DEF IInv, TypeOK, Looping, Ending, Storing, Commit, At, MusicStops, LoopPCs,
         TickPCs, PausePCs, ReplayPCs
<1> QED BY <1>1, <1>2, <1>3, <1>4, <1>5 DEF IInv

LEMMA ConfigStep == IInv /\ SaveConfig => IInv'
PROOF
<1> SUFFICES ASSUME IInv, SaveConfig PROVE IInv'
  OBVIOUS
<1> USE DEF kind, clock, books, input
<1>1. TypeOK'
  <2>1. pc' \in PCs
    BY DEF IInv, TypeOK, SaveConfig, At, PCs, TickPCs, PausePCs, FinishPCs
  <2>2. music' \in BOOLEAN
    BY DEF IInv, SaveConfig
  <2>3. stored' \in SUBSET {"profile", "config"}
    BY DEF IInv, SaveConfig, TypeOK
  <2> QED BY <2>1, <2>2, <2>3 DEF IInv, TypeOK, SaveConfig
<1>2. Timing'
  BY DEF IInv, TypeOK, Timing, Looping, Ending, SaveConfig, At, Ended,
         PlayTimeComplete, EscPCs, LoopPCs, TickPCs, PausePCs, ReplayPCs
<1>3. Looping'
  BY DEF IInv, TypeOK, Looping, Ending, SaveConfig, At, EscPCs, LoopPCs, TickPCs,
         PausePCs, ReplayPCs
<1>4. Ending'
  BY DEF IInv, TypeOK, Looping, Ending, SaveConfig, At, EscPCs, LoopPCs, TickPCs,
         PausePCs, ReplayPCs
<1>5. Storing'
  BY DEF IInv, TypeOK, Looping, Ending, Storing, SaveConfig, At, MusicStops, LoopPCs,
         TickPCs, PausePCs, ReplayPCs
<1> QED BY <1>1, <1>2, <1>3, <1>4, <1>5 DEF IInv

LEMMA MenuStep == IInv /\ ReplayMenu => IInv'
PROOF
<1> SUFFICES ASSUME IInv, ReplayMenu PROVE IInv'
  OBVIOUS
<1> USE DEF kind, clock, books, input
<1>1. TypeOK'
  BY DEF IInv, TypeOK, Timing, ReplayMenu, At, PCs, TickPCs, PausePCs, ReplayPCs,
         FinishPCs
<1>2. Timing'
  BY DEF IInv, TypeOK, Timing, Looping, Ending, ReplayMenu, At, Ended,
         PlayTimeComplete, EscPCs, LoopPCs, TickPCs, PausePCs, ReplayPCs
<1>3. Looping'
  BY DEF IInv, TypeOK, Looping, Ending, ReplayMenu, At, EscPCs, LoopPCs, TickPCs,
         PausePCs, ReplayPCs
<1>4. Ending'
  BY DEF IInv, TypeOK, Looping, Ending, ReplayMenu, At, EscPCs, LoopPCs, TickPCs,
         PausePCs, ReplayPCs
<1>5. Storing'
  BY DEF IInv, TypeOK, Looping, Ending, Storing, ReplayMenu, At, MusicStops, LoopPCs,
         TickPCs, PausePCs, ReplayPCs
<1> QED BY <1>1, <1>2, <1>3, <1>4, <1>5 DEF IInv

LEMMA TeardownStep == IInv /\ Teardown => IInv'
PROOF
<1> SUFFICES ASSUME IInv, Teardown PROVE IInv'
  OBVIOUS
<1> USE DEF kind, clock, books, input
<1>1. TypeOK'
  <2>1. pc' \in PCs
    BY DEF IInv, TypeOK, Teardown, At, PCs, TickPCs, PausePCs, FinishPCs
  <2>2. music' \in BOOLEAN
    BY DEF IInv, Teardown, StopMusic
  <2> QED BY <2>1, <2>2 DEF IInv, TypeOK, Teardown
<1>2. Timing'
  BY DEF IInv, TypeOK, Timing, Looping, Ending, Teardown, StopMusic, At, Ended,
         PlayTimeComplete, EscPCs, LoopPCs, TickPCs, PausePCs, ReplayPCs
<1>3. Looping'
  BY DEF IInv, TypeOK, Looping, Ending, Teardown, StopMusic, At, EscPCs, LoopPCs,
         TickPCs, PausePCs, ReplayPCs
<1>4. Ending'
  BY DEF IInv, TypeOK, Looping, Ending, Teardown, StopMusic, At, EscPCs, LoopPCs,
         TickPCs, PausePCs, ReplayPCs
<1>5. Storing'
  BY DEF IInv, TypeOK, Looping, Ending, Storing, Teardown, StopMusic, At, MusicStops,
         LoopPCs, TickPCs, PausePCs, ReplayPCs
<1> QED BY <1>1, <1>2, <1>3, <1>4, <1>5 DEF IInv

-----------------------------------------------------------------------------
(* The steps that are waits, or the keyboard's.                            *)

LEMMA KeyboardStep == IInv /\ (Press \/ Release) => IInv'
PROOF
<1> SUFFICES ASSUME IInv, Press \/ Release PROVE IInv'
  OBVIOUS
<1>1. typed' \in BOOLEAN
  BY DEF IInv, TypeOK, Press, Release
<1>2. keys' \in SUBSET Keys
  BY DEF IInv, TypeOK, Press, Release
<1>3. flags' \in SUBSET ControlKeys
  BY DEF IInv, TypeOK, Press, Release
<1> QED BY <1>1, <1>2, <1>3, Waiting DEF Press, Release, kind, clock, books

\* A wait either polls, or moves on and may clear the typing buffer.
LEMMA KeepStep == ASSUME NEW p, IInv, Keep(p) PROVE IInv'
PROOF
<1>1. keys' \in SUBSET Keys /\ typed' \in BOOLEAN /\ flags' \in SUBSET ControlKeys
  BY DEF IInv, TypeOK, Keep, Poll, input
<1> QED BY <1>1, Waiting DEF Keep, input

LEMMA LeaveStep ==
  ASSUME NEW p, NEW q, <<p, q>> \in Waits, IInv, Leave(p, q),
         typed' \in BOOLEAN
  PROVE  IInv'
PROOF
<1>1. keys' \in SUBSET Keys /\ flags' \in SUBSET ControlKeys
  BY DEF IInv, TypeOK, Leave
<1>2. <<pc, pc'>> \in Waits
  BY DEF Leave, At
<1> QED BY <1>1, <1>2, Waiting DEF Leave, kind

LEMMA StayTypedStep ==
  ASSUME NEW p, NEW q, <<p, q>> \in Waits, IInv, Leave(p, q), UNCHANGED typed
  PROVE  IInv'
PROOF
<1>1. typed' \in BOOLEAN
  BY DEF IInv, TypeOK
<1> QED BY <1>1, LeaveStep

LEMMA PollStep ==
  ASSUME NEW p, NEW q, <<p, q>> \in Waits, IInv, At(p, q), Poll,
         UNCHANGED <<input, playing, quit, dead, kind, clock, books, fell>>
  PROVE  IInv'
PROOF
<1>1. keys' \in SUBSET Keys /\ typed' \in BOOLEAN /\ flags' \in SUBSET ControlKeys
  BY DEF IInv, TypeOK, Poll, input
<1>2. <<pc, pc'>> \in Waits
  BY DEF At
<1> QED BY <1>1, <1>2, Waiting DEF input

LEMMA DialogueStep ==
  IInv /\ (EscRelease \/ EscWait \/ EscPauseKey \/ PauseRelease \/ PauseWait) => IInv'
PROOF
<1> SUFFICES ASSUME IInv PROVE EscRelease \/ EscWait \/ EscPauseKey \/ PauseRelease
                               \/ PauseWait => IInv'
  OBVIOUS
<1>1. EscRelease => IInv'
  <2>1. Keep("esc_release") => IInv'
    BY KeepStep
  <2>2. ASSUME Leave("esc_release", "esc_wait"), typed' = FALSE
        PROVE  IInv'
    <3>1. typed' \in BOOLEAN
      BY <2>2
    <3>2. <<"esc_release", "esc_wait">> \in Waits
      BY DEF Waits
    <3>3. Leave("esc_release", "esc_wait")
      BY <2>2
    <3> QED BY <3>1, <3>2, <3>3, LeaveStep
  <2> QED BY <2>1, <2>2 DEF EscRelease
<1>2. EscWait => IInv'
  <2>1. Keep("esc_wait") => IInv'
    BY KeepStep
  <2>2. Leave("esc_wait", "esc_pausekey") /\ UNCHANGED typed => IInv'
    BY StayTypedStep DEF Waits
  <2> QED BY <2>1, <2>2 DEF EscWait
<1>3. EscPauseKey => IInv'
  <2>1. Keep("esc_pausekey") => IInv'
    BY KeepStep
  <2>2. Leave("esc_pausekey", "esc_decide") /\ UNCHANGED typed => IInv'
    BY StayTypedStep DEF Waits
  <2> QED BY <2>1, <2>2 DEF EscPauseKey
<1>4. PauseRelease => IInv'
  <2>1. Keep("pause_release") => IInv'
    BY KeepStep
  <2>2. ASSUME Leave("pause_release", "pause_wait"), typed' = FALSE
        PROVE  IInv'
    <3>1. typed' \in BOOLEAN
      BY <2>2
    <3>2. <<"pause_release", "pause_wait">> \in Waits
      BY DEF Waits
    <3>3. Leave("pause_release", "pause_wait")
      BY <2>2
    <3> QED BY <3>1, <3>2, <3>3, LeaveStep
  <2> QED BY <2>1, <2>2 DEF PauseRelease
<1>5. PauseWait => IInv'
  <2>1. Keep("pause_wait") => IInv'
    BY KeepStep
  <2>2. /\ At("pause_wait", "pause_drain") /\ Poll
        /\ UNCHANGED <<input, playing, quit, dead, kind, clock, books, fell>>
        => IInv'
    BY PollStep DEF Waits
  <2> QED BY <2>1, <2>2 DEF PauseWait
<1> QED BY <1>1, <1>2, <1>3, <1>4, <1>5

LEMMA NoticeStep ==
  IInv /\ (SpacePause \/ Draw \/ Alert \/ ResultsDone \/ Unlock) => IInv'
PROOF
<1> SUFFICES ASSUME IInv PROVE SpacePause \/ Draw \/ Alert \/ ResultsDone \/ Unlock => IInv'
  OBVIOUS
<1>1. SpacePause => IInv'
  BY StayTypedStep DEF SpacePause, Waits
<1>2. Draw => IInv'
  BY StayTypedStep DEF Draw, Waits
<1>3. Alert => IInv'
  <2>1. Keep("alert_release") => IInv'
    BY KeepStep
  <2>2. Keep("alert_wait") => IInv'
    BY KeepStep
  <2>3. Keep("alert_drain") => IInv'
    BY KeepStep
  <2>4. ASSUME Leave("alert_release", "alert_wait"), typed' = FALSE
        PROVE  IInv'
    <3>1. typed' \in BOOLEAN
      BY <2>4
    <3>2. <<"alert_release", "alert_wait">> \in Waits
      BY DEF Waits
    <3>3. Leave("alert_release", "alert_wait")
      BY <2>4
    <3> QED BY <3>1, <3>2, <3>3, LeaveStep
  <2>5. ASSUME Leave("alert_drain", "profile"), typed' = FALSE
        PROVE  IInv'
    <3>1. typed' \in BOOLEAN
      BY <2>5
    <3>2. <<"alert_drain", "profile">> \in Waits
      BY DEF Waits
    <3>3. Leave("alert_drain", "profile")
      BY <2>5
    <3> QED BY <3>1, <3>2, <3>3, LeaveStep
  <2>6. /\ At("alert_wait", "alert_drain") /\ Poll
        /\ UNCHANGED <<input, playing, quit, dead, kind, clock, books, fell>>
        => IInv'
    BY PollStep DEF Waits
  <2> QED BY <2>1, <2>2, <2>3, <2>4, <2>5, <2>6 DEF Alert
<1>4. ResultsDone => IInv'
  BY StayTypedStep DEF ResultsDone, Waits
<1>5. Unlock => IInv'
  BY StayTypedStep DEF Unlock, Waits
<1> QED BY <1>1, <1>2, <1>3, <1>4, <1>5

LEMMA StutterStep == IInv /\ UNCHANGED vars => IInv'
PROOF
<1> SUFFICES ASSUME IInv, UNCHANGED vars PROVE IInv'
  OBVIOUS
<1>1. keys' \in SUBSET Keys /\ typed' \in BOOLEAN /\ flags' \in SUBSET ControlKeys
  BY DEF IInv, TypeOK, vars
<1> QED BY <1>1, Waiting DEF vars, kind, clock, books

-----------------------------------------------------------------------------

LEMMA Start == Init => IInv
PROOF
<1> SUFFICES ASSUME Init PROVE IInv
  OBVIOUS
<1>1. TypeOK
  <2>1. pc \in PCs /\ dead \in 0 .. DeathCap + DeathStep /\ done \in 0 .. 2
    BY PlayAssumption DEF Init, PCs, TickPCs
  <2>2. counted \in [{"played", "custom", "quit"} -> Nat]
    BY DEF Init
  <2>3. /\ typed \in BOOLEAN /\ close \in BOOLEAN /\ playing \in BOOLEAN /\ quit \in BOOLEAN
        /\ gotHigh \in BOOLEAN /\ hisc \in BOOLEAN /\ music \in BOOLEAN
        /\ again \in BOOLEAN /\ fell \in BOOLEAN
    BY DEF Init
  <2>4. /\ keys \in SUBSET Keys /\ flags \in SUBSET ControlKeys
        /\ lastGame \in {"none", "written", "failed"}
        /\ stored \in SUBSET {"profile", "config"}
    BY DEF Init
  <2>5. /\ recording \in BOOLEAN /\ custom \in BOOLEAN /\ guest \in BOOLEAN
        /\ now \in Nat /\ startTime \in Nat /\ endTime \in Nat /\ pauseTime \in Nat
        /\ seconds \in Nat /\ active \in Nat
    BY DEF Init
  <2> QED BY <2>1, <2>2, <2>3, <2>4, <2>5 DEF TypeOK
<1>2. Timing
  BY DEF Init, Timing, Ended, PlayTimeComplete, PausePCs
<1>3. Looping
  BY DEF Init, Looping, EscPCs, ReplayPCs
<1>4. Ending
  BY DEF Init, Ending, LoopPCs, TickPCs
<1>5. Storing
  BY DEF Init, Storing, MusicStops, LoopPCs, TickPCs
<1> QED BY <1>1, <1>2, <1>3, <1>4, <1>5 DEF IInv

LEMMA Invariant == Spec => []IInv
PROOF
<1>1. IInv /\ [Next]_vars => IInv'
  <2>1. IInv /\ Environment => IInv'
    BY KeyboardStep, CloseStep, SecondStep DEF Environment
  <2>2. IInv /\ Program => IInv'
    BY TickStep, ShotStep, FrameStep, EscapeStep, EscDecideStep, PauseStep, ResumeStep,
       TransportStep, LoopEndsStep, OverStep, BestsStep, ProfileStep, GateStep, SlideStep,
       CloseResultsStep, ResultsStep, CommitStep, ConfigStep, MenuStep, TeardownStep,
       DialogueStep, NoticeStep
    DEF Program
  <2> QED BY <2>1, <2>2, StutterStep DEF Next
<1> QED BY Start, <1>1, PTL DEF Spec

(***************************************************************************)
(* Every variable of a call of play() keeps its type; in particular        *)
(* update_frame never counts a dying player beyond the cap and a step.     *)
(***************************************************************************)
THEOREM TypeCorrect == Spec => []TypeOK
PROOF
<1>1. IInv => TypeOK
  BY DEF IInv
<1> QED BY <1>1, Invariant, PTL

(***************************************************************************)
(* Only a finished game is ranked, and by then it is counted and saved     *)
(* (play.c 1353-1386, 1696-1710).                                          *)
(***************************************************************************)
THEOREM OnlyFinishedGames == Spec => []CommitsFinishedGames
PROOF
<1>1. IInv => CommitsFinishedGames
  BY DEF IInv, TypeOK, Ending, Storing, CommitsFinishedGames, LoopPCs, TickPCs, PausePCs,
         ReplayPCs
<1> QED BY <1>1, Invariant, PTL

(***************************************************************************)
(* A game is counted once at most, and a recorded one that is not counted  *)
(* was closed from the window (play.c 1109-1185, 1353).                    *)
(***************************************************************************)
THEOREM CountsOnce == Spec => []CountedOnce
PROOF
<1>1. IInv => CountedOnce
  <2> SUFFICES ASSUME IInv PROVE CountedOnce
    OBVIOUS
  <2>1. counted.played \in Nat /\ counted.custom \in Nat /\ counted.quit \in Nat
    BY DEF IInv, TypeOK
  <2>2. quit \/ counted.quit = 0
    BY DEF IInv, Ending
  <2>3. counted.played + counted.custom + counted.quit <= 1
    BY <2>1, <2>2 DEF IInv, Ending
  <2>4. counted.quit = 1 => lastGame = "none"
    BY DEF IInv, Ending
  <2>5. ASSUME pc = "exit", recording, counted.played + counted.custom + counted.quit = 0
        PROVE  close
    <3>1. counted.played = 0 /\ counted.custom = 0 /\ counted.quit = 0
      BY <2>1, <2>5
    <3> QED BY <2>5, <3>1 DEF IInv, Ending, Looping, LoopPCs, TickPCs, PausePCs, ReplayPCs
  <2> QED BY <2>3, <2>4, <2>5 DEF CountedOnce
<1> QED BY <1>1, Invariant, PTL

(***************************************************************************)
(* No tick reaches the second look at the close button with quit set       *)
(* (play.c 1109-1118).                                                     *)
(***************************************************************************)
THEOREM QuitNeverReachesFrame == Spec => []QuitArmUnreachable
PROOF
<1>1. IInv => QuitArmUnreachable
  BY DEF IInv, Looping, QuitArmUnreachable
<1> QED BY <1>1, Invariant, PTL

(***************************************************************************)
(* The profile is credited with the time the game ran, never with more,    *)
(* and with all of it unless a pause came after the end (play.c 1091-1332).*)
(***************************************************************************)
THEOREM TimeIsHonest == Spec => []PlayTimeHonest
PROOF
<1>1. IInv => PlayTimeHonest
  BY DEF IInv, Timing, PlayTimeHonest
<1> QED BY <1>1, Invariant, PTL

(***************************************************************************)
(* And with all of it, unless a pause or a screenshot came after the end.  *)
(***************************************************************************)
THEOREM TimeIsComplete == Spec => []PlayTimeComplete
PROOF
<1>1. IInv => PlayTimeComplete
  BY DEF IInv, Timing
<1> QED BY <1>1, Invariant, PTL

(***************************************************************************)
(* The music is off when play() returns, except from a closed results      *)
(* screen (play.c 1527, 1750-1760).                                        *)
(***************************************************************************)
THEOREM SilentAtExit == Spec => []MusicStops
PROOF
<1>1. IInv => MusicStops
  BY DEF IInv, Storing
<1> QED BY <1>1, Invariant, PTL
=============================================================================
