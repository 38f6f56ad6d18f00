----------------------------- MODULE PlaySession -----------------------------
(***************************************************************************)
(* One call of play(): the tick loop with its two pause screens and the    *)
(* replay transport, and everything that happens to a game once the loop   *)
(* has ended - the replay, the profile, the results screen, the high-score *)
(* tables, the options file.                                               *)
(*                                                                         *)
(* play() runs on one thread, but it reads what other threads write: the   *)
(* keyboard driver's key[] and typing buffer, and closeButtonClicked,      *)
(* which the window thread sets and nobody clears.  Each read of one of    *)
(* them is a step of its own here; the program counter pc names the loop   *)
(* or the statement play() is at.                                          *)
(*                                                                         *)
(* Keys are those the code tells apart: Escape, the pause key, F1, and one *)
(* key for everything bound to a control, which is_any() sees (by default  *)
(* that includes Space and Enter).  Frame drawing, fast forward, the       *)
(* cycle_count wait and what the player does are left out: a living player *)
(* may fall at any tick, and a game may qualify or not.  A replay's keys   *)
(* come from its stream and end nothing (see ReplayStream).  The modes     *)
(* itrcheck and debug are off, as the recovered sources leave them.        *)
(***************************************************************************)
EXTENDS Naturals, FiniteSets

CONSTANTS
  MaxHeld,    \* bound: keys held at a time
  MaxSecond,  \* bound: seconds on the wall clock
  DeathStep,  \* update_frame advances ply->dead by this
  DeathOver,  \* a recorded game is over once ply->dead exceeds this
  DeathCap    \* update_frame stops counting beyond this

ASSUME PlayAssumption ==
  /\ MaxHeld \in Nat /\ MaxSecond \in Nat
  /\ DeathStep \in Nat \ {0}
  /\ DeathOver \in Nat \ {0} /\ DeathCap \in Nat
  /\ DeathOver <= DeathCap

Keys == {"esc", "pause", "f1", "any"}
ControlKeys == {"pause", "any"}

\* What play() waits for at each of its inner loops, and how it goes on.
TickPCs    == {"head", "frame", "keys", "pausekey", "transport", "draw"}
PausePCs   == {"esc_release", "esc_wait", "esc_pausekey", "esc_decide",
               "pause_release", "pause_wait", "pause_drain", "shot"}
ReplayPCs  == {"space_release", "space_wait", "space_drain"}
FinishPCs  == {"over", "bests", "alert_release", "alert_wait", "alert_drain",
               "profile", "gate", "slide", "results", "commit", "unlock",
               "unlock_release", "unlock_wait", "config", "menu", "teardown",
               "exit"}
PCs == TickPCs \cup PausePCs \cup ReplayPCs \cup FinishPCs

VARIABLES
  pc,
  keys,        \* key[]: the keys held
  typed,       \* keypressed(): the typing buffer is not empty
  close,       \* closeButtonClicked
  flags,       \* ctrl.flags, as last polled
  playing, quit,
  dead,        \* ply->dead
  recording,   \* a game, or a replay
  custom,      \* is_playing_custom_game
  guest,       \* the profile is the guest's
  now,         \* time(NULL), in seconds
  startTime, endTime, pauseTime,
  seconds,     \* what the game added to profile->seconds_spent_playing
  counted,     \* what it did to games_played, custom_games_played, games_quit
  lastGame,    \* last_game.itr: "none", "written" or "failed"
  stored,      \* the files written since: subset of {"profile", "config"}
  gotHigh,     \* the game qualified for a high-score table
  hisc,        \* ... and was entered
  done,        \* the results loop: 2 waiting, 1 lingering, 0 over
  music,       \* the game music plays
  again,       \* play()'s result
  \* what the properties compare, not in the program:
  fell,        \* the player fell to his death
  active       \* seconds the game ran, up to his death or his Escape

input == <<keys, typed, close>>
kind  == <<recording, custom, guest>>
clock == <<now, startTime, endTime, pauseTime, seconds, active>>
books == <<counted, lastGame, stored, gotHigh, hisc, done, music, again>>

vars == <<pc, keys, typed, close, flags, playing, quit, dead, recording, custom,
          guest, now, startTime, endTime, pauseTime, seconds, counted, lastGame,
          stored, gotHigh, hisc, done, music, again, fell, active>>

-----------------------------------------------------------------------------
(* play()'s locals and the globals it resets, up to the loop.              *)
Init ==
  /\ pc = "head"
  /\ keys = {} /\ typed = FALSE /\ close = FALSE
  /\ flags = {}
  /\ playing = TRUE /\ quit = FALSE
  /\ dead = 0
  /\ recording \in BOOLEAN /\ custom \in BOOLEAN /\ guest \in BOOLEAN
  /\ now = 0 /\ startTime = 0 /\ endTime = 0 /\ pauseTime = 0
  /\ seconds = 0
  /\ counted = [played |-> 0, custom |-> 0, quit |-> 0]
  /\ lastGame = "none"
  /\ stored = {}
  /\ gotHigh = FALSE /\ hisc = FALSE
  /\ done = 0
  /\ music = TRUE
  /\ again = FALSE
  /\ fell = FALSE /\ active = 0

-----------------------------------------------------------------------------
(* The other threads and the wall clock.                                   *)

Press ==
  /\ Cardinality(keys) < MaxHeld
  /\ \E k \in Keys \ keys : keys' = keys \cup {k}
  /\ typed' = TRUE
  /\ UNCHANGED <<pc, close, flags, playing, quit, dead, kind, clock, books, fell>>

Release ==
  /\ \E k \in keys : keys' = keys \ {k}
  /\ UNCHANGED <<pc, typed, close, flags, playing, quit, dead, kind, clock,
                 books, fell>>

clickedCloseButton ==
  /\ close' = TRUE
  /\ UNCHANGED <<pc, keys, typed, flags, playing, quit, dead, kind, clock,
                 books, fell>>

Second ==
  /\ now < MaxSecond
  /\ now' = now + 1
  /\ active' = IF pc \in TickPCs /\ ~fell /\ counted.quit = 0 THEN active + 1 ELSE active
  /\ UNCHANGED <<pc, keys, typed, close, flags, playing, quit, dead, kind,
                 startTime, endTime, pauseTime, seconds, books, fell>>

Environment == Press \/ Release \/ clickedCloseButton \/ Second

-----------------------------------------------------------------------------
(* The tick.                                                               *)

At(from, to) == pc = from /\ pc' = to

\* poll_control
Poll == flags' = keys \cap ControlKeys

\* A rebase the wrong way round.
RebasedBackwards == startTime - (now - pauseTime)

\* "addTime > 0": a pause of less than a second moves nothing.
Rebased == startTime + (now - pauseTime)

\* The loop's own test, the input, the simulation up to the death check and
\* to the end of the dying, and the look at F1.
Tick ==
  /\ pc = "head"
  /\ playing /\ ~close
  /\ IF recording THEN Poll ELSE UNCHANGED flags
  /\ \E falls \in BOOLEAN :
       /\ falls => dead = 0
       /\ dead' = IF falls THEN 1 ELSE dead
       /\ fell' = (fell \/ falls)
       /\ endTime' = IF falls THEN now ELSE endTime
  /\ playing' = (recording => dead' <= DeathOver)
  /\ IF "f1" \in keys
       THEN pc' = "shot" /\ pauseTime' = now
       ELSE pc' = "frame" /\ UNCHANGED pauseTime
  /\ UNCHANGED <<input, quit, kind, now, startTime, seconds, active, books>>

\* F1 is held while the screenshot is written; the time is taken off.
ShotDone ==
  /\ At("shot", "frame")
  /\ "f1" \notin keys
  /\ startTime' = Rebased
  /\ UNCHANGED <<input, flags, playing, quit, dead, kind, now, endTime,
                 pauseTime, seconds, active, books, fell>>

\* update_frame that forgets the dying player.
NextDeadStuck(d) == d

\* update_frame's part that play() looks at again.
NextDead(d) == IF d # 0 /\ d <= DeathCap THEN d + DeathStep ELSE d

\* update_frame, and the second look at the close button.
Frame ==
  /\ At("frame", IF recording THEN "keys" ELSE "transport")
  /\ dead' = NextDead(dead)
  /\ quit' = (quit \/ close)
  /\ playing' = (playing /\ ~quit /\ ~close)
  /\ UNCHANGED <<input, flags, kind, clock, books, fell>>

\* Escape ends a game whose player is dying, and asks about any other.
EscapeKey ==
  /\ pc = "keys"
  /\ \/ /\ "esc" \notin keys
        /\ pc' = "pausekey"
        /\ UNCHANGED <<playing, flags, pauseTime>>
     \/ /\ "esc" \in keys
        /\ dead # 0
        /\ pc' = "pausekey"
        /\ playing' = FALSE
        /\ UNCHANGED <<flags, pauseTime>>
     \/ /\ "esc" \in keys
        /\ dead = 0
        /\ pc' = "esc_release"
        /\ pauseTime' = now
        /\ Poll
        /\ UNCHANGED playing
  /\ UNCHANGED <<input, quit, dead, kind, now, startTime, endTime, seconds,
                 active, books, fell>>

-----------------------------------------------------------------------------
(* "Do you really want to exit?"                                           *)

\* A loop that polls while its condition holds, and then goes on.
Keep(from) ==
  /\ pc = from
  /\ Poll
  /\ UNCHANGED <<pc, input, playing, quit, dead, kind, clock, books, fell>>

Leave(from, to) ==
  /\ At(from, to)
  /\ UNCHANGED <<keys, close, flags, playing, quit, dead, kind, clock, books, fell>>

EscHeld == flags # {} \/ (~close /\ "esc" \in keys)

EscRelease ==
  \/ EscHeld /\ Keep("esc_release")
  \/ ~EscHeld /\ Leave("esc_release", "esc_wait") /\ typed' = FALSE

\* The wait without its look at the close button.
EscAskedDeaf == ~typed /\ flags = {} /\ "esc" \notin keys

EscAsked == ~typed /\ flags = {} /\ ~close /\ "esc" \notin keys

EscWait ==
  \/ EscAsked /\ Keep("esc_wait")
  \/ ~EscAsked /\ Leave("esc_wait", "esc_pausekey") /\ UNCHANGED typed

EscPauseKey ==
  \/ ~close /\ "pause" \in flags /\ Keep("esc_pausekey")
  \/ /\ close \/ "pause" \notin flags
     /\ Leave("esc_pausekey", "esc_decide")
     /\ UNCHANGED typed

\* A quit that leaves the loop running.
QuitFromPauseRunning ==
  /\ counted' = [counted EXCEPT !.quit = @ + 1]
  /\ endTime' = now
  /\ quit' = TRUE
  /\ UNCHANGED playing

QuitFromPause ==
  /\ counted' = [counted EXCEPT !.quit = @ + 1]
  /\ endTime' = now
  /\ quit' = TRUE
  /\ playing' = FALSE

\* Escape again exits; the time of the pause is taken off either way.
EscDecide ==
  /\ At("esc_decide", "pausekey")
  /\ \/ "esc" \in keys /\ QuitFromPause
     \/ "esc" \notin keys /\ UNCHANGED <<counted, endTime, quit, playing>>
  /\ typed' = FALSE
  /\ startTime' = Rebased
  /\ UNCHANGED <<keys, close, flags, dead, kind, now, pauseTime, seconds, active,
                 lastGame, stored, gotHigh, hisc, done, music, again, fell>>

-----------------------------------------------------------------------------
(* The pause key: the same without the question, deaf to the close button. *)

PauseKey ==
  /\ pc = "pausekey"
  /\ IF "pause" \in flags /\ dead = 0
       THEN pc' = "pause_release" /\ pauseTime' = now /\ Poll
       ELSE pc' = "draw" /\ UNCHANGED <<pauseTime, flags>>
  /\ UNCHANGED <<input, playing, quit, dead, kind, now, startTime, endTime,
                 seconds, active, books, fell>>

PauseRelease ==
  \/ flags # {} /\ Keep("pause_release")
  \/ flags = {} /\ Leave("pause_release", "pause_wait") /\ typed' = FALSE

Paused == ~typed /\ flags = {} /\ "esc" \notin keys

\* The loop, and the poll behind it.
PauseWait ==
  \/ Paused /\ Keep("pause_wait")
  \/ /\ ~Paused
     /\ At("pause_wait", "pause_drain")
     /\ Poll
     /\ UNCHANGED <<input, playing, quit, dead, kind, clock, books, fell>>

\* A resume that leaves the time of the pause in.
ResumeUnrebased == startTime' = startTime

Resume == startTime' = Rebased

PauseDrain ==
  \/ ("pause" \in flags \/ "esc" \in keys) /\ Keep("pause_drain")
  \/ /\ "pause" \notin flags /\ "esc" \notin keys
     /\ At("pause_drain", "draw")
     /\ Resume
     /\ UNCHANGED <<input, flags, playing, quit, dead, kind, now, endTime,
                    pauseTime, seconds, active, books, fell>>

-----------------------------------------------------------------------------
(* A replay's transport keys.                                              *)

Transport ==
  /\ pc = "transport"
  /\ playing' = (playing /\ dead = 0 /\ "esc" \notin keys)
  /\ quit' = (quit \/ "esc" \in keys)
  /\ pc' = IF "any" \in keys /\ dead = 0 THEN "space_release" ELSE "draw"
  /\ UNCHANGED <<input, flags, dead, kind, clock, books, fell>>

SpacePause ==
  /\ \/ "any" \notin keys /\ Leave("space_release", "space_wait")
     \/ keys \cap {"any", "esc"} # {} /\ Leave("space_wait", "space_drain")
     \/ "any" \notin keys /\ Leave("space_drain", "draw")
  /\ UNCHANGED typed

Draw == Leave("draw", "head") /\ UNCHANGED typed

-----------------------------------------------------------------------------
(* The end of the game.                                                    *)

LoopEnds ==
  /\ ~playing \/ close
  /\ Leave("head", "over")
  /\ UNCHANGED typed

\* The time played, and the profile's share of it.
Over ==
  /\ At("over", IF recording THEN "bests" ELSE "profile")
  /\ seconds' = IF recording /\ endTime > startTime THEN endTime - startTime
                ELSE seconds
  /\ UNCHANGED <<input, flags, playing, quit, dead, kind, now, startTime, endTime,
                 pauseTime, active, books, fell>>

\* Counting a game that was quit like one that was played.
CountsAsPlayedAlways == TRUE

CountsAsPlayed == ~quit

\* save_personal_bests: totals, and last_game.itr, whose failure is announced.
Bests ==
  /\ pc = "bests"
  /\ IF CountsAsPlayed
       THEN /\ counted' = IF custom THEN [counted EXCEPT !.custom = @ + 1]
                          ELSE [counted EXCEPT !.played = @ + 1]
            /\ \/ lastGame' = "written" /\ pc' = "profile" /\ UNCHANGED flags
               \/ lastGame' = "failed" /\ pc' = "alert_release" /\ Poll
       ELSE pc' = "profile" /\ UNCHANGED <<counted, lastGame, flags>>
  /\ UNCHANGED <<input, playing, quit, dead, kind, clock, stored, gotHigh, hisc,
                 done, music, again, fell>>

\* my_alert: releases, waits (for the close button as well), releases.
AlertHeld == "any" \in flags \/ "esc" \in keys

AlertDraining == AlertHeld \/ "any" \in keys

AlertAsked == ~close /\ keys \cap {"any", "esc"} = {}

Alert ==
  \/ AlertHeld /\ Keep("alert_release")
  \/ ~AlertHeld /\ Leave("alert_release", "alert_wait") /\ typed' = FALSE
  \/ AlertAsked /\ Keep("alert_wait")
  \/ /\ ~AlertAsked
     /\ At("alert_wait", "alert_drain")
     /\ Poll
     /\ UNCHANGED <<input, playing, quit, dead, kind, clock, books, fell>>
  \/ AlertDraining /\ Keep("alert_drain")
  \/ ~AlertDraining /\ Leave("alert_drain", "profile") /\ typed' = FALSE

SaveProfile ==
  /\ At("profile", "gate")
  /\ stored' = stored \cup {"profile"}
  /\ UNCHANGED <<input, flags, playing, quit, dead, kind, clock, counted,
                 lastGame, gotHigh, hisc, done, music, again, fell>>

\* Results for whoever has not closed the window.
ShowsResultsQuit == ~close

ShowsResults == ~quit /\ ~close

\* Is there anything to show?  A replay never qualifies.
Gate ==
  /\ At("gate", IF ShowsResults THEN "slide" ELSE "teardown")
  /\ gotHigh' \in IF ShowsResults /\ recording THEN BOOLEAN ELSE {gotHigh}
  /\ UNCHANGED <<input, flags, playing, quit, dead, kind, clock, counted,
                 lastGame, stored, hisc, done, music, again, fell>>

\* The card slides in, and a screenshot holds it up; no other key is read.
Slide ==
  /\ At("slide", "results")
  /\ "f1" \notin keys
  /\ dead' = 0
  /\ typed' = FALSE
  /\ done' = 2
  /\ UNCHANGED <<keys, close, flags, playing, quit, kind, clock, counted, lastGame,
                 stored, gotHigh, hisc, music, again, fell>>

\* Closing the window here returns from play() at once.
CloseResults ==
  /\ At("results", "exit")
  /\ done # 0
  /\ close
  /\ again' = FALSE
  /\ UNCHANGED <<input, flags, playing, quit, dead, kind, clock, counted, lastGame,
                 stored, gotHigh, hisc, done, music, fell>>

Initials == guest /\ gotHigh /\ ~custom /\ recording

\* One round of the results loop.  A guest who qualified leaves it by typing
\* or choosing the last of three initials, anybody else by any key.
ResultsRound ==
  /\ pc = "results"
  /\ done # 0
  /\ ~close
  /\ "f1" \notin keys
  /\ Poll
  /\ \/ /\ done = 2
        /\ typed \/ "any" \in keys
        /\ done' = 1
     \/ done = 2 /\ (Initials \/ ~(typed \/ "any" \in keys)) /\ done' = done
     \/ done = 1 /\ done' \in {0, 1}
  /\ typed' \in IF Initials THEN {FALSE, typed} ELSE {typed}
  /\ UNCHANGED <<pc, keys, close, playing, quit, dead, kind, clock, counted,
                 lastGame, stored, gotHigh, hisc, music, again, fell>>

ResultsDone ==
  /\ done = 0
  /\ Leave("results", "commit")
  /\ UNCHANGED typed

Commit ==
  /\ At("commit", "unlock")
  /\ hisc' = (hisc \/ (gotHigh /\ recording /\ ~custom))
  /\ UNCHANGED <<input, flags, playing, quit, dead, kind, clock, counted, lastGame,
                 stored, gotHigh, done, music, again, fell>>

\* The notice that a start floor was unlocked waits for a key, and for
\* nothing else.
Unlock ==
  /\ \/ recording /\ ~custom /\ Leave("unlock", "unlock_release")
     \/ Leave("unlock", "config")
     \/ keys \cap {"any", "esc"} = {} /\ Leave("unlock_release", "unlock_wait")
     \/ keys \cap {"any", "esc"} # {} /\ Leave("unlock_wait", "config")
  /\ UNCHANGED typed

SaveConfig ==
  /\ At("config", IF recording THEN "menu" ELSE "teardown")
  /\ stored' = stored \cup {"config"}
  /\ music' = FALSE
  /\ UNCHANGED <<input, flags, playing, quit, dead, kind, clock, counted, lastGame,
                 gotHigh, hisc, done, again, fell>>

\* do_replay_menu, which is not recovered: it may ask for another game.
ReplayMenu ==
  /\ At("menu", "teardown")
  /\ again' \in BOOLEAN
  /\ UNCHANGED <<input, flags, playing, quit, dead, kind, clock, counted, lastGame,
                 stored, gotHigh, hisc, done, music, fell>>

\* An epilogue that trusts the game-over half to have stopped the music.
TeardownKeepingMusic == music' = music

StopMusic == music' = FALSE

Teardown ==
  /\ At("teardown", "exit")
  /\ StopMusic
  /\ UNCHANGED <<input, flags, playing, quit, dead, kind, clock, counted, lastGame,
                 stored, gotHigh, hisc, done, again, fell>>

-----------------------------------------------------------------------------
Program ==
  \/ Tick \/ ShotDone \/ Frame \/ EscapeKey
  \/ EscRelease \/ EscWait \/ EscPauseKey \/ EscDecide
  \/ PauseKey \/ PauseRelease \/ PauseWait \/ PauseDrain
  \/ Transport \/ SpacePause \/ Draw
  \/ LoopEnds \/ Over \/ Bests \/ Alert \/ SaveProfile \/ Gate
  \/ Slide \/ CloseResults \/ ResultsRound \/ ResultsDone \/ Commit \/ Unlock
  \/ SaveConfig \/ ReplayMenu \/ Teardown

Next == Program \/ Environment

Spec == Init /\ [][Next]_vars

FairSpec == Spec /\ WF_vars(Program)

-----------------------------------------------------------------------------
(* Properties.                                                             *)

TypeOK ==
  /\ pc \in PCs
  /\ keys \in SUBSET Keys /\ typed \in BOOLEAN /\ close \in BOOLEAN
  /\ flags \in SUBSET ControlKeys
  /\ playing \in BOOLEAN /\ quit \in BOOLEAN
  /\ dead \in 0 .. DeathCap + DeathStep
  /\ recording \in BOOLEAN /\ custom \in BOOLEAN /\ guest \in BOOLEAN
  /\ now \in Nat /\ startTime \in Nat /\ endTime \in Nat /\ pauseTime \in Nat
  /\ seconds \in Nat /\ active \in Nat
  /\ counted \in [{"played", "custom", "quit"} -> Nat]
  /\ lastGame \in {"none", "written", "failed"}
  /\ stored \in SUBSET {"profile", "config"}
  /\ gotHigh \in BOOLEAN /\ hisc \in BOOLEAN
  /\ done \in 0 .. 2
  /\ music \in BOOLEAN /\ again \in BOOLEAN /\ fell \in BOOLEAN

\* Only a game that ended by the player's death reaches a high-score table,
\* and by then its replay was written (or its loss announced) and its totals
\* are in a saved profile.
CommitsFinishedGames ==
  hisc => /\ fell /\ ~quit
          /\ lastGame # "none" /\ counted.played = 1
          /\ stored \subseteq {"profile", "config"} /\ "profile" \in stored

\* A game is counted once at most: as played, as a custom one or as quit.
\* One that is not was closed from the window.
CountedOnce ==
  LET total == counted.played + counted.custom + counted.quit IN
  /\ total <= 1
  /\ counted.quit = 1 => lastGame = "none"
  /\ pc = "exit" /\ recording /\ total = 0 => close

\* "the `quit` arm of this test cannot be reached": no tick reaches the
\* second look at the close button with quit set.
QuitArmUnreachable == pc = "frame" => ~quit /\ playing = (recording => dead <= DeathOver)

\* The profile is never credited with time that was not played: not with
\* pauses, screenshots, or the time after the fall.
PlayTimeHonest == seconds <= active

\* And a game that was quit or lost without a screenshot or a pause after its
\* end is credited with all of it.
PlayTimeComplete ==
  pc = "bests" /\ endTime > 0 /\ pauseTime < endTime => seconds = active

\* The music is off when play() returns, except from a closed results screen.
MusicStops == pc = "exit" /\ music => close /\ ~quit /\ "config" \notin stored

\* Where play() waits for a key and does not look at the close button.
DeafPCs == {"pause_wait", "space_wait", "unlock_wait"}

\* A closed window ends the session for good, as soon as nobody touches the
\* keyboard - unless play() then stays waiting for a key with no eye on the
\* window.
CloseEnds == <>[](close /\ keys = {}) => <>[](pc \in {"exit"} \cup DeafPCs)

\* A fall ends the game - recorded or replayed - unless F1 is held for good.
DeathEnds == [](fell => <>(pc \in FinishPCs \/ "f1" \in keys))
=============================================================================
