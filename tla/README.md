# Icy Tower: a verification project

This repository holds two programs. `src/icytower/` is the game Icy Tower 1.5.1,
recovered as C from the original executable, one function per 1.5.1 function.
`carrier/` is the host that runs the original executable with any subset of
these functions replaced, deterministically: it records and replays what
reaches the game from outside and takes snapshots of it. The modules here model
the game's own logic, and of the carrier its recording, replay and rewind.

## 1. The system

### Components, their state, and how they interact

| component | state | operations | talks to |
|---|---|---|---|
| input seam, `handle_player_input.c` | `rec_pos`, `demo->data[]`, `ctrl->flags`, `ply->jump_key` | one call a tick: encode (recording) or decode (playback), then steer and jump | called by `play()`; polls the keyboard driver; writes the replay object |
| replay object, `replay.c` | `Treplay`: size, header, checksum, records | `create_replay`, `load_replay`, `save_replay`, `destroy_replay` | the seam (records), `play()` (saves), the menus (load, then `new_game`, then `play()`) |
| `play()`, `play.c` | 60 locals, `quit`, `playing`, `startTime`, `endTime`, `ply->dead` | the tick loop, two pause screens, the replay transport, the game-over half | everything; reads `key[]`, the typing buffer, `closeButtonClicked`, `hasFocus`, `cycle_count`, which other threads write |
| high scores, `hisc.c` | 15 tables of five `{name, value}` | `qualify_hisc_table`, `enter_hisc_table`, `sort_hisc_table` | `play()`'s game-over half; `save_config()` writes them |
| personal bests, `play.c`, `profile.c`, `config.c` | the profile's totals, bests and `best_replay_names[15]`, `uberChecksum` | `save_personal_bests`, `save_profile`, `myDeleteFile` | replay files |
| scoring, `play.c`, `add_combo.c`, `add_jump_sequence.c`, `start_reward.c`, `game_data.c` | combo timer, `acc_level`, `jc[]`, `jcTop[]`, combo and jump lists | the accounting part of a tick | the profile, the report `getGameDataXML` |
| scroll and map, `play.c`, `map.c` | `map.offset`, ring of rows, `scroll`, `fall_count`, `next_speed` | `add_floor`, `get_level`, the scroll step | physics, scoring |
| physics, `update_player.c`, `collision.c`, ... | position, speed, `status` | `update_player`, five collision modes | the seam (speed), scoring (`status`) |
| telemetry, music, initials, drawing, menus, profile files, log, timers | see `PROJECT.json` | | |
| carrier, `carrier/src/` | virtual clock, script cursor, capture queue, recorded clock, snapshots | deliver, capture, drain, record, save, restore | wraps `Sleep`, `time`, the keyboard driver |

### What is hard

* One thread runs `play()`, but the window thread sets `closeButtonClicked` and
  `hasFocus`, the keyboard driver `key[]` and the typing buffer, the timer
  thread `cycle_count`; the code reads each of them several times per decision.
* A recording and its playback run through one function with one cursor, one
  record apart, on records that are consumed in place.
* A game can end by death, by Escape (twice asked), or by the close button at
  any statement, and each end stores a different part of the result.
* Personal bests are stored by deleting a file, writing another and saving,
  later, the profile that names it, with no failure looked at.
* The carrier captures keys on the window's thread at any instant and must hand
  them over at points a replay can find again, on a clock it makes itself.
* The collision is looked up by rows that ignore the scroll offset, between two
  positions that both move with the tower.

`PROJECT.json` lists each hazard at its line.

### What makes each component correct

* Seam: playback reproduces the recorded keys and jumps; the encoder stays in
  its buffer; runs are maximal.
* `play()`: only a finished game is ranked, each game is counted once, time
  played is time played, a closed window or a fall ends the session.
* High scores: always sorted, the shown place is the place taken, the lowest is
  what is lost, equal scores keep their order.
* Scoring: what is added to the totals is what the combos and jumps add up to.
* Map and speed: the ring holds the last rows in order, the floors move as far as
  the player that rides them, and the speed steps when its clock says so.
* Bests: the profile never names a file that does not exist, but for a crash.
* Physics: a standing player stands on a floor, and a falling one passes none.
* Carrier: a replayed recording shows the game every key, switch and time at the
  call at which the recorded game saw it, also after a rewind.

## 2. The modules

| module | what it is | models |
|---|---|---|
| `InputTape` | abstract: a tape of held keys, played back two ticks late | the promise of the seam |
| `ReplayStream` | the record stream, cursor, terminator, jump latch | `handle_player_input`, `create_replay`, `save_replay`, `load_replay`, `jump_player`, `reset_player` |
| `MCReplayStream` | `ReplayStream` with three keys | |
| `ReplayStreamProofs` | inductive invariants of the stream and of the jump latch; buffer bound, faithful keys and jumps, refinement, proved | |
| `PlaySession` | one call of `play()` as a program counter over its loops | `play()`, `save_personal_bests`, `my_alert`, `update_frame`, `poll_control` |
| `PlaySessionProofs` | an inductive invariant per program counter and all the invariants of `PlaySession`, proved | |
| `HighScores` | abstract: insertion by rank | the promise of a table |
| `HiscTable` | overwrite the worst, sort, as `play()` calls them | `hisc.c` |
| `HiscTableProofs` | what the sort does to any table, order, place and refinement, proved | |
| `Scoring` | one game's score, combos, jump counters and sequences, tick by tick | `play()` 887-1029, `add_combo`, `add_jump_sequence` |
| `ScoringProofs` | all the invariants of `Scoring`, proved | |
| `TowerScroll` | the scroll step of a tick, the speed schedule, the ring of rows | `play()` 565-567, 788-861, `add_floor`, `reset_map` |
| `TowerScrollProofs` | an inductive invariant and all the properties of `TowerScroll`, proved | |
| `Landing` | standing, jumping, falling and landing on a scrolling map | `update_player`, `jump_player`, `getFloorData`, `handle_player_collision_vector`, `line_intersect`, `add_floor`, `play()` 772-875 |
| `LandingProofs` | both properties of `Landing`, proved | |
| `BestReplays` | files and profile at the end of a game, with failures and crashes | `save_personal_bests`, `save_replay`, `myDeleteFile`, `save_profile` |
| `BestReplaysProofs` | its three properties, proved | |
| `CarrierInput` | capture, tick-boundary drain, recording, replay, snapshot and rewind | `det.cpp`, `snapshot.cpp` |
| `CarrierInputProofs` | the bound on the delay of an event and the faithful replay, proved | |

The modules cut `play()` along its own seams: a tick is the seam (`ReplayStream`), the
scroll step (`TowerScroll`), the landing (`Landing`) and the accounting (`Scoring`); around
them is `PlaySession`, and behind its `Bests` and `SaveProfile` steps is `BestReplays`. Each
takes what the others decide as any choice within their limits: `Landing` any scroll
up to 16 pixels, which is what `TowerScroll` proves safe; `Scoring` any landing;
`PlaySession` any tick for the fall; `CarrierInput` any sequence of calls.

### ReplayStream

`data`, `size`, `rec_pos`, `flags`, `dead`, `jump_key`, `rejump` are the
program's variables of these names; a key mask is a set of keys and `& 0x93` the
intersection with `RecKeyMask`. `RecordTick` is the whole recording call
(poll, encode or write the terminator, steer, jump), `PlayTick` the whole
playback call. `Save` and `Load` are `save_replay` with `rec_pos + 2` and
`load_replay` followed by `new_game`'s reset. `air` stands for the player's
`status` and the physics that brings it back to 0: a jump lands `AirTicks` ticks
later. `log`, `since`, `played`, `stale`, `jumps` and `rejumps` are history. The
records `create_replay` allocates and does not clear hold `Junk`.

### PlaySession

`pc` names the loop or statement `play()` is at, and every evaluation of a loop
condition that reads a key or the close button is a step, so that keys may be
pressed and released, the window closed and a second pass between any two.
`Tick` is the tick up to the look at F1, `Frame` is `update_frame` and the second
look at the close button, `EscapeKey` ... `EscDecide` pause screen A, `PauseKey` ...
`PauseDrain` pause screen B, `Transport` and `SpacePause` the replay keys; after the
loop `Over`, `Bests`, `Alert`, `SaveProfile`, `Gate`, `Slide`, `ResultsRound`, `Commit`,
`Unlock`, `SaveConfig`, `ReplayMenu`, `Teardown` follow the text. Simplified: all
control keys but pause are one key; death comes at any tick; the game qualifies
or not; screenshots are modelled where they move the clock or hold a loop up,
except in the replay pause. `fell` and `active` are history.

### HiscTable

A C index i is i + 1. `Qualify` is the gate of the game-over half, `Enter` the
commit, `Abandon` the return on a closed window. Init is any sorted table, which
is what `load_config` and every `Enter` leave behind.

### Scoring

One action is the accounting part of one tick: the countdown of the combo timer
(`Countdown`, which pays a combo that ends), then what the collision found.
`Airborne` is a tick with `status` not 0, `Stand` one on the same floor, `Climb` and
`Fall` the landing on another, `Die` the tick in which y passes 540. The variables are
the program's; `jumpSequence.dist` is left out because it is written just before
each use. Position is not modelled: any floor may be landed on, from the air only.
`chained`, `freeTop`, `fresh` and `rested` are history. Init has the zeroed globals of
the first game of a process: `new_game`, which is not in the sources, may or may not
reset them between games.

### TowerScroll

`Tick` is lines 788-861 of a tick, in their order: `Move` (lift by the player's
height, then the tower's own speed), `Hurry` (the threshold test), `CountBack` (top
speed), `Advance` (the row test and `add_floor`), `Die`. The variables are the
program's; `odd` is `step_count & 1`, and `ccc` is the set of entries written, not
the floors written into them. `new_game`, which is not in the sources, calls `add_floor`
30 times after `reset_map` (notes/layout_determinism.md); here it is an action that
runs until the rows are there. The player's height is any of the bands of 793-806
at any tick; a platform's width and place, signs, tiles and the banner are left out.
A pause saves and restores `fall_count` and `clock_angle`, which nothing changes
meanwhile, and so is no step here. Rows are 16 pixels and the lifts are the code's,
because the question is how the two meet; the ring, the interval and the spacings
are constants.

### Landing

`y` is `(int)p->y`, `status` the program's (0 to 3 as `Standing`, `Rising`, `Falling`,
`Dropped`), `offset` is `map.offset % 16` and `floors` the rows of the screen that hold a
platform. One action, `Tick`, is the vertical part of 772-875: the move, the scroll with
its `add_floor`, the lookup of the new and else the old row (`RowOf`), and the crossing of
the floor with the line from the old feet to the pixel below the new ones. Speeds are
choices: a rise of up to `MaxRise`, a fall of up to `MaxFall`; the truncation of a
`double` towards zero is why a falling player may move by -1. Where the feet are from
left to right is the choice `over`. `Degenerate` is the 0/0 of `line_intersect`, which the
guard at collision.c:344 turns away. `lost` is history. A scroll of 17 or 18 pixels, of
which `TowerScroll` shows that it misses a row, is outside (`LandingAssumption`).

### BestReplays

`pc` is the statement of `save_personal_bests` or `save_profile` the process is at.
`BeatBest` sets the value and deletes the file of the old one, `OpenBest` and `FillBest` are
`save_replay` (opening empties the file; a full disk leaves it torn), `OpenLast` ...
`ReadLast` the same for last_game.itr with its reading back, `OpenProfile` and `FillProfile` are
`save_profile`. Every one of them may fail in the way the code does not look at.
`Crash` ends the process between any two, `Start` is the next process, with the profile
its file holds. A best's file name is determined by its value (`<handle>_best_<kind>_<value>.itr`),
so a value stands for it. `unsaved`, `hurt` and `litter` are history: they say which
bests were touched by a failure or a crash.

### CarrierInput

`ms`, `subTick`, `subIn`, `lastDrain`, `held`, `keyQueue`, `focusQueue`, `cursor`, `timeCursor` are the
statics of det.cpp and of the library it calls (port_forge, an absent submodule, modelled
as det.cpp uses it). `Sleep`, `Pump`, `Deliver`, `StartDrain`, `DrainKey`, `DrainSwitch` are
the parts of `det_wrap_Sleep` on the game's thread, `KeyEvent` and `SwitchHook` the window
thread between any two of them, `Time` is `det_wrap_time`, `Safepoint` is `safepoint_hit` with
its rewind and its capture. `Replay` ends the recorded process at any point and starts
one that plays its file. The game is a list of calls, chosen in the recorded run and
repeated in the replay, with `seen`, what it has been shown in each of them: as long as
both saw the same, a deterministic game calls the same. The recording is two vectors,
`script` and `times`, which is how `load_script` reads it. `calls`, `saw`, `captured` and the
ticks in the queues are history.

## 3. The runs

| run | bounds | shows |
|---|---|---|
| `replay_stream` | 3 keys of which 2 recorded, 5 ticks, buffer 7, 8 playback ticks | the five safety properties and `ImplementsTape` |
| `replay_exact` (violation) | same | "bit-exact by construction" fails when fire is held from the first tick |
| `play_session` | 2 keys held at a time, 2 seconds | the seven safety properties |
| `play_ends` | 2 keys, no seconds | `CloseEnds`, `DeathEnds` |
| `hisc_table` | 5 entries, values 0..4, ceiling 3, 2 names | order, place, refinement |
| `scoring` | 6 landings, floors 0..5, combo time 3, 3 counters, room for 2 combos and 4 sequences | the seven safety properties |
| `tower_scroll` | 90 pixels from a start at 20, interval 3, a ring of 5 rows, platforms every 2 rows, full ones every 4 and from row 6 on every 6 | the seven safety properties |
| `best_replays` | 2 bests, values 0..2, 2 games | the three safety properties |
| `landing` | 7 rows below and 2 above the edge, a floor every 5, falls to 13 and rises to 9 pixels, scrolls of 0, 1, 4, 15, 16 | `StandsOnAFloor`, `FloorsHold` |
| `carrier_replay` | 4 calls and 1 more in the replay, 2 events, 1 key, queues of 1, 2 ms a tick, naps of 1 and 3 ms, 2 times | `ReplayIsTheRecording`, `OneTickLate` |
| `carrier_rewind` (violation) | same | "restore -> suffix == cold -> suffix" fails when the next `Sleep` leads into the tick that was left |
| `hisc_loses_last` (violation) | values 0..3, ceiling 4 | "the winner is slot 4" fails on ties |

Bounds. Five recorded ticks give every pattern of run, change, change back and
an unrecorded key in between, before and after the terminator (which is written
over and over, since the cursor stays); eight playback ticks outlast them by the
lag and the silence after the end. Two keys at a time are enough for Escape or
pause together with another key, the only pairs one condition reads; the
`DeathStep`/`DeathOver`/`DeathCap` constants keep the proportion of 8, 100 and 299 that
matters: the game is over before the count stops. Two seconds tell a pause, a
screenshot and play apart. Five entries are the code's own; five values give
ties at every place and entries on both sides of the ceiling.

Six landings over six floors hold two paid combos, a broken one, a lost one, a fall
between them, a repeated and an interrupted run of climbs and a climb too long for
a counter; they overflow the list of sequences, not that of combos. The combo
time only has to be longer than the two ticks in which a landing, a break and a
payment can meet.

Ninety pixels are five rows: all start speeds, every way of passing a row boundary
(the remainders repeat every 16 pixels), and, from speed 0, all five speed-ups and the
clock running back (they take about 33 pixels). `MaxCount` only ends the count after death.

Two games suffice for a best to be beaten, fail, be beaten again and be restarted
from; two bests for one to be confused with the other. The screen of `Landing` has two
floors at most and every remainder; the scrolls are none, one, a common one, and those
on either side of the test for more than 15. The proofs remove all of these bounds.

Four calls hold a tick boundary, a nap within a tick, a read of the clock and a safe
point; with two events, one can be dropped by a queue of one, and a press can be followed
by its release in the same drain. One call more than the recording makes `time()` run
out of recorded values. Two milliseconds a tick give a first and a later `Sleep` in it, and three
a `Sleep` that is longer than a tick.
`MaxCalls`, `MaxOverrun` and `MaxCaptured` bound nothing else.

Deadlock is not checked for `PlaySession`, `Scoring`, `TowerScroll` and `CarrierInput`, which end,
for `HiscTable`, whose table may have nothing more to lose, for `BestReplays`, which stays off
when its profile is torn, and for `Landing`, where a player may leave the screen.

Fairness. `FairSpec` is weak fairness of `Program`, `play()`'s own thread: the
operating system runs it, and each of its waits calls `rest`, polls, or spins, so
it takes a step whenever one is possible. Nothing is assumed of the keyboard or
the window: `CloseEnds` supposes in its hypothesis that keys are eventually
released. The pacing wait on `cycle_count` relies on the timer and is not modelled.

What the runs found beyond the two findings, as behaviour of the code and not
as a contradiction of anything it says: three waits are deaf to the close button
(`DeafPCs`), a window closed between the second look at the flag and the loop test
counts an unfinished game as played, and a window closed on the results screen
loses the entry, skips `save_config()` and leaves the music on (`MusicStops` states
exactly that exception). In `Scoring`, a combo whose predecessor ran out in the air is
reported from an older floor than its own start, as is one whose first jump follows a break
or a fall at once: it is the last floor the player rested on, and always that one
(`ComboStartHonest`). And the no-combo floor can be lowered by a pending first combo that
began below it; `NoComboTopEarned` says that nothing else lowers it, and where to.

In `TowerScroll`, a tick that moves the
tower by 17 or 18 pixels from a remainder of 14 or 15 calls `add_floor` once where two
rows are due, and the floors slip 16 pixels against the player
(`FloorsCarryThePlayer` states exactly that exception). It takes a player above the
screen's edge at speed 4 or 5. Physics is outside the model; a calculation with the constants
of `update_player` and `jump_player` finds such ticks only for a full-speed jump from
high on the screen at low gravity.

`carrier_rewind` is a third finding: `det_state_save` keeps `g_last_drain_tick`, the queues and
the cursors, but not `g_sub_tick` and `g_sub_in_tick`. If the first `Sleep` after a rewind
reaches the tick the abandoned run was in, it is counted as a later `Sleep` of that
tick, `deliver_due_input` returns (det.cpp:656), and what the script holds for this tick
comes one tick late. It takes a rewind whose next `Sleep` lands in that tick, which
is not the snapshot's: `Misled` says exactly this, and `ReplayIsTheRecording` that
every other rewind is faithful. A rewind within a tick does no harm, because there the count
is that of the right tick; one of several ticks does, when the game's `Sleep` spans them.

Reading showed two more disagreements that no run is about. The drain of real keys
passes the character 0 (det.cpp:945) where the script passes 13, 32 or 27 for Enter,
Space and Escape (det.cpp:642-652, 727), so that a program that calls `readkey()` sees
other characters in the replay than in the recorded run; the model leaves the character
out. And play.c:864 says of `collision_type` that "mode 0 is the live one", while
collision.c:21-33 found the one store that makes it 2, which `Landing` follows.

## 4. The proofs

`ReplayStreamProofs`, from `ReplayAssumption` and `JunkAssumption`:

* `TypeCorrect`: `Spec => []TypeOK`. `TypeOK` is inductive once the cursor is known to
  stay below the number of ticks, since a write past `Slots` would be lost.
* `BufferSuffices`: `Spec => []WithinBuffer`. The cursor moves at most once a tick,
  and there are at most `MaxTicks` of them: `MaxTicks + 2 <= Capacity` is what the
  caller has to guarantee, because the encoder checks nothing.

* `PlaybackCorrect`: `Spec => []PlaybackFaithful`; `RunsMaximal`: `Spec =>
  []RunsAreMaximal`; `StreamImplementsTape`: `Spec => ImplementsTape`.
* `JumpsReproduced`: `Spec => []JumpsFaithful`.

`PlaybackFaithful` says nothing of the recording and is not inductive. The
invariant `IInv` adds what the stream means: `Encoded`, that record i holds the
keys of the ticks `since[i]` .. `since[i] + cycle_count` of the log and the next
record starts where it ends; `Stored`, the same of the file once saved, with
what follows the cursor (the terminator, or a blank); and `Decoding`, where a
playback stands: before its first tick, on a record of which some ticks are
counted down, or past the end, as a function of `played`. Each of the lemmas
`RecordIInv`, `SaveIInv`, `LoadIInv`, `DecodeIInv` preserves it through one action, and
`TapeStep` reads the step of the tape off it.

`JumpsFaithful` compares two runs of the latch `jump_key` and of the time in the air, of
which the state holds only the current one. Its invariant `Told` says that there is a
history, a latch for every tick of the log, which starts fresh, follows the keys (`Tells`)
and agrees with the latch of whichever run is going on: with its end while recording
(`Live`), with its place at `played` in a playback (`Again`). The two ticks of lag are told
one by one, because in them the playback steers by the keys held before it began.

`PlaySessionProofs`, from `PlayAssumption`: all seven invariants of `play_session`, for every
clock, every number of keys and every speed of dying (`TypeCorrect`, `OnlyFinishedGames`,
`CountsOnce`, `QuitNeverReachesFrame`, `TimeIsHonest`, `TimeIsComplete`, `SilentAtExit`). What they say of the
end of a game was decided in the loop, so `IInv` carries it there: `Timing` says which
difference of which clocks is the time played so far (`now - startTime` in a tick,
`pauseTime - startTime` in a pause, `endTime - startTime` after the end), `Looping` why the loop
goes on or not (a living recorded game that is not quit is playing; quit means Escape
twice or a closed window), `Ending` what is counted, `Storing` what is shown and saved. The
waits, which change nothing else, are one lemma (`Waiting`) for seventeen transitions;
every other action has its own.

`BestReplaysProofs`, from `BestAssumption`: `BestsKept`, `NoLitter` and `ChecksumHonest`. The invariant
says of every best, at every statement, whether its file is kept, being replaced, or
damaged, and of the file on disk that names it what a restart would find.

`LandingProofs`, from `LandingAssumption`: `Supported` and `Caught`, which follow from one
invariant, that a standing player's feet are at the height of a floor of the map, with the
arithmetic of rows: what a remainder that wraps means for the rows below, and that a fall
of at most 16 pixels crosses no floor but that of the two rows looked up.

`CarrierInputProofs`, from `CarrierAssumption`:

* `NothingWaits`: `Spec => []OneTickLate`. The invariant follows the drain: what is queued
  is as old as the last drain or younger, and the drain empties both queues before the game
  runs again.
* `Reproduced`: `Spec => []ReplayIsTheRecording`. The property compares what two runs were
  shown, of which the state holds no common part but the recording. The invariant
  `InStep` says that there is a history of the recorded run (`Tells`): for every call the
  number of lines and of times written by its end, the clock, and the tick of its last
  `Sleep`; for every line the keys held after it. Two things make the history enough to
  replay from: the lines a `Sleep` wrote all carry its tick, and those of later calls carry
  later ticks (what is due is never too much); and lines are written in the first `Sleep`
  of a tick only (what is due is never asked for too late). `Recording` says where the
  recorded run stands at the end of its history, call by call, also in the middle of a
  drain; `Playing` that a replay, and its snapshot, stand where their clock and cursors say.
  `Rewound` carries a replay from its rewind to its next `Sleep`, where `Misled` decides.

The attempt to prove it changed the model twice. `ReplayIsTheRecording` used to exclude the
rewinds of less than two ticks, which is not the condition: a `Sleep` longer than a tick
can be misled by a longer rewind, which the run's `Sleep`s of one tick at most could not
show, and a rewind within a tick cannot be. And `HeldAfter` was a `CASE` with two arms that
applied at once.

`ScoringProofs`, from `ScoringAssumption`:

* `TypeCorrect`: `Spec => []TypeOK`, one lemma for each part of a tick.
* `FloorsConserved`: `Spec => []ComboFloorsConserved`. Alone it is not inductive; `OneFate`
  adds that a dead player has no combo running, a living one has lost none, and a
  running combo has at least one jump.
* `StartHonest` and `TopEarned`: both rest on `gdComboStart`, of which `StartsHold` says that
  it is the current floor once the player rested there, before that the last one he rested
  on, and never above the highest floor stood on with no combo running; and that, before the
  first paid combo, the no-combo floor is below the player only while it is that start.
  `TopEarned` is about steps: `NextStarts` proves the step formula along with the invariant.
* `ScoreListed`: inductive as it stands, with what one more entry does to a sum and to a
  maximum (`AccumulateAppend`).
* `SequencesTile`: `SequencesHold` says of the stored sequences and the open one what the
  property says, also in the tick in which the list fills up, and that a sequence is open
  from the first landing on.
* `TopsAgree`: `RunsHold` says that between landings no counter runs but the one of the open
  sequence's length, which is its number of jumps, and that the tops are those of the
  sequences stored.

`HiscTableProofs`, from `HiscAssumption`, for every length of table, every set of names and
values and every ceiling:

* `TypeCorrect`, `StaysSorted`, `PlaceIsKept`, `TableImplementsPromise`.

The loops of hisc.c are recursive functions, and the proof is what they compute. `SortIn` bubbles
one entry up a sorted table and changes no other order (`SortInIs`), so that on a sorted
table with one entry overwritten, which is what a commit hands it, the sort is a removal
and an insertion by rank (`SortIs`, `Moved`); the search of `enter_hisc_table` finds the first of the
entries of lowest value (`FirstIs`, `SlotIs`), and `qualify_hisc_table` counts the entries that stay
ahead (`QualifyIs`). `TableInv` adds to type and order that `qualify` is still what the function
would return (`Shown`): nothing changes the table while a result is on screen.

Both modules prove by induction over data. The library states induction with an operator
as parameter, which no prover here instantiates, but its facts about well-founded relations
speak of sets: `SetInduction`, that a set with 0 and the successor of each of its members holds
every number, follows from it and from `<` being well-founded.

`TowerScrollProofs`, from `TowerAssumption`: every property of the run, for every ring,
interval, penalty and spacing (`TypeCorrect`, `ScheduleKept`, `OnTime`, `ClockTrue`,
`TowerStands`, `RowsInTime`, `FloorsCarry`). The invariant `IInv` is their conjunction with `StartedAbove`: a tower that
has started is above the height where it starts, so that the count of a living
player is never reset behind a speed-up's back. `RowArithmetic` is what the
remainder test means for displacements of 0 to 18; `TowerStep` and `SpeedStep` are the two
halves of a tick, which share only `scroll_acc`. The bounds `MaxOffset` and `MaxCount`
occur in guards only, and any values will do.

Only model-checked: `CloseEnds` and `DeathEnds`, which are liveness under fairness and out of
the prover's reach. The three properties of the violation runs are false. Every other
property of a run is a theorem.

## 5. Not modelled

Most of the repository's lines are not a program with state to check: `carrier/gen/`
(types, bindings and import stubs, generated from the executable), `carrier/lift/` (the
harness that compares lifted functions with the original, and its vectors), drawing,
sound effects and screenshots, the tools and build scripts. Of what remains:

* The music's restart on a change of focus, the time-cheat telemetry and the entry of
  initials: each is a counter or a flag that nothing in the simulation reads back.
  Their hazards are listed without a property.
* Horizontal motion, the walls and the speeds, which are floating point; the four
  collision modes that `new_game` does not select.
* Formats: the header and checksum of a replay, the report, the profile's statistics.
  A file is missing, torn or whole.
* In the carrier: `--inject-real-test`, runs without `--det`, the arena and the threads
  (port_forge), the snapshot's file and its component hashes, restoring it into a new
  process, the binding of recovered functions over the original's.
* Code that is not in the repository appears only as its effect: the keyboard driver
  and the window thread (`Press`, `Release`, `clickedCloseButton`), the clock (`Second`),
  `do_replay_menu` (any answer), `new_game`, `load_profile` (refuses a torn file),
  Allegro's key functions (`Shown`), a killed process (`Crash`).

A rewind while a recording is being written leaves the lines of the abandoned run in
the file; the model rewinds replays only, and no document promises more.
