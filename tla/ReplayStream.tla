---------------------------- MODULE ReplayStream ----------------------------
(***************************************************************************)
(* The input seam: handle_player_input(), the only place where the outside *)
(* world enters the simulation of Icy Tower, and the replay object it      *)
(* writes and reads.                                                       *)
(*                                                                         *)
(* While a game is recorded, each tick polls the control, keeps            *)
(* left/right/fire and run-length encodes them into demo->data at rec_pos; *)
(* once the player is dead a 0x80 terminator is written past the cursor.   *)
(* While a replay is played, the same function takes the keys out of the   *)
(* same array, one record behind the cursor, counting cycle_count down in  *)
(* place.  Either way the tick then steers and jumps by ctrl->flags.       *)
(*                                                                         *)
(* Key masks are sets of keys: 0x93 is RecKeyMask and `&` is intersection. *)
(* The physics is abstracted to what a jump depends on: jump_player()      *)
(* succeeds iff the player stands, and he lands AirTicks ticks later.      *)
(***************************************************************************)
EXTENDS Integers, Sequences

CONSTANTS
  Buttons,     \* keys poll_control can report
  Recorded,    \* those the mask keeps (left, right, fire)
  Fire,        \* the fire key
  Sentinel,    \* bit 7, the end-of-input mark
  Capacity,    \* records asked of create_replay
  Junk,        \* what malloc left in the records create_replay does not clear
  AirTicks,    \* ticks from a jump to the landing
  MaxTicks,    \* bound: recorded ticks
  MaxPlayed    \* bound: ticks of one playback

ASSUME ReplayAssumption ==
  /\ Recorded \subseteq Buttons
  /\ Fire \in Recorded
  /\ Sentinel \notin Buttons
  /\ Capacity \in Nat
  /\ AirTicks \in Nat \ {0}
  /\ MaxTicks \in Nat
  /\ MaxPlayed \in Nat
  \* The encoder checks no bound: a game must be shorter than its buffer.
  /\ MaxTicks + 2 <= Capacity

ASSUME JunkAssumption ==
  Junk \in [key_flags : SUBSET (Recorded \cup {Sentinel}), cycle_count : Nat]

\* create_replay allocates four records more than it was asked for.
Slots == 0 .. Capacity + 3

RecKeyMask == Recorded \cup {Sentinel}

Masks == SUBSET RecKeyMask

Trecord == [key_flags : Masks, cycle_count : Nat]

Blank == [key_flags |-> {}, cycle_count |-> 0]

\* A fresh record array: `n` cleared records, and four that are not.
create_replay(n) == [i \in Slots |-> IF i < n THEN Blank ELSE Junk]

VARIABLES
  mode,      \* "recording", "saved" or "playback"
  data,      \* demo->data
  size,      \* demo->size
  rec_pos,   \* the cursor both halves share
  flags,     \* ctrl->flags
  dead,      \* ply->dead: 0 or not (1)
  jump_key,  \* ply->jump_key: an edge detector, 1 after reset_player
  air,       \* ticks until the player lands; 0 is status 0
  rejump,    \* the difficulty's rejump setting, 0 or 1
  file,      \* the records of the saved replay
  \* what the properties compare, not in the program:
  log,       \* the masks recorded, after the empty record the stream starts with
  since,     \* since[i]: index in log of the first tick record i stands for
  played,    \* ticks of the current playback
  stale,     \* ctrl->flags as the current playback found it
  jumps,     \* log indices of the ticks that jumped
  rejumps    \* the same of the current playback

vars == <<mode, data, size, rec_pos, flags, dead, jump_key, air, rejump, file,
          log, since, played, stale, jumps, rejumps>>

-----------------------------------------------------------------------------
(* The steer and jump half of handle_player_input, shared by both modes.   *)

\* A reset that leaves the latch open.
FreshJumpKeyOpen == 0

\* reset_player: no jump before fire was released once.
FreshJumpKey == 1

\* Does this tick call jump_player with success?
JumpsWith(keys) ==
  /\ Fire \in keys
  /\ rejump # 0 \/ jump_key = 0
  /\ air = 0

NextJumpKey(keys) ==
  IF rejump # 0 THEN jump_key
  ELSE IF Fire \notin keys THEN 0
  ELSE IF JumpsWith(keys) THEN -1 ELSE jump_key

\* The rest of the tick as far as jumping depends on it.
NextAir(keys) ==
  IF JumpsWith(keys) THEN AirTicks
  ELSE IF air > 0 /\ dead = 0 THEN air - 1 ELSE air

SteerAndJump(keys) ==
  /\ jump_key' = NextJumpKey(keys)
  /\ air' = NextAir(keys)

-----------------------------------------------------------------------------
Init ==
  /\ mode = "recording"
  /\ data = create_replay(Capacity)
  /\ size = Capacity
  /\ rec_pos = 0
  /\ flags \in SUBSET Buttons
  /\ dead = 0
  /\ jump_key = FreshJumpKey
  /\ air = 0
  /\ rejump \in {0, 1}
  /\ file = [i \in Slots |-> Blank]
  /\ log = << {} >>
  /\ since = [i \in Slots |-> 1]
  /\ played = 0
  /\ stale = {}
  /\ jumps = {}
  /\ rejumps = {}

-----------------------------------------------------------------------------
(* Recording.                                                              *)

\* The encoder tests the terminator bit as well as `dead`.
AtEnd == dead # 0 \/ Sentinel \in data[rec_pos].key_flags

\* A terminator that moves the cursor onto itself.
WriteSentinelAdvancing ==
  /\ data' = [data EXCEPT
                ![rec_pos + 1] = [key_flags |-> {Sentinel}, cycle_count |-> 0],
                ![rec_pos + 2] = Blank]
  /\ rec_pos' = rec_pos + 1
  /\ UNCHANGED <<log, since>>

\* The terminator goes past the cursor, which stays: every further tick
\* writes the same two records again.
WriteSentinel ==
  /\ data' = [data EXCEPT
                ![rec_pos + 1] = [key_flags |-> {Sentinel}, cycle_count |-> 0],
                ![rec_pos + 2] = Blank]
  /\ UNCHANGED <<rec_pos, log, since>>

\* Comparing the unmasked keys: a change of an unrecorded key starts a record.
SameRunUnmasked(keys) == data[rec_pos].key_flags = keys

SameRun(keys) == data[rec_pos].key_flags = keys \cap RecKeyMask

ExtendRun ==
  /\ data' = [data EXCEPT ![rec_pos].cycle_count = @ + 1]
  /\ UNCHANGED <<rec_pos, since>>

\* A new run that counts its first tick, as if cycle_count were a length.
StartRunCounted(keys) ==
  /\ rec_pos' = rec_pos + 1
  /\ data' = [data EXCEPT ![rec_pos + 1] =
                [key_flags |-> keys \cap RecKeyMask, cycle_count |-> 1]]
  /\ since' = [since EXCEPT ![rec_pos + 1] = Len(log) + 1]

StartRun(keys) ==
  /\ rec_pos' = rec_pos + 1
  /\ data' = [data EXCEPT ![rec_pos + 1] =
                [key_flags |-> keys \cap RecKeyMask, cycle_count |-> 0]]
  /\ since' = [since EXCEPT ![rec_pos + 1] = Len(log) + 1]

\* One tick of a recorded game: poll_control, encode, steer and jump.
RecordTick ==
  /\ mode = "recording"
  /\ \E keys \in SUBSET Buttons :
       /\ flags' = keys
       /\ \/ AtEnd /\ WriteSentinel
          \/ /\ ~AtEnd
             /\ Len(log) <= MaxTicks
             /\ SameRun(keys)
             /\ ExtendRun
             /\ log' = Append(log, keys \cap RecKeyMask)
          \/ /\ ~AtEnd
             /\ Len(log) <= MaxTicks
             /\ ~SameRun(keys)
             /\ StartRun(keys)
             /\ log' = Append(log, keys \cap RecKeyMask)
       /\ SteerAndJump(keys)
       /\ jumps' = IF JumpsWith(keys) THEN jumps \cup {Len(log) + 1} ELSE jumps
  /\ UNCHANGED <<mode, size, dead, rejump, file, played, stale, rejumps>>

\* play() finds the falling player below the screen.
Die ==
  /\ mode = "recording"
  /\ dead = 0
  /\ air > 0
  /\ dead' = 1
  /\ UNCHANGED <<mode, data, size, rec_pos, flags, jump_key, air, rejump, file,
                 log, since, played, stale, jumps, rejumps>>

\* Saving without the terminator's record.
SavedSizeShort == rec_pos + 1

\* save_personal_bests hands save_replay the cursor, and two records more.
SavedSize == rec_pos + 2

\* The tick loop ends - by death, Escape or the close button - and the
\* replay is written.
Save ==
  /\ mode = "recording"
  /\ mode' = "saved"
  /\ size' = SavedSize
  /\ file' = [i \in Slots |-> IF i < SavedSize THEN data[i] ELSE Blank]
  /\ UNCHANGED <<data, rec_pos, flags, dead, jump_key, air, rejump,
                 log, since, played, stale, jumps, rejumps>>

-----------------------------------------------------------------------------
(* Playback.                                                               *)

\* load_replay into a fresh object, then new_game: run_demo does both before
\* every playback.  ctrl->flags is what the menu left there.
Load ==
  /\ mode # "recording"
  /\ mode' = "playback"
  /\ data' = [i \in Slots |-> IF i < size THEN file[i] ELSE create_replay(size)[i]]
  /\ rec_pos' = 0
  /\ \E keys \in SUBSET Buttons : flags' = keys /\ stale' = keys
  /\ dead' = 0
  /\ jump_key' = FreshJumpKey
  /\ air' = 0
  /\ played' = 0
  /\ rejumps' = {}
  /\ UNCHANGED <<size, rejump, file, log, since, jumps>>

\* A run's count is spent one tick early.
RunLastsShort(rp) == data[rp].cycle_count > 1

\* A run counted down through zero.
RunLastsLong(rp) == data[rp].cycle_count >= 0

RunLasts(rp) == data[rp].cycle_count > 0

\* One tick out of the stream, with the cursor one past the record it reads.
DecodeFirst ==
  /\ rec_pos = 0
  /\ rec_pos' = rec_pos + 1
  /\ UNCHANGED <<flags, data>>

DecodePastEnd ==
  /\ rec_pos > 0
  /\ rec_pos - 1 >= size
  /\ flags' = {}
  /\ UNCHANGED <<rec_pos, data>>

DecodeRecord ==
  LET rp == rec_pos - 1 IN
  /\ rp >= 0
  /\ rp < size
  /\ flags' = data[rp].key_flags
  /\ \/ /\ RunLasts(rp)
        /\ data' = [data EXCEPT ![rp].cycle_count = @ - 1]
        /\ UNCHANGED rec_pos
     \/ /\ ~RunLasts(rp)
        /\ rec_pos' = rec_pos + 1
        /\ UNCHANGED data

\* One tick of a playback: decode, then the same steer and jump.
PlayTick ==
  /\ mode = "playback"
  /\ played < MaxPlayed
  /\ DecodeFirst \/ DecodePastEnd \/ DecodeRecord
  /\ SteerAndJump(flags')
  /\ rejumps' = IF JumpsWith(flags') THEN rejumps \cup {played} ELSE rejumps
  /\ played' = played + 1
  /\ UNCHANGED <<mode, size, dead, rejump, file, log, since, stale, jumps>>

Next == RecordTick \/ Die \/ Save \/ Load \/ PlayTick

Spec == Init /\ [][Next]_vars

-----------------------------------------------------------------------------
(* Properties.                                                             *)

TypeOK ==
  /\ mode \in {"recording", "saved", "playback"}
  /\ data \in [Slots -> Trecord]
  /\ size \in Nat
  /\ rec_pos \in Nat
  /\ flags \in SUBSET (Buttons \cup {Sentinel})
  /\ dead \in {0, 1}
  /\ jump_key \in {-1, 0, 1}
  /\ air \in 0 .. AirTicks
  /\ rejump \in {0, 1}
  /\ file \in [Slots -> Trecord]
  /\ log \in Seq(SUBSET Recorded)
  /\ since \in [Slots -> Nat]
  /\ played \in Nat
  /\ stale \in SUBSET Buttons
  /\ jumps \in SUBSET Nat
  /\ rejumps \in SUBSET Nat

\* Neither half of handle_player_input reaches a record that create_replay
\* did not allocate, and save_replay writes out none that it did not also
\* clear: the terminator needs two records past the cursor, the file one.
WithinBuffer ==
  /\ mode = "recording" => rec_pos + 2 \in Slots /\ rec_pos + 1 < Capacity
  /\ mode # "recording" => size <= Capacity

\* Each record is a maximal run: no two neighbours hold the same keys, and
\* the terminator is not among them.
RunsAreMaximal ==
  mode = "recording" =>
    /\ \A i \in 1 .. rec_pos : data[i].key_flags # data[i - 1].key_flags
    /\ \A i \in 0 .. rec_pos : Sentinel \notin data[i].key_flags

\* A playback steers by the recorded keys: at its k-th tick by those of the
\* (k-2)-th recorded one, log[k-1], and by none after the last.  Only the
\* first tick is not the recording's: it has the flags it found.
PlaybackFaithful ==
  mode = "playback" /\ played > 0 =>
    flags \cap Recorded =
      IF played = 1 THEN stale \cap Recorded
      ELSE IF played - 1 <= Len(log) THEN log[played - 1] ELSE {}

\* The jumps of a playback are those of the recording, two ticks later.
JumpsAgree == rejumps = {i \in jumps : i < played}

\* They are, provided the game did not start with fire held (or, where
\* holding fire jumps again and again, the playback did not).
JumpsFaithful ==
  /\ mode = "playback"
  /\ IF rejump # 0 THEN Fire \notin stale
     ELSE Len(log) > 1 => Fire \notin log[2]
  => JumpsAgree

\* "replay playback is bit-exact by construction": they are, whatever the
\* recorded keys were and even when the playback finds no key held.
PlaybackIsExact == mode = "playback" /\ Fire \notin stale => JumpsAgree

\* The stream implements the tape.
Tape == INSTANCE InputTape WITH
          tape <- log, held <- flags \cap Recorded

ImplementsTape == Tape!Spec
=============================================================================
