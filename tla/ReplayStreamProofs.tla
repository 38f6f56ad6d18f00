------------------------- MODULE ReplayStreamProofs -------------------------
(***************************************************************************)
(* Proofs about the input seam, for every set of keys, every buffer        *)
(* capacity and every length of game that fits it.                         *)
(***************************************************************************)
EXTENDS ReplayStream, TLAPS

USE ReplayAssumption

-----------------------------------------------------------------------------
(* Type correctness.                                                       *)

LEMMA BlankType == Blank \in Trecord
  BY DEF Blank, Trecord, Masks

LEMMA FreshType == \A n \in Nat : create_replay(n) \in [Slots -> Trecord]
  BY BlankType, JunkAssumption DEF create_replay, Trecord, Masks, RecKeyMask

LEMMA SteerType ==
  ASSUME TypeOK, NEW keys, SteerAndJump(keys)
  PROVE  jump_key' \in {-1, 0, 1} /\ air' \in 0 .. AirTicks
  BY DEF TypeOK, SteerAndJump, NextJumpKey, NextAir

\* Where the recording cursor stands: the encoder never outruns the ticks.
CursorInv ==
  mode = "recording" =>
    /\ rec_pos + 1 <= Len(log)
    /\ Len(log) <= MaxTicks + 1

\* The saved size is known to be that of a recording that fits.
SizeInv == mode # "recording" => size >= 2 /\ size <= Capacity

\* The decoder's cursor is at most one past the end of the stream.
PlayCursorInv == mode = "playback" => rec_pos <= size + 1

Bounds == TypeOK /\ CursorInv /\ SizeInv /\ PlayCursorInv

LEMMA InitBounds == Init => Bounds
<1> SUFFICES ASSUME Init PROVE Bounds
  OBVIOUS
<1>1. data \in [Slots -> Trecord] /\ file \in [Slots -> Trecord]
  BY BlankType, FreshType DEF FreshJumpKey, Init
<1>2. since \in [Slots -> Nat]
  BY DEF FreshJumpKey, Init
<1>3. log \in Seq(SUBSET Recorded) /\ Len(log) = 1
  BY DEF FreshJumpKey, Init
<1>4. TypeOK
  BY <1>1, <1>2, <1>3 DEF FreshJumpKey, Init, TypeOK
<1> QED
  BY <1>3, <1>4 DEF FreshJumpKey, Init, Bounds, CursorInv, SizeInv, PlayCursorInv

\* The encoder's half of a tick.
LEMMA RecordBounds == ASSUME Bounds, RecordTick PROVE Bounds'
<1> USE DEF Bounds
<1>1. PICK keys \in SUBSET Buttons :
        /\ flags' = keys
        /\ \/ AtEnd /\ WriteSentinel
           \/ /\ ~AtEnd
              /\ Len(log) <= MaxTicks
              /\ SameRun(keys)
              /\ ExtendRun
              /\ log' = Append(log, keys \cap RecKeyMask)
           \/ /\ ~AtEnd
              /\ Len(log) <= MaxTicks
              /\ ~SameRun(keys)
              /\ StartRun(keys)
              /\ log' = Append(log, keys \cap RecKeyMask)
        /\ SteerAndJump(keys)
        /\ jumps' = IF JumpsWith(keys) THEN jumps \cup {Len(log) + 1} ELSE jumps
  BY DEF RecordTick
<1>2. /\ mode = "recording"
      /\ UNCHANGED <<mode, size, dead, rejump, file, played, stale, rejumps>>
  BY DEF RecordTick
<1>3. rec_pos \in 0 .. MaxTicks /\ rec_pos + 1 \in Slots /\ rec_pos + 2 \in Slots
      /\ rec_pos \in Slots
  BY <1>2 DEF CursorInv, TypeOK, Slots
<1>4. jump_key' \in {-1, 0, 1} /\ air' \in 0 .. AirTicks
  BY <1>1, SteerType
<1>n. Len(log) + 1 \in Nat
  BY DEF TypeOK
<1>5. jumps' \in SUBSET Nat
  <2>1. jumps' = jumps \cup {Len(log) + 1} \/ jumps' = jumps
    BY <1>1
  <2>2. jumps \in SUBSET Nat
    BY DEF TypeOK
  <2> QED
    BY <1>n, <2>1, <2>2
<1>6. keys \cap RecKeyMask \in SUBSET Recorded
      /\ keys \cap RecKeyMask \in Masks
  BY DEF RecKeyMask, Masks
<1>7. CASE AtEnd /\ WriteSentinel
  <2>1. [key_flags |-> {Sentinel}, cycle_count |-> 0] \in Trecord
    BY DEF Trecord, Masks, RecKeyMask
  <2>2. data' \in [Slots -> Trecord]
    BY <1>7, <2>1, BlankType DEF WriteSentinel, TypeOK
  <2>3. UNCHANGED <<rec_pos, log, since>>
    BY <1>7 DEF WriteSentinel
  <2> QED
    BY <1>1, <1>2, <1>4, <1>5, <2>2, <2>3
       DEF TypeOK, CursorInv, SizeInv, PlayCursorInv
<1>8. CASE ~AtEnd /\ Len(log) <= MaxTicks /\ SameRun(keys) /\ ExtendRun
           /\ log' = Append(log, keys \cap RecKeyMask)
  <2>1. log' \in Seq(SUBSET Recorded) /\ Len(log') = Len(log) + 1
    BY <1>8, <1>6 DEF TypeOK
  <2>2. data[rec_pos] \in Trecord
    BY <1>3 DEF TypeOK
  <2>3. [data[rec_pos] EXCEPT !.cycle_count = @ + 1] \in Trecord
    BY <2>2 DEF Trecord
  <2>4. data' \in [Slots -> Trecord]
    BY <1>8, <2>3 DEF ExtendRun, TypeOK
  <2>5. UNCHANGED <<rec_pos, since>>
    BY <1>8 DEF ExtendRun
  <2> QED
    BY <1>1, <1>2, <1>4, <1>5, <1>8, <2>1, <2>4, <2>5
       DEF TypeOK, CursorInv, SizeInv, PlayCursorInv
<1>9. CASE ~AtEnd /\ Len(log) <= MaxTicks /\ ~SameRun(keys) /\ StartRun(keys)
           /\ log' = Append(log, keys \cap RecKeyMask)
  <2>1. log' \in Seq(SUBSET Recorded) /\ Len(log') = Len(log) + 1
    BY <1>9, <1>6 DEF TypeOK
  <2>2. [key_flags |-> keys \cap RecKeyMask, cycle_count |-> 0] \in Trecord
    BY <1>6 DEF Trecord
  <2>3. data' \in [Slots -> Trecord]
    BY <1>9, <2>2 DEF StartRun, TypeOK
  <2>4. since' \in [Slots -> Nat] /\ rec_pos' = rec_pos + 1
    BY <1>9, <1>n DEF StartRun, TypeOK
  <2> QED
    BY <1>1, <1>2, <1>4, <1>5, <1>9, <2>1, <2>3, <2>4
       DEF TypeOK, CursorInv, SizeInv, PlayCursorInv
<1> QED
  BY <1>1, <1>7, <1>8, <1>9

\* The decoder's half of a tick.
LEMMA PlayBounds == ASSUME Bounds, PlayTick PROVE Bounds'
<1> USE DEF Bounds
<1>1. /\ mode = "playback"
      /\ UNCHANGED <<mode, size, dead, rejump, file, log, since, stale, jumps>>
      /\ SteerAndJump(flags')
      /\ played' = played + 1
      /\ rejumps' = IF JumpsWith(flags') THEN rejumps \cup {played} ELSE rejumps
      /\ DecodeFirst \/ DecodePastEnd \/ DecodeRecord
  BY DEF PlayTick
<1>2. jump_key' \in {-1, 0, 1} /\ air' \in 0 .. AirTicks
  BY <1>1, SteerType
<1>3. rejumps' \in SUBSET Nat /\ played' \in Nat
  BY <1>1 DEF TypeOK
<1>4. /\ data' \in [Slots -> Trecord]
      /\ flags' \in SUBSET (Buttons \cup {Sentinel})
      /\ rec_pos' \in Nat
      /\ rec_pos' <= size + 1
  <2>1. CASE DecodeFirst
    BY <1>1, <2>1 DEF DecodeFirst, TypeOK
  <2>2. CASE DecodePastEnd
    BY <1>1, <2>2 DEF DecodePastEnd, TypeOK, PlayCursorInv
  <2>3. CASE DecodeRecord
    <3>1. rec_pos - 1 \in Slots /\ rec_pos > 0 /\ rec_pos <= size
      <4>1. size \in Nat /\ rec_pos \in Nat
        BY DEF TypeOK
      <4>2. size <= Capacity /\ Capacity \in Nat
        BY <1>1 DEF SizeInv, ReplayAssumption
      <4>3. rec_pos - 1 >= 0 /\ rec_pos - 1 < size
        BY <2>3 DEF DecodeRecord
      <4> QED
        BY <4>1, <4>2, <4>3 DEF Slots
    <3>2. data[rec_pos - 1] \in Trecord
      BY <3>1 DEF TypeOK
    <3>3. flags' \in SUBSET (Buttons \cup {Sentinel})
      BY <2>3, <3>2 DEF DecodeRecord, Trecord, Masks, RecKeyMask
    <3>4. CASE RunLasts(rec_pos - 1)
      <4>1. [data[rec_pos - 1] EXCEPT !.cycle_count = @ - 1] \in Trecord
        BY <3>2, <3>4 DEF Trecord, RunLasts
      <4>2. data' = [data EXCEPT ![rec_pos - 1].cycle_count = @ - 1]
            /\ rec_pos' = rec_pos
        BY <2>3, <3>4 DEF DecodeRecord
      <4> QED
        BY <3>1, <3>3, <4>1, <4>2 DEF TypeOK
    <3>5. CASE ~RunLasts(rec_pos - 1)
      BY SMTT(30), <2>3, <3>1, <3>3, <3>5 DEF DecodeRecord, TypeOK
    <3> QED
      BY <3>4, <3>5
  <2> QED
    BY <1>1, <2>1, <2>2, <2>3
<1> QED
  BY <1>1, <1>2, <1>3, <1>4 DEF TypeOK, CursorInv, SizeInv, PlayCursorInv

LEMMA NextBounds == Bounds /\ [Next]_vars => Bounds'
<1> SUFFICES ASSUME Bounds, [Next]_vars PROVE Bounds'
  OBVIOUS
<1> USE DEF Bounds
<1>1. CASE RecordTick
  BY <1>1, RecordBounds
<1>2. CASE Die
  BY <1>2 DEF Die, TypeOK, CursorInv, SizeInv, PlayCursorInv
<1>3. CASE Save
  <2>1. file' \in [Slots -> Trecord]
    BY <1>3, BlankType DEF Save, TypeOK
  <2> QED
    BY <1>3, <2>1 DEF Save, SavedSize, TypeOK, CursorInv, SizeInv, PlayCursorInv
<1>4. CASE Load
  <2>1. data' \in [Slots -> Trecord]
    BY <1>4, FreshType DEF Load, TypeOK
  <2> QED
    BY <1>4, <2>1 DEF FreshJumpKey, Load, TypeOK, CursorInv, SizeInv, PlayCursorInv
<1>5. CASE PlayTick
  BY <1>5, PlayBounds
<1>6. CASE UNCHANGED vars
  BY <1>6 DEF vars, TypeOK, CursorInv, SizeInv, PlayCursorInv
<1> QED
  BY <1>1, <1>2, <1>3, <1>4, <1>5, <1>6 DEF Next

LEMMA BoundsHold == Spec => []Bounds
<1> QED
  BY InitBounds, NextBounds, PTL DEF Spec

\* Every variable of the seam keeps its type, whatever the keys and however
\* long the game.
THEOREM TypeCorrect == Spec => []TypeOK
<1>1. Bounds => TypeOK
  BY DEF Bounds
<1> QED
  BY <1>1, BoundsHold, PTL

\* A game of at most Capacity - 2 ticks never reaches past its buffer.
THEOREM BufferSuffices == Spec => []WithinBuffer
<1>1. Bounds => WithinBuffer
  BY DEF Bounds, TypeOK, CursorInv, SizeInv, WithinBuffer, Slots
<1> QED
  BY <1>1, BoundsHold, PTL
-----------------------------------------------------------------------------
(***************************************************************************)
(* Whatever is recorded, a playback of the saved stream steers by the same *)
(* keys, and ReplayStream implements InputTape.                            *)
(*                                                                         *)
(* The invariant says what the run-length encoding means.  since[i] is the *)
(* index in log of the first tick of record i, so record i stands for the  *)
(* interval since[i] .. since[i] + cycle_count; the intervals of a stream  *)
(* follow one another and end where log ends.  A playback has used up the  *)
(* part of its current interval that cycle_count no longer counts.         *)
(***************************************************************************)

\* Records 0..n of the stream d spell out log.
Spells(d, n) ==
  /\ since[0] = 1
  /\ \A i \in 0 .. n : d[i].key_flags \in SUBSET Recorded
  /\ \A i \in 0 .. n : since[i] + d[i].cycle_count <= Len(log)
  /\ \A i \in 0 .. n - 1 : since[i + 1] = since[i] + d[i].cycle_count + 1
  /\ Len(log) = since[n] + d[n].cycle_count
  /\ \A i \in 0 .. n : \A t \in since[i] .. since[i] + d[i].cycle_count :
       log[t] = d[i].key_flags

\* The record after the stream: the terminator, or still blank.
Ends(d, n) == d[n].key_flags \subseteq {Sentinel} /\ d[n].cycle_count = 0

Encoded ==
  mode = "recording" => 
    /\ Spells(data, rec_pos)
    /\ \A i \in 0 .. Capacity - 1 : i > rec_pos => Ends(data, i)

Stored ==
  mode # "recording" => Spells(file, size - 2) /\ Ends(file, size - 1)

\* The decoder's cursor against the tape's: nothing is decoded before the
\* second tick, the records ahead are as loaded, the current one has its keys
\* and what is left of its count, and the ticks played tell how much is.
NotStarted ==
  /\ rec_pos = 0 => played = 0 /\ flags = stale
  /\ rec_pos > 0 => played > 0

Ahead == \A j \in 0 .. size - 1 : j >= rec_pos => data[j] = file[j]

Current ==
  rec_pos > 0 /\ rec_pos <= size =>
    /\ data[rec_pos - 1].key_flags = file[rec_pos - 1].key_flags
    /\ data[rec_pos - 1].cycle_count <= file[rec_pos - 1].cycle_count

Position ==
  rec_pos > 0 /\ rec_pos < size =>
    played = since[rec_pos - 1] + file[rec_pos - 1].cycle_count
             - data[rec_pos - 1].cycle_count

PastEnd == rec_pos >= size => played > Len(log)

Decoding ==
  mode = "playback" => NotStarted /\ Ahead /\ Current /\ Position /\ PastEnd

MaximalRuns == mode = "recording" =>
  \A i \in 1 .. rec_pos : data[i].key_flags # data[i - 1].key_flags

IInv ==
  /\ Bounds
  /\ Encoded
  /\ Stored
  /\ Decoding
  /\ MaximalRuns
  /\ PlaybackFaithful

-----------------------------------------------------------------------------
LEMMA InitIInv == Init => IInv
<1> SUFFICES ASSUME Init PROVE IInv
  OBVIOUS
<1>1. Bounds
  BY InitBounds
<1>2. 0 \in Slots /\ 1 \in Slots
  BY DEF Slots
<1>3. /\ \A i \in 0 .. Capacity - 1 : i \in Slots /\ data[i] = Blank
      /\ since[0] = 1 /\ rec_pos = 0
  BY <1>2 DEF Init, create_replay, Slots
<1>4. Len(log) = 1 /\ log[1] = {}
  BY DEF Init
<1>5. Spells(data, rec_pos)
  BY <1>3, <1>4 DEF Spells, Blank
<1>6. \A i \in 0 .. Capacity - 1 : Ends(data, i)
  BY <1>3 DEF Ends, Blank
<1> QED
  BY <1>1, <1>3, <1>5, <1>6
     DEF Init, IInv, Encoded, Stored, Decoding, MaximalRuns, PlaybackFaithful

\* A stream spells the same log when the array agrees with it up to the
\* last record.
LEMMA SpellsSame ==
  ASSUME NEW d, NEW e, NEW n \in Nat, Spells(d, n),
         \A i \in 0 .. n : e[i] = d[i]
  PROVE  Spells(e, n)
<1>1. \A i \in 0 .. n - 1 : i \in 0 .. n
  OBVIOUS
<1>2. n \in 0 .. n
  OBVIOUS
<1>3. \A i \in 0 .. n : e[i].key_flags \in SUBSET Recorded
  BY DEF Spells
<1>4. \A i \in 0 .. n : since[i] + e[i].cycle_count <= Len(log)
  BY DEF Spells
<1>5. \A i \in 0 .. n - 1 : since[i + 1] = since[i] + e[i].cycle_count + 1
  BY <1>1 DEF Spells
<1>6. Len(log) = since[n] + e[n].cycle_count
  BY <1>2 DEF Spells
<1>7. \A i \in 0 .. n : \A t \in since[i] .. since[i] + e[i].cycle_count :
        log[t] = e[i].key_flags
  BY DEF Spells
<1> QED
  BY <1>3, <1>4, <1>5, <1>6, <1>7 DEF Spells

\* Every record of a spelled stream is well typed and starts inside log.
LEMMA SpellTypes ==
  ASSUME NEW d \in [Slots -> Trecord], since \in [Slots -> Nat],
         NEW n \in Nat, 0 .. n \subseteq Slots, Spells(d, n)
  PROVE  \A i \in 0 .. n : /\ d[i].key_flags \in SUBSET Recorded
                          /\ d[i].cycle_count \in Nat
                          /\ since[i] \in Nat
                          /\ since[i] >= 1
<1>1. \A i \in 0 .. n : d[i].cycle_count \in Nat /\ since[i] \in Nat
  BY DEF Trecord
<1>2. \A i \in 0 .. n : since[i] >= 1
  <2> SUFFICES ASSUME NEW i \in 0 .. n PROVE since[i] >= 1
    OBVIOUS
  <2>1. CASE i = 0
    BY <2>1 DEF Spells
  <2>2. CASE i > 0
    <3>1. i - 1 \in 0 .. n - 1 /\ i - 1 \in 0 .. n /\ (i - 1) + 1 = i
      BY <2>2
    <3>2. since[(i - 1) + 1] = since[i - 1] + d[i - 1].cycle_count + 1
      BY <3>1 DEF Spells
    <3> QED
      BY <1>1, <3>1, <3>2
  <2> QED
    BY <2>1, <2>2
<1> QED
  BY <1>1, <1>2 DEF Spells

\* One more tick of the same keys.
LEMMA ExtendSpells ==
  ASSUME Bounds, mode = "recording", Spells(data, rec_pos),
         NEW keys \in SUBSET Recorded,
         data[rec_pos].key_flags = keys,
         ExtendRun, log' = Append(log, keys)
  PROVE  Spells(data, rec_pos)'
<1> USE DEF Bounds
<1>1. /\ data \in [Slots -> Trecord] /\ since \in [Slots -> Nat]
      /\ rec_pos \in Nat /\ log \in Seq(SUBSET Recorded)
      /\ rec_pos + 1 <= Len(log) /\ Len(log) <= MaxTicks + 1
  BY DEF TypeOK, CursorInv
<1>2. 0 .. rec_pos \subseteq Slots
  BY <1>1 DEF Slots
<1>3. \A i \in 0 .. rec_pos : /\ data[i].key_flags \in SUBSET Recorded
                             /\ data[i].cycle_count \in Nat
                             /\ since[i] \in Nat
                             /\ since[i] >= 1
  BY <1>1, <1>2, SpellTypes
<1>15. rec_pos \in 0 .. rec_pos
  <2>1. rec_pos \in Nat
    BY <1>1
  <2> QED
    BY <2>1
<1>4. /\ rec_pos' = rec_pos /\ since' = since
      /\ data' = [data EXCEPT ![rec_pos].cycle_count = @ + 1]
  BY DEF ExtendRun
<1>5. \A i \in 0 .. rec_pos : i # rec_pos => data'[i] = data[i]
  BY <1>1, <1>2, <1>4
<1>6. /\ data'[rec_pos].key_flags = data[rec_pos].key_flags
      /\ data'[rec_pos].cycle_count = data[rec_pos].cycle_count + 1
  BY <1>1, <1>2, <1>4 DEF Trecord
<1>7. /\ Len(log') = Len(log) + 1
      /\ log'[Len(log) + 1] = keys
      /\ \A t \in 1 .. Len(log) : log'[t] = log[t]
  BY <1>1
<1>8. since'[0] = 1
  BY <1>4 DEF Spells
<1>9. \A i \in 0 .. rec_pos : data'[i].key_flags \in SUBSET Recorded
  BY <1>3, <1>5, <1>6
<1>10. \A i \in 0 .. rec_pos : since'[i] + data'[i].cycle_count <= Len(log')
  <2> SUFFICES ASSUME NEW i \in 0 .. rec_pos
               PROVE  since[i] + data'[i].cycle_count <= Len(log) + 1
    BY <1>4, <1>7
  <2>1. since[i] + data[i].cycle_count <= Len(log)
    BY DEF Spells
  <2>2. data'[i].cycle_count = data[i].cycle_count
        \/ data'[i].cycle_count = data[i].cycle_count + 1
    BY <1>5, <1>6
  <2>3. since[i] \in Nat /\ data[i].cycle_count \in Nat
    BY <1>3
  <2>4. Len(log) \in Nat
    BY <1>1
  <2>5. CASE data'[i].cycle_count = data[i].cycle_count
    BY <2>1, <2>3, <2>4, <2>5
  <2>6. CASE data'[i].cycle_count = data[i].cycle_count + 1
    BY <2>1, <2>3, <2>4, <2>6
  <2> QED
    BY <2>2, <2>5, <2>6
<1>11. \A i \in 0 .. rec_pos - 1 : since'[i + 1] = since'[i] + data'[i].cycle_count + 1
  BY SMTT(30), <1>1, <1>4, <1>5 DEF Spells
<1>12. Len(log') = since'[rec_pos] + data'[rec_pos].cycle_count
  <2>1. Len(log) = since[rec_pos] + data[rec_pos].cycle_count
    BY DEF Spells
  <2>2. since[rec_pos] \in Nat /\ data[rec_pos].cycle_count \in Nat
    BY <1>3, <1>15
  <2>3. since'[rec_pos] = since[rec_pos]
    BY <1>4
  <2>4. Len(log) + 1 = since[rec_pos] + (data[rec_pos].cycle_count + 1)
    BY <2>1, <2>2
  <2> QED
    BY <1>6, <1>7, <2>3, <2>4
<1>14. ASSUME NEW i \in 0 .. rec_pos,
              NEW t \in since'[i] .. since'[i] + data'[i].cycle_count
       PROVE  log'[t] = data'[i].key_flags
  <2>1. CASE t \in since[i] .. since[i] + data[i].cycle_count
    <3>1. log[t] = data[i].key_flags
      BY <2>1 DEF Spells
    <3>2. t \in 1 .. Len(log)
      <4>1. since[i] + data[i].cycle_count <= Len(log)
        BY DEF Spells
      <4> QED
        BY <1>1, <1>3, <2>1, <4>1
    <3>3. data'[i].key_flags = data[i].key_flags
      BY <1>5, <1>6
    <3> QED
      BY <1>7, <3>1, <3>2, <3>3
  <2>2. CASE ~(t \in since[i] .. since[i] + data[i].cycle_count)
    <3>1. i = rec_pos
      BY <1>4, <1>5, <2>2
    <3>2. t = Len(log) + 1
      <4>1. t \in since[rec_pos] .. since[rec_pos] + data[rec_pos].cycle_count + 1
        BY SMTT(30), <1>1, <1>3, <1>4, <1>6, <3>1
      <4>2. Len(log) = since[rec_pos] + data[rec_pos].cycle_count
        BY DEF Spells
      <4>3. since[rec_pos] \in Nat /\ data[rec_pos].cycle_count \in Nat
        BY <1>3, <1>15
      <4> QED
        BY <2>2, <3>1, <4>1, <4>2, <4>3
    <3> QED
      BY <1>6, <1>7, <3>1, <3>2
  <2> QED
    BY <2>1, <2>2
<1> QED
  BY <1>4, <1>8, <1>9, <1>10, <1>11, <1>12, <1>14 DEF Spells

\* A tick of other keys: the stream gets one more record.
LEMMA StartSpells ==
  ASSUME Bounds, mode = "recording", Spells(data, rec_pos),
         NEW keys \in SUBSET Recorded,
         rec_pos' = rec_pos + 1,
         data' = [data EXCEPT ![rec_pos + 1] =
                    [key_flags |-> keys, cycle_count |-> 0]],
         since' = [since EXCEPT ![rec_pos + 1] = Len(log) + 1],
         log' = Append(log, keys)
  PROVE  Spells(data, rec_pos)'
<1> USE DEF Bounds
<1>1. /\ data \in [Slots -> Trecord] /\ since \in [Slots -> Nat]
      /\ rec_pos \in Nat /\ log \in Seq(SUBSET Recorded)
      /\ rec_pos + 1 <= Len(log) /\ Len(log) <= MaxTicks + 1
  BY DEF TypeOK, CursorInv
<1>2. 0 .. rec_pos + 1 \subseteq Slots /\ 0 .. rec_pos \subseteq Slots
  BY <1>1 DEF Slots
<1>3. \A i \in 0 .. rec_pos : /\ data[i].key_flags \in SUBSET Recorded
                             /\ data[i].cycle_count \in Nat
                             /\ since[i] \in Nat
                             /\ since[i] >= 1
  BY <1>1, <1>2, SpellTypes
<1>4. \A i \in 0 .. rec_pos : data'[i] = data[i] /\ since'[i] = since[i]
  BY <1>1, <1>2
<1>5. /\ data'[rec_pos + 1].key_flags = keys
      /\ data'[rec_pos + 1].cycle_count = 0
      /\ since'[rec_pos + 1] = Len(log) + 1
  BY <1>1, <1>2
<1>6. /\ Len(log') = Len(log) + 1
      /\ log'[Len(log) + 1] = keys
      /\ \A t \in 1 .. Len(log) : log'[t] = log[t]
  BY <1>1
<1>7. \A i \in 0 .. rec_pos + 1 : i \in 0 .. rec_pos \/ i = rec_pos + 1
  BY <1>1
<1>8. Len(log) = since[rec_pos] + data[rec_pos].cycle_count
  BY DEF Spells
<1>9. since'[0] = 1
  BY <1>1, <1>4 DEF Spells
<1>10. \A i \in 0 .. rec_pos + 1 : data'[i].key_flags \in SUBSET Recorded
  BY <1>3, <1>4, <1>5, <1>7
<1>11. \A i \in 0 .. rec_pos + 1 : since'[i] + data'[i].cycle_count <= Len(log')
  <2> SUFFICES ASSUME NEW i \in 0 .. rec_pos + 1
               PROVE  since'[i] + data'[i].cycle_count <= Len(log')
    OBVIOUS
  <2>1. CASE i \in 0 .. rec_pos
    <3>1. since[i] + data[i].cycle_count <= Len(log)
      BY <2>1 DEF Spells
    <3>2. since[i] \in Nat /\ data[i].cycle_count \in Nat
      BY <1>3, <2>1
    <3> QED
      BY <1>1, <1>4, <1>6, <2>1, <3>1, <3>2
  <2>2. CASE i = rec_pos + 1
    BY <1>1, <1>5, <1>6, <2>2
  <2> QED
    BY <1>7, <2>1, <2>2
<1>12. \A i \in 0 .. rec_pos : since'[i + 1] = since'[i] + data'[i].cycle_count + 1
  <2> SUFFICES ASSUME NEW i \in 0 .. rec_pos
               PROVE  since'[i + 1] = since'[i] + data'[i].cycle_count + 1
    OBVIOUS
  <2>1. CASE i = rec_pos
    BY <1>4, <1>5, <1>8, <2>1
  <2>2. CASE i # rec_pos
    <3>1. i \in 0 .. rec_pos - 1 /\ i + 1 \in 0 .. rec_pos
      BY <1>1, <2>2
    <3>2. since[i + 1] = since[i] + data[i].cycle_count + 1
      BY <3>1 DEF Spells
    <3> QED
      BY <1>4, <3>1, <3>2
  <2> QED
    BY <2>1, <2>2
<1>14. ASSUME NEW i \in 0 .. rec_pos + 1,
              NEW t \in since'[i] .. since'[i] + data'[i].cycle_count
       PROVE  log'[t] = data'[i].key_flags
  <2>1. CASE i \in 0 .. rec_pos
    <3>1. t \in since[i] .. since[i] + data[i].cycle_count
      BY <1>4, <2>1
    <3>2. log[t] = data[i].key_flags
      BY <2>1, <3>1 DEF Spells
    <3>3. since[i] + data[i].cycle_count <= Len(log)
      BY <2>1 DEF Spells
    <3>4. t \in 1 .. Len(log)
      BY <1>1, <1>3, <2>1, <3>1, <3>3
    <3> QED
      BY <1>4, <1>6, <2>1, <3>2, <3>4
  <2>2. CASE i = rec_pos + 1
    <3>1. t = Len(log) + 1
      BY <1>1, <1>5, <2>2
    <3> QED
      BY <1>5, <1>6, <2>2, <3>1
  <2> QED
    BY <1>7, <2>1, <2>2
<1>15. Len(log') = since'[rec_pos + 1] + data'[rec_pos + 1].cycle_count
  BY <1>1, <1>5, <1>6
<1>16. rec_pos' - 1 = rec_pos
  BY <1>1
<1>17. \A i \in 0 .. rec_pos' - 1 : since'[i + 1] = since'[i] + data'[i].cycle_count + 1
  BY <1>12, <1>16
<1>18. \A i \in 0 .. rec_pos' : \A t \in since'[i] .. since'[i] + data'[i].cycle_count :
         log'[t] = data'[i].key_flags
  BY <1>14
<1> QED
  BY <1>9, <1>10, <1>11, <1>15, <1>17, <1>18 DEF Spells

LEMMA RecordIInv == ASSUME IInv, RecordTick PROVE IInv'
<1> USE DEF IInv
<1>1. PICK keys \in SUBSET Buttons :
        \/ AtEnd /\ WriteSentinel
        \/ /\ ~AtEnd /\ SameRun(keys) /\ ExtendRun
           /\ log' = Append(log, keys \cap RecKeyMask)
        \/ /\ ~AtEnd /\ ~SameRun(keys) /\ StartRun(keys)
           /\ log' = Append(log, keys \cap RecKeyMask)
  BY DEF RecordTick
<1>2. mode = "recording" /\ mode' = mode
  BY DEF RecordTick
<1>3. Bounds'
  BY RecordBounds
<1>4. /\ Stored' /\ Decoding' /\ PlaybackFaithful'
  BY <1>2 DEF Stored, Decoding, PlaybackFaithful
<1>5. /\ Spells(data, rec_pos)
      /\ \A i \in 0 .. Capacity - 1 : i > rec_pos => Ends(data, i)
  BY <1>2 DEF Encoded
<1>6. /\ data \in [Slots -> Trecord] /\ since \in [Slots -> Nat]
      /\ rec_pos \in Nat /\ rec_pos + 2 \in Slots /\ 0 .. rec_pos + 1 \subseteq Slots
  BY <1>2 DEF Bounds, TypeOK, CursorInv, Slots
<1>7. keys \cap RecKeyMask \in SUBSET Recorded
  BY DEF RecKeyMask
<1>8. \A i \in 1 .. rec_pos : data[i].key_flags # data[i - 1].key_flags
  BY <1>2 DEF MaximalRuns
<1>9. CASE AtEnd /\ WriteSentinel
  <2>1. UNCHANGED <<rec_pos, log, since>>
    BY <1>9 DEF WriteSentinel
  <2>2. \A i \in 0 .. rec_pos : data'[i] = data[i]
    BY <1>6, <1>9 DEF WriteSentinel
  <2>3. Spells(data', rec_pos)
    BY <1>5, <1>6, <2>2, SpellsSame
  <2>4. Spells(data, rec_pos)'
    BY <2>1, <2>3 DEF Spells
  <2>5. (\A i \in 0 .. Capacity - 1 : i > rec_pos => Ends(data, i))'
    <3> SUFFICES ASSUME NEW i \in 0 .. Capacity - 1, i > rec_pos
                 PROVE  Ends(data', i)
      BY <2>1 DEF Ends
    <3>1. i \in Slots
      BY DEF Slots
    <3>2. CASE i = rec_pos + 1
      BY <1>6, <1>9, <3>1, <3>2 DEF WriteSentinel, Ends
    <3>3. CASE i = rec_pos + 2
      BY <1>6, <1>9, <3>1, <3>3 DEF WriteSentinel, Ends, Blank
    <3>4. CASE i # rec_pos + 1 /\ i # rec_pos + 2
      <4>1. data'[i] = data[i]
        BY <1>6, <1>9, <3>1, <3>4 DEF WriteSentinel
      <4> QED
        BY <1>5, <4>1 DEF Ends
    <3> QED
      BY <3>2, <3>3, <3>4
  <2>6. MaximalRuns'
    BY <1>6, <1>8, <2>1, <2>2 DEF MaximalRuns
  <2> QED
    BY <1>3, <1>4, <2>4, <2>5, <2>6 DEF Encoded
<1>10. CASE /\ ~AtEnd /\ SameRun(keys) /\ ExtendRun
            /\ log' = Append(log, keys \cap RecKeyMask)
  <2>1. data[rec_pos].key_flags = keys \cap RecKeyMask
    BY <1>10 DEF SameRun
  <2>2. Spells(data, rec_pos)'
    BY <1>2, <1>5, <1>7, <1>10, <2>1, ExtendSpells
  <2>3. rec_pos' = rec_pos /\ data' = [data EXCEPT ![rec_pos].cycle_count = @ + 1]
    BY <1>10 DEF ExtendRun
  <2>5. (\A i \in 0 .. Capacity - 1 : i > rec_pos => Ends(data, i))'
    BY SMTT(30), <1>5, <1>6, <2>3 DEF Ends, Slots
  <2>6. \A i \in 0 .. rec_pos : data'[i].key_flags = data[i].key_flags
    BY <1>6, <2>3 DEF Trecord
  <2>7. MaximalRuns'
    BY <1>6, <1>8, <2>3, <2>6 DEF MaximalRuns
  <2> QED
    BY <1>3, <1>4, <2>2, <2>5, <2>7 DEF Encoded
<1>11. CASE /\ ~AtEnd /\ ~SameRun(keys) /\ StartRun(keys)
            /\ log' = Append(log, keys \cap RecKeyMask)
  <2>1. /\ rec_pos' = rec_pos + 1
        /\ data' = [data EXCEPT ![rec_pos + 1] =
                      [key_flags |-> keys \cap RecKeyMask, cycle_count |-> 0]]
        /\ since' = [since EXCEPT ![rec_pos + 1] = Len(log) + 1]
    BY <1>11 DEF StartRun
  <2>2. Spells(data, rec_pos)'
    BY <1>2, <1>5, <1>7, <1>11, <2>1, StartSpells
  <2>3. (\A i \in 0 .. Capacity - 1 : i > rec_pos => Ends(data, i))'
    BY <1>5, <1>6, <2>1 DEF Ends, Slots
  <2>4. \A i \in 0 .. rec_pos : data'[i] = data[i]
    BY <1>6, <2>1
  <2>5. data'[rec_pos + 1].key_flags # data[rec_pos].key_flags
    BY <1>6, <1>11, <2>1 DEF SameRun
  <2>6. MaximalRuns'
    BY <1>6, <1>8, <2>1, <2>4, <2>5 DEF MaximalRuns
  <2> QED
    BY <1>3, <1>4, <2>2, <2>3, <2>6 DEF Encoded
<1> QED
  BY <1>1, <1>9, <1>10, <1>11

\* What the decoder's half of a tick does to the keys and to the cursor.
LEMMA DecodeIInv ==
  ASSUME IInv, mode = "playback", played' = played + 1,
         UNCHANGED <<mode, size, file, log, since, stale>>,
         DecodeFirst \/ DecodePastEnd \/ DecodeRecord
  PROVE  Decoding' /\ PlaybackFaithful'
<1> USE DEF IInv
<1>1. /\ data \in [Slots -> Trecord] /\ file \in [Slots -> Trecord]
      /\ since \in [Slots -> Nat] /\ log \in Seq(SUBSET Recorded)
      /\ rec_pos \in Nat /\ size \in Nat /\ played \in Nat
      /\ size >= 2 /\ size <= Capacity /\ rec_pos <= size + 1
      /\ flags \in SUBSET (Buttons \cup {Sentinel}) /\ stale \in SUBSET Buttons
      /\ Len(log) \in Nat
  BY DEF Bounds, TypeOK, SizeInv, PlayCursorInv
<1>n. /\ rec_pos \in Int /\ size \in Int /\ played \in Int /\ Len(log) \in Int
      /\ rec_pos >= 0 /\ played >= 0 /\ Len(log) >= 0
      /\ size >= 2 /\ rec_pos <= size + 1
  BY <1>1
<1>2. 0 .. size - 1 \subseteq Slots /\ 0 .. size - 2 \subseteq Slots
      /\ size - 2 \in Nat
  BY <1>1 DEF Slots
<1>3. Spells(file, size - 2) /\ Ends(file, size - 1)
  BY DEF Stored
<1>4. \A i \in 0 .. size - 2 : /\ file[i].key_flags \in SUBSET Recorded
                               /\ file[i].cycle_count \in Nat
                               /\ since[i] \in Nat /\ since[i] >= 1
                               /\ since[i] + file[i].cycle_count <= Len(log)
  BY <1>1, <1>2, <1>3, SpellTypes DEF Spells
<1>5. \A j \in 0 .. size - 1 : data[j].cycle_count \in Nat
  BY <1>1, <1>2 DEF Trecord
<1>6. since[0] = 1 /\ Len(log) = since[size - 2] + file[size - 2].cycle_count
  BY <1>3 DEF Spells
<1>7. NotStarted /\ Ahead /\ Current /\ Position /\ PastEnd
  BY DEF Decoding
<1>8. CASE DecodeFirst
  <2>1. /\ rec_pos = 0 /\ played = 0 /\ rec_pos' = 1 /\ played' = 1
        /\ flags' = stale /\ data' = data
    BY <1>1, <1>7, <1>8 DEF DecodeFirst, NotStarted
  <2>2. data[0] = file[0] /\ 0 \in 0 .. size - 2
    BY <1>1, <1>7, <2>1 DEF Ahead
  <2>3. 1 = since[0] + file[0].cycle_count - data[0].cycle_count
    BY <1>4, <1>6, <2>2
  <2>4. NotStarted'
    BY <2>1 DEF NotStarted
  <2>5. Ahead'
    BY <1>1, <1>7, <2>1 DEF Ahead
  <2>6. Current'
    BY <1>4, <2>1, <2>2 DEF Current
  <2>7. Position'
    BY <2>1, <2>2, <2>3 DEF Position
  <2>8. PastEnd'
    BY <1>1, <2>1 DEF PastEnd
  <2> QED
    BY <2>1, <2>4, <2>5, <2>6, <2>7, <2>8 DEF PlaybackFaithful, Decoding
<1>9. CASE DecodePastEnd
  <2>1. /\ rec_pos > 0 /\ rec_pos > size /\ flags' = {}
        /\ rec_pos' = rec_pos /\ data' = data /\ played > Len(log) /\ played > 0
    BY <1>1, <1>7, <1>9 DEF DecodePastEnd, PastEnd, NotStarted
  <2>2. NotStarted' /\ Ahead' /\ Current' /\ Position'
    BY <1>1, <1>7, <2>1 DEF NotStarted, Ahead, Current, Position
  <2>3. PastEnd'
    BY <1>1, <2>1 DEF PastEnd
  <2>4. PlaybackFaithful'
    BY <1>1, <2>1 DEF PlaybackFaithful
  <2> QED
    BY <2>2, <2>3, <2>4 DEF Decoding
<1>10. CASE DecodeRecord
  <2> DEFINE rp == rec_pos - 1
  <2>n. /\ rp \in Int /\ rp >= 0 /\ rp < size /\ rec_pos = rp + 1
    BY <1>10, <1>n DEF DecodeRecord
  <2>m. rp \in 0 .. size - 1 /\ rp \in Slots
    BY <1>n, <1>2, <2>n
  <2>1. /\ flags' = data[rp].key_flags
        /\ \/ /\ data[rp].cycle_count > 0
              /\ data' = [data EXCEPT ![rp].cycle_count = @ - 1]
              /\ rec_pos' = rec_pos
           \/ /\ ~(data[rp].cycle_count > 0)
              /\ data' = data
              /\ rec_pos' = rec_pos + 1
    BY <1>10, <2>n DEF DecodeRecord, RunLasts
  <2>2. played > 0 /\ rec_pos > 0 /\ played' > 1
    <3>1. played > 0 /\ rec_pos > 0
      BY <1>n, <1>7, <2>n DEF NotStarted
    <3> QED
      BY <1>n, <3>1
  <2>3. /\ data[rp].key_flags = file[rp].key_flags
        /\ data[rp].cycle_count <= file[rp].cycle_count
        /\ data[rp].cycle_count \in Nat
    <3>1. rec_pos > 0 /\ rec_pos <= size
      BY <1>n, <2>n
    <3> QED
      BY <1>5, <1>7, <2>m, <3>1 DEF Current
  <2>4. rp < size - 1 => played = since[rp] + file[rp].cycle_count
                                  - data[rp].cycle_count
    BY <1>n, <1>7, <2>n DEF Position
  <2> HIDE DEF rp
  <2>5. NotStarted'
    BY <1>n, <2>1, <2>2 DEF NotStarted
  <2>6. Ahead'
    <3> SUFFICES ASSUME NEW j \in 0 .. size - 1, j >= rec_pos'
                 PROVE  data'[j] = file[j]
      BY <1>1 DEF Ahead
    <3>1. j >= rec_pos /\ j # rp
      BY SMTT(30), <1>n, <2>n, <2>1
    <3>2. data'[j] = data[j]
      BY <1>1, <1>2, <2>1, <2>m, <3>1
    <3> QED
      BY <1>7, <3>1, <3>2 DEF Ahead
  <2>7. CASE rp < size - 1
    <3>1. rp \in 0 .. size - 2
      BY <1>n, <2>n, <2>7
    <3>n. /\ since[rp] \in Int /\ file[rp].cycle_count \in Int
          /\ data[rp].cycle_count \in Int /\ data[rp].cycle_count >= 0
          /\ data[rp].cycle_count <= file[rp].cycle_count
          /\ since[rp] + file[rp].cycle_count <= Len(log)
      BY <1>4, <2>3, <3>1
    <3>2. played = since[rp] + file[rp].cycle_count - data[rp].cycle_count
      BY <2>4, <2>7
    <3>3. played \in since[rp] .. since[rp] + file[rp].cycle_count
          /\ played <= Len(log)
      BY <1>n, <3>n, <3>2
    <3>4. flags' = log[played]
      BY <1>3, <2>1, <2>3, <3>1, <3>3 DEF Spells
    <3>5. file[rp].key_flags \in SUBSET Recorded
      BY <1>4, <3>1
    <3>6. flags' \cap Recorded = log[played]
      BY <2>1, <2>3, <3>4, <3>5
    <3>7. PlaybackFaithful'
      <4>1. played' - 1 = played /\ played' # 1
        BY <1>1, <2>2
      <4> QED
        BY <1>1, <3>3, <3>6, <4>1 DEF PlaybackFaithful
    <3>8. CASE /\ data[rp].cycle_count > 0
               /\ data' = [data EXCEPT ![rp].cycle_count = @ - 1]
               /\ rec_pos' = rec_pos
      <4>1. /\ data'[rp].key_flags = data[rp].key_flags
            /\ data'[rp].cycle_count = data[rp].cycle_count - 1
        BY <1>1, <2>m, <3>8 DEF Trecord
      <4>2. rec_pos' - 1 = rp /\ ~(rec_pos' >= size)
        BY SMTT(30), <1>n, <2>n, <2>7, <3>8
      <4>3. data[rp].cycle_count - 1 <= file[rp].cycle_count
        BY <3>n
      <4>4. Current'
        BY <1>1, <2>3, <4>1, <4>2, <4>3 DEF Current
      <4>5. played + 1 = since[rp] + file[rp].cycle_count
                         - (data[rp].cycle_count - 1)
        BY SMTT(30), <1>n, <3>n, <3>2
      <4>6. Position'
        BY <1>1, <4>1, <4>2, <4>5 DEF Position
      <4>7. PastEnd'
        BY <1>1, <4>2 DEF PastEnd
      <4> QED
        BY <2>5, <2>6, <3>7, <4>4, <4>6, <4>7 DEF Decoding
    <3>9. CASE /\ ~(data[rp].cycle_count > 0)
               /\ data' = data
               /\ rec_pos' = rec_pos + 1
      <4>1. played = since[rp] + file[rp].cycle_count
        BY <3>n, <3>2, <3>9
      <4>2. /\ rec_pos' = rp + 2 /\ rec_pos' - 1 = rp + 1
            /\ rp + 1 \in 0 .. size - 1 /\ rp + 1 >= rec_pos
        BY <1>n, <2>n, <2>7, <3>9
      <4>3. data[rp + 1] = file[rp + 1] /\ data[rp + 1].cycle_count \in Nat
        BY <1>5, <1>7, <4>2 DEF Ahead
      <4>4. Current'
        BY <1>1, <3>9, <4>2, <4>3 DEF Current
      <4>5. Position'
        <5> SUFFICES ASSUME rec_pos' < size
                     PROVE  played + 1 = since[rp + 1] + file[rp + 1].cycle_count
                                         - data[rp + 1].cycle_count
          BY <1>1, <3>9, <4>2 DEF Position
        <5>1. rp \in 0 .. (size - 2) - 1 /\ rp + 1 \in 0 .. size - 2
          BY <1>n, <2>n, <4>2
        <5>2. since[rp + 1] = played + 1
          BY <1>3, <4>1, <5>1 DEF Spells
        <5> QED
          BY <1>1, <1>4, <4>3, <5>1, <5>2
      <4>6. PastEnd'
        <5> SUFFICES ASSUME rec_pos' >= size PROVE played + 1 > Len(log)
          BY <1>1 DEF PastEnd
        <5>1. rp = size - 2
          BY <1>n, <2>n, <2>7, <4>2
        <5> QED
          BY <1>n, <1>6, <4>1, <5>1
      <4> QED
        BY <2>5, <2>6, <3>7, <4>4, <4>5, <4>6 DEF Decoding
    <3> QED
      BY <2>1, <3>8, <3>9
  <2>8. CASE rp = size - 1
    <3>1. flags' \cap Recorded = {} /\ ~(data[rp].cycle_count > 0)
      BY <1>3, <2>1, <2>3, <2>8 DEF Ends
    <3>2. played > Len(log)
      BY <1>n, <1>7, <2>n, <2>8 DEF PastEnd
    <3>3. data' = data /\ rec_pos' = rec_pos + 1 /\ rec_pos' = size + 1
      <4>1. data' = data /\ rec_pos' = rec_pos + 1
        BY <2>1, <3>1
      <4> QED
        BY <1>n, <2>n, <2>8, <4>1
    <3>4. Current' /\ Position'
      BY <1>n, <3>3 DEF Current, Position
    <3>5. PastEnd'
      BY <1>n, <3>2 DEF PastEnd
    <3>6. PlaybackFaithful'
      BY <1>1, <2>2, <3>1, <3>2 DEF PlaybackFaithful
    <3> QED
      BY <2>5, <2>6, <3>4, <3>5, <3>6 DEF Decoding
  <2> QED
    BY <1>n, <2>n, <2>7, <2>8
<1> QED
  BY <1>8, <1>9, <1>10

LEMMA SaveIInv == ASSUME IInv, Save PROVE IInv'
<1> USE DEF IInv
<1>1. /\ mode = "recording" /\ mode' = "saved" /\ size' = rec_pos + 2
      /\ file' = [i \in Slots |-> IF i < rec_pos + 2 THEN data[i] ELSE Blank]
      /\ UNCHANGED <<log, since>>
  BY DEF Save, SavedSize
<1>2. Bounds'
  BY NextBounds DEF Next
<1>3. /\ rec_pos \in Nat /\ rec_pos + 1 \in 0 .. Capacity - 1
      /\ 0 .. rec_pos + 1 \subseteq Slots
  BY <1>1 DEF Bounds, TypeOK, CursorInv, Slots
<1>4. \A i \in 0 .. rec_pos + 1 : file'[i] = data[i]
  BY <1>1, <1>3
<1>5. Spells(data, rec_pos) /\ Ends(data, rec_pos + 1)
  BY <1>1, <1>3 DEF Encoded
<1>6. Spells(file', rec_pos)
  BY <1>3, <1>4, <1>5, SpellsSame
<1>7. size' - 2 = rec_pos /\ size' - 1 = rec_pos + 1
  BY <1>1, <1>3
<1>8. Stored'
  <2>1. Spells(file, size - 2)'
    BY <1>1, <1>6, <1>7 DEF Spells
  <2>2. Ends(file, size - 1)'
    BY <1>3, <1>4, <1>5, <1>7 DEF Ends
  <2> QED
    BY <2>1, <2>2 DEF Stored
<1> QED
  BY <1>1, <1>2, <1>8 DEF Encoded, Decoding, MaximalRuns, PlaybackFaithful

LEMMA LoadIInv == ASSUME IInv, Load PROVE IInv'
<1> USE DEF IInv
<1>1. /\ mode # "recording" /\ mode' = "playback" /\ rec_pos' = 0 /\ played' = 0
      /\ data' = [i \in Slots |-> IF i < size THEN file[i] ELSE create_replay(size)[i]]
      /\ flags' = stale'
      /\ UNCHANGED <<size, file, log, since>>
  BY DEF Load
<1>2. Bounds'
  BY NextBounds DEF Next
<1>3. size \in Nat /\ size >= 2 /\ 0 .. size - 1 \subseteq Slots
  BY <1>1 DEF Bounds, TypeOK, SizeInv, Slots
<1>4. \A j \in 0 .. size - 1 : data'[j] = file[j]
  BY <1>1, <1>3
<1>5. Decoding'
  BY <1>1, <1>3, <1>4
     DEF Decoding, NotStarted, Ahead, Current, Position, PastEnd
<1>6. Stored'
  BY <1>1 DEF Stored, Spells, Ends
<1> QED
  BY <1>1, <1>2, <1>5, <1>6 DEF Encoded, MaximalRuns, PlaybackFaithful

LEMMA NextIInv == IInv /\ [Next]_vars => IInv'
<1> SUFFICES ASSUME IInv, [Next]_vars PROVE IInv'
  OBVIOUS
<1> USE DEF IInv
<1>1. CASE RecordTick
  BY <1>1, RecordIInv
<1>2. CASE Die
  <2>1. Bounds'
    BY <1>2, NextBounds DEF Next
  <2> QED
    BY <1>2, <2>1 DEF Die, Encoded, Stored, Decoding, MaximalRuns,
                      PlaybackFaithful, Spells, Ends
<1>3. CASE Save
  BY <1>3, SaveIInv
<1>4. CASE Load
  BY <1>4, LoadIInv
<1>5. CASE PlayTick
  <2>1. Bounds'
    BY <1>5, NextBounds DEF Next
  <2>2. /\ mode = "playback" /\ played' = played + 1
        /\ UNCHANGED <<mode, size, file, log, since, stale>>
        /\ DecodeFirst \/ DecodePastEnd \/ DecodeRecord
    BY <1>5 DEF PlayTick
  <2>3. Decoding' /\ PlaybackFaithful'
    BY <2>2, DecodeIInv
  <2> QED
    BY <2>1, <2>2, <2>3 DEF Encoded, Stored, MaximalRuns, Spells, Ends
<1>6. CASE UNCHANGED vars
  BY SMTT(30), <1>6 DEF vars, Bounds, TypeOK, CursorInv, SizeInv, PlayCursorInv, Encoded,
              Stored, Decoding, NotStarted, Ahead, Current, Position,
              PastEnd, MaximalRuns, PlaybackFaithful, Spells, Ends
<1> QED
  BY <1>1, <1>2, <1>3, <1>4, <1>5, <1>6 DEF Next

LEMMA IInvHolds == Spec => []IInv
<1> QED
  BY InitIInv, NextIInv, PTL DEF Spec

\* A playback holds, from its second tick on, the keys of the recording, and
\* silence after its end: for every recording that fits its buffer.
THEOREM PlaybackCorrect == Spec => []PlaybackFaithful
<1>1. IInv => PlaybackFaithful
  BY DEF IInv
<1> QED
  BY <1>1, IInvHolds, PTL

\* The encoder splits no run, and writes no terminator among the records.
THEOREM RunsMaximal == Spec => []RunsAreMaximal
<1>1. IInv => RunsAreMaximal
  <2> SUFFICES ASSUME IInv, mode = "recording"
               PROVE  /\ \A i \in 1 .. rec_pos : data[i].key_flags # data[i - 1].key_flags
                      /\ \A i \in 0 .. rec_pos : Sentinel \notin data[i].key_flags
    BY DEF RunsAreMaximal
  <2>1. \A i \in 0 .. rec_pos : data[i].key_flags \in SUBSET Recorded
    BY DEF IInv, Encoded, Spells
  <2> QED
    BY <2>1 DEF IInv, MaximalRuns
<1> QED
  BY <1>1, IInvHolds, PTL

-----------------------------------------------------------------------------
(* The stream implements the tape.                                         *)

LEMMA TapeStep == IInv /\ IInv' /\ [Next]_vars => [Tape!Next]_Tape!vars
<1> SUFFICES ASSUME IInv, IInv', [Next]_vars
             PROVE  Tape!Next \/ UNCHANGED Tape!vars
  OBVIOUS
<1>1. CASE RecordTick
  <2>1. PICK keys \in SUBSET Buttons :
          /\ flags' = keys
          /\ \/ UNCHANGED log
             \/ log' = Append(log, keys \cap RecKeyMask)
    BY <1>1 DEF RecordTick, WriteSentinel
  <2>2. mode = "recording" /\ mode' = mode /\ played' = played
    BY <1>1 DEF RecordTick
  <2>3. keys \cap RecKeyMask = keys \cap Recorded
    BY ReplayAssumption DEF RecKeyMask
  <2>4. CASE UNCHANGED log
    <3>1. Tape!Ignore
      BY <2>2, <2>4 DEF Tape!Ignore
    <3> QED
      BY <3>1 DEF Tape!Next
  <2>5. CASE log' = Append(log, keys \cap RecKeyMask)
    <3>1. Tape!Record
      BY <2>1, <2>2, <2>3, <2>5 DEF Tape!Record
    <3> QED
      BY <3>1 DEF Tape!Next
  <2> QED
    BY <2>1, <2>4, <2>5
<1>2. CASE Die
  BY <1>2 DEF Die, Tape!vars
<1>3. CASE Save
  BY <1>3 DEF Save, Tape!Next, Tape!Save
<1>4. CASE Load
  <2>1. Tape!Load
    BY <1>4 DEF Load, Tape!Load
  <2> QED
    BY <2>1 DEF Tape!Next
<1>5. CASE PlayTick
  <2>1. /\ mode = "playback" /\ mode' = mode /\ played' = played + 1
        /\ log' = log /\ stale' = stale
    BY <1>5 DEF PlayTick
  <2>2. played \in Nat /\ rec_pos \in Nat /\ Len(log) \in Nat
    BY DEF IInv, Bounds, TypeOK
  <2>3. played = 0 => flags = stale
    BY <2>1, <2>2 DEF IInv, Decoding, NotStarted
  <2>4. flags' \cap Recorded =
          IF played' = 1 THEN stale \cap Recorded
          ELSE IF played' - 1 <= Len(log) THEN log[played' - 1] ELSE {}
    BY <2>1, <2>2 DEF IInv, PlaybackFaithful
  <2>5. played' - 1 = played /\ (played' = 1 <=> played = 0)
    BY <2>1, <2>2
  <2>6. Tape!Play
    BY <2>1, <2>3, <2>4, <2>5 DEF Tape!Play
  <2> QED
    BY <2>6 DEF Tape!Next
<1>6. CASE UNCHANGED vars
  BY <1>6 DEF vars, Tape!vars
<1> QED
  BY <1>1, <1>2, <1>3, <1>4, <1>5, <1>6 DEF Next

\* Seen through the keys each tick steers by, the record stream with its
\* cursor, its run lengths and its terminator is a tape played two ticks late.
THEOREM StreamImplementsTape == Spec => ImplementsTape
<1>1. Init => Tape!Init
  BY DEF Init, Tape!Init
<1>2. Spec => Tape!Spec
  BY <1>1, TapeStep, IInvHolds, PTL DEF Spec, Tape!Spec
<1> QED
  BY <1>2 DEF ImplementsTape
-----------------------------------------------------------------------------
(***************************************************************************)
(* The jumps.  Whether a tick jumps depends on its keys and on the edge    *)
(* detector and flight the ticks before it left: h tells both before every *)
(* recorded tick, the jumps of the recording are the ticks that leap from  *)
(* there, and a playback that is excused for its first two ticks goes      *)
(* through the same h.  Death only ends a recording in the air, so that no *)
(* jump follows it.                                                        *)
(***************************************************************************)
Latches == [jump_key: {-1, 0, 1}, air: 0 .. AirTicks]
Latch == [jump_key |-> jump_key, air |-> air]
Fresh == [jump_key |-> FreshJumpKey, air |-> 0]

Leaps(s, keys, r) == Fire \in keys /\ (r # 0 \/ s.jump_key = 0) /\ s.air = 0

After(s, keys, r) ==
  [jump_key |-> IF r # 0 THEN s.jump_key
                ELSE IF Fire \notin keys THEN 0
                ELSE IF Leaps(s, keys, r) THEN -1 ELSE s.jump_key,
   air |-> IF Leaps(s, keys, r) THEN AirTicks
           ELSE IF s.air > 0 THEN s.air - 1 ELSE s.air]

Tells(h, l, j, r) ==
  /\ h \in [2 .. Len(l) + 1 -> Latches]
  /\ h[2] = Fresh
  /\ \A i \in 2 .. Len(l) : h[i + 1] = After(h[i], l[i], r)
  /\ j = {i \in 2 .. Len(l) : Leaps(h[i], l[i], r)}

Live(h) == mode = "recording" => IF dead = 0 THEN Latch = h[Len(log) + 1] ELSE air > 0

Excused == IF rejump # 0 THEN Fire \notin stale ELSE Len(log) > 1 => Fire \notin log[2]

Again(h) ==
  mode = "playback" =>
    /\ dead = 0
    /\ Excused =>
         /\ JumpsAgree
         /\ played = 0 => Latch = Fresh
         /\ played = 1 => air = 0 /\ (rejump # 0 => jump_key = 1)
         /\ played = 2 => Latch = [jump_key |-> IF rejump # 0 THEN 1 ELSE 0, air |-> 0]
         /\ played \in 3 .. Len(log) + 1 => Latch = h[played]

Told ==
  /\ Len(log) >= 1 /\ log[1] = {}
  /\ \E h : Tells(h, log, jumps, rejump) /\ Live(h) /\ Again(h)

\* The steer and jump half of a tick, as a function of latch and keys.
LEMMA SteerIsAfter ==
  ASSUME TypeOK, NEW keys, SteerAndJump(keys)
  PROVE  /\ JumpsWith(keys) <=> Leaps(Latch, keys, rejump)
         /\ dead = 0 => Latch' = After(Latch, keys, rejump)
  BY DEF TypeOK, SteerAndJump, NextJumpKey, NextAir, JumpsWith, Leaps, After, Latch

\* Only the recorded keys matter to it.
LEMMA MaskedKeys ==
  ASSUME NEW keys, NEW other, NEW s, NEW r, Fire \in keys <=> Fire \in other
  PROVE  /\ Leaps(s, keys, r) <=> Leaps(s, other, r)
         /\ After(s, keys, r) = After(s, other, r)
  BY DEF Leaps, After

LEMMA AfterType ==
  ASSUME NEW s \in Latches, NEW keys, NEW r
  PROVE  After(s, keys, r) \in Latches
  BY DEF After, Latches

\* One more tick in the log, one more latch in its history.
LEMMA TellMore ==
  ASSUME NEW h, NEW l \in Seq(SUBSET Recorded), NEW j, NEW r, NEW k \in SUBSET Recorded,
         Len(l) >= 1, Tells(h, l, j, r)
  PROVE  LET n == Len(l) + 1
             g == [i \in 2 .. n + 1 |-> IF i = n + 1 THEN After(h[n], k, r) ELSE h[i]]
         IN  Tells(g, Append(l, k), IF Leaps(h[n], k, r) THEN j \cup {n} ELSE j, r)
<1> DEFINE n == Len(l) + 1
           m == Append(l, k)
           e == After(h[n], k, r)
           g == [i \in 2 .. n + 1 |-> IF i = n + 1 THEN e ELSE h[i]]
           p == IF Leaps(h[n], k, r) THEN j \cup {n} ELSE j
<1>1. /\ n \in Nat /\ n >= 2 /\ Len(m) = n /\ m[n] = k
      /\ \A i \in 1 .. n - 1 : m[i] = l[i]
      /\ Len(l) = n - 1
  OBVIOUS
<1>2. /\ h \in [2 .. n -> Latches] /\ h[2] = Fresh
      /\ \A i \in 2 .. n - 1 : h[i + 1] = After(h[i], l[i], r)
      /\ j = {i \in 2 .. n - 1 : Leaps(h[i], l[i], r)}
  BY <1>1 DEF Tells
<1>3. e \in Latches
  BY <1>1, <1>2, AfterType
<1> HIDE DEF n, m, e
<1>4. g \in [2 .. n + 1 -> Latches] /\ g[n + 1] = e /\ \A i \in 2 .. n : g[i] = h[i]
  BY <1>1, <1>2, <1>3
<1> HIDE DEF g
<1>5. ASSUME NEW i \in 2 .. n PROVE g[i + 1] = After(g[i], m[i], r)
  <2>1. CASE i = n
    BY <1>1, <1>4, <2>1 DEF e
  <2>2. CASE i # n
    <3>1. i \in 2 .. n - 1 /\ i + 1 \in 2 .. n /\ i \in 1 .. n - 1
      BY <1>1, <2>2
    <3> QED
      BY <1>1, <1>2, <1>4, <3>1
  <2> QED
    BY <2>1, <2>2
<1>6. p = {i \in 2 .. n : Leaps(g[i], m[i], r)}
  <2>1. ASSUME NEW i \in 2 .. n - 1
        PROVE  Leaps(g[i], m[i], r) <=> Leaps(h[i], l[i], r)
    <3>1. g[i] = h[i] /\ m[i] = l[i]
      BY <1>1, <1>4
    <3> QED
      BY <3>1
  <2>2. Leaps(g[n], m[n], r) <=> Leaps(h[n], k, r)
    <3>1. g[n] = h[n] /\ m[n] = k
      BY <1>1, <1>4
    <3> QED
      BY <3>1
  <2>3. {i \in 2 .. n : Leaps(g[i], m[i], r)}
          = {i \in 2 .. n - 1 : Leaps(g[i], m[i], r)}
            \cup (IF Leaps(g[n], m[n], r) THEN {n} ELSE {})
    <3> DEFINE P(i) == Leaps(g[i], m[i], r)
    <3> HIDE DEF P
    <3>1. {i \in 2 .. n : P(i)} = {i \in 2 .. n - 1 : P(i)} \cup (IF P(n) THEN {n} ELSE {})
      <4>1. \A i : i \in 2 .. n <=> i \in 2 .. n - 1 \/ i = n
        BY <1>1
      <4> QED
        BY <4>1
    <3> QED
      BY <3>1 DEF P
  <2>4. {i \in 2 .. n - 1 : Leaps(g[i], m[i], r)} = j
    BY <1>2, <2>1
  <2> QED
    BY <2>2, <2>3, <2>4
<1>7. g[2] = Fresh
  BY <1>1, <1>2, <1>4
<1>8. Tells(g, m, p, r)
  BY <1>1, <1>4, <1>5, <1>6, <1>7 DEF Tells
<1> QED
  BY <1>8 DEF g, m, n, e

LEMMA RecordTold == ASSUME IInv, Told, RecordTick PROVE Told'
<1>1. PICK keys \in SUBSET Buttons :
        /\ flags' = keys
        /\ \/ AtEnd /\ UNCHANGED log
           \/ ~AtEnd /\ log' = Append(log, keys \cap RecKeyMask)
        /\ SteerAndJump(keys)
        /\ jumps' = IF JumpsWith(keys) THEN jumps \cup {Len(log) + 1} ELSE jumps
  BY DEF RecordTick, WriteSentinel
<1>2. mode = "recording" /\ UNCHANGED <<mode, dead, rejump>>
  BY DEF RecordTick
<1>3. PICK h : Tells(h, log, jumps, rejump) /\ Live(h)
  BY DEF Told
<1>4. /\ log \in Seq(SUBSET Recorded) /\ Len(log) \in Nat /\ Len(log) >= 1
      /\ TypeOK /\ dead \in {0, 1} /\ air \in Nat
  BY DEF IInv, Bounds, TypeOK, Told
<1>5. AtEnd <=> dead # 0
  <2>1. rec_pos \in 0 .. rec_pos
    BY DEF IInv, Bounds, TypeOK
  <2>2. data[rec_pos].key_flags \in SUBSET Recorded
    BY <1>2, <2>1 DEF IInv, Encoded, Spells
  <2> QED
    BY <2>2 DEF AtEnd
<1>6. CASE dead # 0
  <2>1. air > 0 /\ log' = log
    BY <1>1, <1>2, <1>3, <1>5, <1>6 DEF Live
  <2>2. ~JumpsWith(keys)
    BY <1>4, <2>1 DEF JumpsWith
  <2>3. air' = air /\ jumps' = jumps
    BY <1>1, <1>6, <2>1, <2>2 DEF SteerAndJump, NextAir
  <2> QED
    BY <1>2, <1>3, <1>4, <1>6, <2>1, <2>3 DEF Told, Live, Again
<1>7. CASE dead = 0
  <2> DEFINE k == keys \cap RecKeyMask
             n == Len(log) + 1
             g == [i \in 2 .. n + 1 |-> IF i = n + 1 THEN After(h[n], k, rejump) ELSE h[i]]
  <2>1. log' = Append(log, k) /\ k \in SUBSET Recorded /\ (Fire \in keys <=> Fire \in k)
    BY <1>1, <1>5, <1>7 DEF RecKeyMask
  <2>2. Latch = h[n]
    BY <1>2, <1>3, <1>7 DEF Live
  <2>3. /\ JumpsWith(keys) <=> Leaps(h[n], k, rejump)
        /\ Latch' = After(h[n], k, rejump)
    <3>1. /\ JumpsWith(keys) <=> Leaps(Latch, keys, rejump)
          /\ Latch' = After(Latch, keys, rejump)
      BY <1>1, <1>4, <1>7, SteerIsAfter
    <3>2. /\ Leaps(Latch, keys, rejump) <=> Leaps(Latch, k, rejump)
          /\ After(Latch, keys, rejump) = After(Latch, k, rejump)
      BY <2>1, MaskedKeys
    <3> QED
      BY <2>2, <3>1, <3>2
  <2>4. Tells(g, Append(log, k), IF Leaps(h[n], k, rejump) THEN jumps \cup {n} ELSE jumps,
              rejump)
    BY <1>3, <1>4, <2>1, TellMore
  <2>5. Tells(g, log', jumps', rejump')
    BY <1>1, <1>2, <2>1, <2>3, <2>4
  <2>6. n \in Nat /\ n >= 2 /\ Len(log') = n
    BY <1>4, <2>1
  <2>7. g[n + 1] = After(h[n], k, rejump)
    <3> HIDE DEF n
    <3> QED
      BY <2>6
  <2>8. log'[1] = {}
    BY <1>4, <2>1 DEF Told
  <2> HIDE DEF g, k, n
  <2>9. PICK q : q = g
    OBVIOUS
  <2>10. Latch' = q[Len(log') + 1]
    BY <2>3, <2>6, <2>7, <2>9
  <2>11. Live(q)' /\ Again(q)'
    BY <1>2, <1>7, <2>10 DEF Live, Again
  <2> QED
    BY <2>5, <2>6, <2>8, <2>9, <2>11 DEF Told
<1> QED
  BY <1>6, <1>7

\* The history before a playback's tick, and what the tick makes of it.
LEMMA PlayTold == ASSUME IInv, IInv', Told, PlayTick PROVE Told'
<1>1. /\ mode = "playback"
      /\ UNCHANGED <<mode, dead, rejump, log, stale, jumps>>
      /\ SteerAndJump(flags')
      /\ rejumps' = IF JumpsWith(flags') THEN rejumps \cup {played} ELSE rejumps
      /\ played' = played + 1
  BY DEF PlayTick
<1>2. PICK h : Tells(h, log, jumps, rejump) /\ Live(h) /\ Again(h)
  BY DEF Told
<1>3. /\ TypeOK /\ played \in Nat /\ Len(log) \in Nat /\ Len(log) >= 1
      /\ log \in Seq(SUBSET Recorded) /\ rejump \in {0, 1}
  BY DEF IInv, Bounds, TypeOK, Told
<1>4. flags' \cap Recorded =
        IF played = 0 THEN stale \cap Recorded
        ELSE IF played <= Len(log) THEN log[played] ELSE {}
  <2>1. PlaybackFaithful'
    BY DEF IInv
  <2>2. mode' = "playback" /\ played' > 0 /\ played' - 1 = played
        /\ (played' = 1 <=> played = 0)
    BY <1>1, <1>3
  <2> QED
    BY <1>1, <2>1, <2>2 DEF PlaybackFaithful
<1>5. dead = 0 /\ (Excused' <=> Excused)
  BY <1>1, <1>2 DEF Again, Excused
<1>6. SUFFICES ASSUME Excused
               PROVE  /\ JumpsAgree'
                      /\ played' = 1 => air' = 0 /\ (rejump # 0 => jump_key' = 1)
                      /\ played' = 2 => Latch' = [jump_key |-> IF rejump # 0 THEN 1 ELSE 0,
                                                  air |-> 0]
                      /\ played' \in 3 .. Len(log) + 1 => Latch' = h[played']
  <2>1. Tells(h, log', jumps', rejump') /\ Live(h)'
    BY <1>1, <1>2 DEF Live
  <2>2. played' # 0 /\ dead' = 0
    BY <1>1, <1>3, <1>5
  <2>3. Again(h)'
    BY <1>1, <1>5, <1>6, <2>2 DEF Again
  <2> QED
    BY <1>1, <1>3, <2>1, <2>3 DEF Told
<1> DEFINE k == flags'
<1>7. /\ JumpsWith(k) <=> Leaps(Latch, k, rejump)
      /\ Latch' = After(Latch, k, rejump)
  BY <1>1, <1>3, <1>5, SteerIsAfter
<1>8. jumps = {i \in 2 .. Len(log) : Leaps(h[i], log[i], rejump)}
  BY <1>2 DEF Tells
<1>9. rejumps = {i \in jumps : i < played}
  BY <1>1, <1>2, <1>6 DEF Again, JumpsAgree
<1>10. ASSUME JumpsWith(k) <=> played \in jumps PROVE JumpsAgree'
  <2>1. \A i \in jumps : i \in Nat
    BY <1>3, <1>8
  <2>2. \A i \in jumps : i < played + 1 <=> i < played \/ i = played
    BY <1>3, <2>1
  <2>3. rejumps' = {i \in jumps : i < played + 1}
    BY <1>1, <1>9, <1>10, <2>2
  <2> QED
    BY <1>1, <2>3 DEF JumpsAgree
<1> HIDE DEF k
<1>11. CASE played = 0
  <2>1. Latch = Fresh
    BY <1>1, <1>2, <1>6, <1>11 DEF Again
  <2>2. rejump # 0 => Fire \notin k
    BY <1>4, <1>6, <1>11 DEF Excused, k
  <2>3. ~JumpsWith(k)
    BY <1>7, <2>1, <2>2 DEF Leaps, Fresh, FreshJumpKey
  <2>4. air' = 0 /\ (rejump # 0 => jump_key' = 1)
    BY <1>7, <2>1, <2>3 DEF After, Fresh, FreshJumpKey, Latch
  <2>5. played \notin jumps
    BY <1>3, <1>8, <1>11
  <2> QED
    BY <1>1, <1>10, <1>11, <2>3, <2>4, <2>5
<1>12. CASE played = 1
  <2>1. air = 0 /\ (rejump # 0 => jump_key = 1)
    BY <1>1, <1>2, <1>6, <1>12 DEF Again
  <2>2. Fire \notin k
    BY <1>3, <1>4, <1>12 DEF k, Told
  <2>3. ~JumpsWith(k)
    BY <2>2 DEF JumpsWith
  <2>4. Latch' = [jump_key |-> IF rejump # 0 THEN 1 ELSE 0, air |-> 0]
    BY <1>7, <2>1, <2>2, <2>3 DEF After, Latch
  <2>5. played \notin jumps
    BY <1>3, <1>8, <1>12
  <2> QED
    BY <1>1, <1>10, <1>12, <2>3, <2>4, <2>5
<1>13. CASE played > 1 /\ played <= Len(log)
  <2>1. played \in 2 .. Len(log) /\ played + 1 \in 3 .. Len(log) + 1
    BY <1>3, <1>13
  <2>2. k \cap Recorded = log[played]
    BY <1>3, <1>4, <1>13 DEF k
  <2>3. Fire \in k <=> Fire \in log[played]
    BY <2>2
  <2>4. /\ JumpsWith(k) <=> Leaps(Latch, log[played], rejump)
        /\ Latch' = After(Latch, log[played], rejump)
    BY <1>7, <2>3, MaskedKeys
  <2>5. /\ Leaps(Latch, log[played], rejump) <=> Leaps(h[played], log[played], rejump)
        /\ After(Latch, log[played], rejump) = After(h[played], log[played], rejump)
    <3>1. CASE played # 2
      <4>1. played \in 3 .. Len(log) + 1
        BY <1>3, <1>13, <3>1
      <4> QED
        BY <1>1, <1>2, <1>6, <4>1 DEF Again
    <3>2. CASE played = 2
      <4>1. /\ Latch = [jump_key |-> IF rejump # 0 THEN 1 ELSE 0, air |-> 0]
            /\ h[played] = Fresh
        BY <1>1, <1>2, <1>6, <3>2 DEF Again, Tells
      <4>2. rejump = 0 => Fire \notin log[played]
        BY <1>6, <1>13, <3>2 DEF Excused
      <4> QED
        BY <1>3, <4>1, <4>2 DEF Leaps, After, Fresh, FreshJumpKey
    <3> QED
      BY <3>1, <3>2
  <2>6. JumpsWith(k) <=> played \in jumps
    BY <1>8, <2>1, <2>4, <2>5
  <2>7. Latch' = h[played + 1]
    BY <1>2, <2>1, <2>4, <2>5 DEF Tells
  <2> QED
    BY <1>1, <1>3, <1>10, <1>13, <2>6, <2>7
<1>14. CASE played > Len(log)
  <2>1. Fire \notin k
    BY <1>3, <1>4, <1>14 DEF k
  <2>2. ~JumpsWith(k)
    BY <2>1 DEF JumpsWith
  <2>3. played \notin jumps /\ played' \notin 3 .. Len(log) + 1 /\ played' # 1
    BY <1>1, <1>3, <1>8, <1>14
  <2>4. played' = 2 => played = 1
    BY <1>1, <1>3
  <2> QED
    BY <1>10, <1>12, <2>2, <2>3, <2>4
<1> QED
  BY <1>3, <1>11, <1>12, <1>13, <1>14

LEMMA NextTold == IInv /\ IInv' /\ Told /\ [Next]_vars => Told'
<1> SUFFICES ASSUME IInv, IInv', Told, [Next]_vars PROVE Told'
  OBVIOUS
<1>1. CASE RecordTick
  BY <1>1, RecordTold
<1>5. CASE PlayTick
  BY <1>5, PlayTold
<1> USE DEF Told
<1>2. CASE Die
  BY <1>2 DEF Die, Live, Again
<1>3. CASE Save
  BY <1>3 DEF Save, Live, Again
<1>4. CASE Load
  <2>1. /\ mode' = "playback" /\ dead' = 0 /\ played' = 0 /\ rejumps' = {}
        /\ Latch' = Fresh /\ UNCHANGED <<rejump, log, jumps>>
    BY <1>4 DEF Load, Latch, Fresh
  <2>2. PICK h : Tells(h, log, jumps, rejump)
    OBVIOUS
  <2>3. JumpsAgree'
    <3>1. \A i \in jumps : ~(i < 0)
      BY <2>2 DEF Tells
    <3> QED
      BY <2>1, <3>1 DEF JumpsAgree
  <2>4. Live(h)' /\ Again(h)'
    BY <2>1, <2>3 DEF Live, Again
  <2> QED
    BY <2>1, <2>2, <2>4
<1>6. CASE UNCHANGED vars
  BY <1>6 DEF vars, Live, Again, Latch, Excused, JumpsAgree
<1> QED
  BY <1>1, <1>2, <1>3, <1>4, <1>5, <1>6 DEF Next

LEMMA InitTold == Init => Told
<1> SUFFICES ASSUME Init PROVE Told
  OBVIOUS
<1> DEFINE h == [i \in 2 .. 2 |-> Fresh]
<1>1. /\ Len(log) = 1 /\ log[1] = {} /\ jumps = {} /\ mode = "recording" /\ dead = 0
      /\ Latch = Fresh
  BY DEF Init, Latch, Fresh
<1>2. Fresh \in Latches
  BY DEF Fresh, Latches, FreshJumpKey
<1>3. h[2] = Fresh /\ h \in [2 .. Len(log) + 1 -> Latches]
  BY <1>1, <1>2
<1> HIDE DEF h
<1>4. Tells(h, log, jumps, rejump)
  BY <1>1, <1>3 DEF Tells
<1>5. Live(h) /\ Again(h)
  BY <1>1, <1>3 DEF Live, Again
<1> QED
  BY <1>1, <1>4, <1>5 DEF Told

\* A playback jumps in the ticks the recording jumped in, unless fire was
\* held in the recording's first tick (or, where holding fire is enough, as
\* the playback began): for every game, keys and length of flight.
THEOREM JumpsReproduced == Spec => []JumpsFaithful
<1>1. Told => JumpsFaithful
  BY DEF Told, Again, Excused, JumpsFaithful
<1> QED
  BY <1>1, InitTold, NextTold, IInvHolds, PTL DEF Spec
=============================================================================
