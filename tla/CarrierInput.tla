---------------------------- MODULE CarrierInput ----------------------------
(***************************************************************************)
(* How the carrier (carrier/src/det.cpp) records what the outside world    *)
(* does to the game and plays it back, in --det mode.                      *)
(*                                                                         *)
(* Two threads meet here.  The window thread captures the real keyboard    *)
(* and the switching of windows, at any instant, and queues them.  The     *)
(* game's thread calls Sleep, time() and, once a tick, the safe point; its *)
(* Sleep advances the virtual clock and, at the first Sleep of a carrier   *)
(* tick, hands over either what is queued (--input=real) or what a script  *)
(* says is due (--input=script).  What is handed over is written to the    *)
(* recording, and a recording is a script.                                 *)
(*                                                                         *)
(* The game itself is any sequence of calls, chosen while it is recorded   *)
(* and repeated in the replay: a deterministic game that has seen the same *)
(* things makes the same calls, so that the first difference between what  *)
(* the two runs of the game see is a difference the carrier made.          *)
(*                                                                         *)
(* The queues, the clock and the script's cursor live in a library that is *)
(* not among the sources (port_forge); they are modelled as det.cpp uses   *)
(* them.  Left out: --inject-real-test, a run without --det (its clock is  *)
(* the wall clock), DET_INPUT_DELIVER_SUB, logging, keys without an        *)
(* Allegro code, and the character that goes with a key.                   *)
(***************************************************************************)
EXTENDS Integers, Sequences

CONSTANTS
  Keys, NoKey,
  Seconds,      \* what the real time() may answer
  Epoch,        \* ... and the constant answer
  TickMs,       \* milliseconds in a carrier tick (20)
  QueueCap,     \* kRealQueueCap (256), and the focus queue's
  Naps,         \* bound: the lengths of Sleep the game asks for
  MaxCalls,     \* bound: calls the recorded game makes
  MaxOverrun,   \* bound: calls a replay makes beyond the recording's
  MaxCaptured   \* bound: events the window thread captures

ASSUME CarrierAssumption ==
  /\ NoKey \notin Keys
  /\ TickMs \in Nat \ {0}
  /\ QueueCap \in Nat \ {0}
  /\ Naps \subseteq Nat
  /\ {MaxCalls, MaxOverrun, MaxCaptured} \subseteq Nat

VARIABLES
  mode,        \* "record": --input=real --record-input; "replay": its recording as a script
  pc,          \* where the game's thread is: "guest", or a part of det_wrap_Sleep
  calls,       \* the calls of the game
  guest,       \* the game's memory: key[], hasFocus, what it has seen in each call so far
  ms,          \* the virtual clock
  subTick, subIn, \* g_sub_tick, g_sub_in_tick
  keyQueue, focusQueue, \* captured, not handed over yet
  captured,    \* events captured so far
  lastDrain,   \* g_last_drain_tick
  held,        \* g_key_held
  script, times, \* the recording: the lines of g_script, the values of g_time_values
  cursor, timeCursor,
  snapAt, restoreAt, \* --snapshot-at-tick, --restore-at-tick; 0 is unset
  snap,        \* the snapshot, << >> before it is taken
  restored,    \* << >>, or the ticks a rewind led from and to
  saw          \* the calls the recorded game completed, and what it had seen

vars == <<mode, pc, calls, guest, ms, subTick, subIn, keyQueue, focusQueue,
          captured, lastDrain, held, script, times, cursor, timeCursor,
          snapAt, restoreAt, snap, restored, saw>>

file    == <<script, times>>
queues  == <<keyQueue, focusQueue, captured>>
cursors == <<cursor, timeCursor>>
options == <<mode, snapAt, restoreAt, saw>>
rewind  == <<snap, restored>>

\* det_current_tick
Tick == ms \div TickMs

NewGuest == [down |-> {}, focus |-> TRUE, seen |-> << >>]

\* How many calls the game has made.
Made == Len(guest.seen)

KeyEvents   == [kind : {"press", "release"}, arg : Keys]
FocusEvents == [kind : {"switch"}, arg : BOOLEAN]

Init ==
  /\ mode = "record" /\ pc = "guest"
  /\ calls = << >> /\ guest = NewGuest
  /\ ms = 0 /\ subTick = -1 /\ subIn = 0
  /\ keyQueue = << >> /\ focusQueue = << >> /\ captured = 0
  /\ lastDrain = -1 /\ held = {}
  /\ script = << >> /\ times = << >> /\ cursor = 0 /\ timeCursor = 0
  /\ snapAt = 0 /\ restoreAt = 0 /\ snap = << >> /\ restored = << >>
  /\ saw = [calls |-> 0, seen |-> << >>]

-----------------------------------------------------------------------------
(* The window thread.                                                      *)

\* A queued event remembers the tick it was captured in, for the properties.
Stamped(e) == [event |-> e, at |-> Tick]

\* real_key_capture_hit, and neutralize_keyboard_hit under a script.
KeyEvent(e) ==
  /\ IF mode = "record"
     THEN /\ captured < MaxCaptured
          /\ captured' = captured + 1
          /\ keyQueue' = IF Len(keyQueue) < QueueCap
                         THEN Append(keyQueue, Stamped(e)) ELSE keyQueue
     ELSE UNCHANGED <<keyQueue, captured>>
  /\ UNCHANGED <<pc, calls, guest, ms, subTick, subIn, focusQueue, lastDrain,
                 held, file, cursors, options, rewind>>

\* switch_hook
SwitchHook(e) ==
  /\ IF mode = "record"
     THEN /\ captured < MaxCaptured
          /\ captured' = captured + 1
          /\ focusQueue' = IF Len(focusQueue) < QueueCap
                           THEN Append(focusQueue, Stamped(e)) ELSE focusQueue
     ELSE UNCHANGED <<focusQueue, captured>>
  /\ UNCHANGED <<pc, calls, guest, ms, subTick, subIn, keyQueue, lastDrain,
                 held, file, cursors, options, rewind>>

WindowThread ==
  \/ \E e \in KeyEvents : KeyEvent(e)
  \/ \E e \in FocusEvents : SwitchHook(e)

-----------------------------------------------------------------------------
(* What the game sees.                                                     *)

\* Call by call.
See(seen, e) == [seen EXCEPT ![Len(seen)] = Append(@, e)]

\* _handle_key_press, _handle_key_release and the switch callbacks, as the
\* game sees them.  Letting go of a key that is up changes nothing.
Shown(g, e) ==
  [g EXCEPT
     !.down  = CASE e.kind = "press"   -> @ \cup {e.arg}
                 [] e.kind = "release" -> @ \ {e.arg}
                 [] OTHER              -> @,
     !.focus = IF e.kind = "switch" THEN e.arg ELSE @,
     !.seen  = IF e.kind = "release" /\ e.arg \notin g.down THEN @
               ELSE See(@, e)]

\* A recording that takes the game's own key repeat for the player's keys.
RecordedToo(e, inDelivery) ==
  mode = "record" /\ (e.kind = "release" => e.arg \in held)

\* The two record breakpoints, and the switch line: what the carrier itself
\* hands over (inDelivery) is written, a release only after its press.
Recorded(e, inDelivery) ==
  mode = "record" /\ inDelivery /\ (e.kind = "release" => e.arg \in held)

HeldAfter(e, inDelivery) ==
  IF ~Recorded(e, inDelivery) THEN held
  ELSE CASE e.kind = "press"   -> held \cup {e.arg}
         [] e.kind = "release" -> held \ {e.arg}
         [] OTHER              -> held

Line(e) == [tick |-> Tick, event |-> e]

\* A call of _handle_key_press, _handle_key_release or of the callbacks.
HandOver(e, inDelivery) ==
  /\ guest' = Shown(guest, e)
  /\ script' = IF Recorded(e, inDelivery) THEN Append(script, Line(e)) ELSE script
  /\ held' = HeldAfter(e, inDelivery)
  /\ UNCHANGED times

-----------------------------------------------------------------------------
(* The game's calls.                                                       *)

NapCalls == [op : {"nap"}, ms : Naps, repeat : Keys \cup {NoKey}]

\* How many calls this run of the game makes.
Limit == IF mode = "record" THEN MaxCalls ELSE saw.calls + MaxOverrun

\* The game makes call c: its own choice, unless it has made it before.
Call(c) ==
  /\ pc = "guest"
  /\ IF Made < Len(calls)
     THEN c = calls[Made + 1] /\ UNCHANGED calls
     ELSE Len(calls) < Limit /\ calls' = Append(calls, c)

Called == [guest EXCEPT !.seen = Append(@, << >>)]

\* det_wrap_Sleep: the clock first, then the place in the tick.
Sleep(c) ==
  /\ Call(c)
  /\ (Made = Len(calls) /\ c.repeat # NoKey) => c.repeat \in guest.down
  /\ ms' = ms + c.ms
  /\ subTick' = Tick'
  /\ subIn' = IF Tick' # subTick THEN 0 ELSE subIn + 1
  /\ guest' = Called
  /\ pc' = "pump"
  /\ UNCHANGED <<queues, lastDrain, held, file, cursors, options, rewind>>

\* The game's timers, and with them Allegro's key repeat, which calls
\* _handle_key_press from inside the game.
Pump ==
  /\ pc = "pump" /\ pc' = "script"
  /\ LET k == calls[Made].repeat
     IN  IF k \in guest.down
         THEN HandOver([kind |-> "press", arg |-> k], FALSE)
         ELSE UNCHANGED <<guest, file, held>>
  /\ UNCHANGED <<calls, ms, subTick, subIn, queues, lastDrain, cursors, options, rewind>>

\* deliver_due_input, an event at a time.
Due ==
  /\ mode = "replay"
  /\ subIn = 0
  /\ cursor < Len(script)
  /\ script[cursor + 1].tick <= Tick

Deliver ==
  /\ pc = "script" /\ Due
  /\ HandOver(script[cursor + 1].event, TRUE)
  /\ cursor' = cursor + 1
  /\ UNCHANGED <<pc, calls, ms, subTick, subIn, queues, lastDrain, timeCursor,
                 options, rewind>>

\* An off-by-one in the guard against a second drain in a tick.
DrainedLately == Tick <= lastDrain + 1

DrainedThisTick == Tick = lastDrain

\* drain_real_key_queue: only for real input, and once a tick.
StartDrain ==
  /\ pc = "script" /\ ~Due
  /\ IF mode # "record" \/ DrainedThisTick
     THEN pc' = "guest" /\ UNCHANGED lastDrain
     ELSE pc' = "keys" /\ lastDrain' = Tick
  /\ UNCHANGED <<calls, guest, ms, subTick, subIn, queues, held, file, cursors,
                 options, rewind>>

DrainKey ==
  /\ pc = "keys"
  /\ IF keyQueue = << >>
     THEN pc' = "switches" /\ UNCHANGED <<keyQueue, guest, file, held>>
     ELSE /\ HandOver(Head(keyQueue).event, TRUE)
          /\ keyQueue' = Tail(keyQueue)
          /\ UNCHANGED pc
  /\ UNCHANGED <<calls, ms, subTick, subIn, focusQueue, captured,
                 lastDrain, cursors, options, rewind>>

DrainSwitch ==
  /\ pc = "switches"
  /\ IF focusQueue = << >>
     THEN pc' = "guest" /\ UNCHANGED <<focusQueue, guest, file, held>>
     ELSE /\ HandOver(Head(focusQueue).event, TRUE)
          /\ focusQueue' = Tail(focusQueue)
          /\ UNCHANGED pc
  /\ UNCHANGED <<calls, ms, subTick, subIn, keyQueue, captured,
                 lastDrain, cursors, options, rewind>>

\* det_wrap_time: the recorded answers in their order and the constant one
\* when they run out; while recording, the real clock's.
Time ==
  /\ Call([op |-> "time"])
  /\ \E v \in Seconds \cup {Epoch} :
       LET e == [kind |-> "time", arg |-> v]
       IN  /\ guest' = Shown(Called, e)
           /\ IF mode = "record"
              THEN /\ v \in Seconds
                   /\ times' = Append(times, v)
                   /\ UNCHANGED timeCursor
              ELSE /\ IF timeCursor < Len(times)
                      THEN /\ v = times[timeCursor + 1]
                           /\ timeCursor' = timeCursor + 1
                      ELSE v = Epoch /\ UNCHANGED timeCursor
                   /\ UNCHANGED times
  /\ UNCHANGED <<pc, ms, subTick, subIn, queues, lastDrain, held, script,
                 cursor, options, rewind>>

-----------------------------------------------------------------------------
(* The safe point, with its snapshot and its rewind (snapshot.cpp).        *)

RestoreDue == /\ restoreAt > 0 /\ restored = << >> /\ Tick >= restoreAt
              /\ snap # << >>
CaptureDue == snapAt > 0 /\ snap = << >> /\ Tick >= snapAt

\* do_capture, with det_state_save: not g_sub_tick and not g_sub_in_tick.
Captured ==
  << [guest |-> Called, ms |-> ms, cursor |-> cursor, timeCursor |-> timeCursor,
      lastDrain |-> lastDrain, held |-> held, keyQueue |-> keyQueue,
      focusQueue |-> focusQueue] >>

\* do_restore, with det_state_load.
Restore ==
  LET s == snap[1]
  IN  /\ guest' = s.guest
      /\ ms' = s.ms
      /\ cursor' = s.cursor /\ timeCursor' = s.timeCursor
      /\ lastDrain' = s.lastDrain
      /\ held' = s.held
      /\ keyQueue' = s.keyQueue /\ focusQueue' = s.focusQueue

\* safepoint_hit
Safepoint ==
  /\ Call([op |-> "tick"])
  /\ IF RestoreDue
     THEN Restore /\ restored' = <<Tick, Tick'>> /\ UNCHANGED snap
     ELSE /\ guest' = Called
          /\ snap' = IF CaptureDue THEN Captured ELSE snap
          /\ UNCHANGED <<ms, cursors, lastDrain, held, keyQueue, focusQueue, restored>>
  /\ UNCHANGED <<pc, subTick, subIn, captured, file, options>>

Carrier ==
  \/ \E c \in NapCalls : Sleep(c)
  \/ Pump \/ Deliver \/ StartDrain \/ DrainKey \/ DrainSwitch
  \/ Time \/ Safepoint

-----------------------------------------------------------------------------
(* The recorded run is stopped, or killed, at any moment - every line is   *)
(* flushed as it is written - and its recording is played back by a new    *)
(* process (det_init).                                                     *)
Replay ==
  /\ mode = "record"
  /\ mode' = "replay" /\ pc' = "guest"
  /\ saw' = [calls |-> IF pc = "guest" THEN Made ELSE Made - 1,
             seen |-> guest.seen]
  /\ guest' = NewGuest
  /\ ms' = 0 /\ subTick' = -1 /\ subIn' = 0
  /\ keyQueue' = << >> /\ focusQueue' = << >> /\ captured' = 0
  /\ lastDrain' = -1 /\ held' = {}
  /\ \/ snapAt' = 0 /\ restoreAt' = 0
     \/ \E s \in 1 .. Tick, r \in 1 .. Tick :
          s <= r /\ snapAt' = s /\ restoreAt' = r
  /\ UNCHANGED <<calls, file, cursors, rewind>>

Next == WindowThread \/ Carrier \/ Replay

Spec == Init /\ [][Next]_vars

-----------------------------------------------------------------------------
(* Properties.                                                             *)

\* The replay has shown the game what the recorded run did, call by call.
Faithful ==
  mode = "replay" /\ pc = "guest" =>
    \A i \in 1 .. saw.calls : i <= Made => guest.seen[i] = saw.seen[i]

\* The first Sleep after the rewind leads into the tick that the abandoned run
\* was in, which was not the snapshot's.
Misled ==
  /\ restored # << >> /\ restored[1] # restored[2]
  /\ LET from == Len(snap[1].guest.seen) + 1
     IN  \E i \in from .. Len(calls) :
            /\ calls[i].op = "nap"
            /\ \A j \in from .. i - 1 : calls[j].op # "nap"
            /\ (snap[1].ms + calls[i].ms) \div TickMs = restored[1]

\* Replaying a recording shows the game every key, switch and time of the
\* recorded run, in the same call and in the same order - wherever in a tick
\* the window thread captured them, whichever of them the queue dropped,
\* whenever the recording was cut off, and also after a rewind, unless it is
\* misled (RewindLinesUp says what happens then).
ReplayIsTheRecording == ~Misled => Faithful

\* "restore -> suffix == cold -> suffix" (safepoint_hit): a rewound replay
\* shows the game what it would have seen without the rewind.
RewindLinesUp == restored # << >> => Faithful

\* The hand-over costs a captured event at most one tick: when the game runs,
\* whatever is queued was captured in the tick that is current.
OneTickLate ==
  pc = "guest" =>
    \A q \in {keyQueue, focusQueue} : \A i \in DOMAIN q : q[i].at = Tick
=============================================================================
