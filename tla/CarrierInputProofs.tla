-------------------------- MODULE CarrierInputProofs --------------------------
(***************************************************************************)
(* Two promises of the carrier's input, for every length of a tick and of  *)
(* a Sleep, every capacity of the queues and every number of calls.        *)
(*                                                                         *)
(* NothingWaits: what the window thread captures is handed over before the *)
(* game is a tick older.  The drain is skipped only in the tick of the     *)
(* last one, and then nothing older can be queued, because the clock does  *)
(* not run between the drain and the game's next Sleep.  A replay queues   *)
(* nothing, and neither does the snapshot it may rewind to.                *)
(*                                                                         *)
(* Reproduced: a replay shows the game what the recorded run did.  The     *)
(* recorded run leaves a history (Tells), from which follows what each of  *)
(* its calls showed, and the replay is always at the place of the history  *)
(* that its clock and its cursors say (Playing).                           *)
(***************************************************************************)
EXTENDS CarrierInput, TLAPS

QueuedEvents == [event : KeyEvents \cup FocusEvents, at : Nat]

\* All that is queued was captured in this tick.
Fresh(q) == \A i \in DOMAIN q : q[i].at = Tick

Types ==
  /\ ms \in Nat
  /\ lastDrain \in Int /\ lastDrain <= Tick
  /\ keyQueue \in Seq(QueuedEvents) /\ focusQueue \in Seq(QueuedEvents)

\* What the options allow.
ModeOK ==
  /\ mode = "record" => snapAt = 0 /\ restoreAt = 0 /\ snap = << >>
  /\ mode # "record" => /\ keyQueue = << >> /\ focusQueue = << >>
                        /\ snap # << >> => /\ snap[1].ms \in Nat
                                           /\ snap[1].lastDrain \in Int
                                           /\ snap[1].lastDrain <= snap[1].ms \div TickMs
                                           /\ snap[1].keyQueue = << >>
                                           /\ snap[1].focusQueue = << >>

FreshOK ==
  /\ pc \in {"guest", "pump", "script", "keys", "switches"}
  /\ pc \in {"pump", "script"} /\ Tick = lastDrain => Fresh(keyQueue) /\ Fresh(focusQueue)
  /\ pc = "switches" => Fresh(keyQueue)
  /\ pc = "guest" => Fresh(keyQueue) /\ Fresh(focusQueue)

IInv == Types /\ ModeOK /\ FreshOK

USE CarrierAssumption

-----------------------------------------------------------------------------
\* A later time is in no earlier tick.
LEMMA TicksGrow ==
  ASSUME NEW a \in Nat, NEW b \in Nat, a <= b
  PROVE  a \div TickMs \in Nat /\ b \div TickMs \in Nat /\ a \div TickMs <= b \div TickMs
<1> DEFINE q == a \div TickMs
           r == b \div TickMs
           p == a % TickMs
           u == b % TickMs
<1>1. TickMs \in Nat \ {0}
  OBVIOUS
<1>2. q \in Nat /\ r \in Nat /\ p \in 0 .. TickMs - 1 /\ u \in 0 .. TickMs - 1
  BY <1>1
<1>3. a = TickMs * q + p /\ b = TickMs * r + u
  BY <1>1
<1> HIDE DEF q, r, p, u
<1>4. ASSUME q > r
      PROVE  FALSE
  <2>1. TickMs * (q - r) = TickMs * q - TickMs * r
    BY <1>1, <1>2
  <2>2. TickMs * (q - r) >= TickMs
    BY <1>1, <1>2, <1>4
  <2> QED
    BY <1>1, <1>2, <1>3, <2>1, <2>2
<1>5. q <= r
  BY <1>2, <1>4
<1> USE DEF q, r
<1> QED
  BY <1>2, <1>5

LEMMA TickType == ms \in Nat => Tick \in Nat
BY TicksGrow DEF Tick

\* Queueing an event of this tick, and handing one over.
LEMMA QueueGrows ==
  ASSUME NEW q \in Seq(QueuedEvents), NEW e \in KeyEvents \cup FocusEvents, ms \in Nat
  PROVE  /\ Append(q, Stamped(e)) \in Seq(QueuedEvents)
         /\ Fresh(q) => Fresh(Append(q, Stamped(e)))
<1>1. Stamped(e) \in QueuedEvents /\ Stamped(e).at = Tick
  BY TickType DEF Stamped, QueuedEvents
<1> DEFINE x == Stamped(e)
<1> HIDE DEF x
<1>2. Append(q, x) \in Seq(QueuedEvents)
  BY <1>1 DEF x
<1>3. /\ DOMAIN Append(q, x) = 1 .. Len(q) + 1
      /\ \A i \in 1 .. Len(q) : Append(q, x)[i] = q[i]
      /\ Append(q, x)[Len(q) + 1] = x
      /\ DOMAIN q = 1 .. Len(q) /\ Len(q) \in Nat
  BY <1>1 DEF x
<1>4. Fresh(q) => Fresh(Append(q, x))
  BY <1>1, <1>3 DEF Fresh, x
<1> QED
  BY <1>2, <1>4 DEF x

LEMMA QueueShrinks ==
  ASSUME NEW q \in Seq(QueuedEvents), q # << >>
  PROVE  Tail(q) \in Seq(QueuedEvents) /\ (Fresh(q) => Fresh(Tail(q)))
BY DEF Fresh

LEMMA EmptyIsFresh == << >> \in Seq(QueuedEvents) /\ Fresh(<< >>)
BY DEF Fresh

LEMMA InitIInv == Init => IInv
<1> SUFFICES ASSUME Init
             PROVE  IInv
  OBVIOUS
<1>1. Types
  BY TickType, EmptyIsFresh DEF Init, Types
<1>2. ModeOK
  BY DEF Init, ModeOK
<1>3. FreshOK
  BY EmptyIsFresh DEF Init, FreshOK
<1> QED
  BY <1>1, <1>2, <1>3 DEF IInv

-----------------------------------------------------------------------------
(* The steps.                                                              *)

\* A step of the game's thread that leaves clock, queues and drain alone.
LEMMA QuietIInv ==
  ASSUME IInv, UNCHANGED <<pc, ms, lastDrain, queues, mode, snapAt, restoreAt, snap>>
  PROVE  IInv'
BY DEF IInv, Types, ModeOK, FreshOK, Fresh, Tick, queues

LEMMA KeyEventIInv ==
  ASSUME IInv, NEW e \in KeyEvents, KeyEvent(e)
  PROVE  IInv'
<1>1. CASE UNCHANGED keyQueue
  BY <1>1 DEF KeyEvent, IInv, Types, ModeOK, FreshOK, Fresh, Tick, options, rewind
<1>2. CASE keyQueue' = Append(keyQueue, Stamped(e)) /\ mode = "record"
  <2>1. /\ keyQueue' \in Seq(QueuedEvents)
        /\ Fresh(keyQueue) => \A i \in DOMAIN keyQueue' : keyQueue'[i].at = Tick
    BY <1>2, QueueGrows DEF IInv, Types, Fresh
  <2>2. UNCHANGED <<pc, ms, lastDrain, focusQueue, mode, snapAt, restoreAt, snap>>
    BY DEF KeyEvent, options, rewind
  <2>3. Types'
    BY <2>1, <2>2 DEF IInv, Types, Tick
  <2>4. ModeOK'
    BY <1>2, <2>2 DEF IInv, ModeOK
  <2>5. FreshOK'
    BY <2>1, <2>2 DEF IInv, FreshOK, Fresh, Tick
  <2> QED
    BY <2>3, <2>4, <2>5 DEF IInv
<1> QED
  BY <1>1, <1>2 DEF KeyEvent

LEMMA SwitchIInv ==
  ASSUME IInv, NEW e \in FocusEvents, SwitchHook(e)
  PROVE  IInv'
<1>1. CASE UNCHANGED focusQueue
  BY <1>1 DEF SwitchHook, IInv, Types, ModeOK, FreshOK, Fresh, Tick, options, rewind
<1>2. CASE focusQueue' = Append(focusQueue, Stamped(e)) /\ mode = "record"
  <2>1. /\ focusQueue' \in Seq(QueuedEvents)
        /\ Fresh(focusQueue) => \A i \in DOMAIN focusQueue' : focusQueue'[i].at = Tick
    BY <1>2, QueueGrows DEF IInv, Types, Fresh
  <2>2. UNCHANGED <<pc, ms, lastDrain, keyQueue, mode, snapAt, restoreAt, snap>>
    BY DEF SwitchHook, options, rewind
  <2>3. Types'
    BY <2>1, <2>2 DEF IInv, Types, Tick
  <2>4. ModeOK'
    BY <1>2, <2>2 DEF IInv, ModeOK
  <2>5. FreshOK'
    BY <2>1, <2>2 DEF IInv, FreshOK, Fresh, Tick
  <2> QED
    BY <2>3, <2>4, <2>5 DEF IInv
<1> QED
  BY <1>1, <1>2 DEF SwitchHook

\* The clock advances: what was captured before is old only if the tick of
\* the last drain is over.
LEMMA SleepIInv ==
  ASSUME IInv, NEW c \in NapCalls, Sleep(c)
  PROVE  IInv'
<1>1. /\ pc = "guest" /\ pc' = "pump" /\ ms \in Nat /\ ms' = ms + c.ms /\ c.ms \in Nat
      /\ UNCHANGED <<keyQueue, focusQueue, lastDrain, mode, snapAt, restoreAt, snap>>
  BY DEF Sleep, Call, NapCalls, IInv, Types, queues, options, rewind
<1>2. Tick \in Nat /\ Tick' \in Nat /\ Tick <= Tick'
  BY <1>1, TicksGrow DEF Tick
<1>3. Types'
  BY <1>1, <1>2 DEF IInv, Types
<1>4. ModeOK'
  BY <1>1 DEF IInv, ModeOK
<1>5. ASSUME Tick' = lastDrain'
      PROVE  Fresh(keyQueue)' /\ Fresh(focusQueue)'
  <2>1. Tick' = Tick
    BY <1>1, <1>2, <1>5 DEF IInv, Types
  <2> QED
    BY <1>1, <2>1 DEF IInv, FreshOK, Fresh
<1> QED
  BY <1>1, <1>3, <1>4, <1>5 DEF IInv, FreshOK

LEMMA PumpIInv == IInv /\ Pump => IInv'
<1> SUFFICES ASSUME IInv, Pump
             PROVE  IInv'
  OBVIOUS
<1>1. /\ pc = "pump" /\ pc' = "script"
      /\ UNCHANGED <<ms, lastDrain, keyQueue, focusQueue, mode, snapAt, restoreAt, snap>>
  BY DEF Pump, queues, options, rewind
<1> QED
  BY <1>1 DEF IInv, Types, ModeOK, FreshOK, Fresh, Tick

LEMMA StartDrainIInv == IInv /\ StartDrain => IInv'
<1> SUFFICES ASSUME IInv, StartDrain
             PROVE  IInv'
  OBVIOUS
<1>1. /\ pc = "script"
      /\ UNCHANGED <<ms, keyQueue, focusQueue, mode, snapAt, restoreAt, snap>>
  BY DEF StartDrain, queues, options, rewind
<1>2. Tick' = Tick /\ Tick \in Nat
  BY <1>1, TickType DEF Tick, IInv, Types
<1>3. CASE mode # "record" \/ Tick = lastDrain
  <2>1. pc' = "guest" /\ lastDrain' = lastDrain
    BY <1>3 DEF StartDrain, DrainedThisTick
  <2>2. Fresh(keyQueue) /\ Fresh(focusQueue)
    BY <1>1, <1>3, EmptyIsFresh DEF IInv, ModeOK, FreshOK
  <2> QED
    BY <1>1, <1>2, <2>1, <2>2 DEF IInv, Types, ModeOK, FreshOK, Fresh
<1>4. CASE ~(mode # "record" \/ Tick = lastDrain)
  <2>1. pc' = "keys" /\ lastDrain' = Tick
    BY <1>4 DEF StartDrain, DrainedThisTick
  <2> QED
    BY <1>1, <1>2, <2>1 DEF IInv, Types, ModeOK, FreshOK
<1> QED
  BY <1>3, <1>4

LEMMA DrainKeyIInv == IInv /\ DrainKey => IInv'
<1> SUFFICES ASSUME IInv, DrainKey
             PROVE  IInv'
  OBVIOUS
<1>1. /\ pc = "keys"
      /\ UNCHANGED <<ms, lastDrain, focusQueue, mode, snapAt, restoreAt, snap>>
  BY DEF DrainKey, options, rewind
<1>2. CASE keyQueue = << >>
  <2>1. pc' = "switches" /\ keyQueue' = << >>
    BY <1>2 DEF DrainKey
  <2> QED
    BY <1>1, <2>1, EmptyIsFresh DEF IInv, Types, ModeOK, FreshOK, Fresh, Tick
<1>3. CASE keyQueue # << >>
  <2>1. pc' = "keys" /\ keyQueue' = Tail(keyQueue)
    BY <1>1, <1>3 DEF DrainKey
  <2>2. keyQueue' \in Seq(QueuedEvents) /\ mode = "record"
    BY <1>3, <2>1, QueueShrinks DEF IInv, Types, ModeOK
  <2> QED
    BY <1>1, <2>1, <2>2 DEF IInv, Types, ModeOK, FreshOK, Tick
<1> QED
  BY <1>2, <1>3

LEMMA DrainSwitchIInv == IInv /\ DrainSwitch => IInv'
<1> SUFFICES ASSUME IInv, DrainSwitch
             PROVE  IInv'
  OBVIOUS
<1>1. /\ pc = "switches"
      /\ UNCHANGED <<ms, lastDrain, keyQueue, mode, snapAt, restoreAt, snap>>
  BY DEF DrainSwitch, options, rewind
<1>2. CASE focusQueue = << >>
  <2>1. pc' = "guest" /\ focusQueue' = << >>
    BY <1>2 DEF DrainSwitch
  <2> QED
    BY <1>1, <2>1, EmptyIsFresh DEF IInv, Types, ModeOK, FreshOK, Fresh, Tick
<1>3. CASE focusQueue # << >>
  <2>1. pc' = "switches" /\ focusQueue' = Tail(focusQueue)
    BY <1>1, <1>3 DEF DrainSwitch
  <2>2. focusQueue' \in Seq(QueuedEvents) /\ mode = "record"
    BY <1>3, <2>1, QueueShrinks DEF IInv, Types, ModeOK
  <2> QED
    BY <1>1, <2>1, <2>2 DEF IInv, Types, ModeOK, FreshOK, Fresh, Tick
<1> QED
  BY <1>2, <1>3

LEMMA SafepointIInv == IInv /\ Safepoint => IInv'
<1> SUFFICES ASSUME IInv, Safepoint
             PROVE  IInv'
  OBVIOUS
<1>1. /\ pc = "guest" /\ pc' = "guest"
      /\ UNCHANGED <<mode, snapAt, restoreAt>>
  BY DEF Safepoint, Call, options
<1>2. CASE RestoreDue
  <2>1. /\ mode # "record" /\ snap # << >>
    BY <1>2 DEF RestoreDue, IInv, ModeOK
  <2>2. /\ ms' = snap[1].ms /\ lastDrain' = snap[1].lastDrain
        /\ keyQueue' = << >> /\ focusQueue' = << >> /\ snap' = snap
    BY <1>2, <2>1 DEF Safepoint, Restore, IInv, ModeOK
  <2>3. Types'
    BY <2>1, <2>2, EmptyIsFresh DEF IInv, ModeOK, Types, Tick
  <2>4. ModeOK'
    BY <1>1, <2>1, <2>2 DEF IInv, ModeOK
  <2>5. FreshOK'
    BY <1>1, <2>2 DEF FreshOK, Fresh
  <2> QED
    BY <2>3, <2>4, <2>5 DEF IInv
<1>3. CASE ~RestoreDue
  <2>1. /\ UNCHANGED <<ms, lastDrain, keyQueue, focusQueue>>
        /\ snap' = IF CaptureDue THEN Captured ELSE snap
    BY <1>3 DEF Safepoint
  <2>2. CASE CaptureDue
    <3>1. mode # "record"
      BY <2>2 DEF CaptureDue, IInv, ModeOK
    <3>2. /\ snap'[1].ms = ms /\ snap'[1].lastDrain = lastDrain
          /\ snap'[1].keyQueue = keyQueue /\ snap'[1].focusQueue = focusQueue
      BY <2>1, <2>2 DEF Captured
    <3>3. ModeOK'
      BY <1>1, <2>1, <3>1, <3>2 DEF IInv, ModeOK, Types, Tick
    <3> QED
      BY <1>1, <2>1, <3>3 DEF IInv, Types, FreshOK, Fresh, Tick
  <2>3. CASE ~CaptureDue
    BY <1>1, <2>1, <2>3 DEF IInv, Types, ModeOK, FreshOK, Fresh, Tick
  <2> QED
    BY <2>2, <2>3
<1> QED
  BY <1>2, <1>3

LEMMA ReplayIInv == IInv /\ Replay => IInv'
<1> SUFFICES ASSUME IInv, Replay
             PROVE  IInv'
  OBVIOUS
<1>1. /\ mode = "record" /\ mode' = "replay" /\ pc' = "guest" /\ ms' = 0 /\ lastDrain' = -1
      /\ keyQueue' = << >> /\ focusQueue' = << >> /\ snap' = snap
  BY DEF Replay, rewind
<1>2. Types'
  BY <1>1, EmptyIsFresh, TicksGrow DEF Types, Tick
<1>3. ModeOK' /\ FreshOK'
  BY <1>1 DEF IInv, ModeOK, FreshOK, Fresh
<1> QED
  BY <1>2, <1>3 DEF IInv

LEMMA NextIInv == IInv /\ [Next]_vars => IInv'
<1> SUFFICES ASSUME IInv, [Next]_vars
             PROVE  IInv'
  OBVIOUS
<1>1. CASE WindowThread
  BY <1>1, KeyEventIInv, SwitchIInv DEF WindowThread
<1>2. CASE Carrier
  <2>1. ASSUME NEW c \in NapCalls, Sleep(c)
        PROVE  IInv'
    BY <2>1, SleepIInv
  <2>2. CASE Deliver \/ Time
    BY <2>2, QuietIInv DEF Deliver, Time, options, rewind
  <2> QED
    BY <1>2, <2>1, <2>2, PumpIInv, StartDrainIInv, DrainKeyIInv, DrainSwitchIInv,
       SafepointIInv DEF Carrier
<1>3. CASE Replay
  BY <1>3, ReplayIInv
<1>4. CASE UNCHANGED vars
  BY <1>4, QuietIInv DEF vars, queues
<1> QED
  BY <1>1, <1>2, <1>3, <1>4 DEF Next

-----------------------------------------------------------------------------
\* No captured event waits longer than the tick it was captured in, as far as
\* the game can tell (det_wrap_Sleep, drain_real_key_queue).
THEOREM NothingWaits == Spec => []OneTickLate
<1>1. Spec => []IInv
  BY InitIInv, NextIInv, PTL DEF Spec
<1>2. IInv => OneTickLate
  BY DEF IInv, FreshOK, Fresh, OneTickLate
<1> QED
  BY <1>1, <1>2, PTL

-----------------------------------------------------------------------------
(***************************************************************************)
(* A replay is the recording.  The recorded run leaves a history: for      *)
(* every call how many lines and times were written by its end, the clock, *)
(* and the tick of its last Sleep; for every line the keys held after it.  *)
(* Which lines a call handed over, and hence what it showed the game, can  *)
(* be read off that history, and a replay follows it call by call.         *)
(***************************************************************************)
Events == KeyEvents \cup FocusEvents
Answers == Seconds \cup {Epoch}
Shows  == Events \cup [kind : {"time"}, arg : Answers]
Lines  == [tick : Nat, event : Events]
Calls  == NapCalls \cup [op : {"time"}] \cup [op : {"tick"}]
Guests == [down : SUBSET Keys, focus : BOOLEAN, seen : Seq(Seq(Shows))]
Marks  == [lines : Nat, stamps : Nat, ms : Nat, sub : Int]

\* The keys held after an event, and whether the game notices it.
Pressed(D, e) ==
  CASE e.kind = "press"   -> D \cup {e.arg}
    [] e.kind = "release" -> D \ {e.arg}
    [] OTHER              -> D
Noticed(D, e) == e.kind = "release" => e.arg \in D

\* What a Sleep with the keys D held shows: the key it repeats, then the lines
\* from a + 1 to b.
Repeats(c, D) == IF c.repeat \in D THEN 1 ELSE 0
Given(c, D, S, a, b) ==
  [k \in 1 .. Repeats(c, D) + (b - a) |->
     IF k <= Repeats(c, D) THEN [kind |-> "press", arg |-> c.repeat]
     ELSE S[a + k - Repeats(c, D)].event]

\* A call c that showed the list e leads from mark a to mark b.
Step(a, b, c, e, d, S, T) ==
  /\ c.op = "nap" =>
       /\ b.ms = a.ms + c.ms /\ b.sub = b.ms \div TickMs
       /\ b.stamps = a.stamps /\ a.lines <= b.lines
       /\ b.sub = a.sub => b.lines = a.lines
       /\ \A k \in a.lines + 1 .. b.lines : S[k].tick = b.sub
       /\ e = Given(c, d[a.lines], S, a.lines, b.lines)
  /\ c.op = "time" =>
       /\ b.ms = a.ms /\ b.sub = a.sub /\ b.lines = a.lines
       /\ b.stamps = a.stamps + 1
       /\ e = << [kind |-> "time", arg |-> T[b.stamps]] >>
  /\ c.op = "tick" => b = a /\ e = << >>

\* The clock of a mark is that of its last Sleep, if there was one.
Timed(m) == m.sub = m.ms \div TickMs \/ (m.sub = -1 /\ m.ms = 0)

Start == [lines |-> 0, stamps |-> 0, ms |-> 0, sub |-> -1]

Downs(d, S) ==
  /\ d \in [0 .. Len(S) -> SUBSET Keys]
  /\ d[0] = {}
  /\ \A k \in 1 .. Len(S) : /\ Noticed(d[k - 1], S[k].event)
                            /\ d[k] = Pressed(d[k - 1], S[k].event)

\* h and d tell the first n of the calls C, which showed E, wrote S and T.
Tells(h, d, n, C, E, S, T) ==
  /\ h \in [0 .. n -> Marks] /\ h[0] = Start
  /\ Downs(d, S)
  /\ \A i \in 0 .. n : /\ h[i].lines <= Len(S) /\ h[i].stamps <= Len(T)
                       /\ h[i].sub <= h[n].sub /\ Timed(h[i])
                       /\ \A k \in h[i].lines + 1 .. Len(S) : S[k].tick > h[i].sub
  /\ \A i \in 1 .. n : Step(h[i - 1], h[i], C[i], E[i], d, S, T)

\* The calls that are over.
Over == IF pc = "guest" THEN Made ELSE Made - 1

\* The recorded run at the end of its history.
Recording(h, d) ==
  /\ Tells(h, d, Over, calls, guest.seen, script, times)
  /\ guest.down = d[Len(script)] /\ held = guest.down
  /\ Len(times) = h[Over].stamps
  /\ pc \in {"guest", "pump", "script"} => /\ Len(script) = h[Over].lines
                                           /\ lastDrain = h[Over].sub
  /\ pc = "guest" => ms = h[Over].ms /\ subTick = h[Over].sub
  /\ pc # "guest" => ms = h[Over].ms + calls[Made].ms
  /\ pc = "pump" => guest.seen[Made] = << >>
  /\ pc \in {"script", "keys", "switches"} =>
       guest.seen[Made] = Given(calls[Made], d[h[Over].lines], script,
                                h[Over].lines, Len(script))
  /\ pc \in {"keys", "switches"} =>
       /\ lastDrain = Tick /\ Tick # h[Over].sub
       /\ \A k \in h[Over].lines + 1 .. Len(script) : script[k].tick = Tick

\* A rewound game has not slept yet: the count of Sleeps is the abandoned run's.
Rewound ==
  /\ restored # << >> /\ subTick = restored[1] /\ ms = snap[1].ms
  /\ Len(snap[1].guest.seen) <= Made
  /\ \A j \in Len(snap[1].guest.seen) + 1 .. Made : calls[j].op # "nap"

\* The game's memory and the carrier's clock and cursors at the mark of n calls
\* of the recorded run w.
At(h, d, w, g, t, c, tc) ==
  LET n == Len(g.seen)
  IN  /\ \A i \in 1 .. w.calls : i <= n => g.seen[i] = w.seen[i]
      /\ n <= w.calls => /\ t = h[n].ms /\ c = h[n].lines /\ tc = h[n].stamps
                           /\ g.down = d[c]

\* A replay in the middle of a Sleep.
Amid(h, d) ==
  /\ \A i \in 1 .. saw.calls : i <= Over => guest.seen[i] = saw.seen[i]
  /\ Made <= saw.calls =>
       /\ ms = h[Made].ms /\ timeCursor = h[Made].stamps
       /\ Tick # h[Over].sub => subIn = 0
       /\ cursor \in h[Over].lines .. h[Made].lines /\ guest.down = d[cursor]
       /\ pc = "pump" => cursor = h[Over].lines /\ guest.seen[Made] = << >>
       /\ pc = "script" => guest.seen[Made] = Given(calls[Made], d[h[Over].lines], script,
                                                    h[Over].lines, cursor)

Playing(h, d) ==
  /\ Tells(h, d, saw.calls, calls, saw.seen, script, times)
  /\ snap # << >> => At(h, d, saw, snap[1].guest, snap[1].ms, snap[1].cursor, snap[1].timeCursor)
  /\ ~Misled =>
       /\ pc = "guest" =>
            /\ At(h, d, saw, guest, ms, cursor, timeCursor)
            /\ Made <= saw.calls => subTick = h[Made].sub \/ Rewound
       /\ pc # "guest" => Amid(h, d)

Followed ==
  \E h, d : /\ mode = "record" => Recording(h, d)
            /\ mode = "replay" => Playing(h, d)

\* What the history rests on.
Clocked == subTick = Tick \/ (subTick = -1 /\ ms = 0)

Known ==
  /\ mode \in {"record", "replay"}
  /\ guest \in Guests /\ calls \in Seq(Calls)
  /\ script \in Seq(Lines) /\ times \in Seq(Seconds)
  /\ cursor \in Nat /\ timeCursor \in Nat
  /\ subTick \in Int /\ subIn \in Nat
  /\ snapAt \in Nat /\ restoreAt \in Nat
  /\ saw \in [calls : Nat, seen : Seq(Seq(Shows))]
  /\ saw.calls <= Len(saw.seen) /\ saw.calls <= Len(calls) /\ Made <= Len(calls)
  /\ pc # "guest" => Made > 0 /\ calls[Made] \in NapCalls /\ subTick = Tick
  /\ restored = << >> => Clocked

Rewinds ==
  /\ mode = "record" => cursor = 0 /\ timeCursor = 0 /\ restored = << >>
  /\ mode = "replay" => pc \in {"guest", "pump", "script"}
  /\ snap = << >> => restored = << >>
  /\ snap # << >> => /\ snap[1].guest \in Guests
                     /\ snap[1].ms \in Nat /\ snap[1].ms \div TickMs >= 1
                     /\ snap[1].cursor \in Nat /\ snap[1].timeCursor \in Nat
                     /\ Len(snap[1].guest.seen) <= Len(calls)
  /\ restored # << >> => /\ restored[1] \in Int
                         /\ restored[2] = snap[1].ms \div TickMs

InStep == IInv /\ Known /\ Rewinds /\ Followed
-----------------------------------------------------------------------------
(* What the game is shown.                                                 *)

LEMMA EventKinds ==
  /\ \A e \in KeyEvents : e.kind \in {"press", "release"} /\ e.arg \in Keys
  /\ \A e \in FocusEvents : e.kind = "switch" /\ e.arg \in BOOLEAN
  /\ \A e \in Events : e \in Shows /\ e.kind \in {"press", "release", "switch"}
  /\ \A v \in Answers : [kind |-> "time", arg |-> v] \in Shows
BY DEF KeyEvents, FocusEvents, Events, Shows

LEMMA SeeIs ==
  ASSUME NEW s \in Seq(Seq(Shows)), Len(s) > 0, NEW e \in Shows
  PROVE  /\ See(s, e) \in Seq(Seq(Shows)) /\ Len(See(s, e)) = Len(s)
         /\ \A i \in 1 .. Len(s) - 1 : See(s, e)[i] = s[i]
         /\ See(s, e)[Len(s)] = Append(s[Len(s)], e)
<1>1. s[Len(s)] \in Seq(Shows)
  OBVIOUS
<1>2. Append(s[Len(s)], e) \in Seq(Shows)
  BY <1>1
<1> QED
  BY <1>2 DEF See

LEMMA ShownIs ==
  ASSUME NEW g \in Guests, Len(g.seen) > 0, NEW e \in Shows
  PROVE  /\ Shown(g, e) \in Guests
         /\ Shown(g, e).down = Pressed(g.down, e)
         /\ Shown(g, e).seen = IF Noticed(g.down, e) THEN See(g.seen, e) ELSE g.seen
<1> DEFINE s == Shown(g, e)
<1>0. g.down \subseteq Keys /\ g.focus \in BOOLEAN /\ g.seen \in Seq(Seq(Shows))
  BY DEF Guests
<1>1. s.down = Pressed(g.down, e)
  BY DEF Shown, Guests, Pressed
<1>2. s.seen = IF Noticed(g.down, e) THEN See(g.seen, e) ELSE g.seen
  BY DEF Shown, Guests, Noticed
<1>3. s.down \subseteq Keys
  BY <1>0, <1>1, EventKinds DEF Pressed, Shows, Events, KeyEvents, FocusEvents
<1>4. s.seen \in Seq(Seq(Shows))
  BY <1>0, <1>2, SeeIs
<1>5. s.focus \in BOOLEAN
  BY <1>0 DEF Shown, Guests, Shows, Events, KeyEvents, FocusEvents
<1>6. PICK D, F, L : s = [g EXCEPT !.down = D, !.focus = F, !.seen = L]
  BY DEF Shown
<1> HIDE DEF s
<1>a. s.down = D /\ s.focus = F /\ s.seen = L
  BY <1>6 DEF Guests
<1>7. s \in Guests
  BY <1>3, <1>4, <1>5, <1>6, <1>a DEF Guests
<1> USE DEF s
<1> QED
  BY <1>1, <1>2, <1>7

\* A new call: nothing is shown in it yet.
LEMMA CalledIs ==
  ASSUME guest \in Guests
  PROVE  /\ Called \in Guests /\ Called.down = guest.down
         /\ Called.seen = Append(guest.seen, << >>)
         /\ Len(Called.seen) = Made + 1 /\ Made \in Nat
         /\ \A i \in 1 .. Made : Called.seen[i] = guest.seen[i]
         /\ Called.seen[Made + 1] = << >>
<1>0. guest.seen \in Seq(Seq(Shows)) /\ << >> \in Seq(Shows)
  BY DEF Guests
<1>1. Called.seen = Append(guest.seen, << >>) /\ Called.down = guest.down
  BY DEF Called, Guests
<1>2. Called = [guest EXCEPT !.seen = Append(guest.seen, << >>)]
  BY DEF Called
<1>3. Append(guest.seen, << >>) \in Seq(Seq(Shows))
  BY <1>0
<1>4. Called \in Guests
  BY <1>2, <1>3 DEF Guests
<1> QED
  BY <1>0, <1>1, <1>4 DEF Made

\* One line more.
LEMMA GivenMore ==
  ASSUME NEW c, NEW D, NEW S \in Seq(Lines), NEW a \in Nat, NEW b \in Nat,
         a <= b, b < Len(S)
  PROVE  Append(Given(c, D, S, a, b), S[b + 1].event) = Given(c, D, S, a, b + 1)
<1> DEFINE r == Repeats(c, D)
           f == Given(c, D, S, a, b)
           g == Given(c, D, S, a, b + 1)
           x == [kind |-> "press", arg |-> c.repeat]
<1>1. r \in Nat
  BY DEF Repeats
<1>2. /\ f = [k \in 1 .. r + (b - a) |-> IF k <= r THEN x ELSE S[a + k - r].event]
      /\ g = [k \in 1 .. r + (b + 1 - a) |-> IF k <= r THEN x ELSE S[a + k - r].event]
  BY DEF Given
<1> HIDE DEF r, f, g, x
<1>3. r + (b - a) \in Nat /\ r + (b + 1 - a) = r + (b - a) + 1
  BY <1>1
<1>4. PICK m \in Nat : m = r + (b - a)
  BY <1>3
<1>5. /\ f = [k \in 1 .. m |-> IF k <= r THEN x ELSE S[a + k - r].event]
      /\ g = [k \in 1 .. m + 1 |-> IF k <= r THEN x ELSE S[a + k - r].event]
  BY <1>2, <1>3, <1>4
<1>6. f \in Seq(Events \cup {x})
  <2>1. \A k \in 1 .. m : ~(k <= r) => S[a + k - r].event \in Events
    <3> TAKE k \in 1 .. m
    <3>1. HAVE ~(k <= r)
    <3>2. PICK j \in 1 .. Len(S) : j = a + k - r
      BY <1>1, <1>4, <3>1
    <3>3. S[j] \in Lines
      OBVIOUS
    <3> QED
      BY <3>2, <3>3 DEF Lines
  <2> QED
    BY <1>5, <2>1
<1>7. Len(f) = m
  BY <1>5, <1>6
<1>8. Append(f, S[b + 1].event) = [k \in 1 .. m + 1 |-> IF k = m + 1 THEN S[b + 1].event ELSE f[k]]
  BY <1>6, <1>7
<1>9. \A k \in 1 .. m + 1 : (IF k = m + 1 THEN S[b + 1].event ELSE f[k])
                              = IF k <= r THEN x ELSE S[a + k - r].event
  BY <1>1, <1>4, <1>5
<1>10. Append(f, S[b + 1].event) = g
  BY <1>5, <1>8, <1>9
<1> QED
  BY <1>10 DEF f, g

\* No line at all: the repeated key alone.
LEMMA GivenNone ==
  ASSUME NEW c, NEW D, NEW S, NEW a \in Nat
  PROVE  Given(c, D, S, a, a) = IF c.repeat \in D
                                THEN << [kind |-> "press", arg |-> c.repeat] >> ELSE << >>
<1> DEFINE x == [kind |-> "press", arg |-> c.repeat]
<1>1. CASE c.repeat \in D
  <2>1. Given(c, D, S, a, a) = [k \in 1 .. 1 |-> x]
    BY <1>1 DEF Given, Repeats
  <2>2. << x >> = [k \in 1 .. 1 |-> x]
    OBVIOUS
  <2> QED
    BY <1>1, <2>1, <2>2
<1>2. CASE c.repeat \notin D
  <2>1. Given(c, D, S, a, a) = [k \in 1 .. 0 |-> IF k <= 0 THEN x ELSE S[a + k - 0].event]
    BY <1>2 DEF Given, Repeats
  <2>2. DOMAIN [k \in 1 .. 0 |-> IF k <= 0 THEN x ELSE S[a + k - 0].event] = {}
    OBVIOUS
  <2> QED
    BY <1>2, <2>1, <2>2
<1> QED
  BY <1>1, <1>2

\* What was given by old lines does not change with a new one.
LEMMA GivenKept ==
  ASSUME NEW c, NEW D, NEW S, NEW R, NEW a \in Nat, NEW b \in Nat, a <= b,
         \A k \in a + 1 .. b : S[k] = R[k]
  PROVE  Given(c, D, S, a, b) = Given(c, D, R, a, b)
<1>1. Repeats(c, D) \in {0, 1}
  BY DEF Repeats
<1> QED
  BY <1>1 DEF Given
-----------------------------------------------------------------------------
(* The history grows: a call more, a line more, a time more.               *)

\* A step is told by its own lines only.
LEMMA StepKept ==
  ASSUME NEW a \in Marks, NEW b \in Marks, NEW c, NEW e, NEW d, NEW S, NEW T,
         Step(a, b, c, e, d, S, T),
         NEW dd, NEW R, NEW U,
         dd[a.lines] = d[a.lines],
         \A k \in a.lines + 1 .. b.lines : R[k] = S[k],
         U[b.stamps] = T[b.stamps]
  PROVE  Step(a, b, c, e, dd, R, U)
<1>1. a.lines \in Nat /\ b.lines \in Nat
  BY DEF Marks
<1>2. CASE c.op = "nap"
  <2>1. a.lines <= b.lines
    BY <1>2 DEF Step
  <2>2. Given(c, d[a.lines], S, a.lines, b.lines) = Given(c, d[a.lines], R, a.lines, b.lines)
    BY <1>1, <2>1, GivenKept
  <2> QED
    BY <1>2, <2>1, <2>2 DEF Step
<1>3. CASE c.op # "nap"
  BY <1>3 DEF Step
<1> QED
  BY <1>2, <1>3

LEMMA TellsOther ==
  ASSUME NEW h, NEW d, NEW n \in Nat, NEW C, NEW E, NEW S, NEW T,
         Tells(h, d, n, C, E, S, T), NEW B, NEW F,
         \A i \in 1 .. n : B[i] = C[i] /\ F[i] = E[i]
  PROVE  Tells(h, d, n, B, F, S, T)
BY DEF Tells

Longer(h, n, m) == [i \in 0 .. n + 1 |-> IF i <= n THEN h[i] ELSE m]

\* A call is over, and no line was written that it does not account for.
LEMMA TellsCall ==
  ASSUME NEW h, NEW d, NEW n \in Nat, NEW C, NEW E, NEW S \in Seq(Lines), NEW T \in Seq(Seconds),
         Tells(h, d, n, C, E, S, T),
         NEW m \in Marks, m.lines = Len(S), m.stamps <= Len(T), h[n].sub <= m.sub, Timed(m),
         Step(h[n], m, C[n + 1], E[n + 1], d, S, T)
  PROVE  /\ Tells(Longer(h, n, m), d, n + 1, C, E, S, T)
         /\ Longer(h, n, m)[n + 1] = m
<1> DEFINE g == Longer(h, n, m)
<1>1. /\ DOMAIN g = 0 .. n + 1 /\ g[n + 1] = m
      /\ \A i \in 0 .. n : g[i] = h[i]
  BY DEF Longer
<1>2. g \in [0 .. n + 1 -> Marks] /\ g[0] = Start
  BY DEF Longer, Tells
<1> HIDE DEF g
<1>3. \A i \in 0 .. n : h[i].sub \in Int
  BY DEF Tells, Marks
<1>4. m.sub \in Int /\ m.lines \in Nat
  BY DEF Marks
<1>5. ASSUME NEW i \in 0 .. n + 1
      PROVE  /\ g[i].lines <= Len(S) /\ g[i].stamps <= Len(T)
             /\ g[i].sub <= g[n + 1].sub /\ Timed(g[i])
             /\ \A k \in g[i].lines + 1 .. Len(S) : S[k].tick > g[i].sub
  <2>1. CASE i <= n
    <3>1. i \in 0 .. n /\ n \in 0 .. n
      BY <2>1
    <3>2. /\ h[i].lines <= Len(S) /\ h[i].stamps <= Len(T) /\ h[i].sub <= h[n].sub
          /\ Timed(h[i]) /\ \A k \in h[i].lines + 1 .. Len(S) : S[k].tick > h[i].sub
      BY <3>1 DEF Tells
    <3>3. h[i].sub <= m.sub
      BY <1>3, <1>4, <3>1, <3>2
    <3> QED
      BY <1>1, <3>1, <3>2, <3>3
  <2>2. CASE i = n + 1
    BY <1>1, <1>4, <2>2
  <2> QED
    BY <2>1, <2>2
<1>6. ASSUME NEW i \in 1 .. n + 1
      PROVE  Step(g[i - 1], g[i], C[i], E[i], d, S, T)
  <2>1. CASE i <= n
    <3>1. i \in 1 .. n /\ i \in 0 .. n /\ i - 1 \in 0 .. n
      BY <2>1
    <3> QED
      BY <1>1, <3>1 DEF Tells
  <2>2. CASE i = n + 1
    BY <1>1, <2>2
  <2> QED
    BY <2>1, <2>2
<1>7. Downs(d, S)
  BY DEF Tells
<1>8. Tells(g, d, n + 1, C, E, S, T)
  BY <1>2, <1>5, <1>6, <1>7 DEF Tells
<1> QED
  BY <1>1, <1>8 DEF g

Further(d, S, D) == [k \in 0 .. Len(S) + 1 |-> IF k <= Len(S) THEN d[k] ELSE D]

\* A line is written in a Sleep that is not over.
LEMMA TellsLine ==
  ASSUME NEW h, NEW d, NEW n \in Nat, NEW C, NEW E, NEW S \in Seq(Lines), NEW T \in Seq(Seconds),
         Tells(h, d, n, C, E, S, T),
         NEW l \in Lines, l.tick > h[n].sub, Noticed(d[Len(S)], l.event),
         Pressed(d[Len(S)], l.event) \in SUBSET Keys
  PROVE  \E f : /\ Tells(h, f, n, C, E, Append(S, l), T)
                /\ \A k \in 0 .. Len(S) : f[k] = d[k]
                /\ f[Len(S) + 1] = Pressed(d[Len(S)], l.event)
<1> DEFINE D == Pressed(d[Len(S)], l.event)
           f == Further(d, S, D)
           R == Append(S, l)
<1>1. /\ R \in Seq(Lines) /\ Len(R) = Len(S) + 1 /\ R[Len(S) + 1] = l
      /\ \A k \in 1 .. Len(S) : R[k] = S[k]
      /\ Len(S) \in Nat
  OBVIOUS
<1>2. /\ \A k \in 0 .. Len(S) : f[k] = d[k]
      /\ f[Len(S) + 1] = D
  BY <1>1 DEF Further
<1>3. d \in [0 .. Len(S) -> SUBSET Keys] /\ d[0] = {}
  BY DEF Tells, Downs
<1>4. f \in [0 .. Len(S) + 1 -> SUBSET Keys]
  BY <1>1, <1>3 DEF Further
<1> HIDE DEF f, R, D
<1>5. f \in [0 .. Len(R) -> SUBSET Keys] /\ f[0] = {}
  BY <1>1, <1>2, <1>3, <1>4
<1>6. ASSUME NEW k \in 1 .. Len(R)
      PROVE  Noticed(f[k - 1], R[k].event) /\ f[k] = Pressed(f[k - 1], R[k].event)
  <2>1. CASE k <= Len(S)
    <3>1. k \in 1 .. Len(S) /\ k \in 0 .. Len(S) /\ k - 1 \in 0 .. Len(S)
      BY <1>1, <2>1
    <3> QED
      BY <1>1, <1>2, <3>1 DEF Tells, Downs
  <2>2. CASE k = Len(S) + 1
    <3>1. k - 1 = Len(S) /\ Len(S) \in 0 .. Len(S)
      BY <1>1, <2>2
    <3> QED
      BY <1>1, <1>2, <2>2, <3>1 DEF D
  <2> QED
    BY <1>1, <2>1, <2>2
<1>7. Downs(f, R)
  BY <1>5, <1>6 DEF Downs
<1>8. ASSUME NEW i \in 0 .. n
      PROVE  /\ h[i].lines <= Len(R)
             /\ \A k \in h[i].lines + 1 .. Len(R) : R[k].tick > h[i].sub
  <2>1. /\ h[i].lines <= Len(S) /\ h[i].sub <= h[n].sub
        /\ \A k \in h[i].lines + 1 .. Len(S) : S[k].tick > h[i].sub
    BY DEF Tells
  <2>2. h[i].lines \in Nat /\ h[i].sub \in Int /\ h[n].sub \in Int /\ l.tick \in Nat
    BY DEF Tells, Marks, Lines
  <2>3. ASSUME NEW k \in h[i].lines + 1 .. Len(R)
        PROVE  R[k].tick > h[i].sub
    <3>1. CASE k <= Len(S)
      <4>1. k \in h[i].lines + 1 .. Len(S) /\ k \in 1 .. Len(S)
        BY <1>1, <2>2, <3>1, SMTT(30)
      <4> QED
        BY <1>1, <2>1, <4>1
    <3>2. CASE k = Len(S) + 1
      BY <1>1, <2>1, <2>2, <3>2
    <3> QED
      BY <1>1, <2>2, <3>1, <3>2
  <2> QED
    BY <1>1, <2>1, <2>2, <2>3
<1>9. ASSUME NEW i \in 1 .. n
      PROVE  Step(h[i - 1], h[i], C[i], E[i], f, R, T)
  <2>1. i \in 0 .. n /\ i - 1 \in 0 .. n
    OBVIOUS
  <2>2. h[i - 1] \in Marks /\ h[i] \in Marks /\ h[i].lines <= Len(S) /\ h[i - 1].lines <= Len(S)
    BY <2>1 DEF Tells
  <2>3. h[i - 1].lines \in 0 .. Len(S) /\ h[i].lines \in Nat
    BY <1>1, <2>2, SMTT(30) DEF Marks
  <2>4. Step(h[i - 1], h[i], C[i], E[i], d, S, T)
    BY DEF Tells
  <2>5. \A k \in h[i - 1].lines + 1 .. h[i].lines : R[k] = S[k]
    <3> TAKE k \in h[i - 1].lines + 1 .. h[i].lines
    <3>0. h[i - 1].lines \in Nat /\ h[i].lines \in Nat /\ h[i].lines <= Len(S)
      BY ONLY <2>2, <2>3
    <3>2. k \in 1 .. Len(S)
      BY ONLY <1>1, <3>0, SMTT(30)
    <3> QED
      BY <1>1, <3>2
  <2>6. f[h[i - 1].lines] = d[h[i - 1].lines]
    BY <1>2, <2>3
  <2> QED
    BY <2>2, <2>4, <2>5, <2>6, StepKept
<1>10. Tells(h, f, n, C, E, R, T)
  BY <1>7, <1>8, <1>9 DEF Tells
<1> QED
  BY <1>2, <1>10 DEF f, R, D

\* time() is answered.
LEMMA TellsTime ==
  ASSUME NEW h, NEW d, NEW n \in Nat, NEW C, NEW E, NEW S \in Seq(Lines), NEW T \in Seq(Seconds),
         Tells(h, d, n, C, E, S, T), NEW v \in Seconds
  PROVE  Tells(h, d, n, C, E, S, Append(T, v))
<1> DEFINE U == Append(T, v)
<1>1. Len(U) = Len(T) + 1 /\ Len(T) \in Nat /\ \A k \in 1 .. Len(T) : U[k] = T[k]
  OBVIOUS
<1> HIDE DEF U
<1>2. ASSUME NEW i \in 0 .. n
      PROVE  h[i].stamps <= Len(U)
  <2>1. h[i] \in Marks /\ h[i].stamps <= Len(T)
    BY DEF Tells
  <2>2. h[i].stamps \in Nat
    BY <2>1 DEF Marks
  <2> QED
    BY <1>1, <2>1, <2>2
<1>3. ASSUME NEW i \in 1 .. n
      PROVE  Step(h[i - 1], h[i], C[i], E[i], d, S, U)
  <2>1. i \in 0 .. n /\ i - 1 \in 0 .. n
    OBVIOUS
  <2>2. h[i - 1] \in Marks /\ h[i] \in Marks /\ h[i].stamps <= Len(T)
    BY <2>1 DEF Tells
  <2>3. Step(h[i - 1], h[i], C[i], E[i], d, S, T)
    BY DEF Tells
  <2>4. CASE C[i].op = "time"
    <3>0. h[i].stamps = h[i - 1].stamps + 1
      BY <2>3, <2>4 DEF Step
    <3>a. h[i].stamps \in Nat /\ h[i - 1].stamps \in Nat
      BY <2>2 DEF Marks
    <3>1. h[i].stamps \in 1 .. Len(T)
      BY <1>1, <2>2, <3>0, <3>a
    <3>2. U[h[i].stamps] = T[h[i].stamps]
      BY <1>1, <3>1
    <3> QED
      BY <2>2, <2>3, <3>2, StepKept
  <2>5. CASE C[i].op # "time"
    BY <2>3, <2>5 DEF Step
  <2> QED
    BY <2>4, <2>5
<1>4. Tells(h, d, n, C, E, S, U)
  BY <1>2, <1>3 DEF Tells
<1> QED
  BY <1>4 DEF U
-----------------------------------------------------------------------------
(* The parts of the steps.                                                 *)

LEMMA MadeIs == guest \in Guests => Made \in Nat /\ guest.seen \in Seq(Seq(Shows))
BY DEF Made, Guests

\* A call is made, for the first time or again.
LEMMA CallIs ==
  ASSUME Known, NEW c \in Calls, Call(c)
  PROVE  /\ pc = "guest" /\ Made \in Nat
         /\ calls' \in Seq(Calls) /\ Made + 1 <= Len(calls') /\ calls'[Made + 1] = c
         /\ Len(calls) <= Len(calls') /\ \A i \in 1 .. Len(calls) : calls'[i] = calls[i]
<1>1. Made \in Nat /\ Made <= Len(calls) /\ calls \in Seq(Calls) /\ Len(calls) \in Nat
  BY MadeIs DEF Known
<1>2. pc = "guest"
  BY DEF Call
<1>3. CASE Made < Len(calls)
  BY <1>1, <1>2, <1>3 DEF Call
<1>4. CASE ~(Made < Len(calls))
  <2>1. calls' = Append(calls, c)
    BY <1>4 DEF Call
  <2> QED
    BY <1>1, <1>2, <1>4, <2>1
<1> QED
  BY <1>3, <1>4

\* An event is shown in a call that is going on.
LEMMA HandOverIs ==
  ASSUME guest \in Guests, Made > 0, NEW e \in Shows, guest' = Shown(guest, e)
  PROVE  /\ guest' \in Guests /\ Made' = Made
         /\ guest'.down = Pressed(guest.down, e)
         /\ \A i \in 1 .. Made - 1 : guest'.seen[i] = guest.seen[i]
         /\ guest'.seen[Made] = IF Noticed(guest.down, e) THEN Append(guest.seen[Made], e)
                                ELSE guest.seen[Made]
<1>1. Made = Len(guest.seen) /\ guest.seen \in Seq(Seq(Shows))
  BY MadeIs DEF Made
<1>2. /\ guest' \in Guests /\ guest'.down = Pressed(guest.down, e)
      /\ guest'.seen = IF Noticed(guest.down, e) THEN See(guest.seen, e) ELSE guest.seen
  BY <1>1, ShownIs
<1>3. Made' = Len(guest'.seen)
  BY DEF Made
<1>4. CASE Noticed(guest.down, e)
  <2>1. guest'.seen = See(guest.seen, e) /\ Len(guest.seen) > 0
    BY <1>1, <1>2, <1>4
  <2>2. /\ Len(See(guest.seen, e)) = Len(guest.seen)
        /\ \A i \in 1 .. Len(guest.seen) - 1 : See(guest.seen, e)[i] = guest.seen[i]
        /\ See(guest.seen, e)[Len(guest.seen)] = Append(guest.seen[Len(guest.seen)], e)
    BY <1>1, <2>1, SeeIs
  <2> QED
    BY <1>1, <1>2, <1>3, <1>4, <2>1, <2>2
<1>5. CASE ~Noticed(guest.down, e)
  BY <1>1, <1>2, <1>3, <1>5
<1> QED
  BY <1>4, <1>5

\* A new call: what was seen before stays.
LEMMA CalledStep ==
  ASSUME guest \in Guests, guest' = Called
  PROVE  /\ guest' \in Guests /\ guest'.down = guest.down
         /\ Made' = Made + 1 /\ Made \in Nat
         /\ \A i \in 1 .. Made : guest'.seen[i] = guest.seen[i]
         /\ guest'.seen[Made + 1] = << >>
BY CalledIs DEF Made

\* A call that lasts, and what happens in it.
LEMMA Ongoing == pc # "guest" /\ Made \in Nat => Over = Made - 1
BY DEF Over

-----------------------------------------------------------------------------
(* Types.                                                                  *)

LEMMA InitKnown == Init => Known /\ Rewinds
<1> SUFFICES ASSUME Init PROVE Known /\ Rewinds
  OBVIOUS
<1>1. /\ mode = "record" /\ pc = "guest" /\ calls = << >> /\ guest = NewGuest
      /\ ms = 0 /\ subTick = -1 /\ subIn = 0 /\ script = << >> /\ times = << >>
      /\ cursor = 0 /\ timeCursor = 0 /\ snapAt = 0 /\ restoreAt = 0
      /\ snap = << >> /\ restored = << >> /\ saw = [calls |-> 0, seen |-> << >>]
  BY DEF Init
<1>2. guest \in Guests /\ Made = 0
  BY <1>1 DEF NewGuest, Guests, Made
<1>3. Known
  BY <1>1, <1>2 DEF Known, Clocked
<1> QED
  BY <1>1, <1>3 DEF Rewinds

\* A step that changes neither the game nor the carrier's memory of it.
LEMMA KnownQuiet ==
  ASSUME Known, Rewinds,
         UNCHANGED <<mode, calls, guest, ms, subTick, subIn, script, times, cursor, timeCursor,
                     snapAt, restoreAt, saw, snap, restored>>,
         UNCHANGED pc \/ (pc # "guest" /\ (mode = "replay" => pc' \in {"guest", "script"}))
  PROVE  Known' /\ Rewinds'
<1>2. Known'
  BY DEF Known, Clocked, Made, Tick
<1>3. Rewinds'
  BY DEF Rewinds
<1> QED
  BY <1>2, <1>3

LEMMA KnownSleep ==
  ASSUME IInv, Known, Rewinds, NEW c \in NapCalls, Sleep(c)
  PROVE  Known' /\ Rewinds'
<1>1. /\ pc = "guest" /\ pc' = "pump" /\ ms \in Nat /\ ms' = ms + c.ms /\ c.ms \in Nat
      /\ UNCHANGED <<mode, script, times, cursor, timeCursor, snapAt, restoreAt, saw,
                     snap, restored>>
      /\ guest' = Called /\ subTick' = Tick' /\ c \in Calls /\ Call(c)
  BY DEF Sleep, Call, NapCalls, Calls, IInv, Types, file, cursors, options, rewind
<1>s. subIn' \in Nat
  BY DEF Sleep, Known
<1>2. Tick' \in Nat
  BY <1>1, TicksGrow DEF Tick
<1>3. /\ calls' \in Seq(Calls) /\ Made + 1 <= Len(calls') /\ calls'[Made + 1] = c
      /\ Len(calls) <= Len(calls') /\ Len(calls) \in Nat /\ Len(calls') \in Nat
  BY <1>1, CallIs, SMTT(30) DEF Known
<1>4. guest' \in Guests /\ Made' = Made + 1 /\ Made \in Nat
  BY <1>1, CalledStep DEF Known
<1>5. Known'
  <2>1. saw.calls <= Len(calls')
    BY <1>3 DEF Known
  <2> QED
    BY <1>1, <1>s, <1>2, <1>3, <1>4, <2>1 DEF Known, Clocked
<1>6. Rewinds'
  <2>1. ASSUME snap # << >>
        PROVE  Len(snap[1].guest.seen) <= Len(calls')
    <3>1. Len(snap[1].guest.seen) \in Nat /\ Len(snap[1].guest.seen) <= Len(calls)
      BY <2>1 DEF Rewinds, Guests
    <3> QED
      BY <1>3, <3>1
  <2> QED
    BY <1>1, <2>1 DEF Rewinds
<1> QED
  BY <1>5, <1>6

\* A step of a Sleep that shows an event.
LEMMA KnownShown ==
  ASSUME Known, Rewinds, NEW e \in Shows, pc # "guest", pc' # "guest", guest' = Shown(guest, e),
         UNCHANGED <<mode, calls, ms, subTick, subIn, times, snapAt, restoreAt, saw,
                     snap, restored>>,
         script' \in Seq(Lines), cursor' \in Nat, timeCursor' = timeCursor,
         mode = "record" => cursor' = cursor,
         mode = "replay" => pc' \in {"pump", "script"}
  PROVE  Known' /\ Rewinds'
<1>2. guest' \in Guests /\ Made' = Made
  BY HandOverIs DEF Known
<1>3. Known'
  BY <1>2 DEF Known, Clocked, Tick
<1>4. Rewinds'
  BY DEF Rewinds
<1> QED
  BY <1>3, <1>4

\* What the recorder writes is a line of a script.
LEMMA LineType ==
  ASSUME ms \in Nat, NEW e \in Events
  PROVE  Line(e) \in Lines /\ Line(e).tick = Tick /\ Line(e).event = e
BY TickType DEF Line, Lines

\* Every step but those of the calls time() and safe point, and the restart.
LEMMA KnownThread ==
  ASSUME IInv, Known, Rewinds,
         WindowThread \/ Pump \/ Deliver \/ StartDrain \/ DrainKey \/ DrainSwitch
  PROVE  Known' /\ Rewinds'
<1>1. CASE WindowThread
  <2>1. UNCHANGED <<mode, calls, guest, ms, subTick, subIn, script, times, cursor, timeCursor,
                    snapAt, restoreAt, saw, snap, restored, pc>>
    BY <1>1 DEF WindowThread, KeyEvent, SwitchHook, file, cursors, options, rewind
  <2> QED
    BY <2>1, KnownQuiet
<1>2. CASE StartDrain
  <2>1. /\ UNCHANGED <<mode, calls, guest, ms, subTick, subIn, script, times, cursor, timeCursor,
                       snapAt, restoreAt, saw, snap, restored>>
        /\ pc # "guest" /\ (mode = "replay" => pc' = "guest")
    BY <1>2 DEF StartDrain, file, cursors, options, rewind
  <2> QED
    BY <2>1, KnownQuiet
<1>h. ASSUME NEW e \in Events, NEW b \in BOOLEAN, HandOver(e, b)
      PROVE  guest' = Shown(guest, e) /\ script' \in Seq(Lines) /\ times' = times
  <2>1. Line(e) \in Lines /\ script \in Seq(Lines)
    BY LineType DEF Known, IInv, Types
  <2>2. Append(script, Line(e)) \in Seq(Lines)
    BY <2>1
  <2> QED
    BY <1>h, <2>1, <2>2 DEF HandOver
<1>3. CASE Pump
  <2>1. /\ UNCHANGED <<mode, calls, ms, subTick, subIn, cursor, timeCursor,
                       snapAt, restoreAt, saw, snap, restored>>
        /\ pc # "guest" /\ pc' = "script"
    BY <1>3 DEF Pump, cursors, options, rewind
  <2>2. CASE calls[Made].repeat \in guest.down
    <3> DEFINE e == [kind |-> "press", arg |-> calls[Made].repeat]
    <3>1. e \in Events
      BY <2>2 DEF Known, Guests, Events, KeyEvents
    <3>2. HandOver(e, FALSE)
      BY <1>3, <2>2 DEF Pump
    <3> HIDE DEF e
    <3>3. guest' = Shown(guest, e) /\ script' \in Seq(Lines) /\ times' = times
      BY <1>h, <3>1, <3>2
    <3> QED
      BY <2>1, <3>1, <3>3, KnownShown, EventKinds DEF Known
  <2>3. CASE calls[Made].repeat \notin guest.down
    <3>1. UNCHANGED <<guest, script, times>>
      BY <1>3, <2>3 DEF Pump, file
    <3> QED
      BY <2>1, <3>1, KnownQuiet
  <2> QED
    BY <2>2, <2>3
<1>4. CASE Deliver
  <2>1. /\ mode = "replay" /\ cursor < Len(script) /\ cursor + 1 \in 1 .. Len(script)
    BY <1>4, SMTT(30) DEF Deliver, Due, Known
  <2>2. script[cursor + 1] \in Lines
    BY <2>1 DEF Known
  <2>3. script[cursor + 1].event \in Events
    BY <2>2 DEF Lines
  <2>4. /\ UNCHANGED <<mode, pc, calls, ms, subTick, subIn, timeCursor,
                       snapAt, restoreAt, saw, snap, restored>>
        /\ pc = "script" /\ cursor' = cursor + 1
        /\ HandOver(script[cursor + 1].event, TRUE)
    BY <1>4 DEF Deliver, options, rewind
  <2>5. PICK e \in Events : e = script[cursor + 1].event
    BY <2>3
  <2>6. guest' = Shown(guest, e) /\ script' \in Seq(Lines) /\ times' = times
    BY <1>h, <2>4, <2>5
  <2> QED
    BY <2>1, <2>4, <2>6, KnownShown, EventKinds DEF Known
<1>q. ASSUME NEW q \in Seq(QueuedEvents), q # << >>
      PROVE  Head(q).event \in Events
  <2>1. Head(q) \in QueuedEvents
    BY <1>q
  <2> QED
    BY <2>1 DEF QueuedEvents, Events
<1>d. ASSUME NEW q \in Seq(QueuedEvents), q # << >>, HandOver(Head(q).event, TRUE),
             mode = "record", pc # "guest", pc' # "guest",
             UNCHANGED <<mode, calls, ms, subTick, subIn, cursor, timeCursor,
                         snapAt, restoreAt, saw, snap, restored>>
      PROVE  Known' /\ Rewinds'
  <2>1. PICK e \in Events : e = Head(q).event
    BY <1>d, <1>q
  <2>2. guest' = Shown(guest, e) /\ script' \in Seq(Lines) /\ times' = times
    BY <1>h, <1>d, <2>1
  <2> QED
    BY <1>d, <2>2, KnownShown, EventKinds DEF Known
<1>5. CASE DrainKey
  <2>1. /\ UNCHANGED <<mode, calls, ms, subTick, subIn, cursor, timeCursor,
                       snapAt, restoreAt, saw, snap, restored>>
        /\ mode = "record" /\ pc = "keys" /\ pc' # "guest"
    BY <1>5 DEF DrainKey, Rewinds, Known, cursors, options, rewind
  <2>2. CASE keyQueue = << >>
    <3>1. UNCHANGED <<guest, script, times>>
      BY <1>5, <2>2 DEF DrainKey, file
    <3> QED
      BY <2>1, <3>1, KnownQuiet
  <2>3. CASE keyQueue # << >>
    <3>1. HandOver(Head(keyQueue).event, TRUE) /\ keyQueue \in Seq(QueuedEvents)
      BY <1>5, <2>3 DEF DrainKey, IInv, Types
    <3> QED
      BY <1>d, <2>1, <2>3, <3>1
  <2> QED
    BY <2>2, <2>3
<1>6. CASE DrainSwitch
  <2>1. /\ UNCHANGED <<mode, calls, ms, subTick, subIn, cursor, timeCursor,
                       snapAt, restoreAt, saw, snap, restored>>
        /\ mode = "record" /\ pc = "switches"
    BY <1>6 DEF DrainSwitch, Rewinds, Known, cursors, options, rewind
  <2>2. CASE focusQueue = << >>
    <3>1. UNCHANGED <<guest, script, times>>
      BY <1>6, <2>2 DEF DrainSwitch, file
    <3> QED
      BY <2>1, <3>1, KnownQuiet
  <2>3. CASE focusQueue # << >>
    <3>1. /\ HandOver(Head(focusQueue).event, TRUE) /\ focusQueue \in Seq(QueuedEvents)
          /\ pc' = pc
      BY <1>6, <2>3 DEF DrainSwitch, IInv, Types
    <3> QED
      BY <1>d, <2>1, <2>3, <3>1
  <2> QED
    BY <2>2, <2>3
<1> QED
  BY <1>1, <1>2, <1>3, <1>4, <1>5, <1>6

\* What time() shows.
LEMMA TimeIs ==
  ASSUME Known, Time
  PROVE  \E v \in Answers :
           /\ guest' \in Guests /\ guest'.down = guest.down
           /\ Made' = Made + 1 /\ Made \in Nat
           /\ \A i \in 1 .. Made : guest'.seen[i] = guest.seen[i]
           /\ guest'.seen[Made + 1] = << [kind |-> "time", arg |-> v] >>
           /\ mode = "record" => v \in Seconds /\ times' = Append(times, v)
                                 /\ timeCursor' = timeCursor
           /\ mode # "record" =>
                /\ times' = times
                /\ IF timeCursor < Len(times)
                   THEN v = times[timeCursor + 1] /\ timeCursor' = timeCursor + 1
                   ELSE v = Epoch /\ timeCursor' = timeCursor
<1>1. PICK v \in Answers :
        LET e == [kind |-> "time", arg |-> v]
        IN  /\ guest' = Shown(Called, e)
            /\ IF mode = "record"
               THEN v \in Seconds /\ times' = Append(times, v) /\ UNCHANGED timeCursor
               ELSE /\ IF timeCursor < Len(times)
                       THEN v = times[timeCursor + 1] /\ timeCursor' = timeCursor + 1
                       ELSE v = Epoch /\ UNCHANGED timeCursor
                    /\ UNCHANGED times
  BY DEF Time, Answers
<1> DEFINE e == [kind |-> "time", arg |-> v]
<1>2. e \in Shows /\ Noticed(guest.down, e) /\ Pressed(guest.down, e) = guest.down
  BY EventKinds DEF Noticed, Pressed
<1>3. /\ Called \in Guests /\ Called.down = guest.down
      /\ Len(Called.seen) = Made + 1 /\ Made \in Nat
      /\ \A i \in 1 .. Made : Called.seen[i] = guest.seen[i]
      /\ Called.seen[Made + 1] = << >>
  BY CalledIs DEF Known
<1>4. guest' = Shown(Called, e)
  BY <1>1
<1> HIDE DEF e
<1>5. /\ guest' \in Guests /\ guest'.down = guest.down
      /\ guest'.seen = See(Called.seen, e)
  BY <1>2, <1>3, <1>4, ShownIs
<1>6. /\ Len(guest'.seen) = Made + 1
      /\ \A i \in 1 .. Made : guest'.seen[i] = Called.seen[i]
      /\ guest'.seen[Made + 1] = Append(<< >>, e)
  <2>1. PICK s \in Seq(Seq(Shows)) : s = Called.seen
    BY <1>3 DEF Guests
  <2>2. Len(s) = Made + 1 /\ Len(s) > 0 /\ s[Made + 1] = << >> /\ Len(s) - 1 = Made
    BY <1>3, <2>1
  <2>3. /\ Len(See(s, e)) = Len(s) /\ \A i \in 1 .. Len(s) - 1 : See(s, e)[i] = s[i]
        /\ See(s, e)[Len(s)] = Append(s[Len(s)], e)
    BY <1>2, <2>2, SeeIs
  <2> QED
    BY <1>5, <2>1, <2>2, <2>3
<1>7. Made' = Made + 1
  BY <1>6 DEF Made
<1>8. Append(<< >>, e) = << e >>
  OBVIOUS
<1>9. guest'.seen[Made + 1] = << [kind |-> "time", arg |-> v] >>
  BY <1>6, <1>8 DEF e
<1> QED
  BY <1>1, <1>3, <1>5, <1>6, <1>7, <1>9

LEMMA KnownTime ==
  ASSUME Known, Rewinds, Time
  PROVE  Known' /\ Rewinds'
<1>1. /\ UNCHANGED <<pc, mode, ms, subTick, subIn, script, cursor, snapAt, restoreAt, saw,
                     snap, restored>>
      /\ [op |-> "time"] \in Calls /\ Call([op |-> "time"])
  BY DEF Time, Calls, options, rewind
<1>2. /\ pc = "guest" /\ calls' \in Seq(Calls) /\ Made + 1 <= Len(calls')
      /\ Len(calls) <= Len(calls') /\ Len(calls) \in Nat /\ Len(calls') \in Nat
  BY <1>1, CallIs DEF Known
<1>3. /\ guest' \in Guests /\ Made' = Made + 1
      /\ times' \in Seq(Seconds) /\ timeCursor' \in Nat
      /\ mode = "record" => timeCursor' = timeCursor
  <2>1. /\ times \in Seq(Seconds) /\ timeCursor \in Nat /\ timeCursor + 1 \in Nat
        /\ \A v \in Seconds : Append(times, v) \in Seq(Seconds)
    BY DEF Known
  <2> QED
    BY <2>1, TimeIs
<1>4. Known'
  <2>1. saw.calls <= Len(calls')
    BY <1>2 DEF Known
  <2> QED
    BY <1>1, <1>2, <1>3, <2>1 DEF Known, Clocked, Tick
<1>5. Rewinds'
  <2>1. ASSUME snap # << >>
        PROVE  Len(snap[1].guest.seen) <= Len(calls')
    <3>1. Len(snap[1].guest.seen) \in Nat /\ Len(snap[1].guest.seen) <= Len(calls)
      BY <2>1 DEF Rewinds, Guests
    <3> QED
      BY <1>2, <3>1
  <2> QED
    BY <1>1, <1>3, <2>1 DEF Rewinds
<1> QED
  BY <1>4, <1>5

LEMMA KnownSafepoint ==
  ASSUME IInv, Known, Rewinds, Safepoint
  PROVE  Known' /\ Rewinds'
<1>1. /\ UNCHANGED <<pc, mode, subTick, subIn, script, times, snapAt, restoreAt, saw>>
      /\ [op |-> "tick"] \in Calls /\ Call([op |-> "tick"])
  BY DEF Safepoint, Calls, options, file
<1>2. /\ pc = "guest" /\ calls' \in Seq(Calls) /\ Made + 1 <= Len(calls')
      /\ Len(calls) <= Len(calls') /\ Len(calls) \in Nat /\ Len(calls') \in Nat /\ Made \in Nat
  BY <1>1, CallIs DEF Known
<1>3. saw.calls <= Len(calls')
  BY <1>2 DEF Known
<1>4. ASSUME snap # << >>
      PROVE  Len(snap[1].guest.seen) \in Nat /\ Len(snap[1].guest.seen) <= Len(calls')
  <2>1. Len(snap[1].guest.seen) \in Nat /\ Len(snap[1].guest.seen) <= Len(calls)
    BY <1>4 DEF Rewinds, Guests
  <2> QED
    BY <1>2, <2>1
<1>5. ms \in Nat /\ Tick \in Nat
  BY TickType DEF IInv, Types
<1>6. CASE RestoreDue
  <2>1. snap # << >> /\ mode = "replay" /\ snap' = snap
    BY <1>6 DEF RestoreDue, IInv, ModeOK, Safepoint, Known
  <2>2. /\ guest' = snap[1].guest /\ ms' = snap[1].ms /\ cursor' = snap[1].cursor
        /\ timeCursor' = snap[1].timeCursor
        /\ restored' = <<Tick, Tick'>>
    BY <1>6 DEF Safepoint, Restore
  <2>3. restored' # << >> /\ restored'[1] = Tick /\ restored'[2] = Tick'
    BY <2>2
  <2>4. Made' = Len(snap[1].guest.seen)
    BY <2>2 DEF Made
  <2>5. Known'
    BY <1>1, <1>2, <1>3, <1>4, <2>1, <2>2, <2>3, <2>4 DEF Known, Rewinds
  <2>6. Rewinds'
    BY <1>1, <1>2, <1>4, <1>5, <2>1, <2>2, <2>3 DEF Rewinds, Tick
  <2> QED
    BY <2>5, <2>6
<1>7. CASE ~RestoreDue
  <2>1. /\ guest' = Called /\ UNCHANGED <<ms, cursor, timeCursor, restored>>
        /\ snap' = IF CaptureDue THEN Captured ELSE snap
    BY <1>7 DEF Safepoint, cursors
  <2>2. guest' \in Guests /\ Made' = Made + 1
    BY <2>1, CalledStep DEF Known
  <2>3. Known'
    BY <1>1, <1>2, <1>3, <2>1, <2>2 DEF Known, Clocked, Tick
  <2>4. CASE CaptureDue
    <3>1. mode = "replay" /\ snap = << >> /\ Tick >= 1
      BY <1>5, <2>4 DEF CaptureDue, IInv, ModeOK, Known
    <3>2. /\ snap' # << >>
          /\ snap'[1].guest = Called /\ snap'[1].ms = ms /\ snap'[1].cursor = cursor
          /\ snap'[1].timeCursor = timeCursor
      BY <2>1, <2>4 DEF Captured
    <3>3. Len(Called.seen) = Made + 1
      BY CalledIs DEF Known
    <3>4. Rewinds'
      BY <1>1, <1>2, <1>5, <2>1, <2>2, <3>1, <3>2, <3>3 DEF Rewinds, Known, Tick
    <3> QED
      BY <2>3, <3>4
  <2>5. CASE ~CaptureDue
    <3>1. Rewinds'
      BY <1>1, <1>4, <2>1, <2>5 DEF Rewinds
    <3> QED
      BY <2>3, <3>1
  <2> QED
    BY <2>4, <2>5
<1> QED
  BY <1>6, <1>7

LEMMA KnownReplay ==
  ASSUME Known, Rewinds, Replay
  PROVE  Known' /\ Rewinds'
<1>1. /\ mode' = "replay" /\ pc' = "guest" /\ guest' = NewGuest
      /\ ms' = 0 /\ subTick' = -1 /\ subIn' = 0
      /\ UNCHANGED <<calls, script, times, cursor, timeCursor, snap, restored>>
      /\ saw' = [calls |-> Over, seen |-> guest.seen]
      /\ mode = "record"
  BY DEF Replay, Over, file, cursors, rewind
<1>2. snapAt' \in Nat /\ restoreAt' \in Nat
  BY DEF Replay
<1>3. guest' \in Guests /\ Made' = 0
  BY <1>1 DEF NewGuest, Guests, Made
<1>4. Over \in Nat /\ Over <= Made /\ Made \in Nat /\ guest.seen \in Seq(Seq(Shows))
  BY MadeIs DEF Known, Over
<1>5. saw' \in [calls : Nat, seen : Seq(Seq(Shows))] /\ saw'.calls = Over /\ saw'.seen = guest.seen
  BY <1>1, <1>4
<1>6. Over <= Len(guest.seen) /\ Over <= Len(calls) /\ Len(calls) \in Nat
  BY <1>4 DEF Made, Known
<1>7. Known'
  BY <1>1, <1>2, <1>3, <1>5, <1>6 DEF Known, Clocked
<1>8. Rewinds'
  BY <1>1 DEF Rewinds
<1> QED
  BY <1>7, <1>8

LEMMA NextKnown == IInv /\ Known /\ Rewinds /\ [Next]_vars => Known' /\ Rewinds'
<1> SUFFICES ASSUME IInv, Known, Rewinds, [Next]_vars
             PROVE  Known' /\ Rewinds'
  OBVIOUS
<1>1. CASE WindowThread \/ Pump \/ Deliver \/ StartDrain \/ DrainKey \/ DrainSwitch
  BY <1>1, KnownThread
<1>2. ASSUME NEW c \in NapCalls, Sleep(c)
      PROVE  Known' /\ Rewinds'
  BY <1>2, KnownSleep
<1>3. CASE UNCHANGED vars
  BY <1>3, KnownQuiet DEF vars, file, cursors, options, rewind
<1> QED
  BY <1>1, <1>2, <1>3, KnownTime, KnownSafepoint, KnownReplay DEF Next, Carrier
-----------------------------------------------------------------------------
(* The recorded run writes its history.                                    *)

\* What the history says of the present.
LEMMA RecordingIs ==
  ASSUME IInv, Known, NEW h, NEW d, Recording(h, d)
  PROVE  /\ Over \in Nat /\ h[Over] \in Marks /\ Over \in 0 .. Over
         /\ Tells(h, d, Over, calls, guest.seen, script, times)
         /\ h[Over].lines \in Nat /\ h[Over].lines <= Len(script)
         /\ h[Over].stamps \in Nat /\ h[Over].ms \in Nat /\ h[Over].sub \in Int
         /\ h[Over].sub <= Tick /\ Timed(h[Over])
         /\ Made \in Nat /\ Len(script) \in Nat /\ Len(times) \in Nat
<1>1. Made \in Nat /\ Over \in Nat
  BY MadeIs DEF Known, Over
<1>2. Tells(h, d, Over, calls, guest.seen, script, times)
  BY DEF Recording
<1>3. h[Over] \in Marks /\ Timed(h[Over]) /\ h[Over].lines <= Len(script)
  BY <1>1, <1>2 DEF Tells
<1>4. /\ h[Over].lines \in Nat /\ h[Over].stamps \in Nat /\ h[Over].ms \in Nat
      /\ h[Over].sub \in Int
  BY <1>3 DEF Marks
<1>5. ms \in Nat /\ h[Over].ms <= ms
  <2>1. CASE pc = "guest"
    BY <1>4, <2>1 DEF Recording, IInv, Types
  <2>2. CASE pc # "guest"
    <3>1. ms = h[Over].ms + calls[Made].ms /\ calls[Made].ms \in Nat
      BY <2>2 DEF Recording, Known, NapCalls
    <3> QED
      BY <1>4, <3>1
  <2> QED
    BY <2>1, <2>2
<1>6. h[Over].sub <= Tick
  <2>1. PICK t \in Nat : t = h[Over].ms
    BY <1>4
  <2>2. t \div TickMs <= ms \div TickMs /\ ms \div TickMs \in Nat
    BY <1>5, <2>1, TicksGrow
  <2>3. h[Over].sub = t \div TickMs \/ h[Over].sub = -1
    BY <1>3, <2>1 DEF Timed
  <2> QED
    BY <2>2, <2>3 DEF Tick
<1>7. Len(script) \in Nat /\ Len(times) \in Nat
  BY DEF Known
<1> QED
  BY <1>1, <1>2, <1>3, <1>4, <1>6, <1>7

LEMMA RecordQuiet ==
  ASSUME NEW h, NEW d, Recording(h, d),
         UNCHANGED <<pc, calls, guest, ms, subTick, lastDrain, held, script, times>>
  PROVE  Recording(h, d)'
BY DEF Recording, Over, Made, Tick

LEMMA RecordSleep ==
  ASSUME IInv, Known, NEW h, NEW d, Recording(h, d), NEW c \in NapCalls, Sleep(c)
  PROVE  Recording(h, d)'
<1>1. /\ pc = "guest" /\ pc' = "pump" /\ ms' = ms + c.ms
      /\ UNCHANGED <<script, times, held, lastDrain>>
      /\ guest' = Called /\ c \in Calls /\ Call(c)
  BY DEF Sleep, Call, Calls, file
<1>2. /\ calls'[Made + 1] = c /\ \A i \in 1 .. Len(calls) : calls'[i] = calls[i]
      /\ Made \in Nat /\ Made <= Len(calls) /\ Len(calls) \in Nat
  BY <1>1, CallIs, SMTT(30) DEF Known
<1>3. /\ guest'.down = guest.down /\ Made' = Made + 1
      /\ \A i \in 1 .. Made : guest'.seen[i] = guest.seen[i]
      /\ guest'.seen[Made + 1] = << >>
  BY <1>1, CalledStep DEF Known
<1>4. Over = Made /\ Over' = Made
  BY <1>1, <1>2, <1>3 DEF Over
<1>5. Tells(h, d, Made, calls', guest'.seen, script, times)
  <2>1. Tells(h, d, Made, calls, guest.seen, script, times)
    BY <1>4 DEF Recording
  <2>2. \A i \in 1 .. Made : calls'[i] = calls[i] /\ guest'.seen[i] = guest.seen[i]
    BY <1>2, <1>3
  <2> QED
    BY <1>2, <2>1, <2>2, TellsOther, SMTT(30)
<1> QED
  BY <1>1, <1>2, <1>3, <1>4, <1>5 DEF Recording

\* The key repeat, if the game repeats a key it holds.
LEMMA PumpIs ==
  ASSUME Known, Pump
  PROVE  LET k == calls[Made].repeat
         IN  /\ Made' = Made /\ Made \in Nat /\ Made > 0 /\ guest'.down = guest.down
             /\ \A i \in 1 .. Made - 1 : guest'.seen[i] = guest.seen[i]
             /\ guest.seen[Made] = << >> =>
                  guest'.seen[Made] = IF k \in guest.down
                                      THEN << [kind |-> "press", arg |-> k] >> ELSE << >>
             /\ UNCHANGED <<script, times, held>>
<1> DEFINE k == calls[Made].repeat
           x == [kind |-> "press", arg |-> k]
<1>1. pc = "pump" /\ Made \in Nat /\ Made > 0
  BY MadeIs DEF Pump, Known
<1>2. CASE k \in guest.down
  <2>1. x \in Shows
    BY <1>2, EventKinds DEF Known, Guests, Events, KeyEvents
  <2>2. HandOver(x, FALSE)
    BY <1>1, <1>2 DEF Pump
  <2>3. guest' = Shown(guest, x) /\ UNCHANGED <<script, times, held>>
    BY <2>2 DEF HandOver, Recorded, HeldAfter
  <2>4. Pressed(guest.down, x) = guest.down /\ Noticed(guest.down, x)
    BY <1>2 DEF Pressed, Noticed
  <2> HIDE DEF x
  <2>5. Append(<< >>, x) = << x >>
    OBVIOUS
  <2>6. /\ Made' = Made /\ guest'.down = guest.down
        /\ \A i \in 1 .. Made - 1 : guest'.seen[i] = guest.seen[i]
        /\ guest'.seen[Made] = Append(guest.seen[Made], x)
    BY <1>1, <2>1, <2>3, <2>4, HandOverIs DEF Known
  <2> QED
    BY <1>1, <1>2, <2>3, <2>5, <2>6 DEF x
<1>3. CASE k \notin guest.down
  BY <1>1, <1>3 DEF Pump, file, Made
<1> QED
  BY <1>2, <1>3

LEMMA RecordPump ==
  ASSUME IInv, Known, NEW h, NEW d, Recording(h, d), Pump
  PROVE  Recording(h, d)'
<1>1. /\ pc = "pump" /\ pc' = "script"
      /\ UNCHANGED <<calls, ms, lastDrain>>
  BY DEF Pump
<1>2. Made \in Nat /\ Made > 0 /\ Over = Made - 1
  BY <1>1, RecordingIs DEF Known, Over
<1> DEFINE k == calls[Made].repeat
           x == [kind |-> "press", arg |-> k]
<1>3. /\ Made' = Made /\ guest'.down = guest.down
      /\ \A i \in 1 .. Made - 1 : guest'.seen[i] = guest.seen[i]
      /\ guest'.seen[Made] = IF k \in guest.down THEN << x >> ELSE << >>
      /\ UNCHANGED <<script, times, held>>
  BY <1>1, PumpIs DEF Recording
<1>4. Over' = Over
  BY <1>1, <1>2, <1>3 DEF Over
<1>5. Tells(h, d, Over, calls', guest'.seen, script', times')
  <2>1. Tells(h, d, Over, calls, guest.seen, script, times) /\ Over \in Nat
    BY RecordingIs
  <2>2. \A i \in 1 .. Over : calls'[i] = calls[i] /\ guest'.seen[i] = guest.seen[i]
    BY <1>1, <1>2, <1>3
  <2> QED
    BY <1>3, <2>1, <2>2, TellsOther
<1>6. guest'.seen[Made] = Given(calls[Made], d[h[Over].lines], script, h[Over].lines, Len(script))
  <2>1. Len(script) = h[Over].lines /\ guest.down = d[Len(script)]
    BY <1>1 DEF Recording
  <2>2. Given(calls[Made], d[h[Over].lines], script, h[Over].lines, h[Over].lines)
          = IF calls[Made].repeat \in d[h[Over].lines] THEN << x >> ELSE << >>
    BY RecordingIs, GivenNone
  <2> QED
    BY <1>3, <2>1, <2>2
<1> HIDE DEF k, x
<1> QED
  BY <1>1, <1>3, <1>4, <1>5, <1>6 DEF Recording

\* The mark at the end of a Sleep.
LEMMA RecordEnds ==
  ASSUME IInv, Known, NEW h, NEW d, Recording(h, d),
         pc = "switches" \/ (pc = "script" /\ Tick = lastDrain), pc' = "guest",
         UNCHANGED <<calls, guest, ms, subTick, lastDrain, held, script, times>>
  PROVE  \E g : Recording(g, d)'
<1>m. PICK m : m = [lines |-> Len(script), stamps |-> Len(times), ms |-> ms, sub |-> Tick]
  OBVIOUS
<1>n. PICK n \in Nat : n = Over
  BY RecordingIs
<1>1. /\ Made \in Nat /\ Made > 0 /\ n = Made - 1 /\ n \in Nat
      /\ calls[Made] \in NapCalls /\ subTick = Tick
  BY <1>n, RecordingIs DEF Known, Over
<1>2. ms \in Nat /\ Tick \in Nat /\ Tick = ms \div TickMs
  BY TickType DEF IInv, Types, Tick
<1>3. /\ h[n].lines \in Nat /\ h[n].sub \in Int /\ h[n].sub <= Tick
      /\ h[n].lines <= Len(script)
      /\ Len(script) \in Nat /\ Len(times) \in Nat
      /\ Tells(h, d, n, calls, guest.seen, script, times)
  BY <1>n, RecordingIs
<1>4. /\ m \in Marks /\ m.lines = Len(script) /\ m.stamps = Len(times) /\ m.ms = ms
      /\ m.sub = Tick
  BY <1>m, <1>2, <1>3 DEF Marks
<1>5. Timed(m)
  BY <1>2, <1>4 DEF Timed
<1>6. /\ Len(times) = h[n].stamps /\ ms = h[n].ms + calls[Made].ms
      /\ guest.seen[Made] = Given(calls[Made], d[h[n].lines], script, h[n].lines, Len(script))
      /\ guest.down = d[Len(script)] /\ held = guest.down
  BY <1>n DEF Recording
<1>7. lastDrain = Tick
  BY DEF Recording
<1>r. /\ script \in Seq(Lines) /\ times \in Seq(Seconds)
      /\ m.stamps <= Len(times) /\ h[n].sub <= m.sub
  BY <1>3, <1>4 DEF Known
<1>8. /\ Tick = h[n].sub => Len(script) = h[n].lines
      /\ \A k \in h[n].lines + 1 .. Len(script) : script[k].tick = Tick
  <2>1. CASE pc = "script"
    <3>1. Len(script) = h[n].lines
      BY <1>n, <2>1 DEF Recording
    <3> QED
      BY <1>3, <3>1
  <2>2. CASE pc = "switches"
    BY <1>n, <2>2 DEF Recording
  <2> QED
    BY <2>1, <2>2
<1>9. Step(h[n], m, calls[n + 1], guest.seen[n + 1], d, script, times)
  BY <1>1, <1>2, <1>3, <1>4, <1>6, <1>8, SMTT(30) DEF Step, NapCalls
<1>10. /\ Tells(Longer(h, n, m), d, n + 1, calls, guest.seen, script, times)
       /\ Longer(h, n, m)[n + 1] = m
  BY ONLY <1>1, <1>3, <1>4, <1>5, <1>r, <1>9, TellsCall, ZenonT(120)
<1>11. Over' = n + 1
  BY <1>1 DEF Over, Made
<1>12. Recording(Longer(h, n, m), d)'
  BY <1>1, <1>2, <1>4, <1>6, <1>7, <1>10, <1>11 DEF Recording
<1> QED
  BY <1>12

\* The drain starts.
LEMMA RecordStart ==
  ASSUME IInv, Known, NEW h, NEW d, Recording(h, d), StartDrain, mode = "record"
  PROVE  \E g : Recording(g, d)'
<1>1. /\ pc = "script"
      /\ UNCHANGED <<calls, guest, ms, subTick, held, script, times>>
  BY DEF StartDrain, file
<1>2. CASE Tick = lastDrain
  <2>1. pc' = "guest" /\ lastDrain' = lastDrain
    BY <1>2 DEF StartDrain, DrainedThisTick
  <2> QED
    BY <1>1, <1>2, <2>1, RecordEnds
<1>3. CASE Tick # lastDrain
  <2>1. pc' = "keys" /\ lastDrain' = Tick
    BY <1>3 DEF StartDrain, DrainedThisTick
  <2>2. /\ Len(script) = h[Over].lines /\ h[Over].lines \in Nat
        /\ lastDrain = h[Over].sub
    BY <1>1, RecordingIs DEF Recording
  <2>3. Over' = Over /\ Made' = Made /\ Tick' = Tick
    BY <1>1, <2>1 DEF Over, Made, Tick
  <2>4. Recording(h, d)'
    BY <1>1, <1>3, <2>1, <2>2, <2>3 DEF Recording
  <2> QED
    BY <2>4
<1> QED
  BY <1>2, <1>3

\* A captured event is handed over: the line that is written says what the
\* game saw, and no line is written when it saw nothing.
LEMMA RecordHandOver ==
  ASSUME IInv, Known, NEW h, NEW d, Recording(h, d), mode = "record",
         NEW e \in Events, HandOver(e, TRUE),
         pc \in {"keys", "switches"}, pc' = pc,
         UNCHANGED <<calls, ms, subTick, lastDrain>>
  PROVE  \E f : Recording(h, f)'
<1>1. e \in Shows /\ e.kind \in {"press", "release", "switch"}
  BY EventKinds
<1>2. Made \in Nat /\ Made > 0 /\ Over = Made - 1
  BY RecordingIs DEF Known, Over
<1>3. /\ guest' \in Guests /\ Made' = Made
      /\ guest'.down = Pressed(guest.down, e)
      /\ \A i \in 1 .. Made - 1 : guest'.seen[i] = guest.seen[i]
      /\ guest'.seen[Made] = IF Noticed(guest.down, e) THEN Append(guest.seen[Made], e)
                             ELSE guest.seen[Made]
      /\ times' = times
  BY <1>1, <1>2, HandOverIs DEF HandOver, Known
<1>4. Over' = Over /\ Tick' = Tick
  BY <1>2, <1>3 DEF Over, Tick
<1>5. guest.down = held /\ guest.down = d[Len(script)]
  BY DEF Recording
<1>6. Recorded(e, TRUE) <=> Noticed(guest.down, e)
  BY <1>5 DEF Recorded, Noticed
<1>7. Tells(h, d, Over, calls', guest'.seen, script, times')
  <2>1. Tells(h, d, Over, calls, guest.seen, script, times) /\ Over \in Nat
    BY RecordingIs
  <2>2. \A i \in 1 .. Over : calls'[i] = calls[i] /\ guest'.seen[i] = guest.seen[i]
    BY <1>2, <1>3
  <2> QED
    BY <1>3, <2>1, <2>2, TellsOther
<1>8. CASE ~Noticed(guest.down, e)
  <2>1. script' = script /\ held' = held
    BY <1>6, <1>8 DEF HandOver, HeldAfter
  <2>2. Pressed(guest.down, e) = guest.down
    BY <1>8 DEF Noticed, Pressed
  <2>3. Recording(h, d)'
    BY <1>3, <1>4, <1>5, <1>7, <1>8, <2>1, <2>2 DEF Recording
  <2> QED
    BY <2>3
<1>9. CASE Noticed(guest.down, e)
  <2>1. script' = Append(script, Line(e)) /\ held' = Pressed(held, e)
    BY <1>6, <1>9 DEF HandOver, HeldAfter, Pressed
  <2>2. Line(e) \in Lines /\ Line(e).tick = Tick /\ Line(e).event = e
    BY LineType DEF IInv, Types
  <2>3. PICK l \in Lines : l = Line(e)
    BY <2>2
  <2>4. /\ script \in Seq(Lines) /\ times' \in Seq(Seconds) /\ Len(script) \in Nat
        /\ script' \in Seq(Lines) /\ Len(script') = Len(script) + 1
        /\ script'[Len(script) + 1] = l
        /\ \A k \in 1 .. Len(script) : script'[k] = script[k]
    BY <1>3, <2>1, <2>3 DEF Known
  <2>5. /\ l.tick = Tick /\ l.event = e /\ l.tick > h[Over].sub
        /\ Tick # h[Over].sub /\ lastDrain = Tick
        /\ \A k \in h[Over].lines + 1 .. Len(script) : script[k].tick = Tick
    <3>1. Tick # h[Over].sub /\ lastDrain = Tick
          /\ \A k \in h[Over].lines + 1 .. Len(script) : script[k].tick = Tick
      BY DEF Recording
    <3>2. Tick \in Nat /\ h[Over].sub \in Int /\ h[Over].sub <= Tick
      BY RecordingIs, TickType DEF IInv, Types
    <3> QED
      BY <2>2, <2>3, <3>1, <3>2
  <2>6. Noticed(d[Len(script)], l.event) /\ Pressed(d[Len(script)], l.event) \in SUBSET Keys
    BY <1>3, <1>5, <1>9, <2>5 DEF Guests
  <2>7. PICK f : /\ Tells(h, f, Over, calls', guest'.seen, script', times')
                 /\ \A k \in 0 .. Len(script) : f[k] = d[k]
                 /\ f[Len(script) + 1] = Pressed(d[Len(script)], e)
    <3>1. PICK n, S, T, C, E : n = Over /\ S = script /\ T = times' /\ C = calls'
                               /\ E = guest'.seen
      OBVIOUS
    <3>a. n \in Nat
      BY <3>1, RecordingIs
    <3>b. S \in Seq(Lines) /\ T \in Seq(Seconds) /\ l.tick > h[n].sub
          /\ Noticed(d[Len(S)], l.event) /\ Pressed(d[Len(S)], l.event) \in SUBSET Keys
      BY <2>4, <2>5, <2>6, <3>1
    <3>c. Tells(h, d, n, C, E, S, T)
      BY <1>7, <3>1
    <3>d. \E f : /\ Tells(h, f, n, C, E, Append(S, l), T)
                 /\ \A k \in 0 .. Len(S) : f[k] = d[k]
                 /\ f[Len(S) + 1] = Pressed(d[Len(S)], l.event)
      BY <3>a, <3>b, <3>c, TellsLine
    <3>2. \E f : /\ Tells(h, f, Over, calls', guest'.seen, Append(script, l), times')
                 /\ \A k \in 0 .. Len(script) : f[k] = d[k]
                 /\ f[Len(script) + 1] = Pressed(d[Len(script)], l.event)
      BY <3>1, <3>d
    <3> QED
      BY <2>1, <2>3, <2>5, <3>2
  <2>8. h[Over].lines \in Nat /\ h[Over].lines <= Len(script)
    BY RecordingIs
  <2>9. guest'.seen[Made] = Given(calls[Made], f[h[Over].lines], script',
                                  h[Over].lines, Len(script'))
    <3>1. guest.seen[Made] = Given(calls[Made], d[h[Over].lines], script,
                                   h[Over].lines, Len(script))
      BY DEF Recording
    <3>2. f[h[Over].lines] = d[h[Over].lines]
      BY <2>4, <2>7, <2>8
    <3>3. PICK a, b \in Nat : a = h[Over].lines /\ b = Len(script)
      BY <2>4, <2>8
    <3>4. PICK c, D, S : c = calls[Made] /\ D = d[h[Over].lines] /\ S = script'
      OBVIOUS
    <3>5. a <= b /\ \A k \in a + 1 .. b : script[k] = S[k]
      BY <2>4, <2>8, <3>3, <3>4, SMTT(30)
    <3>6. Given(c, D, script, a, b) = Given(c, D, S, a, b)
      BY <3>5, GivenKept
    <3>7. S \in Seq(Lines) /\ b < Len(S)
      BY <2>4, <3>3, <3>4
    <3>8. Append(Given(c, D, S, a, b), S[b + 1].event) = Given(c, D, S, a, b + 1)
      BY <3>5, <3>7, GivenMore
    <3> QED
      BY <1>3, <1>9, <2>4, <2>5, <3>1, <3>2, <3>3, <3>4, <3>6, <3>8
  <2>10. \A k \in h[Over].lines + 1 .. Len(script') : script'[k].tick = Tick
    BY <2>4, <2>5, <2>8
  <2>11. Recording(h, f)'
    BY <1>3, <1>4, <1>5, <2>1, <2>4, <2>5, <2>7, <2>9, <2>10 DEF Recording
  <2> QED
    BY <2>11
<1> QED
  BY <1>8, <1>9

\* time() and the safe point are calls that write at most a time.
LEMMA RecordTime ==
  ASSUME IInv, Known, NEW h, NEW d, Recording(h, d), Time, mode = "record"
  PROVE  \E g : Recording(g, d)'
<1>1. /\ UNCHANGED <<pc, ms, subTick, lastDrain, held, script>>
      /\ [op |-> "time"] \in Calls /\ Call([op |-> "time"])
  BY DEF Time, Calls
<1>2. /\ pc = "guest" /\ Made \in Nat /\ Made <= Len(calls)
      /\ calls'[Made + 1] = [op |-> "time"]
      /\ \A i \in 1 .. Len(calls) : calls'[i] = calls[i]
      /\ Len(calls) \in Nat
  BY <1>1, CallIs DEF Known
<1>3. PICK v \in Seconds :
        /\ guest'.down = guest.down /\ Made' = Made + 1
        /\ \A i \in 1 .. Made : guest'.seen[i] = guest.seen[i]
        /\ guest'.seen[Made + 1] = << [kind |-> "time", arg |-> v] >>
        /\ times' = Append(times, v)
  BY TimeIs
<1>4. PICK n \in Nat : n = Made
  BY <1>2
<1>5. Over = n /\ Over' = n + 1
  BY <1>1, <1>2, <1>3, <1>4 DEF Over
<1>6. /\ Tells(h, d, n, calls, guest.seen, script, times)
      /\ h[n].lines = Len(script) /\ h[n].stamps = Len(times) /\ h[n].sub = subTick
      /\ h[n].ms = ms /\ Timed(h[n]) /\ h[n] \in Marks /\ lastDrain = subTick
      /\ guest.down = d[Len(script)] /\ held = guest.down
      /\ Len(script) \in Nat /\ Len(times) \in Nat
  BY <1>2, <1>5, RecordingIs DEF Recording
<1>7. PICK T : T = times'
  OBVIOUS
<1>8. /\ script \in Seq(Lines) /\ times \in Seq(Seconds) /\ T \in Seq(Seconds)
      /\ Len(T) = Len(times) + 1 /\ T[Len(times) + 1] = v
  BY <1>3, <1>7 DEF Known
<1>9. Tells(h, d, n, calls', guest'.seen, script, T)
  <2>1. Tells(h, d, n, calls, guest.seen, script, T)
    BY <1>3, <1>6, <1>7, <1>8, TellsTime
  <2>2. \A i \in 1 .. n : calls'[i] = calls[i] /\ guest'.seen[i] = guest.seen[i]
    BY <1>2, <1>3, <1>4
  <2> QED
    BY <2>1, <2>2, TellsOther
<1>10. PICK m : m = [lines |-> h[n].lines, stamps |-> h[n].stamps + 1, ms |-> h[n].ms,
                     sub |-> h[n].sub]
  OBVIOUS
<1>11. /\ m \in Marks /\ m.lines = Len(script) /\ m.stamps = Len(T) /\ m.ms = ms
       /\ m.sub = subTick /\ h[n].sub <= m.sub /\ m.stamps <= Len(T)
  BY <1>6, <1>8, <1>10 DEF Marks
<1>12. Timed(m)
  BY <1>6, <1>11 DEF Timed
<1>13. Step(h[n], m, calls'[n + 1], guest'.seen[n + 1], d, script, T)
  BY <1>2, <1>3, <1>4, <1>6, <1>8, <1>11 DEF Step
<1>14. /\ Tells(Longer(h, n, m), d, n + 1, calls', guest'.seen, script, T)
       /\ Longer(h, n, m)[n + 1] = m
  <2>1. PICK S, C, E : S = script /\ C = calls' /\ E = guest'.seen
    OBVIOUS
  <2>2. /\ S \in Seq(Lines) /\ m.lines = Len(S) /\ Tells(h, d, n, C, E, S, T)
        /\ Step(h[n], m, C[n + 1], E[n + 1], d, S, T)
        /\ T \in Seq(Seconds) /\ m \in Marks /\ m.stamps <= Len(T) /\ h[n].sub <= m.sub
    BY <1>8, <1>9, <1>11, <1>13, <2>1
  <2>3. /\ Tells(Longer(h, n, m), d, n + 1, C, E, S, T)
        /\ Longer(h, n, m)[n + 1] = m
    BY ONLY <1>4, <1>12, <2>2, TellsCall, ZenonT(120)
  <2> QED
    BY <2>1, <2>3
<1>15. Recording(Longer(h, n, m), d)'
  BY <1>1, <1>2, <1>3, <1>5, <1>6, <1>7, <1>11, <1>14 DEF Recording
<1> QED
  BY <1>15

LEMMA RecordSafepoint ==
  ASSUME IInv, Known, NEW h, NEW d, Recording(h, d), Safepoint, mode = "record"
  PROVE  \E g : Recording(g, d)'
<1>1. /\ UNCHANGED <<pc, subTick, script, times>>
      /\ [op |-> "tick"] \in Calls /\ Call([op |-> "tick"])
  BY DEF Safepoint, Calls, file
<1>2. /\ pc = "guest" /\ Made \in Nat /\ Made <= Len(calls)
      /\ calls'[Made + 1] = [op |-> "tick"]
      /\ \A i \in 1 .. Len(calls) : calls'[i] = calls[i]
      /\ Len(calls) \in Nat
  BY <1>1, CallIs DEF Known
<1>3. guest' = Called /\ UNCHANGED <<ms, lastDrain, held>>
  BY DEF Safepoint, RestoreDue, IInv, ModeOK
<1>4. /\ guest'.down = guest.down /\ Made' = Made + 1
      /\ \A i \in 1 .. Made : guest'.seen[i] = guest.seen[i]
      /\ guest'.seen[Made + 1] = << >>
  BY <1>3, CalledStep DEF Known
<1>5. PICK n \in Nat : n = Made
  BY <1>2
<1>6. Over = n /\ Over' = n + 1
  BY <1>1, <1>2, <1>4, <1>5 DEF Over
<1>7. /\ Tells(h, d, n, calls, guest.seen, script, times)
      /\ h[n].lines = Len(script) /\ h[n].stamps = Len(times) /\ h[n].sub = subTick
      /\ h[n].ms = ms /\ Timed(h[n]) /\ h[n] \in Marks /\ lastDrain = subTick
      /\ guest.down = d[Len(script)] /\ held = guest.down
      /\ Len(times) \in Nat /\ h[n].sub \in Int
  BY <1>2, <1>6, RecordingIs DEF Recording
<1>8. PICK m, C, E, S, T : m = h[n] /\ C = calls' /\ E = guest'.seen /\ S = script /\ T = times
  OBVIOUS
<1>9. Tells(h, d, n, C, E, S, T)
  <2>1. \A i \in 1 .. n : C[i] = calls[i] /\ E[i] = guest.seen[i]
    BY <1>2, <1>4, <1>5, <1>8
  <2> QED
    BY <1>7, <1>8, <2>1, TellsOther
<1>10. Step(h[n], m, C[n + 1], E[n + 1], d, S, T)
  BY <1>2, <1>4, <1>5, <1>8 DEF Step
<1>11. /\ m \in Marks /\ m.lines = Len(S) /\ m.stamps <= Len(T) /\ h[n].sub <= m.sub /\ Timed(m)
       /\ S \in Seq(Lines) /\ T \in Seq(Seconds)
  <2>1. S \in Seq(Lines) /\ T \in Seq(Seconds)
    BY <1>8 DEF Known
  <2>2. m \in Marks /\ m.lines = Len(S) /\ m.stamps <= Len(T) /\ h[n].sub <= m.sub /\ Timed(m)
    BY ONLY <1>7, <1>8
  <2> QED
    BY <2>1, <2>2
<1>12. /\ Tells(Longer(h, n, m), d, n + 1, C, E, S, T)
       /\ Longer(h, n, m)[n + 1] = m
  BY ONLY <1>5, <1>9, <1>10, <1>11, TellsCall, ZenonT(120)
<1>13. Recording(Longer(h, n, m), d)'
  BY <1>1, <1>2, <1>3, <1>4, <1>6, <1>7, <1>8, <1>12 DEF Recording
<1> QED
  BY <1>13

\* The recording is played from its beginning.
LEMMA RecordReplay ==
  ASSUME IInv, Known, Rewinds, NEW h, NEW d, Recording(h, d), Replay
  PROVE  Playing(h, d)'
<1>1. /\ mode = "record" /\ mode' = "replay" /\ pc' = "guest" /\ guest' = NewGuest
      /\ ms' = 0 /\ subTick' = -1
      /\ UNCHANGED <<calls, script, times, cursor, timeCursor, snap, restored>>
      /\ saw' = [calls |-> Over, seen |-> guest.seen]
  BY DEF Replay, Over, file, cursors, rewind
<1>2. cursor = 0 /\ timeCursor = 0 /\ snap = << >>
  BY <1>1 DEF Rewinds, IInv, ModeOK
<1>3. saw'.calls = Over /\ saw'.seen = guest.seen
  BY <1>1
<1>4. Tells(h, d, Over, calls, guest.seen, script, times) /\ Over \in Nat
  BY RecordingIs
<1>5. /\ h[0] = Start /\ d[0] = {}
  BY <1>4 DEF Tells, Downs
<1>6. Made' = 0 /\ guest'.down = {} /\ Len(guest'.seen) = 0
  BY <1>1 DEF Made, NewGuest
<1>7. At(h, d, saw', guest', ms', cursor', timeCursor')
  BY <1>1, <1>2, <1>3, <1>4, <1>5, <1>6 DEF At, Start
<1>8. subTick' = h[Made'].sub
  BY <1>1, <1>5, <1>6 DEF Start
<1> QED
  BY <1>1, <1>2, <1>3, <1>4, <1>7, <1>8 DEF Playing
-----------------------------------------------------------------------------
(* The replay follows the history.                                         *)

\* A mark of a history, and the call that led to it.
LEMMA MarkIs ==
  ASSUME NEW h, NEW d, NEW n \in Nat, NEW C, NEW E, NEW S, NEW T,
         Tells(h, d, n, C, E, S, T), NEW i \in 0 .. n
  PROVE  /\ h[i].lines \in Nat /\ h[i].stamps \in Nat /\ h[i].ms \in Nat /\ h[i].sub \in Int
         /\ h[i].lines <= Len(S) /\ h[i].stamps <= Len(T) /\ Timed(h[i])
         /\ \A k \in h[i].lines + 1 .. Len(S) : S[k].tick > h[i].sub
         /\ i > 0 => Step(h[i - 1], h[i], C[i], E[i], d, S, T)
<1>1. h[i] \in Marks
  BY DEF Tells
<1>2. i > 0 => i \in 1 .. n
  OBVIOUS
<1> QED
  BY <1>1, <1>2 DEF Tells, Marks

\* A misled replay stays misled.
LEMMA MisledStays ==
  ASSUME Known, Rewinds, Misled, UNCHANGED <<snap, restored>>,
         Len(calls') \in Nat, Len(calls) <= Len(calls'),
         \A i \in 1 .. Len(calls) : calls'[i] = calls[i]
  PROVE  Misled'
<1>1. /\ restored # << >> /\ restored[1] # restored[2] /\ snap # << >>
  BY DEF Misled, Rewinds
<1>2. PICK from \in Nat : from = Len(snap[1].guest.seen) + 1 /\ from >= 1
  <2>1. Len(snap[1].guest.seen) \in Nat
    BY <1>1 DEF Rewinds, Guests
  <2> QED
    BY <2>1
<1>3. PICK i \in from .. Len(calls) :
        /\ calls[i].op = "nap"
        /\ \A j \in from .. i - 1 : calls[j].op # "nap"
        /\ (snap[1].ms + calls[i].ms) \div TickMs = restored[1]
  BY <1>2 DEF Misled
<1>4. Len(calls) \in Nat
  BY DEF Known
<1>5. /\ i \in from .. Len(calls') /\ calls'[i] = calls[i]
      /\ \A j \in from .. i - 1 : calls'[j] = calls[j]
  <2>1. PICK m, L \in Nat : m = Len(calls) /\ L = Len(calls')
    BY <1>4
  <2>2. m <= L /\ i \in from .. m /\ \A k \in 1 .. m : calls'[k] = calls[k]
    BY <2>1
  <2>3. i \in from .. L /\ i \in 1 .. m /\ \A j \in from .. i - 1 : j \in 1 .. m
    BY ONLY <1>2, <2>1, <2>2
  <2> QED
    BY <2>1, <2>2, <2>3
<1>6. \E x \in from .. Len(calls') :
         /\ calls'[x].op = "nap"
         /\ \A j \in from .. x - 1 : calls'[j].op # "nap"
         /\ (snap[1].ms + calls'[x].ms) \div TickMs = restored[1]
  BY <1>3, <1>5
<1> QED
  BY <1>1, <1>2, <1>6 DEF Misled

\* What a step of a replay leaves alone.
LEMMA PlayKept ==
  ASSUME Known, Rewinds, NEW h, NEW d, Playing(h, d),
         UNCHANGED <<script, times, saw>>,
         Len(calls') \in Nat, Len(calls) <= Len(calls'),
         \A i \in 1 .. Len(calls) : calls'[i] = calls[i]
  PROVE  /\ saw.calls \in Nat
         /\ Tells(h, d, saw.calls, calls, saw.seen, script, times)
         /\ Tells(h, d, saw.calls, calls', saw.seen, script, times)
         /\ UNCHANGED <<snap, restored>> =>
              /\ ~Misled' => ~Misled
              /\ snap' # << >> => At(h, d, saw', snap'[1].guest, snap'[1].ms,
                                     snap'[1].cursor, snap'[1].timeCursor)
<1>1. saw.calls \in Nat /\ saw.calls <= Len(calls) /\ Len(calls) \in Nat
  BY DEF Known
<1>2. Tells(h, d, saw.calls, calls, saw.seen, script, times)
  BY DEF Playing
<1>3. Tells(h, d, saw.calls, calls', saw.seen, script, times)
  <2>1. \A i \in 1 .. saw.calls : calls'[i] = calls[i]
    BY <1>1
  <2> QED
    BY <1>1, <1>2, <2>1, TellsOther
<1>4. ASSUME UNCHANGED <<snap, restored>>
      PROVE  /\ ~Misled' => ~Misled
             /\ snap' # << >> => At(h, d, saw', snap'[1].guest, snap'[1].ms,
                                    snap'[1].cursor, snap'[1].timeCursor)
  <2>1. ~Misled' => ~Misled
    BY <1>4, MisledStays
  <2>2. snap # << >> => At(h, d, saw, snap[1].guest, snap[1].ms,
                           snap[1].cursor, snap[1].timeCursor)
    BY DEF Playing
  <2> QED
    BY <1>4, <2>1, <2>2
<1> QED
  BY <1>1, <1>2, <1>3, <1>4

LEMMA PlayQuiet ==
  ASSUME NEW h, NEW d, Playing(h, d),
         UNCHANGED <<pc, calls, guest, ms, subTick, subIn, script, times, cursor, timeCursor,
                     saw, snap, restored>>
  PROVE  Playing(h, d)'
<1>1. /\ Made' = Made /\ Tick' = Tick /\ (Misled' <=> Misled) /\ (Rewound' <=> Rewound)
  BY DEF Made, Tick, Misled, Rewound
<1>2. Over' = Over
  BY <1>1 DEF Over
<1>3. Amid(h, d)' <=> Amid(h, d)
  BY <1>1, <1>2 DEF Amid
<1> QED
  BY <1>1, <1>3 DEF Playing

\* The game calls Sleep: the hand-over that may follow is due in this Sleep,
\* and only in this one, because it is the first of its tick - also after a
\* rewind, unless the count of Sleeps that the abandoned run left misleads it.
LEMMA PlaySleep ==
  ASSUME IInv, Known, Rewinds, NEW h, NEW d, Playing(h, d), NEW c \in NapCalls, Sleep(c)
  PROVE  Playing(h, d)'
<1>1. /\ pc = "guest" /\ pc' = "pump" /\ ms' = ms + c.ms
      /\ UNCHANGED <<script, times, cursor, timeCursor, saw, snap, restored>>
      /\ guest' = Called /\ c \in Calls /\ Call(c) /\ c.op = "nap" /\ c.ms \in Nat
      /\ subTick' = Tick' /\ (Tick' # subTick => subIn' = 0)
  BY DEF Sleep, Call, Calls, NapCalls, file, cursors, options, rewind
<1>2. /\ calls' \in Seq(Calls) /\ Made \in Nat /\ Made + 1 <= Len(calls')
      /\ calls'[Made + 1] = c /\ \A i \in 1 .. Len(calls) : calls'[i] = calls[i]
      /\ Made <= Len(calls) /\ Len(calls) \in Nat /\ Len(calls) <= Len(calls')
      /\ Len(calls') \in Nat
  BY <1>1, CallIs DEF Known
<1>3. /\ guest'.down = guest.down /\ Made' = Made + 1
      /\ \A i \in 1 .. Made : guest'.seen[i] = guest.seen[i]
      /\ guest'.seen[Made + 1] = << >>
  BY <1>1, CalledStep DEF Known
<1>4. Over' = Made
  BY <1>1, <1>2, <1>3 DEF Over
<1>5. /\ saw.calls \in Nat
      /\ Tells(h, d, saw.calls, calls', saw.seen, script, times)
      /\ ~Misled' => ~Misled
      /\ snap' # << >> => At(h, d, saw', snap'[1].guest, snap'[1].ms,
                             snap'[1].cursor, snap'[1].timeCursor)
  BY <1>1, <1>2, PlayKept
<1>6. ASSUME ~Misled'
      PROVE  Amid(h, d)'
  <2>1. /\ At(h, d, saw, guest, ms, cursor, timeCursor)
        /\ Made <= saw.calls => subTick = h[Made].sub \/ Rewound
    BY <1>1, <1>5, <1>6 DEF Playing
  <2>2. \A i \in 1 .. saw'.calls : i <= Over' => guest'.seen[i] = saw'.seen[i]
    <3> TAKE i \in 1 .. saw'.calls
    <3>1. HAVE i <= Over'
    <3>2. i \in 1 .. saw.calls /\ i \in 1 .. Made /\ i <= Made
      BY <1>1, <1>2, <1>4, <1>5, <3>1
    <3>3. guest.seen[i] = saw.seen[i]
      BY <2>1, <3>2 DEF At, Made
    <3> QED
      BY <1>1, <1>3, <3>2, <3>3
  <2>3. ASSUME Made' <= saw.calls
        PROVE  /\ ms' = h[Made'].ms /\ timeCursor' = h[Made'].stamps
               /\ Tick' # h[Over'].sub => subIn' = 0
               /\ cursor' \in h[Over'].lines .. h[Made'].lines /\ guest'.down = d[cursor']
               /\ cursor' = h[Over'].lines
    <3>1. PICK n \in Nat : n = Made /\ n \in 0 .. saw.calls /\ n + 1 \in 0 .. saw.calls
                           /\ Made' = n + 1 /\ Over' = n /\ (n + 1) - 1 = n /\ n + 1 > 0
      BY <1>2, <1>3, <1>4, <1>5, <2>3
    <3>2. ms = h[n].ms /\ cursor = h[n].lines /\ timeCursor = h[n].stamps /\ guest.down = d[cursor]
      BY <2>1, <3>1 DEF At, Made
    <3>3. /\ Step(h[n], h[n + 1], calls'[n + 1], saw.seen[n + 1], d, script, times)
          /\ h[n].lines \in Nat /\ h[n + 1].lines \in Nat /\ Timed(h[n]) /\ h[n].sub \in Int
      BY <1>5, <3>1, MarkIs
    <3>4. /\ h[n + 1].ms = h[n].ms + c.ms /\ h[n + 1].stamps = h[n].stamps
          /\ h[n].lines <= h[n + 1].lines
      BY <1>1, <1>2, <3>1, <3>3 DEF Step
    <3>5. Tick' # h[n].sub => subIn' = 0
      <4>1. CASE subTick = h[n].sub
        BY <1>1, <4>1
      <4>2. CASE Rewound /\ Tick' = subTick
        <5>1. /\ restored # << >> /\ subTick = restored[1] /\ ms = snap[1].ms
              /\ Len(snap[1].guest.seen) <= Made
              /\ \A j \in Len(snap[1].guest.seen) + 1 .. Made : calls[j].op # "nap"
          BY <4>2 DEF Rewound
        <5>2. /\ Len(snap[1].guest.seen) \in Nat /\ restored[2] = ms \div TickMs
              /\ ms \div TickMs >= 1
          BY <5>1 DEF Rewinds, Guests
        <5>3. /\ Made + 1 \in Len(snap[1].guest.seen) + 1 .. Len(calls')
              /\ \A j \in Len(snap[1].guest.seen) + 1 .. (Made + 1) - 1 : calls'[j].op # "nap"
          <6>1. PICK k, m, o, L \in Nat : /\ k = Len(snap[1].guest.seen) /\ m = Len(calls)
                                          /\ o = Made /\ L = Len(calls')
            BY <1>2, <5>2
          <6>2. /\ k <= o /\ o <= m /\ o + 1 <= L
                /\ \A i \in 1 .. m : calls'[i] = calls[i]
                /\ \A j \in k + 1 .. o : calls[j].op # "nap"
            BY <1>2, <5>1, <6>1
          <6>3. o + 1 \in k + 1 .. L
            BY ONLY <6>1, <6>2
          <6>4. ASSUME NEW j \in k + 1 .. (o + 1) - 1
                PROVE  calls'[j].op # "nap"
            <7>1. j \in k + 1 .. o /\ j \in 1 .. m
              BY ONLY <6>1, <6>2
            <7> QED
              BY <6>2, <7>1
          <6> QED
            BY <6>1, <6>3, <6>4
        <5>4. (snap[1].ms + calls'[Made + 1].ms) \div TickMs = restored[1]
          BY <1>1, <1>2, <4>2, <5>1 DEF Tick
        <5>5. restored[1] = restored[2]
          <6>1. /\ calls'[Made + 1].op = "nap"
                /\ snap' = snap /\ restored' = restored
            BY <1>1, <1>2
          <6> QED
            BY <1>6, <5>1, <5>3, <5>4, <6>1 DEF Misled
        <5>6. h[n].sub = ms \div TickMs
          <6>1. ms = 0 => ms \div TickMs = 0
            OBVIOUS
          <6> QED
            BY <3>2, <3>3, <5>2, <6>1 DEF Timed
        <5> QED
          BY <4>2, <5>1, <5>2, <5>5, <5>6
      <4> QED
        BY <1>1, <2>1, <2>3, <3>1, <4>1, <4>2
    <3>6. /\ ms' = h[n + 1].ms /\ timeCursor' = h[n + 1].stamps
          /\ cursor' \in h[n].lines .. h[n + 1].lines /\ guest'.down = d[cursor']
          /\ cursor' = h[n].lines
      BY <1>1, <1>3, <3>2, <3>3, <3>4
    <3> QED
      BY <3>1, <3>5, <3>6
  <2> QED
    BY <1>1, <1>3, <2>2, <2>3 DEF Amid
<1>7. Tells(h, d, saw'.calls, calls', saw'.seen, script', times')
  BY <1>1, <1>5
<1> QED
  BY <1>1, <1>5, <1>6, <1>7 DEF Playing
LEMMA PlayPump ==
  ASSUME IInv, Known, Rewinds, NEW h, NEW d, Playing(h, d), Pump, mode = "replay"
  PROVE  Playing(h, d)'
<1>1. /\ pc = "pump" /\ pc' = "script"
      /\ UNCHANGED <<calls, ms, subTick, subIn, cursor, timeCursor, saw, snap, restored>>
  BY DEF Pump, cursors, options, rewind
<1> DEFINE k == calls[Made].repeat
           x == [kind |-> "press", arg |-> k]
<1>2. /\ Made' = Made /\ Made \in Nat /\ Made > 0 /\ guest'.down = guest.down
      /\ \A i \in 1 .. Made - 1 : guest'.seen[i] = guest.seen[i]
      /\ guest.seen[Made] = << >> =>
           guest'.seen[Made] = IF k \in guest.down THEN << x >> ELSE << >>
      /\ UNCHANGED <<script, times>>
  BY PumpIs
<1>3. Over = Made - 1 /\ Over' = Made - 1 /\ Tick' = Tick
  BY <1>1, <1>2 DEF Over, Tick
<1>4. /\ saw.calls \in Nat /\ (~Misled' => ~Misled)
      /\ Tells(h, d, saw.calls, calls, saw.seen, script, times)
      /\ Tells(h, d, saw.calls, calls', saw.seen, script, times)
      /\ snap' # << >> => At(h, d, saw', snap'[1].guest, snap'[1].ms,
                             snap'[1].cursor, snap'[1].timeCursor)
  <2>1. Len(calls) \in Nat
    BY DEF Known
  <2> QED
    BY <1>1, <1>2, <2>1, PlayKept
<1>5. ASSUME ~Misled'
      PROVE  Amid(h, d)'
  <2>1. Amid(h, d)
    BY <1>1, <1>4, <1>5 DEF Playing
  <2>2. \A i \in 1 .. saw'.calls : i <= Over' => guest'.seen[i] = saw'.seen[i]
    BY <1>1, <1>2, <1>3, <1>4, <2>1 DEF Amid
  <2>3. ASSUME Made <= saw.calls
        PROVE  guest'.seen[Made] = Given(calls[Made], d[h[Over].lines], script, h[Over].lines,
                                         cursor)
    <3>1. /\ cursor = h[Over].lines /\ guest.seen[Made] = << >> /\ guest.down = d[cursor]
          /\ cursor \in Nat
      BY <1>1, <2>1, <2>3 DEF Amid, Known
    <3>2. Given(calls[Made], d[cursor], script, cursor, cursor)
            = IF calls[Made].repeat \in d[cursor] THEN << x >> ELSE << >>
      BY <3>1, GivenNone
    <3> QED
      BY <1>2, <3>1, <3>2
  <2> HIDE DEF k, x
  <2> QED
    BY <1>1, <1>2, <1>3, <2>1, <2>2, <2>3 DEF Amid
<1>6. Tells(h, d, saw'.calls, calls', saw'.seen, script', times')
  BY <1>1, <1>2, <1>4
<1> QED
  BY <1>1, <1>4, <1>5, <1>6 DEF Playing

\* What a replay in the middle of a Sleep has still to be shown.
LEMMA AmidIs ==
  ASSUME Known, NEW h, NEW d, Playing(h, d), Amid(h, d), pc # "guest", Made <= saw.calls
  PROVE  /\ Made \in Nat /\ Made > 0 /\ Over = Made - 1 /\ saw.calls \in Nat
         /\ h[Over].lines \in Nat /\ h[Made].lines \in Nat /\ h[Made].lines <= Len(script)
         /\ h[Over].lines <= h[Made].lines
         /\ cursor \in Nat /\ h[Over].lines <= cursor /\ cursor <= h[Made].lines
         /\ Tick = h[Made].sub /\ Len(script) \in Nat
         /\ \A k \in h[Made].lines + 1 .. Len(script) : script[k].tick > h[Made].sub
         /\ h[Made].sub \in Int
         /\ Step(h[Over], h[Made], calls[Made], saw.seen[Made], d, script, times)
<1>1. PICK n \in Nat : n = Made /\ n > 0 /\ n - 1 = Over /\ n \in 0 .. saw.calls
                       /\ n - 1 \in 0 .. saw.calls /\ saw.calls \in Nat
  <2>1. Made \in Nat /\ Made > 0 /\ saw.calls \in Nat /\ Over = Made - 1
    BY MadeIs DEF Known, Over
  <2> QED
    BY <2>1
<1>2. Tells(h, d, saw.calls, calls, saw.seen, script, times)
  BY DEF Playing
<1>3. /\ h[n].lines \in Nat /\ h[n - 1].lines \in Nat /\ h[n].lines <= Len(script)
      /\ h[n].sub \in Int
      /\ \A k \in h[n].lines + 1 .. Len(script) : script[k].tick > h[n].sub
      /\ Step(h[n - 1], h[n], calls[n], saw.seen[n], d, script, times)
  BY <1>1, <1>2, MarkIs
<1>4. calls[n].op = "nap"
  BY <1>1 DEF Known, NapCalls
<1>5. /\ ms = h[n].ms /\ cursor \in h[n - 1].lines .. h[n].lines
  BY <1>1 DEF Amid
<1>6. Tick = h[n].sub
  BY <1>3, <1>4, <1>5 DEF Step, Tick
<1>7. Len(script) \in Nat
  BY DEF Known
<1> QED
  BY <1>1, <1>3, <1>5, <1>6, <1>7

\* A line that is due was written in this Sleep of the recorded run: those of
\* the later ones have later ticks.
LEMMA PlayDeliver ==
  ASSUME IInv, Known, Rewinds, NEW h, NEW d, Playing(h, d), Deliver
  PROVE  Playing(h, d)'
<1>1. /\ pc = "script" /\ pc' = pc /\ mode = "replay" /\ cursor' = cursor + 1
      /\ UNCHANGED <<calls, ms, subTick, subIn, timeCursor, saw, snap, restored>>
      /\ cursor < Len(script) /\ script[cursor + 1].tick <= Tick /\ subIn = 0
      /\ HandOver(script[cursor + 1].event, TRUE)
  BY DEF Deliver, Due, options, rewind
<1>2. /\ cursor \in Nat /\ Len(script) \in Nat /\ cursor + 1 \in 1 .. Len(script)
      /\ script \in Seq(Lines) /\ Made \in Nat /\ Made > 0
  BY <1>1, MadeIs, SMTT(30) DEF Known
<1>3. PICK e \in Events : e = script[cursor + 1].event
  <2>1. script[cursor + 1] \in Lines
    BY <1>2
  <2> QED
    BY <2>1 DEF Lines
<1>4. guest' = Shown(guest, e) /\ UNCHANGED <<script, times>>
  BY <1>1, <1>3 DEF HandOver, Recorded
<1>5. /\ Made' = Made /\ guest'.down = Pressed(guest.down, e)
      /\ \A i \in 1 .. Made - 1 : guest'.seen[i] = guest.seen[i]
      /\ guest'.seen[Made] = IF Noticed(guest.down, e) THEN Append(guest.seen[Made], e)
                             ELSE guest.seen[Made]
  BY <1>2, <1>4, EventKinds, HandOverIs DEF Known
<1>6. Over = Made - 1 /\ Over' = Made - 1 /\ Tick' = Tick
  BY <1>1, <1>2, <1>5 DEF Over, Tick
<1>7. /\ saw.calls \in Nat /\ (~Misled' => ~Misled)
      /\ Tells(h, d, saw.calls, calls, saw.seen, script, times)
      /\ Tells(h, d, saw.calls, calls', saw.seen, script, times)
      /\ snap' # << >> => At(h, d, saw', snap'[1].guest, snap'[1].ms,
                             snap'[1].cursor, snap'[1].timeCursor)
  <2>1. Len(calls) \in Nat
    BY DEF Known
  <2> QED
    BY <1>1, <1>4, <2>1, PlayKept
<1>8. ASSUME ~Misled'
      PROVE  Amid(h, d)'
  <2>1. Amid(h, d)
    BY <1>1, <1>7, <1>8 DEF Playing
  <2>2. \A i \in 1 .. saw'.calls : i <= Over' => guest'.seen[i] = saw'.seen[i]
    BY <1>1, <1>2, <1>5, <1>6, <1>7, <2>1 DEF Amid
  <2>3. ASSUME Made <= saw.calls
        PROVE  /\ cursor + 1 \in h[Over].lines .. h[Made].lines
               /\ guest'.down = d[cursor + 1]
               /\ guest'.seen[Made] = Given(calls[Made], d[h[Over].lines], script, h[Over].lines,
                                            cursor + 1)
    <3>1. /\ h[Over].lines \in Nat /\ h[Made].lines \in Nat /\ h[Made].lines <= Len(script)
          /\ h[Over].lines <= cursor /\ cursor <= h[Made].lines
          /\ Tick = h[Made].sub /\ h[Made].sub \in Int
          /\ \A k \in h[Made].lines + 1 .. Len(script) : script[k].tick > h[Made].sub
      BY <1>1, <2>1, <2>3, AmidIs
    <3>2. cursor # h[Made].lines
      <4>1. ASSUME cursor = h[Made].lines PROVE FALSE
        <5>1. cursor + 1 \in h[Made].lines + 1 .. Len(script)
          BY <1>1, <1>2, <3>1, <4>1
        <5>2. script[cursor + 1].tick > h[Made].sub
          BY <3>1, <5>1
        <5>3. script[cursor + 1].tick \in Nat
          <6>1. script[cursor + 1] \in Lines
            BY <1>2
          <6> QED
            BY <6>1 DEF Lines
        <5> QED
          BY <1>1, <3>1, <5>2, <5>3
      <4> QED
        BY <4>1
    <3>3. guest.down = d[cursor]
          /\ guest.seen[Made] = Given(calls[Made], d[h[Over].lines], script, h[Over].lines, cursor)
      BY <1>1, <2>1, <2>3 DEF Amid
    <3>4. Noticed(d[cursor], e) /\ d[cursor + 1] = Pressed(d[cursor], e)
      <4>1. Downs(d, script)
        BY <1>7 DEF Tells
      <4>2. (cursor + 1) - 1 = cursor
        BY <1>2
      <4> QED
        BY <1>2, <1>3, <4>1, <4>2 DEF Downs
    <3>5. Append(Given(calls[Made], d[h[Over].lines], script, h[Over].lines, cursor),
                 script[cursor + 1].event)
            = Given(calls[Made], d[h[Over].lines], script, h[Over].lines, cursor + 1)
      <4>1. PICK a, b \in Nat : a = h[Over].lines /\ b = cursor /\ a <= b /\ b < Len(script)
        BY <1>1, <1>2, <3>1
      <4>2. PICK c, D, S : c = calls[Made] /\ D = d[a] /\ S = script
        OBVIOUS
      <4>3. S \in Seq(Lines) /\ b < Len(S)
        BY <1>2, <4>1, <4>2
      <4>4. Append(Given(c, D, S, a, b), S[b + 1].event) = Given(c, D, S, a, b + 1)
        BY ONLY <4>1, <4>3, GivenMore
      <4> QED
        BY <4>1, <4>2, <4>4
    <3> QED
      BY <1>2, <1>3, <1>5, <3>1, <3>2, <3>3, <3>4, <3>5, SMTT(30)
  <2> QED
    BY <1>1, <1>4, <1>5, <1>6, <2>1, <2>2, <2>3 DEF Amid
<1>9. Tells(h, d, saw'.calls, calls', saw'.seen, script', times')
  BY <1>1, <1>4, <1>7
<1> QED
  BY <1>1, <1>7, <1>8, <1>9 DEF Playing

\* Nothing more is due: the game has been shown all of this Sleep.
LEMMA PlayStartDrain ==
  ASSUME IInv, Known, Rewinds, NEW h, NEW d, Playing(h, d), StartDrain, mode = "replay"
  PROVE  Playing(h, d)'
<1>1. /\ pc = "script" /\ pc' = "guest" /\ ~Due
      /\ UNCHANGED <<calls, guest, ms, subTick, subIn, script, times, cursor, timeCursor,
                     saw, snap, restored>>
  BY DEF StartDrain, file, cursors, options, rewind
<1>2. Made' = Made /\ Made \in Nat /\ Made > 0 /\ Over = Made - 1 /\ subTick = Tick
  BY <1>1, MadeIs DEF Known, Made, Over
<1>3. /\ saw.calls \in Nat /\ (~Misled' => ~Misled)
      /\ Tells(h, d, saw.calls, calls', saw.seen, script, times)
      /\ snap' # << >> => At(h, d, saw', snap'[1].guest, snap'[1].ms,
                             snap'[1].cursor, snap'[1].timeCursor)
  <2>1. Len(calls) \in Nat
    BY DEF Known
  <2> QED
    BY <1>1, <2>1, PlayKept
<1>4. ASSUME ~Misled'
      PROVE  /\ At(h, d, saw', guest', ms', cursor', timeCursor')
             /\ Made' <= saw'.calls => subTick' = h[Made'].sub
  <2>1. Amid(h, d)
    BY <1>1, <1>3, <1>4 DEF Playing
  <2>2. ASSUME Made <= saw.calls
        PROVE  /\ cursor = h[Made].lines /\ guest.seen[Made] = saw.seen[Made]
               /\ Tick = h[Made].sub
    <3>1. /\ h[Over].lines \in Nat /\ h[Made].lines \in Nat /\ h[Made].lines <= Len(script)
          /\ h[Over].lines <= cursor /\ cursor <= h[Made].lines /\ cursor \in Nat
          /\ Tick = h[Made].sub /\ h[Made].sub \in Int /\ Len(script) \in Nat
          /\ Step(h[Over], h[Made], calls[Made], saw.seen[Made], d, script, times)
      BY <1>1, <2>1, <2>2, AmidIs
    <3>2. calls[Made].op = "nap"
      BY <1>1 DEF Known, NapCalls
    <3>3. cursor = h[Made].lines
      <4>1. ASSUME cursor # h[Made].lines PROVE FALSE
        <5>1. cursor + 1 \in h[Over].lines + 1 .. h[Made].lines /\ cursor < Len(script)
              /\ h[Over].lines # h[Made].lines
          BY <3>1, <4>1
        <5>2. script[cursor + 1].tick = h[Made].sub /\ h[Made].sub # h[Over].sub
          BY <3>1, <3>2, <5>1 DEF Step
        <5>3. subIn = 0
          BY <2>1, <2>2, <3>1, <5>2 DEF Amid
        <5> QED
          BY <1>1, <3>1, <5>1, <5>2, <5>3 DEF Due
      <4> QED
        BY <4>1
    <3>4. guest.seen[Made] = Given(calls[Made], d[h[Over].lines], script, h[Over].lines, cursor)
      BY <1>1, <2>1, <2>2 DEF Amid
    <3> QED
      BY <3>1, <3>2, <3>3, <3>4 DEF Step
  <2>3. \A i \in 1 .. saw.calls : i <= Made => guest.seen[i] = saw.seen[i]
    <3> TAKE i \in 1 .. saw.calls
    <3>1. HAVE i <= Made
    <3>2. CASE i = Made
      BY <1>3, <2>2, <3>2
    <3>3. CASE i # Made
      <4>1. i <= Over
        BY <1>2, <3>1, <3>3
      <4> QED
        BY <2>1, <4>1 DEF Amid
    <3> QED
      BY <3>2, <3>3
  <2>4. Made <= saw.calls => /\ ms = h[Made].ms /\ timeCursor = h[Made].stamps
                             /\ guest.down = d[cursor]
    BY <2>1 DEF Amid
  <2> QED
    BY <1>1, <1>2, <2>2, <2>3, <2>4 DEF At, Made
<1>5. Tells(h, d, saw'.calls, calls', saw'.seen, script', times')
  BY <1>1, <1>3
<1> QED
  BY <1>1, <1>3, <1>4, <1>5 DEF Playing
\* A call that is over at once, and moves neither the clock nor the script.
LEMMA PlayCall ==
  ASSUME Known, Rewinds, NEW h, NEW d, Playing(h, d), ~Misled, pc = "guest",
         NEW c \in Calls, Call(c), c.op # "nap",
         UNCHANGED <<ms, cursor, subTick, saw, restored>>,
         restored # << >> => snap' = snap,
         Made' = Made + 1, guest'.down = guest.down,
         \A i \in 1 .. Made : guest'.seen[i] = guest.seen[i],
         Made + 1 <= saw.calls =>
           /\ guest'.seen[Made + 1] = saw.seen[Made + 1] /\ timeCursor' = h[Made + 1].stamps
           /\ h[Made + 1].ms = h[Made].ms /\ h[Made + 1].lines = h[Made].lines
           /\ h[Made + 1].sub = h[Made].sub
  PROVE  /\ At(h, d, saw', guest', ms', cursor', timeCursor')
         /\ Made' <= saw'.calls => subTick' = h[Made'].sub \/ Rewound'
<1>1. /\ Made \in Nat /\ saw.calls \in Nat
      /\ Made + 1 <= Len(calls') /\ calls'[Made + 1] = c
      /\ Made <= Len(calls) /\ Len(calls) \in Nat
      /\ \A i \in 1 .. Len(calls) : calls'[i] = calls[i]
  BY CallIs DEF Known
<1>2. /\ At(h, d, saw, guest, ms, cursor, timeCursor)
      /\ Made <= saw.calls => subTick = h[Made].sub \/ Rewound
  BY DEF Playing
<1>3. \A i \in 1 .. saw.calls : i <= Made + 1 => guest'.seen[i] = saw.seen[i]
  <2> TAKE i \in 1 .. saw.calls
  <2>1. HAVE i <= Made + 1
  <2>2. CASE i = Made + 1
    BY <2>2
  <2>3. CASE i # Made + 1
    <3>1. i <= Made /\ i \in 1 .. Made
      BY <1>1, <2>1, <2>3
    <3> QED
      BY <1>2, <3>1 DEF At, Made
  <2> QED
    BY <2>2, <2>3
<1>4. ASSUME Made + 1 <= saw.calls
      PROVE  /\ ms = h[Made + 1].ms /\ cursor = h[Made + 1].lines
             /\ guest'.down = d[cursor]
  <2>1. Made <= saw.calls
    BY <1>1, <1>4
  <2> QED
    BY <1>2, <1>4, <2>1 DEF At, Made
<1>5. At(h, d, saw', guest', ms', cursor', timeCursor')
  <2>1. Len(guest'.seen) = Made + 1
    BY DEF Made
  <2> QED
    BY <1>3, <1>4, <2>1 DEF At
<1>6. ASSUME Made + 1 <= saw.calls
      PROVE  subTick' = h[Made + 1].sub \/ Rewound'
  <2>1. CASE subTick = h[Made].sub
    BY <1>6, <2>1
  <2>2. CASE Rewound
    <3>1. /\ restored # << >> /\ snap' = snap /\ subTick = restored[1] /\ ms = snap[1].ms
          /\ Len(snap[1].guest.seen) <= Made
          /\ \A j \in Len(snap[1].guest.seen) + 1 .. Made : calls[j].op # "nap"
      BY <2>2 DEF Rewound
    <3>2. PICK k, n \in Nat : k = Len(snap[1].guest.seen) /\ n = Made
      <4>1. Len(snap[1].guest.seen) \in Nat
        BY <3>1 DEF Rewinds, Guests
      <4> QED
        BY <1>1, <4>1
    <3>3. ASSUME NEW j \in k + 1 .. n + 1
          PROVE  calls'[j].op # "nap"
      <4>1. CASE j = n + 1
        BY <1>1, <3>2, <4>1
      <4>2. CASE j # n + 1
        <5>1. j \in k + 1 .. n /\ j \in 1 .. Len(calls)
          <6>1. PICK m \in Nat : m = Len(calls) /\ n <= m
            BY <1>1, <3>2
          <6>2. j \in k + 1 .. n /\ j \in 1 .. m
            BY ONLY <3>2, <4>2, <6>1
          <6> QED
            BY <6>1, <6>2
        <5> QED
          BY <1>1, <3>1, <3>2, <5>1
      <4> QED
        BY <4>1, <4>2
    <3>4. k <= Made' /\ \A j \in k + 1 .. Made' : calls'[j].op # "nap"
      BY <3>1, <3>2, <3>3
    <3> QED
      BY <3>1, <3>2, <3>4 DEF Rewound
  <2>3. Made <= saw.calls
    BY <1>1, <1>6
  <2> QED
    BY <1>2, <2>1, <2>2, <2>3
<1> QED
  BY <1>5, <1>6

\* The n-th time() of the replay is answered by the n-th of the recording.
LEMMA PlayTime ==
  ASSUME IInv, Known, Rewinds, NEW h, NEW d, Playing(h, d), Time, mode = "replay"
  PROVE  Playing(h, d)'
<1> DEFINE c == [op |-> "time"]
<1>1. /\ UNCHANGED <<pc, ms, subTick, script, cursor, saw, snap, restored>>
      /\ c \in Calls /\ Call(c) /\ c.op = "time"
  BY DEF Time, Calls, options, rewind
<1> HIDE DEF c
<1>2. /\ pc = "guest" /\ Made \in Nat /\ Made + 1 <= Len(calls') /\ calls'[Made + 1] = c
      /\ \A i \in 1 .. Len(calls) : calls'[i] = calls[i]
      /\ Len(calls) \in Nat /\ Len(calls') \in Nat /\ Len(calls) <= Len(calls')
  BY <1>1, CallIs DEF Known
<1>3. PICK v \in Answers :
        /\ guest'.down = guest.down /\ Made' = Made + 1
        /\ \A i \in 1 .. Made : guest'.seen[i] = guest.seen[i]
        /\ guest'.seen[Made + 1] = << [kind |-> "time", arg |-> v] >>
        /\ times' = times
        /\ timeCursor < Len(times) => v = times[timeCursor + 1] /\ timeCursor' = timeCursor + 1
  BY TimeIs
<1>4. /\ saw.calls \in Nat /\ (~Misled' => ~Misled)
      /\ Tells(h, d, saw.calls, calls', saw.seen, script, times)
      /\ snap' # << >> => At(h, d, saw', snap'[1].guest, snap'[1].ms,
                             snap'[1].cursor, snap'[1].timeCursor)
  BY <1>1, <1>2, <1>3, PlayKept
<1>5. ASSUME ~Misled', Made + 1 <= saw.calls
      PROVE  /\ guest'.seen[Made + 1] = saw.seen[Made + 1] /\ timeCursor' = h[Made + 1].stamps
             /\ h[Made + 1].ms = h[Made].ms /\ h[Made + 1].lines = h[Made].lines
             /\ h[Made + 1].sub = h[Made].sub
  <2>1. PICK n \in Nat : n = Made /\ n \in 0 .. saw.calls /\ n + 1 \in 0 .. saw.calls
                         /\ (n + 1) - 1 = n /\ n + 1 > 0
    BY <1>2, <1>4, <1>5
  <2>2. /\ Step(h[n], h[n + 1], calls'[n + 1], saw.seen[n + 1], d, script, times)
        /\ h[n + 1].stamps <= Len(times) /\ h[n].stamps \in Nat
    BY <1>4, <2>1, MarkIs
  <2>3. timeCursor = h[n].stamps
    BY <1>2, <1>4, <1>5, <2>1 DEF Playing, At, Made
  <2>4. /\ h[n + 1].ms = h[n].ms /\ h[n + 1].sub = h[n].sub /\ h[n + 1].lines = h[n].lines
        /\ h[n + 1].stamps = h[n].stamps + 1
        /\ saw.seen[n + 1] = << [kind |-> "time", arg |-> times[h[n + 1].stamps]] >>
    BY <1>1, <1>2, <2>1, <2>2 DEF Step
  <2>5. Len(times) \in Nat
    BY DEF Known
  <2> QED
    BY <1>3, <2>1, <2>2, <2>3, <2>4, <2>5
<1>6. ASSUME ~Misled'
      PROVE  /\ At(h, d, saw', guest', ms', cursor', timeCursor')
             /\ Made' <= saw'.calls => subTick' = h[Made'].sub \/ Rewound'
  BY <1>1, <1>2, <1>3, <1>4, <1>5, <1>6, PlayCall
<1>7. Tells(h, d, saw'.calls, calls', saw'.seen, script', times')
  BY <1>1, <1>3, <1>4
<1> QED
  BY <1>1, <1>2, <1>4, <1>6, <1>7 DEF Playing

\* The safe point: a snapshot is a place in the history, and a rewind goes back
\* to it.
LEMMA PlaySafepoint ==
  ASSUME IInv, Known, Rewinds, NEW h, NEW d, Playing(h, d), Safepoint, mode = "replay"
  PROVE  Playing(h, d)'
<1> DEFINE c == [op |-> "tick"]
<1>1. /\ UNCHANGED <<pc, subTick, script, times, saw>>
      /\ c \in Calls /\ Call(c) /\ c.op = "tick"
  BY DEF Safepoint, Calls, file, options
<1> HIDE DEF c
<1>2. /\ pc = "guest" /\ Made \in Nat /\ Made + 1 <= Len(calls') /\ calls'[Made + 1] = c
      /\ \A i \in 1 .. Len(calls) : calls'[i] = calls[i]
      /\ Len(calls) \in Nat /\ Len(calls') \in Nat /\ Len(calls) <= Len(calls')
  BY <1>1, CallIs DEF Known
<1>3. /\ saw.calls \in Nat
      /\ Tells(h, d, saw.calls, calls', saw.seen, script, times)
      /\ UNCHANGED <<snap, restored>> =>
           /\ ~Misled' => ~Misled
           /\ snap' # << >> => At(h, d, saw', snap'[1].guest, snap'[1].ms,
                                  snap'[1].cursor, snap'[1].timeCursor)
  BY <1>1, <1>2, PlayKept
<1>4. Tells(h, d, saw'.calls, calls', saw'.seen, script', times')
  BY <1>1, <1>3
<1>5. CASE RestoreDue
  <2>1. /\ snap # << >> /\ restored = << >> /\ snap' = snap /\ restored' = <<Tick, Tick'>>
        /\ guest' = snap[1].guest /\ ms' = snap[1].ms
        /\ cursor' = snap[1].cursor /\ timeCursor' = snap[1].timeCursor
        /\ Tick >= restoreAt /\ restoreAt > 0
    BY <1>5 DEF Safepoint, Restore, RestoreDue
  <2>2. At(h, d, saw', guest', ms', cursor', timeCursor')
        /\ At(h, d, saw', snap'[1].guest, snap'[1].ms, snap'[1].cursor, snap'[1].timeCursor)
    BY <1>1, <2>1 DEF Playing
  <2>3. subTick' = Tick
    <3>1. Tick > 0
      BY <2>1, TickType DEF Known, IInv, Types
    <3>2. ms = 0 => Tick = 0
      BY DEF Tick
    <3> QED
      BY <1>1, <2>1, <3>1, <3>2 DEF Known, Clocked
  <2>4. Rewound'
    <3>1. Made' = Len(snap[1].guest.seen) /\ Len(snap[1].guest.seen) \in Nat
      BY <2>1 DEF Made, Rewinds, Guests
    <3>2. \A j \in Len(snap[1].guest.seen) + 1 .. Made' : calls'[j].op # "nap"
      BY <3>1
    <3>3. restored' # << >> /\ restored'[1] = Tick
      BY <2>1
    <3> QED
      BY <2>1, <2>3, <3>1, <3>2, <3>3 DEF Rewound
  <2> QED
    BY <1>1, <1>2, <1>4, <2>2, <2>4 DEF Playing
<1>6. CASE ~RestoreDue
  <2>1. /\ guest' = Called /\ UNCHANGED <<ms, cursor, timeCursor, restored>>
        /\ snap' = IF CaptureDue THEN Captured ELSE snap
    BY <1>6 DEF Safepoint, cursors
  <2>2. /\ guest'.down = guest.down /\ Made' = Made + 1
        /\ \A i \in 1 .. Made : guest'.seen[i] = guest.seen[i]
        /\ guest'.seen[Made + 1] = << >>
    BY <2>1, CalledStep DEF Known
  <2>3. ~Misled' => ~Misled
    <3>1. CASE CaptureDue
      BY <3>1 DEF CaptureDue, Misled, Rewinds
    <3>2. CASE ~CaptureDue
      BY <1>3, <2>1, <3>2
    <3> QED
      BY <3>1, <3>2
  <2>4. ASSUME ~Misled', Made + 1 <= saw.calls
        PROVE  /\ guest'.seen[Made + 1] = saw.seen[Made + 1] /\ timeCursor' = h[Made + 1].stamps
               /\ h[Made + 1].ms = h[Made].ms /\ h[Made + 1].lines = h[Made].lines
               /\ h[Made + 1].sub = h[Made].sub
    <3>1. PICK n \in Nat : n = Made /\ n \in 0 .. saw.calls /\ n + 1 \in 0 .. saw.calls
                           /\ (n + 1) - 1 = n /\ n + 1 > 0
      BY <1>2, <1>3, <2>4
    <3>2. Step(h[n], h[n + 1], calls'[n + 1], saw.seen[n + 1], d, script, times)
      BY <1>3, <3>1, MarkIs
    <3>3. timeCursor = h[n].stamps
      BY <1>2, <2>3, <2>4, <3>1 DEF Playing, At, Made
    <3>4. h[n + 1] = h[n] /\ saw.seen[n + 1] = << >>
      BY <1>1, <1>2, <3>1, <3>2 DEF Step
    <3> QED
      BY <2>1, <2>2, <3>1, <3>3, <3>4
  <2>5. ASSUME ~Misled'
        PROVE  /\ At(h, d, saw', guest', ms', cursor', timeCursor')
               /\ Made' <= saw'.calls => subTick' = h[Made'].sub \/ Rewound'
    <3>1. restored # << >> => snap' = snap
      BY <2>1 DEF CaptureDue, Rewinds
    <3> QED
      BY <1>1, <1>2, <2>1, <2>2, <2>3, <2>4, <2>5, <3>1, PlayCall
  <2>6. snap' # << >> => At(h, d, saw', snap'[1].guest, snap'[1].ms,
                            snap'[1].cursor, snap'[1].timeCursor)
    <3>1. CASE CaptureDue
      <4>1. restored' = << >>
        BY <2>1, <3>1 DEF CaptureDue, Rewinds
      <4>2. At(h, d, saw', guest', ms', cursor', timeCursor')
        BY <2>5, <4>1 DEF Misled
      <4>3. /\ snap'[1].guest = guest' /\ snap'[1].ms = ms' /\ snap'[1].cursor = cursor'
            /\ snap'[1].timeCursor = timeCursor'
        BY <2>1, <3>1 DEF Captured
      <4> QED
        BY <4>2, <4>3
    <3>2. CASE ~CaptureDue
      BY <1>3, <2>1, <3>2
    <3> QED
      BY <3>1, <3>2
  <2> QED
    BY <1>1, <1>2, <1>4, <2>5, <2>6 DEF Playing
<1> QED
  BY <1>5, <1>6
-----------------------------------------------------------------------------
LEMMA InitFollowed == Init => Followed
<1> SUFFICES ASSUME Init PROVE Followed
  OBVIOUS
<1>1. /\ mode = "record" /\ pc = "guest" /\ calls = << >> /\ guest = NewGuest
      /\ ms = 0 /\ subTick = -1 /\ lastDrain = -1 /\ held = {}
      /\ script = << >> /\ times = << >>
  BY DEF Init
<1>2. PICK h, d : h = [i \in 0 .. 0 |-> Start] /\ d = [k \in 0 .. 0 |-> {}]
  OBVIOUS
<1>3. Start \in Marks /\ Start.lines = 0 /\ Start.stamps = 0 /\ Start.ms = 0 /\ Start.sub = -1
  BY DEF Start, Marks
<1>4. Timed(Start)
  BY <1>3 DEF Timed
<1>5. Downs(d, << >>)
  BY <1>2 DEF Downs
<1>6. Tells(h, d, 0, << >>, << >>, << >>, << >>)
  <2>1. h \in [0 .. 0 -> Marks] /\ h[0] = Start /\ \A i \in 0 .. 0 : h[i] = Start
    BY <1>2, <1>3
  <2>2. \A i \in 0 .. 0 : /\ h[i].lines <= Len(<< >>) /\ h[i].stamps <= Len(<< >>)
                          /\ h[i].sub <= h[0].sub /\ Timed(h[i])
                          /\ \A k \in h[i].lines + 1 .. Len(<< >>) : << >>[k].tick > h[i].sub
    BY <1>3, <1>4, <2>1
  <2> QED
    BY <1>5, <2>1, <2>2 DEF Tells
<1>7. guest.down = {} /\ guest.seen = << >> /\ Made = 0 /\ Over = 0
  BY <1>1 DEF NewGuest, Made, Over
<1>8. h[0] = Start /\ d[0] = {}
  BY <1>2
<1>9. Recording(h, d)
  BY <1>1, <1>3, <1>6, <1>7, <1>8 DEF Recording
<1> QED
  BY <1>1, <1>9 DEF Followed

\* The recorded run keeps its history.
LEMMA RecordFollowed ==
  ASSUME IInv, Known, Rewinds, Followed, mode = "record", WindowThread \/ Carrier
  PROVE  mode' = "record" /\ \E h, d : Recording(h, d)'
<1>1. PICK h, d : Recording(h, d)
  BY DEF Followed
<1>2. mode' = mode
  BY DEF WindowThread, KeyEvent, SwitchHook, Carrier, Sleep, Pump, Deliver, StartDrain, DrainKey,
         DrainSwitch, Time, Safepoint, options
<1>q. ASSUME NEW q \in Seq(QueuedEvents), q # << >>
      PROVE  Head(q).event \in Events
  <2>1. Head(q) \in QueuedEvents
    BY <1>q
  <2> QED
    BY <2>1 DEF QueuedEvents, Events
<1>3. CASE WindowThread
  <2>1. UNCHANGED <<pc, calls, guest, ms, subTick, lastDrain, held, script, times>>
    BY <1>3 DEF WindowThread, KeyEvent, SwitchHook, file
  <2> QED
    BY <1>1, <1>2, <2>1, RecordQuiet
<1>4. ASSUME NEW c \in NapCalls, Sleep(c)
      PROVE  \E f, e : Recording(f, e)'
  BY <1>1, <1>4, RecordSleep
<1>5. CASE Pump
  BY <1>1, <1>2, <1>5, RecordPump
<1>6. CASE StartDrain
  BY <1>1, <1>2, <1>6, RecordStart
<1>7. CASE DrainKey
  <2>1. UNCHANGED <<calls, ms, subTick, lastDrain>> /\ pc = "keys"
    BY <1>7 DEF DrainKey
  <2>2. CASE keyQueue = << >>
    <3>1. pc' = "switches" /\ UNCHANGED <<guest, script, times, held>>
      BY <1>7, <2>2 DEF DrainKey, file
    <3>2. Made' = Made /\ Tick' = Tick /\ Over' = Over
      BY <2>1, <3>1 DEF Made, Tick, Over
    <3>3. Recording(h, d)'
      BY <1>1, <2>1, <3>1, <3>2 DEF Recording
    <3> QED
      BY <1>2, <3>3
  <2>3. CASE keyQueue # << >>
    <3>1. HandOver(Head(keyQueue).event, TRUE) /\ keyQueue \in Seq(QueuedEvents) /\ pc' = pc
      BY <1>7, <2>3 DEF DrainKey, IInv, Types
    <3>2. PICK e \in Events : e = Head(keyQueue).event
      BY <1>q, <2>3, <3>1
    <3> QED
      BY <1>1, <1>2, <2>1, <3>1, <3>2, RecordHandOver
  <2> QED
    BY <2>2, <2>3
<1>8. CASE DrainSwitch
  <2>1. UNCHANGED <<calls, ms, subTick, lastDrain>> /\ pc = "switches"
    BY <1>8 DEF DrainSwitch
  <2>2. CASE focusQueue = << >>
    <3>1. pc' = "guest" /\ UNCHANGED <<guest, script, times, held>>
      BY <1>8, <2>2 DEF DrainSwitch, file
    <3> QED
      BY <1>1, <1>2, <2>1, <3>1, RecordEnds
  <2>3. CASE focusQueue # << >>
    <3>1. HandOver(Head(focusQueue).event, TRUE) /\ focusQueue \in Seq(QueuedEvents) /\ pc' = pc
      BY <1>8, <2>3 DEF DrainSwitch, IInv, Types
    <3>2. PICK e \in Events : e = Head(focusQueue).event
      BY <1>q, <2>3, <3>1
    <3> QED
      BY <1>1, <1>2, <2>1, <3>1, <3>2, RecordHandOver
  <2> QED
    BY <2>2, <2>3
<1>9. ~Deliver
  BY DEF Deliver, Due
<1>10. CASE Time
  BY <1>1, <1>2, <1>10, RecordTime
<1>11. CASE Safepoint
  BY <1>1, <1>2, <1>11, RecordSafepoint
<1> QED
  BY <1>2, <1>3, <1>4, <1>5, <1>6, <1>7, <1>8, <1>9, <1>10, <1>11 DEF Carrier

LEMMA ReplayFollowed ==
  ASSUME IInv, Known, Rewinds, Followed, mode = "replay", WindowThread \/ Carrier
  PROVE  mode' = "replay" /\ \E h, d : Playing(h, d)'
<1>1. PICK h, d : Playing(h, d)
  BY DEF Followed
<1>2. mode' = mode
  BY DEF WindowThread, KeyEvent, SwitchHook, Carrier, Sleep, Pump, Deliver, StartDrain, DrainKey,
         DrainSwitch, Time, Safepoint, options
<1>3. CASE WindowThread
  <2>1. UNCHANGED <<pc, calls, guest, ms, subTick, subIn, script, times, cursor, timeCursor,
                    saw, snap, restored>>
    BY <1>3 DEF WindowThread, KeyEvent, SwitchHook, file, cursors, options, rewind
  <2> QED
    BY <1>1, <1>2, <2>1, PlayQuiet
<1>4. ASSUME NEW c \in NapCalls, Sleep(c)
      PROVE  \E f, e : Playing(f, e)'
  BY <1>1, <1>4, PlaySleep
<1>5. ~DrainKey /\ ~DrainSwitch
  BY DEF DrainKey, DrainSwitch, Rewinds
<1>6. CASE Pump \/ Deliver \/ StartDrain
  BY <1>1, <1>2, <1>6, PlayPump, PlayDeliver, PlayStartDrain
<1>7. CASE Time \/ Safepoint
  BY <1>1, <1>2, <1>7, PlayTime, PlaySafepoint
<1> QED
  BY <1>2, <1>3, <1>4, <1>5, <1>6, <1>7 DEF Carrier

LEMMA NextFollowed == IInv /\ Known /\ Rewinds /\ Followed /\ [Next]_vars => Followed'
<1> SUFFICES ASSUME IInv, Known, Rewinds, Followed, [Next]_vars
             PROVE  Followed'
  OBVIOUS
<1>1. mode \in {"record", "replay"}
  BY DEF Known
<1>2. CASE WindowThread \/ Carrier
  <2>1. CASE mode = "record"
    BY <1>2, <2>1, RecordFollowed DEF Followed
  <2>2. CASE mode = "replay"
    BY <1>2, <2>2, ReplayFollowed DEF Followed
  <2> QED
    BY <1>1, <2>1, <2>2
<1>3. CASE Replay
  <2>1. mode = "record" /\ mode' = "replay"
    BY <1>3 DEF Replay
  <2>2. PICK h, d : Recording(h, d)
    BY <2>1 DEF Followed
  <2>3. Playing(h, d)'
    BY <1>3, <2>2, RecordReplay
  <2> QED
    BY <2>1, <2>3 DEF Followed
<1>4. CASE UNCHANGED vars
  <2>1. PICK h, d : /\ mode = "record" => Recording(h, d)
                    /\ mode = "replay" => Playing(h, d)
    BY DEF Followed
  <2>2. /\ UNCHANGED <<mode, pc, calls, guest, ms, subTick, subIn, lastDrain, held, script, times,
                       cursor, timeCursor, saw, snap, restored>>
    BY <1>4 DEF vars
  <2>3. /\ mode' = "record" => Recording(h, d)'
        /\ mode' = "replay" => Playing(h, d)'
    BY <2>1, <2>2, RecordQuiet, PlayQuiet
  <2> QED
    BY <2>3 DEF Followed
<1> QED
  BY <1>2, <1>3, <1>4 DEF Next
-----------------------------------------------------------------------------
\* What a replay shows the game in a call is what the recorded run showed it in
\* that call, unless it is misled by a rewind: whatever the lengths of the Sleeps
\* and of a tick, however many events the window thread captures and the queues
\* drop, and wherever the recording was cut off.
THEOREM Reproduced == Spec => []ReplayIsTheRecording
<1>1. Init => InStep
  BY InitIInv, InitKnown, InitFollowed DEF InStep
<1>2. InStep /\ [Next]_vars => InStep'
  BY NextIInv, NextKnown, NextFollowed DEF InStep
<1>3. InStep => ReplayIsTheRecording
  <2> SUFFICES ASSUME InStep, ~Misled, mode = "replay", pc = "guest"
               PROVE  \A i \in 1 .. saw.calls : i <= Made => guest.seen[i] = saw.seen[i]
    BY DEF ReplayIsTheRecording, Faithful
  <2>1. PICK h, d : Playing(h, d)
    BY DEF InStep, Followed
  <2>2. At(h, d, saw, guest, ms, cursor, timeCursor)
    BY <2>1 DEF Playing
  <2> QED
    BY <2>2 DEF At, Made
<1> QED
  BY <1>1, <1>2, <1>3, PTL DEF Spec
===============================================================================
