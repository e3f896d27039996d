------------------------------ MODULE RpmCapture ------------------------------
(***************************************************************************)
(* Shaft speed measurement (stm32f401_acquisition.c): TIM3 captures the    *)
(* time of each pulse in a short hardware counter, its interrupt handler   *)
(* extends the counter in software and turns the distance of two pulses    *)
(* into a speed, and the 1 ms tick marks an old speed as stale. The tick   *)
(* runs in SysTick at the lowest priority and is preempted by the handler  *)
(* between any two of its accesses; the timer runs all the time.           *)
(*                                                                         *)
(* A speed is represented by the period it is computed from.               *)
(***************************************************************************)
EXTENDS Integers

CONSTANTS Wrap,         \* counts of the hardware counter (65536)
          Modulus,      \* counts of an extended timestamp (2^32)
          StaleMs,      \* GUARDIAN_STM32F401_RPM_STALE_MS (2000)
          Latency,      \* counts the handler may be late
          LateEvents,   \* may the timer set a flag while the handler runs?
          MaxTime       \* bound: counts of a behaviour

ASSUME RpmAssumption ==
  /\ Wrap \in Nat /\ Wrap > 1 /\ Wrap % 2 = 0
  /\ Modulus \in Nat \ {0} /\ Modulus % Wrap = 0
  /\ StaleMs \in Nat /\ Latency \in Nat /\ MaxTime \in Nat
  /\ LateEvents \in BOOLEAN

VARIABLES
  now,      \* counts since the start; the hardware counter is now % Wrap
  edges,    \* times of the last pulse and of the one before it
  tim,      \* TIM3: its status flags, and the time captured in CCR1
  waiting,  \* counts since the handler became pending
  irq,      \* the handler: running?, and its snapshot of SR
  rpm,      \* overflow count, last timestamp, speed, validity and age
  truth,    \* the period the last speed should have been computed from
  tick,     \* the 1 ms tick: where it is, and the age it has read
  quiet     \* ticks begun since the last speed was computed

rpmVars == <<now, edges, tim, waiting, irq, rpm, truth, tick, quiet>>

\* Ages above StaleMs are alike, except UINT32_MAX, which no tick increments.
OldAge == StaleMs + 1
Never  == StaleMs + 2
Older(age) == IF age >= OldAge THEN age ELSE age + 1

IrqIdle  == [on |-> FALSE, uif |-> FALSE, cc1if |-> FALSE, cc1of |-> FALSE]

Pending == tim.uif \/ tim.cc1if

RpmInit ==
  /\ now = 0
  /\ edges = [last |-> 0, before |-> 0]
  /\ tim = [uif |-> FALSE, cc1if |-> FALSE, cc1of |-> FALSE, ccr1 |-> 0]
  /\ waiting = 0
  /\ irq = IrqIdle
  /\ rpm = [overflows |-> 0, has |-> FALSE, stamp |-> 0, period |-> 0,
            valid |-> FALSE, age |-> Never]
  /\ truth = 0
  /\ tick = [pc |-> "idle", age |-> 0]
  /\ quiet = Never

(***************************************************************************)
(* The timer                                                               *)
(***************************************************************************)
\* Events while a flag is waiting, or while the handler runs.
Possible == /\ Pending => waiting < Latency
            /\ irq.on => LateEvents

\* Time passes; pulses are never further apart than the timestamps can tell.
Count ==
  /\ Possible /\ now < MaxTime /\ now + 1 - edges.last < Modulus
  /\ now' = now + 1
  /\ tim' = [tim EXCEPT !.uif = @ \/ (now + 1) % Wrap = 0]
  /\ waiting' = IF Pending THEN waiting + 1 ELSE 0
  /\ UNCHANGED <<edges, irq, rpm, truth, tick, quiet>>

\* A pulse: the counter is captured, on top of an unread capture if need be.
Edge ==
  /\ Possible
  /\ edges' = [last |-> now, before |-> edges.last]
  /\ tim' = [tim EXCEPT !.cc1if = TRUE, !.cc1of = @ \/ tim.cc1if, !.ccr1 = now]
  /\ UNCHANGED <<now, waiting, irq, rpm, truth, tick, quiet>>

(***************************************************************************)
(* The handler                                                             *)
(***************************************************************************)
IrqEnter ==
  /\ ~irq.on /\ Pending
  /\ irq' = [on |-> TRUE, uif |-> tim.uif, cc1if |-> tim.cc1if, cc1of |-> tim.cc1of]
  /\ UNCHANGED <<now, edges, tim, waiting, rpm, truth, tick, quiet>>

\* Mutant: an update that is pending together with the capture is ignored.
capture_timestamp_plain(r, uif, capture) == (r.overflows * Wrap + capture) % Modulus

\* The overflow count that belongs to a capture: one more when the counter has
\* wrapped before it but the update has not been counted yet.
capture_timestamp(r, uif, capture) ==
  LET overflows == IF uif /\ capture < Wrap \div 2 THEN r.overflows + 1 ELSE r.overflows
  IN  (overflows * Wrap + capture) % Modulus

captured(r, uif, capture) ==
  LET stamp  == capture_timestamp(r, uif, capture)
      period == (stamp - r.stamp + Modulus) % Modulus
  IN  IF r.has /\ period # 0
      THEN [r EXCEPT !.period = period, !.age = 0, !.valid = TRUE, !.stamp = stamp]
      ELSE [r EXCEPT !.has = TRUE, !.stamp = stamp]

\* The rest of the handler. SR is cleared by a read-modify-write at its end,
\* with all three flags, whether they were in the snapshot or not.
IrqFinish ==
  /\ irq.on
  /\ LET c == IF irq.cc1if THEN captured(rpm, irq.uif, tim.ccr1 % Wrap) ELSE rpm
         u == IF irq.uif THEN [c EXCEPT !.overflows = (@ + 1) % (Modulus \div Wrap)] ELSE c
     IN  /\ rpm' = IF irq.cc1of THEN [u EXCEPT !.valid = FALSE, !.has = FALSE] ELSE u
         /\ LET computed == irq.cc1if /\ rpm.has /\ c.stamp # rpm.stamp
            IN  /\ truth' = IF computed THEN edges.last - edges.before ELSE truth
                /\ quiet' = IF computed THEN 0 ELSE quiet
  /\ tim' = [tim EXCEPT !.uif = FALSE, !.cc1if = FALSE, !.cc1of = FALSE]
  /\ waiting' = 0
  /\ irq' = IrqIdle
  /\ UNCHANGED <<now, edges, tick>>

(***************************************************************************)
(* guardian_stm32f401_acquisition_tick_1ms, preempted by the handler       *)
(***************************************************************************)
TickRead ==
  /\ ~irq.on /\ tick.pc = "idle"
  /\ tick' = [pc |-> IF rpm.age = Never THEN "test" ELSE "store", age |-> rpm.age]
  /\ quiet' = Older(quiet)
  /\ UNCHANGED <<now, edges, tim, waiting, irq, rpm, truth>>

TickStore ==
  /\ ~irq.on /\ tick.pc = "store"
  /\ rpm' = [rpm EXCEPT !.age = Older(tick.age)]
  /\ tick' = [tick EXCEPT !.pc = "test"]
  /\ UNCHANGED <<now, edges, tim, waiting, irq, truth, quiet>>

TickTest ==
  /\ ~irq.on /\ tick.pc = "test"
  /\ tick' = [tick EXCEPT !.pc = IF rpm.age > StaleMs THEN "clear" ELSE "idle"]
  /\ UNCHANGED <<now, edges, tim, waiting, irq, rpm, truth, quiet>>

TickClear ==
  /\ ~irq.on /\ tick.pc = "clear"
  /\ rpm' = [rpm EXCEPT !.valid = FALSE]
  /\ tick' = [tick EXCEPT !.pc = "idle"]
  /\ UNCHANGED <<now, edges, tim, waiting, irq, truth, quiet>>

RpmNext == \/ Count \/ Edge
        \/ IrqEnter \/ IrqFinish
        \/ TickRead \/ TickStore \/ TickTest \/ TickClear

RpmSpec == RpmInit /\ [][RpmNext]_rpmVars

(***************************************************************************)
(* Properties                                                              *)
(***************************************************************************)
\* Types of the timer's, the handler's and the tick's state.
RpmTypeOK ==
  /\ now \in 0..MaxTime /\ edges \in [last : 0..MaxTime, before : 0..MaxTime]
  /\ tim \in [uif : BOOLEAN, cc1if : BOOLEAN, cc1of : BOOLEAN, ccr1 : 0..MaxTime]
  /\ waiting \in 0..Latency
  /\ irq \in [on : BOOLEAN, uif : BOOLEAN, cc1if : BOOLEAN, cc1of : BOOLEAN]
  /\ rpm \in [overflows : 0..(Modulus \div Wrap) - 1, has : BOOLEAN, stamp : 0..Modulus - 1,
              period : 0..Modulus - 1, valid : BOOLEAN, age : 0..Never]
  /\ truth \in 0..MaxTime /\ quiet \in 0..Never
  /\ tick \in [pc : {"idle", "store", "test", "clear"}, age : 0..Never]

\* A speed marked valid was computed from the distance of two consecutive
\* pulses, however many times the counter wrapped between them and in whatever
\* order capture and update became pending.
PeriodExact == rpm.valid => rpm.period = truth

\* A speed is never valid for longer than the stale time: a tick that the
\* handler preempts may make an age too large, never too small.
StaleInTime == (rpm.valid /\ tick.pc = "idle") => quiet <= StaleMs

\* What the tick and the handler publish between them: a valid speed is both
\* exact and recent.
SpeedSound == RpmTypeOK /\ PeriodExact /\ StaleInTime

\* "RPM is marked stale after 2000 ms" (docs/m6-acquisition.md): the tick
\* invalidates no speed before.
NotStaleEarly == [][(TickClear /\ rpm.valid) => quiet > StaleMs]_rpmVars

=============================================================================
