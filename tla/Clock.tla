--------------------------------- MODULE Clock ---------------------------------
(***************************************************************************)
(* A caller of PIT_Sleep while the timer ticks.  The test of TimeSinceBoot *)
(* and the hlt behind it are two steps: a tick between them is counted but *)
(* wakes nobody.                                                           *)
(***************************************************************************)
EXTENDS Timer

CONSTANTS
  Divisor,        \* what InitializeInterrupts sets, 2000, in 16 bits
  Milliseconds,   \* the times slept
  MaxTicks        \* bound: the ticks of a sleep

VARIABLES
  pc,           \* where the caller is
  seconds,      \* the time asked for, in milliseconds
  startTime,
  ticks         \* history: the ticks of the device since the sleep began

vars == <<timerVars, pc, seconds, startTime, ticks>>

Init ==
  /\ InitTimer
  /\ pc = "set up" /\ seconds = 0 /\ startTime = 0 /\ ticks = 0

SetUp ==
  /\ pc = "set up" /\ pc' = "call"
  /\ PIT_SetDivisor(Divisor)
  /\ UNCHANGED <<TimeSinceBoot, seconds, startTime, ticks>>

PIT_Sleep(ms) ==
  /\ pc = "call" /\ pc' = "test"
  /\ seconds' = ms /\ startTime' = TimeSinceBoot /\ ticks' = 0
  /\ UNCHANGED timerVars

\* TimeSinceBoot < startTime + seconds, multiplied by the frequency.
TooEarly == (TimeSinceBoot - startTime) * 1000 < seconds * PIT_GetFrequency

Test ==
  /\ pc = "test" /\ pc' = IF TooEarly THEN "hlt" ELSE "awake"
  /\ UNCHANGED <<timerVars, seconds, startTime, ticks>>

Halt ==
  /\ pc = "hlt" /\ pc' = "halted"
  /\ UNCHANGED <<timerVars, seconds, startTime, ticks>>

Tick ==
  /\ pc \in {"test", "hlt", "halted"} /\ ticks < MaxTicks
  /\ PIT_Tick
  /\ ticks' = ticks + 1
  /\ pc' = IF pc = "halted" THEN "test" ELSE pc
  /\ UNCHANGED <<g_Divisor, reload, seconds, startTime>>

Next == SetUp \/ (\E ms \in Milliseconds : PIT_Sleep(ms)) \/ Test \/ Halt \/ Tick

Spec == Init /\ [][Next]_vars /\ WF_vars(Test) /\ WF_vars(Halt) /\ WF_vars(Tick)

-------------------------------------------------------------------------------

\* PIT_Sleep returns no earlier than the time asked for: the cycles of the ticks
\* since the call, and of one that had begun before, are that time.
NeverWakesEarly ==
  pc = "awake" => (ticks + 1) * Period * 1000 >= seconds * PIT_BASE_FREQUENCY
===============================================================================
