--------------------------------- MODULE Timer ---------------------------------
(***************************************************************************)
(* The interval timer: scheduling/pit.c and the divisor register of the    *)
(* device.  TimeSinceBoot is kept as the number of ticks counted; each is  *)
(* worth 1 / PIT_GetFrequency seconds, a double the code sums up.          *)
(***************************************************************************)
EXTENDS Integers

VARIABLES
  g_Divisor,       \* what the kernel believes
  reload,          \* what the device counts down from
  TimeSinceBoot    \* the ticks counted

timerVars == <<g_Divisor, reload, TimeSinceBoot>>

PIT_BASE_FREQUENCY == 1193182

InitTimer ==
  /\ g_Divisor = 65535
  /\ reload = 0
  /\ TimeSinceBoot = 0

\* The cast in front of the shift leaves nothing of the high byte.
Written(divisor) == divisor % 256

PIT_SetDivisor(d) ==
  LET divisor == IF d < 100 THEN 100 ELSE d
  IN  g_Divisor' = divisor /\ reload' = Written(divisor)

PIT_GetFrequency == PIT_BASE_FREQUENCY \div g_Divisor

PIT_Tick == TimeSinceBoot' = TimeSinceBoot + 1

\* The cycles of the base frequency between two ticks: 0 stands for 65536.
Period == IF reload = 0 THEN 65536 ELSE reload
===============================================================================
