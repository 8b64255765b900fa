----------------------------- MODULE MCCsTimer -----------------------------
(* Model-checking instance of CsTimer: two timers, arguments 0..2 seconds, *)
(* four ticks, so that a timer with value 2 and interval 1 or 2 fires      *)
(* several times and a second timer is created or destroyed mid-tick.      *)
EXTENDS CsTimer

CONSTANTS t1, t2

MCTimers == {t1, t2}

=============================================================================
