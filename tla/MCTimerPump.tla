----------------------------- MODULE MCTimerPump -----------------------------
\* Small instances of the timer pump.
EXTENDS TimerPump
MCTimeouts == {0, 2}
=============================================================================
