--------------------------- MODULE MCTimerManager ---------------------------
EXTENDS TimerManager

CONSTANTS t1, t2

MCTimers == {t1, t2}
MCIntervals == {1, 2}
=============================================================================
