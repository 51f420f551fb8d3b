----------------------------- MODULE MCTimerSync -----------------------------
EXTENDS TimerSync
=============================================================================
