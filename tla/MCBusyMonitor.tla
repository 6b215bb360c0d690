--------------------------- MODULE MCBusyMonitor ---------------------------
EXTENDS BusyMonitor
MCMarks == {1, 2, 4}
MCDurations == {1, 3, 8}
=============================================================================
