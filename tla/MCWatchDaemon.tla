--------------------------- MODULE MCWatchDaemon ---------------------------
EXTENDS WatchDaemon
=============================================================================
