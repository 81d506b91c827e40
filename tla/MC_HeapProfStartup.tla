------------------------- MODULE MC_HeapProfStartup -------------------------
EXTENDS HeapProfStartup

\* no options, a log path, "log=" with nothing after it, and other options
MC_Options == {"none", "log=/var/log/hp", "log=", "verbose"}
MC_LogOpt == {"log=/var/log/hp"}
\* every report of up to three rows drawn from two row values
MC_Reports == UNION {[1 .. n -> {1, 2}] : n \in 0 .. 3}
=============================================================================
