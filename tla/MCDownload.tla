------------------------------ MODULE MCDownload ----------------------------
\* Two processes, and a third download that runs inside one of the others or
\* after it.
EXTENDS Download

MCPid == [p \in Procs |-> p]
=============================================================================
