------------------------------- MODULE MCPipe -------------------------------
EXTENDS Pipe

\* A reader, a writer, and a process that has both ends, like the shell between
\* pipe() and its calls of close().
WithShell == [p \in Procs |-> CASE p = 1 -> {"r"} [] p = 2 -> {"w"} [] OTHER -> {"r", "w"}]
=============================================================================
