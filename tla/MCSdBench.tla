------------------------------ MODULE MCSdBench ------------------------------
\* Every path either firmware can name.
EXTENDS SdBench

MCPaths == {<<"rx", s>> : s \in 1..MaxSessions} \cup {<<"run", i>> : i \in 0..TestMaxFiles - 1}
=============================================================================
