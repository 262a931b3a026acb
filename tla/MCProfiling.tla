----------------------------- MODULE MCProfiling -----------------------------
EXTENDS Profiling, TLC

CONSTANTS p1, p2

MCProcess == {p1, p2}
MCFile == {Profile}

\* Two platforms of one device.
MCNumDevices == <<1, 1>>

MCMaxEvents == (p1 :> 2) @@ (p2 :> 0)
==============================================================================
