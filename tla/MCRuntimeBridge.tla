-------------------------- MODULE MCRuntimeBridge --------------------------
(***************************************************************************)
(* Small instances of RuntimeBridge for TLC.                               *)
(***************************************************************************)
EXTENDS RuntimeBridge, TLC

CONSTANTS t1, t2, t3, h1, h2, p1, p2, p3, p4, none

MCThreads3 == {t1, t2, t3}
MCHandles2 == {h1, h2}
MCPacks == {p1, p2, p3, p4}

\* With at most two entries and four bytes, two of the small packs are admitted
\* together, three of them exceed the entries, and the large one with any other
\* exceeds the bytes.
MCPackBytes == p1 :> 1 @@ p2 :> 1 @@ p3 :> 1 @@ p4 :> 4
=============================================================================
