----------------------------- MODULE MCJitQueue -----------------------------
(* Small instances of JitQueue: a counter of a few dozen ticks, with the    *)
(* delays in the same order of size as in jitqueue.c.                       *)
EXTENDS JitQueue
MCTOA == {1}
=============================================================================
