------------------------------ MODULE MCTxPath ------------------------------
(* Small instances of TxPath: the delays in the order of size of jitqueue.c, *)
(* one short and one long packet, producers that are interchangeable.        *)
EXTENDS TxPath, TLC
MCTOA == {1, 5}
MCShort == {1}
MCMisreads == {8, 58}
Symmetric == Permutations(Producers)
=============================================================================
