----------------------------- MODULE MCLogStream -----------------------------
(* Small instances of LogStream: two tasks, lines that come in one chunk   *)
(* or in two, one of them longer than the accumulator.                     *)
EXTENDS LogStream

CONSTANTS x, y, nl, w1, w2
MCChunks == {<<x>>, <<y, nl>>, <<y, y, x, nl>>}
=============================================================================
