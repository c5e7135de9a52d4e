------------------------------ MODULE MCBridgeData -----------------------------
(* Small instances of the whole bridge, data side and control side, for TLC. *)
EXTENDS BridgeData, TLC

\* Buffers are interchangeable, so are the tasks that only read the statistics, and those that only
\* close the bridge.
BridgeSymmetry == Permutations(Bufs) \cup Permutations(Readers) \cup Permutations(Downers)
================================================================================
