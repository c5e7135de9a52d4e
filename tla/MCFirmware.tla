------------------------------- MODULE MCFirmware ------------------------------
(* Small instances of Firmware and Hud for TLC. *)
EXTENDS Hud, TLC

\* The names are only compared, and the seeds below treat them alike.
NameSymmetry == Permutations(Names)

\* A device out of the box, one with two saved networks, and one saved with a blank entry active.
SavedTwo(n, m) ==
    [count |-> 2, active |-> 0,
     profiles |-> [[i \in CS!Slots |-> CS!ZeroProfile] EXCEPT ![0].ssid = n, ![1].ssid = m]]

BlankOrNetwork == {NoBlob} \cup {SavedTwo(n, m) : n \in CS!Ssids, m \in Names}
================================================================================
