------------------------------ MODULE ProfileList ------------------------------
(***************************************************************************)
(* What the saved-network list promises its users, whatever array and      *)
(* index arithmetic implements it: a list of at most Capacity entries, a   *)
(* selection (0 when the list is empty, otherwise a position in it), and   *)
(* the last list that was made durable.                                    *)
(***************************************************************************)
EXTENDS Naturals, Sequences, SequencesExt

CONSTANTS
    Ssids,      \* network names, the blank one included
    Passes,     \* passphrases, the blank one (an open network) included
    Blank,      \* the empty string
    Capacity,   \* most entries the list holds
    Factory     \* the [list, sel] a device without a saved list starts from

VARIABLES
    list,       \* the entries, in the order they were added
    sel,        \* position of the selected entry, 0 when there is none
    durable     \* the [list, sel] of flash: what the next boot starts from

vars == <<list, sel, durable>>

Entry(s, p) == [ssid |-> s, pass |-> p]

Positions(s) == {i \in 1..Len(list) : list[i].ssid = s}

First(S) == CHOOSE i \in S : \A j \in S : i <= j

Init == list = Factory.list /\ sel = Factory.sel /\ durable = Factory

\* Choose network s with passphrase p: its entry, or a new one at the end, is selected.
Choose(s, p) ==
    /\ \/ /\ Positions(s) # {}
          /\ sel' = First(Positions(s))
          /\ list' = [list EXCEPT ![First(Positions(s))].pass = p]
       \/ /\ Positions(s) = {}
          /\ Len(list) < Capacity
          /\ list' = Append(list, Entry(s, p))
          /\ sel' = Len(list) + 1

\* Rewrite the selected entry, or make one when the list is empty.
Rewrite(s, p) ==
    IF list = <<>>
    THEN list' = <<Entry(s, p)>> /\ sel' = 1
    ELSE list' = [list EXCEPT ![sel] = Entry(s, p)] /\ sel' = sel

Rename(s) == Rewrite(s, IF list = <<>> THEN Blank ELSE list[sel].pass)
Rekey(p) == Rewrite(IF list = <<>> THEN Blank ELSE list[sel].ssid, p)

Select(n) == n \in 1..Len(list) /\ sel' = n /\ list' = list

\* Removing another entry keeps the selected one; removing the selected one falls back to the first.
Drop(n) ==
    /\ n \in 1..Len(list)
    /\ list' = RemoveAt(list, n)
    /\ sel' = IF Len(list) = 1 THEN 0
              ELSE IF n = sel THEN 1
              ELSE IF n < sel THEN sel - 1
              ELSE sel

Wipe == list' = <<>> /\ sel' = 0

Persist == durable' = [list |-> list', sel |-> sel']

\* One command changes the list, makes it durable, or does both.
Command ==
    /\ \/ \E s \in Ssids, p \in Passes : Choose(s, p)
       \/ \E s \in Ssids : Rename(s)
       \/ \E p \in Passes : Rekey(p)
       \/ \E n \in 1..Capacity : Select(n) \/ Drop(n)
       \/ Wipe
       \/ UNCHANGED <<list, sel>>
    /\ Persist \/ durable' = durable

Reboot == list' = durable.list /\ sel' = durable.sel /\ durable' = durable

\* The flash itself may have to be given up.
Reset == list' = Factory.list /\ sel' = Factory.sel /\ durable' = Factory

Next == Command \/ Reboot \/ Reset

Spec == Init /\ [][Next]_vars
================================================================================
