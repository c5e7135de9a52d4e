------------------------------ MODULE BridgeLink -------------------------------
(***************************************************************************)
(* The control side of the L2 bridge (bridge.c): bridge_set_wifi_up, which *)
(* opens the gate for frames from the USB host and announces the link.     *)
(*                                                                         *)
(* bridge_set_wifi_up takes no lock.  The Wi-Fi event task calls it with   *)
(* true and false; any task that applies a profile, scans or opens the     *)
(* portal calls it with false.  The function tests s_wifi_up, then does    *)
(* up to three separate effects: it (un)registers the receive callback,    *)
(* it tells the host the NCM link state, it writes s_wifi_up.  Each is a   *)
(* step here, so calls of different tasks interleave as they may on the    *)
(* two cores.                                                              *)
(***************************************************************************)
CONSTANTS
    Downers,      \* tasks that only ever call bridge_set_wifi_up(false)
    EventTask     \* the task running on_wifi_event

ASSUME LinkAssumption == EventTask \notin Downers

\* The tasks that call bridge_set_wifi_up.
Setters == Downers \cup {EventTask}

VARIABLES
    wifiUp,     \* s_wifi_up
    rxcb,       \* is pkt_wifi2usb registered with the Wi-Fi driver
    link,       \* NCM link state last announced to the host
    pc,         \* task -> next effect of its call, "idle" outside one
    arg,        \* task -> the argument of its current (or last) call
    overlap,    \* has the current call overlapped another one (history)
    calm        \* what the last calls that overlapped nothing were (history)

linkVars == <<wifiUp, rxcb, link, pc, arg, overlap, calm>>

AllIdle == \A t \in Setters : pc[t] = "idle"

Goto(t, label) == pc' = [pc EXCEPT ![t] = label]

----------------------------------------------------------------------------
(* History: a call made while another is under way overlaps it, and leaves
   the record dirty; otherwise the record says whether the last call was a
   down, or an up that came after a down. *)

NoteBegin ==
    /\ overlap' = ~AllIdle
    /\ UNCHANGED calm

NoteEnd(t) ==
    /\ calm' = IF overlap THEN "dirty"
               ELSE IF ~arg[t] THEN "down"
               ELSE IF calm \in {"down", "cycled"} THEN "cycled" ELSE "dirty"
    /\ UNCHANGED overlap

----------------------------------------------------------------------------
(* bridge_set_wifi_up, one effect at a time. *)

\* Seeded fault: a down call that finds the gate closed does nothing.
BeginUnlessDown(t, up) ==
    /\ pc[t] = "idle"
    /\ up => t = EventTask
    /\ arg' = [arg EXCEPT ![t] = up]
    /\ Goto(t, IF up # wifiUp THEN "rxcb" ELSE "flag")
    /\ NoteBegin
    /\ UNCHANGED <<wifiUp, rxcb, link>>

\* The test of s_wifi_up that chooses the branch.
Begin(t, up) ==
    /\ pc[t] = "idle"
    /\ up => t = EventTask
    /\ arg' = [arg EXCEPT ![t] = up]
    /\ Goto(t, IF up # wifiUp THEN "rxcb" ELSE IF up THEN "flag" ELSE "link")
    /\ NoteBegin
    /\ UNCHANGED <<wifiUp, rxcb, link>>

\* esp_wifi_internal_reg_rxcb with pkt_wifi2usb or NULL.
SetRxcb(t) ==
    /\ pc[t] = "rxcb"
    /\ rxcb' = arg[t]
    /\ Goto(t, "link")
    /\ UNCHANGED <<wifiUp, link, arg, overlap, calm>>

\* tud_network_link_state.
SetLink(t) ==
    /\ pc[t] = "link"
    /\ link' = arg[t]
    /\ Goto(t, "flag")
    /\ UNCHANGED <<wifiUp, rxcb, arg, overlap, calm>>

\* s_wifi_up = up.
SetFlag(t) ==
    /\ pc[t] = "flag"
    /\ wifiUp' = arg[t]
    /\ Goto(t, "idle")
    /\ NoteEnd(t)
    /\ UNCHANGED <<rxcb, link, arg>>

\* bridge_init: link forced down, gate closed.
LinkInit ==
    /\ wifiUp = FALSE /\ rxcb = FALSE /\ link = FALSE
    /\ pc = [t \in Setters |-> "idle"]
    /\ arg = [t \in Setters |-> FALSE]
    /\ overlap = FALSE
    /\ calm = "down"

CallStep(t) == SetRxcb(t) \/ SetLink(t) \/ SetFlag(t)

LinkNext ==
    \/ \E t \in Setters : \E up \in BOOLEAN : Begin(t, up)
    \/ \E t \in Setters : CallStep(t)

LinkSpec == LinkInit /\ [][LinkNext]_linkVars

----------------------------------------------------------------------------
(* Properties *)

LinkTypeOK ==
    /\ wifiUp \in BOOLEAN /\ rxcb \in BOOLEAN /\ link \in BOOLEAN
    /\ pc \in [Setters -> {"idle", "rxcb", "link", "flag"}]
    /\ arg \in [Setters -> BOOLEAN]
    /\ overlap \in BOOLEAN
    /\ calm \in {"dirty", "down", "cycled"}

\* When calls did overlap and left the three effects disagreeing, one down call that overlaps nothing
\* closes the link and the gate, and a later up call that overlaps nothing opens all three: the damage
\* of a race lasts until the next disconnect and association, never longer.
SoloCallsHeal ==
    AllIdle =>
        /\ calm = "down" => ~link /\ ~wifiUp
        /\ calm = "cycled" => link /\ wifiUp /\ rxcb

\* What a call that overlaps nothing has achieved when its next effect is label: why SoloCallsHeal holds.
SoloProgress(t) ==
    /\ pc[t] = "rxcb" => wifiUp = ~arg[t]
    /\ pc[t] = "link" => (arg[t] => rxcb)
    /\ pc[t] = "flag" => IF arg[t] THEN calm # "dirty" => link /\ rxcb ELSE ~link

\* The strengthening of SoloCallsHeal that every step preserves.
LinkInv ==
    /\ LinkTypeOK
    /\ SoloCallsHeal
    /\ overlap /\ AllIdle => calm = "dirty"
    /\ ~overlap =>
         /\ \A s, t \in Setters : pc[s] # "idle" /\ pc[t] # "idle" => s = t
         /\ \A t \in Setters : SoloProgress(t)
================================================================================
