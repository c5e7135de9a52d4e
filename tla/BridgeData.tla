------------------------------ MODULE BridgeData -------------------------------
(***************************************************************************)
(* The data side of the L2 bridge (bridge.c): usb_recv_callback in the     *)
(* TinyUSB task, pkt_wifi2usb in the Wi-Fi task, and the statistics that   *)
(* they, the display, the console and `resetstats` share under one mutex,  *)
(* together with the control side that opens and closes their gate.        *)
(*                                                                         *)
(* A frame is one unit of length, so the byte and frame counters of a      *)
(* direction coincide.  A task inside the mutex works on what it read when *)
(* it took it and writes it back when it gives it up.  What the driver and *)
(* the USB stack answer is external and nondeterministic.  Counters are    *)
(* bounded by MaxFrames per direction.                                     *)
(***************************************************************************)
EXTENDS BridgeLink, Naturals, FiniteSets

CONSTANTS
    Readers,     \* tasks that call bridge_get_stats
    Bufs,        \* receive buffers of the Wi-Fi driver
    None,        \* no buffer
    MaxFrames    \* bound on the frames of each direction since the last reset

ASSUME DataAssumption ==
    /\ {"usb", "wifi"} \cap Readers = {}
    /\ None \notin Bufs \cup Readers \cup {"usb", "wifi"}
    /\ MaxFrames \in Nat \ {0}

Users == Readers \cup {"usb", "wifi"}

VARIABLES
    stats,      \* s_stats: the five counters
    window,     \* s_window_to_host, s_window_to_wifi
    folded,     \* what closed windows contributed to the rates since the reset (history)
    holders,    \* tasks inside s_stats_lock
    due,         \* task -> the outcome it still has to count, "idle" outside the callbacks
    seen,       \* task -> stats, window and folded as it read them inside the lock
    owner,      \* receive buffer -> "driver" (free), "bridge", or "ncm"
    cur,        \* the buffer pkt_wifi2usb was called with
    freedTwice, \* has a buffer been freed that its caller did not own (history)
    sent,       \* frames usb_recv_callback was given since the reset (history)
    rcvd        \* frames pkt_wifi2usb was given since the reset (history)

shared == <<stats, window, folded>>
buffers == <<owner, cur, freedTwice>>
dataVars == <<shared, holders, due, seen, buffers, sent, rcvd>>
vars == <<linkVars, dataVars>>

Counters == {"frames_to_host", "frames_to_wifi", "drop_tx", "drop_rx", "drop_refl"}
Ways == {"to_host", "to_wifi"}

\* The shared counters, windows and sums as one record.
Data == [stats : [Counters -> Nat], window : [Ways -> Nat], folded : [Ways -> Nat]]

Zero == [stats |-> [c \in Counters |-> 0], window |-> [w \in Ways |-> 0], folded |-> [w \in Ways |-> 0]]

Owe(t, label) == due' = [due EXCEPT ![t] = label]

----------------------------------------------------------------------------
(* The mutex and what runs inside it. *)

\* Seeded fault: no mutual exclusion.
StatsNoLock(t) ==
    /\ holders' = holders \cup {t}
    /\ seen' = [seen EXCEPT ![t] = [stats |-> stats, window |-> window, folded |-> folded]]
    /\ UNCHANGED <<shared, due, buffers, sent, rcvd>>

StatsLock(t) ==
    /\ holders = {}
    /\ holders' = {t}
    /\ seen' = [seen EXCEPT ![t] = [stats |-> stats, window |-> window, folded |-> folded]]
    /\ UNCHANGED <<shared, due, buffers, sent, rcvd>>

\* Seeded fault: the window is emptied by subtracting the running total.
TickSubtractsTotal(d) ==
    {d, [d EXCEPT !.window = [to_host |-> d.window.to_host - d.stats.frames_to_host,
                              to_wifi |-> d.window.to_wifi - d.stats.frames_to_wifi]]}

\* rate_tick: less than 500 ms into the window nothing happens, else the window is folded and emptied.
RateTick(d) ==
    {d, [d EXCEPT !.window = Zero.window,
                  !.folded = [w \in Ways |-> d.folded[w] + d.window[w]]]}

StatsUnlock(t, at, d) ==
    /\ t \in holders /\ due[t] = at
    /\ stats' = d.stats /\ window' = d.window /\ folded' = d.folded
    /\ holders' = holders \ {t}
    /\ seen' = [seen EXCEPT ![t] = Zero]
    /\ Owe(t, "idle")

Count(d, c) == [d EXCEPT !.stats[c] = @ + 1]

CountMoved(d, c, w) == [Count(d, c) EXCEPT !.window[w] = @ + 1]

----------------------------------------------------------------------------
(* usb_recv_callback: a frame from the host. *)

UsbRecv ==
    /\ due["usb"] = "idle" /\ "usb" \notin holders
    /\ sent < MaxFrames
    /\ sent' = sent + 1
    /\ Owe("usb", IF wifiUp THEN "tx" ELSE "gated")
    /\ UNCHANGED <<shared, holders, seen, buffers, rcvd>>

\* esp_wifi_internal_tx: the driver takes the frame or refuses it.
InternalTx ==
    /\ due["usb"] = "tx"
    /\ \E r \in {"sent", "refused"} : Owe("usb", r)
    /\ UNCHANGED <<shared, holders, seen, buffers, sent, rcvd>>

UsbEnter == due["usb"] \in {"gated", "sent", "refused"} /\ StatsLock("usb")

UsbLeave ==
    /\ \/ StatsUnlock("usb", "gated", Count(seen["usb"], "drop_tx"))
       \/ \E d \in RateTick(CountMoved(seen["usb"], "frames_to_wifi", "to_wifi")) :
              StatsUnlock("usb", "sent", d)
       \/ \E d \in RateTick(Count(seen["usb"], "drop_tx")) :
              StatsUnlock("usb", "refused", d)
    /\ UNCHANGED <<buffers, sent, rcvd>>

----------------------------------------------------------------------------
(* pkt_wifi2usb: a frame from the access point, in a buffer of the driver,
   while the callback is registered. *)

FreeRx(b) ==
    /\ owner' = [owner EXCEPT ![b] = "driver"]
    /\ freedTwice' = (freedTwice \/ owner[b] = "driver")
    /\ cur' = None

WifiRecv ==
    /\ due["wifi"] = "idle"
    /\ rxcb
    /\ rcvd < MaxFrames
    /\ rcvd' = rcvd + 1
    /\ \E b \in Bufs :
         /\ owner[b] = "driver"
         /\ owner' = [owner EXCEPT ![b] = "bridge"]
         /\ cur' = b
    /\ \E r \in {"reflected", "send"} : Owe("wifi", r)
    /\ UNCHANGED <<shared, holders, seen, freedTwice, sent>>

\* Seeded fault: a frame the USB stack refused is not freed.
SendSyncLeaks ==
    /\ due["wifi"] = "send"
    /\ \/ owner' = [owner EXCEPT ![cur] = "ncm"] /\ Owe("wifi", "delivered")
       \/ Owe("wifi", "busy") /\ UNCHANGED owner
    /\ cur' = None
    /\ UNCHANGED <<shared, holders, seen, freedTwice, sent, rcvd>>

\* tinyusb_net_send_sync: the USB stack takes the buffer over, or fails or times out without it.
SendSync ==
    /\ due["wifi"] = "send"
    /\ \/ /\ owner' = [owner EXCEPT ![cur] = "ncm"]
          /\ cur' = None
          /\ Owe("wifi", "delivered")
          /\ UNCHANGED freedTwice
       \/ /\ FreeRx(cur)
          /\ Owe("wifi", "busy")
    /\ UNCHANGED <<shared, holders, seen, sent, rcvd>>

WifiEnter == due["wifi"] \in {"reflected", "delivered", "busy"} /\ StatsLock("wifi")

\* A reflected frame's buffer is freed after its counter; the others are settled already.
WifiLeave ==
    /\ \/ /\ StatsUnlock("wifi", "reflected", Count(seen["wifi"], "drop_refl"))
          /\ FreeRx(cur)
       \/ /\ StatsUnlock("wifi", "busy", Count(seen["wifi"], "drop_rx"))
          /\ UNCHANGED buffers
       \/ /\ \E d \in RateTick(CountMoved(seen["wifi"], "frames_to_host", "to_host")) :
                  StatsUnlock("wifi", "delivered", d)
          /\ UNCHANGED buffers
    /\ UNCHANGED <<sent, rcvd>>

\* wifi_pkt_free: the USB stack is done with a buffer.
WifiPktFree ==
    /\ \E b \in Bufs : owner[b] = "ncm" /\ owner' = [owner EXCEPT ![b] = "driver"]
    /\ UNCHANGED <<shared, holders, due, seen, cur, freedTwice, sent, rcvd>>

----------------------------------------------------------------------------
(* bridge_get_stats, bridge_reset_stats *)

GetStatsEnter(t) == StatsLock(t)

GetStatsLeave(t) ==
    /\ \E d \in RateTick(seen[t]) : StatsUnlock(t, "idle", d)
    /\ UNCHANGED <<buffers, sent, rcvd>>

\* The console runs in the TinyUSB task, so no host frame is in progress; a received one may be.
ResetEnter == due["usb"] = "idle" /\ StatsLock("usb")

\* Seeded fault: the open windows survive the reset.
ResetKeepsWindow ==
    /\ StatsUnlock("usb", "idle", [Zero EXCEPT !.window = seen["usb"].window])
    /\ sent' = 0
    /\ rcvd' = IF due["wifi"] = "idle" THEN 0 ELSE 1
    /\ UNCHANGED buffers

ResetLeave ==
    /\ StatsUnlock("usb", "idle", Zero)
    /\ sent' = 0
    /\ rcvd' = IF due["wifi"] = "idle" THEN 0 ELSE 1
    /\ UNCHANGED buffers

Init ==
    /\ LinkInit
    /\ stats = Zero.stats /\ window = Zero.window /\ folded = Zero.folded
    /\ holders = {}
    /\ due = [t \in Users |-> "idle"]
    /\ seen = [t \in Users |-> Zero]
    /\ owner = [b \in Bufs |-> "driver"] /\ cur = None /\ freedTwice = FALSE
    /\ sent = 0 /\ rcvd = 0

Usb == UsbRecv \/ InternalTx \/ UsbEnter \/ UsbLeave

Wifi == WifiRecv \/ SendSync \/ WifiEnter \/ WifiLeave \/ WifiPktFree

GetStats(t) == GetStatsEnter(t) \/ GetStatsLeave(t)

ResetStats == ResetEnter \/ ResetLeave

DataNext == Usb \/ Wifi \/ ResetStats \/ \E t \in Readers : GetStats(t)

\* The two sides share s_wifi_up and the callback's registration: the control side writes them, the
\* data side reads them.
Next ==
    \/ DataNext /\ UNCHANGED linkVars
    \/ LinkNext /\ UNCHANGED dataVars

Spec == Init /\ [][Next]_vars

----------------------------------------------------------------------------
(* Properties *)

TypeOK ==
    /\ LinkTypeOK
    /\ stats \in [Counters -> Nat]
    /\ window \in [Ways -> Nat] /\ folded \in [Ways -> Nat]
    /\ holders \subseteq Users
    /\ due \in [Users -> {"idle", "tx", "gated", "sent", "refused", "send", "reflected", "delivered", "busy"}]
    /\ seen \in [Users -> Data]
    /\ owner \in [Bufs -> {"driver", "bridge", "ncm"}]
    /\ cur \in Bufs \cup {None}
    /\ freedTwice \in BOOLEAN
    /\ sent \in 0..MaxFrames /\ rcvd \in 0..MaxFrames

InProgress(t) == IF due[t] = "idle" THEN 0 ELSE 1

\* Every frame since the last reset is counted exactly once, as moved or as one kind of drop, whatever
\* gate flips, refusals, timeouts and concurrent readers and resets there were.
FramesAccounted ==
    /\ sent = stats["frames_to_wifi"] + stats["drop_tx"] + InProgress("usb")
    /\ rcvd = stats["frames_to_host"] + stats["drop_refl"] + stats["drop_rx"] + InProgress("wifi")

\* The rate windows neither lose nor repeat a frame: what was folded into the rates plus the open
\* window is what the counter shows, at every moment another task can look.
WindowsAccounted ==
    /\ folded["to_wifi"] + window["to_wifi"] = stats["frames_to_wifi"]
    /\ folded["to_host"] + window["to_host"] = stats["frames_to_host"]

\* Each receive buffer is given back exactly once: the callback frees what it did not hand to the USB
\* stack, never what it did, and between calls it holds none.
BuffersConserved ==
    /\ ~freedTwice
    /\ {b \in Bufs : owner[b] = "bridge"} = {cur} \ {None}
    /\ due["wifi"] = "idle" => cur = None

----------------------------------------------------------------------------
(* Why the properties hold. *)

\* The mutex excludes, and what its holder read is what the shared state still is.
Locked ==
    /\ \A s, t \in holders : s = t
    /\ \A t \in holders : seen[t] = [stats |-> stats, window |-> window, folded |-> folded]

\* What a task still has to count is an outcome of its own callback, and is settled before it locks.
DueOK ==
    /\ due["usb"] \in {"idle", "tx", "gated", "sent", "refused"}
    /\ due["wifi"] \in {"idle", "send", "reflected", "delivered", "busy"}
    /\ \A t \in Readers : due[t] = "idle"
    /\ "usb" \in holders => due["usb"] # "tx"
    /\ "wifi" \in holders => due["wifi"] \in {"reflected", "delivered", "busy"}

\* pkt_wifi2usb holds a buffer exactly while it has neither handed it over nor freed it.
CurOK == cur # None <=> due["wifi"] \in {"send", "reflected"}

\* The strengthening that every step preserves.
DataInv ==
    /\ TypeOK
    /\ Locked /\ DueOK /\ CurOK
    /\ FramesAccounted /\ WindowsAccounted /\ BuffersConserved
================================================================================
