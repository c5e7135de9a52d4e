----------------------------- MODULE BridgeProofs ------------------------------
(***************************************************************************)
(* Proofs about the bridge, for any tasks that close it: a race between    *)
(* calls of bridge_set_wifi_up is undone by the next down and the next up  *)
(* that run alone; and, for any tasks that read statistics, any receive    *)
(* buffers and any bound on the frames, the accounts and the buffers are   *)
(* right whatever those calls do.                                          *)
(***************************************************************************)
EXTENDS BridgeData, TLAPS

----------------------------------------------------------------------------
(* The control side (BridgeLink). *)

\* bridge_init leaves the bridge closed and no call under way.
LEMMA LinkInitInv == LinkInit => LinkInv
<1> SUFFICES ASSUME LinkInit
             PROVE  LinkInv
  OBVIOUS
<1>1. LinkTypeOK
  <2>1. wifiUp \in BOOLEAN /\ rxcb \in BOOLEAN /\ link \in BOOLEAN /\ overlap \in BOOLEAN
    BY DEF LinkInit
  <2>2. /\ pc \in [Setters -> {"idle", "rxcb", "link", "flag"}]
        /\ arg \in [Setters -> BOOLEAN]
        /\ calm \in {"dirty", "down", "cycled"}
    BY Zenon DEF LinkInit
  <2> QED BY <2>1, <2>2 DEF LinkTypeOK
<1>2. \A t \in Setters : pc[t] = "idle"
  BY DEF LinkInit
<1>3. SoloCallsHeal /\ overlap = FALSE
  BY DEF LinkInit, SoloCallsHeal
<1> QED BY <1>1, <1>2, <1>3 DEF LinkInv, SoloProgress

\* The four steps of a call.
LEMMA LinkStepInv == LinkInv /\ [LinkNext]_linkVars => LinkInv'
<1> SUFFICES ASSUME LinkInv, [LinkNext]_linkVars
             PROVE  LinkInv'
  OBVIOUS
<1> USE DEF LinkInv, LinkTypeOK
<1>1. ASSUME NEW t \in Setters, NEW up \in BOOLEAN, Begin(t, up) PROVE LinkInv'
  <2>1. LinkTypeOK'
    BY <1>1 DEF Begin, NoteBegin, Goto, AllIdle
  <2>2. pc'[t] # "idle" /\ ~AllIdle'
    BY <1>1 DEF Begin, Goto, AllIdle
  <2>3. ~overlap' => \A s \in Setters : s # t => pc[s] = "idle" /\ pc'[s] = "idle"
    BY <1>1 DEF Begin, Goto, NoteBegin, AllIdle
  <2>4. ~overlap' => SoloProgress(t)'
    BY <1>1 DEF Begin, Goto, NoteBegin, AllIdle, SoloProgress, SoloCallsHeal
  <2>5. ~overlap' => \A s \in Setters : SoloProgress(s)'
    BY <2>3, <2>4 DEF SoloProgress
  <2> QED BY <2>1, <2>2, <2>3, <2>5 DEF SoloCallsHeal
<1>2. ASSUME NEW t \in Setters, SetRxcb(t) PROVE LinkInv'
  <2>1. LinkTypeOK' /\ ~AllIdle'
    BY <1>2 DEF SetRxcb, Goto, AllIdle
  <2>2. ~overlap' => \A s \in Setters : s # t => pc[s] = "idle" /\ pc'[s] = "idle"
    BY <1>2 DEF SetRxcb, Goto
  <2>3. SoloProgress(t)'
    BY <1>2 DEF SetRxcb, Goto, SoloProgress
  <2> QED BY <2>1, <2>2, <2>3 DEF SoloCallsHeal, SoloProgress
<1>3. ASSUME NEW t \in Setters, SetLink(t) PROVE LinkInv'
  <2>1. LinkTypeOK' /\ ~AllIdle'
    BY <1>3 DEF SetLink, Goto, AllIdle
  <2>2. ~overlap' => \A s \in Setters : s # t => pc[s] = "idle" /\ pc'[s] = "idle"
    BY <1>3 DEF SetLink, Goto
  <2>3. ~overlap' => SoloProgress(t)'
    BY <1>3 DEF SetLink, Goto, SoloProgress
  <2> QED BY <2>1, <2>2, <2>3 DEF SoloCallsHeal, SoloProgress
<1>4. ASSUME NEW t \in Setters, SetFlag(t) PROVE LinkInv'
  <2>1. LinkTypeOK'
    BY <1>4 DEF SetFlag, Goto, NoteEnd
  <2>2. ~overlap' => AllIdle' /\ \A s \in Setters : pc'[s] = "idle"
    BY <1>4 DEF SetFlag, Goto, NoteEnd, AllIdle
  <2>3. overlap' => calm' = "dirty"
    BY <1>4 DEF SetFlag, NoteEnd
  <2>4. ~overlap => SoloProgress(t)
    BY <1>4
  <2>5. SoloCallsHeal'
    BY <1>4, <2>3, <2>4 DEF SetFlag, NoteEnd, SoloProgress, SoloCallsHeal
  <2> QED BY <2>1, <2>2, <2>3, <2>5 DEF SoloProgress
<1>5. CASE UNCHANGED linkVars
  BY <1>5 DEF linkVars, AllIdle, SoloCallsHeal, SoloProgress
<1> QED BY <1>1, <1>2, <1>3, <1>4, <1>5 DEF LinkNext, CallStep

\* The state of a call stays within the labels and values of the code.
THEOREM LinkTypeCorrect == LinkSpec => []LinkTypeOK
<1>1. LinkInv => LinkTypeOK
  BY DEF LinkInv
<1> QED BY LinkInitInv, LinkStepInv, <1>1, PTL DEF LinkSpec

\* With any number of tasks closing the bridge, a down and then an up that overlap nothing bring link,
\* gate and callback back into agreement.
THEOREM RacesHeal == LinkSpec => []SoloCallsHeal
<1>1. LinkInv => SoloCallsHeal
  BY DEF LinkInv
<1> QED BY LinkInitInv, LinkStepInv, <1>1, PTL DEF LinkSpec

----------------------------------------------------------------------------
(* The data side, over the control side. *)

\* WindowsAccounted of one record.
Balanced(d) ==
    /\ d.folded["to_wifi"] + d.window["to_wifi"] = d.stats["frames_to_wifi"]
    /\ d.folded["to_host"] + d.window["to_host"] = d.stats["frames_to_host"]

Shared == [stats |-> stats, window |-> window, folded |-> folded]

\* An emptied record balances.
LEMMA ZeroBalanced == Zero \in Data /\ Balanced(Zero) /\ \A c \in Counters : Zero.stats[c] = 0
  BY DEF Zero, Data, Balanced, Counters, Ways

\* rate_tick moves window bytes into the sums and leaves the counters alone.
LEMMA TickKeeps ==
    ASSUME NEW d \in Data, Balanced(d), NEW e \in RateTick(d)
    PROVE  e \in Data /\ Balanced(e) /\ e.stats = d.stats
<1>1. CASE e = d
  BY <1>1
<1>2. CASE e = [d EXCEPT !.window = Zero.window, !.folded = [w \in Ways |-> d.folded[w] + d.window[w]]]
  <2>1. /\ e.stats = d.stats
        /\ e.window = [w \in Ways |-> 0]
        /\ e.folded = [w \in Ways |-> d.folded[w] + d.window[w]]
        /\ e = [stats |-> e.stats, window |-> e.window, folded |-> e.folded]
    BY <1>2 DEF Data, Zero
  <2>2. e \in Data
    BY <2>1 DEF Data, Ways
  <2>3. Balanced(e)
    BY <2>1 DEF Balanced, Data, Ways, Counters
  <2> QED BY <2>1, <2>2, <2>3
<1> QED BY <1>1, <1>2 DEF RateTick

\* Counting a drop adds one to its counter.
LEMMA CountAdds ==
    ASSUME NEW d \in Data, NEW c \in Counters
    PROVE  /\ Count(d, c) \in Data
           /\ Count(d, c).window = d.window /\ Count(d, c).folded = d.folded
           /\ \A k \in Counters : Count(d, c).stats[k] = IF k = c THEN d.stats[k] + 1 ELSE d.stats[k]
  BY DEF Count, Data

\* Counting a moved frame adds one to its counter and to its window.
LEMMA CountMovedAdds ==
    ASSUME NEW d \in Data, NEW c \in Counters, NEW w \in Ways
    PROVE  /\ CountMoved(d, c, w) \in Data
           /\ CountMoved(d, c, w).folded = d.folded
           /\ \A v \in Ways : CountMoved(d, c, w).window[v] = IF v = w THEN d.window[v] + 1 ELSE d.window[v]
           /\ \A k \in Counters : CountMoved(d, c, w).stats[k] = IF k = c THEN d.stats[k] + 1 ELSE d.stats[k]
<1>1. PICK e \in Data :
        /\ e = Count(d, c) /\ e.window = d.window /\ e.folded = d.folded
        /\ \A k \in Counters : e.stats[k] = IF k = c THEN d.stats[k] + 1 ELSE d.stats[k]
  BY CountAdds
<1>2. CountMoved(d, c, w) = [e EXCEPT !.window[w] = @ + 1]
  BY <1>1 DEF CountMoved
<1>3. /\ CountMoved(d, c, w) \in Data
      /\ CountMoved(d, c, w).folded = e.folded /\ CountMoved(d, c, w).stats = e.stats
      /\ \A v \in Ways : CountMoved(d, c, w).window[v] = IF v = w THEN e.window[v] + 1 ELSE e.window[v]
  BY <1>2 DEF Data
<1> QED BY <1>1, <1>3

\* Counting a drop keeps the balance.
LEMMA DropBalanced ==
    ASSUME NEW d \in Data, Balanced(d), NEW c \in {"drop_tx", "drop_rx", "drop_refl"}
    PROVE  \E e \in Data :
             /\ e = Count(d, c) /\ Balanced(e)
             /\ \A k \in Counters : e.stats[k] = IF k = c THEN d.stats[k] + 1 ELSE d.stats[k]
<1>1. PICK e \in Data :
        /\ e = Count(d, c) /\ e.window = d.window /\ e.folded = d.folded
        /\ \A k \in Counters : e.stats[k] = IF k = c THEN d.stats[k] + 1 ELSE d.stats[k]
  BY CountAdds DEF Counters
<1>2. Balanced(e)
  BY <1>1 DEF Balanced, Counters
<1> QED BY <1>1, <1>2

\* Counting a frame that moved keeps the balance.
LEMMA MovedBalanced ==
    ASSUME NEW d \in Data, Balanced(d),
           NEW w \in Ways, NEW c \in Counters,
           c = IF w = "to_wifi" THEN "frames_to_wifi" ELSE "frames_to_host"
    PROVE  \E e \in Data :
             /\ e = CountMoved(d, c, w) /\ Balanced(e)
             /\ \A k \in Counters : e.stats[k] = IF k = c THEN d.stats[k] + 1 ELSE d.stats[k]
<1>1. PICK e \in Data :
        /\ e = CountMoved(d, c, w) /\ e.folded = d.folded
        /\ \A v \in Ways : e.window[v] = IF v = w THEN d.window[v] + 1 ELSE d.window[v]
        /\ \A k \in Counters : e.stats[k] = IF k = c THEN d.stats[k] + 1 ELSE d.stats[k]
  BY CountMovedAdds
<1>2. /\ \A v \in Ways : d.folded[v] \in Nat /\ d.window[v] \in Nat
      /\ \A k \in Counters : d.stats[k] \in Nat
  BY DEF Data
<1>3. Balanced(e)
  BY <1>1, <1>2 DEF Balanced, Counters, Ways
<1> QED BY <1>1, <1>3

\* bridge_init leaves everything at zero and every buffer with the driver.
LEMMA DataInitInv == Init => DataInv /\ TypeOK
<1> SUFFICES ASSUME Init PROVE DataInv /\ TypeOK
  OBVIOUS
<1>1. LinkTypeOK
  <2>1. pc \in [Setters -> {"idle", "rxcb", "link", "flag"}] /\ arg \in [Setters -> BOOLEAN]
    BY Zenon DEF Init, LinkInit
  <2> QED BY <2>1 DEF Init, LinkInit, LinkTypeOK
<1>2. TypeOK
  <2>1. Zero.stats \in [Counters -> Nat] /\ Zero.window \in [Ways -> Nat] /\ Zero.folded \in [Ways -> Nat]
    BY ZeroBalanced DEF Data
  <2>2. due \in [Users -> {"idle", "tx", "gated", "sent", "refused", "send", "reflected", "delivered", "busy"}]
    BY Zenon DEF Init
  <2>3. owner \in [Bufs -> {"driver", "bridge", "ncm"}]
    BY Zenon DEF Init
  <2>4. seen \in [Users -> Data]
    BY Zenon, ZeroBalanced DEF Init
  <2>5. sent \in 0..MaxFrames /\ rcvd \in 0..MaxFrames
    BY DataAssumption DEF Init
  <2> QED BY <1>1, <2>1, <2>2, <2>3, <2>4, <2>5 DEF Init, TypeOK
<1>3. Locked /\ DueOK /\ CurOK
  BY DataAssumption DEF Init, Locked, DueOK, CurOK, Users
<1>4. FramesAccounted /\ WindowsAccounted
  BY ZeroBalanced DEF Init, FramesAccounted, WindowsAccounted, InProgress, Users, Zero, Counters, Ways
<1>5. BuffersConserved
  BY DEF Init, BuffersConserved
<1> QED BY <1>2, <1>3, <1>4, <1>5 DEF DataInv

\* Taking the mutex changes none of the accounts; the task then knows the shared state.
LEMMA LockStep ==
    ASSUME DataInv, NEW t \in Users, StatsLock(t), UNCHANGED linkVars,
           t = "usb" => due[t] # "tx",
           t = "wifi" => due[t] \in {"reflected", "delivered", "busy"}
    PROVE  DataInv'
<1> USE DEF DataInv, StatsLock, shared, buffers, linkVars
<1>1. TypeOK'
  <2>1. Shared \in Data
    BY DEF TypeOK, Data, Shared
  <2>2. seen' \in [Users -> Data]
    BY <2>1 DEF TypeOK, Shared
  <2>3. LinkTypeOK'
    BY DEF TypeOK, LinkTypeOK
  <2> QED BY <2>2, <2>3 DEF TypeOK
<1>2. Locked'
  BY DEF Locked, TypeOK
<1>3. DueOK'
  BY DEF DueOK, TypeOK
<1>4. CurOK' /\ FramesAccounted' /\ WindowsAccounted' /\ BuffersConserved'
  BY DEF CurOK, FramesAccounted, WindowsAccounted, BuffersConserved, InProgress
<1> QED BY <1>1, <1>2, <1>3, <1>4

\* Giving up the mutex with a record that is typed and balanced keeps everything but the frame accounts,
\* which depend on what was counted.
LEMMA UnlockStep ==
    ASSUME DataInv, NEW t \in Users, NEW at, NEW d \in Data, Balanced(d), StatsUnlock(t, at, d)
    PROVE  /\ t \in holders /\ due[t] = at
           /\ seen[t] = Shared /\ seen[t] \in Data /\ Balanced(seen[t])
           /\ holders' = {} /\ due' = [due EXCEPT ![t] = "idle"]
           /\ stats' = d.stats /\ stats' \in [Counters -> Nat]
           /\ window' \in [Ways -> Nat] /\ folded' \in [Ways -> Nat]
           /\ seen' \in [Users -> Data]
           /\ Locked' /\ DueOK' /\ WindowsAccounted'
<1> USE DEF DataInv, StatsUnlock, Owe
<1>1. t \in holders /\ due[t] = at /\ seen[t] = Shared
  BY DEF Locked, Shared
<1>2. seen[t] \in Data /\ Balanced(seen[t])
  <2>1. seen[t] \in Data
    BY DEF TypeOK
  <2> QED BY <1>1, <2>1 DEF Shared, Balanced, WindowsAccounted
<1>3. holders' = {} /\ due' = [due EXCEPT ![t] = "idle"]
  BY <1>1 DEF Locked
<1>4. /\ stats' = d.stats /\ stats' \in [Counters -> Nat]
      /\ window' = d.window /\ window' \in [Ways -> Nat]
      /\ folded' = d.folded /\ folded' \in [Ways -> Nat]
  BY DEF Data
<1>5. seen' \in [Users -> Data]
  BY ZeroBalanced DEF TypeOK
<1>6. Locked'
  BY <1>3 DEF Locked
<1>7. DueOK'
  BY <1>3 DEF DueOK, TypeOK
<1>8. WindowsAccounted'
  BY <1>4 DEF WindowsAccounted, Balanced
<1> QED BY <1>1, <1>2, <1>3, <1>4, <1>5, <1>6, <1>7, <1>8

\* usb_recv_callback.
LEMMA UsbInv == DataInv /\ Usb /\ UNCHANGED linkVars => DataInv'
<1> SUFFICES ASSUME DataInv, Usb, UNCHANGED linkVars PROVE DataInv'
  OBVIOUS
<1> USE DEF DataInv, linkVars, shared, buffers
<1>0. "usb" \in Users /\ "wifi" \in Users /\ LinkTypeOK'
  BY DEF Users, TypeOK, LinkTypeOK
<1>1. CASE UsbRecv
  <2>1. TypeOK'
    BY <1>0, <1>1, DataAssumption DEF UsbRecv, Owe, TypeOK
  <2>2. Locked' /\ DueOK' /\ CurOK' /\ BuffersConserved'
    BY <1>0, <1>1, DataAssumption DEF UsbRecv, Owe, Locked, DueOK, CurOK, BuffersConserved, TypeOK, Users
  <2>3. FramesAccounted' /\ WindowsAccounted'
    BY <1>0, <1>1 DEF UsbRecv, Owe, FramesAccounted, WindowsAccounted, InProgress, TypeOK, Counters
  <2> QED BY <2>1, <2>2, <2>3
<1>2. CASE InternalTx
  <2>1. TypeOK'
    BY <1>0, <1>2, DataAssumption DEF InternalTx, Owe, TypeOK
  <2>2. Locked' /\ DueOK' /\ CurOK' /\ BuffersConserved'
    BY <1>0, <1>2, DataAssumption DEF InternalTx, Owe, Locked, DueOK, CurOK, BuffersConserved, TypeOK, Users
  <2>3. FramesAccounted' /\ WindowsAccounted'
    BY <1>0, <1>2 DEF InternalTx, Owe, FramesAccounted, WindowsAccounted, InProgress, TypeOK
  <2> QED BY <2>1, <2>2, <2>3
<1>3. CASE UsbEnter
  BY <1>0, <1>3, LockStep DEF UsbEnter
<1>4. CASE UsbLeave
  <2>1. PICK d \in Data :
          /\ Balanced(d)
          /\ \/ StatsUnlock("usb", "sent", d)
             \/ StatsUnlock("usb", "refused", d)
             \/ StatsUnlock("usb", "gated", d)
          /\ d.stats["frames_to_wifi"] + d.stats["drop_tx"] = stats["frames_to_wifi"] + stats["drop_tx"] + 1
          /\ \A c \in {"frames_to_host", "drop_rx", "drop_refl"} : d.stats[c] = stats[c]
    <3>1. "usb" \in holders /\ seen["usb"] = Shared /\ seen["usb"] \in Data /\ Balanced(seen["usb"])
      BY <1>0, <1>4 DEF UsbLeave, StatsUnlock, Locked, Shared, Balanced, WindowsAccounted, TypeOK
    <3>2. \A c \in Counters : seen["usb"].stats[c] = stats[c] /\ stats[c] \in Nat
      BY <3>1 DEF Shared, Data
    <3>3. PICK dropped \in Data :
            /\ dropped = Count(seen["usb"], "drop_tx") /\ Balanced(dropped)
            /\ \A k \in Counters : dropped.stats[k] = IF k = "drop_tx" THEN stats[k] + 1 ELSE stats[k]
      BY <3>1, <3>2, DropBalanced
    <3>4. PICK moved \in Data :
            /\ moved = CountMoved(seen["usb"], "frames_to_wifi", "to_wifi") /\ Balanced(moved)
            /\ \A k \in Counters : moved.stats[k] = IF k = "frames_to_wifi" THEN stats[k] + 1 ELSE stats[k]
      BY <3>1, <3>2, MovedBalanced DEF Counters, Ways
    <3>5. CASE StatsUnlock("usb", "gated", dropped)
      BY <3>2, <3>3, <3>5 DEF Counters
    <3>6. CASE \E d \in RateTick(moved) : StatsUnlock("usb", "sent", d)
      BY <3>2, <3>4, <3>6, TickKeeps DEF Counters
    <3>7. CASE \E d \in RateTick(dropped) : StatsUnlock("usb", "refused", d)
      BY <3>2, <3>3, <3>7, TickKeeps DEF Counters
    <3> QED BY <1>4, <3>3, <3>4, <3>5, <3>6, <3>7 DEF UsbLeave
  <2>2. /\ due["usb"] # "idle" /\ due' = [due EXCEPT !["usb"] = "idle"] /\ holders' = {}
        /\ stats' = d.stats /\ stats' \in [Counters -> Nat] /\ window' \in [Ways -> Nat] /\ folded' \in [Ways -> Nat]
        /\ seen' \in [Users -> Data] /\ Locked' /\ DueOK' /\ WindowsAccounted'
    BY <1>0, <2>1, UnlockStep
  <2>3. UNCHANGED <<owner, cur, freedTwice, sent, rcvd>>
    BY <1>4 DEF UsbLeave
  <2>4. TypeOK'
    BY <1>0, <2>2, <2>3 DEF TypeOK
  <2>5. FramesAccounted'
    BY <1>0, <2>1, <2>2, <2>3 DEF FramesAccounted, InProgress, TypeOK, Counters
  <2>6. CurOK' /\ BuffersConserved'
    BY <1>0, <2>2, <2>3, DataAssumption DEF CurOK, BuffersConserved, TypeOK
  <2> QED BY <2>2, <2>4, <2>5, <2>6
<1> QED BY <1>1, <1>2, <1>3, <1>4 DEF Usb

\* pkt_wifi2usb and wifi_pkt_free.
LEMMA WifiInv == DataInv /\ Wifi /\ UNCHANGED linkVars => DataInv'
<1> SUFFICES ASSUME DataInv, Wifi, UNCHANGED linkVars PROVE DataInv'
  OBVIOUS
<1> USE DEF DataInv, linkVars, shared
<1>0. "usb" \in Users /\ "wifi" \in Users /\ LinkTypeOK'
  BY DEF Users, TypeOK, LinkTypeOK
<1>1. CASE WifiRecv
  <2>1. TypeOK'
    BY <1>0, <1>1, DataAssumption DEF WifiRecv, Owe, TypeOK
  <2>2. Locked' /\ DueOK' /\ CurOK' /\ BuffersConserved'
    BY <1>0, <1>1, DataAssumption DEF WifiRecv, Owe, Locked, DueOK, CurOK, BuffersConserved, TypeOK, Users
  <2>3. FramesAccounted' /\ WindowsAccounted'
    BY <1>0, <1>1 DEF WifiRecv, Owe, FramesAccounted, WindowsAccounted, InProgress, TypeOK, Counters
  <2> QED BY <2>1, <2>2, <2>3
<1>2. CASE SendSync
  <2>0. cur \in Bufs /\ owner[cur] = "bridge"
    BY <1>2 DEF SendSync, CurOK, TypeOK, BuffersConserved
  <2>1. TypeOK'
    BY <1>0, <1>2, <2>0 DEF SendSync, FreeRx, Owe, TypeOK
  <2>2. Locked' /\ DueOK'
    <3>1. /\ due["wifi"] = "send" /\ due'["wifi"] \in {"delivered", "busy"}
          /\ \A t \in Users : t # "wifi" => due'[t] = due[t]
          /\ UNCHANGED <<stats, window, folded, holders, seen>>
      BY <1>0, <1>2 DEF SendSync, Owe, TypeOK
    <3> QED BY <1>0, <3>1, DataAssumption DEF Locked, DueOK, Users
  <2>3. CurOK' /\ BuffersConserved'
    BY <1>0, <1>2, <2>0, DataAssumption DEF SendSync, FreeRx, Owe, CurOK, BuffersConserved, TypeOK
  <2>4. FramesAccounted' /\ WindowsAccounted'
    BY <1>0, <1>2 DEF SendSync, Owe, FramesAccounted, WindowsAccounted, InProgress, TypeOK
  <2> QED BY <2>1, <2>2, <2>3, <2>4
<1>3. CASE WifiEnter
  BY <1>0, <1>3, LockStep DEF WifiEnter
<1>4. CASE WifiLeave
  <2>1. PICK d \in Data, at \in {"reflected", "busy", "delivered"} :
          /\ Balanced(d)
          /\ StatsUnlock("wifi", at, d)
          /\ d.stats["frames_to_host"] + d.stats["drop_refl"] + d.stats["drop_rx"]
               = stats["frames_to_host"] + stats["drop_refl"] + stats["drop_rx"] + 1
          /\ \A c \in {"frames_to_wifi", "drop_tx"} : d.stats[c] = stats[c]
          /\ IF at = "reflected" THEN FreeRx(cur) ELSE UNCHANGED buffers
    <3>1. "wifi" \in holders /\ seen["wifi"] = Shared /\ seen["wifi"] \in Data /\ Balanced(seen["wifi"])
      BY <1>0, <1>4 DEF WifiLeave, StatsUnlock, Locked, Shared, Balanced, WindowsAccounted, TypeOK
    <3>2. \A c \in Counters : seen["wifi"].stats[c] = stats[c] /\ stats[c] \in Nat
      BY <3>1 DEF Shared, Data
    <3>3. PICK refl \in Data :
            /\ refl = Count(seen["wifi"], "drop_refl") /\ Balanced(refl)
            /\ \A k \in Counters : refl.stats[k] = IF k = "drop_refl" THEN stats[k] + 1 ELSE stats[k]
      BY <3>1, <3>2, DropBalanced
    <3>4. PICK busy \in Data :
            /\ busy = Count(seen["wifi"], "drop_rx") /\ Balanced(busy)
            /\ \A k \in Counters : busy.stats[k] = IF k = "drop_rx" THEN stats[k] + 1 ELSE stats[k]
      BY <3>1, <3>2, DropBalanced
    <3>5. PICK moved \in Data :
            /\ moved = CountMoved(seen["wifi"], "frames_to_host", "to_host") /\ Balanced(moved)
            /\ \A k \in Counters : moved.stats[k] = IF k = "frames_to_host" THEN stats[k] + 1 ELSE stats[k]
      BY <3>1, <3>2, MovedBalanced DEF Counters, Ways
    <3>6. CASE StatsUnlock("wifi", "reflected", refl) /\ FreeRx(cur)
      BY <3>2, <3>3, <3>6 DEF Counters
    <3>7. CASE StatsUnlock("wifi", "busy", busy) /\ UNCHANGED buffers
      BY <3>2, <3>4, <3>7 DEF Counters
    <3>8. CASE (\E d \in RateTick(moved) : StatsUnlock("wifi", "delivered", d)) /\ UNCHANGED buffers
      BY <3>2, <3>5, <3>8, TickKeeps DEF Counters
    <3> QED BY <1>4, <3>3, <3>4, <3>5, <3>6, <3>7, <3>8 DEF WifiLeave
  <2>2. /\ due["wifi"] = at /\ due' = [due EXCEPT !["wifi"] = "idle"] /\ holders' = {}
        /\ stats' = d.stats /\ stats' \in [Counters -> Nat] /\ window' \in [Ways -> Nat] /\ folded' \in [Ways -> Nat]
        /\ seen' \in [Users -> Data] /\ Locked' /\ DueOK' /\ WindowsAccounted'
    BY <1>0, <2>1, UnlockStep
  <2>3. UNCHANGED <<sent, rcvd>>
    BY <1>4 DEF WifiLeave
  <2>4. CurOK' /\ BuffersConserved' /\ owner' \in [Bufs -> {"driver", "bridge", "ncm"}]
        /\ cur' \in Bufs \cup {None} /\ freedTwice' \in BOOLEAN
    <3>1. CASE at = "reflected"
      BY <1>0, <2>1, <2>2, <3>1, DataAssumption DEF FreeRx, CurOK, BuffersConserved, TypeOK
    <3>2. CASE at # "reflected"
      BY <1>0, <2>1, <2>2, <3>2, DataAssumption DEF buffers, CurOK, BuffersConserved, TypeOK
    <3> QED BY <3>1, <3>2
  <2>5. TypeOK'
    BY <1>0, <2>2, <2>3, <2>4 DEF TypeOK
  <2>6. FramesAccounted'
    BY <1>0, <2>1, <2>2, <2>3 DEF FramesAccounted, InProgress, TypeOK, Counters
  <2> QED BY <2>2, <2>4, <2>5, <2>6
<1>5. CASE WifiPktFree
  <2>1. TypeOK' /\ Locked' /\ DueOK' /\ CurOK'
    BY <1>0, <1>5 DEF WifiPktFree, TypeOK, Locked, DueOK, CurOK
  <2>2. BuffersConserved'
    BY <1>5 DEF WifiPktFree, BuffersConserved, TypeOK
  <2>3. FramesAccounted' /\ WindowsAccounted'
    BY <1>5 DEF WifiPktFree, FramesAccounted, WindowsAccounted, InProgress
  <2> QED BY <2>1, <2>2, <2>3
<1> QED BY <1>1, <1>2, <1>3, <1>4, <1>5 DEF Wifi

\* bridge_get_stats.
LEMMA GetStatsInv ==
    ASSUME DataInv, NEW t \in Readers, GetStats(t), UNCHANGED linkVars
    PROVE  DataInv'
<1> USE DEF DataInv, linkVars, shared, buffers
<1>0. t \in Users /\ t # "usb" /\ t # "wifi" /\ LinkTypeOK'
  BY DataAssumption DEF Users, TypeOK, LinkTypeOK
<1>1. CASE GetStatsEnter(t)
  BY <1>0, <1>1, LockStep DEF GetStatsEnter
<1>2. CASE GetStatsLeave(t)
  <2>1. seen[t] = Shared /\ seen[t] \in Data /\ Balanced(seen[t])
    BY <1>0, <1>2 DEF GetStatsLeave, StatsUnlock, Locked, Shared, Balanced, WindowsAccounted, TypeOK
  <2>2. PICK d \in Data : Balanced(d) /\ d.stats = stats /\ StatsUnlock(t, "idle", d)
    BY <1>2, <2>1, TickKeeps DEF GetStatsLeave, Shared
  <2>3. /\ due[t] = "idle" /\ due' = [due EXCEPT ![t] = "idle"] /\ holders' = {}
        /\ stats' = d.stats /\ stats' \in [Counters -> Nat] /\ window' \in [Ways -> Nat] /\ folded' \in [Ways -> Nat]
        /\ seen' \in [Users -> Data] /\ Locked' /\ DueOK' /\ WindowsAccounted'
    BY <1>0, <2>2, UnlockStep
  <2>4. UNCHANGED <<owner, cur, freedTwice, sent, rcvd, stats>> /\ due' = due
    BY <1>0, <1>2, <2>2, <2>3 DEF GetStatsLeave, TypeOK
  <2>5. TypeOK'
    BY <1>0, <2>3, <2>4 DEF TypeOK
  <2>6. FramesAccounted' /\ CurOK' /\ BuffersConserved'
    BY <2>4 DEF FramesAccounted, InProgress, CurOK, BuffersConserved
  <2> QED BY <2>3, <2>5, <2>6
<1> QED BY <1>1, <1>2 DEF GetStats

\* bridge_reset_stats: the accounts start again, a received frame in progress included.
LEMMA ResetInv == DataInv /\ ResetStats /\ UNCHANGED linkVars => DataInv'
<1> SUFFICES ASSUME DataInv, ResetStats, UNCHANGED linkVars PROVE DataInv'
  OBVIOUS
<1> USE DEF DataInv, linkVars, shared, buffers
<1>0. "usb" \in Users /\ "wifi" \in Users /\ LinkTypeOK'
  BY DEF Users, TypeOK, LinkTypeOK
<1>1. CASE ResetEnter
  BY <1>0, <1>1, LockStep DEF ResetEnter
<1>2. CASE ResetLeave
  <2>1. /\ due["usb"] = "idle" /\ due' = [due EXCEPT !["usb"] = "idle"] /\ holders' = {}
        /\ stats' = Zero.stats /\ stats' \in [Counters -> Nat] /\ window' \in [Ways -> Nat] /\ folded' \in [Ways -> Nat]
        /\ seen' \in [Users -> Data] /\ Locked' /\ DueOK' /\ WindowsAccounted'
    BY <1>0, <1>2, ZeroBalanced, UnlockStep DEF ResetLeave
  <2>2. due' = due /\ UNCHANGED buffers
    BY <1>0, <1>2, <2>1 DEF ResetLeave, TypeOK
  <2>3. sent' = 0 /\ rcvd' = IF due["wifi"] = "idle" THEN 0 ELSE 1
    BY <1>2 DEF ResetLeave
  <2>4. TypeOK'
    BY <1>0, <2>1, <2>2, <2>3, DataAssumption DEF TypeOK
  <2>5. FramesAccounted'
    BY <2>1, <2>2, <2>3, ZeroBalanced DEF FramesAccounted, InProgress, Counters
  <2>6. CurOK' /\ BuffersConserved'
    BY <2>2 DEF CurOK, BuffersConserved
  <2> QED BY <2>1, <2>4, <2>5, <2>6
<1> QED BY <1>1, <1>2 DEF ResetStats

\* Every step of the bridge.
LEMMA DataStepInv == DataInv /\ LinkInv /\ [Next]_vars => DataInv' /\ LinkInv'
<1> SUFFICES ASSUME DataInv, LinkInv, [Next]_vars PROVE DataInv' /\ LinkInv'
  OBVIOUS
<1>1. LinkInv'
  BY LinkStepInv DEF Next, vars
<1>2. CASE DataNext /\ UNCHANGED linkVars
  BY <1>1, <1>2, UsbInv, WifiInv, GetStatsInv, ResetInv DEF DataNext
<1>3. CASE UNCHANGED dataVars
  <2>1. LinkTypeOK'
    BY <1>1 DEF LinkInv
  <2>2. TypeOK'
    BY <1>3, <2>1 DEF dataVars, shared, buffers, DataInv, TypeOK
  <2> QED BY <1>1, <1>3, <2>2 DEF dataVars, shared, buffers, DataInv, Locked, DueOK, CurOK, FramesAccounted,
                            WindowsAccounted, BuffersConserved, InProgress
<1> QED BY <1>1, <1>2, <1>3 DEF Next, vars

\* The bridge as a whole behaves, seen from the control side, as BridgeLink says: no frame disturbs it.
THEOREM ImplementsLink == Spec => LinkSpec
<1>1. Init => LinkInit
  BY DEF Init
<1>2. [Next]_vars => [LinkNext]_linkVars
  BY DEF Next, vars
<1> QED BY <1>1, <1>2, PTL DEF Spec, LinkSpec

\* Both invariants hold in every behaviour.
LEMMA DataInvariant == Spec => [](DataInv /\ LinkInv)
<1>1. Init => DataInv /\ LinkInv
  BY DataInitInv, LinkInitInv DEF Init
<1> QED BY <1>1, DataStepInv, PTL DEF Spec

\* The state of the bridge stays within the values of the code.
THEOREM BridgeTypeCorrect == Spec => []TypeOK
<1>1. DataInv => TypeOK
  BY DEF DataInv
<1> QED BY <1>1, DataInvariant, PTL

\* However many tasks read, reset, open and close the bridge, every frame is counted exactly once.
THEOREM FramesAlwaysAccounted == Spec => []FramesAccounted
<1>1. DataInv => FramesAccounted
  BY DEF DataInv
<1> QED BY <1>1, DataInvariant, PTL

\* However many tasks read and reset, the rate windows neither lose nor repeat a frame.
THEOREM WindowsAlwaysAccounted == Spec => []WindowsAccounted
<1>1. DataInv => WindowsAccounted
  BY DEF DataInv
<1> QED BY <1>1, DataInvariant, PTL

\* Whatever the USB stack answers, each receive buffer is given back exactly once.
THEOREM BuffersAlwaysConserved == Spec => []BuffersConserved
<1>1. DataInv => BuffersConserved
  BY DEF DataInv
<1> QED BY <1>1, DataInvariant, PTL
================================================================================
