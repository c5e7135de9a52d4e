----------------------------- MODULE FirmwareProofs ----------------------------
(***************************************************************************)
(* Proofs about the whole control plane, for any networks and saved        *)
(* configurations, any number of inputs, failures and losses, and any      *)
(* tasks.                                                                  *)
(***************************************************************************)
EXTENDS Hud, WifiMgrProofs

CP == INSTANCE ConfigStoreProofs

----------------------------------------------------------------------------
(* The store: what every task does to it is a step of ConfigStore. *)

StoreOK == CS!TypeOK /\ CS!StoreWellFormed

LEMMA StoreFitsProofs == CP!StoreAssumption
  BY StoreFits
     DEF CP!StoreAssumption, CS!StoreAssumption, CP!Configs, CS!Configs, CP!Slots, CS!Slots,
         CP!Profiles, CS!Profiles, CP!Ssids, CS!Ssids, CP!Passes, CS!Passes, CP!ActiveNone, CS!ActiveNone

LEMMA SameInvariant == CP!IndInv <=> StoreOK
  BY DEF CP!IndInv, StoreOK, CP!TypeOK, CS!TypeOK, CP!StoreWellFormed, CS!StoreWellFormed,
         CP!WellFormed, CS!WellFormed, CP!ActiveInRange, CS!ActiveInRange, CP!NothingBeyondCount,
         CS!NothingBeyondCount, CP!Configs, CS!Configs, CP!Slots, CS!Slots, CP!Profiles, CS!Profiles,
         CP!ZeroProfile, CS!ZeroProfile, CP!Ssids, CS!Ssids, CP!Passes, CS!Passes,
         CP!ActiveNone, CS!ActiveNone

LEMMA SameSteps == [CS!Next]_(CS!vars) => [CP!Next]_(CP!vars)
  BY Zenon
     DEF CP!Next, CS!Next, CP!vars, CS!vars, CP!Join, CS!Join, CP!AddIndex, CS!AddIndex,
         CP!FindProfile, CS!FindProfile, CP!Matches, CS!Matches, CP!Used, CS!Used, CP!Stage, CS!Stage,
         CP!AddProfile, CS!AddProfile, CP!ActiveNone, CS!ActiveNone, CP!Ssids, CS!Ssids,
         CP!Passes, CS!Passes, CP!SetSsid, CS!SetSsid, CP!SetPass, CS!SetPass, CP!Use, CS!Use,
         CP!Del, CS!Del, CP!DelProfile, CS!DelProfile, CP!DelActive, CS!DelActive, CP!SaveCmd, CS!SaveCmd,
         CP!Save, CS!Save, CP!PortalSuccess, CS!PortalSuccess, CP!ClearWifiAndReprovision,
         CS!ClearWifiAndReprovision, CP!Boot, CS!Boot, CP!BootErased, CS!BootErased, CP!Load, CS!Load, CP!Defaults, CS!Defaults,
         CP!ClearWifi, CS!ClearWifi, CP!FixActive, CS!FixActive, CP!EnsureActiveProfile,
         CS!EnsureActiveProfile, CP!Slots, CS!Slots, CP!ZeroProfile, CS!ZeroProfile

\* The store's own step theorem, for the store inside the firmware.
LEMMA StoreStep == StoreOK /\ [CS!Next]_(CS!vars) => StoreOK'
<1>1. CP!IndInv /\ [CP!Next]_(CP!vars) => CP!IndInv'
  BY StoreFitsProofs, CP!StepInv DEF CP!StepInv
<1>2. CP!IndInv' <=> StoreOK'
  BY SameInvariant, PTL
<1> QED BY <1>1, <1>2, SameInvariant, SameSteps

LEMMA StoreInit == ASSUME Init PROVE StoreOK
<1>1. PICK blob \in Seeds : nvs = blob /\ cfg = CS!Load(blob)
  BY DEF Init, MgrInit
<1>2. CP!Load(nvs) = CS!Load(nvs)
  BY DEF CP!Load, CS!Load, CP!Defaults, CS!Defaults, CP!ClearWifi, CS!ClearWifi,
         CP!FixActive, CS!FixActive, CP!Slots, CS!Slots, CP!ZeroProfile, CS!ZeroProfile,
         CP!ActiveNone, CS!ActiveNone
<1>3. /\ nvs \in CP!Configs \cup {NoBlob, BadBlob}
      /\ nvs \notin {NoBlob, BadBlob} => CP!WellFormed(nvs)
  <2>1. nvs \in CS!Configs \cup {NoBlob} /\ (nvs # NoBlob => CS!WellFormed(nvs))
    BY <1>1, FirmwareAssumption
  <2> QED
    BY <2>1 DEF CP!WellFormed, CS!WellFormed, CP!ActiveInRange, CS!ActiveInRange,
         CP!NothingBeyondCount, CS!NothingBeyondCount, CP!Configs, CS!Configs, CP!Slots, CS!Slots,
         CP!Profiles, CS!Profiles, CP!ZeroProfile, CS!ZeroProfile, CP!Ssids, CS!Ssids,
         CP!Passes, CS!Passes, CP!ActiveNone, CS!ActiveNone
<1>4. CP!Good(CP!Load(nvs))
  BY <1>3, StoreFitsProofs, CP!LoadGood DEF CP!LoadGood
<1>5. CP!IndInv
  BY <1>1, <1>2, <1>3, <1>4 DEF CP!IndInv, CP!TypeOK, CP!StoreWellFormed, CP!Good
<1> QED BY <1>5, SameInvariant

----------------------------------------------------------------------------
(* The driver: its calls and what the air does keep the record's type, and
   only esp_wifi_set_mode changes the mode. *)

LEMMA DriverCalls ==
    ASSUME NEW d \in WD!Drivers
    PROVE  /\ WD!Disconnect(d) \in WD!Drivers /\ WD!Disconnect(d).mode = d.mode
           /\ WD!Connect(d) \in WD!Drivers /\ WD!Connect(d).mode = d.mode
           /\ WD!ScanStart(d) \in WD!Drivers /\ WD!ScanStart(d).mode = d.mode
           /\ WD!ScanStop(d) \in WD!Drivers /\ WD!ScanStop(d).mode = d.mode
           /\ \A s \in Names \cup {Blank} :
                WD!SetConfig(d, s) \in WD!Drivers /\ WD!SetConfig(d, s).mode = d.mode
           /\ \A m \in {"STA", "APSTA"} :
                WD!SetMode(d, m) \in WD!Drivers /\ WD!SetMode(d, m).mode = m
<1>1. WD!Disconnect(d) \in WD!Drivers /\ WD!Disconnect(d).mode = d.mode
  BY AppendProperties
     DEF WD!Disconnect, WD!LeaveNetwork, WD!Post, WD!Drivers, WD!Events, WD!Reasons
<1>2. WD!Connect(d) \in WD!Drivers /\ WD!Connect(d).mode = d.mode
  BY AppendProperties
     DEF WD!Connect, WD!ConnectOk, WD!AbortScan, WD!Post, WD!Drivers, WD!Events, WD!Reasons
<1>3. \A s \in Names \cup {Blank} :
        WD!SetConfig(d, s) \in WD!Drivers /\ WD!SetConfig(d, s).mode = d.mode
  BY DEF WD!SetConfig, WD!Drivers
<1>4. \A m \in {"STA", "APSTA"} : WD!SetMode(d, m) \in WD!Drivers /\ WD!SetMode(d, m).mode = m
  BY DEF WD!SetMode, WD!Drivers
<1>5. WD!ScanStart(d) \in WD!Drivers /\ WD!ScanStart(d).mode = d.mode
  BY DEF WD!ScanStart, WD!Drivers
<1>6. WD!ScanStop(d) \in WD!Drivers /\ WD!ScanStop(d).mode = d.mode
  BY DEF WD!ScanStop, WD!Drivers
<1> QED BY <1>1, <1>2, <1>3, <1>4, <1>5, <1>6

LEMMA AirCalls ==
    ASSUME NEW d \in WD!Drivers,
           NEW e \in WD!Associated(d) \cup WD!Refused(d) \cup WD!Lost(d) \cup WD!Scanned(d)
    PROVE  e \in WD!Drivers /\ e.mode = d.mode
<1>1. CASE e \in WD!Associated(d)
  <2>1. PICK a : a = [d EXCEPT !.sta = "connected"]
    OBVIOUS
  <2>2. e = [a EXCEPT !.evq = Append(a.evq, "connected")]
    BY <1>1, <2>1 DEF WD!Associated, WD!Post
  <2>3. a \in WD!Drivers /\ a.mode = d.mode /\ "connected" \in WD!Events
    BY <2>1 DEF WD!Drivers, WD!Events
  <2> QED BY <2>2, <2>3, AppendProperties DEF WD!Drivers
<1>2. CASE e \in WD!Refused(d) \cup WD!Lost(d)
  <2>1. PICK r \in WD!Events : e = WD!LeaveNetwork(d, r)
    BY <1>2 DEF WD!Refused, WD!Lost, WD!Events, WD!Reasons
  <2> QED BY <2>1, AppendProperties DEF WD!LeaveNetwork, WD!Post, WD!Drivers
<1>3. CASE e \in WD!Scanned(d)
  <2>1. PICK a : a = [d EXCEPT !.scanning = FALSE]
    OBVIOUS
  <2>2. e = [a EXCEPT !.evq = Append(a.evq, "scan_done")]
    BY <1>3, <2>1 DEF WD!Scanned, WD!AbortScan, WD!Post
  <2>3. a \in WD!Drivers /\ a.mode = d.mode /\ "scan_done" \in WD!Events
    BY <2>1 DEF WD!Drivers, WD!Events
  <2> QED BY <2>2, <2>3, AppendProperties DEF WD!Drivers
<1> QED BY <1>1, <1>2, <1>3

LEMMA PoppedDriver ==
    ASSUME drv \in WD!Drivers, NEW x, NextEvent(x)
    PROVE  Popped \in WD!Drivers /\ Popped.mode = drv.mode
  BY HeadTailProperties DEF NextEvent, Popped, WD!Drivers

----------------------------------------------------------------------------
(* Programs. *)

Labels == {"ev_connect", "ev_arm", "ev_ok", "ev_retry",
           "apply", "apply_check", "apply_conf", "apply_connect",
           "scan", "scan_disconnect", "scan_start", "scan_wait", "scan_exit",
           "test", "test_drain", "test_connect", "test_wait", "test_result",
           "boot", "boot_check", "apply_or_start", "unless_active",
           "start", "start_softap", "start_httpd", "start_open",
           "stop", "stop_httpd", "stop_radio", "stop_gate", "fin_delay", "fin"}

\* The sequences of labels that calls put in front of a program.
LEMMA Calls ==
    /\ <<>> \in Seq(Labels) /\ Apply \in Seq(Labels) /\ Scan \in Seq(Labels)
    /\ Open \in Seq(Labels) /\ Close \in Seq(Labels) /\ ApplyOrStart \in Seq(Labels)
    /\ \A a, b \in Labels : <<a>> \in Seq(Labels) /\ <<a, b>> \in Seq(Labels)
    /\ \A s, u \in Seq(Labels) : s \o u \in Seq(Labels)
<1>1. \A s, u \in Seq(Labels) : s \o u \in Seq(Labels)
  BY ConcatProperties
<1>2. \A a, b \in Labels : <<a>> \in Seq(Labels) /\ <<a, b>> \in Seq(Labels)
  OBVIOUS
<1>3. \A a, b, c \in Labels : <<a, b, c>> \in Seq(Labels)
  OBVIOUS
<1>4. <<>> \in Seq(Labels)
  BY EmptySeq
<1>5. {"apply", "apply_check", "scan", "scan_disconnect", "scan_start", "start", "stop", "apply_or_start"}
        \subseteq Labels
  BY DEF Labels
<1>6. Apply \in Seq(Labels) /\ Scan \in Seq(Labels)
  BY <1>2, <1>3, <1>5 DEF Apply, Scan
<1>7. Open \in Seq(Labels) /\ Close \in Seq(Labels) /\ ApplyOrStart \in Seq(Labels)
  BY <1>2, <1>5 DEF Open, Close, ApplyOrStart
<1> QED BY <1>1, <1>2, <1>4, <1>6, <1>7

\* The programs of the HTTP server's task.
HttpdPrograms ==
    {<<>>, <<"test", "test_drain", "test_result">>, <<"test_drain", "test_result">>,
     <<"test_connect", "test_result">>, <<"test_wait", "test_result">>, <<"test_result">>}

LEMMA TwoLabels == ASSUME NEW S, NEW a \in S, NEW b \in S PROVE <<a>> \o <<b>> = <<a, b>>
<1>1. <<a>> \in Seq(S) /\ <<b>> \in Seq(S)
  OBVIOUS
<1>2. PICK s : s = <<a>> \o <<b>>
  OBVIOUS
<1>3. s \in Seq(S) /\ Len(s) = 2 /\ s[1] = a /\ s[2] = b
  BY <1>1, <1>2, ConcatProperties
<1>4. s = <<a, b>>
  BY <1>3
<1> QED BY <1>2, <1>4

LEMMA ThreeLabels ==
    ASSUME NEW S, NEW a \in S, NEW b \in S, NEW c \in S
    PROVE  <<a, b>> \o <<c>> = <<a, b, c>>
<1>1. <<a, b>> \in Seq(S) /\ <<c>> \in Seq(S)
  OBVIOUS
<1>2. PICK s : s = <<a, b>> \o <<c>>
  OBVIOUS
<1>3. s \in Seq(S) /\ Len(s) = 3 /\ s[1] = a /\ s[2] = b /\ s[3] = c
  BY <1>1, <1>2, ConcatProperties
<1>4. s = <<a, b, c>>
  BY <1>3
<1> QED BY <1>2, <1>4

----------------------------------------------------------------------------
(* Type correctness.  A task's pointer names a slot that exists, and the HTTP
   server's task always knows which network its request is about. *)

PlainOK ==
    /\ drv \in WD!Drivers /\ st \in States
    /\ suppress \in BOOLEAN /\ link \in BOOLEAN /\ panic \in BOOLEAN
    /\ bits \subseteq {"ok", "fail", "scan"}
    /\ trouble \in 0..MaxTrouble /\ cmds \in 0..MaxCmds

TodoOK == todo \in [Tasks -> Seq(Labels)]

LocOK ==
    /\ loc \in [Tasks -> Locals]
    /\ \A t \in Tasks : loc[t].ptr \in CS!Slots \cup {CS!ActiveNone}

HttpdOK ==
    /\ todo["httpd"] \in HttpdPrograms
    /\ todo["httpd"] # <<>> => loc["httpd"].net \in Names

TypeInv == StoreOK /\ PlainOK /\ TodoOK /\ LocOK /\ HttpdOK /\ PortalTypeOK

LEMMA TasksKnown ==
    /\ {"main", "tud", "btn", "httpd", "sys_evt"} \subseteq Tasks /\ Callers \subseteq Tasks
    /\ Finishers \subseteq Callers /\ "httpd" \in Callers /\ "sys_evt" \notin Callers
  BY MgrAssumption, PortalAssumption DEF Tasks

LEMMA SlotsKnown == CS!Slots \cup {CS!ActiveNone} \subseteq 0..CS!ActiveNone
  BY StoreFits DEF CS!StoreAssumption, CS!Slots, CS!ActiveNone

\* A label executed, a program started.
LEMMA DoTyped ==
    ASSUME TodoOK, NEW t \in Tasks, todo[t] # <<>>, NEW c \in Seq(Labels), Do(t, c)
    PROVE  /\ TodoOK' /\ todo'[t] = c \o Tail(todo[t])
           /\ \A u \in Tasks \ {t} : todo'[u] = todo[u]
<1>1. todo[t] \in Seq(Labels)
  BY DEF TodoOK
<1>2. PICK r : r = c \o Tail(todo[t])
  OBVIOUS
<1>3. r \in Seq(Labels)
  BY <1>1, <1>2, HeadTailProperties, ConcatProperties
<1> QED BY <1>2, <1>3 DEF Do, TodoOK

LEMMA StartTyped ==
    ASSUME TodoOK, NEW t \in Tasks, NEW c \in Seq(Labels), Start(t, c)
    PROVE  /\ TodoOK' /\ todo[t] = <<>> /\ todo'[t] = c
           /\ \A u \in Tasks \ {t} : todo'[u] = todo[u]
  BY DEF Start, Idle, TodoOK

\* A local variable written.
SameNets == \A u \in Tasks : loc'[u].net = loc[u].net

LEMMA SetLocTyped ==
    ASSUME LocOK, NEW t \in Tasks
    PROVE  /\ \A v \in CS!Slots \cup {CS!ActiveNone} : SetLoc(t, "ptr", v) => LocOK' /\ SameNets
           /\ \A v \in States : SetLoc(t, "prev", v) => LocOK' /\ SameNets
           /\ \A v \in BOOLEAN : SetLoc(t, "re", v) => LocOK' /\ SameNets
           /\ \A v \in {"ok", "fail", "timeout"} : SetLoc(t, "ret", v) => LocOK' /\ SameNets
           /\ \A v \in Names \cup {Blank} :
                SetLoc(t, "net", v) => LocOK' /\ loc'[t].net = v
<1>1. ASSUME NEW v \in CS!Slots \cup {CS!ActiveNone}, SetLoc(t, "ptr", v) PROVE LocOK' /\ SameNets
  BY <1>1, SlotsKnown DEF SetLoc, LocOK, Locals, SameNets
<1>2. ASSUME NEW v \in States, SetLoc(t, "prev", v) PROVE LocOK' /\ SameNets
  BY <1>2 DEF SetLoc, LocOK, Locals, SameNets
<1>3. ASSUME NEW v \in BOOLEAN, SetLoc(t, "re", v) PROVE LocOK' /\ SameNets
  BY <1>3 DEF SetLoc, LocOK, Locals, SameNets
<1>4. ASSUME NEW v \in {"ok", "fail", "timeout"}, SetLoc(t, "ret", v) PROVE LocOK' /\ SameNets
  BY <1>4 DEF SetLoc, LocOK, Locals, SameNets
<1>5. ASSUME NEW v \in Names \cup {Blank}, SetLoc(t, "net", v) PROVE LocOK' /\ loc'[t].net = v
  BY <1>5 DEF SetLoc, LocOK, Locals
<1> QED BY <1>1, <1>2, <1>3, <1>4, <1>5

HttpdLabels == {"test", "test_drain", "test_connect", "test_wait", "test_result"}

\* The test it calls, one label after the other.
LEMMA HttpdMoves ==
    /\ <<>> \o Tail(<<"test", "test_drain", "test_result">>) = <<"test_drain", "test_result">>
    /\ <<"test_connect">> \o Tail(<<"test_drain", "test_result">>) = <<"test_connect", "test_result">>
    /\ <<"test_wait">> \o Tail(<<"test_connect", "test_result">>) = <<"test_wait", "test_result">>
    /\ <<>> \o Tail(<<"test_connect", "test_result">>) = <<"test_result">>
    /\ <<>> \o Tail(<<"test_wait", "test_result">>) = <<"test_result">>
<1>2. /\ <<"test_connect">> \o <<"test_result">> = <<"test_connect", "test_result">>
      /\ <<"test_wait">> \o <<"test_result">> = <<"test_wait", "test_result">>
  <2>1. "test_connect" \in HttpdLabels /\ "test_wait" \in HttpdLabels /\ "test_result" \in HttpdLabels
    BY DEF HttpdLabels
  <2>2. \A a, b \in HttpdLabels : <<a>> \o <<b>> = <<a, b>>
    BY TwoLabels
  <2> QED BY <2>1, <2>2
<1>3. Tail(<<"test_drain", "test_result">>) = <<"test_result">>
  OBVIOUS
<1>4. Tail(<<"test_connect", "test_result">>) = <<"test_result">>
  OBVIOUS
<1>5. <<>> \o Tail(<<"test", "test_drain", "test_result">>) = <<"test_drain", "test_result">>
  OBVIOUS
<1>6. <<>> \o Tail(<<"test_connect", "test_result">>) = <<"test_result">>
  OBVIOUS
<1>7. <<>> \o Tail(<<"test_wait", "test_result">>) = <<"test_result">>
  OBVIOUS
<1> QED BY <1>2, <1>3, <1>4, <1>5, <1>6, <1>7

\* What the HTTP server's task is about to execute.
LEMMA HttpdHead ==
    ASSUME HttpdOK, NEW label, At("httpd", label)
    PROVE  /\ label \in HttpdLabels
           /\ label = "test" => todo["httpd"] = <<"test", "test_drain", "test_result">>
           /\ label = "test_drain" => todo["httpd"] = <<"test_drain", "test_result">>
           /\ label = "test_connect" => todo["httpd"] = <<"test_connect", "test_result">>
           /\ label = "test_wait" => todo["httpd"] = <<"test_wait", "test_result">>
           /\ label = "test_result" => todo["httpd"] = <<"test_result">>
<1>1. todo["httpd"] \in HttpdPrograms \ {<<>>} /\ Head(todo["httpd"]) = label
  BY DEF HttpdOK, At
<1> QED BY <1>1 DEF HttpdPrograms, HttpdLabels

\* A label of any other code leaves the HTTP server's task alone.
LEMMA PlainDo ==
    ASSUME TodoOK, HttpdOK, NEW t \in Tasks, NEW label, label \notin HttpdLabels, At(t, label),
           NEW c \in Seq(Labels), Do(t, c), SameNets
    PROVE  TodoOK' /\ HttpdOK'
<1>1. t # "httpd"
  BY HttpdHead
<1>2. TodoOK' /\ todo'["httpd"] = todo["httpd"]
  BY <1>1, DoTyped, TasksKnown DEF At
<1>3. loc'["httpd"].net = loc["httpd"].net
  BY TasksKnown DEF SameNets
<1> QED BY <1>2, <1>3 DEF HttpdOK

LEMMA SameStore == ASSUME StoreOK, UNCHANGED store PROVE StoreOK'
  BY StoreStep DEF store, CS!vars

LEMMA SameLoc == ASSUME LocOK, UNCHANGED loc PROVE LocOK' /\ SameNets
  BY DEF LocOK, SameNets

\* wifi_mgr_apply.
LEMMA ApplyType == ASSUME TypeInv, NEW t \in Callers, ApplySteps(t), UNCHANGED portal PROVE TypeInv'
<1> USE DEF TypeInv
<1>0. t \in Tasks /\ drv \in WD!Drivers /\ StoreOK' /\ PortalTypeOK'
  BY SameStore, TasksKnown
     DEF ApplySteps, ApplyDisconnect, ApplyCheck, ApplyConf, ApplyConnect, PlainOK, portal, PortalTypeOK, mgr
<1>1. CASE ApplyDisconnect(t)
  <2>1. At(t, "apply") /\ Do(t, <<>>)
    BY <1>1 DEF ApplyDisconnect
  <2>2. PICK v : v = IF CS!HasActive(cfg) THEN cfg.active ELSE CS!ActiveNone
    OBVIOUS
  <2>3. v \in CS!Slots \cup {CS!ActiveNone}
    <3>1. cfg.active \in 0..CS!ActiveNone /\ cfg.count \in 0..ProfileMax
      BY DEF StoreOK, CS!TypeOK, CS!Configs
    <3>2. ProfileMax \in Nat
      BY StoreFits DEF CS!StoreAssumption, CS!ActiveNone
    <3> QED BY <2>2, <3>1, <3>2 DEF CS!HasActive, CS!Slots, CS!ActiveNone
  <2>4. LocOK' /\ SameNets
    BY <1>0, <1>1, <2>2, <2>3, SetLocTyped DEF ApplyDisconnect
  <2>5. PlainOK'
    BY <1>0, <1>1, DriverCalls DEF ApplyDisconnect, PlainOK, bounds
  <2> QED BY <1>0, <2>1, <2>4, <2>5, Calls, PlainDo DEF HttpdLabels
<1>2. CASE ApplyCheck(t)
  <2>0. /\ At(t, "apply_check") /\ (Do(t, <<>>) \/ Do(t, <<"apply_conf", "apply_connect">>))
        /\ "apply_conf" \in Labels /\ "apply_connect" \in Labels
    BY <1>2 DEF ApplyCheck, Labels
  <2>1. PICK c \in Seq(Labels) : At(t, "apply_check") /\ Do(t, c)
    BY <2>0, Calls
  <2>2. LocOK' /\ SameNets
    <3>1. CASE Pointee(t) = Blank
      <4>1. loc' = [loc EXCEPT ![t].ptr = CS!ActiveNone, ![t].ret = "ok"]
        BY <1>2, <3>1 DEF ApplyCheck
      <4> QED BY ZenonT(60), <1>0, <4>1, SlotsKnown DEF LocOK, Locals, SameNets
    <3>2. CASE Pointee(t) # Blank
      BY <1>2, <3>2, SameLoc DEF ApplyCheck
    <3> QED BY <3>1, <3>2
  <2>3. link' \in BOOLEAN
    BY <1>2 DEF ApplyCheck
  <2>4. PlainOK'
    BY <1>2, <2>3 DEF ApplyCheck, PlainOK, bounds, States
  <2> QED BY <1>0, <2>1, <2>2, <2>4, PlainDo DEF HttpdLabels
<1>3. CASE ApplyConf(t)
  <2>1. At(t, "apply_conf") /\ Do(t, <<>>)
    BY <1>3 DEF ApplyConf
  <2>2. LocOK' /\ SameNets
    BY <1>0, <1>3, SetLocTyped DEF ApplyConf
  <2>3. Pointee(t) \in Names \cup {Blank}
    BY <1>0 DEF Pointee, LocOK, StoreOK, CS!TypeOK, CS!Configs, CS!Profiles, CS!Ssids
  <2>4. drv' \in WD!Drivers
    <3>1. PICK e : e = WD!SetMode(drv, "STA")
      OBVIOUS
    <3>2. e \in WD!Drivers
      BY <1>0, <3>1, DriverCalls
    <3>3. drv' = drv \/ drv' = WD!SetConfig(e, Pointee(t))
      BY <1>3, <3>1 DEF ApplyConf
    <3> QED BY <1>0, <2>3, <3>2, <3>3, DriverCalls
  <2>5. PlainOK'
    BY <1>3, <2>4 DEF ApplyConf, PlainOK, bounds, States
  <2> QED BY <1>0, <2>1, <2>2, <2>5, Calls, PlainDo DEF HttpdLabels
<1>4. CASE ApplyConnect(t)
  <2>1. At(t, "apply_connect") /\ Do(t, <<>>)
    BY <1>4 DEF ApplyConnect
  <2>2. LocOK' /\ SameNets
    BY <1>0, <1>4, SetLocTyped DEF ApplyConnect
  <2>3. PlainOK'
    BY <1>0, <1>4, DriverCalls DEF ApplyConnect, PlainOK, bounds
  <2> QED BY <1>0, <2>1, <2>2, <2>3, Calls, PlainDo DEF HttpdLabels
<1> QED BY <1>1, <1>2, <1>3, <1>4 DEF ApplySteps

\* wifi_mgr_scan.
LEMMA ScanType == ASSUME TypeInv, NEW t \in Callers, ScanSteps(t), UNCHANGED portal PROVE TypeInv'
<1> USE DEF TypeInv
<1>0. t \in Tasks /\ drv \in WD!Drivers /\ StoreOK' /\ PortalTypeOK'
  BY SameStore, TasksKnown
     DEF ScanSteps, ScanEnter, ScanDisconnect, ScanStart, ScanWait, ScanExit, PlainOK, portal, PortalTypeOK
<1>1. CASE ScanEnter(t)
  <2>1. At(t, "scan") /\ Do(t, <<>>)
    BY <1>1 DEF ScanEnter
  <2>2. LocOK' /\ SameNets
    BY <1>0, <1>1, SetLocTyped DEF ScanEnter, PlainOK
  <2>3. link' \in BOOLEAN
    BY <1>1 DEF ScanEnter
  <2>4. PlainOK'
    BY <1>1, <2>3 DEF ScanEnter, PlainOK, bounds, States
  <2> QED BY <1>0, <2>1, <2>2, <2>4, Calls, PlainDo DEF HttpdLabels
<1>2. CASE ScanDisconnect(t)
  <2>1. At(t, "scan_disconnect") /\ Do(t, <<>>)
    BY <1>2 DEF ScanDisconnect
  <2>2. PlainOK'
    BY <1>0, <1>2, DriverCalls DEF ScanDisconnect, PlainOK, bounds
  <2> QED BY <1>0, <1>2, <2>1, <2>2, Calls, SameLoc, PlainDo DEF HttpdLabels, ScanDisconnect
<1>3. CASE ScanStart(t)
  <2>0. /\ At(t, "scan_start") /\ (Do(t, <<"scan_wait">>) \/ Do(t, <<"scan_exit">>))
        /\ "scan_wait" \in Labels /\ "scan_exit" \in Labels
    BY <1>3 DEF ScanStart, Labels
  <2>1. PICK c \in Seq(Labels) : At(t, "scan_start") /\ Do(t, c)
    BY <2>0, Calls
  <2>2. PlainOK'
    BY <1>0, <1>3, DriverCalls DEF ScanStart, PlainOK, bounds
  <2> QED BY <1>0, <1>3, <2>1, <2>2, SameLoc, PlainDo DEF HttpdLabels, ScanStart
<1>4. CASE ScanWait(t)
  <2>0. At(t, "scan_wait") /\ Do(t, <<"scan_exit">>) /\ "scan_exit" \in Labels
    BY <1>4 DEF ScanWait, Labels
  <2>1. PICK c \in Seq(Labels) : At(t, "scan_wait") /\ Do(t, c)
    BY <2>0, Calls
  <2>2. PlainOK'
    <3>1. /\ drv' = drv \/ drv' = WD!ScanStop(drv)
          /\ bits' \subseteq bits
          /\ UNCHANGED <<st, suppress, link, panic, trouble, cmds>>
      BY <1>4 DEF ScanWait, bounds
    <3>2. drv' \in WD!Drivers
      BY <1>0, <3>1, DriverCalls
    <3> QED BY <3>1, <3>2 DEF PlainOK
  <2> QED BY <1>0, <1>4, <2>1, <2>2, SameLoc, PlainDo DEF HttpdLabels, ScanWait
<1>5. CASE ScanExit(t)
  <2>0. At(t, "scan_exit") /\ (Do(t, <<>>) \/ Do(t, Apply))
    BY <1>5 DEF ScanExit
  <2>1. PICK c \in Seq(Labels) : At(t, "scan_exit") /\ Do(t, c)
    BY <2>0, Calls
  <2>2. LocOK' /\ SameNets
    BY ZenonT(60), <1>0, <1>5 DEF ScanExit, LocOK, Locals, SameNets, States
  <2>3. st' \in States
    BY <1>0, <1>5 DEF ScanExit, LocOK, Locals
  <2>4. PlainOK'
    BY <1>5, <2>3 DEF ScanExit, PlainOK, bounds
  <2> QED BY <1>0, <2>1, <2>2, <2>4, PlainDo DEF HttpdLabels
<1> QED BY <1>1, <1>2, <1>3, <1>4, <1>5 DEF ScanSteps

\* wifi_mgr_test_connect, in the HTTP server's task or any other.
LEMMA TestType == ASSUME TypeInv, NEW t \in Callers, TestSteps(t), UNCHANGED portal PROVE TypeInv'
<1> USE DEF TypeInv
<1>0. /\ t \in Tasks /\ drv \in WD!Drivers /\ StoreOK' /\ PortalTypeOK'
      /\ {"test_connect", "test_wait"} \subseteq Labels
  BY SameStore, TasksKnown
     DEF TestSteps, TestDisconnect, TestConf, TestConnect, TestWait, PlainOK, portal, PortalTypeOK, Labels
<1>1. ASSUME NEW label, At(t, label), NEW c \in Seq(Labels), Do(t, c), SameNets,
             t = "httpd" => c \o Tail(todo[t]) \in HttpdPrograms
      PROVE  TodoOK' /\ HttpdOK'
  <2>1. TodoOK' /\ todo'[t] = c \o Tail(todo[t]) /\ \A u \in Tasks \ {t} : todo'[u] = todo[u]
    BY <1>0, <1>1, DoTyped DEF At
  <2>2. CASE t = "httpd"
    BY <1>1, <2>1, <2>2, TasksKnown DEF HttpdOK, SameNets, At
  <2>3. CASE t # "httpd"
    BY <2>1, <2>3, TasksKnown, <1>1 DEF HttpdOK, SameNets
  <2> QED BY <2>1, <2>2, <2>3
<1>2. CASE TestDisconnect(t)
  <2>1. At(t, "test") /\ Do(t, <<>>) /\ UNCHANGED loc
    BY <1>2 DEF TestDisconnect
  <2>2. PlainOK'
    BY <1>0, <1>2, DriverCalls DEF TestDisconnect, PlainOK, bounds
  <2>3. t = "httpd" => <<>> \o Tail(todo[t]) \in HttpdPrograms
    BY <2>1, HttpdHead, HttpdMoves DEF HttpdPrograms
  <2> QED BY <1>0, <1>1, <2>1, <2>2, <2>3, Calls, SameLoc
<1>3. CASE TestConf(t)
  <2>1. At(t, "test_drain") /\ Do(t, <<"test_connect">>) /\ UNCHANGED loc
    BY <1>3 DEF TestConf
  <2>2. loc[t].net \in Names \cup {Blank}
    BY <1>0 DEF LocOK, Locals
  <2>3. drv' \in WD!Drivers
    <3>1. drv' = drv \/ drv' = WD!SetConfig(drv, loc[t].net)
      BY <1>3 DEF TestConf
    <3> QED BY ZenonT(60), <1>0, <2>2, <3>1, DriverCalls
  <2>4. PlainOK'
    <3>1. bits' \subseteq bits /\ panic' \in BOOLEAN /\ UNCHANGED <<st, suppress, link, bounds>>
      BY <1>3 DEF TestConf, PlainOK
    <3> QED BY <2>3, <3>1 DEF PlainOK, bounds
  <2>5. t = "httpd" => <<"test_connect">> \o Tail(todo[t]) \in HttpdPrograms
    BY <2>1, HttpdHead, HttpdMoves DEF HttpdPrograms
  <2> QED BY <1>0, <1>1, <2>1, <2>4, <2>5, Calls, SameLoc
<1>4. CASE TestConnect(t)
  <2>1. PICK c \in {<<"test_wait">>, <<>>} : At(t, "test_connect") /\ Do(t, c)
    BY <1>4 DEF TestConnect
  <2>2. LocOK' /\ SameNets
    BY <1>0, <1>4, SameLoc, SetLocTyped DEF TestConnect
  <2>3. PlainOK'
    BY <1>0, <1>4, DriverCalls DEF TestConnect, PlainOK, bounds
  <2>4. t = "httpd" => c \o Tail(todo[t]) \in HttpdPrograms
    BY <2>1, HttpdHead, HttpdMoves DEF HttpdPrograms
  <2>5. c \in Seq(Labels)
    BY <1>0, <2>1, Calls
  <2> QED BY <1>0, <1>1, <2>1, <2>2, <2>3, <2>4, <2>5
<1>5. CASE TestWait(t)
  <2>1. At(t, "test_wait") /\ Do(t, <<>>)
    BY <1>5 DEF TestWait
  <2>2. LocOK' /\ SameNets
    <3>1. \E v \in {"ok", "fail", "timeout"} : SetLoc(t, "ret", v)
      BY <1>5 DEF TestWait
    <3> QED BY <1>0, <3>1, SetLocTyped
  <2>3. PlainOK'
    <3>1. bits' \subseteq bits /\ UNCHANGED <<st, suppress, link, panic, bounds>>
      BY <1>5 DEF TestWait
    <3>2. drv' = drv \/ drv' = WD!Disconnect(drv)
      BY <1>5 DEF TestWait
    <3>3. drv' \in WD!Drivers
      BY <1>0, <3>2, DriverCalls
    <3> QED BY <3>1, <3>3 DEF PlainOK, bounds
  <2>4. t = "httpd" => <<>> \o Tail(todo[t]) \in HttpdPrograms
    BY <2>1, HttpdHead, HttpdMoves DEF HttpdPrograms
  <2> QED BY <1>0, <1>1, <2>1, <2>2, <2>3, <2>4, Calls
<1> QED BY <1>2, <1>3, <1>4, <1>5 DEF TestSteps

\* provisioning_start.
LEMMA OpenType == ASSUME TypeInv, NEW t \in Callers, OpenSteps(t) PROVE TypeInv'
<1> USE DEF TypeInv
<1>0. /\ t \in Tasks /\ drv \in WD!Drivers /\ StoreOK'
      /\ {"start_softap", "start_httpd", "start_open"} \subseteq Labels
  BY SameStore, TasksKnown DEF OpenSteps, OpenBegin, OpenSoftap, OpenHttpd, OpenEnd, PlainOK, Labels
<1>1. CASE OpenBegin(t)
  <2>0. At(t, "start") /\ (Do(t, <<>>) \/ Do(t, Scan \o <<"start_softap", "start_httpd">>))
    BY <1>1 DEF OpenBegin
  <2>1. PICK c \in Seq(Labels) : At(t, "start") /\ Do(t, c)
    BY <1>0, <2>0, Calls
  <2>2. LocOK' /\ SameNets
    BY <1>0, <1>1, SameLoc, SetLocTyped DEF OpenBegin
  <2>3. PlainOK'
    BY <1>1 DEF OpenBegin, PlainOK, bounds, States
  <2>4. PortalTypeOK'
    BY <1>1 DEF OpenBegin, PortalTypeOK, Phases
  <2> QED BY <1>0, <2>1, <2>2, <2>3, <2>4, PlainDo DEF HttpdLabels
<1>2. CASE OpenSoftap(t)
  <2>1. At(t, "start_softap") /\ Do(t, <<>>) /\ UNCHANGED loc
    BY <1>2 DEF OpenSoftap
  <2>2. PlainOK'
    BY <1>0, <1>2, DriverCalls DEF OpenSoftap, StartSoftap, PlainOK, bounds, States
  <2>3. PortalTypeOK'
    BY <1>2 DEF OpenSoftap, PortalTypeOK, portal
  <2> QED BY <1>0, <2>1, <2>2, <2>3, Calls, SameLoc, PlainDo DEF HttpdLabels
<1>3. CASE OpenHttpd(t)
  <2>0. At(t, "start_httpd") /\ (Do(t, <<>>) \/ Do(t, <<"start_open">>))
    BY <1>3 DEF OpenHttpd
  <2>1. PICK c \in Seq(Labels) : At(t, "start_httpd") /\ Do(t, c)
    BY <1>0, <2>0, Calls
  <2>2. LocOK' /\ SameNets
    BY <1>0, <1>3, SameLoc, SetLocTyped DEF OpenHttpd
  <2>3. PlainOK'
    <3>1. /\ drv' = drv \/ drv' = WD!SetMode(drv, "STA")
          /\ suppress' \in {suppress, FALSE} /\ st' \in {st, "IDLE"}
          /\ UNCHANGED <<bits, link, panic, trouble, cmds>>
      BY <1>3 DEF OpenHttpd, bounds
    <3>2. drv' \in WD!Drivers
      BY <1>0, <3>1, DriverCalls
    <3> QED BY <3>1, <3>2 DEF PlainOK, States
  <2>4. PortalTypeOK'
    BY <1>3 DEF OpenHttpd, StartHttpd, PortalTypeOK, Phases
  <2> QED BY <1>0, <2>1, <2>2, <2>3, <2>4, PlainDo DEF HttpdLabels
<1>4. CASE OpenEnd(t)
  <2>1. At(t, "start_open") /\ Do(t, <<>>)
    BY <1>4 DEF OpenEnd
  <2>2. LocOK' /\ SameNets
    BY <1>0, <1>4, SetLocTyped DEF OpenEnd
  <2>3. PlainOK'
    BY <1>4 DEF OpenEnd, PlainOK, bounds, States
  <2>4. PortalTypeOK'
    BY <1>4 DEF OpenEnd, PortalTypeOK, Phases
  <2> QED BY <1>0, <2>1, <2>2, <2>3, <2>4, Calls, PlainDo DEF HttpdLabels
<1> QED BY <1>1, <1>2, <1>3, <1>4 DEF OpenSteps

\* provisioning_stop.
LEMMA CloseType == ASSUME TypeInv, NEW t \in Callers, CloseSteps(t) PROVE TypeInv'
<1> USE DEF TypeInv
<1>0. /\ t \in Tasks /\ drv \in WD!Drivers /\ StoreOK' /\ LocOK' /\ SameNets
      /\ {"stop_httpd", "stop_radio", "stop_gate"} \subseteq Labels
  BY SameStore, SameLoc, TasksKnown
     DEF CloseSteps, CloseBegin, CloseHttpd, CloseRadio, CloseGate, PlainOK, Labels
<1>1. CASE CloseBegin(t)
  <2>0. /\ At(t, "stop")
        /\ \/ Do(t, <<>>)
           \/ Do(t, <<"stop_httpd">> \o <<"stop_radio", "stop_gate">>)
           \/ Do(t, <<>> \o <<"stop_radio", "stop_gate">>)
    BY <1>1 DEF CloseBegin
  <2>1. PICK c \in Seq(Labels) : At(t, "stop") /\ Do(t, c)
    BY <1>0, <2>0, Calls
  <2>2. PlainOK'
    BY <1>1 DEF CloseBegin, PlainOK, mgr, bounds
  <2>3. PortalTypeOK'
    BY <1>1 DEF CloseBegin, PortalTypeOK, Phases
  <2> QED BY <1>0, <2>1, <2>2, <2>3, PlainDo DEF HttpdLabels
<1>2. CASE CloseHttpd(t)
  <2>1. At(t, "stop_httpd") /\ Do(t, <<>>)
    BY <1>2 DEF CloseHttpd
  <2>2. PlainOK'
    BY <1>2 DEF CloseHttpd, PlainOK, mgr, bounds
  <2>3. PortalTypeOK'
    BY <1>2 DEF CloseHttpd, PortalTypeOK
  <2> QED BY <1>0, <2>1, <2>2, <2>3, Calls, PlainDo DEF HttpdLabels
<1>3. CASE CloseRadio(t)
  <2>1. At(t, "stop_radio") /\ Do(t, <<>>)
    BY <1>3 DEF CloseRadio
  <2>2. PlainOK'
    BY <1>0, <1>3, DriverCalls DEF CloseRadio, PlainOK, bounds
  <2>3. PortalTypeOK'
    BY <1>3 DEF CloseRadio, PortalTypeOK, portal
  <2> QED BY <1>0, <2>1, <2>2, <2>3, Calls, PlainDo DEF HttpdLabels
<1>4. CASE CloseGate(t)
  <2>1. At(t, "stop_gate") /\ Do(t, <<>>)
    BY <1>4 DEF CloseGate
  <2>2. PlainOK'
    BY <1>4 DEF CloseGate, PlainOK, bounds
  <2>3. PortalTypeOK'
    BY <1>4 DEF CloseGate, PortalTypeOK, portal
  <2> QED BY <1>0, <2>1, <2>2, <2>3, Calls, PlainDo DEF HttpdLabels
<1> QED BY <1>1, <1>2, <1>3, <1>4 DEF CloseSteps

\* provisioning_apply_or_start and finish_success_task only choose what comes next.
LEMMA ChoiceType ==
    ASSUME TypeInv, NEW t \in Callers, ApplyOrStartSteps(t) \/ FinishSteps(t)
    PROVE  TypeInv'
<1> USE DEF TypeInv
<1>0. /\ t \in Tasks /\ UNCHANGED <<store, mgr, loc, panic, bounds, portal>>
      /\ "unless_active" \in Labels
  BY TasksKnown DEF ApplyOrStartSteps, ReadCredentials, ReadActive, FinishSteps, FinishDelay, Finish, Labels
<1>1. PlainOK' /\ LocOK' /\ SameNets /\ StoreOK' /\ PortalTypeOK'
  <2>1. PlainOK'
    BY <1>0 DEF PlainOK, mgr, bounds
  <2>2. PortalTypeOK'
    BY <1>0 DEF PortalTypeOK, portal
  <2>3. LocOK' /\ SameNets
    BY <1>0, SameLoc
  <2> QED BY <1>0, <2>1, <2>2, <2>3, SameStore
<1>2. PICK label \in Labels \ HttpdLabels, c \in Seq(Labels) : At(t, label) /\ Do(t, c)
  <2>1. {"apply_or_start", "unless_active", "fin_delay", "fin"} \subseteq Labels \ HttpdLabels
    BY DEF Labels, HttpdLabels
  <2>2. CASE ReadCredentials(t)
    <3>1. Do(t, <<"unless_active">> \o Apply) \/ Do(t, Apply \o Open)
      BY <2>2 DEF ReadCredentials
    <3>2. <<"unless_active">> \o Apply \in Seq(Labels) /\ Apply \o Open \in Seq(Labels)
      BY <1>0, Calls
    <3> QED BY <2>1, <2>2, <3>1, <3>2 DEF ReadCredentials
  <2>3. CASE ReadActive(t)
    <3>1. Do(t, Close) \/ Do(t, <<>>)
      BY <2>3 DEF ReadActive
    <3> QED BY <2>1, <2>3, <3>1, Calls DEF ReadActive
  <2>4. CASE FinishDelay(t)
    BY <2>1, <2>4, Calls DEF FinishDelay
  <2>5. CASE Finish(t)
    <3>1. Close \o Apply \in Seq(Labels)
      BY Calls
    <3> QED BY <2>1, <2>5, <3>1 DEF Finish
  <2> QED BY <2>2, <2>3, <2>4, <2>5 DEF ApplyOrStartSteps, FinishSteps
<1> QED BY <1>0, <1>1, <1>2, PlainDo

\* app_main's own labels.
LEMMA BootType == ASSUME TypeInv, Boot \/ BootCheck, UNCHANGED portal PROVE TypeInv'
<1> USE DEF TypeInv
<1>1. /\ UNCHANGED <<store, mgr, loc, bounds>> /\ panic' \in BOOLEAN /\ Do("main", <<>>)
      /\ At("main", "boot") \/ At("main", "boot_check")
  BY DEF Boot, BootCheck, PlainOK
<1>2. PlainOK'
  BY <1>1 DEF PlainOK, mgr, bounds
<1>3. PortalTypeOK'
  BY DEF PortalTypeOK, portal
<1>4. TodoOK' /\ HttpdOK'
  BY <1>1, Calls, SameLoc, PlainDo, TasksKnown DEF HttpdLabels
<1> QED BY <1>1, <1>2, <1>3, <1>4, SameLoc, SameStore

\* connect_post_handler: it names a network, and stores it after a successful test.
LEMMA PostType == ASSUME TypeInv, PostForm PROVE TypeInv'
<1> USE DEF TypeInv
<1>1. PICK s \in Names : Submit(s)
  BY DEF PostForm
<1>2. /\ UNCHANGED <<store, drv, st, suppress, bits, link, panic, trouble>>
      /\ cmds' \in 0..MaxCmds
      /\ UNCHANGED <<active, httpd, server, dns>> /\ testing' = TRUE /\ phase' = "TESTING"
      /\ SetLoc("httpd", "net", s) /\ Start("httpd", Test \o <<"test_result">>)
  BY <1>1, MgrAssumption DEF PostForm, Input, Submit, mgr, PlainOK
<1>3. PlainOK'
  BY <1>2 DEF PlainOK
<1>4. PortalTypeOK'
  BY <1>2 DEF PortalTypeOK, Phases
<1>5. LocOK' /\ loc'["httpd"].net = s
  BY <1>2, SetLocTyped, TasksKnown
<1>6. Test \o <<"test_result">> = <<"test", "test_drain", "test_result">>
  <2>1. "test" \in HttpdLabels /\ "test_drain" \in HttpdLabels /\ "test_result" \in HttpdLabels
    BY DEF HttpdLabels
  <2> QED BY <2>1, ThreeLabels DEF Test
<1>7. <<"test", "test_drain", "test_result">> \in Seq(Labels)
  <2>1. "test" \in Labels /\ "test_drain" \in Labels /\ "test_result" \in Labels
    BY DEF Labels
  <2> QED BY <2>1
<1>8. TodoOK' /\ todo'["httpd"] = <<"test", "test_drain", "test_result">>
  BY <1>2, <1>6, <1>7, StartTyped, TasksKnown
<1>9. HttpdOK'
  BY <1>5, <1>8 DEF HttpdOK, HttpdPrograms
<1> QED BY <1>2, <1>3, <1>4, <1>5, <1>8, <1>9, SameStore

LEMMA ResultStore ==
    ASSUME TypeInv, TestResult
    PROVE  [CS!Next]_(CS!vars)
<1>1. CASE UNCHANGED store
  BY <1>1 DEF store, CS!vars
<1>2. CASE CS!PortalSuccess(loc["httpd"].net, Blank)
  <2>1. loc["httpd"].net \in Names /\ Blank \in CS!Passes
    BY DEF TypeInv, HttpdOK, TestResult, At, CS!Passes
  <2> QED BY <1>2, <2>1 DEF CS!Next
<1> QED BY <1>1, <1>2 DEF TestResult

LEMMA ResultType == ASSUME TypeInv, TestResult PROVE TypeInv'
<1> USE DEF TypeInv
<1>1. StoreOK'
  BY ResultStore, StoreStep
<1>2. /\ UNCHANGED <<drv, suppress, bits, link, panic, bounds, active, httpd, server, dns>>
      /\ testing' = FALSE /\ phase' \in Phases /\ st' \in {st, "PROVISIONING"}
      /\ SetLoc("httpd", "net", Blank) /\ At("httpd", "test_result")
  BY DEF TestResult, Phases
<1>3. PlainOK'
  BY <1>2 DEF PlainOK, bounds, States
<1>4. PortalTypeOK'
  BY <1>2 DEF PortalTypeOK
<1>5. LocOK'
  BY <1>2, SetLocTyped, TasksKnown
<1>6. todo["httpd"] = <<"test_result">>
  BY <1>2, HttpdHead
<1>7. Tail(<<"test_result">>) = <<>> /\ <<>> \o Tail(<<"test_result">>) = <<>>
  OBVIOUS
<1>8. TodoOK' /\ todo'["httpd"] = <<>>
  <2>1. CASE Do("httpd", <<>>)
    <3>1. todo' = [todo EXCEPT !["httpd"] = <<>>]
      BY <1>6, <1>7, <2>1 DEF Do
    <3> QED BY <3>1, Calls, TasksKnown DEF TodoOK
  <2>2. ASSUME NEW f \in Finishers, Idle(f),
               todo' = [todo EXCEPT !["httpd"] = Tail(@), ![f] = <<"fin_delay", "fin">>]
        PROVE  TodoOK' /\ todo'["httpd"] = <<>>
    <3>1. f # "httpd" /\ f \in Tasks
      BY <1>6, <2>2, TasksKnown DEF Idle
    <3>2. "fin_delay" \in Labels /\ "fin" \in Labels
      BY DEF Labels
    <3>3. <<"fin_delay", "fin">> \in Seq(Labels) /\ <<>> \in Seq(Labels)
      BY <3>2, Calls
    <3>4. todo' = [todo EXCEPT !["httpd"] = <<>>, ![f] = <<"fin_delay", "fin">>]
      BY <1>6, <1>7, <2>2
    <3> QED BY <3>1, <3>3, <3>4, TasksKnown DEF TodoOK
  <2> QED BY <2>1, <2>2 DEF TestResult
<1>9. HttpdOK'
  BY <1>8 DEF HttpdOK, HttpdPrograms
<1> QED BY <1>1, <1>3, <1>4, <1>5, <1>8, <1>9

\* The user's other inputs.
LEMMA InputStore == ASSUME Edit \/ ScanCmd \/ ConfirmReset PROVE [CS!Next]_(CS!vars)
<1>1. CASE Edit
  BY <1>1 DEF Edit, CS!Next
<1>2. CASE ScanCmd
  BY <1>2 DEF ScanCmd, store, CS!vars
<1>3. CASE ConfirmReset
  BY <1>3 DEF ConfirmReset, CS!Next
<1> QED BY <1>1, <1>2, <1>3

LEMMA InputType == ASSUME TypeInv, Edit \/ ScanCmd \/ ConfirmReset PROVE TypeInv'
<1> USE DEF TypeInv
<1>1. StoreOK'
  BY InputStore, StoreStep
<1>2. /\ UNCHANGED <<drv, st, suppress, bits, link, panic, trouble, portal>> /\ cmds' \in 0..MaxCmds
  BY MgrAssumption DEF Edit, ScanCmd, ConfirmReset, Input, mgr, PlainOK
<1>3. PlainOK'
  BY <1>2 DEF PlainOK
<1>4. PortalTypeOK'
  BY <1>2 DEF PortalTypeOK, portal
<1>5. LocOK' /\ SameNets
  <2>1. UNCHANGED loc \/ SetLoc("tud", "re", ~active)
    BY DEF Edit, ScanCmd, ConfirmReset
  <2>2. (~active) \in BOOLEAN
    OBVIOUS
  <2> QED BY <2>1, <2>2, SameLoc, SetLocTyped, TasksKnown
<1>6. PICK t \in {"tud", "btn"}, c \in Seq(Labels) : Start(t, c)
  BY Calls DEF Edit, ScanCmd, ConfirmReset
<1>7. TodoOK' /\ todo'["httpd"] = todo["httpd"]
  BY <1>6, StartTyped, TasksKnown
<1>8. HttpdOK'
  BY <1>5, <1>7, TasksKnown DEF HttpdOK, SameNets
<1> QED BY <1>1, <1>3, <1>4, <1>5, <1>7, <1>8

\* on_wifi_event.
LEMMA EventType == ASSUME TypeInv, OnWifiEvent, UNCHANGED portal PROVE TypeInv'
<1> USE DEF TypeInv
<1>0. /\ UNCHANGED <<store, suppress, loc, panic, trouble, cmds>>
  BY DEF OnWifiEvent, OnStart, OnConnected, Arm, ReportOk, OnDisconnected, Retry, EvConnect, OnScanDone,
         bounds, tasks
<1>1. st' \in States
  BY DEF OnWifiEvent, OnStart, OnConnected, Arm, ReportOk, OnDisconnected, Retry, EvConnect, OnScanDone,
         DisconnectLabel, PlainOK, States
<1>2. bits' \subseteq {"ok", "fail", "scan"}
  BY DEF OnWifiEvent, OnStart, OnConnected, Arm, ReportOk, OnDisconnected, Retry, EvConnect, OnScanDone,
         PlainOK
<1>3. link' \in BOOLEAN
  BY DEF OnWifiEvent, OnStart, OnConnected, Arm, ReportOk, OnDisconnected, Retry, EvConnect, OnScanDone,
         PlainOK
<1>4. drv' \in WD!Drivers
  <2>1. \/ drv' = drv \/ drv' = WD!Connect(drv)
        \/ \E x : NextEvent(x) /\ drv' = Popped
    BY DEF OnWifiEvent, OnStart, OnConnected, Arm, ReportOk, OnDisconnected, Retry, EvConnect, OnScanDone
  <2> QED BY <2>1, DriverCalls, PoppedDriver DEF PlainOK
<1>5. PlainOK'
  BY <1>0, <1>1, <1>2, <1>3, <1>4 DEF PlainOK
<1>6. TodoOK' /\ HttpdOK'
  <2>1. {"ev_connect", "ev_arm", "ev_ok", "ev_retry"} \subseteq Labels \ HttpdLabels
    BY DEF Labels, HttpdLabels
  <2>2. /\ <<>> \in Seq(Labels) /\ <<"ev_connect">> \in Seq(Labels) /\ <<"ev_retry">> \in Seq(Labels)
        /\ <<"ev_arm", "ev_ok">> \in Seq(Labels) /\ <<"ev_ok">> \in Seq(Labels)
    BY <2>1, Calls
  <2>3. \/ UNCHANGED todo
        \/ \E c \in Seq(Labels) : Start("sys_evt", c)
        \/ \E label \in Labels \ HttpdLabels, c \in Seq(Labels) : At("sys_evt", label) /\ Do("sys_evt", c)
    <3>1. CASE OnStart
      BY <2>2, <3>1 DEF OnStart
    <3>2. CASE OnConnected
      BY <2>2, <3>2 DEF OnConnected
    <3>3. CASE OnDisconnected
      BY <2>2, <3>3 DEF OnDisconnected
    <3>4. CASE OnScanDone
      BY <3>4 DEF OnScanDone, tasks
    <3>5. CASE Arm \/ ReportOk \/ EvConnect
      BY <2>1, <2>2, <3>5 DEF Arm, ReportOk, EvConnect
    <3>6. CASE Retry
      BY <2>1, <2>2, <3>6 DEF Retry
    <3> QED BY <3>1, <3>2, <3>3, <3>4, <3>5, <3>6 DEF OnWifiEvent
  <2>4. CASE UNCHANGED todo
    BY <1>0, <2>4 DEF TodoOK, HttpdOK
  <2>5. ASSUME NEW c \in Seq(Labels), Start("sys_evt", c) PROVE TodoOK' /\ HttpdOK'
    <3>1. TodoOK' /\ todo'["httpd"] = todo["httpd"]
      BY <2>5, StartTyped, TasksKnown
    <3> QED BY <1>0, <3>1 DEF HttpdOK
  <2>6. ASSUME NEW label \in Labels \ HttpdLabels, NEW c \in Seq(Labels),
               At("sys_evt", label), Do("sys_evt", c)
        PROVE  TodoOK' /\ HttpdOK'
    BY <1>0, <2>6, SameLoc, PlainDo, TasksKnown
  <2> QED BY <2>3, <2>4, <2>5, <2>6
<1>7. PortalTypeOK'
  BY DEF PortalTypeOK, portal
<1> QED BY <1>0, <1>5, <1>6, <1>7, SameLoc, SameStore

LEMMA AirType == ASSUME TypeInv, Air, UNCHANGED portal PROVE TypeInv'
<1> USE DEF TypeInv
<1>1. /\ UNCHANGED <<store, st, suppress, bits, link, tasks, cmds>> /\ trouble' \in 0..MaxTrouble
      /\ drv' \in WD!Associated(drv) \cup WD!Refused(drv) \cup WD!Lost(drv) \cup WD!Scanned(drv)
  BY MgrAssumption DEF Air, AirAssociates, AirTrouble, AirScanned, bounds, PlainOK
<1>2. drv' \in WD!Drivers
  BY <1>1, AirCalls DEF PlainOK
<1>3. PlainOK'
  BY <1>1, <1>2 DEF PlainOK, tasks
<1>4. PortalTypeOK'
  BY DEF PortalTypeOK, portal
<1>5. TodoOK' /\ LocOK' /\ HttpdOK'
  BY <1>1 DEF tasks, TodoOK, LocOK, HttpdOK
<1> QED BY <1>1, <1>3, <1>4, <1>5, SameStore

LEMMA TypeInit == ASSUME Init PROVE TypeInv
<1>1. /\ drv = WD!Started /\ st = "IDLE" /\ suppress = FALSE /\ bits = {} /\ link = FALSE
      /\ todo = [t \in Tasks |-> IF t = "main" THEN BootProgram ELSE <<>>]
      /\ loc = [t \in Tasks |-> NoLocals]
      /\ panic = FALSE /\ trouble = 0 /\ cmds = 0 /\ PortalInit
  BY DEF Init, MgrInit
<1>2. drv \in WD!Drivers
  <2>1. "start" \in WD!Events
    BY DEF WD!Events
  <2> QED BY <1>1, <2>1 DEF WD!Started, WD!Drivers
<1>3. PlainOK
  <2>1. trouble \in 0..MaxTrouble /\ cmds \in 0..MaxCmds
    BY <1>1, MgrAssumption
  <2> QED BY <1>1, <1>2, <2>1 DEF PlainOK, States
<1>4. PortalTypeOK
  BY <1>1 DEF PortalInit, PortalTypeOK, Phases
<1>5. NoLocals \in Locals /\ NoLocals.ptr = CS!ActiveNone
  BY DEF NoLocals, Locals, States, CS!ActiveNone
<1>6. LocOK
  BY <1>1, <1>5 DEF LocOK
<1>7. BootProgram \in Seq(Labels) /\ <<>> \in Seq(Labels)
  <2>1. "boot" \in Labels /\ "boot_check" \in Labels
    BY DEF Labels
  <2>2. <<"boot">> \in Seq(Labels) /\ <<"boot_check">> \in Seq(Labels)
    BY <2>1, Calls
  <2>3. <<"boot">> \o ApplyOrStart \in Seq(Labels)
    BY <2>2, Calls
  <2> QED BY <2>2, <2>3, Calls DEF BootProgram
<1>8. TodoOK /\ todo["httpd"] = <<>>
  BY <1>1, <1>7, TasksKnown DEF TodoOK
<1>9. HttpdOK
  BY <1>8 DEF HttpdOK, HttpdPrograms
<1> QED BY <1>3, <1>4, <1>6, <1>8, <1>9, StoreInit DEF TypeInv

LEMMA TypeStep == TypeInv /\ [Next]_allVars => TypeInv'
<1> SUFFICES ASSUME TypeInv, [Next]_allVars PROVE TypeInv'
  OBVIOUS
<1>1. CASE (Boot \/ BootCheck \/ OnWifiEvent \/ Air) /\ UNCHANGED portal
  BY <1>1, BootType, EventType, AirType
<1>2. ASSUME NEW t \in Callers, CallsOf(t) PROVE TypeInv'
  BY <1>2, ApplyType, ScanType, TestType, OpenType, CloseType, ChoiceType DEF CallsOf
<1>3. CASE TestResult
  BY <1>3, ResultType
<1>4. CASE Edit \/ ScanCmd \/ ConfirmReset \/ PostForm
  BY <1>4, InputType, PostType
<1>5. CASE UNCHANGED allVars
  <2>1. UNCHANGED <<store, loc, portal>> /\ UNCHANGED <<mgr, tasks, bounds>>
    BY <1>5 DEF allVars, vars, tasks
  <2>2. PlainOK' /\ TodoOK' /\ PortalTypeOK' /\ HttpdOK'
    BY <2>1 DEF TypeInv, PlainOK, TodoOK, PortalTypeOK, HttpdOK, mgr, tasks, bounds, portal
  <2> QED BY <2>1, <2>2, SameStore, SameLoc DEF TypeInv
<1> QED BY <1>1, <1>2, <1>3, <1>4, <1>5 DEF Next, Rest

\* For any tasks, inputs and failures, the manager's and the portal's variables keep their types: in
\* particular every pointer apply holds into the profile array is a slot that exists.
THEOREM FirmwareTypeCorrect == Spec => []TypeOK
<1>1. TypeInv => TypeOK
  BY DEF TypeInv, TypeOK, StoreOK, MgrTypeOK, PlainOK, TodoOK, LocOK
<1> QED BY TypeInit, TypeStep, <1>1, PTL DEF Spec

\* Nothing the firmware's tasks do to the configuration, in any interleaving, is other than a command of
\* ConfigStore or a stutter; so the store they share stays well-formed, in RAM and in flash.
THEOREM StoreOnlyByCommands == Spec => [][CS!Next]_(CS!vars) /\ []CS!StoreWellFormed
<1>1. TypeInv /\ [Next]_allVars => [CS!Next]_(CS!vars)
  <2> SUFFICES ASSUME TypeInv, [Next]_allVars PROVE [CS!Next]_(CS!vars)
    OBVIOUS
  <2>1. CASE Edit \/ ScanCmd \/ ConfirmReset
    BY <2>1, InputStore
  <2>2. CASE TestResult
    BY <2>2, ResultStore
  <2>3. CASE PostForm
    BY <2>3 DEF PostForm, Submit, store, CS!vars
  <2>4. CASE Boot \/ BootCheck \/ OnWifiEvent \/ Air
    BY <2>4 DEF Boot, BootCheck, OnWifiEvent, Air, OnStart, OnConnected, Arm, ReportOk, OnDisconnected,
           Retry, EvConnect, OnScanDone, AirAssociates, AirTrouble, AirScanned, store, CS!vars
  <2>5. ASSUME NEW t \in Callers, CallsOf(t) PROVE UNCHANGED store
    <3>1. CASE ApplySteps(t)
      BY <3>1 DEF ApplySteps, ApplyDisconnect, ApplyCheck, ApplyConf, ApplyConnect
    <3>2. CASE ScanSteps(t)
      BY <3>2 DEF ScanSteps, ScanEnter, ScanDisconnect, ScanStart, ScanWait, ScanExit
    <3>3. CASE TestSteps(t)
      BY <3>3 DEF TestSteps, TestDisconnect, TestConf, TestConnect, TestWait
    <3>4. CASE OpenSteps(t)
      BY <3>4 DEF OpenSteps, OpenBegin, OpenSoftap, OpenHttpd, OpenEnd
    <3>5. CASE CloseSteps(t)
      BY <3>5 DEF CloseSteps, CloseBegin, CloseHttpd, CloseRadio, CloseGate
    <3>6. CASE ApplyOrStartSteps(t) \/ FinishSteps(t)
      BY <3>6 DEF ApplyOrStartSteps, ReadCredentials, ReadActive, FinishSteps, FinishDelay, Finish
    <3> QED BY <2>5, <3>1, <3>2, <3>3, <3>4, <3>5, <3>6 DEF CallsOf
  <2>6. CASE UNCHANGED allVars
    BY <2>6 DEF allVars, vars, store, CS!vars
  <2> QED BY <2>1, <2>2, <2>3, <2>4, <2>5, <2>6 DEF Next, Rest, store, CS!vars
<1>2. TypeInv => CS!StoreWellFormed
  BY DEF TypeInv, StoreOK
<1> QED BY TypeInit, TypeStep, <1>1, <1>2, PTL DEF Spec

----------------------------------------------------------------------------
(* What is still promised.  Whatever the tasks do to each other, a closed
   gate, a SoftAP on the air and a phase other than idle or open are each
   owed to a portal that is open or to a label some task has yet to execute. *)

Elems(s) == {s[i] : i \in 1..Len(s)}

Promised(L) == \E t \in Tasks : Elems(todo[t]) \cap L # {}

GateLabels == {"start_httpd", "start_open", "stop_gate"}
RadioLabels == {"start_httpd", "start_open", "stop_radio"}
PhaseLabels == {"start_httpd", "start_open", "test_result", "fin", "stop"}
Settling == GateLabels \cup RadioLabels \cup PhaseLabels

\* start_softap is never the last thing provisioning_start has to do.
SoftapFollowed(s) ==
    \A i \in 1..Len(s) : s[i] = "start_softap" => \E j \in (i + 1)..Len(s) : s[j] = "start_httpd"

GateInv == suppress => active \/ Promised(GateLabels)
RadioInv == drv.mode = "APSTA" => active \/ Promised(RadioLabels)
PhaseInv == phase \notin {"IDLE", "PORTAL"} => Promised(PhaseLabels)
FollowInv == \A t \in Tasks : SoftapFollowed(todo[t])

\* The inductive invariant.
PromiseInv == GateInv /\ RadioInv /\ PhaseInv /\ FollowInv

LEMMA ConcatElems ==
    ASSUME NEW S, NEW s \in Seq(S), NEW u \in Seq(S)
    PROVE  /\ Elems(s \o u) = Elems(s) \cup Elems(u)
           /\ SoftapFollowed(s) /\ SoftapFollowed(u) => SoftapFollowed(s \o u)
<1>0. Len(s) \in Nat /\ Len(u) \in Nat
  BY LenProperties
<1>1. PICK r : r = s \o u
  OBVIOUS
<1>2. /\ Len(r) = Len(s) + Len(u)
      /\ \A i \in 1..(Len(s) + Len(u)) : r[i] = IF i <= Len(s) THEN s[i] ELSE u[i - Len(s)]
  BY <1>1, ConcatProperties
<1>3. \A i \in 1..Len(s) : i \in 1..Len(r) /\ r[i] = s[i]
  BY <1>0, <1>2
<1>4. ASSUME NEW i \in 1..Len(u) PROVE Len(s) + i \in 1..Len(r) /\ r[Len(s) + i] = u[i]
  <2>1. /\ Len(s) + i \in 1..(Len(s) + Len(u)) /\ ~(Len(s) + i <= Len(s))
        /\ (Len(s) + i) - Len(s) = i
    BY <1>0
  <2> QED BY <1>2, <2>1
<1>5. Elems(r) = Elems(s) \cup Elems(u)
  <2>1. ASSUME NEW x \in Elems(r) PROVE x \in Elems(s) \cup Elems(u)
    <3>1. PICK i \in 1..Len(r) : x = r[i]
      BY <2>1 DEF Elems
    <3>2. CASE i <= Len(s)
      BY <1>0, <1>2, <3>1, <3>2 DEF Elems
    <3>3. CASE ~(i <= Len(s))
      <4>1. i - Len(s) \in 1..Len(u) /\ x = u[i - Len(s)]
        BY <1>0, <1>2, <3>1, <3>3
      <4> QED BY <4>1 DEF Elems
    <3> QED BY <3>2, <3>3
  <2>2. ASSUME NEW x \in Elems(s) \cup Elems(u) PROVE x \in Elems(r)
    BY <1>3, <1>4, <2>2 DEF Elems
  <2> QED BY <2>1, <2>2
<1>6. ASSUME SoftapFollowed(s), SoftapFollowed(u) PROVE SoftapFollowed(r)
  <2>1. SUFFICES ASSUME NEW i \in 1..Len(r), r[i] = "start_softap"
                 PROVE  \E j \in (i + 1)..Len(r) : r[j] = "start_httpd"
    BY DEF SoftapFollowed
  <2>2. CASE i <= Len(s)
    <3>1. i \in 1..Len(s) /\ s[i] = "start_softap"
      BY <1>0, <1>2, <2>1, <2>2
    <3>2. PICK j \in (i + 1)..Len(s) : s[j] = "start_httpd"
      BY <1>6, <3>1 DEF SoftapFollowed
    <3>3. j \in (i + 1)..Len(r) /\ r[j] = "start_httpd"
      BY <1>0, <1>2, <1>3, <3>2
    <3> QED BY <3>3
  <2>3. CASE ~(i <= Len(s))
    <3>1. i - Len(s) \in 1..Len(u) /\ u[i - Len(s)] = "start_softap"
      BY <1>0, <1>2, <2>1, <2>3
    <3>2. PICK j \in ((i - Len(s)) + 1)..Len(u) : u[j] = "start_httpd"
      BY <1>6, <3>1 DEF SoftapFollowed
    <3>3. Len(s) + j \in (i + 1)..Len(r) /\ r[Len(s) + j] = "start_httpd"
      BY <1>0, <1>2, <1>4, <3>1, <3>2
    <3> QED BY <3>3
  <2> QED BY <2>2, <2>3
<1> QED BY <1>1, <1>5, <1>6

LEMMA TailElems ==
    ASSUME NEW S, NEW s \in Seq(S), s # <<>>
    PROVE  /\ Elems(s) = {Head(s)} \cup Elems(Tail(s))
           /\ SoftapFollowed(s) => SoftapFollowed(Tail(s))
           /\ SoftapFollowed(s) /\ Head(s) = "start_softap" => "start_httpd" \in Elems(Tail(s))
<1>0. PICK r : r = Tail(s)
  OBVIOUS
<1>1. /\ Len(s) \in Nat \ {0} /\ Head(s) = s[1] /\ Len(r) = Len(s) - 1
      /\ \A i \in 1..Len(r) : r[i] = s[i + 1]
  BY <1>0, HeadTailProperties, EmptySeq
<1>2. \A i \in 2..Len(s) : i - 1 \in 1..Len(r) /\ r[i - 1] = s[i]
  BY <1>1
<1>3. Elems(s) = {Head(s)} \cup Elems(r)
  <2>1. ASSUME NEW x \in Elems(s) PROVE x \in {Head(s)} \cup Elems(r)
    <3>1. PICK i \in 1..Len(s) : x = s[i]
      BY DEF Elems
    <3>2. i = 1 \/ i \in 2..Len(s)
      BY <1>1
    <3> QED BY <1>1, <1>2, <3>1, <3>2 DEF Elems
  <2>2. ASSUME NEW x \in {Head(s)} \cup Elems(r) PROVE x \in Elems(s)
    <3>1. \A i \in 1..Len(r) : i + 1 \in 1..Len(s)
      BY <1>1
    <3>2. 1 \in 1..Len(s)
      BY <1>1
    <3> QED BY <1>1, <2>2, <3>1, <3>2 DEF Elems
  <2> QED BY <2>1, <2>2
<1>4. ASSUME SoftapFollowed(s) PROVE SoftapFollowed(r)
  <2>1. SUFFICES ASSUME NEW i \in 1..Len(r), r[i] = "start_softap"
                 PROVE  \E j \in (i + 1)..Len(r) : r[j] = "start_httpd"
    BY DEF SoftapFollowed
  <2>2. i + 1 \in 1..Len(s) /\ s[i + 1] = "start_softap"
    BY <1>1, <2>1
  <2>3. PICK j \in ((i + 1) + 1)..Len(s) : s[j] = "start_httpd"
    BY <1>4, <2>2 DEF SoftapFollowed
  <2>4. j - 1 \in (i + 1)..Len(r) /\ r[j - 1] = "start_httpd"
    BY <1>1, <1>2, <2>3
  <2> QED BY <2>4
<1>5. ASSUME SoftapFollowed(s), Head(s) = "start_softap" PROVE "start_httpd" \in Elems(r)
  <2>1. 1 \in 1..Len(s) /\ s[1] = "start_softap"
    BY <1>1, <1>5
  <2>2. PICK j \in (1 + 1)..Len(s) : s[j] = "start_httpd"
    BY <1>5, <2>1 DEF SoftapFollowed
  <2>3. j - 1 \in 1..Len(r) /\ r[j - 1] = "start_httpd"
    BY <1>1, <1>2, <2>2
  <2> QED BY <2>3 DEF Elems
<1> QED BY <1>0, <1>3, <1>4, <1>5

\* A program that calls may put in front.
Callable(c) == c \in Seq(Labels) /\ SoftapFollowed(c)

LEMMA LastElems ==
    ASSUME NEW s, Callable(s), NEW u, Callable(u), NEW c, c = s \o u, NEW x \in Elems(u)
    PROVE  x \in Elems(c)
  BY ConcatElems DEF Callable

LEMMA EmptyElems == Elems(<<>>) = {} /\ SoftapFollowed(<<>>)
<1>1. 1..Len(<<>>) = {}
  BY EmptySeq
<1> QED BY <1>1 DEF Elems, SoftapFollowed

LEMMA LabelElems ==
    ASSUME NEW a, NEW b
    PROVE  /\ Elems(<<a>>) = {a} /\ Elems(<<a, b>>) = {a, b}
           /\ a # "start_softap" => SoftapFollowed(<<a>>)
           /\ b # "start_softap" /\ (a = "start_softap" => b = "start_httpd") => SoftapFollowed(<<a, b>>)
<1>1. Len(<<a>>) = 1 /\ <<a>>[1] = a /\ 1..1 = {1}
  OBVIOUS
<1>2. Len(<<a, b>>) = 2 /\ <<a, b>>[1] = a /\ <<a, b>>[2] = b /\ 1..2 = {1, 2} /\ 2 \in (1 + 1)..2
  OBVIOUS
<1>3. Elems(<<a>>) = {a} /\ (a # "start_softap" => SoftapFollowed(<<a>>))
  BY <1>1 DEF Elems, SoftapFollowed
<1>4. Elems(<<a, b>>) = {a, b}
  BY <1>2 DEF Elems
<1>5. ASSUME b # "start_softap", a = "start_softap" => b = "start_httpd"
      PROVE  SoftapFollowed(<<a, b>>)
  BY <1>2, <1>5 DEF SoftapFollowed
<1> QED BY <1>3, <1>4, <1>5

LEMMA Callables ==
    /\ Callable(<<>>) /\ Callable(Apply) /\ Callable(Scan) /\ Callable(Open) /\ Callable(Close)
    /\ Callable(ApplyOrStart)
    /\ \A a \in Labels \ {"start_softap"} : Callable(<<a>>)
    /\ \A a, b \in Labels \ {"start_softap"} : Callable(<<a, b>>)
    /\ \A s, u : Callable(s) /\ Callable(u) => Callable(s \o u)
<1>1. \A s, u : Callable(s) /\ Callable(u) => Callable(s \o u)
  BY Calls, ConcatElems DEF Callable
<1>2. ASSUME NEW a \in Labels \ {"start_softap"}, NEW b \in Labels \ {"start_softap"}
      PROVE  Callable(<<a>>) /\ Callable(<<a, b>>)
  BY Calls, LabelElems DEF Callable
<1>3. Callable(<<>>)
  BY Calls, EmptyElems DEF Callable
<1>4. {"apply", "apply_check", "scan", "scan_disconnect", "scan_start", "start", "stop", "apply_or_start"}
        \subseteq Labels \ {"start_softap"}
  BY DEF Labels
<1>5. Callable(Apply) /\ Callable(Open) /\ Callable(Close) /\ Callable(ApplyOrStart)
  BY <1>2, <1>4 DEF Apply, Open, Close, ApplyOrStart
<1>6. Callable(Scan)
  <2>1. Callable(<<"scan", "scan_disconnect">>) /\ Callable(<<"scan_start">>)
    BY <1>2, <1>4
  <2>2. <<"scan", "scan_disconnect">> \o <<"scan_start">> = Scan
    BY <1>4, ThreeLabels DEF Scan
  <2> QED BY <1>1, <2>1, <2>2
<1> QED BY <1>1, <1>2, <1>3, <1>5, <1>6

\* A label executed breaks no promise but its own, keeps those of the program in front, and those behind it stay.
LEMMA DoPromises ==
    ASSUME TodoOK, FollowInv, NEW t \in Tasks, todo[t] # <<>>, NEW c, Callable(c), Do(t, c)
    PROVE  /\ FollowInv'
           /\ \A L : Promised(L) /\ Head(todo[t]) \notin L => Promised(L)'
           /\ \A L : Elems(c) \cap L # {} => Promised(L)'
           /\ Head(todo[t]) = "start_softap" => \A L : "start_httpd" \in L => Promised(L)'
<1>1. todo[t] \in Seq(Labels) /\ c \in Seq(Labels) /\ SoftapFollowed(c) /\ SoftapFollowed(todo[t])
  BY DEF TodoOK, Callable, FollowInv
<1>2. PICK r : r = Tail(todo[t])
  OBVIOUS
<1>3. /\ r \in Seq(Labels) /\ Elems(todo[t]) = {Head(todo[t])} \cup Elems(r) /\ SoftapFollowed(r)
      /\ Head(todo[t]) = "start_softap" => "start_httpd" \in Elems(r)
  BY <1>1, <1>2, TailElems, HeadTailProperties
<1>4. /\ todo'[t] = c \o r /\ \A u \in Tasks \ {t} : todo'[u] = todo[u]
  BY <1>1, <1>2, DoTyped
<1>5. Elems(todo'[t]) = Elems(c) \cup Elems(r) /\ SoftapFollowed(todo'[t])
  BY <1>1, <1>3, <1>4, ConcatElems
<1>6. FollowInv'
  BY <1>4, <1>5 DEF FollowInv
<1>7. ASSUME NEW L, Promised(L), Head(todo[t]) \notin L PROVE Promised(L)'
  <2>1. PICK u \in Tasks : Elems(todo[u]) \cap L # {}
    BY <1>7 DEF Promised
  <2>2. CASE u = t
    BY <1>3, <1>5, <1>7, <2>1, <2>2 DEF Promised
  <2>3. CASE u # t
    BY <1>4, <2>1, <2>3 DEF Promised
  <2> QED BY <2>2, <2>3
<1>8. ASSUME NEW L, Elems(c) \cap L # {} PROVE Promised(L)'
  BY <1>5, <1>8 DEF Promised
<1>9. ASSUME Head(todo[t]) = "start_softap", NEW L, "start_httpd" \in L PROVE Promised(L)'
  BY <1>3, <1>5, <1>9 DEF Promised
<1> QED BY <1>6, <1>7, <1>8, <1>9

\* A program started breaks no promise.
LEMMA StartPromises ==
    ASSUME TodoOK, FollowInv, NEW t \in Tasks, NEW c, Callable(c), Start(t, c)
    PROVE  /\ FollowInv'
           /\ \A L : Promised(L) => Promised(L)'
           /\ \A L : Elems(c) \cap L # {} => Promised(L)'
<1>1. /\ todo[t] = <<>> /\ todo'[t] = c /\ \A u \in Tasks \ {t} : todo'[u] = todo[u]
  BY StartTyped DEF Callable
<1>2. FollowInv'
  BY <1>1 DEF FollowInv, Callable
<1>3. ASSUME NEW L, Promised(L) PROVE Promised(L)'
  <2>1. PICK u \in Tasks : Elems(todo[u]) \cap L # {}
    BY <1>3 DEF Promised
  <2>2. u # t
    BY <1>1, <2>1, EmptyElems
  <2> QED BY <1>1, <2>1, <2>2 DEF Promised
<1>4. ASSUME NEW L, Elems(c) \cap L # {} PROVE Promised(L)'
  BY <1>1, <1>4 DEF Promised
<1> QED BY <1>2, <1>3, <1>4

\* A step that opens nothing, closes nothing and executes none of the labels that settle something.
Quiet ==
    /\ suppress' => suppress
    /\ drv'.mode = "APSTA" => drv.mode = "APSTA"
    /\ phase' = phase /\ active' = active

LEMMA QuietDo ==
    ASSUME TodoOK, PromiseInv, NEW t \in Tasks, NEW label, label \notin Settling, At(t, label),
           NEW c, Callable(c), Do(t, c), Quiet
    PROVE  PromiseInv'
<1>1. todo[t] # <<>> /\ Head(todo[t]) \notin GateLabels /\ Head(todo[t]) \notin RadioLabels
      /\ Head(todo[t]) \notin PhaseLabels /\ FollowInv
  BY DEF At, Settling, PromiseInv
<1>2. /\ FollowInv'
      /\ Promised(GateLabels) => Promised(GateLabels)'
      /\ Promised(RadioLabels) => Promised(RadioLabels)'
      /\ Promised(PhaseLabels) => Promised(PhaseLabels)'
  BY <1>1, DoPromises
<1> QED BY <1>2 DEF PromiseInv, GateInv, RadioInv, PhaseInv, Quiet

LEMMA QuietStart ==
    ASSUME TodoOK, PromiseInv, NEW t \in Tasks, NEW c, Callable(c), Start(t, c), Quiet
    PROVE  PromiseInv'
<1>1. FollowInv
  BY DEF PromiseInv
<1>2. /\ FollowInv'
      /\ Promised(GateLabels) => Promised(GateLabels)'
      /\ Promised(RadioLabels) => Promised(RadioLabels)'
      /\ Promised(PhaseLabels) => Promised(PhaseLabels)'
  BY <1>1, StartPromises
<1> QED BY <1>2 DEF PromiseInv, GateInv, RadioInv, PhaseInv, Quiet

LEMMA QuietElse == ASSUME PromiseInv, UNCHANGED todo, Quiet PROVE PromiseInv'
  BY DEF PromiseInv, GateInv, RadioInv, PhaseInv, FollowInv, Promised, Quiet

\* The labels that have nothing to settle, and are not start_softap.
PlainLabels == Labels \ (Settling \cup {"start_softap"})

LEMMA PlainLabelsAre ==
    PlainLabels = {"ev_connect", "ev_arm", "ev_ok", "ev_retry",
                   "apply", "apply_check", "apply_conf", "apply_connect",
                   "scan", "scan_disconnect", "scan_start", "scan_wait", "scan_exit",
                   "test", "test_drain", "test_connect", "test_wait",
                   "boot", "boot_check", "apply_or_start", "unless_active",
                   "start", "stop_httpd", "fin_delay"}
  BY DEF PlainLabels, Labels, Settling, GateLabels, RadioLabels, PhaseLabels

LEMMA PlainCalls ==
    /\ \A l \in PlainLabels : l \notin Settling /\ Callable(<<l>>)
    /\ \A l, m \in PlainLabels : Callable(<<l, m>>)
  BY Callables DEF PlainLabels

\* The manager's calls and its event handler, the boot and the air settle nothing and need nothing settled.
LEMMA ManagerPromises ==
    ASSUME TypeInv, PromiseInv, NEW t \in Callers, ApplySteps(t) \/ ScanSteps(t) \/ TestSteps(t), UNCHANGED portal
    PROVE  PromiseInv'
<1>0. t \in Tasks /\ TodoOK /\ drv \in WD!Drivers
  BY TasksKnown DEF TypeInv, PlainOK
<1>1. PICK label, c : label \in PlainLabels /\ At(t, label) /\ Do(t, c) /\ Callable(c)
  <2>1. CASE ApplySteps(t)
    <3>1. /\ "apply_connect" \in PlainLabels /\ "apply_check" \in PlainLabels
          /\ "apply_conf" \in PlainLabels /\ "apply" \in PlainLabels
      BY PlainLabelsAre
    <3>2. Callable(<<"apply_conf", "apply_connect">>) /\ Callable(<<>>)
      BY <3>1, PlainCalls, Callables
    <3> QED
      BY <2>1, <3>1, <3>2 DEF ApplySteps, ApplyDisconnect, ApplyCheck, ApplyConf, ApplyConnect
  <2>2. CASE ScanSteps(t)
    <3>1. /\ "scan" \in PlainLabels /\ "scan_disconnect" \in PlainLabels /\ "scan_start" \in PlainLabels
          /\ "scan_wait" \in PlainLabels /\ "scan_exit" \in PlainLabels
      BY PlainLabelsAre
    <3>2. /\ Callable(<<"scan_wait">>) /\ Callable(<<"scan_exit">>) /\ Callable(<<>>) /\ Callable(Apply)
      BY <3>1, PlainCalls, Callables
    <3> QED
      BY <2>2, <3>1, <3>2 DEF ScanSteps, ScanEnter, ScanDisconnect, ScanStart, ScanWait, ScanExit
  <2>3. CASE TestSteps(t)
    <3>1. /\ "test" \in PlainLabels /\ "test_drain" \in PlainLabels
          /\ "test_connect" \in PlainLabels /\ "test_wait" \in PlainLabels
      BY PlainLabelsAre
    <3>2. Callable(<<"test_connect">>) /\ Callable(<<"test_wait">>) /\ Callable(<<>>)
      BY <3>1, PlainCalls, Callables
    <3> QED
      BY <2>3, <3>1, <3>2 DEF TestSteps, TestDisconnect, TestConf, TestConnect, TestWait
  <2> QED BY <2>1, <2>2, <2>3
<1>2. drv'.mode \in {drv.mode, "STA"}
  <2>1. CASE ApplyConf(t)
    <3>1. PICK e : e = WD!SetMode(drv, "STA")
      OBVIOUS
    <3>2. e \in WD!Drivers /\ e.mode = "STA"
      BY <1>0, <3>1, DriverCalls
    <3>3. drv' = drv \/ drv' = WD!SetConfig(e, Pointee(t))
      BY <2>1, <3>1 DEF ApplyConf
    <3>4. WD!SetConfig(e, Pointee(t)).mode = "STA"
      BY <3>2 DEF WD!SetConfig, WD!Drivers
    <3> QED BY <3>3, <3>4
  <2>2. CASE TestConf(t)
    <3>1. drv' = drv \/ drv' = WD!SetConfig(drv, loc[t].net)
      BY <2>2 DEF TestConf
    <3>2. WD!SetConfig(drv, loc[t].net).mode = drv.mode
      BY <1>0 DEF WD!SetConfig, WD!Drivers
    <3> QED BY <3>1, <3>2
  <2>3. CASE ApplyDisconnect(t) \/ ApplyCheck(t) \/ ApplyConnect(t) \/ ScanSteps(t)
             \/ TestDisconnect(t) \/ TestConnect(t) \/ TestWait(t)
    <3>1. drv' \in {drv, WD!Disconnect(drv), WD!Connect(drv), WD!ScanStart(drv), WD!ScanStop(drv)}
      BY <2>3 DEF ApplyDisconnect, ApplyCheck, ApplyConnect, ScanSteps, ScanEnter, ScanDisconnect, ScanStart,
             ScanWait, ScanExit, TestDisconnect, TestConnect, TestWait
    <3> QED BY <1>0, <3>1, DriverCalls
  <2> QED BY <2>1, <2>2, <2>3 DEF ApplySteps, TestSteps
<1>3. UNCHANGED suppress
  BY DEF ApplySteps, ApplyDisconnect, ApplyCheck, ApplyConf, ApplyConnect, ScanSteps, ScanEnter,
         ScanDisconnect, ScanStart, ScanWait, ScanExit, TestSteps, TestDisconnect, TestConf, TestConnect, TestWait
<1>4. Quiet
  BY <1>2, <1>3 DEF Quiet, portal
<1> QED BY <1>0, <1>1, <1>4, PlainCalls, QuietDo

LEMMA EventPromises ==
    ASSUME TypeInv, PromiseInv, OnWifiEvent \/ Boot \/ BootCheck \/ Air, UNCHANGED portal
    PROVE  PromiseInv'
<1>0. TodoOK /\ drv \in WD!Drivers /\ "sys_evt" \in Tasks /\ "main" \in Tasks
  BY TasksKnown DEF TypeInv, PlainOK
<1>1. drv'.mode = drv.mode
  <2>1. CASE OnWifiEvent
    <3>1. \/ drv' = drv \/ drv' = WD!Connect(drv)
          \/ \E x : NextEvent(x) /\ drv' = Popped
      BY <2>1 DEF OnWifiEvent, OnStart, OnConnected, Arm, ReportOk, OnDisconnected, Retry, EvConnect, OnScanDone
    <3> QED BY <1>0, <3>1, DriverCalls, PoppedDriver
  <2>2. CASE Boot \/ BootCheck
    BY <2>2 DEF Boot, BootCheck, mgr
  <2>3. CASE Air
    <3>1. drv' \in WD!Associated(drv) \cup WD!Refused(drv) \cup WD!Lost(drv) \cup WD!Scanned(drv)
      BY <2>3 DEF Air, AirAssociates, AirTrouble, AirScanned
    <3> QED BY <1>0, <3>1, AirCalls
  <2> QED BY <2>1, <2>2, <2>3
<1>2. UNCHANGED suppress
  BY DEF OnWifiEvent, OnStart, OnConnected, Arm, ReportOk, OnDisconnected, Retry, EvConnect, OnScanDone,
         Boot, BootCheck, Air, AirAssociates, AirTrouble, AirScanned, mgr
<1>3. Quiet
  BY <1>1, <1>2 DEF Quiet, portal
<1>4. /\ {"ev_connect", "ev_arm", "ev_ok", "ev_retry", "boot", "boot_check"} \subseteq PlainLabels
      /\ Callable(<<>>)
  BY PlainLabelsAre, Callables
<1>5. /\ Callable(<<"ev_connect">>) /\ Callable(<<"ev_retry">>) /\ Callable(<<"ev_ok">>)
      /\ Callable(<<"ev_arm", "ev_ok">>)
  BY <1>4, PlainCalls
<1>6. \/ UNCHANGED todo
      \/ \E c : Start("sys_evt", c) /\ Callable(c)
      \/ \E label \in PlainLabels, t \in {"sys_evt", "main"} : \E c : At(t, label) /\ Do(t, c) /\ Callable(c)
  <2>1. CASE OnStart \/ OnConnected \/ OnDisconnected
    BY <1>5, <2>1 DEF OnStart, OnConnected, OnDisconnected
  <2>2. CASE Arm \/ ReportOk \/ Retry \/ EvConnect \/ Boot \/ BootCheck
    BY <1>4, <1>5, <2>2 DEF Arm, ReportOk, Retry, EvConnect, Boot, BootCheck
  <2>3. CASE OnScanDone \/ Air
    BY <2>3 DEF OnScanDone, Air, AirAssociates, AirTrouble, AirScanned, tasks
  <2> QED BY <2>1, <2>2, <2>3 DEF OnWifiEvent
<1>7. CASE UNCHANGED todo
  BY <1>3, <1>7, QuietElse
<1>8. ASSUME NEW c, Start("sys_evt", c), Callable(c) PROVE PromiseInv'
  BY <1>0, <1>3, <1>8, QuietStart
<1>9. ASSUME NEW label \in PlainLabels, NEW t \in {"sys_evt", "main"}, NEW c,
             At(t, label), Do(t, c), Callable(c)
      PROVE  PromiseInv'
  BY <1>0, <1>3, <1>9, PlainCalls, QuietDo
<1> QED BY <1>6, <1>7, <1>8, <1>9

\* What the labels of provisioning.c owe and settle.
LEMMA OpenPromises == ASSUME TypeInv, PromiseInv, NEW t \in Callers, OpenSteps(t) PROVE PromiseInv'
<1>0. t \in Tasks /\ TodoOK /\ drv \in WD!Drivers /\ FollowInv
  BY TasksKnown DEF TypeInv, PlainOK, PromiseInv
<1>1. CASE OpenBegin(t)
  <2>1. CASE active
    <3>1. "start" \in PlainLabels
      BY PlainLabelsAre
    <3>2. At(t, "start") /\ Do(t, <<>>) /\ Quiet
      BY <1>1, <2>1 DEF OpenBegin, Quiet
    <3> QED BY <1>0, <3>1, <3>2, PlainCalls, Callables, QuietDo
  <2>2. CASE ~active
    <3>1. PICK c : c = Scan \o <<"start_softap", "start_httpd">>
      OBVIOUS
    <3>2. "start_softap" \in Labels /\ "start_httpd" \in Labels
      BY DEF Labels
    <3>3. Callable(<<"start_softap", "start_httpd">>)
      BY <3>2, Calls, LabelElems DEF Callable
    <3>4. Callable(c)
      BY <3>1, <3>3, Callables
    <3>5. "start_httpd" \in Elems(c)
      <4>1. PICK u : u = <<"start_softap", "start_httpd">>
        OBVIOUS
      <4>2. Elems(u) = {"start_softap", "start_httpd"}
        BY <4>1, LabelElems
      <4>3. Callable(u) /\ c = Scan \o u /\ "start_httpd" \in Elems(u) /\ Callable(Scan)
        BY <3>1, <3>3, <4>1, <4>2, Callables
      <4> QED BY <4>3, LastElems
    <3>6. Do(t, c) /\ At(t, "start")
      BY <1>1, <2>2, <3>1 DEF OpenBegin
    <3>7. FollowInv' /\ \A L : "start_httpd" \in L => Promised(L)'
      BY <1>0, <3>4, <3>5, <3>6, DoPromises DEF At
    <3>8. Promised(GateLabels)' /\ Promised(RadioLabels)' /\ Promised(PhaseLabels)'
      BY <3>7 DEF GateLabels, RadioLabels, PhaseLabels
    <3> QED BY <3>7, <3>8 DEF PromiseInv, GateInv, RadioInv, PhaseInv
  <2> QED BY <2>1, <2>2
<1>2. CASE OpenSoftap(t)
  <2>1. At(t, "start_softap") /\ Do(t, <<>>) /\ UNCHANGED <<suppress, active, phase>>
    BY <1>2 DEF OpenSoftap, portal
  <2>2. FollowInv' /\ \A L : "start_httpd" \in L => Promised(L)'
    BY <1>0, <2>1, Callables, DoPromises DEF At
  <2>3. Promised(GateLabels)' /\ Promised(RadioLabels)' /\ Promised(PhaseLabels)'
    BY <2>2 DEF GateLabels, RadioLabels, PhaseLabels
  <2> QED BY <2>2, <2>3 DEF PromiseInv, GateInv, RadioInv, PhaseInv
<1>3. CASE OpenHttpd(t)
  <2>1. CASE server
    <3>1. /\ At(t, "start_httpd") /\ Do(t, <<>>)
          /\ phase' = "IDLE" /\ suppress' = FALSE /\ drv' = WD!SetMode(drv, "STA")
      BY <1>3, <2>1 DEF OpenHttpd
    <3>2. FollowInv'
      BY <1>0, <3>1, Callables, DoPromises DEF At
    <3>3. drv'.mode = "STA"
      BY <1>0, <3>1, DriverCalls
    <3> QED BY <3>1, <3>2, <3>3 DEF PromiseInv, GateInv, RadioInv, PhaseInv
  <2>2. CASE ~server
    <3>1. At(t, "start_httpd") /\ Do(t, <<"start_open">>)
      BY <1>3, <2>2 DEF OpenHttpd
    <3>2. "start_open" \in Labels /\ "start_open" # "start_softap"
      BY DEF Labels
    <3>3. Callable(<<"start_open">>) /\ Elems(<<"start_open">>) = {"start_open"}
      BY <3>2, Callables, LabelElems
    <3>4. FollowInv' /\ \A L : "start_open" \in L => Promised(L)'
      BY <1>0, <3>1, <3>3, DoPromises DEF At
    <3>5. Promised(GateLabels)' /\ Promised(RadioLabels)' /\ Promised(PhaseLabels)'
      BY <3>4 DEF GateLabels, RadioLabels, PhaseLabels
    <3> QED BY <3>4, <3>5 DEF PromiseInv, GateInv, RadioInv, PhaseInv
  <2> QED BY <2>1, <2>2
<1>4. CASE OpenEnd(t)
  <2>1. At(t, "start_open") /\ Do(t, <<>>) /\ phase' = "PORTAL" /\ active' = TRUE
    BY <1>4 DEF OpenEnd
  <2>2. FollowInv'
    BY <1>0, <2>1, Callables, DoPromises DEF At
  <2> QED BY <2>1, <2>2 DEF PromiseInv, GateInv, RadioInv, PhaseInv
<1> QED BY <1>1, <1>2, <1>3, <1>4 DEF OpenSteps

LEMMA ClosePromises == ASSUME TypeInv, PromiseInv, NEW t \in Callers, CloseSteps(t) PROVE PromiseInv'
<1>0. t \in Tasks /\ TodoOK /\ drv \in WD!Drivers /\ FollowInv
  BY TasksKnown DEF TypeInv, PlainOK, PromiseInv
<1>1. CASE CloseBegin(t)
  <2>1. CASE ~active /\ phase = "IDLE"
    <3>1. At(t, "stop") /\ Do(t, <<>>) /\ UNCHANGED <<active, phase, suppress, drv>>
      BY <1>1, <2>1 DEF CloseBegin, mgr
    <3>2. /\ FollowInv'
          /\ Promised(GateLabels) => Promised(GateLabels)'
          /\ Promised(RadioLabels) => Promised(RadioLabels)'
      BY <1>0, <3>1, Callables, DoPromises DEF At, GateLabels, RadioLabels
    <3> QED BY <2>1, <3>1, <3>2 DEF PromiseInv, GateInv, RadioInv, PhaseInv
  <2>2. CASE ~(~active /\ phase = "IDLE")
    <3>1. PICK w : w = IF httpd THEN <<"stop_httpd">> ELSE <<>>
      OBVIOUS
    <3>2. "stop_httpd" \in Labels /\ "stop_radio" \in Labels /\ "stop_gate" \in Labels
      BY DEF Labels
    <3>3. Callable(w) /\ Callable(<<"stop_radio", "stop_gate">>)
      BY <3>1, <3>2, Callables
    <3>4. PICK c : c = w \o <<"stop_radio", "stop_gate">>
      OBVIOUS
    <3>5. Callable(c)
      BY <3>3, <3>4, Callables
    <3>6. "stop_radio" \in Elems(c) /\ "stop_gate" \in Elems(c)
      <4>1. PICK u : u = <<"stop_radio", "stop_gate">>
        OBVIOUS
      <4>2. Elems(u) = {"stop_radio", "stop_gate"}
        BY <4>1, LabelElems
      <4>3. /\ Callable(w) /\ Callable(u) /\ c = w \o u
            /\ "stop_radio" \in Elems(u) /\ "stop_gate" \in Elems(u)
        BY <3>3, <3>4, <4>1, <4>2
      <4> QED BY <4>3, LastElems
    <3>7. At(t, "stop") /\ Do(t, c) /\ active' = FALSE /\ phase' = "IDLE"
      BY <1>1, <2>2, <3>1, <3>4 DEF CloseBegin
    <3>8. FollowInv' /\ \A L : "stop_radio" \in L \/ "stop_gate" \in L => Promised(L)'
      BY <1>0, <3>5, <3>6, <3>7, DoPromises DEF At
    <3>9. Promised(GateLabels)' /\ Promised(RadioLabels)'
      BY <3>8 DEF GateLabels, RadioLabels
    <3> QED BY <3>7, <3>8, <3>9 DEF PromiseInv, GateInv, RadioInv, PhaseInv
  <2> QED BY <2>1, <2>2
<1>2. CASE CloseHttpd(t)
  <2>1. At(t, "stop_httpd") /\ Do(t, <<>>) /\ Quiet /\ "stop_httpd" \in PlainLabels
    BY <1>2, PlainLabelsAre DEF CloseHttpd, Quiet, mgr
  <2> QED BY <1>0, <2>1, PlainCalls, Callables, QuietDo
<1>3. CASE CloseRadio(t)
  <2>1. /\ At(t, "stop_radio") /\ Do(t, <<>>) /\ UNCHANGED <<suppress, active, phase>>
        /\ drv' = WD!SetMode(WD!Disconnect(drv), "STA")
    BY <1>3 DEF CloseRadio, portal
  <2>2. drv'.mode = "STA"
    BY <1>0, <2>1, DriverCalls
  <2>3. /\ FollowInv'
        /\ Promised(GateLabels) => Promised(GateLabels)'
        /\ Promised(PhaseLabels) => Promised(PhaseLabels)'
    BY <1>0, <2>1, Callables, DoPromises DEF At, GateLabels, PhaseLabels
  <2> QED BY <2>1, <2>2, <2>3 DEF PromiseInv, GateInv, RadioInv, PhaseInv
<1>4. CASE CloseGate(t)
  <2>1. At(t, "stop_gate") /\ Do(t, <<>>) /\ UNCHANGED <<drv, active, phase>> /\ suppress' = FALSE
    BY <1>4 DEF CloseGate, portal
  <2>2. /\ FollowInv'
        /\ Promised(RadioLabels) => Promised(RadioLabels)'
        /\ Promised(PhaseLabels) => Promised(PhaseLabels)'
    BY <1>0, <2>1, Callables, DoPromises DEF At, RadioLabels, PhaseLabels
  <2> QED BY <2>1, <2>2 DEF PromiseInv, GateInv, RadioInv, PhaseInv
<1> QED BY <1>1, <1>2, <1>3, <1>4 DEF CloseSteps

LEMMA ChoicePromises ==
    ASSUME TypeInv, PromiseInv, NEW t \in Callers, ApplyOrStartSteps(t) \/ FinishSteps(t)
    PROVE  PromiseInv'
<1>0. /\ t \in Tasks /\ TodoOK /\ FollowInv
      /\ UNCHANGED <<suppress, drv, active, phase>> /\ Quiet
  BY TasksKnown
     DEF TypeInv, PromiseInv, ApplyOrStartSteps, ReadCredentials, ReadActive, FinishSteps, FinishDelay, Finish,
         Quiet, mgr, portal
<1>1. CASE ~Finish(t)
  <2>1. /\ "apply_or_start" \in PlainLabels /\ "unless_active" \in PlainLabels /\ "fin_delay" \in PlainLabels
    BY PlainLabelsAre
  <2>2. /\ Callable(<<"unless_active">> \o Apply) /\ Callable(Apply \o Open)
        /\ Callable(Close) /\ Callable(<<>>)
    <3>1. Callable(<<"unless_active">>)
      BY <2>1, PlainCalls
    <3> QED BY <3>1, Callables
  <2>3. PICK label, c : label \in PlainLabels /\ At(t, label) /\ Do(t, c) /\ Callable(c)
    <3>1. CASE ReadCredentials(t)
      BY <2>1, <2>2, <3>1 DEF ReadCredentials
    <3>2. CASE ReadActive(t)
      BY <2>1, <2>2, <3>2 DEF ReadActive
    <3>3. CASE FinishDelay(t)
      BY <2>1, <2>2, <3>3 DEF FinishDelay
    <3> QED BY <1>1, <3>1, <3>2, <3>3 DEF ApplyOrStartSteps, FinishSteps
  <2> QED BY <1>0, <2>3, PlainCalls, QuietDo
<1>2. CASE Finish(t)
  <2>1. PICK c : c = Close \o Apply
    OBVIOUS
  <2>2. Callable(c)
    BY <2>1, Callables
  <2>3. Elems(Close) = {"stop"}
    BY LabelElems DEF Close
  <2>4. "stop" \in Elems(c)
    BY <2>1, <2>3, Calls, ConcatElems
  <2>5. At(t, "fin") /\ Do(t, c)
    BY <1>2, <2>1 DEF Finish
  <2>6. /\ FollowInv' /\ Promised(PhaseLabels)'
        /\ Promised(GateLabels) => Promised(GateLabels)'
        /\ Promised(RadioLabels) => Promised(RadioLabels)'
    BY <1>0, <2>2, <2>4, <2>5, DoPromises DEF At, GateLabels, RadioLabels, PhaseLabels
  <2> QED BY <1>0, <2>6 DEF PromiseInv, GateInv, RadioInv, PhaseInv
<1> QED BY <1>1, <1>2

LEMMA PostPromises == ASSUME TypeInv, PromiseInv, PostForm PROVE PromiseInv'
<1>0. TodoOK /\ FollowInv /\ "httpd" \in Tasks
  BY TasksKnown DEF TypeInv, PromiseInv
<1>1. PICK c : c = Test \o <<"test_result">>
  OBVIOUS
<1>2. /\ Start("httpd", c) /\ UNCHANGED <<suppress, drv, active>>
  BY <1>1 DEF PostForm, Submit, mgr
<1>3. "test" \in PlainLabels /\ "test_drain" \in PlainLabels
  BY PlainLabelsAre
<1>4. "test_result" \in Labels \ {"start_softap"}
  BY DEF Labels
<1>5. Callable(Test) /\ Callable(<<"test_result">>)
  BY <1>3, <1>4, PlainCalls, Callables DEF Test
<1>6. Callable(c)
  BY <1>1, <1>5, Callables
<1>7. "test_result" \in Elems(c)
  <2>1. Elems(<<"test_result">>) = {"test_result"}
    BY LabelElems
  <2>2. "test_result" \in Elems(<<"test_result">>)
    BY <2>1
  <2> QED BY <1>1, <1>5, <2>2, LastElems
<1>8. /\ FollowInv' /\ Promised(PhaseLabels)'
      /\ Promised(GateLabels) => Promised(GateLabels)'
      /\ Promised(RadioLabels) => Promised(RadioLabels)'
  BY <1>0, <1>2, <1>6, <1>7, StartPromises DEF PhaseLabels
<1> QED BY <1>2, <1>8 DEF PromiseInv, GateInv, RadioInv, PhaseInv

\* The request ends, and with it either the phase or the task that will close the portal begins.
LEMMA ResultPromises == ASSUME TypeInv, PromiseInv, TestResult PROVE PromiseInv'
<1>0. TodoOK /\ FollowInv /\ "httpd" \in Tasks /\ HttpdOK
  BY TasksKnown DEF TypeInv, PromiseInv
<1>1. At("httpd", "test_result") /\ UNCHANGED <<suppress, drv, active>>
  BY DEF TestResult
<1>2. CASE phase' = "PORTAL" /\ Do("httpd", <<>>)
  <2>1. /\ FollowInv'
        /\ Promised(GateLabels) => Promised(GateLabels)'
        /\ Promised(RadioLabels) => Promised(RadioLabels)'
    BY <1>0, <1>1, <1>2, Callables, DoPromises DEF At, GateLabels, RadioLabels
  <2> QED BY <1>1, <1>2, <2>1 DEF PromiseInv, GateInv, RadioInv, PhaseInv
<1>3. ASSUME NEW f \in Finishers, Idle(f),
             todo' = [todo EXCEPT !["httpd"] = Tail(@), ![f] = <<"fin_delay", "fin">>]
      PROVE  PromiseInv'
  <2>1. todo["httpd"] = <<"test_result">>
    BY <1>0, <1>1, HttpdHead
  <2>2. Tail(<<"test_result">>) = <<>> /\ <<"test_result">> # <<>>
    OBVIOUS
  <2>3. f # "httpd" /\ f \in Tasks
    BY <1>3, <2>1, <2>2, TasksKnown DEF Idle
  <2>4. /\ todo'["httpd"] = <<>> /\ todo'[f] = <<"fin_delay", "fin">>
        /\ \A u \in Tasks \ {f, "httpd"} : todo'[u] = todo[u]
    BY <1>0, <1>3, <2>1, <2>2, <2>3 DEF TodoOK
  <2>5. Elems(<<"fin_delay", "fin">>) = {"fin_delay", "fin"} /\ SoftapFollowed(<<"fin_delay", "fin">>)
    BY LabelElems
  <2>6. FollowInv'
    BY <1>0, <2>4, <2>5, EmptyElems DEF FollowInv
  <2>7. Promised(PhaseLabels)'
    BY <2>3, <2>4, <2>5 DEF Promised, PhaseLabels
  <2>8. Elems(todo["httpd"]) = {"test_result"} /\ Elems(todo[f]) = {}
    BY <1>3, <2>1, LabelElems, EmptyElems DEF Idle
  <2>9. ASSUME NEW L, "test_result" \notin L, Promised(L) PROVE Promised(L)'
    <3>1. PICK u \in Tasks : Elems(todo[u]) \cap L # {}
      BY <2>9 DEF Promised
    <3>2. u # "httpd" /\ u # f
      BY <2>8, <2>9, <3>1
    <3> QED BY <2>4, <3>1, <3>2 DEF Promised
  <2>10. /\ Promised(GateLabels) => Promised(GateLabels)'
         /\ Promised(RadioLabels) => Promised(RadioLabels)'
    BY <2>9 DEF GateLabels, RadioLabels
  <2> QED BY <1>1, <2>6, <2>7, <2>10 DEF PromiseInv, GateInv, RadioInv, PhaseInv
<1> QED BY <1>2, <1>3 DEF TestResult

LEMMA InputPromises == ASSUME TypeInv, PromiseInv, Edit \/ ScanCmd \/ ConfirmReset PROVE PromiseInv'
<1>1. TodoOK /\ Quiet
  BY DEF TypeInv, Edit, ScanCmd, ConfirmReset, Quiet, mgr, portal
<1>2. PICK t \in {"tud", "btn"}, c \in {ApplyOrStart, Scan} : Start(t, c)
  BY DEF Edit, ScanCmd, ConfirmReset
<1>3. Callable(c)
  BY <1>2, Callables
<1> QED BY <1>1, <1>2, <1>3, QuietStart, TasksKnown

LEMMA PromiseInit == ASSUME Init PROVE PromiseInv
<1>1. /\ drv = WD!Started /\ suppress = FALSE /\ phase = "IDLE"
      /\ todo = [t \in Tasks |-> IF t = "main" THEN BootProgram ELSE <<>>]
  BY DEF Init, MgrInit, PortalInit
<1>2. drv.mode = "STA"
  BY <1>1 DEF WD!Started
<1>3. SoftapFollowed(BootProgram) /\ SoftapFollowed(<<>>)
  <2>1. "boot" \in PlainLabels /\ "boot_check" \in PlainLabels
    BY PlainLabelsAre
  <2>2. Callable(<<"boot">>) /\ Callable(<<"boot_check">>)
    BY <2>1, PlainCalls
  <2>3. Callable(<<"boot">> \o ApplyOrStart)
    BY <2>2, Callables
  <2>4. Callable(BootProgram)
    BY <2>2, <2>3, Callables DEF BootProgram
  <2> QED BY <2>4, Callables DEF Callable
<1>4. FollowInv
  BY <1>1, <1>3 DEF FollowInv
<1> QED BY <1>1, <1>2, <1>4 DEF PromiseInv, GateInv, RadioInv, PhaseInv

LEMMA PromiseStep == TypeInv /\ PromiseInv /\ [Next]_allVars => PromiseInv'
<1> SUFFICES ASSUME TypeInv, PromiseInv, [Next]_allVars PROVE PromiseInv'
  OBVIOUS
<1>1. CASE (Boot \/ BootCheck \/ OnWifiEvent \/ Air) /\ UNCHANGED portal
  BY <1>1, EventPromises
<1>2. ASSUME NEW t \in Callers, CallsOf(t) PROVE PromiseInv'
  BY <1>2, ManagerPromises, OpenPromises, ClosePromises, ChoicePromises DEF CallsOf
<1>3. CASE TestResult
  BY <1>3, ResultPromises
<1>4. CASE Edit \/ ScanCmd \/ ConfirmReset \/ PostForm
  BY <1>4, InputPromises, PostPromises
<1>5. CASE UNCHANGED allVars
  BY <1>5, QuietElse DEF allVars, vars, mgr, tasks, portal, Quiet
<1> QED BY <1>1, <1>2, <1>3, <1>4, <1>5 DEF Next, Rest

LEMMA PromisesKept == Spec => [](TypeInv /\ PromiseInv)
  BY TypeInit, TypeStep, PromiseInit, PromiseStep, PTL DEF Spec

LEMMA NothingPromised == ASSUME TypeInv, Settled, NEW L PROVE ~Promised(L)
  BY EmptyElems DEF Settled, AtRest, Idle, Promised

\* However the tasks, the user and the air interleave, prompt or not, a gate left closed has a portal behind it.
THEOREM GateNeverStuck == Spec => []SuppressedOnlyByPortal
<1>1. TypeInv /\ PromiseInv => SuppressedOnlyByPortal
  BY NothingPromised DEF SuppressedOnlyByPortal, PromiseInv, GateInv
<1> QED BY PromisesKept, <1>1, PTL

\* ... a SoftAP left on the air has a portal behind it ...
THEOREM SoftapNeverStuck == Spec => []SoftapOnlyWithPortal
<1>1. TypeInv /\ PromiseInv => SoftapOnlyWithPortal
  BY NothingPromised DEF SoftapOnlyWithPortal, PromiseInv, RadioInv
<1> QED BY PromisesKept, <1>1, PTL

\* ... and the setup screen does not stay on a phase that is over.
THEOREM PhaseNeverStuck == Spec => []PhaseSettles
<1>1. TypeInv /\ PromiseInv => PhaseSettles
  BY NothingPromised DEF PhaseSettles, PromiseInv, PhaseInv
<1> QED BY PromisesKept, <1>1, PTL

----------------------------------------------------------------------------
(* One input at a time.  A patient user leaves at most one task busy, so the
   portal is opened and closed by one sequential program; Stage says what the
   portal looks like at each point of it. *)

Opened ==
    /\ active /\ httpd /\ server /\ dns /\ suppress /\ drv.mode = "APSTA"

Shut ==
    /\ ~active /\ phase = "IDLE" /\ ~httpd /\ ~server /\ ~dns /\ ~suppress /\ drv.mode = "STA"

Either == (Opened /\ phase = "PORTAL") \/ Shut

Whole == (Opened /\ phase = "PORTAL" /\ ~HasSsid) \/ (Shut /\ HasSsid)

\* Between the flags and the server, and between the server and the flags.
Opening == ~active /\ phase = "SCANNING" /\ ~dns /\ suppress /\ ~HasSsid
Closing == ~active /\ phase = "IDLE" /\ ~dns /\ suppress /\ HasSsid

\* Nothing is under way that could still end in an association.
NoneConnected(d) == \A i \in 1..Len(d.evq) : d.evq[i] # "connected"

Calm ==
    /\ drv.sta # "connecting" /\ NoneConnected(drv)
    /\ todo["sys_evt"] \in {<<>>, <<"ev_retry">>}

\* The scan on its own, and the one provisioning_start begins with.
LoneScan ==
    {<<"scan", "scan_disconnect", "scan_start">>, <<"scan_disconnect", "scan_start">>,
     <<"scan_start">>, <<"scan_wait">>, <<"scan_exit">>}

OpeningScan ==
    {<<"scan", "scan_disconnect", "scan_start", "start_softap", "start_httpd">>,
     <<"scan_disconnect", "scan_start", "start_softap", "start_httpd">>,
     <<"scan_start", "start_softap", "start_httpd">>, <<"scan_wait", "start_softap", "start_httpd">>,
     <<"scan_exit", "start_softap", "start_httpd">>, <<"start_softap", "start_httpd">>}

\* What holds while p is what a caller t still has to do.
Stage(t, p) ==
    \/ p = <<>> /\ Whole /\ ~loc[t].re
    \/ /\ p \in {<<"boot", "apply_or_start">>, <<"apply_or_start">>}
       /\ Either /\ (HasSsid \/ Calm) /\ ~loc[t].re
    \/ p = <<"unless_active", "apply", "apply_check">> /\ Either /\ HasSsid /\ ~loc[t].re
    \/ /\ p = <<"stop", "apply", "apply_check">>
       /\ Opened /\ phase \in {"PORTAL", "SUCCESS"} /\ HasSsid /\ ~loc[t].re
    \/ /\ p = <<"stop_httpd", "stop_radio", "stop_gate", "apply", "apply_check">>
       /\ Closing /\ httpd /\ server /\ drv.mode = "APSTA" /\ ~loc[t].re
    \/ /\ p = <<"stop_radio", "stop_gate", "apply", "apply_check">>
       /\ Closing /\ ~httpd /\ ~server /\ drv.mode = "APSTA" /\ ~loc[t].re
    \/ /\ p = <<"stop_gate", "apply", "apply_check">>
       /\ Closing /\ ~httpd /\ ~server /\ drv.mode = "STA" /\ ~loc[t].re
    \/ /\ p \in {<<"apply", "apply_check">>, <<"apply_check">>, <<"apply_conf", "apply_connect">>,
                 <<"apply_connect">>}
       /\ Shut /\ HasSsid /\ ~loc[t].re
    \/ /\ p \in {<<"apply", "apply_check", "start">>, <<"apply_check", "start">>, <<"start">>}
       /\ Either /\ ~HasSsid /\ Calm /\ ~loc[t].re
       /\ p = <<"apply_check", "start">> => Pointee(t) = Blank
    \/ /\ p \in OpeningScan /\ Opening /\ ~httpd /\ ~server /\ drv.mode = "STA" /\ ~loc[t].re
    \/ p = <<"start_httpd">> /\ Opening /\ ~httpd /\ ~server /\ drv.mode = "APSTA" /\ ~loc[t].re
    \/ p = <<"start_open">> /\ Opening /\ httpd /\ server /\ drv.mode = "APSTA" /\ ~loc[t].re
    \/ p \in LoneScan /\ Whole /\ (loc[t].re => ~active)
    \/ p \in HttpdPrograms \ {<<>>} /\ Opened /\ phase = "TESTING" /\ ~HasSsid /\ ~loc[t].re
    \/ p \in {<<"fin_delay", "fin">>, <<"fin">>} /\ Opened /\ phase = "SUCCESS" /\ HasSsid /\ ~loc[t].re

\* The boot adds its check at the end.
Runs(t) == \E s \in {<<>>, <<"boot_check">>}, p \in Seq(Labels) : todo[t] = p \o s /\ Stage(t, p)

\* The inductive invariant under a patient user.
SoloInv ==
    /\ \A t, u \in Callers : t = u \/ Idle(t) \/ Idle(u)
    /\ \A t \in Callers : IF Idle(t) THEN ~loc[t].re ELSE Runs(t)
    /\ (\A t \in Callers : Idle(t)) => Whole
    /\ todo["sys_evt"] \in HandlerPrograms
    /\ suppress => ~link /\ todo["sys_evt"] # <<"ev_arm", "ev_ok">>

----------------------------------------------------------------------------
(* Where a program stands after each of its labels. *)

LEMMA OneAndTwo ==
    ASSUME NEW S, NEW a \in S, NEW b \in S, NEW c \in S
    PROVE  <<a>> \o <<b, c>> = <<a, b, c>>
<1>1. <<a>> \in Seq(S) /\ <<b, c>> \in Seq(S)
  OBVIOUS
<1>2. PICK s : s = <<a>> \o <<b, c>>
  OBVIOUS
<1>3. s \in Seq(S) /\ Len(s) = 3 /\ s[1] = a /\ s[2] = b /\ s[3] = c
  BY <1>1, <1>2, ConcatProperties
<1>4. s = <<a, b, c>>
  BY <1>3
<1> QED BY <1>2, <1>4

LEMMA ThreeAndTwo ==
    ASSUME NEW S, NEW a \in S, NEW b \in S, NEW c \in S, NEW d \in S, NEW e \in S
    PROVE  <<a, b, c>> \o <<d, e>> = <<a, b, c, d, e>>
<1>1. <<a, b, c>> \in Seq(S) /\ <<d, e>> \in Seq(S)
  OBVIOUS
<1>2. PICK s : s = <<a, b, c>> \o <<d, e>>
  OBVIOUS
<1>3. s \in Seq(S) /\ Len(s) = 5 /\ s[1] = a /\ s[2] = b /\ s[3] = c /\ s[4] = d /\ s[5] = e
  BY <1>1, <1>2, ConcatProperties
<1>4. s = <<a, b, c, d, e>>
  BY <1>3
<1> QED BY <1>2, <1>4

\* A call that is the program's last.
LEMMA LastCall ==
    ASSUME NEW label, NEW c \in Seq(Labels)
    PROVE  c \o Tail(<<label>>) = c
<1>1. Tail(<<label>>) = <<>>
  OBVIOUS
<1>2. c \o <<>> = c
  BY ConcatEmptySeq
<1> QED BY <1>1, <1>2

\* A program that is done at its head, and what follows.
LEMMA NextLabel ==
    ASSUME NEW p \in Seq(Labels), p # <<>>
    PROVE  <<>> \o Tail(p) = Tail(p)
<1>1. Tail(p) \in Seq(Labels)
  BY HeadTailProperties
<1> QED BY <1>1, ConcatEmptySeq

LEMMA HeadTailConcat ==
    ASSUME NEW p \in Seq(Labels), p # <<>>, NEW s \in Seq(Labels), NEW c \in Seq(Labels)
    PROVE  /\ p \o s # <<>> /\ Head(p \o s) = Head(p)
           /\ c \o Tail(p \o s) = (c \o Tail(p)) \o s
           /\ c \o Tail(p) \in Seq(Labels)
<1>1. PICK r : r = p \o s
  OBVIOUS
<1>2. /\ r \in Seq(Labels) /\ Len(r) = Len(p) + Len(s) /\ Len(p) \in Nat \ {0} /\ Len(s) \in Nat
      /\ \A i \in 1..(Len(p) + Len(s)) : r[i] = IF i <= Len(p) THEN p[i] ELSE s[i - Len(p)]
  BY <1>1, ConcatProperties, LenProperties, EmptySeq
<1>3. r # <<>> /\ Head(r) = Head(p)
  <2>1. Len(r) \in Nat \ {0} /\ r[1] = p[1]
    BY <1>2
  <2>2. r # <<>>
    BY <2>1, EmptySeq
  <2> QED BY <1>2, <2>1, <2>2, HeadTailProperties
<1>4. PICK q : q = Tail(p)
  OBVIOUS
<1>5. q \in Seq(Labels) /\ Len(q) = Len(p) - 1 /\ \A i \in 1..Len(q) : q[i] = p[i + 1]
  BY <1>4, HeadTailProperties
<1>6. PICK u : u = Tail(r)
  OBVIOUS
<1>7. u \in Seq(Labels) /\ Len(u) = Len(r) - 1 /\ \A i \in 1..Len(u) : u[i] = r[i + 1]
  BY <1>2, <1>3, <1>6, HeadTailProperties
<1>8. PICK v : v = q \o s
  OBVIOUS
<1>9. /\ v \in Seq(Labels) /\ Len(v) = Len(q) + Len(s)
      /\ \A i \in 1..(Len(q) + Len(s)) : v[i] = IF i <= Len(q) THEN q[i] ELSE s[i - Len(q)]
  BY <1>5, <1>8, ConcatProperties
<1>10. Len(u) = Len(v)
  BY <1>2, <1>5, <1>7, <1>9
<1>11. ASSUME NEW i \in 1..Len(u) PROVE u[i] = v[i]
  <2>1. /\ i \in Nat /\ i + 1 \in 1..(Len(p) + Len(s)) /\ i \in 1..(Len(q) + Len(s))
        /\ (i + 1) - Len(p) = i - Len(q) /\ (i + 1 <= Len(p) <=> i <= Len(q))
    BY <1>2, <1>5, <1>7
  <2>2. u[i] = IF i <= Len(q) THEN p[i + 1] ELSE s[i - Len(q)]
    BY <1>2, <1>7, <2>1
  <2>3. v[i] = IF i <= Len(q) THEN q[i] ELSE s[i - Len(q)]
    BY <1>9, <2>1
  <2>4. i <= Len(q) => q[i] = p[i + 1]
    BY <1>2, <1>5, <2>1
  <2> QED BY <2>2, <2>3, <2>4
<1>12. u = v
  BY <1>7, <1>9, <1>10, <1>11, SeqEqual
<1>13. c \o (q \o s) = (c \o q) \o s
  <2>1. (c \o q) \o s = c \o (q \o s)
    BY <1>5, ConcatAssociative, SMT
  <2> QED BY <2>1
<1>14. c \o q \in Seq(Labels)
  BY <1>5, ConcatProperties
<1> QED BY <1>1, <1>3, <1>4, <1>6, <1>8, <1>12, <1>13, <1>14

LEMMA Tails ==
    /\ Tail(<<"boot", "apply_or_start">>) = <<"apply_or_start">>
    /\ Tail(<<"apply", "apply_check">>) = <<"apply_check">>
    /\ Tail(<<"apply", "apply_check", "start">>) = <<"apply_check", "start">>
    /\ Tail(<<"apply_check", "start">>) = <<"start">>
    /\ Tail(<<"apply_conf", "apply_connect">>) = <<"apply_connect">>
    /\ Tail(<<"fin_delay", "fin">>) = <<"fin">>
    /\ Tail(<<"unless_active", "apply", "apply_check">>) = <<"apply", "apply_check">>
    /\ Tail(<<"stop", "apply", "apply_check">>) = <<"apply", "apply_check">>
    /\ Tail(<<"start_softap", "start_httpd">>) = <<"start_httpd">>
    /\ \A label : Tail(<<label>>) = <<>>
<1>1. Tail(<<"boot", "apply_or_start">>) = <<"apply_or_start">>
  OBVIOUS
<1>2. Tail(<<"apply", "apply_check">>) = <<"apply_check">>
  OBVIOUS
<1>3. Tail(<<"apply", "apply_check", "start">>) = <<"apply_check", "start">>
  OBVIOUS
<1>4. Tail(<<"apply_check", "start">>) = <<"start">>
  OBVIOUS
<1>5. Tail(<<"apply_conf", "apply_connect">>) = <<"apply_connect">>
  OBVIOUS
<1>6. Tail(<<"fin_delay", "fin">>) = <<"fin">>
  OBVIOUS
<1>7. Tail(<<"unless_active", "apply", "apply_check">>) = <<"apply", "apply_check">>
  OBVIOUS
<1>8. Tail(<<"stop", "apply", "apply_check">>) = <<"apply", "apply_check">>
  OBVIOUS
<1>9. Tail(<<"start_softap", "start_httpd">>) = <<"start_httpd">>
  OBVIOUS
<1>10. \A label : Tail(<<label>>) = <<>>
  OBVIOUS
<1> QED BY <1>1, <1>2, <1>3, <1>4, <1>5, <1>6, <1>7, <1>8, <1>9, <1>10

----------------------------------------------------------------------------
(* Each step moves the one busy task from a stage to the next. *)

\* Under a closed gate the link is down, and no event handler is about to raise it.
Unarmed == todo["sys_evt"] # <<"ev_arm", "ev_ok">>
GateShut == suppress => ~link /\ Unarmed

\* A step keeps it: it finds the gate closed and leaves the link, or it closes the gate.
KeepsGate == suppress' => (suppress /\ (link' => link)) \/ (~link' /\ Unarmed)

\* The busy task's program, without the check that ends a boot.
LEMMA RunsFrom ==
    ASSUME TypeInv, SoloInv, NEW t \in Callers, NEW label, At(t, label), label # "boot_check"
    PROVE  \E s \in {<<>>, <<"boot_check">>}, p \in Seq(Labels) :
             todo[t] = p \o s /\ Stage(t, p) /\ p # <<>> /\ Head(p) = label /\ s \in Seq(Labels)
<1>1. PICK s \in {<<>>, <<"boot_check">>}, p \in Seq(Labels) : todo[t] = p \o s /\ Stage(t, p)
  BY DEF SoloInv, Idle, At, Runs
<1>2. s \in Seq(Labels)
  <2>1. "boot_check" \in Labels
    BY DEF Labels
  <2> QED BY <1>1, <2>1, Calls
<1>3. p # <<>>
  <2>1. SUFFICES ASSUME p = <<>> PROVE FALSE
    OBVIOUS
  <2>2. todo[t] = s
    BY <1>1, <1>2, <2>1, ConcatEmptySeq
  <2>3. Head(<<"boot_check">>) = "boot_check"
    OBVIOUS
  <2> QED BY <1>1, <2>2, <2>3 DEF At
<1>4. <<>> \in Seq(Labels) /\ Head(p \o s) = Head(p)
  BY <1>1, <1>2, <1>3, Calls, HeadTailConcat
<1>5. Head(todo[t]) = label
  BY DEF At
<1>6. Head(p) = label
  BY <1>1, <1>4, <1>5
<1> QED BY <1>1, <1>2, <1>3, <1>6

LEMMA CallerStep ==
    ASSUME TypeInv, SoloInv, NEW t \in Callers, NEW label, At(t, label), label # "boot_check",
           NEW c \in Seq(Labels), Do(t, c),
           \A u \in Callers \ {t} : loc'[u].re = loc[u].re,
           KeepsGate,
           \A p \in Seq(Labels) :
              Stage(t, p) /\ p # <<>> /\ Head(p) = label => Stage(t, c \o Tail(p))'
    PROVE  SoloInv'
<1>0. t \in Tasks /\ t # "sys_evt" /\ ~Idle(t) /\ TodoOK
  BY TasksKnown DEF At, Idle, TypeInv
<1>1. PICK s \in {<<>>, <<"boot_check">>}, p \in Seq(Labels) :
        todo[t] = p \o s /\ Stage(t, p) /\ p # <<>> /\ Head(p) = label /\ s \in Seq(Labels)
  BY RunsFrom
<1>2. PICK q : q = c \o Tail(p)
  OBVIOUS
<1>3. /\ todo'[t] = c \o Tail(todo[t])
      /\ \A u \in Tasks \ {t} : todo'[u] = todo[u]
  BY <1>0, DoTyped DEF Idle
<1>4. todo'[t] = q \o s /\ q \in Seq(Labels)
  <2>1. c \o Tail(p \o s) = (c \o Tail(p)) \o s /\ c \o Tail(p) \in Seq(Labels)
    BY <1>1, HeadTailConcat
  <2> QED BY <1>1, <1>2, <1>3, <2>1
<1>5. Stage(t, q)'
  BY <1>1, <1>2
<1>6. \A u \in Callers \ {t} : todo'[u] = <<>> /\ ~loc'[u].re
  BY <1>0, <1>3, TasksKnown DEF SoloInv, Idle
<1>7. ASSUME todo'[t] = <<>> PROVE Whole' /\ ~loc'[t].re
  <2>1. q = <<>>
    <3>1. q \o s = <<>>
      BY <1>4, <1>7
    <3>2. \A S : \A a, b \in Seq(S) : a \o b = <<>> => a = <<>>
      BY ConcatEqualIffEmpty
    <3>3. \A a, b \in Seq(Labels) : a \o b = <<>> => a = <<>>
      BY <3>2
    <3> QED BY <1>1, <1>4, <3>1, <3>3, Zenon
  <2> QED BY <1>5, <2>1 DEF Stage, LoneScan, OpeningScan, HttpdPrograms
<1>8. Runs(t)'
  BY <1>1, <1>4, <1>5 DEF Runs
<1>9. todo'["sys_evt"] \in HandlerPrograms
  BY <1>0, <1>3 DEF SoloInv, Tasks
<1>10. GateShut'
  BY <1>0, <1>3 DEF SoloInv, Tasks, GateShut, KeepsGate, Unarmed
<1> QED BY <1>6, <1>7, <1>8, <1>9, <1>10 DEF SoloInv, Idle, GateShut, Unarmed

\* What a stage speaks of, besides the program.
StageFrame ==
    /\ UNCHANGED <<active, phase, httpd, server, dns, suppress, cfg, loc>>
    /\ drv'.mode = drv.mode
    /\ ~HasSsid /\ Calm => Calm'

LEMMA StageKept == ASSUME NEW t, NEW p, Stage(t, p), StageFrame PROVE Stage(t, p)'
<1>1. /\ UNCHANGED <<active, phase, httpd, server, dns, suppress, cfg, loc>> /\ drv'.mode = drv.mode
      /\ HasSsid' = HasSsid /\ Pointee(t)' = Pointee(t)
      /\ ~HasSsid /\ Calm => Calm'
  BY DEF StageFrame, HasSsid, Pointee
<1> HIDE DEF HasSsid, Pointee, Calm
<1>2. /\ Opened' = Opened /\ Shut' = Shut /\ Opening' = Opening /\ Closing' = Closing
  BY <1>1 DEF Opened, Shut, Opening, Closing
<1>3. Whole' = Whole /\ Either' = Either
  BY <1>1, <1>2 DEF Whole, Either
<1> QED BY <1>1, <1>2, <1>3 DEF Stage

\* The event loop and the air.
LEMMA FrameSolo ==
    ASSUME TypeInv, SoloInv, StageFrame, \A t \in Callers : todo'[t] = todo[t],
           todo'["sys_evt"] \in HandlerPrograms, GateShut'
    PROVE  SoloInv'
<1>1. Whole' = Whole
  BY DEF StageFrame, Whole, Opened, Shut, HasSsid
<1>2. ASSUME NEW t \in Callers, Runs(t) PROVE Runs(t)'
  <2>1. PICK s \in {<<>>, <<"boot_check">>}, p \in Seq(Labels) : todo[t] = p \o s /\ Stage(t, p)
    BY <1>2 DEF Runs
  <2>2. Stage(t, p)'
    BY <2>1, StageKept
  <2>3. todo'[t] = p \o s
    BY <2>1
  <2> QED BY <2>1, <2>2, <2>3 DEF Runs
<1>3. \A t \in Callers : Idle(t)' = Idle(t) /\ loc'[t] = loc[t]
  BY DEF Idle, StageFrame
<1> QED BY <1>1, <1>2, <1>3 DEF SoloInv, GateShut, Unarmed

\* A step that only moves the program on.
SameShape ==
    /\ UNCHANGED <<active, phase, httpd, server, dns, suppress, cfg>>
    /\ drv'.mode = drv.mode

LEMMA ShapeKept ==
    ASSUME SameShape
    PROVE  /\ Opened' = Opened /\ Shut' = Shut /\ Whole' = Whole /\ Either' = Either
           /\ Opening' = Opening /\ Closing' = Closing /\ HasSsid' = HasSsid
           /\ phase' = phase /\ active' = active /\ httpd' = httpd /\ server' = server
           /\ drv'.mode = drv.mode
  BY DEF SameShape, Opened, Shut, Whole, Either, Opening, Closing, HasSsid

LEMMA OtherLocals ==
    ASSUME LocOK, NEW t \in Tasks, NEW v
    PROVE  \/ SetLoc(t, "ptr", v) \/ SetLoc(t, "prev", v) \/ SetLoc(t, "net", v) \/ SetLoc(t, "ret", v)
           => \A u \in Tasks : loc'[u].re = loc[u].re
<1>1. SetLoc(t, "ptr", v) => \A u \in Tasks : loc'[u].re = loc[u].re
  BY DEF SetLoc, LocOK, Locals
<1>2. SetLoc(t, "prev", v) => \A u \in Tasks : loc'[u].re = loc[u].re
  BY DEF SetLoc, LocOK, Locals
<1>3. SetLoc(t, "net", v) => \A u \in Tasks : loc'[u].re = loc[u].re
  BY DEF SetLoc, LocOK, Locals
<1>4. SetLoc(t, "ret", v) => \A u \in Tasks : loc'[u].re = loc[u].re
  BY DEF SetLoc, LocOK, Locals
<1> QED BY <1>1, <1>2, <1>3, <1>4

\* Calling esp_wifi_disconnect, or taking an event off the queue, starts no association.
LEMMA DisconnectCalm ==
    ASSUME NEW d \in WD!Drivers, d.sta # "connecting", NoneConnected(d)
    PROVE  WD!Disconnect(d).sta # "connecting" /\ NoneConnected(WD!Disconnect(d))
<1>1. CASE d.sta = "down"
  BY <1>1 DEF WD!Disconnect
<1>2. CASE d.sta # "down"
  <2>1. PICK e : e = WD!Disconnect(d)
    OBVIOUS
  <2>2. e.sta = "down" /\ e.evq = Append(d.evq, "leave")
    BY <1>2, <2>1 DEF WD!Disconnect, WD!LeaveNetwork, WD!Post, WD!Drivers
  <2>3. NoneConnected(e)
    <3>1. d.evq \in Seq(WD!Events) /\ "leave" \in WD!Events
      BY DEF WD!Drivers, WD!Events, WD!Reasons
    <3>2. PICK q : q = Append(d.evq, "leave")
      OBVIOUS
    <3>3. /\ Len(q) = Len(d.evq) + 1 /\ Len(d.evq) \in Nat /\ q[Len(d.evq) + 1] = "leave"
          /\ \A i \in 1..Len(d.evq) : q[i] = d.evq[i]
      BY <3>1, <3>2, AppendProperties, LenProperties
    <3>4. \A i \in 1..Len(q) : i \in 1..Len(d.evq) \/ i = Len(d.evq) + 1
      BY <3>3
    <3>5. \A i \in 1..Len(q) : q[i] # "connected"
      BY <3>3, <3>4 DEF NoneConnected
    <3> QED BY <2>2, <3>2, <3>5 DEF NoneConnected
  <2> QED BY <2>1, <2>2, <2>3
<1> QED BY <1>1, <1>2

\* wifi_mgr_apply.
LEMMA ApplySolo == ASSUME TypeInv, SoloInv, NEW t \in Callers, ApplySteps(t), UNCHANGED portal PROVE SoloInv'
<1>0. t \in Tasks /\ TodoOK /\ LocOK /\ drv \in WD!Drivers /\ <<>> \in Seq(Labels)
  BY TasksKnown, Calls DEF TypeInv, PlainOK
<1>00. link \in BOOLEAN /\ suppress \in BOOLEAN
  BY DEF TypeInv, PlainOK
<1>1. CASE ApplyDisconnect(t)
  <2>1. /\ At(t, "apply") /\ Do(t, <<>>) /\ drv' = WD!Disconnect(drv)
        /\ SetLoc(t, "ptr", IF CS!HasActive(cfg) THEN cfg.active ELSE CS!ActiveNone)
        /\ UNCHANGED <<cfg, suppress, link, active, phase, httpd, server, dns>>
    BY <1>1 DEF ApplyDisconnect, store, portal
  <2>2. SameShape
    BY <1>0, <2>1, DriverCalls DEF SameShape
  <2>3. \A u \in Tasks : loc'[u].re = loc[u].re
    BY <1>0, <2>1, OtherLocals
  <2>4. KeepsGate
    BY <1>00, <2>1 DEF KeepsGate
  <2>5. todo'["sys_evt"] = todo["sys_evt"]
    BY <1>0, <2>1, DoTyped, TasksKnown DEF At
  <2>6. ASSUME NEW p \in Seq(Labels), Stage(t, p), p # <<>>, Head(p) = "apply"
        PROVE  Stage(t, <<>> \o Tail(p))'
    <3>1. \/ p = <<"apply", "apply_check">> /\ Shut /\ HasSsid /\ ~loc[t].re
          \/ p = <<"apply", "apply_check", "start">> /\ Either /\ ~HasSsid /\ Calm /\ ~loc[t].re
      BY <2>6 DEF Stage, LoneScan, OpeningScan, HttpdPrograms
    <3>2. CASE p = <<"apply", "apply_check">> /\ Shut /\ HasSsid /\ ~loc[t].re
      <4>1. <<>> \o Tail(p) = <<"apply_check">>
        BY <2>6, <3>2, NextLabel, Tails
      <4>2. Shut' /\ HasSsid' /\ ~loc'[t].re
        BY <1>0, <2>2, <2>3, <3>2, ShapeKept
      <4> QED BY <4>1, <4>2 DEF Stage
    <3>3. CASE p = <<"apply", "apply_check", "start">> /\ Either /\ ~HasSsid /\ Calm /\ ~loc[t].re
      <4>1. <<>> \o Tail(p) = <<"apply_check", "start">>
        BY <2>6, <3>3, NextLabel, Tails
      <4>2. Either' /\ ~HasSsid' /\ ~loc'[t].re
        BY <1>0, <2>2, <2>3, <3>3, ShapeKept
      <4>3. Calm'
        <5>1. drv'.sta # "connecting" /\ NoneConnected(drv')
          BY <1>0, <2>1, <3>3, DisconnectCalm DEF Calm
        <5> QED BY <2>5, <3>3, <5>1 DEF Calm, NoneConnected
      <4>4. Pointee(t)' = Blank
        <5>1. loc'[t].ptr = IF CS!HasActive(cfg) THEN cfg.active ELSE CS!ActiveNone
          BY <1>0, <2>1 DEF SetLoc, LocOK, Locals
        <5>2. CS!HasActive(cfg) => cfg.profiles[cfg.active].ssid = Blank
          BY <3>3 DEF HasSsid, CS!ActiveSsid
        <5> QED BY <2>1, <5>1, <5>2 DEF Pointee
      <4> QED BY <4>1, <4>2, <4>3, <4>4 DEF Stage
    <3> QED BY <3>1, <3>2, <3>3
  <2> QED BY <1>0, <2>1, <2>3, <2>4, <2>6, CallerStep, TasksKnown
<1>2. CASE ApplyCheck(t)
  <2>1. /\ At(t, "apply_check") /\ link' = (link /\ suppress)
        /\ UNCHANGED <<cfg, drv, suppress, active, phase, httpd, server, dns>>
    BY <1>2 DEF ApplyCheck, store, portal
  <2>2. SameShape
    BY <2>1 DEF SameShape
  <2>3. \A u \in Tasks : loc'[u].re = loc[u].re
    <3>1. loc' = loc \/ loc' = [loc EXCEPT ![t].ptr = CS!ActiveNone, ![t].ret = "ok"]
      BY <1>2 DEF ApplyCheck
    <3> QED BY <1>0, <3>1 DEF LocOK, Locals
  <2>4. KeepsGate
    BY <1>00, <2>1 DEF KeepsGate
  <2>5. CASE Pointee(t) = Blank
    <3>1. Do(t, <<>>)
      BY <1>2, <2>5 DEF ApplyCheck
    <3>2. todo'["sys_evt"] = todo["sys_evt"]
      BY <1>0, <2>1, <3>1, DoTyped, TasksKnown DEF At
    <3>3. ASSUME NEW p \in Seq(Labels), Stage(t, p), p # <<>>, Head(p) = "apply_check"
          PROVE  Stage(t, <<>> \o Tail(p))'
      <4>1. \/ p = <<"apply_check">> /\ Shut /\ HasSsid /\ ~loc[t].re
            \/ p = <<"apply_check", "start">> /\ Either /\ ~HasSsid /\ Calm /\ ~loc[t].re
        BY <3>3 DEF Stage, LoneScan, OpeningScan, HttpdPrograms
      <4>2. CASE p = <<"apply_check">> /\ Shut /\ HasSsid /\ ~loc[t].re
        <5>1. <<>> \o Tail(p) = <<>>
          BY <3>3, <4>2, NextLabel, Tails
        <5>2. Whole
          BY <4>2 DEF Whole
        <5>3. Whole' /\ ~loc'[t].re
          BY <1>0, <2>2, <2>3, <4>2, <5>2, ShapeKept
        <5> QED BY <5>1, <5>3 DEF Stage
      <4>3. CASE p = <<"apply_check", "start">> /\ Either /\ ~HasSsid /\ Calm /\ ~loc[t].re
        <5>1. <<>> \o Tail(p) = <<"start">>
          BY <3>3, <4>3, NextLabel, Tails
        <5>2. Either' /\ ~HasSsid' /\ ~loc'[t].re
          BY <1>0, <2>2, <2>3, <4>3, ShapeKept
        <5>3. Calm'
          BY <2>1, <3>2, <4>3 DEF Calm, NoneConnected
        <5> QED BY <5>1, <5>2, <5>3 DEF Stage
      <4> QED BY <4>1, <4>2, <4>3
    <3> QED BY <1>0, <2>1, <2>3, <2>4, <3>1, <3>3, CallerStep, TasksKnown
  <2>6. CASE Pointee(t) # Blank
    <3>1. PICK c : c = <<"apply_conf", "apply_connect">>
      OBVIOUS
    <3>2. c \in Seq(Labels)
      <4>1. "apply_conf" \in Labels /\ "apply_connect" \in Labels
        BY DEF Labels
      <4> QED BY <3>1, <4>1, Calls
    <3>3. Do(t, c)
      BY <1>2, <2>6, <3>1 DEF ApplyCheck
    <3>4. ASSUME NEW p \in Seq(Labels), Stage(t, p), p # <<>>, Head(p) = "apply_check"
          PROVE  Stage(t, c \o Tail(p))'
      <4>1. \/ p = <<"apply_check">> /\ Shut /\ HasSsid /\ ~loc[t].re
            \/ p = <<"apply_check", "start">> /\ Pointee(t) = Blank
        BY <3>4 DEF Stage, LoneScan, OpeningScan, HttpdPrograms
      <4>2. c \o Tail(p) = <<"apply_conf", "apply_connect">>
        BY <2>6, <3>1, <3>2, <4>1, LastCall
      <4>3. Shut' /\ HasSsid' /\ ~loc'[t].re
        BY <1>0, <2>2, <2>3, <2>6, <4>1, ShapeKept
      <4> QED BY <4>2, <4>3 DEF Stage
    <3> QED BY <1>0, <2>1, <2>3, <2>4, <3>2, <3>3, <3>4, CallerStep, TasksKnown
  <2> QED BY <2>5, <2>6
<1>3. CASE ApplyConf(t)
  <2>1. /\ At(t, "apply_conf") /\ Do(t, <<>>) /\ SetLoc(t, "ptr", CS!ActiveNone)
        /\ UNCHANGED <<cfg, suppress, link, active, phase, httpd, server, dns>>
    BY <1>3 DEF ApplyConf, store, portal
  <2>2. \A u \in Tasks : loc'[u].re = loc[u].re
    BY <1>0, <2>1, OtherLocals
  <2>3. KeepsGate
    BY <1>00, <2>1 DEF KeepsGate
  <2>4. drv' = drv \/ drv'.mode = "STA"
    <3>1. PICK e : e = WD!SetMode(drv, "STA")
      OBVIOUS
    <3>2. e \in WD!Drivers /\ e.mode = "STA"
      BY <1>0, <3>1, DriverCalls
    <3>3. Pointee(t) \in Names \cup {Blank}
      BY <1>0 DEF TypeInv, Pointee, LocOK, StoreOK, CS!TypeOK, CS!Configs, CS!Profiles, CS!Ssids
    <3>4. drv' = drv \/ drv' = WD!SetConfig(e, Pointee(t))
      BY <1>3, <3>1 DEF ApplyConf
    <3> QED BY <3>2, <3>3, <3>4, DriverCalls
  <2>5. ASSUME NEW p \in Seq(Labels), Stage(t, p), p # <<>>, Head(p) = "apply_conf"
        PROVE  Stage(t, <<>> \o Tail(p))'
    <3>1. p = <<"apply_conf", "apply_connect">> /\ Shut /\ HasSsid /\ ~loc[t].re
      BY <2>5 DEF Stage, LoneScan, OpeningScan, HttpdPrograms
    <3>2. <<>> \o Tail(p) = <<"apply_connect">>
      BY <2>5, <3>1, NextLabel, Tails
    <3>3. SameShape
      BY <2>1, <2>4, <3>1 DEF SameShape, Shut
    <3>4. Shut' /\ HasSsid' /\ ~loc'[t].re
      BY <1>0, <2>2, <3>1, <3>3, ShapeKept
    <3> QED BY <3>2, <3>4 DEF Stage
  <2> QED BY <1>0, <2>1, <2>2, <2>3, <2>5, CallerStep, TasksKnown
<1>4. CASE ApplyConnect(t)
  <2>1. /\ At(t, "apply_connect") /\ Do(t, <<>>) /\ drv' = WD!Connect(drv)
        /\ SetLoc(t, "ret", IF WD!ConnectOk(drv) THEN "ok" ELSE "fail")
        /\ UNCHANGED <<cfg, suppress, link, active, phase, httpd, server, dns>>
    BY <1>4 DEF ApplyConnect, store, portal
  <2>2. SameShape
    BY <1>0, <2>1, DriverCalls DEF SameShape
  <2>3. \A u \in Tasks : loc'[u].re = loc[u].re
    BY <1>0, <2>1, OtherLocals
  <2>4. KeepsGate
    BY <1>00, <2>1 DEF KeepsGate
  <2>5. ASSUME NEW p \in Seq(Labels), Stage(t, p), p # <<>>, Head(p) = "apply_connect"
        PROVE  Stage(t, <<>> \o Tail(p))'
    <3>1. p = <<"apply_connect">> /\ Shut /\ HasSsid /\ ~loc[t].re
      BY <2>5 DEF Stage, LoneScan, OpeningScan, HttpdPrograms
    <3>2. <<>> \o Tail(p) = <<>>
      BY <2>5, <3>1, NextLabel, Tails
    <3>3. Whole' /\ ~loc'[t].re
      BY <1>0, <2>2, <2>3, <3>1, ShapeKept DEF Whole
    <3> QED BY <3>2, <3>3 DEF Stage
  <2> QED BY <1>0, <2>1, <2>3, <2>4, <2>5, CallerStep, TasksKnown
<1> QED BY <1>1, <1>2, <1>3, <1>4 DEF ApplySteps

\* wifi_mgr_scan, on its own or inside provisioning_start.
LEMMA ScanMoves ==
    /\ Tail(<<"scan", "scan_disconnect", "scan_start">>) = <<"scan_disconnect", "scan_start">>
    /\ Tail(<<"scan_disconnect", "scan_start">>) = <<"scan_start">>
    /\ Tail(<<"scan", "scan_disconnect", "scan_start", "start_softap", "start_httpd">>) =
         <<"scan_disconnect", "scan_start", "start_softap", "start_httpd">>
    /\ Tail(<<"scan_disconnect", "scan_start", "start_softap", "start_httpd">>) =
         <<"scan_start", "start_softap", "start_httpd">>
    /\ Tail(<<"scan_exit", "start_softap", "start_httpd">>) = <<"start_softap", "start_httpd">>
    /\ \A a \in {"scan_wait", "scan_exit"} :
         /\ <<a>> \o Tail(<<"scan_start", "start_softap", "start_httpd">>) = <<a, "start_softap", "start_httpd">>
         /\ <<a>> \o Tail(<<"scan_wait", "start_softap", "start_httpd">>) = <<a, "start_softap", "start_httpd">>
<1>1. Tail(<<"scan", "scan_disconnect", "scan_start">>) = <<"scan_disconnect", "scan_start">>
  OBVIOUS
<1>2. Tail(<<"scan_disconnect", "scan_start">>) = <<"scan_start">>
  OBVIOUS
<1>3. Tail(<<"scan", "scan_disconnect", "scan_start", "start_softap", "start_httpd">>) =
        <<"scan_disconnect", "scan_start", "start_softap", "start_httpd">>
  OBVIOUS
<1>4. Tail(<<"scan_disconnect", "scan_start", "start_softap", "start_httpd">>) =
        <<"scan_start", "start_softap", "start_httpd">>
  OBVIOUS
<1>5. Tail(<<"scan_exit", "start_softap", "start_httpd">>) = <<"start_softap", "start_httpd">>
  OBVIOUS
<1>6. ASSUME NEW a \in {"scan_wait", "scan_exit"}
      PROVE  /\ <<a>> \o Tail(<<"scan_start", "start_softap", "start_httpd">>) = <<a, "start_softap", "start_httpd">>
             /\ <<a>> \o Tail(<<"scan_wait", "start_softap", "start_httpd">>) = <<a, "start_softap", "start_httpd">>
  <2>1. a \in Labels /\ "start_softap" \in Labels /\ "start_httpd" \in Labels
    BY DEF Labels
  <2>2. <<a>> \o <<"start_softap", "start_httpd">> = <<a, "start_softap", "start_httpd">>
    BY <2>1, OneAndTwo
  <2>3. Tail(<<"scan_start", "start_softap", "start_httpd">>) = <<"start_softap", "start_httpd">>
    OBVIOUS
  <2>4. Tail(<<"scan_wait", "start_softap", "start_httpd">>) = <<"start_softap", "start_httpd">>
    OBVIOUS
  <2> QED BY <2>2, <2>3, <2>4
<1> QED BY <1>1, <1>2, <1>3, <1>4, <1>5, <1>6

LEMMA ScanSolo == ASSUME TypeInv, SoloInv, NEW t \in Callers, ScanSteps(t), UNCHANGED portal PROVE SoloInv'
<1>0. t \in Tasks /\ TodoOK /\ LocOK /\ drv \in WD!Drivers /\ <<>> \in Seq(Labels)
  BY TasksKnown, Calls DEF TypeInv, PlainOK
<1>1. /\ UNCHANGED <<cfg, suppress, active, phase, httpd, server, dns>>
      /\ drv' = drv \/ drv' = WD!Disconnect(drv) \/ drv' = WD!ScanStart(drv) \/ drv' = WD!ScanStop(drv)
      /\ link' = link \/ link' = (link /\ suppress)
  BY DEF ScanSteps, ScanEnter, ScanDisconnect, ScanStart, ScanWait, ScanExit, store, portal
<1>2. SameShape
  BY <1>0, <1>1, DriverCalls DEF SameShape
<1>3. KeepsGate
  BY <1>1 DEF KeepsGate, TypeInv, PlainOK
<1>4. CASE ScanEnter(t)
  <2>1. At(t, "scan") /\ Do(t, <<>>) /\ SetLoc(t, "prev", st)
    BY <1>4 DEF ScanEnter
  <2>2. \A u \in Tasks : loc'[u].re = loc[u].re
    BY <1>0, <2>1, OtherLocals
  <2>3. ASSUME NEW p \in Seq(Labels), Stage(t, p), p # <<>>, Head(p) = "scan"
        PROVE  Stage(t, <<>> \o Tail(p))'
    <3>1. \/ /\ p = <<"scan", "scan_disconnect", "scan_start">>
             /\ Whole /\ (loc[t].re => ~active)
          \/ /\ p = <<"scan", "scan_disconnect", "scan_start", "start_softap", "start_httpd">>
             /\ Opening /\ ~httpd /\ ~server /\ drv.mode = "STA" /\ ~loc[t].re
      BY <2>3 DEF Stage, LoneScan, OpeningScan, HttpdPrograms
    <3>2. \/ /\ <<>> \o Tail(p) = <<"scan_disconnect", "scan_start">>
             /\ Whole' /\ (loc'[t].re => ~active')
          \/ /\ <<>> \o Tail(p) = <<"scan_disconnect", "scan_start", "start_softap", "start_httpd">>
             /\ Opening' /\ ~httpd' /\ ~server' /\ drv'.mode = "STA" /\ ~loc'[t].re
      BY <1>0, <1>2, <2>2, <2>3, <3>1, NextLabel, ScanMoves, ShapeKept
    <3> QED BY <3>2 DEF Stage, LoneScan, OpeningScan
  <2> QED BY <1>0, <1>3, <2>1, <2>2, <2>3, CallerStep, TasksKnown
<1>5. CASE ScanDisconnect(t)
  <2>1. At(t, "scan_disconnect") /\ Do(t, <<>>) /\ UNCHANGED loc
    BY <1>5 DEF ScanDisconnect
  <2>3. ASSUME NEW p \in Seq(Labels), Stage(t, p), p # <<>>, Head(p) = "scan_disconnect"
        PROVE  Stage(t, <<>> \o Tail(p))'
    <3>1. \/ p = <<"scan_disconnect", "scan_start">> /\ Whole /\ (loc[t].re => ~active)
          \/ /\ p = <<"scan_disconnect", "scan_start", "start_softap", "start_httpd">>
             /\ Opening /\ ~httpd /\ ~server /\ drv.mode = "STA" /\ ~loc[t].re
      BY <2>3 DEF Stage, LoneScan, OpeningScan, HttpdPrograms
    <3>2. \/ /\ <<>> \o Tail(p) = <<"scan_start">>
             /\ Whole' /\ (loc'[t].re => ~active')
          \/ /\ <<>> \o Tail(p) = <<"scan_start", "start_softap", "start_httpd">>
             /\ Opening' /\ ~httpd' /\ ~server' /\ drv'.mode = "STA" /\ ~loc'[t].re
      BY <1>0, <1>2, <2>1, <2>3, <3>1, NextLabel, ScanMoves, ShapeKept
    <3> QED BY <3>2 DEF Stage, LoneScan, OpeningScan
  <2> QED BY <1>0, <1>3, <2>1, <2>3, CallerStep, TasksKnown
<1>6. CASE ScanStart(t) \/ ScanWait(t)
  <2>1. PICK label \in {"scan_start", "scan_wait"}, a \in {"scan_wait", "scan_exit"} :
          At(t, label) /\ Do(t, <<a>>) /\ UNCHANGED loc
    BY <1>6 DEF ScanStart, ScanWait
  <2>2. PICK c : c = <<a>>
    OBVIOUS
  <2>3. c \in Seq(Labels)
    BY <2>2, Calls DEF Labels
  <2>4. ASSUME NEW p \in Seq(Labels), Stage(t, p), p # <<>>, Head(p) = label
        PROVE  Stage(t, c \o Tail(p))'
    <3>1. \/ p = <<label>> /\ Whole /\ (loc[t].re => ~active)
          \/ /\ p = <<label, "start_softap", "start_httpd">>
             /\ Opening /\ ~httpd /\ ~server /\ drv.mode = "STA" /\ ~loc[t].re
      BY <2>1, <2>4 DEF Stage, LoneScan, OpeningScan, HttpdPrograms
    <3>2. CASE p = <<label>> /\ Whole /\ (loc[t].re => ~active)
      <4>1. c \o Tail(p) = <<a>>
        BY <2>2, <2>3, <3>2, LastCall
      <4>2. Whole' /\ (loc'[t].re => ~active')
        BY <1>2, <2>1, <3>2, ShapeKept
      <4> QED BY <2>1, <4>1, <4>2 DEF Stage, LoneScan
    <3>3. CASE /\ p = <<label, "start_softap", "start_httpd">>
               /\ Opening /\ ~httpd /\ ~server /\ drv.mode = "STA" /\ ~loc[t].re
      <4>1. c \o Tail(p) = <<a, "start_softap", "start_httpd">>
        BY <2>1, <2>2, <3>3, ScanMoves
      <4>2. Opening' /\ ~httpd' /\ ~server' /\ drv'.mode = "STA" /\ ~loc'[t].re
        BY <1>2, <2>1, <3>3, ShapeKept
      <4> QED BY <2>1, <4>1, <4>2 DEF Stage, OpeningScan
    <3> QED BY <3>1, <3>2, <3>3
  <2> QED BY <1>0, <1>3, <2>1, <2>2, <2>3, <2>4, CallerStep, TasksKnown
<1>7. CASE ScanExit(t)
  <2>1. At(t, "scan_exit") /\ loc' = [loc EXCEPT ![t].prev = "IDLE", ![t].re = FALSE]
    BY <1>7 DEF ScanExit
  <2>2. ~loc'[t].re /\ \A u \in Tasks \ {t} : loc'[u].re = loc[u].re
    BY <1>0, <2>1 DEF LocOK, Locals
  <2>3. PICK c : c = IF loc[t].re THEN Apply ELSE <<>>
    OBVIOUS
  <2>4. c \in Seq(Labels) /\ Do(t, c)
    BY <1>7, <2>3, Calls DEF ScanExit
  <2>5. ASSUME NEW p \in Seq(Labels), Stage(t, p), p # <<>>, Head(p) = "scan_exit"
        PROVE  Stage(t, c \o Tail(p))'
    <3>1. \/ p = <<"scan_exit">> /\ Whole /\ (loc[t].re => ~active)
          \/ /\ p = <<"scan_exit", "start_softap", "start_httpd">>
             /\ Opening /\ ~httpd /\ ~server /\ drv.mode = "STA" /\ ~loc[t].re
      BY <2>5 DEF Stage, LoneScan, OpeningScan, HttpdPrograms
    <3>2. CASE p = <<"scan_exit">> /\ Whole /\ loc[t].re /\ ~active
      <4>1. c \o Tail(p) = <<"apply", "apply_check">>
        BY <2>3, <2>4, <3>2, LastCall DEF Apply
      <4>2. Shut /\ HasSsid
        BY <3>2 DEF Whole, Opened
      <4>3. Shut' /\ HasSsid'
        BY <1>2, <4>2, ShapeKept
      <4> QED BY <2>2, <4>1, <4>3 DEF Stage
    <3>3. CASE p = <<"scan_exit">> /\ Whole /\ ~loc[t].re
      <4>1. c \o Tail(p) = <<>>
        BY <2>3, <2>4, <3>3, LastCall
      <4>2. Whole'
        BY <1>2, <3>3, ShapeKept
      <4> QED BY <2>2, <4>1, <4>2 DEF Stage
    <3>4. CASE /\ p = <<"scan_exit", "start_softap", "start_httpd">>
               /\ Opening /\ ~httpd /\ ~server /\ drv.mode = "STA" /\ ~loc[t].re
      <4>1. c \o Tail(p) = <<"start_softap", "start_httpd">>
        BY <2>3, <2>5, <3>4, NextLabel, ScanMoves
      <4>2. Opening' /\ ~httpd' /\ ~server' /\ drv'.mode = "STA"
        BY <1>2, <3>4, ShapeKept
      <4> QED BY <2>2, <4>1, <4>2 DEF Stage, OpeningScan
    <3> QED BY <3>1, <3>2, <3>3, <3>4
  <2> QED BY <1>0, <1>3, <2>1, <2>2, <2>4, <2>5, CallerStep, TasksKnown
<1> QED BY <1>4, <1>5, <1>6, <1>7 DEF ScanSteps

\* wifi_mgr_test_connect, which only the HTTP server's task calls.
LEMMA TestSolo == ASSUME TypeInv, SoloInv, NEW t \in Callers, TestSteps(t), UNCHANGED portal PROVE SoloInv'
<1>0. t \in Tasks /\ TodoOK /\ LocOK /\ drv \in WD!Drivers
  BY TasksKnown DEF TypeInv, PlainOK
<1>1. UNCHANGED <<cfg, suppress, link, active, phase, httpd, server, dns>>
  BY DEF TestSteps, TestDisconnect, TestConf, TestConnect, TestWait, store, portal
<1>2. \A u \in Tasks : loc'[u].re = loc[u].re
  <2>1. UNCHANGED loc \/ \E v : SetLoc(t, "ret", v)
    BY DEF TestSteps, TestDisconnect, TestConf, TestConnect, TestWait
  <2> QED BY <1>0, <2>1, OtherLocals
<1>3. KeepsGate
  BY <1>1 DEF KeepsGate, TypeInv, PlainOK
<1>4. PICK label \in {"test", "test_drain", "test_connect", "test_wait"},
           c \in {<<>>, <<"test_connect">>, <<"test_wait">>} :
        /\ At(t, label) /\ Do(t, c)
        /\ label \in {"test", "test_wait"} => c = <<>>
        /\ label = "test_drain" => c = <<"test_connect">>
        /\ label = "test_connect" => c # <<"test_connect">>
  BY DEF TestSteps, TestDisconnect, TestConf, TestConnect, TestWait
<1>5. c \in Seq(Labels)
  <2>1. "test_connect" \in Labels /\ "test_wait" \in Labels
    BY DEF Labels
  <2> QED BY <1>4, <2>1, Calls
<1>6. ASSUME NEW p \in Seq(Labels), Stage(t, p), p # <<>>, Head(p) = label
      PROVE  Stage(t, c \o Tail(p))'
  <2>1. /\ p \in {<<"test", "test_drain", "test_result">>, <<"test_drain", "test_result">>,
                  <<"test_connect", "test_result">>, <<"test_wait", "test_result">>}
        /\ Opened /\ phase = "TESTING" /\ ~HasSsid /\ ~loc[t].re
    BY <1>4, <1>6 DEF Stage, LoneScan, OpeningScan, HttpdPrograms
  <2>2. SameShape
    <3>1. drv'.mode = drv.mode
      <4>1. PICK net \in Names \cup {Blank} : net = loc[t].net
        BY <1>0 DEF LocOK, Locals
      <4>2. \/ drv' = drv \/ drv' = WD!Disconnect(drv) \/ drv' = WD!Connect(drv)
            \/ drv' = WD!SetConfig(drv, net)
        BY <4>1 DEF TestSteps, TestDisconnect, TestConf, TestConnect, TestWait
      <4>3. /\ WD!Disconnect(drv).mode = drv.mode /\ WD!Connect(drv).mode = drv.mode
            /\ WD!SetConfig(drv, net).mode = drv.mode
        BY <1>0, <4>1, DriverCalls
      <4> QED BY <4>2, <4>3
    <3> QED BY <1>1, <3>1 DEF SameShape
  <2>3. Opened' /\ phase' = "TESTING" /\ ~HasSsid' /\ ~loc'[t].re
    BY <1>0, <1>2, <2>1, <2>2, ShapeKept
  <2>4. c \o Tail(p) \in HttpdPrograms \ {<<>>}
    <3>1. CASE label = "test"
      <4>1. p = <<"test", "test_drain", "test_result">>
        BY <1>6, <2>1, <3>1
      <4>2. c = <<>>
        BY <1>4, <3>1
      <4>3. c \o Tail(p) = <<"test_drain", "test_result">>
        BY <4>1, <4>2, HttpdMoves
      <4>4. PICK q : q = c \o Tail(p)
        OBVIOUS
      <4>5. q \in HttpdPrograms \ {<<>>}
        BY <4>3, <4>4 DEF HttpdPrograms
      <4> QED BY <4>4, <4>5
    <3>2. CASE label = "test_drain"
      <4>1. p = <<"test_drain", "test_result">>
        BY <1>6, <2>1, <3>2
      <4>2. c = <<"test_connect">>
        BY <1>4, <3>2
      <4>3. c \o Tail(p) = <<"test_connect", "test_result">>
        BY <4>1, <4>2, HttpdMoves
      <4>4. PICK q : q = c \o Tail(p)
        OBVIOUS
      <4>5. q \in HttpdPrograms \ {<<>>}
        BY <4>3, <4>4 DEF HttpdPrograms
      <4> QED BY <4>4, <4>5
    <3>3. CASE label = "test_connect"
      <4>1. p = <<"test_connect", "test_result">>
        BY <1>6, <2>1, <3>3
      <4>2. c = <<"test_wait">> \/ c = <<>>
        BY <1>4, <3>3
      <4>3. c \o Tail(p) = <<"test_wait", "test_result">> \/ c \o Tail(p) = <<"test_result">>
        BY <4>1, <4>2, HttpdMoves
      <4>4. PICK q : q = c \o Tail(p)
        OBVIOUS
      <4>5. q \in HttpdPrograms \ {<<>>}
        BY <4>3, <4>4 DEF HttpdPrograms
      <4> QED BY <4>4, <4>5
    <3>4. CASE label = "test_wait"
      <4>1. p = <<"test_wait", "test_result">>
        BY <1>6, <2>1, <3>4
      <4>2. c = <<>>
        BY <1>4, <3>4
      <4>3. c \o Tail(p) = <<"test_result">>
        BY <4>1, <4>2, HttpdMoves
      <4>4. PICK q : q = c \o Tail(p)
        OBVIOUS
      <4>5. q \in HttpdPrograms \ {<<>>}
        BY <4>3, <4>4 DEF HttpdPrograms
      <4> QED BY <4>4, <4>5
    <3> QED BY <1>4, <3>1, <3>2, <3>3, <3>4
  <2> QED BY <2>3, <2>4 DEF Stage
<1> QED BY <1>0, <1>2, <1>3, <1>4, <1>5, <1>6, CallerStep, TasksKnown

LEMMA CalmUnarmed == ASSUME Calm PROVE Unarmed
<1>1. <<"ev_retry">> # <<"ev_arm", "ev_ok">> /\ <<>> # <<"ev_arm", "ev_ok">>
  OBVIOUS
<1> QED BY <1>1, Zenon DEF Calm, Unarmed

\* provisioning_start.
LEMMA OpenSolo == ASSUME TypeInv, SoloInv, NEW t \in Callers, OpenSteps(t) PROVE SoloInv'
<1>0. t \in Tasks /\ TodoOK /\ LocOK /\ drv \in WD!Drivers /\ <<>> \in Seq(Labels)
  BY TasksKnown, Calls DEF TypeInv, PlainOK
<1>1. CASE OpenBegin(t)
  <2>1. /\ At(t, "start")
        /\ UNCHANGED <<cfg, drv, active, httpd, server, dns>>
    BY <1>1 DEF OpenBegin, store
  <2>2. \A u \in Tasks : loc'[u].re = loc[u].re
    <3>1. UNCHANGED loc \/ SetLoc(t, "ret", "ok")
      BY <1>1 DEF OpenBegin
    <3> QED BY <1>0, <3>1, OtherLocals
  <2>3. CASE active
    <3>1. Do(t, <<>>) /\ UNCHANGED <<phase, suppress, link>>
      BY <1>1, <2>3 DEF OpenBegin
    <3>2. SameShape
      BY <2>1, <3>1 DEF SameShape
    <3>3. KeepsGate
      BY <3>1 DEF KeepsGate
    <3>4. ASSUME NEW p \in Seq(Labels), Stage(t, p), p # <<>>, Head(p) = "start"
          PROVE  Stage(t, <<>> \o Tail(p))'
      <4>1. p = <<"start">> /\ Either /\ ~HasSsid /\ ~loc[t].re
        BY <3>4 DEF Stage, LoneScan, OpeningScan, HttpdPrograms
      <4>2. <<>> \o Tail(p) = <<>>
        BY <3>4, <4>1, NextLabel, Tails
      <4>3. Whole
        BY <2>3, <4>1 DEF Whole, Either, Shut
      <4>4. Whole' /\ ~loc'[t].re
        BY <1>0, <2>2, <3>2, <4>1, <4>3, ShapeKept
      <4> QED BY <4>2, <4>4 DEF Stage
    <3> QED BY <1>0, <2>1, <2>2, <3>1, <3>3, <3>4, CallerStep, TasksKnown
  <2>4. CASE ~active
    <3>1. PICK c : c = <<"scan", "scan_disconnect", "scan_start", "start_softap", "start_httpd">>
      OBVIOUS
    <3>2. Scan \o <<"start_softap", "start_httpd">> = c
      <4>1. /\ "scan" \in Labels /\ "scan_disconnect" \in Labels /\ "scan_start" \in Labels
            /\ "start_softap" \in Labels /\ "start_httpd" \in Labels
        BY DEF Labels
      <4>2. <<"scan", "scan_disconnect", "scan_start">> \o <<"start_softap", "start_httpd">> =
              <<"scan", "scan_disconnect", "scan_start", "start_softap", "start_httpd">>
        BY <4>1, ThreeAndTwo
      <4> QED BY <3>1, <4>2 DEF Scan
    <3>3. c \in Seq(Labels)
      <4>1. "start_softap" \in Labels /\ "start_httpd" \in Labels
        BY DEF Labels
      <4>2. PICK u : u = <<"start_softap", "start_httpd">>
        OBVIOUS
      <4>3. u \in Seq(Labels) /\ Scan \in Seq(Labels)
        BY <4>1, <4>2, Calls
      <4>4. Scan \o u \in Seq(Labels)
        BY <4>3, Calls
      <4> QED BY <3>2, <4>2, <4>4
    <3>4. Do(t, c) /\ phase' = "SCANNING" /\ suppress' = TRUE /\ link' = FALSE
      BY <1>1, <2>4, <3>2 DEF OpenBegin
    <3>5. KeepsGate
      <4>1. PICK p \in Seq(Labels) : Stage(t, p) /\ p # <<>> /\ Head(p) = "start"
        BY <2>1, RunsFrom
      <4>2. Calm
        BY <4>1 DEF Stage, LoneScan, OpeningScan, HttpdPrograms
      <4>3. Unarmed
        BY <4>2, CalmUnarmed
      <4> QED BY <3>4, <4>3 DEF KeepsGate
    <3>6. ASSUME NEW p \in Seq(Labels), Stage(t, p), p # <<>>, Head(p) = "start"
          PROVE  Stage(t, c \o Tail(p))'
      <4>1. p = <<"start">> /\ Either /\ ~HasSsid /\ ~loc[t].re
        BY <3>6 DEF Stage, LoneScan, OpeningScan, HttpdPrograms
      <4>2. c \o Tail(p) = c
        BY <3>3, <4>1, LastCall
      <4>3. Shut
        BY <2>4, <4>1 DEF Either, Opened
      <4>4. HasSsid' = HasSsid
        BY <2>1 DEF HasSsid
      <4>5. Opening' /\ ~httpd' /\ ~server' /\ drv'.mode = "STA" /\ ~loc'[t].re
        BY <1>0, <2>1, <2>2, <2>4, <3>4, <4>1, <4>3, <4>4 DEF Shut, Opening
      <4> QED BY <3>1, <4>2, <4>5 DEF Stage, OpeningScan
    <3> QED BY <1>0, <2>1, <2>2, <3>3, <3>4, <3>5, <3>6, CallerStep, TasksKnown
  <2> QED BY <2>3, <2>4
<1>2. CASE OpenSoftap(t)
  <2>1. /\ At(t, "start_softap") /\ Do(t, <<>>)
        /\ drv' = WD!SetMode(drv, "APSTA")
        /\ UNCHANGED <<cfg, suppress, link, loc, active, phase, httpd, server, dns>>
    BY <1>2 DEF OpenSoftap, StartSoftap, store, portal
  <2>2. KeepsGate
    BY <2>1 DEF KeepsGate
  <2>3. ASSUME NEW p \in Seq(Labels), Stage(t, p), p # <<>>, Head(p) = "start_softap"
        PROVE  Stage(t, <<>> \o Tail(p))'
    <3>1. /\ p = <<"start_softap", "start_httpd">>
          /\ Opening /\ ~httpd /\ ~server /\ ~loc[t].re
      BY <2>3 DEF Stage, LoneScan, OpeningScan, HttpdPrograms
    <3>2. <<>> \o Tail(p) = <<"start_httpd">>
      BY <2>3, <3>1, NextLabel, Tails
    <3>3. HasSsid' = HasSsid
      BY <2>1 DEF HasSsid
    <3>4. drv'.mode = "APSTA"
      BY <1>0, <2>1, DriverCalls
    <3>5. Opening' /\ ~httpd' /\ ~server' /\ ~loc'[t].re
      BY <2>1, <3>1, <3>3 DEF Opening
    <3> QED BY <3>2, <3>4, <3>5 DEF Stage
  <2> QED BY <1>0, <2>1, <2>2, <2>3, CallerStep, TasksKnown
<1>3. CASE OpenHttpd(t)
  <2>1. PICK p \in Seq(Labels) : Stage(t, p) /\ p # <<>> /\ Head(p) = "start_httpd"
    BY <1>3, RunsFrom DEF OpenHttpd
  <2>2. ~server
    BY <2>1 DEF Stage, LoneScan, OpeningScan, HttpdPrograms
  <2>3. /\ At(t, "start_httpd") /\ Do(t, <<"start_open">>)
        /\ httpd' = TRUE /\ server' = TRUE
        /\ UNCHANGED <<cfg, drv, suppress, link, loc, active, phase, dns>>
    BY <1>3, <2>2 DEF OpenHttpd, StartHttpd, store
  <2>4. KeepsGate
    BY <2>3 DEF KeepsGate
  <2>5. PICK c : c = <<"start_open">>
    OBVIOUS
  <2>6. c \in Seq(Labels)
    <3>1. "start_open" \in Labels
      BY DEF Labels
    <3> QED BY <2>5, <3>1, Calls
  <2>7. ASSUME NEW r \in Seq(Labels), Stage(t, r), r # <<>>, Head(r) = "start_httpd"
        PROVE  Stage(t, c \o Tail(r))'
    <3>1. r = <<"start_httpd">> /\ Opening /\ drv.mode = "APSTA" /\ ~loc[t].re
      BY <2>7 DEF Stage, LoneScan, OpeningScan, HttpdPrograms
    <3>2. c \o Tail(r) = <<"start_open">>
      BY <2>5, <2>6, <3>1, LastCall
    <3>3. HasSsid' = HasSsid
      BY <2>3 DEF HasSsid
    <3>4. Opening' /\ httpd' /\ server' /\ drv'.mode = "APSTA" /\ ~loc'[t].re
      BY <2>3, <3>1, <3>3 DEF Opening
    <3> QED BY <3>2, <3>4 DEF Stage
  <2> QED BY <1>0, <2>3, <2>4, <2>5, <2>6, <2>7, CallerStep, TasksKnown
<1>4. CASE OpenEnd(t)
  <2>1. /\ At(t, "start_open") /\ Do(t, <<>>) /\ SetLoc(t, "ret", "ok")
        /\ dns' = TRUE /\ phase' = "PORTAL" /\ active' = TRUE
        /\ UNCHANGED <<cfg, drv, suppress, link, httpd, server>>
    BY <1>4 DEF OpenEnd, store
  <2>2. KeepsGate
    BY <2>1 DEF KeepsGate
  <2>3. \A u \in Tasks : loc'[u].re = loc[u].re
    BY <1>0, <2>1, OtherLocals
  <2>4. ASSUME NEW p \in Seq(Labels), Stage(t, p), p # <<>>, Head(p) = "start_open"
        PROVE  Stage(t, <<>> \o Tail(p))'
    <3>1. p = <<"start_open">> /\ Opening /\ httpd /\ server /\ drv.mode = "APSTA" /\ ~loc[t].re
      BY <2>4 DEF Stage, LoneScan, OpeningScan, HttpdPrograms
    <3>2. <<>> \o Tail(p) = <<>>
      BY <2>4, <3>1, NextLabel, Tails
    <3>3. HasSsid' = HasSsid
      BY <2>1 DEF HasSsid
    <3>4. Opened' /\ phase' = "PORTAL" /\ ~HasSsid'
      BY <2>1, <3>1, <3>3 DEF Opening, Opened
    <3>5. Whole' /\ ~loc'[t].re
      BY <1>0, <2>3, <3>1, <3>4 DEF Whole
    <3> QED BY <3>2, <3>5 DEF Stage
  <2> QED BY <1>0, <2>1, <2>2, <2>3, <2>4, CallerStep, TasksKnown
<1> QED BY <1>1, <1>2, <1>3, <1>4 DEF OpenSteps

LEMMA CloseMoves ==
    /\ <<"stop_httpd", "stop_radio", "stop_gate">> \o Tail(<<"stop", "apply", "apply_check">>) =
         <<"stop_httpd", "stop_radio", "stop_gate", "apply", "apply_check">>
    /\ Tail(<<"stop_httpd", "stop_radio", "stop_gate", "apply", "apply_check">>) =
         <<"stop_radio", "stop_gate", "apply", "apply_check">>
    /\ Tail(<<"stop_radio", "stop_gate", "apply", "apply_check">>) = <<"stop_gate", "apply", "apply_check">>
    /\ Tail(<<"stop_gate", "apply", "apply_check">>) = <<"apply", "apply_check">>
    /\ <<"stop_httpd">> \o <<"stop_radio", "stop_gate">> = <<"stop_httpd", "stop_radio", "stop_gate">>
    /\ <<"stop_httpd", "stop_radio", "stop_gate">> \in Seq(Labels)
<1>1. /\ "stop_httpd" \in Labels /\ "stop_radio" \in Labels /\ "stop_gate" \in Labels
      /\ "apply" \in Labels /\ "apply_check" \in Labels
  BY DEF Labels
<1>2. Tail(<<"stop_httpd", "stop_radio", "stop_gate", "apply", "apply_check">>) =
        <<"stop_radio", "stop_gate", "apply", "apply_check">>
  OBVIOUS
<1>3. Tail(<<"stop_radio", "stop_gate", "apply", "apply_check">>) = <<"stop_gate", "apply", "apply_check">>
  OBVIOUS
<1>4. Tail(<<"stop_gate", "apply", "apply_check">>) = <<"apply", "apply_check">>
  OBVIOUS
<1>5. <<"stop_httpd">> \o <<"stop_radio", "stop_gate">> = <<"stop_httpd", "stop_radio", "stop_gate">>
  BY <1>1, OneAndTwo
<1>6. <<"stop_httpd", "stop_radio", "stop_gate">> \o <<"apply", "apply_check">> =
        <<"stop_httpd", "stop_radio", "stop_gate", "apply", "apply_check">>
  BY <1>1, ThreeAndTwo
<1>7. <<"stop_httpd", "stop_radio", "stop_gate">> \in Seq(Labels)
  <2>1. \A a, b, c \in Labels : <<a, b, c>> \in Seq(Labels)
    OBVIOUS
  <2> QED BY <1>1, <2>1
<1> QED BY <1>2, <1>3, <1>4, <1>5, <1>6, <1>7, Tails

\* provisioning_stop.
LEMMA CloseSolo == ASSUME TypeInv, SoloInv, NEW t \in Callers, CloseSteps(t) PROVE SoloInv'
<1>0. t \in Tasks /\ TodoOK /\ LocOK /\ drv \in WD!Drivers /\ <<>> \in Seq(Labels)
  BY TasksKnown, Calls DEF TypeInv, PlainOK
<1>1. UNCHANGED <<cfg, loc, link>>
  BY DEF CloseSteps, CloseBegin, CloseHttpd, CloseRadio, CloseGate, store, mgr
<1>2. HasSsid' = HasSsid
  BY <1>1 DEF HasSsid
<1>3. KeepsGate
  <2>1. suppress' = suppress \/ suppress' = FALSE
    BY DEF CloseSteps, CloseBegin, CloseHttpd, CloseRadio, CloseGate, mgr
  <2> QED BY <1>1, <2>1 DEF KeepsGate
<1>4. CASE CloseBegin(t)
  <2>1. PICK p \in Seq(Labels) : Stage(t, p) /\ p # <<>> /\ Head(p) = "stop"
    BY <1>4, RunsFrom DEF CloseBegin
  <2>2. Opened
    BY <2>1 DEF Stage, LoneScan, OpeningScan, HttpdPrograms
  <2>3. PICK c : c = <<"stop_httpd", "stop_radio", "stop_gate">>
    OBVIOUS
  <2>4. /\ At(t, "stop") /\ Do(t, c) /\ active' = FALSE /\ phase' = "IDLE" /\ dns' = FALSE
        /\ UNCHANGED <<drv, suppress, httpd, server>>
    BY <1>4, <2>2, <2>3, CloseMoves DEF CloseBegin, Opened, mgr
  <2>5. ASSUME NEW r \in Seq(Labels), Stage(t, r), r # <<>>, Head(r) = "stop"
        PROVE  Stage(t, c \o Tail(r))'
    <3>1. r = <<"stop", "apply", "apply_check">> /\ Opened /\ HasSsid /\ ~loc[t].re
      BY <2>5 DEF Stage, LoneScan, OpeningScan, HttpdPrograms
    <3>2. c \o Tail(r) = <<"stop_httpd", "stop_radio", "stop_gate", "apply", "apply_check">>
      BY <2>3, <3>1, CloseMoves
    <3>3. Closing' /\ httpd' /\ server' /\ drv'.mode = "APSTA" /\ ~loc'[t].re
      BY <1>1, <1>2, <2>4, <3>1 DEF Closing, Opened
    <3> QED BY <3>2, <3>3 DEF Stage
  <2>6. c \in Seq(Labels)
    BY <2>3, CloseMoves
  <2> QED BY <1>1, <1>3, <2>4, <2>5, <2>6, CallerStep
<1>5. CASE CloseHttpd(t)
  <2>1. /\ At(t, "stop_httpd") /\ Do(t, <<>>) /\ server' = FALSE /\ httpd' = FALSE
        /\ UNCHANGED <<drv, suppress, active, phase, dns>>
    BY <1>5 DEF CloseHttpd, mgr
  <2>2. ASSUME NEW p \in Seq(Labels), Stage(t, p), p # <<>>, Head(p) = "stop_httpd"
        PROVE  Stage(t, <<>> \o Tail(p))'
    <3>1. /\ p = <<"stop_httpd", "stop_radio", "stop_gate", "apply", "apply_check">>
          /\ Closing /\ drv.mode = "APSTA" /\ ~loc[t].re
      BY <2>2 DEF Stage, LoneScan, OpeningScan, HttpdPrograms
    <3>2. <<>> \o Tail(p) = <<"stop_radio", "stop_gate", "apply", "apply_check">>
      BY <2>2, <3>1, NextLabel, CloseMoves
    <3>3. Closing' /\ ~httpd' /\ ~server' /\ drv'.mode = "APSTA" /\ ~loc'[t].re
      BY <1>1, <1>2, <2>1, <3>1 DEF Closing
    <3> QED BY <3>2, <3>3 DEF Stage
  <2> QED BY <1>0, <1>1, <1>3, <2>1, <2>2, CallerStep
<1>6. CASE CloseRadio(t)
  <2>1. /\ At(t, "stop_radio") /\ Do(t, <<>>) /\ drv' = WD!SetMode(WD!Disconnect(drv), "STA")
        /\ UNCHANGED <<suppress, active, phase, dns, httpd, server>>
    BY <1>6 DEF CloseRadio, portal
  <2>2. drv'.mode = "STA"
    BY <1>0, <2>1, DriverCalls
  <2>3. ASSUME NEW p \in Seq(Labels), Stage(t, p), p # <<>>, Head(p) = "stop_radio"
        PROVE  Stage(t, <<>> \o Tail(p))'
    <3>1. /\ p = <<"stop_radio", "stop_gate", "apply", "apply_check">>
          /\ Closing /\ ~httpd /\ ~server /\ ~loc[t].re
      BY <2>3 DEF Stage, LoneScan, OpeningScan, HttpdPrograms
    <3>2. <<>> \o Tail(p) = <<"stop_gate", "apply", "apply_check">>
      BY <2>3, <3>1, NextLabel, CloseMoves
    <3>3. Closing' /\ ~httpd' /\ ~server' /\ ~loc'[t].re
      BY <1>1, <1>2, <2>1, <3>1 DEF Closing
    <3> QED BY <2>2, <3>2, <3>3 DEF Stage
  <2> QED BY <1>0, <1>1, <1>3, <2>1, <2>3, CallerStep
<1>7. CASE CloseGate(t)
  <2>1. /\ At(t, "stop_gate") /\ Do(t, <<>>) /\ suppress' = FALSE
        /\ UNCHANGED <<drv, active, phase, dns, httpd, server>>
    BY <1>7 DEF CloseGate, portal
  <2>2. ASSUME NEW p \in Seq(Labels), Stage(t, p), p # <<>>, Head(p) = "stop_gate"
        PROVE  Stage(t, <<>> \o Tail(p))'
    <3>1. /\ p = <<"stop_gate", "apply", "apply_check">>
          /\ Closing /\ ~httpd /\ ~server /\ drv.mode = "STA" /\ ~loc[t].re
      BY <2>2 DEF Stage, LoneScan, OpeningScan, HttpdPrograms
    <3>2. <<>> \o Tail(p) = <<"apply", "apply_check">>
      BY <2>2, <3>1, NextLabel, CloseMoves
    <3>3. Shut' /\ HasSsid' /\ ~loc'[t].re
      BY <1>1, <1>2, <2>1, <3>1 DEF Closing, Shut
    <3> QED BY <3>2, <3>3 DEF Stage
  <2> QED BY <1>0, <1>1, <1>3, <2>1, <2>2, CallerStep
<1> QED BY <1>4, <1>5, <1>6, <1>7 DEF CloseSteps

\* provisioning_apply_or_start, the finish task, and the ends of the boot.
LEMMA ChoiceMoves ==
    /\ <<"unless_active">> \o Apply = <<"unless_active", "apply", "apply_check">>
    /\ Apply \o Open = <<"apply", "apply_check", "start">>
    /\ Close \o Tail(<<"unless_active", "apply", "apply_check">>) = <<"stop", "apply", "apply_check">>
    /\ Close \o Apply = <<"stop", "apply", "apply_check">>
    /\ <<"unless_active">> \o Apply \in Seq(Labels) /\ Apply \o Open \in Seq(Labels)
    /\ Close \o Apply \in Seq(Labels)
<1>1. /\ "unless_active" \in Labels /\ "apply" \in Labels /\ "apply_check" \in Labels
      /\ "start" \in Labels /\ "stop" \in Labels
  BY DEF Labels
<1>2. <<"unless_active">> \o <<"apply", "apply_check">> = <<"unless_active", "apply", "apply_check">>
  BY <1>1, OneAndTwo
<1>3. <<"apply", "apply_check">> \o <<"start">> = <<"apply", "apply_check", "start">>
  BY <1>1, ThreeLabels
<1>4. <<"stop">> \o <<"apply", "apply_check">> = <<"stop", "apply", "apply_check">>
  BY <1>1, OneAndTwo
<1>5. <<"unless_active">> \in Seq(Labels)
  BY <1>1
<1>6. <<"unless_active">> \o Apply \in Seq(Labels) /\ Apply \o Open \in Seq(Labels)
      /\ Close \o Apply \in Seq(Labels)
  BY <1>5, Calls
<1> QED BY <1>2, <1>3, <1>4, <1>6, Tails DEF Apply, Open, Close

LEMMA ChoiceSolo ==
    ASSUME TypeInv, SoloInv, NEW t \in Callers, ApplyOrStartSteps(t) \/ FinishSteps(t)
    PROVE  SoloInv'
<1>0. t \in Tasks /\ TodoOK /\ <<>> \in Seq(Labels)
  BY TasksKnown, Calls DEF TypeInv
<1>1. UNCHANGED <<cfg, nvs, loc, active, phase, httpd, server, dns, drv, suppress, link>>
  BY DEF ApplyOrStartSteps, ReadCredentials, ReadActive, FinishSteps, FinishDelay, Finish, store, mgr, portal
<1>2. SameShape /\ KeepsGate
  BY <1>1 DEF SameShape, KeepsGate
<1>3. CASE ReadCredentials(t)
  <2>1. PICK c : c = IF HasSsid THEN <<"unless_active">> \o Apply ELSE Apply \o Open
    OBVIOUS
  <2>2. At(t, "apply_or_start") /\ Do(t, c) /\ c \in Seq(Labels)
    BY <1>3, <2>1, ChoiceMoves DEF ReadCredentials
  <2>3. todo'["sys_evt"] = todo["sys_evt"]
    BY <1>0, <2>2, DoTyped, TasksKnown DEF At
  <2>4. ASSUME NEW p \in Seq(Labels), Stage(t, p), p # <<>>, Head(p) = "apply_or_start"
        PROVE  Stage(t, c \o Tail(p))'
    <3>1. p = <<"apply_or_start">> /\ Either /\ (HasSsid \/ Calm) /\ ~loc[t].re
      BY <2>4 DEF Stage, LoneScan, OpeningScan, HttpdPrograms
    <3>2. c \o Tail(p) = c
      BY <2>2, <3>1, LastCall
    <3>3. Either' /\ ~loc'[t].re /\ HasSsid' = HasSsid
      BY <1>1, <1>2, <3>1, ShapeKept
    <3>4. CASE HasSsid
      <4>1. c = <<"unless_active", "apply", "apply_check">>
        BY <2>1, <3>4, ChoiceMoves
      <4> QED BY <3>2, <3>3, <3>4, <4>1 DEF Stage
    <3>5. CASE ~HasSsid
      <4>1. c = <<"apply", "apply_check", "start">>
        BY <2>1, <3>5, ChoiceMoves
      <4>2. Calm'
        BY <1>1, <2>3, <3>1, <3>5 DEF Calm, NoneConnected
      <4> QED BY <3>2, <3>3, <3>5, <4>1, <4>2 DEF Stage
    <3> QED BY <3>4, <3>5
  <2> QED BY <1>1, <1>2, <2>2, <2>4, CallerStep
<1>4. CASE ReadActive(t)
  <2>1. PICK c : c = IF active THEN Close ELSE <<>>
    OBVIOUS
  <2>2. At(t, "unless_active") /\ Do(t, c) /\ c \in Seq(Labels)
    BY <1>4, <2>1, Calls DEF ReadActive
  <2>3. ASSUME NEW p \in Seq(Labels), Stage(t, p), p # <<>>, Head(p) = "unless_active"
        PROVE  Stage(t, c \o Tail(p))'
    <3>1. p = <<"unless_active", "apply", "apply_check">> /\ Either /\ HasSsid /\ ~loc[t].re
      BY <2>3 DEF Stage, LoneScan, OpeningScan, HttpdPrograms
    <3>2. HasSsid' /\ ~loc'[t].re
      BY <1>1, <1>2, <3>1, ShapeKept
    <3>3. CASE active
      <4>1. c \o Tail(p) = <<"stop", "apply", "apply_check">>
        BY <2>1, <3>1, <3>3, ChoiceMoves
      <4>2. Opened /\ phase = "PORTAL"
        BY <3>1, <3>3 DEF Either, Shut
      <4>3. Opened' /\ phase' = "PORTAL"
        BY <1>2, <4>2, ShapeKept
      <4> QED BY <3>2, <4>1, <4>3 DEF Stage
    <3>4. CASE ~active
      <4>1. c \o Tail(p) = <<"apply", "apply_check">>
        BY <2>1, <2>3, <3>1, <3>4, NextLabel, Tails
      <4>2. Shut
        BY <3>1, <3>4 DEF Either, Opened
      <4>3. Shut'
        BY <1>2, <4>2, ShapeKept
      <4> QED BY <3>2, <4>1, <4>3 DEF Stage
    <3> QED BY <3>3, <3>4
  <2> QED BY <1>1, <1>2, <2>2, <2>3, CallerStep
<1>5. CASE FinishDelay(t)
  <2>1. At(t, "fin_delay") /\ Do(t, <<>>)
    BY <1>5 DEF FinishDelay
  <2>2. ASSUME NEW p \in Seq(Labels), Stage(t, p), p # <<>>, Head(p) = "fin_delay"
        PROVE  Stage(t, <<>> \o Tail(p))'
    <3>1. p = <<"fin_delay", "fin">> /\ Opened /\ phase = "SUCCESS" /\ HasSsid /\ ~loc[t].re
      BY <2>2 DEF Stage, LoneScan, OpeningScan, HttpdPrograms
    <3>2. <<>> \o Tail(p) = <<"fin">>
      BY <2>2, <3>1, NextLabel, Tails
    <3>3. Opened' /\ phase' = "SUCCESS" /\ HasSsid' /\ ~loc'[t].re
      BY <1>1, <1>2, <3>1, ShapeKept
    <3> QED BY <3>2, <3>3 DEF Stage
  <2> QED BY <1>0, <1>1, <1>2, <2>1, <2>2, CallerStep
<1>6. CASE Finish(t)
  <2>1. PICK c : c = Close \o Apply
    OBVIOUS
  <2>2. At(t, "fin") /\ Do(t, c) /\ c \in Seq(Labels)
    BY <1>6, <2>1, ChoiceMoves DEF Finish
  <2>3. ASSUME NEW p \in Seq(Labels), Stage(t, p), p # <<>>, Head(p) = "fin"
        PROVE  Stage(t, c \o Tail(p))'
    <3>1. p = <<"fin">> /\ Opened /\ phase = "SUCCESS" /\ HasSsid /\ ~loc[t].re
      BY <2>3 DEF Stage, LoneScan, OpeningScan, HttpdPrograms
    <3>2. c \o Tail(p) = c
      BY <2>2, <3>1, LastCall
    <3>3. c = <<"stop", "apply", "apply_check">>
      BY <2>1, ChoiceMoves
    <3>4. Opened' /\ phase' = "SUCCESS" /\ HasSsid' /\ ~loc'[t].re
      BY <1>1, <1>2, <3>1, ShapeKept
    <3> QED BY <3>2, <3>3, <3>4 DEF Stage
  <2> QED BY <1>1, <1>2, <2>2, <2>3, CallerStep
<1> QED BY <1>3, <1>4, <1>5, <1>6 DEF ApplyOrStartSteps, FinishSteps

\* When app_main looks at the credentials for the last time, nothing else is left of its program.
LEMMA LastCheck ==
    ASSUME TypeInv, SoloInv, At("main", "boot_check")
    PROVE  todo["main"] = <<"boot_check">> /\ Whole /\ ~loc["main"].re
<1>1. PICK s \in {<<>>, <<"boot_check">>}, p \in Seq(Labels) : todo["main"] = p \o s /\ Stage("main", p)
  BY PortalAssumption DEF SoloInv, Idle, At, Runs
<1>2. s \in Seq(Labels)
  <2>1. "boot_check" \in Labels
    BY DEF Labels
  <2> QED BY <1>1, <2>1, Calls
<1>3. p = <<>>
  <2>1. SUFFICES ASSUME p # <<>> PROVE FALSE
    OBVIOUS
  <2>2. Head(p) = "boot_check"
    BY <1>1, <1>2, <2>1, Calls, HeadTailConcat DEF At
  <2> QED BY <1>1, <2>1, <2>2 DEF Stage, LoneScan, OpeningScan, HttpdPrograms
<1>4. todo["main"] = s
  BY <1>1, <1>2, <1>3, ConcatEmptySeq
<1>5. Whole /\ ~loc["main"].re
  BY <1>1, <1>3 DEF Stage, LoneScan, OpeningScan, HttpdPrograms
<1> QED BY <1>1, <1>4, <1>5 DEF At

LEMMA BootSolo == ASSUME TypeInv, SoloInv, Boot \/ BootCheck, UNCHANGED portal PROVE SoloInv'
<1>0. "main" \in Callers /\ "main" \in Tasks /\ TodoOK /\ <<>> \in Seq(Labels)
  BY TasksKnown, Calls, PortalAssumption DEF TypeInv
<1>1. UNCHANGED <<cfg, nvs, loc, active, phase, httpd, server, dns, drv, suppress, link>>
  BY DEF Boot, BootCheck, store, mgr, portal
<1>2. SameShape /\ KeepsGate
  BY <1>1 DEF SameShape, KeepsGate
<1>3. CASE Boot
  <2>1. At("main", "boot") /\ Do("main", <<>>)
    BY <1>3 DEF Boot
  <2>2. todo'["sys_evt"] = todo["sys_evt"]
    BY <1>0, <2>1, DoTyped, TasksKnown DEF At
  <2>3. ASSUME NEW p \in Seq(Labels), Stage("main", p), p # <<>>, Head(p) = "boot"
        PROVE  Stage("main", <<>> \o Tail(p))'
    <3>1. p = <<"boot", "apply_or_start">> /\ Either /\ (HasSsid \/ Calm) /\ ~loc["main"].re
      BY <2>3 DEF Stage, LoneScan, OpeningScan, HttpdPrograms
    <3>2. <<>> \o Tail(p) = <<"apply_or_start">>
      BY <2>3, <3>1, NextLabel, Tails
    <3>3. Either' /\ ~loc'["main"].re /\ HasSsid' = HasSsid
      BY <1>1, <1>2, <3>1, ShapeKept
    <3>4. Calm => Calm'
      BY <1>1, <2>2 DEF Calm, NoneConnected
    <3> QED BY <3>1, <3>2, <3>3, <3>4 DEF Stage
  <2> QED BY <1>0, <1>1, <1>2, <2>1, <2>3, CallerStep
<1>4. CASE BootCheck
  <2>1. At("main", "boot_check") /\ Do("main", <<>>)
    BY <1>4 DEF BootCheck
  <2>2. Whole /\ ~loc["main"].re
    BY <2>1, LastCheck
  <2>3. todo["main"] = <<"boot_check">>
    BY <2>1, LastCheck
  <2>4. todo'["main"] = <<>> /\ \A u \in Tasks \ {"main"} : todo'[u] = todo[u]
    BY <1>0, <2>1, <2>3, DoTyped, LastCall DEF At
  <2>5. Whole' /\ \A u \in Callers : loc'[u].re = loc[u].re
    BY <1>1, <1>2, <2>2, ShapeKept
  <2>6. \A u \in Callers : todo'[u] = <<>> /\ ~loc'[u].re
    BY <1>0, <2>1, <2>2, <2>4, <2>5, TasksKnown DEF SoloInv, Idle, At
  <2>7. todo'["sys_evt"] = todo["sys_evt"]
    BY <1>0, <2>4, TasksKnown
  <2> QED BY <1>1, <2>5, <2>6, <2>7 DEF SoloInv, Idle, Unarmed
<1> QED BY <1>3, <1>4

\* on_wifi_event and the air.
LEMMA TailCalm ==
    ASSUME NEW d \in WD!Drivers, d.evq # <<>>, NoneConnected(d), NEW e, e = [d EXCEPT !.evq = Tail(@)]
    PROVE  NoneConnected(e) /\ e.sta = d.sta
<1>1. PICK q : q = Tail(d.evq)
  OBVIOUS
<1>2. e.evq = q /\ e.sta = d.sta
  BY <1>1 DEF WD!Drivers
<1>3. /\ Len(d.evq) \in Nat /\ Len(q) = Len(d.evq) - 1
      /\ \A i \in 1..Len(q) : q[i] = d.evq[i + 1]
  <2>1. d.evq \in Seq(WD!Events)
    BY DEF WD!Drivers
  <2> QED BY <1>1, <2>1, HeadTailProperties, LenProperties
<1>4. \A i \in 1..Len(q) : i + 1 \in 1..Len(d.evq)
  BY <1>3
<1>5. \A i \in 1..Len(q) : q[i] # "connected"
  BY <1>3, <1>4 DEF NoneConnected
<1> QED BY <1>2, <1>5 DEF NoneConnected

LEMMA EventSolo == ASSUME TypeInv, SoloInv, OnWifiEvent, UNCHANGED portal PROVE SoloInv'
<1>0. /\ TodoOK /\ drv \in WD!Drivers /\ drv.evq \in Seq(WD!Events) /\ link \in BOOLEAN
      /\ todo["sys_evt"] \in HandlerPrograms /\ "sys_evt" \in Tasks
  BY TasksKnown DEF TypeInv, PlainOK, WD!Drivers, SoloInv
<1>1. UNCHANGED <<cfg, suppress, loc, active, phase, httpd, server, dns>>
  BY DEF OnWifiEvent, OnStart, OnConnected, Arm, ReportOk, OnDisconnected, Retry, EvConnect, OnScanDone,
         store, portal, tasks
<1>2. \A t \in Callers : todo'[t] = todo[t]
  <2>1. UNCHANGED todo \/ \E p : todo' = [todo EXCEPT !["sys_evt"] = p]
    BY DEF OnWifiEvent, OnStart, OnConnected, Arm, ReportOk, OnDisconnected, Retry, EvConnect, OnScanDone,
           Start, Do, tasks
  <2> QED BY <1>0, <2>1, TasksKnown DEF TodoOK
<1>3. drv'.mode = drv.mode
  <2>1. drv' = drv \/ drv' = WD!Connect(drv) \/ (drv' = Popped /\ \E x : NextEvent(x))
    BY DEF OnWifiEvent, OnStart, OnConnected, Arm, ReportOk, OnDisconnected, Retry, EvConnect, OnScanDone
  <2> QED BY <1>0, <2>1, DriverCalls, PoppedDriver
<1>4. HasSsid' = HasSsid
  BY <1>1 DEF HasSsid
\* It is enough to look at the handler's own program.
<1>5. ASSUME NEW q \in HandlerPrograms, todo'["sys_evt"] = q,
             ~HasSsid /\ Calm => drv'.sta # "connecting" /\ NoneConnected(drv') /\ q \in {<<>>, <<"ev_retry">>},
             suppress => ~link' /\ q # <<"ev_arm", "ev_ok">>
      PROVE  SoloInv'
  <2>1. StageFrame
    BY <1>1, <1>3, <1>5 DEF StageFrame, Calm, NoneConnected
  <2>2. GateShut'
    BY <1>1, <1>5 DEF GateShut, Unarmed
  <2> QED BY <1>2, <1>5, <2>1, <2>2, FrameSolo
\* The queue without its oldest event.
<1>6. ASSUME NEW x, NextEvent(x), drv' = Popped
      PROVE  /\ todo["sys_evt"] = <<>>
             /\ Calm => drv'.sta # "connecting" /\ NoneConnected(drv') /\ x # "connected"
  <2>1. drv.evq # <<>> /\ todo["sys_evt"] = <<>> /\ Head(drv.evq) = x
    BY <1>6 DEF NextEvent, Idle
  <2>2. ASSUME Calm PROVE drv'.sta # "connecting" /\ NoneConnected(drv')
    BY <1>0, <1>6, <2>1, <2>2, TailCalm DEF Calm, Popped
  <2>3. ASSUME Calm PROVE x # "connected"
    <3>1. Head(drv.evq) = drv.evq[1] /\ 1 \in 1..Len(drv.evq)
      BY <1>0, <2>1, HeadTailProperties, LenProperties, EmptySeq
    <3> QED BY <2>1, <2>3, <3>1 DEF Calm, NoneConnected
  <2> QED BY <2>1, <2>2, <2>3
\* The empty program and one of a single label, once that label is done.
<1>7. ASSUME NEW label, label # "ev_arm", At("sys_evt", label), NEW c \in Seq(Labels), Do("sys_evt", c)
      PROVE  todo["sys_evt"] = <<label>> /\ todo'["sys_evt"] = c
  <2>1. todo["sys_evt"] = <<label>>
    BY <1>0, <1>7 DEF At, HandlerPrograms
  <2>2. c \o Tail(<<label>>) = c
    BY <1>7, LastCall
  <2> QED BY <1>0, <1>7, <2>1, <2>2, DoTyped DEF At
<1>8. CASE OnStart
  <2>1. NextEvent("start") /\ drv' = Popped /\ UNCHANGED link
    BY <1>8 DEF OnStart
  <2>2. PICK q \in HandlerPrograms : todo'["sys_evt"] = q /\ (q = <<>> \/ (HasSsid /\ q = <<"ev_connect">>))
    <3>1. UNCHANGED todo \/ (HasSsid /\ todo' = [todo EXCEPT !["sys_evt"] = <<"ev_connect">>])
      BY <1>8 DEF OnStart, Start
    <3>2. todo["sys_evt"] = <<>>
      BY <1>6, <2>1
    <3> QED BY <1>0, <3>1, <3>2 DEF HandlerPrograms, TodoOK
  <2>3. q # <<"ev_arm", "ev_ok">>
    <3>1. <<>> # <<"ev_arm", "ev_ok">> /\ <<"ev_connect">> # <<"ev_arm", "ev_ok">>
      OBVIOUS
    <3> QED BY <2>2, <3>1
  <2>4. suppress => ~link
    BY DEF SoloInv
  <2> QED BY <1>5, <1>6, <2>1, <2>2, <2>3, <2>4
<1>9. CASE OnConnected
  <2>1. NextEvent("connected") /\ drv' = Popped /\ UNCHANGED link
    BY <1>9 DEF OnConnected
  <2>2. PICK q \in HandlerPrograms : todo'["sys_evt"] = q /\ (suppress => q = <<"ev_ok">>)
    <3>1. PICK q : q = IF suppress THEN <<"ev_ok">> ELSE <<"ev_arm", "ev_ok">>
      OBVIOUS
    <3>2. todo'["sys_evt"] = q
      BY <1>0, <1>9, <3>1 DEF OnConnected, Start, TodoOK
    <3> QED BY <3>1, <3>2 DEF HandlerPrograms
  <2>3. <<"ev_ok">> # <<"ev_arm", "ev_ok">>
    OBVIOUS
  <2>4. suppress => ~link
    BY DEF SoloInv
  <2> QED BY <1>5, <1>6, <2>1, <2>2, <2>3, <2>4
<1>10. CASE Arm
  <2>1. todo["sys_evt"] = <<"ev_arm", "ev_ok">>
    BY <1>0, <1>10 DEF Arm, At, HandlerPrograms
  <2>2. Tail(<<"ev_arm", "ev_ok">>) = <<"ev_ok">> /\ <<>> \o Tail(<<"ev_arm", "ev_ok">>) = <<"ev_ok">>
    OBVIOUS
  <2>3. todo'["sys_evt"] = <<"ev_ok">>
    BY <1>0, <1>10, <2>1, <2>2, Calls, DoTyped DEF Arm, At
  <2>4. ~suppress /\ ~Calm
    <3>1. ~Calm
      BY <2>1, CalmUnarmed DEF Unarmed
    <3> QED BY <2>1, <3>1 DEF SoloInv
  <2>5. <<"ev_ok">> \in HandlerPrograms
    BY DEF HandlerPrograms
  <2> QED BY <1>5, <2>3, <2>4, <2>5
<1>11. CASE ReportOk
  <2>1. At("sys_evt", "ev_ok") /\ Do("sys_evt", <<>>) /\ UNCHANGED <<drv, link>>
    BY <1>11 DEF ReportOk
  <2>2. todo'["sys_evt"] = <<>>
    BY <1>7, <2>1, Calls
  <2>3. <<>> # <<"ev_arm", "ev_ok">> /\ <<>> \in HandlerPrograms
    BY DEF HandlerPrograms
  <2>4. suppress => ~link
    BY DEF SoloInv
  <2> QED BY <1>5, <2>1, <2>2, <2>3, <2>4 DEF Calm, NoneConnected
<1>12. CASE OnDisconnected
  <2>1. PICK x : NextEvent(x) /\ drv' = Popped /\ link' = (link /\ suppress)
    BY <1>12 DEF OnDisconnected
  <2>2. todo'["sys_evt"] = <<"ev_retry">>
    BY <1>0, <1>12 DEF OnDisconnected, Start, TodoOK
  <2>3. <<"ev_retry">> # <<"ev_arm", "ev_ok">> /\ <<"ev_retry">> \in HandlerPrograms
    BY DEF HandlerPrograms
  <2>4. suppress => ~link
    BY DEF SoloInv
  <2> QED BY <1>0, <1>5, <1>6, <2>1, <2>2, <2>3, <2>4
<1>13. CASE Retry
  <2>1. At("sys_evt", "ev_retry") /\ UNCHANGED <<drv, link>>
    BY <1>13 DEF Retry
  <2>2. Do("sys_evt", <<>>) \/ (HasSsid /\ ~suppress /\ Do("sys_evt", <<"ev_connect">>))
    BY <1>13 DEF Retry
  <2>3. <<"ev_connect">> \in Seq(Labels)
    <3>1. "ev_connect" \in Labels
      BY DEF Labels
    <3> QED BY <3>1, Calls
  <2>4. PICK q \in HandlerPrograms :
          todo'["sys_evt"] = q /\ (q = <<>> \/ (HasSsid /\ ~suppress /\ q = <<"ev_connect">>))
    <3>1. todo'["sys_evt"] = <<>> \/ (HasSsid /\ ~suppress /\ todo'["sys_evt"] = <<"ev_connect">>)
      BY <1>7, <2>1, <2>2, <2>3, Calls
    <3> QED BY <3>1 DEF HandlerPrograms
  <2>5. <<>> # <<"ev_arm", "ev_ok">>
    OBVIOUS
  <2>6. suppress => ~link
    BY DEF SoloInv
  <2> QED BY <1>5, <2>1, <2>4, <2>5, <2>6 DEF Calm, NoneConnected
<1>14. CASE EvConnect
  <2>1. At("sys_evt", "ev_connect") /\ Do("sys_evt", <<>>) /\ UNCHANGED link
    BY <1>14 DEF EvConnect
  <2>2. todo["sys_evt"] = <<"ev_connect">> /\ todo'["sys_evt"] = <<>>
    BY <1>7, <2>1, Calls
  <2>3. ~Calm
    <3>1. <<"ev_connect">> # <<"ev_retry">> /\ <<"ev_connect">> # <<>>
      OBVIOUS
    <3> QED BY <2>2, <3>1, Zenon DEF Calm
  <2>4. <<>> # <<"ev_arm", "ev_ok">> /\ <<>> \in HandlerPrograms
    BY DEF HandlerPrograms
  <2>5. suppress => ~link
    BY DEF SoloInv
  <2> QED BY <1>5, <2>1, <2>2, <2>3, <2>4, <2>5
<1>15. CASE OnScanDone
  <2>1. NextEvent("scan_done") /\ drv' = Popped /\ UNCHANGED <<link, todo>>
    BY <1>15 DEF OnScanDone, tasks
  <2>2. todo'["sys_evt"] = <<>>
    BY <1>6, <2>1
  <2>3. <<>> # <<"ev_arm", "ev_ok">> /\ <<>> \in HandlerPrograms
    BY DEF HandlerPrograms
  <2>4. suppress => ~link
    BY DEF SoloInv
  <2> QED BY <1>5, <1>6, <2>1, <2>2, <2>3, <2>4
<1> QED BY <1>8, <1>9, <1>10, <1>11, <1>12, <1>13, <1>14, <1>15 DEF OnWifiEvent

LEMMA AirSolo == ASSUME TypeInv, SoloInv, Air, UNCHANGED portal PROVE SoloInv'
<1>0. drv \in WD!Drivers
  BY DEF TypeInv, PlainOK
<1>1. /\ UNCHANGED <<cfg, suppress, link, todo, loc, active, phase, httpd, server, dns>>
      /\ drv' \in WD!Associated(drv) \cup WD!Refused(drv) \cup WD!Lost(drv) \cup WD!Scanned(drv)
  BY DEF Air, AirAssociates, AirTrouble, AirScanned, store, portal, tasks
<1>2. drv'.mode = drv.mode
  BY <1>0, <1>1, AirCalls
<1>3. ASSUME Calm PROVE Calm'
  <2>0. drv.sta # "connecting" /\ NoneConnected(drv) /\ drv.evq \in Seq(WD!Events)
    BY <1>0, <1>3 DEF Calm, WD!Drivers
  <2>1. PICK x \in {"other", "scan_done"} : drv'.sta # "connecting" /\ drv'.evq = Append(drv.evq, x)
    <3>1. CASE drv' \in WD!Lost(drv)
      <4>1. drv' = WD!LeaveNetwork(drv, "other")
        BY <3>1 DEF WD!Lost
      <4>2. drv'.sta = "down" /\ drv'.evq = Append(drv.evq, "other")
        BY <1>0, <4>1 DEF WD!LeaveNetwork, WD!Post, WD!Drivers
      <4> QED BY <4>2
    <3>2. CASE drv' \in WD!Scanned(drv)
      <4>1. drv' = WD!AbortScan(drv) /\ drv.scanning
        BY <3>2 DEF WD!Scanned
      <4>2. drv'.sta = drv.sta /\ drv'.evq = Append(drv.evq, "scan_done")
        BY <1>0, <4>1 DEF WD!AbortScan, WD!Post, WD!Drivers
      <4> QED BY <2>0, <4>2
    <3>3. drv' \notin WD!Associated(drv) \cup WD!Refused(drv)
      BY <2>0 DEF WD!Associated, WD!Refused
    <3> QED BY <1>1, <3>1, <3>2, <3>3
  <2>2. PICK q : q = Append(drv.evq, x)
    OBVIOUS
  <2>3. x \in WD!Events
    BY DEF WD!Events, WD!Reasons
  <2>4. /\ Len(q) = Len(drv.evq) + 1 /\ Len(drv.evq) \in Nat /\ q[Len(drv.evq) + 1] = x
        /\ \A i \in 1..Len(drv.evq) : q[i] = drv.evq[i]
    BY <2>0, <2>2, <2>3, AppendProperties, LenProperties
  <2>5. \A i \in 1..Len(q) : i \in 1..Len(drv.evq) \/ i = Len(drv.evq) + 1
    BY <2>4
  <2>6. \A i \in 1..Len(q) : q[i] # "connected"
    BY <2>0, <2>4, <2>5 DEF NoneConnected
  <2> QED BY <1>1, <1>3, <2>1, <2>2, <2>6 DEF Calm, NoneConnected
<1>4. StageFrame
  BY <1>1, <1>2, <1>3 DEF StageFrame
<1>5. GateShut' /\ todo'["sys_evt"] \in HandlerPrograms
  BY <1>1 DEF GateShut, Unarmed, SoloInv
<1> QED BY <1>1, <1>4, <1>5, FrameSolo

----------------------------------------------------------------------------
(* A patient user acts when every task is idle, the queue empty. *)

LEMMA AtRestCalm ==
    ASSUME TypeInv, SoloInv, AtRest
    PROVE  /\ Whole /\ Either /\ \A t \in Callers : todo[t] = <<>> /\ ~loc[t].re
           /\ todo["sys_evt"] = <<>> /\ drv.sta # "connecting" /\ NoneConnected(drv)
<1>1. \A t \in Tasks : todo[t] = <<>>
  BY DEF AtRest, Idle
<1>2. Whole /\ \A t \in Callers : ~loc[t].re
  BY <1>1, TasksKnown DEF SoloInv, Idle
<1>3. 1..Len(drv.evq) = {}
  BY EmptySeq DEF AtRest
<1> QED BY <1>1, <1>2, <1>3, TasksKnown DEF AtRest, NoneConnected, Whole, Either

\* The task that takes the input becomes the one that is busy.
LEMMA InputStep ==
    ASSUME TypeInv, SoloInv, AtRest, NEW t \in Callers, NEW p \in Seq(Labels), p # <<>>, Start(t, p),
           \A u \in Callers \ {t} : loc'[u].re = loc[u].re, UNCHANGED <<suppress, link>>,
           todo' = [todo EXCEPT ![t] = p] => Stage(t, p)'
    PROVE  SoloInv'
<1>0. t \in Tasks /\ t # "sys_evt" /\ "sys_evt" \in Tasks /\ TodoOK
  BY TasksKnown DEF TypeInv
<1>1. todo'[t] = p /\ \A u \in Tasks \ {t} : todo'[u] = todo[u]
  BY <1>0, StartTyped
<1>2. Stage(t, p)'
  BY DEF Start
<1>3. \A u \in Callers \ {t} : todo'[u] = <<>> /\ ~loc'[u].re
  BY <1>1, AtRestCalm, TasksKnown
<1>4. Runs(t)'
  <2>1. todo'[t] = p \o <<>>
    BY <1>1, ConcatEmptySeq
  <2> QED BY <1>2, <2>1 DEF Runs
<1>5. todo'["sys_evt"] = todo["sys_evt"]
  BY <1>0, <1>1
<1> QED BY <1>1, <1>3, <1>4, <1>5 DEF SoloInv, Idle, Unarmed

LEMMA InputSolo == ASSUME Patient, TypeInv, SoloInv, Edit \/ ScanCmd \/ ConfirmReset PROVE SoloInv'
<1>0. /\ AtRest /\ LocOK /\ "tud" \in Callers /\ "btn" \in Callers
      /\ UNCHANGED <<drv, suppress, link, active, phase, httpd, server, dns>>
  BY PortalAssumption DEF Edit, ScanCmd, ConfirmReset, Input, mgr, portal, TypeInv
<1>1. Opened' = Opened /\ Shut' = Shut /\ Either' = Either
  BY <1>0 DEF Opened, Shut, Either
<1>2. CASE Edit \/ ConfirmReset
  <2>1. PICK t \in {"tud", "btn"} : Start(t, ApplyOrStart) /\ UNCHANGED loc
    BY <1>2 DEF Edit, ConfirmReset
  <2>2. PICK p : p = <<"apply_or_start">>
    OBVIOUS
  <2>3. p \in Seq(Labels) /\ p # <<>> /\ Start(t, p)
    BY <2>1, <2>2, Calls DEF ApplyOrStart
  <2>4. ASSUME todo' = [todo EXCEPT ![t] = p] PROVE Stage(t, p)'
    <3>1. todo'["sys_evt"] = <<>>
      BY <1>0, <2>4, AtRestCalm, TasksKnown
    <3>2. Calm'
      BY <1>0, <3>1, AtRestCalm DEF Calm, NoneConnected
    <3>3. Either' /\ ~loc'[t].re
      BY <1>0, <1>1, <2>1, AtRestCalm
    <3> QED BY <2>2, <3>2, <3>3 DEF Stage
  <2> QED BY <1>0, <2>1, <2>3, <2>4, InputStep
<1>3. CASE ScanCmd
  <2>1. Start("tud", Scan) /\ SetLoc("tud", "re", ~active) /\ UNCHANGED cfg
    BY <1>3 DEF ScanCmd, store
  <2>2. PICK p : p = <<"scan", "scan_disconnect", "scan_start">>
    OBVIOUS
  <2>3. p \in Seq(Labels) /\ p # <<>> /\ Start("tud", p)
    BY <2>1, <2>2, Calls DEF Scan
  <2>4. loc'["tud"].re = (~active) /\ \A u \in Callers \ {"tud"} : loc'[u].re = loc[u].re
    BY <1>0, <2>1, TasksKnown DEF SetLoc, LocOK, Locals
  <2>5. Whole'
    <3>1. HasSsid' = HasSsid
      BY <2>1 DEF HasSsid
    <3> QED BY <1>0, <1>1, <3>1, AtRestCalm DEF Whole
  <2>6. Stage("tud", p)'
    BY <1>0, <2>2, <2>4, <2>5 DEF Stage, LoneScan
  <2> QED BY <1>0, <2>3, <2>4, <2>6, InputStep
<1> QED BY <1>2, <1>3

LEMMA PostSolo == ASSUME Patient, TypeInv, SoloInv, PostForm PROVE SoloInv'
<1>0. /\ AtRest /\ LocOK /\ "httpd" \in Callers /\ "httpd" \in Tasks
      /\ UNCHANGED <<cfg, drv, suppress, link, active, httpd, server, dns>>
      /\ server /\ phase' = "TESTING"
  BY TasksKnown DEF PostForm, Submit, Input, store, mgr, TypeInv
<1>1. PICK ssid \in Names : SetLoc("httpd", "net", ssid) /\ Start("httpd", Test \o <<"test_result">>)
  BY DEF PostForm, Submit
<1>2. PICK p : p = <<"test", "test_drain", "test_result">>
  OBVIOUS
<1>3. Test \o <<"test_result">> = p
  <2>1. "test" \in HttpdLabels /\ "test_drain" \in HttpdLabels /\ "test_result" \in HttpdLabels
    BY DEF HttpdLabels
  <2>2. <<"test", "test_drain">> \o <<"test_result">> = <<"test", "test_drain", "test_result">>
    BY <2>1, ThreeLabels
  <2> QED BY <1>2, <2>2 DEF Test
<1>4. p \in Seq(Labels) /\ p # <<>>
  <2>1. "test" \in Labels /\ "test_drain" \in Labels /\ "test_result" \in Labels
    BY DEF Labels
  <2> QED BY <1>2, <2>1
<1>5. \A u \in Tasks : loc'[u].re = loc[u].re
  BY <1>0, <1>1, OtherLocals
<1>6. Stage("httpd", p)'
  <2>1. Opened /\ ~HasSsid
    BY <1>0, AtRestCalm DEF Whole, Shut
  <2>2. Opened' /\ ~HasSsid'
    BY <1>0, <2>1 DEF Opened, HasSsid
  <2>3. ~loc'["httpd"].re
    BY <1>0, <1>5, AtRestCalm
  <2>4. p \in HttpdPrograms \ {<<>>}
    BY <1>2 DEF HttpdPrograms
  <2> QED BY <1>0, <2>2, <2>3, <2>4 DEF Stage
<1> QED BY <1>0, <1>1, <1>3, <1>4, <1>5, <1>6, InputStep, TasksKnown

\* A test that succeeded leaves the device configured.
LEMMA SuccessConfigures ==
    ASSUME TypeInv, NEW net \in Names, CS!PortalSuccess(net, Blank)
    PROVE  HasSsid'
<1>1. CP!Good(cfg)
  BY SameInvariant DEF TypeInv, CP!IndInv, CP!TypeOK, CP!StoreWellFormed, CP!Good
<1>2. net \in CP!Ssids /\ net # Blank
  BY SMTT(30), StoreFits DEF CP!Ssids, CS!StoreAssumption
<1>3. /\ CP!AddIndex(cfg, net) >= 0
      /\ cfg' = CP!Stage(CP!AddProfile(cfg, net), CP!AddIndex(cfg, net), Blank)
  BY DEF CS!PortalSuccess, CP!AddIndex, CS!AddIndex, CP!FindProfile, CS!FindProfile, CP!Matches, CS!Matches,
         CP!Used, CS!Used, CP!Stage, CS!Stage, CP!AddProfile, CS!AddProfile, CP!ActiveNone, CS!ActiveNone
<1>4. CP!ActiveSsid(CP!Stage(CP!AddProfile(cfg, net), CP!AddIndex(cfg, net), Blank)) = net
  BY <1>1, <1>2, <1>3, StoreFitsProofs, CP!StagedIsActive DEF CP!StagedIsActive
<1>5. CP!ActiveSsid(cfg') = net
  BY <1>3, <1>4
<1> QED BY <1>2, <1>5
       DEF HasSsid, CP!ActiveSsid, CS!ActiveSsid, CP!HasActive, CS!HasActive, CP!ActiveNone, CS!ActiveNone

LEMMA ResultSolo == ASSUME TypeInv, SoloInv, TestResult PROVE SoloInv'
<1>0. /\ TodoOK /\ LocOK /\ HttpdOK /\ "httpd" \in Callers /\ "httpd" \in Tasks
      /\ At("httpd", "test_result") /\ SetLoc("httpd", "net", Blank)
      /\ UNCHANGED <<drv, suppress, link, active, httpd, server, dns>>
  BY TasksKnown DEF TestResult, TypeInv
<1>1. \A u \in Tasks : loc'[u].re = loc[u].re
  BY <1>0, OtherLocals
<1>2. todo["httpd"] = <<"test_result">>
  BY <1>0, HttpdHead
<1>3. Opened /\ ~HasSsid /\ ~loc["httpd"].re
  <2>1. PICK p \in Seq(Labels) : Stage("httpd", p) /\ p # <<>> /\ Head(p) = "test_result"
    BY <1>0, RunsFrom
  <2> QED BY <2>1 DEF Stage, LoneScan, OpeningScan, HttpdPrograms
<1>4. Opened'
  BY <1>0, <1>3 DEF Opened
<1>5. \A u \in Callers \ {"httpd"} : todo[u] = <<>> /\ ~loc'[u].re
  BY <1>0, <1>1, TasksKnown DEF SoloInv, Idle, At
<1>6. ~loc'["httpd"].re
  BY <1>0, <1>1, <1>3
<1>7. Tail(<<"test_result">>) = <<>>
  OBVIOUS
\* A test that failed, or a full list: the form may be sent again.
<1>8. CASE phase' = "PORTAL" /\ Do("httpd", <<>>) /\ UNCHANGED store
  <2>1. todo'["httpd"] = <<>> /\ \A u \in Tasks \ {"httpd"} : todo'[u] = todo[u]
    <3>1. /\ todo'["httpd"] = <<>> \o Tail(todo["httpd"])
          /\ \A u \in Tasks \ {"httpd"} : todo'[u] = todo[u]
      BY <1>0, <1>8, DoTyped, Calls DEF At
    <3>2. <<>> \o Tail(<<"test_result">>) = <<>>
      OBVIOUS
    <3> QED BY <1>2, <3>1, <3>2
  <2>2. HasSsid' = HasSsid
    BY <1>8 DEF store, HasSsid
  <2>3. Whole'
    BY <1>3, <1>4, <1>8, <2>2 DEF Whole
  <2>4. \A u \in Callers : todo'[u] = <<>> /\ ~loc'[u].re
    BY <1>5, <1>6, <2>1, TasksKnown
  <2>5. todo'["sys_evt"] = todo["sys_evt"]
    BY <1>0, <2>1, TasksKnown
  <2> QED BY <1>0, <2>3, <2>4, <2>5 DEF SoloInv, Idle, Unarmed
\* The credentials are stored, and a task is created to close the portal.
<1>9. ASSUME CS!PortalSuccess(loc["httpd"].net, Blank), phase' = "SUCCESS",
             NEW f \in Finishers, Idle(f),
             todo' = [todo EXCEPT !["httpd"] = Tail(@), ![f] = <<"fin_delay", "fin">>]
      PROVE  SoloInv'
  <2>1. f # "httpd" /\ f \in Tasks /\ f \in Callers /\ f # "sys_evt"
    BY <1>2, <1>9, TasksKnown DEF Idle
  <2>2. PICK p : p = <<"fin_delay", "fin">>
    OBVIOUS
  <2>3. p \in Seq(Labels) /\ p # <<>>
    <3>1. "fin_delay" \in Labels /\ "fin" \in Labels
      BY DEF Labels
    <3> QED BY <2>2, <3>1, Calls
  <2>4. /\ todo'["httpd"] = <<>> /\ todo'[f] = p
        /\ \A u \in Tasks \ {f, "httpd"} : todo'[u] = todo[u]
    BY <1>0, <1>2, <1>7, <1>9, <2>1, <2>2 DEF TodoOK
  <2>5. HasSsid'
    <3>1. PICK net \in Names : net = loc["httpd"].net
      BY <1>0 DEF HttpdOK, At
    <3> QED BY <1>9, <3>1, SuccessConfigures
  <2>6. ~loc'[f].re
    BY <1>5, <2>1
  <2>7. Stage(f, p)'
    BY <1>4, <1>9, <2>2, <2>5, <2>6 DEF Stage
  <2>8. Runs(f)'
    <3>1. todo'[f] = p \o <<>>
      BY <2>3, <2>4, ConcatEmptySeq
    <3> QED BY <2>3, <2>7, <3>1 DEF Runs
  <2>9. \A u \in Callers \ {f} : todo'[u] = <<>> /\ ~loc'[u].re
    BY <1>5, <1>6, <2>4, TasksKnown
  <2>10. todo'["sys_evt"] = todo["sys_evt"]
    BY <1>0, <2>1, <2>4, TasksKnown
  <2> QED BY <1>0, <2>1, <2>3, <2>4, <2>8, <2>9, <2>10 DEF SoloInv, Idle, Unarmed
<1> QED BY <1>8, <1>9 DEF TestResult

LEMMA SoloInit == ASSUME Init PROVE SoloInv
<1>1. /\ drv = WD!Started /\ suppress = FALSE /\ link = FALSE /\ phase = "IDLE"
      /\ active = FALSE /\ httpd = FALSE /\ server = FALSE /\ dns = FALSE
      /\ todo = [t \in Tasks |-> IF t = "main" THEN BootProgram ELSE <<>>]
      /\ loc = [t \in Tasks |-> NoLocals]
  BY DEF Init, MgrInit, PortalInit
<1>2. Shut
  BY <1>1 DEF Shut, WD!Started
<1>3. PICK p : p = <<"boot", "apply_or_start">>
  OBVIOUS
<1>4. BootProgram = p \o <<"boot_check">> /\ p \in Seq(Labels)
  <2>1. "boot" \in Labels /\ "apply_or_start" \in Labels
    BY DEF Labels
  <2>2. <<"boot">> \o <<"apply_or_start">> = <<"boot", "apply_or_start">>
    BY <2>1, TwoLabels
  <2> QED BY <1>3, <2>1, <2>2, Calls DEF BootProgram, ApplyOrStart
<1>5. "main" \in Callers /\ "main" \in Tasks /\ "sys_evt" \in Tasks /\ "main" # "sys_evt"
  BY TasksKnown, PortalAssumption
<1>6. todo["main"] = p \o <<"boot_check">> /\ \A u \in Tasks \ {"main"} : todo[u] = <<>>
  BY <1>1, <1>4, <1>5
<1>7. Calm
  <2>1. drv.sta = "down" /\ drv.evq = <<"start">>
    BY <1>1 DEF WD!Started
  <2>2. NoneConnected(drv)
    BY <2>1 DEF NoneConnected
  <2> QED BY <1>5, <1>6, <2>1, <2>2 DEF Calm
<1>8. \A u \in Tasks : ~loc[u].re
  BY <1>1 DEF NoLocals
<1>9. Stage("main", p)
  BY <1>2, <1>3, <1>5, <1>7, <1>8 DEF Stage, Either
<1>10. Runs("main")
  BY <1>4, <1>6, <1>9 DEF Runs
<1>11. todo["main"] # <<>>
  <2>1. "boot_check" \in Labels
    BY DEF Labels
  <2>2. PICK s : s = <<"boot_check">>
    OBVIOUS
  <2>3. s \in Seq(Labels) /\ p # <<>>
    BY <1>3, <2>1, <2>2, Calls
  <2>4. <<>> \in Seq(Labels) /\ p \o s # <<>>
    BY <1>4, <2>3, Calls, HeadTailConcat
  <2> QED BY <1>6, <2>2, <2>4
<1>12. todo["sys_evt"] = <<>> /\ <<>> \in HandlerPrograms
  BY <1>5, <1>6 DEF HandlerPrograms
<1> QED BY <1>1, <1>5, <1>6, <1>8, <1>10, <1>11, <1>12, TasksKnown DEF SoloInv, Idle

LEMMA SoloStep == ASSUME Patient PROVE TypeInv /\ SoloInv /\ [Next]_allVars => SoloInv'
<1> SUFFICES ASSUME TypeInv, SoloInv, [Next]_allVars PROVE SoloInv'
  OBVIOUS
<1>1. CASE (Boot \/ BootCheck \/ OnWifiEvent \/ Air) /\ UNCHANGED portal
  BY <1>1, BootSolo, EventSolo, AirSolo
<1>2. ASSUME NEW t \in Callers, CallsOf(t) PROVE SoloInv'
  BY <1>2, ApplySolo, ScanSolo, TestSolo, OpenSolo, CloseSolo, ChoiceSolo DEF CallsOf
<1>3. CASE TestResult
  BY <1>3, ResultSolo
<1>4. CASE Edit \/ ScanCmd \/ ConfirmReset \/ PostForm
  BY <1>4, InputSolo, PostSolo
<1>5. CASE UNCHANGED allVars
  <2>1. UNCHANGED <<active, phase, httpd, server, dns, suppress, cfg, loc, drv, todo, link>>
    BY <1>5 DEF allVars, vars, store, mgr, tasks, portal
  <2>2. StageFrame /\ GateShut' /\ todo'["sys_evt"] \in HandlerPrograms
    BY <2>1 DEF StageFrame, Calm, NoneConnected, SoloInv, GateShut, Unarmed
  <2> QED BY <2>1, <2>2, FrameSolo
<1> QED BY <1>1, <1>2, <1>3, <1>4, <1>5 DEF Next, Rest

LEMMA SoloKept == ASSUME Patient PROVE Spec => [](TypeInv /\ SoloInv)
<1>1. TypeInv /\ SoloInv /\ [Next]_allVars => SoloInv'
  BY SoloStep
<1> QED BY TypeInit, TypeStep, SoloInit, <1>1, PTL DEF Spec

\* With one input at a time, and whatever the air does: while the portal holds the bridge's gate closed,
\* the host never sees the link up ...
THEOREM GateHoldsLinkDown == ASSUME Patient PROVE Spec => []LinkDownWhileSuppressed
<1>1. TypeInv /\ SoloInv => LinkDownWhileSuppressed
  BY DEF SoloInv, LinkDownWhileSuppressed
<1> QED BY SoloKept, <1>1, PTL

\* ... the portal always ends wholly open or wholly closed ...
THEOREM PortalAlwaysWhole == ASSUME Patient PROVE Spec => []PortalWhole
<1>1. TypeInv /\ SoloInv => PortalWhole
  BY AtRestCalm DEF PortalWhole, Settled, Serving, Closed, Whole, Opened, Shut, SoloInv
<1> QED BY SoloKept, <1>1, PTL

\* ... and it is open exactly when no credentials are stored.
THEOREM PortalExactlyWhenUnconfigured == ASSUME Patient PROVE Spec => []PortalIffUnconfigured
<1>1. TypeInv /\ SoloInv => PortalIffUnconfigured
  <2>1. TypeInv => active \in BOOLEAN /\ HasSsid \in BOOLEAN
    BY DEF TypeInv, PortalTypeOK, HasSsid
  <2> QED BY <2>1, AtRestCalm DEF PortalIffUnconfigured, Settled, Whole, Opened, Shut
<1> QED BY SoloKept, <1>1, PTL
----------------------------------------------------------------------------
(* The news of the association, in the whole firmware. *)

\* The portal's calls, and provisioning_apply_or_start.
LEMMA PortalHonest ==
    ASSUME HonestInv, NEW t \in Callers,
           OpenSteps(t) \/ CloseSteps(t) \/ ApplyOrStartSteps(t) \/ FinishSteps(t)
    PROVE  HonestInv'
<1>0. IsDriver(drv) /\ DOMAIN todo = Tasks
  BY DEF HonestInv
<1>1. \E c : Do(t, c)
  BY DEF OpenSteps, OpenBegin, OpenSoftap, OpenHttpd, OpenEnd,
         CloseSteps, CloseBegin, CloseHttpd, CloseRadio, CloseGate,
         ApplyOrStartSteps, ReadCredentials, ReadActive, FinishSteps, FinishDelay, Finish
<1>2. link' = link \/ link' = FALSE
  BY DEF OpenSteps, OpenBegin, OpenSoftap, OpenHttpd, OpenEnd,
         CloseSteps, CloseBegin, CloseHttpd, CloseRadio, CloseGate, mgr,
         ApplyOrStartSteps, ReadCredentials, ReadActive, FinishSteps, FinishDelay, Finish
<1>3. \/ drv' = drv \/ drv' = WD!SetMode(drv, "APSTA") \/ drv' = WD!SetMode(drv, "STA")
      \/ drv' = WD!SetMode(WD!Disconnect(drv), "STA")
  BY DEF OpenSteps, OpenBegin, OpenSoftap, StartSoftap, OpenHttpd, OpenEnd,
         CloseSteps, CloseBegin, CloseHttpd, CloseRadio, CloseGate, mgr,
         ApplyOrStartSteps, ReadCredentials, ReadActive, FinishSteps, FinishDelay, Finish
<1>4. Follows(drv, WD!SetMode(WD!Disconnect(drv), "STA"))
  <2>1. PICK d : d = WD!Disconnect(drv)
    OBVIOUS
  <2>2. Follows(drv, d)
    BY <1>0, <2>1, DisconnectFollows
  <2>3. Follows(d, WD!SetMode(d, "STA"))
    BY <2>2, CallsFollow DEF Follows
  <2> QED BY <2>1, <2>2, <2>3 DEF Follows
<1>5. Follows(drv, drv')
  BY <1>0, <1>3, <1>4, CallsFollow
<1>6. DOMAIN todo' = DOMAIN todo /\ todo'["sys_evt"] = todo["sys_evt"]
  BY <1>0, <1>1, DoElsewhere
<1> QED BY <1>2, <1>5, <1>6, CallerKeeps

\* The user's inputs and the end of a test touch neither the driver nor the link.
LEMMA InputHonest ==
    ASSUME HonestInv, Edit \/ ScanCmd \/ ConfirmReset \/ PostForm \/ TestResult
    PROVE  HonestInv'
<1>0. IsDriver(drv) /\ DOMAIN todo = Tasks
  BY DEF HonestInv
<1>1. UNCHANGED <<drv, link>>
  BY DEF Edit, ScanCmd, ConfirmReset, PostForm, Submit, TestResult, mgr
<1>2. DOMAIN todo' = DOMAIN todo /\ todo'["sys_evt"] = todo["sys_evt"]
  <2>1. CASE \E t \in Callers : \E c : Start(t, c) \/ Do(t, c)
    BY <1>0, <2>1, MgrAssumption DEF Start, Do, Tasks
  <2>2. CASE \E f \in Finishers : \E p : todo' = [todo EXCEPT !["httpd"] = Tail(@), ![f] = p]
    BY <1>0, <2>2, TasksKnown DEF Tasks
  <2>3. Edit \/ ScanCmd \/ ConfirmReset \/ PostForm => \E t \in Callers : \E c : Start(t, c)
    BY PortalAssumption DEF Edit, ScanCmd, ConfirmReset, PostForm, Submit
  <2>4. TestResult => \/ \E t \in Callers : \E c : Do(t, c)
                      \/ \E f \in Finishers : \E p : todo' = [todo EXCEPT !["httpd"] = Tail(@), ![f] = p]
    BY PortalAssumption DEF TestResult
  <2> QED BY <2>1, <2>2, <2>3, <2>4
<1>3. Follows(drv, drv')
  BY <1>0, <1>1, CallsFollow
<1> QED BY <1>1, <1>2, <1>3, CallerKeeps

LEMMA HonestInit == ASSUME Init PROVE HonestInv
<1>1. /\ drv = WD!Started /\ link = FALSE
      /\ todo = [t \in Tasks |-> IF t = "main" THEN BootProgram ELSE <<>>]
  BY DEF Init, MgrInit
<1>2. IsDriver(drv) /\ drv.evq = <<"start">>
  <2>1. "start" \in WD!Events
    BY DEF WD!Events
  <2>2. <<"start">> \in Seq(WD!Events)
    BY <2>1
  <2> QED BY <1>1, <2>2 DEF WD!Started, IsDriver
<1>3. Answered(drv)
  BY <1>2 DEF Answered
<1>4. "sys_evt" \in Tasks /\ "main" # "sys_evt" /\ DOMAIN todo = Tasks
  BY <1>1, TasksKnown
<1>5. todo["sys_evt"] = <<>> /\ <<>> \in HandlerPrograms /\ <<>> # <<"ev_arm", "ev_ok">>
  BY <1>1, <1>4 DEF HandlerPrograms
<1> QED BY <1>1, <1>2, <1>3, <1>4, <1>5 DEF HonestInv

LEMMA HonestStep == SoloInv /\ HonestInv /\ [Next]_allVars => HonestInv'
<1> SUFFICES ASSUME SoloInv, HonestInv, [Next]_allVars PROVE HonestInv'
  OBVIOUS
<1>1. CASE Boot \/ BootCheck
  BY <1>1, BootHonest, PortalAssumption
<1>2. CASE OnWifiEvent
  BY <1>2, HandlerHonest DEF SoloInv
<1>3. CASE Air
  BY <1>3, AirHonest DEF Air
<1>4. ASSUME NEW t \in Callers, CallsOf(t) PROVE HonestInv'
  BY <1>4, ApplyHonest, ScanHonest, TestHonest, PortalHonest DEF CallsOf
<1>5. CASE TestResult \/ Edit \/ ScanCmd \/ ConfirmReset \/ PostForm
  BY <1>5, InputHonest
<1>6. CASE UNCHANGED allVars
  <2>1. UNCHANGED <<drv, link, todo>>
    BY <1>6 DEF allVars, vars, mgr, tasks
  <2> QED BY <2>1 DEF HonestInv
<1> QED BY <1>1, <1>2, <1>3, <1>4, <1>5, <1>6 DEF Next, Rest
----------------------------------------------------------------------------
(* Why a configured device ends up bridging.  One input at a time, and with an
   outside that is slower than the tasks: every program that leaves the device
   configured has wifi_mgr_apply as its last call, which ends in an attempt; from
   then on the handler is owed the news. *)

\* What a caller that is about to execute label relies on, when the device is configured.
ReadyFor(t, label) ==
    /\ label \in {"apply_check", "apply_conf", "apply_connect"} => drv.sta # "connected"
    /\ label \in {"apply_check", "apply_conf"} => loc[t].ptr = cfg.active
    /\ label \in {"apply_connect", "boot_check"} => drv.conf # Blank
    /\ label \in {"apply_connect", "boot_check", "scan"} => st \notin {"PROVISIONING", "SCANNING"}
    /\ label = "boot_check" => drv.sta = "connecting"
    /\ label \in InScan \cup {"scan"} => loc[t].re
    /\ label \in InScan => loc[t].prev \notin {"PROVISIONING", "SCANNING"}

\* What holds when no caller is busy: an attempt, an association or its news, or a wrong passphrase.
AtEase == drv.conf # Blank /\ st \notin {"PROVISIONING", "SCANNING"} /\ DownOK /\ UpOK

MgrReady ==
    /\ Label("main") = "boot" \/ NoStart(drv)
    /\ HasSsid => /\ \A t \in Callers : ReadyFor(t, Label(t))
                  /\ (\A t \in Callers : Idle(t)) => AtEase

\* The inductive invariant; after a panic the device restarts.
BridgeInv == HonestInv /\ (panic \/ MgrReady)

\* The labels at which nothing is relied on.
EasyLabels == Labels \ (InScan \cup {"scan", "apply_check", "apply_conf", "apply_connect", "boot_check"})

\* Where a step leaves the busy task.
Moves(t, p, q) ==
    /\ p \in Seq(Labels) /\ Stage(t, p) /\ p # <<>>
    /\ q # <<>> => Label(t)' = Head(q)
    /\ q = <<>> => Label(t)' \in {"none", "boot_check"}

LEMMA StepMoves ==
    ASSUME TypeInv, SoloInv, NEW t \in Callers, NEW label, At(t, label), label # "boot_check",
           NEW c \in Seq(Labels), Do(t, c)
    PROVE  \E p : Head(p) = label /\ Moves(t, p, c \o Tail(p))
<1>0. t \in Tasks /\ TodoOK
  BY TasksKnown DEF TypeInv
<1>1. PICK s \in {<<>>, <<"boot_check">>}, p \in Seq(Labels) :
        todo[t] = p \o s /\ Stage(t, p) /\ p # <<>> /\ Head(p) = label /\ s \in Seq(Labels)
  BY RunsFrom
<1>2. PICK q : q = c \o Tail(p)
  OBVIOUS
<1>3. todo'[t] = c \o Tail(todo[t])
  BY <1>0, DoTyped DEF At
<1>4. todo'[t] = q \o s /\ q \in Seq(Labels)
  <2>1. c \o Tail(p \o s) = (c \o Tail(p)) \o s /\ c \o Tail(p) \in Seq(Labels)
    BY <1>1, HeadTailConcat
  <2> QED BY <1>1, <1>2, <1>3, <2>1
<1>5. ASSUME q # <<>> PROVE Label(t)' = Head(q)
  <2>1. q \o s # <<>> /\ Head(q \o s) = Head(q)
    BY <1>1, <1>4, <1>5, HeadTailConcat
  <2> QED BY <1>4, <2>1 DEF Label
<1>6. ASSUME q = <<>> PROVE Label(t)' \in {"none", "boot_check"}
  <2>1. todo'[t] = s
    BY <1>1, <1>4, <1>6, ConcatEmptySeq
  <2>2. <<"boot_check">> # <<>> /\ Head(<<"boot_check">>) = "boot_check"
    OBVIOUS
  <2> QED BY <1>1, <2>1, <2>2 DEF Label
<1>7. Moves(t, p, q)
  BY <1>1, <1>5, <1>6 DEF Moves
<1> QED BY <1>1, <1>2, <1>7

\* One busy task moves: it is enough to look at what it does.
LEMMA BusyReady ==
    ASSUME TypeInv, SoloInv, MgrReady, NEW t \in Callers, NEW label, At(t, label),
           \A u \in Callers \ {t} : todo'[u] = todo[u],
           NoStart(drv') \/ (label # "boot" /\ (NoStart(drv) => NoStart(drv'))),
           HasSsid' => ReadyFor(t, Label(t))' /\ (Label(t)' = "none" => AtEase')
    PROVE  MgrReady'
<1>1. \A u \in Callers \ {t} : todo[u] = <<>> /\ todo'[u] = <<>>
  BY DEF SoloInv, Idle, At
<1>2. NoStart(drv')
  <2>1. label # "boot" => Label("main") # "boot"
    BY <1>1, TasksKnown, PortalAssumption DEF Label, At
  <2> QED BY <2>1 DEF MgrReady
<1>3. \A u \in Callers \ {t} : Label(u)' = "none"
  BY <1>1 DEF Label
<1>4. \A u \in Callers \ {t} : ReadyFor(u, Label(u))'
  BY <1>3 DEF ReadyFor, InScan
<1>5. (\A u \in Callers : Idle(u)') => Label(t)' = "none"
  BY DEF Idle, Label
<1> QED BY <1>2, <1>4, <1>5 DEF MgrReady, NoStart

\* The other tasks' programs stay as they are.
LEMMA OthersWait ==
    ASSUME TypeInv, NEW t \in Callers, NEW label, At(t, label), NEW c \in Seq(Labels), Do(t, c)
    PROVE  \A u \in Callers \ {t} : todo'[u] = todo[u]
  BY DoTyped, TasksKnown DEF TypeInv, At

LEMMA SingleCall == ASSUME NEW a PROVE <<a>> # <<>> /\ Head(<<a>>) = a
  OBVIOUS

\* wifi_mgr_apply on a configured device ends in an attempt.
LEMMA ApplyReady ==
    ASSUME TypeInv, SoloInv, HonestInv, MgrReady, NEW t \in Callers, ApplySteps(t)
    PROVE  panic' \/ MgrReady'
<1>0. /\ t \in Tasks /\ LocOK /\ drv \in WD!Drivers /\ IsDriver(drv) /\ <<>> \in Seq(Labels)
      /\ cfg' = cfg
  BY TasksKnown, Calls
     DEF TypeInv, PlainOK, HonestInv, ApplySteps, ApplyDisconnect, ApplyCheck, ApplyConf, ApplyConnect, store
<1>00. HasSsid' = HasSsid
  BY <1>0 DEF HasSsid
<1>1. CASE ApplyDisconnect(t)
  <2>1. /\ At(t, "apply") /\ Do(t, <<>>) /\ drv' = WD!Disconnect(drv)
        /\ SetLoc(t, "ptr", IF CS!HasActive(cfg) THEN cfg.active ELSE CS!ActiveNone)
    BY <1>1 DEF ApplyDisconnect
  <2>2. PICK p : Head(p) = "apply" /\ Moves(t, p, <<>> \o Tail(p))
    BY <1>0, <2>1, StepMoves
  <2>3. drv'.sta = "down" /\ (NoStart(drv) => NoStart(drv'))
    BY <1>0, <2>1, Disconnected
  <2>4. ASSUME HasSsid PROVE Label(t)' = "apply_check" /\ loc'[t].ptr = cfg.active
    <3>1. p = <<"apply", "apply_check">>
      BY <2>2, <2>4 DEF Moves, Stage, LoneScan, OpeningScan, HttpdPrograms
    <3>2. <<>> \o Tail(p) = <<"apply_check">>
      BY <2>2, <3>1, NextLabel, Tails DEF Moves
    <3>3. Label(t)' = "apply_check"
      BY <2>2, <3>2, SingleCall DEF Moves
    <3>4. CS!HasActive(cfg)
      BY <2>4, StoreFits DEF HasSsid, CS!ActiveSsid
    <3> QED BY <1>0, <2>1, <3>3, <3>4 DEF SetLoc, LocOK, Locals
  <2>5. HasSsid' => ReadyFor(t, Label(t))' /\ Label(t)' # "none"
    BY <1>0, <1>00, <2>3, <2>4 DEF ReadyFor, InScan
  <2>6. \A u \in Callers \ {t} : todo'[u] = todo[u]
    BY <1>0, <2>1, OthersWait
  <2> QED BY <2>1, <2>3, <2>5, <2>6, BusyReady
<1>2. CASE ApplyCheck(t)
  <2>1. At(t, "apply_check") /\ drv' = drv
    BY <1>2 DEF ApplyCheck
  <2>2. Label(t) = "apply_check"
    BY <2>1 DEF At, Label
  <2>3. CASE HasSsid
    <3>1. drv.sta # "connected" /\ loc[t].ptr = cfg.active
      BY <2>2, <2>3 DEF MgrReady, ReadyFor
    <3>2. Pointee(t) # Blank
      BY <2>3, <3>1 DEF HasSsid, CS!ActiveSsid, CS!HasActive, Pointee
    <3>3. PICK c : c = <<"apply_conf", "apply_connect">>
      OBVIOUS
    <3>4. c \in Seq(Labels) /\ c # <<>> /\ Head(c) = "apply_conf"
      <4>1. "apply_conf" \in Labels /\ "apply_connect" \in Labels
        BY DEF Labels
      <4>2. <<"apply_conf", "apply_connect">> # <<>> /\ Head(<<"apply_conf", "apply_connect">>) = "apply_conf"
        OBVIOUS
      <4> QED BY <3>3, <4>1, <4>2, Calls
    <3>5. Do(t, c) /\ loc' = loc
      BY <1>2, <3>2, <3>3 DEF ApplyCheck
    <3>6. PICK p : Head(p) = "apply_check" /\ Moves(t, p, c \o Tail(p))
      BY <2>1, <3>4, <3>5, StepMoves
    <3>7. p = <<"apply_check">>
      BY <2>3, <3>6 DEF Moves, Stage, LoneScan, OpeningScan, HttpdPrograms
    <3>8. c \o Tail(p) = c
      BY <3>4, <3>7, LastCall
    <3>9. Label(t)' = "apply_conf"
      BY <3>4, <3>6, <3>8 DEF Moves
    <3>10. ReadyFor(t, Label(t))'
      BY <1>0, <2>1, <3>1, <3>5, <3>9 DEF ReadyFor, InScan
    <3>11. \A u \in Callers \ {t} : todo'[u] = todo[u]
      BY <2>1, <3>4, <3>5, OthersWait
    <3> QED BY <2>1, <3>9, <3>10, <3>11, BusyReady
  <2>4. CASE ~HasSsid
    <3>1. PICK c \in Seq(Labels) : Do(t, c)
      <4>1. Do(t, <<>>) \/ Do(t, <<"apply_conf", "apply_connect">>)
        BY <1>2 DEF ApplyCheck
      <4>2. "apply_conf" \in Labels /\ "apply_connect" \in Labels
        BY DEF Labels
      <4> QED BY <4>1, <4>2, Calls
    <3>2. \A u \in Callers \ {t} : todo'[u] = todo[u]
      BY <2>1, <3>1, OthersWait
    <3> QED BY <1>00, <2>1, <2>4, <3>2, BusyReady
  <2> QED BY <2>3, <2>4
<1>3. CASE ApplyConf(t) /\ ~panic'
  <2>1. At(t, "apply_conf") /\ Do(t, <<>>)
    BY <1>3 DEF ApplyConf
  <2>2. /\ drv' = WD!SetConfig(WD!SetMode(drv, "STA"), Pointee(t))
        /\ st' = "CONNECTING"
    BY <1>3 DEF ApplyConf
  <2>3. Label(t) = "apply_conf"
    BY <2>1 DEF At, Label
  <2>4. drv'.sta = drv.sta /\ drv'.evq = drv.evq /\ drv'.conf = Pointee(t)
    BY <1>0, <2>2, Configured
  <2>5. NoStart(drv) => NoStart(drv')
    BY <2>4 DEF NoStart
  <2>6. PICK p : Head(p) = "apply_conf" /\ Moves(t, p, <<>> \o Tail(p))
    BY <1>0, <2>1, StepMoves
  <2>7. Label(t)' = "apply_connect"
    <3>1. p = <<"apply_conf", "apply_connect">>
      BY <2>6 DEF Moves, Stage, LoneScan, OpeningScan, HttpdPrograms
    <3>2. <<>> \o Tail(p) = <<"apply_connect">>
      BY <2>6, <3>1, NextLabel, Tails DEF Moves
    <3> QED BY <2>6, <3>2, SingleCall DEF Moves
  <2>8. ASSUME HasSsid PROVE ReadyFor(t, Label(t))'
    <3>1. drv.sta # "connected" /\ loc[t].ptr = cfg.active
      BY <2>3, <2>8 DEF MgrReady, ReadyFor
    <3>2. Pointee(t) # Blank
      BY <2>8, <3>1 DEF HasSsid, CS!ActiveSsid, CS!HasActive, Pointee
    <3> QED BY <2>2, <2>4, <2>7, <3>1, <3>2 DEF ReadyFor, InScan
  <2>9. \A u \in Callers \ {t} : todo'[u] = todo[u]
    BY <1>0, <2>1, OthersWait
  <2> QED BY <1>00, <2>1, <2>5, <2>7, <2>8, <2>9, BusyReady
<1>4. CASE ApplyConnect(t)
  <2>1. At(t, "apply_connect") /\ Do(t, <<>>) /\ drv' = WD!Connect(drv) /\ st' = st
    BY <1>4 DEF ApplyConnect
  <2>2. Label(t) = "apply_connect"
    BY <2>1 DEF At, Label
  <2>3. PICK p : Head(p) = "apply_connect" /\ Moves(t, p, <<>> \o Tail(p))
    BY <1>0, <2>1, StepMoves
  <2>4. Label(t)' \in {"none", "boot_check"}
    <3>1. p = <<"apply_connect">>
      BY <2>3 DEF Moves, Stage, LoneScan, OpeningScan, HttpdPrograms
    <3>2. <<>> \o Tail(p) = <<>>
      BY <2>3, <3>1, NextLabel, Tails DEF Moves
    <3> QED BY <2>3, <3>2 DEF Moves
  <2>5. /\ drv'.conf = drv.conf /\ (NoStart(drv) => NoStart(drv'))
        /\ drv'.sta = IF drv.sta = "down" /\ drv.conf # Blank THEN "connecting" ELSE drv.sta
    BY <1>0, <2>1, Connected
  <2>6. ASSUME HasSsid PROVE ReadyFor(t, Label(t))' /\ AtEase'
    <3>1. drv.sta # "connected" /\ drv.conf # Blank /\ st \notin {"PROVISIONING", "SCANNING"}
      BY <2>2, <2>6 DEF MgrReady, ReadyFor
    <3>2. drv'.sta = "connecting" /\ drv'.conf # Blank /\ st' \notin {"PROVISIONING", "SCANNING"}
      BY <1>0, <2>1, <2>5, <3>1 DEF WD!Drivers
    <3>3. DownOK' /\ UpOK'
      BY <3>2 DEF DownOK, UpOK
    <3> QED BY <2>4, <3>2, <3>3 DEF ReadyFor, AtEase, InScan
  <2>7. \A u \in Callers \ {t} : todo'[u] = todo[u]
    BY <1>0, <2>1, OthersWait
  <2> QED BY <1>00, <2>1, <2>5, <2>6, <2>7, BusyReady
<1>5. ApplyConf(t) => panic' \in BOOLEAN
  BY DEF ApplyConf, TypeInv, PlainOK
<1> QED BY <1>1, <1>2, <1>3, <1>4, <1>5 DEF ApplySteps

\* wifi_mgr_scan on a configured device is a scan on its own, and ends in wifi_mgr_apply.
LEMMA ScanReady ==
    ASSUME TypeInv, SoloInv, HonestInv, MgrReady, NEW t \in Callers, ScanSteps(t)
    PROVE  MgrReady'
<1>0. /\ t \in Tasks /\ LocOK /\ IsDriver(drv) /\ <<>> \in Seq(Labels) /\ cfg' = cfg
  BY TasksKnown, Calls
     DEF TypeInv, HonestInv, ScanSteps, ScanEnter, ScanDisconnect, ScanStart, ScanWait, ScanExit, store
<1>00. HasSsid' = HasSsid
  BY <1>0 DEF HasSsid
<1>1. NoStart(drv) => NoStart(drv')
  <2>1. \/ drv' = drv \/ drv' = WD!Disconnect(drv) \/ drv' = WD!ScanStart(drv) \/ drv' = WD!ScanStop(drv)
    BY DEF ScanSteps, ScanEnter, ScanDisconnect, ScanStart, ScanWait, ScanExit
  <2>2. WD!ScanStart(drv).evq = drv.evq /\ WD!ScanStop(drv).evq = drv.evq
    BY <1>0 DEF WD!ScanStart, WD!ScanStop, IsDriver
  <2> QED BY <1>0, <2>1, <2>2, Disconnected DEF NoStart
\* Where the scan goes on, with its locals.
<1>2. ASSUME NEW label \in InScan \cup {"scan"}, At(t, label), NEW c \in Seq(Labels), Do(t, c),
             HasSsid => /\ Label(t)' \in InScan \cup {"apply"}
                        /\ Label(t)' \in InScan =>
                             loc'[t].re /\ loc'[t].prev \notin {"PROVISIONING", "SCANNING"}
      PROVE  MgrReady'
  <2>1. \A u \in Callers \ {t} : todo'[u] = todo[u]
    BY <1>2, OthersWait
  <2>2. HasSsid => ReadyFor(t, Label(t))' /\ Label(t)' # "none"
    BY <1>2 DEF ReadyFor, InScan
  <2>3. label # "boot"
    BY DEF InScan
  <2> QED BY <1>00, <1>1, <1>2, <2>1, <2>2, <2>3, BusyReady
<1>3. ASSUME NEW label, At(t, label), HasSsid
      PROVE  ReadyFor(t, label)
  BY <1>3 DEF MgrReady, At, Label
<1>4. CASE ScanEnter(t)
  <2>1. At(t, "scan") /\ Do(t, <<>>) /\ SetLoc(t, "prev", st)
    BY <1>4 DEF ScanEnter
  <2>2. PICK p : Head(p) = "scan" /\ Moves(t, p, <<>> \o Tail(p))
    BY <1>0, <2>1, StepMoves
  <2>3. ASSUME HasSsid PROVE Label(t)' = "scan_disconnect"
    <3>1. p = <<"scan", "scan_disconnect", "scan_start">>
      BY <2>2, <2>3 DEF Moves, Stage, LoneScan, OpeningScan, HttpdPrograms, Opening
    <3>2. <<>> \o Tail(p) = <<"scan_disconnect", "scan_start">>
      BY <2>2, <3>1, NextLabel, ScanMoves DEF Moves
    <3>3. Head(<<"scan_disconnect", "scan_start">>) = "scan_disconnect"
          /\ <<"scan_disconnect", "scan_start">> # <<>>
      OBVIOUS
    <3> QED BY <2>2, <3>2, <3>3 DEF Moves
  <2>4. HasSsid => loc'[t].re /\ loc'[t].prev \notin {"PROVISIONING", "SCANNING"}
    <3>1. loc'[t].re = loc[t].re /\ loc'[t].prev = st
      BY <1>0, <2>1 DEF SetLoc, LocOK, Locals
    <3> QED BY <1>3, <2>1, <3>1 DEF ReadyFor
  <2> QED BY <1>0, <1>2, <2>1, <2>3, <2>4 DEF InScan
<1>5. CASE ScanDisconnect(t)
  <2>1. At(t, "scan_disconnect") /\ Do(t, <<>>) /\ loc' = loc
    BY <1>5 DEF ScanDisconnect
  <2>2. PICK p : Head(p) = "scan_disconnect" /\ Moves(t, p, <<>> \o Tail(p))
    BY <1>0, <2>1, StepMoves
  <2>3. ASSUME HasSsid PROVE Label(t)' = "scan_start"
    <3>1. p = <<"scan_disconnect", "scan_start">>
      BY <2>2, <2>3 DEF Moves, Stage, LoneScan, OpeningScan, HttpdPrograms, Opening
    <3>2. <<>> \o Tail(p) = <<"scan_start">>
      BY <2>2, <3>1, NextLabel, ScanMoves DEF Moves
    <3> QED BY <2>2, <3>2, SingleCall DEF Moves
  <2>4. HasSsid => loc'[t].re /\ loc'[t].prev \notin {"PROVISIONING", "SCANNING"}
    BY <1>3, <2>1 DEF ReadyFor, InScan
  <2> QED BY <1>0, <1>2, <2>1, <2>3, <2>4 DEF InScan
<1>6. CASE ScanStart(t) \/ ScanWait(t)
  <2>1. PICK label \in {"scan_start", "scan_wait"}, a \in {"scan_wait", "scan_exit"} :
          At(t, label) /\ Do(t, <<a>>) /\ UNCHANGED loc
    BY <1>6 DEF ScanStart, ScanWait
  <2>2. PICK c : c = <<a>>
    OBVIOUS
  <2>3. c \in Seq(Labels) /\ c # <<>> /\ Head(c) = a /\ Do(t, c)
    BY <2>1, <2>2, Calls, SingleCall DEF Labels
  <2>4. PICK p : Head(p) = label /\ Moves(t, p, c \o Tail(p))
    BY <2>1, <2>3, StepMoves
  <2>5. ASSUME HasSsid PROVE Label(t)' = a
    <3>1. p = <<label>>
      BY <2>1, <2>4, <2>5 DEF Moves, Stage, LoneScan, OpeningScan, HttpdPrograms, Opening
    <3>2. c \o Tail(p) = c
      BY <2>3, <3>1, LastCall
    <3> QED BY <2>3, <2>4, <3>2 DEF Moves
  <2>6. HasSsid => loc'[t].re /\ loc'[t].prev \notin {"PROVISIONING", "SCANNING"}
    BY <1>3, <2>1 DEF ReadyFor, InScan
  <2> QED BY <1>2, <2>1, <2>3, <2>5, <2>6 DEF InScan
<1>7. CASE ScanExit(t)
  <2>1. PICK c : c = IF loc[t].re THEN Apply ELSE <<>>
    OBVIOUS
  <2>2. At(t, "scan_exit") /\ Do(t, c) /\ c \in Seq(Labels)
    BY <1>7, <2>1, Calls DEF ScanExit
  <2>3. PICK p : Head(p) = "scan_exit" /\ Moves(t, p, c \o Tail(p))
    BY <2>2, StepMoves
  <2>4. ASSUME HasSsid PROVE Label(t)' = "apply"
    <3>1. loc[t].re
      BY <1>3, <2>2, <2>4 DEF ReadyFor, InScan
    <3>2. p = <<"scan_exit">>
      BY <2>3, <2>4 DEF Moves, Stage, LoneScan, OpeningScan, HttpdPrograms, Opening
    <3>3. c \o Tail(p) = <<"apply", "apply_check">>
      BY <2>1, <2>2, <3>1, <3>2, LastCall DEF Apply
    <3>4. <<"apply", "apply_check">> # <<>> /\ Head(<<"apply", "apply_check">>) = "apply"
      OBVIOUS
    <3> QED BY <2>3, <3>3, <3>4 DEF Moves
  <2> QED BY <1>2, <2>2, <2>4 DEF InScan
<1> QED BY <1>4, <1>5, <1>6, <1>7 DEF ScanSteps

\* A step that is only taken on a device without credentials, or leaves the portal's task at a label that
\* relies on nothing.
LEMMA EasyStep ==
    ASSUME TypeInv, SoloInv, MgrReady, NEW t \in Callers, NEW label, At(t, label), label # "boot",
           NEW c \in Seq(Labels), Do(t, c), NoStart(drv) => NoStart(drv'),
           HasSsid' => Label(t)' \in EasyLabels
    PROVE  MgrReady'
<1>1. \A u \in Callers \ {t} : todo'[u] = todo[u]
  BY OthersWait
<1>2. Label(t)' \in EasyLabels => ReadyFor(t, Label(t))' /\ Label(t)' # "none"
  BY DEF EasyLabels, Labels, ReadyFor, InScan
<1> QED BY <1>1, <1>2, BusyReady

\* wifi_mgr_test_connect and provisioning_start, which only run without credentials.
LEMMA TestReady ==
    ASSUME TypeInv, SoloInv, HonestInv, MgrReady, NEW t \in Callers, TestSteps(t)
    PROVE  MgrReady'
<1>0. IsDriver(drv) /\ cfg' = cfg /\ <<>> \in Seq(Labels)
  BY Calls DEF HonestInv, TestSteps, TestDisconnect, TestConf, TestConnect, TestWait, store
<1>1. PICK label \in HttpdLabels \ {"test_result"} : At(t, label)
  BY DEF TestSteps, TestDisconnect, TestConf, TestConnect, TestWait, HttpdLabels
<1>2. PICK c \in Seq(Labels) : Do(t, c)
  <2>1. Do(t, <<>>) \/ Do(t, <<"test_connect">>) \/ Do(t, <<"test_wait">>)
    BY DEF TestSteps, TestDisconnect, TestConf, TestConnect, TestWait
  <2>2. "test_connect" \in Labels /\ "test_wait" \in Labels
    BY DEF Labels
  <2> QED BY <2>1, <2>2, Calls
<1>3. NoStart(drv) => NoStart(drv')
  <2>1. \/ drv' = drv \/ drv' = WD!Disconnect(drv) \/ drv' = WD!Connect(drv)
        \/ drv' = WD!SetConfig(drv, loc[t].net)
    BY DEF TestSteps, TestDisconnect, TestConf, TestConnect, TestWait
  <2>2. WD!SetConfig(drv, loc[t].net).evq = drv.evq
    BY <1>0 DEF WD!SetConfig, IsDriver
  <2> QED BY <1>0, <2>1, <2>2, Disconnected, Connected DEF NoStart
<1>4. ~HasSsid
  <2>1. PICK p \in Seq(Labels) : Stage(t, p) /\ p # <<>> /\ Head(p) = label
    BY <1>1, RunsFrom DEF HttpdLabels
  <2> QED BY <1>1, <2>1 DEF HttpdLabels, Stage, LoneScan, OpeningScan, HttpdPrograms
<1>5. ~HasSsid' /\ label # "boot"
  BY <1>0, <1>4 DEF HasSsid, HttpdLabels
<1> QED BY <1>1, <1>2, <1>3, <1>5, EasyStep

LEMMA OpenReady ==
    ASSUME TypeInv, SoloInv, HonestInv, MgrReady, NEW t \in Callers, OpenSteps(t)
    PROVE  MgrReady'
<1>0. IsDriver(drv) /\ cfg' = cfg /\ <<>> \in Seq(Labels)
  BY Calls DEF HonestInv, OpenSteps, OpenBegin, OpenSoftap, OpenHttpd, OpenEnd, store
<1>1. PICK label \in {"start", "start_softap", "start_httpd", "start_open"} : At(t, label)
  BY DEF OpenSteps, OpenBegin, OpenSoftap, OpenHttpd, OpenEnd
<1>2. PICK c \in Seq(Labels) : Do(t, c)
  <2>1. Do(t, <<>>) \/ Do(t, <<"start_open">>) \/ Do(t, Scan \o <<"start_softap", "start_httpd">>)
    BY DEF OpenSteps, OpenBegin, OpenSoftap, OpenHttpd, OpenEnd
  <2>2. "start_open" \in Labels /\ "start_softap" \in Labels /\ "start_httpd" \in Labels
    BY DEF Labels
  <2>3. PICK u : u = <<"start_softap", "start_httpd">>
    OBVIOUS
  <2>4. u \in Seq(Labels) /\ Scan \in Seq(Labels)
    BY <2>2, <2>3, Calls
  <2>5. Scan \o u \in Seq(Labels)
    BY <2>4, Calls
  <2> QED BY <2>1, <2>2, <2>3, <2>5, Calls
<1>3. NoStart(drv) => NoStart(drv')
  <2>1. drv' = drv \/ drv' = WD!SetMode(drv, "APSTA") \/ drv' = WD!SetMode(drv, "STA")
    BY DEF OpenSteps, OpenBegin, OpenSoftap, StartSoftap, OpenHttpd, OpenEnd
  <2>2. WD!SetMode(drv, "APSTA").evq = drv.evq /\ WD!SetMode(drv, "STA").evq = drv.evq
    BY <1>0 DEF WD!SetMode, IsDriver
  <2> QED BY <2>1, <2>2 DEF NoStart
<1>4. ~HasSsid
  <2>1. PICK p \in Seq(Labels) : Stage(t, p) /\ p # <<>> /\ Head(p) = label
    BY <1>1, RunsFrom
  <2> QED BY <1>1, <2>1 DEF Stage, LoneScan, OpeningScan, HttpdPrograms, Opening
<1>5. ~HasSsid'
  BY <1>0, <1>4 DEF HasSsid
<1> QED BY <1>1, <1>2, <1>3, <1>5, EasyStep

\* provisioning_stop, which wifi_mgr_apply follows.
LEMMA CloseReady ==
    ASSUME TypeInv, SoloInv, HonestInv, MgrReady, NEW t \in Callers, CloseSteps(t)
    PROVE  MgrReady'
<1>0. IsDriver(drv) /\ <<>> \in Seq(Labels)
  BY Calls DEF HonestInv
<1>1. NoStart(drv) => NoStart(drv')
  <2>1. drv' = drv \/ drv' = WD!SetMode(WD!Disconnect(drv), "STA")
    BY DEF CloseSteps, CloseBegin, CloseHttpd, CloseRadio, CloseGate, mgr
  <2>2. PICK d : d = WD!Disconnect(drv)
    OBVIOUS
  <2>3. IsDriver(d) /\ (NoStart(drv) => NoStart(d))
    BY <1>0, <2>2, Disconnected
  <2>4. WD!SetMode(d, "STA").evq = d.evq
    BY <2>3 DEF WD!SetMode, IsDriver
  <2> QED BY <2>1, <2>2, <2>3, <2>4 DEF NoStart
<1>2. CASE CloseBegin(t)
  <2>1. PICK p \in Seq(Labels) : Stage(t, p) /\ p # <<>> /\ Head(p) = "stop"
    BY <1>2, RunsFrom DEF CloseBegin
  <2>2. Opened
    BY <2>1 DEF Stage, LoneScan, OpeningScan, HttpdPrograms
  <2>3. PICK c : c = <<"stop_httpd", "stop_radio", "stop_gate">>
    OBVIOUS
  <2>4. At(t, "stop") /\ Do(t, c) /\ c \in Seq(Labels)
    BY <1>2, <2>2, <2>3, CloseMoves DEF CloseBegin, Opened
  <2>5. PICK r : Head(r) = "stop" /\ Moves(t, r, c \o Tail(r))
    BY <2>4, StepMoves
  <2>6. Label(t)' = "stop_httpd"
    <3>1. r = <<"stop", "apply", "apply_check">>
      BY <2>5 DEF Moves, Stage, LoneScan, OpeningScan, HttpdPrograms
    <3>2. c \o Tail(r) = <<"stop_httpd", "stop_radio", "stop_gate", "apply", "apply_check">>
      BY <2>3, <3>1, CloseMoves
    <3>3. /\ <<"stop_httpd", "stop_radio", "stop_gate", "apply", "apply_check">> # <<>>
          /\ Head(<<"stop_httpd", "stop_radio", "stop_gate", "apply", "apply_check">>) = "stop_httpd"
      OBVIOUS
    <3> QED BY <2>5, <3>2, <3>3 DEF Moves
  <2>7. "stop_httpd" \in EasyLabels
    BY DEF EasyLabels, Labels, InScan
  <2> QED BY <1>1, <2>4, <2>6, <2>7, EasyStep
<1>3. CASE CloseHttpd(t)
  <2>1. At(t, "stop_httpd") /\ Do(t, <<>>)
    BY <1>3 DEF CloseHttpd
  <2>2. PICK p : Head(p) = "stop_httpd" /\ Moves(t, p, <<>> \o Tail(p))
    BY <1>0, <2>1, StepMoves
  <2>3. Label(t)' = "stop_radio"
    <3>1. p = <<"stop_httpd", "stop_radio", "stop_gate", "apply", "apply_check">>
      BY <2>2 DEF Moves, Stage, LoneScan, OpeningScan, HttpdPrograms
    <3>2. <<>> \o Tail(p) = <<"stop_radio", "stop_gate", "apply", "apply_check">>
      BY <2>2, <3>1, NextLabel, CloseMoves DEF Moves
    <3>3. /\ <<"stop_radio", "stop_gate", "apply", "apply_check">> # <<>>
          /\ Head(<<"stop_radio", "stop_gate", "apply", "apply_check">>) = "stop_radio"
      OBVIOUS
    <3> QED BY <2>2, <3>2, <3>3 DEF Moves
  <2>4. "stop_radio" \in EasyLabels
    BY DEF EasyLabels, Labels, InScan
  <2> QED BY <1>0, <1>1, <2>1, <2>3, <2>4, EasyStep
<1>4. CASE CloseRadio(t)
  <2>1. At(t, "stop_radio") /\ Do(t, <<>>)
    BY <1>4 DEF CloseRadio
  <2>2. PICK p : Head(p) = "stop_radio" /\ Moves(t, p, <<>> \o Tail(p))
    BY <1>0, <2>1, StepMoves
  <2>3. Label(t)' = "stop_gate"
    <3>1. p = <<"stop_radio", "stop_gate", "apply", "apply_check">>
      BY <2>2 DEF Moves, Stage, LoneScan, OpeningScan, HttpdPrograms
    <3>2. <<>> \o Tail(p) = <<"stop_gate", "apply", "apply_check">>
      BY <2>2, <3>1, NextLabel, CloseMoves DEF Moves
    <3>3. <<"stop_gate", "apply", "apply_check">> # <<>> /\ Head(<<"stop_gate", "apply", "apply_check">>) = "stop_gate"
      OBVIOUS
    <3> QED BY <2>2, <3>2, <3>3 DEF Moves
  <2>4. "stop_gate" \in EasyLabels
    BY DEF EasyLabels, Labels, InScan
  <2> QED BY <1>0, <1>1, <2>1, <2>3, <2>4, EasyStep
<1>5. CASE CloseGate(t)
  <2>1. At(t, "stop_gate") /\ Do(t, <<>>)
    BY <1>5 DEF CloseGate
  <2>2. PICK p : Head(p) = "stop_gate" /\ Moves(t, p, <<>> \o Tail(p))
    BY <1>0, <2>1, StepMoves
  <2>3. Label(t)' = "apply"
    <3>1. p = <<"stop_gate", "apply", "apply_check">>
      BY <2>2 DEF Moves, Stage, LoneScan, OpeningScan, HttpdPrograms
    <3>2. <<>> \o Tail(p) = <<"apply", "apply_check">>
      BY <2>2, <3>1, NextLabel, CloseMoves DEF Moves
    <3>3. <<"apply", "apply_check">> # <<>> /\ Head(<<"apply", "apply_check">>) = "apply"
      OBVIOUS
    <3> QED BY <2>2, <3>2, <3>3 DEF Moves
  <2>4. "apply" \in EasyLabels
    BY DEF EasyLabels, Labels, InScan
  <2> QED BY <1>0, <1>1, <2>1, <2>3, <2>4, EasyStep
<1> QED BY <1>2, <1>3, <1>4, <1>5 DEF CloseSteps

\* provisioning_apply_or_start and the finish task.
LEMMA ChoiceReady ==
    ASSUME TypeInv, SoloInv, MgrReady, NEW t \in Callers, ApplyOrStartSteps(t) \/ FinishSteps(t)
    PROVE  MgrReady'
<1>0. cfg' = cfg /\ drv' = drv /\ <<>> \in Seq(Labels)
  BY Calls DEF ApplyOrStartSteps, ReadCredentials, ReadActive, FinishSteps, FinishDelay, Finish, store, mgr
<1>00. HasSsid' = HasSsid /\ NoStart(drv') = NoStart(drv)
  BY <1>0 DEF HasSsid
<1>000. {"unless_active", "apply", "stop", "fin"} \subseteq EasyLabels
  BY DEF EasyLabels, Labels, InScan
<1>1. CASE ReadCredentials(t)
  <2>1. PICK c : c = IF HasSsid THEN <<"unless_active">> \o Apply ELSE Apply \o Open
    OBVIOUS
  <2>2. At(t, "apply_or_start") /\ Do(t, c) /\ c \in Seq(Labels)
    BY <1>1, <2>1, ChoiceMoves DEF ReadCredentials
  <2>3. PICK p : Head(p) = "apply_or_start" /\ Moves(t, p, c \o Tail(p))
    BY <2>2, StepMoves
  <2>4. ASSUME HasSsid PROVE Label(t)' = "unless_active"
    <3>1. p = <<"apply_or_start">>
      BY <2>3 DEF Moves, Stage, LoneScan, OpeningScan, HttpdPrograms
    <3>2. c \o Tail(p) = <<"unless_active", "apply", "apply_check">>
      BY <2>1, <2>2, <2>4, <3>1, LastCall, ChoiceMoves
    <3>3. /\ <<"unless_active", "apply", "apply_check">> # <<>>
          /\ Head(<<"unless_active", "apply", "apply_check">>) = "unless_active"
      OBVIOUS
    <3> QED BY <2>3, <3>2, <3>3 DEF Moves
  <2> QED BY <1>00, <1>000, <2>2, <2>4, EasyStep
<1>2. CASE ReadActive(t)
  <2>1. PICK c : c = IF active THEN Close ELSE <<>>
    OBVIOUS
  <2>2. At(t, "unless_active") /\ Do(t, c) /\ c \in Seq(Labels)
    BY <1>2, <2>1, Calls DEF ReadActive
  <2>3. PICK p : Head(p) = "unless_active" /\ Moves(t, p, c \o Tail(p))
    BY <2>2, StepMoves
  <2>4. p = <<"unless_active", "apply", "apply_check">>
    BY <2>3 DEF Moves, Stage, LoneScan, OpeningScan, HttpdPrograms
  <2>5. \/ c \o Tail(p) = <<"stop", "apply", "apply_check">>
        \/ c \o Tail(p) = <<"apply", "apply_check">>
    BY <2>1, <2>3, <2>4, ChoiceMoves, NextLabel, Tails DEF Moves
  <2>6. <<"stop", "apply", "apply_check">> # <<>> /\ Head(<<"stop", "apply", "apply_check">>) = "stop"
    OBVIOUS
  <2>7. <<"apply", "apply_check">> # <<>> /\ Head(<<"apply", "apply_check">>) = "apply"
    OBVIOUS
  <2>8. Label(t)' \in {"stop", "apply"}
    BY <2>3, <2>5, <2>6, <2>7 DEF Moves
  <2> QED BY <1>00, <1>000, <2>2, <2>8, EasyStep
<1>3. CASE FinishDelay(t)
  <2>1. At(t, "fin_delay") /\ Do(t, <<>>)
    BY <1>3 DEF FinishDelay
  <2>2. PICK p : Head(p) = "fin_delay" /\ Moves(t, p, <<>> \o Tail(p))
    BY <1>0, <2>1, StepMoves
  <2>3. Label(t)' = "fin"
    <3>1. p = <<"fin_delay", "fin">>
      BY <2>2 DEF Moves, Stage, LoneScan, OpeningScan, HttpdPrograms
    <3>2. <<>> \o Tail(p) = <<"fin">>
      BY <2>2, <3>1, NextLabel, Tails DEF Moves
    <3> QED BY <2>2, <3>2, SingleCall DEF Moves
  <2> QED BY <1>0, <1>00, <1>000, <2>1, <2>3, EasyStep
<1>4. CASE Finish(t)
  <2>1. PICK c : c = Close \o Apply
    OBVIOUS
  <2>2. At(t, "fin") /\ Do(t, c) /\ c \in Seq(Labels)
    BY <1>4, <2>1, ChoiceMoves DEF Finish
  <2>3. PICK p : Head(p) = "fin" /\ Moves(t, p, c \o Tail(p))
    BY <2>2, StepMoves
  <2>4. Label(t)' = "stop"
    <3>1. p = <<"fin">>
      BY <2>3 DEF Moves, Stage, LoneScan, OpeningScan, HttpdPrograms
    <3>2. c \o Tail(p) = <<"stop", "apply", "apply_check">>
      BY <2>1, <2>2, <3>1, LastCall, ChoiceMoves
    <3>3. <<"stop", "apply", "apply_check">> # <<>> /\ Head(<<"stop", "apply", "apply_check">>) = "stop"
      OBVIOUS
    <3> QED BY <2>3, <3>2, <3>3 DEF Moves
  <2> QED BY <1>00, <1>000, <2>2, <2>4, EasyStep
<1> QED BY <1>1, <1>2, <1>3, <1>4 DEF ApplyOrStartSteps, FinishSteps

\* The two ends of app_main.  Its last call was an attempt, or the device has no credentials.
LEMMA BootReady == ASSUME EventsFirst, TypeInv, SoloInv, MgrReady, Boot \/ BootCheck PROVE MgrReady'
<1>0. /\ cfg' = cfg /\ UNCHANGED <<drv, st>> /\ <<>> \in Seq(Labels) /\ Do("main", <<>>)
      /\ "main" \in Callers /\ "main" \in Tasks /\ TodoOK
  BY Calls, PortalAssumption, TasksKnown DEF Boot, BootCheck, store, mgr, TypeInv
<1>00. HasSsid' = HasSsid /\ NoStart(drv') = NoStart(drv)
  BY <1>0 DEF HasSsid
<1>1. CASE Boot
  <2>1. At("main", "boot") /\ drv'.evq = <<>>
    BY <1>0, <1>1 DEF Boot
  <2>2. NoStart(drv')
    BY <2>1 DEF NoStart
  <2>3. PICK p : Head(p) = "boot" /\ Moves("main", p, <<>> \o Tail(p))
    BY <1>0, <2>1, StepMoves
  <2>4. Label("main")' = "apply_or_start"
    <3>1. p = <<"boot", "apply_or_start">>
      BY <2>3 DEF Moves, Stage, LoneScan, OpeningScan, HttpdPrograms
    <3>2. <<>> \o Tail(p) = <<"apply_or_start">>
      BY <2>3, <3>1, NextLabel, Tails DEF Moves
    <3> QED BY <2>3, <3>2, SingleCall DEF Moves
  <2>5. ReadyFor("main", Label("main"))' /\ Label("main")' # "none"
    BY <2>4 DEF ReadyFor, InScan
  <2>6. \A u \in Callers \ {"main"} : todo'[u] = todo[u]
    BY <1>0, <2>1, OthersWait
  <2> QED BY <1>0, <2>1, <2>2, <2>5, <2>6, BusyReady
<1>2. CASE BootCheck
  <2>1. At("main", "boot_check")
    BY <1>2 DEF BootCheck
  <2>2. todo["main"] = <<"boot_check">> /\ Label("main") = "boot_check"
    BY <2>1, LastCheck DEF At, Label
  <2>3. todo'["main"] = <<>> /\ \A u \in Tasks \ {"main"} : todo'[u] = todo[u]
    BY <1>0, <2>1, <2>2, DoTyped, LastCall DEF At
  <2>4. Label("main")' = "none"
    BY <2>3 DEF Label
  <2>5. ReadyFor("main", Label("main"))'
    BY <2>4 DEF ReadyFor, InScan
  <2>6. ASSUME HasSsid PROVE AtEase'
    <3>1. drv.conf # Blank /\ st \notin {"PROVISIONING", "SCANNING"} /\ drv.sta = "connecting"
      BY <1>0, <2>2, <2>6 DEF MgrReady, ReadyFor
    <3>2. DownOK' /\ UpOK'
      BY <1>0, <3>1 DEF DownOK, UpOK
    <3> QED BY <1>0, <3>1, <3>2 DEF AtEase
  <2>7. \A u \in Callers \ {"main"} : todo'[u] = todo[u]
    BY <1>0, <2>1, OthersWait
  <2> QED BY <1>0, <1>00, <2>1, <2>5, <2>6, <2>7, BusyReady
<1> QED BY <1>1, <1>2

\* After a test: the device is as unconfigured as before, or a task waits to close the portal.
LEMMA ResultReady == ASSUME TypeInv, SoloInv, MgrReady, TestResult PROVE MgrReady'
<1>0. /\ TodoOK /\ "httpd" \in Callers /\ "httpd" \in Tasks /\ drv' = drv /\ At("httpd", "test_result")
      /\ <<>> \in Seq(Labels)
  BY TasksKnown, Calls DEF TestResult, TypeInv
<1>1. ~HasSsid
  <2>1. PICK p \in Seq(Labels) : Stage("httpd", p) /\ p # <<>> /\ Head(p) = "test_result"
    BY <1>0, RunsFrom
  <2> QED BY <2>1 DEF Stage, LoneScan, OpeningScan, HttpdPrograms
<1>2. CASE Do("httpd", <<>>) /\ UNCHANGED store
  <2>1. ~HasSsid'
    BY <1>1, <1>2 DEF store, HasSsid
  <2> QED BY <1>0, <1>2, <2>1, EasyStep
<1>3. ASSUME NEW f \in Finishers, Idle(f),
             todo' = [todo EXCEPT !["httpd"] = Tail(@), ![f] = <<"fin_delay", "fin">>]
      PROVE  MgrReady'
  <2>1. todo["httpd"] = <<"test_result">> /\ Tail(<<"test_result">>) = <<>>
    BY <1>0, HttpdHead DEF TypeInv
  <2>2. f # "httpd" /\ f \in Tasks /\ f \in Callers
    <3>1. todo["httpd"] # <<>>
      BY <2>1
    <3>2. f # "httpd"
      BY <1>3, <3>1 DEF Idle
    <3> QED BY <3>2, TasksKnown
  <2>3. /\ todo'["httpd"] = <<>> /\ todo'[f] = <<"fin_delay", "fin">>
        /\ \A u \in Callers \ {f, "httpd"} : todo'[u] = todo[u]
    BY <1>0, <1>3, <2>1, <2>2, TasksKnown DEF TodoOK
  <2>4. \A u \in Callers \ {"httpd"} : todo[u] = <<>>
    BY <1>0 DEF SoloInv, Idle, At
  <2>5. <<"fin_delay", "fin">> # <<>> /\ Head(<<"fin_delay", "fin">>) = "fin_delay"
    OBVIOUS
  <2>6. Label(f)' = "fin_delay" /\ \A u \in Callers \ {f} : Label(u)' = "none"
    BY <2>3, <2>4, <2>5 DEF Label
  <2>7. NoStart(drv')
    <3>1. Label("main") # "boot"
      BY <2>1, <2>4, PortalAssumption, SingleCall DEF Label
    <3> QED BY <1>0, <3>1 DEF MgrReady
  <2>8. \A u \in Callers : ReadyFor(u, Label(u))'
    BY <2>6 DEF ReadyFor, InScan
  <2>9. ~Idle(f)'
    BY <2>3, <2>5 DEF Idle
  <2> QED BY <2>2, <2>7, <2>8, <2>9 DEF MgrReady, NoStart
<1> QED BY <1>2, <1>3 DEF TestResult

\* The user's inputs, on a device at rest.
LEMMA InputReady ==
    ASSUME Patient, TypeInv, SoloInv, MgrReady, Edit \/ ScanCmd \/ ConfirmReset \/ PostForm
    PROVE  MgrReady'
<1>0. /\ AtRest /\ UNCHANGED <<drv, st>> /\ TodoOK /\ LocOK
      /\ "tud" \in Callers /\ "btn" \in Callers /\ "httpd" \in Callers
  BY PortalAssumption DEF Edit, ScanCmd, ConfirmReset, PostForm, Submit, Input, mgr, TypeInv
<1>1. \A u \in Callers : todo[u] = <<>>
  BY <1>0, AtRestCalm
<1>2. NoStart(drv')
  BY <1>0, EmptySeq DEF AtRest, NoStart
\* The task that takes the input is the busy one.
<1>3. ASSUME NEW t \in Callers, NEW p \in Seq(Labels), p # <<>>, Start(t, p),
             HasSsid' => ReadyFor(t, Head(p))'
      PROVE  MgrReady'
  <2>1. t \in Tasks /\ todo'[t] = p /\ \A u \in Tasks \ {t} : todo'[u] = todo[u]
    BY <1>0, <1>3, StartTyped, TasksKnown
  <2>2. Label(t)' = Head(p) /\ \A u \in Callers \ {t} : Label(u)' = "none"
    BY <1>1, <1>3, <2>1, TasksKnown DEF Label
  <2>3. \A u \in Callers \ {t} : ReadyFor(u, Label(u))'
    BY <2>2 DEF ReadyFor, InScan
  <2>4. HasSsid' => ReadyFor(t, Label(t))'
    BY <1>3, <2>2 DEF ReadyFor
  <2>5. ~Idle(t)'
    BY <1>3, <2>1 DEF Idle
  <2> QED BY <1>2, <2>3, <2>4, <2>5 DEF MgrReady, NoStart
<1>4. CASE Edit \/ ConfirmReset
  <2>1. PICK t \in {"tud", "btn"} : Start(t, ApplyOrStart)
    BY <1>4 DEF Edit, ConfirmReset
  <2>2. PICK p : p = <<"apply_or_start">>
    OBVIOUS
  <2>3. p \in Seq(Labels) /\ p # <<>> /\ Head(p) = "apply_or_start" /\ Start(t, p)
    BY <2>1, <2>2, Calls, SingleCall DEF ApplyOrStart
  <2>4. ReadyFor(t, Head(p))'
    BY <2>3 DEF ReadyFor, InScan
  <2> QED BY <1>0, <1>3, <2>3, <2>4
<1>5. CASE ScanCmd
  <2>1. Start("tud", Scan) /\ SetLoc("tud", "re", ~active) /\ UNCHANGED cfg
    BY <1>5 DEF ScanCmd, store
  <2>2. PICK p : p = <<"scan", "scan_disconnect", "scan_start">>
    OBVIOUS
  <2>3. p \in Seq(Labels) /\ p # <<>> /\ Head(p) = "scan" /\ Start("tud", p)
    <3>1. /\ <<"scan", "scan_disconnect", "scan_start">> # <<>>
          /\ Head(<<"scan", "scan_disconnect", "scan_start">>) = "scan"
      OBVIOUS
    <3> QED BY <2>1, <2>2, <3>1, Calls DEF Scan
  <2>4. ASSUME HasSsid PROVE ReadyFor("tud", Head(p))'
    <3>1. ~active /\ \A u \in Callers : Idle(u)
      BY <1>0, <1>1, <2>4, AtRestCalm DEF Whole, Shut, Idle
    <3>2. AtEase
      BY <2>4, <3>1 DEF MgrReady
    <3>3. loc'["tud"].re
      BY <1>0, <2>1, <3>1, TasksKnown DEF SetLoc, LocOK, Locals
    <3> QED BY <1>0, <2>3, <3>2, <3>3 DEF AtEase, ReadyFor, InScan
  <2>5. HasSsid' = HasSsid
    BY <2>1 DEF HasSsid
  <2> QED BY <1>0, <1>3, <2>3, <2>4, <2>5
<1>6. CASE PostForm
  <2>1. /\ server /\ UNCHANGED cfg
        /\ Start("httpd", Test \o <<"test_result">>)
    BY <1>6 DEF PostForm, Submit, store
  <2>2. PICK p : p = Test \o <<"test_result">>
    OBVIOUS
  <2>3. p \in Seq(Labels)
    <3>1. "test" \in Labels /\ "test_drain" \in Labels /\ "test_result" \in Labels
      BY DEF Labels
    <3>2. PICK u : u = <<"test", "test_drain">>
      OBVIOUS
    <3>3. PICK v : v = <<"test_result">>
      OBVIOUS
    <3>4. u \in Seq(Labels) /\ v \in Seq(Labels)
      BY <3>1, <3>2, <3>3, Calls
    <3>5. u \o v \in Seq(Labels)
      BY <3>4, Calls
    <3> QED BY <2>2, <3>2, <3>3, <3>5 DEF Test
  <2>4. p # <<>>
    <3>1. "test" \in HttpdLabels /\ "test_drain" \in HttpdLabels /\ "test_result" \in HttpdLabels
      BY DEF HttpdLabels
    <3>2. <<"test", "test_drain">> \o <<"test_result">> = <<"test", "test_drain", "test_result">>
      BY <3>1, ThreeLabels
    <3>3. <<"test", "test_drain", "test_result">> # <<>>
      OBVIOUS
    <3> QED BY <2>2, <3>2, <3>3 DEF Test
  <2>5. ~HasSsid'
    <3>1. ~HasSsid
      BY <1>0, <2>1, AtRestCalm DEF Whole, Shut
    <3> QED BY <2>1, <3>1 DEF HasSsid
  <2> QED BY <1>0, <1>3, <2>1, <2>2, <2>3, <2>4, <2>5
<1> QED BY <1>4, <1>5, <1>6

\* The event handler keeps what the callers rely on, and passes the news on.
LEMMA EventReady ==
    ASSUME TypeInv, SoloInv, HonestInv, MgrReady, OnWifiEvent
    PROVE  MgrReady'
<1>1. /\ UNCHANGED <<cfg, loc>> /\ \A t \in Tasks \ {"sys_evt"} : todo'[t] = todo[t]
      /\ drv'.sta = drv.sta \/ (drv.sta = "down" /\ drv'.sta = "connecting")
      /\ drv'.conf = drv.conf
      /\ NoStart(drv) => NoStart(drv')
      /\ st' \notin {"PROVISIONING", "SCANNING"} \/ st' = st
  BY HandlerMoves
<1>2. HasSsid' = HasSsid
  BY <1>1 DEF HasSsid
<1>3. \A u \in Callers : todo'[u] = todo[u]
  BY <1>1, TasksKnown
<1>4. \A u \in Callers : Label(u)' = Label(u)
  BY <1>3 DEF Label
<1>5. \A u \in Callers : ReadyFor(u, Label(u)) => ReadyFor(u, Label(u))'
  BY <1>1, <1>4 DEF ReadyFor, InScan
<1>6. ASSUME HasSsid, \A u \in Callers : Idle(u) PROVE AtEase'
  <2>1. AtEase /\ ~suppress
    BY <1>6 DEF MgrReady, SoloInv, Whole, Shut
  <2>2. NoStart(drv)
    BY <1>6, PortalAssumption DEF MgrReady, Label, Idle
  <2>3. DownOK' /\ UpOK'
    BY <1>6, <2>1, <2>2, HandlerNews DEF AtEase
  <2> QED BY <1>1, <2>1, <2>3 DEF AtEase
<1>7. (\A u \in Callers : Idle(u)') => \A u \in Callers : Idle(u)
  BY <1>3 DEF Idle
<1>8. Label("main")' = Label("main")
  BY <1>4, PortalAssumption
<1> QED BY <1>1, <1>2, <1>5, <1>6, <1>7, <1>8 DEF MgrReady, NoStart

\* The air finds every caller idle or asleep.
LEMMA AirReady ==
    ASSUME Prompt, TypeInv, SoloInv, HonestInv, MgrReady, Air
    PROVE  MgrReady'
<1>1. /\ UNCHANGED <<cfg, st, todo, loc>> /\ drv'.conf = drv.conf
      /\ NoStart(drv) => NoStart(drv')
      /\ DownOK => DownOK'
      /\ UpOK => UpOK'
  BY AirNews DEF Air
<1>2. HasSsid' = HasSsid
  BY <1>1 DEF HasSsid
<1>3. \A u \in Callers : Label(u)' = Label(u) /\ Idle(u)' = Idle(u)
  BY <1>1 DEF Label, Idle
<1>4. \A u \in Callers :
        Label(u) \in {"none", "test_drain", "fin_delay", "scan_wait", "test_wait", "stop_httpd"}
  BY TasksKnown DEF Air, AirAssociates, AirTrouble, AirScanned, OutsideMayAct, Asleep, Idle, Label
<1>5. ASSUME NEW u \in Callers, ReadyFor(u, Label(u)) PROVE ReadyFor(u, Label(u))'
  <2>1. Label(u) = "scan_wait" \/ Label(u) \notin InScan \cup {"scan"}
    BY <1>4 DEF InScan
  <2>2. Label(u) \notin {"apply_check", "apply_conf", "apply_connect", "boot_check", "scan"}
    BY <1>4
  <2> QED BY <1>1, <1>3, <1>5, <2>1, <2>2 DEF ReadyFor, InScan
<1>6. AtEase => AtEase'
  BY <1>1 DEF AtEase
<1>7. Label("main")' = Label("main")
  BY <1>3, PortalAssumption
<1> QED BY <1>1, <1>2, <1>3, <1>5, <1>6, <1>7 DEF MgrReady, NoStart

\* At boot main has everything still to do.
LEMMA ReadyInit == ASSUME Init PROVE MgrReady
<1>1. "main" \in Callers /\ "main" \in Tasks /\ Callers \subseteq Tasks
  BY TasksKnown, PortalAssumption
<1>2. todo = [t \in Tasks |-> IF t = "main" THEN BootProgram ELSE <<>>]
  BY DEF Init, MgrInit
<1>3. BootProgram # <<>> /\ Head(BootProgram) = "boot"
  <2>1. "boot" \in Labels /\ "apply_or_start" \in Labels /\ "boot_check" \in Labels
    BY DEF Labels
  <2>2. PICK p : p = <<"boot", "apply_or_start">>
    OBVIOUS
  <2>3. PICK s : s = <<"boot_check">>
    OBVIOUS
  <2>4. <<"boot">> \o <<"apply_or_start">> = p
    BY <2>1, <2>2, TwoLabels
  <2>5. BootProgram = p \o s
    BY <2>3, <2>4 DEF BootProgram, ApplyOrStart
  <2>6. <<"boot", "apply_or_start">> # <<>> /\ Head(<<"boot", "apply_or_start">>) = "boot"
    OBVIOUS
  <2>7. p \in Seq(Labels) /\ s \in Seq(Labels) /\ p # <<>> /\ Head(p) = "boot"
    BY <2>1, <2>2, <2>3, <2>6, Calls
  <2> QED BY <2>5, <2>7, HeadTailConcat
<1>4. Label("main") = "boot" /\ ~Idle("main") /\ \A u \in Callers \ {"main"} : Label(u) = "none"
  BY <1>1, <1>2, <1>3 DEF Label, Idle
<1>5. \A u \in Callers : ReadyFor(u, Label(u))
  BY <1>4 DEF ReadyFor, InScan
<1> QED BY <1>1, <1>4, <1>5 DEF MgrReady

\* After a panic nothing runs.
LEMMA PanicStays == panic /\ [Next]_allVars => panic'
<1> SUFFICES ASSUME panic, [Next]_allVars PROVE panic'
  OBVIOUS
<1>1. ~(Boot \/ BootCheck \/ OnWifiEvent \/ Air)
  BY DEF Boot, BootCheck, OnWifiEvent, OnStart, OnConnected, Arm, ReportOk, OnDisconnected, Retry, EvConnect,
         OnScanDone, Air, AirAssociates, AirTrouble, AirScanned, NextEvent, OutsideMayAct, At
<1>2. ASSUME NEW t \in Callers PROVE ~CallsOf(t)
  BY DEF CallsOf, ApplySteps, ApplyDisconnect, ApplyCheck, ApplyConf, ApplyConnect,
         ScanSteps, ScanEnter, ScanDisconnect, ScanStart, ScanWait, ScanExit,
         TestSteps, TestDisconnect, TestConf, TestConnect, TestWait,
         OpenSteps, OpenBegin, OpenSoftap, OpenHttpd, OpenEnd,
         CloseSteps, CloseBegin, CloseHttpd, CloseRadio, CloseGate,
         ApplyOrStartSteps, ReadCredentials, ReadActive, FinishSteps, FinishDelay, Finish, At
<1>3. ~(TestResult \/ Edit \/ ScanCmd \/ ConfirmReset \/ PostForm)
  BY DEF TestResult, Edit, ScanCmd, ConfirmReset, PostForm, Input, OutsideMayAct, At
<1>4. UNCHANGED allVars
  BY <1>1, <1>2, <1>3 DEF Next, Rest
<1> QED BY <1>4 DEF allVars, vars, tasks

LEMMA BridgeStep ==
    ASSUME Patient, Prompt, EventsFirst
    PROVE  TypeInv /\ SoloInv /\ BridgeInv /\ [Next]_allVars => BridgeInv'
<1> SUFFICES ASSUME TypeInv, SoloInv, BridgeInv, [Next]_allVars PROVE panic' \/ MgrReady'
  BY HonestStep DEF BridgeInv
<1> USE DEF BridgeInv
<1>1. CASE panic
  BY <1>1, PanicStays
<1>2. CASE MgrReady
  <2>1. CASE Boot \/ BootCheck
    BY <1>2, <2>1, BootReady
  <2>2. CASE OnWifiEvent \/ Air
    BY <1>2, <2>2, EventReady, AirReady
  <2>3. ASSUME NEW t \in Callers, CallsOf(t) PROVE panic' \/ MgrReady'
    BY <1>2, <2>3, ApplyReady, ScanReady, TestReady, OpenReady, CloseReady, ChoiceReady DEF CallsOf
  <2>4. CASE TestResult
    BY <1>2, <2>4, ResultReady
  <2>5. CASE Edit \/ ScanCmd \/ ConfirmReset \/ PostForm
    BY <1>2, <2>5, InputReady
  <2>6. CASE UNCHANGED allVars
    <3>1. UNCHANGED <<cfg, drv, st, link, todo, loc>>
      BY <2>6 DEF allVars, vars, store, mgr, tasks
    <3>2. UNCHANGED <<HasSsid, DownOK, UpOK>> /\ \A u : Label(u)' = Label(u) /\ Idle(u)' = Idle(u)
      BY <3>1 DEF HasSsid, DownOK, UpOK, Leaving, UpNews, Label, Idle
    <3>3. \A u \in Callers : ReadyFor(u, Label(u)) => ReadyFor(u, Label(u))'
      BY <3>1, <3>2 DEF ReadyFor
    <3> QED BY <1>2, <3>1, <3>2, <3>3 DEF MgrReady, AtEase, NoStart
  <2> QED BY <2>1, <2>2, <2>3, <2>4, <2>5, <2>6 DEF Next, Rest
<1> QED BY <1>1, <1>2

LEMMA BridgeKept == ASSUME Patient, Prompt, EventsFirst PROVE Spec => [](TypeInv /\ SoloInv /\ BridgeInv)
<1>1. TypeInv /\ SoloInv /\ [Next]_allVars => SoloInv'
  BY SoloStep
<1>2. TypeInv /\ SoloInv /\ BridgeInv /\ [Next]_allVars => BridgeInv'
  BY BridgeStep
<1>3. Init => BridgeInv
  BY HonestInit, ReadyInit DEF BridgeInv
<1> QED BY TypeInit, TypeStep, SoloInit, <1>1, <1>2, <1>3, PTL DEF Spec

\* What the invariant says of a device at rest.
LEMMA SettledNews ==
    ASSUME TypeInv, SoloInv, BridgeInv, Settled
    PROVE  /\ Whole /\ (link => drv.sta = "connected")
           /\ HasSsid => \/ drv.sta = "connected" /\ st = "CONNECTED" /\ link
                         \/ drv.sta = "down" /\ st = "BAD_AUTH" /\ ~link
<1>1. /\ \A t \in Callers : Idle(t)
      /\ todo["sys_evt"] = <<>> /\ drv.evq = <<>> /\ drv.sta \in {"down", "connected"} /\ ~panic /\ Whole
      /\ link \in BOOLEAN
  BY AtRestCalm DEF Settled, AtRest, Idle, TypeInv, PlainOK, WD!Drivers
<1>2. ~Leaving(drv) /\ ~UpNews(drv)
  BY <1>1, EmptySeq DEF Leaving, UpNews
<1>3. link => drv.sta = "connected"
  BY <1>2 DEF BridgeInv, HonestInv
<1>4. <<>> # <<"ev_retry">> /\ <<>> # <<"ev_connect">> /\ <<>> # <<"ev_arm", "ev_ok">> /\ <<>> # <<"ev_ok">>
  OBVIOUS
<1>5. HasSsid => DownOK /\ UpOK
  BY <1>1 DEF BridgeInv, MgrReady, AtEase
<1> QED BY <1>1, <1>2, <1>3, <1>4, <1>5 DEF DownOK, UpOK

\* With one input at a time, an outside that is slower than the tasks between two blocking calls, and
\* STA_START handled before app_main's apply (which the priorities make likely and no code demands), a
\* configured device at rest is associated, labelled so, with the link up, or knows the passphrase to be
\* wrong: after boot, a scan, a reset or a portal session, and however often associations fail and are lost.
THEOREM ConfiguredDeviceBridges == ASSUME Patient, Prompt, EventsFirst PROVE Spec => []BridgesWhenConfigured
<1>1. TypeInv /\ SoloInv /\ BridgeInv => BridgesWhenConfigured
  BY SettledNews DEF BridgesWhenConfigured
<1> QED BY BridgeKept, <1>1, PTL

\* And, under the same assumptions, what the user reads off the LCD and the LED is then true: CONNECTED and green exactly when the host's
\* link is up, the setup page exactly while a portal serves, BAD AUTH only on a device that has stopped.
THEOREM ScreenTellsTheTruth == ASSUME Patient, Prompt, EventsFirst PROVE Spec => []HudTruthful
<1>1. ASSUME TypeInv, SoloInv, BridgeInv, Settled
      PROVE  /\ (Lcd = "CONNECTED") = link
             /\ ~SetupShown => (Led = "green") = link
             /\ (Lcd = "SETUP AP") = Serving
             /\ (Lcd = "BAD AUTH") => drv.sta = "down" /\ HasSsid
  <2>1. Whole /\ link \in BOOLEAN
    BY <1>1, SettledNews DEF TypeInv, PlainOK
  \* The portal serves: the setup page.
  <2>2. CASE Opened /\ phase = "PORTAL" /\ ~HasSsid
    <3>1. ~link /\ Serving
      BY <1>1, <2>1, <2>2 DEF SoloInv, Opened, Serving
    <3>2. SetupShown /\ Lcd = "SETUP AP"
      BY <2>2 DEF Lcd, SetupShown, SetupLine
    <3>3. Lcd # "CONNECTED" /\ Lcd # "BAD AUTH"
      BY <3>2
    <3>4. (Lcd = "CONNECTED") = link
      <4>1. link = FALSE
        BY <2>1, <3>1
      <4>2. (Lcd = "CONNECTED") = FALSE
        BY <3>3, Zenon
      <4> QED BY <4>1, <4>2, Zenon
    <3>5. (Lcd = "SETUP AP") = Serving
      <4>1. Serving = TRUE
        BY <3>1, Zenon DEF Serving
      <4>2. (Lcd = "SETUP AP") = TRUE
        BY <3>2, Zenon
      <4> QED BY <4>1, <4>2, Zenon
    <3> QED BY <3>2, <3>3, <3>4, <3>5, Zenon
  \* The link page: the label is the driver's state.
  <2>3. CASE Shut /\ HasSsid
    <3>1. ~SetupShown /\ ~Serving
      BY <2>3 DEF Shut, SetupShown, Serving
    <3>2. Serving = FALSE
      BY <3>1, Zenon DEF Serving
    <3>3. CASE drv.sta = "connected" /\ st = "CONNECTED" /\ link
      <4>1. Lcd = "CONNECTED" /\ Led = "green"
        BY <3>1, <3>3 DEF Lcd, LinkLabel, Led
      <4>2. Lcd # "SETUP AP" /\ Lcd # "BAD AUTH"
        BY <4>1
      <4>3. link = TRUE
        BY <2>1, <3>3
      <4>4. (Lcd = "CONNECTED") = TRUE
        BY <4>1, Zenon
      <4>5. (Led = "green") = TRUE
        BY <4>1, Zenon
      <4>6. (Lcd = "SETUP AP") = FALSE
        BY <4>2, Zenon
      <4> QED BY <3>2, <4>2, <4>3, <4>4, <4>5, <4>6, Zenon
    <3>4. CASE drv.sta = "down" /\ st = "BAD_AUTH" /\ ~link
      <4>1. Lcd = "BAD AUTH" /\ Led = "red"
        BY <3>1, <3>4 DEF Lcd, LinkLabel, Led
      <4>2. Lcd # "SETUP AP" /\ Lcd # "CONNECTED" /\ Led # "green"
        BY <4>1
      <4>3. link = FALSE
        BY <2>1, <3>4
      <4>4. (Lcd = "CONNECTED") = FALSE
        BY <4>2, Zenon
      <4>5. (Led = "green") = FALSE
        BY <4>2, Zenon
      <4>6. (Lcd = "SETUP AP") = FALSE
        BY <4>2, Zenon
      <4> QED BY <2>3, <3>2, <3>4, <4>3, <4>4, <4>5, <4>6, Zenon
    <3> QED BY <1>1, <2>3, <3>3, <3>4, SettledNews
  <2> QED BY <2>1, <2>2, <2>3 DEF Whole
<1>2. TypeInv /\ SoloInv /\ BridgeInv => HudTruthful
  BY <1>1 DEF HudTruthful
<1> QED BY BridgeKept, <1>2, PTL
================================================================================
