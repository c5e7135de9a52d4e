-------------------------------- MODULE WifiMgr --------------------------------
(***************************************************************************)
(* The Wi-Fi manager (wifi_mgr.c): the event handler that runs in the      *)
(* event-loop task, and the blocking calls other tasks make, apply, scan   *)
(* and test_connect.  None of the state they share is locked.              *)
(*                                                                         *)
(* A task is a program: todo[t] is the sequence of labels it still has to  *)
(* execute, and calling a function puts the labels of its body in front.   *)
(* A label is a stretch of code up to the next call into the driver, or to *)
(* the next point where another task's step makes a difference; other      *)
(* tasks run between any two labels.  The bridge appears as the link state *)
(* that bridge_set_wifi_up announces (BridgeLink has its inside).          *)
(***************************************************************************)
EXTENDS Integers, Sequences, FiniteSets

CONSTANTS
    Names, Keys, Blank, NoBlob, BadBlob, ProfileMax, SeedSsid, SeedPass,  \* as in ConfigStore
    Callers,        \* tasks that call into the manager
    MaxTrouble,     \* bound on failed attempts and lost associations
    MaxCmds,        \* bound on console commands
    Prompt,         \* TRUE: air, user and clocks are slower than a task between two blocking calls
    EventsFirst     \* TRUE: the event-loop task, whose priority is higher, has handled STA_START before app_main goes on

ASSUME MgrAssumption ==
    /\ "sys_evt" \notin Callers
    /\ MaxTrouble \in Nat /\ MaxCmds \in Nat
    /\ Prompt \in BOOLEAN /\ EventsFirst \in BOOLEAN

VARIABLES
    cfg, nvs,   \* the configuration store (module ConfigStore)
    drv,        \* the driver (module WifiDriver)
    st,         \* s_status.state
    suppress,   \* s_suppress_bridge
    bits,       \* s_wifi_events
    link,       \* bridge_set_wifi_up: is the NCM link up
    todo,       \* task -> labels still to execute
    loc,        \* task -> the locals of its current call
    panic,      \* an ESP_ERROR_CHECK failed: abort and restart
    trouble,    \* failed attempts and lost associations so far
    cmds        \* console commands so far

store == <<cfg, nvs>>
mgr == <<drv, st, suppress, bits, link>>
tasks == <<todo, loc, panic>>
bounds == <<trouble, cmds>>
vars == <<store, mgr, tasks, bounds>>

CS == INSTANCE ConfigStore
WD == INSTANCE WifiDriver WITH Networks <- Names

ASSUME StoreFits == CS!StoreAssumption

States == {"IDLE", "CONNECTING", "CONNECTED", "DISCONNECTED", "NO_AP", "BAD_AUTH", "SCANNING", "PROVISIONING"}

Tasks == Callers \cup {"sys_evt"}

Locals == [ptr : 0..CS!ActiveNone, prev : States, re : BOOLEAN, net : Names \cup {Blank},
           ret : {"ok", "fail", "timeout"}]

NoLocals == [ptr |-> CS!ActiveNone, prev |-> "IDLE", re |-> FALSE, net |-> Blank, ret |-> "ok"]

HasSsid == CS!ActiveSsid(cfg) # Blank

----------------------------------------------------------------------------
(* Running a program. *)

\* After a panic nothing runs.
At(t, label) == ~panic /\ todo[t] # <<>> /\ Head(todo[t]) = label

\* The label at the head is done; the labels of calls it makes come next.
Do(t, calls) == todo' = [todo EXCEPT ![t] = calls \o Tail(@)]

Idle(t) == todo[t] = <<>>

Start(t, program) == Idle(t) /\ todo' = [todo EXCEPT ![t] = program]

SetLoc(t, f, v) == loc' = [loc EXCEPT ![t][f] = v]

\* Is a task asleep at its current label, until an event, a clock or another task lets it go on.
Asleep(t) ==
    LET label == Head(todo[t]) IN
    \/ label \in {"test_drain", "fin_delay"}
    \/ label = "scan_wait" /\ "scan" \notin bits
    \/ label = "test_wait" /\ bits \cap {"ok", "fail"} = {}
    \/ label = "stop_httpd" /\ ~Idle("httpd")

\* With Prompt, the outside (air, user, clocks) acts only while every task is idle or asleep.
OutsideMayAct == ~panic /\ (Prompt => \A t \in Tasks : ~Idle(t) => Asleep(t))

----------------------------------------------------------------------------
(* on_wifi_event, in the event-loop task: one event at a time. *)

NextEvent(e) == ~panic /\ Idle("sys_evt") /\ drv.evq # <<>> /\ Head(drv.evq) = e

Popped == [drv EXCEPT !.evq = Tail(@)]

OnStart ==
    /\ NextEvent("start")
    /\ drv' = Popped
    /\ IF st = "PROVISIONING"
       THEN UNCHANGED <<st, todo>>
       ELSE IF HasSsid
            THEN st' = "CONNECTING" /\ Start("sys_evt", <<"ev_connect">>)
            ELSE st' = "IDLE" /\ UNCHANGED todo
    /\ UNCHANGED <<store, suppress, bits, link, loc, panic, bounds>>

\* Seeded fault: the bridge is armed whether or not it is suppressed.
OnConnectedArms ==
    /\ NextEvent("connected")
    /\ drv' = Popped
    /\ st' = IF st = "PROVISIONING" THEN st ELSE "CONNECTED"
    /\ Start("sys_evt", <<"ev_arm", "ev_ok">>)
    /\ UNCHANGED <<store, suppress, bits, link, loc, panic, bounds>>

\* The label, then the test of s_suppress_bridge; the bridge is armed one step later.
OnConnected ==
    /\ NextEvent("connected")
    /\ drv' = Popped
    /\ st' = IF st = "PROVISIONING" THEN st ELSE "CONNECTED"
    /\ Start("sys_evt", IF suppress THEN <<"ev_ok">> ELSE <<"ev_arm", "ev_ok">>)
    /\ UNCHANGED <<store, suppress, bits, link, loc, panic, bounds>>

Arm ==
    /\ At("sys_evt", "ev_arm")
    /\ link' = TRUE
    /\ Do("sys_evt", <<>>)
    /\ UNCHANGED <<store, drv, st, suppress, bits, loc, panic, bounds>>

ReportOk ==
    /\ At("sys_evt", "ev_ok")
    /\ bits' = bits \cup {"ok"}
    /\ Do("sys_evt", <<>>)
    /\ UNCHANGED <<store, drv, st, suppress, link, loc, panic, bounds>>

\* Seeded fault: the reason is shown as it is.
ReasonAsLabel(reason) == IF st = "PROVISIONING" THEN st ELSE reason

\* Only the label of the last branch respects a scan in progress.
DisconnectLabel(reason) ==
    IF st = "PROVISIONING" THEN st
    ELSE CASE reason = "no_ap" -> "NO_AP"
           [] reason = "auth" -> "BAD_AUTH"
           [] OTHER -> IF st = "SCANNING" THEN st ELSE "DISCONNECTED"

\* Seeded fault: the link stays up.
OnDisconnectedKeepsLink ==
    /\ \E r \in WD!Reasons : NextEvent(r) /\ st' = DisconnectLabel(r)
    /\ drv' = Popped
    /\ bits' = bits \cup {"fail"}
    /\ Start("sys_evt", <<"ev_retry">>)
    /\ UNCHANGED <<store, suppress, link, loc, panic, bounds>>

OnDisconnected ==
    /\ \E r \in WD!Reasons :
         /\ NextEvent(r)
         /\ st' = DisconnectLabel(r)
    /\ drv' = Popped
    /\ link' = (link /\ suppress)
    /\ bits' = bits \cup {"fail"}
    /\ Start("sys_evt", <<"ev_retry">>)
    /\ UNCHANGED <<store, suppress, loc, panic, bounds>>

\* Seeded fault: a network that is out of range is not tried again.
RetryInRange ==
    /\ At("sys_evt", "ev_retry")
    /\ IF ~suppress /\ HasSsid /\ st \notin {"BAD_AUTH", "NO_AP", "PROVISIONING", "SCANNING"}
       THEN st' = "CONNECTING" /\ Do("sys_evt", <<"ev_connect">>)
       ELSE Do("sys_evt", <<>>) /\ UNCHANGED st
    /\ UNCHANGED <<store, drv, suppress, bits, link, loc, panic, bounds>>

Retry ==
    /\ At("sys_evt", "ev_retry")
    /\ IF ~suppress /\ HasSsid /\ st \notin {"BAD_AUTH", "PROVISIONING", "SCANNING"}
       THEN st' = "CONNECTING" /\ Do("sys_evt", <<"ev_connect">>)
       ELSE Do("sys_evt", <<>>) /\ UNCHANGED st
    /\ UNCHANGED <<store, drv, suppress, bits, link, loc, panic, bounds>>

EvConnect ==
    /\ At("sys_evt", "ev_connect")
    /\ drv' = WD!Connect(drv)
    /\ Do("sys_evt", <<>>)
    /\ UNCHANGED <<store, st, suppress, bits, link, loc, panic, bounds>>

OnScanDone ==
    /\ NextEvent("scan_done")
    /\ drv' = Popped
    /\ bits' = bits \cup {"scan"}
    /\ UNCHANGED <<store, st, suppress, link, tasks, bounds>>

OnWifiEvent ==
    \/ OnStart \/ OnConnected \/ Arm \/ ReportOk
    \/ OnDisconnected \/ Retry \/ EvConnect \/ OnScanDone

----------------------------------------------------------------------------
(* wifi_mgr_apply.  The SSID is a pointer: which slot is fixed at entry, what
   the slot holds is read when it is copied. *)

Apply == <<"apply", "apply_check">>

ApplyDisconnect(t) ==
    /\ At(t, "apply")
    /\ SetLoc(t, "ptr", IF CS!HasActive(cfg) THEN cfg.active ELSE CS!ActiveNone)
    /\ drv' = WD!Disconnect(drv)
    /\ Do(t, <<>>)
    /\ UNCHANGED <<store, st, suppress, bits, link, panic, bounds>>

Pointee(t) == IF loc[t].ptr = CS!ActiveNone THEN Blank ELSE cfg.profiles[loc[t].ptr].ssid

ApplyCheck(t) ==
    /\ At(t, "apply_check")
    /\ link' = (link /\ suppress)
    /\ IF Pointee(t) = Blank
       THEN /\ st' = "IDLE"
            /\ loc' = [loc EXCEPT ![t].ptr = CS!ActiveNone, ![t].ret = "ok"]
            /\ Do(t, <<>>)
       ELSE /\ Do(t, <<"apply_conf", "apply_connect">>)
            /\ UNCHANGED <<st, loc>>
    /\ UNCHANGED <<store, drv, suppress, bits, panic, bounds>>

\* Both driver calls are under ESP_ERROR_CHECK.
ApplyConf(t) ==
    /\ At(t, "apply_conf")
    /\ SetLoc(t, "ptr", CS!ActiveNone)
    /\ \E ans \in WD!SetConfigAnswers(drv) :
         IF ans = "refused"
         THEN panic' = TRUE /\ UNCHANGED <<drv, st>>
         ELSE /\ drv' = WD!SetConfig(WD!SetMode(drv, "STA"), Pointee(t))
              /\ st' = "CONNECTING"
              /\ UNCHANGED panic
    /\ Do(t, <<>>)
    /\ UNCHANGED <<store, suppress, bits, link, bounds>>

\* Seeded fault: the attempt is left to the event handler.
ApplyWithoutConnect(t) ==
    /\ At(t, "apply_connect")
    /\ SetLoc(t, "ret", "ok")
    /\ Do(t, <<>>)
    /\ UNCHANGED <<store, mgr, panic, bounds>>

ApplyConnect(t) ==
    /\ At(t, "apply_connect")
    /\ SetLoc(t, "ret", IF WD!ConnectOk(drv) THEN "ok" ELSE "fail")
    /\ drv' = WD!Connect(drv)
    /\ Do(t, <<>>)
    /\ UNCHANGED <<store, st, suppress, bits, link, panic, bounds>>

ApplySteps(t) == ApplyDisconnect(t) \/ ApplyCheck(t) \/ ApplyConf(t) \/ ApplyConnect(t)

----------------------------------------------------------------------------
(* wifi_mgr_scan.  loc.re is its reassociate argument, set by the caller; prev
   is the label it saw at entry and writes back at every exit. *)

Scan == <<"scan", "scan_disconnect", "scan_start">>

ScanEnter(t) ==
    /\ At(t, "scan")
    /\ SetLoc(t, "prev", st)
    /\ st' = "SCANNING"
    /\ link' = (link /\ suppress)
    /\ Do(t, <<>>)
    /\ UNCHANGED <<store, drv, suppress, bits, panic, bounds>>

ScanDisconnect(t) ==
    /\ At(t, "scan_disconnect")
    /\ drv' = WD!Disconnect(drv)
    /\ Do(t, <<>>)
    /\ UNCHANGED <<store, st, suppress, bits, link, loc, panic, bounds>>

ScanStart(t) ==
    /\ At(t, "scan_start")
    /\ bits' = bits \ {"scan"}
    /\ IF WD!ScanStartOk(drv)
       THEN drv' = WD!ScanStart(drv) /\ Do(t, <<"scan_wait">>)
       ELSE Do(t, <<"scan_exit">>) /\ UNCHANGED drv
    /\ UNCHANGED <<store, st, suppress, link, loc, panic, bounds>>

\* The bit arrives, or 15 s pass without it and the scan is stopped.
ScanWait(t) ==
    /\ At(t, "scan_wait")
    /\ \/ "scan" \in bits /\ bits' = bits \ {"scan"} /\ UNCHANGED drv
       \/ "scan" \notin bits /\ OutsideMayAct /\ drv' = WD!ScanStop(drv) /\ UNCHANGED bits
    /\ Do(t, <<"scan_exit">>)
    /\ UNCHANGED <<store, st, suppress, link, loc, panic, bounds>>

\* Seeded fault: the scan does not re-associate.
ScanExitIdle(t) ==
    /\ At(t, "scan_exit")
    /\ st' = loc[t].prev
    /\ loc' = [loc EXCEPT ![t].prev = "IDLE", ![t].re = FALSE]
    /\ Do(t, <<>>)
    /\ UNCHANGED <<store, drv, suppress, bits, link, panic, bounds>>

ScanExit(t) ==
    /\ At(t, "scan_exit")
    /\ st' = loc[t].prev
    /\ loc' = [loc EXCEPT ![t].prev = "IDLE", ![t].re = FALSE]
    /\ Do(t, IF loc[t].re THEN Apply ELSE <<>>)
    /\ UNCHANGED <<store, drv, suppress, bits, link, panic, bounds>>

ScanSteps(t) == ScanEnter(t) \/ ScanDisconnect(t) \/ ScanStart(t) \/ ScanWait(t) \/ ScanExit(t)

----------------------------------------------------------------------------
(* wifi_mgr_test_connect of loc.net. *)

Test == <<"test", "test_drain">>

TestDisconnect(t) ==
    /\ At(t, "test")
    /\ drv' = WD!Disconnect(drv)
    /\ Do(t, <<>>)
    /\ UNCHANGED <<store, st, suppress, bits, link, loc, panic, bounds>>

\* The 150 ms sleep is long enough for the event loop to empty its queue.
TestConf(t) ==
    /\ At(t, "test_drain")
    /\ drv.evq = <<>> /\ Idle("sys_evt")
    /\ bits' = bits \ {"ok", "fail"}
    /\ \E ans \in WD!SetConfigAnswers(drv) :
         IF ans = "refused"
         THEN panic' = TRUE /\ UNCHANGED drv
         ELSE drv' = WD!SetConfig(drv, loc[t].net) /\ UNCHANGED panic
    /\ Do(t, <<"test_connect">>)
    /\ UNCHANGED <<store, st, suppress, link, loc, bounds>>

TestConnect(t) ==
    /\ At(t, "test_connect")
    /\ drv' = WD!Connect(drv)
    /\ IF WD!ConnectOk(drv)
       THEN Do(t, <<"test_wait">>) /\ UNCHANGED loc
       ELSE Do(t, <<>>) /\ SetLoc(t, "ret", "fail")
    /\ UNCHANGED <<store, st, suppress, bits, link, panic, bounds>>

\* Success wins when both bits are set; with neither, the timeout has expired and the attempt is ended.
TestWait(t) ==
    /\ At(t, "test_wait")
    /\ bits' = bits \ {"ok", "fail"}
    /\ \/ "ok" \in bits /\ SetLoc(t, "ret", "ok") /\ UNCHANGED drv
       \/ "ok" \notin bits /\ "fail" \in bits /\ SetLoc(t, "ret", "fail") /\ UNCHANGED drv
       \/ bits \cap {"ok", "fail"} = {} /\ OutsideMayAct /\ SetLoc(t, "ret", "timeout") /\ drv' = WD!Disconnect(drv)
    /\ Do(t, <<>>)
    /\ UNCHANGED <<store, st, suppress, link, panic, bounds>>

TestSteps(t) == TestDisconnect(t) \/ TestConf(t) \/ TestConnect(t) \/ TestWait(t)

----------------------------------------------------------------------------
(* The ends of app_main; what it runs between them is the composition's. *)

\* Nothing in the code waits for STA_START.
Boot ==
    /\ At("main", "boot")
    /\ EventsFirst => drv.evq = <<>> /\ Idle("sys_evt")
    /\ Do("main", <<>>)
    /\ UNCHANGED <<store, mgr, loc, panic, bounds>>

\* A boot whose last call failed aborts.
BootCheck ==
    /\ At("main", "boot_check")
    /\ panic' = (loc["main"].ret # "ok")
    /\ Do("main", <<>>)
    /\ UNCHANGED <<store, mgr, loc, bounds>>

----------------------------------------------------------------------------
(* The air: at most MaxTrouble attempts fail and associations are lost. *)

AirAssociates ==
    /\ OutsideMayAct
    /\ drv' \in WD!Associated(drv)
    /\ UNCHANGED <<store, st, suppress, bits, link, tasks, bounds>>

AirTrouble ==
    /\ OutsideMayAct
    /\ trouble < MaxTrouble
    /\ trouble' = trouble + 1
    /\ drv' \in WD!Refused(drv) \cup WD!Lost(drv)
    /\ UNCHANGED <<store, st, suppress, bits, link, tasks, cmds>>

AirScanned ==
    /\ OutsideMayAct
    /\ drv' \in WD!Scanned(drv)
    /\ UNCHANGED <<store, st, suppress, bits, link, tasks, bounds>>

----------------------------------------------------------------------------
(* Shared by the compositions. *)

MgrInit(blob, program) ==
    /\ nvs = blob /\ cfg = CS!Load(blob)
    /\ drv = WD!Started
    /\ st = "IDLE" /\ suppress = FALSE /\ bits = {} /\ link = FALSE
    /\ todo = [t \in Tasks |-> IF t = "main" THEN program ELSE <<>>]
    /\ loc = [t \in Tasks |-> NoLocals]
    /\ panic = FALSE
    /\ trouble = 0 /\ cmds = 0

\* Nothing under way anywhere: the firmware waits for the user or the air.
AtRest ==
    /\ \A t \in Tasks : Idle(t)
    /\ drv.evq = <<>> /\ drv.sta # "connecting" /\ ~drv.scanning

\* A device at rest may stay so, and one that panicked is not followed further.
MayStop == AtRest \/ panic

MgrTypeOK ==
    /\ CS!TypeOK
    /\ drv \in WD!Drivers
    /\ st \in States
    /\ suppress \in BOOLEAN /\ link \in BOOLEAN /\ panic \in BOOLEAN
    /\ bits \subseteq {"ok", "fail", "scan"}
    /\ DOMAIN todo = Tasks
    /\ loc \in [Tasks -> Locals]
    /\ trouble \in 0..MaxTrouble /\ cmds \in 0..MaxCmds
================================================================================
