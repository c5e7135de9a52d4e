----------------------------- MODULE StationProofs -----------------------------
(***************************************************************************)
(* Proofs about the station, for any number of commands, losses and        *)
(* failures and any networks: it never shows the host a link over nothing, *)
(* with or without promptness, and, when tasks are prompt, it never gives  *)
(* up and always shows what it is.                                         *)
(***************************************************************************)
EXTENDS Station, WifiMgrProofs

\* The inductive invariant of the link: on a device without a portal nobody suppresses the bridge.
StationInv == HonestInv /\ suppress = FALSE

\* The console commands that start a call.
LEMMA CommandHonest == ASSUME HonestInv, Edit \/ ScanCmd PROVE HonestInv'
<1>1. /\ drv' = drv /\ link' = link
      /\ \E c : todo' = [todo EXCEPT !["tud"] = c]
  BY DEF Edit, ScanCmd, Start, mgr
<1>2. DOMAIN todo' = DOMAIN todo /\ todo'["sys_evt"] = todo["sys_evt"]
  BY <1>1 DEF HonestInv, Tasks
<1>3. Follows(drv, drv')
  BY <1>1, CallsFollow DEF HonestInv
<1> QED BY <1>1, <1>2, <1>3, CallerKeeps

\* wifi_mgr_init leaves no link, and only the driver's start event in the queue.
LEMMA HonestInit == Init => StationInv
<1> SUFFICES ASSUME Init PROVE StationInv
  OBVIOUS
<1>1. drv = WD!Started /\ suppress = FALSE /\ link = FALSE
  BY DEF Init, MgrInit
<1>2. DOMAIN todo = Tasks /\ todo["sys_evt"] = <<>>
  BY DEF Init, MgrInit, Tasks
<1>3. IsDriver(drv) /\ Len(drv.evq) = 1 /\ drv.evq[1] = "start"
  BY <1>1 DEF WD!Started, IsDriver, WD!Events
<1>4. Answered(drv)
  BY <1>3 DEF Answered
<1> QED BY <1>1, <1>2, <1>3, <1>4 DEF StationInv, HonestInv, HandlerPrograms

\* Every step of the station.
LEMMA HonestStep == StationInv /\ [Next]_vars => StationInv'
<1> SUFFICES ASSUME StationInv, [Next]_vars PROVE StationInv'
  OBVIOUS
<1>0. HonestInv /\ suppress = FALSE
  BY DEF StationInv
<1>1. suppress' = suppress
  BY DEF vars, mgr, Next, Rest, Boot, BootCheck, OnWifiEvent, OnStart, OnConnected, Arm, ReportOk,
         OnDisconnected, Retry, EvConnect, OnScanDone, CallSteps, ApplySteps, ApplyDisconnect, ApplyCheck,
         ApplyConf, ApplyConnect, ScanSteps, ScanEnter, ScanDisconnect, ScanStart, ScanWait, ScanExit, Edit,
         ScanCmd, AirAssociates, AirTrouble, AirScanned
<1>2. CASE Boot \/ BootCheck
  BY <1>0, <1>1, <1>2, BootHonest, StationAssumption DEF StationInv
<1>3. CASE Edit \/ ScanCmd
  BY <1>0, <1>1, <1>3, CommandHonest DEF StationInv
<1>4. CASE OnWifiEvent
  BY <1>0, <1>1, <1>4, HandlerHonest DEF StationInv
<1>5. CASE CallSteps
  BY <1>0, <1>1, <1>5, ApplyHonest, ScanHonest DEF StationInv, CallSteps
<1>6. CASE AirAssociates \/ AirTrouble \/ AirScanned
  BY <1>0, <1>1, <1>6, AirHonest DEF StationInv
<1>7. CASE UNCHANGED vars
  BY <1>7 DEF vars, mgr, tasks, StationInv, HonestInv, Answered, Leaving, IsDriver
<1> QED BY <1>2, <1>3, <1>4, <1>5, <1>6, <1>7 DEF Next, Rest

\* For any tasks, commands, losses and failures, the host sees the link up only over an association or
\* while the event that ends it is on its way.
THEOREM LinkAlwaysHonest == Spec => []LinkHonest
<1>1. StationInv => LinkHonest
  BY LenProperties DEF StationInv, HonestInv, LinkHonest, LeavePending, Leaving, IsDriver
<1> QED BY HonestInit, HonestStep, <1>1, PTL DEF Spec

----------------------------------------------------------------------------
(* Nobody gives up.  With Prompt one caller works at a time, and what its label promises about the driver
   can be said label by label. *)

\* app_main from its last preparations on, and the two commands that reach the manager.
BootPrograms ==
    {<<>>, <<"boot", "apply", "apply_check", "boot_check">>, <<"apply", "apply_check", "boot_check">>,
     <<"apply_check", "boot_check">>, <<"apply_conf", "apply_connect", "boot_check">>,
     <<"apply_connect", "boot_check">>, <<"boot_check">>}

CommandPrograms ==
    {<<>>, <<"apply", "apply_check">>, <<"apply_check">>, <<"apply_conf", "apply_connect">>, <<"apply_connect">>,
     <<"scan", "scan_disconnect", "scan_start">>, <<"scan_disconnect", "scan_start">>, <<"scan_start">>,
     <<"scan_wait">>, <<"scan_exit">>}

\* The task that boots and the task that runs commands take turns, and no other task calls the manager.
TurnsOK ==
    /\ todo["main"] \in BootPrograms /\ todo["tud"] \in CommandPrograms
    /\ todo["main"] = <<>> \/ todo["tud"] = <<>>
    /\ \A t \in Callers \ {"main", "tud"} : todo[t] = <<>>

\* The locals, as far as they are used.
LocOK ==
    /\ loc = [t \in Tasks |-> loc[t]]
    /\ \A t \in Tasks : loc[t] \in [ptr : {loc[t].ptr}, prev : {loc[t].prev}, re : {loc[t].re},
                                    net : {loc[t].net}, ret : {loc[t].ret}]

\* What holds when task t comes to a label: an apply has ended the association and will set the active
\* network; a scan will re-associate, and put back a label that is neither its own nor the portal's.
Ready(t, label) ==
    /\ label \in {"apply_check", "apply_conf", "apply_connect"} => drv.sta # "connected"
    /\ label \in {"apply_check", "apply_conf"} => loc[t].ptr = cfg.active
    /\ label \in InScan \cup {"scan"} => loc[t].re = TRUE
    /\ label \in InScan => loc[t].prev \notin {"SCANNING", "PROVISIONING"}
    /\ label = "boot_check" => drv.sta = "connecting"

\* SCANNING is shown only during a scan, PROVISIONING never.
ShownOK == st # "PROVISIONING" /\ (st = "SCANNING" => Label("tud") \in InScan)

\* The driver has a configuration once the boot has set one, and its start event is taken before that.
BootOK ==
    /\ Label("main") \in {"boot", "apply", "apply_check", "apply_conf"} \/ drv.conf # Blank
    /\ Label("main") = "boot" \/ NoStart(drv)

\* The inductive invariant: a caller at work ends by starting an attempt, and while nobody is at work
\* the news of the driver's state is told or on its way.
Working == HasSsid /\ TurnsOK /\ LocOK /\ (\A t \in {"main", "tud"} : Ready(t, Label(t))) /\ ShownOK /\ BootOK
Settled == todo["main"] = <<>> /\ todo["tud"] = <<>> => DownOK /\ UpOK
TriesInv == panic \/ (Working /\ Settled)

----------------------------------------------------------------------------
(* The callers. *)

LEMMA CallersKnown == "main" \in Tasks /\ "tud" \in Tasks /\ "sys_evt" \in Tasks /\ "main" # "tud"
                      /\ "sys_evt" \notin {"main", "tud"} /\ {"main", "tud"} \subseteq Callers
  BY StationAssumption, MgrAssumption DEF Tasks

\* Task t goes on to another label, and the programs stay in turn.
Turns(t, label) ==
    /\ TurnsOK'
    /\ Label(t)' = label
    /\ \A u \in Tasks \ {t} : todo'[u] = todo[u]

\* A task at work replaces its program by the rest of it.
LEMMA OneTurns ==
    ASSUME DOMAIN todo = Tasks, TurnsOK, NEW t \in {"main", "tud"}, todo[t] # <<>>,
           NEW program, todo' = [todo EXCEPT ![t] = program], NEW label,
           t = "main" => program \in BootPrograms, t = "tud" => program \in CommandPrograms,
           label = IF program = <<>> THEN "none" ELSE Head(program)
    PROVE  Turns(t, label)
<1>1. todo'[t] = program /\ \A u \in Tasks \ {t} : todo'[u] = todo[u]
  BY CallersKnown
<1>2. TurnsOK'
  BY <1>1, CallersKnown, MgrAssumption DEF TurnsOK, Tasks
<1>3. Label(t)' = label
  BY <1>1 DEF Label
<1> QED BY <1>1, <1>2, <1>3 DEF Turns

LEMMA ConfThenConnect ==
    <<"apply_conf", "apply_connect">> \o <<"boot_check">> = <<"apply_conf", "apply_connect", "boot_check">>
<1>1. PICK S : S = {"apply_conf", "apply_connect", "boot_check"}
  OBVIOUS
<1>2. <<"apply_conf", "apply_connect">> \in Seq(S) /\ <<"boot_check">> \in Seq(S)
  BY <1>1
<1>3. PICK s : s = <<"apply_conf", "apply_connect">> \o <<"boot_check">>
  OBVIOUS
<1>4. s \in Seq(S) /\ Len(s) = 3 /\ s[1] = "apply_conf" /\ s[2] = "apply_connect" /\ s[3] = "boot_check"
  BY <1>2, <1>3, ConcatProperties
<1>5. s = <<"apply_conf", "apply_connect", "boot_check">>
  BY <1>4
<1> QED BY <1>3, <1>5

\* The boot's labels.
LEMMA BootTurns ==
    ASSUME DOMAIN todo = Tasks, TurnsOK
    PROVE  /\ At("main", "boot") /\ Do("main", <<>>) => Turns("main", "apply")
           /\ At("main", "apply") /\ Do("main", <<>>) => Turns("main", "apply_check")
           /\ At("main", "apply_check") /\ Do("main", <<"apply_conf", "apply_connect">>)
                => Turns("main", "apply_conf")
           /\ At("main", "apply_conf") /\ Do("main", <<>>) => Turns("main", "apply_connect")
           /\ At("main", "apply_connect") /\ Do("main", <<>>) => Turns("main", "boot_check")
           /\ At("main", "boot_check") /\ Do("main", <<>>) => Turns("main", "none")
<1>1. ASSUME At("main", "boot"), Do("main", <<>>)
      PROVE  Turns("main", "apply")
  <2>1. todo["main"] = <<"boot", "apply", "apply_check", "boot_check">>
    BY <1>1 DEF At, TurnsOK, BootPrograms
  <2>2. <<>> \o Tail(<<"boot", "apply", "apply_check", "boot_check">>) = <<"apply", "apply_check", "boot_check">>
    OBVIOUS
  <2>3. todo' = [todo EXCEPT !["main"] = <<"apply", "apply_check", "boot_check">>] /\ todo["main"] # <<>>
    BY <1>1, <2>1, <2>2 DEF Do
  <2>4. /\ Head(<<"apply", "apply_check", "boot_check">>) = "apply"
        /\ <<"apply", "apply_check", "boot_check">> # <<>>
        /\ <<"apply", "apply_check", "boot_check">> \in BootPrograms
    BY DEF BootPrograms
  <2> QED BY <2>3, <2>4, OneTurns
<1>2. ASSUME At("main", "apply"), Do("main", <<>>)
      PROVE  Turns("main", "apply_check")
  <2>1. todo["main"] = <<"apply", "apply_check", "boot_check">>
    BY <1>2 DEF At, TurnsOK, BootPrograms
  <2>2. <<>> \o Tail(<<"apply", "apply_check", "boot_check">>) = <<"apply_check", "boot_check">>
    OBVIOUS
  <2>3. todo' = [todo EXCEPT !["main"] = <<"apply_check", "boot_check">>] /\ todo["main"] # <<>>
    BY <1>2, <2>1, <2>2 DEF Do
  <2>4. /\ Head(<<"apply_check", "boot_check">>) = "apply_check"
        /\ <<"apply_check", "boot_check">> # <<>>
        /\ <<"apply_check", "boot_check">> \in BootPrograms
    BY DEF BootPrograms
  <2> QED BY <2>3, <2>4, OneTurns
<1>3. ASSUME At("main", "apply_check"), Do("main", <<"apply_conf", "apply_connect">>)
      PROVE  Turns("main", "apply_conf")
  <2>1. todo["main"] = <<"apply_check", "boot_check">>
    BY <1>3 DEF At, TurnsOK, BootPrograms
  <2>2. Tail(<<"apply_check", "boot_check">>) = <<"boot_check">> /\ todo["main"] # <<>>
    BY <2>1
  <2>3. todo' = [todo EXCEPT !["main"] = <<"apply_conf", "apply_connect", "boot_check">>]
    BY <1>3, <2>1, <2>2, ConfThenConnect DEF Do
  <2>4. /\ Head(<<"apply_conf", "apply_connect", "boot_check">>) = "apply_conf"
        /\ <<"apply_conf", "apply_connect", "boot_check">> # <<>>
        /\ <<"apply_conf", "apply_connect", "boot_check">> \in BootPrograms
    BY DEF BootPrograms
  <2> QED BY <2>2, <2>3, <2>4, OneTurns
<1>4. ASSUME At("main", "apply_conf"), Do("main", <<>>)
      PROVE  Turns("main", "apply_connect")
  <2>1. todo["main"] = <<"apply_conf", "apply_connect", "boot_check">>
    BY <1>4 DEF At, TurnsOK, BootPrograms
  <2>2. <<>> \o Tail(<<"apply_conf", "apply_connect", "boot_check">>) = <<"apply_connect", "boot_check">>
    OBVIOUS
  <2>3. todo' = [todo EXCEPT !["main"] = <<"apply_connect", "boot_check">>] /\ todo["main"] # <<>>
    BY <1>4, <2>1, <2>2 DEF Do
  <2>4. /\ Head(<<"apply_connect", "boot_check">>) = "apply_connect"
        /\ <<"apply_connect", "boot_check">> # <<>>
        /\ <<"apply_connect", "boot_check">> \in BootPrograms
    BY DEF BootPrograms
  <2> QED BY <2>3, <2>4, OneTurns
<1>5. ASSUME At("main", "apply_connect"), Do("main", <<>>)
      PROVE  Turns("main", "boot_check")
  <2>1. todo["main"] = <<"apply_connect", "boot_check">>
    BY <1>5 DEF At, TurnsOK, BootPrograms
  <2>2. <<>> \o Tail(<<"apply_connect", "boot_check">>) = <<"boot_check">>
    OBVIOUS
  <2>3. todo' = [todo EXCEPT !["main"] = <<"boot_check">>] /\ todo["main"] # <<>>
    BY <1>5, <2>1, <2>2 DEF Do
  <2>4. Head(<<"boot_check">>) = "boot_check" /\ <<"boot_check">> # <<>> /\ <<"boot_check">> \in BootPrograms
    BY DEF BootPrograms
  <2> QED BY <2>3, <2>4, OneTurns
<1>6. ASSUME At("main", "boot_check"), Do("main", <<>>)
      PROVE  Turns("main", "none")
  <2>1. todo["main"] = <<"boot_check">>
    BY <1>6 DEF At, TurnsOK, BootPrograms
  <2>2. <<>> \o Tail(<<"boot_check">>) = <<>>
    OBVIOUS
  <2>3. todo' = [todo EXCEPT !["main"] = <<>>] /\ todo["main"] # <<>>
    BY <1>6, <2>1, <2>2 DEF Do
  <2>4. <<>> \in BootPrograms
    BY DEF BootPrograms
  <2> QED BY <2>3, <2>4, OneTurns
<1> QED BY <1>1, <1>2, <1>3, <1>4, <1>5, <1>6

\* A command's labels.
LEMMA CommandTurns ==
    ASSUME DOMAIN todo = Tasks, TurnsOK
    PROVE  /\ At("tud", "apply") /\ Do("tud", <<>>) => Turns("tud", "apply_check")
           /\ At("tud", "apply_check") /\ Do("tud", <<"apply_conf", "apply_connect">>) => Turns("tud", "apply_conf")
           /\ At("tud", "apply_conf") /\ Do("tud", <<>>) => Turns("tud", "apply_connect")
           /\ At("tud", "apply_connect") /\ Do("tud", <<>>) => Turns("tud", "none")
           /\ At("tud", "scan") /\ Do("tud", <<>>) => Turns("tud", "scan_disconnect")
           /\ At("tud", "scan_disconnect") /\ Do("tud", <<>>) => Turns("tud", "scan_start")
           /\ At("tud", "scan_start") /\ Do("tud", <<"scan_wait">>) => Turns("tud", "scan_wait")
           /\ At("tud", "scan_start") /\ Do("tud", <<"scan_exit">>) => Turns("tud", "scan_exit")
           /\ At("tud", "scan_wait") /\ Do("tud", <<"scan_exit">>) => Turns("tud", "scan_exit")
           /\ At("tud", "scan_exit") /\ Do("tud", <<"apply", "apply_check">>) => Turns("tud", "apply")
<1>1. ASSUME At("tud", "apply"), Do("tud", <<>>)
      PROVE  Turns("tud", "apply_check")
  <2>1. todo["tud"] = <<"apply", "apply_check">>
    BY <1>1 DEF At, TurnsOK, CommandPrograms
  <2>2. <<>> \o Tail(<<"apply", "apply_check">>) = <<"apply_check">>
    OBVIOUS
  <2>3. todo' = [todo EXCEPT !["tud"] = <<"apply_check">>] /\ todo["tud"] # <<>>
    BY <1>1, <2>1, <2>2 DEF Do
  <2>4. /\ Head(<<"apply_check">>) = "apply_check"
        /\ <<"apply_check">> # <<>>
        /\ <<"apply_check">> \in CommandPrograms
    BY DEF CommandPrograms
  <2> QED BY <2>3, <2>4, OneTurns
<1>2. ASSUME At("tud", "apply_check"), Do("tud", <<"apply_conf", "apply_connect">>)
      PROVE  Turns("tud", "apply_conf")
  <2>1. todo["tud"] = <<"apply_check">>
    BY <1>2 DEF At, TurnsOK, CommandPrograms
  <2>2. <<"apply_conf", "apply_connect">> \o Tail(<<"apply_check">>) = <<"apply_conf", "apply_connect">>
    OBVIOUS
  <2>3. todo' = [todo EXCEPT !["tud"] = <<"apply_conf", "apply_connect">>] /\ todo["tud"] # <<>>
    BY <1>2, <2>1, <2>2 DEF Do
  <2>4. /\ Head(<<"apply_conf", "apply_connect">>) = "apply_conf"
        /\ <<"apply_conf", "apply_connect">> # <<>>
        /\ <<"apply_conf", "apply_connect">> \in CommandPrograms
    BY DEF CommandPrograms
  <2> QED BY <2>3, <2>4, OneTurns
<1>3. ASSUME At("tud", "apply_conf"), Do("tud", <<>>)
      PROVE  Turns("tud", "apply_connect")
  <2>1. todo["tud"] = <<"apply_conf", "apply_connect">>
    BY <1>3 DEF At, TurnsOK, CommandPrograms
  <2>2. <<>> \o Tail(<<"apply_conf", "apply_connect">>) = <<"apply_connect">>
    OBVIOUS
  <2>3. todo' = [todo EXCEPT !["tud"] = <<"apply_connect">>] /\ todo["tud"] # <<>>
    BY <1>3, <2>1, <2>2 DEF Do
  <2>4. /\ Head(<<"apply_connect">>) = "apply_connect"
        /\ <<"apply_connect">> # <<>>
        /\ <<"apply_connect">> \in CommandPrograms
    BY DEF CommandPrograms
  <2> QED BY <2>3, <2>4, OneTurns
<1>4. ASSUME At("tud", "apply_connect"), Do("tud", <<>>)
      PROVE  Turns("tud", "none")
  <2>1. todo["tud"] = <<"apply_connect">>
    BY <1>4 DEF At, TurnsOK, CommandPrograms
  <2>2. <<>> \o Tail(<<"apply_connect">>) = <<>>
    OBVIOUS
  <2>3. todo' = [todo EXCEPT !["tud"] = <<>>] /\ todo["tud"] # <<>>
    BY <1>4, <2>1, <2>2 DEF Do
  <2>4. <<>> \in CommandPrograms
    BY DEF CommandPrograms
  <2> QED BY <2>3, <2>4, OneTurns
<1>5. ASSUME At("tud", "scan"), Do("tud", <<>>)
      PROVE  Turns("tud", "scan_disconnect")
  <2>1. todo["tud"] = <<"scan", "scan_disconnect", "scan_start">>
    BY <1>5 DEF At, TurnsOK, CommandPrograms
  <2>2. <<>> \o Tail(<<"scan", "scan_disconnect", "scan_start">>) = <<"scan_disconnect", "scan_start">>
    OBVIOUS
  <2>3. todo' = [todo EXCEPT !["tud"] = <<"scan_disconnect", "scan_start">>] /\ todo["tud"] # <<>>
    BY <1>5, <2>1, <2>2 DEF Do
  <2>4. /\ Head(<<"scan_disconnect", "scan_start">>) = "scan_disconnect"
        /\ <<"scan_disconnect", "scan_start">> # <<>>
        /\ <<"scan_disconnect", "scan_start">> \in CommandPrograms
    BY DEF CommandPrograms
  <2> QED BY <2>3, <2>4, OneTurns
<1>6. ASSUME At("tud", "scan_disconnect"), Do("tud", <<>>)
      PROVE  Turns("tud", "scan_start")
  <2>1. todo["tud"] = <<"scan_disconnect", "scan_start">>
    BY <1>6 DEF At, TurnsOK, CommandPrograms
  <2>2. <<>> \o Tail(<<"scan_disconnect", "scan_start">>) = <<"scan_start">>
    OBVIOUS
  <2>3. todo' = [todo EXCEPT !["tud"] = <<"scan_start">>] /\ todo["tud"] # <<>>
    BY <1>6, <2>1, <2>2 DEF Do
  <2>4. Head(<<"scan_start">>) = "scan_start" /\ <<"scan_start">> # <<>> /\ <<"scan_start">> \in CommandPrograms
    BY DEF CommandPrograms
  <2> QED BY <2>3, <2>4, OneTurns
<1>7. ASSUME At("tud", "scan_start"), Do("tud", <<"scan_wait">>)
      PROVE  Turns("tud", "scan_wait")
  <2>1. todo["tud"] = <<"scan_start">>
    BY <1>7 DEF At, TurnsOK, CommandPrograms
  <2>2. <<"scan_wait">> \o Tail(<<"scan_start">>) = <<"scan_wait">>
    OBVIOUS
  <2>3. todo' = [todo EXCEPT !["tud"] = <<"scan_wait">>] /\ todo["tud"] # <<>>
    BY <1>7, <2>1, <2>2 DEF Do
  <2>4. Head(<<"scan_wait">>) = "scan_wait" /\ <<"scan_wait">> # <<>> /\ <<"scan_wait">> \in CommandPrograms
    BY DEF CommandPrograms
  <2> QED BY <2>3, <2>4, OneTurns
<1>8. ASSUME At("tud", "scan_start"), Do("tud", <<"scan_exit">>)
      PROVE  Turns("tud", "scan_exit")
  <2>1. todo["tud"] = <<"scan_start">>
    BY <1>8 DEF At, TurnsOK, CommandPrograms
  <2>2. <<"scan_exit">> \o Tail(<<"scan_start">>) = <<"scan_exit">>
    OBVIOUS
  <2>3. todo' = [todo EXCEPT !["tud"] = <<"scan_exit">>] /\ todo["tud"] # <<>>
    BY <1>8, <2>1, <2>2 DEF Do
  <2>4. Head(<<"scan_exit">>) = "scan_exit" /\ <<"scan_exit">> # <<>> /\ <<"scan_exit">> \in CommandPrograms
    BY DEF CommandPrograms
  <2> QED BY <2>3, <2>4, OneTurns
<1>9. ASSUME At("tud", "scan_wait"), Do("tud", <<"scan_exit">>)
      PROVE  Turns("tud", "scan_exit")
  <2>1. todo["tud"] = <<"scan_wait">>
    BY <1>9 DEF At, TurnsOK, CommandPrograms
  <2>2. <<"scan_exit">> \o Tail(<<"scan_wait">>) = <<"scan_exit">>
    OBVIOUS
  <2>3. todo' = [todo EXCEPT !["tud"] = <<"scan_exit">>] /\ todo["tud"] # <<>>
    BY <1>9, <2>1, <2>2 DEF Do
  <2>4. Head(<<"scan_exit">>) = "scan_exit" /\ <<"scan_exit">> # <<>> /\ <<"scan_exit">> \in CommandPrograms
    BY DEF CommandPrograms
  <2> QED BY <2>3, <2>4, OneTurns
<1>10. ASSUME At("tud", "scan_exit"), Do("tud", <<"apply", "apply_check">>)
      PROVE  Turns("tud", "apply")
  <2>1. todo["tud"] = <<"scan_exit">>
    BY <1>10 DEF At, TurnsOK, CommandPrograms
  <2>2. <<"apply", "apply_check">> \o Tail(<<"scan_exit">>) = <<"apply", "apply_check">>
    OBVIOUS
  <2>3. todo' = [todo EXCEPT !["tud"] = <<"apply", "apply_check">>] /\ todo["tud"] # <<>>
    BY <1>10, <2>1, <2>2 DEF Do
  <2>4. /\ Head(<<"apply", "apply_check">>) = "apply"
        /\ <<"apply", "apply_check">> # <<>>
        /\ <<"apply", "apply_check">> \in CommandPrograms
    BY DEF CommandPrograms
  <2> QED BY <2>3, <2>4, OneTurns
<1> QED BY <1>1, <1>2, <1>3, <1>4, <1>5, <1>6, <1>7, <1>8, <1>9, <1>10

----------------------------------------------------------------------------
(* A caller's step keeps the invariant. *)

\* Writing locals keeps their shape.
LEMMA SetLocOK ==
    ASSUME LocOK, NEW t \in Tasks, NEW f \in {"ptr", "prev", "re", "net", "ret"}, NEW v, SetLoc(t, f, v)
    PROVE  /\ LocOK' /\ loc'[t][f] = v
           /\ \A g \in {"ptr", "prev", "re", "net", "ret"} \ {f} : loc'[t][g] = loc[t][g]
  BY DEF LocOK, SetLoc

\* Of the two callers only the one at work has something to do.
LEMMA AtWork ==
    ASSUME TurnsOK, NEW t \in Callers, todo[t] # <<>>
    PROVE  /\ t \in {"main", "tud"} /\ todo[t] # <<>>
           /\ \A u \in {"main", "tud"} \ {t} : todo[u] = <<>> /\ Label(u) = "none"
  BY CallersKnown DEF TurnsOK, Label

\* Enough for the step to the next label: what the label promises, and an attempt at the end.
LEMMA TurnKeeps ==
    ASSUME Working, NEW t \in {"main", "tud"}, todo[t] # <<>>, NEW label, Turns(t, label),
           cfg' = cfg, LocOK', Ready(t, label)', ShownOK', BootOK',
           label # "none" \/ drv'.sta = "connecting"
    PROVE  TriesInv'
<1>1. /\ t \in Tasks /\ Label(t)' = label /\ TurnsOK'
      /\ \A u \in {"main", "tud"} \ {t} : Label(u)' = "none"
  BY CallersKnown, AtWork DEF Working, Turns, Label
<1>2. \A u \in {"main", "tud"} \ {t} : Ready(u, Label(u))'
  BY <1>1 DEF Ready, InScan
<1>3. Ready(t, Label(t))'
  BY <1>1 DEF Ready
<1>4. HasSsid'
  BY DEF Working, HasSsid
<1>5. Settled'
  <2>1. CASE label # "none"
    BY <1>1, <2>1 DEF Label, Settled
  <2>2. CASE drv'.sta = "connecting"
    BY <2>2 DEF Settled, DownOK, UpOK
  <2> QED BY <2>1, <2>2
<1> QED BY <1>1, <1>2, <1>3, <1>4, <1>5 DEF TriesInv, Working

\* wifi_mgr_apply ends the association, sets the active network, and leaves the driver attempting.
LEMMA ApplyTries ==
    ASSUME StationInv, Working, NEW t \in Callers, ApplySteps(t)
    PROVE  TriesInv'
<1>0. /\ DOMAIN todo = Tasks /\ IsDriver(drv) /\ TurnsOK /\ LocOK /\ t \in {"main", "tud"} /\ t \in Tasks
      /\ todo[t] # <<>> /\ cfg' = cfg
      /\ \A u \in {"main", "tud"} \ {t} : todo[u] = <<>> /\ Label(u) = "none"
  <2>1. todo[t] # <<>> /\ cfg' = cfg
    BY DEF ApplySteps, ApplyDisconnect, ApplyCheck, ApplyConf, ApplyConnect, At, store
  <2> QED BY <2>1, AtWork, CallersKnown DEF StationInv, HonestInv, Working
<1>1. /\ Label(t) \in {"apply", "apply_check", "apply_conf", "apply_connect"}
      /\ Ready(t, Label(t)) /\ ~(Label("tud") \in InScan) /\ st \notin {"PROVISIONING", "SCANNING"}
  <2>1. Label(t) \in {"apply", "apply_check", "apply_conf", "apply_connect"}
    BY DEF ApplySteps, ApplyDisconnect, ApplyCheck, ApplyConf, ApplyConnect, At, Label
  <2>2. Label("tud") \notin InScan
    BY <1>0, <2>1 DEF InScan
  <2> QED BY <1>0, <2>1, <2>2 DEF Working, ShownOK
<1>2. CASE ApplyDisconnect(t)
  <2>1. At(t, "apply") /\ Do(t, <<>>) /\ Label(t) = "apply"
    BY <1>2 DEF ApplyDisconnect, At, Label
  <2>2. Turns(t, "apply_check")
    BY <1>0, <2>1, BootTurns, CommandTurns
  <2>3. drv'.sta = "down" /\ drv'.conf = drv.conf /\ (NoStart(drv) => NoStart(drv'))
    BY <1>0, <1>2, Disconnected DEF ApplyDisconnect
  <2>4. LocOK' /\ loc'[t].ptr = cfg.active
    <3>1. CS!HasActive(cfg)
      BY DEF Working, HasSsid, CS!ActiveSsid
    <3>2. SetLoc(t, "ptr", cfg.active)
      BY <1>2, <3>1 DEF ApplyDisconnect
    <3> QED BY <1>0, <3>2, SetLocOK
  <2>5. Ready(t, "apply_check")'
    BY <1>0, <2>3, <2>4 DEF Ready, InScan
  <2>6. ShownOK'
    BY <1>1, <1>2 DEF ApplyDisconnect, ShownOK
  <2>7. BootOK'
    <3>1. Label("main")' = IF t = "main" THEN "apply_check" ELSE "none"
      BY <1>0, <2>2, CallersKnown DEF Turns, Label
    <3> QED BY <1>0, <2>1, <2>3, <3>1 DEF BootOK, Working
  <2> QED BY <1>0, <2>2, <2>4, <2>5, <2>6, <2>7, TurnKeeps
<1>3. CASE ApplyCheck(t)
  <2>1. Label(t) = "apply_check" /\ loc[t].ptr = cfg.active /\ drv.sta # "connected"
    BY <1>1, <1>3 DEF ApplyCheck, At, Label, Ready
  <2>2. Pointee(t) # Blank
    BY <2>1 DEF Pointee, Working, HasSsid, CS!ActiveSsid, CS!HasActive
  <2>3. At(t, "apply_check") /\ Do(t, <<"apply_conf", "apply_connect">>) /\ UNCHANGED <<drv, st, loc>>
    BY <1>3, <2>2 DEF ApplyCheck
  <2>4. Turns(t, "apply_conf")
    BY <1>0, <2>3, BootTurns, CommandTurns
  <2>5. LocOK'
    BY <1>0, <2>3 DEF LocOK
  <2>6. Ready(t, "apply_conf")'
    BY <1>0, <2>1, <2>3 DEF Ready, InScan
  <2>7. ShownOK'
    BY <1>1, <2>3 DEF ShownOK
  <2>8. BootOK'
    <3>1. Label("main")' = IF t = "main" THEN "apply_conf" ELSE "none"
      BY <1>0, <2>4, CallersKnown DEF Turns, Label
    <3> QED BY <1>0, <2>1, <2>3, <3>1 DEF BootOK, NoStart, Working
  <2> QED BY <1>0, <2>4, <2>5, <2>6, <2>7, <2>8, TurnKeeps
<1>4. CASE ApplyConf(t) /\ ~panic'
  <2>1. Label(t) = "apply_conf" /\ loc[t].ptr = cfg.active /\ drv.sta # "connected"
    BY <1>1, <1>4 DEF ApplyConf, At, Label, Ready
  <2>2. Pointee(t) # Blank
    BY <2>1 DEF Pointee, Working, HasSsid, CS!ActiveSsid, CS!HasActive
  <2>3. /\ At(t, "apply_conf") /\ Do(t, <<>>) /\ SetLoc(t, "ptr", CS!ActiveNone)
        /\ drv' = WD!SetConfig(WD!SetMode(drv, "STA"), Pointee(t)) /\ st' = "CONNECTING"
    BY <1>4 DEF ApplyConf
  <2>4. Turns(t, "apply_connect")
    BY <1>0, <2>3, BootTurns, CommandTurns
  <2>5. drv'.sta = drv.sta /\ drv'.evq = drv.evq /\ drv'.conf = Pointee(t)
    <3>1. PICK ssid, m : ssid = Pointee(t) /\ m = "STA"
      OBVIOUS
    <3>2. PICK e : e = WD!SetConfig(WD!SetMode(drv, m), ssid)
      OBVIOUS
    <3>3. e.sta = drv.sta /\ e.evq = drv.evq /\ e.conf = ssid
      BY <1>0, <3>2, Configured
    <3> QED BY <2>3, <3>1, <3>2, <3>3
  <2>6. LocOK'
    BY <1>0, <2>3, SetLocOK
  <2>7. Ready(t, "apply_connect")'
    BY <2>1, <2>5 DEF Ready, InScan
  <2>8. ShownOK'
    BY <2>3 DEF ShownOK
  <2>9. BootOK'
    <3>1. Label("main")' = IF t = "main" THEN "apply_connect" ELSE "none"
      BY <1>0, <2>4, CallersKnown DEF Turns, Label
    <3> QED BY <1>0, <2>1, <2>2, <2>5, <3>1 DEF BootOK, NoStart, Working
  <2> QED BY <1>0, <2>4, <2>6, <2>7, <2>8, <2>9, TurnKeeps
<1>5. CASE ApplyConnect(t)
  <2>1. Label(t) = "apply_connect" /\ drv.sta \in {"down", "connecting"}
    BY <1>0, <1>1, <1>5 DEF ApplyConnect, At, Label, Ready, IsDriver
  <2>2. /\ At(t, "apply_connect") /\ Do(t, <<>>) /\ drv' = WD!Connect(drv) /\ st' = st
        /\ \E v : SetLoc(t, "ret", v)
    BY <1>5 DEF ApplyConnect
  <2>3. PICK next \in {"boot_check", "none"} : Turns(t, next)
    BY <1>0, <2>2, BootTurns, CommandTurns
  <2>4. drv.conf # Blank
    BY <1>0, <2>1 DEF Working, BootOK
  <2>5. drv'.sta = "connecting" /\ drv'.conf = drv.conf /\ (NoStart(drv) => NoStart(drv'))
    BY <1>0, <2>1, <2>2, <2>4, Connected
  <2>6. LocOK'
    BY <1>0, <2>2, SetLocOK
  <2>7. Ready(t, next)'
    BY <2>3, <2>5 DEF Ready, InScan
  <2>8. ShownOK'
    BY <1>1, <2>2 DEF ShownOK
  <2>9. BootOK'
    BY <1>0, <2>1, <2>4, <2>5 DEF BootOK, Working
  <2> QED BY <1>0, <2>3, <2>5, <2>6, <2>7, <2>8, <2>9, TurnKeeps
<1>6. CASE panic'
  BY <1>6 DEF TriesInv
<1> QED BY <1>2, <1>3, <1>4, <1>5, <1>6 DEF ApplySteps

\* wifi_mgr_scan remembers a label to put back, and re-associates.
LEMMA ScanTries ==
    ASSUME StationInv, Working, NEW t \in Callers, ScanSteps(t)
    PROVE  TriesInv'
<1>0. /\ DOMAIN todo = Tasks /\ IsDriver(drv) /\ TurnsOK /\ LocOK /\ cfg' = cfg /\ t = "tud"
      /\ todo["tud"] # <<>> /\ Label("main") = "none" /\ "tud" \in Tasks
      /\ Label("tud") \in InScan \cup {"scan"} /\ Ready("tud", Label("tud"))
  <2>1. todo[t] # <<>> /\ cfg' = cfg /\ Label(t) \in InScan \cup {"scan"}
    BY DEF ScanSteps, ScanEnter, ScanDisconnect, ScanStart, ScanWait, ScanExit, At, store, Label, InScan
  <2>2. t \in {"main", "tud"} /\ \A u \in {"main", "tud"} \ {t} : Label(u) = "none"
    BY <2>1, AtWork DEF Working
  <2>3. t # "main"
    BY <2>1 DEF Working, TurnsOK, BootPrograms, Label, InScan
  <2> QED BY <2>1, <2>2, <2>3, CallersKnown DEF StationInv, HonestInv, Working
<1>1. ASSUME NEW label \in InScan \cup {"apply"}, Turns("tud", label)
      PROVE  Label("main")' = "none" /\ Label("tud")' = label
  BY <1>0, <1>1, CallersKnown DEF Turns, Label
<1>2. drv.conf # Blank /\ NoStart(drv)
  BY <1>0 DEF Working, BootOK
<1>3. CASE ScanEnter("tud")
  <2>1. /\ At("tud", "scan") /\ Do("tud", <<>>) /\ SetLoc("tud", "prev", st) /\ st' = "SCANNING" /\ drv' = drv
        /\ Label("tud") = "scan"
    BY <1>3 DEF ScanEnter, At, Label
  <2>2. Turns("tud", "scan_disconnect")
    BY <1>0, <2>1, CommandTurns
  <2>3. LocOK' /\ loc'["tud"].prev = st /\ loc'["tud"].re = loc["tud"].re
    BY <1>0, <2>1, SetLocOK
  <2>4. st \notin {"SCANNING", "PROVISIONING"} /\ loc["tud"].re = TRUE
    BY <1>0, <2>1 DEF Working, ShownOK, InScan, Ready
  <2>5. Ready("tud", "scan_disconnect")'
    BY <2>3, <2>4 DEF Ready, InScan
  <2>6. ShownOK' /\ BootOK'
    BY <1>1, <1>2, <2>1, <2>2 DEF ShownOK, BootOK, InScan, NoStart
  <2> QED BY <1>0, <2>2, <2>3, <2>5, <2>6, TurnKeeps
<1>4. ASSUME Label("tud") \in InScan, NEW label \in InScan, Turns("tud", label), UNCHANGED <<st, loc>>,
             drv'.conf = drv.conf, NoStart(drv')
      PROVE  TriesInv'
  <2>1. LocOK'
    BY <1>0, <1>4 DEF LocOK
  <2>2. Ready("tud", label)'
    BY <1>0, <1>4 DEF Ready, InScan
  <2>3. ShownOK' /\ BootOK'
    BY <1>1, <1>2, <1>4 DEF ShownOK, BootOK, Working
  <2> QED BY <1>0, <1>4, <2>1, <2>2, <2>3, TurnKeeps DEF InScan
<1>5. CASE ScanDisconnect("tud")
  <2>1. /\ At("tud", "scan_disconnect") /\ Do("tud", <<>>) /\ UNCHANGED <<st, loc>> /\ drv' = WD!Disconnect(drv)
        /\ Label("tud") = "scan_disconnect"
    BY <1>5 DEF ScanDisconnect, At, Label
  <2>2. Turns("tud", "scan_start")
    BY <1>0, <2>1, CommandTurns
  <2>3. drv'.conf = drv.conf /\ NoStart(drv')
    BY <1>0, <1>2, <2>1, Disconnected
  <2> QED BY <1>4, <2>1, <2>2, <2>3 DEF InScan
<1>6. CASE ScanStart("tud")
  <2>1. /\ At("tud", "scan_start") /\ UNCHANGED <<st, loc>> /\ Label("tud") = "scan_start"
        /\ drv' \in {drv, WD!ScanStart(drv)}
        /\ Do("tud", <<"scan_wait">>) \/ Do("tud", <<"scan_exit">>)
    BY <1>6 DEF ScanStart, At, Label
  <2>2. Turns("tud", "scan_wait") \/ Turns("tud", "scan_exit")
    BY <1>0, <2>1, CommandTurns
  <2>3. drv'.conf = drv.conf /\ NoStart(drv')
    BY <1>0, <1>2, <2>1 DEF WD!ScanStart, IsDriver, NoStart
  <2> QED BY <1>4, <2>1, <2>2, <2>3 DEF InScan
<1>7. CASE ScanWait("tud")
  <2>1. /\ At("tud", "scan_wait") /\ UNCHANGED <<st, loc>> /\ Label("tud") = "scan_wait"
        /\ drv' \in {drv, WD!ScanStop(drv)} /\ Do("tud", <<"scan_exit">>)
    BY <1>7 DEF ScanWait, At, Label
  <2>2. Turns("tud", "scan_exit")
    BY <1>0, <2>1, CommandTurns
  <2>3. drv'.conf = drv.conf /\ NoStart(drv')
    BY <1>0, <1>2, <2>1 DEF WD!ScanStop, IsDriver, NoStart
  <2> QED BY <1>4, <2>1, <2>2, <2>3 DEF InScan
<1>8. CASE ScanExit("tud")
  <2>1. Label("tud") = "scan_exit" /\ loc["tud"].re = TRUE /\ loc["tud"].prev \notin {"SCANNING", "PROVISIONING"}
    BY <1>0, <1>8 DEF ScanExit, At, Label, Ready, InScan
  <2>2. /\ At("tud", "scan_exit") /\ Do("tud", Apply) /\ drv' = drv /\ st' = loc["tud"].prev
        /\ loc' = [loc EXCEPT !["tud"].prev = "IDLE", !["tud"].re = FALSE]
    BY <1>8, <2>1 DEF ScanExit
  <2>3. Turns("tud", "apply")
    BY <1>0, <2>2, CommandTurns DEF Apply
  <2>4. LocOK'
    BY <1>0, <2>2 DEF LocOK
  <2>5. Ready("tud", "apply")'
    BY DEF Ready, InScan
  <2>6. ShownOK' /\ BootOK'
    BY <1>1, <1>2, <2>1, <2>2, <2>3 DEF ShownOK, BootOK, NoStart
  <2> QED BY <1>0, <2>3, <2>4, <2>5, <2>6, TurnKeeps
<1> QED BY <1>0, <1>3, <1>5, <1>6, <1>7, <1>8 DEF ScanSteps

\* The ends of app_main.
LEMMA BootTries ==
    ASSUME EventsFirst, StationInv, Working, Boot \/ BootCheck
    PROVE  TriesInv'
<1>0. /\ DOMAIN todo = Tasks /\ IsDriver(drv) /\ TurnsOK /\ LocOK /\ "main" \in Callers /\ todo["main"] # <<>>
      /\ UNCHANGED <<cfg, drv, st, loc>> /\ Label("tud") = "none" /\ Label("main") \in {"boot", "boot_check"}
      /\ st \notin {"PROVISIONING", "SCANNING"}
  <2>1. todo["main"] # <<>> /\ UNCHANGED <<cfg, drv, st, loc>> /\ Label("main") \in {"boot", "boot_check"}
    BY DEF Boot, BootCheck, At, store, mgr, Label
  <2>2. Label("tud") = "none"
    BY <2>1, AtWork, CallersKnown DEF Working
  <2> QED BY <2>1, <2>2, CallersKnown DEF StationInv, HonestInv, Working, ShownOK, InScan
<1>1. LocOK'
  BY <1>0 DEF LocOK
<1>2. ShownOK'
  BY <1>0 DEF ShownOK
<1>3. CASE Boot
  <2>1. At("main", "boot") /\ Do("main", <<>>) /\ drv.evq = <<>>
    BY <1>3 DEF Boot
  <2>2. Turns("main", "apply")
    BY <1>0, <2>1, BootTurns
  <2>3. Label("main")' = "apply" /\ Ready("main", "apply")'
    BY <2>2 DEF Turns, Ready, InScan
  <2>4. NoStart(drv')
    BY <1>0, <2>1, EmptySeq DEF NoStart
  <2>5. BootOK'
    BY <2>3, <2>4 DEF BootOK
  <2> QED BY <1>0, <1>1, <1>2, <2>2, <2>3, <2>5, TurnKeeps
<1>4. CASE BootCheck
  <2>1. At("main", "boot_check") /\ Do("main", <<>>) /\ Label("main") = "boot_check"
    BY <1>4 DEF BootCheck, At, Label
  <2>2. Turns("main", "none")
    BY <1>0, <2>1, BootTurns
  <2>3. Label("main")' = "none" /\ Ready("main", "none")'
    BY <2>2 DEF Turns, Ready, InScan
  <2>4. drv.sta = "connecting" /\ drv.conf # Blank /\ NoStart(drv)
    BY <2>1 DEF Working, Ready, BootOK
  <2>5. BootOK'
    BY <1>0, <2>4 DEF BootOK, NoStart
  <2> QED BY <1>0, <1>1, <1>2, <2>2, <2>3, <2>4, <2>5, TurnKeeps
<1> QED BY <1>3, <1>4

\* With Prompt the outside acts only while no caller is at work, or a command waits for its scan.
LEMMA OutsideWaits ==
    ASSUME Prompt, StationInv, Working, OutsideMayAct
    PROVE  /\ todo["main"] = <<>> /\ todo["sys_evt"] = <<>> /\ Label("main") = "none"
           /\ Label("tud") \in {"none", "scan_wait"}
<1>1. \A t \in Tasks : todo[t] # <<>> => Asleep(t)
  BY DEF OutsideMayAct, Idle
<1>2. \A t \in Tasks : todo[t] # <<>> =>
        Head(todo[t]) \in {"test_drain", "fin_delay", "scan_wait", "test_wait", "stop_httpd"}
  BY <1>1 DEF Asleep
<1>3. todo["main"] = <<>>
  BY <1>2, CallersKnown DEF Working, TurnsOK, BootPrograms
<1>4. todo["sys_evt"] = <<>>
  BY <1>2, CallersKnown DEF StationInv, HonestInv, HandlerPrograms
<1>5. todo["tud"] = <<>> \/ todo["tud"] = <<"scan_wait">>
  BY <1>2, CallersKnown DEF Working, TurnsOK, CommandPrograms
<1> QED BY <1>3, <1>4, <1>5 DEF Label

\* A command starts while nobody is at work, and leaves some network active.
LEMMA CommandTries ==
    ASSUME Prompt, StationInv, Working, Edit \/ ScanCmd
    PROVE  TriesInv'
<1>1. /\ OutsideMayAct /\ todo["tud"] = <<>> /\ UNCHANGED <<drv, st, panic>>
  BY DEF Edit, ScanCmd, Command, Idle, mgr
<1>2. todo["main"] = <<>> /\ Label("main") = "none" /\ Label("tud") = "none" /\ "tud" \in Tasks
      /\ DOMAIN todo = Tasks /\ TurnsOK /\ LocOK
  BY <1>1, OutsideWaits, CallersKnown DEF Label, Working, StationInv, HonestInv
<1>3. st \notin {"PROVISIONING", "SCANNING"} /\ drv.conf # Blank /\ NoStart(drv)
  BY <1>2 DEF Working, ShownOK, BootOK, InScan
<1>4. PICK program \in {Apply, Scan} : todo' = [todo EXCEPT !["tud"] = program]
  BY DEF Edit, ScanCmd, Start
<1>5. /\ Apply = <<"apply", "apply_check">> /\ Scan = <<"scan", "scan_disconnect", "scan_start">>
      /\ program \in CommandPrograms /\ program # <<>> /\ Head(program) \in {"apply", "scan"}
  BY <1>4 DEF Apply, Scan, CommandPrograms
<1>6. todo'["tud"] = program /\ \A u \in Tasks \ {"tud"} : todo'[u] = todo[u]
  BY <1>2, <1>4
<1>7. TurnsOK'
  BY <1>2, <1>5, <1>6, CallersKnown, MgrAssumption DEF TurnsOK, Tasks
<1>8. Label("tud")' = Head(program) /\ Label("main")' = "none"
  BY <1>2, <1>5, <1>6, CallersKnown DEF Label
<1>9. LocOK' /\ (Head(program) = "scan" => loc'["tud"].re = TRUE)
  <2>1. CASE Edit
    <3>1. loc' = loc /\ todo' = [todo EXCEPT !["tud"] = Apply]
      BY <2>1 DEF Edit, Start
    <3>2. Head(program) # "scan"
      BY <1>2, <1>5, <1>6, <3>1
    <3> QED BY <1>2, <3>1, <3>2 DEF LocOK
  <2>2. CASE ScanCmd
    <3>1. SetLoc("tud", "re", TRUE)
      BY <2>2 DEF ScanCmd
    <3>2. PICK v : v = TRUE
      OBVIOUS
    <3>3. SetLoc("tud", "re", v)
      BY <3>1, <3>2
    <3>4. LocOK' /\ loc'["tud"]["re"] = v
      BY <1>2, <3>3, SetLocOK
    <3> QED BY <3>2, <3>4
  <2> QED BY <2>1, <2>2
<1>10. HasSsid'
  <2>1. CASE Edit
    BY <2>1 DEF Edit, HasSsid
  <2>2. CASE ScanCmd
    BY <2>2 DEF ScanCmd, store, Working, HasSsid
  <2> QED BY <2>1, <2>2
<1>11. \A t \in {"main", "tud"} : Ready(t, Label(t))'
  BY <1>5, <1>8, <1>9 DEF Ready, InScan
<1>12. ShownOK' /\ BootOK'
  BY <1>1, <1>3, <1>8 DEF ShownOK, BootOK, NoStart
<1>13. Settled'
  BY <1>5, <1>6 DEF Settled
<1> QED BY <1>7, <1>9, <1>10, <1>11, <1>12, <1>13 DEF TriesInv, Working

\* The air gives news of what it does, and disturbs no label.
LEMMA AirTries ==
    ASSUME Prompt, StationInv, Working, Settled, AirAssociates \/ AirTrouble \/ AirScanned
    PROVE  TriesInv'
<1>1. /\ UNCHANGED <<cfg, st, suppress, link, todo, loc, panic>> /\ drv'.conf = drv.conf
      /\ NoStart(drv) => NoStart(drv')
      /\ DownOK => DownOK'
      /\ UpOK => UpOK'
  BY AirNews DEF StationInv
<1>2. OutsideMayAct
  BY DEF AirAssociates, AirTrouble, AirScanned
<1>3. Label("main") = "none" /\ Label("tud") \in {"none", "scan_wait"}
  BY <1>2, OutsideWaits
<1>4. Label("main")' = Label("main") /\ Label("tud")' = Label("tud")
  BY <1>1 DEF Label
<1>5. HasSsid' /\ TurnsOK' /\ LocOK' /\ ShownOK' /\ BootOK'
  BY <1>1, <1>4 DEF Working, HasSsid, TurnsOK, LocOK, ShownOK, BootOK
<1>6. \A t \in {"main", "tud"} : Ready(t, Label(t))'
  <2>1. Ready("tud", Label("tud")) /\ loc' = loc
    BY <1>1 DEF Working
  <2>2. Ready("tud", Label("tud"))' /\ Ready("main", Label("main"))'
    BY <1>3, <1>4, <2>1 DEF Ready, InScan
  <2> QED BY <2>2
<1>7. Settled'
  BY <1>1 DEF Settled
<1> QED BY <1>5, <1>6, <1>7 DEF TriesInv, Working

----------------------------------------------------------------------------
(* The event handler. *)

\* Whatever the handler does leaves the callers' promises alone.
LEMMA HandlerFrame ==
    ASSUME Working, IsDriver(drv), DOMAIN todo = Tasks, UNCHANGED <<cfg, loc>>,
           \A u \in Tasks \ {"sys_evt"} : todo'[u] = todo[u],
           drv'.sta = drv.sta \/ (drv.sta = "down" /\ drv'.sta = "connecting"), drv'.conf = drv.conf,
           NoStart(drv) => NoStart(drv'),
           st' \notin {"PROVISIONING", "SCANNING"} \/ st' = st
    PROVE  Working'
<1>1. Label("main")' = Label("main") /\ Label("tud")' = Label("tud")
  BY CallersKnown DEF Label
<1>2. TurnsOK'
  BY CallersKnown, MgrAssumption DEF Working, TurnsOK, Tasks
<1>3. HasSsid' /\ LocOK' /\ ShownOK' /\ BootOK'
  BY <1>1 DEF Working, HasSsid, LocOK, ShownOK, BootOK
<1>4. \A t \in {"main", "tud"} : Ready(t, Label(t)) /\ loc'[t] = loc[t] /\ cfg' = cfg /\ Label(t)' = Label(t)
  BY <1>1 DEF Working
<1>5. \A t \in {"main", "tud"} : Ready(t, Label(t))'
  BY <1>4 DEF Ready
<1> QED BY <1>2, <1>3, <1>5 DEF Working

\* on_wifi_event.
LEMMA HandlerTries ==
    ASSUME StationInv, Working, Settled, OnWifiEvent
    PROVE  TriesInv'
<1>1. IsDriver(drv) /\ DOMAIN todo = Tasks /\ HonestInv /\ ~suppress
  BY DEF StationInv, HonestInv
<1>2. /\ UNCHANGED <<cfg, loc>>
      /\ \A t \in Tasks \ {"sys_evt"} : todo'[t] = todo[t]
      /\ drv'.sta = drv.sta \/ (drv.sta = "down" /\ drv'.sta = "connecting")
      /\ drv'.conf = drv.conf
      /\ NoStart(drv) => NoStart(drv')
      /\ st' \notin {"PROVISIONING", "SCANNING"} \/ st' = st
  BY <1>1, HandlerMoves
<1>3. Working'
  BY <1>1, <1>2, HandlerFrame
<1>4. Settled'
  <2>1. SUFFICES ASSUME todo["main"] = <<>>, todo["tud"] = <<>> PROVE DownOK' /\ UpOK'
    BY <1>2, CallersKnown DEF Settled
  <2>2. HasSsid /\ st \notin {"PROVISIONING", "SCANNING"} /\ drv.conf # Blank /\ NoStart(drv) /\ DownOK /\ UpOK
    BY <2>1 DEF Working, Settled, BootOK, ShownOK, Label, InScan
  <2> QED BY <1>1, <2>2, HandlerNews
<1> QED BY <1>3, <1>4 DEF TriesInv

----------------------------------------------------------------------------

\* A configured device boots with its program ahead and nothing else under way.
LEMMA TriesInit == ASSUME Init PROVE TriesInv
<1>1. /\ cfg = CS!Load(NoBlob) /\ drv = WD!Started /\ st = "IDLE"
      /\ todo = [t \in Tasks |-> IF t = "main" THEN BootProgram ELSE <<>>]
      /\ loc = [t \in Tasks |-> NoLocals]
  BY DEF Init, MgrInit
<1>2. HasSsid
  <2>1. 0 \in CS!Slots /\ SeedSsid # Blank
    BY StoreFits, StationAssumption DEF CS!StoreAssumption, CS!Slots, CS!ActiveNone
  <2>2. cfg.active = 0 /\ cfg.count = 1 /\ cfg.profiles[0].ssid = SeedSsid
    BY <1>1, <2>1 DEF CS!Load, CS!Defaults, CS!ClearWifi
  <2> QED BY <2>1, <2>2 DEF HasSsid, CS!ActiveSsid, CS!HasActive, CS!ActiveNone
<1>3. BootProgram = <<"boot", "apply", "apply_check", "boot_check">>
  <2>1. PICK S : S = {"boot", "apply", "apply_check", "boot_check"}
    OBVIOUS
  <2>2. <<"boot">> \in Seq(S) /\ <<"apply", "apply_check">> \in Seq(S) /\ <<"boot_check">> \in Seq(S)
    BY <2>1
  <2>3. PICK s : s = <<"boot">> \o <<"apply", "apply_check">>
    OBVIOUS
  <2>4. s \in Seq(S) /\ Len(s) = 3 /\ s[1] = "boot" /\ s[2] = "apply" /\ s[3] = "apply_check"
    BY <2>2, <2>3, ConcatProperties
  <2>5. PICK p : p = s \o <<"boot_check">>
    OBVIOUS
  <2>6. /\ p \in Seq(S) /\ Len(p) = 4
        /\ p[1] = s[1] /\ p[2] = s[2] /\ p[3] = s[3] /\ p[4] = "boot_check"
    <3>1. PICK e : e = <<"boot_check">>
      OBVIOUS
    <3>2. e \in Seq(S) /\ Len(e) = 1 /\ e[1] = "boot_check" /\ p = s \o e
      BY <2>2, <2>5, <3>1
    <3>3. s \in Seq(S) /\ Len(s) = 3
      BY <2>4
    <3>4. /\ p \in Seq(S) /\ Len(p) = Len(s) + Len(e)
          /\ \A i \in 1..(Len(s) + Len(e)) : p[i] = IF i <= Len(s) THEN s[i] ELSE e[i - Len(s)]
      BY <3>2, <3>3, ConcatProperties
    <3> QED BY <3>2, <3>3, <3>4
  <2>7. p = <<"boot", "apply", "apply_check", "boot_check">>
    BY <2>4, <2>6
  <2> QED BY <2>3, <2>5, <2>7 DEF BootProgram, Apply
<1>4. Label("main") = "boot" /\ Label("tud") = "none" /\ todo["main"] # <<>>
  BY <1>1, <1>3, CallersKnown DEF Label
<1>5. TurnsOK
  BY <1>1, <1>3, CallersKnown DEF TurnsOK, BootPrograms, CommandPrograms, Tasks
<1>6. LocOK
  BY <1>1 DEF LocOK, NoLocals
<1>7. \A t \in {"main", "tud"} : Ready(t, Label(t))
  BY <1>4 DEF Ready, InScan
<1>8. ShownOK /\ BootOK /\ Settled
  BY <1>1, <1>4 DEF ShownOK, BootOK, Settled
<1> QED BY <1>2, <1>5, <1>6, <1>7, <1>8 DEF TriesInv, Working

\* Every step of the station, when the outside is slower than the tasks.
LEMMA TriesStep == ASSUME Prompt, EventsFirst PROVE StationInv /\ TriesInv /\ [Next]_vars => TriesInv'
<1> SUFFICES ASSUME StationInv, TriesInv, [Next]_vars PROVE TriesInv'
  OBVIOUS
<1>1. CASE UNCHANGED vars
  BY <1>1 DEF vars, store, mgr, tasks, TriesInv, Working, Settled, HasSsid, TurnsOK, LocOK, Ready, ShownOK, BootOK,
              NoStart, Label, DownOK, UpOK, Leaving, UpNews
<1>2. CASE panic /\ ~UNCHANGED vars
  BY <1>2 DEF Next, Rest, Boot, BootCheck, OnWifiEvent, OnStart, OnConnected, Arm, ReportOk, OnDisconnected, Retry,
              EvConnect, OnScanDone, NextEvent, At, CallSteps, ApplySteps, ApplyDisconnect, ApplyCheck, ApplyConf,
              ApplyConnect, ScanSteps, ScanEnter, ScanDisconnect, ScanStart, ScanWait, ScanExit, Edit, ScanCmd,
              Command, AirAssociates, AirTrouble, AirScanned, OutsideMayAct
<1>3. CASE ~panic /\ ~UNCHANGED vars
  <2>1. Working /\ Settled
    BY <1>3 DEF TriesInv
  <2>2. CASE Boot \/ BootCheck
    BY <2>1, <2>2, BootTries
  <2>3. CASE OnWifiEvent
    BY <2>1, <2>3, HandlerTries
  <2>4. CASE CallSteps
    BY <2>1, <2>4, ApplyTries, ScanTries DEF CallSteps
  <2>5. CASE Edit \/ ScanCmd
    BY <2>1, <2>5, CommandTries
  <2>6. CASE AirAssociates \/ AirTrouble \/ AirScanned
    BY <2>1, <2>6, AirTries
  <2> QED BY <1>3, <2>2, <2>3, <2>4, <2>5, <2>6 DEF Next, Rest
<1> QED BY <1>1, <1>2, <1>3

LEMMA AtRestSettled ==
    ASSUME StationInv, TriesInv, AtRest, ~panic
    PROVE  /\ drv.sta = "connected" => st = "CONNECTED" /\ link
           /\ drv.sta # "connected" => st = "BAD_AUTH" /\ ~link
<1>1. /\ todo["main"] = <<>> /\ todo["tud"] = <<>> /\ todo["sys_evt"] = <<>> /\ drv.evq = <<>>
      /\ drv.sta \in {"down", "connected"}
  BY CallersKnown DEF AtRest, Idle, StationInv, HonestInv, IsDriver
<1>2. DownOK /\ UpOK
  BY <1>1 DEF TriesInv, Settled
<1>3. ~Leaving(drv) /\ ~UpNews(drv)
  BY <1>1, EmptySeq DEF Leaving, UpNews
<1>4. link => drv.sta = "connected"
  BY <1>3 DEF StationInv, HonestInv
<1> QED BY <1>1, <1>2, <1>3, <1>4 DEF DownOK, UpOK

LEMMA AlwaysTries == ASSUME Prompt, EventsFirst PROVE Spec => [](StationInv /\ TriesInv)
<1>1. Init => StationInv /\ TriesInv
  BY HonestInit, TriesInit
<1>2. StationInv /\ TriesInv /\ [Next]_vars => (StationInv /\ TriesInv)'
  BY HonestStep, TriesStep
<1> QED BY <1>1, <1>2, PTL DEF Spec

\* When tasks are prompt and STA_START is handled before app_main's apply, as wifi_mgr.c seems to take for
\* granted, then for any networks, commands, losses and failures no interleaving of handler,
\* console and boot leaves a configured device at rest without an association, unless its passphrase is wrong.
THEOREM NeverGivesUp == ASSUME Prompt, EventsFirst PROVE Spec => []NeverAbandoned
<1>1. StationInv /\ TriesInv => NeverAbandoned
  BY AtRestSettled DEF NeverAbandoned
<1> QED BY <1>1, AlwaysTries, PTL

LEMMA LinkIsBoolean == Spec => [](link \in BOOLEAN)
<1>1. Init => link \in BOOLEAN
  BY DEF Init, MgrInit
<1>2. link \in BOOLEAN /\ [Next]_vars => (link \in BOOLEAN)'
  <2> SUFFICES ASSUME link \in BOOLEAN, [Next]_vars PROVE link' \in BOOLEAN
    OBVIOUS
  <2>1. link' \in {link, TRUE, link /\ suppress}
    BY DEF vars, mgr, tasks, Next, Rest, Boot, BootCheck, OnWifiEvent, OnStart, OnConnected, Arm, ReportOk,
                OnDisconnected, Retry, EvConnect, OnScanDone, CallSteps, ApplySteps, ApplyDisconnect, ApplyCheck,
                ApplyConf, ApplyConnect, ScanSteps, ScanEnter, ScanDisconnect, ScanStart, ScanWait, ScanExit, Edit,
                ScanCmd, AirAssociates, AirTrouble, AirScanned
  <2> QED BY <2>1
<1> QED BY <1>1, <1>2, PTL DEF Spec

\* Nor, under the same assumptions, with a label, or a link, that does not tell the association.
THEOREM LabelAlwaysTrue == ASSUME Prompt, EventsFirst PROVE Spec => []LabelTrue
<1>1. StationInv /\ TriesInv /\ link \in BOOLEAN => LabelTrue
  BY AtRestSettled DEF LabelTrue
<1> QED BY <1>1, AlwaysTries, LinkIsBoolean, PTL
================================================================================
