----------------------------- MODULE WifiMgrProofs -----------------------------
(***************************************************************************)
(* Proofs about the Wi-Fi manager and its driver, for every composition    *)
(* that calls it: what each driver call, each event and each step of the   *)
(* handler does to the news of the association's state.                    *)
(***************************************************************************)
EXTENDS WifiMgr, SequenceTheorems, TLAPS

\* What the argument needs of the driver's record: its state and a queue of events.
IsDriver(d) ==
    d \in [sta : {"down", "connecting", "connected"}, target : {d.target}, conf : {d.conf},
           mode : {d.mode}, scanning : {d.scanning}, evq : Seq(WD!Events)]

\* An event that ends an association is in the queue.
Leaving(d) == \E i \in 1..Len(d.evq) : d.evq[i] \in WD!Reasons

\* A queued "connected" is still true, or an event that ends the association is queued behind it.
Answered(d) ==
    \A i \in 1..Len(d.evq) :
        d.evq[i] = "connected" => \/ d.sta = "connected"
                                  \/ \E j \in (i + 1)..Len(d.evq) : d.evq[j] \in WD!Reasons

\* The programs the event loop runs.
HandlerPrograms == {<<>>, <<"ev_arm", "ev_ok">>, <<"ev_ok">>, <<"ev_connect">>, <<"ev_retry">>}

\* The link is up only over an association or with its end still to be told; the handler that is about to
\* raise it counts as having raised it.
HonestInv ==
    /\ IsDriver(drv)
    /\ DOMAIN todo = Tasks
    /\ todo["sys_evt"] \in HandlerPrograms
    /\ Answered(drv)
    /\ link \/ todo["sys_evt"] = <<"ev_arm", "ev_ok">> => drv.sta = "connected" \/ Leaving(drv)

\* The step from d to e lets no association end without an event.
Follows(d, e) ==
    /\ IsDriver(e)
    /\ Answered(d) => Answered(e)
    /\ d.sta = "connected" \/ Leaving(d) => e.sta = "connected" \/ Leaving(e)

----------------------------------------------------------------------------
(* The driver. *)

\* A step that leaves association and queue alone.
LEMMA SameFollows ==
    ASSUME NEW d, NEW e, IsDriver(d), IsDriver(e), e.sta = d.sta, e.evq = d.evq
    PROVE  Follows(d, e)
  BY DEF Follows, Answered, Leaving

\* A step out of a state that is no association, with the queue left alone.
LEMMA QuietFollows ==
    ASSUME NEW d, NEW e, IsDriver(d), IsDriver(e), d.sta # "connected", e.evq = d.evq
    PROVE  Follows(d, e)
  BY DEF Follows, Answered, Leaving

\* A step that posts an event: "connected" only over an association, and a reason when it ends one.
LEMMA PostFollows ==
    ASSUME NEW d, NEW e, NEW x \in WD!Events, IsDriver(d), IsDriver(e),
           e.evq = Append(d.evq, x),
           d.sta = "connected" => e.sta = "connected" \/ x \in WD!Reasons,
           x = "connected" => e.sta = "connected"
    PROVE  Follows(d, e)
<1>1. /\ Len(e.evq) = Len(d.evq) + 1 /\ Len(d.evq) \in Nat
      /\ e.evq[Len(e.evq)] = x
      /\ \A i \in 1..Len(d.evq) : e.evq[i] = d.evq[i]
  BY AppendProperties DEF IsDriver
<1>2. Leaving(d) => Leaving(e)
  BY <1>1 DEF Leaving
<1>3. x \in WD!Reasons => Leaving(e)
  BY <1>1 DEF Leaving
<1>4. Answered(d) => Answered(e)
  BY <1>1 DEF Answered
<1> QED BY <1>2, <1>3, <1>4 DEF Follows

\* Taking the oldest event off the queue.
LEMMA TailAnswers ==
    ASSUME NEW d, IsDriver(d), d.evq # <<>>, Answered(d),
           NEW e, e = [d EXCEPT !.evq = Tail(@)]
    PROVE  /\ IsDriver(e) /\ Answered(e) /\ e.sta = d.sta
           /\ Head(d.evq) \notin WD!Reasons /\ Leaving(d) => Leaving(e)
           /\ Head(d.evq) = "connected" => e.sta = "connected" \/ Leaving(e)
<1>1. /\ d.evq \in Seq(WD!Events) /\ Len(d.evq) \in Nat \ {0} /\ Head(d.evq) = d.evq[1]
      /\ Tail(d.evq) \in Seq(WD!Events) /\ Len(Tail(d.evq)) = Len(d.evq) - 1
      /\ \A i \in 1..Len(Tail(d.evq)) : Tail(d.evq)[i] = d.evq[i + 1]
  BY HeadTailProperties, EmptySeq DEF IsDriver
<1>2. IsDriver(e) /\ e.sta = d.sta /\ e.evq = Tail(d.evq)
  BY <1>1 DEF IsDriver
<1>3. \A j \in 2..Len(d.evq) : j - 1 \in 1..Len(e.evq) /\ e.evq[j - 1] = d.evq[j]
  BY <1>1, <1>2
<1>4. Answered(e)
  <2>1. SUFFICES ASSUME NEW i \in 1..Len(e.evq), e.evq[i] = "connected", d.sta # "connected"
                 PROVE  \E j \in (i + 1)..Len(e.evq) : e.evq[j] \in WD!Reasons
    BY <1>2 DEF Answered
  <2>2. i + 1 \in 1..Len(d.evq) /\ d.evq[i + 1] = "connected"
    BY <1>1, <1>2, <2>1
  <2>3. PICK j \in ((i + 1) + 1)..Len(d.evq) : d.evq[j] \in WD!Reasons
    BY <2>1, <2>2 DEF Answered
  <2>4. j - 1 \in (i + 1)..Len(e.evq) /\ e.evq[j - 1] \in WD!Reasons
    BY <1>1, <1>2, <1>3, <2>3
  <2> QED BY <2>4
<1>5. Head(d.evq) \notin WD!Reasons /\ Leaving(d) => Leaving(e)
  BY <1>1, <1>3 DEF Leaving
<1>6. Head(d.evq) = "connected" => e.sta = "connected" \/ Leaving(e)
  <2>1. SUFFICES ASSUME Head(d.evq) = "connected", d.sta # "connected"
                 PROVE  Leaving(e)
    BY <1>2
  <2>2. 1 \in 1..Len(d.evq) /\ d.evq[1] = "connected"
    BY <1>1, <2>1
  <2>3. PICK j \in (1 + 1)..Len(d.evq) : d.evq[j] \in WD!Reasons
    BY <2>1, <2>2 DEF Answered
  <2>4. j - 1 \in 1..Len(e.evq) /\ e.evq[j - 1] \in WD!Reasons
    BY <1>1, <1>3, <2>3
  <2> QED BY <2>4 DEF Leaving
<1> QED BY <1>2, <1>4, <1>5, <1>6

\* esp_wifi_disconnect.
LEMMA DisconnectFollows == ASSUME NEW d, IsDriver(d) PROVE Follows(d, WD!Disconnect(d))
<1>1. CASE d.sta = "down"
  BY <1>1, SameFollows DEF WD!Disconnect
<1>2. CASE d.sta # "down"
  <2>1. PICK e : e = WD!Disconnect(d)
    OBVIOUS
  <2>2. IsDriver(e) /\ e.evq = Append(d.evq, "leave") /\ "leave" \in WD!Events /\ "leave" \in WD!Reasons
    BY <1>2, <2>1, AppendProperties
       DEF WD!Disconnect, WD!LeaveNetwork, WD!Post, WD!Events, WD!Reasons, IsDriver
  <2> QED BY <2>1, <2>2, PostFollows
<1> QED BY <1>1, <1>2

\* esp_wifi_connect.
LEMMA ConnectFollows == ASSUME NEW d, IsDriver(d) PROVE Follows(d, WD!Connect(d))
<1>1. PICK e : e = WD!Connect(d)
  OBVIOUS
<1>2. CASE ~WD!ConnectOk(d)
  BY <1>2, SameFollows DEF WD!Connect
<1>3. CASE WD!ConnectOk(d) /\ ~d.scanning
  <2>1. IsDriver(e) /\ e.evq = d.evq /\ d.sta # "connected"
    BY <1>1, <1>3 DEF WD!Connect, WD!ConnectOk, WD!AbortScan, IsDriver
  <2> QED BY <1>1, <2>1, QuietFollows
<1>4. CASE WD!ConnectOk(d) /\ d.scanning
  <2>1. /\ IsDriver(e) /\ e.evq = Append(d.evq, "scan_done") /\ d.sta # "connected"
        /\ "scan_done" \in WD!Events
    BY <1>1, <1>4, AppendProperties
       DEF WD!Connect, WD!ConnectOk, WD!AbortScan, WD!Post, WD!Events, IsDriver
  <2> QED BY <1>1, <2>1, PostFollows
<1> QED BY <1>2, <1>3, <1>4

\* The other calls into the driver.
LEMMA CallsFollow ==
    ASSUME NEW d, IsDriver(d), NEW s, NEW m
    PROVE  /\ Follows(d, WD!SetConfig(d, s))
           /\ Follows(d, WD!SetConfig(WD!SetMode(d, m), s))
           /\ Follows(d, WD!SetMode(d, m))
           /\ Follows(d, WD!ScanStart(d)) /\ Follows(d, WD!ScanStop(d))
           /\ Follows(d, d)
<1>1. IsDriver(WD!SetConfig(d, s)) /\ WD!SetConfig(d, s).sta = d.sta /\ WD!SetConfig(d, s).evq = d.evq
  BY DEF WD!SetConfig, IsDriver
<1>2. PICK e : e = WD!SetConfig(WD!SetMode(d, m), s)
  OBVIOUS
<1>3. IsDriver(e) /\ e.sta = d.sta /\ e.evq = d.evq
  BY <1>2 DEF WD!SetConfig, WD!SetMode, IsDriver
<1>4. IsDriver(WD!ScanStart(d)) /\ WD!ScanStart(d).sta = d.sta /\ WD!ScanStart(d).evq = d.evq
  BY DEF WD!ScanStart, IsDriver
<1>5. IsDriver(WD!ScanStop(d)) /\ WD!ScanStop(d).sta = d.sta /\ WD!ScanStop(d).evq = d.evq
  BY DEF WD!ScanStop, IsDriver
<1>6. IsDriver(WD!SetMode(d, m)) /\ WD!SetMode(d, m).sta = d.sta /\ WD!SetMode(d, m).evq = d.evq
  BY DEF WD!SetMode, IsDriver
<1> QED BY <1>1, <1>2, <1>3, <1>4, <1>5, <1>6, SameFollows

\* The air: attempts succeed and fail, associations are lost, scans end.
LEMMA AirFollows ==
    ASSUME NEW d, IsDriver(d),
           NEW e \in WD!Associated(d) \cup WD!Refused(d) \cup WD!Lost(d) \cup WD!Scanned(d)
    PROVE  Follows(d, e)
<1>1. CASE e \in WD!Associated(d)
  <2>1. PICK a : a = [d EXCEPT !.sta = "connected"]
    OBVIOUS
  <2>2. e = [a EXCEPT !.evq = Append(a.evq, "connected")]
    BY <1>1, <2>1 DEF WD!Associated, WD!Post
  <2>3. IsDriver(a) /\ a.evq = d.evq /\ a.sta = "connected" /\ "connected" \in WD!Events
    BY <2>1 DEF IsDriver, WD!Events
  <2>4. IsDriver(e) /\ e.evq = Append(d.evq, "connected") /\ e.sta = "connected"
    BY <2>2, <2>3, AppendProperties DEF IsDriver
  <2> QED BY <2>3, <2>4, PostFollows
<1>2. CASE e \in WD!Refused(d) \cup WD!Lost(d)
  <2>1. PICK r \in WD!Reasons : e = WD!LeaveNetwork(d, r)
    BY <1>2 DEF WD!Refused, WD!Lost, WD!Reasons
  <2>2. IsDriver(e) /\ e.evq = Append(d.evq, r) /\ r \in WD!Events /\ r # "connected"
    BY <2>1, AppendProperties DEF WD!LeaveNetwork, WD!Post, WD!Events, WD!Reasons, IsDriver
  <2> QED BY <2>1, <2>2, PostFollows
<1>3. CASE e \in WD!Scanned(d)
  <2>1. PICK a : a = [d EXCEPT !.scanning = FALSE]
    OBVIOUS
  <2>2. e = [a EXCEPT !.evq = Append(a.evq, "scan_done")]
    BY <1>3, <2>1 DEF WD!Scanned, WD!AbortScan, WD!Post
  <2>3. IsDriver(a) /\ a.evq = d.evq /\ a.sta = d.sta /\ "scan_done" \in WD!Events
    BY <2>1 DEF IsDriver, WD!Events
  <2>4. IsDriver(e) /\ e.evq = Append(d.evq, "scan_done") /\ e.sta = d.sta
    BY <2>2, <2>3, AppendProperties DEF IsDriver
  <2> QED BY <2>3, <2>4, PostFollows
<1> QED BY <1>1, <1>2, <1>3

----------------------------------------------------------------------------
(* The tasks. *)

\* A step of any task but the event loop keeps the invariant when the driver follows and the link is not raised.
LEMMA CallerKeeps ==
    ASSUME HonestInv, Follows(drv, drv'), link' => link,
           DOMAIN todo' = DOMAIN todo, todo'["sys_evt"] = todo["sys_evt"]
    PROVE  HonestInv'
  BY DEF HonestInv, Follows

\* What a label of a caller does to the programs.
LEMMA DoElsewhere ==
    ASSUME DOMAIN todo = Tasks, NEW t \in Callers, NEW c, Do(t, c)
    PROVE  DOMAIN todo' = DOMAIN todo /\ todo'["sys_evt"] = todo["sys_evt"]
  BY MgrAssumption DEF Do, Tasks

\* wifi_mgr_apply.
LEMMA ApplyHonest == ASSUME HonestInv, NEW t \in Callers, ApplySteps(t) PROVE HonestInv'
<1>0. DOMAIN todo = Tasks /\ IsDriver(drv)
  BY DEF HonestInv
<1>1. CASE ApplyDisconnect(t)
  <2>1. Do(t, <<>>) /\ drv' = WD!Disconnect(drv) /\ link' = link
    BY <1>1 DEF ApplyDisconnect
  <2> QED BY <1>0, <2>1, DoElsewhere, DisconnectFollows, CallerKeeps
<1>2. CASE ApplyCheck(t)
  <2>1. drv' = drv /\ (link' => link)
        /\ (Do(t, <<>>) \/ Do(t, <<"apply_conf", "apply_connect">>))
    BY <1>2 DEF ApplyCheck
  <2> QED BY <1>0, <2>1, DoElsewhere, CallsFollow, CallerKeeps
<1>3. CASE ApplyConf(t)
  <2>1. /\ Do(t, <<>>) /\ link' = link
        /\ drv' = drv \/ drv' = WD!SetConfig(WD!SetMode(drv, "STA"), Pointee(t))
    BY <1>3 DEF ApplyConf
  <2> QED BY <1>0, <2>1, DoElsewhere, CallsFollow, CallerKeeps
<1>4. CASE ApplyConnect(t)
  <2>1. Do(t, <<>>) /\ drv' = WD!Connect(drv) /\ link' = link
    BY <1>4 DEF ApplyConnect
  <2> QED BY <1>0, <2>1, DoElsewhere, ConnectFollows, CallerKeeps
<1> QED BY <1>1, <1>2, <1>3, <1>4 DEF ApplySteps

\* wifi_mgr_scan.
LEMMA ScanHonest == ASSUME HonestInv, NEW t \in Callers, ScanSteps(t) PROVE HonestInv'
<1>0. DOMAIN todo = Tasks /\ IsDriver(drv)
  BY DEF HonestInv
<1>1. CASE ScanEnter(t)
  <2>1. Do(t, <<>>) /\ drv' = drv /\ (link' => link)
    BY <1>1 DEF ScanEnter
  <2> QED BY <1>0, <2>1, DoElsewhere, CallsFollow, CallerKeeps
<1>2. CASE ScanDisconnect(t)
  <2>1. Do(t, <<>>) /\ drv' = WD!Disconnect(drv) /\ link' = link
    BY <1>2 DEF ScanDisconnect
  <2> QED BY <1>0, <2>1, DoElsewhere, DisconnectFollows, CallerKeeps
<1>3. CASE ScanStart(t)
  <2>1. /\ link' = link
        /\ \/ Do(t, <<"scan_wait">>) /\ drv' = WD!ScanStart(drv)
           \/ Do(t, <<"scan_exit">>) /\ drv' = drv
    BY <1>3 DEF ScanStart
  <2> QED BY <1>0, <2>1, DoElsewhere, CallsFollow, CallerKeeps
<1>4. CASE ScanWait(t)
  <2>1. /\ Do(t, <<"scan_exit">>) /\ link' = link
        /\ drv' = drv \/ drv' = WD!ScanStop(drv)
    BY <1>4 DEF ScanWait
  <2> QED BY <1>0, <2>1, DoElsewhere, CallsFollow, CallerKeeps
<1>5. CASE ScanExit(t)
  <2>1. /\ UNCHANGED <<drv, link>>
        /\ \E c : Do(t, c)
    BY <1>5 DEF ScanExit
  <2> QED BY <1>0, <2>1, DoElsewhere, CallsFollow, CallerKeeps
<1> QED BY <1>1, <1>2, <1>3, <1>4, <1>5 DEF ScanSteps

\* wifi_mgr_test_connect.
LEMMA TestHonest == ASSUME HonestInv, NEW t \in Callers, TestSteps(t) PROVE HonestInv'
<1>0. DOMAIN todo = Tasks /\ IsDriver(drv)
  BY DEF HonestInv
<1>1. CASE TestDisconnect(t)
  <2>1. Do(t, <<>>) /\ drv' = WD!Disconnect(drv) /\ link' = link
    BY <1>1 DEF TestDisconnect
  <2> QED BY <1>0, <2>1, DoElsewhere, DisconnectFollows, CallerKeeps
<1>2. CASE TestConf(t)
  <2>1. /\ Do(t, <<"test_connect">>) /\ link' = link
        /\ drv' = drv \/ drv' = WD!SetConfig(drv, loc[t].net)
    BY <1>2 DEF TestConf
  <2> QED BY <1>0, <2>1, DoElsewhere, CallsFollow, CallerKeeps
<1>3. CASE TestConnect(t)
  <2>1. /\ drv' = WD!Connect(drv) /\ link' = link
        /\ Do(t, <<"test_wait">>) \/ Do(t, <<>>)
    BY <1>3 DEF TestConnect
  <2> QED BY <1>0, <2>1, DoElsewhere, ConnectFollows, CallerKeeps
<1>4. CASE TestWait(t)
  <2>1. /\ Do(t, <<>>) /\ link' = link
        /\ drv' = drv \/ drv' = WD!Disconnect(drv)
    BY <1>4 DEF TestWait
  <2> QED BY <1>0, <2>1, DoElsewhere, CallsFollow, DisconnectFollows, CallerKeeps
<1> QED BY <1>1, <1>2, <1>3, <1>4 DEF TestSteps

\* The ends of app_main.
LEMMA BootHonest == ASSUME HonestInv, "main" \in Callers, Boot \/ BootCheck PROVE HonestInv'
<1>1. /\ drv' = drv /\ link' = link /\ Do("main", <<>>)
      /\ DOMAIN todo = Tasks /\ IsDriver(drv)
  BY DEF Boot, BootCheck, mgr, HonestInv
<1> QED BY <1>1, DoElsewhere, CallsFollow, CallerKeeps

\* The air.
LEMMA AirHonest ==
    ASSUME HonestInv, AirAssociates \/ AirTrouble \/ AirScanned
    PROVE  HonestInv'
<1>1. /\ drv' \in WD!Associated(drv) \cup WD!Refused(drv) \cup WD!Lost(drv) \cup WD!Scanned(drv)
      /\ UNCHANGED <<link, todo>>
  BY DEF AirAssociates, AirTrouble, AirScanned, tasks
<1>2. Follows(drv, drv')
  BY <1>1, AirFollows DEF HonestInv
<1> QED BY <1>1, <1>2, CallerKeeps

\* on_wifi_event: taking an event, and the steps after it.
LEMMA HandlerHonest == ASSUME HonestInv, suppress => ~link, OnWifiEvent PROVE HonestInv'
<1>0. /\ IsDriver(drv) /\ "sys_evt" \in DOMAIN todo /\ DOMAIN todo = Tasks
      /\ Answered(drv)
  BY DEF HonestInv, Tasks
<1>1. ASSUME NEW x, NextEvent(x), drv' = Popped
      PROVE  /\ drv.evq # <<>> /\ Head(drv.evq) = x /\ todo["sys_evt"] = <<>>
             /\ IsDriver(drv') /\ Answered(drv') /\ drv'.sta = drv.sta
             /\ x \notin WD!Reasons /\ Leaving(drv) => Leaving(drv')
             /\ x = "connected" => drv'.sta = "connected" \/ Leaving(drv')
  BY <1>0, <1>1, TailAnswers DEF NextEvent, Popped, Idle
<1>2. CASE OnStart
  <2>1. /\ NextEvent("start") /\ drv' = Popped /\ link' = link
        /\ todo' = todo \/ todo' = [todo EXCEPT !["sys_evt"] = <<"ev_connect">>]
    BY <1>2 DEF OnStart, Start
  <2>2. "start" \notin WD!Reasons
    BY DEF WD!Reasons
  <2> QED BY <1>0, <1>1, <2>1, <2>2 DEF HonestInv, HandlerPrograms
<1>3. CASE OnConnected
  <2>1. /\ NextEvent("connected") /\ drv' = Popped /\ link' = link
        /\ \/ todo' = [todo EXCEPT !["sys_evt"] = <<"ev_arm", "ev_ok">>]
           \/ todo' = [todo EXCEPT !["sys_evt"] = <<"ev_ok">>]
    BY <1>0, <1>3 DEF OnConnected, Start
  <2> QED BY <1>0, <1>1, <2>1 DEF HonestInv, HandlerPrograms
<1>4. CASE Arm
  <2>1. todo["sys_evt"] = <<"ev_arm", "ev_ok">>
    BY <1>4 DEF Arm, At, HonestInv, HandlerPrograms
  <2>2. todo' = [todo EXCEPT !["sys_evt"] = <<"ev_ok">>]
    BY <1>4, <2>1 DEF Arm, Do
  <2> QED BY <1>0, <1>4, <2>1, <2>2 DEF Arm, HonestInv, HandlerPrograms
<1>5. CASE ReportOk
  <2>1. todo["sys_evt"] = <<"ev_ok">>
    BY <1>5 DEF ReportOk, At, HonestInv, HandlerPrograms
  <2>2. todo' = [todo EXCEPT !["sys_evt"] = <<>>]
    BY <1>5, <2>1 DEF ReportOk, Do
  <2> QED BY <1>0, <1>5, <2>1, <2>2 DEF ReportOk, HonestInv, HandlerPrograms
<1>6. CASE OnDisconnected
  <2>1. PICK r \in WD!Reasons : NextEvent(r)
    BY <1>6 DEF OnDisconnected
  <2>2. /\ drv' = Popped /\ ~link'
        /\ todo' = [todo EXCEPT !["sys_evt"] = <<"ev_retry">>]
    BY <1>0, <1>6 DEF OnDisconnected, Start
  <2> QED BY <1>0, <1>1, <2>1, <2>2 DEF HonestInv, HandlerPrograms
<1>7. CASE Retry
  <2>1. todo["sys_evt"] = <<"ev_retry">>
    BY <1>7 DEF Retry, At, HonestInv, HandlerPrograms
  <2>2. \/ todo' = [todo EXCEPT !["sys_evt"] = <<>>]
        \/ todo' = [todo EXCEPT !["sys_evt"] = <<"ev_connect">>]
    BY <1>7, <2>1 DEF Retry, Do
  <2> QED BY <1>0, <1>7, <2>1, <2>2 DEF Retry, HonestInv, HandlerPrograms
<1>8. CASE EvConnect
  <2>1. todo["sys_evt"] = <<"ev_connect">>
    BY <1>8 DEF EvConnect, At, HonestInv, HandlerPrograms
  <2>2. todo' = [todo EXCEPT !["sys_evt"] = <<>>]
    BY <1>8, <2>1 DEF EvConnect, Do
  <2>3. Follows(drv, drv') /\ link' = link
    BY <1>0, <1>8, ConnectFollows DEF EvConnect
  <2> QED BY <1>0, <2>1, <2>2, <2>3 DEF HonestInv, HandlerPrograms, Follows
<1>9. CASE OnScanDone
  <2>1. NextEvent("scan_done") /\ drv' = Popped /\ UNCHANGED <<link, todo>>
    BY <1>9 DEF OnScanDone, tasks
  <2>2. "scan_done" \notin WD!Reasons
    BY DEF WD!Reasons
  <2> QED BY <1>0, <1>1, <2>1, <2>2 DEF HonestInv, HandlerPrograms
<1> QED BY <1>2, <1>3, <1>4, <1>5, <1>6, <1>7, <1>8, <1>9 DEF OnWifiEvent

----------------------------------------------------------------------------
(* The news. *)

\* What a task is about to execute.
Label(t) == IF todo[t] = <<>> THEN "none" ELSE Head(todo[t])

InScan == {"scan_disconnect", "scan_start", "scan_wait", "scan_exit"}

\* The driver's start event is taken.
NoStart(d) == \A i \in 1..Len(d.evq) : d.evq[i] # "start"

\* A "connected" is queued that no end of the association follows.
UpNews(d) ==
    \E i \in 1..Len(d.evq) : /\ d.evq[i] = "connected"
                             /\ \A j \in (i + 1)..Len(d.evq) : d.evq[j] \notin WD!Reasons

\* Without an association or attempt, the handler has still to hear of it, or is about to try again, or
\* knows the passphrase to be wrong.
DownOK ==
    drv.sta = "down" =>
        \/ Leaving(drv)
        \/ todo["sys_evt"] \in {<<"ev_retry">>, <<"ev_connect">>}
        \/ todo["sys_evt"] = <<>> /\ st = "BAD_AUTH"

\* With an association, the handler has still to hear of it, or has shown it and brought up the link or
\* is about to.
UpOK ==
    drv.sta = "connected" =>
        \/ UpNews(drv)
        \/ /\ ~Leaving(drv) /\ st = "CONNECTED"
           /\ \/ todo["sys_evt"] = <<"ev_arm", "ev_ok">>
              \/ link /\ todo["sys_evt"] \in {<<"ev_ok">>, <<>>}

LEMMA PostNews ==
    ASSUME NEW d, NEW e, NEW x \in WD!Events, IsDriver(d), IsDriver(e), e.evq = Append(d.evq, x)
    PROVE  /\ x # "start" /\ NoStart(d) => NoStart(e)
           /\ x \in WD!Reasons => Leaving(e)
           /\ Leaving(d) => Leaving(e)
           /\ x \notin WD!Reasons /\ ~Leaving(d) => ~Leaving(e)
           /\ x \notin WD!Reasons /\ UpNews(d) => UpNews(e)
           /\ x = "connected" => UpNews(e)
<1>1. /\ Len(e.evq) = Len(d.evq) + 1 /\ Len(d.evq) \in Nat
      /\ e.evq[Len(e.evq)] = x
      /\ \A i \in 1..Len(d.evq) : e.evq[i] = d.evq[i]
  BY AppendProperties DEF IsDriver
<1>2. \A i \in 1..Len(e.evq) : i \in 1..Len(d.evq) \/ (i = Len(e.evq) /\ e.evq[i] = x)
  BY <1>1
<1>3. x # "start" /\ NoStart(d) => NoStart(e)
  BY <1>1, <1>2 DEF NoStart
<1>4. x \in WD!Reasons => Leaving(e)
  BY <1>1 DEF Leaving
<1>5. Leaving(d) => Leaving(e)
  BY <1>1 DEF Leaving
<1>6. x \notin WD!Reasons /\ ~Leaving(d) => ~Leaving(e)
  BY <1>1, <1>2 DEF Leaving
<1>7. ASSUME x \notin WD!Reasons, UpNews(d) PROVE UpNews(e)
  <2>1. PICK i \in 1..Len(d.evq) : d.evq[i] = "connected" /\ \A j \in (i + 1)..Len(d.evq) : d.evq[j] \notin WD!Reasons
    BY <1>7 DEF UpNews
  <2>2. \A j \in (i + 1)..Len(e.evq) : j \in (i + 1)..Len(d.evq) \/ j = Len(e.evq)
    BY <1>1
  <2>3. \A j \in (i + 1)..Len(e.evq) : e.evq[j] \notin WD!Reasons
    BY <1>1, <1>2, <1>7, <2>1, <2>2
  <2> QED BY <1>1, <2>1, <2>3 DEF UpNews
<1>8. ASSUME x = "connected" PROVE UpNews(e)
  <2>1. Len(e.evq) \in 1..Len(e.evq) /\ \A j \in (Len(e.evq) + 1)..Len(e.evq) : FALSE
    BY <1>1
  <2> QED BY <1>1, <1>8, <2>1 DEF UpNews
<1> QED BY <1>3, <1>4, <1>5, <1>6, <1>7, <1>8

\* Taking the oldest event off the queue.
LEMMA TailNews ==
    ASSUME NEW d, IsDriver(d), d.evq # <<>>, NEW e, e = [d EXCEPT !.evq = Tail(@)]
    PROVE  /\ NoStart(d) => NoStart(e) /\ Head(d.evq) # "start"
           /\ ~Leaving(d) => ~Leaving(e) /\ Head(d.evq) \notin WD!Reasons
           /\ UpNews(d) => UpNews(e) \/ (Head(d.evq) = "connected" /\ ~Leaving(e))
<1>1. /\ d.evq \in Seq(WD!Events) /\ Len(d.evq) \in Nat \ {0} /\ Head(d.evq) = d.evq[1]
      /\ Len(Tail(d.evq)) = Len(d.evq) - 1
      /\ \A i \in 1..Len(Tail(d.evq)) : Tail(d.evq)[i] = d.evq[i + 1]
  BY HeadTailProperties, EmptySeq DEF IsDriver
<1>2. e.evq = Tail(d.evq)
  BY DEF IsDriver
<1>3. /\ \A i \in 1..Len(e.evq) : i + 1 \in 1..Len(d.evq) /\ e.evq[i] = d.evq[i + 1]
      /\ \A j \in 2..Len(d.evq) : j - 1 \in 1..Len(e.evq) /\ e.evq[j - 1] = d.evq[j]
      /\ 1 \in 1..Len(d.evq)
  BY <1>1, <1>2
<1>4. NoStart(d) => NoStart(e) /\ Head(d.evq) # "start"
  BY <1>1, <1>3 DEF NoStart
<1>5. ~Leaving(d) => ~Leaving(e) /\ Head(d.evq) \notin WD!Reasons
  BY <1>1, <1>3 DEF Leaving
<1>6. ASSUME UpNews(d) PROVE UpNews(e) \/ (Head(d.evq) = "connected" /\ ~Leaving(e))
  <2>1. PICK i \in 1..Len(d.evq) : d.evq[i] = "connected" /\ \A j \in (i + 1)..Len(d.evq) : d.evq[j] \notin WD!Reasons
    BY <1>6 DEF UpNews
  <2>2. CASE i = 1
    <3>1. \A k \in 1..Len(e.evq) : k + 1 \in (i + 1)..Len(d.evq) /\ e.evq[k] = d.evq[k + 1]
      BY <1>1, <1>2, <1>3, <2>2
    <3>2. ~Leaving(e)
      BY <2>1, <3>1 DEF Leaving
    <3> QED BY <1>1, <2>1, <2>2, <3>2
  <2>3. CASE i # 1
    <3>1. i - 1 \in 1..Len(e.evq) /\ e.evq[i - 1] = "connected"
      BY <1>1, <1>3, <2>1, <2>3
    <3>2. \A k \in ((i - 1) + 1)..Len(e.evq) : k + 1 \in (i + 1)..Len(d.evq) /\ e.evq[k] = d.evq[k + 1]
      BY <1>1, <1>2, <1>3, <2>3
    <3>3. \A k \in ((i - 1) + 1)..Len(e.evq) : e.evq[k] \notin WD!Reasons
      BY <2>1, <3>2
    <3> QED BY <3>1, <3>3 DEF UpNews
  <2> QED BY <2>2, <2>3
<1> QED BY <1>4, <1>5, <1>6


\* esp_wifi_disconnect.
LEMMA Disconnected ==
    ASSUME NEW d, IsDriver(d), NEW e, e = WD!Disconnect(d)
    PROVE  IsDriver(e) /\ e.sta = "down" /\ e.conf = d.conf /\ (NoStart(d) => NoStart(e))
<1>1. IsDriver(e)
  BY DisconnectFollows DEF Follows
<1>2. CASE d.sta = "down"
  BY <1>1, <1>2 DEF WD!Disconnect
<1>3. CASE d.sta # "down"
  <2>1. e.evq = Append(d.evq, "leave") /\ e.sta = "down" /\ e.conf = d.conf /\ "leave" \in WD!Events
    BY <1>3 DEF WD!Disconnect, WD!LeaveNetwork, WD!Post, WD!Events, WD!Reasons, IsDriver
  <2> QED BY <1>1, <2>1, PostNews
<1> QED BY <1>2, <1>3

\* esp_wifi_connect: with a configuration it starts an attempt unless one or an association exists.
LEMMA Connected ==
    ASSUME NEW d, IsDriver(d), NEW e, e = WD!Connect(d)
    PROVE  /\ IsDriver(e) /\ e.conf = d.conf
           /\ e.sta = IF d.sta = "down" /\ d.conf # Blank THEN "connecting" ELSE d.sta
           /\ NoStart(d) => NoStart(e)
           /\ UpNews(d) => UpNews(e)
           /\ Leaving(e) <=> Leaving(d)
<1>1. IsDriver(e)
  BY ConnectFollows DEF Follows
<1>2. CASE ~WD!ConnectOk(d)
  BY <1>1, <1>2 DEF WD!Connect, WD!ConnectOk
<1>3. CASE WD!ConnectOk(d) /\ ~d.scanning
  <2>1. e.evq = d.evq /\ e.conf = d.conf /\ e.sta = "connecting"
    BY <1>3 DEF WD!Connect, WD!AbortScan, IsDriver
  <2> QED BY <1>1, <1>3, <2>1 DEF WD!ConnectOk, NoStart, UpNews, Leaving
<1>4. CASE WD!ConnectOk(d) /\ d.scanning
  <2>1. e.evq = Append(d.evq, "scan_done") /\ e.conf = d.conf /\ e.sta = "connecting"
    BY <1>4 DEF WD!Connect, WD!AbortScan, WD!Post, IsDriver
  <2>2. "scan_done" \in WD!Events /\ "scan_done" \notin WD!Reasons
    BY DEF WD!Events, WD!Reasons
  <2> QED BY <1>1, <1>4, <2>1, <2>2, PostNews DEF WD!ConnectOk
<1> QED BY <1>2, <1>3, <1>4

\* esp_wifi_set_mode and esp_wifi_set_config.
LEMMA Configured ==
    ASSUME NEW d, IsDriver(d), NEW s, NEW m, NEW e, e = WD!SetConfig(WD!SetMode(d, m), s)
    PROVE  e.sta = d.sta /\ e.evq = d.evq /\ e.conf = s
<1>1. PICK f : f = WD!SetMode(d, m)
  OBVIOUS
<1>2. f \in [sta : {d.sta}, target : {d.target}, conf : {d.conf}, mode : {m}, scanning : {d.scanning}, evq : {d.evq}]
  BY <1>1 DEF WD!SetMode, IsDriver
<1>3. e = [f EXCEPT !.conf = s]
  BY <1>1 DEF WD!SetConfig
<1> QED BY <1>2, <1>3

\* The handler takes an event off the queue.
LEMMA Takes ==
    ASSUME HonestInv, NEW x, NextEvent(x), NEW e, e = Popped
    PROVE  /\ IsDriver(e) /\ e.sta = drv.sta /\ e.conf = drv.conf /\ todo["sys_evt"] = <<>>
           /\ NoStart(drv) => NoStart(e) /\ x # "start"
           /\ ~Leaving(drv) => ~Leaving(e) /\ x \notin WD!Reasons
           /\ x \notin WD!Reasons /\ Leaving(drv) => Leaving(e)
           /\ UpNews(drv) => UpNews(e) \/ (x = "connected" /\ ~Leaving(e))
           /\ x = "connected" => e.sta = "connected" \/ Leaving(e)
<1>1. IsDriver(drv) /\ Answered(drv) /\ drv.evq # <<>> /\ Head(drv.evq) = x /\ todo["sys_evt"] = <<>>
  BY DEF HonestInv, NextEvent, Idle
<1>2. e = [drv EXCEPT !.evq = Tail(@)]
  BY DEF Popped
<1>3. e.conf = drv.conf
  BY <1>1, <1>2 DEF IsDriver
<1> QED BY <1>1, <1>2, <1>3, TailAnswers, TailNews

\* What a step of the handler leaves alone, and what it never does to the driver and the label.
LEMMA HandlerMoves ==
    ASSUME HonestInv, OnWifiEvent
    PROVE  /\ UNCHANGED <<cfg, nvs, suppress, loc, panic>>
           /\ \A t \in Tasks \ {"sys_evt"} : todo'[t] = todo[t]
           /\ drv'.sta = drv.sta \/ (drv.sta = "down" /\ drv'.sta = "connecting")
           /\ drv'.conf = drv.conf
           /\ NoStart(drv) => NoStart(drv')
           /\ st' \notin {"PROVISIONING", "SCANNING"} \/ st' = st
<1>1. /\ UNCHANGED <<cfg, nvs, suppress, loc, panic>>
      /\ st' \notin {"PROVISIONING", "SCANNING"} \/ st' = st
      /\ todo' = todo \/ \E p : todo' = [todo EXCEPT !["sys_evt"] = p]
  <2>1. UNCHANGED <<cfg, nvs, suppress, loc, panic>>
    BY DEF OnWifiEvent, OnStart, OnConnected, Arm, ReportOk, OnDisconnected, Retry, EvConnect, OnScanDone,
           store, tasks
  <2>2. st' \notin {"PROVISIONING", "SCANNING"} \/ st' = st
    BY DEF OnWifiEvent, OnStart, OnConnected, Arm, ReportOk, OnDisconnected, Retry, EvConnect, OnScanDone,
           DisconnectLabel
  <2>3. todo' = todo \/ \E p : todo' = [todo EXCEPT !["sys_evt"] = p]
    BY DEF OnWifiEvent, OnStart, OnConnected, Arm, ReportOk, OnDisconnected, Retry, EvConnect, OnScanDone,
           Start, Do, tasks
  <2> QED BY <2>1, <2>2, <2>3
<1>2. \A t \in Tasks \ {"sys_evt"} : todo'[t] = todo[t]
  BY <1>1 DEF HonestInv
<1>3. /\ drv'.sta = drv.sta \/ (drv.sta = "down" /\ drv'.sta = "connecting")
      /\ drv'.conf = drv.conf
      /\ NoStart(drv) => NoStart(drv')
  <2>1. CASE \E x : NextEvent(x) /\ drv' = Popped
    BY <2>1, Takes
  <2>2. CASE drv' = WD!Connect(drv)
    BY <2>2, Connected DEF HonestInv
  <2>3. CASE drv' = drv
    BY <2>3
  <2>4. OnStart \/ OnConnected \/ OnDisconnected \/ OnScanDone => \E x : NextEvent(x) /\ drv' = Popped
    BY DEF OnStart, OnConnected, OnDisconnected, OnScanDone
  <2>5. Arm \/ ReportOk \/ Retry \/ EvConnect => drv' = drv \/ drv' = WD!Connect(drv)
    BY DEF Arm, ReportOk, Retry, EvConnect
  <2> QED BY <2>1, <2>2, <2>3, <2>4, <2>5 DEF OnWifiEvent
<1> QED BY <1>1, <1>2, <1>3

\* on_wifi_event on a configured device whose portal is closed: no news is lost.
LEMMA HandlerNews ==
    ASSUME HonestInv, OnWifiEvent, ~suppress, HasSsid, st \notin {"PROVISIONING", "SCANNING"},
           drv.conf # Blank, NoStart(drv), DownOK, UpOK
    PROVE  DownOK' /\ UpOK'
<1>0. IsDriver(drv) /\ todo["sys_evt"] \in HandlerPrograms /\ "sys_evt" \in DOMAIN todo
  BY DEF HonestInv, Tasks
<1>1. ASSUME NEW program, todo' = [todo EXCEPT !["sys_evt"] = program]
      PROVE  todo'["sys_evt"] = program
  BY <1>0, <1>1
<1>2. ~OnStart
  BY Takes DEF OnStart
<1>3. CASE OnConnected
  <2>1. NextEvent("connected") /\ drv' = Popped /\ st' = "CONNECTED"
    BY <1>3 DEF OnConnected
  <2>2. /\ drv'.sta = drv.sta /\ todo["sys_evt"] = <<>>
        /\ ~Leaving(drv) => ~Leaving(drv')
        /\ UpNews(drv) => UpNews(drv') \/ ~Leaving(drv')
        /\ drv'.sta = "connected" \/ Leaving(drv')
    BY <2>1, Takes
  <2>3. todo'["sys_evt"] = <<"ev_arm", "ev_ok">>
    BY <1>1, <1>3 DEF OnConnected, Start
  <2> QED BY <2>1, <2>2, <2>3 DEF DownOK, UpOK
<1>4. CASE Arm
  <2>1. drv' = drv /\ st' = st /\ link' = TRUE /\ todo["sys_evt"] = <<"ev_arm", "ev_ok">>
    BY <1>0, <1>4 DEF Arm, At, HandlerPrograms
  <2>2. todo' = [todo EXCEPT !["sys_evt"] = <<"ev_ok">>]
    BY <1>4, <2>1 DEF Arm, Do
  <2> QED BY <1>1, <2>1, <2>2 DEF DownOK, UpOK
<1>5. CASE ReportOk
  <2>1. UNCHANGED <<drv, st, link>> /\ todo["sys_evt"] = <<"ev_ok">>
    BY <1>0, <1>5 DEF ReportOk, At, HandlerPrograms
  <2>2. todo' = [todo EXCEPT !["sys_evt"] = <<>>]
    BY <1>5, <2>1 DEF ReportOk, Do
  <2>3. todo'["sys_evt"] = <<>>
    BY <1>1, <2>2
  <2> QED BY <2>1, <2>3 DEF DownOK, UpOK
<1>6. CASE OnDisconnected
  <2>1. PICK r \in WD!Reasons : NextEvent(r)
    BY <1>6 DEF OnDisconnected
  <2>2. drv' = Popped /\ todo'["sys_evt"] = <<"ev_retry">>
    BY <1>1, <1>6 DEF OnDisconnected, Start
  <2>3. drv'.sta = drv.sta /\ Leaving(drv) /\ (UpNews(drv) => UpNews(drv'))
    <3>1. r # "connected"
      BY <2>1 DEF WD!Reasons
    <3> QED BY <2>1, <2>2, <3>1, Takes
  <2> QED BY <2>2, <2>3 DEF DownOK, UpOK
<1>7. CASE Retry
  <2>1. drv' = drv /\ todo["sys_evt"] = <<"ev_retry">> /\ link' = link
    BY <1>0, <1>7 DEF Retry, At, HandlerPrograms
  <2>2. \/ st # "BAD_AUTH" /\ todo'["sys_evt"] = <<"ev_connect">>
        \/ st = "BAD_AUTH" /\ st' = st /\ todo'["sys_evt"] = <<>>
    <3>1. <<"ev_connect">> \o Tail(<<"ev_retry">>) = <<"ev_connect">> /\ <<>> \o Tail(<<"ev_retry">>) = <<>>
      OBVIOUS
    <3>2. CASE st # "BAD_AUTH"
      BY <1>1, <1>7, <2>1, <3>1, <3>2 DEF Retry, Do
    <3>3. CASE st = "BAD_AUTH"
      BY <1>1, <1>7, <2>1, <3>1, <3>3 DEF Retry, Do
    <3> QED BY <3>2, <3>3
  <2>3. (Leaving(drv') <=> Leaving(drv)) /\ (UpNews(drv') <=> UpNews(drv)) /\ drv'.sta = drv.sta
    BY <2>1
  <2>4. UpOK'
    BY <2>1, <2>3 DEF UpOK
  <2> QED BY <2>2, <2>3, <2>4 DEF DownOK
<1>8. CASE EvConnect
  <2>1. drv' = WD!Connect(drv) /\ st' = st /\ todo["sys_evt"] = <<"ev_connect">>
    BY <1>0, <1>8 DEF EvConnect, At, HandlerPrograms
  <2>2. drv'.sta = (IF drv.sta = "down" THEN "connecting" ELSE drv.sta) /\ (UpNews(drv) => UpNews(drv'))
    BY <1>0, <2>1, Connected
  <2> QED BY <2>1, <2>2 DEF DownOK, UpOK
<1>9. CASE OnScanDone
  <2>1. NextEvent("scan_done") /\ drv' = Popped /\ UNCHANGED <<st, link, todo>>
    BY <1>9 DEF OnScanDone, tasks
  <2>2. /\ drv'.sta = drv.sta /\ todo["sys_evt"] = <<>>
        /\ Leaving(drv) <=> Leaving(drv')
        /\ UpNews(drv) => UpNews(drv')
    <3>1. "scan_done" \notin WD!Reasons
      BY DEF WD!Reasons
    <3> QED BY <2>1, <3>1, Takes
  <2> QED BY <2>1, <2>2 DEF DownOK, UpOK
<1> QED BY <1>2, <1>3, <1>4, <1>5, <1>6, <1>7, <1>8, <1>9 DEF OnWifiEvent

\* The air tells what it does.
LEMMA AirNews ==
    ASSUME HonestInv, AirAssociates \/ AirTrouble \/ AirScanned
    PROVE  /\ UNCHANGED <<cfg, nvs, st, suppress, link, todo, loc, panic>>
           /\ drv'.conf = drv.conf
           /\ NoStart(drv) => NoStart(drv')
           /\ DownOK => DownOK'
           /\ UpOK => UpOK'
<1>1. /\ UNCHANGED <<cfg, nvs, st, suppress, link, todo, loc, panic>>
      /\ drv' \in WD!Associated(drv) \cup WD!Refused(drv) \cup WD!Lost(drv) \cup WD!Scanned(drv)
  BY DEF AirAssociates, AirTrouble, AirScanned, tasks, store
<1>2. IsDriver(drv)
  BY DEF HonestInv
<1>3. PICK x \in WD!Events \ {"start"} :
        /\ IsDriver(drv') /\ drv'.evq = Append(drv.evq, x) /\ drv'.conf = drv.conf
        /\ \/ x = "connected" /\ drv'.sta = "connected"
           \/ x \in WD!Reasons /\ drv'.sta = "down"
           \/ x = "scan_done" /\ drv'.sta = drv.sta
  <2>1. IsDriver(drv')
    BY <1>1, <1>2, AirFollows DEF Follows
  <2>2. CASE drv' \in WD!Associated(drv)
    <3>1. PICK a : a = [drv EXCEPT !.sta = "connected"]
      OBVIOUS
    <3>2. drv' = [a EXCEPT !.evq = Append(a.evq, "connected")]
      BY <2>2, <3>1 DEF WD!Associated, WD!Post
    <3>3. a.evq = drv.evq /\ a.sta = "connected" /\ a.conf = drv.conf /\ IsDriver(a)
      BY <1>2, <3>1 DEF IsDriver
    <3>4. drv'.evq = Append(drv.evq, "connected") /\ drv'.sta = "connected" /\ drv'.conf = drv.conf
      BY <3>2, <3>3 DEF IsDriver
    <3> QED BY <2>1, <3>4 DEF WD!Events
  <2>3. CASE drv' \in WD!Refused(drv) \cup WD!Lost(drv)
    <3>1. PICK r \in WD!Reasons : drv' = WD!LeaveNetwork(drv, r)
      BY <2>3 DEF WD!Refused, WD!Lost, WD!Reasons
    <3>2. drv'.evq = Append(drv.evq, r) /\ drv'.sta = "down" /\ drv'.conf = drv.conf
      BY <1>2, <3>1 DEF WD!LeaveNetwork, WD!Post, IsDriver
    <3>3. r \in WD!Events \ {"start"}
      BY DEF WD!Events, WD!Reasons
    <3> QED BY <2>1, <3>2, <3>3
  <2>4. CASE drv' \in WD!Scanned(drv)
    <3>1. PICK a : a = [drv EXCEPT !.scanning = FALSE]
      OBVIOUS
    <3>2. drv' = [a EXCEPT !.evq = Append(a.evq, "scan_done")]
      BY <2>4, <3>1 DEF WD!Scanned, WD!AbortScan, WD!Post
    <3>3. a.evq = drv.evq /\ a.sta = drv.sta /\ a.conf = drv.conf /\ IsDriver(a)
      BY <1>2, <3>1 DEF IsDriver
    <3>4. drv'.evq = Append(drv.evq, "scan_done") /\ drv'.sta = drv.sta /\ drv'.conf = drv.conf
      BY <3>2, <3>3 DEF IsDriver
    <3> QED BY <2>1, <3>4 DEF WD!Events
  <2> QED BY <1>1, <2>2, <2>3, <2>4
<1>4. /\ NoStart(drv) => NoStart(drv')
      /\ x \in WD!Reasons => Leaving(drv')
      /\ Leaving(drv) => Leaving(drv')
      /\ x \notin WD!Reasons /\ ~Leaving(drv) => ~Leaving(drv')
      /\ x \notin WD!Reasons /\ UpNews(drv) => UpNews(drv')
      /\ x = "connected" => UpNews(drv')
  BY <1>2, <1>3, PostNews
<1>5. DownOK => DownOK'
  BY <1>1, <1>3, <1>4 DEF DownOK, WD!Reasons
<1>6. UpOK => UpOK'
  BY <1>1, <1>3, <1>4 DEF UpOK, WD!Reasons
<1> QED BY <1>1, <1>3, <1>4, <1>5, <1>6
================================================================================
