------------------------------ MODULE Provisioning ------------------------------
(***************************************************************************)
(* The captive portal (provisioning.c) on top of the Wi-Fi manager:        *)
(* provisioning_start and provisioning_stop in whatever task calls them,   *)
(* the POST handler in the HTTP server's task, and the task it spawns to   *)
(* close the portal after a successful test.  The portal's state is        *)
(* written by all of them; s_lock is only ever taken by the POST handler,  *)
(* so it excludes nobody and is not modelled.                              *)
(***************************************************************************)
EXTENDS WifiMgr

CONSTANT Finishers      \* the finish_success_task instances that may exist at once

ASSUME PortalAssumption == Finishers \cup {"main", "tud", "btn", "httpd"} \subseteq Callers

VARIABLES
    active,     \* s_active
    phase,      \* s_phase
    testing,    \* s_testing
    httpd,      \* s_httpd is a handle
    server,     \* the HTTP server runs (esp_http_server, external)
    dns         \* s_dns is a handle

portal == <<active, phase, testing, httpd, server, dns>>

Phases == {"IDLE", "SCANNING", "PORTAL", "TESTING", "SUCCESS"}

PortalInit ==
    /\ active = FALSE /\ phase = "IDLE" /\ testing = FALSE
    /\ httpd = FALSE /\ server = FALSE /\ dns = FALSE

PortalTypeOK ==
    /\ active \in BOOLEAN /\ testing \in BOOLEAN
    /\ httpd \in BOOLEAN /\ server \in BOOLEAN /\ dns \in BOOLEAN
    /\ phase \in Phases

----------------------------------------------------------------------------
(* provisioning_start.  start_softap's error return needs the allocation of
   the SoftAP netif to fail and is left out. *)

Open == <<"start">>

OpenBegin(t) ==
    /\ At(t, "start")
    /\ IF active
       THEN Do(t, <<>>) /\ SetLoc(t, "ret", "ok") /\ UNCHANGED <<phase, testing, suppress, link, st>>
       ELSE /\ testing' = FALSE /\ phase' = "SCANNING"
            /\ suppress' = TRUE /\ link' = FALSE
            /\ st' = "PROVISIONING"
            /\ Do(t, Scan \o <<"start_softap", "start_httpd">>)
            /\ UNCHANGED loc
    /\ UNCHANGED <<store, drv, bits, panic, bounds, active, httpd, server, dns>>

\* The SoftAP netif and its address are set up once; what later steps can tell is the mode.
StartSoftap == drv' = WD!SetMode(drv, "APSTA")

OpenSoftap(t) ==
    /\ At(t, "start_softap")
    /\ st' = "PROVISIONING"
    /\ StartSoftap
    /\ Do(t, <<>>)
    /\ UNCHANGED <<store, suppress, bits, link, loc, panic, bounds, portal>>

\* A server that already runs holds port 80: the second one fails to start, and its handle is lost.
StartHttpd ==
    /\ httpd' = ~server
    /\ server' = TRUE

\* Without a server of its own the portal is given up.
OpenHttpd(t) ==
    /\ At(t, "start_httpd")
    /\ StartHttpd
    /\ IF server
       THEN /\ phase' = "IDLE"
            /\ drv' = WD!SetMode(drv, "STA")
            /\ suppress' = FALSE
            /\ st' = "IDLE"
            /\ SetLoc(t, "ret", "fail")
            /\ Do(t, <<>>)
       ELSE /\ Do(t, <<"start_open">>)
            /\ UNCHANGED <<phase, drv, suppress, st, loc>>
    /\ UNCHANGED <<store, bits, link, panic, bounds, active, testing, dns>>

OpenEnd(t) ==
    /\ At(t, "start_open")
    /\ dns' = TRUE
    /\ phase' = "PORTAL" /\ active' = TRUE
    /\ st' = "PROVISIONING"
    /\ SetLoc(t, "ret", "ok")
    /\ Do(t, <<>>)
    /\ UNCHANGED <<store, drv, suppress, bits, link, panic, bounds, testing, httpd, server>>

OpenSteps(t) == OpenBegin(t) \/ OpenSoftap(t) \/ OpenHttpd(t) \/ OpenEnd(t)

----------------------------------------------------------------------------
(* provisioning_stop: the flags first, then httpd_stop, which waits for a
   request in progress, then the radio. *)

Close == <<"stop">>

\* Seeded fault: s_phase is not reset.
CloseKeepsPhase(t) ==
    /\ At(t, "stop")
    /\ IF ~active /\ phase = "IDLE"
       THEN Do(t, <<>>) /\ UNCHANGED <<active, testing, dns>>
       ELSE /\ active' = FALSE /\ testing' = FALSE
            /\ dns' = FALSE
            /\ Do(t, (IF httpd THEN <<"stop_httpd">> ELSE <<>>) \o <<"stop_radio", "stop_gate">>)
    /\ UNCHANGED <<store, mgr, loc, panic, bounds, phase, httpd, server>>

CloseBegin(t) ==
    /\ At(t, "stop")
    /\ IF ~active /\ phase = "IDLE"
       THEN Do(t, <<>>) /\ UNCHANGED <<active, testing, phase, dns>>
       ELSE /\ active' = FALSE /\ testing' = FALSE /\ phase' = "IDLE"
            /\ dns' = FALSE
            /\ Do(t, (IF httpd THEN <<"stop_httpd">> ELSE <<>>) \o <<"stop_radio", "stop_gate">>)
    /\ UNCHANGED <<store, mgr, loc, panic, bounds, httpd, server>>

\* Stopping a server that another task has just stopped uses freed memory: it goes well or it does not.
CloseHttpd(t) ==
    /\ At(t, "stop_httpd")
    /\ Idle("httpd")
    /\ server' = FALSE /\ httpd' = FALSE
    /\ IF server THEN UNCHANGED panic ELSE panic' \in BOOLEAN
    /\ Do(t, <<>>)
    /\ UNCHANGED <<store, mgr, loc, bounds, active, phase, testing, dns>>

\* Seeded fault: the SoftAP stays on the air.
CloseRadioKeepsAp(t) ==
    /\ At(t, "stop_radio")
    /\ drv' = WD!Disconnect(drv)
    /\ Do(t, <<>>)
    /\ UNCHANGED <<store, st, suppress, bits, link, loc, panic, bounds, portal>>

CloseRadio(t) ==
    /\ At(t, "stop_radio")
    /\ drv' = WD!SetMode(WD!Disconnect(drv), "STA")
    /\ Do(t, <<>>)
    /\ UNCHANGED <<store, st, suppress, bits, link, loc, panic, bounds, portal>>

\* Seeded fault: the bridge stays suppressed.
CloseKeepsGate(t) ==
    /\ At(t, "stop_gate")
    /\ Do(t, <<>>)
    /\ UNCHANGED <<store, mgr, loc, panic, bounds, portal>>

CloseGate(t) ==
    /\ At(t, "stop_gate")
    /\ suppress' = FALSE
    /\ Do(t, <<>>)
    /\ UNCHANGED <<store, drv, st, bits, link, loc, panic, bounds, portal>>

CloseSteps(t) == CloseBegin(t) \/ CloseHttpd(t) \/ CloseRadio(t) \/ CloseGate(t)

----------------------------------------------------------------------------
(* provisioning_apply_or_start *)

ApplyOrStart == <<"apply_or_start">>

ReadCredentials(t) ==
    /\ At(t, "apply_or_start")
    /\ Do(t, IF HasSsid THEN <<"unless_active">> \o Apply ELSE Apply \o Open)
    /\ UNCHANGED <<store, mgr, loc, panic, bounds, portal>>

ReadActive(t) ==
    /\ At(t, "unless_active")
    /\ Do(t, IF active THEN Close ELSE <<>>)
    /\ UNCHANGED <<store, mgr, loc, panic, bounds, portal>>

ApplyOrStartSteps(t) == ReadCredentials(t) \/ ReadActive(t)

----------------------------------------------------------------------------
(* connect_post_handler, for a form that names the network ssid. *)

Submit(ssid) ==
    /\ server /\ drv.mode = "APSTA"     \* a client reaches the server over the SoftAP
    /\ ~testing
    /\ \E f \in Finishers : Idle(f)     \* bound: no more successes in 1.2 s than Finishers
    /\ testing' = TRUE /\ phase' = "TESTING"
    /\ SetLoc("httpd", "net", ssid)
    /\ Start("httpd", Test \o <<"test_result">>)
    /\ UNCHANGED <<store, mgr, panic, active, httpd, server, dns>>

\* Seeded fault: nobody closes the portal after a success.
ResultWithoutTask ==
    /\ At("httpd", "test_result")
    /\ testing' = FALSE
    /\ SetLoc("httpd", "net", Blank)
    /\ Do("httpd", <<>>)
    /\ IF loc["httpd"].ret = "ok" /\ CS!AddIndex(cfg, loc["httpd"].net) >= 0
       THEN CS!PortalSuccess(loc["httpd"].net, Blank) /\ phase' = "SUCCESS"
       ELSE phase' = "PORTAL" /\ UNCHANGED store
    /\ UNCHANGED <<mgr, panic, bounds, active, httpd, server, dns>>

\* Seeded fault: a failed test leaves s_phase alone.
ResultKeepsPhase ==
    /\ At("httpd", "test_result")
    /\ loc["httpd"].ret # "ok"
    /\ testing' = FALSE /\ st' = "PROVISIONING"
    /\ SetLoc("httpd", "net", Blank)
    /\ Do("httpd", <<>>)
    /\ UNCHANGED <<store, drv, suppress, bits, link, panic, bounds, active, phase, httpd, server, dns>>

\* The tested passphrase is not told apart from others: it is the one the driver accepted.
TestResult ==
    /\ At("httpd", "test_result")
    /\ testing' = FALSE
    /\ SetLoc("httpd", "net", Blank)
    /\ IF loc["httpd"].ret = "ok"
       THEN /\ UNCHANGED st
            /\ IF CS!AddIndex(cfg, loc["httpd"].net) < 0
               THEN phase' = "PORTAL" /\ Do("httpd", <<>>) /\ UNCHANGED store
               ELSE /\ CS!PortalSuccess(loc["httpd"].net, Blank)
                    /\ phase' = "SUCCESS"
                    /\ \E f \in Finishers :
                         /\ Idle(f)
                         /\ todo' = [todo EXCEPT !["httpd"] = Tail(@), ![f] = <<"fin_delay", "fin">>]
       ELSE /\ phase' = "PORTAL" /\ st' = "PROVISIONING"
            /\ Do("httpd", <<>>)
            /\ UNCHANGED store
    /\ UNCHANGED <<drv, suppress, bits, link, panic, bounds, active, httpd, server, dns>>

----------------------------------------------------------------------------
(* finish_success_task *)

FinishDelay(t) ==
    /\ At(t, "fin_delay")
    /\ OutsideMayAct
    /\ Do(t, <<>>)
    /\ UNCHANGED <<store, mgr, loc, panic, bounds, portal>>

\* Seeded fault: the portal is not closed.
FinishStaysOpen(t) ==
    /\ At(t, "fin")
    /\ Do(t, Apply)
    /\ UNCHANGED <<store, mgr, loc, panic, bounds, portal>>

\* It copies the SSID of profiles[active] for a log line, then closes the portal and applies.
Finish(t) ==
    /\ At(t, "fin")
    /\ Do(t, Close \o Apply)
    /\ UNCHANGED <<store, mgr, loc, panic, bounds, portal>>

FinishSteps(t) == FinishDelay(t) \/ Finish(t)
================================================================================
