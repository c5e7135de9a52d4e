-------------------------------- MODULE Firmware --------------------------------
(***************************************************************************)
(* The whole control plane: boot, console, BOOT button, captive portal and *)
(* Wi-Fi events over the manager.  Tasks: main (app_main), tud (console    *)
(* commands, which run in the TinyUSB task), btn (button_task), httpd (the *)
(* HTTP server), the finish tasks, and sys_evt (on_wifi_event).            *)
(***************************************************************************)
EXTENDS Provisioning

CONSTANTS
    Seeds,      \* what flash may hold at boot: configurations that earlier saves left, or NoBlob
    Patient     \* TRUE: the user acts only when nothing is under way

ASSUME FirmwareAssumption ==
    /\ Seeds \subseteq CS!Configs \cup {NoBlob}
    /\ \A blob \in Seeds \ {NoBlob} : CS!WellFormed(blob)
    /\ Patient \in BOOLEAN

allVars == <<vars, portal>>

----------------------------------------------------------------------------
(* The user: console commands, button, portal form; at most MaxCmds inputs. *)

Input(t) ==
    /\ OutsideMayAct /\ Idle(t)
    /\ Patient => AtRest
    /\ cmds < MaxCmds /\ cmds' = cmds + 1 /\ UNCHANGED trouble

\* set ssid, set pass, join, use, del.
Edit ==
    /\ Input("tud")
    /\ \/ \E s \in CS!Ssids : CS!SetSsid(s) \/ CS!Join(s)
       \/ \E p \in CS!Passes : CS!SetPass(p)
       \/ \E n \in 1..ProfileMax : CS!Use(n) \/ CS!Del(n)
    /\ Start("tud", ApplyOrStart)
    /\ UNCHANGED <<mgr, loc, panic, portal>>

\* scan re-associates unless the portal is active.
ScanCmd ==
    /\ Input("tud")
    /\ SetLoc("tud", "re", ~active)
    /\ Start("tud", Scan)
    /\ UNCHANGED <<store, mgr, panic, portal>>

\* clear_wifi_and_reprovision, after the second press.
ConfirmReset ==
    /\ Input("btn")
    /\ CS!ClearWifiAndReprovision
    /\ Start("btn", ApplyOrStart)
    /\ UNCHANGED <<mgr, loc, panic, portal>>

PostForm ==
    /\ Input("httpd")
    /\ \E s \in Names : Submit(s)

----------------------------------------------------------------------------

BootProgram == <<"boot">> \o ApplyOrStart \o <<"boot_check">>

Init ==
    /\ \E blob \in Seeds : MgrInit(blob, BootProgram)
    /\ PortalInit

Air == AirAssociates \/ AirTrouble \/ AirScanned

CallsOf(t) ==
    \/ (ApplySteps(t) \/ ScanSteps(t) \/ TestSteps(t)) /\ UNCHANGED portal
    \/ OpenSteps(t) \/ CloseSteps(t) \/ ApplyOrStartSteps(t)
    \/ t \in Finishers /\ FinishSteps(t)

Rest == MayStop /\ UNCHANGED allVars

Next ==
    \/ (Boot \/ BootCheck \/ OnWifiEvent \/ Air) /\ UNCHANGED portal
    \/ \E t \in Callers : CallsOf(t)
    \/ TestResult
    \/ Edit \/ ScanCmd \/ ConfirmReset \/ PostForm
    \/ Rest

Spec == Init /\ [][Next]_allVars

\* Every task is scheduled, and the air answers once trouble is over.
FairSpec ==
    /\ Spec
    /\ WF_allVars(OnWifiEvent /\ UNCHANGED portal)
    /\ WF_allVars((Boot \/ BootCheck) /\ UNCHANGED portal)
    /\ \A t \in Callers : WF_allVars(CallsOf(t))
    /\ WF_allVars(TestResult)
    /\ WF_allVars(AirAssociates /\ UNCHANGED portal)
    /\ WF_allVars(AirScanned /\ UNCHANGED portal)

----------------------------------------------------------------------------
(* Properties.  Settled: nothing under way, and the device has not restarted. *)

TypeOK == MgrTypeOK /\ PortalTypeOK

Settled == AtRest /\ ~panic

Serving ==
    /\ active /\ phase = "PORTAL" /\ httpd /\ server /\ dns
    /\ suppress /\ ~link /\ drv.mode = "APSTA"

Closed ==
    /\ ~active /\ phase = "IDLE" /\ ~httpd /\ ~server /\ ~dns
    /\ ~suppress /\ drv.mode = "STA"

\* With one input at a time, the portal always ends wholly open (server, DNS, SoftAP, bridge gate
\* closed) or wholly closed, never in between.
PortalWhole == Settled => Serving \/ Closed

\* With one input at a time, the portal is open exactly when no credentials are stored, after any edits,
\* resets, scans and tests (provisioning.h: apply credentials if present, otherwise enter provisioning).
PortalIffUnconfigured == Settled => active = ~HasSsid

\* With one input at a time, a configured device ends up associated, with the right label and the link
\* up, or knows the passphrase to be wrong: also right after a portal session, a reset or a scan.
BridgesWhenConfigured ==
    Settled /\ HasSsid =>
        \/ drv.sta = "connected" /\ st = "CONNECTED" /\ link
        \/ drv.sta = "down" /\ st = "BAD_AUTH" /\ ~link

\* While the portal suppresses the bridge, the host never sees the NCM link up (wifi_mgr.h: when true,
\* association events do not toggle the USB NCM link).
LinkDownWhileSuppressed == suppress => ~link

\* However inputs overlap, the bridge is not left suppressed by a portal that is gone.
SuppressedOnlyByPortal == Settled /\ suppress => active

\* However inputs overlap, the SoftAP is not left on the air by a portal that is gone (wifi_mgr.c:
\* ensure SoftAP from a prior portal session is not left advertising).
SoftapOnlyWithPortal == Settled /\ drv.mode = "APSTA" => active

\* However inputs overlap, the phase does not stay on SCANNING, TESTING or SUCCESS: every call that sets one
\* of them ends in one that takes it back.  (Whether the portal is still there is SetupOnlyWithPortal's.)
PhaseSettles == Settled => phase \in {"IDLE", "PORTAL"}

\* A device left alone ends up bridging, or serving the portal, or knows the passphrase to be wrong, or
\* has restarted.
EventuallyServes == <>[](link \/ Serving \/ st = "BAD_AUTH" \/ panic)

\* A successful test is followed by the end of the portal.
SuccessCloses == phase = "SUCCESS" ~> Closed \/ panic

\* A device without credentials serves the portal (SETUP.md: deleting the last profile re-enters this mode).
UnconfiguredMeansPortal == Settled /\ ~HasSsid => active
================================================================================
