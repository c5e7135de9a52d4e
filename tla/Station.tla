-------------------------------- MODULE Station --------------------------------
(***************************************************************************)
(* The station half of the firmware: the Wi-Fi manager with the boot task  *)
(* and the console task calling into it while credentials are present, so  *)
(* the captive portal never opens (Firmware adds it).                      *)
(***************************************************************************)
EXTENDS WifiMgr

\* The boot task and the console's task are there, and the device comes configured.
ASSUME StationAssumption == {"main", "tud"} \subseteq Callers /\ SeedSsid # Blank

----------------------------------------------------------------------------
(* The console commands that reach the manager, in the TinyUSB task. *)

Command == OutsideMayAct /\ Idle("tud") /\ cmds < MaxCmds /\ cmds' = cmds + 1 /\ UNCHANGED trouble

\* set ssid, use, join, del: they leave some network active, which is applied.
Edit ==
    /\ Command
    /\ \/ \E n \in Names : CS!SetSsid(n) \/ CS!Join(n)
       \/ \E n \in 1..ProfileMax : CS!Use(n) \/ CS!Del(n)
    /\ CS!ActiveSsid(cfg') # Blank
    /\ Start("tud", Apply)
    /\ UNCHANGED <<mgr, loc, panic>>

ScanCmd ==
    /\ Command
    /\ SetLoc("tud", "re", TRUE)
    /\ Start("tud", Scan)
    /\ UNCHANGED <<store, mgr, panic>>

----------------------------------------------------------------------------

BootProgram == <<"boot">> \o Apply \o <<"boot_check">>

Init == MgrInit(NoBlob, BootProgram)

CallSteps == \E t \in Callers : ApplySteps(t) \/ ScanSteps(t)

Rest == MayStop /\ UNCHANGED vars

Next ==
    \/ Boot \/ BootCheck
    \/ OnWifiEvent
    \/ CallSteps
    \/ Edit \/ ScanCmd
    \/ AirAssociates \/ AirTrouble \/ AirScanned
    \/ Rest

Spec == Init /\ [][Next]_vars

\* Tasks are scheduled, and the air answers once trouble is over.
FairSpec ==
    /\ Spec
    /\ WF_vars(OnWifiEvent)
    /\ WF_vars(Boot \/ BootCheck \/ CallSteps)
    /\ WF_vars(AirAssociates)
    /\ WF_vars(AirScanned)

----------------------------------------------------------------------------
(* Properties *)

TypeOK == MgrTypeOK

LeavePending == \E i \in DOMAIN drv.evq : drv.evq[i] \in WD!Reasons

\* The host is told "link up" only while the station is associated, or the event that ends the
\* association is on its way: no interleaving of scans, edits and losses leaves the link up over nothing.
LinkHonest == link => drv.sta = "connected" \/ LeavePending

\* With credentials, a device at rest is associated, unless the access point rejected the passphrase: no
\* interleaving of handler, console and boot ends with nobody trying any more.
NeverAbandoned == AtRest /\ ~panic /\ HasSsid => drv.sta = "connected" \/ st = "BAD_AUTH"

\* At rest the label the LCD and LED show is CONNECTED exactly when the station is associated, and then
\* the link is up.
LabelTrue == AtRest /\ ~panic => (st = "CONNECTED") = (drv.sta = "connected") /\ link = (st = "CONNECTED")

\* At rest the station is on the network of the active profile, never on one the user has left (console
\* help: "set active profile SSID and re-associate", "activate profile n").
OnActiveNetwork == AtRest /\ drv.sta = "connected" => drv.target = CS!ActiveSsid(cfg)

\* Once the air gives no more trouble, the device ends up associated with the link up, or knows the
\* passphrase to be wrong, or has restarted.
EventuallyBridged == <>[](link \/ st = "BAD_AUTH" \/ panic)
================================================================================
