------------------------------ MODULE WifiDriver -------------------------------
(***************************************************************************)
(* The ESP-IDF Wi-Fi driver as the firmware uses it: external code, so     *)
(* what it may answer is taken from the calls in wifi_mgr.c and            *)
(* provisioning.c and from the comments there.  Its state is one record    *)
(*                                                                         *)
(*   sta       "down", "connecting" or "connected"                         *)
(*   target    the network it is connecting or connected to                *)
(*   conf      the station configuration last set                          *)
(*   mode      "STA" or "APSTA" (SoftAP on the air)                        *)
(*   scanning  is a scan under way                                         *)
(*   evq       events posted to the default event loop, oldest first       *)
(*                                                                         *)
(* and every driver call is a function from record to record.              *)
(***************************************************************************)
EXTENDS Naturals, Sequences

CONSTANTS
    Networks,   \* SSIDs that can be configured
    Blank       \* the empty string, not a network

\* Reasons of WIFI_EVENT_STA_DISCONNECTED; "leave" answers esp_wifi_disconnect, "other" is any further reason.
Reasons == {"no_ap", "auth", "other", "leave"}
Events == {"start", "connected", "scan_done"} \cup Reasons

Drivers ==
    [sta : {"down", "connecting", "connected"},
     target : Networks \cup {Blank},
     conf : Networks \cup {Blank},
     mode : {"STA", "APSTA"},
     scanning : BOOLEAN,
     evq : Seq(Events)]

\* After esp_wifi_start in station mode, with the configuration in RAM only, hence empty.
Started == [sta |-> "down", target |-> Blank, conf |-> Blank, mode |-> "STA",
            scanning |-> FALSE, evq |-> <<"start">>]

Post(d, e) == [d EXCEPT !.evq = Append(@, e)]

LeaveNetwork(d, reason) == Post([d EXCEPT !.sta = "down", !.target = Blank], reason)

\* esp_wifi_disconnect: an attempt or an association ends, and the event loop hears of it.
Disconnect(d) == IF d.sta = "down" THEN d ELSE LeaveNetwork(d, "leave")

\* esp_wifi_connect fails without a configuration and while an attempt or an association exists.
ConnectOk(d) == d.sta = "down" /\ d.conf # Blank

AbortScan(d) == IF d.scanning THEN Post([d EXCEPT !.scanning = FALSE], "scan_done") ELSE d

Connect(d) ==
    IF ConnectOk(d)
    THEN [AbortScan(d) EXCEPT !.sta = "connecting", !.target = d.conf]
    ELSE d

\* esp_wifi_set_config(WIFI_IF_STA): whether it is accepted during an attempt is the driver's choice.
SetConfigAnswers(d) == IF d.sta = "connecting" THEN {"ok", "refused"} ELSE {"ok"}

SetConfig(d, ssid) == [d EXCEPT !.conf = ssid]

SetMode(d, m) == [d EXCEPT !.mode = m]

\* esp_wifi_scan_start fails during an attempt or another scan.
ScanStartOk(d) == d.sta # "connecting" /\ ~d.scanning

ScanStart(d) == [d EXCEPT !.scanning = TRUE]

ScanStop(d) == [d EXCEPT !.scanning = FALSE]

\* What the air may do next: an attempt succeeds or fails, an association is lost, a scan ends.
Associated(d) ==
    IF d.sta = "connecting" THEN {Post([d EXCEPT !.sta = "connected"], "connected")} ELSE {}

Refused(d) ==
    IF d.sta = "connecting" THEN {LeaveNetwork(d, r) : r \in {"no_ap", "auth", "other"}} ELSE {}

Lost(d) == IF d.sta = "connected" THEN {LeaveNetwork(d, "other")} ELSE {}

Scanned(d) == IF d.scanning THEN {AbortScan(d)} ELSE {}
================================================================================
