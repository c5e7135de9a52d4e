---------------------------------- MODULE Hud ----------------------------------
(***************************************************************************)
(* What the user sees: the LCD page (display.c, from the portal's phase    *)
(* and the status label), and the LED (status_led.c, from the label alone).*)
(* Both tasks only read, each at its own time; a page is the state drawn   *)
(* at one moment.  The reset prompt that may cover the LCD is Button's.    *)
(***************************************************************************)
EXTENDS Firmware

\* provisioning_get_lcd_status: the setup page replaces the link page while the phase is not idle.
SetupShown == phase # "IDLE"

SetupLine ==
    CASE phase = "SCANNING" -> "SCANNING"
      [] phase = "TESTING" -> "TESTING"
      [] phase = "SUCCESS" -> "SAVED"
      [] OTHER -> "SETUP AP"

LinkLabel(s) ==
    CASE s = "IDLE" -> "NO CONFIG"
      [] s = "CONNECTING" -> "ASSOCIATING"
      [] s = "CONNECTED" -> "CONNECTED"
      [] s = "DISCONNECTED" -> "RECONNECT"
      [] s = "NO_AP" -> "NO AP"
      [] s = "BAD_AUTH" -> "BAD AUTH"
      [] s = "SCANNING" -> "SCANNING"
      [] s = "PROVISIONING" -> "SETUP AP"

\* Seeded fault: the label wins over the phase.
LcdLabelFirst == IF st = "PROVISIONING" THEN SetupLine ELSE LinkLabel(st)

\* The LINK line of the page on the LCD.
Lcd == IF SetupShown THEN SetupLine ELSE LinkLabel(st)

Led ==
    CASE st = "CONNECTED" -> "green"
      [] st \in {"CONNECTING", "DISCONNECTED"} -> "amber"
      [] st = "SCANNING" -> "blue"
      [] st = "PROVISIONING" -> "magenta"
      [] st \in {"BAD_AUTH", "NO_AP"} -> "red"
      [] OTHER -> "cyan"

----------------------------------------------------------------------------

\* With one input at a time and nothing under way, the LCD shows CONNECTED exactly when the host's link is
\* up, with a green LED, the setup page exactly while a portal serves, and BAD AUTH only on a configured
\* device that has stopped trying.  (What the LED shows beside the setup page is PortalLabelled's.)
HudTruthful ==
    Settled =>
        /\ (Lcd = "CONNECTED") = link
        /\ ~SetupShown => (Led = "green") = link
        /\ (Lcd = "SETUP AP") = Serving
        /\ (Lcd = "BAD AUTH") => drv.sta = "down" /\ HasSsid

\* However inputs overlap, the LCD does not stay on the setup page of a portal that is gone (provisioning.h:
\* live SoftAP/portal status for the LCD HUD; SETUP.md: setting credentials while the SoftAP portal is up
\* stops the portal and associates).
SetupOnlyWithPortal == Settled /\ SetupShown => active

\* While the LCD shows the setup page, the LED pulses magenta (SETUP.md: LCD keeps a live setup HUD, LED
\* pulses magenta; wifi_mgr.h: PROVISIONING is used while SoftAP captive portal is up).
PortalLabelled == Settled /\ Lcd = "SETUP AP" => Led = "magenta"
================================================================================
