------------------------------ MODULE ConfigStore ------------------------------
(***************************************************************************)
(* The saved-network store (config_store.c) and every command that edits   *)
(* it: the console (console.c), the captive portal (provisioning.c), the   *)
(* BOOT button (button.c) and the boot itself (app_main.c).                *)
(*                                                                         *)
(* cfg is the one bridge_config_t in RAM that all tasks share, nvs the     *)
(* blob under namespace "bridge", key "cfg_v1".  A config keeps the        *)
(* fixed-size array of the code: slots at or beyond count exist and are    *)
(* written to flash with the rest.  Each operation on the array is one     *)
(* step; strings are members of small sets and Blank is the empty string.  *)
(***************************************************************************)
EXTENDS Integers

CONSTANTS
    Names,        \* non-empty SSIDs
    Keys,         \* non-empty passphrases
    Blank,        \* the empty string
    NoBlob,       \* nvs when the key was never written (or was erased)
    BadBlob,      \* nvs when the stored blob has another length or an impossible count
    ProfileMax,   \* CFG_PROFILE_MAX
    SeedSsid,     \* CONFIG_BRIDGE_WIFI_SSID, Blank when unset
    SeedPass      \* CONFIG_BRIDGE_WIFI_PASSWORD

Ssids == Names \cup {Blank}
Passes == Keys \cup {Blank}

ActiveNone == 255           \* CFG_ACTIVE_NONE
Slots == 0..(ProfileMax - 1)

Profiles == [ssid : Ssids, pass : Passes]
ZeroProfile == [ssid |-> Blank, pass |-> Blank]

\* Every bridge_config_t the C type can hold with count in range.
Configs == [count : 0..ProfileMax,
            active : 0..ActiveNone,
            profiles : [Slots -> Profiles]]

ASSUME StoreAssumption ==
    /\ ProfileMax \in 1..(ActiveNone - 1)
    /\ SeedSsid \in Ssids /\ SeedPass \in Passes
    /\ Blank \notin Names \cup Keys
    /\ NoBlob \notin Configs /\ BadBlob \notin Configs

VARIABLES
    cfg,    \* the configuration in RAM
    nvs     \* the blob in flash

vars == <<cfg, nvs>>

----------------------------------------------------------------------------
(* config_store.c *)

ClearWifi == [count |-> 0, active |-> ActiveNone, profiles |-> [i \in Slots |-> ZeroProfile]]

Defaults ==
    IF SeedSsid = Blank
    THEN ClearWifi
    ELSE [count |-> 1, active |-> 0,
          profiles |-> [ClearWifi.profiles EXCEPT ![0] = [ssid |-> SeedSsid, pass |-> SeedPass]]]

\* A stored active index the stored count does not allow falls back to the first profile.
FixActive(c) ==
    IF c.active # ActiveNone /\ c.active >= c.count
    THEN [c EXCEPT !.active = IF c.count > 0 THEN 0 ELSE ActiveNone]
    ELSE c

Load(blob) == IF blob \in {NoBlob, BadBlob} THEN Defaults ELSE FixActive(blob)

Used(c) == 0..(c.count - 1)

HasActive(c) == c.active # ActiveNone /\ c.active < c.count

ActiveSsid(c) == IF HasActive(c) THEN c.profiles[c.active].ssid ELSE Blank
ActivePass(c) == IF HasActive(c) THEN c.profiles[c.active].pass ELSE Blank

Matches(c, s) == {i \in Used(c) : c.profiles[i].ssid = s}

\* Seeded fault: the search stops one entry early.
FindStopsEarly(c, s) ==
    LET M == Matches(c, s) \ {c.count - 1}
    IN  IF M = {} THEN -1 ELSE CHOOSE i \in M : \A j \in M : i <= j

\* The first matching index, or -1.
FindProfile(c, s) ==
    IF Matches(c, s) = {} THEN -1
    ELSE CHOOSE i \in Matches(c, s) : \A j \in Matches(c, s) : i <= j

\* The index config_add_profile returns: -1 when the list is full.
AddIndex(c, s) ==
    IF FindProfile(c, s) >= 0 THEN FindProfile(c, s)
    ELSE IF c.count >= ProfileMax THEN -1 ELSE c.count

AddProfile(c, s) ==
    IF FindProfile(c, s) >= 0 \/ c.count >= ProfileMax
    THEN c
    ELSE [count |-> c.count + 1,
          active |-> IF c.active = ActiveNone THEN c.count ELSE c.active,
          profiles |-> [c.profiles EXCEPT ![c.count] = [ssid |-> s, pass |-> Blank]]]

\* Seeded faults: the index does not follow the shift, or also moves when the active entry goes.
DelActiveStale(c, index) ==
    IF c.count - 1 = 0 THEN ActiveNone ELSE IF c.active = index THEN 0 ELSE c.active

DelActiveOffByOne(c, index) ==
    IF c.count - 1 = 0 THEN ActiveNone
    ELSE IF c.active # ActiveNone /\ c.active >= index THEN c.active - 1 ELSE c.active

DelActive(c, index) ==
    IF c.count - 1 = 0 THEN ActiveNone
    ELSE IF c.active = index THEN 0
    ELSE IF c.active # ActiveNone /\ c.active > index THEN c.active - 1
    ELSE c.active

\* Seeded fault: the vacated slot keeps its copy of the last entry.
DelKeepsLast(c, index) ==
    IF index < 0 \/ index >= c.count
    THEN c
    ELSE [count |-> c.count - 1, active |-> DelActive(c, index),
          profiles |-> [i \in Slots |->
                          IF i \in index..(c.count - 2) THEN c.profiles[i + 1] ELSE c.profiles[i]]]

DelProfile(c, index) ==
    IF index < 0 \/ index >= c.count
    THEN c
    ELSE [count |-> c.count - 1,
          active |-> DelActive(c, index),
          profiles |-> [i \in Slots |->
                          IF i = c.count - 1 THEN ZeroProfile
                          ELSE IF i \in index..(c.count - 2) THEN c.profiles[i + 1]
                          ELSE c.profiles[i]]]

\* config_save: the blob is replaced, or an NVS call fails and flash keeps what it had.
Save(c) == nvs' \in {c, nvs}

----------------------------------------------------------------------------
(* The commands that edit the store. *)

\* console.c: an index to write through always exists afterwards.
EnsureActiveProfile(c) ==
    IF c.active # ActiveNone THEN c
    ELSE [(IF c.count = 0 THEN AddProfile(c, Blank) ELSE c) EXCEPT !.active = 0]

SetSsid(val) ==
    /\ cfg' = LET c == EnsureActiveProfile(cfg)
              IN  [c EXCEPT !.profiles[c.active].ssid = val]
    /\ UNCHANGED nvs

SetPass(val) ==
    /\ cfg' = LET c == EnsureActiveProfile(cfg)
              IN  [c EXCEPT !.profiles[c.active].pass = val]
    /\ UNCHANGED nvs

\* The index config_add_profile returned becomes the active one and takes the passphrase.
Stage(c, idx, pass) == [[c EXCEPT !.active = idx] EXCEPT !.profiles[idx].pass = pass]

\* A scan lists hidden networks too, so the staged name may be blank.
Join(ssid) ==
    /\ AddIndex(cfg, ssid) >= 0
    /\ cfg' = Stage(AddProfile(cfg, ssid), AddIndex(cfg, ssid), Blank)
    /\ UNCHANGED nvs

Use(n) ==
    /\ n \in 1..cfg.count
    /\ cfg' = [cfg EXCEPT !.active = n - 1]
    /\ UNCHANGED nvs

Del(n) ==
    /\ n \in 1..cfg.count
    /\ cfg' = DelProfile(cfg, n - 1)
    /\ UNCHANGED nvs

SaveCmd == Save(cfg) /\ UNCHANGED cfg

\* provisioning.c: a test that succeeded stores the submitted credentials.
PortalSuccess(ssid, pass) ==
    /\ AddIndex(cfg, ssid) >= 0
    /\ cfg' = Stage(AddProfile(cfg, ssid), AddIndex(cfg, ssid), pass)
    /\ Save(cfg')

\* button.c: the confirmed reset.
ClearWifiAndReprovision ==
    /\ cfg' = ClearWifi
    /\ Save(cfg')

\* app_main.c: a restart forgets RAM and loads flash.
Boot == cfg' = Load(nvs) /\ UNCHANGED nvs

\* app_main.c: or nvs_flash_init finds no free page or a newer layout, and everything saved is erased first.
BootErased == nvs' = NoBlob /\ cfg' = Load(NoBlob)

Init == nvs \in {NoBlob, BadBlob} /\ cfg = Load(nvs)

Next ==
    \/ \E s \in Ssids : SetSsid(s) \/ Join(s)
    \/ \E p \in Passes : SetPass(p)
    \/ \E n \in 1..ProfileMax : Use(n) \/ Del(n)
    \/ SaveCmd
    \/ \E s \in Names, p \in Passes : PortalSuccess(s, p)
    \/ ClearWifiAndReprovision
    \/ Boot \/ BootErased

Spec == Init /\ [][Next]_vars

----------------------------------------------------------------------------
(* Properties *)

\* cfg and the blob stay inside the types of config_store.h.
TypeOK ==
    /\ cfg \in Configs
    /\ nvs \in Configs \cup {NoBlob, BadBlob}

\* Whoever edited last, the active index names a used slot, and there is one whenever any profile
\* exists: the unchecked profiles[active] of the console and of the portal's finish task stay in range.
ActiveInRange(c) == IF c.count = 0 THEN c.active = ActiveNone ELSE c.active < c.count

\* A slot past the count holds nothing: a deleted passphrase is not carried into the next save.
NothingBeyondCount(c) == \A i \in Slots : i >= c.count => c.profiles[i] = ZeroProfile

WellFormed(c) == ActiveInRange(c) /\ NothingBeyondCount(c)

\* Both, of the configuration in RAM and of the one in flash, after any sequence of commands, failed
\* saves and restarts.
StoreWellFormed ==
    /\ WellFormed(cfg)
    /\ nvs \notin {NoBlob, BadBlob} => WellFormed(nvs)

\* The blob a save leaves in flash comes back unchanged: config_load never has to repair or reject it.
SavedIsLoadable == nvs \notin {NoBlob, BadBlob} => Load(nvs) = nvs

\* Staging a network never gives it a second profile (only renaming an entry can).
JoinAddsNoDuplicate ==
    [][\A s \in Ssids : Join(s) =>
         \A i, j \in Matches(cfg', s) : i = j \/ {i, j} \subseteq Matches(cfg, s)]_vars

\* The entries and the selection as a list and a position in it.
ListOf(c) == [i \in 1..c.count |-> c.profiles[i - 1]]
SelOf(c) == IF c.active = ActiveNone THEN 0 ELSE c.active + 1
AbsOf(c) == [list |-> ListOf(c), sel |-> SelOf(c)]

PL == INSTANCE ProfileList WITH
        Capacity <- ProfileMax, Factory <- AbsOf(Defaults),
        list <- ListOf(cfg), sel <- SelOf(cfg), durable <- AbsOf(Load(nvs))

\* The array with its shifting deletes and its 0xFF index behaves as the list it stands for.
ImplementsProfileList == PL!Spec
================================================================================
