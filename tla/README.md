# Specifications of the USB-NCM / Wi-Fi bridge firmware

TLA+ modules, TLC configurations and TLAPS proofs about the ESP32-S3 firmware under
`src/firmware`: a USB dongle that presents a USB-NCM network card to its host and bridges it to
a Wi-Fi network as a station, with a console, a reset button and a captive portal to set it up.
All paths below are relative to `src/firmware/main` unless they say otherwise.

## 1. Inventory

Everything runs on FreeRTOS, on two cores, and almost nothing is locked: one mutex for the
statistics (`bridge.c`), one that only the POST handler takes (`provisioning.c`).

| Component | State | Operations | Runs in | Correct means |
|---|---|---|---|---|
| Configuration store (`config_store.c`) | one shared `bridge_config_t`: array, count, active index or 0xFF; NVS blob | load, save, find, add, delete, clear | every caller | index always in range, nothing of deleted entries kept, flash loads back |
| Bridge control (`bridge.c:168`) | `s_wifi_up`, registered rx callback, announced NCM link | `bridge_set_wifi_up` | event task and every task that applies, scans or opens the portal | the three agree, or agree again soon |
| Bridge data (`bridge.c:27-201`) | counters, rate windows, buffers on loan | frame callbacks, get and reset stats | TinyUSB task, Wi-Fi task, display, console | each frame counted once, each buffer returned once |
| Wi-Fi manager (`wifi_mgr.c`) | status label, suppress flag, event bits | event handler, apply, scan, test_connect | event task; callers block in it for seconds | link is up only over an association; nobody gives up; the label is true |
| Portal (`provisioning.c`) | `s_active`, `s_phase`, `s_testing`, handles | start, stop, apply_or_start, POST handler, finish task | boot, console, button, HTTP server, its own task | wholly open when unconfigured, else wholly closed |
| Button (`button.c`) | debounce state, `s_armed`, deadline | poll; confirm clears and reprovisions | own task, 20 ms | clears only on two deliberate presses within 5 s |
| Console (`console.c`) | line buffer and length, scan list and count | line editor, commands | TinyUSB task; a second task empties the line on disconnect, without a lock | what runs is what was typed; `join n` means the list the user saw |
| Boot (`app_main.c`) | | load, start Wi-Fi, USB, console, HUD, button, then apply_or_start under `ESP_ERROR_CHECK` | main task | the button task already runs while boot scans |
| DNS server (`components/dns_server`) | handle, `started`, task, socket | start, stop, receive, answer | own task; start and stop in whoever opens or closes the portal | the portal resolves names; stop frees what start took |
| SoftAP clients, HTTP server | `s_clients`, sockets (lwIP, esp_http_server) | join and leave events, connections | event task, HTTP task | the LCD's count is right; the pool is not drained |
| LCD (`display.c`), LED (`status_led.c`) | page and colour | redraw from phase and label | own tasks | they show what the device does, also when portal and console overlap |
| ST7735 panel driver (`components/esp_lcd_st7735`) | | SPI commands | display task | not modelled |

How they interact: the console, the button and the portal's form write the *same* configuration
and then call `provisioning_apply_or_start`; that calls the portal and the manager; the manager
calls the driver and the bridge; the driver answers by events, which the event task turns into
labels, link changes, event bits and *new* driver calls (it reconnects by itself). So every
hard behaviour is an interleaving of one task's sequence of driver calls with the events of its
own and other tasks' earlier calls. The others are timing (a 20 s test, a 15 s scan, the 1.2 s
before the portal closes, the button's 5 s and the clock's wrap), failures nobody looks at
(saving, connecting), restarts, and the index arithmetic of the store. `PROJECT.json` lists each
hazard at its line, with the property that would catch it or the reason why none does yet.

## 2. Modules

| Module | Models | Uses |
|---|---|---|
| `ProfileList` | what the store promises: a list with a selection and a durable copy | |
| `ConfigStore` | `config_store.c` and every command that edits the store | refines `ProfileList` |
| `ConfigStoreProofs` | theorems about `ConfigStore`, and that it implements `ProfileList` | |
| `BridgeLink` | `bridge_set_wifi_up`, effect by effect, called by several tasks | |
| `BridgeData`, `MCBridgeData` | frame callbacks, statistics, buffers, over the gate of `BridgeLink` | extends `BridgeLink` |
| `BridgeProofs` | theorems about the two; that `BridgeData` implements `BridgeLink` | extends `BridgeData` |
| `WifiDriver` | ESP-IDF's Wi-Fi driver as the code relies on it (external) | |
| `WifiMgr` | the event handler and the manager's blocking calls | `ConfigStore`, `WifiDriver` |
| `WifiMgrProofs` | lemmas on every call, event and handler step, for whoever calls the manager | extends `WifiMgr` |
| `Station`, `StationProofs` | manager + boot + console on a configured device | extends `WifiMgr` |
| `Provisioning` | the portal's tasks | extends `WifiMgr` |
| `Firmware`, `FirmwareProofs` | everything together with its users | extends `Provisioning` |
| `Hud`, `MCFirmware` | LCD page and LED colour over all of that | extends `Firmware` |
| `DnsServer` | DNS task and its sockets | |
| `PortalNet`, `PortalNetProofs` | portal sessions one after another: DNS, HTTP sockets, SoftAP clients | extends `DnsServer` |
| `Console`, `MCConsole`, `ConsoleProofs` | the line editor and the scan list | |
| `Button`, `ButtonProofs` | the button task's polling loop and its clock | |

**Tasks as programs.** In `WifiMgr` and above, `todo[t]` is the sequence of labels task `t` still
has to execute; a label is a stretch of code up to the next driver call or the next place where
another task's step can matter. Calling a function puts its body's labels in front, returning
takes none away. So `wifi_mgr_scan(reassociate)` called from `provisioning_start` called from
`provisioning_apply_or_start` is the same labels as anywhere else, and two tasks may be inside
the same function at once, as in the code. `loc[t]` holds the few locals that survive a label
(`prev` of the scan, the SSID *pointer* of apply, a return value).

**Variables.** `st` = `s_status.state`, `suppress` = `s_suppress_bridge`, `bits` =
`s_wifi_events`, `link` = what `bridge_set_wifi_up` announced (its inside is `BridgeLink`, the traffic behind it `BridgeData`),
`active`, `phase`, `testing`, `httpd`, `dns` = the portal's statics, `server` = whether the HTTP
server really runs, `drv` = the driver, `panic` = a failed `ESP_ERROR_CHECK` (the device
restarts; this behaviour is not followed further, boot is covered from its start).

**The driver.** `WifiDriver` is our reading of calls that are not in the repository: connect fails
without a configuration or during an attempt or association; disconnect during an attempt or an
association posts an event; a scan cannot start during an attempt and is aborted by a connect;
whether `esp_wifi_set_config` is accepted during an attempt is left open (both happen), because
the answer depends on the IDF version and under `ESP_ERROR_CHECK` it decides over a restart.

**The network side of the portal.** `Firmware` has one flag for the DNS server and one for the
HTTP server; `PortalNet` opens them up. One task at a time opens or closes the portal there (the
overlaps are `Firmware`'s), while the event loop, the DNS task and the clients interleave with
it. Descriptors come from a pool shared by both servers, lowest free one first, as lwIP hands
them out, so a descriptor closed twice may by then be another server's. `udp` says which of the
open ones are the DNS task's own sockets, `port` which has port 53; a port has one owner. The HTTP
server holds `fixed` sockets from its start and a session table `conns`, which only its own accepts
and closes change: a number the DNS task has closed behind its back stays there, may be handed to the
DNS task's next socket, and is closed a second time when the server ends the session. `stray` records
that a `close()` of the DNS task has hit the table. Of a request `DnsReply` only keeps whether there
is a reply to it.

**The console.** A key is a command letter, a backspace or an enter; a line of one `ScanKey` is
`scan`, of one number `join n`, anything else a command that touches neither list. The test of
`s_line_len` and the store through it are separate steps (`RxTest`, then `Extend`, `Shorten` or
`Run`), so `console_task` may empty the line in between. `scan` fetches one record after
another (`CmdScan`, `ScanRecord`, `ScanDone`) as the loop does, with `next` and `written` as its
locals. Two histories serve the properties: `meant` is the line a person would say is there,
edited by `Edit` key by key, and `shown` the list last printed.

**Seeded faults.** Operators commented "Seeded fault" are what a plausible bug would make of the
definition after them. No specification uses them; `PROJECT.json` pairs each with a property
that fails when it takes the definition's place, which shows that the property has teeth.

## 3. Runs

| Run | Bounds | What it shows |
|---|---|---|
| `store` | 3 slots, 1 name and the blank, 1 passphrase and the blank, baked-in seed | `StoreWellFormed`, `SavedIsLoadable`, no duplicate by staging, refinement of `ProfileList`, over all commands, failed saves, restarts, erasures |
| `bridge` | 2 frames each way, 2 buffers, 1 reader, the event task and 1 more task on the gate | every frame counted once, rate windows add up, buffers neither lost nor freed twice, while the unlocked gate changes underneath; one lone close closes and one lone cycle opens everything after any overlap |
| `station` | 2 networks, 2 slots, 2 commands, 2 failures, STA_START at any time | at rest: associated with label and link agreeing, or bad passphrase; the link never up over nothing; eventually bridged |
| `firmware_patient` | 2 networks, 2 slots, 2 inputs one after the other, 1 failure, STA_START at any time | portal whole, open exactly when unconfigured; link down under the portal; LCD and LED say which (`HudTruthful`); ends bridging or serving |
| `firmware_impatient` | 2 overlapping inputs (also during boot), 1 failure | no bridge left suppressed and no SoftAP on the air without a portal, no screen left saying Scanning, Testing or Saved |
| `button` | see below | two deliberate presses in time, a truthful prompt that ends |
| `portal_session` | 3 sessions, 3 descriptors, 2 failing calls, 2 joins | the first session's DNS task has its port unless it has closed a connection of the HTTP server, n sessions lose at most n sockets, the client count comes right, the task listens again after failures |
| `console` | 3 networks, 2 strengths, 3 records, list of 2, buffer of 3, 6 keys | what runs is what was typed; every network listed once at its strongest; `join n` stages what was shown |
| `old_network`, `stale_setup`, `no_portal`, `second_portal` | 0 failures, 1 or 2 inputs or sessions | four disagreements of code and documentation, section 5 |

**The bounds and why they are enough.** Three slots are the least with a first, a middle and a
last entry to delete, before and after the active one; `ProfileMax` itself is a parameter of the
proofs. Two networks tell the old from the new one. Names equal up to renaming are treated alike
(symmetry) where no liveness is checked. `MaxTrouble` bounds failed attempts and lost
associations: with none left the air is kind, which the liveness properties need, and one
already visits every label and every branch of the handler; `station` uses two so that a second
failure meets the retry of the first. `MaxCmds` bounds inputs: the races are between two
activities, and boot is a third. `Finishers` has one task: a second success within 1.2 s is left
out. In `bridge`, one closing task beside the event task suffices to overlap every effect of one
call with every effect of another; the proofs are for any number of them. In `portal_session` the
real pool of ten is one short of three sockets and seven connections of the HTTP server plus the
DNS server's one; three descriptors for 1 + 2 + 1 keep that shortage, and three sessions are one
more than the first that meets a lost socket; two failing calls are one whose second `close()` hits
a connection and one more on what comes of it. In `console` six keys are two lines with a
correction, three records overflow a list of two with or without a duplicate, and a buffer of
three holds two characters. Frame counters stay below `MaxFrames`; resets start them again, so runs are unbounded in
time.

**`Prompt`.** With `Prompt = TRUE` the outside (air, user, clocks) acts only while every task is
idle or asleep, that is: a task needs less time for the microseconds of code between two
blocking calls than a radio exchange or a person does. Tasks still interleave freely with one
another, and the outside acts at any sleep (scan wait, test wait, the 150 ms and 1.2 s delays,
`httpd_stop`). `StationProofs` proves `LinkHonest` without the assumption. The clients of
`PortalNet` are slow in the same sense (`ClientsMayAct`).

**`EventsFirst`.** `app_main` starts the driver (`wifi_mgr.c:138`) and goes on; STA_START is handled
by the event-loop task (`wifi_mgr.c:42-52`), of a higher priority, and nothing in the code waits for it.
With `EventsFirst = FALSE` the handler may run at any point of boot, and `station` and
`firmware_patient` are checked so; `firmware_impatient` is not, for its size (it passes too, with
2.6 million states), and the theorems about its properties hold either way. TLC then finds what the order costs: when the handler's connect falls between
boot's `esp_wifi_set_config` and its `esp_wifi_connect`, the latter fails, and boot's
`ESP_ERROR_CHECK` (`app_main.c:61`) restarts the device. With `TRUE` it has been handled before boot's
apply. The four theorems that follow the driver label by label assume that, and the violation
runs use it because it keeps their traces to the point (their behaviours are behaviours without it).

**`Patient`.** In `firmware_patient` a user waits until nothing is under way. In the other
`Firmware` runs inputs overlap with everything, each other included.

**`Polite`.** A polite host types only while connected, and stays connected, or away, for at
least one poll of `console_task` (50 ms). Without it the two tasks race for the line's length
and section 5 says what TLC finds.

**`Button`.** Time counts polls of 20 ms, scaled down: debounce 2 (the real 40/20), three polls
to a second, a window of 9, a clock that wraps at 48, polls up to one late. The code compares
times, so only their order matters, and 9 polls leave room for a whole second press with its
release and debounce inside the window, at its edge and after it. `ClearReturns` lets little
time pass although the clearing takes seconds: no prompt is armed then. `LastTouch` keeps the
button untouched for the last window before the clock wraps; section 5 says what happens
otherwise. The wrap itself is inside the run.

**Fairness.** Weak fairness of each task that has something to do (FreeRTOS schedules every
ready task; none spins), of associating once an attempt is under way (the driver answers every
attempt), of finishing a scan, and of the DNS task unless it waits for a request on an open descriptor
(`recvfrom` on a closed one returns). None on users, on trouble, or on the steps at which a timeout
expires beyond the task's own. `PromptEnds` needs only that the button task is scheduled.
"Eventually" properties say `panic` is acceptable, since a restart begins anew.

**Deadlock** is checked everywhere. `Rest` lets a composition stop only when nothing is under way
anywhere (or it has panicked): tasks waiting for each other would be reported.

## 4. Proofs

Each theorem holds for every value of the constants that satisfies the modules' named
assumptions; a further hypothesis is part of the theorem's statement.

* `ConfigStoreProofs`, from `StoreAssumption` (at most 254 slots, so that 0xFF is no slot; the
  seed is a name; the blank is none): `TypeCorrect`, `AlwaysWellFormed`, `SavedAlwaysLoads`,
  `JoinsNeverDuplicate`. The inductive invariant is `TypeOK /\ StoreWellFormed`.
  Well-formedness of RAM alone would not do, since a restart brings back what flash holds; and
  well-formedness of flash rests on that of RAM at each save. `SavedIsLoadable` is a consequence:
  `config_load` repairs only indices that well-formedness excludes. One lemma per operation shows
  that it keeps a configuration good.
  `StoreImplementsList`: the store implements `ProfileList` under `ListOf`
  and `SelOf`. Two lemmas translate writes of the array (`WriteRefines` for a used slot,
  `GrowRefines` for the first free one), `FindRefines` the search, `DropRefines` the shifting
  delete and its index; `StepRefines` then has one step per operation. A save maps to "made
  durable" because what it wrote loads back (`LoadGood`), which is where the inductive invariant is
  needed again. Boot's erasing of an unusable flash maps to `Reset`.
* `BridgeProofs`, from `LinkAssumption`, for any set of tasks: `LinkTypeCorrect` and
  `RacesHeal`. `SoloCallsHeal` speaks of moments when all tasks are idle and says nothing of a
  call half done. `LinkInv` adds that a call without overlap is the only one under way and what
  it has achieved at each label (`SoloProgress`), and that an overlapping call that ends last
  leaves the record dirty.
  And for any number of readers, buffers and frames: `ImplementsLink` (every
  behaviour is one of `BridgeLink`, so `RacesHeal` carries over), `BridgeTypeCorrect`,
  `FramesAlwaysAccounted`, `WindowsAlwaysAccounted`, `BuffersAlwaysConserved`. The accounts hold
  between critical sections; `DataInv` adds that at most one task holds the mutex and that what
  it read is still the shared state (`Locked`), what each callback owes at each label (`DueOK`),
  and which buffer it has in hand (`CurOK`).
* `StationProofs`: `LinkAlwaysHonest`, for any networks, commands and trouble and with or without
  `Prompt`. `HonestInv` (of `WifiMgrProofs`, whose lemmas show that every call, every event and
  the air keep it) adds to `LinkHonest` the window between the handler's decision to arm the
  bridge and the arming, and that every queued "connected" is over the present association or is
  followed by the event of its end (`Answered`); `StationInv` adds that nobody suppresses the
  bridge on a device without a portal.
  `NeverGivesUp` and `LabelAlwaysTrue`, under `Prompt` and `EventsFirst` and from `StationAssumption` (boot and the
  console are callers, the seed is a network): `NeverAbandoned` and `LabelTrue` speak of a device at
  rest, and `TriesInv` says what leads there. While a task works (`Working`), it is the only one,
  its program ends in the step that starts an attempt (`TurnsOK`), and at each label the driver and
  the label are ready for it. While none works (`Settled`), every state of the driver is told or
  about to be: if the driver does nothing, the event of the end of the last attempt is still
  queued (`DownOK`); if it is associated, so is the record, or its event is queued (`UpOK`). Each
  call of the driver and each event has a lemma for that in `WifiMgrProofs` (`Disconnected`,
  `Connected`, `Configured`, `HandlerNews`, `AirNews`). Without `Prompt` both fail (without `EventsFirst` TLC finds no violation, but the label-by-label
  account of the driver during boot does not hold): boot and the console
  may then be inside the apply at once, and an association may come between two of its steps.
* `PortalNetProofs`, from `DnsAssumption` and `NetAssumption`: `NetTypeCorrect`,
  `FirstAlwaysListens`, `OneSocketAtMost` and `ClientsAlwaysCounted`.
  `NetInv` adds which descriptors have which owner at each label (`Owners`; the HTTP server's table
  may name a socket that is the DNS task's by now), and that in the first session, until a stray
  close, nobody but the DNS task ever has the port (`FirstPort`). The count of SoftAP clients is
  a saturating counter behind a queue of joins and leaves, so its invariant (`CountInv`) speaks
  of every suffix of that queue. While the portal is open, the count and what is queued make up
  the clients present, or else (leaves of an earlier session are stuck at zero) some suffix of the
  queue makes them up alone; no suffix ever promises more clients than there are. The sums over
  suffixes (`Pending`) are functions given by their steps, `PICK`ed where needed, since a
  recursive definition cannot be unfolded for every queue.
* `ConsoleProofs`: `LineStaysInBuffer` and `AlwaysRunsWhatWasTyped`, under `Polite`; and, for any
  host, `AlwaysListsStrongest` and `JoinAlwaysStagesShown`. `EditInv` adds that what a key was
  tested for still holds when it is applied, because a polite host's key and `console_task`'s
  clearing never overlap; `MeantInv` that the line and the length are those of `meant` up to the
  one step between them. `ListInv` is the scan loop's invariant: what is listed is the strongest
  of what was read so far (`ScanSoFar`), without a name twice, and full when it left one out.
* `ButtonProofs`: `ButtonTypeCorrect`, `PromptAlwaysTruthful`, `AlwaysClearedInTime`,
  `AlwaysDeliberate`, under `Margin` (the button is left alone for the last window and two late
  polls before the clock wraps). `ButtonInv` relates the debounce counter to how long the level
  has really been held (`Held`, `Edges`), bounds the clock while the button is down (`Touched`),
  and says that an armed prompt's age and remaining time make up the window (`Running`).

* `FirmwareProofs`, from `StoreFits` and `FirmwareAssumption` (what is baked in is a network or
  nothing): `FirmwareTypeCorrect` and `StoreOnlyByCommands` (no task but a command, the reset and
  the form changes the store); `GateNeverStuck`, `SoftapNeverStuck` and `PhaseNeverStuck`, for
  inputs overlapping at will; and, for a user who waits (`Patient`), `GateHoldsLinkDown`,
  `PortalAlwaysWhole` and `PortalExactlyWhenUnconfigured`. `TypeInv` lists the labels and locals a
  task may hold. `PromiseInv` says, for each label of each program, what the tasks behind it have
  left undone: whoever has raised the suppress flag, the SoftAP or a phase without (or after) the
  portal still has the label ahead that puts it right, or the portal is active. Steps of the
  manager neither give nor need such a promise, and are dealt with once
  (`ManagerPromises`, `EventPromises`). `SoloInv` says that a patient user's programs run one at a
  time and gives, at each label of opening, closing and testing, the exact state of the portal's
  parts; overlapping inputs break it, as section 5 tells.
  `ConfiguredDeviceBridges` and `ScreenTellsTheTruth` (of `Hud`), under `Patient`, `Prompt` and
  `EventsFirst`, join that to the
  manager's lemmas. `BridgeInv` is `HonestInv` and, until a panic, `MgrReady`: on a configured
  device the label a task is about to execute finds the driver, the record and its own locals as
  it needs them (`ReadyFor`: no association before the apply configures the driver, the pointer
  of `wifi_mgr_apply` at the active profile, a scan that will reassociate), and when no task is
  busy the news is as in `Station` (`DownOK`, `UpOK`) with a configured driver (`AtEase`). Every
  program that leaves the device configured ends in `wifi_mgr_apply`: `SoloInv` says which
  programs those are and with which stores. There is one lemma per group of steps (`BootReady`,
  `ApplyReady`, `ScanReady`, `TestReady`, `OpenReady`, `CloseReady`, `ChoiceReady`, `ResultReady`,
  `InputReady`, `EventReady`, `AirReady`), most of them through `BusyReady` (only one task
  moves). Without `Prompt` both fail, which TLC finds at once: an association may come between
  the steps of one apply. Without `Patient` section 5 has the counterexamples.

Only model-checked: all liveness and fairness (beyond the prover, as is ENABLED), that is
`EventuallyBridged`, `EventuallyServes`, `SuccessCloses`, `PromptEnds` and `ListensAgain`. Every
safety property a passing run checks is also a theorem.

## 5. Where code and documentation disagree

* `old_network`: `use`/`set ssid` during an attempt: apply's own disconnect makes the event
  handler reconnect to the *old* configuration before apply sets the new one; apply's connect
  then fails, unnoticed by the console. The device stays on the old network.
* `stale_setup`: `set ssid` while the portal tests a form. `provisioning_stop` sets the phase to IDLE
  (`provisioning.c:511`) and waits in `httpd_stop` (`:518`) for the handler, whose failing test then writes
  the phase PORTAL (`:334`). The device associates; the LCD, for which a phase other than IDLE means
  setup (`:539`), shows "SETUP AP" for good. So `PhaseSettles`, which holds, only says that none of
  the passing phases stays.
* `no_portal`: clearing the credentials within the 1.2 s after a successful test ends in an
  unconfigured device without a portal, until the next command or restart.
* `second_portal`: closing the portal deletes the DNS task inside `recvfrom`; its socket stays open
  and keeps port 53, so the next portal of the same boot resolves no name.

Also found while modelling, without a run of their own:

* `set pass` (or the button's reset) while the portal is open leaves the portal up
  under the label IDLE (`wifi_mgr.c:162`, then the early return at `provisioning.c:447`): the LCD, which
  follows the phase, shows the setup page; the LED, which follows the label, blinks cyan instead of
  magenta, and the console says idle. `PortalLabelled` of `Hud` is the statement TLC refutes, with
  the constants of `FirmwareStaleSetup.cfg`.
* In the first portal already, a failing `recvfrom` can cost the DNS server its port: it closes its
  descriptor (`dns_server.c:230`), the HTTP server is given the number for a connection, the second
  `close()` (`:264`) ends that connection behind the HTTP server's back, and the DNS task's next socket
  gets the number that is still in the HTTP server's table. When the server ends the session it
  closes the DNS task's socket. `FirstSessionListens` without `~stray` is refuted so.
* A STA_START handled in the middle of boot's apply restarts the device (section 3, `EventsFirst`),
  and so does `esp_wifi_set_config` when the driver refuses it during an attempt.

* The button's clock wraps after 49.7 days while its deadline does not: a prompt raised in the
  last 5 s before the wrap never expires by itself and a much later press confirms it (`Button`
  with `LastTouch = Wrap`, that is without `Margin`, violates `PromptEnds` and `ClearedInTime`).
* A console scan that spans the end of the portal writes its remembered PROVISIONING label back;
  the device then no longer reconnects after a loss.
* `set ssid` during boot's first scan closes nothing, because the portal is not active yet, and
  boot then opens the portal on a configured device. With overlapping inputs `PortalWhole`,
  `BridgesWhenConfigured` and `LinkDownWhileSuppressed` fail (`firmware_patient` checks them for
  inputs one at a time, `firmware_impatient` what holds regardless).
* With the portal open, a test that succeeds although the list is full leaves the station
  associated under a portal that stays, with a green LED.
* Without `Polite`, a hang-up between the test of a backspace and its decrement takes the length
  below zero, that is to the top of `size_t`; the next character passes the test, whose sum wraps to
  zero, and is stored in front of the buffer.
* `scan` lists the strongest record of a network only up to the one that fills the list
  (`wifi_mgr.c:341`): a stronger one behind is not looked at.
* DNS (read, not modelled): requests with AD, CD, Z or the top bit of RCODE set go unanswered, since
  the opcode mask is applied in the wrong byte order (`dns_server.c:116`), and other opcodes are answered; an AAAA question gets an
  all-zero record; with EDNS the client's own OPT record comes first and takes the answer's
  place. Stopping a DNS task that has ended by itself deletes a task twice.

## 6. What is not modelled

* Data: SSIDs and passphrases are members of small sets; RSSI is one of a few values and only in
  the scan's list; channels, BSSIDs, the EMA of the rates (floating point), formatting, drawing.
* HTML and form parsing, URL decoding, the length accounting of the page (`provisioning.c:193-210`),
  and the handlers that only answer (GET, 404): they change no state of the firmware. A parsed
  form is the pair of strings `PostForm` submits.
* What a DNS reply holds: `parse_dns_request` is a function of one request, without state. The models
  keep that it has a reply or none.
* The console's output and the commands that only print.
* Running out of memory: failing `xTaskCreate`, `calloc` or netif creation. The scan's allocation
  failure leaves by the same exit as its other failures and is covered by that.
* A redraw of the LCD or the LED from a phase and a label read at different moments: the next one,
  within a frame, is right. `Hud` speaks of what is drawn once everything has settled.
* The configuration's fields being written by two tasks in the middle of each other's edits: an
  edit is one step. Nothing in the repository says what should hold then, and the code takes no
  step to make anything hold.
* What happens between a panic and the next boot.
* The mutexes' priority inheritance and the watchdog.
* The ST7735 driver (vendored: SPI commands, no state of the firmware's own) and the board's build
  configuration, which enters as constants (`SeedSsid`, `Fds`).

## 7. Plan

Done: every component with control state of its own, the compositions, and a proof module for
each component. Left, in the order of what it promises:

1. `ConfigRace`: edits in their single writes, by console, portal and button at once; which of the
   store's invariants survive.
2. Form decoding and the page's length accounting against reference definitions.
