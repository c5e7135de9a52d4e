-------------------------------- MODULE Console --------------------------------
(***************************************************************************)
(* The CDC console's line editor and network list (console.c): on_cdc_rx,  *)
(* which edits s_line and runs commands in the TinyUSB task, console_task, *)
(* which empties the line when the host hangs up, without a lock, and the  *)
(* list `scan` prints and `join n` picks from.  What the other commands do *)
(* to the configuration is ConfigStore's.                                  *)
(*                                                                         *)
(* A command is one key: ScanKey is `scan`, a number n is `join n`, and    *)
(* any longer line is none of the two.                                     *)
(***************************************************************************)
EXTENDS Integers, Sequences, FiniteSets, FiniteSetsExt, SequencesExt

CONSTANTS
    Names,      \* networks in the air
    Blank,      \* the empty SSID
    Strengths,  \* RSSI values
    MaxRecords, \* bound on access points the driver reports
    ListMax,    \* entries of s_scan
    Size,       \* sizeof(s_line)
    Wrap,       \* size_t values
    MaxKeys,    \* bound on keys typed
    Polite      \* TRUE: the host types only while connected, and stays or stays away for a poll of console_task

ASSUME ConsoleAssumption ==
    /\ Strengths \subseteq Int
    /\ {MaxRecords, MaxKeys} \subseteq Nat
    /\ ListMax \in Nat \ {0} /\ Size \in Nat \ {0} /\ Wrap \in Nat /\ Wrap > Size
    /\ Polite \in BOOLEAN

VARIABLES
    connected,  \* tud_cdc_n_connected
    rx,         \* where on_cdc_rx is with the key it has read
    key,
    line,       \* s_line
    len,        \* s_line_len
    ctask,      \* where console_task is
    greeted,    \* s_greeted
    scan,       \* s_scan
    count,      \* s_scan_count
    heard,      \* what the driver reported to the last scan
    next,       \* the record wifi_mgr_scan is at
    written,    \* networks it has written into s_scan
    shown,      \* the list last printed
    staged,     \* the network `join` last staged, with the number that was asked for
    meant,      \* the line as the user means it, from the keys typed into it
    keys        \* keys so far

editor == <<rx, key, line, len>>
listing == <<scan, count, heard, next, written, shown, staged>>
vars == <<connected, editor, ctask, greeted, listing, meant, keys>>

ScanKey == 0
Numbers == 1..ListMax + 1
Printable == {ScanKey} \cup Numbers
Backspace == -1
Enter == -2
Keys == Printable \cup {Backspace, Enter}

Record == [ssid : Names, rssi : Strengths]
NoRecord == [ssid |-> Blank, rssi |-> 0]

Init ==
    /\ connected = FALSE
    /\ rx = "idle" /\ key = Enter
    /\ line = [i \in 0..Size - 1 |-> ScanKey] /\ len = 0
    /\ ctask = "look" /\ greeted = FALSE
    /\ scan = [i \in 1..ListMax |-> NoRecord] /\ count = 0
    /\ heard = <<>> /\ next = 1 /\ written = 0 /\ shown = <<>> /\ staged = [n |-> 0, ssid |-> Blank]
    /\ meant = <<>> /\ keys = 0

----------------------------------------------------------------------------
(* The host *)

OpenPort ==
    /\ ~connected /\ rx = "idle"
    /\ Polite => ctask = "look" /\ ~greeted
    /\ connected' = TRUE
    /\ UNCHANGED <<editor, ctask, greeted, listing, meant, keys>>

\* The TinyUSB task learns of a hang-up between two callbacks; to the user the line is gone.
HangUp ==
    /\ connected /\ rx = "idle"
    /\ Polite => greeted
    /\ connected' = FALSE /\ meant' = <<>>
    /\ UNCHANGED <<editor, ctask, greeted, listing, keys>>

\* What the user means by a key: a backspace takes back the last character, a character beyond the buffer
\* is not taken.
Edit(l, k) ==
    IF k = Backspace THEN (IF l = <<>> THEN l ELSE Front(l))
    ELSE IF k \in Printable /\ Len(l) < Size - 1 THEN Append(l, k) ELSE l

Type ==
    /\ rx = "idle"
    /\ Polite => connected
    /\ keys < MaxKeys /\ keys' = keys + 1
    /\ \E k \in Keys : key' = k /\ meant' = Edit(meant, k)
    /\ rx' = "test"
    /\ UNCHANGED <<connected, line, len, ctask, greeted, listing>>

----------------------------------------------------------------------------
(* cmd_scan and wifi_mgr_scan's list, in the TinyUSB task *)

\* The driver's records.  A scan that fails counts as one that heard nothing.
CmdScan ==
    /\ \E records \in SeqOf(Record, MaxRecords) : heard' = records
    /\ next' = 1 /\ written' = 0
    /\ UNCHANGED <<scan, count, shown, staged>>

\* Seeded fault: a network heard twice is listed twice.
ScanWithoutDedup ==
    /\ rx = "scan" /\ next <= Len(heard) /\ written < ListMax
    /\ next' = next + 1 /\ written' = written + 1
    /\ scan' = [scan EXCEPT ![written + 1] = heard[next]]
    /\ UNCHANGED <<connected, editor, ctask, greeted, count, heard, shown, staged, meant, keys>>

\* One record: deduplicate by SSID, keep the strongest.  The array is overwritten from the front.
ScanRecord ==
    /\ rx = "scan" /\ next <= Len(heard) /\ written < ListMax
    /\ next' = next + 1
    /\ LET same == {j \in 1..written : scan[j].ssid = heard[next].ssid} IN
       \/ same = {} /\ written' = written + 1 /\ scan' = [scan EXCEPT ![written + 1] = heard[next]]
       \/ \E existing \in same :
            /\ \A j \in same : existing <= j
            /\ scan' = IF heard[next].rssi > scan[existing].rssi THEN [scan EXCEPT ![existing] = heard[next]] ELSE scan
            /\ UNCHANGED written
    /\ UNCHANGED <<connected, editor, ctask, greeted, count, heard, shown, staged, meant, keys>>

\* Seeded fault: a scan that hears nothing leaves the count of the one before.
ScanFailKeepsCount ==
    /\ rx = "scan" /\ (next > Len(heard) \/ written = ListMax)
    /\ rx' = "idle" /\ len' = 0 /\ meant' = <<>>
    /\ count' = (IF heard = <<>> THEN count ELSE written) /\ shown' = SubSeq(scan, 1, written)
    /\ UNCHANGED <<connected, key, line, ctask, greeted, scan, heard, next, written, staged, keys>>

\* The loop ends with the records or when the list is full; what was written is printed, and the line is done.
ScanDone ==
    /\ rx = "scan" /\ (next > Len(heard) \/ written = ListMax)
    /\ rx' = "idle" /\ len' = 0 /\ meant' = <<>>
    /\ count' = written /\ shown' = SubSeq(scan, 1, written)
    /\ UNCHANGED <<connected, key, line, ctask, greeted, scan, heard, next, written, staged, keys>>

\* Nothing is staged when there is no such number, or config_add_profile finds the profile list full.
CmdJoin(n) ==
    /\ \/ n <= count /\ staged' = [n |-> n, ssid |-> scan[n].ssid]
       \/ UNCHANGED staged
    /\ UNCHANGED <<scan, count, heard, next, written, shown>>

----------------------------------------------------------------------------
(* on_cdc_rx, in the TinyUSB task.  Between its test of s_line_len and what it
   then does, console_task may empty the line. *)

\* Seeded fault: the test leaves no room for the terminator.
RxTestOffByOne ==
    /\ rx = "test"
    /\ rx' = IF key \in {Enter, Backspace}
             THEN IF len = 0 THEN "idle" ELSE IF key = Enter THEN "run" ELSE "shorten"
             ELSE IF len < Size THEN "extend" ELSE "idle"
    /\ UNCHANGED <<connected, key, line, len, ctask, greeted, listing, meant, keys>>

RxTest ==
    /\ rx = "test"
    /\ rx' = IF key \in {Enter, Backspace}
             THEN IF len = 0 THEN "idle" ELSE IF key = Enter THEN "run" ELSE "shorten"
             ELSE IF (len + 1) % Wrap < Size THEN "extend" ELSE "idle"
    /\ UNCHANGED <<connected, key, line, len, ctask, greeted, listing, meant, keys>>

Shorten ==
    /\ rx = "shorten" /\ rx' = "idle"
    /\ len' = (len - 1) % Wrap
    /\ UNCHANGED <<connected, key, line, ctask, greeted, listing, meant, keys>>

\* A character stored outside s_line lands in other memory.
Extend ==
    /\ rx = "extend" /\ rx' = "idle"
    /\ line' = IF len \in DOMAIN line THEN [line EXCEPT ![len] = key] ELSE line
    /\ len' = (len + 1) % Wrap
    /\ UNCHANGED <<connected, key, ctask, greeted, listing, meant, keys>>

\* What the command is, up to its terminator; a length outside s_line terminates nothing.
Line == [i \in 1..(IF len < Size THEN len ELSE Size) |-> line[i - 1]]

\* The line runs as a command before its length is reset; `scan` takes its time.
Run ==
    /\ rx = "run"
    /\ IF Line = <<ScanKey>>
       THEN CmdScan /\ rx' = "scan" /\ UNCHANGED <<len, meant>>
       ELSE /\ \/ \E n \in Numbers : Line = <<n>> /\ CmdJoin(n)
               \/ Line \notin {<<k>> : k \in Printable} /\ UNCHANGED listing
            /\ rx' = "idle" /\ len' = 0 /\ meant' = <<>>
    /\ UNCHANGED <<connected, key, line, ctask, greeted, keys>>

----------------------------------------------------------------------------
(* console_task *)

Look ==
    /\ ctask = "look"
    /\ IF connected
       THEN greeted' = TRUE /\ UNCHANGED ctask
       ELSE ctask' = "clear" /\ UNCHANGED greeted
    /\ UNCHANGED <<connected, editor, listing, meant, keys>>

\* Seeded fault: the line survives the hang-up.
ClearKeepsLine ==
    /\ ctask = "clear" /\ ctask' = "look"
    /\ greeted' = FALSE
    /\ UNCHANGED <<connected, editor, listing, meant, keys>>

Clear ==
    /\ ctask = "clear" /\ ctask' = "look"
    /\ greeted' = FALSE /\ len' = 0
    /\ UNCHANGED <<connected, rx, key, line, listing, meant, keys>>

Next ==
    \/ OpenPort \/ HangUp \/ Type
    \/ RxTest \/ Shorten \/ Extend \/ Run \/ ScanRecord \/ ScanDone
    \/ Look \/ Clear

Spec == Init /\ [][Next]_vars

----------------------------------------------------------------------------
(* Properties *)

TypeOK ==
    /\ connected \in BOOLEAN /\ greeted \in BOOLEAN
    /\ rx \in {"idle", "test", "shorten", "extend", "run", "scan"} /\ key \in Keys
    /\ line \in [0..Size - 1 -> Printable]
    /\ ctask \in {"look", "clear"}
    /\ len \in 0..Size - 1

\* With a polite host, the line that runs is what the user typed into it, whatever was typed before a
\* hang-up, corrected, or typed beyond the buffer.
RunsWhatWasTyped == rx = "run" => Line = meant

\* `scan` prints every network once with its strongest record, as far as the list holds them.
ListsStrongest ==
    rx # "scan" =>
        /\ count = Len(shown) /\ count <= ListMax
        /\ \A i, j \in DOMAIN shown : shown[i].ssid = shown[j].ssid => i = j
        /\ \A i \in DOMAIN shown :
             /\ shown[i] \in ToSet(heard)
             /\ Len(shown) < ListMax => \A r \in ToSet(heard) : r.ssid = shown[i].ssid => r.rssi <= shown[i].rssi
        /\ Len(shown) < ListMax => \A r \in ToSet(heard) : \E i \in DOMAIN shown : shown[i].ssid = r.ssid

\* `join n` stages the network the user saw under that number, never one of an earlier list that the array
\* still holds (console help: stage scanned AP #n as active SSID).
JoinStagesShown ==
    [][staged' # staged => staged'.n \in DOMAIN shown /\ staged'.ssid = shown[staged'.n].ssid]_vars
================================================================================
