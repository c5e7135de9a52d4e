----------------------------- MODULE ConsoleProofs -----------------------------
(***************************************************************************)
(* With a polite host, no sequence of keys, hang-ups and commands takes    *)
(* the console's line outside its buffer, whatever the buffer's size, and  *)
(* the line that runs is the one that was typed; with any host, `scan`     *)
(* lists each network once and `join n` stages the one listed under n.     *)
(* Proved with TLAPS.                                                      *)
(***************************************************************************)
EXTENDS Console, SequenceTheorems, TLAPS

\* While a key is being handled nobody empties the line: console_task does so only during a hang-up, and a
\* polite host neither types nor comes back before it is over.  What the key was tested for still holds
\* when it is applied.
EditInv ==
    /\ TypeOK
    /\ rx # "idle" => connected
    /\ ctask = "clear" => ~connected
    /\ rx = "shorten" => len > 0
    /\ rx = "extend" => len + 1 < Size /\ key \in Printable

\* The line starts out empty.
LEMMA ConsoleInitInv == Init => EditInv
<1>1. 0 \in 0..Size - 1
  BY ConsoleAssumption
<1> QED
  BY <1>1, Zenon DEF Init, EditInv, TypeOK, Printable, Keys

\* Every step keeps it.
LEMMA ConsoleStepInv == Polite /\ EditInv /\ [Next]_vars => EditInv'
<1> SUFFICES ASSUME Polite, EditInv, [Next]_vars PROVE EditInv'
  OBVIOUS
<1> USE DEF EditInv, TypeOK, editor, listing
<1>1. CASE OpenPort
  BY <1>1 DEF OpenPort
<1>2. CASE HangUp
  BY <1>2 DEF HangUp
<1>3. CASE Type
  BY <1>3 DEF Type
<1>4. CASE RxTest
  <2>1. len' = len /\ key' = key /\ line' = line /\ connected' = connected /\ connected
    BY <1>4 DEF RxTest
  <2>2. rx' \in {"idle", "run", "shorten", "extend"} /\ (rx' = "shorten" => len > 0)
    BY <1>4 DEF RxTest
  <2>3. rx' = "extend" => key \in Printable /\ (len + 1) % Wrap < Size
    BY <1>4 DEF RxTest, Keys
  <2>4. (len + 1) % Wrap = len + 1
    BY ConsoleAssumption
  <2> QED
    BY <1>4, <2>1, <2>2, <2>3, <2>4 DEF RxTest
<1>5. CASE Shorten
  <2>1. (len - 1) % Wrap = len - 1 /\ len - 1 \in 0..Size - 1
    BY <1>5, ConsoleAssumption DEF Shorten
  <2> QED
    BY <1>5, <2>1 DEF Shorten
<1>6. CASE Extend
  <2>1. (len + 1) % Wrap = len + 1 /\ len + 1 \in 0..Size - 1
    BY <1>6, ConsoleAssumption DEF Extend
  <2>2. line' \in [0..Size - 1 -> Printable]
    BY <1>6 DEF Extend
  <2> QED
    BY <1>6, <2>1, <2>2 DEF Extend
<1>7. CASE Run
  <2>1. rx' \in {"idle", "scan"} /\ (len' = len \/ len' = 0) /\ UNCHANGED <<connected, key, line, ctask, greeted>>
    BY <1>7 DEF Run
  <2>2. connected
    BY <1>7 DEF Run
  <2> QED
    BY <2>1, <2>2, ConsoleAssumption
<1>8. CASE Look
  BY <1>8 DEF Look
\* The line is emptied during a hang-up, hence while no key is being handled.
<1>9. CASE Clear
  <2>1. rx' = "idle"
    BY <1>9 DEF Clear
  <2>2. ctask' = "look" /\ greeted' = FALSE /\ UNCHANGED <<connected, rx, key, line>>
    BY <1>9 DEF Clear
  <2>3. len' \in 0..Size - 1
    BY <1>9, ConsoleAssumption DEF Clear
  <2> QED
    BY <2>1, <2>2, <2>3
<1>10. CASE UNCHANGED vars
  BY <1>10 DEF vars
<1>11. CASE ScanRecord
  BY <1>11 DEF ScanRecord
<1>12. CASE ScanDone
  <2>1. rx' = "idle" /\ len' = 0 /\ UNCHANGED <<connected, key, line, ctask, greeted>>
    BY <1>12 DEF ScanDone
  <2> QED
    BY <2>1, ConsoleAssumption
<1> QED
  BY <1>1, <1>2, <1>3, <1>4, <1>5, <1>6, <1>7, <1>8, <1>9, <1>10, <1>11, <1>12 DEF Next

\* on_cdc_rx and console_task, for every buffer size and any keys of a polite host: the length stays inside
\* s_line, with room for the terminator.
THEOREM LineStaysInBuffer == ASSUME Polite PROVE Spec => []TypeOK
<1>1. Init => EditInv
  BY ConsoleInitInv
<1>2. EditInv /\ [Next]_vars => EditInv'
  BY ConsoleStepInv
<1>3. EditInv => TypeOK
  BY DEF EditInv
<1> QED
  BY <1>1, <1>2, <1>3, PTL DEF Spec

----------------------------------------------------------------------------
(* The line that runs *)

\* The line is what the user means by the keys so far; while a key is being handled, up to that key.  After
\* a hang-up it is neither until console_task has emptied it, which the polite host waits for.
MeantInv ==
    /\ meant \in Seq(Printable)
    /\ ~connected => meant = <<>> /\ (greeted \/ len = 0)
    /\ rx = "idle" /\ connected => Line = meant
    /\ rx = "test" => meant = Edit(Line, key)
    /\ rx = "shorten" => meant = Front(Line)
    /\ rx = "extend" => meant = Append(Line, key)
    /\ rx = "run" => Line = meant

LEMMA LineSeq ==
    ASSUME NEW n \in 0..Size - 1, NEW l \in [0..Size - 1 -> Printable],
           NEW s, s = [i \in 1..(IF n < Size THEN n ELSE Size) |-> l[i - 1]]
    PROVE  s \in Seq(Printable) /\ Len(s) = n /\ \A i \in 1..n : s[i] = l[i - 1] /\ i - 1 \in 0..Size - 1
<1>1. n < Size /\ n \in Nat
  BY ConsoleAssumption
<1>2. \A i \in 1..n : i - 1 \in 0..Size - 1
  BY <1>1, ConsoleAssumption
<1>3. s = [i \in 1..n |-> l[i - 1]]
  BY <1>1
<1>4. s \in [1..n -> Printable]
  BY <1>2, <1>3
<1>5. s \in Seq(Printable) /\ Len(s) = n
  BY <1>1, <1>4
<1> QED BY <1>2, <1>3, <1>5

LEMMA FrontSeq ==
    ASSUME NEW s \in Seq(Printable), Len(s) > 0, NEW f, f = Front(s)
    PROVE  f \in Seq(Printable) /\ Len(f) = Len(s) - 1 /\ \A i \in 1..Len(f) : f[i] = s[i]
<1>1. Len(s) \in Nat /\ \A i \in 1..Len(s) : s[i] \in Printable
  BY LenProperties
<1>2. PICK n \in Int : n = Len(s) - 1
  BY <1>1
<1>3. f = SubSeq(s, 1, n)
  BY <1>2 DEF Front
<1>4. \A i \in 1..n : s[i] \in Printable
  BY <1>1, <1>2
<1>5. f \in Seq(Printable) /\ Len(f) = (IF 1 <= n THEN n - 1 + 1 ELSE 0) /\ \A i \in 1..(n - 1 + 1) : f[i] = s[1 + i - 1]
  BY <1>3, <1>4, SubSeqProperties
<1>6. n >= 0 /\ n - 1 + 1 = n
  BY <1>1, <1>2
<1>7. Len(f) = n
  BY <1>5, <1>6
<1>8. ASSUME NEW i \in 1..n PROVE f[i] = s[i]
  <2>1. 1 + i - 1 = i
    OBVIOUS
  <2> QED BY <1>5, <1>6, <2>1
<1> QED BY <1>2, <1>5, <1>7, <1>8

LEMMA SameSeq ==
    \A s, t \in Seq(Printable) : Len(s) = Len(t) /\ (\A i \in 1..Len(s) : s[i] = t[i]) => s = t
  BY SeqEqual

LEMMA InitMeant == Init => MeantInv
<1> SUFFICES ASSUME Init PROVE MeantInv
  OBVIOUS
<1>1. meant \in Seq(Printable)
  BY EmptySeq DEF Init
<1> QED BY <1>1 DEF Init, MeantInv

LEMMA StepMeant == Polite /\ EditInv /\ MeantInv /\ [Next]_vars => MeantInv'
<1> SUFFICES ASSUME Polite, EditInv, MeantInv, [Next]_vars PROVE MeantInv'
  OBVIOUS
<1>1. EditInv'
  BY ConsoleStepInv
<1>2. /\ Line \in Seq(Printable) /\ Len(Line) = len /\ len \in Nat
      /\ \A i \in 1..len : Line[i] = line[i - 1] /\ i - 1 \in 0..Size - 1
  BY LineSeq, ConsoleAssumption DEF EditInv, TypeOK, Line
<1>3. /\ Line' \in Seq(Printable) /\ Len(Line') = len' /\ len' \in Nat
      /\ \A i \in 1..len' : Line'[i] = line'[i - 1] /\ i - 1 \in 0..Size - 1
  <2>1. len' \in 0..Size - 1 /\ line' \in [0..Size - 1 -> Printable]
    BY <1>1 DEF EditInv, TypeOK
  <2> QED BY <2>1, LineSeq, ConsoleAssumption DEF Line
<1>4. line' = line /\ len' = len => Line' = Line
  BY DEF Line
<1> USE DEF MeantInv, editor, listing
<1>5. CASE OpenPort
  <2>1. Line' = Line /\ rx = "idle" /\ rx' = "idle" /\ meant' = meant /\ meant = <<>> /\ connected' /\ len = 0
    BY <1>4, <1>5 DEF OpenPort
  <2>2. Line = <<>>
    BY <1>2, <2>1
  <2> QED BY <2>1, <2>2
<1>6. CASE HangUp
  BY <1>6, EmptySeq DEF HangUp
<1>7. CASE Type
  <2>1. PICK k \in Keys : key' = k /\ meant' = Edit(meant, k)
    BY <1>7 DEF Type
  <2>2. rx = "idle" /\ rx' = "test" /\ connected /\ connected' /\ Line' = Line /\ meant = Line
    BY <1>4, <1>7 DEF Type
  <2>3. meant' \in Seq(Printable)
    <3>1. CASE k = Backspace
      <4>1. CASE meant = <<>>
        BY <2>1, <3>1, <4>1 DEF Edit
      <4>2. CASE meant # <<>>
        <5>1. meant' = Front(meant) /\ Len(meant) > 0
          BY <2>1, <3>1, <4>2 DEF Edit
        <5> QED BY <5>1, FrontSeq
      <4> QED BY <4>1, <4>2
    <3>2. CASE k # Backspace
      BY <2>1, <3>2, AppendProperties DEF Edit
    <3> QED BY <3>1, <3>2
  <2> QED BY <2>1, <2>2, <2>3
<1>8. CASE RxTest
  <2>1. UNCHANGED <<connected, key, line, len, greeted, meant>> /\ rx = "test" /\ Line' = Line /\ connected
    BY <1>4, <1>8 DEF RxTest, EditInv
  <2>2. meant = Edit(Line, key) /\ key \in Keys /\ (len + 1) % Wrap = len + 1
    BY <2>1, ConsoleAssumption DEF EditInv, TypeOK
  <2>3. CASE key = Enter
    <3>1. meant = Line
      BY <2>2, <2>3 DEF Edit, Enter, Backspace, Printable, ScanKey, Numbers
    <3>2. rx' \in {"idle", "run"}
      BY <1>8, <2>3 DEF RxTest
    <3> QED BY <2>1, <3>1, <3>2
  <2>4. CASE key = Backspace
    <3>1. CASE len = 0
      <4>1. rx' = "idle" /\ Line = <<>>
        BY <1>2, <1>8, <2>4, <3>1 DEF RxTest
      <4>2. meant = Line
        BY <2>2, <2>4, <4>1 DEF Edit
      <4> QED BY <2>1, <4>1, <4>2
    <3>2. CASE len # 0
      <4>1. rx' = "shorten" /\ Line # <<>>
        BY <1>2, <1>8, <2>4, <3>2 DEF RxTest, Enter, Backspace
      <4>2. meant = Front(Line)
        BY <2>2, <2>4, <4>1 DEF Edit
      <4> QED BY <2>1, <4>1, <4>2
    <3> QED BY <3>1, <3>2
  <2>5. CASE key \notin {Enter, Backspace}
    <3>1. key \in Printable
      BY <2>2, <2>5 DEF Keys
    <3>2. CASE len + 1 < Size
      <4>1. rx' = "extend" /\ meant = Append(Line, key)
        BY <1>2, <1>8, <2>2, <2>5, <3>1, <3>2, ConsoleAssumption DEF RxTest, Edit
      <4> QED BY <2>1, <4>1
    <3>3. CASE ~(len + 1 < Size)
      <4>1. rx' = "idle" /\ meant = Line
        BY <1>2, <1>8, <2>2, <2>5, <3>1, <3>3, ConsoleAssumption DEF RxTest, Edit
      <4> QED BY <2>1, <4>1
    <3> QED BY <3>2, <3>3
  <2> QED BY <2>3, <2>4, <2>5
<1>9. CASE Shorten
  <2>1. /\ UNCHANGED <<connected, line, greeted, meant>> /\ rx = "shorten" /\ rx' = "idle" /\ connected /\ len > 0
        /\ len' = (len - 1) % Wrap
    BY <1>9 DEF Shorten, EditInv
  <2>2. len' = len - 1
    BY <2>1, ConsoleAssumption DEF EditInv, TypeOK
  <2>3. PICK f : f = Front(Line)
    OBVIOUS
  <2>4. f \in Seq(Printable) /\ Len(f) = len - 1 /\ \A i \in 1..Len(f) : f[i] = Line[i]
    BY <1>2, <2>1, <2>3, FrontSeq
  <2>5. \A i \in 1..Len(f) : Line'[i] = f[i]
    <3> SUFFICES ASSUME NEW i \in 1..(len - 1) PROVE Line'[i] = f[i]
      BY <2>4
    <3>1. i \in 1..len /\ i \in 1..len' /\ i \in 1..Len(f)
      BY <1>2, <2>2, <2>4
    <3>2. Line'[i] = line[i - 1] /\ Line[i] = line[i - 1] /\ f[i] = Line[i]
      BY <1>2, <1>3, <2>1, <2>4, <3>1
    <3> QED BY <3>2
  <2>6. Line' = f
    BY <1>3, <2>2, <2>4, <2>5, SameSeq
  <2> QED BY <2>1, <2>3, <2>6
<1>10. CASE Extend
  <2>1. /\ UNCHANGED <<connected, key, greeted, meant>> /\ rx = "extend" /\ rx' = "idle" /\ connected
        /\ len' = (len + 1) % Wrap /\ key \in Printable /\ len + 1 < Size
    BY <1>10 DEF Extend, EditInv
  <2>2. len' = len + 1
    <3>1. len + 1 < Size /\ len \in Nat /\ Wrap > Size /\ Wrap \in Nat /\ Size \in Nat
      BY <1>2, <2>1, ConsoleAssumption
    <3>2. (len + 1) % Wrap = len + 1
      BY <3>1
    <3> QED BY <2>1, <3>2
  <2>3. line' = [line EXCEPT ![len] = key] /\ len \in 0..Size - 1 /\ line \in [0..Size - 1 -> Printable]
    BY <1>10 DEF Extend, EditInv, TypeOK
  <2>4. PICK a : a = Append(Line, key)
    OBVIOUS
  <2>5. a \in Seq(Printable) /\ Len(a) = len + 1 /\ (\A i \in 1..len : a[i] = Line[i]) /\ a[len + 1] = key
    BY <1>2, <2>1, <2>4, AppendProperties
  <2>6. ASSUME NEW i \in 1..len + 1 PROVE Line'[i] = a[i]
    <3>1. Line'[i] = line'[i - 1] /\ i - 1 \in 0..Size - 1
      BY <1>3, <2>2
    <3>2. CASE i = len + 1
      BY <2>3, <2>5, <3>1, <3>2
    <3>3. CASE i \in 1..len
      <4>1. line'[i - 1] = line[i - 1]
        BY <2>3, <3>1, <3>3
      <4> QED BY <1>2, <2>5, <3>1, <3>3, <4>1
    <3> QED BY <1>2, <3>2, <3>3
  <2>7. Line' = a
    BY <1>3, <2>2, <2>5, <2>6, SameSeq
  <2> QED BY <2>1, <2>4, <2>7
<1>11. CASE Run \/ ScanDone
  <2>1. UNCHANGED <<connected, line, greeted>> /\ connected
    BY <1>11 DEF Run, ScanDone, EditInv
  <2>2. CASE rx' = "scan"
    BY <1>11, <2>1, <2>2 DEF Run, ScanDone
  <2>3. CASE rx' # "scan"
    <3>1. rx' = "idle" /\ len' = 0 /\ meant' = <<>>
      BY <1>11, <2>3 DEF Run, ScanDone
    <3>2. Line' = <<>>
      BY <1>3, <3>1
    <3> QED BY <2>1, <3>1, <3>2, EmptySeq
  <2> QED BY <2>2, <2>3
<1>12. CASE ScanRecord \/ Look \/ UNCHANGED vars
  <2>1. UNCHANGED <<connected, rx, key, line, len, meant>> /\ Line' = Line /\ (~connected => greeted' = greeted)
    BY <1>4, <1>12 DEF ScanRecord, Look, vars
  <2> QED BY <2>1 DEF Edit
<1>13. CASE Clear
  <2>1. ~connected /\ rx = "idle" /\ rx' = "idle" /\ UNCHANGED <<connected, meant>> /\ len' = 0
    BY <1>13 DEF Clear, EditInv
  <2> QED BY <2>1
<1> QED
  BY <1>5, <1>6, <1>7, <1>8, <1>9, <1>10, <1>11, <1>12, <1>13 DEF Next

\* on_cdc_rx and console_task, for every buffer size and any keys and hang-ups of a polite host: the line
\* that runs as a command is the one the user typed and corrected, with nothing left of an earlier one.
THEOREM AlwaysRunsWhatWasTyped == ASSUME Polite PROVE Spec => []RunsWhatWasTyped
<1>1. Init => EditInv /\ MeantInv
  BY ConsoleInitInv, InitMeant
<1>2. EditInv /\ MeantInv /\ [Next]_vars => (EditInv /\ MeantInv)'
  BY ConsoleStepInv, StepMeant
<1>3. MeantInv => RunsWhatWasTyped
  BY DEF MeantInv, RunsWhatWasTyped
<1> QED
  BY <1>1, <1>2, <1>3, PTL DEF Spec

----------------------------------------------------------------------------
(* The list of networks *)

\* What wifi_mgr_scan has written so far: one entry for each network among the records it has been at, each
\* of them one of these records, none weaker than any other record of its network.
ScanSoFar ==
    /\ \A i, j \in 1..written : scan[i].ssid = scan[j].ssid => i = j
    /\ \A i \in 1..written : \E k \in 1..next - 1 : scan[i] = heard[k]
    /\ \A k \in 1..next - 1 : \E i \in 1..written : scan[i].ssid = heard[k].ssid /\ heard[k].rssi <= scan[i].rssi

\* The first entries of s_scan are the list that was printed.
Listed ==
    /\ shown \in Seq(Record \cup {NoRecord}) /\ Len(shown) = count /\ count \in 0..ListMax
    /\ \A i \in 1..count : shown[i] = scan[i]
    /\ ListsStrongest

ListInv ==
    /\ heard \in Seq(Record) /\ next \in 1..Len(heard) + 1 /\ written \in 0..ListMax
    /\ scan \in [1..ListMax -> Record \cup {NoRecord}]
    /\ rx = "scan" => ScanSoFar
    /\ rx # "scan" => Listed

LEMMA InitList == Init => ListInv
<1> SUFFICES ASSUME Init PROVE ListInv
  OBVIOUS
<1>1. heard = <<>> /\ shown = <<>> /\ count = 0 /\ written = 0 /\ next = 1 /\ rx = "idle"
  BY DEF Init
<1>2. heard \in Seq(Record) /\ Len(heard) = 0 /\ shown \in Seq(Record \cup {NoRecord}) /\ Len(shown) = 0
  BY <1>1, EmptySeq
<1>3. DOMAIN shown = {} /\ DOMAIN heard = {}
  BY <1>1
<1>4. ListsStrongest
  BY <1>1, <1>2, <1>3, ConsoleAssumption DEF ListsStrongest, ToSet
<1>5. scan \in [1..ListMax -> Record \cup {NoRecord}]
  BY DEF Init
<1> QED BY <1>1, <1>2, <1>4, <1>5, ConsoleAssumption DEF ListInv, Listed

\* The other steps leave the list and the records alone.
LEMMA QuietList ==
    ASSUME ListInv, UNCHANGED <<scan, count, heard, next, written, shown>>, rx' = "scan" <=> rx = "scan"
    PROVE  ListInv'
<1>1. CASE rx = "scan"
  BY <1>1 DEF ListInv, ScanSoFar
<1>2. CASE rx # "scan"
  BY <1>2 DEF ListInv, Listed, ListsStrongest
<1> QED BY <1>1, <1>2

LEMMA RecordFields == \A q \in Record : q.ssid \in Names /\ q.rssi \in Int
  BY ConsoleAssumption DEF Record

LEMMA RecordStep == ASSUME ListInv, ScanRecord PROVE ListInv'
<1>1. /\ rx = "scan" /\ rx' = "scan" /\ next <= Len(heard) /\ written < ListMax
      /\ next' = next + 1 /\ heard' = heard
  BY DEF ScanRecord, editor
<1>2. ScanSoFar
  BY <1>1 DEF ListInv
<1>3. /\ Len(heard) \in Nat /\ ListMax \in Nat /\ written \in Nat /\ next \in Nat /\ next >= 1
      /\ \A k \in 1..Len(heard) : heard[k] \in Record
      /\ scan \in [1..ListMax -> Record \cup {NoRecord}]
  BY LenProperties, ConsoleAssumption DEF ListInv
<1>4. PICK r : r = heard[next]
  OBVIOUS
<1>5. r \in Record /\ r.ssid \in Names /\ r.rssi \in Int
  <2>1. next \in 1..Len(heard)
    BY <1>1, <1>3
  <2> QED BY <1>3, <1>4, <2>1, RecordFields
<1>6. next' \in 1..Len(heard) + 1 /\ next' - 1 = next /\ 1..next' - 1 = 1..(next - 1) \cup {next}
  BY <1>1, <1>3
<1>7. ASSUME NEW k \in 1..next - 1 PROVE heard[k] \in Record /\ heard[k].rssi \in Int
  <2>1. k \in 1..Len(heard)
    BY <1>1, <1>3
  <2> QED BY <1>3, <2>1, RecordFields
<1>8. ASSUME NEW i \in 1..written PROVE i \in 1..ListMax /\ scan[i] \in Record /\ scan[i].rssi \in Int
  <2>1. PICK k \in 1..next - 1 : scan[i] = heard[k]
    BY <1>2 DEF ScanSoFar
  <2> QED BY <1>1, <1>3, <1>7, <2>1
<1>9. CASE {j \in 1..written : scan[j].ssid = heard[next].ssid} = {} /\ written' = written + 1
           /\ scan' = [scan EXCEPT ![written + 1] = heard[next]]
  <2>1. \A j \in 1..written : scan[j].ssid # r.ssid
    BY <1>4, <1>9
  <2>2. /\ scan' \in [1..ListMax -> Record \cup {NoRecord}]
        /\ scan'[written + 1] = r /\ \A i \in 1..written : scan'[i] = scan[i]
    BY <1>1, <1>3, <1>4, <1>5, <1>9
  <2>3. 1..written' = 1..written \cup {written + 1} /\ written' \in 0..ListMax
    BY <1>1, <1>3, <1>9
  <2>4. \A i, j \in 1..written' : scan'[i].ssid = scan'[j].ssid => i = j
    BY <1>2, <2>1, <2>2, <2>3 DEF ScanSoFar
  <2>5. ASSUME NEW i \in 1..written' PROVE \E k \in 1..next' - 1 : scan'[i] = heard[k]
    <3>1. CASE i = written + 1
      BY <1>4, <1>6, <2>2, <3>1
    <3>2. CASE i \in 1..written
      <4>1. PICK k \in 1..next - 1 : scan[i] = heard[k]
        BY <1>2, <3>2 DEF ScanSoFar
      <4> QED BY <1>6, <2>2, <3>2, <4>1
    <3> QED BY <2>3, <3>1, <3>2
  <2>6. ASSUME NEW k \in 1..next' - 1
        PROVE  \E i \in 1..written' : scan'[i].ssid = heard[k].ssid /\ heard[k].rssi <= scan'[i].rssi
    <3>1. CASE k = next
      <4>1. written + 1 \in 1..written' /\ scan'[written + 1] = heard[k] /\ heard[k].rssi <= r.rssi
        BY <1>4, <1>5, <2>2, <2>3, <3>1
      <4> QED BY <1>4, <2>2, <3>1, <4>1
    <3>2. CASE k \in 1..next - 1
      <4>1. PICK i \in 1..written : scan[i].ssid = heard[k].ssid /\ heard[k].rssi <= scan[i].rssi
        BY <1>2, <3>2 DEF ScanSoFar
      <4> QED BY <2>2, <2>3, <4>1
    <3> QED BY <1>6, <3>1, <3>2
  <2>7. ScanSoFar'
    BY <1>1, <2>4, <2>5, <2>6 DEF ScanSoFar
  <2> QED BY <1>1, <1>6, <2>2, <2>3, <2>7 DEF ListInv
<1>10. ASSUME NEW e \in 1..written, scan[e].ssid = heard[next].ssid, written' = written,
              scan' = IF heard[next].rssi > scan[e].rssi THEN [scan EXCEPT ![e] = heard[next]] ELSE scan
       PROVE  ListInv'
  <2>1. e \in 1..ListMax /\ scan[e] \in Record /\ scan[e].rssi \in Int /\ scan[e].ssid = r.ssid
    BY <1>4, <1>8, <1>10
  <2>2. /\ scan' \in [1..ListMax -> Record \cup {NoRecord}]
        /\ \A i \in 1..ListMax : i # e => scan'[i] = scan[i]
        /\ scan'[e] \in {scan[e], r} /\ scan'[e].ssid = r.ssid
        /\ scan[e].rssi <= scan'[e].rssi /\ r.rssi <= scan'[e].rssi
    <3>1. CASE r.rssi > scan[e].rssi
      <4>1. scan' = [scan EXCEPT ![e] = r]
        BY <1>4, <1>10, <3>1
      <4> QED BY <1>3, <1>5, <2>1, <3>1, <4>1
    <3>2. CASE ~(r.rssi > scan[e].rssi)
      <4>1. scan' = scan
        BY <1>4, <1>10, <3>2
      <4> QED BY <1>3, <1>5, <2>1, <3>2, <4>1
    <3> QED BY <3>1, <3>2
  <2>3. \A i \in 1..written : i \in 1..ListMax /\ scan'[i].ssid = scan[i].ssid /\ scan[i].rssi <= scan'[i].rssi
                              /\ scan[i].rssi \in Int /\ scan'[i].rssi \in Int
    <3> SUFFICES ASSUME NEW i \in 1..written
                 PROVE  i \in 1..ListMax /\ scan'[i].ssid = scan[i].ssid /\ scan[i].rssi <= scan'[i].rssi
                        /\ scan[i].rssi \in Int /\ scan'[i].rssi \in Int
      OBVIOUS
    <3>1. CASE i = e
      BY <1>5, <2>1, <2>2, <3>1
    <3>2. CASE i # e
      <4>1. i \in 1..ListMax /\ scan[i].rssi \in Int /\ scan'[i] = scan[i]
        BY <1>8, <2>2, <3>2
      <4> QED BY <4>1
    <3> QED BY <3>1, <3>2
  <2>4. \A i, j \in 1..written' : scan'[i].ssid = scan'[j].ssid => i = j
    BY <1>2, <1>10, <2>3 DEF ScanSoFar
  <2>5. ASSUME NEW i \in 1..written' PROVE \E k \in 1..next' - 1 : scan'[i] = heard[k]
    <3>1. CASE scan'[i] = r
      BY <1>4, <1>6, <3>1
    <3>2. CASE scan'[i] # r
      <4>1. scan'[i] = scan[i] /\ i \in 1..written
        BY <1>10, <2>2, <2>3, <3>2
      <4>2. PICK k \in 1..next - 1 : scan[i] = heard[k]
        BY <1>2, <4>1 DEF ScanSoFar
      <4> QED BY <1>6, <4>1, <4>2
    <3> QED BY <3>1, <3>2
  <2>6. ASSUME NEW k \in 1..next' - 1
        PROVE  \E i \in 1..written' : scan'[i].ssid = heard[k].ssid /\ heard[k].rssi <= scan'[i].rssi
    <3>1. CASE k = next
      BY <1>4, <1>10, <2>2, <3>1
    <3>2. CASE k \in 1..next - 1
      <4>1. PICK i \in 1..written : scan[i].ssid = heard[k].ssid /\ heard[k].rssi <= scan[i].rssi
        BY <1>2, <3>2 DEF ScanSoFar
      <4>2. heard[k].rssi \in Int
        BY <1>7, <3>2
      <4>3. scan'[i].ssid = heard[k].ssid /\ heard[k].rssi <= scan'[i].rssi
        BY <2>3, <4>1, <4>2
      <4> QED BY <1>10, <4>3
    <3> QED BY <1>6, <3>1, <3>2
  <2>7. ScanSoFar'
    BY <1>1, <2>4, <2>5, <2>6 DEF ScanSoFar
  <2> QED BY <1>1, <1>3, <1>6, <1>10, <2>2, <2>7 DEF ListInv
<1> QED BY <1>9, <1>10 DEF ScanRecord

LEMMA DoneStep == ASSUME ListInv, ScanDone PROVE ListInv'
<1>1. /\ rx = "scan" /\ rx' = "idle" /\ (next > Len(heard) \/ written = ListMax)
      /\ count' = written /\ shown' = SubSeq(scan, 1, written) /\ UNCHANGED <<scan, heard, next, written>>
  BY DEF ScanDone
<1>2. ScanSoFar
  BY <1>1 DEF ListInv
<1>3. /\ Len(heard) \in Nat /\ ListMax \in Nat /\ written \in Nat /\ written <= ListMax /\ next \in Nat
      /\ next >= 1 /\ next <= Len(heard) + 1 /\ DOMAIN heard = 1..Len(heard)
      /\ \A k \in 1..Len(heard) : heard[k] \in Record
  BY LenProperties, ConsoleAssumption DEF ListInv
<1>4. \A i \in 1..written : scan[i] \in Record \cup {NoRecord}
  BY <1>3 DEF ListInv
<1>5. PICK list : list = SubSeq(scan, 1, written)
  OBVIOUS
<1>6. list \in Seq(Record \cup {NoRecord}) /\ Len(list) = written /\ \A i \in 1..written : list[i] = scan[i]
  <2>1. /\ list \in Seq(Record \cup {NoRecord}) /\ Len(list) = (IF 1 <= written THEN written - 1 + 1 ELSE 0)
        /\ \A i \in 1..written - 1 + 1 : list[i] = scan[1 + i - 1]
    BY <1>3, <1>4, <1>5, SubSeqProperties
  <2>2. written - 1 + 1 = written /\ Len(list) = written
    BY <1>3, <2>1
  <2>3. ASSUME NEW i \in 1..written PROVE list[i] = scan[i]
    <3>1. 1 + i - 1 = i
      OBVIOUS
    <3> QED BY <2>1, <2>2, <3>1
  <2> QED BY <2>1, <2>2, <2>3
<1>7. DOMAIN list = 1..written
  BY <1>6, LenProperties
<1>8. \A r : r \in ToSet(heard) <=> \E k \in 1..Len(heard) : r = heard[k]
  BY <1>3 DEF ToSet
<1>9. \A i, j \in 1..written : list[i].ssid = list[j].ssid => i = j
  BY <1>2, <1>6 DEF ScanSoFar
<1>10. ASSUME NEW i \in 1..written PROVE list[i] \in ToSet(heard)
  <2>1. PICK k \in 1..next - 1 : scan[i] = heard[k]
    BY <1>2 DEF ScanSoFar
  <2>2. k \in 1..Len(heard)
    BY <1>3
  <2> QED BY <1>6, <1>8, <2>1, <2>2
\* A list that is not full has been at every record.
<1>11. ASSUME written < ListMax, NEW r \in ToSet(heard)
       PROVE  \E i \in 1..written : list[i].ssid = r.ssid /\ r.rssi <= list[i].rssi
  <2>1. PICK k \in 1..Len(heard) : r = heard[k]
    BY <1>8
  <2>2. k \in 1..next - 1
    BY <1>1, <1>3, <1>11
  <2>3. PICK i \in 1..written : scan[i].ssid = heard[k].ssid /\ heard[k].rssi <= scan[i].rssi
    BY <1>2, <2>2 DEF ScanSoFar
  <2> QED BY <1>6, <2>1, <2>3
<1>12. ASSUME written < ListMax, NEW r \in ToSet(heard), NEW i \in 1..written, r.ssid = list[i].ssid
       PROVE  r.rssi <= list[i].rssi
  <2>1. PICK j \in 1..written : list[j].ssid = r.ssid /\ r.rssi <= list[j].rssi
    BY <1>11, <1>12
  <2>2. i = j
    BY <1>9, <1>12, <2>1
  <2> QED BY <2>1, <2>2
<1>13. shown' = list
  BY <1>1, <1>5
<1>14. ListsStrongest'
  BY <1>1, <1>3, <1>6, <1>7, <1>9, <1>10, <1>11, <1>12, <1>13 DEF ListsStrongest
<1>15. Listed'
  BY <1>1, <1>3, <1>6, <1>13, <1>14 DEF Listed
<1> QED BY <1>1, <1>15 DEF ListInv

LEMMA StepList == ListInv /\ [Next]_vars => ListInv'
<1> SUFFICES ASSUME ListInv, [Next]_vars PROVE ListInv'
  OBVIOUS
<1>1. CASE OpenPort \/ HangUp \/ Type \/ Look \/ Clear \/ UNCHANGED vars
  <2>1. UNCHANGED <<scan, count, heard, next, written, shown>> /\ (rx' = "scan" <=> rx = "scan")
    BY <1>1 DEF OpenPort, HangUp, Type, Look, Clear, vars, editor, listing
  <2> QED BY <2>1, QuietList
<1>2. CASE RxTest \/ Shorten \/ Extend
  <2>1. UNCHANGED <<scan, count, heard, next, written, shown>> /\ rx' # "scan" /\ rx # "scan"
    BY <1>2 DEF RxTest, Shorten, Extend, listing
  <2> QED BY <2>1, QuietList
<1>3. CASE Run
  <2>1. CASE Line = <<ScanKey>>
    <3>1. /\ \E records \in SeqOf(Record, MaxRecords) : heard' = records
          /\ next' = 1 /\ written' = 0 /\ scan' = scan /\ rx' = "scan"
      BY <1>3, <2>1 DEF Run, CmdScan
    <3>2. PICK n \in 0..MaxRecords : heard' \in [1..n -> Record]
      BY <3>1 DEF SeqOf
    <3>3. n \in Nat
      BY ConsoleAssumption
    <3>4. heard' \in Seq(Record) /\ Len(heard') = n
      BY <3>2, <3>3
    <3>5. ScanSoFar'
      BY <3>1 DEF ScanSoFar
    <3> QED BY <3>1, <3>3, <3>4, <3>5, ConsoleAssumption DEF ListInv
  <2>2. CASE Line # <<ScanKey>>
    <3>1. UNCHANGED <<scan, count, heard, next, written, shown>> /\ rx = "run" /\ rx' = "idle"
      BY <1>3, <2>2 DEF Run, CmdJoin, listing
    <3> QED BY <3>1, QuietList
  <2> QED BY <2>1, <2>2
<1> QED BY <1>1, <1>2, <1>3, RecordStep, DoneStep DEF Next

\* wifi_mgr_scan, for any records of the driver and any size of the list: every network that was heard is
\* listed once, with its strongest record, as far as the list holds them.
THEOREM AlwaysListsStrongest == Spec => []ListsStrongest
<1>1. ListInv => ListsStrongest
  BY DEF ListInv, Listed, ListsStrongest
<1> QED
  BY <1>1, InitList, StepList, PTL DEF Spec

\* cmd_scan and `join n`, whatever is typed and however often is scanned: what `join n` stages is the entry
\* printed under n, although the array still holds the entries of longer lists before.
THEOREM JoinAlwaysStagesShown == Spec => JoinStagesShown
<1>1. ASSUME ListInv, [Next]_vars
      PROVE  [staged' # staged => staged'.n \in DOMAIN shown /\ staged'.ssid = shown[staged'.n].ssid]_vars
  <2> SUFFICES ASSUME Next, staged' # staged
               PROVE  staged'.n \in DOMAIN shown /\ staged'.ssid = shown[staged'.n].ssid
    BY <1>1
  <2>1. Run /\ Line # <<ScanKey>>
    BY DEF Next, OpenPort, HangUp, Type, RxTest, Shorten, Extend, Run, CmdScan, ScanRecord, ScanDone, Look, Clear,
           listing
  <2>2. PICK n \in Numbers : CmdJoin(n)
    BY <2>1 DEF Run, listing
  <2>3. n <= count /\ staged' = [n |-> n, ssid |-> scan[n].ssid]
    BY <2>2 DEF CmdJoin
  <2>4. Listed
    BY <1>1, <2>1 DEF ListInv, Run
  <2>5. n \in 1..count /\ DOMAIN shown = 1..count
    BY <2>3, <2>4, LenProperties, ConsoleAssumption DEF Listed, Numbers
  <2>6. shown[n] = scan[n]
    BY <2>4, <2>5 DEF Listed
  <2>7. staged'.n = n /\ staged'.ssid = scan[n].ssid
    BY <2>3
  <2> QED BY <2>5, <2>6, <2>7
<1> QED
  BY <1>1, InitList, StepList, PTL DEF Spec, JoinStagesShown
================================================================================
