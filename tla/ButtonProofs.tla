------------------------------ MODULE ButtonProofs ------------------------------
(***************************************************************************)
(* Theorems about Button, for every debounce, window, clock and lateness.  *)
(* They assume Margin: the button is left alone long enough before the     *)
(* clock wraps that a prompt raised by the last press has expired by then. *)
(***************************************************************************)
EXTENDS Button, TLAPS

Margin == LastTouch + Window + 2 * MaxLate < Wrap

\* Between iterations, the last debounced level is known to the edge test; only the clearing lags behind.
Edges ==
    /\ pc # "clear" => lastStable = stable
    /\ pc = "clear" <=> overlay = "done"

\* The level that was read has been there for held polls, and the countdown started with the first of them.
Held ==
    /\ sample <=> held > 0
    /\ sample /\ debounceLeft > 0 => held = Debounce + 1 - debounceLeft

\* A button is down only before LastTouch, up to one late poll.
Touched == raw => tick <= LastTouch + MaxLate

\* While the prompt is up the clock has not wrapped: it is the deadline less what is left of the window.
Running ==
    armed =>
        /\ pc # "clear"
        /\ deadline <= LastTouch + MaxLate + Window
        /\ deadline - Window <= tick
        /\ age = CappedAt(tick - (deadline - Window), Window)
        /\ tick < deadline + IF pc = "poll" THEN MaxLate + 1 ELSE 0
        /\ ~stable => released

ButtonInv == TypeOK /\ PromptTruthful /\ Edges /\ Held /\ Touched /\ Running

----------------------------------------------------------------------------

LEMMA DivRange ==
    ASSUME NEW a \in Nat, NEW s \in Nat \ {0}
    PROVE  /\ a \div s \in Nat
           /\ s * (a \div s) <= a
           /\ a < s * (a \div s) + s
  OBVIOUS

\* Rounding up to seconds stays inside the window's seconds.
LEMMA SecondsUp ==
    ASSUME NEW n \in 1..Window
    PROVE  (n + Second - 1) \div Second \in 1..(Window \div Second)
<1> DEFINE q == (n + Second - 1) \div Second
<1> DEFINE k == Window \div Second
<1> USE ButtonAssumption
<1>1. q \in Nat /\ Second * q <= n + Second - 1 /\ n + Second - 1 < Second * q + Second
  BY DivRange
<1>2. k \in Nat /\ Window = Second * k
  OBVIOUS
<1> HIDE DEF q, k
<1>3. q # 0
  BY <1>1
<1>4. q <= k
  <2> SUFFICES ASSUME q >= k + 1 PROVE FALSE
    BY <1>1, <1>2
  <2>1. Second * q >= Second * (k + 1)
    BY <1>1, <1>2
  <2>2. Second * (k + 1) = Window + Second
    BY <1>2
  <2> QED BY <1>1, <1>2, <2>1, <2>2
<1> QED BY <1>1, <1>2, <1>3, <1>4 DEF q, k

----------------------------------------------------------------------------

\* What the steps need of the constants.
LEMMA Bounds ==
    /\ Debounce \in Nat /\ Debounce >= 1 /\ Window \in Nat /\ Window >= 1 /\ MaxLate \in Nat
    /\ Wrap \in Nat /\ Window < Wrap /\ LastTouch \in Nat
  BY ButtonAssumption

LEMMA ButtonInit == Init => ButtonInv
<1> SUFFICES ASSUME Init PROVE ButtonInv
  OBVIOUS
<1>1. TypeOK
  <2>1. 0 \in 0..Debounce /\ 0 \in 0..(Wrap - 1) /\ 0 \in 0..(Wrap - 1 + Window) /\ 0 \in 0..Window /\ 0 \in 0..(Debounce + 1)
    BY Bounds
  <2> QED BY <2>1 DEF Init, TypeOK
<1>2. Held
  BY DEF Init, Held
<1>3. PromptTruthful /\ Edges /\ Touched /\ Running
  BY DEF Init, PromptTruthful, Edges, Touched, Running
<1> QED BY <1>1, <1>2, <1>3 DEF ButtonInv

\* The debouncing alone, whatever the press then does.
LEMMA DebounceKeeps ==
    ASSUME ButtonInv, Poll
    PROVE  /\ sample' \in BOOLEAN /\ debounceLeft' \in 0..Debounce /\ stable' \in BOOLEAN
           /\ held' \in 0..(Debounce + 1)
           /\ Held'
           /\ StableLevel /\ ~stable => raw /\ held' = Debounce + 1
  BY Bounds
  DEF ButtonInv, TypeOK, Held, Poll, DebounceCount, StableLevel, CappedAt

LEMMA ArmInv == ASSUME Margin, ButtonInv, Poll, StableLevel, ~lastStable, Arm PROVE ButtonInv'
<1> USE Bounds DEF ButtonInv
<1>1. ~stable /\ raw /\ held' = Debounce + 1
  BY DebounceKeeps DEF Edges, Poll
<1>2. tick <= LastTouch + MaxLate /\ tick \in 0..(Wrap - 1)
  BY <1>1 DEF Touched, TypeOK
<1>3. Window \div Second \in Nat /\ Window \div Second \in 1..(Window \div Second)
  <2>1. Window \in 1..Window
    OBVIOUS
  <2>2. (Window + Second - 1) \div Second \in 1..(Window \div Second)
    BY <2>1, SecondsUp
  <2>3. Window \div Second \in Nat
    BY DivRange, ButtonAssumption
  <2> QED BY <2>2, <2>3
<1>4. TypeOK'
  <2>1. raw' \in BOOLEAN /\ tick' \in 0..(Wrap - 1) /\ lastStable' \in BOOLEAN
    BY <1>2, DebounceKeeps DEF TypeOK, Poll, Arm
  <2>2. deadline' \in 0..(Wrap - 1 + Window) /\ age' \in 0..Window
    BY <1>2 DEF Arm
  <2>3. shown' \in Nat
    BY <1>3 DEF Arm
  <2>4. /\ armed' \in BOOLEAN /\ released' \in BOOLEAN
        /\ overlay' \in {"none", "confirm", "done"} /\ pc' \in {"poll", "sleep", "clear"}
    BY DEF Arm
  <2> QED BY <2>1, <2>2, <2>3, <2>4, DebounceKeeps DEF TypeOK
<1>5. PromptTruthful'
  BY <1>3 DEF PromptTruthful, Arm
<1>6. Edges'
  BY DEF Edges, Arm, Poll
<1>7. Touched'
  BY DEF Touched, Poll
<1>8. Running'
  BY <1>2 DEF Running, Arm, Poll, CappedAt, TypeOK
<1> QED BY <1>4, <1>5, <1>6, <1>7, <1>8, DebounceKeeps

LEMMA ConfirmInv == ASSUME ButtonInv, Poll, Confirm PROVE ButtonInv'
<1> USE Bounds DEF ButtonInv
<1>1. TypeOK'
  <2>1. /\ raw' \in BOOLEAN /\ tick' \in 0..(Wrap - 1) /\ lastStable' \in BOOLEAN
        /\ deadline' \in 0..(Wrap - 1 + Window) /\ age' \in 0..Window
    BY DEF TypeOK, Poll, Confirm
  <2>2. /\ armed' \in BOOLEAN /\ released' \in BOOLEAN /\ shown' \in Nat
        /\ overlay' \in {"none", "confirm", "done"} /\ pc' \in {"poll", "sleep", "clear"}
    BY DEF Confirm
  <2> QED BY <2>1, <2>2, DebounceKeeps DEF TypeOK
<1>2. PromptTruthful' /\ Edges' /\ Touched' /\ Running'
  BY DEF PromptTruthful, Edges, Touched, Running, Poll, Confirm
<1> QED BY <1>1, <1>2, DebounceKeeps

LEMMA NoPressInv ==
    ASSUME Margin, ButtonInv, Poll, NoPress, ~(StableLevel /\ ~lastStable)
    PROVE  ButtonInv'
<1> USE Bounds DEF ButtonInv
<1>1. ASSUME StillArmed PROVE SecondsLeft \in 1..(Window \div Second) /\ SecondsLeft \in Nat
  <2>1. deadline - tick \in 1..Window
    BY <1>1 DEF StillArmed, Running, TypeOK
  <2>2. (deadline - tick + Second - 1) \div Second \in 1..(Window \div Second)
    BY <2>1, SecondsUp
  <2> QED BY <2>2 DEF SecondsLeft
<1>2. TypeOK'
  <2>1. /\ raw' \in BOOLEAN /\ tick' \in 0..(Wrap - 1)
        /\ deadline' \in 0..(Wrap - 1 + Window) /\ age' \in 0..Window
    BY DEF TypeOK, Poll, NoPress
  <2>2. StableLevel \in BOOLEAN
    BY DEF StableLevel, TypeOK
  <2>3. lastStable' \in BOOLEAN /\ released' \in BOOLEAN
    BY <2>2 DEF NoPress, TypeOK
  <2>4. armed' \in BOOLEAN
    BY DEF NoPress, TypeOK, StillArmed
  <2>5. shown' \in Nat
    BY <1>1 DEF NoPress
  <2>6. overlay' \in {"none", "confirm", "done"} /\ pc' \in {"poll", "sleep", "clear"}
    BY DEF NoPress, TypeOK
  <2> QED BY <2>1, <2>3, <2>4, <2>5, <2>6, DebounceKeeps DEF TypeOK
<1>3. PromptTruthful'
  BY <1>1 DEF PromptTruthful, NoPress, StillArmed
<1>4. Edges'
  <2>1. overlay' # "done"
    BY DEF Edges, Poll, NoPress
  <2>2. pc' = "sleep" /\ lastStable' = stable'
    BY DEF Poll, NoPress
  <2> QED BY <2>1, <2>2 DEF Edges
<1>5. Touched'
  BY DEF Touched, Poll
<1>6. Running'
  <2> SUFFICES ASSUME armed' PROVE Running'
    BY DEF Running
  <2>1. armed /\ tick < deadline
    BY DEF NoPress, StillArmed
  <2>2. ~stable' => released'
    BY DEF Poll, NoPress
  <2> QED BY <2>1, <2>2 DEF Running, Poll, NoPress, TypeOK, CappedAt
<1> QED BY <1>2, <1>3, <1>4, <1>5, <1>6, DebounceKeeps

\* Time passes: no wrap meets a prompt or a button that is down.
LEMMA PassInv ==
    ASSUME Margin, ButtonInv, NEW d \in 1..(1 + MaxLate), Pass(d)
    PROVE  /\ tick' \in 0..(Wrap - 1)
           /\ age' \in 0..Window
           /\ raw' \in BOOLEAN
           /\ Touched'
           /\ tick + d < Wrap => tick' = tick + d
<1> USE Bounds DEF ButtonInv
<1>1. tick \in 0..(Wrap - 1) /\ d \in Nat
  BY DEF TypeOK
<1>2. tick + d < Wrap => (tick + d) % Wrap = tick + d
  BY <1>1
<1>3. (tick + d) % Wrap \in 0..(Wrap - 1)
  BY <1>1
<1>4. age' \in 0..Window
  BY <1>1 DEF Pass, TypeOK, CappedAt
<1>5. raw' => tick < LastTouch
  BY DEF Pass
<1>6. Touched'
  BY <1>1, <1>2, <1>5 DEF Touched, Pass, Margin
<1> QED BY <1>2, <1>3, <1>4, <1>6 DEF Pass

LEMMA SleepInv == ASSUME Margin, ButtonInv, Sleep PROVE ButtonInv'
<1> USE Bounds DEF ButtonInv
<1>1. PICK d \in 1..(1 + MaxLate) : Pass(d)
  BY DEF Sleep
<1>2. TypeOK' /\ Touched'
  BY <1>1, PassInv DEF TypeOK, Sleep, debouncing, prompt
<1>3. PromptTruthful' /\ Edges' /\ Held'
  BY DEF PromptTruthful, Edges, Held, Sleep, debouncing, prompt
<1>4. Running'
  <2> SUFFICES ASSUME armed PROVE Running'
    BY DEF Running, Sleep, prompt
  <2>1. tick < deadline /\ deadline <= LastTouch + MaxLate + Window
    BY DEF Running, Sleep, TypeOK
  <2>2. tick' = tick + d
    BY <1>1, <2>1, PassInv DEF Margin, TypeOK
  <2>3. age' = CappedAt(age + d, Window)
    BY <1>1 DEF Pass
  <2> QED BY <2>1, <2>2, <2>3 DEF Running, Sleep, debouncing, prompt, TypeOK, CappedAt
<1> QED BY <1>2, <1>3, <1>4

LEMMA ClearInv == ASSUME Margin, ButtonInv, ClearReturns PROVE ButtonInv'
<1> USE Bounds DEF ButtonInv
<1>1. PICK d \in 1..(1 + MaxLate) : Pass(d)
  BY DEF ClearReturns
<1>2. TypeOK' /\ Touched'
  BY <1>1, PassInv DEF TypeOK, ClearReturns
<1>3. ~armed
  BY DEF Running, ClearReturns
<1>4. PromptTruthful' /\ Edges' /\ Held' /\ Running'
  BY <1>3 DEF PromptTruthful, Edges, Held, Running, ClearReturns
<1> QED BY <1>2, <1>4

LEMMA ButtonStep == ASSUME Margin PROVE ButtonInv /\ [Next]_vars => ButtonInv'
<1> SUFFICES ASSUME ButtonInv, [Next]_vars PROVE ButtonInv'
  OBVIOUS
<1>1. CASE Poll
  <2>1. CASE StableLevel /\ ~lastStable /\ StillArmed
    BY <1>1, <2>1, ConfirmInv DEF Poll
  <2>2. CASE StableLevel /\ ~lastStable /\ ~StillArmed
    BY <1>1, <2>2, ArmInv DEF Poll
  <2>3. CASE ~(StableLevel /\ ~lastStable)
    BY <1>1, <2>3, NoPressInv DEF Poll
  <2> QED BY <2>1, <2>2, <2>3
<1>2. CASE Sleep
  BY <1>2, SleepInv
<1>3. CASE ClearReturns
  BY <1>3, ClearInv
<1>4. CASE UNCHANGED vars
  BY <1>4 DEF ButtonInv, TypeOK, PromptTruthful, Edges, Held, Touched, Running, vars, debouncing, prompt, history
<1> QED BY <1>1, <1>2, <1>3, <1>4 DEF Next

LEMMA ButtonAlways == ASSUME Margin PROVE Spec => []ButtonInv
  BY ButtonInit, ButtonStep, PTL DEF Spec

----------------------------------------------------------------------------

\* The debounce counter, the clock, the deadline and the seconds on the display keep their ranges.
THEOREM ButtonTypeCorrect == ASSUME Margin PROVE Spec => []TypeOK
<1>1. ButtonInv => TypeOK
  BY DEF ButtonInv
<1> QED BY <1>1, ButtonAlways, PTL

\* The display asks for confirmation exactly while the prompt is up, and never shows a number of seconds
\* outside the window (button_task and what it tells display_set_overlay).
THEOREM PromptAlwaysTruthful == ASSUME Margin PROVE Spec => []PromptTruthful
<1>1. ButtonInv => PromptTruthful
  BY DEF ButtonInv
<1> QED BY <1>1, ButtonAlways, PTL

\* A confirming press comes less than the window after the one that raised the prompt, however late the
\* polls are.
THEOREM AlwaysClearedInTime == ASSUME Margin PROVE Spec => ClearedInTime
<1>1. ButtonInv /\ [Next]_vars => [Confirmed => age < Window]_vars
  <2> SUFFICES ASSUME ButtonInv, Next, Confirmed PROVE age < Window
    BY DEF Confirmed, vars, prompt
  <2>1. Poll /\ StillArmed
    BY DEF Next, Poll, Sleep, ClearReturns, Confirmed, Arm, NoPress, prompt
  <2> QED BY <2>1, Bounds DEF ButtonInv, TypeOK, Running, StillArmed, CappedAt
<1> QED BY <1>1, ButtonAlways, PTL DEF Spec, ClearedInTime

\* Raising the prompt and confirming it each take Debounce + 1 polls of a button that is down, and a
\* debounced release lies between them.
THEOREM AlwaysDeliberate == ASSUME Margin PROVE Spec => ClearedDeliberately
<1> DEFINE Deliberate ==
      (Confirmed \/ (armed' /\ ~armed) => held' = Debounce + 1) /\ (Confirmed => released)
<1>1. ButtonInv /\ [Next]_vars => [Deliberate]_vars
  <2> SUFFICES ASSUME ButtonInv, Next, Confirmed \/ (armed' /\ ~armed)
               PROVE  held' = Debounce + 1 /\ (Confirmed => released)
    BY DEF Confirmed, vars, prompt
  <2>1. Poll /\ StableLevel /\ ~lastStable
    <3>1. ~Sleep /\ ~ClearReturns
      BY DEF Sleep, ClearReturns, Confirmed, prompt
    <3>2. ~NoPress
      <4>1. NoPress /\ Confirmed => FALSE
        BY DEF NoPress, Confirmed
      <4>2. NoPress /\ armed' => armed
        BY DEF NoPress, StillArmed
      <4> QED BY <4>1, <4>2
    <3> QED BY <3>1, <3>2 DEF Next, Poll
  <2>2. ~stable
    BY <2>1 DEF ButtonInv, Edges, Poll
  <2>3. Confirmed => armed
    BY <2>1 DEF Poll, Confirmed, Arm, StillArmed
  <2> QED BY <2>1, <2>2, <2>3, DebounceKeeps DEF ButtonInv, Running
<1> QED BY <1>1, ButtonAlways, PTL DEF Spec, ClearedDeliberately
================================================================================
