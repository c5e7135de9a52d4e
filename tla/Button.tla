--------------------------------- MODULE Button ---------------------------------
(***************************************************************************)
(* The BOOT button (button.c): a task that samples a GPIO, debounces it,   *)
(* and clears the saved networks on a second press within the confirm      *)
(* window of a first one.  What the clearing does to the rest of the       *)
(* firmware is ConfirmReset of module Firmware.                            *)
(*                                                                         *)
(* Time is counted in polls (BTN_POLL_MS).  now_ms is the 32-bit tick      *)
(* count, so it wraps: here at Wrap, while deadlines are 64-bit.           *)
(***************************************************************************)
EXTENDS Integers

CONSTANTS
    Debounce,   \* BTN_DEBOUNCE_MS / BTN_POLL_MS
    Second,     \* polls in a second
    Window,     \* BTN_CONFIRM_WINDOW_MS in polls
    Wrap,       \* values of now_ms, in polls
    MaxLate,    \* bound on how late a poll comes
    LastTouch   \* bound: the button is left alone from this tick to the next wrap

ASSUME ButtonAssumption ==
    /\ Debounce \in Nat \ {0} /\ Second \in Nat \ {0} /\ MaxLate \in Nat
    /\ Window \in Nat \ {0} /\ Window % Second = 0
    /\ Wrap \in Nat /\ Window < Wrap
    /\ LastTouch \in 0..Wrap

VARIABLES
    raw,            \* the level of the GPIO: is the button down
    sample,         \* last level read
    debounceLeft,   \* debounce_left
    stable,         \* debounced level
    lastStable,     \* debounced level of the previous iteration
    armed,          \* s_armed
    deadline,       \* s_deadline_ms
    tick,           \* now_ms()
    overlay,        \* what the display was told: "none", "confirm" or "done"
    shown,          \* seconds left, as last told to the display
    pc,             \* "poll", "sleep", or "clear" inside clear_wifi_and_reprovision
    age,            \* time since the prompt was armed (history, stops at Window)
    held,           \* consecutive polls that read "down" (history, stops at Debounce + 1)
    released        \* debounced release seen since the prompt was armed (history)

debouncing == <<sample, debounceLeft, stable, lastStable>>
prompt == <<armed, deadline, overlay, shown>>
history == <<age, held, released>>
vars == <<raw, debouncing, prompt, tick, pc, history>>

CappedAt(n, bound) == IF n > bound THEN bound ELSE n

----------------------------------------------------------------------------
(* One iteration of button_task. *)

\* A changed level restarts the countdown; a steady one counts down and then becomes the stable level.
DebounceCount ==
    IF raw # sample THEN Debounce ELSE IF debounceLeft > 0 THEN debounceLeft - 1 ELSE 0

\* Seeded fault: the level counts at once.
RawLevel == raw

StableLevel == IF raw = sample /\ debounceLeft = 1 THEN raw ELSE stable

\* Seeded faults: the expiry check is off by one, or missing.
ArmedAtDeadline == armed /\ tick <= deadline
ArmedForever == armed

\* The prompt as the expiry check leaves it, before the press is looked at.
StillArmed == armed /\ tick < deadline

SecondsLeft == LET left == (deadline - tick + Second - 1) \div Second IN IF left < 0 THEN 0 ELSE left

Arm ==
    /\ armed' = TRUE /\ deadline' = tick + Window
    /\ overlay' = "confirm" /\ shown' = Window \div Second
    /\ age' = 0 /\ released' = FALSE
    /\ lastStable' = StableLevel
    /\ pc' = "sleep"

\* lastStable is assigned only when the clearing is over.
Confirm ==
    /\ armed' = FALSE
    /\ overlay' = "done" /\ shown' = 0
    /\ pc' = "clear"
    /\ released' = FALSE
    /\ UNCHANGED <<deadline, age, lastStable>>

\* Seeded fault: an expired prompt stays on the display.
NoPressKeepsOverlay ==
    /\ armed' = StillArmed
    /\ overlay' = IF StillArmed THEN "confirm" ELSE overlay
    /\ shown' = IF StillArmed THEN SecondsLeft ELSE 0
    /\ lastStable' = StableLevel
    /\ released' = (released \/ ~StableLevel)
    /\ pc' = "sleep"
    /\ UNCHANGED <<deadline, age>>

NoPress ==
    /\ armed' = StillArmed
    /\ overlay' = IF StillArmed THEN "confirm" ELSE IF armed THEN "none" ELSE overlay
    /\ shown' = IF StillArmed THEN SecondsLeft ELSE 0
    /\ lastStable' = StableLevel
    /\ released' = (released \/ ~StableLevel)
    /\ pc' = "sleep"
    /\ UNCHANGED <<deadline, age>>

Poll ==
    /\ pc = "poll"
    /\ sample' = raw
    /\ debounceLeft' = DebounceCount
    /\ stable' = StableLevel
    /\ held' = IF raw THEN CappedAt(held + 1, Debounce + 1) ELSE 0
    /\ IF StableLevel /\ ~lastStable
       THEN IF StillArmed THEN Confirm ELSE Arm
       ELSE NoPress
    /\ UNCHANGED <<raw, tick>>

\* Seeded fault: the clock does not wrap.
PassUnwrapped(d) ==
    /\ tick' = tick + d
    /\ age' = IF armed THEN CappedAt(age + d, Window) ELSE age
    /\ raw' \in BOOLEAN

\* Time passes, and the user may press, release or do both.
Pass(d) ==
    /\ tick' = (tick + d) % Wrap
    /\ age' = IF armed THEN CappedAt(age + d, Window) ELSE age
    /\ raw' \in IF tick < LastTouch THEN BOOLEAN ELSE {FALSE}

Sleep ==
    /\ pc = "sleep"
    /\ \E d \in 1..(1 + MaxLate) : Pass(d)
    /\ pc' = "poll"
    /\ UNCHANGED <<debouncing, prompt, held, released>>

\* The clearing rescans and reopens the portal, then shows "done" for BTN_DONE_HOLD_MS.
ClearReturns ==
    /\ pc = "clear"
    /\ \E d \in 1..(1 + MaxLate) : Pass(d)
    /\ overlay' = "none" /\ shown' = 0
    /\ lastStable' = stable
    /\ pc' = "poll"
    /\ UNCHANGED <<sample, debounceLeft, stable, armed, deadline, held, released>>

\* After the loop that waits for a button held at power-on.
Init ==
    /\ raw = FALSE /\ sample = FALSE /\ debounceLeft = 0
    /\ stable = FALSE /\ lastStable = FALSE
    /\ armed = FALSE /\ deadline = 0 /\ tick = 0
    /\ overlay = "none" /\ shown = 0
    /\ pc = "poll"
    /\ age = 0 /\ held = 0 /\ released = FALSE

Next == Poll \/ Sleep \/ ClearReturns

Spec == Init /\ [][Next]_vars

\* The task is scheduled.
FairSpec == Spec /\ WF_vars(Next)

----------------------------------------------------------------------------
(* Properties *)

TypeOK ==
    /\ raw \in BOOLEAN /\ sample \in BOOLEAN /\ stable \in BOOLEAN /\ lastStable \in BOOLEAN
    /\ debounceLeft \in 0..Debounce
    /\ armed \in BOOLEAN /\ released \in BOOLEAN
    /\ tick \in 0..(Wrap - 1) /\ deadline \in 0..(Wrap - 1 + Window)
    /\ overlay \in {"none", "confirm", "done"} /\ shown \in Nat
    /\ pc \in {"poll", "sleep", "clear"}
    /\ age \in 0..Window /\ held \in 0..(Debounce + 1)

Confirmed == overlay' = "done" /\ overlay # "done"

\* Networks are cleared only less than the window after the press that raised the prompt, late polls
\* included (HARDWARE.md: press again within 5 seconds).
ClearedInTime == [][Confirmed => age < Window]_vars

\* Clearing takes two presses: each of them read "down" by Debounce + 1 polls in a row, with a debounced
\* release between them, so that neither bounce nor a button held down clears anything.
ClearedDeliberately ==
    [][(Confirmed \/ (armed' /\ ~armed) => held' = Debounce + 1) /\ (Confirmed => released)]_vars

\* The display asks for confirmation exactly while a press would confirm or the prompt is about to
\* expire, and counts down from the whole window, never to zero.
PromptTruthful ==
    /\ armed = (overlay = "confirm")
    /\ armed => shown \in 1..(Window \div Second)

\* A prompt nobody confirms goes away (HARDWARE.md: the status HUD returns to normal).
PromptEnds == armed ~> ~armed
================================================================================
