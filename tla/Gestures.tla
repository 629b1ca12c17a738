------------------------------ MODULE Gestures ------------------------------
(***************************************************************************)
(* What fingers do on the page with the list: the long press that enters   *)
(* delete mode (<delete-list> of static/js/longpress-delete.js) and the    *)
(* pull that reloads (static/js/pull-to-refresh.js), which hear the same   *)
(* touches.  Times are left out: an armed timer may fire at any moment.    *)
(* Positions are in half thresholds of finger travel below a fixed line.   *)
(***************************************************************************)
EXTENDS Integers, FiniteSets

CONSTANTS
    Positions,   \* where a finger may be, Nat
    Threshold,   \* THRESHOLD_PX
    MaxPull,     \* MAX_PULL_PX
    MaxTouches   \* bound: fingers put down

ASSUME GestureAssumption ==
    /\ Positions \subseteq Nat /\ MaxTouches \in Nat
    /\ Threshold \in Nat \ {0} /\ MaxPull \in Nat /\ Threshold <= MaxPull

Unset == -1
Fingers == {1, 2}
InList == {"row", "switch", "button"}   \* a row, its switch, its delete button

VARIABLES
    touch,    \* [fingers down -> [n, target, y, tap, held, moved]]
    timers,   \* 500 ms timers that are armed, each the n of its touch
    handle,   \* _pressTimer: the timer it names, or Unset
    active,   \* delete mode
    swallow,  \* _swallowNext
    pull,     \* pull-to-refresh: [startY, pulling, visible, loading]
    top,      \* the page is scrolled to its top
    page,     \* "list", "asking" (the confirm dialog), "edit", "reloading"
    count,    \* fingers put down so far
    together  \* auxiliary: two were down while a timer that is armed was

press == <<timers, handle>>
mode == <<active, swallow>>
gestureVars == <<touch, press, mode, pull, top, page, count, together>>

(* tap: the browser may make a click of it.  held and moved are auxiliary:  *)
(* its timer has fired, it has moved.                                       *)

Down == DOMAIN touch
Lifted(f) == [g \in Down \ {f} |-> touch[g]]

-----------------------------------------------------------------------------
(* <delete-list> *)

\* pointerdown: arms a timer, whatever _pressTimer was.
ArmPress(n, target) ==
    IF target \in {"row", "switch"}
    THEN timers' = timers \cup {n} /\ handle' = n
    ELSE UNCHANGED press

\* Mutant: only the handle is dropped.
ForgetPress == handle' = Unset /\ UNCHANGED timers

\* Clears the timer that _pressTimer names.
CancelPress == timers' = timers \ {handle} /\ handle' = Unset

\* Mutant: the click that follows is not eaten.
EnterOnly == active' = TRUE /\ UNCHANGED swallow

EnterDeleteMode == active' = TRUE /\ swallow' = TRUE

Fired(n) == timers' = timers \ {n} /\ handle' = Unset

Fire(n) ==
    /\ page = "list" /\ n \in timers
    /\ Fired(n)
    /\ EnterDeleteMode
    /\ touch' = [f \in Down |-> [touch[f] EXCEPT !.held = @ \/ touch[f].n = n]]
    /\ UNCHANGED <<pull, top, page, count, together>>

_onOutsideClick == active' = FALSE

\* _handleClick, and what a click does by itself.
Click(target) ==
    CASE target = "outside" -> _onOutsideClick /\ UNCHANGED <<swallow, page>>
      [] target \in InList /\ swallow -> swallow' = FALSE /\ UNCHANGED <<active, page>>
      [] target = "button" /\ ~ swallow -> page' = "asking" /\ UNCHANGED mode
      [] target \in {"row", "switch"} /\ ~ swallow /\ active ->
            active' = FALSE /\ UNCHANGED <<swallow, page>>
      [] target = "row" /\ ~ swallow /\ ~ active -> page' = "edit" /\ UNCHANGED mode
      [] OTHER -> UNCHANGED <<mode, page>>

-----------------------------------------------------------------------------
(* pull-to-refresh *)

AtRest == [startY |-> Unset, pulling |-> FALSE, visible |-> FALSE, loading |-> FALSE]

\* Mutant: the pull ends before the fingers are counted.
StartEnding(y, fingers) ==
    IF ~ top \/ fingers # 1 THEN [pull EXCEPT !.startY = Unset, !.pulling = FALSE]
    ELSE [pull EXCEPT !.startY = y, !.pulling = FALSE]

OnTouchStart(y, fingers) ==
    IF ~ top \/ fingers # 1 THEN [pull EXCEPT !.startY = Unset]
    ELSE [pull EXCEPT !.startY = y, !.pulling = FALSE]

Distance(delta) == IF delta < MaxPull THEN delta ELSE MaxPull

\* Made at the first pull, and kept from then on.
ensureIndicator(p) == [p EXCEPT !.visible = TRUE]

OnPull(y) ==
    ensureIndicator([pull EXCEPT !.pulling = TRUE,
                                 !.loading = Distance(y - pull.startY) >= Threshold])

OnTouchMove(y, scrolled) ==
    IF pull.startY = Unset \/ y <= pull.startY THEN pull
    ELSE IF scrolled THEN [pull EXCEPT !.startY = Unset]
    ELSE OnPull(y)

Reloads == pull.pulling /\ pull.loading

OnTouchEnd ==
    IF ~ pull.pulling THEN [pull EXCEPT !.startY = Unset]
    ELSE IF Reloads THEN [pull EXCEPT !.startY = Unset, !.pulling = FALSE]
    ELSE AtRest

-----------------------------------------------------------------------------
(* Fingers *)

GestureInit ==
    /\ touch = <<>> /\ timers = {} /\ handle = Unset
    /\ active = FALSE /\ swallow = FALSE
    /\ pull = AtRest /\ top \in BOOLEAN
    /\ page = "list" /\ count = 0 /\ together = FALSE

\* pointerdown, touchstart
PutDown(f, target, y) ==
    /\ page = "list" /\ f \notin Down /\ count < MaxTouches
    /\ target = "button" => active
    /\ count' = count + 1
    /\ touch' = [g \in Down \cup {f} |->
          IF g = f THEN [n |-> count', target |-> target, y |-> y, tap |-> Down = {},
                         held |-> FALSE, moved |-> FALSE]
          ELSE [touch[g] EXCEPT !.tap = FALSE]]
    /\ ArmPress(count', target)
    /\ together' = (Down # {} \/ (together /\ timers # {}))
    /\ pull' = OnTouchStart(y, Cardinality(Down) + 1)
    /\ UNCHANGED <<mode, top, page>>

\* pointermove, touchmove: preventDefault keeps the browser from scrolling.
\* Otherwise it may take the touch over, with a pointercancel.
Move(f, y, takenOver) ==
    /\ page = "list" /\ f \in Down /\ y # touch[f].y
    /\ touch' = [touch EXCEPT ![f].y = y, ![f].moved = TRUE, ![f].tap = FALSE]
    /\ IF handle # Unset /\ (touch[f].target \in InList \/ takenOver)
       THEN CancelPress ELSE UNCHANGED press
    /\ takenOver => ~ pull.pulling
    /\ top' \in IF takenOver THEN BOOLEAN ELSE {top}
    /\ pull' = OnTouchMove(y, ~ top')
    /\ UNCHANGED <<mode, page, count, together>>

\* pointerup, touchend, and the click that the browser makes of a tap.
PutUp(f) ==
    /\ page = "list" /\ f \in Down
    /\ touch' = Lifted(f)
    /\ IF touch[f].target \in InList THEN CancelPress ELSE UNCHANGED press
    /\ pull' = OnTouchEnd
    /\ IF Reloads THEN page' = "reloading" /\ UNCHANGED mode
       ELSE IF touch[f].tap THEN Click(touch[f].target)
       ELSE UNCHANGED <<mode, page>>
    /\ UNCHANGED <<top, count, together>>

\* The browser gives the touch up, or makes no click of a long one:
\* pointercancel, touchcancel.
Abort(f) ==
    /\ page = "list" /\ f \in Down
    /\ touch' = Lifted(f)
    /\ CancelPress
    /\ pull' = OnTouchEnd
    /\ page' = IF Reloads THEN "reloading" ELSE page
    /\ UNCHANGED <<mode, top, count, together>>

\* The dialog is answered (the module SchedulesPage).
Answered ==
    /\ page = "asking"
    /\ page' = "list"
    /\ UNCHANGED <<touch, press, mode, pull, top, count, together>>

GestureNext ==
    \/ \E f \in Fingers, target \in InList \cup {"outside"}, y \in Positions : PutDown(f, target, y)
    \/ \E f \in Fingers, y \in Positions, takenOver \in BOOLEAN : Move(f, y, takenOver)
    \/ \E f \in Fingers : PutUp(f) \/ Abort(f)
    \/ \E n \in timers : Fire(n)
    \/ Answered

GestureSpec == GestureInit /\ [][GestureNext]_gestureVars

-----------------------------------------------------------------------------
(* Properties *)

TouchType == [n : 1..MaxTouches, target : InList \cup {"outside"}, y : Positions, tap : BOOLEAN,
              held : BOOLEAN, moved : BOOLEAN]

\* _pressTimer names an armed timer or none; what is down is a touch of this
\* page.  Proved (SchedulesPageProofs!GestureTypes), for the other proofs.
GestureTypeOK ==
    /\ Down \subseteq Fingers /\ \A f \in Down : touch[f] \in TouchType
    /\ timers \subseteq 1..count /\ handle \in timers \cup {Unset}
    /\ active \in BOOLEAN /\ swallow \in BOOLEAN
    /\ pull \in [startY : Positions \cup {Unset}, pulling : BOOLEAN,
                 visible : BOOLEAN, loading : BOOLEAN]
    /\ top \in BOOLEAN /\ page \in {"list", "asking", "edit", "reloading"}
    /\ count \in 0..MaxTouches /\ together \in BOOLEAN

\* One finger enters delete mode only by resting on a row: not after it has
\* moved, to scroll or to pull, and not after it has gone.
OnlyRestingPress ==
    [][\A n \in timers \ timers' :
          active' /\ ~ active /\ ~ together
          => \E f \in Down : touch[f].n = n /\ ~ touch[f].moved]_gestureVars

\* Letting go after a long press opens, toggles, asks and leaves nothing.
HeldReleaseIsInert ==
    [][\A f \in Down \ DOMAIN touch' :
          touch[f].held /\ ~ Reloads => active' = active /\ page' = page]_gestureVars

\* When all fingers are up, the indicator is gone or the page reloads, whatever
\* order two fingers came and went in.
IndicatorGone ==
    Down = {} /\ page = "list" => ~ pull.visible
=============================================================================
