----------------------------- MODULE GpioClient -----------------------------
(***************************************************************************)
(* The buttons (src/src/clients/concrete/GpioClient.cpp): pigpio reports    *)
(* every edge of a button's level with a tick, a counter of microseconds    *)
(* that wraps; btnCallback() ignores an edge that comes less than           *)
(* DEBOUNCE_TIME after the last one it accepted, records the level of the   *)
(* others, and calls the button's callbacks when it is pressed. The         *)
(* constructor wires the buttons before any callback is registered; main   *)
(* registers the ones that request scans.                                   *)
(*                                                                         *)
(* A press or a release is a train of edges: the contacts bounce, for less  *)
(* than DEBOUNCE_TIME, and a person's next move comes after that time.      *)
(***************************************************************************)
EXTENDS Integers, FiniteSets

CONSTANTS
    Buttons,
    Ticks,           \* 2^32: ticks are counted modulo this number
    DEBOUNCE_TIME    \* 10000

ASSUME TicksAssumption ==
    /\ Ticks \in Nat \ {0} /\ DEBOUNCE_TIME \in Nat \ {0}
    /\ DEBOUNCE_TIME < Ticks

VARIABLES
    tick,                    \* what pigpio's clock shows
    pressed,                 \* per button: is it held down?
    contact,                 \* per button: is the contact closed just now?
    rest,                    \* per button: ticks since the last press or release, at
                             \* most Ticks
    m_buttonLastPressTime,
    m_buttonState,
    wired,                   \* the buttons whose edges are reported
    initialized,             \* the buttons for which initButton has returned
    registered,              \* per button: callbacks in m_buttonsCallbacks
    handling,                \* the button whose callbacks are being called, or NoButton
    crashed,                 \* the map was changed under the loop that reads it
    first,                   \* history, per button: what btnCallback did with the first
                             \* edge of the last press or release
    calls                    \* history, per button: calls of main's callback since then

environment == <<tick, pressed, contact, rest>>
startUp == <<wired, initialized, registered>>
handler == <<m_buttonLastPressTime, m_buttonState, handling, calls>>
vars == <<environment, startUp, handler, first, crashed>>

NoButton == "no button"
Debug    == 1     \* the callback of the constructor
Request  == 2     \* that and main's

ASSUME ButtonsAssumption == NoButton \notin Buttons

TypeOK ==
    /\ tick \in 0..(Ticks - 1)
    /\ pressed \in [Buttons -> BOOLEAN] /\ contact \in [Buttons -> BOOLEAN]
    /\ rest \in [Buttons -> 0..Ticks]
    /\ m_buttonLastPressTime \in [Buttons -> 0..(Ticks - 1)]
    /\ m_buttonState \in [Buttons -> BOOLEAN]
    /\ wired \subseteq Buttons /\ initialized \subseteq wired
    /\ registered \in [Buttons -> {0, Debug, Request}]
    /\ handling \in Buttons \cup {NoButton}
    /\ crashed \in BOOLEAN
    /\ first \in [Buttons -> {"none", "early", "accepted", "ignored"}]
    /\ calls \in [Buttons -> 0..2]

\* The tick is any number when the program starts.
Init ==
    /\ tick \in 0..(Ticks - 1)
    /\ pressed = [b \in Buttons |-> FALSE] /\ contact = pressed
    /\ rest = [b \in Buttons |-> Ticks]
    /\ m_buttonLastPressTime = [b \in Buttons |-> 0]
    /\ m_buttonState = [b \in Buttons |-> FALSE]
    /\ wired = {} /\ initialized = {} /\ registered = [b \in Buttons |-> 0]
    /\ handling = NoButton /\ crashed = FALSE
    /\ first = [b \in Buttons |-> "none"] /\ calls = [b \in Buttons |-> 0]

-----------------------------------------------------------------------------
(* The constructor and main                                                *)

\* initButton up to callback_ex: from here on the button's edges are reported.
InitButton(b) ==
    /\ ~crashed /\ b \notin wired /\ wired = initialized
    /\ wired' = wired \cup {b}
    /\ UNCHANGED <<environment, initialized, registered, handler, first, crashed>>

\* Its last line: what edges have been recorded since is forgotten.
ButtonInitialized(b) ==
    /\ ~crashed /\ b \in wired \ initialized
    /\ m_buttonState' = [m_buttonState EXCEPT ![b] = FALSE]
    /\ initialized' = initialized \cup {b}
    /\ UNCHANGED <<environment, wired, registered, m_buttonLastPressTime, handling, calls,
                   first, crashed>>

\* Under m_lock, which btnCallback does not take: to insert into the map it iterates is
\* undefined.
AddButtonCallback(b) ==
    /\ ~crashed /\ initialized = Buttons /\ registered[b] < Request
    /\ \A c \in Buttons : registered[b] <= registered[c]
    /\ registered' = [registered EXCEPT ![b] = @ + 1]
    /\ crashed' \in IF handling = b THEN BOOLEAN ELSE {FALSE}
    /\ UNCHANGED <<environment, wired, initialized, handler, first>>

-----------------------------------------------------------------------------
(* pigpio's thread                                                         *)

\* Mutant of Elapsed: the operands are swapped.
ElapsedBackwards(b) == (m_buttonLastPressTime[b] - tick) % Ticks
\* Ticks since the last accepted edge, in unsigned arithmetic.
Elapsed(b) == (tick - m_buttonLastPressTime[b]) % Ticks

TooSoon(b) == Elapsed(b) < DEBOUNCE_TIME

\* Mutant of LastPressTimeAfter: also an edge that is ignored moves the time.
EveryEdgeCounts(b) == tick
\* Mutant of LastPressTimeAfter: the end of the dead time is stored, in a wider integer.
DeadTimeEnds(b) ==
    IF TooSoon(b) THEN m_buttonLastPressTime[b] ELSE tick + DEBOUNCE_TIME
LastPressTimeAfter(b) == IF TooSoon(b) THEN m_buttonLastPressTime[b] ELSE tick

\* btnCallback up to its loop. Edges of an unwired button are not reported.
Edge(b, closed) ==
    /\ m_buttonLastPressTime' = [m_buttonLastPressTime EXCEPT ![b] =
            IF b \in wired THEN LastPressTimeAfter(b) ELSE @]
    /\ IF b \notin wired \/ TooSoon(b)
         THEN UNCHANGED <<m_buttonState, handling>>
         ELSE /\ m_buttonState' = [m_buttonState EXCEPT ![b] = closed]
              /\ handling' = IF closed /\ registered[b] > 0 THEN b ELSE NoButton

CallbacksCalled ==
    /\ ~crashed /\ handling # NoButton
    /\ calls' = [calls EXCEPT ![handling] =
            IF registered[handling] = Request /\ @ < 2 THEN @ + 1 ELSE @]
    /\ handling' = NoButton
    /\ UNCHANGED <<environment, startUp, m_buttonLastPressTime, m_buttonState, first,
                   crashed>>

-----------------------------------------------------------------------------
(* Time and the person at the buttons; pigpio handles one edge at a time.   *)

Ready == ~crashed /\ handling = NoButton

\* Contacts do not bounce for DEBOUNCE_TIME.
Tick ==
    /\ Ready
    /\ \A b \in Buttons : contact[b] # pressed[b] => rest[b] < DEBOUNCE_TIME - 1
    /\ tick' = (tick + 1) % Ticks
    /\ rest' = [b \in Buttons |-> IF rest[b] < Ticks THEN rest[b] + 1 ELSE Ticks]
    /\ UNCHANGED <<pressed, contact, startUp, handler, first, crashed>>

PressOrRelease(b) ==
    /\ Ready /\ rest[b] >= DEBOUNCE_TIME
    /\ pressed' = [pressed EXCEPT ![b] = ~@]
    /\ contact' = pressed'
    /\ rest' = [rest EXCEPT ![b] = 0]
    /\ Edge(b, ~pressed[b])
    /\ calls' = [calls EXCEPT ![b] = 0]
    /\ first' = [first EXCEPT ![b] =
            CASE registered[b] # Request -> "early"
              [] registered[b] = Request /\ TooSoon(b) -> "ignored"
              [] OTHER -> "accepted"]
    /\ UNCHANGED <<tick, startUp, crashed>>

Bounce(b) ==
    /\ Ready /\ rest[b] < DEBOUNCE_TIME
    /\ contact' = [contact EXCEPT ![b] = ~@]
    /\ Edge(b, ~contact[b])
    /\ UNCHANGED <<tick, pressed, rest, startUp, calls, first, crashed>>

Next ==
    \/ \E b \in Buttons :
         \/ InitButton(b) \/ ButtonInitialized(b) \/ AddButtonCallback(b)
         \/ PressOrRelease(b) \/ Bounce(b)
    \/ CallbacksCalled
    \/ Tick
    \/ crashed /\ UNCHANGED vars

Spec == Init /\ [][Next]_vars

-----------------------------------------------------------------------------
\* A press whose first edge is accepted makes one request, however the contacts bounce, a
\* release makes none, and the recorded state is the button's.
OnePressOneRequest ==
    \A b \in Buttons :
        first[b] = "accepted" /\ handling # b =>
            /\ calls[b] = IF pressed[b] THEN 1 ELSE 0
            /\ m_buttonState[b] = pressed[b]

\* A press or a release is ignored only after the button was left alone for so long that
\* the ticks have wrapped, or if the one before it was not accepted properly.
OnlyLongRestsAreIgnored ==
    [][\A b \in Buttons :
         first[b] = "accepted" /\ rest[b] < Ticks /\ rest'[b] = 0 => first'[b] # "ignored"]_vars
=============================================================================
