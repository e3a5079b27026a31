-------------------------- MODULE GpioClient_proofs --------------------------
(***************************************************************************)
(* Proofs about the debouncing, for any number of buttons and any two       *)
(* constants, as long as the dead time is shorter than the period of the    *)
(* tick: while an accepted press or release is young, the unsigned          *)
(* difference of the ticks is its age, across the wrap.                     *)
(***************************************************************************)
EXTENDS GpioClient, TLAPS

\* A button gets main's callback only when all are set up; edges are handled one at a time.
WiringInv ==
    /\ \A b \in Buttons : registered[b] = Request => wired = Buttons /\ initialized = Buttons
    /\ \A b \in Buttons : first[b] = "accepted" => registered[b] = Request

\* The last accepted edge is the first one of the press or release.
AgeInv ==
    \A b \in Buttons :
        first[b] = "accepted" /\ rest[b] < Ticks => Elapsed(b) = rest[b]

\* While the callbacks are called, the button is pressed and main's has not run yet.
HandlingInv ==
    \A b \in Buttons :
        first[b] = "accepted" /\ handling = b =>
            pressed[b] /\ m_buttonState[b] = TRUE /\ calls[b] = 0

IInv == TypeOK /\ WiringInv /\ AgeInv /\ HandlingInv /\ OnePressOneRequest

-----------------------------------------------------------------------------
\* Unsigned subtraction.
LEMMA Difference ==
    ASSUME NEW a \in 0..(Ticks - 1), NEW b \in 0..(Ticks - 1)
    PROVE  (a - b) % Ticks = IF b <= a THEN a - b ELSE a - b + Ticks
BY TicksAssumption, SMTT(30) DEF TicksAssumption

LEMMA NextTick ==
    ASSUME NEW a \in 0..(Ticks - 1)
    PROVE  (a + 1) % Ticks = IF a = Ticks - 1 THEN 0 ELSE a + 1
BY TicksAssumption, SMTT(30) DEF TicksAssumption

\* The difference grows with the tick until it wraps.
LEMMA Ageing ==
    ASSUME NEW a \in 0..(Ticks - 1), NEW b \in 0..(Ticks - 1), ((a - b) % Ticks) + 1 < Ticks
    PROVE  (((a + 1) % Ticks) - b) % Ticks = ((a - b) % Ticks) + 1
<1>1. (a + 1) % Ticks = (IF a = Ticks - 1 THEN 0 ELSE a + 1)
  BY NextTick
<1>2. (a + 1) % Ticks \in 0..(Ticks - 1)
  BY <1>1, TicksAssumption DEF TicksAssumption
<1>3. (a - b) % Ticks = (IF b <= a THEN a - b ELSE a - b + Ticks)
  BY Difference
<1>4. (((a + 1) % Ticks) - b) % Ticks
        = (IF b <= (a + 1) % Ticks THEN ((a + 1) % Ticks) - b
                                    ELSE ((a + 1) % Ticks) - b + Ticks)
  BY <1>2, Difference
<1>5. QED
  BY <1>1, <1>3, <1>4, TicksAssumption DEF TicksAssumption

LEMMA Initially == Init => IInv
<1> SUFFICES ASSUME Init PROVE IInv
  OBVIOUS
<1>1. /\ pressed \in [Buttons -> BOOLEAN] /\ contact \in [Buttons -> BOOLEAN]
      /\ m_buttonState \in [Buttons -> BOOLEAN] /\ crashed \in BOOLEAN
  BY Zenon DEF Init
<1>2. /\ tick \in 0..(Ticks - 1) /\ rest \in [Buttons -> 0..Ticks]
      /\ m_buttonLastPressTime \in [Buttons -> 0..(Ticks - 1)] /\ calls \in [Buttons -> 0..2]
  BY TicksAssumption DEF TicksAssumption, Init
<1>3. /\ wired \subseteq Buttons /\ initialized \subseteq wired
      /\ registered \in [Buttons -> {0, Debug, Request}]
      /\ handling \in Buttons \cup {NoButton}
      /\ first \in [Buttons -> {"none", "early", "accepted", "ignored"}]
  BY DEF Init
<1>4. TypeOK
  BY <1>1, <1>2, <1>3 DEF TypeOK
<1>5. \A b \in Buttons : registered[b] = 0 /\ first[b] = "none"
  BY DEF Init
<1>6. QED
  BY <1>4, <1>5 DEF IInv, WiringInv, AgeInv, HandlingInv, OnePressOneRequest, Request

\* A bounce of an accepted press or release comes too soon.
LEMMA BouncesAreIgnored ==
    ASSUME IInv, NEW b \in Buttons, first[b] = "accepted", rest[b] < DEBOUNCE_TIME
    PROVE  TooSoon(b)
BY TicksAssumption DEF TicksAssumption, IInv, AgeInv, TypeOK, TooSoon

\* An edge of a button stores a tick and a level, and leaves the other buttons alone.
LEMMA EdgeTypes ==
    ASSUME TypeOK, NEW b \in Buttons, NEW closed \in BOOLEAN, Edge(b, closed), Ready
    PROVE  /\ m_buttonLastPressTime' \in [Buttons -> 0..(Ticks - 1)]
           /\ m_buttonState' \in [Buttons -> BOOLEAN]
           /\ handling' \in {b, NoButton}
           /\ \A c \in Buttons \ {b} : /\ m_buttonLastPressTime'[c] = m_buttonLastPressTime[c]
                                       /\ m_buttonState'[c] = m_buttonState[c]
BY DEF Edge, Ready, TypeOK, LastPressTimeAfter

LEMMA PressStep ==
    ASSUME IInv, NEW b \in Buttons, PressOrRelease(b)
    PROVE  IInv'
<1> USE DEF IInv
<1>1. /\ Ready /\ Edge(b, ~pressed[b]) /\ (~pressed[b]) \in BOOLEAN
      /\ pressed' = [pressed EXCEPT ![b] = ~@] /\ contact' = pressed'
      /\ rest' = [rest EXCEPT ![b] = 0] /\ calls' = [calls EXCEPT ![b] = 0]
      /\ UNCHANGED <<tick, wired, initialized, registered, crashed>>
  <2>1. (~pressed[b]) \in BOOLEAN
    OBVIOUS
  <2>2. Ready /\ Edge(b, ~pressed[b])
    BY Zenon DEF PressOrRelease
  <2>3. /\ pressed' = [pressed EXCEPT ![b] = ~@] /\ contact' = pressed'
        /\ rest' = [rest EXCEPT ![b] = 0] /\ calls' = [calls EXCEPT ![b] = 0]
    BY Zenon DEF PressOrRelease
  <2>4. UNCHANGED <<tick, wired, initialized, registered, crashed>>
    BY DEF PressOrRelease, startUp
  <2>5. QED
    BY <2>1, <2>2, <2>3, <2>4, Zenon
<1>2. /\ m_buttonLastPressTime' \in [Buttons -> 0..(Ticks - 1)]
      /\ m_buttonState' \in [Buttons -> BOOLEAN]
      /\ handling' \in {b, NoButton}
      /\ \A c \in Buttons \ {b} : /\ m_buttonLastPressTime'[c] = m_buttonLastPressTime[c]
                                  /\ m_buttonState'[c] = m_buttonState[c]
  BY <1>1, EdgeTypes
<1>3. /\ first' = [first EXCEPT ![b] = first'[b]]
      /\ first'[b] \in {"early", "accepted", "ignored"}
      /\ first'[b] = "accepted" => registered[b] = Request /\ ~TooSoon(b)
  BY DEF PressOrRelease, TypeOK
<1>4. TypeOK'
  <2>1. pressed' \in [Buttons -> BOOLEAN] /\ contact' \in [Buttons -> BOOLEAN]
    BY <1>1 DEF TypeOK
  <2>2. rest' \in [Buttons -> 0..Ticks] /\ calls' \in [Buttons -> 0..2]
    BY <1>1, TicksAssumption DEF TypeOK, TicksAssumption
  <2>3. first' \in [Buttons -> {"none", "early", "accepted", "ignored"}]
    BY <1>3 DEF TypeOK
  <2>4. QED
    BY <1>1, <1>2, <2>1, <2>2, <2>3 DEF TypeOK
<1>5. WiringInv'
  BY <1>1, <1>3 DEF TypeOK, WiringInv, Request
<1>6. first'[b] = "accepted" =>
        /\ m_buttonLastPressTime'[b] = tick /\ m_buttonState'[b] = ~pressed[b]
        /\ handling' = IF pressed[b] THEN NoButton ELSE b
  BY <1>1, <1>3 DEF WiringInv, TypeOK, Edge, LastPressTimeAfter, Request
<1>7. AgeInv'
  <2> SUFFICES ASSUME NEW c \in Buttons, first'[c] = "accepted", rest'[c] < Ticks
               PROVE  Elapsed(c)' = rest'[c]
    BY DEF AgeInv
  <2>1. CASE c = b
    <3>1. rest'[c] = 0 /\ m_buttonLastPressTime'[c] = tick /\ tick' = tick
      BY <1>1, <1>6, <2>1 DEF TypeOK
    <3>2. (tick - tick) % Ticks = 0
      BY Difference, TicksAssumption DEF TypeOK, TicksAssumption
    <3>3. QED
      BY <3>1, <3>2 DEF Elapsed
  <2>2. CASE c # b
    BY <1>1, <1>2, <1>3, <2>2 DEF TypeOK, AgeInv, Elapsed
  <2>3. QED
    BY <2>1, <2>2
<1>8. HandlingInv'
  BY <1>1, <1>2, <1>6, ButtonsAssumption, ZenonT(30) DEF TypeOK, HandlingInv, ButtonsAssumption
<1>9. OnePressOneRequest'
  <2> SUFFICES ASSUME NEW c \in Buttons, first'[c] = "accepted", handling' # c
               PROVE  /\ calls'[c] = IF pressed'[c] THEN 1 ELSE 0
                      /\ m_buttonState'[c] = pressed'[c]
    BY DEF OnePressOneRequest
  <2>1. CASE c = b
    BY <1>1, <1>6, <2>1 DEF TypeOK
  <2>2. CASE c # b
    <3>1. handling # c
      BY <1>1, ButtonsAssumption DEF Ready, ButtonsAssumption
    <3>2. QED
      BY <1>1, <1>2, <1>3, <2>2, <3>1 DEF TypeOK, OnePressOneRequest
  <2>3. QED
    BY <2>1, <2>2
<1>10. QED
  BY <1>4, <1>5, <1>7, <1>8, <1>9

LEMMA BounceStep ==
    ASSUME IInv, NEW b \in Buttons, Bounce(b)
    PROVE  IInv'
<1> USE DEF IInv
<1>1. /\ Ready /\ Edge(b, ~contact[b]) /\ (~contact[b]) \in BOOLEAN
      /\ rest[b] < DEBOUNCE_TIME
      /\ contact' = [contact EXCEPT ![b] = ~@]
      /\ UNCHANGED <<tick, pressed, rest, wired, initialized, registered, calls, first,
                     crashed>>
  <2>1. (~contact[b]) \in BOOLEAN
    OBVIOUS
  <2>2. Ready /\ Edge(b, ~contact[b]) /\ contact' = [contact EXCEPT ![b] = ~@]
    BY Zenon DEF Bounce
  <2>3. /\ rest[b] < DEBOUNCE_TIME
        /\ UNCHANGED <<tick, pressed, rest, wired, initialized, registered, calls, first,
                     crashed>>
    BY DEF Bounce, startUp
  <2>4. QED
    BY <2>1, <2>2, <2>3, Zenon
<1>2. /\ m_buttonLastPressTime' \in [Buttons -> 0..(Ticks - 1)]
      /\ m_buttonState' \in [Buttons -> BOOLEAN]
      /\ handling' \in {b, NoButton}
      /\ \A c \in Buttons \ {b} : /\ m_buttonLastPressTime'[c] = m_buttonLastPressTime[c]
                                  /\ m_buttonState'[c] = m_buttonState[c]
  BY <1>1, EdgeTypes
<1>3. first[b] = "accepted" => UNCHANGED <<m_buttonLastPressTime, m_buttonState, handling>>
  <2>1. first[b] = "accepted" => TooSoon(b)
    BY <1>1, BouncesAreIgnored
  <2>2. QED
    BY <1>1, <2>1 DEF Edge, LastPressTimeAfter, TypeOK
<1>4. TypeOK'
  BY <1>1, <1>2 DEF TypeOK
<1>5. WiringInv'
  BY <1>1 DEF WiringInv
<1>6. AgeInv'
  BY <1>1, <1>2, <1>3 DEF AgeInv, Elapsed
<1>7. HandlingInv'
  BY <1>1, <1>2, <1>3, ButtonsAssumption DEF HandlingInv, Ready, ButtonsAssumption
<1>8. OnePressOneRequest'
  <2> SUFFICES ASSUME NEW c \in Buttons, first[c] = "accepted"
               PROVE  /\ calls[c] = IF pressed[c] THEN 1 ELSE 0
                      /\ m_buttonState'[c] = pressed[c]
    BY <1>1 DEF OnePressOneRequest
  <2>1. handling # c
    BY <1>1, ButtonsAssumption DEF Ready, ButtonsAssumption
  <2>2. m_buttonState'[c] = m_buttonState[c]
    BY <1>2, <1>3
  <2>3. QED
    BY <2>1, <2>2 DEF OnePressOneRequest
<1>9. QED
  BY <1>4, <1>5, <1>6, <1>7, <1>8

LEMMA TickStep == ASSUME IInv, Tick PROVE IInv'
<1> USE DEF IInv
<1>1. /\ tick' = (tick + 1) % Ticks
      /\ rest' = [b \in Buttons |-> IF rest[b] < Ticks THEN rest[b] + 1 ELSE Ticks]
      /\ UNCHANGED <<pressed, contact, wired, initialized, registered, m_buttonLastPressTime,
                     m_buttonState, handling, calls, first, crashed>>
  BY DEF Tick, startUp, handler
<1>2. tick' \in 0..(Ticks - 1)
  BY <1>1, NextTick, TicksAssumption DEF TypeOK, TicksAssumption
<1>3. rest' \in [Buttons -> 0..Ticks]
  BY <1>1, TicksAssumption DEF TypeOK, TicksAssumption
<1>4. TypeOK'
  BY <1>1, <1>2, <1>3 DEF TypeOK
<1>5. AgeInv'
  <2> SUFFICES ASSUME NEW b \in Buttons, first[b] = "accepted", rest'[b] < Ticks
               PROVE  Elapsed(b)' = rest'[b]
    BY <1>1 DEF AgeInv
  <2>1. rest[b] < Ticks /\ rest'[b] = rest[b] + 1
    BY <1>1, TicksAssumption DEF TypeOK, TicksAssumption
  <2>2. (tick - m_buttonLastPressTime[b]) % Ticks = rest[b]
    BY <2>1 DEF AgeInv, Elapsed
  <2>3. (((tick + 1) % Ticks) - m_buttonLastPressTime[b]) % Ticks = rest[b] + 1
    BY <2>1, <2>2, Ageing DEF TypeOK
  <2>4. QED
    BY <1>1, <2>1, <2>3 DEF Elapsed
<1>6. WiringInv' /\ HandlingInv' /\ OnePressOneRequest'
  BY <1>1 DEF WiringInv, HandlingInv, OnePressOneRequest
<1>7. QED
  BY <1>4, <1>5, <1>6

LEMMA CallbacksStep == ASSUME IInv, CallbacksCalled PROVE IInv'
<1> USE DEF IInv
<1>1. /\ handling \in Buttons /\ handling' = NoButton
      /\ calls' = [calls EXCEPT ![handling] =
              IF registered[handling] = Request /\ @ < 2 THEN @ + 1 ELSE @]
      /\ UNCHANGED <<tick, pressed, contact, rest, wired, initialized, registered,
                     m_buttonLastPressTime, m_buttonState, first, crashed>>
  BY DEF CallbacksCalled, TypeOK, environment, startUp
<1>2. calls' \in [Buttons -> 0..2]
  BY <1>1 DEF TypeOK
<1>3. TypeOK'
  BY <1>1, <1>2 DEF TypeOK
<1>4. WiringInv' /\ AgeInv'
  BY <1>1 DEF WiringInv, AgeInv, Elapsed
<1>5. HandlingInv'
  BY <1>1, ButtonsAssumption DEF HandlingInv, ButtonsAssumption
<1>6. OnePressOneRequest'
  <2> SUFFICES ASSUME NEW b \in Buttons, first[b] = "accepted"
               PROVE  /\ calls'[b] = IF pressed[b] THEN 1 ELSE 0
                      /\ m_buttonState[b] = pressed[b]
    BY <1>1 DEF OnePressOneRequest
  <2>1. CASE b = handling
    <3>1. pressed[b] /\ m_buttonState[b] = TRUE /\ calls[b] = 0 /\ registered[b] = Request
      BY <2>1 DEF HandlingInv, WiringInv
    <3>2. calls'[b] = 1
      BY <1>1, <2>1, <3>1 DEF TypeOK
    <3>3. pressed[b] = TRUE
      BY <3>1 DEF TypeOK
    <3>4. QED
      BY <3>1, <3>2, <3>3
  <2>2. CASE b # handling
    BY <1>1, <2>2 DEF OnePressOneRequest, TypeOK
  <2>3. QED
    BY <2>1, <2>2
<1>7. QED
  BY <1>3, <1>4, <1>5, <1>6

LEMMA Step == IInv /\ [Next]_vars => IInv'
<1> SUFFICES ASSUME IInv, [Next]_vars PROVE IInv'
  OBVIOUS
<1>1. ASSUME NEW b \in Buttons, InitButton(b) PROVE IInv'
  BY <1>1 DEF InitButton, environment, handler, IInv, TypeOK, WiringInv, AgeInv,
              HandlingInv, OnePressOneRequest, Elapsed
<1>2. ASSUME NEW b \in Buttons, AddButtonCallback(b) PROVE IInv'
  <2>1. /\ initialized = Buttons /\ registered[b] < Request
        /\ registered' = [registered EXCEPT ![b] = @ + 1] /\ crashed' \in BOOLEAN
        /\ UNCHANGED <<tick, pressed, contact, rest, wired, initialized,
                       m_buttonLastPressTime, m_buttonState, handling, calls, first>>
    BY <1>2 DEF AddButtonCallback, environment, handler
  <2>2. registered' \in [Buttons -> {0, Debug, Request}]
    BY <2>1 DEF IInv, TypeOK, Debug, Request
  <2>3. TypeOK'
    BY <2>1, <2>2 DEF IInv, TypeOK
  <2>4. WiringInv'
    BY <2>1 DEF IInv, TypeOK, WiringInv, Debug, Request
  <2>5. AgeInv' /\ HandlingInv' /\ OnePressOneRequest'
    BY <2>1 DEF IInv, AgeInv, HandlingInv, OnePressOneRequest, Elapsed
  <2>6. QED
    BY <2>3, <2>4, <2>5 DEF IInv
<1>3. ASSUME NEW b \in Buttons, ButtonInitialized(b) PROVE IInv'
  <2>1. /\ b \in wired \ initialized /\ initialized' = initialized \cup {b}
        /\ m_buttonState' = [m_buttonState EXCEPT ![b] = FALSE]
        /\ UNCHANGED <<tick, pressed, contact, rest, wired, registered,
                       m_buttonLastPressTime, handling, calls, first, crashed>>
    BY <1>3 DEF ButtonInitialized, environment
  <2>2. TypeOK'
    BY <2>1 DEF IInv, TypeOK
  <2>3. \A c \in Buttons : first[c] # "accepted"
    BY <2>1 DEF IInv, TypeOK, WiringInv
  <2>4. WiringInv'
    BY <2>1 DEF IInv, TypeOK, WiringInv
  <2>5. AgeInv' /\ HandlingInv' /\ OnePressOneRequest'
    BY <2>1, <2>3 DEF AgeInv, HandlingInv, OnePressOneRequest
  <2>6. QED
    BY <2>2, <2>4, <2>5 DEF IInv
<1>4. CASE UNCHANGED vars
  BY <1>4 DEF vars, environment, startUp, handler, IInv, TypeOK, WiringInv, AgeInv,
              HandlingInv, OnePressOneRequest, Elapsed
<1>5. QED
  BY <1>1, <1>2, <1>3, <1>4, PressStep, BounceStep, CallbacksStep, TickStep DEF Next

LEMMA Invariance == Spec => []IInv
<1>1. Init => IInv
  BY Initially
<1>2. IInv /\ [Next]_vars => IInv'
  BY Step
<1>3. QED
  BY <1>1, <1>2, PTL DEF Spec

-----------------------------------------------------------------------------
\* Type correctness of the buttons: btnCallback handles one button at a time, and no
\* button's callback of main runs twice for one press.
THEOREM TypeCorrect == Spec => []TypeOK
<1>1. IInv => TypeOK
  BY DEF IInv
<1>2. QED
  BY <1>1, Invariance, PTL

\* However the contacts bounce and wherever the tick wraps, btnCallback makes one request
\* of an accepted press, none of a release, and stores the level the button comes to.
THEOREM PressesCounted == Spec => []OnePressOneRequest
<1>1. IInv => OnePressOneRequest
  BY DEF IInv
<1>2. QED
  BY <1>1, Invariance, PTL

\* After an accepted press or release the next one is ignored only if a whole period of
\* the tick has passed: the unsigned subtraction in btnCallback is right across the wrap.
THEOREM IgnoredOnlyAfterWrap == Spec => OnlyLongRestsAreIgnored
<1> DEFINE NotIgnored ==
      \A b \in Buttons :
        first[b] = "accepted" /\ rest[b] < Ticks /\ rest'[b] = 0 => first'[b] # "ignored"
<1>1. ASSUME IInv, [Next]_vars PROVE [NotIgnored]_vars
  <2>1. SUFFICES ASSUME NEW b \in Buttons, first[b] = "accepted", rest[b] < Ticks, Next
                 PROVE  first'[b] # "ignored"
    BY <1>1
  <2>2. CASE PressOrRelease(b)
    <3>1. rest[b] >= DEBOUNCE_TIME /\ Elapsed(b) = rest[b] /\ rest[b] \in Nat
      BY <1>1, <2>1, <2>2, TicksAssumption
         DEF PressOrRelease, IInv, AgeInv, TypeOK, TicksAssumption
    <3>2. ~TooSoon(b)
      BY <3>1, TicksAssumption DEF TooSoon, TicksAssumption
    <3>3. QED
      BY <1>1, <2>2, <3>2 DEF PressOrRelease, IInv, TypeOK
  <2>3. CASE ~PressOrRelease(b)
    <3>1. \/ UNCHANGED first
          \/ \E c \in Buttons \ {b} : PressOrRelease(c)
      BY <2>1, <2>3, Zenon
         DEF Next, InitButton, ButtonInitialized, AddButtonCallback, Bounce, CallbacksCalled,
             Tick, vars
    <3>2. ASSUME NEW c \in Buttons \ {b}, PressOrRelease(c) PROVE first'[b] = first[b]
      <4>1. first' = [first EXCEPT ![c] = first'[c]] /\ c # b
        BY <1>1, <3>2 DEF PressOrRelease, IInv, TypeOK
      <4>2. QED
        BY <1>1, <4>1 DEF IInv, TypeOK
    <3>3. QED
      BY <2>1, <3>1, <3>2
  <2>4. QED
    BY <2>2, <2>3
<1>2. QED
  BY <1>1, Invariance, PTL DEF Spec, OnlyLongRestsAreIgnored
=============================================================================
