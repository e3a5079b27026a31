--------------------------- MODULE BlockingQueue ---------------------------
(***************************************************************************)
(* What BlockingQueue (src/include/utils/BlockingQueue.h) promises: every   *)
(* operation takes effect at one instant, and pop() waits until there is a *)
(* value or the queue has been stopped.                                     *)
(***************************************************************************)
EXTENDS Integers, Sequences

CONSTANTS
    Values,
    Nothing      \* T(), what a stopped queue returns

VARIABLES
    queue,
    running,
    returned     \* what the latest pop() returned

vars == <<queue, running, returned>>

TypeOK == queue \in Seq(Values) /\ running \in BOOLEAN /\ returned \in Values \cup {Nothing}

Init == queue = << >> /\ running = TRUE /\ returned = Nothing

Push(value) == queue' = Append(queue, value) /\ UNCHANGED <<running, returned>>

\* The predicate pop() waits for.
CanPop == queue # << >> \/ ~running

\* The oldest value; a stopped queue keeps its values.
Pop ==
    /\ CanPop
    /\ returned' = IF running THEN Head(queue) ELSE Nothing
    /\ queue' = IF running THEN Tail(queue) ELSE queue
    /\ UNCHANGED running

\* The oldest values go.
DropN(n) ==
    /\ queue' = IF n < Len(queue) THEN SubSeq(queue, n + 1, Len(queue)) ELSE << >>
    /\ UNCHANGED <<running, returned>>

KeepN(n) ==
    /\ queue' = IF Len(queue) > n THEN SubSeq(queue, Len(queue) - n + 1, Len(queue))
                                  ELSE queue
    /\ UNCHANGED <<running, returned>>

Stop == running' = FALSE /\ UNCHANGED <<queue, returned>>

Next ==
    \/ \E value \in Values : Push(value)
    \/ Pop
    \/ \E n \in 0..Len(queue) : DropN(n) \/ KeepN(n)
    \/ Stop

Spec == Init /\ [][Next]_vars
=============================================================================
