------------------------ MODULE BlockingQueueThreads ------------------------
(***************************************************************************)
(* BlockingQueue with its mutex and condition variable, used by any number *)
(* of producer and consumer threads. push() wakes one waiting consumer,    *)
(* stop() all of them; a consumer that has been woken has to take the mutex *)
(* and test its predicate again, and others may be faster. Each critical   *)
(* section is one step.                                                    *)
(***************************************************************************)
EXTENDS Integers, Sequences, FiniteSets

CONSTANTS
    Producers,
    Consumers,
    Values,
    Nothing,     \* T(), what a stopped queue returns
    MaxLength    \* BOUND: producers stop pushing at this length

ASSUME MaxLengthAssumption == MaxLength \in Nat

VARIABLES
    queue,
    running,
    inPop,       \* consumers that have called pop() and not returned
    waiting,     \* those of them asleep in signal.wait
    returned     \* what the latest pop() returned

vars == <<queue, running, inPop, waiting, returned>>

TypeOK ==
    /\ queue \in Seq(Values)
    /\ running \in BOOLEAN
    /\ inPop \subseteq Consumers
    /\ waiting \subseteq inPop
    /\ returned \in Values \cup {Nothing}

Init ==
    /\ queue = << >>
    /\ running = TRUE
    /\ inPop = {} /\ waiting = {}
    /\ returned = Nothing

\* Mutant of NotifyOne: the consumer is not woken.
NotifyNone == UNCHANGED waiting
NotifyOne ==
    IF waiting = {} THEN UNCHANGED waiting
                    ELSE \E c \in waiting : waiting' = waiting \ {c}

\* Mutant of NotifyAll: stop() wakes one consumer.
NotifyOneOnly == NotifyOne
NotifyAll == waiting' = {}

Push(p, value) ==
    /\ Len(queue) < MaxLength
    /\ queue' = Append(queue, value)
    /\ NotifyOne
    /\ UNCHANGED <<running, inPop, returned>>

CallPop(c) ==
    /\ c \notin inPop
    /\ inPop' = inPop \cup {c}
    /\ UNCHANGED <<queue, running, waiting, returned>>

\* A consumer that is awake takes the mutex and tests the predicate of signal.wait.
Awake(c) == c \in inPop /\ c \notin waiting

\* Mutant of Predicate: a stopped queue is not looked for.
OnlyValues == queue # << >>
Predicate == queue # << >> \/ ~running

Wait(c) ==
    /\ Awake(c) /\ ~Predicate
    /\ waiting' = waiting \cup {c}
    /\ UNCHANGED <<queue, running, inPop, returned>>

\* A condition variable may wake a thread for no reason.
SpuriousWakeup(c) ==
    /\ c \in waiting
    /\ waiting' = waiting \ {c}
    /\ UNCHANGED <<queue, running, inPop, returned>>

\* Mutant of Front: the newest value is returned.
Newest == queue[Len(queue)]
Front == queue[1]

\* Mutant of Rest: the value stays in the queue.
AllOfIt == queue
Rest == Tail(queue)

ReturnFromPop(c) ==
    /\ Awake(c) /\ Predicate
    /\ inPop' = inPop \ {c}
    /\ returned' = IF running THEN Front ELSE Nothing
    /\ queue' = IF running THEN Rest ELSE queue
    /\ UNCHANGED <<running, waiting>>

DropN(n) ==
    /\ queue' = IF n < Len(queue) THEN SubSeq(queue, n + 1, Len(queue)) ELSE << >>
    /\ UNCHANGED <<running, inPop, waiting, returned>>

KeepN(n) ==
    /\ queue' = IF Len(queue) > n THEN SubSeq(queue, Len(queue) - n + 1, Len(queue))
                                  ELSE queue
    /\ UNCHANGED <<running, inPop, waiting, returned>>

Stop ==
    /\ running' = FALSE
    /\ NotifyAll
    /\ UNCHANGED <<queue, inPop, returned>>

Consumer(c) == Wait(c) \/ ReturnFromPop(c)

Next ==
    \/ \E p \in Producers, value \in Values : Push(p, value)
    \/ \E c \in Consumers : CallPop(c) \/ Consumer(c) \/ SpuriousWakeup(c)
    \/ \E n \in 0..MaxLength : DropN(n) \/ KeepN(n)
    \/ Stop

Spec == Init /\ [][Next]_vars

\* A thread that is awake gets the mutex.
FairSpec == Spec /\ \A c \in Consumers : WF_vars(Consumer(c))

-----------------------------------------------------------------------------
\* No wake-up is lost: while a consumer sleeps, every value in the queue has a consumer
\* that is awake and will take it.
NoLostWakeup ==
    waiting # {} => Len(queue) <= Cardinality(inPop \ waiting)

\* After stop() every caller of pop() returns.
StopReleasesEveryone ==
    \A c \in Consumers : (~running /\ c \in inPop) ~> (c \notin inPop)

\* Seen from outside, every operation takes effect at one instant: values leave the
\* queue oldest first and once.
Queue == INSTANCE BlockingQueue
IsBlockingQueue == Queue!Spec
=============================================================================
