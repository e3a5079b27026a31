----------------------------- MODULE LivoxWatch -----------------------------
(***************************************************************************)
(* Keeping the lidars awake (src/src/clients/concrete/LivoxClient.cpp):     *)
(* testThread() asks every lidar it knows for its work mode, once a second, *)
(* and sends a command to each whose recorded mode is not normal; the SDK   *)
(* calls back with the answers, or with a failure when a query or its       *)
(* answer was lost, and announces lidars. The map of known lidars and the   *)
(* recorded modes are under m_lidarInfoMutex, which testThread() holds for  *)
(* a whole round.                                                           *)
(*                                                                         *)
(* A query or a command to a lidar to which one is already on its way is    *)
(* not told apart from it.                                                 *)
(***************************************************************************)
EXTENDS Naturals

CONSTANT Lidars

VARIABLES
    m_handleToSerialNumber,   \* the lidars in the map
    m_LivoxLidarWorkMode,     \* per lidar: the recorded mode, Failed (-1) or Unknown
    todo,         \* the lidars the watch thread has still to look at in this round: while
                  \* there are any, it holds the mutex
    entering,     \* the lidar LidarInfoChangeCallback is working on, or NoLidar
    mode,         \* per lidar: the mode it is in
    query,        \* per lidar: "asked", the answer on its way (a mode), or None
    commands,     \* the lidars to which a command is on its way
    calm          \* history: from now on no lidar falls asleep and nothing is lost

records == <<m_handleToSerialNumber, m_LivoxLidarWorkMode>>
network == <<query, commands>>
vars == <<records, todo, entering, mode, network, calm>>

Modes   == {"normal", "sleep"}
Failed  == "failed"
Unknown == "unknown"
NoLidar == "no lidar"
None    == "none"

ASSUME LidarsAssumption == NoLidar \notin Lidars

TypeOK ==
    /\ m_handleToSerialNumber \subseteq Lidars
    /\ m_LivoxLidarWorkMode \in [Lidars -> Modes \cup {Failed, Unknown}]
    /\ todo \subseteq m_handleToSerialNumber
    /\ entering \in Lidars \cup {NoLidar}
    /\ mode \in [Lidars -> Modes]
    /\ query \in [Lidars -> Modes \cup {"asked", None}]
    /\ commands \subseteq Lidars
    /\ calm \in BOOLEAN

\* startListener has started the thread; lidars may be asleep.
Init ==
    /\ m_handleToSerialNumber = {}
    /\ m_LivoxLidarWorkMode = [l \in Lidars |-> Unknown]
    /\ todo = {}
    /\ entering = NoLidar
    /\ mode \in [Lidars -> Modes]
    /\ query = [l \in Lidars |-> None] /\ commands = {}
    /\ calm = FALSE

\* m_lidarInfoMutex can be taken.
LidarInfoFree == todo = {}

Query(l) == query' = [query EXCEPT ![l] = IF @ = None THEN "asked" ELSE @]

-----------------------------------------------------------------------------
(* testThread()                                                            *)

\* The mutex is given back when the last lidar has been looked at, or there is none.
RoundStarts ==
    /\ todo = {} /\ m_handleToSerialNumber # {}
    /\ todo' = m_handleToSerialNumber
    /\ UNCHANGED <<records, entering, mode, network, calm>>

\* Mutant of NeedsWaking: only a lidar that has said that it sleeps is woken.
SaysItSleeps(l) == m_LivoxLidarWorkMode[l] = "sleep"
NeedsWaking(l) == m_LivoxLidarWorkMode[l] \notin {Unknown, "normal"}

WatchLidar(l) ==
    /\ l \in todo
    /\ todo' = todo \ {l}
    /\ Query(l)
    /\ commands' = IF NeedsWaking(l) THEN commands \cup {l} ELSE commands
    /\ UNCHANGED <<records, entering, mode, calm>>

TestThread == RoundStarts \/ \E l \in Lidars : WatchLidar(l)

-----------------------------------------------------------------------------
(* The SDK's threads                                                       *)

\* LidarInfoChangeCallback sends a command and a query before it takes the mutex.
LidarInfoChange(l) ==
    /\ entering = NoLidar
    /\ entering' = l
    /\ Query(l)
    /\ commands' = commands \cup {l}
    /\ UNCHANGED <<records, todo, mode, calm>>

LidarEntered ==
    /\ entering # NoLidar /\ LidarInfoFree
    /\ m_handleToSerialNumber' = m_handleToSerialNumber \cup {entering}
    /\ entering' = NoLidar
    /\ UNCHANGED <<m_LivoxLidarWorkMode, todo, mode, network, calm>>

\* Mutant of Recorded: the first answer is kept.
FirstRecord(l, m) == IF m_LivoxLidarWorkMode[l] = Unknown THEN m ELSE m_LivoxLidarWorkMode[l]
Recorded(l, m) == m

\* QueryInternalInfoCallback
QueryAnswered(l) ==
    /\ query[l] \in Modes /\ LidarInfoFree
    /\ m_LivoxLidarWorkMode' = [m_LivoxLidarWorkMode EXCEPT ![l] = Recorded(l, query[l])]
    /\ query' = [query EXCEPT ![l] = None]
    /\ UNCHANGED <<m_handleToSerialNumber, todo, entering, mode, commands, calm>>

\* Mutant of RecordedFailure: a failure leaves the record as it is.
FailureIgnored(l) == m_LivoxLidarWorkMode[l]
\* Mutant of RecordedFailure: the status is not tested, and what came is recorded.
StatusNotTested(l) == query[l]
RecordedFailure(l) == Failed

QueryFailed(l) ==
    /\ query[l] # None /\ LidarInfoFree /\ ~calm
    /\ m_LivoxLidarWorkMode' = [m_LivoxLidarWorkMode EXCEPT ![l] = RecordedFailure(l)]
    /\ query' = [query EXCEPT ![l] = None]
    /\ UNCHANGED <<m_handleToSerialNumber, todo, entering, mode, commands, calm>>

\* Success, but no response or none with the work mode in it: the callback changes no
\* record. It may take the mutex for the other keys; where it does not, all that hangs on
\* the time of the call is whether the next query is a new one.
AnsweredWithoutMode(l) ==
    /\ query[l] \in Modes /\ LidarInfoFree /\ ~calm
    /\ query' = [query EXCEPT ![l] = None]
    /\ UNCHANGED <<records, todo, entering, mode, commands, calm>>

\* The calls that change a record.
QueryInternalInfoCallback(l) == QueryAnswered(l) \/ QueryFailed(l)

-----------------------------------------------------------------------------
(* The lidars and the network                                              *)

LidarAnswers(l) ==
    /\ query[l] = "asked"
    /\ query' = [query EXCEPT ![l] = mode[l]]
    /\ UNCHANGED <<records, todo, entering, mode, commands, calm>>

LidarWakes(l) ==
    /\ l \in commands
    /\ mode' = [mode EXCEPT ![l] = "normal"]
    /\ commands' = commands \ {l}
    /\ UNCHANGED <<records, todo, entering, query, calm>>

CommandLost(l) ==
    /\ l \in commands /\ ~calm
    /\ commands' = commands \ {l}
    /\ UNCHANGED <<records, todo, entering, mode, query, calm>>

LidarFallsAsleep(l) ==
    /\ mode[l] = "normal" /\ ~calm
    /\ mode' = [mode EXCEPT ![l] = "sleep"]
    /\ UNCHANGED <<records, todo, entering, network, calm>>

CalmBegins ==
    /\ ~calm
    /\ calm' = TRUE
    /\ UNCHANGED <<records, todo, entering, mode, network>>

Next ==
    \/ TestThread
    \/ LidarEntered
    \/ \E l \in Lidars :
         \/ LidarInfoChange(l) \/ QueryInternalInfoCallback(l) \/ AnsweredWithoutMode(l)
         \/ LidarAnswers(l) \/ LidarWakes(l) \/ CommandLost(l) \/ LidarFallsAsleep(l)
    \/ CalmBegins

Spec == Init /\ [][Next]_vars

\* The threads run, and the mutex, free for a second between two rounds, is not taken
\* before them for ever. The SDK calls back for every query, and not for ever with success
\* but no work mode (these calls are not part of the fair action). Of the commands that are
\* sent again and again, not all are lost; nothing else is assumed of the answers.
FairSpec ==
    /\ Spec
    /\ WF_vars(TestThread)
    /\ SF_vars(LidarEntered)
    /\ \A l \in Lidars :
         /\ SF_vars(QueryInternalInfoCallback(l))
         /\ WF_vars(LidarAnswers(l))
         /\ SF_vars(LidarWakes(l))

-----------------------------------------------------------------------------
\* A lidar that has been announced does not sleep for ever, even if all of the queries
\* about its mode fail.
SleepersWake ==
    \A l \in Lidars :
        l \in m_handleToSerialNumber /\ mode[l] = "sleep" ~> mode[l] = "normal"

\* Once nothing is lost any more and no lidar falls asleep, all announced lidars come to be
\* awake for good, and to be recorded so.
Settled ==
    \A l \in m_handleToSerialNumber : m_LivoxLidarWorkMode[l] = "normal" /\ mode[l] = "normal"
SettlesWhenCalm == (<>calm) => <>[]Settled
=============================================================================
