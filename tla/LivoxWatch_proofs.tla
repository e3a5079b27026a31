------------------------- MODULE LivoxWatch_proofs -------------------------
(***************************************************************************)
(* Proofs about keeping the lidars awake, for any set of lidars, whatever   *)
(* gets lost.                                                              *)
(***************************************************************************)
EXTENDS LivoxWatch, TLAPS

LEMMA TypeInit == Init => TypeOK
BY DEF Init, TypeOK, Modes, Failed, Unknown, NoLidar, None

\* Every action keeps to the types: a record is the mode a lidar was in, or tells that the
\* latest query failed; the watch thread looks at lidars it knows.
LEMMA TypeStep == TypeOK /\ [Next]_vars => TypeOK'
<1> SUFFICES ASSUME TypeOK, [Next]_vars PROVE TypeOK'
  OBVIOUS
<1> USE DEF TypeOK, records, network
<1>1. CASE RoundStarts
  BY <1>1 DEF RoundStarts
<1>2. CASE LidarEntered
  BY <1>2 DEF LidarEntered, LidarInfoFree
<1>3. ASSUME NEW l \in Lidars, WatchLidar(l) PROVE TypeOK'
  BY <1>3 DEF WatchLidar, Query
<1>4. ASSUME NEW l \in Lidars, LidarInfoChange(l) PROVE TypeOK'
  BY <1>4 DEF LidarInfoChange, Query
<1>5. ASSUME NEW l \in Lidars, QueryAnswered(l) PROVE TypeOK'
  BY <1>5 DEF QueryAnswered, Recorded
<1>6. ASSUME NEW l \in Lidars, QueryFailed(l) PROVE TypeOK'
  BY <1>6 DEF QueryFailed, RecordedFailure
<1>7. ASSUME NEW l \in Lidars, LidarAnswers(l) PROVE TypeOK'
  BY <1>7 DEF LidarAnswers
<1>8. ASSUME NEW l \in Lidars, LidarWakes(l) PROVE TypeOK'
  BY <1>8 DEF LidarWakes, Modes
<1>9. ASSUME NEW l \in Lidars, CommandLost(l) PROVE TypeOK'
  BY <1>9 DEF CommandLost
<1>10. ASSUME NEW l \in Lidars, LidarFallsAsleep(l) PROVE TypeOK'
  BY <1>10 DEF LidarFallsAsleep, Modes
<1>11. CASE CalmBegins
  BY <1>11 DEF CalmBegins
<1>12. ASSUME NEW l \in Lidars, AnsweredWithoutMode(l) PROVE TypeOK'
  BY <1>12 DEF AnsweredWithoutMode
<1>13. CASE UNCHANGED vars
  BY <1>13 DEF vars
<1>14. QED
  BY <1>1, <1>2, <1>3, <1>4, <1>5, <1>6, <1>7, <1>8, <1>9, <1>10, <1>11, <1>12, <1>13
     DEF Next, TestThread, QueryInternalInfoCallback

\* Every variable stays in its type.
THEOREM TypeCorrect == Spec => []TypeOK
<1>1. QED
  BY TypeInit, TypeStep, PTL DEF Spec

-----------------------------------------------------------------------------
\* The lidar is awake, recorded so, and no answer from when it slept is on its way.
Recovered(l) ==
    /\ mode[l] = "normal"
    /\ m_LivoxLidarWorkMode[l] = "normal"
    /\ query[l] # "sleep"

\* In calm a lidar that has recovered stays so: no answer or callback that is still on its
\* way, of this lidar or of another, takes the record back. It is the half of
\* SettlesWhenCalm that says "for good".
THEOREM RecoveredForGood ==
    Spec => [][\A l \in Lidars : calm /\ Recovered(l) => calm' /\ Recovered(l)']_vars
<1> DEFINE Stays == \A l \in Lidars : calm /\ Recovered(l) => calm' /\ Recovered(l)'
<1>1. ASSUME TypeOK, [Next]_vars PROVE Stays
  <2> SUFFICES ASSUME NEW k \in Lidars, calm, Recovered(k) PROVE calm' /\ Recovered(k)'
    OBVIOUS
  <2> USE <1>1 DEF TypeOK, Recovered, records, network
  <2>1. CASE RoundStarts
    BY <2>1 DEF RoundStarts
  <2>2. CASE LidarEntered
    BY <2>2 DEF LidarEntered
  <2>3. ASSUME NEW l \in Lidars, WatchLidar(l) PROVE calm' /\ Recovered(k)'
    BY <2>3 DEF WatchLidar, Query
  <2>4. ASSUME NEW l \in Lidars, LidarInfoChange(l) PROVE calm' /\ Recovered(k)'
    BY <2>4 DEF LidarInfoChange, Query
  <2>5. ASSUME NEW l \in Lidars, QueryAnswered(l) PROVE calm' /\ Recovered(k)'
    BY <2>5 DEF QueryAnswered, Recorded, Modes, None
  <2>6. ASSUME NEW l \in Lidars, QueryFailed(l) PROVE calm' /\ Recovered(k)'
    BY <2>6 DEF QueryFailed
  <2>7. ASSUME NEW l \in Lidars, LidarAnswers(l) PROVE calm' /\ Recovered(k)'
    BY <2>7 DEF LidarAnswers
  <2>8. ASSUME NEW l \in Lidars, LidarWakes(l) PROVE calm' /\ Recovered(k)'
    BY <2>8 DEF LidarWakes
  <2>9. ASSUME NEW l \in Lidars, CommandLost(l) PROVE calm' /\ Recovered(k)'
    BY <2>9 DEF CommandLost
  <2>10. ASSUME NEW l \in Lidars, LidarFallsAsleep(l) PROVE calm' /\ Recovered(k)'
    BY <2>10 DEF LidarFallsAsleep
  <2>11. CASE CalmBegins
    BY <2>11 DEF CalmBegins
  <2>12. ASSUME NEW l \in Lidars, AnsweredWithoutMode(l) PROVE calm' /\ Recovered(k)'
    BY <2>12 DEF AnsweredWithoutMode
  <2>13. CASE UNCHANGED vars
    BY <2>13 DEF vars
  <2>14. QED
    BY <2>1, <2>2, <2>3, <2>4, <2>5, <2>6, <2>7, <2>8, <2>9, <2>10, <2>11, <2>12, <2>13
       DEF Next, TestThread, QueryInternalInfoCallback
<1>2. QED
  BY <1>1, TypeCorrect, PTL DEF Spec
=============================================================================
