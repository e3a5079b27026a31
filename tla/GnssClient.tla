----------------------------- MODULE GnssClient -----------------------------
(***************************************************************************)
(* The GNSS client (src/src/clients/concrete/GnssClient.cpp) with the clock *)
(* that stamps its lines: a thread of its own reads lines from the serial   *)
(* port, asks the provider for the time, and then, under m_bufferMutex,     *)
(* puts the line into the buffer if the client logs. The state machine's    *)
(* thread starts and stops logging and cuts chunks. The provider is the     *)
(* lidar client or, when the lidar cannot be initialized and that is        *)
(* ignored, the system's clock.                                             *)
(***************************************************************************)
EXTENDS LidarClock, TLC

CONSTANTS
    MaxLines,     \* BOUND: lines read
    MaxChunks,    \* BOUND: chunks begun
    MaxScans      \* BOUND: scans begun

ASSUME GnssAssumption == MaxLines \in Nat /\ MaxChunks \in Nat /\ MaxScans \in Nat

VARIABLES
    provider,     \* what timeStampProviderPtr points to
    m_isLogging,
    m_buffer,
    line,         \* the line the worker has stamped and not put down, or NoLine
    dumped,       \* the buffer of bufferSaver
    call,         \* what the state machine does with this client
    read,         \* history: lines read
    pushed,       \* history: the lines put into m_buffer, in order
    scan,         \* history: scans begun
    cut           \* history: the chunks dumped, with their scan and what they hold

worker == <<line, read>>
logger == <<m_isLogging, m_buffer, pushed>>
chunk  == <<dumped, call, scan, cut>>
gnssVars == <<provider, worker, logger, chunk>>
vars == <<clockVars, gnssVars>>

NoLine == [n |-> 0, stamp |-> 0, arrivals |-> 0, stampedIn |-> 0, scan |-> 0, late |-> FALSE]
Line   == [n : 0..MaxLines, stamp : Stamp, arrivals : 0..MaxPackets,
           stampedIn : 0..MaxScans, scan : 0..MaxScans, late : BOOLEAN]

TypeOK ==
    /\ ClockTypeOK
    /\ provider \in {"lidar", "system"}
    /\ m_isLogging \in BOOLEAN
    /\ line \in Line /\ read \in 0..MaxLines
    /\ m_buffer \in Seq(Line) /\ dumped \in Seq(Line) /\ pushed \in Seq(Line)
    /\ call \in {"idle", "logging", "dumped", "lastDumped", "lastSave"}
    /\ scan \in 0..MaxScans
    /\ Len(cut) <= MaxChunks
    /\ \A k \in DOMAIN cut :
         /\ cut[k].scan \in 1..scan /\ cut[k].first \in BOOLEAN
         /\ cut[k].file \in Seq(Line)

Init ==
    /\ ClockInit
    /\ provider \in {"lidar", "system"}
    /\ m_isLogging = FALSE /\ m_buffer = << >>
    /\ line = NoLine /\ read = 0
    /\ dumped = << >> /\ call = "idle"
    /\ pushed = << >> /\ scan = 0 /\ cut = << >>

-----------------------------------------------------------------------------
(* The worker                                                              *)

\* TimeStampReceiver::GetTimeStamp; main sets the provider before the thread starts.
GetTimeStamp == IF provider = "lidar" THEN m_timestamp ELSE now

\* A valid GGA line is read and stamped. Other lines change nothing.
ReadLine ==
    /\ line = NoLine /\ read < MaxLines
    /\ read' = read + 1
    /\ line' = [NoLine EXCEPT !.n = read', !.stamp = GetTimeStamp, !.arrivals = arrivals,
                              !.stampedIn = scan]
    /\ UNCHANGED <<clockVars, provider, logger, chunk>>

\* Mutant of Logs: the flag is not tested.
AlwaysLogs == TRUE
Logs == m_isLogging

PushLine ==
    LET entry == [line EXCEPT !.scan = scan, !.late = (call = "lastDumped")]
    IN /\ line # NoLine
       /\ line' = NoLine
       /\ IF Logs
            THEN /\ m_buffer' = Append(m_buffer, entry)
                 /\ pushed' = Append(pushed, entry)
            ELSE UNCHANGED <<m_buffer, pushed>>
       /\ UNCHANGED <<clockVars, provider, m_isLogging, read, chunk>>

-----------------------------------------------------------------------------
(* The state machine's thread                                              *)

\* startLog and stopLog leave m_buffer alone.
StartLog ==
    /\ call = "idle" /\ scan < MaxScans /\ Len(cut) < MaxChunks
    /\ m_isLogging' = TRUE
    /\ call' = "logging" /\ scan' = scan + 1
    /\ UNCHANGED <<clockVars, provider, worker, m_buffer, pushed, dumped, cut>>

\* Mutant of Remaining: the buffer is copied.
Copied == m_buffer
\* What retrieveData leaves: it swaps the buffer with an empty one.
Remaining == << >>

DumpChunkInternally ==
    /\ call = "logging"
    /\ \/ call' = "dumped" /\ Len(cut) + 1 < MaxChunks     \* BOUND: one is left for the end
       \/ call' = "lastDumped"
    /\ dumped' = m_buffer /\ m_buffer' = Remaining
    /\ cut' = Append(cut, [scan |-> scan, file |-> << >>,
                           first |-> \A k \in DOMAIN cut : cut[k].scan < scan])
    /\ UNCHANGED <<clockVars, provider, worker, m_isLogging, pushed, scan>>

StopLog ==
    /\ call = "lastDumped"
    /\ m_isLogging' = FALSE
    /\ call' = "lastSave"
    /\ UNCHANGED <<clockVars, provider, worker, m_buffer, pushed, dumped, scan, cut>>

\* `file` is what belongs into the chunk's file: if it cannot be opened nothing is
\* written, nobody is told, and the state is the same.
SaveDumpedChunkToDirectory ==
    /\ call \in {"dumped", "lastSave"}
    /\ cut' = [cut EXCEPT ![Len(cut)].file = dumped]
    /\ call' = IF call = "dumped" THEN "logging" ELSE "idle"
    /\ UNCHANGED <<clockVars, provider, worker, logger, dumped, scan>>

\* BOUND: the world stands still after the last chunk has been saved and after the last
\* line has been put down.
Running ==
    /\ call # "idle" \/ (scan < MaxScans /\ Len(cut) < MaxChunks)
    /\ line # NoLine \/ read < MaxLines

\* BOUND: the lidars' time stands still after the last packet has arrived.
TimeTells == provider = "system" \/ packets < MaxPackets

Next ==
    \/ Running /\ ReadLine
    \/ PushLine
    \/ StartLog \/ DumpChunkInternally \/ StopLog \/ SaveDumpedChunkToDirectory
    \/ Running /\ TimeTells /\ Tick /\ UNCHANGED gnssVars
    \/ Running /\ provider = "lidar" /\ ClockNext /\ UNCHANGED gnssVars
    \/ ~Running /\ UNCHANGED vars

Spec == Init /\ [][Next]_vars

\* No definition tells one lidar from another.
LidarSymmetry == Permutations(Lidars)

-----------------------------------------------------------------------------
\* What the k-th chunk holds, or will hold once it has been saved.
ChunkLines(k) == IF k = Len(cut) /\ call \notin {"idle", "logging"} THEN dumped ELSE cut[k].file

IsStretch(lines, from, to) ==
    Len(lines) = to - from /\ \A j \in 1..Len(lines) : lines[j] = pushed[from + j]

\* The chunks hold one stretch after another of the lines received while logging, in the
\* order of arrival, and the buffer the rest: each line is in one chunk, once, or will be
\* in the next; nothing else is lost than the files that could not be opened.
LinesSavedOnce ==
    \E end \in [0..Len(cut) -> 0..Len(pushed)] :
        /\ end[0] = 0
        /\ \A k \in 1..Len(cut) : IsStretch(ChunkLines(k), end[k - 1], end[k])
        /\ IsStretch(m_buffer, end[Len(cut)], Len(pushed))

\* A chunk holds lines of its scan; the first of a scan also holds those that came
\* between the last cut and stopLog of the scan before, and no others. The time of a line
\* may be older than the scan it was put down in, for the first line of a scan only: the
\* worker had it in its hand when the scan began.
LinesOfTheirScan ==
    /\ \A k \in DOMAIN cut : \A j \in DOMAIN cut[k].file :
         LET entry == cut[k].file[j]
         IN \/ entry.scan = cut[k].scan
            \/ cut[k].first /\ entry.late /\ entry.scan = cut[k].scan - 1
    /\ \A j \in DOMAIN pushed : pushed[j].stampedIn # pushed[j].scan
         => \A i \in 1..(j - 1) : pushed[i].scan # pushed[j].scan

\* While all points come from one lidar that was not restarted, a line is stamped after
\* every point packet that arrived before it was read and before every later one: the
\* time that the clients are given never runs backwards.
LinesFollowTheLaser ==
    \A j \in DOMAIN pushed : \A s \in samples :
        provider = "lidar" /\ Cardinality(heard) = 1 /\ s.kind = "point"
            /\ s.dot = 0 /\ pushed[j].stamp # Sentinel
          => IF s.arrival <= pushed[j].arrivals THEN s.stamp <= pushed[j].stamp
                                                ELSE pushed[j].stamp <= s.stamp
=============================================================================
