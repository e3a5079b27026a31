---------------------------- MODULE ScanSession ----------------------------
(***************************************************************************)
(* What the controller promises its clients. A client (LoggerClient and     *)
(* SaveChunkToDirClient) is told to start recording, to put what it has    *)
(* recorded aside (dumpChunkInternally), to write that to disk, and to      *)
(* stop. startLog() and stopLog() throw away whatever is still in a         *)
(* client's buffers and a second dump replaces the first, so no recorded   *)
(* data is lost only if the calls come in the order this module allows.    *)
(***************************************************************************)
EXTENDS Naturals

CONSTANT Client

VARIABLES
    on,       \* the clients that are recording
    dumped,   \* the clients that hold a dump not yet on disk
    written   \* chunks on disk

vars == <<on, dumped, written>>

TypeOK ==
    /\ on \subseteq Client
    /\ dumped \subseteq Client
    /\ written \in Nat

Init == on = {} /\ dumped = {} /\ written = 0

\* Start a client that is at rest and has nothing left to write.
Start(c) ==
    /\ c \notin on /\ c \notin dumped
    /\ on' = on \cup {c}
    /\ UNCHANGED <<dumped, written>>

\* Put aside what a recording client has recorded, once per chunk.
Dump(c) ==
    /\ c \in on /\ c \notin dumped
    /\ dumped' = dumped \cup {c}
    /\ UNCHANGED <<on, written>>

\* Stop only a client whose recording has been put aside.
Stop(c) ==
    /\ c \in on /\ c \in dumped
    /\ on' = on \ {c}
    /\ UNCHANGED <<dumped, written>>

\* Every client contributes to the chunk that is written.
Write ==
    /\ dumped = Client
    /\ dumped' = {}
    /\ written' = written + 1
    /\ UNCHANGED on

Next == Write \/ \E c \in Client : Start(c) \/ Dump(c) \/ Stop(c)

Spec == Init /\ [][Next]_vars
=============================================================================
