---------------------------- MODULE SnapshotReads ----------------------------
(***************************************************************************)
(* What vbr.Get promises the rest of the program, whatever it does about   *)
(* caching, joining and falling back: a read of a path is answered with a  *)
(* snapshot of that path which is never older than one any earlier,        *)
(* finished read of the session was answered with, or with an error.       *)
(*                                                                         *)
(* A snapshot is named by the time at which VBR took it.  Time 0 is before *)
(* the session and stands for an error.                                    *)
(***************************************************************************)
EXTENDS Naturals

CONSTANTS
    Paths,      \* the REST paths a session reads
    Callers,    \* the goroutines that call vbr.Get
    MaxNow,     \* bound on the clock
    NoPath      \* a caller outside any read

VARIABLES
    now,        \* the clock
    newest,     \* newest[p]: the newest snapshot of p a finished read returned
    reading,    \* reading[c]: the path c is reading, or NoPath
    floor,      \* floor[c]: newest of that path when c's read began
    answer      \* answer[c]: {} until c's read is answered, then {snapshot}

vars == <<now, newest, reading, floor, answer>>

Larger(a, b) == IF a > b THEN a ELSE b

\* What a read of a path may be answered with, if newest was low when it began.
Answers(low) == {{0}} \cup {{s} : s \in low .. now}

Init ==
    /\ now = 1
    /\ newest = [p \in Paths |-> 0]
    /\ reading = [c \in Callers |-> NoPath]
    /\ floor = [c \in Callers |-> 0]
    /\ answer = [c \in Callers |-> {}]

Tick ==
    /\ now < MaxNow
    /\ now' = now + 1
    /\ UNCHANGED <<newest, reading, floor, answer>>

\* A read begins, and may be answered at once.
Begin(c, p) ==
    /\ reading[c] = NoPath
    /\ reading' = [reading EXCEPT ![c] = p]
    /\ floor' = [floor EXCEPT ![c] = newest[p]]
    /\ \E a \in {{}} \cup Answers(newest[p]) : answer' = [answer EXCEPT ![c] = a]
    /\ UNCHANGED <<now, newest>>

\* One exchange with VBR answers any number of the reads that wait for it.
Settle ==
    /\ \E settled \in SUBSET {c \in Callers : reading[c] # NoPath /\ answer[c] = {}} :
          /\ answer' = [c \in Callers |-> IF c \in settled THEN answer'[c] ELSE answer[c]]
          /\ \A c \in settled : answer'[c] \in Answers(floor[c])
    /\ UNCHANGED <<now, newest, reading, floor>>

\* The caller takes its answer.
Return(c) ==
    /\ reading[c] # NoPath
    /\ \E s \in answer[c] : newest' = [newest EXCEPT ![reading[c]] = Larger(@, s)]
    /\ reading' = [reading EXCEPT ![c] = NoPath]
    /\ floor' = [floor EXCEPT ![c] = 0]
    /\ answer' = [answer EXCEPT ![c] = {}]
    /\ UNCHANGED now

\* The caller gives up without an answer: its request has broken off.
Abandon(c) ==
    /\ reading[c] # NoPath
    /\ answer[c] = {}
    /\ reading' = [reading EXCEPT ![c] = NoPath]
    /\ floor' = [floor EXCEPT ![c] = 0]
    /\ UNCHANGED <<now, newest, answer>>

Next ==
    \/ Tick
    \/ \E c \in Callers, p \in Paths : Begin(c, p)
    \/ Settle
    \/ \E c \in Callers : Return(c) \/ Abandon(c)

Safety == Init /\ [][Next]_vars
==============================================================================
