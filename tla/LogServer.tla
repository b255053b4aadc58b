----------------------------- MODULE LogServer -----------------------------
(***************************************************************************)
(* The log server (component/log/log_server) and its clients               *)
(* (component/log/log_client).  Clients write messages into a FIFO; the    *)
(* server's main thread copies them into a file, and a SIGALRM handler,    *)
(* which runs on that thread between any two of its steps, deletes the     *)
(* oldest files and asks for a new one.                                    *)
(*                                                                         *)
(* Time is counted in seconds, the resolution of a file's name and of its  *)
(* modification time: a file is named by the second of its creation.       *)
(* What is printed to a file goes through the buffer of its stream: a      *)
(* flush that fails leaves messages there, to be written by the next one,  *)
(* or drops the last one.                                                  *)
(* Messages are numbered in the order in which they reach the FIFO.  The   *)
(* server may crash and be started again: the files stay.                  *)
(***************************************************************************)
EXTENDS Naturals, Sequences, FiniteSets

CONSTANTS
    Client,       \* threads and processes that call Log_c
    MaxFiles,     \* LogConfig.max_files
    Period,       \* LogConfig.time_RV_log_loop
    Prompt,       \* no second passes while the server has something to do
    MaxTime,      \* bound: seconds
    MaxMessages,  \* bound: messages sent
    MaxRestarts,  \* bound: crashes of the server
    MaxFailures   \* bound: calls of the system that fail

ASSUME LogAssumption ==
    /\ MaxFiles \in Nat \ {0} /\ Period \in Nat \ {0} /\ Prompt \in BOOLEAN
    /\ MaxTime \in Nat \ {0} /\ MaxMessages \in Nat
    /\ MaxRestarts \in Nat /\ MaxFailures \in Nat

Time == 1..MaxTime
NoFile == 0
NoMessage == 0

VARIABLES
    clock,        \* time()
    due,          \* second of the next SIGALRM, 0 while no timer is set
    pc,           \* where the main thread is
    keep_running,
    current_fp,   \* name of the file that is open, or NoFile
    name,         \* filename in switch_file
    buffer,       \* message read and not written yet, or NoMessage
    dir,          \* names of the files in the directory
    mtime,        \* name -> second of the last modification
    data,         \* name -> messages printed to the file
    unwritten,    \* how many of them, the last, the open stream still holds
    pipe,         \* messages in the FIFO
    sent,         \* number of messages sent so far
    cpc,          \* client -> where it is in Log_c
    restarts, failures

fileVars == <<dir, mtime, data, unwritten>>
clientVars == <<sent, cpc>>
vars == <<clock, due, pc, keep_running, current_fp, name, buffer, fileVars,
          pipe, clientVars, restarts, failures>>

Init ==
    /\ clock = 1 /\ due = 0
    /\ pc = "open" /\ keep_running = TRUE
    /\ current_fp = NoFile /\ name = NoFile /\ buffer = NoMessage
    /\ dir = {}
    /\ mtime = [t \in Time |-> 0] /\ data = [t \in Time |-> <<>>]
    /\ unwritten = 0 /\ pipe = <<>> /\ sent = 0
    /\ cpc = [c \in Client |-> "idle"]
    /\ restarts = 0 /\ failures = 0

Fails == failures < MaxFailures /\ failures' = failures + 1

\* the server has the FIFO open
Serving == pc \notin {"open", "exit"}

-----------------------------------------------------------------------------
(* Clients: Log_c *)

\* messages sent, and those that may still be
Messages == sent + Cardinality({c \in Client : cpc[c] \in {"opening", "opened"}})

\* open(O_WRONLY) is called; it blocks until the server has the FIFO open
ClientCall(c) ==
    /\ cpc[c] = "idle" /\ Messages < MaxMessages
    /\ cpc' = [cpc EXCEPT ![c] = "opening"]
    /\ UNCHANGED <<clock, due, pc, keep_running, current_fp, name, buffer,
                   fileVars, pipe, sent, restarts, failures>>

ClientOpen(c) ==
    /\ cpc[c] = "opening" /\ Serving
    /\ cpc' = [cpc EXCEPT ![c] = "opened"]
    /\ UNCHANGED <<clock, due, pc, keep_running, current_fp, name, buffer,
                   fileVars, pipe, sent, restarts, failures>>

\* write; a client that writes when the server is gone dies of SIGPIPE
ClientWrite(c) ==
    /\ cpc[c] = "opened"
    /\ IF Serving
       THEN /\ pipe' = Append(pipe, sent + 1) /\ sent' = sent + 1
            /\ cpc' = [cpc EXCEPT ![c] = "written"]
       ELSE cpc' = [cpc EXCEPT ![c] = "idle"] /\ UNCHANGED <<pipe, sent>>
    /\ UNCHANGED <<clock, due, pc, keep_running, current_fp, name, buffer,
                   fileVars, restarts, failures>>

\* clients that have the FIFO open
Writers == {c \in Client : cpc[c] \in {"opened", "written"}}

\* close; what is in a FIFO that nobody has open any more is lost
ClientClose(c) ==
    /\ cpc[c] = "written"
    /\ cpc' = [cpc EXCEPT ![c] = "idle"]
    /\ pipe' = IF ~Serving /\ Writers = {c} THEN <<>> ELSE pipe
    /\ UNCHANGED <<clock, due, pc, keep_running, current_fp, name, buffer,
                   fileVars, sent, restarts, failures>>

-----------------------------------------------------------------------------
(* The server's main thread *)

mainFrame == <<clock, clientVars, restarts>>

\* the FIFO as the server leaves it when it ends
Abandoned == IF Writers = {} THEN <<>> ELSE pipe

\* open(O_RDONLY) blocks until a client has opened, or is opening, the FIFO
Open ==
    /\ pc = "open" /\ \E c \in Client : cpc[c] # "idle"
    /\ pc' = "close"
    /\ UNCHANGED <<due, keep_running, current_fp, name, buffer, fileVars, pipe,
                   failures, mainFrame>>

\* the open file is written now
Touched == [mtime EXCEPT ![current_fp] = clock]

\* the files, without the last k messages printed to the open one
Lost(k) == [t \in Time |-> IF t = current_fp
                           THEN SubSeq(data[t], 1, Len(data[t]) - k)
                           ELSE data[t]]

\* fclose writes what the stream holds; what it fails to write is lost
Fclose ==
    \/ /\ mtime' = IF unwritten > 0 THEN Touched ELSE mtime
       /\ UNCHANGED <<data, failures>>
    \/ /\ unwritten > 0 /\ Fails
       /\ \E k \in 1..unwritten : data' = Lost(k)
       /\ mtime' \in {mtime, Touched}

\* mutant: get_current_time is not called
CloseUnstamped ==
    /\ pc = "close" /\ Fclose
    /\ current_fp' = NoFile /\ unwritten' = 0 /\ pc' = "fopen"
    /\ UNCHANGED <<due, keep_running, name, buffer, dir, pipe, mainFrame>>

\* switch_file: the old file is closed
Close ==
    /\ pc = "close" /\ Fclose
    /\ current_fp' = NoFile /\ unwritten' = 0 /\ pc' = "stamp"
    /\ UNCHANGED <<due, keep_running, name, buffer, dir, pipe, mainFrame>>

\* mutant: keep_running is set before the new file is open
StampResumed ==
    /\ pc = "stamp"
    /\ name' = clock /\ pc' = "fopen" /\ keep_running' = TRUE
    /\ UNCHANGED <<due, current_fp, buffer, fileVars, pipe, failures, mainFrame>>

\* mutant: the name is made once
StampOnce ==
    /\ pc = "stamp"
    /\ name' = (IF name = NoFile THEN clock ELSE name) /\ pc' = "fopen"
    /\ UNCHANGED <<due, keep_running, current_fp, buffer, fileVars, pipe,
                   failures, mainFrame>>

\* get_current_time
Stamp ==
    /\ pc = "stamp"
    /\ name' = clock /\ pc' = "fopen"
    /\ UNCHANGED <<due, keep_running, current_fp, buffer, fileVars, pipe,
                   failures, mainFrame>>

\* fopen with "w": a file of this name loses what it held.  When it fails
\* the first time the server exits, later it is tried again.
Fopen ==
    /\ pc = "fopen"
    /\ \/ /\ dir' = dir \cup {name}
          /\ mtime' = [mtime EXCEPT ![name] = clock]
          /\ data' = [data EXCEPT ![name] = <<>>]
          /\ current_fp' = name /\ pc' = "resume"
          /\ UNCHANGED <<unwritten, pipe, failures>>
       \/ /\ Fails
          /\ IF due = 0 THEN pc' = "exit" /\ pipe' = Abandoned
                        ELSE pc' = "loop" /\ UNCHANGED pipe
          /\ UNCHANGED <<current_fp, fileVars>>
    /\ UNCHANGED <<due, keep_running, name, buffer, mainFrame>>

\* the end of switch_file
Resume ==
    /\ pc = "resume"
    /\ keep_running' = TRUE
    /\ pc' = IF due = 0 THEN "arm" ELSE "loop"
    /\ UNCHANGED <<due, current_fp, name, buffer, fileVars, pipe, failures,
                   mainFrame>>

\* setup_timer
Arm ==
    /\ pc = "arm"
    /\ \/ due' = clock + Period /\ pc' = "loop" /\ UNCHANGED <<pipe, failures>>
       \/ Fails /\ pc' = "exit" /\ pipe' = Abandoned /\ UNCHANGED due
    /\ UNCHANGED <<keep_running, current_fp, name, buffer, fileVars, mainFrame>>

\* mutant: the loop does not look at keep_running
LoopReads ==
    /\ pc = "loop" /\ pc' = "read"
    /\ UNCHANGED <<due, keep_running, current_fp, name, buffer, fileVars, pipe,
                   failures, mainFrame>>

Loop ==
    /\ pc = "loop"
    /\ pc' = IF keep_running THEN "read" ELSE "close"
    /\ UNCHANGED <<due, keep_running, current_fp, name, buffer, fileVars, pipe,
                   failures, mainFrame>>

\* read returns a message, or 0 when no client has the FIFO open
Read ==
    /\ pc = "read"
    /\ \/ /\ pipe # <<>>
          /\ buffer' = Head(pipe) /\ pipe' = Tail(pipe)
          /\ pc' = "write"
       \/ /\ pipe = <<>> /\ Writers = {}
          /\ pc' = "loop"
          /\ UNCHANGED <<buffer, pipe>>
    /\ UNCHANGED <<due, keep_running, current_fp, name, fileVars, failures,
                   mainFrame>>

\* the message is printed to the open file
Printed == [data EXCEPT ![current_fp] = Append(@, buffer)]

\* mutant: a message read after the signal is not written
WriteWhileRunning ==
    /\ pc = "write"
    /\ IF keep_running /\ current_fp \in dir
       THEN data' = Printed /\ mtime' = Touched
       ELSE UNCHANGED <<data, mtime>>
    /\ buffer' = NoMessage /\ pc' = "loop"
    /\ UNCHANGED <<due, keep_running, current_fp, name, dir, unwritten, pipe,
                   failures, mainFrame>>

\* mutant: what is written goes to the beginning of the file
WriteFront ==
    /\ pc = "write"
    /\ IF current_fp \in dir
       THEN /\ data' = [data EXCEPT ![current_fp] = <<buffer>> \o @]
            /\ mtime' = Touched
       ELSE UNCHANGED <<data, mtime>>
    /\ buffer' = NoMessage /\ pc' = "loop"
    /\ UNCHANGED <<due, keep_running, current_fp, name, dir, unwritten, pipe,
                   failures, mainFrame>>

\* write_data: fprintf, fflush, their results ignored.  A flush that fails may
\* have written some of what the stream held; the stream keeps the rest, or has
\* no room for the new message.  A file that is no longer in the directory is
\* nobody's.
Write ==
    /\ pc = "write"
    /\ \/ /\ current_fp \in dir
          /\ data' = Printed /\ mtime' = Touched /\ unwritten' = 0
          /\ UNCHANGED failures
       \/ /\ current_fp \in dir /\ Fails
          /\ mtime' \in {mtime, Touched}
          /\ \/ data' = Printed /\ unwritten' \in 1..(unwritten + 1)
             \/ UNCHANGED data /\ unwritten' \in 0..unwritten
       \/ current_fp \notin dir /\ UNCHANGED <<data, mtime, unwritten, failures>>
    /\ buffer' = NoMessage /\ pc' = "loop"
    /\ UNCHANGED <<due, keep_running, current_fp, name, dir, pipe, mainFrame>>

-----------------------------------------------------------------------------
(* The signal handler *)

\* mutant: compare_files the wrong way round
OldestReversed(old) ==
    /\ old \subseteq dir
    /\ Cardinality(dir) <= MaxFiles => old = {}
    /\ Cardinality(dir) > MaxFiles => Cardinality(old) = Cardinality(dir) - MaxFiles
    /\ \A f \in old, g \in dir \ old : mtime[f] >= mtime[g]

\* mutant: the loop over the files too many stops one before the last
OldestShort(old) ==
    /\ old \subseteq dir
    /\ Cardinality(dir) <= MaxFiles => old = {}
    /\ Cardinality(dir) > MaxFiles => Cardinality(old) = Cardinality(dir) - MaxFiles - 1
    /\ \A f \in old, g \in dir \ old : mtime[f] <= mtime[g]

\* get_files, delete_oldest_files: the files too many, the oldest first; files
\* of the same second are in no particular order
Oldest(old) ==
    /\ old \subseteq dir
    /\ Cardinality(dir) <= MaxFiles => old = {}
    /\ Cardinality(dir) > MaxFiles => Cardinality(old) = Cardinality(dir) - MaxFiles
    /\ \A f \in old, g \in dir \ old : mtime[f] <= mtime[g]

\* manage_files; remove may fail, and when get_files does nothing is deleted
ManageFiles ==
    \/ \E old \in SUBSET dir : \E gone \in SUBSET old :
          /\ Oldest(old)
          /\ failures + Cardinality(old \ gone) <= MaxFailures
          /\ failures' = failures + Cardinality(old \ gone)
          /\ dir' = dir \ gone
          /\ mtime' = [t \in Time |-> IF t \in gone THEN 0 ELSE mtime[t]]
          /\ data' = [t \in Time |-> IF t \in gone THEN <<>> ELSE data[t]]
          /\ unwritten' = IF current_fp \in gone THEN 0 ELSE unwritten
    \/ Fails /\ UNCHANGED fileVars

\* The process ends: what the stream holds, the message read and, when nobody
\* else has it open, the FIFO are gone.
Died ==
    /\ due' = 0 /\ keep_running' = TRUE
    /\ current_fp' = NoFile /\ name' = NoFile /\ buffer' = NoMessage
    /\ data' = Lost(unwritten) /\ unwritten' = 0
    /\ pipe' = Abandoned
    /\ UNCHANGED <<dir, mtime>>

\* The timer expires and signal_handler runs.  When opendir fails the array of
\* files is freed twice, which the process may not survive.
Alarm ==
    /\ due = clock
    /\ \/ /\ due' = clock + Period /\ keep_running' = FALSE /\ ManageFiles
          /\ UNCHANGED <<pc, current_fp, name, buffer, pipe>>
       \/ Fails /\ Died /\ pc' = "exit"
    /\ UNCHANGED mainFrame

-----------------------------------------------------------------------------
(* Time, crashes *)

\* the server waits: for a client, for data, or in its usleep
Waiting == pc \in {"open", "exit"} \/ (pc \in {"loop", "read"} /\ keep_running)

Second ==
    /\ clock < MaxTime /\ due # clock
    /\ Prompt => Waiting
    /\ clock' = clock + 1
    /\ UNCHANGED <<due, pc, keep_running, current_fp, name, buffer, fileVars,
                   pipe, clientVars, restarts, failures>>

\* the server dies, or has exited, and is started again
Restart ==
    /\ restarts < MaxRestarts /\ restarts' = restarts + 1
    /\ Died /\ pc' = "open"
    /\ UNCHANGED <<clock, clientVars, failures>>

-----------------------------------------------------------------------------
ClientStep(c) == ClientOpen(c) \/ ClientWrite(c) \/ ClientClose(c)

MainStep ==
    \/ Open \/ Close \/ Stamp \/ Fopen \/ Resume \/ Arm \/ Loop \/ Read \/ Write

Next ==
    \/ \E c \in Client : ClientCall(c) \/ ClientStep(c)
    \/ MainStep \/ Alarm \/ Second \/ Restart

Spec == Init /\ [][Next]_vars

(***************************************************************************)
(* The server's thread and its clients run when they can; Log_c closes the *)
(* FIFO at once after it wrote.  Time and the calls of Log_c are not       *)
(* forced.                                                                 *)
(***************************************************************************)
FairSpec == Spec /\ WF_vars(MainStep) /\ \A c \in Client : WF_vars(ClientStep(c))

-----------------------------------------------------------------------------
(* Properties *)

TypeOK ==
    /\ clock \in Time /\ due \in Nat
    /\ pc \in {"open", "close", "stamp", "fopen", "resume", "arm", "loop",
               "read", "write", "exit"}
    /\ keep_running \in BOOLEAN
    /\ current_fp \in Time \cup {NoFile} /\ name \in Time \cup {NoFile}
    /\ buffer \in Nat /\ (pc = "write" <=> buffer # NoMessage)
    /\ dir \in SUBSET Time
    /\ mtime \in [Time -> Nat] /\ data \in [Time -> Seq(Nat)]
    /\ unwritten \in Nat
    /\ pipe \in Seq(Nat \ {0}) /\ sent \in Nat
    /\ cpc \in [Client -> {"idle", "opening", "opened", "written"}]
    /\ restarts \in Nat /\ failures \in Nat

\* A message that has been read always finds a file to go to, although the
\* signal may come at any step of switch_file and fopen may fail
\* (log_server.cpp:338-367, 416-432).
ReadHasFile == pc \in {"read", "write"} => current_fp # NoFile

\* The handler never deletes the file that is being written, although it
\* orders files by a modification time of whole seconds and does not know
\* which one is open (log_server.cpp:81-88, 146-171, 276-278).  It needs room
\* for two files and a clock that is not set back.
CurrentKept == current_fp # NoFile => current_fp \in dir

\* The directory is never more than one file above MAX_FILES, up to the files
\* of servers restarted before their first alarm and those that could not be
\* deleted, or listed; from an alarm to the next file it is not above it
\* (log_server.cpp:91-223, 276-278, 416-431).
FilesBounded ==
    /\ Cardinality(dir) <= MaxFiles + 1 + restarts + failures
    /\ ~keep_running /\ pc # "resume" =>
           Cardinality(dir) <= MaxFiles + (IF failures = 0 THEN 0 ELSE restarts + failures)

\* Files hold messages in the order in which they were sent, from the oldest
\* file to the newest, however alarms, restarts and deletions fall
\* (log_server.cpp:338-367, 416-426).
FilesInOrder ==
    \A f, g \in dir : \A i \in DOMAIN data[f], j \in DOMAIN data[g] :
        f < g \/ (f = g /\ i < j) => data[f][i] < data[g][j]

\* An alarm is followed by a new file that is opened after it, wherever in the
\* loop or in switch_file it comes and although fopen may fail, unless the
\* server ends; the one exception is the window between fopen and the
\* assignment that takes the alarm back (log_server.cpp:276-282, 338-359,
\* 416-431).
AlarmSwitches ==
    ~keep_running /\ pc # "resume" ~> pc \in {"resume", "exit", "open"}

\* the messages of a file that no longer wait in its stream
Flushed(f) ==
    SubSeq(data[f], 1, Len(data[f]) - (IF f = current_fp THEN unwritten ELSE 0))

\* What has been written to a file stays in it while it is in the directory,
\* whatever fails and whoever is restarted, with one exception: a file that was
\* made and last written in the same second is emptied when it is opened again
\* in that second (log_server.cpp:321-367).
FilesOnlyGrow ==
    [][\A f \in dir \cap dir' :
           \/ /\ Len(Flushed(f)) <= Len(Flushed(f)')
              /\ SubSeq(Flushed(f)', 1, Len(Flushed(f))) = Flushed(f)
           \/ f = name /\ mtime[f] = f /\ data'[f] = <<>>]_vars

\* "delete the oldest files": sorted by the time of their last modification,
\* "the oldest first" (log_server.cpp:80, 145, 156).  A deleted file is older
\* than each file that is kept.
OldestGoFirst == [][\A f \in dir \ dir', g \in dir' : f < g]_vars

\* the messages in the files, from the oldest file to the newest
Joined(files) ==
    LET J[t \in 0..MaxTime] == IF t = 0 THEN <<>> ELSE J[t - 1] \o files[t] IN J

Log == Joined(data)[MaxTime]

\* the message the server deals with next, or has read and not printed yet
NextMessage == sent - Len(pipe) + (IF buffer = NoMessage THEN 1 ELSE 0)

Retained == INSTANCE RetainedLog
    WITH log <- Log, next <- NextMessage, accidents <- failures + restarts, up <- Serving

\* The server prints every message it is sent, once and in the order of
\* sending; it leaves one out only in the step in which a call fails or the
\* process ends, or while no server runs.  Messages printed are given up with
\* their file, or with the stream that held them (log_server.cpp:276-282,
\* 338-367, 416-432).
KeepsLog == Retained!Spec
=============================================================================
