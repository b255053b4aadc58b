-------------------------- MODULE LogServerProofs --------------------------
(***************************************************************************)
(* For any clients, any period, any failures and restarts: what is read    *)
(* finds an open file, the directory stays bounded, and the files hold the *)
(* messages in the order of sending.  With room for two files the one      *)
(* being written is never deleted, the oldest go first up to neighbours,   *)
(* what has been written stays, and the server implements RetainedLog.     *)
(***************************************************************************)
EXTENDS LogServer, FiniteSetTheorems, SequenceTheorems, WellFoundedInduction, TLAPS

-----------------------------------------------------------------------------
(* Types and control *)

\* Where the main thread is says whether the timer is set, whether the last
\* alarm has been served and whether a file is open.
ControlInv ==
    /\ due = 0 => keep_running
    /\ pc \in {"open", "arm", "exit"} => due = 0
    /\ pc \in {"loop", "read", "write"} => due # 0
    /\ pc \in {"close", "stamp", "fopen"} /\ due # 0 => ~keep_running
    /\ pc \in {"open", "stamp", "fopen"} => current_fp = NoFile
    /\ pc \in {"resume", "arm", "read", "write"} => current_fp # NoFile
    /\ pc = "loop" /\ keep_running => current_fp # NoFile
    /\ pc = "fopen" => name # NoFile
    /\ current_fp \in {NoFile, name}

ControlOK == TypeOK /\ ControlInv

\* what ControlInv reads
controlVars == <<due, pc, keep_running, current_fp, name>>

LEMMA ControlStutter ==
    ASSUME ControlInv, UNCHANGED controlVars
    PROVE  ControlInv'
  BY DEF ControlInv, controlVars

LEMMA Times == 0 \notin Time /\ \A t \in Time : t \in Nat /\ t > 0
  BY LogAssumption DEF Time

LEMMA AbandonedType ==
    ASSUME TypeOK PROVE Abandoned \in Seq(Nat \ {0})
  BY DEF TypeOK, Abandoned

LEMMA SeqDomain ==
    ASSUME NEW s \in Seq(Nat)
    PROVE  DOMAIN s = 1..Len(s) /\ Len(s) \in Nat
  OBVIOUS

\* The first n messages of a sequence.
LEMMA Cut ==
    ASSUME NEW s \in Seq(Nat), NEW n \in Int, n <= Len(s)
    PROVE  /\ SubSeq(s, 1, n) \in Seq(Nat)
           /\ Len(SubSeq(s, 1, n)) = IF 1 <= n THEN n ELSE 0
           /\ \A i \in 1..n : SubSeq(s, 1, n)[i] = s[i]
           /\ \A i \in DOMAIN SubSeq(s, 1, n) :
                  i \in DOMAIN s /\ SubSeq(s, 1, n)[i] = s[i]
<1> DEFINE c == SubSeq(s, 1, n)
<1>1. DOMAIN s = 1..Len(s) /\ Len(s) \in Nat /\ \A i \in 1..Len(s) : s[i] \in Nat
  BY SeqDomain
<1>2. \A i \in 1..n : s[i] \in Nat
  BY <1>1
<1>3. /\ c \in Seq(Nat) /\ Len(c) = IF 1 <= n THEN n - 1 + 1 ELSE 0
      /\ \A i \in 1..(n - 1 + 1) : c[i] = s[1 + i - 1]
  BY <1>2, SubSeqProperties
<1> HIDE DEF c
<1>4. DOMAIN c = 1..Len(c)
  BY <1>3, SeqDomain
<1>5. \A i \in 1..n : c[i] = s[i]
  BY <1>3
<1>6. \A i \in DOMAIN c : i \in 1..n /\ i \in DOMAIN s
  BY <1>1, <1>3, <1>4
<1>7. QED
  BY <1>3, <1>5, <1>6 DEF c

LEMMA LostType ==
    ASSUME TypeOK, NEW k \in Nat
    PROVE  /\ Lost(k) \in [Time -> Seq(Nat)]
           /\ \A t \in Time : \A i \in DOMAIN Lost(k)[t] :
                  i \in DOMAIN data[t] /\ Lost(k)[t][i] = data[t][i]
<1>1. ASSUME NEW t \in Time
      PROVE  /\ Lost(k)[t] \in Seq(Nat)
             /\ \A i \in DOMAIN Lost(k)[t] :
                    i \in DOMAIN data[t] /\ Lost(k)[t][i] = data[t][i]
  <2>1. PICK s \in Seq(Nat) : s = data[t]
    BY DEF TypeOK
  <2>2. Len(s) \in Nat /\ Len(s) - k \in Int /\ Len(s) - k <= Len(s)
    BY SeqDomain
  <2>3. CASE t = current_fp
    <3>1. PICK n \in Int : n = Len(s) - k /\ n <= Len(s)
      BY <2>2
    <3>2. Lost(k)[t] = SubSeq(s, 1, n)
      BY <2>1, <2>3, <3>1 DEF Lost
    <3>3. QED
      BY <2>1, <3>1, <3>2, Cut
  <2>4. CASE t # current_fp
    BY <2>1, <2>4 DEF Lost
  <2>5. QED
    BY <2>3, <2>4
<1>2. Lost(k) = [t \in Time |-> Lost(k)[t]]
  BY DEF Lost
<1>3. QED
  BY <1>1, <1>2

LEMMA TouchedType ==
    ASSUME TypeOK
    PROVE  Touched \in [Time -> Nat]
  BY Times DEF TypeOK, Touched

LEMMA ClientControl ==
    ASSUME ControlOK, NEW c \in Client, ClientCall(c) \/ ClientStep(c)
    PROVE  ControlOK' /\ UNCHANGED <<fileVars, clock, controlVars, failures, restarts>>
<1> USE DEF fileVars, controlVars
<1>1. UNCHANGED <<fileVars, clock, controlVars, failures, restarts, buffer>>
  BY DEF ClientStep, ClientCall, ClientOpen, ClientWrite, ClientClose
<1>2. cpc' \in [Client -> {"idle", "opening", "opened", "written"}]
  BY DEF ControlOK, TypeOK, ClientStep, ClientCall, ClientOpen, ClientWrite,
         ClientClose
<1>3. sent' \in Nat
  BY DEF ControlOK, TypeOK, ClientStep, ClientCall, ClientOpen, ClientWrite,
         ClientClose
<1>4. pipe' \in Seq(Nat \ {0})
  <2>1. sent + 1 \in Nat \ {0} /\ pipe \in Seq(Nat \ {0})
    BY DEF ControlOK, TypeOK
  <2>2. Append(pipe, sent + 1) \in Seq(Nat \ {0})
    BY <2>1, AppendProperties
  <2>3. <<>> \in Seq(Nat \ {0})
    BY EmptySeq
  <2>4. pipe' \in {pipe, <<>>, Append(pipe, sent + 1)}
    BY DEF ClientStep, ClientCall, ClientOpen, ClientWrite, ClientClose
  <2>5. QED
    BY <2>1, <2>2, <2>3, <2>4
<1>5. QED
  BY <1>1, <1>2, <1>3, <1>4, ControlStutter DEF ControlOK, TypeOK

LEMMA FopenControl ==
    ASSUME ControlOK, Fopen PROVE ControlOK'
<1> USE DEF ControlOK, fileVars, clientVars, mainFrame
<1>1. name \in Time /\ pc = "fopen" /\ buffer = NoMessage
  BY DEF Fopen, TypeOK, ControlInv
<1>2. CASE /\ dir' = dir \cup {name}
           /\ mtime' = [mtime EXCEPT ![name] = clock]
           /\ data' = [data EXCEPT ![name] = <<>>]
           /\ current_fp' = name /\ pc' = "resume"
           /\ UNCHANGED <<unwritten, pipe, failures>>
  <2>1. mtime' \in [Time -> Nat] /\ data' \in [Time -> Seq(Nat)]
    <3>1. <<>> \in Seq(Nat) /\ clock \in Nat
      BY Times, EmptySeq DEF TypeOK
    <3>2. QED
      BY <1>1, <1>2, <3>1 DEF TypeOK
  <2>2. TypeOK'
    BY <1>1, <1>2, <2>1 DEF Fopen, TypeOK
  <2>3. ControlInv'
    BY <1>1, <1>2, Times DEF Fopen, ControlInv, NoFile
  <2>4. QED
    BY <2>2, <2>3
<1>3. CASE /\ Fails
           /\ IF due = 0 THEN pc' = "exit" /\ pipe' = Abandoned
                         ELSE pc' = "loop" /\ UNCHANGED pipe
           /\ UNCHANGED <<current_fp, fileVars>>
  <2>1. pipe' \in Seq(Nat \ {0}) /\ failures' \in Nat
    BY <1>3, AbandonedType DEF Fails, TypeOK
  <2>2. TypeOK'
    BY <1>1, <1>3, <2>1 DEF Fopen, TypeOK
  <2>3. ControlInv'
    BY <1>1, <1>3 DEF Fopen, ControlInv
  <2>4. QED
    BY <2>2, <2>3
<1>4. QED
  BY <1>2, <1>3 DEF Fopen

LEMMA ReadControl ==
    ASSUME ControlOK, Read PROVE ControlOK'
<1> USE DEF ControlOK, fileVars, clientVars, mainFrame
<1>1. pipe # <<>> => Head(pipe) \in Nat \ {0} /\ Tail(pipe) \in Seq(Nat \ {0})
  BY HeadTailProperties DEF TypeOK
<1>2. TypeOK'
  BY <1>1 DEF Read, TypeOK, NoMessage
<1>3. ControlInv'
  BY DEF Read, ControlInv, TypeOK
<1>4. QED
  BY <1>2, <1>3

LEMMA PrintedType ==
    ASSUME ControlOK, pc = "write", current_fp \in dir
    PROVE  /\ Printed \in [Time -> Seq(Nat)]
           /\ current_fp \in Time /\ data[current_fp] \in Seq(Nat) /\ buffer \in Nat
           /\ Printed[current_fp] = Append(data[current_fp], buffer)
           /\ \A f \in Time : f # current_fp => Printed[f] = data[f]
<1>1. current_fp \in Time /\ data[current_fp] \in Seq(Nat) /\ buffer \in Nat
  BY DEF ControlOK, TypeOK
<1>2. Append(data[current_fp], buffer) \in Seq(Nat)
  BY <1>1, AppendProperties
<1>3. QED
  BY <1>1, <1>2 DEF ControlOK, TypeOK, Printed

\* the outcomes of write_data, as far as the files go
LEMMA WriteOutcome ==
    ASSUME ControlOK, Write
    PROVE  /\ mtime' \in {mtime, Touched}
           /\ \/ current_fp \in dir /\ data' = Printed
              \/ current_fp \in dir /\ data' = data /\ failures' = failures + 1
              \/ current_fp \notin dir /\ data' = data /\ mtime' = mtime
           /\ unwritten' \in Nat /\ failures' \in Nat /\ failures <= failures'
  BY DEF Write, Fails, ControlOK, TypeOK

LEMMA WriteControl ==
    ASSUME ControlOK, Write PROVE ControlOK'
<1> USE DEF ControlOK, clientVars, mainFrame
<1>1. mtime' \in [Time -> Nat]
  BY WriteOutcome, TouchedType DEF TypeOK
<1>2. data' \in [Time -> Seq(Nat)]
  <2>1. CASE current_fp \in dir
    <3>1. Printed \in [Time -> Seq(Nat)]
      BY <2>1, PrintedType DEF Write
    <3>2. QED
      BY <3>1, WriteOutcome DEF TypeOK
  <2>2. CASE current_fp \notin dir
    BY <2>2, WriteOutcome DEF TypeOK
  <2>3. QED
    BY <2>1, <2>2
<1>3. unwritten' \in Nat /\ failures' \in Nat
  BY WriteOutcome
<1>4. TypeOK'
  BY <1>1, <1>2, <1>3 DEF Write, TypeOK, NoMessage
<1>5. ControlInv'
  BY DEF Write, ControlInv
<1>6. QED
  BY <1>4, <1>5

\* the outcomes of fclose
LEMMA CloseOutcome ==
    ASSUME ControlOK, Close
    PROVE  /\ mtime' \in {mtime, Touched}
           /\ \/ data' = data
              \/ \E k \in 1..unwritten : data' = Lost(k)
           /\ failures' \in Nat /\ failures <= failures'
  BY DEF Close, Fclose, Fails, ControlOK, TypeOK

LEMMA CloseControl ==
    ASSUME ControlOK, Close PROVE ControlOK'
<1> USE DEF ControlOK, clientVars, mainFrame
<1>1. mtime' \in [Time -> Nat]
  BY CloseOutcome, TouchedType DEF TypeOK
<1>2. data' \in [Time -> Seq(Nat)]
  <2>1. CASE \E k \in 1..unwritten : data' = Lost(k)
    <3>1. PICK k \in Nat : data' = Lost(k)
      BY <2>1 DEF TypeOK
    <3>2. QED
      BY <3>1, LostType
  <2>2. QED
    BY <2>1, CloseOutcome DEF TypeOK
<1>3. failures' \in Nat
  BY CloseOutcome
<1>4. TypeOK'
  BY <1>1, <1>2, <1>3 DEF Close, TypeOK
<1>5. ControlInv'
  BY DEF Close, ControlInv
<1>6. QED
  BY <1>4, <1>5

LEMMA MainControl ==
    ASSUME ControlOK, MainStep PROVE ControlOK'
<1> USE DEF ControlOK, fileVars, clientVars, mainFrame
<1>1. CASE Open
  BY <1>1 DEF Open, TypeOK, ControlInv
<1>2. CASE Close
  BY <1>2, CloseControl
<1>3. CASE Stamp
  <2>1. clock \in Time /\ clock # NoFile
    BY Times DEF TypeOK, NoFile
  <2>2. TypeOK'
    BY <1>3, <2>1 DEF Stamp, TypeOK
  <2>3. ControlInv'
    BY <1>3, <2>1 DEF Stamp, ControlInv
  <2>4. QED
    BY <2>2, <2>3
<1>4. CASE Fopen
  BY <1>4, FopenControl
<1>5. CASE Resume
  BY <1>5 DEF Resume, TypeOK, ControlInv
<1>6. CASE Arm
  <2>1. clock + Period \in Nat \ {0}
    BY LogAssumption, Times DEF TypeOK
  <2>2. TypeOK'
    BY <1>6, <2>1, AbandonedType DEF Arm, Fails, TypeOK
  <2>3. ControlInv'
    BY <1>6, <2>1 DEF Arm, ControlInv
  <2>4. QED
    BY <2>2, <2>3
<1>7. CASE Loop
  BY <1>7 DEF Loop, TypeOK, ControlInv
<1>8. CASE Read
  BY <1>8, ReadControl
<1>9. CASE Write
  BY <1>9, WriteControl
<1>10. QED
  BY <1>1, <1>2, <1>3, <1>4, <1>5, <1>6, <1>7, <1>8, <1>9 DEF MainStep

\* the outcomes of manage_files
LEMMA ManageOutcome ==
    ASSUME TypeOK, ManageFiles
    PROVE  \/ /\ Fails /\ UNCHANGED fileVars
              /\ failures' \in Nat /\ failures' = failures + 1
           \/ \E old, gone \in SUBSET dir :
                 /\ gone \subseteq old /\ Oldest(old)
                 /\ Cardinality(old \ gone) \in Nat
                 /\ failures' \in Nat
                 /\ failures' = failures + Cardinality(old \ gone)
                 /\ dir' = dir \ gone
                 /\ mtime' = [t \in Time |-> IF t \in gone THEN 0 ELSE mtime[t]]
                 /\ data' = [t \in Time |-> IF t \in gone THEN <<>> ELSE data[t]]
                 /\ unwritten' = IF current_fp \in gone THEN 0 ELSE unwritten
<1>1. CASE Fails /\ UNCHANGED fileVars
  BY <1>1 DEF Fails, TypeOK
<1>2. CASE ~(Fails /\ UNCHANGED fileVars)
  <2>1. PICK old \in SUBSET dir, gone \in SUBSET dir :
            /\ gone \subseteq old /\ Oldest(old)
            /\ failures' = failures + Cardinality(old \ gone)
            /\ dir' = dir \ gone
            /\ mtime' = [t \in Time |-> IF t \in gone THEN 0 ELSE mtime[t]]
            /\ data' = [t \in Time |-> IF t \in gone THEN <<>> ELSE data[t]]
            /\ unwritten' = IF current_fp \in gone THEN 0 ELSE unwritten
    BY <1>2 DEF ManageFiles
  <2>2. IsFiniteSet(old \ gone)
    <3>1. IsFiniteSet(Time)
      BY LogAssumption, FS_Interval DEF Time
    <3>2. QED
      BY <3>1, FS_Subset DEF TypeOK
  <2>3. Cardinality(old \ gone) \in Nat
    BY <2>2, FS_CardinalityType
  <2>4. failures' \in Nat
    BY <2>1, <2>3 DEF TypeOK
  <2>5. QED
    BY <2>1, <2>3, <2>4
<1>3. QED
  BY <1>1, <1>2

LEMMA DiedControl ==
    ASSUME ControlOK, Died, pc' \in {"open", "exit"}, UNCHANGED <<clock, clientVars>>,
           restarts' \in Nat, failures' \in Nat
    PROVE  ControlOK'
<1> USE DEF ControlOK, clientVars
<1>1. data' \in [Time -> Seq(Nat)] /\ unwritten' \in Nat
  BY LostType DEF Died, TypeOK
<1>2. pipe' \in Seq(Nat \ {0})
  BY AbandonedType DEF Died
<1>3. TypeOK'
  BY <1>1, <1>2 DEF Died, TypeOK, NoMessage
<1>4. ControlInv'
  BY DEF Died, ControlInv
<1>5. QED
  BY <1>3, <1>4

LEMMA AlarmControl ==
    ASSUME ControlOK, Alarm PROVE ControlOK'
<1> USE DEF ControlOK, clientVars, mainFrame
<1>1. CASE /\ due' = clock + Period /\ keep_running' = FALSE /\ ManageFiles
           /\ UNCHANGED <<pc, current_fp, name, buffer, pipe>>
  <2>1. /\ dir' \in SUBSET Time /\ mtime' \in [Time -> Nat]
        /\ data' \in [Time -> Seq(Nat)] /\ unwritten' \in Nat
        /\ failures' \in Nat
    <3>1. CASE UNCHANGED fileVars /\ failures' \in Nat
      BY <3>1 DEF fileVars, TypeOK
    <3>2. CASE \E gone \in SUBSET dir :
                 /\ failures' \in Nat
                 /\ dir' = dir \ gone
                 /\ mtime' = [t \in Time |-> IF t \in gone THEN 0 ELSE mtime[t]]
                 /\ data' = [t \in Time |-> IF t \in gone THEN <<>> ELSE data[t]]
                 /\ unwritten' = IF current_fp \in gone THEN 0 ELSE unwritten
      BY <3>2, EmptySeq DEF TypeOK
    <3>3. QED
      BY <1>1, <3>1, <3>2, ManageOutcome
  <2>2. due' \in Nat \ {0}
    BY <1>1, LogAssumption, Times DEF TypeOK
  <2>3. TypeOK'
    BY <1>1, <2>1, <2>2 DEF Alarm, TypeOK
  <2>4. due # 0
    BY Times DEF Alarm, TypeOK
  <2>5. ControlInv'
    BY <1>1, <2>2, <2>4 DEF ControlInv
  <2>6. QED
    BY <2>3, <2>5
<1>2. CASE Fails /\ Died /\ pc' = "exit"
  <2>1. failures' \in Nat /\ restarts' \in Nat
    BY <1>2 DEF Fails, Alarm, TypeOK
  <2>2. QED
    BY <1>2, <2>1, DiedControl DEF Alarm
<1>3. QED
  BY <1>1, <1>2 DEF Alarm

LEMMA SecondControl ==
    ASSUME ControlOK, Second PROVE ControlOK'
<1>1. clock' \in Time
  BY LogAssumption DEF ControlOK, Second, TypeOK, Time
<1>2. TypeOK'
  BY <1>1 DEF ControlOK, Second, TypeOK, fileVars, clientVars
<1>3. QED
  BY <1>2, ControlStutter DEF ControlOK, Second, controlVars

LEMMA RestartControl ==
    ASSUME ControlOK, Restart PROVE ControlOK'
<1>1. restarts' \in Nat /\ failures' \in Nat
  BY DEF Restart, ControlOK, TypeOK
<1>2. QED
  BY <1>1, DiedControl DEF Restart

\* The control of the server is as ControlInv says, in every state.
THEOREM Control == Spec => []ControlOK
<1>1. Init => ControlOK
  <2> SUFFICES ASSUME Init PROVE ControlOK
    OBVIOUS
  <2>1. 1 \in Time /\ <<>> \in Seq(Nat) /\ <<>> \in Seq(Nat \ {0})
    BY LogAssumption, EmptySeq DEF Time
  <2>2. mtime \in [Time -> Nat] /\ data \in [Time -> Seq(Nat)]
    BY <2>1 DEF Init
  <2>3. cpc \in [Client -> {"idle", "opening", "opened", "written"}]
    BY DEF Init
  <2>4. /\ clock = 1 /\ due = 0 /\ pc = "open" /\ keep_running = TRUE
        /\ current_fp = NoFile /\ name = NoFile /\ buffer = 0 /\ dir = {}
        /\ unwritten = 0 /\ pipe = <<>> /\ sent = 0 /\ restarts = 0 /\ failures = 0
    BY DEF Init, NoMessage
  <2>5. TypeOK
    BY <2>1, <2>2, <2>3, <2>4 DEF TypeOK, NoMessage
  <2>6. ControlInv
    BY <2>4 DEF ControlInv
  <2>7. QED
    BY <2>5, <2>6 DEF ControlOK
<1>2. ControlOK /\ [Next]_vars => ControlOK'
  <2> SUFFICES ASSUME ControlOK, [Next]_vars PROVE ControlOK'
    OBVIOUS
  <2>1. ASSUME NEW c \in Client, ClientCall(c) \/ ClientStep(c)
        PROVE  ControlOK'
    BY <2>1, ClientControl
  <2>2. CASE MainStep
    BY <2>2, MainControl
  <2>3. CASE Alarm
    BY <2>3, AlarmControl
  <2>4. CASE Second \/ Restart
    BY <2>4, SecondControl, RestartControl
  <2>5. CASE UNCHANGED vars
    BY <2>5, ControlStutter
       DEF ControlOK, TypeOK, vars, fileVars, clientVars, controlVars
  <2>6. QED
    BY <2>1, <2>2, <2>3, <2>4, <2>5 DEF Next
<1>3. QED
  BY <1>1, <1>2, PTL DEF Spec

\* Every variable of the server keeps its type.
THEOREM TypeOKHolds == Spec => []TypeOK
  BY Control, PTL DEF ControlOK

\* What the server reads always finds an open file, whenever alarms come and
\* whatever fails (log_server.cpp:338-367, 416-432).
THEOREM ReadHasFileHolds == Spec => []ReadHasFile
<1>1. ControlOK => ReadHasFile
  BY DEF ControlOK, ControlInv, ReadHasFile
<1>2. QED
  BY <1>1, Control, PTL

-----------------------------------------------------------------------------
(* The number of files *)

\* A new file finds room: an alarm has been before it, or a restart.
CountInv ==
    /\ FilesBounded
    /\ pc \in {"open", "close", "stamp", "fopen"} /\ due = 0 =>
           Cardinality(dir) <= MaxFiles + restarts + failures

LEMMA DirFinite ==
    ASSUME TypeOK, NEW S \in SUBSET dir
    PROVE  IsFiniteSet(S) /\ Cardinality(S) \in Nat
<1>1. IsFiniteSet(Time)
  BY LogAssumption, FS_Interval DEF Time
<1>2. IsFiniteSet(S)
  BY <1>1, FS_Subset DEF TypeOK
<1>3. QED
  BY <1>2, FS_CardinalityType

LEMMA CardinalityOfRest ==
    ASSUME NEW S, NEW T \in SUBSET S, IsFiniteSet(S)
    PROVE  /\ Cardinality(S \ T) = Cardinality(S) - Cardinality(T)
           /\ Cardinality(T) <= Cardinality(S)
<1>1. S \cap T = T
  OBVIOUS
<1>2. Cardinality(S \ T) = Cardinality(S) - Cardinality(S \cap T)
  BY FS_Difference
<1>3. QED
  BY <1>1, <1>2, FS_Subset

\* what is left after an alarm
LEMMA AlarmCount ==
    ASSUME TypeOK, ManageFiles
    PROVE  /\ failures' \in Nat /\ failures <= failures'
           /\ Cardinality(dir') \in Nat
           /\ \/ Cardinality(dir') <= MaxFiles + (failures' - failures)
              \/ dir' = dir /\ failures' = failures + 1
<1> SUFFICES ASSUME ~(UNCHANGED fileVars /\ failures' = failures + 1)
             PROVE  /\ failures' \in Nat /\ failures <= failures'
                    /\ Cardinality(dir') \in Nat
                    /\ Cardinality(dir') <= MaxFiles + (failures' - failures)
  <2>1. Cardinality(dir) \in Nat /\ failures \in Nat
    BY DirFinite DEF TypeOK
  <2>2. QED
    BY <2>1 DEF fileVars
<1>1. PICK old \in SUBSET dir, gone \in SUBSET dir :
          /\ gone \subseteq old /\ Oldest(old)
          /\ failures' = failures + Cardinality(old \ gone)
          /\ dir' = dir \ gone
  BY ManageOutcome
<1>2. /\ IsFiniteSet(dir) /\ IsFiniteSet(old)
      /\ Cardinality(dir) \in Nat /\ Cardinality(old) \in Nat
      /\ Cardinality(gone) \in Nat /\ Cardinality(old \ gone) \in Nat
  BY DirFinite
<1>4. /\ Cardinality(dir') = Cardinality(dir) - Cardinality(gone)
      /\ failures' = failures + (Cardinality(old) - Cardinality(gone))
      /\ Cardinality(old) >= Cardinality(gone)
      /\ Cardinality(dir) >= Cardinality(gone)
  <2>1. /\ Cardinality(dir \ gone) = Cardinality(dir) - Cardinality(gone)
        /\ Cardinality(gone) <= Cardinality(dir)
    BY <1>2, CardinalityOfRest
  <2>2. gone \in SUBSET old
    BY <1>1
  <2>3. /\ Cardinality(old \ gone) = Cardinality(old) - Cardinality(gone)
        /\ Cardinality(gone) <= Cardinality(old)
    BY <1>2, <2>2, CardinalityOfRest
  <2>4. QED
    BY <1>1, <1>2, <2>1, <2>3
<1>5. \/ Cardinality(dir) <= MaxFiles /\ Cardinality(old) = 0
      \/ Cardinality(dir) > MaxFiles /\ Cardinality(old) = Cardinality(dir) - MaxFiles
  BY <1>1, <1>2, FS_EmptySet, LogAssumption DEF Oldest
<1>6. MaxFiles \in Nat /\ failures \in Nat
  BY LogAssumption DEF TypeOK
<1> DEFINE d == Cardinality(dir)
           o == Cardinality(old)
           g == Cardinality(gone)
           after == Cardinality(dir')
<1>7. /\ d \in Nat /\ o \in Nat /\ g \in Nat /\ after = d - g
      /\ failures' = failures + (o - g) /\ o >= g /\ d >= g
      /\ (d <= MaxFiles /\ o = 0) \/ (d > MaxFiles /\ o = d - MaxFiles)
  BY <1>2, <1>4, <1>5
<1> HIDE DEF d, o, g, after
<1>8. /\ failures' \in Nat /\ failures <= failures'
      /\ after \in Nat /\ after <= MaxFiles + (failures' - failures)
  BY <1>6, <1>7
<1>9. QED
  BY <1>8 DEF after

\* what CountInv reads
LEMMA CountFrame ==
    ASSUME TypeOK, TypeOK', CountInv, dir' = dir, restarts <= restarts',
           failures <= failures',
           pc' \in {"open", "close", "stamp", "fopen"} /\ due' = 0 =>
               \/ pc \in {"open", "close", "stamp", "fopen"} /\ due = 0
               \/ restarts' = restarts + 1,
           ~keep_running' /\ pc' # "resume" => ~keep_running /\ pc # "resume"
    PROVE  CountInv'
<1>1. /\ Cardinality(dir) \in Nat /\ MaxFiles \in Nat
      /\ restarts \in Nat /\ failures \in Nat
      /\ restarts' \in Nat /\ failures' \in Nat
  BY DirFinite, LogAssumption DEF TypeOK
<1>2. Cardinality(dir') = Cardinality(dir)
  OBVIOUS
<1>3. QED
  BY <1>1, <1>2 DEF CountInv, FilesBounded

LEMMA CountStep ==
    ASSUME ControlOK, CountInv, [Next]_vars, ControlOK'
    PROVE  CountInv'
<1> USE DEF ControlOK
<1>1. /\ Cardinality(dir) \in Nat /\ MaxFiles \in Nat
      /\ restarts \in Nat /\ failures \in Nat
      /\ restarts' \in Nat /\ failures' \in Nat
  BY DirFinite, LogAssumption DEF TypeOK
<1>2. ASSUME UNCHANGED <<dir, restarts>>, failures <= failures',
             pc' \in {"open", "close", "stamp", "fopen"} /\ due' = 0 =>
                 pc \in {"open", "close", "stamp", "fopen"} /\ due = 0,
             ~keep_running' /\ pc' # "resume" => ~keep_running /\ pc # "resume"
      PROVE  CountInv'
  BY <1>1, <1>2, CountFrame
<1>3. ASSUME NEW c \in Client, ClientCall(c) \/ ClientStep(c)
      PROVE  CountInv'
  BY <1>1, <1>2, <1>3, ClientControl DEF fileVars, controlVars
<1>4. CASE Fopen
  <2>1. CASE dir' = dir \cup {name} /\ pc' = "resume" /\ UNCHANGED failures
    <3>1. Cardinality(dir') <= Cardinality(dir) + 1 /\ Cardinality(dir') \in Nat
      BY <2>1, <1>1, DirFinite, FS_AddElement
    <3>2. Cardinality(dir) <= MaxFiles + restarts + failures
      BY <1>1, <1>4 DEF Fopen, ControlInv, CountInv, FilesBounded
    <3>3. UNCHANGED restarts
      BY <1>4 DEF Fopen, mainFrame
    <3>4. QED
      BY <1>1, <2>1, <3>1, <3>2, <3>3 DEF CountInv, FilesBounded
  <2>2. CASE Fails /\ UNCHANGED fileVars
    <3>1. IF due = 0 THEN pc' = "exit" ELSE pc' = "loop"
      BY <1>4, <2>2, <1>1 DEF Fopen, Fails
    <3>2. QED
      BY <1>1, <1>2, <1>4, <2>2, <3>1 DEF Fopen, Fails, fileVars, mainFrame
  <2>3. QED
    BY <1>4, <2>1, <2>2 DEF Fopen
<1>5. CASE Open \/ Stamp \/ Resume \/ Arm \/ Loop \/ Read
  BY <1>1, <1>2, <1>5
     DEF Open, Stamp, Resume, Arm, Fails, Loop, Read,
         fileVars, mainFrame, ControlInv
<1>6. CASE Close \/ Write
  <2>1. failures <= failures'
    BY <1>6, CloseOutcome, WriteOutcome
  <2>2. QED
    BY <1>2, <1>6, <2>1 DEF Close, Write, mainFrame, ControlInv
<1>7. CASE Alarm
  <2>1. UNCHANGED restarts
    BY <1>7 DEF Alarm, mainFrame
  <2>2. CASE Fails /\ Died /\ pc' = "exit"
    BY <1>1, <1>2, <2>1, <2>2 DEF Fails, Died
  <2>3. CASE ManageFiles /\ due' = clock + Period
    <3>1. due' # 0
      <4>1. clock \in Nat /\ clock > 0 /\ Period \in Nat
        BY LogAssumption, Times DEF TypeOK
      <4>2. QED
        BY <2>3, <4>1
    <3>2. CASE Cardinality(dir') <= MaxFiles + (failures' - failures)
      BY <1>1, <2>1, <2>3, <3>1, <3>2, AlarmCount DEF CountInv, FilesBounded
    <3>3. CASE dir' = dir /\ failures' = failures + 1
      <4>1. Cardinality(dir') = Cardinality(dir)
        BY <3>3
      <4>2. QED
        BY <1>1, <2>1, <3>1, <3>3, <4>1 DEF CountInv, FilesBounded
    <3>4. QED
      BY <2>3, <3>2, <3>3, AlarmCount
  <2>4. QED
    BY <1>7, <2>2, <2>3 DEF Alarm
<1>8. CASE Second
  BY <1>1, <1>2, <1>8 DEF Second, fileVars
<1>9. CASE Restart
  BY <1>1, <1>9, CountFrame DEF Restart, Died
<1>10. CASE UNCHANGED vars
  BY <1>1, <1>2, <1>10 DEF vars, fileVars
<1>11. QED
  BY <1>3, <1>4, <1>5, <1>6, <1>7, <1>8, <1>9, <1>10 DEF Next, MainStep

\* The directory holds at most MAX_FILES + 1 files, one more for each restart
\* and each failed call, and from an alarm to the next fopen at most MAX_FILES,
\* as long as no call has failed (log_server.cpp:91-223, 276-278, 416-431).
THEOREM FilesBoundedHolds == Spec => []FilesBounded
<1>1. Init => CountInv
  BY LogAssumption, FS_EmptySet DEF Init, CountInv, FilesBounded
<1>2. CountInv /\ ControlOK /\ ControlOK' /\ [Next]_vars => CountInv'
  BY CountStep
<1>3. CountInv => FilesBounded
  BY DEF CountInv
<1>4. QED
  BY <1>1, <1>2, <1>3, Control, PTL DEF Spec

-----------------------------------------------------------------------------
(* The file being written *)

\* Files follow one another: none is written after the second its successor
\* is named by, and the open one is the last.
TimesInv ==
    /\ name <= clock
    /\ \A f \in dir : f <= mtime[f] /\ mtime[f] <= clock
    /\ \A f, g \in dir : f < g => mtime[f] <= g
    /\ pc = "fopen" => \A f \in dir : mtime[f] <= name
    /\ current_fp # NoFile => current_fp \in dir /\ \A f \in dir : f <= current_fp

\* Of three files the last one is newer than the first, so it is not among the
\* oldest when two are kept.
LEMMA CurrentNotOldest ==
    ASSUME TypeOK, TimesInv, current_fp # NoFile, MaxFiles >= 2,
           NEW old \in SUBSET dir, Oldest(old)
    PROVE  current_fp \notin old
<1> SUFFICES ASSUME current_fp \in old PROVE FALSE
  OBVIOUS
<1>1. /\ IsFiniteSet(dir) /\ IsFiniteSet(dir \ old) /\ Cardinality(dir) \in Nat
      /\ Cardinality(old) \in Nat /\ Cardinality(dir \ old) \in Nat
  BY DirFinite
<1>2. Cardinality(dir) > MaxFiles
  BY <1>1, LogAssumption DEF Oldest
<1>3. Cardinality(dir \ old) = MaxFiles
  <2>1. Cardinality(dir \ old) = Cardinality(dir) - Cardinality(old)
    BY <1>1, CardinalityOfRest
  <2>2. QED
    BY <1>1, <1>2, <2>1, LogAssumption DEF Oldest
<1>4. PICK f \in dir \ old, g \in dir \ old : f < g
  <2>1. dir \ old # {} /\ ~ \E x : dir \ old = {x}
    BY <1>1, <1>3, FS_EmptySet, FS_Singleton, LogAssumption
  <2>2. \A x \in dir : x \in Nat
    BY Times DEF TypeOK
  <2>3. QED
    BY <2>1, <2>2
<1>5. f < g /\ g < current_fp /\ current_fp \in dir
  BY <1>4, Times DEF TimesInv, TypeOK
<1>6. mtime[current_fp] <= mtime[f]
  BY <1>4 DEF Oldest
<1>7. mtime[f] <= g /\ current_fp <= mtime[current_fp]
  BY <1>4, <1>5 DEF TimesInv
<1>8. QED
  BY <1>5, <1>6, <1>7, <1>4, Times DEF TypeOK

\* what TimesInv reads
timesVars == <<clock, name, dir, mtime, current_fp>>

LEMMA TimesFrame ==
    ASSUME TimesInv, UNCHANGED timesVars, pc' = "fopen" => pc = "fopen"
    PROVE  TimesInv'
  BY DEF TimesInv, timesVars

LEMMA FopenTimes ==
    ASSUME ControlOK, TimesInv, Fopen PROVE TimesInv'
<1> USE DEF ControlOK, mainFrame, fileVars
<1>1. CASE /\ dir' = dir \cup {name}
           /\ mtime' = [mtime EXCEPT ![name] = clock]
           /\ current_fp' = name /\ pc' = "resume"
  <2>1. name \in Time /\ clock \in Nat /\ UNCHANGED <<name, clock>>
    BY Times DEF Fopen, TypeOK, ControlInv
  <2>2. \A f \in dir : f <= mtime[f] /\ mtime[f] <= name /\ mtime[f] \in Nat
    BY DEF Fopen, TimesInv, TypeOK
  <2>3. /\ mtime'[name] = clock /\ name <= clock
        /\ \A f \in dir : f # name => mtime'[f] = mtime[f]
    BY <1>1, <2>1 DEF TypeOK, TimesInv
  <2>4. \A f \in dir' : f \in Nat /\ f <= name
    BY <1>1, <2>1, <2>2, Times DEF TypeOK
  <2>5. \A f \in dir' : f <= mtime'[f] /\ mtime'[f] <= clock
    BY <1>1, <2>1, <2>2, <2>3 DEF TimesInv
  <2>6. \A f, g \in dir' : f < g => mtime'[f] <= g
    BY <1>1, <2>1, <2>2, <2>3, <2>4 DEF TimesInv
  <2>7. QED
    BY <1>1, <2>1, <2>3, <2>4, <2>5, <2>6 DEF TimesInv
<1>2. CASE Fails /\ UNCHANGED <<current_fp, fileVars>> /\ pc' \in {"exit", "loop"}
  BY <1>2, TimesFrame DEF Fopen, timesVars
<1>3. QED
  BY <1>1, <1>2 DEF Fopen

\* the open file is written, and perhaps closed
LEMMA TouchedTimes ==
    ASSUME ControlOK, TimesInv, mtime' \in {mtime, Touched}, pc' # "fopen",
           UNCHANGED <<dir, name, clock>>, current_fp' \in {current_fp, NoFile}
    PROVE  TimesInv'
<1> USE DEF ControlOK
<1>1. \A f \in dir : mtime'[f] = mtime[f] \/ (f = current_fp /\ mtime'[f] = clock)
  BY DEF TypeOK, Touched
<1>2. clock \in Nat /\ \A f \in dir : f \in Nat /\ f > 0 /\ mtime[f] \in Nat
  BY Times DEF TypeOK
<1>3. \A f \in dir : f <= clock
  BY <1>2 DEF TimesInv
<1>4. \A f \in dir' : f <= mtime'[f] /\ mtime'[f] <= clock
  BY <1>1, <1>2, <1>3 DEF TimesInv
<1>5. \A f, g \in dir' : f < g => mtime'[f] <= g
  <2> SUFFICES ASSUME NEW f \in dir, NEW g \in dir, f < g PROVE mtime'[f] <= g
    OBVIOUS
  <2>1. CASE mtime'[f] = mtime[f]
    BY <2>1 DEF TimesInv
  <2>2. CASE f = current_fp
    <3>1. g <= f
      BY <1>2, <2>2 DEF TimesInv, NoFile
    <3>2. QED
      BY <1>2, <3>1
  <2>3. QED
    BY <1>1, <2>1, <2>2
<1>6. QED
  BY <1>4, <1>5 DEF TimesInv

LEMMA WriteTimes ==
    ASSUME ControlOK, TimesInv, Close \/ Write PROVE TimesInv'
<1>1. mtime' \in {mtime, Touched}
  BY WriteOutcome, CloseOutcome
<1>2. QED
  BY <1>1, TouchedTimes DEF Close, Write, mainFrame

LEMMA StampTimes ==
    ASSUME ControlOK, TimesInv, Stamp PROVE TimesInv'
<1>1. clock \in Nat /\ current_fp = NoFile
  BY Times DEF Stamp, ControlOK, TypeOK, ControlInv
<1>2. QED
  BY <1>1 DEF Stamp, TimesInv, mainFrame, fileVars

\* the process ends
LEMMA DiedTimes ==
    ASSUME ControlOK, TimesInv, Died, pc' # "fopen", clock' = clock
    PROVE  TimesInv'
<1>1. name' = 0 /\ current_fp' = NoFile /\ UNCHANGED <<dir, mtime>>
  BY DEF Died, NoFile
<1>2. clock \in Nat
  BY Times DEF ControlOK, TypeOK
<1>3. QED
  BY <1>1, <1>2 DEF TimesInv

LEMMA AlarmTimes ==
    ASSUME MaxFiles >= 2, ControlOK, TimesInv, Alarm PROVE TimesInv'
<1> USE DEF ControlOK, mainFrame
<1>1. CASE ManageFiles /\ UNCHANGED <<pc, current_fp, name>>
  <2>1. UNCHANGED <<clock, name, current_fp, pc>>
    BY <1>1 DEF Alarm
  <2>2. CASE UNCHANGED fileVars
    BY <2>1, <2>2, TimesFrame DEF fileVars, timesVars
  <2>3. CASE ~(UNCHANGED fileVars)
    <3>1. PICK old \in SUBSET dir, gone \in SUBSET dir :
              /\ gone \subseteq old /\ Oldest(old)
              /\ dir' = dir \ gone
              /\ mtime' = [t \in Time |-> IF t \in gone THEN 0 ELSE mtime[t]]
      BY <1>1, <2>3, ManageOutcome
    <3>2. \A f \in dir' : f \in dir /\ mtime'[f] = mtime[f]
      BY <3>1 DEF TypeOK
    <3>3. current_fp # NoFile => current_fp \in dir'
      BY <3>1, CurrentNotOldest DEF TimesInv
    <3>4. QED
      BY <2>1, <3>2, <3>3 DEF TimesInv
  <2>4. QED
    BY <2>2, <2>3
<1>2. CASE Died /\ pc' = "exit"
  BY <1>2, DiedTimes DEF Alarm
<1>3. QED
  BY <1>1, <1>2 DEF Alarm

LEMMA TimesStep ==
    ASSUME MaxFiles >= 2, ControlOK, TimesInv, [Next]_vars
    PROVE  TimesInv'
<1> USE DEF timesVars, mainFrame, fileVars
<1>1. ASSUME NEW c \in Client, ClientCall(c) \/ ClientStep(c)
      PROVE  TimesInv'
  BY <1>1, ClientControl, TimesFrame DEF controlVars
<1>2. CASE Open \/ Resume \/ Arm \/ Loop \/ Read
  BY <1>2, TimesFrame DEF Open, Resume, Arm, Loop, Read
<1>4. CASE Stamp \/ Fopen \/ Close \/ Write
  BY <1>4, StampTimes, FopenTimes, WriteTimes
<1>5. CASE Alarm
  BY <1>5, AlarmTimes
<1>6. CASE Second
  <2>1. \A f \in dir : mtime[f] \in Nat
    BY DEF ControlOK, TypeOK
  <2>2. clock \in Nat /\ clock' = clock + 1 /\ name \in Nat
    BY <1>6, Times DEF Second, ControlOK, TypeOK, NoFile
  <2>3. QED
    BY <1>6, <2>1, <2>2 DEF Second, TimesInv
<1>7. CASE Restart
  BY <1>7, DiedTimes DEF Restart
<1>8. CASE UNCHANGED vars
  BY <1>8, TimesFrame DEF vars
<1>9. QED
  BY <1>1, <1>2, <1>4, <1>5, <1>6, <1>7, <1>8 DEF Next, MainStep

\* With MAX_FILES at least 2 the handler never deletes the file that is open:
\* it is among the two newest by modification time, whatever the order of
\* files of the same second (log_server.cpp:81-88, 146-171).
THEOREM CurrentKeptHolds ==
    ASSUME MaxFiles >= 2 PROVE Spec => []CurrentKept
<1>1. Init => TimesInv
  BY DEF Init, TimesInv, NoFile
<1>2. ControlOK /\ TimesInv /\ [Next]_vars => TimesInv'
  BY TimesStep
<1>3. TimesInv => CurrentKept
  BY DEF TimesInv, CurrentKept
<1>4. QED
  BY <1>1, <1>2, <1>3, Control, PTL DEF Spec

\* Files are deleted from the oldest on, if every removal succeeds, except that
\* two files that follow one another may change places: the newer one, when
\* nothing was written to it after the second it was made in, and the older one
\* was last written in that very second (log_server.cpp:80-88, 146-171).  This
\* bounds what OldestGoFirst, violated in general, can go wrong by.
OldestGoFirstUnlessTied ==
    [][failures' = failures =>
          \A f \in dir \ dir', g \in dir' :
              \/ f < g
              \/ /\ g < f /\ \A h \in dir : h <= g \/ h >= f
                 /\ mtime[f] = f /\ mtime[g] = f]_vars

\* a file the handler deletes, and one it keeps
LEMMA DeletedTied ==
    ASSUME ControlOK, TimesInv, Alarm, failures' = failures,
           NEW f \in dir \ dir', NEW g \in dir'
    PROVE  \/ f < g
           \/ /\ g < f /\ \A h \in dir : h <= g \/ h >= f
              /\ mtime[f] = f /\ mtime[g] = f
<1>0. ManageFiles /\ ~Fails
  <2>1. dir' # dir /\ ~Fails
    BY DEF Fails, ControlOK, TypeOK
  <2>2. QED
    BY <2>1 DEF Alarm, Died
<1>1. PICK old \in SUBSET dir, gone \in SUBSET dir :
          /\ gone \subseteq old /\ Oldest(old)
          /\ failures' = failures + Cardinality(old \ gone)
          /\ dir' = dir \ gone
  BY <1>0, ManageOutcome DEF ControlOK
<1>2. gone = old
  <2>1. IsFiniteSet(old \ gone) /\ Cardinality(old \ gone) \in Nat
    BY DirFinite DEF ControlOK
  <2>2. Cardinality(old \ gone) = 0
    BY <1>1, <2>1 DEF ControlOK, TypeOK
  <2>3. old \ gone = {}
    BY <2>1, <2>2, FS_EmptySet
  <2>4. QED
    BY <1>1, <2>3
<1>3. f \in dir /\ f \in old /\ g \in dir /\ g \notin old
  BY <1>1, <1>2
<1>4. mtime[f] <= mtime[g]
  BY <1>1, <1>3 DEF Oldest
<1>5. \A h \in dir : h \in Nat /\ mtime[h] \in Nat /\ h <= mtime[h]
  BY Times DEF ControlOK, TypeOK, TimesInv
<1>6. \A h, k \in dir : h < k => mtime[h] <= k
  BY DEF TimesInv
<1>7. CASE g < f
  <2>1. mtime[f] = f /\ mtime[g] = f
    BY <1>3, <1>4, <1>5, <1>6, <1>7
  <2>2. ASSUME NEW h \in dir, g < h, h < f PROVE FALSE
    <3>1. mtime[g] <= h
      BY <1>3, <1>6, <2>2
    <3>2. QED
      BY <1>3, <1>5, <2>1, <2>2, <3>1
  <2>3. \A h \in dir : h <= g \/ h >= f
    BY <1>3, <1>5, <2>2
  <2>4. QED
    BY <1>7, <2>1, <2>3
<1>8. f # g
  BY <1>3
<1>9. QED
  BY <1>3, <1>5, <1>7, <1>8

\* With MAX_FILES at least 2 the handler deletes the oldest files first, up to
\* neighbours it cannot tell apart.
THEOREM OldestGoFirstUnlessTiedHolds ==
    ASSUME MaxFiles >= 2 PROVE Spec => OldestGoFirstUnlessTied
<1>1. Init => TimesInv
  BY DEF Init, TimesInv, NoFile
<1>2. ControlOK /\ TimesInv /\ [Next]_vars => TimesInv'
  BY TimesStep
<1> DEFINE Tied ==
      failures' = failures =>
          \A f \in dir \ dir', g \in dir' :
              \/ f < g
              \/ /\ g < f /\ \A h \in dir : h <= g \/ h >= f
                 /\ mtime[f] = f /\ mtime[g] = f
<1>3. ControlOK /\ TimesInv /\ [Next]_vars => [Tied]_vars
  <2> SUFFICES ASSUME ControlOK, TimesInv, Next PROVE Tied
    OBVIOUS
  <2>1. CASE Alarm
    BY <2>1, DeletedTied
  <2>2. CASE ~Alarm
    <3>1. dir \subseteq dir'
      BY <2>2 DEF Next, ClientCall, ClientStep, ClientOpen, ClientWrite,
                  ClientClose, MainStep, Open, Close, Stamp, Fopen, Resume, Arm,
                  Loop, Read, Write, Second, Restart, Died, fileVars
    <3>2. QED
      BY <3>1
  <2>3. QED
    BY <2>1, <2>2
<1>4. QED
  BY <1>1, <1>2, <1>3, Control, PTL DEF Spec, OldestGoFirstUnlessTied

-----------------------------------------------------------------------------
(* The order of the messages *)

\* The file that is open, or about to be, is the newest one there is.
NewestInv ==
    /\ name <= clock
    /\ \A f \in dir : f <= clock
    /\ pc = "fopen" => \A f \in dir : f <= name
    /\ current_fp # NoFile => \A f \in dir : f <= current_fp

\* Files, the message read and the FIFO hold an increasing sequence of messages
\* that have been sent.
PipeInv ==
    /\ buffer <= sent
    /\ \A i \in DOMAIN pipe : buffer < pipe[i] /\ pipe[i] <= sent
    /\ \A i, j \in DOMAIN pipe : i < j => pipe[i] < pipe[j]

WrittenInv ==
    \A f \in dir : \A i \in DOMAIN data[f] :
        /\ data[f][i] <= sent
        /\ buffer # NoMessage => data[f][i] < buffer
        /\ \A j \in DOMAIN pipe : data[f][i] < pipe[j]

FlowInv == NewestInv /\ PipeInv /\ WrittenInv /\ FilesInOrder

\* what NewestInv reads
newestVars == <<clock, name, dir, current_fp>>

LEMMA NewestStep ==
    ASSUME ControlOK, NewestInv, [Next]_vars PROVE NewestInv'
<1> USE DEF newestVars, mainFrame, fileVars, controlVars
<1>1. ASSUME UNCHANGED newestVars, pc' = "fopen" => pc = "fopen"
      PROVE  NewestInv'
  BY <1>1 DEF NewestInv
<1>2. ASSUME NEW c \in Client, ClientCall(c) \/ ClientStep(c)
      PROVE  NewestInv'
  BY <1>1, <1>2, ClientControl
<1>3. CASE Open \/ Resume \/ Arm \/ Loop \/ Read \/ Write
  BY <1>1, <1>3 DEF Open, Resume, Arm, Loop, Read, Write
<1>4. CASE Close
  BY <1>4 DEF Close, NewestInv
<1>5. CASE Stamp
  <2>1. clock \in Nat /\ current_fp = NoFile
    BY <1>5, Times DEF Stamp, ControlOK, TypeOK, ControlInv
  <2>2. QED
    BY <1>5, <2>1 DEF Stamp, NewestInv
<1>6. CASE Fopen
  <2>1. name \in Nat /\ pc = "fopen"
    BY <1>6, Times DEF Fopen, ControlOK, TypeOK, NoFile
  <2>2. QED
    BY <1>6, <2>1 DEF Fopen, NewestInv
<1>7. ASSUME Died, pc' # "fopen", clock' = clock
      PROVE  NewestInv'
  <2>1. name' = 0 /\ current_fp' = NoFile /\ dir' = dir /\ clock \in Nat
    BY <1>7, Times DEF Died, NoFile, ControlOK, TypeOK
  <2>2. QED
    BY <1>7, <2>1 DEF NewestInv
<1>8. CASE Alarm
  <2>1. CASE Died /\ pc' = "exit"
    BY <1>7, <1>8, <2>1 DEF Alarm
  <2>2. CASE ManageFiles /\ UNCHANGED <<pc, current_fp, name>>
    <3>1. dir' \subseteq dir
      BY <2>2, ManageOutcome DEF ControlOK
    <3>2. clock' = clock
      BY <1>8 DEF Alarm
    <3>3. QED
      BY <2>2, <3>1, <3>2 DEF NewestInv
  <2>3. QED
    BY <1>8, <2>1, <2>2 DEF Alarm
<1>9. CASE Second
  <2>1. clock' = clock + 1 /\ clock \in Nat /\ name \in Nat
        /\ \A f \in dir : f \in Nat
    BY <1>9, Times DEF Second, ControlOK, TypeOK, NoFile
  <2>2. QED
    BY <1>9, <2>1 DEF Second, NewestInv
<1>10. CASE Restart
  BY <1>7, <1>10 DEF Restart
<1>11. CASE UNCHANGED vars
  BY <1>1, <1>11 DEF vars
<1>12. QED
  BY <1>2, <1>3, <1>4, <1>5, <1>6, <1>8, <1>9, <1>10, <1>11 DEF Next, MainStep

\* Every message of a file is where it was: files lose messages at their ends.
Shortened ==
    \A f \in Time : \A i \in DOMAIN data'[f] :
        i \in DOMAIN data[f] /\ data'[f][i] = data[f][i]

LEMMA DiedShortens ==
    ASSUME TypeOK, Died PROVE Shortened /\ data' \in [Time -> Seq(Nat)]
<1>1. unwritten \in Nat /\ data' = Lost(unwritten)
  BY DEF Died, TypeOK
<1>2. QED
  BY <1>1, LostType DEF Shortened

LEMMA CloseShortens ==
    ASSUME ControlOK, Close PROVE Shortened
<1>1. CASE \E k \in 1..unwritten : data' = Lost(k)
  <2>1. PICK k \in Nat : data' = Lost(k)
    BY <1>1 DEF ControlOK, TypeOK
  <2>2. QED
    BY <2>1, LostType DEF Shortened, ControlOK
<1>2. QED
  BY <1>1, CloseOutcome DEF Shortened

LEMMA AlarmShortens ==
    ASSUME ControlOK, Alarm PROVE Shortened
<1>1. CASE Died
  BY <1>1, DiedShortens DEF ControlOK
<1>2. CASE ManageFiles
  <2>1. CASE data' = data
    BY <2>1 DEF Shortened
  <2>2. CASE data' # data
    <3>1. PICK gone \in SUBSET dir :
              data' = [t \in Time |-> IF t \in gone THEN <<>> ELSE data[t]]
      BY <1>2, <2>2, ManageOutcome DEF ControlOK, fileVars
    <3>2. \A f \in Time : data'[f] = <<>> \/ data'[f] = data[f]
      BY <3>1
    <3>3. QED
      BY <3>2 DEF Shortened
  <2>3. QED
    BY <2>1, <2>2
<1>3. QED
  BY <1>1, <1>2 DEF Alarm

\* a step that removes or shortens files, and may give up the FIFO
LEMMA FlowKept ==
    ASSUME PipeInv, WrittenInv, FilesInOrder, TypeOK,
           UNCHANGED sent, buffer' \in {buffer, NoMessage}, pipe' \in {pipe, <<>>},
           dir' \subseteq dir, Shortened
    PROVE  PipeInv' /\ WrittenInv' /\ FilesInOrder'
<1>1. sent \in Nat /\ \A i \in DOMAIN pipe : pipe[i] \in Nat \ {0}
  BY DEF TypeOK
<1>0. \A f \in dir' : /\ f \in dir
                      /\ \A i \in DOMAIN data'[f] :
                             i \in DOMAIN data[f] /\ data'[f][i] = data[f][i]
  BY DEF TypeOK, Shortened
<1>2. DOMAIN pipe' \subseteq DOMAIN pipe /\ \A i \in DOMAIN pipe' : pipe'[i] = pipe[i]
  OBVIOUS
<1>3. PipeInv'
  BY <1>1, <1>2 DEF PipeInv, NoMessage
<1>4. WrittenInv'
  BY <1>0, <1>2 DEF WrittenInv
<1>5. FilesInOrder'
  BY <1>0 DEF FilesInOrder
<1>6. QED
  BY <1>3, <1>4, <1>5

\* a message enters the FIFO
LEMMA SendFlow ==
    ASSUME PipeInv, WrittenInv, TypeOK,
           pipe' = Append(pipe, sent + 1), sent' = sent + 1,
           UNCHANGED <<buffer, dir, data>>
    PROVE  PipeInv' /\ WrittenInv'
<1>1. /\ sent \in Nat /\ buffer \in Nat /\ Len(pipe) \in Nat
      /\ DOMAIN pipe = 1..Len(pipe)
      /\ \A i \in DOMAIN pipe : pipe[i] \in Nat
  BY DEF TypeOK
<1>2. /\ DOMAIN pipe' = 1..(Len(pipe) + 1) /\ pipe'[Len(pipe) + 1] = sent + 1
      /\ \A i \in DOMAIN pipe : pipe'[i] = pipe[i]
  BY AppendProperties DEF TypeOK
<1>3. \A i \in DOMAIN pipe' : i = Len(pipe) + 1 \/ i \in DOMAIN pipe
  BY <1>1, <1>2
<1>4. PipeInv'
  BY <1>1, <1>2, <1>3 DEF PipeInv
<1>5. ASSUME NEW f \in dir', NEW i \in DOMAIN data'[f]
      PROVE  /\ data'[f][i] <= sent'
             /\ buffer' # NoMessage => data'[f][i] < buffer'
             /\ \A j \in DOMAIN pipe' : data'[f][i] < pipe'[j]
  <2>1. data'[f][i] = data[f][i] /\ data[f][i] \in Nat /\ f \in dir /\ i \in DOMAIN data[f]
    BY <1>5 DEF TypeOK
  <2>2. /\ data[f][i] <= sent /\ (buffer # NoMessage => data[f][i] < buffer)
        /\ \A j \in DOMAIN pipe : data[f][i] < pipe[j]
    BY <2>1 DEF WrittenInv
  <2>3. QED
    BY <1>1, <1>2, <1>3, <2>1, <2>2
<1>6. WrittenInv'
  BY <1>5 DEF WrittenInv
<1>7. QED
  BY <1>4, <1>6

LEMMA ClientFlow ==
    ASSUME TypeOK, FlowInv, NEW c \in Client, ClientCall(c) \/ ClientStep(c)
    PROVE  PipeInv' /\ WrittenInv' /\ FilesInOrder'
<1> USE DEF fileVars, FlowInv
<1>1. UNCHANGED <<buffer, dir, data>>
  BY DEF ClientCall, ClientStep, ClientOpen, ClientWrite, ClientClose
<1>2. \/ pipe' \in {pipe, <<>>} /\ sent' = sent
      \/ pipe' = Append(pipe, sent + 1) /\ sent' = sent + 1
  BY DEF ClientCall, ClientStep, ClientOpen, ClientWrite, ClientClose
<1>3. QED
  BY <1>1, <1>2, FlowKept, SendFlow DEF FilesInOrder, Shortened

\* the message at the head of the FIFO is taken
LEMMA ReadFlow ==
    ASSUME TypeOK, FlowInv, Read
    PROVE  PipeInv' /\ WrittenInv' /\ FilesInOrder'
<1> USE DEF FlowInv, fileVars, mainFrame, clientVars
<1>1. UNCHANGED <<sent, dir, data>>
  BY DEF Read
<1>2. CASE UNCHANGED <<buffer, pipe>>
  BY <1>1, <1>2, FlowKept DEF Shortened
<1>3. CASE pipe # <<>> /\ buffer' = Head(pipe) /\ pipe' = Tail(pipe)
  <2>1. /\ Len(pipe) \in Nat \ {0} /\ DOMAIN pipe = 1..Len(pipe)
        /\ sent \in Nat /\ \A i \in DOMAIN pipe : pipe[i] \in Nat
    BY <1>3 DEF TypeOK
  <2>2. buffer' = pipe[1] /\ 1 \in DOMAIN pipe
    BY <1>3, <2>1
  <2>3. /\ DOMAIN pipe' = 1..(Len(pipe) - 1)
        /\ \A i \in DOMAIN pipe' : pipe'[i] = pipe[i + 1]
    BY <1>3, <2>1 DEF TypeOK
  <2>4. \A i \in DOMAIN pipe' : i \in Nat /\ i + 1 \in DOMAIN pipe /\ i + 1 > 1
    BY <2>1, <2>3
  <2>5. PipeInv'
    BY <1>1, <2>1, <2>2, <2>3, <2>4 DEF PipeInv
  <2>6. WrittenInv'
    BY <1>1, <2>2, <2>3, <2>4 DEF WrittenInv
  <2>7. QED
    BY <1>1, <2>5, <2>6 DEF FilesInOrder
<1>4. QED
  BY <1>2, <1>3 DEF Read

\* the message read is written behind all that is older
LEMMA WriteFlow ==
    ASSUME ControlOK, FlowInv, Write
    PROVE  PipeInv' /\ WrittenInv' /\ FilesInOrder'
<1> USE DEF FlowInv, fileVars, mainFrame, clientVars, ControlOK
<1>1. /\ buffer # NoMessage /\ buffer' = NoMessage /\ buffer \in Nat
      /\ UNCHANGED <<sent, dir, pipe>>
  BY DEF Write, TypeOK
<1>2. CASE data' = data
  BY <1>1, <1>2, FlowKept DEF Shortened
<1>3. CASE current_fp \in dir /\ data' = Printed
  <2>1. /\ current_fp \in Time /\ current_fp # NoFile
        /\ data[current_fp] \in Seq(Nat) /\ Len(data[current_fp]) \in Nat
    BY <1>3, Times DEF TypeOK, NoFile
  <2> DEFINE old == data[current_fp]
             last == Len(old) + 1
  <2>3. /\ data'[current_fp] = Append(old, buffer)
        /\ \A f \in dir : f # current_fp => data'[f] = data[f]
    BY <1>3, PrintedType DEF Write, TypeOK
  <2>4. /\ DOMAIN old = 1..Len(old) /\ DOMAIN Append(old, buffer) = 1..last
        /\ Append(old, buffer)[last] = buffer
        /\ \A i \in DOMAIN old : Append(old, buffer)[i] = old[i]
    BY <1>1, <2>1, AppendProperties
  <2> HIDE DEF old, last
  <2>5. ASSUME NEW f \in dir, NEW i \in DOMAIN data'[f]
        PROVE  \/ f = current_fp /\ i = last /\ data'[f][i] = buffer
               \/ i \in DOMAIN data[f] /\ data'[f][i] = data[f][i]
    <3>1. CASE f # current_fp
      BY <2>3, <2>5, <3>1
    <3>2. CASE f = current_fp
      <4>1. i \in 1..last
        BY <2>3, <2>4, <2>5, <3>2
      <4>2. i = last \/ i \in DOMAIN old
        BY <2>1, <2>4, <4>1 DEF last, old
      <4>3. QED
        BY <2>3, <2>4, <4>2, <3>2 DEF old
    <3>3. QED
      BY <3>1, <3>2
  <2>6. PipeInv'
    BY <1>1 DEF PipeInv, TypeOK, NoMessage
  <2>7. WrittenInv'
    BY <1>1, <2>5 DEF WrittenInv, PipeInv
  <2>8. FilesInOrder'
    <3> SUFFICES ASSUME NEW f \in dir, NEW g \in dir,
                        NEW i \in DOMAIN data'[f], NEW j \in DOMAIN data'[g],
                        f < g \/ (f = g /\ i < j)
                 PROVE  data'[f][i] < data'[g][j]
      BY <1>1 DEF FilesInOrder
    <3>1. CASE g = current_fp /\ j = last /\ data'[g][j] = buffer
      <4>1. ~(f = current_fp /\ i = last)
        BY <2>1, <3>1, Times DEF last
      <4>2. QED
        BY <1>1, <2>5, <3>1, <4>1 DEF WrittenInv
    <3>2. CASE j \in DOMAIN data[g] /\ data'[g][j] = data[g][j]
      <4>1. CASE f = current_fp /\ i = last /\ data'[f][i] = buffer
        <5>1. g <= f /\ f \in Nat /\ g \in Nat
          BY <2>1, <4>1, Times DEF NewestInv, TypeOK
        <5>2. f = g /\ last < j
          BY <4>1, <5>1
        <5>3. j \in 1..Len(old)
          BY <2>4, <3>2, <4>1, <5>2 DEF old
        <5>4. QED
          BY <2>1, <5>2, <5>3 DEF last, old
      <4>2. CASE i \in DOMAIN data[f] /\ data'[f][i] = data[f][i]
        BY <3>2, <4>2 DEF FilesInOrder
      <4>3. QED
        BY <2>5, <4>1, <4>2
    <3>3. QED
      BY <2>5, <3>1, <3>2
  <2>9. QED
    BY <2>6, <2>7, <2>8
<1>4. QED
  BY <1>2, <1>3, WriteOutcome

\* the new file is empty
LEMMA FopenFlow ==
    ASSUME ControlOK, FlowInv, Fopen
    PROVE  PipeInv' /\ WrittenInv' /\ FilesInOrder'
<1> USE DEF FlowInv, fileVars, mainFrame, clientVars, ControlOK
<1>1. UNCHANGED <<sent, buffer>> /\ name \in Time
  BY DEF Fopen, TypeOK, ControlInv
<1>2. CASE /\ dir' = dir \cup {name} /\ UNCHANGED pipe
           /\ data' = [data EXCEPT ![name] = <<>>]
  <2>1. data'[name] = <<>> /\ \A f \in dir : f # name => data'[f] = data[f]
    BY <1>1, <1>2 DEF TypeOK
  <2>2. \A f \in dir' : \A i \in DOMAIN data'[f] :
            f \in dir /\ data'[f] = data[f]
    BY <1>2, <2>1
  <2>3. PipeInv'
    BY <1>1, <1>2 DEF PipeInv
  <2>4. WrittenInv'
    BY <1>1, <1>2, <2>2 DEF WrittenInv
  <2>5. FilesInOrder'
    BY <2>2 DEF FilesInOrder
  <2>6. QED
    BY <2>3, <2>4, <2>5
<1>3. CASE pipe' \in {pipe, <<>>} /\ UNCHANGED fileVars
  BY <1>1, <1>3, FlowKept DEF Shortened
<1>4. QED
  BY <1>2, <1>3 DEF Fopen, Abandoned

LEMMA FlowStep ==
    ASSUME ControlOK, FlowInv, [Next]_vars PROVE FlowInv'
<1>1. NewestInv' /\ TypeOK
  BY NewestStep DEF FlowInv, ControlOK
<1> SUFFICES PipeInv' /\ WrittenInv' /\ FilesInOrder'
  BY <1>1 DEF FlowInv
<1>2. ASSUME NEW c \in Client, ClientCall(c) \/ ClientStep(c)
      PROVE  PipeInv' /\ WrittenInv' /\ FilesInOrder'
  BY <1>1, <1>2, ClientFlow
<1>3. ASSUME UNCHANGED <<sent, dir>>, Shortened, buffer' \in {buffer, NoMessage},
             pipe' \in {pipe, <<>>}
      PROVE  PipeInv' /\ WrittenInv' /\ FilesInOrder'
  BY <1>1, <1>3, FlowKept DEF FlowInv
<1>4. CASE Open \/ Close \/ Stamp \/ Resume \/ Arm \/ Loop
  <2>1. UNCHANGED <<sent, dir, buffer>>
    BY <1>4 DEF Open, Close, Stamp, Resume, Arm, Loop, fileVars, mainFrame, clientVars
  <2>2. pipe' \in {pipe, <<>>}
    BY <1>4 DEF Open, Close, Stamp, Resume, Arm, Loop, Abandoned
  <2>3. Close \/ data' = data
    BY <1>4 DEF Open, Stamp, Resume, Arm, Loop, fileVars
  <2>4. Shortened
    BY <2>3, CloseShortens DEF Shortened
  <2>5. QED
    BY <1>3, <2>1, <2>2, <2>4
<1>5. CASE Read \/ Write \/ Fopen
  <2>1. CASE Read
    BY <1>1, <2>1, ReadFlow
  <2>2. CASE Write
    BY <2>2, WriteFlow
  <2>3. CASE Fopen
    BY <2>3, FopenFlow
  <2>4. QED
    BY <1>5, <2>1, <2>2, <2>3
<1>6. CASE Alarm
  <2>1. dir' \subseteq dir
    <3>1. CASE ManageFiles
      BY <1>1, <3>1, ManageOutcome DEF fileVars
    <3>2. QED
      BY <1>6, <3>1 DEF Alarm, Died
  <2>2. sent' = sent /\ buffer' \in {buffer, NoMessage} /\ pipe' \in {pipe, <<>>}
    BY <1>6 DEF Alarm, Died, Abandoned, mainFrame, clientVars
  <2>3. QED
    BY <1>1, <1>6, <2>1, <2>2, AlarmShortens, FlowKept DEF FlowInv
<1>7. CASE Second \/ Restart \/ UNCHANGED vars
  <2>1. UNCHANGED <<sent, dir>> /\ buffer' \in {buffer, NoMessage}
    BY <1>7 DEF Second, Restart, Died, vars, fileVars, clientVars
  <2>2. pipe' \in {pipe, <<>>}
    BY <1>7 DEF Second, Restart, Died, vars, Abandoned
  <2>3. Restart \/ data' = data
    BY <1>7 DEF Second, vars, fileVars
  <2>4. Shortened
    BY <1>1, <2>3, DiedShortens DEF Restart, Shortened
  <2>5. QED
    BY <1>3, <2>1, <2>2, <2>4
<1>8. QED
  BY <1>2, <1>4, <1>5, <1>6, <1>7 DEF Next, MainStep

\* Files hold messages in the order in which they were sent, from the oldest
\* file to the newest, however alarms, restarts and deletions fall and however
\* few files are kept (log_server.cpp:338-367, 416-426).
THEOREM FilesInOrderHolds == Spec => []FilesInOrder
<1>1. Init => FlowInv
  BY DEF Init, FlowInv, NewestInv, PipeInv, WrittenInv, FilesInOrder, NoFile, NoMessage
<1>2. ControlOK /\ FlowInv /\ [Next]_vars => FlowInv'
  BY FlowStep
<1>3. FlowInv => FilesInOrder
  BY DEF FlowInv
<1>4. QED
  BY <1>1, <1>2, <1>3, Control, PTL DEF Spec

-----------------------------------------------------------------------------
(* What has been written stays *)

\* s is a beginning of t
Begins(s, t) == Len(s) <= Len(t) /\ SubSeq(t, 1, Len(s)) = s

LEMMA BeginsCut ==
    ASSUME NEW s \in Seq(Nat), NEW t \in Seq(Nat), NEW n \in Int, NEW m \in Int,
           n <= Len(s), m <= Len(t), n <= m, \A i \in 1..n : t[i] = s[i]
    PROVE  Begins(SubSeq(s, 1, n), SubSeq(t, 1, m))
<1>1. PICK a \in Seq(Nat) : /\ a = SubSeq(s, 1, n)
                            /\ Len(a) = IF 1 <= n THEN n ELSE 0
                            /\ \A i \in 1..n : a[i] = s[i]
  BY Cut
<1>2. PICK b \in Seq(Nat) : /\ b = SubSeq(t, 1, m)
                            /\ Len(b) = IF 1 <= m THEN m ELSE 0
                            /\ \A i \in 1..m : b[i] = t[i]
  BY Cut
<1>3. Len(a) <= Len(b) /\ Len(a) \in Nat /\ Len(a) \in Int
  BY <1>1, <1>2
<1>4. PICK c \in Seq(Nat) : /\ c = SubSeq(b, 1, Len(a))
                            /\ Len(c) = IF 1 <= Len(a) THEN Len(a) ELSE 0
                            /\ \A i \in 1..Len(a) : c[i] = b[i]
  BY <1>3, Cut
<1>5. Len(c) = Len(a)
  BY <1>3, <1>4
<1>6. ASSUME NEW i \in 1..Len(a) PROVE c[i] = a[i]
  <2>1. i \in 1..n /\ i \in 1..m
    BY <1>1
  <2>2. c[i] = b[i] /\ b[i] = t[i] /\ a[i] = s[i] /\ t[i] = s[i]
    BY <1>1, <1>2, <1>4, <2>1
  <2>3. QED
    BY <2>2
<1>7. c = a
  BY <1>5, <1>6, SeqEqual
<1>8. QED
  BY <1>1, <1>2, <1>3, <1>4, <1>7 DEF Begins

\* how many messages of a file the open stream holds
Held(f) == IF f = current_fp THEN unwritten ELSE 0

LEMMA FlushedBegins ==
    ASSUME TypeOK, TypeOK', NEW f \in Time,
           Len(data[f]) - Held(f) <= Len(data'[f]) - Held(f)',
           \A i \in 1..(Len(data[f]) - Held(f)) : data'[f][i] = data[f][i]
    PROVE  Begins(Flushed(f), Flushed(f)')
<1>1. PICK s \in Seq(Nat) : s = data[f]
  BY DEF TypeOK
<1>2. PICK t \in Seq(Nat) : t = data'[f]
  BY DEF TypeOK
<1>3. PICK h \in Nat : h = Held(f)
  BY DEF TypeOK, Held
<1>4. PICK g \in Nat : g = Held(f)'
  BY DEF TypeOK, Held
<1>5. /\ Len(s) \in Nat /\ Len(t) \in Nat
      /\ Len(s) - h \in Int /\ Len(t) - g \in Int
  OBVIOUS
<1>6. PICK n \in Int : n = Len(s) - h
  BY <1>5
<1>7. PICK m \in Int : m = Len(t) - g
  BY <1>5
<1>8. n <= Len(s) /\ m <= Len(t)
  BY <1>5, <1>6, <1>7
<1>9. n <= m
  BY <1>1, <1>2, <1>3, <1>4, <1>6, <1>7
<1>10. \A i \in 1..n : t[i] = s[i]
  BY <1>1, <1>2, <1>3, <1>6
<1>11. Begins(SubSeq(s, 1, n), SubSeq(t, 1, m))
  BY <1>8, <1>9, <1>10, BeginsCut
<1>12. Flushed(f) = SubSeq(s, 1, n)
  BY <1>1, <1>3, <1>6 DEF Flushed, Held
<1>13. Flushed(f)' = SubSeq(t, 1, m)
  BY <1>2, <1>4, <1>7 DEF Flushed, Held
<1>14. QED
  BY <1>11, <1>12, <1>13

\* nothing new is held back
LEMMA SameBegins ==
    ASSUME TypeOK, TypeOK', NEW f \in Time, data'[f] = data[f],
           Held(f)' <= Held(f)
    PROVE  Begins(Flushed(f), Flushed(f)')
<1>1. Len(data[f]) \in Nat /\ Held(f) \in Nat /\ Held(f)' \in Nat
  BY DEF TypeOK, Held
<1>2. QED
  BY <1>1, FlushedBegins

\* the stream is closed, and may lose what it holds
LEMMA LostBegins ==
    ASSUME ControlOK, ControlOK', NEW f \in Time, NEW k \in Nat, k <= unwritten,
           data' = Lost(k), current_fp' = NoFile
    PROVE  Begins(Flushed(f), Flushed(f)')
<1> USE DEF ControlOK
<1>1. Held(f)' = 0 /\ Held(f) \in Nat /\ unwritten \in Nat
  BY Times DEF Held, NoFile, TypeOK
<1>2. CASE f # current_fp
  <2>1. data'[f] = data[f]
    BY <1>2 DEF Lost
  <2>2. QED
    BY <1>1, <2>1, SameBegins
<1>3. CASE f = current_fp
  <2>1. PICK s \in Seq(Nat) : s = data[f]
    BY DEF TypeOK
  <2>2. Len(s) \in Nat /\ Len(s) - k \in Int
    OBVIOUS
  <2>3. PICK n \in Int : n = Len(s) - k
    BY <2>2
  <2>4. n <= Len(s)
    BY <2>2, <2>3
  <2>5. data'[f] = SubSeq(s, 1, n)
    BY <1>3, <2>1, <2>3 DEF Lost
  <2>6. /\ Len(data'[f]) = IF 1 <= n THEN n ELSE 0
        /\ \A i \in 1..n : data'[f][i] = s[i]
    BY <2>4, <2>5, Cut
  <2>7. Held(f) = unwritten
    BY <1>3 DEF Held
  <2>8. Len(data[f]) - Held(f) <= Len(data'[f]) - Held(f)'
    BY <1>1, <2>1, <2>2, <2>3, <2>6, <2>7
  <2>9. \A i \in 1..(Len(data[f]) - Held(f)) : i \in 1..n
    BY <1>1, <2>1, <2>2, <2>3, <2>7
  <2>10. \A i \in 1..(Len(data[f]) - Held(f)) : data'[f][i] = data[f][i]
    BY <2>1, <2>6, <2>9
  <2>11. QED
    BY <2>8, <2>10, FlushedBegins
<1>4. QED
  BY <1>2, <1>3

LEMMA WriteBegins ==
    ASSUME ControlOK, ControlOK', Write, NEW f \in Time
    PROVE  Begins(Flushed(f), Flushed(f)')
<1> USE DEF ControlOK
<1>1. /\ current_fp' = current_fp /\ unwritten \in Nat /\ unwritten' \in Nat
      /\ data \in [Time -> Seq(Nat)] /\ buffer \in Nat
  BY DEF Write, TypeOK
<1>2. CASE data' = data /\ unwritten' <= unwritten
  BY <1>1, <1>2, SameBegins DEF Held
<1>3. CASE /\ current_fp \in dir /\ data' = Printed
           /\ unwritten' <= unwritten + 1
  <2>1. CASE f # current_fp
    <3>1. data'[f] = data[f] /\ Held(f) = 0 /\ Held(f)' = 0
      BY <1>1, <1>3, <2>1, PrintedType DEF Write, Held
    <3>2. QED
      BY <3>1, SameBegins
  <2>2. CASE f = current_fp
    <3>1. PICK s \in Seq(Nat) : s = data[f]
      BY DEF TypeOK
    <3>2. data'[f] = Append(s, buffer)
      BY <1>3, <2>2, <3>1, PrintedType DEF Write
    <3>3. /\ Len(s) \in Nat /\ Len(data'[f]) = Len(s) + 1
          /\ \A i \in 1..Len(s) : data'[f][i] = s[i]
      BY <1>1, <3>2, AppendProperties
    <3>4. Held(f) = unwritten /\ Held(f)' = unwritten'
      BY <1>1, <2>2 DEF Held
    <3>5. Len(data[f]) - Held(f) <= Len(data'[f]) - Held(f)'
      BY <1>1, <1>3, <3>1, <3>3, <3>4
    <3>6. \A i \in 1..(Len(data[f]) - Held(f)) : i \in 1..Len(s)
      BY <1>1, <3>1, <3>3, <3>4
    <3>7. \A i \in 1..(Len(data[f]) - Held(f)) : data'[f][i] = data[f][i]
      BY <3>1, <3>3, <3>6
    <3>8. QED
      BY <3>5, <3>7, FlushedBegins
  <2>3. QED
    BY <2>1, <2>2
<1>4. QED
  BY <1>1, <1>2, <1>3 DEF Write

\* a file is opened again in the second it was made, or is new
LEMMA FopenBegins ==
    ASSUME ControlOK, ControlOK', TimesInv, Fopen, NEW f \in dir
    PROVE  \/ Begins(Flushed(f), Flushed(f)')
           \/ f = name /\ mtime[f] = f /\ data'[f] = <<>>
<1> USE DEF ControlOK
<1>1. f \in Time /\ name \in Time /\ pc = "fopen" /\ current_fp = NoFile /\ f # NoFile
  BY Times DEF Fopen, TypeOK, ControlInv, NoFile
<1>2. CASE UNCHANGED <<current_fp, fileVars>>
  <2>1. Held(f)' = Held(f) /\ Held(f) \in Nat /\ data'[f] = data[f]
    BY <1>2 DEF Held, fileVars, TypeOK
  <2>2. QED
    BY <1>1, <2>1, SameBegins
<1>3. CASE /\ data' = [data EXCEPT ![name] = <<>>]
           /\ current_fp' = name
  <2>1. CASE f = name
    <3>1. data'[f] = <<>>
      BY <1>1, <1>3, <2>1 DEF TypeOK
    <3>2. f <= mtime[f] /\ mtime[f] <= name /\ mtime[f] \in Nat /\ f \in Nat
      BY <1>1, Times DEF TimesInv, TypeOK
    <3>3. QED
      BY <2>1, <3>1, <3>2
  <2>2. CASE f # name
    <3>1. data'[f] = data[f] /\ Held(f) = 0 /\ Held(f)' = 0
      BY <1>1, <1>3, <2>2 DEF TypeOK, Held
    <3>2. QED
      BY <1>1, <3>1, SameBegins
  <2>3. QED
    BY <2>1, <2>2
<1>4. QED
  BY <1>2, <1>3 DEF Fopen

LEMMA AlarmBegins ==
    ASSUME ControlOK, ControlOK', Alarm, NEW f \in dir \cap dir'
    PROVE  Begins(Flushed(f), Flushed(f)')
<1> USE DEF ControlOK
<1>1. f \in Time /\ Held(f) \in Nat /\ unwritten \in Nat
  BY DEF TypeOK, Held
<1>2. CASE Died
  BY <1>1, <1>2, LostBegins DEF Died
<1>3. CASE ManageFiles /\ UNCHANGED current_fp
  <2>1. CASE UNCHANGED fileVars
    <3>1. data'[f] = data[f] /\ Held(f)' = Held(f)
      BY <1>3, <2>1 DEF fileVars, Held
    <3>2. QED
      BY <1>1, <3>1, SameBegins
  <2>2. CASE ~(UNCHANGED fileVars)
    <3>1. PICK gone \in SUBSET dir :
              /\ dir' = dir \ gone
              /\ data' = [t \in Time |-> IF t \in gone THEN <<>> ELSE data[t]]
              /\ unwritten' = IF current_fp \in gone THEN 0 ELSE unwritten
      BY <1>3, <2>2, ManageOutcome
    <3>2. data'[f] = data[f] /\ Held(f)' = Held(f)
      BY <1>1, <1>3, <3>1 DEF Held
    <3>3. QED
      BY <1>1, <3>2, SameBegins
  <2>3. QED
    BY <2>1, <2>2
<1>4. QED
  BY <1>2, <1>3 DEF Alarm

LEMMA FilesGrowStep ==
    ASSUME ControlOK, ControlOK', TimesInv, [Next]_vars, NEW f \in dir \cap dir'
    PROVE  \/ Begins(Flushed(f), Flushed(f)')
           \/ f = name /\ mtime[f] = f /\ data'[f] = <<>>
<1> USE DEF ControlOK
<1>1. f \in Time /\ Held(f) \in Nat /\ unwritten \in Nat
  BY DEF TypeOK, Held
<1>2. CASE Fopen
  BY <1>2, FopenBegins
<1>3. CASE Write
  BY <1>1, <1>3, WriteBegins
<1>4. CASE Alarm
  BY <1>4, AlarmBegins
<1>5. CASE Restart
  BY <1>1, <1>5, LostBegins DEF Restart, Died
<1>6. CASE Close
  <2>1. current_fp' = NoFile
    BY <1>6 DEF Close
  <2>2. CASE data' = data
    <3>1. Held(f)' = 0
      BY <1>1, <2>1, Times DEF Held, NoFile
    <3>2. QED
      BY <1>1, <2>2, <3>1, SameBegins
  <2>3. CASE \E k \in 1..unwritten : data' = Lost(k)
    <3>1. PICK k \in Nat : k <= unwritten /\ data' = Lost(k)
      BY <1>1, <2>3
    <3>2. QED
      BY <1>1, <2>1, <3>1, LostBegins
  <2>4. QED
    BY <1>6, <2>2, <2>3, CloseOutcome
<1>7. CASE \/ \E c \in Client : ClientCall(c) \/ ClientStep(c)
           \/ Open \/ Stamp \/ Resume \/ Arm \/ Loop \/ Read
           \/ Second \/ UNCHANGED vars
  <2>1. UNCHANGED <<data, current_fp, unwritten>>
    BY <1>7, ClientControl
       DEF Open, Stamp, Resume, Arm, Loop, Read, Second, vars, fileVars, controlVars
  <2>2. Held(f)' = Held(f) /\ data'[f] = data[f]
    BY <2>1 DEF Held
  <2>3. QED
    BY <1>1, <2>2, SameBegins
<1>8. QED
  BY <1>2, <1>3, <1>4, <1>5, <1>6, <1>7 DEF Next, MainStep

\* What has been written to a file stays in it while it is in the directory,
\* through rotations, failed calls and restarts, unless the file is opened again
\* in the second in which it was made and last written.  It needs room for two
\* files, so that files follow one another (log_server.cpp:321-367).
THEOREM FilesOnlyGrowHolds ==
    ASSUME MaxFiles >= 2
    PROVE  Spec => FilesOnlyGrow
<1>1. Init => TimesInv
  BY DEF Init, TimesInv, NoFile
<1>2. ControlOK /\ TimesInv /\ [Next]_vars => TimesInv'
  BY TimesStep
<1>3. ControlOK /\ ControlOK' /\ TimesInv /\ [Next]_vars =>
          [\A f \in dir \cap dir' :
               \/ /\ Len(Flushed(f)) <= Len(Flushed(f)')
                  /\ SubSeq(Flushed(f)', 1, Len(Flushed(f))) = Flushed(f)
               \/ f = name /\ mtime[f] = f /\ data'[f] = <<>>]_vars
  BY FilesGrowStep DEF Begins
<1>4. QED
  BY <1>1, <1>2, <1>3, Control, PTL DEF Spec, FilesOnlyGrow

-----------------------------------------------------------------------------
(* The files one after the other *)

\* A set of natural numbers has a smallest element.
LEMMA SmallestOf ==
    ASSUME NEW T \in SUBSET Nat, T # {}
    PROVE  \E k \in T : \A j \in T : k <= j
<1>1. PICK k \in T : \A j \in T : <<j, k>> \notin OpToRel(<, Nat)
  BY NatLessThanWellFounded, WFMin
<1>2. \A j \in T : ~(j < k)
  BY <1>1 DEF OpToRel
<1>3. QED
  BY <1>2

\* Induction up to n, on a set.
LEMMA UpTo ==
    ASSUME NEW n \in Nat, NEW S, 0 \in S,
           \A k \in 1..n : k - 1 \in S => k \in S
    PROVE  \A k \in 0..n : k \in S
<1> DEFINE T == {k \in 0..n : k \notin S}
<1>1. SUFFICES ASSUME T # {} PROVE FALSE
  OBVIOUS
<1>2. T \in SUBSET Nat
  OBVIOUS
<1>3. PICK k \in T : \A j \in T : k <= j
  <2> HIDE DEF T
  <2>1. QED
    BY <1>1, <1>2, SmallestOf
<1>4. k \in 1..n /\ k - 1 \in 0..n /\ k - 1 \notin T
  BY <1>3
<1>5. QED
  BY <1>3, <1>4

\* The recursion that defines Joined has a solution.
LEMMA JoinedExists ==
    ASSUME NEW d
    PROVE  \E J : J = [t \in 0..MaxTime |-> IF t = 0 THEN <<>> ELSE J[t - 1] \o d[t]]
<1> DEFINE Solves(J, n) == J = [t \in 0..n |-> IF t = 0 THEN <<>> ELSE J[t - 1] \o d[t]]
           S == {n \in 0..MaxTime : \E J : Solves(J, n)}
<1>1. MaxTime \in Nat
  BY LogAssumption
<1>2. 0 \in S
  <2>1. Solves([t \in 0..0 |-> <<>>], 0)
    OBVIOUS
  <2> HIDE DEF Solves
  <2>2. QED
    BY <1>1, <2>1
<1>3. ASSUME NEW n \in 1..MaxTime, n - 1 \in S
      PROVE  n \in S
  <2>1. PICK J : Solves(J, n - 1)
    BY <1>3
  <2> DEFINE K == [t \in 0..n |-> IF t = n THEN J[n - 1] \o d[n] ELSE J[t]]
  <2>2. \A t \in 0..(n - 1) : J[t] = IF t = 0 THEN <<>> ELSE J[t - 1] \o d[t]
    BY <2>1
  <2>3. \A t \in 0..n : K[t] = IF t = 0 THEN <<>> ELSE K[t - 1] \o d[t]
    BY <2>2
  <2>4. Solves(K, n)
    <3>1. K = [t \in 0..n |-> K[t]]
      OBVIOUS
    <3> HIDE DEF K
    <3>2. QED
      BY <2>3, <3>1
  <2> HIDE DEF Solves, K
  <2>5. n \in 0..MaxTime
    BY <1>1
  <2>6. QED
    BY <2>4, <2>5
<1>4. MaxTime \in S
  <2> HIDE DEF S
  <2>1. \A n \in 0..MaxTime : n \in S
    BY <1>1, <1>2, <1>3, UpTo
  <2>2. QED
    BY <1>1, <2>1
<1>5. QED
  BY <1>4

\* What Joined is, file by file.
LEMMA JoinedStep ==
    ASSUME NEW d
    PROVE  /\ Joined(d)[0] = <<>>
           /\ \A t \in Time : Joined(d)[t] = Joined(d)[t - 1] \o d[t]
<1>1. Joined(d) = [t \in 0..MaxTime |->
                      IF t = 0 THEN <<>> ELSE Joined(d)[t - 1] \o d[t]]
  BY JoinedExists DEF Joined
<1>2. MaxTime \in Nat
  BY LogAssumption
<1>3. QED
  BY <1>1, <1>2 DEF Time

\* What the files hold.
Files == [Time -> Seq(Nat)]

\* A sequence and another behind it.
LEMMA ConcatElements ==
    ASSUME NEW s \in Seq(Nat), NEW u \in Seq(Nat)
    PROVE  /\ s \o u \in Seq(Nat) /\ Len(s \o u) = Len(s) + Len(u)
           /\ Len(s) \in Nat /\ Len(u) \in Nat
           /\ \A i \in 1..Len(s) : (s \o u)[i] = s[i]
           /\ \A i \in 1..Len(u) : (s \o u)[Len(s) + i] = u[i]
  OBVIOUS

LEMMA JoinedType ==
    ASSUME NEW d \in Files
    PROVE  \A t \in 0..MaxTime : Joined(d)[t] \in Seq(Nat)
<1> DEFINE S == {t \in 0..MaxTime : Joined(d)[t] \in Seq(Nat)}
<1>1. MaxTime \in Nat
  BY LogAssumption
<1>2. 0 \in S
  <2>1. Joined(d)[0] = <<>>
    BY JoinedStep
  <2>2. Joined(d)[0] \in Seq(Nat)
    BY <2>1, EmptySeq
  <2>3. 0 \in 0..MaxTime
    BY <1>1
  <2>4. QED
    BY <2>2, <2>3
<1>3. ASSUME NEW t \in 1..MaxTime, t - 1 \in S
      PROVE  t \in S
  <2>1. d[t] \in Seq(Nat) /\ Joined(d)[t] = Joined(d)[t - 1] \o d[t]
    BY JoinedStep DEF Files, Time
  <2>2. Joined(d)[t] \in Seq(Nat)
    BY <1>3, <2>1, ConcatElements
  <2>3. QED
    BY <2>2
<1>4. \A t \in 0..MaxTime : t \in S
  <2> HIDE DEF S
  <2>1. QED
    BY <1>1, <1>2, <1>3, UpTo
<1>5. QED
  BY <1>4

\* The last file is behind all others.
LEMMA JoinedElements ==
    ASSUME NEW d \in Files, NEW t \in Time
    PROVE  /\ Joined(d)[t] \in Seq(Nat) /\ Joined(d)[t - 1] \in Seq(Nat)
           /\ Len(Joined(d)[t]) = Len(Joined(d)[t - 1]) + Len(d[t])
           /\ \A i \in 1..Len(Joined(d)[t - 1]) :
                  Joined(d)[t][i] = Joined(d)[t - 1][i]
           /\ \A i \in 1..Len(d[t]) :
                  Joined(d)[t][Len(Joined(d)[t - 1]) + i] = d[t][i]
<1>1. t \in 1..MaxTime /\ t - 1 \in 0..MaxTime /\ t \in 0..MaxTime
  BY LogAssumption DEF Time
<1>2. /\ Joined(d)[t] \in Seq(Nat) /\ Joined(d)[t - 1] \in Seq(Nat)
      /\ d[t] \in Seq(Nat)
  BY <1>1, JoinedType DEF Files
<1>3. Joined(d)[t] = Joined(d)[t - 1] \o d[t]
  BY JoinedStep
<1>4. PICK s \in Seq(Nat), u \in Seq(Nat) : s = Joined(d)[t - 1] /\ u = d[t]
  BY <1>2
<1>5. /\ Len(s \o u) = Len(s) + Len(u)
      /\ \A i \in 1..Len(s) : (s \o u)[i] = s[i]
      /\ \A i \in 1..Len(u) : (s \o u)[Len(s) + i] = u[i]
  BY ConcatElements
<1>6. QED
  BY <1>2, <1>3, <1>4, <1>5

\* What is in the files up to t is in one of them, and the other way round.
LEMMA JoinedMessages ==
    ASSUME NEW d \in Files
    PROVE  \A t \in 0..MaxTime :
               /\ \A i \in DOMAIN Joined(d)[t] : \E f \in 1..t : \E j \in DOMAIN d[f] :
                      Joined(d)[t][i] = d[f][j]
               /\ \A f \in 1..t : \A j \in DOMAIN d[f] : \E i \in DOMAIN Joined(d)[t] :
                      Joined(d)[t][i] = d[f][j]
<1> DEFINE Taken(t) == \A i \in DOMAIN Joined(d)[t] : \E f \in 1..t :
                           \E j \in DOMAIN d[f] : Joined(d)[t][i] = d[f][j]
           Given(t) == \A f \in 1..t : \A j \in DOMAIN d[f] :
                           \E i \in DOMAIN Joined(d)[t] : Joined(d)[t][i] = d[f][j]
           S == {t \in 0..MaxTime : Taken(t) /\ Given(t)}
<1>1. MaxTime \in Nat
  BY LogAssumption
<1>2. 0 \in S
  <2>1. Joined(d)[0] = <<>>
    BY JoinedStep
  <2>2. Taken(0) /\ Given(0)
    BY <2>1
  <2>3. QED
    BY <1>1, <2>2
<1>3. ASSUME NEW t \in 1..MaxTime, t - 1 \in S
      PROVE  t \in S
  <2> DEFINE s == Joined(d)[t - 1]
             r == Joined(d)[t]
  <2>1. /\ r \in Seq(Nat) /\ s \in Seq(Nat) /\ d[t] \in Seq(Nat)
        /\ Len(r) = Len(s) + Len(d[t])
        /\ \A i \in 1..Len(s) : r[i] = s[i]
        /\ \A i \in 1..Len(d[t]) : r[Len(s) + i] = d[t][i]
    BY JoinedElements DEF Time, Files
  <2>2. /\ DOMAIN r = 1..Len(r) /\ DOMAIN s = 1..Len(s)
        /\ DOMAIN d[t] = 1..Len(d[t])
        /\ Len(s) \in Nat /\ Len(d[t]) \in Nat
    BY <2>1, SeqDomain
  <2>3. /\ \A i \in DOMAIN s : \E f \in 1..(t - 1) : \E j \in DOMAIN d[f] : s[i] = d[f][j]
        /\ \A f \in 1..(t - 1) : \A j \in DOMAIN d[f] : \E i \in DOMAIN s : s[i] = d[f][j]
    BY <1>3
  <2> HIDE DEF s, r
  <2>4. ASSUME NEW i \in DOMAIN r
        PROVE  \E f \in 1..t : \E j \in DOMAIN d[f] : r[i] = d[f][j]
    <3>1. CASE i \in DOMAIN s
      <4>1. PICK f \in 1..(t - 1) : \E j \in DOMAIN d[f] : s[i] = d[f][j]
        BY <2>3, <3>1
      <4>2. r[i] = s[i] /\ f \in 1..t
        BY <2>1, <2>2, <3>1
      <4>3. QED
        BY <4>1, <4>2
    <3>2. CASE i \notin DOMAIN s
      <4>1. i - Len(s) \in 1..Len(d[t]) /\ i = Len(s) + (i - Len(s))
        BY <2>1, <2>2, <3>2
      <4>2. r[i] = d[t][i - Len(s)] /\ t \in 1..t
        BY SMTT(30), <2>1, <4>1
      <4>3. QED
        BY <2>2, <4>1, <4>2
    <3>3. QED
      BY <3>1, <3>2
  <2>5. ASSUME NEW f \in 1..t, NEW j \in DOMAIN d[f]
        PROVE  \E i \in DOMAIN r : r[i] = d[f][j]
    <3>1. CASE f \in 1..(t - 1)
      <4>1. PICK i \in DOMAIN s : s[i] = d[f][j]
        BY <2>3, <3>1
      <4>2. i \in DOMAIN r /\ r[i] = s[i]
        BY <2>1, <2>2
      <4>3. QED
        BY <4>1, <4>2
    <3>2. CASE f = t
      <4>1. j \in 1..Len(d[t])
        BY <2>2, <3>2
      <4>2. Len(s) + j \in DOMAIN r
        BY SMTT(30), <2>1, <2>2, <4>1
      <4>3. r[Len(s) + j] = d[t][j]
        BY <2>1, <4>1
      <4>4. QED
        BY <3>2, <4>2, <4>3
    <3>3. QED
      BY <3>1, <3>2
  <2>6. Taken(t) /\ Given(t) /\ t \in 0..MaxTime
    BY <2>4, <2>5 DEF r
  <2>7. QED
    BY <2>6
<1>4. \A t \in 0..MaxTime : t \in S
  <2> HIDE DEF S
  <2>1. QED
    BY <1>1, <1>2, <1>3, UpTo
<1>5. QED
  BY <1>4

\* A sequence in which every message is behind the smaller ones.
Ascending(s) == \A i, j \in DOMAIN s : i < j => s[i] < s[j]

\* Files that are in order, one by one and each in itself.
Ordered(d) ==
    \A f, g \in Time : \A i \in DOMAIN d[f], j \in DOMAIN d[g] :
        f < g \/ (f = g /\ i < j) => d[f][i] < d[g][j]

LEMMA JoinedAscending ==
    ASSUME NEW d \in Files, Ordered(d)
    PROVE  \A t \in 0..MaxTime : Ascending(Joined(d)[t])
<1> DEFINE S == {t \in 0..MaxTime : Ascending(Joined(d)[t])}
<1>1. MaxTime \in Nat
  BY LogAssumption
<1>2. 0 \in S
  <2>1. Joined(d)[0] = <<>>
    BY JoinedStep
  <2>2. Ascending(Joined(d)[0])
    BY <2>1 DEF Ascending
  <2>3. QED
    BY <1>1, <2>2
<1>3. ASSUME NEW t \in 1..MaxTime, t - 1 \in S
      PROVE  t \in S
  <2> DEFINE s == Joined(d)[t - 1]
             r == Joined(d)[t]
  <2>1. /\ r \in Seq(Nat) /\ s \in Seq(Nat) /\ d[t] \in Seq(Nat)
        /\ Len(r) = Len(s) + Len(d[t])
        /\ \A i \in 1..Len(s) : r[i] = s[i]
        /\ \A i \in 1..Len(d[t]) : r[Len(s) + i] = d[t][i]
    BY JoinedElements DEF Time, Files
  <2>2. /\ DOMAIN r = 1..Len(r) /\ DOMAIN s = 1..Len(s)
        /\ DOMAIN d[t] = 1..Len(d[t])
        /\ Len(s) \in Nat /\ Len(d[t]) \in Nat
    BY <2>1, SeqDomain
  <2>3. Ascending(s)
    BY <1>3
  <2>4. \A i \in DOMAIN s : \E f \in 1..(t - 1) : \E j \in DOMAIN d[f] : s[i] = d[f][j]
    BY <1>3, JoinedMessages
  <2> HIDE DEF s, r
  <2>5. ASSUME NEW i \in DOMAIN s, NEW j \in DOMAIN d[t]
        PROVE  s[i] < d[t][j]
    <3>1. PICK f \in 1..(t - 1) : \E k \in DOMAIN d[f] : s[i] = d[f][k]
      BY <2>4
    <3>2. f \in Time /\ t \in Time /\ f < t
      BY <1>1 DEF Time
    <3>3. QED
      BY <3>1, <3>2 DEF Ordered
  <2>6. \A i, j \in DOMAIN d[t] : i < j => d[t][i] < d[t][j]
    BY DEF Ordered, Time
  <2>7. ASSUME NEW i \in DOMAIN r, NEW j \in DOMAIN r, i < j
        PROVE  r[i] < r[j]
    <3>1. \A k \in DOMAIN r : k \notin DOMAIN s =>
              k - Len(s) \in DOMAIN d[t] /\ r[k] = d[t][k - Len(s)]
      <4>1. \A k \in DOMAIN r : k \notin DOMAIN s =>
                k - Len(s) \in 1..Len(d[t]) /\ k = Len(s) + (k - Len(s))
        BY <2>1, <2>2
      <4>2. QED
        BY <2>1, <2>2, <4>1
    <3>2. CASE j \in DOMAIN s
      <4>1. i \in DOMAIN s /\ r[i] = s[i] /\ r[j] = s[j]
        BY <2>1, <2>2, <2>7, <3>2
      <4>2. QED
        BY <2>3, <2>7, <3>2, <4>1 DEF Ascending
    <3>3. CASE j \notin DOMAIN s /\ i \in DOMAIN s
      <4>1. r[i] = s[i] /\ r[j] = d[t][j - Len(s)] /\ j - Len(s) \in DOMAIN d[t]
        BY <2>1, <2>2, <3>1, <3>3
      <4>2. QED
        BY <2>5, <3>3, <4>1
    <3>4. CASE j \notin DOMAIN s /\ i \notin DOMAIN s
      <4>1. i - Len(s) < j - Len(s)
        BY <2>2, <2>7
      <4>2. QED
        BY <2>6, <3>1, <3>4, <4>1
    <3>5. QED
      BY <3>2, <3>3, <3>4
  <2>8. Ascending(r)
    BY <2>7 DEF Ascending
  <2>9. t \in 0..MaxTime
    OBVIOUS
  <2>10. QED
    BY <2>8, <2>9 DEF r
<1>4. \A t \in 0..MaxTime : t \in S
  <2> HIDE DEF S
  <2>1. QED
    BY <1>1, <1>2, <1>3, UpTo
<1>5. QED
  BY <1>4

\* A message put into a file that only empty ones follow comes last.
LEMMA JoinedAppend ==
    ASSUME NEW d \in Files, NEW e \in Files, NEW c \in Time, NEW m \in Nat,
           \A f \in Time : f > c => d[f] = <<>>,
           e[c] = Append(d[c], m), \A f \in Time : f # c => e[f] = d[f]
    PROVE  Joined(e)[MaxTime] = Append(Joined(d)[MaxTime], m)
<1> DEFINE Same(t) == t < c => Joined(e)[t] = Joined(d)[t]
           More(t) == t >= c => Joined(e)[t] = Append(Joined(d)[t], m)
           S == {t \in 0..MaxTime : Same(t) /\ More(t)}
<1>1. MaxTime \in Nat /\ c \in 1..MaxTime
  BY LogAssumption DEF Time
<1>2. 0 \in S
  <2>1. Joined(e)[0] = <<>> /\ Joined(d)[0] = <<>>
    BY JoinedStep
  <2>2. QED
    BY <1>1, <2>1
<1>3. ASSUME NEW t \in 1..MaxTime, t - 1 \in S
      PROVE  t \in S
  <2>1. /\ Joined(e)[t] = Joined(e)[t - 1] \o e[t]
        /\ Joined(d)[t] = Joined(d)[t - 1] \o d[t]
    BY JoinedStep DEF Time
  <2>2. Joined(d)[t - 1] \in Seq(Nat) /\ d[t] \in Seq(Nat)
    <3>1. t - 1 \in 0..MaxTime
      BY <1>1
    <3>2. QED
      BY <3>1, JoinedType DEF Files, Time
  <2>3. t \in Time /\ t \in 0..MaxTime /\ c \in Nat
    BY <1>1 DEF Time
  <2> DEFINE s == Joined(d)[t - 1]
             r == Joined(e)[t - 1]
             u == d[t]
  <2>4. (t - 1 < c => r = s) /\ (t - 1 >= c => r = Append(s, m))
    BY <1>3
  <2> HIDE DEF s, r, u
  <2>5. s \in Seq(Nat) /\ u \in Seq(Nat)
    BY <2>2 DEF s, u
  <2>6. CASE t < c
    <3>1. r = s /\ e[t] = d[t]
      BY <2>3, <2>4, <2>6
    <3>2. Joined(e)[t] = Joined(d)[t]
      BY <2>1, <3>1 DEF s, r
    <3>3. Same(t) /\ More(t)
      BY <1>1, <2>6, <3>2
    <3>4. QED
      BY <2>3, <3>3
  <2>7. CASE t = c
    <3>1. s \o Append(u, m) = Append(s \o u, m)
      BY SMTT(30), <2>5
    <3>2. r = s /\ e[t] = Append(u, m)
      BY <1>1, <2>4, <2>7 DEF u
    <3>3. Joined(e)[t] = Append(Joined(d)[t], m)
      BY <2>1, <3>1, <3>2 DEF s, r, u
    <3>4. Same(t) /\ More(t)
      BY <1>1, <2>7, <3>3
    <3>5. QED
      BY <2>3, <3>4
  <2>8. CASE t > c
    <3>1. u = <<>> /\ e[t] = <<>> /\ r = Append(s, m)
      BY <2>3, <2>4, <2>8 DEF u
    <3>2. s \o <<>> = s /\ Append(s, m) \o <<>> = Append(s, m)
      <4>1. Append(s, m) \in Seq(Nat)
        BY <2>5, AppendProperties
      <4>2. QED
        BY <2>5, <4>1, ConcatEmptySeq
    <3>3. Joined(e)[t] = Append(Joined(d)[t], m)
      BY <2>1, <3>1, <3>2 DEF s, r, u
    <3>4. Same(t) /\ More(t)
      BY <1>1, <2>8, <3>3
    <3>5. QED
      BY <2>3, <3>4
  <2>9. QED
    BY <2>3, <2>6, <2>7, <2>8
<1>4. MaxTime \in S
  <2> HIDE DEF S
  <2>1. \A t \in 0..MaxTime : t \in S
    BY <1>1, <1>2, <1>3, UpTo
  <2>2. QED
    BY <1>1, <2>1
<1>5. QED
  BY <1>1, <1>4

\* s is what is left of l when some messages are taken out of it.
PartOf(s, l) ==
    \E n \in 0..Len(l) : \E at \in [1..n -> DOMAIN l] :
        /\ \A i, j \in 1..n : i < j => at[i] < at[j]
        /\ s = [i \in 1..n |-> l[at[i]]]

LEMMA AscendingPart ==
    ASSUME NEW s \in Seq(Nat), NEW l \in Seq(Nat), Ascending(s), Ascending(l),
           \A i \in DOMAIN s : \E j \in DOMAIN l : l[j] = s[i]
    PROVE  PartOf(s, l)
<1> DEFINE n == Len(s)
           at == [i \in 1..n |-> CHOOSE j \in DOMAIN l : l[j] = s[i]]
<1>1. /\ n \in Nat /\ DOMAIN s = 1..n /\ Len(l) \in Nat /\ DOMAIN l = 1..Len(l)
      /\ \A i \in 1..n : s[i] \in Nat
      /\ \A j \in 1..Len(l) : l[j] \in Nat
  BY SeqDomain
<1>2. \A i \in 1..n : at[i] \in DOMAIN l /\ l[at[i]] = s[i]
  BY <1>1
<1> HIDE DEF n, at
<1>3. ASSUME NEW i \in 1..n, NEW j \in 1..n, i < j
      PROVE  at[i] < at[j]
  <2>1. /\ s[i] < s[j] /\ s[i] \in Nat /\ s[j] \in Nat
        /\ l[at[i]] = s[i] /\ l[at[j]] = s[j]
        /\ at[i] \in 1..Len(l) /\ at[j] \in 1..Len(l)
    BY <1>1, <1>2, <1>3 DEF Ascending
  <2>2. ~(at[j] < at[i])
    BY <1>1, <2>1 DEF Ascending
  <2>3. at[i] # at[j]
    BY <2>1
  <2>4. QED
    BY <1>1, <2>1, <2>2, <2>3
<1>4. n \in 0..Len(l)
  <2> DEFINE S == {i \in 0..n : i = 0 \/ i <= at[i]}
  <2>1. 0 \in S
    BY <1>1
  <2>2. ASSUME NEW i \in 1..n, i - 1 \in S PROVE i \in S
    <3>1. at[i] \in 1..Len(l)
      BY <1>1, <1>2
    <3>2. CASE i = 1
      BY <1>1, <3>1, <3>2
    <3>3. CASE i # 1
      <4>1. i - 1 \in 1..n /\ i - 1 < i
        BY <1>1, <3>3
      <4>2. at[i - 1] \in 1..Len(l) /\ at[i - 1] < at[i] /\ i - 1 <= at[i - 1]
        BY <1>1, <1>2, <1>3, <2>2, <4>1
      <4>3. QED
        BY <1>1, <3>1, <4>1, <4>2
    <3>4. QED
      BY <3>2, <3>3
  <2>3. \A i \in 0..n : i \in S
    <3> HIDE DEF S
    <3>1. QED
      BY <1>1, <2>1, <2>2, UpTo
  <2>4. n = 0 \/ n <= at[n]
    BY <1>1, <2>3
  <2>5. n = 0 \/ at[n] \in 1..Len(l)
    BY <1>1, <1>2
  <2>6. QED
    BY <1>1, <2>4, <2>5
<1>5. at \in [1..n -> DOMAIN l]
  BY <1>2 DEF at
<1>6. s = [i \in 1..n |-> l[at[i]]]
  <2>1. s = [i \in 1..n |-> s[i]]
    BY <1>1
  <2>2. QED
    BY <1>2, <2>1
<1>7. QED
  BY <1>3, <1>4, <1>5, <1>6 DEF PartOf

\* When files lose messages at their ends, those that are left keep their order.
LEMMA JoinedPart ==
    ASSUME NEW d \in Files, NEW e \in Files, Ordered(d),
           \A t \in Time : \A i \in DOMAIN e[t] : i \in DOMAIN d[t] /\ e[t][i] = d[t][i]
    PROVE  PartOf(Joined(e)[MaxTime], Joined(d)[MaxTime])
<1>1. MaxTime \in 0..MaxTime /\ \A f \in 1..MaxTime : f \in Time
  BY LogAssumption DEF Time
<1>2. Ordered(e)
  BY DEF Ordered
<1>3. /\ Joined(e)[MaxTime] \in Seq(Nat) /\ Joined(d)[MaxTime] \in Seq(Nat)
      /\ Ascending(Joined(e)[MaxTime]) /\ Ascending(Joined(d)[MaxTime])
  BY <1>1, <1>2, JoinedType, JoinedAscending
<1>4. ASSUME NEW i \in DOMAIN Joined(e)[MaxTime]
      PROVE  \E j \in DOMAIN Joined(d)[MaxTime] :
                 Joined(d)[MaxTime][j] = Joined(e)[MaxTime][i]
  <2>1. PICK f \in 1..MaxTime : \E j \in DOMAIN e[f] : Joined(e)[MaxTime][i] = e[f][j]
    BY <1>1, JoinedMessages
  <2>2. PICK j \in DOMAIN e[f] : Joined(e)[MaxTime][i] = e[f][j]
    BY <2>1
  <2>3. j \in DOMAIN d[f] /\ d[f][j] = e[f][j]
    BY <1>1, <2>2
  <2>4. PICK k \in DOMAIN Joined(d)[MaxTime] : Joined(d)[MaxTime][k] = d[f][j]
    BY <1>1, <2>3, JoinedMessages
  <2>5. QED
    BY <2>2, <2>3, <2>4
<1>5. QED
  BY <1>3, <1>4, AscendingPart

-----------------------------------------------------------------------------
(* The log is kept *)

\* The messages that are not yet printed are the last ones sent, one after the
\* other, through crashes and restarts too.
RecordInv ==
    /\ \A t \in Time \ dir : data[t] = <<>>
    /\ Len(pipe) <= sent
    /\ \A i \in DOMAIN pipe : pipe[i] = (sent - Len(pipe)) + i
    /\ buffer # NoMessage => buffer = sent - Len(pipe)

\* A step that sends and reads nothing, and may give up what waits.
LEMMA RecordFrame ==
    ASSUME TypeOK, RecordInv, sent' = sent,
           \/ pipe' = pipe /\ buffer' \in {buffer, NoMessage}
           \/ pipe' = <<>> /\ buffer' = NoMessage,
           \A t \in Time \ dir' : data'[t] = <<>>
    PROVE  RecordInv'
<1>1. sent \in Nat /\ Len(<<>>) = 0
  BY DEF TypeOK
<1>2. CASE pipe' = pipe /\ buffer' \in {buffer, NoMessage}
  BY <1>2 DEF RecordInv
<1>3. CASE pipe' = <<>> /\ buffer' = NoMessage
  <2>1. Len(pipe') <= sent' /\ \A i \in DOMAIN pipe' : pipe'[i] = (sent' - Len(pipe')) + i
    BY <1>1, <1>3
  <2>2. QED
    BY <1>3, <2>1 DEF RecordInv
<1>4. QED
  BY <1>2, <1>3

LEMMA SendRecord ==
    ASSUME TypeOK, RecordInv, pipe' = Append(pipe, sent + 1), sent' = sent + 1,
           buffer' = buffer, dir' = dir, data' = data
    PROVE  RecordInv'
<1>1. /\ sent \in Nat /\ Len(pipe) \in Nat /\ DOMAIN pipe = 1..Len(pipe)
  BY DEF TypeOK
<1>2. /\ Len(pipe') = Len(pipe) + 1 /\ DOMAIN pipe' = 1..(Len(pipe) + 1)
      /\ pipe'[Len(pipe) + 1] = sent + 1
      /\ \A i \in 1..Len(pipe) : pipe'[i] = pipe[i]
  BY AppendProperties DEF TypeOK
<1>3. sent' - Len(pipe') = sent - Len(pipe)
  BY <1>1, <1>2
<1>4. \A i \in DOMAIN pipe' : pipe'[i] = (sent' - Len(pipe')) + i
  <2>1. \A i \in 1..Len(pipe) : pipe[i] = (sent - Len(pipe)) + i
    BY <1>1 DEF RecordInv
  <2>2. \A i \in DOMAIN pipe' : i \in 1..Len(pipe) \/ i = Len(pipe) + 1
    BY <1>1, <1>2
  <2>3. sent + 1 = (sent - Len(pipe)) + (Len(pipe) + 1)
    BY <1>1
  <2>4. QED
    BY <1>2, <1>3, <2>1, <2>2, <2>3
<1>5. Len(pipe') <= sent'
  <2>1. Len(pipe) <= sent
    BY DEF RecordInv
  <2>2. QED
    BY <1>1, <1>2, <2>1
<1>6. QED
  BY <1>3, <1>4, <1>5 DEF RecordInv

LEMMA ClientRecord ==
    ASSUME ControlOK, RecordInv, NEW c \in Client, ClientCall(c) \/ ClientStep(c)
    PROVE  RecordInv'
<1> USE DEF ControlOK, fileVars
<1>1. UNCHANGED <<pc, buffer, dir, data>>
  BY DEF ClientCall, ClientStep, ClientOpen, ClientWrite, ClientClose
<1>2. CASE pipe' = Append(pipe, sent + 1) /\ sent' = sent + 1
  BY <1>1, <1>2, SendRecord
<1>3. CASE sent' = sent /\ (pipe' = pipe \/ (~Serving /\ pipe' = <<>>))
  <2>1. ~Serving => buffer = NoMessage
    BY DEF Serving, TypeOK
  <2>2. \A t \in Time \ dir' : data'[t] = <<>>
    BY <1>1 DEF RecordInv
  <2>3. QED
    BY <1>1, <1>3, <2>1, <2>2, RecordFrame
<1>4. QED
  BY <1>2, <1>3 DEF ClientCall, ClientStep, ClientOpen, ClientWrite, ClientClose

LEMMA ReadRecord ==
    ASSUME ControlOK, RecordInv, Read PROVE RecordInv'
<1> USE DEF ControlOK, fileVars, mainFrame, clientVars
<1>1. UNCHANGED <<dir, data, sent>> /\ buffer = NoMessage
  BY DEF Read, TypeOK
<1>2. CASE UNCHANGED <<buffer, pipe>>
  BY <1>1, <1>2 DEF RecordInv
<1>3. CASE pipe # <<>> /\ buffer' = Head(pipe) /\ pipe' = Tail(pipe)
  <2>1. /\ Len(pipe) \in Nat \ {0} /\ sent \in Nat
        /\ DOMAIN pipe = 1..Len(pipe)
        /\ buffer' = pipe[1] /\ Len(pipe') = Len(pipe) - 1
        /\ DOMAIN pipe' = 1..(Len(pipe) - 1)
        /\ \A i \in 1..(Len(pipe) - 1) : pipe'[i] = pipe[i + 1]
    BY <1>3 DEF TypeOK
  <2>2. \A i \in 1..Len(pipe) : pipe[i] = (sent - Len(pipe)) + i
    BY <1>1, <2>1 DEF RecordInv
  <2>3. sent' - Len(pipe') = (sent - Len(pipe)) + 1
    BY <1>1, <2>1
  <2>4. buffer' = sent' - Len(pipe')
    BY <2>1, <2>2, <2>3
  <2>5. ASSUME NEW i \in DOMAIN pipe'
        PROVE  pipe'[i] = (sent' - Len(pipe')) + i
    <3>1. i \in 1..(Len(pipe) - 1) /\ i + 1 \in 1..Len(pipe)
      BY <2>1
    <3>2. pipe'[i] = (sent - Len(pipe)) + (i + 1)
      BY <2>1, <2>2, <3>1
    <3>3. QED
      BY <2>1, <2>3, <3>1, <3>2
  <2>6. Len(pipe') <= sent'
    <3>1. Len(pipe) <= sent
      BY DEF RecordInv
    <3>2. QED
      BY <1>1, <2>1, <3>1
  <2>7. QED
    BY <1>1, <2>4, <2>5, <2>6 DEF RecordInv
<1>4. QED
  BY <1>2, <1>3 DEF Read

LEMMA WriteRecord ==
    ASSUME ControlOK, RecordInv, Write PROVE RecordInv'
<1> USE DEF ControlOK, fileVars, mainFrame, clientVars
<1>1. UNCHANGED <<dir, sent, pipe>> /\ buffer' = NoMessage
  BY DEF Write
<1>2. CASE data' = data
  BY <1>1, <1>2, RecordFrame DEF RecordInv
<1>3. CASE current_fp \in dir /\ data' = Printed
  <2>1. \A t \in Time \ dir : data'[t] = data[t]
    BY <1>3, PrintedType DEF Write
  <2>2. QED
    BY <1>1, <2>1, RecordFrame DEF RecordInv
<1>4. QED
  BY <1>2, <1>3, WriteOutcome

LEMMA FopenRecord ==
    ASSUME ControlOK, RecordInv, Fopen PROVE RecordInv'
<1> USE DEF ControlOK, fileVars, mainFrame, clientVars
<1>1. UNCHANGED <<sent, buffer>> /\ name \in Time /\ buffer = NoMessage
  BY DEF Fopen, TypeOK, ControlInv
<1>2. CASE /\ dir' = dir \cup {name} /\ data' = [data EXCEPT ![name] = <<>>]
           /\ UNCHANGED pipe
  <2>1. \A t \in Time : data'[t] = IF t = name THEN <<>> ELSE data[t]
    BY <1>1, <1>2 DEF TypeOK
  <2>2. \A t \in Time \ dir' : data'[t] = <<>>
    BY <1>2, <2>1 DEF RecordInv
  <2>3. QED
    BY <1>1, <1>2, <2>2, RecordFrame
<1>3. CASE UNCHANGED fileVars /\ pipe' \in {pipe, <<>>}
  <2>1. \A t \in Time \ dir' : data'[t] = <<>>
    BY <1>3 DEF RecordInv
  <2>2. QED
    BY <1>1, <1>3, <2>1, RecordFrame
<1>4. QED
  BY <1>2, <1>3 DEF Fopen, Abandoned

LEMMA EmptyStays ==
    ASSUME Shortened, NEW t \in Time, data[t] = <<>>, data'[t] \in Seq(Nat)
    PROVE  data'[t] = <<>>
<1>1. PICK s \in Seq(Nat) : s = data'[t]
  OBVIOUS
<1>2. DOMAIN s = 1..Len(s) /\ Len(s) \in Nat
  BY SeqDomain
<1>3. DOMAIN data[t] = {}
  OBVIOUS
<1>4. Len(s) = 0
  BY <1>1, <1>2, <1>3 DEF Shortened
<1>5. QED
  BY <1>1, <1>4

LEMMA DiedRecord ==
    ASSUME ControlOK, RecordInv, Died, sent' = sent PROVE RecordInv'
<1> USE DEF ControlOK
<1>1. ASSUME NEW t \in Time \ dir' PROVE data'[t] = <<>>
  <2>1. data[t] = <<>> /\ data'[t] \in Seq(Nat)
    BY DiedShortens DEF Died, RecordInv
  <2>2. QED
    BY <2>1, DiedShortens, EmptyStays
<1>2. QED
  BY <1>1, RecordFrame DEF Died, Abandoned

LEMMA AlarmRecord ==
    ASSUME ControlOK, RecordInv, Alarm PROVE RecordInv'
<1> USE DEF ControlOK, mainFrame, clientVars
<1>1. sent' = sent
  BY DEF Alarm
<1>2. CASE Died
  BY <1>1, <1>2, DiedRecord
<1>3. CASE ManageFiles /\ UNCHANGED <<buffer, pipe>>
  <2>1. CASE UNCHANGED fileVars
    BY <1>1, <1>3, <2>1 DEF RecordInv, fileVars
  <2>2. CASE ~(UNCHANGED fileVars)
    <3>1. PICK gone \in SUBSET dir :
              /\ dir' = dir \ gone
              /\ data' = [t \in Time |-> IF t \in gone THEN <<>> ELSE data[t]]
      BY <1>3, <2>2, ManageOutcome
    <3>2. \A t \in Time \ dir' : data'[t] = <<>>
      BY <3>1 DEF RecordInv
    <3>3. QED
      BY <1>1, <1>3, <3>2, RecordFrame
  <2>3. QED
    BY <2>1, <2>2
<1>4. QED
  BY <1>2, <1>3 DEF Alarm

LEMMA CloseRecord ==
    ASSUME ControlOK, RecordInv, Close PROVE RecordInv'
<1> USE DEF ControlOK
<1>1. UNCHANGED <<sent, pipe, buffer, dir>> /\ data' \in [Time -> Seq(Nat)]
  BY CloseControl DEF Close, mainFrame, clientVars, TypeOK
<1>2. ASSUME NEW t \in Time \ dir' PROVE data'[t] = <<>>
  <2>1. data[t] = <<>> /\ data'[t] \in Seq(Nat)
    BY <1>1 DEF RecordInv
  <2>2. QED
    BY <2>1, CloseShortens, EmptyStays
<1>3. QED
  BY <1>1, <1>2, RecordFrame

LEMMA RecordStep ==
    ASSUME ControlOK, RecordInv, [Next]_vars
    PROVE  RecordInv'
<1> USE DEF fileVars, mainFrame, clientVars
<1>1. ASSUME NEW c \in Client, ClientCall(c) \/ ClientStep(c)
      PROVE  RecordInv'
  BY <1>1, ClientRecord
<1>2. CASE Open \/ Stamp \/ Resume \/ Loop \/ Second \/ UNCHANGED vars
  <2>1. UNCHANGED <<dir, data, sent, buffer, pipe>>
    BY <1>2 DEF Open, Stamp, Resume, Loop, Second, vars
  <2>2. QED
    BY <2>1 DEF RecordInv
<1>3. CASE Arm
  <2>1. UNCHANGED <<dir, data, sent, buffer>> /\ buffer = NoMessage
    BY <1>3 DEF Arm, ControlOK, TypeOK
  <2>2. pipe' \in {pipe, <<>>}
    BY <1>3 DEF Arm, Abandoned
  <2>3. \A t \in Time \ dir' : data'[t] = <<>>
    BY <2>1 DEF RecordInv
  <2>4. QED
    BY <2>1, <2>2, <2>3, RecordFrame DEF ControlOK
<1>4. CASE Read \/ Write \/ Fopen \/ Alarm \/ Close
  BY <1>4, ReadRecord, WriteRecord, FopenRecord, AlarmRecord, CloseRecord
<1>5. CASE Restart
  BY <1>5, DiedRecord DEF Restart
<1>6. QED
  BY <1>1, <1>2, <1>3, <1>4, <1>5 DEF Next, MainStep

\* Files are in order, those that are not in the directory too: they are empty.
LEMMA FilesOrdered ==
    ASSUME TypeOK, FilesInOrder, RecordInv
    PROVE  data \in Files /\ Ordered(data)
<1>1. \A f \in Time : \A i \in DOMAIN data[f] : f \in dir
  BY DEF RecordInv
<1>2. QED
  BY <1>1 DEF TypeOK, Files, Ordered, FilesInOrder

\* The number of the message the server deals with next goes up when what
\* waits is given up.
LEMMA NextGrows ==
    ASSUME ControlOK, RecordInv, sent' = sent, pipe' \in {pipe, <<>>},
           buffer' \in {buffer, NoMessage}
    PROVE  NextMessage \in Nat /\ NextMessage' \in Nat /\ NextMessage' >= NextMessage
<1>1. sent \in Nat /\ Len(pipe) \in Nat /\ Len(pipe) <= sent /\ Len(<<>>) = 0
  BY DEF ControlOK, TypeOK, RecordInv
<1>2. PICK l \in Nat : l = Len(pipe)
  BY <1>1
<1>3. PICK k \in Nat : k = Len(pipe') /\ k <= l
  BY <1>1, <1>2
<1>4. PICK a \in {0, 1} : a = IF buffer = NoMessage THEN 1 ELSE 0
  OBVIOUS
<1>5. PICK b \in {0, 1} : b = (IF buffer' = NoMessage THEN 1 ELSE 0) /\ b >= a
  BY <1>4
<1>6. NextMessage = sent - l + a /\ NextMessage' = sent - k + b
  BY <1>2, <1>3, <1>4, <1>5 DEF NextMessage
<1>7. QED
  BY <1>1, <1>2, <1>3, <1>5, <1>6

LEMMA SentNext ==
    ASSUME ControlOK, pipe' = Append(pipe, sent + 1), sent' = sent + 1,
           buffer' = buffer
    PROVE  NextMessage' = NextMessage
<1>1. sent \in Nat /\ Len(pipe) \in Nat /\ Len(pipe') = Len(pipe) + 1
  BY AppendProperties DEF ControlOK, TypeOK
<1>2. sent' - Len(pipe') = sent - Len(pipe)
  BY <1>1
<1>3. QED
  BY <1>2 DEF NextMessage

LEMMA ReadNext ==
    ASSUME ControlOK, Read PROVE NextMessage' = NextMessage
<1> USE DEF ControlOK
<1>1. /\ sent \in Nat /\ Len(pipe) \in Nat /\ pipe \in Seq(Nat \ {0})
      /\ sent' = sent /\ buffer = NoMessage
  BY DEF Read, mainFrame, clientVars, TypeOK
<1>2. CASE UNCHANGED <<buffer, pipe>>
  BY <1>1, <1>2 DEF NextMessage
<1>3. CASE pipe # <<>> /\ buffer' = Head(pipe) /\ pipe' = Tail(pipe)
  <2>1. Len(pipe') = Len(pipe) - 1 /\ buffer' # NoMessage
    BY <1>1, <1>3 DEF NoMessage
  <2>2. sent' - Len(pipe') = sent - Len(pipe) + 1
    BY <1>1, <2>1
  <2>3. QED
    BY <1>1, <2>1, <2>2 DEF NextMessage
<1>4. QED
  BY <1>2, <1>3 DEF Read

\* calls that failed, and restarts
Accidents == failures + restarts

LEMMA AccidentsGrow ==
    ASSUME ControlOK, ControlOK'
    PROVE  /\ failures' >= failures /\ restarts' = restarts => Accidents' >= Accidents
           /\ failures' + restarts' > failures + restarts =>
                  Accidents' > Accidents /\ Accidents' >= Accidents
<1>1. PICK a \in Nat : a = failures
  BY DEF ControlOK, TypeOK
<1>2. PICK b \in Nat : b = failures'
  BY DEF ControlOK, TypeOK
<1>3. PICK c \in Nat : c = restarts
  BY DEF ControlOK, TypeOK
<1>4. PICK d \in Nat : d = restarts'
  BY DEF ControlOK, TypeOK
<1>5. Accidents = a + c /\ Accidents' = b + d
  BY <1>1, <1>2, <1>3, <1>4 DEF Accidents
<1>6. /\ b >= a /\ d = c => b + d >= a + c
      /\ b + d > a + c => b + d >= a + c
  OBVIOUS
<1>7. QED
  BY Zenon, <1>1, <1>2, <1>3, <1>4, <1>5, <1>6

\* What RetainedLog asks of a step that prints nothing, apart from the log: a
\* message is left out, and the service ends, only by an accident.
Spares ==
    /\ Accidents' >= Accidents
    /\ Serving /\ ~Serving' => Accidents' > Accidents
    /\ \/ NextMessage' = NextMessage
       \/ NextMessage' > NextMessage /\ (Accidents' > Accidents \/ ~Serving)

\* nothing is taken or given up
LEMMA QuietSpares ==
    ASSUME ControlOK, ControlOK', NextMessage' = NextMessage, restarts' = restarts,
           failures' >= failures, Serving => Serving'
    PROVE  Spares
<1>1. Accidents' >= Accidents
  BY AccidentsGrow
<1>2. QED
  BY <1>1 DEF Spares

\* a call fails, or the process ends
LEMMA AccidentSpares ==
    ASSUME ControlOK, ControlOK', RecordInv, sent' = sent, pipe' \in {pipe, <<>>},
           buffer' \in {buffer, NoMessage},
           failures' + restarts' > failures + restarts
    PROVE  Spares
<1>1. NextMessage \in Nat /\ NextMessage' \in Nat /\ NextMessage' >= NextMessage
  BY NextGrows
<1>2. Accidents' > Accidents /\ Accidents' >= Accidents
  BY AccidentsGrow
<1>3. NextMessage' = NextMessage \/ NextMessage' > NextMessage
  BY <1>1
<1>4. QED
  BY <1>2, <1>3 DEF Spares

LEMMA ClientSpares ==
    ASSUME ControlOK, ControlOK', RecordInv, NEW c \in Client,
           ClientCall(c) \/ ClientStep(c)
    PROVE  Spares
<1>1. UNCHANGED <<pc, restarts, failures, buffer>>
  BY DEF ClientCall, ClientStep, ClientOpen, ClientWrite, ClientClose
<1>2. failures \in Nat /\ restarts \in Nat /\ (Serving => Serving')
  BY <1>1 DEF ControlOK, TypeOK, Serving
<1>3. CASE UNCHANGED <<sent, pipe>>
  <2>1. NextMessage' = NextMessage
    BY <1>1, <1>3 DEF NextMessage
  <2>2. QED
    BY <1>1, <1>2, <2>1, QuietSpares
<1>4. CASE pipe' = Append(pipe, sent + 1) /\ sent' = sent + 1
  <2>1. NextMessage' = NextMessage
    BY <1>1, <1>4, SentNext
  <2>2. QED
    BY <1>1, <1>2, <2>1, QuietSpares
<1>5. CASE ~Serving /\ pipe' = <<>> /\ sent' = sent
  <2>1. NextMessage \in Nat /\ NextMessage' \in Nat /\ NextMessage' >= NextMessage
    BY <1>1, <1>5, NextGrows
  <2>2. QED
    BY <1>1, <1>2, <1>5, <2>1 DEF Spares, Accidents
<1>6. QED
  BY <1>3, <1>4, <1>5
     DEF ClientCall, ClientStep, ClientOpen, ClientWrite, ClientClose

LEMMA MainSpares ==
    ASSUME ControlOK, ControlOK', RecordInv,
           Open \/ Close \/ Stamp \/ Fopen \/ Resume \/ Arm \/ Loop \/ Read
    PROVE  Spares
<1> USE DEF mainFrame, clientVars, fileVars
<1>1. /\ restarts' = restarts /\ sent' = sent /\ failures \in Nat
      /\ restarts \in Nat
  BY DEF Open, Close, Stamp, Fopen, Resume, Arm, Loop, Read, ControlOK, TypeOK
<1>2. CASE Read
  <2>1. failures' = failures /\ (Serving => Serving')
    BY <1>2 DEF Read, Serving
  <2>2. QED
    BY <1>1, <1>2, <2>1, ReadNext, QuietSpares
<1>3. ASSUME UNCHANGED <<pipe, buffer>>, failures' >= failures, Serving => Serving'
      PROVE  Spares
  <2>1. NextMessage' = NextMessage
    BY <1>1, <1>3 DEF NextMessage
  <2>2. QED
    BY <1>1, <1>3, <2>1, QuietSpares
<1>4. CASE Open \/ Stamp \/ Resume \/ Loop
  <2>1. UNCHANGED <<pipe, buffer, failures>>
    BY <1>4 DEF Open, Stamp, Resume, Loop
  <2>2. Serving'
    BY <1>4 DEF Open, Stamp, Resume, Loop, Serving
  <2>3. QED
    BY <1>1, <1>3, <2>1, <2>2
<1>5. CASE Close
  <2>1. UNCHANGED <<pipe, buffer>> /\ failures' >= failures
    BY <1>5, CloseOutcome DEF Close
  <2>2. Serving'
    BY <1>5 DEF Close, Serving
  <2>3. QED
    BY <1>3, <2>1, <2>2
<1>6. CASE Fopen \/ Arm
  <2>1. CASE UNCHANGED <<pipe, failures>> /\ pc' \in {"resume", "loop"}
    BY <1>1, <1>3, <1>6, <2>1 DEF Fopen, Arm, Serving
  <2>2. CASE Fails
    <3>1. buffer' = buffer /\ pipe' \in {pipe, <<>>}
      BY <1>6 DEF Fopen, Arm, Abandoned
    <3>2. failures' = failures + 1
      BY <2>2 DEF Fails
    <3>3. QED
      BY <1>1, <3>1, <3>2, AccidentSpares
  <2>3. QED
    BY <1>6, <2>1, <2>2 DEF Fopen, Arm
<1>7. QED
  BY <1>2, <1>4, <1>5, <1>6

LEMMA DiedSpares ==
    ASSUME ControlOK, ControlOK', RecordInv, Died, sent' = sent,
           failures' + restarts' > failures + restarts
    PROVE  Spares
  BY AccidentSpares DEF Died, Abandoned

LEMMA OtherSpares ==
    ASSUME ControlOK, ControlOK', RecordInv,
           Alarm \/ Second \/ Restart \/ UNCHANGED vars
    PROVE  Spares
<1> USE DEF mainFrame, clientVars
<1>1. failures \in Nat /\ restarts \in Nat /\ sent' = sent
  BY DEF Alarm, Second, Restart, vars, ControlOK, TypeOK
<1>2. ASSUME UNCHANGED <<pc, pipe, buffer, restarts>>, failures' >= failures
      PROVE  Spares
  <2>1. NextMessage' = NextMessage /\ (Serving => Serving')
    BY <1>1, <1>2 DEF NextMessage, Serving
  <2>2. QED
    BY <1>2, <2>1, QuietSpares
<1>3. CASE Alarm
  <2>1. restarts' = restarts
    BY <1>3 DEF Alarm
  <2>2. CASE Fails /\ Died
    <3>1. failures' + restarts' > failures + restarts
      BY <1>1, <2>1, <2>2 DEF Fails
    <3>2. QED
      BY <1>1, <2>2, <3>1, DiedSpares
  <2>3. CASE ManageFiles /\ UNCHANGED <<pc, pipe, buffer>>
    BY <1>2, <2>1, <2>3, AlarmCount DEF ControlOK
  <2>4. QED
    BY <1>3, <2>2, <2>3 DEF Alarm
<1>4. CASE Second \/ UNCHANGED vars
  BY <1>1, <1>2, <1>4 DEF Second, vars
<1>5. CASE Restart
  <2>1. failures' + restarts' > failures + restarts
    BY <1>1, <1>5 DEF Restart
  <2>2. QED
    BY <1>1, <1>5, <2>1, DiedSpares DEF Restart
<1>6. QED
  BY <1>3, <1>4, <1>5

\* a message that is not printed, because the call fails
LEMMA DroppedSpares ==
    ASSUME ControlOK, ControlOK', RecordInv, CurrentKept, Write, data' = data
    PROVE  Spares
<1>1. failures' = failures + 1 \/ data' = Printed
  BY WriteOutcome DEF Write, CurrentKept, ControlOK, ControlInv
<1>2. current_fp \in dir
  BY DEF Write, CurrentKept, ControlOK, ControlInv
<1>3. data' # Printed
  <2>1. PICK s \in Seq(Nat) : s = data[current_fp]
    BY <1>2 DEF ControlOK, TypeOK
  <2>2. Len(Append(s, buffer)) = Len(s) + 1 /\ Len(s) \in Nat
    BY AppendProperties DEF ControlOK, TypeOK
  <2>3. Printed[current_fp] = Append(s, buffer)
    BY <1>2, <2>1, PrintedType DEF Write
  <2>4. QED
    BY <2>1, <2>2, <2>3
<1>4. failures' + restarts' > failures + restarts
  <2>1. failures' = failures + 1 /\ restarts' = restarts
    BY <1>1, <1>3 DEF Write, mainFrame
  <2>2. failures \in Nat /\ restarts \in Nat
    BY DEF ControlOK, TypeOK
  <2>3. QED
    BY <2>1, <2>2
<1>5. QED
  BY <1>4, AccidentSpares DEF Write, mainFrame, clientVars

\* A message that is printed is the next one and comes last.
LEMMA PrintedKeeps ==
    ASSUME ControlOK, ControlOK', RecordInv, FlowInv, CurrentKept, Write,
           data' = Printed
    PROVE  /\ Log' = Append(Log, NextMessage) /\ NextMessage' = NextMessage + 1
           /\ Accidents' >= Accidents /\ Serving'
<1> USE DEF fileVars, mainFrame, clientVars, ControlOK
<1>1. /\ buffer # NoMessage /\ buffer' = NoMessage
      /\ UNCHANGED <<sent, pipe, restarts>> /\ current_fp \in dir
      /\ current_fp # NoFile /\ sent \in Nat /\ Len(pipe) \in Nat
      /\ failures \in Nat /\ restarts \in Nat
  BY DEF Write, ControlInv, TypeOK, CurrentKept
<1>2. NextMessage = sent - Len(pipe) /\ NextMessage' = NextMessage + 1
  BY <1>1 DEF NextMessage
<1>3. NextMessage = buffer
  BY <1>1, <1>2 DEF RecordInv
<1>4. current_fp \in Time /\ buffer \in Nat /\ data \in Files /\ data' \in Files
  BY <1>1 DEF TypeOK, Files
<1>5. \A f \in Time : f > current_fp => data[f] = <<>>
  <2>1. \A f \in dir : f <= current_fp
    BY <1>1 DEF FlowInv, NewestInv
  <2>2. \A f \in Time : f > current_fp => f \notin dir
    BY <1>4, <2>1, Times
  <2>3. QED
    BY <2>2 DEF RecordInv
<1>6. /\ data'[current_fp] = Append(data[current_fp], buffer)
      /\ \A f \in Time : f # current_fp => data'[f] = data[f]
  BY <1>1, PrintedType DEF Write
<1>7. Joined(data')[MaxTime] = Append(Joined(data)[MaxTime], buffer)
  BY <1>4, <1>5, <1>6, JoinedAppend
<1>8. Log' = Append(Log, NextMessage)
  BY <1>3, <1>7 DEF Log
<1>9. Accidents' >= Accidents /\ Serving'
  <2>1. failures' >= failures /\ failures' \in Nat
    BY WriteOutcome
  <2>2. Serving'
    BY DEF Write, Serving
  <2>3. Accidents' >= Accidents
    BY <1>1, <2>1, AccidentsGrow
  <2>4. QED
    BY <2>2, <2>3
<1>10. QED
  BY <1>2, <1>8, <1>9

\* Files that are deleted, emptied or cut take their messages along, and no
\* others.
LEMMA ShortenedKeeps ==
    ASSUME ControlOK, ControlOK', RecordInv, FlowInv, Shortened
    PROVE  PartOf(Log', Log)
<1>1. data \in Files /\ Ordered(data) /\ data' \in Files
  BY FilesOrdered DEF ControlOK, TypeOK, FlowInv, Files
<1>2. PartOf(Joined(data')[MaxTime], Joined(data)[MaxTime])
  BY <1>1, JoinedPart DEF Shortened
<1>3. QED
  BY <1>2 DEF Log

LEMMA OthersShorten ==
    ASSUME ControlOK, [Next]_vars, ~Write PROVE Shortened
<1> USE DEF fileVars
<1>1. CASE data' = data
  BY <1>1 DEF Shortened
<1>2. CASE Fopen
  <2>1. name \in Time
    BY <1>2 DEF Fopen, ControlOK, TypeOK, ControlInv
  <2>2. data' = data \/ data' = [data EXCEPT ![name] = <<>>]
    BY <1>2 DEF Fopen
  <2>3. \A t \in Time : data'[t] \in {data[t], <<>>}
    BY <2>1, <2>2 DEF ControlOK, TypeOK
  <2>4. QED
    BY <2>3 DEF Shortened
<1>3. CASE Close
  BY <1>3, CloseShortens
<1>4. CASE Alarm
  BY <1>4, AlarmShortens
<1>5. CASE Restart
  BY <1>5, DiedShortens DEF Restart, ControlOK
<1>6. CASE \/ \E c \in Client : ClientCall(c) \/ ClientStep(c)
           \/ Open \/ Stamp \/ Resume \/ Arm \/ Loop \/ Read
           \/ Second \/ UNCHANGED vars
  <2>1. data' = data
    BY <1>6, ClientControl
       DEF Open, Stamp, Resume, Arm, Loop, Read, Second, vars
  <2>2. QED
    BY <1>1, <2>1
<1>7. QED
  BY <1>2, <1>3, <1>4, <1>5, <1>6 DEF Next, MainStep

LEMMA AllSpares ==
    ASSUME ControlOK, ControlOK', RecordInv, [Next]_vars, ~Write
    PROVE  Spares
<1>1. ASSUME NEW c \in Client, ClientCall(c) \/ ClientStep(c)
      PROVE  Spares
  BY <1>1, ClientSpares
<1>2. CASE Open \/ Close \/ Stamp \/ Fopen \/ Resume \/ Arm \/ Loop \/ Read
  BY <1>2, MainSpares
<1>3. CASE Alarm \/ Second \/ Restart \/ UNCHANGED vars
  BY <1>3, OtherSpares
<1>4. QED
  BY <1>1, <1>2, <1>3 DEF Next, MainStep

\* A step that prints nothing gives some messages up, leaves some out, or does
\* neither.
LEMMA SparedNext ==
    ASSUME Spares, PartOf(Log', Log)
    PROVE  Retained!Next
<1>1. Retained!Part
  BY DEF Retained!Part, PartOf
<1>2. \/ Retained!Forget
      \/ Retained!Lose
  BY <1>1 DEF Spares, Accidents, Retained!Forget, Retained!Lose
<1>3. QED
  BY <1>2 DEF Spares, Accidents, Retained!Next

LEMMA KeepStep ==
    ASSUME ControlOK, ControlOK', RecordInv, FlowInv, CurrentKept, [Next]_vars
    PROVE  Retained!Next
<1>1. CASE ~Write
  BY <1>1, AllSpares, OthersShorten, ShortenedKeeps, SparedNext
<1>2. CASE Write /\ data' = data
  <2>1. Shortened
    BY <1>2 DEF Shortened
  <2>2. QED
    BY <1>2, <2>1, DroppedSpares, ShortenedKeeps, SparedNext
<1>3. CASE Write /\ data' = Printed
  <2>1. /\ Log' = Append(Log, NextMessage) /\ NextMessage' = NextMessage + 1
        /\ Accidents' >= Accidents /\ Serving'
    BY <1>3, PrintedKeeps
  <2>2. Retained!Record
    BY <2>1 DEF Retained!Record
  <2>3. QED
    BY <2>1, <2>2 DEF Retained!Next, Accidents
<1>4. QED
  BY <1>1, <1>2, <1>3, WriteOutcome

LEMMA KeepInit ==
    ASSUME Init PROVE RecordInv /\ Retained!Init
<1>1. Len(pipe) = 0 /\ sent = 0 /\ buffer = NoMessage /\ DOMAIN pipe = {}
  BY DEF Init
<1>2. RecordInv
  BY <1>1 DEF Init, RecordInv
<1>3. NextMessage = 1
  BY <1>1 DEF NextMessage
<1>4. Log = <<>>
  <2> DEFINE S == {t \in 0..MaxTime : Joined(data)[t] = <<>>}
  <2>1. MaxTime \in Nat
    BY LogAssumption
  <2>2. 0 \in S
    <3>1. Joined(data)[0] = <<>>
      BY JoinedStep
    <3>2. QED
      BY <2>1, <3>1
  <2>3. ASSUME NEW t \in 1..MaxTime, t - 1 \in S PROVE t \in S
    <3>1. Joined(data)[t] = Joined(data)[t - 1] \o data[t] /\ data[t] = <<>>
      BY JoinedStep DEF Init, Time
    <3>2. Joined(data)[t] = <<>>
      BY <2>3, <3>1
    <3>3. QED
      BY <3>2
  <2>4. MaxTime \in S
    <3> HIDE DEF S
    <3>1. \A t \in 0..MaxTime : t \in S
      BY <2>1, <2>2, <2>3, UpTo
    <3>2. QED
      BY <2>1, <3>1
  <2>5. QED
    BY <2>4 DEF Log
<1>5. QED
  BY <1>2, <1>3, <1>4 DEF Retained!Init

\* The server keeps the log RetainedLog describes, whatever the period, however
\* often it is restarted and whichever calls fail: it prints the messages once
\* and in the order of sending, leaves one out only in a step in which a call
\* fails or the process ends, or while none runs, and deleting, emptying or
\* cutting files takes messages out without disturbing the others.  It needs
\* room for two files, so that the handler does not delete the open one
\* (log_server.cpp:276-282, 338-367, 416-432).
THEOREM KeepsLogHolds ==
    ASSUME MaxFiles >= 2
    PROVE  Spec => KeepsLog
<1> DEFINE KInv == TimesInv /\ FlowInv /\ RecordInv
<1>1. Init => KInv /\ Retained!Init
  BY KeepInit
     DEF Init, TimesInv, FlowInv, NewestInv, PipeInv, WrittenInv, FilesInOrder,
         NoFile, NoMessage
<1>2. ControlOK /\ KInv /\ [Next]_vars => KInv'
  BY TimesStep, FlowStep, RecordStep
<1>3. KInv => CurrentKept
  BY DEF TimesInv, CurrentKept
<1>4. ControlOK /\ ControlOK' /\ KInv /\ [Next]_vars => Retained!Next
  BY <1>3, KeepStep
<1> HIDE DEF KInv
<1>5. QED
  BY <1>1, <1>2, <1>4, Control, PTL DEF Spec, KeepsLog, Retained!Spec
=============================================================================
