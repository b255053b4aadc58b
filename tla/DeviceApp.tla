----------------------------- MODULE DeviceApp -----------------------------
(***************************************************************************)
(* The device's application (app/registery): it makes its key pair on the  *)
(* first start, registers with the cloud, opens the session of             *)
(* AliyunSession with what it got, and reports.  The process may die       *)
(* between any two steps and is started again; the two certificate files   *)
(* stay.  A file that was opened for writing and is not written completely *)
(* is Torn.                                                                *)
(***************************************************************************)
EXTENDS AliyunSession, Naturals

CONSTANTS
    Shadow,    \* the topic the application subscribes to
    Absent,    \* a file that is not there
    Torn,      \* a file without its content
    MaxStarts  \* bound: starts of the process

ASSUME AppAssumption == /\ Absent \notin Nat /\ Torn \notin Nat /\ Absent # Torn
                        /\ MaxStarts \in Nat

VARIABLES
    pc,          \* where main is; "off" while there is no process
    starts,
    cert_dir,    \* the directory exists
    pk, x509,    \* the two files: Absent, Torn or the number of their pair
    pairs,       \* pairs generated so far; the last one is in memory
    mishaps,     \* writes that failed unnoticed, and deaths before the
                 \* second file was written
    registry,    \* Device::_registry: "default", "empty" or "valid"
    registered,  \* the shadow task is registered
    subscribed,  \* history: subscribe has returned true
    is_state_reported

fileVars == <<cert_dir, pk, x509, pairs, mishaps>>
appVars == <<registry, registered, subscribed, is_state_reported>>
vars == <<pc, starts, fileVars, appVars, sessionVars>>

Init ==
    /\ pc = "off" /\ starts = 0
    /\ cert_dir = FALSE /\ pk = Absent /\ x509 = Absent
    /\ pairs = 0 /\ mishaps = 0
    /\ registry = "default" /\ registered = FALSE
    /\ subscribed = FALSE /\ is_state_reported = FALSE
    /\ SessionInit

Start ==
    /\ pc = "off" /\ starts < MaxStarts
    /\ pc' = "dir" /\ starts' = starts + 1
    /\ registry' = "default" /\ registered' = FALSE
    /\ subscribed' = FALSE /\ is_state_reported' = FALSE
    /\ UNCHANGED <<fileVars, sessionVars>>

-----------------------------------------------------------------------------
(* ensure_certificates_exist; each failure it notices ends the process *)

certFrame == <<starts, appVars, sessionVars>>

EnsureDir ==
    /\ pc = "dir"
    /\ \/ cert_dir' = TRUE /\ pc' = "check"
       \/ pc' = "off" /\ UNCHANGED cert_dir
    /\ UNCHANGED <<pk, x509, pairs, mishaps, certFrame>>

\* mutant: one file is enough
CheckEither ==
    /\ pc = "check"
    /\ pc' = IF pk # Absent \/ x509 # Absent THEN "request" ELSE "generate"
    /\ UNCHANGED <<fileVars, certFrame>>

\* mutant: the files are not looked at
CheckNothing ==
    /\ pc = "check"
    /\ pc' = "generate"
    /\ UNCHANGED <<fileVars, certFrame>>

\* access: what the files hold is not looked at
Check ==
    /\ pc = "check"
    /\ pc' = IF pk # Absent /\ x509 # Absent THEN "request" ELSE "generate"
    /\ UNCHANGED <<fileVars, certFrame>>

Generate ==
    /\ pc = "generate"
    /\ \/ pairs' = pairs + 1 /\ pc' = "pkOpen"
       \/ pc' = "off" /\ UNCHANGED pairs
    /\ UNCHANGED <<cert_dir, pk, x509, mishaps, certFrame>>

\* an ofstream empties the file
OpenPk ==
    /\ pc = "pkOpen"
    /\ \/ pk' = Torn /\ pc' = "pkWrite"
       \/ pc' = "off" /\ UNCHANGED pk
    /\ UNCHANGED <<cert_dir, x509, pairs, mishaps, certFrame>>

\* operator<< and close; nobody asks whether they succeeded
WritePk ==
    /\ pc = "pkWrite" /\ pc' = "x509Open"
    /\ \/ pk' = pairs /\ UNCHANGED mishaps
       \/ mishaps' = mishaps + 1 /\ UNCHANGED pk
    /\ UNCHANGED <<cert_dir, x509, pairs, certFrame>>

OpenX509 ==
    /\ pc = "x509Open"
    /\ \/ x509' = Torn /\ pc' = "x509Write"
       \/ pc' = "off" /\ UNCHANGED x509
    /\ UNCHANGED <<cert_dir, pk, pairs, mishaps, certFrame>>

WriteX509 ==
    /\ pc = "x509Write" /\ pc' = "request"
    /\ \/ x509' = pairs /\ UNCHANGED mishaps
       \/ mishaps' = mishaps + 1 /\ UNCHANGED x509
    /\ UNCHANGED <<cert_dir, pk, pairs, certFrame>>

-----------------------------------------------------------------------------
(* main *)

\* what the cloud answers: the details of a connection, nothing that is JSON or
\* JSON without them, or JSON of another shape
Answers == {"details", "nothing", "misshapen"}

\* A shape it does not expect throws, and ends the process; otherwise what is
\* missing stays empty.  Its result is not looked at, and has_value is true.
ParseDeviceRegistry(answer) ==
    \/ /\ answer = "misshapen"
       /\ pc' = "off" /\ UNCHANGED registry
    \/ /\ answer # "misshapen" /\ pc' = "init"
       /\ registry' = IF answer = "details" THEN "valid" ELSE "empty"

RegisterDevice ==
    /\ pc = "request"
    /\ \E answer \in Answers : ParseDeviceRegistry(answer)
    /\ UNCHANGED <<starts, fileVars, registered, subscribed, is_state_reported,
                   sessionVars>>

InitClient ==
    /\ pc = "init" /\ pc' = "connect"
    /\ NewClient
    /\ UNCHANGED <<starts, fileVars, appVars>>

\* there is nobody to connect to without a host
Connect(ok) ==
    /\ pc = "connect" /\ pc' = (IF ok THEN "task" ELSE "return")
    /\ ok => registry = "valid"
    /\ ConnectSession(ok)
    /\ UNCHANGED <<starts, fileVars, appVars>>

\* mutant: the task is registered after the subscription
SubscribeFirst ==
    /\ pc = "task" /\ pc' = "subscribe"
    /\ \E ok \in BOOLEAN : SubscribeSession(Shadow, ok)
    /\ UNCHANGED <<starts, fileVars, appVars>>

RegisterTask ==
    /\ pc = "task" /\ pc' = "subscribe"
    /\ registered' = TRUE
    /\ UNCHANGED <<starts, fileVars, registry, subscribed, is_state_reported,
                   sessionVars>>

\* what subscribe and publish return is not looked at
Subscribe(ok) ==
    /\ pc = "subscribe" /\ pc' = "get"
    /\ SubscribeSession(Shadow, ok) /\ subscribed' = ok
    /\ UNCHANGED <<starts, fileVars, registry, registered, is_state_reported>>

PublishGet(ok) ==
    /\ pc = "get" /\ pc' = "loop"
    /\ PublishSession(ok)
    /\ UNCHANGED <<starts, fileVars, appVars>>

ReportState(ok) ==
    /\ pc = "loop" /\ ~is_state_reported
    /\ PublishSession(ok)
    /\ is_state_reported' = TRUE
    /\ UNCHANGED <<pc, starts, fileVars, registry, registered, subscribed>>

\* mutant: a publish that finds the connection broken makes a new one
ReportPresenceAgain(ok) ==
    /\ pc = "loop" /\ is_state_reported
    /\ IF connected /\ link = "down"
       THEN link' = "up" /\ UNCHANGED <<client, handle, connected, granted>>
       ELSE PublishSession(ok)
    /\ UNCHANGED <<pc, starts, fileVars, appVars>>

ReportPresence(ok) ==
    /\ pc = "loop" /\ is_state_reported
    /\ PublishSession(ok)
    /\ UNCHANGED <<pc, starts, fileVars, appVars>>

\* main returns; ~MqttClientManager runs
Return ==
    /\ pc = "return" /\ pc' = "off"
    /\ CloseSession
    /\ UNCHANGED <<starts, fileVars, appVars>>

-----------------------------------------------------------------------------
Crash ==
    /\ pc # "off" /\ pc' = "off"
    /\ CloseSession
    /\ mishaps' = IF pc = "x509Write" THEN mishaps + 1 ELSE mishaps
    /\ UNCHANGED <<starts, cert_dir, pk, x509, pairs, appVars>>

Lose == LoseSession /\ UNCHANGED <<pc, starts, fileVars, appVars>>

EnsureCertificatesExist ==
    \/ EnsureDir \/ Check \/ Generate
    \/ OpenPk \/ WritePk \/ OpenX509 \/ WriteX509

Main ==
    \/ EnsureCertificatesExist \/ RegisterDevice \/ InitClient \/ RegisterTask
    \/ \E ok \in BOOLEAN :
          \/ Connect(ok) \/ Subscribe(ok) \/ PublishGet(ok)
          \/ ReportState(ok) \/ ReportPresence(ok)
    \/ Return

Next == Start \/ Main \/ Crash \/ Lose

Spec == Init /\ [][Next]_vars

-----------------------------------------------------------------------------
(* Properties *)

Content == {Absent, Torn} \cup Nat
CertPc == {"dir", "check", "generate", "pkOpen", "pkWrite", "x509Open",
           "x509Write"}
MainPc == {"request", "init", "connect", "task", "subscribe", "get", "loop",
           "return"}

TypeOK ==
    /\ pc \in {"off"} \cup CertPc \cup MainPc
    /\ starts \in Nat /\ cert_dir \in BOOLEAN
    /\ pk \in Content /\ x509 \in Content
    /\ pairs \in Nat /\ mishaps \in Nat
    /\ registry \in {"default", "empty", "valid"}
    /\ registered \in BOOLEAN /\ subscribed \in BOOLEAN
    /\ is_state_reported \in BOOLEAN
    /\ SessionTypeOK /\ granted \in SUBSET {Shadow}

\* The files of one pair are on disk, complete.
Paired == pk = x509 /\ pk \in Nat

\* An application that goes on to register has the key and the certificate of
\* one pair, wherever earlier processes died, unless a write failed or a
\* process died with the certificate's file open: a pair torn before that is
\* made again (app/registery/source/main.cpp:49-79).
CertificatesMatch == pc \in MainPc /\ mishaps = 0 => Paired

\* A complete pair is kept for good, whatever happens to the process
\* (app/registery/source/main.cpp:49-51).
PairKept == [][Paired => UNCHANGED <<pk, x509>>]_vars

\* What the broker may send finds a task: the application is registered with
\* the dispatcher before the broker has its subscription, in every process
\* (app/registery/source/main.cpp:252-258).
SubscribedHasTask == granted # {} => registered /\ client

\* Once subscribe has succeeded the subscription lasts as long as the
\* connection is there: the client never replaces it by a clean session
\* (MqttClient.cpp:59, 74, 91, 117; main.cpp:258-292).
SubscriptionLasts == subscribed /\ link = "up" => Shadow \in granted
=============================================================================
