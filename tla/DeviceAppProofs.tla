-------------------------- MODULE DeviceAppProofs --------------------------
(***************************************************************************)
(* Proofs about the device's application, for any number of starts.        *)
(***************************************************************************)
EXTENDS DeviceApp, TLAPS

WritingPc == {"pkOpen", "pkWrite", "x509Open"}

\* what ensure_certificates_exist knows of the two files where it is
FilesInv ==
    /\ pk \in Nat => pk <= pairs
    /\ x509 \in Nat => x509 <= pairs
    /\ pc \in {"generate", "pkOpen"} => pk = Absent \/ x509 = Absent
    /\ pc \in WritingPc => x509 = Absent \/ x509 = Torn \/ x509 < pairs
    /\ pc = "pkWrite" => pk = Torn
    /\ pc \in {"x509Open", "x509Write"} => pk = Torn \/ pk = pairs
    /\ pc = "x509Write" => x509 = Torn

\* without a mishap the second file appears last, and is complete
PairInv ==
    mishaps = 0 =>
        /\ x509 # Absent => Paired \/ pc = "x509Write"
        /\ pc \in WritingPc \cup {"generate"} => x509 = Absent
        /\ pc \in {"x509Open", "x509Write"} => pk = pairs
        /\ pc \in MainPc => Paired

\* the order of main's calls, and what the session is in each of them
OrderInv ==
    /\ pc \in {"task", "subscribe", "get", "loop"} \/ link = "down"
    /\ granted # {} => link = "up" /\ pc \in {"get", "loop"}
    /\ pc \in {"subscribe", "get", "loop"} => registered
    /\ pc \in {"connect", "task", "subscribe", "get", "loop"} => client
    /\ pc = "connect" => ~connected
    /\ subscribed => pc \in {"get", "loop", "off"}

Inv == TypeOK /\ FilesInv /\ PairInv /\ OrderInv /\ SubscriptionLasts

\* TypeOK in three parts: what may hold numbers, the flags and the session
FileTypes ==
    /\ pc \in {"off"} \cup CertPc \cup MainPc
    /\ starts \in Nat /\ pk \in Content /\ x509 \in Content
    /\ pairs \in Nat /\ mishaps \in Nat
    /\ registry \in {"default", "empty", "valid"}

FlagTypes ==
    /\ cert_dir \in BOOLEAN /\ registered \in BOOLEAN
    /\ subscribed \in BOOLEAN /\ is_state_reported \in BOOLEAN

SessionTypes == SessionTypeOK /\ granted \in SUBSET {Shadow}

LEMMA TypeParts == TypeOK <=> FileTypes /\ FlagTypes /\ SessionTypes
  BY Zenon DEF TypeOK, FileTypes, FlagTypes, SessionTypes

LEMMA Initially == Init => Inv
<1> SUFFICES ASSUME Init PROVE Inv  OBVIOUS
<1> USE DEF Init, SessionInit
<1>1. FileTypes  BY DEF FileTypes, Content
<1>2. FlagTypes /\ SessionTypes  BY DEF FlagTypes, SessionTypes, SessionTypeOK
<1>3. FilesInv /\ PairInv
  BY AppAssumption DEF FilesInv, PairInv, CertPc, MainPc, WritingPc
<1>4. OrderInv /\ SubscriptionLasts  BY DEF OrderInv, SubscriptionLasts
<1> QED  BY <1>1, <1>2, <1>3, <1>4, TypeParts DEF Inv

\* Every step keeps the types of the places, the counters and the files.
LEMMA FileTypesStep ==
  ASSUME FileTypes, [Next]_vars
  PROVE  FileTypes'
<1> USE DEF FileTypes, Content, CertPc, MainPc
<1>1. CASE Start
  BY <1>1 DEF Start, fileVars
<1>2. CASE EnsureCertificatesExist
  BY <1>2 DEF EnsureCertificatesExist, EnsureDir, Check, Generate, OpenPk,
     WritePk, OpenX509, WriteX509, certFrame, appVars, fileVars
<1>3. CASE RegisterDevice \/ InitClient \/ RegisterTask \/ Return \/ Crash \/ Lose
  BY <1>3 DEF RegisterDevice, ParseDeviceRegistry, InitClient, RegisterTask, Return,
     Crash, Lose, appVars, fileVars
<1>4. ASSUME NEW ok \in BOOLEAN,
             \/ Connect(ok) \/ Subscribe(ok) \/ PublishGet(ok)
             \/ ReportState(ok) \/ ReportPresence(ok)
      PROVE  FileTypes'
  BY <1>4 DEF Connect, Subscribe, PublishGet, ReportState, ReportPresence,
     appVars, fileVars
<1>5. CASE UNCHANGED vars
  BY <1>5 DEF vars, fileVars, appVars
<1> QED  BY <1>1, <1>2, <1>3, <1>4, <1>5 DEF Next, Main

\* Every step keeps the types of the flags.
LEMMA FlagTypesStep ==
  ASSUME FlagTypes, [Next]_vars
  PROVE  FlagTypes'
<1> USE DEF FlagTypes
<1>1. CASE Start
  BY <1>1 DEF Start, fileVars
<1>2. CASE EnsureCertificatesExist
  BY <1>2 DEF EnsureCertificatesExist, EnsureDir, Check, Generate, OpenPk,
     WritePk, OpenX509, WriteX509, certFrame, appVars, fileVars
<1>3. CASE RegisterDevice \/ InitClient \/ RegisterTask \/ Return \/ Crash \/ Lose
  BY <1>3 DEF RegisterDevice, ParseDeviceRegistry, InitClient, RegisterTask, Return,
     Crash, Lose, appVars, fileVars
<1>4. ASSUME NEW ok \in BOOLEAN,
             \/ Connect(ok) \/ Subscribe(ok) \/ PublishGet(ok)
             \/ ReportState(ok) \/ ReportPresence(ok)
      PROVE  FlagTypes'
  BY <1>4 DEF Connect, Subscribe, PublishGet, ReportState, ReportPresence,
     appVars, fileVars
<1>5. CASE UNCHANGED vars
  BY <1>5 DEF vars, fileVars, appVars
<1> QED  BY <1>1, <1>2, <1>3, <1>4, <1>5 DEF Next, Main

\* Every step keeps the types of the session.
LEMMA SessionTypesStep ==
  ASSUME SessionTypes, OrderInv, [Next]_vars
  PROVE  SessionTypes'
<1> USE DEF SessionTypes, SessionTypeOK
<1>1. CASE UNCHANGED sessionVars
  BY <1>1 DEF sessionVars
<1>2. CASE NewClient \/ CloseSession \/ LoseSession
  <2>1. CASE NewClient
    BY <2>1 DEF NewClient
  <2>2. CASE CloseSession
    BY <2>2 DEF CloseSession
  <2>3. CASE LoseSession
    BY <2>3 DEF LoseSession
  <2> QED  BY <1>2, <2>1, <2>2, <2>3
<1>3. ASSUME NEW ok \in BOOLEAN, Connect(ok)
      PROVE  SessionTypes'
  BY <1>3 DEF Connect, ConnectSession, OrderInv
<1>4. ASSUME NEW ok \in BOOLEAN, SubscribeSession(Shadow, ok)
      PROVE  SessionTypes'
  BY <1>4 DEF SubscribeSession
<1> QED
  BY <1>1, <1>2, <1>3, <1>4
  DEF Next, Main, Start, EnsureCertificatesExist, EnsureDir, Check, Generate,
      OpenPk, WritePk, OpenX509, WriteX509, certFrame, RegisterDevice, InitClient,
      RegisterTask, Subscribe, PublishGet, ReportState, ReportPresence,
      PublishSession, Return, Crash, Lose, vars

\* Every step keeps the types.
LEMMA TypeStep ==
  ASSUME Inv, [Next]_vars
  PROVE  TypeOK'
<1>1. FileTypes'  BY FileTypesStep, TypeParts DEF Inv
<1>2. FlagTypes'  BY FlagTypesStep, TypeParts DEF Inv
<1>3. SessionTypes'  BY SessionTypesStep, TypeParts DEF Inv
<1> QED  BY <1>1, <1>2, <1>3
         DEF TypeOK, FileTypes, FlagTypes, SessionTypes

\* Every step keeps the files in order.
LEMMA FilesStep ==
  ASSUME Inv, [Next]_vars
  PROVE  FilesInv' /\ PairInv'
<1>0. /\ pk \in Content /\ x509 \in Content /\ pairs \in Nat /\ mishaps \in Nat
      /\ pc \in {"off"} \cup CertPc \cup MainPc
  BY DEF Inv, TypeOK
<1> USE <1>0, AppAssumption
    DEF FilesInv, PairInv, Paired, Content, CertPc, MainPc, WritingPc
<1>1. CASE Start
  BY <1>1 DEF Start, Inv, fileVars
<1>2. CASE EnsureDir \/ Check \/ Generate
  BY <1>2 DEF EnsureDir, Check, Generate, Inv, fileVars
<1>3. CASE OpenPk \/ WritePk
  BY <1>3 DEF OpenPk, WritePk, Inv
<1>4. CASE OpenX509 \/ WriteX509
  BY <1>4 DEF OpenX509, WriteX509, Inv
<1>5. CASE RegisterDevice \/ InitClient \/ RegisterTask \/ Return
  BY <1>5 DEF RegisterDevice, ParseDeviceRegistry, InitClient, RegisterTask, Return,
     Inv, fileVars
<1>6. ASSUME NEW ok \in BOOLEAN,
             \/ Connect(ok) \/ Subscribe(ok) \/ PublishGet(ok)
             \/ ReportState(ok) \/ ReportPresence(ok)
      PROVE  FilesInv' /\ PairInv'
  BY <1>6 DEF Connect, Subscribe, PublishGet, ReportState, ReportPresence, Inv,
     fileVars
<1>7. CASE Crash
  BY <1>7 DEF Crash, Inv
<1>8. CASE Lose \/ UNCHANGED vars
  BY <1>8 DEF Lose, Inv, vars, fileVars
<1> QED  BY <1>1, <1>2, <1>3, <1>4, <1>5, <1>6, <1>7, <1>8
         DEF Next, Main, EnsureCertificatesExist

\* Every step keeps the order of main's calls and the subscription.
LEMMA OrderStep ==
  ASSUME Inv, [Next]_vars
  PROVE  OrderInv' /\ SubscriptionLasts'
<1> USE DEF OrderInv, SubscriptionLasts
<1>1. CASE Start
  BY <1>1 DEF Start, Inv, sessionVars
<1>2. CASE EnsureCertificatesExist
  BY <1>2 DEF EnsureCertificatesExist, EnsureDir, Check, Generate, OpenPk,
     WritePk, OpenX509, WriteX509, Inv, certFrame, appVars, sessionVars
<1>3. CASE RegisterDevice \/ InitClient \/ RegisterTask
  BY <1>3 DEF RegisterDevice, ParseDeviceRegistry, InitClient, RegisterTask,
     NewClient, Inv, appVars, sessionVars
<1>4. CASE Return \/ Crash \/ Lose
  BY <1>4 DEF Return, Crash, Lose, CloseSession, LoseSession, Inv, appVars
<1>5. ASSUME NEW ok \in BOOLEAN, Connect(ok)
      PROVE  OrderInv' /\ SubscriptionLasts'
  BY <1>5 DEF Connect, ConnectSession, Inv, appVars, sessionVars
<1>6. ASSUME NEW ok \in BOOLEAN, Subscribe(ok)
      PROVE  OrderInv' /\ SubscriptionLasts'
  BY <1>6 DEF Subscribe, SubscribeSession, Inv
<1>7. ASSUME NEW ok \in BOOLEAN,
             PublishGet(ok) \/ ReportState(ok) \/ ReportPresence(ok)
      PROVE  OrderInv' /\ SubscriptionLasts'
  BY <1>7 DEF PublishGet, ReportState, ReportPresence, PublishSession, Inv,
     appVars, sessionVars
<1>8. CASE UNCHANGED vars
  BY <1>8 DEF Inv, vars, appVars, sessionVars
<1> QED  BY <1>1, <1>2, <1>3, <1>4, <1>5, <1>6, <1>7, <1>8 DEF Next, Main

\* The invariant of the application: files, order of the calls and session.
THEOREM AppInvariant == Spec => []Inv
<1>1. Inv /\ [Next]_vars => Inv'
  BY TypeStep, FilesStep, OrderStep DEF Inv
<1> QED  BY Initially, <1>1, PTL DEF Spec

\* Every variable keeps its type, and a connected client has a handle
\* (MqttClient.cpp:57-104).
THEOREM TypeOKHolds == Spec => []TypeOK
<1>1. Inv => TypeOK  BY DEF Inv
<1> QED  BY AppInvariant, <1>1, PTL

\* A process that goes on to register has a complete pair, unless there was a
\* mishap (app/registery/source/main.cpp:49-79).
THEOREM CertificatesMatchHolds == Spec => []CertificatesMatch
<1>1. Inv => CertificatesMatch  BY DEF Inv, PairInv, CertificatesMatch
<1> QED  BY AppInvariant, <1>1, PTL

\* No message can come before its task (app/registery/source/main.cpp:252-258).
THEOREM SubscribedHasTaskHolds == Spec => []SubscribedHasTask
<1>1. Inv => SubscribedHasTask  BY DEF Inv, OrderInv, SubscribedHasTask
<1> QED  BY AppInvariant, <1>1, PTL

\* A subscription lasts as long as its connection (MqttClient.cpp:57-113).
THEOREM SubscriptionLastsHolds == Spec => []SubscriptionLasts
<1>1. Inv => SubscriptionLasts  BY DEF Inv
<1> QED  BY AppInvariant, <1>1, PTL

\* A complete pair is never written again (app/registery/source/main.cpp:49-51).
THEOREM PairKeptHolds == Spec => PairKept
<1>1. Inv /\ [Next]_vars => [Paired => UNCHANGED <<pk, x509>>]_vars
  <2> SUFFICES ASSUME Inv, Next, Paired
               PROVE  UNCHANGED <<pk, x509>>
    OBVIOUS
  <2>1. pairs \in Nat  BY DEF Inv, TypeOK
  <2>2. pc \notin {"pkOpen", "pkWrite", "x509Open", "x509Write"}
    BY <2>1, AppAssumption DEF Inv, FilesInv, Paired, WritingPc
  <2> QED
    BY <2>2 DEF Next, Main, Start, EnsureCertificatesExist, EnsureDir, Check,
       Generate, OpenPk, WritePk, OpenX509, WriteX509, RegisterDevice, ParseDeviceRegistry,
       InitClient, RegisterTask, Connect, Subscribe, PublishGet, ReportState,
       ReportPresence, Return, Crash, Lose, fileVars
<1> QED  BY AppInvariant, <1>1, PTL DEF Spec, PairKept
=============================================================================
