-------------------------- MODULE BusGlobalProofs ---------------------------
(***************************************************************************)
(* For any number of threads and constructors: the counter counts what it  *)
(* should, also while constructors race for the library, and as long as    *)
(* they do not, the last destructor cleans the library up.                 *)
(***************************************************************************)
EXTENDS BusGlobal, FiniteSetTheorems, TLAPS

\* threads whose bus is counted and is not among the buses
Users == {t \in Thread : pc[t] \in {"new", "destroy"}}

TypeButExposed ==
    /\ initialized \in BOOLEAN /\ ready \in BOOLEAN
    /\ buses \in Nat /\ constructs \in Nat /\ failed \in Nat
    /\ pc \in [Thread -> Constructing \cup Destroying \cup {"idle"}]

CountInv == count = buses + Cardinality(Users) + failed

\* Flag and library agree with the counter, except on the way from one to the
\* other: an initialization or a cleanup is made by one thread, while nobody
\* is counted.
AgreeInv ==
    ~exposed =>
        /\ ~Exposing
        /\ count > 0 => /\ initialized /\ ready
                        /\ \A t \in Thread :
                             pc[t] \notin {"libInit", "globalCleanup", "libCleanup"}
        /\ count = 0 /\ (\A t \in Thread : pc[t] \notin {"libInit", "count",
                                             "globalCleanup", "libCleanup"})
               => ~initialized /\ ~ready
        /\ \A t \in Thread :
             /\ pc[t] = "libInit" => initialized
             /\ pc[t] = "count" => initialized /\ ready
             /\ pc[t] = "globalCleanup" => initialized /\ ready
             /\ pc[t] = "libCleanup" => ~initialized /\ ready
        /\ \A t, u \in Thread :
             /\ pc[t] \in {"globalCleanup", "libCleanup"}
             /\ pc[u] \in {"globalCleanup", "libCleanup"}
             => t = u

Inv == TypeOK /\ CountInv /\ AgreeInv

-----------------------------------------------------------------------------
LEMMA UsersFinite == IsFiniteSet(Users) /\ Cardinality(Users) \in Nat
<1>1. IsFiniteSet(Users)
  BY ThreadAssumption, FS_Subset DEF Users
<1> QED  BY <1>1, FS_CardinalityType

\* One thread's move changes the number of users by that thread.
LEMMA UsersStep ==
    ASSUME NEW t \in Thread, NEW place, TypeOK, Goto(t, place),
           place \in Constructing \cup Destroying \cup {"idle"}
    PROVE  /\ pc' \in [Thread -> Constructing \cup Destroying \cup {"idle"}]
           /\ Cardinality(Users') =
                Cardinality(Users)
                + (IF place \in {"new", "destroy"} THEN 1 ELSE 0)
                - (IF pc[t] \in {"new", "destroy"} THEN 1 ELSE 0)
<1> DEFINE rest == Users \ {t}
<1>1. /\ pc[t] \in {"new", "destroy"} => Users = rest \cup {t}
      /\ pc[t] \notin {"new", "destroy"} => Users = rest
  BY DEF Users
<1>2. /\ place \in {"new", "destroy"} => Users' = rest \cup {t}
      /\ place \notin {"new", "destroy"} => Users' = rest
  BY DEF Users, Goto, TypeOK
<1>3. IsFiniteSet(rest) /\ Cardinality(rest) \in Nat
  BY UsersFinite, FS_Subset, FS_CardinalityType
<1>4. Cardinality(rest \cup {t}) = Cardinality(rest) + 1
  BY <1>3, FS_AddElement
<1> HIDE DEF rest
<1>5. Cardinality(Users') = Cardinality(rest)
                            + (IF place \in {"new", "destroy"} THEN 1 ELSE 0)
  BY <1>2, <1>3, <1>4
<1>6. Cardinality(Users) = Cardinality(rest)
                           + (IF pc[t] \in {"new", "destroy"} THEN 1 ELSE 0)
  <2>1. CASE pc[t] \in {"new", "destroy"}
    BY <1>1, <1>3, <1>4, <2>1
  <2>2. CASE pc[t] \notin {"new", "destroy"}
    BY <1>1, <1>3, <1>4, <2>2
  <2> QED  BY <2>1, <2>2
<1>7. pc' \in [Thread -> Constructing \cup Destroying \cup {"idle"}]
  BY DEF Goto, TypeOK
<1> QED  BY <1>3, <1>5, <1>6, <1>7

\* The counter is 0 exactly when nobody is counted.
LEMMA CountedNobody ==
    ASSUME TypeOK, CountInv
    PROVE  count = 0 <=> /\ buses = 0 /\ failed = 0
                         /\ \A t \in Thread : pc[t] \notin {"new", "destroy"}
<1>1. Cardinality(Users) = 0 <=> Users = {}
  BY UsersFinite, FS_EmptySet
<1>2. Users = {} <=> \A t \in Thread : pc[t] \notin {"new", "destroy"}
  BY DEF Users
<1> QED  BY <1>1, <1>2, UsersFinite DEF TypeOK, CountInv

-----------------------------------------------------------------------------
LEMMA CountStep ==
    ASSUME TypeOK, CountInv, [Next]_vars
    PROVE  TypeOK' /\ CountInv'
<1>1. ASSUME NEW t \in Thread, Step(t)
      PROVE  TypeButExposed' /\ CountInv'
  <2> USE UsersFinite DEF CountInv
  <2>1. CASE Construct(t)
    <3>1. Goto(t, "globalInit")
      BY <2>1 DEF Construct
    <3>2. PICK place \in Constructing \cup Destroying \cup {"idle"} :
             place = ("globalInit") /\ Goto(t, place)
      BY <3>1 DEF Constructing, Destroying
    <3> QED  BY <2>1, <3>2, UsersStep DEF Construct, TypeOK, TypeButExposed
  <2>2. CASE GlobalInit(t)
    <3>1. Goto(t, IF initialized THEN "count" ELSE "libInit")
      BY <2>2 DEF GlobalInit
    <3>2. PICK place \in Constructing \cup Destroying \cup {"idle"} :
             place = (IF initialized THEN "count" ELSE "libInit") /\ Goto(t, place)
      BY <3>1 DEF Constructing, Destroying
    <3> QED  BY <2>2, <3>2, UsersStep DEF GlobalInit, TypeOK, TypeButExposed
  <2>3. CASE LibInit(t)
    <3>1. Goto(t, "count")
      BY <2>3 DEF LibInit
    <3>2. PICK place \in Constructing \cup Destroying \cup {"idle"} :
             place = ("count") /\ Goto(t, place)
      BY <3>1 DEF Constructing, Destroying
    <3> QED  BY <2>3, <3>2, UsersStep DEF LibInit, TypeOK, TypeButExposed
  <2>4. CASE Count(t)
    <3>1. Goto(t, "new")
      BY <2>4 DEF Count
    <3>2. PICK place \in Constructing \cup Destroying \cup {"idle"} :
             place = ("new") /\ Goto(t, place)
      BY <3>1 DEF Constructing, Destroying
    <3> QED  BY <2>4, <3>2, UsersStep DEF Count, TypeOK, TypeButExposed
  <2>5. CASE New(t)
    <3>1. Goto(t, "idle")
      BY <2>5 DEF New
    <3>2. PICK place \in Constructing \cup Destroying \cup {"idle"} :
             place = ("idle") /\ Goto(t, place)
      BY <3>1 DEF Constructing, Destroying
    <3> QED  BY <2>5, <3>2, UsersStep DEF New, TypeOK, TypeButExposed
  <2>6. CASE Destroy(t)
    <3>1. Goto(t, "destroy")
      BY <2>6 DEF Destroy
    <3>2. PICK place \in Constructing \cup Destroying \cup {"idle"} :
             place = ("destroy") /\ Goto(t, place)
      BY <3>1 DEF Constructing, Destroying
    <3> QED  BY <2>6, <3>2, UsersStep DEF Destroy, TypeOK, TypeButExposed
  <2>7. CASE Uncount(t)
    <3>1. Goto(t, IF count' = 0 THEN "globalCleanup" ELSE "idle")
      BY <2>7 DEF Uncount
    <3>2. PICK place \in Constructing \cup Destroying \cup {"idle"} :
             place = (IF count' = 0 THEN "globalCleanup" ELSE "idle") /\ Goto(t, place)
      BY <3>1 DEF Constructing, Destroying
    <3> QED  BY <2>7, <3>2, UsersStep DEF Uncount, TypeOK, TypeButExposed
  <2>8. CASE GlobalCleanup(t)
    <3>1. Goto(t, IF initialized THEN "libCleanup" ELSE "idle")
      BY <2>8 DEF GlobalCleanup
    <3>2. PICK place \in Constructing \cup Destroying \cup {"idle"} :
             place = (IF initialized THEN "libCleanup" ELSE "idle") /\ Goto(t, place)
      BY <3>1 DEF Constructing, Destroying
    <3>3. /\ pc' \in [Thread -> Constructing \cup Destroying \cup {"idle"}]
          /\ Cardinality(Users') = Cardinality(Users)
      BY <2>8, <3>1, <3>2, UsersStep DEF GlobalCleanup
    <3>4. initialized' \in BOOLEAN /\ ready' \in BOOLEAN
      BY Zenon, <2>8 DEF GlobalCleanup, TypeOK
    <3> QED  BY <2>8, <3>3, <3>4 DEF GlobalCleanup, TypeOK, TypeButExposed
  <2>9. CASE LibCleanup(t)
    <3>1. Goto(t, "idle")
      BY <2>9 DEF LibCleanup
    <3>2. PICK place \in Constructing \cup Destroying \cup {"idle"} :
             place = ("idle") /\ Goto(t, place)
      BY <3>1 DEF Constructing, Destroying
    <3>3. /\ pc' \in [Thread -> Constructing \cup Destroying \cup {"idle"}]
          /\ Cardinality(Users') = Cardinality(Users)
      BY <2>9, <3>1, <3>2, UsersStep DEF LibCleanup
    <3>4. initialized' \in BOOLEAN /\ ready' \in BOOLEAN
      BY Zenon, <2>9 DEF LibCleanup, TypeOK
    <3> QED  BY <2>9, <3>3, <3>4 DEF LibCleanup, TypeOK, TypeButExposed
  <2> QED  BY <1>1, <2>1, <2>2, <2>3, <2>4, <2>5, <2>6, <2>7, <2>8, <2>9 DEF Step
<1>2. CASE Next
  <2>1. PICK t \in Thread : Step(t)
    BY <1>2 DEF Next
  <2>2. exposed' \in BOOLEAN
    BY Zenon, <1>2 DEF Next
  <2>3. TypeOK' <=> TypeButExposed' /\ count' \in Nat /\ exposed' \in BOOLEAN
    BY Zenon DEF TypeOK, TypeButExposed
  <2>4. IsFiniteSet(Users') /\ Cardinality(Users') \in Nat
    <3>1. IsFiniteSet(Users')
      BY ThreadAssumption, FS_Subset DEF Users
    <3> QED  BY <3>1, FS_CardinalityType
  <2>5. count' \in Nat
    BY <1>1, <2>1, <2>4 DEF CountInv, TypeButExposed
  <2> QED  BY <1>1, <2>1, <2>2, <2>3, <2>5
<1>3. CASE UNCHANGED vars
  BY <1>3 DEF vars, Users, TypeOK, CountInv
<1> QED  BY <1>2, <1>3

\* Every step keeps the flag and the library in agreement with the counter.
LEMMA AgreeStep ==
    ASSUME Inv, [Next]_vars
    PROVE  AgreeInv'
<1>1. TypeOK /\ CountInv /\ AgreeInv /\ TypeOK' /\ CountInv'
  BY CountStep DEF Inv
<1>2. count = 0 <=> /\ buses = 0 /\ failed = 0
                    /\ \A t \in Thread : pc[t] \notin {"new", "destroy"}
  BY <1>1, CountedNobody
<1>3. count' = 0 <=> /\ buses' = 0 /\ failed' = 0
                     /\ \A t \in Thread : pc'[t] \notin {"new", "destroy"}
  <2>1. IsFiniteSet(Users') /\ Cardinality(Users') \in Nat
    <3>1. IsFiniteSet(Users')
      BY ThreadAssumption, FS_Subset DEF Users
    <3> QED  BY <3>1, FS_CardinalityType
  <2>2. Cardinality(Users') = 0 <=> Users' = {}
    BY <2>1, FS_EmptySet
  <2>3. Users' = {} <=> \A t \in Thread : pc'[t] \notin {"new", "destroy"}
    BY DEF Users
  <2> QED  BY <1>1, <2>1, <2>2, <2>3 DEF TypeOK, CountInv
<1>4. CASE Next
  <2>1. PICK t \in Thread : Step(t)
    BY <1>4 DEF Next
  <2> SUFFICES ASSUME ~exposed'
               PROVE  AgreeInv'
    BY DEF AgreeInv
  <2>2. ~exposed /\ ~Exposing'
    BY <1>4 DEF Next
  <2> USE <1>1, <1>2, <1>3, <2>2
      DEF TypeOK, AgreeInv, Exposing, Constructing, Destroying, Goto
  <2>3. CASE Construct(t)
    BY <2>3 DEF Construct
  <2>4. CASE GlobalInit(t)
    BY <2>4 DEF GlobalInit
  <2>5. CASE LibInit(t)
    BY <2>5 DEF LibInit
  <2>6. CASE Count(t)
    BY <2>6 DEF Count
  <2>7. CASE New(t)
    BY <2>7 DEF New
  <2>8. CASE Destroy(t)
    BY <2>8 DEF Destroy
  <2>9. CASE Uncount(t)
    BY <2>9 DEF Uncount
  <2>10. CASE GlobalCleanup(t)
    BY <2>10 DEF GlobalCleanup
  <2>11. CASE LibCleanup(t)
    BY <2>11 DEF LibCleanup
  <2> QED  BY <2>1, <2>3, <2>4, <2>5, <2>6, <2>7, <2>8, <2>9, <2>10, <2>11 DEF Step
<1>5. CASE UNCHANGED vars
  BY <1>1, <1>5 DEF AgreeInv, Exposing, vars
<1> QED  BY <1>4, <1>5

LEMMA Initially == Init => Inv
<1> SUFFICES ASSUME Init PROVE Inv  OBVIOUS
<1>1. TypeOK
  BY DEF Init, TypeOK
<1>2. Users = {}
  BY DEF Init, Users
<1>3. CountInv
  BY <1>2, FS_EmptySet DEF Init, CountInv
<1>4. AgreeInv
  BY DEF Init, AgreeInv, Exposing, Constructing
<1> QED  BY <1>1, <1>3, <1>4 DEF Inv

\* The inductive invariant holds of every behaviour (messagebus.cpp:18-68).
THEOREM InvHolds == Spec => []Inv
<1>1. Inv /\ [Next]_vars => Inv'
  BY CountStep, AgreeStep DEF Inv
<1> QED  BY <1>1, Initially, PTL DEF Spec

\* The flag, the counter, the places of the threads and the history keep their
\* types; the counter is a natural number (messagebus.cpp:8-9, 26, 48).
THEOREM TypeOKHolds == Spec => []TypeOK
<1>1. Inv => TypeOK
  BY DEF Inv
<1> QED  BY <1>1, InvHolds, PTL

\* g_instance_count is the number of constructed buses whose destructor has not
\* begun, of threads between their count and the end of mosquitto_new or
\* between the beginning of their destructor and its decrement, and of
\* constructors that threw (messagebus.cpp:26, 28-29, 38-51).
THEOREM CountHolds == Spec => []CountInv
<1>1. Inv => CountInv
  BY DEF Inv
<1> QED  BY <1>1, InvHolds, PTL

\* The library is cleaned up after the last bus, unless a constructor threw
\* (messagebus.cpp:26-29, 48-51, 62-67).
THEOREM CleanedUpHolds == Spec => []CleanedUp
<1>1. Inv => CleanedUp
  BY CountedNobody DEF Inv, TypeOK, AgreeInv, CleanedUp
<1> QED  BY <1>1, InvHolds, PTL
=============================================================================
