----------------------------- MODULE BusGlobal ------------------------------
(***************************************************************************)
(* The Mosquitto library below all buses of a process: the first           *)
(* MessageBus constructed initializes it, the last one destroyed cleans it *)
(* up (component/messagebusmosq).  A flag says that it is initialized, a   *)
(* counter how many buses use it, and no lock joins the two: a constructor *)
(* or destructor is a run of steps, and those of different threads         *)
(* interleave.                                                             *)
(***************************************************************************)
EXTENDS Naturals, FiniteSets

CONSTANTS
    Thread,         \* threads that construct and destroy buses
    MaxConstructs   \* bound: constructors begun

ASSUME ThreadAssumption == IsFiniteSet(Thread)

VARIABLES
    initialized,  \* g_initialized
    count,        \* g_instance_count
    ready,        \* the library: lib_init has run, lib_cleanup has not since
    buses,        \* constructed buses whose destructor has not begun
    pc,           \* thread -> where its constructor or destructor is
    constructs,   \* constructors begun
    failed,       \* history: constructors that threw
    exposed       \* history: see Exposing

vars == <<initialized, count, ready, buses, pc, constructs, failed, exposed>>

Constructing == {"globalInit", "libInit", "count", "new"}
Destroying == {"destroy", "globalCleanup", "libCleanup"}

Goto(t, place) == pc' = [pc EXCEPT ![t] = place]

Init ==
    /\ initialized = FALSE /\ count = 0 /\ ready = FALSE
    /\ buses = 0 /\ pc = [t \in Thread |-> "idle"]
    /\ constructs = 0 /\ failed = 0 /\ exposed = FALSE

-----------------------------------------------------------------------------
(* MessageBus::MessageBus *)

Construct(t) ==
    /\ pc[t] = "idle" /\ constructs < MaxConstructs
    /\ constructs' = constructs + 1
    /\ Goto(t, "globalInit")
    /\ UNCHANGED <<initialized, count, ready, buses, failed>>

\* g_initialized.exchange(true)
GlobalInit(t) ==
    /\ pc[t] = "globalInit"
    /\ initialized' = TRUE
    /\ Goto(t, IF initialized THEN "count" ELSE "libInit")
    /\ UNCHANGED <<count, ready, buses, constructs, failed>>

LibInit(t) ==
    /\ pc[t] = "libInit"
    /\ ready' = TRUE
    /\ Goto(t, "count")
    /\ UNCHANGED <<initialized, count, buses, constructs, failed>>

\* mutant: only the constructor that initializes counts
CountOnce(t) ==
    /\ pc[t] = "count"
    /\ count' = IF count = 0 THEN 1 ELSE count
    /\ Goto(t, "new")
    /\ UNCHANGED <<initialized, ready, buses, constructs, failed>>

Count(t) ==
    /\ pc[t] = "count"
    /\ count' = count + 1
    /\ Goto(t, "new")
    /\ UNCHANGED <<initialized, ready, buses, constructs, failed>>

\* mosquitto_new; without a client the constructor throws, no destructor
\* follows, and the counter keeps its share
New(t) ==
    /\ pc[t] = "new"
    /\ \/ buses' = buses + 1 /\ UNCHANGED failed
       \/ failed' = failed + 1 /\ UNCHANGED buses
    /\ Goto(t, "idle")
    /\ UNCHANGED <<initialized, count, ready, constructs>>

-----------------------------------------------------------------------------
(* MessageBus::~MessageBus *)

\* disconnect and mosquitto_destroy; they use the library
Destroy(t) ==
    /\ pc[t] = "idle" /\ buses > 0
    /\ buses' = buses - 1
    /\ Goto(t, "destroy")
    /\ UNCHANGED <<initialized, count, ready, constructs, failed>>

\* mutant: the last but one cleans up
UncountEarly(t) ==
    /\ pc[t] = "destroy"
    /\ count' = count - 1
    /\ Goto(t, IF count' <= 1 THEN "globalCleanup" ELSE "idle")
    /\ UNCHANGED <<initialized, ready, buses, constructs, failed>>

Uncount(t) ==
    /\ pc[t] = "destroy"
    /\ count' = count - 1
    /\ Goto(t, IF count' = 0 THEN "globalCleanup" ELSE "idle")
    /\ UNCHANGED <<initialized, ready, buses, constructs, failed>>

\* mutant: the flag is looked at and not reset
GlobalCleanupKeepsFlag(t) ==
    /\ pc[t] = "globalCleanup"
    /\ Goto(t, IF initialized THEN "libCleanup" ELSE "idle")
    /\ UNCHANGED <<initialized, count, ready, buses, constructs, failed>>

\* g_initialized.exchange(false)
GlobalCleanup(t) ==
    /\ pc[t] = "globalCleanup"
    /\ initialized' = FALSE
    /\ Goto(t, IF initialized THEN "libCleanup" ELSE "idle")
    /\ UNCHANGED <<count, ready, buses, constructs, failed>>

LibCleanup(t) ==
    /\ pc[t] = "libCleanup"
    /\ ready' = FALSE
    /\ Goto(t, "idle")
    /\ UNCHANGED <<initialized, count, buses, constructs, failed>>

-----------------------------------------------------------------------------
\* A constructor runs beside another thread's constructor or destructor, and
\* no bus outside them holds the library.
Exposing ==
    /\ buses = 0
    /\ \E t, u \in Thread : t # u /\ pc[t] \in Constructing /\ pc[u] # "idle"

Step(t) ==
    \/ Construct(t) \/ GlobalInit(t) \/ LibInit(t) \/ Count(t) \/ New(t)
    \/ Destroy(t) \/ Uncount(t) \/ GlobalCleanup(t) \/ LibCleanup(t)

Next ==
    /\ \E t \in Thread : Step(t)
    /\ exposed' = (exposed \/ Exposing')

Spec == Init /\ [][Next]_vars

-----------------------------------------------------------------------------
(* Properties *)

TypeOK ==
    /\ initialized \in BOOLEAN /\ count \in Nat /\ ready \in BOOLEAN
    /\ buses \in Nat /\ constructs \in Nat /\ failed \in Nat
    /\ pc \in [Thread -> Constructing \cup Destroying \cup {"idle"}]
    /\ exposed \in BOOLEAN

\* "Must be called before any other mosquitto functions" (mosquitto_lib_init,
\* mosquitto.h:259): whoever is in mosquitto_new or mosquitto_destroy finds the
\* library initialized, whatever constructors and destructors overlap
\* (messagebus.cpp:25-28, 44-51, 54-68).
InitializedFirst == \A t \in Thread : pc[t] \in {"new", "destroy"} => ready

\* Whoever uses the library finds it initialized, a bus in use as well as one
\* in mosquitto_new or mosquitto_destroy, and nobody is inside the library
\* while it is initialized or cleaned up ("Must be called before any other
\* mosquitto functions", "not thread safe", mosquitto.h:259-261).  Destructors
\* may overlap as they like, constructors too as long as some bus exists
\* meanwhile; without one the flag is set before lib_init has run, and a second
\* constructor does not wait for it (messagebus.cpp:25-28, 48-51, 56-67).
LibraryReady ==
    ~exposed =>
        /\ buses > 0 => ready
        /\ \A t \in Thread :
             /\ pc[t] \in {"new", "destroy"} => ready
             /\ pc[t] \in {"libInit", "libCleanup"} =>
                  /\ buses = 0
                  /\ \A u \in Thread \ {t} :
                       pc[u] \notin {"new", "destroy", "libInit", "libCleanup"}

\* The last destructor cleans up, and leaves the flag so that the next
\* constructor initializes again.  A constructor that threw has counted
\* itself for ever: from then on nobody does (messagebus.cpp:26-29, 48-51).
CleanedUp ==
    ~exposed /\ buses = 0 /\ (\A t \in Thread : pc[t] = "idle")
        => IF failed = 0 THEN ~ready /\ ~initialized ELSE ready /\ initialized
=============================================================================
