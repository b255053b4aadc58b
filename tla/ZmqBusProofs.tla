---------------------------- MODULE ZmqBusProofs ----------------------------
(***************************************************************************)
(* For any threads, texts and numbers of initializations and messages:     *)
(* clients and contexts live exactly as long as something shares them, a   *)
(* received frame is the topic and the content of one message, and a first *)
(* subscription behind a receive waits until a signal ends the receive.    *)
(***************************************************************************)
EXTENDS ZmqBus, FiniteSetTheorems, SequenceTheorems, TLAPS

-----------------------------------------------------------------------------
(* Shares *)

Receivers(k, g) == {t \in Thread : op[t] = "recv" /\ UsesClient(t, k, g)}
One(condition) == IF condition THEN 1 ELSE 0
Clients(g) == {k \in Kind : client[k][g] \in Exists}

\* The use counts count what they should.
ShareInv ==
    /\ \A k \in Kind, g \in Generation :
          /\ uses[k][g] = One(global[k] = g) + Cardinality(Receivers(k, g))
          /\ client[k][g] \in Exists <=> uses[k][g] > 0
    /\ \A g \in Generation :
          contextUses[g] = One(gcontext = g) + Cardinality(Clients(g))

\* A call other than mb_recv runs outside mb_ipc_init and on a global.
CallInv ==
    \A t \in Thread :
        /\ pc[t] = "idle" <=> op[t] = "none"
        /\ pc[t] # "idle" /\ op[t] # "recv" =>
              ipc = "idle" /\ global[op[t]] = ref[t]

\* Nothing refers to the generation under way before it is made, and the
\* globals before mb_ipc_init's position have been reset.
InitInv ==
    /\ ipc # "idle" => gen > 0 /\ \A t \in Thread : ref[t] < gen
    /\ gcontext <= gen /\ \A k \in Kind : global[k] <= gen
    /\ \A t \in Thread : ref[t] <= gen
    /\ ipc \in {"reset", "context"} => gcontext < gen
    /\ ipc \in {"reset", "context", "urls"} => \A k \in Kind : global[k] < gen
    /\ ipc = "reset" => \A j \in 1..(at - 1) : global[Order[j]] = 0
    /\ ipc \in {"context", "urls"} => at = 1 /\ \A k \in Kind : global[k] = 0
    /\ ipc = "make" => \A j \in at..4 : global[Order[j]] = 0

LifeInv == TypeOK /\ ShareInv /\ CallInv /\ InitInv

-----------------------------------------------------------------------------
(* Messages *)

PartType == [msg : Nat, content : BOOLEAN, text : Topic \cup Content \cup {Empty}]
DataTypes ==
    /\ sending \in [Generation -> Seq(PartType)]
    /\ inbox \in [Generation -> Seq(Seq(PartType))]
    /\ parts \in [Thread -> Seq(PartType)]

\* Of two calls that use one client at most one is inside its critical section.
Exclusive ==
    \A t, u \in Thread :
        t # u /\ pc[t] # "idle" /\ pc[u] # "idle"
            /\ KindOf(op[t]) = KindOf(op[u]) /\ ref[t] = ref[u]
        => safe[ref[t]] /\ ~(Inside(t) /\ Inside(u))

\* What arrives: topics left over from messages without content, then the topic
\* and the content of one message, from some part on.
Frame(f) ==
    /\ f # <<>>
    /\ f[Len(f)].content = TRUE
    /\ \A i \in 1..(Len(f) - 1) : f[i].content = FALSE
    /\ \A i \in 1..(Len(f) - 2) : f[i].msg \in torn
    /\ Len(f) > 1 => f[Len(f) - 1].msg = f[Len(f)].msg

\* Before the content is sent a publisher holds such topics only, and at last
\* the one whose content is being sent.
SendInv ==
    /\ \A g \in Generation : \A i \in 1..Len(sending[g]) :
          /\ sending[g][i].content = FALSE
          /\ sending[g][i].msg \in torn
             \/ /\ i = Len(sending[g])
                /\ \E t \in Thread : pc[t] = "content" /\ ref[t] = g
    /\ \A t \in Thread : pc[t] = "content" =>
          /\ op[t] = "pub" /\ sending[ref[t]] # <<>> /\ parts[t] # <<>>
          /\ parts[t][1] = sending[ref[t]][Len(sending[ref[t]])]

\* A receive that is not through continues the frame it has begun.
Continues(t) ==
    /\ inbox[ref[t]] # <<>>
    /\ parts[t][1].content = FALSE
    /\ \/ parts[t][1].msg \in torn
       \/ /\ Len(parts[t]) = 1 /\ Len(inbox[ref[t]][1]) = 1
          /\ inbox[ref[t]][1][1].msg = parts[t][1].msg

ReceiveInv ==
    /\ \A g \in Generation : \A i \in 1..Len(inbox[g]) : Frame(inbox[g][i])
    /\ \A t \in Thread : pc[t] = "part" => op[t] = "recv"
    /\ \A t \in Thread : pc[t] = "part" /\ parts[t] # <<>> => Continues(t)
    /\ \A t \in Thread : pc[t] \in {"idle", "lock"} => parts[t] = <<>>

MessageInv == DataTypes /\ Exclusive /\ SendInv /\ ReceiveInv /\ FramesWhole

-----------------------------------------------------------------------------
(* Counting *)

Held(k, g) == One(global[k] = g) + Cardinality(Receivers(k, g))

LEMMA ReceiversFinite ==
    ASSUME NEW k, NEW g
    PROVE  /\ IsFiniteSet(Receivers(k, g)) /\ Cardinality(Receivers(k, g)) \in Nat
           /\ Held(k, g) \in Nat
<1>1. IsFiniteSet(Receivers(k, g))
  BY ThreadFinite, FS_Subset DEF ThreadFinite, Receivers
<1>2. Cardinality(Receivers(k, g)) \in Nat
  BY <1>1, FS_CardinalityType
<1> QED  BY <1>1, <1>2 DEF Held, One

LEMMA KindFinite == IsFiniteSet(Kind)
<1>1. IsFiniteSet({}) /\ Kind = ((({} \cup {"pub"}) \cup {"sub"}) \cup {"pull"}) \cup {"push"}
  BY FS_EmptySet DEF Kind
<1> QED  BY <1>1, FS_AddElement

LEMMA ClientsFinite ==
    ASSUME NEW g
    PROVE  IsFiniteSet(Clients(g)) /\ Cardinality(Clients(g)) \in Nat
<1>1. IsFiniteSet(Clients(g))
  BY KindFinite, FS_Subset DEF Clients
<1> QED  BY <1>1, FS_CardinalityType

ShareTypes ==
    /\ client \in [Kind -> [Generation -> Exists \cup {"none"}]]
    /\ uses \in [Kind -> [Generation -> Nat]]
    /\ contextUses \in [Generation -> Nat]

LEMMA PickType == ASSUME TypeOK PROVE ShareTypes
BY DEF TypeOK, ShareTypes

\* A share is given back by whoever held it.
LEMMA ShareDropped ==
    ASSUME ShareTypes, ShareInv, NEW k \in Kind, NEW g \in Generation, Drop(k, g),
           gcontext' = gcontext, Held(k, g)' = Held(k, g) - 1,
           Held(k, g)' \in Nat,
           \A kk \in Kind, gg \in Generation :
               kk # k \/ gg # g => Held(kk, gg)' = Held(kk, gg)
    PROVE  ShareTypes' /\ ShareInv'
<1>1. Held(k, g) = uses[k][g] /\ uses[k][g] \in Nat /\ uses[k][g] - 1 \in Nat
  BY ReceiversFinite DEF ShareInv, Held, ShareTypes
<1>2. uses' = [uses EXCEPT ![k][g] = uses[k][g] - 1]
  BY DEF Drop
<1>3. /\ uses' \in [Kind -> [Generation -> Nat]]
      /\ uses'[k][g] = uses[k][g] - 1
      /\ \A kk \in Kind, gg \in Generation :
             kk # k \/ gg # g => uses'[kk][gg] = uses[kk][gg]
  BY <1>1, <1>2 DEF ShareTypes
<1>4. \A kk \in Kind, gg \in Generation : uses'[kk][gg] = Held(kk, gg)'
  BY <1>1, <1>3 DEF ShareInv, Held
<1>5. CASE uses[k][g] = 1
  <2>1. /\ client' = [client EXCEPT ![k][g] = "none"]
        /\ contextUses' = [contextUses EXCEPT ![g] = contextUses[g] - 1]
    BY <1>5 DEF Drop
  <2>2. client' \in [Kind -> [Generation -> Exists \cup {"none"}]]
    BY <2>1 DEF ShareTypes
  <2>3. "none" \notin Exists
    BY DEF Exists, Open
  <2>4. \A kk \in Kind, gg \in Generation :
            client'[kk][gg] = IF kk = k /\ gg = g THEN "none" ELSE client[kk][gg]
    BY <2>1 DEF ShareTypes
  <2>5. k \in Clients(g) /\ Clients(g)' = Clients(g) \ {k}
        /\ \A gg \in Generation : gg # g => Clients(gg)' = Clients(gg)
    BY <1>5, <2>3, <2>4 DEF Clients, ShareInv
  <2>6. /\ Cardinality(Clients(g)') = Cardinality(Clients(g)) - 1
        /\ Cardinality(Clients(g)') \in Nat
    <3>1. IsFiniteSet(Clients(g) \ {k})
          /\ Cardinality(Clients(g) \ {k}) = Cardinality(Clients(g)) - 1
      BY <2>5, ClientsFinite, FS_RemoveElement
    <3> QED  BY <2>5, <3>1, FS_CardinalityType
  <2>7. /\ contextUses[g] = One(gcontext = g) + Cardinality(Clients(g))
        /\ contextUses'[g] = contextUses[g] - 1
        /\ \A gg \in Generation : gg # g => contextUses'[gg] = contextUses[gg]
    BY <2>1 DEF ShareInv, ShareTypes
  <2>8. /\ contextUses'[g] = One(gcontext' = g) + Cardinality(Clients(g)')
        /\ contextUses'[g] \in Nat
    BY <2>6, <2>7, ClientsFinite DEF One
  <2>9. contextUses' \in [Generation -> Nat]
    BY <2>1, <2>7, <2>8 DEF ShareTypes
  <2>10. ASSUME NEW gg \in Generation
         PROVE  contextUses'[gg] = One(gcontext' = gg) + Cardinality(Clients(gg)')
    <3>1. CASE gg = g
      BY <2>8, <3>1
    <3>2. CASE gg # g
      <4>1. contextUses[gg] = One(gcontext = gg) + Cardinality(Clients(gg))
        BY DEF ShareInv
      <4> QED  BY <2>5, <2>7, <3>2, <4>1 DEF One
    <3> QED  BY <3>1, <3>2
  <2>11. \A kk \in Kind, gg \in Generation :
            client'[kk][gg] \in Exists <=> uses'[kk][gg] > 0
    BY <1>3, <1>5, <2>3, <2>4 DEF ShareInv
  <2> QED  BY <1>3, <1>4, <2>2, <2>9, <2>10, <2>11 DEF ShareTypes, ShareInv, Held
<1>6. CASE uses[k][g] # 1
  <2>1. UNCHANGED <<client, contextUses>>
    BY <1>6 DEF Drop
  <2>2. \A kk \in Kind, gg \in Generation :
            client'[kk][gg] \in Exists <=> uses'[kk][gg] > 0
    BY <1>1, <1>3, <1>6, <2>1 DEF ShareInv
  <2>3. \A gg \in Generation : Clients(gg)' = Clients(gg)
    BY <2>1 DEF Clients
  <2> QED  BY <1>3, <1>4, <2>1, <2>2, <2>3 DEF ShareTypes, ShareInv, Held
<1> QED  BY <1>5, <1>6

\* Nobody takes or gives back a share.
LEMMA ShareKept ==
    ASSUME ShareTypes, ShareInv, UNCHANGED <<lifeVars, gcontext>>,
           \A k \in Kind, g \in Generation : Held(k, g)' = Held(k, g)
    PROVE  ShareTypes' /\ ShareInv'
<1>1. \A g \in Generation : Clients(g)' = Clients(g)
  BY DEF Clients, lifeVars
<1> QED  BY <1>1 DEF ShareTypes, ShareInv, Held, lifeVars

\* the part of TypeOK that says nothing of shares
RestTypes ==
    /\ gen \in 0..MaxInits /\ safe \in [Generation -> BOOLEAN] /\ asked \subseteq Kind
    /\ ipc \in {"idle", "reset", "context", "urls", "make"} /\ at \in 1..4
    /\ global \in [Kind -> 0..MaxInits] /\ gcontext \in 0..MaxInits
    /\ op \in [Thread -> Operation \cup {"none"}]
    /\ pc \in [Thread -> {"idle", "lock", "content", "part", "return", "pull"}]
    /\ ref \in [Thread -> 0..MaxInits]
    /\ \A t \in Thread : pc[t] # "idle" => ref[t] # 0
DataOK ==
    /\ torn \subseteq Nat /\ published \in Nat /\ pushed \in Nat
    /\ pulls \in [Generation -> Nat]
    /\ subscribed \in [Generation -> SUBSET (Topic \cup {Empty})]

LEMMA TypeParts == TypeOK <=> RestTypes /\ DataOK /\ ShareTypes
BY DEF TypeOK, RestTypes, DataOK, ShareTypes

LEMMA DropData ==
    ASSUME DataOK, NEW k, NEW g, Drop(k, g), UNCHANGED historyVars
    PROVE  DataOK'
<1>1. CASE Close(k, g)
  BY <1>1 DEF DataOK, Close, historyVars
<1>2. CASE UNCHANGED socketVars
  BY <1>2 DEF DataOK, socketVars, historyVars
<1> QED  BY <1>1, <1>2 DEF Drop

-----------------------------------------------------------------------------
(* Lifetimes under the steps of a call *)

Places == {"lock", "content", "part", "return", "pull"}

\* A step inside a call.
LEMMA LifeInside ==
    ASSUME LifeInv, NEW t \in Thread, NEW place \in Places, pc[t] # "idle",
           UNCHANGED <<initVars, lifeVars, op, ref>>, Goto(t, place), DataOK'
    PROVE  LifeInv'
<1>1. \A u \in Thread : pc'[u] = "idle" <=> pc[u] = "idle"
  BY DEF LifeInv, TypeOK, Goto, Places
<1>2. \A k \in Kind, g \in Generation : Held(k, g)' = Held(k, g)
  <2>1. \A k \in Kind, g \in Generation : Receivers(k, g)' = Receivers(k, g)
    BY <1>1 DEF Receivers, UsesClient
  <2> QED  BY <2>1 DEF Held, One, initVars
<1>3. ShareTypes' /\ ShareInv'
  BY <1>2, TypeParts, ShareKept DEF LifeInv, initVars
<1>4. RestTypes'
  BY <1>1, TypeParts DEF LifeInv, RestTypes, initVars, Goto, Places
<1>5. CallInv' /\ InitInv'
  BY <1>1 DEF LifeInv, CallInv, InitInv, initVars
<1> QED  BY <1>3, <1>4, <1>5 DEF LifeInv, TypeOK, RestTypes, DataOK, ShareTypes

LEMMA Returned ==
    ASSUME RestTypes, NEW t \in Thread, Return(t)
    PROVE  /\ pc'[t] = "idle" /\ op'[t] = "none" /\ ref'[t] = 0
           /\ \A u \in Thread \ {t} :
                 pc'[u] = pc[u] /\ op'[u] = op[u] /\ ref'[u] = ref[u]
BY DEF RestTypes, Return, Goto

LEMMA ReturnTypes ==
    ASSUME LifeInv, NEW t \in Thread, UNCHANGED initVars, Return(t)
    PROVE  RestTypes' /\ CallInv' /\ InitInv'
<1>1. RestTypes
  BY TypeParts DEF LifeInv
<1>2. RestTypes'
  <2>1. /\ op' \in [Thread -> Operation \cup {"none"}]
        /\ pc' \in [Thread -> {"idle", "lock", "content", "part", "return", "pull"}]
    BY <1>1 DEF RestTypes, Return, Goto
  <2>2. ref' \in [Thread -> 0..MaxInits]
    BY <1>1, InitAssumption DEF RestTypes, Return, InitAssumption
  <2>3. \A u \in Thread : pc'[u] # "idle" => ref'[u] # 0
    BY <1>1, Returned DEF RestTypes
  <2> QED  BY <1>1, <2>1, <2>2, <2>3 DEF RestTypes, initVars
<1>3. CallInv'
  BY <1>1, Returned DEF LifeInv, CallInv, initVars
<1>4. InitInv'
  BY <1>1, Returned DEF LifeInv, InitInv, initVars, RestTypes
<1> QED  BY <1>2, <1>3, <1>4

\* A call that shares nothing returns.
LEMMA LifeLeaves ==
    ASSUME LifeInv, NEW t \in Thread, op[t] # "recv",
           UNCHANGED <<initVars, lifeVars>>, Return(t), DataOK'
    PROVE  LifeInv'
<1>1. RestTypes
  BY TypeParts DEF LifeInv
<1>2. \A k \in Kind, g \in Generation : Receivers(k, g)' = Receivers(k, g)
  BY <1>1, Returned DEF Receivers, UsesClient
<1>3. \A k \in Kind, g \in Generation : Held(k, g)' = Held(k, g)
  BY <1>2 DEF Held, One, initVars
<1>4. ShareTypes' /\ ShareInv'
  BY <1>3, TypeParts, ShareKept DEF LifeInv, initVars
<1> QED  BY <1>4, ReturnTypes
         DEF LifeInv, TypeOK, RestTypes, DataOK, ShareTypes

\* mb_recv returns and gives its share back.
LEMMA LifeGivesBack ==
    ASSUME LifeInv, NEW t \in Thread, op[t] = "recv", pc[t] # "idle",
           NEW g \in Generation, g = ref[t], Drop("sub", g), UNCHANGED <<initVars, historyVars>>, Return(t)
    PROVE  LifeInv'
<1>1. RestTypes /\ DataOK /\ ShareTypes
  BY TypeParts DEF LifeInv
<1>2. "sub" \in Kind
  BY DEF Kind
<1>3. /\ t \in Receivers("sub", g)
      /\ Receivers("sub", g)' = Receivers("sub", g) \ {t}
      /\ \A k \in Kind, gg \in Generation :
            k # "sub" \/ gg # g => Receivers(k, gg)' = Receivers(k, gg)
  BY <1>1, Returned DEF Receivers, UsesClient, KindOf
<1>4. /\ Cardinality(Receivers("sub", g)') =
             Cardinality(Receivers("sub", g)) - 1
      /\ Cardinality(Receivers("sub", g)') \in Nat
      /\ Cardinality(Receivers("sub", g)) \in Nat
  <2> DEFINE S == Receivers("sub", g)
  <2>1. IsFiniteSet(S) /\ Cardinality(S) \in Nat
    BY ReceiversFinite
  <2>2. IsFiniteSet(S \ {t}) /\ Cardinality(S \ {t}) = Cardinality(S) - 1
    BY <1>3, <2>1, FS_RemoveElement
  <2> QED  BY <1>3, <2>1, <2>2, FS_CardinalityType
<1>5. /\ Held("sub", g)' = Held("sub", g) - 1
      /\ Held("sub", g)' \in Nat
  <2>1. One(global'["sub"] = g) = One(global["sub"] = g)
        /\ One(global["sub"] = g) \in Nat
    BY DEF One, initVars
  <2> QED  BY <1>4, <2>1 DEF Held
<1>6. \A k \in Kind, gg \in Generation :
          k # "sub" \/ gg # g => Held(k, gg)' = Held(k, gg)
  BY <1>3 DEF Held, One, initVars
<1>7. ShareTypes' /\ ShareInv'
  BY <1>1, <1>2, <1>5, <1>6, ShareDropped DEF LifeInv, initVars
<1>8. DataOK'
  BY <1>1, DropData
<1> QED  BY <1>7, <1>8, ReturnTypes
         DEF LifeInv, TypeOK, RestTypes, DataOK, ShareTypes

\* A call begins; mb_recv takes a share.
LEMMA LifeCall ==
    ASSUME LifeInv, NEW t \in Thread, NEW o \in Operation, Call(t, o)
    PROVE  LifeInv'
<1> USE DEF Operation
<1>1. RestTypes /\ DataOK /\ ShareTypes
  BY TypeParts DEF LifeInv
<1>2. KindOf(o) \in Kind
  BY DEF KindOf, Kind
<1>3. PICK g \in Generation : g = global[KindOf(o)]
  <2>1. global[KindOf(o)] \in 0..MaxInits /\ global[KindOf(o)] # 0
    BY <1>1, <1>2 DEF RestTypes, Call
  <2> QED  BY <2>1, InitAssumption DEF Generation, InitAssumption
<1>4. /\ ipc = "idle" /\ pc[t] = "idle" /\ op' = [op EXCEPT ![t] = o]
      /\ pc' = [pc EXCEPT ![t] = "lock"] /\ ref' = [ref EXCEPT ![t] = g]
      /\ uses' = IF o = "recv" THEN [uses EXCEPT !["sub"][g] = @ + 1] ELSE uses
      /\ UNCHANGED <<initVars, client, contextUses, socketVars, historyVars>>
  BY <1>3 DEF Call, KindOf
<1>5. /\ op'[t] = o /\ pc'[t] = "lock" /\ ref'[t] = g
      /\ \A u \in Thread \ {t} :
            pc'[u] = pc[u] /\ op'[u] = op[u] /\ ref'[u] = ref[u]
  BY <1>1, <1>4 DEF RestTypes
<1>6. RestTypes'
  <2>1. /\ op' \in [Thread -> Operation \cup {"none"}]
        /\ pc' \in [Thread -> {"idle", "lock", "content", "part", "return", "pull"}]
    BY <1>1, <1>4 DEF RestTypes
  <2>2. ref' \in [Thread -> 0..MaxInits]
    BY <1>1, <1>4, InitAssumption DEF RestTypes, InitAssumption, Generation
  <2>3. \A u \in Thread : pc'[u] # "idle" => ref'[u] # 0
    BY <1>1, <1>5, InitAssumption DEF RestTypes, InitAssumption, Generation
  <2> QED  BY <1>1, <1>4, <2>1, <2>2, <2>3 DEF RestTypes, initVars
<1>7. DataOK'
  BY <1>1, <1>4 DEF DataOK, socketVars, historyVars
<1>8. CallInv'
  <2>1. o # "none"
    OBVIOUS
  <2>2. o # "recv" => global[o] = g
    BY <1>3 DEF KindOf
  <2> QED  BY <1>4, <1>5, <2>1, <2>2 DEF LifeInv, CallInv, initVars
<1>9. InitInv'
  <2>1. g <= gen
    BY <1>2, <1>3 DEF LifeInv, InitInv
  <2> QED  BY <1>4, <1>5, <2>1 DEF LifeInv, InitInv, initVars
<1>10. t \notin Receivers("sub", g)
  BY <1>4 DEF Receivers, UsesClient
<1>11. ShareTypes' /\ ShareInv'
  <2>1. CASE o # "recv"
    <3>1. \A kk \in Kind, gg \in Generation : Receivers(kk, gg)' = Receivers(kk, gg)
      BY <1>4, <1>5, <2>1 DEF Receivers, UsesClient, LifeInv, CallInv
    <3>2. \A kk \in Kind, gg \in Generation : Held(kk, gg)' = Held(kk, gg)
      BY <1>4, <3>1 DEF Held, One, initVars
    <3> QED  BY <1>1, <1>4, <2>1, <3>2, ShareKept DEF LifeInv, lifeVars, initVars
  <2>2. CASE o = "recv"
    <3>1. "sub" \in Kind /\ global["sub"] = g
      BY <1>3, <2>2 DEF Kind, KindOf
    <3>2. /\ Receivers("sub", g)' = Receivers("sub", g) \cup {t}
          /\ \A kk \in Kind, gg \in Generation :
                kk # "sub" \/ gg # g => Receivers(kk, gg)' = Receivers(kk, gg)
      BY <1>4, <1>5, <2>2 DEF Receivers, UsesClient, KindOf
    <3>3. Held("sub", g)' = Held("sub", g) + 1
      <4>1. Cardinality(Receivers("sub", g) \cup {t}) = Cardinality(Receivers("sub", g)) + 1
        BY <1>10, ReceiversFinite, FS_AddElement
      <4>2. One(global'["sub"] = g) = One(global["sub"] = g)
            /\ One(global["sub"] = g) \in Nat
        BY <1>4 DEF One, initVars
      <4>3. Cardinality(Receivers("sub", g)) \in Nat
        BY ReceiversFinite
      <4>4. Cardinality(Receivers("sub", g)') = Cardinality(Receivers("sub", g)) + 1
        BY <3>2, <4>1
      <4> QED  BY <4>2, <4>3, <4>4 DEF Held
    <3>4. \A kk \in Kind, gg \in Generation :
              kk # "sub" \/ gg # g => Held(kk, gg)' = Held(kk, gg)
      BY <1>4, <3>2 DEF Held, One, initVars
    <3>5. /\ uses' \in [Kind -> [Generation -> Nat]]
          /\ uses'["sub"][g] = uses["sub"][g] + 1
          /\ \A kk \in Kind, gg \in Generation :
                kk # "sub" \/ gg # g => uses'[kk][gg] = uses[kk][gg]
      BY <1>1, <1>4, <2>2, <3>1 DEF ShareTypes
    <3>6. \A kk \in Kind, gg \in Generation : uses'[kk][gg] = Held(kk, gg)'
      BY <3>1, <3>3, <3>4, <3>5 DEF LifeInv, ShareInv, Held
    <3>7. uses["sub"][g] > 0
      <4>1. Cardinality(Receivers("sub", g)) \in Nat
        BY ReceiversFinite
      <4> QED  BY <3>1, <4>1 DEF LifeInv, ShareInv, One
    <3>8. \A kk \in Kind, gg \in Generation :
              client'[kk][gg] \in Exists <=> uses'[kk][gg] > 0
      BY <1>1, <1>4, <3>5, <3>7 DEF LifeInv, ShareInv, ShareTypes
    <3>9. \A gg \in Generation : Clients(gg)' = Clients(gg)
      BY <1>4 DEF Clients
    <3>10. \A gg \in Generation :
              contextUses'[gg] = One(gcontext' = gg) + Cardinality(Clients(gg)')
      BY <1>4, <3>9 DEF LifeInv, ShareInv, initVars
    <3> QED  BY <1>1, <1>4, <3>5, <3>6, <3>8, <3>10 DEF ShareTypes, ShareInv, Held
  <2> QED  BY <2>1, <2>2
<1> QED  BY <1>6, <1>7, <1>8, <1>9, <1>11
         DEF LifeInv, TypeOK, RestTypes, DataOK, ShareTypes

LEMMA LifeCallStep ==
    ASSUME LifeInv, DataTypes, SendInv, NEW t \in Thread, CallStep(t)
    PROVE  LifeInv'
<1> USE DEF Places
<1>1. RestTypes /\ DataOK
  BY TypeParts DEF LifeInv
<1>2. pc[t] # "idle" => ref[t] \in Generation
  BY <1>1, InitAssumption DEF RestTypes, Generation, InitAssumption
<1>3. ASSUME NEW topic \in Topic \cup {Empty}, PublishTopic(t, topic) PROVE LifeInv'
  <2>1. DataOK'
    BY <1>1, <1>3 DEF PublishTopic, DataOK
  <2> QED  BY <1>3, <2>1, LifeInside DEF PublishTopic, MayEnter
<1>4. ASSUME NEW topics \in SUBSET (Topic \cup {Empty}), Subscribe(t, topics)
      PROVE  LifeInv'
  <2>1. DataOK'
    BY <1>1, <1>4 DEF Subscribe, DataOK
  <2> QED  BY <1>4, <2>1, LifeLeaves DEF Subscribe
<1>5. ASSUME NEW content \in Content \cup {Empty}, PublishContent(t, content)
      PROVE  LifeInv'
  <2>1. parts[t] \in Seq(PartType) /\ parts[t] # <<>>
    BY <1>5 DEF PublishContent, DataTypes, SendInv
  <2>2. parts[t][1] \in PartType
    BY <2>1
  <2>3. parts[t][1].msg \in Nat
    BY <2>2 DEF PartType
  <2>4. DataOK'
    BY <1>1, <1>5, <2>3 DEF PublishContent, DataOK
  <2> QED  BY <1>5, <2>4, LifeLeaves DEF PublishContent
<1>6. CASE Push(t)
  <2>1. DataOK'
    BY <1>1, <1>6 DEF Push, DataOK
  <2> QED  BY <1>6, <2>1, LifeLeaves DEF Push
<1>7. CASE Pull(t)
  <2>1. DataOK'
    <3>1. \A g \in Generation : pulls'[g] \in Nat
      BY <1>1, <1>7 DEF Pull, DataOK
    <3>2. pulls' \in [Generation -> Nat]
      BY <1>1, <1>7, <3>1 DEF Pull, DataOK
    <3> QED  BY <1>1, <1>7, <3>2 DEF Pull, DataOK
  <2> QED  BY <1>7, <2>1, LifeLeaves DEF Pull
<1>8. CASE PullEnter(t) \/ ReceiveEnter(t)
  <2>1. DataOK'
    BY <1>1, <1>8 DEF PullEnter, ReceiveEnter, DataOK, socketVars, historyVars
  <2> QED  BY <1>8, <2>1, LifeInside DEF PullEnter, ReceiveEnter, MayEnter
<1>9. CASE ReceivePart(t)
  <2>1. DataOK'
    BY <1>1, <1>9 DEF ReceivePart, DataOK
  <2>2. \E place \in Places : Goto(t, place)
    BY <1>9 DEF ReceivePart
  <2> QED  BY <1>9, <2>1, <2>2, LifeInside DEF ReceivePart
<1>10. CASE ReceiveReturn(t)
  BY <1>2, <1>10, LifeGivesBack DEF ReceiveReturn
<1>11. CASE Fail(t)
  <2>1. CASE op[t] = "recv"
    BY <1>2, <1>11, <2>1, LifeGivesBack DEF Fail, MayEnter
  <2>2. CASE op[t] # "recv"
    <3>1. DataOK'
      BY <1>1, <1>11, <2>2 DEF Fail, DataOK, socketVars, historyVars
    <3> QED  BY <1>11, <2>2, <3>1, LifeLeaves DEF Fail
  <2> QED  BY <2>1, <2>2
<1>12. CASE Interrupt(t)
  <2>1. DataOK'
    BY <1>1, <1>12 DEF Interrupt, DataOK, socketVars, historyVars
  <2>2. CASE op[t] = "recv"
    BY <1>12, <2>1, <2>2, LifeInside DEF Interrupt
  <2>3. CASE op[t] # "recv"
    BY <1>12, <2>1, <2>3, LifeLeaves DEF Interrupt
  <2> QED  BY <2>2, <2>3
<1> QED  BY <1>3, <1>4, <1>5, <1>6, <1>7, <1>8, <1>9, <1>10, <1>11, <1>12 DEF CallStep

-----------------------------------------------------------------------------
(* Lifetimes under the steps of mb_ipc_init *)

LEMMA OrderKind ==
    /\ \A j \in 1..4 : Order[j] \in Kind
    /\ \A k \in Kind : \E j \in 1..4 : Order[j] = k
    /\ \A i, j \in 1..4 : Order[i] = Order[j] => i = j
    /\ Len(Order) = 4
BY DEF Order, Kind

LEMMA HeldKept ==
    ASSUME UNCHANGED callVars, NEW k, NEW g, One(global'[k] = g) = One(global[k] = g)
    PROVE  Held(k, g)' = Held(k, g)
<1>1. Receivers(k, g)' = Receivers(k, g)
  BY DEF Receivers, UsesClient, callVars
<1> QED  BY <1>1 DEF Held

LEMMA LifeBegin ==
    ASSUME LifeInv, NEW threadSafe \in BOOLEAN, NEW flag \in Flags,
           InitBegin(threadSafe, flag)
    PROVE  LifeInv'
<1>1. RestTypes /\ DataOK /\ ShareTypes
  BY TypeParts DEF LifeInv
<1>2. RestTypes'
  <2>1. gen + 1 \in Generation /\ gen' \in 0..MaxInits
    BY <1>1, InitAssumption DEF RestTypes, InitBegin, Generation, InitAssumption
  <2>2. safe' \in [Generation -> BOOLEAN] /\ asked' \subseteq Kind
    BY <1>1, <2>1, FlagAssumption DEF RestTypes, InitBegin, FlagAssumption
  <2> QED  BY <1>1, <2>1, <2>2 DEF RestTypes, InitBegin, callVars
<1>3. DataOK'
  BY <1>1 DEF DataOK, InitBegin, socketVars, historyVars
<1>4. CallInv'
  BY DEF LifeInv, CallInv, InitBegin, callVars
<1>5. InitInv'
  BY <1>1, InitAssumption
  DEF LifeInv, InitInv, InitBegin, callVars, RestTypes, InitAssumption
<1>6. \A k \in Kind, g \in Generation : Held(k, g)' = Held(k, g)
  BY HeldKept DEF InitBegin
<1>7. ShareTypes' /\ ShareInv'
  BY <1>1, <1>6, ShareKept DEF LifeInv, InitBegin
<1> QED  BY <1>2, <1>3, <1>4, <1>5, <1>7
         DEF LifeInv, TypeOK, RestTypes, DataOK, ShareTypes

LEMMA LifeFetchSkip ==
    ASSUME LifeInv, FetchUrls \/ Skip
    PROVE  LifeInv'
<1>1. RestTypes /\ DataOK /\ ShareTypes
  BY TypeParts DEF LifeInv
<1>2. /\ UNCHANGED <<gen, safe, global, gcontext, lifeVars, callVars, socketVars,
                     historyVars>>
      /\ asked' \subseteq Kind /\ ipc # "idle" /\ at' \in 1..4
      /\ \/ ipc = "urls" /\ ipc' = "make" /\ at' = at
         \/ ipc' = "idle"
         \/ ipc = "make" /\ ipc' = "make" /\ at' = at + 1
  BY <1>1, OrderKind DEF FetchUrls, Skip, NextKind, RestTypes
<1>3. RestTypes' /\ DataOK'
  BY <1>1, <1>2 DEF RestTypes, DataOK, callVars, socketVars, historyVars
<1>4. CallInv'
  BY <1>2 DEF LifeInv, CallInv, callVars
<1>5. InitInv'
  <2> USE DEF LifeInv, InitInv, callVars
  <2>1. CASE ipc' = "idle"
    BY <1>2, <2>1
  <2>2. CASE ipc = "urls" /\ ipc' = "make" /\ at' = at
    BY <1>2, <2>2, OrderKind
  <2>3. CASE ipc = "make" /\ ipc' = "make" /\ at' = at + 1
    <3>1. \A j \in at'..4 : j \in at..4
      BY <1>1, <2>3 DEF RestTypes
    <3>2. \A j \in at'..4 : global'[Order[j]] = 0
      BY <1>2, <2>3, <3>1
    <3> QED  BY <1>2, <2>3, <3>2
  <2> QED  BY <1>2, <2>1, <2>2, <2>3
<1>6. \A k \in Kind, g \in Generation : Held(k, g)' = Held(k, g)
  BY <1>2, HeldKept
<1>7. ShareTypes' /\ ShareInv'
  BY <1>1, <1>2, <1>6, ShareKept DEF LifeInv
<1> QED  BY <1>3, <1>4, <1>5, <1>7
         DEF LifeInv, TypeOK, RestTypes, DataOK, ShareTypes

LEMMA LifeReset == ASSUME LifeInv, Reset PROVE LifeInv'
<1>1. RestTypes /\ DataOK /\ ShareTypes /\ ipc = "reset"
  BY TypeParts DEF LifeInv, Reset
<1>2. PICK k \in Kind : k = Order[at]
  BY <1>1, OrderKind DEF RestTypes
<1>3. /\ global' = [global EXCEPT ![k] = 0]
      /\ IF global[k] # 0 THEN Drop(k, global[k]) ELSE UNCHANGED <<lifeVars, socketVars>>
      /\ IF at < 4 THEN at' = at + 1 /\ ipc' = "reset" ELSE at' = 1 /\ ipc' = "context"
      /\ UNCHANGED <<gen, safe, asked, gcontext, callVars, historyVars>>
  BY <1>1, <1>2, OrderKind DEF Reset, NextKind
<1>4. RestTypes'
  BY <1>1, <1>3, InitAssumption DEF RestTypes, callVars, InitAssumption
<1>5. DataOK'
  BY <1>1, <1>3, DropData DEF DataOK, socketVars, historyVars
<1>6. CallInv'
  BY <1>1, <1>3 DEF LifeInv, CallInv, callVars
<1>7. InitInv'
  <2>1. \A j \in 1..at : global'[Order[j]] = 0
    <3>1. \A j \in 1..at : Order[j] \in Kind /\ (j = at \/ j \in 1..(at - 1))
      BY <1>1, OrderKind DEF RestTypes
    <3> QED  BY <1>1, <1>2, <1>3, <3>1 DEF LifeInv, InitInv, RestTypes
  <2>2. \A kk \in Kind : global'[kk] = global[kk] \/ global'[kk] = 0
    BY <1>1, <1>3 DEF RestTypes
  <2>3. \A kk \in Kind : global'[kk] <= gen /\ global'[kk] < gen
    BY <1>1, <2>2, InitAssumption DEF LifeInv, InitInv, RestTypes, InitAssumption
  <2>4. CASE at < 4
    <3>1. at' = at + 1 /\ ipc' = "reset" /\ at' - 1 = at
      BY <1>1, <1>3, <2>4 DEF RestTypes
    <3> QED  BY <1>1, <1>3, <2>1, <2>3, <3>1 DEF LifeInv, InitInv, callVars
  <2>5. CASE at = 4
    <3>1. at' = 1 /\ ipc' = "context"
      BY <1>3, <2>5
    <3>2. \A kk \in Kind : global'[kk] = 0
      BY <2>1, <2>5, OrderKind
    <3> QED  BY <1>1, <1>3, <2>3, <3>1, <3>2 DEF LifeInv, InitInv, callVars
  <2> QED  BY <1>1, <2>4, <2>5 DEF RestTypes
<1>8. ShareTypes' /\ ShareInv'
  <2>1. CASE global[k] = 0
    <3>1. \A kk \in Kind : global'[kk] = global[kk]
      BY <1>1, <1>3, <2>1 DEF RestTypes
    <3>2. \A kk \in Kind, gg \in Generation : Held(kk, gg)' = Held(kk, gg)
      BY <1>3, <3>1, HeldKept
    <3> QED  BY <1>1, <1>3, <2>1, <3>2, ShareKept DEF LifeInv
  <2>2. CASE global[k] # 0
    <3>1. PICK g \in Generation : g = global[k]
      BY <1>1, <2>2, InitAssumption DEF RestTypes, Generation, InitAssumption
    <3>2. g # 0 /\ Drop(k, g)
      BY <1>3, <2>2, <3>1
    <3>3. Held(k, g)' = Held(k, g) - 1 /\ Held(k, g)' \in Nat
      <4>1. One(global'[k] = g) = 0 /\ One(global[k] = g) = 1
        BY <1>1, <1>3, <3>1, <3>2 DEF One, RestTypes
      <4>2. Receivers(k, g)' = Receivers(k, g)
        BY <1>3 DEF Receivers, UsesClient, callVars
      <4>3. Cardinality(Receivers(k, g)) \in Nat
        BY ReceiversFinite
      <4> QED  BY <4>1, <4>2, <4>3 DEF Held
    <3>4. ASSUME NEW kk \in Kind, NEW gg \in Generation, kk # k \/ gg # g
          PROVE  Held(kk, gg)' = Held(kk, gg)
      <4>1. gg # 0
        BY InitAssumption DEF Generation, InitAssumption
      <4>2. One(global'[kk] = gg) = One(global[kk] = gg)
        BY <1>1, <1>3, <3>1, <3>4, <4>1 DEF One, RestTypes
      <4> QED  BY <1>3, <4>2, HeldKept
    <3> QED  BY <1>1, <1>3, <3>2, <3>3, <3>4, ShareDropped DEF LifeInv
  <2> QED  BY <2>1, <2>2
<1> QED  BY <1>4, <1>5, <1>6, <1>7, <1>8
         DEF LifeInv, TypeOK, RestTypes, DataOK, ShareTypes

\* The generation under way has no client before mb_ipc_init makes one.
LEMMA NothingMade ==
    ASSUME LifeInv, ipc # "idle", NEW k \in Kind, global[k] < gen, NEW g, g = gen,
           g \in Generation
    PROVE  Receivers(k, g) = {} /\ Held(k, g) = 0 /\ k \notin Clients(g)
<1>1. RestTypes
  BY TypeParts DEF LifeInv
<1>2. Receivers(k, g) = {}
  BY <1>1 DEF Receivers, UsesClient, LifeInv, InitInv, RestTypes
<1>3. Held(k, g) = 0
  <2>1. One(global[k] = g) = 0
    BY <1>1 DEF One, RestTypes
  <2> QED  BY <1>2, <2>1, FS_EmptySet DEF Held
<1>4. k \notin Clients(g)
  BY <1>3 DEF Held, LifeInv, ShareInv, Clients
<1> QED  BY <1>2, <1>3, <1>4

LEMMA LifeContext == ASSUME LifeInv, NewContext PROVE LifeInv'
<1>1. RestTypes /\ DataOK /\ ShareTypes /\ ipc = "context"
  BY TypeParts DEF LifeInv, NewContext
<1>2. PICK g \in Generation : g = gen
  BY <1>1, InitAssumption DEF LifeInv, InitInv, RestTypes, Generation, InitAssumption
<1>3. /\ contextUses' = [h \in Generation |->
            CASE h = g -> 1 [] h = gcontext -> contextUses[h] - 1
              [] OTHER -> contextUses[h]]
      /\ gcontext' = g /\ gcontext # g /\ ipc' = "urls"
      /\ UNCHANGED <<gen, safe, asked, at, global, client, uses, callVars,
                     socketVars, historyVars>>
  BY <1>1, <1>2 DEF NewContext, LifeInv, InitInv, RestTypes
<1>4. RestTypes' /\ DataOK'
  BY <1>1, <1>2, <1>3, InitAssumption
  DEF RestTypes, DataOK, callVars, socketVars, historyVars, InitAssumption
<1>5. CallInv'
  BY <1>1, <1>3 DEF LifeInv, CallInv, callVars
<1>6. InitInv'
  BY <1>1, <1>2, <1>3, InitAssumption
  DEF LifeInv, InitInv, callVars, RestTypes, InitAssumption
<1>7. \A k \in Kind, h \in Generation : Held(k, h)' = Held(k, h)
  BY <1>3, HeldKept
<1>8. \A h \in Generation : Clients(h)' = Clients(h)
  BY <1>3 DEF Clients
<1>9. Clients(g) = {}
  <2>1. \A k \in Kind : global[k] < gen
    BY <1>1 DEF LifeInv, InitInv
  <2>2. \A k \in Kind : k \notin Clients(g)
    BY <1>1, <1>2, <2>1, NothingMade
  <2> QED  BY <2>2 DEF Clients
<1>10. ASSUME NEW h \in Generation
       PROVE  /\ contextUses'[h] = One(gcontext' = h) + Cardinality(Clients(h)')
              /\ contextUses'[h] \in Nat
  <2>1. contextUses[h] = One(gcontext = h) + Cardinality(Clients(h))
    BY DEF LifeInv, ShareInv
  <2>2. Cardinality(Clients(h)) \in Nat
    BY ClientsFinite
  <2>3. CASE h = g
    <3>1. contextUses'[h] = 1 /\ One(gcontext' = h) = 1
      BY <1>3, <2>3 DEF One
    <3>2. Cardinality(Clients(h)') = 0
      BY <1>8, <1>9, <2>3, FS_EmptySet
    <3> QED  BY <3>1, <3>2
  <2>4. CASE h # g /\ h = gcontext
    <3>1. contextUses'[h] = contextUses[h] - 1
      BY <1>3, <2>4
    <3>2. One(gcontext' = h) = 0 /\ One(gcontext = h) = 1
      BY <1>3, <2>4 DEF One
    <3> QED  BY <1>8, <2>1, <2>2, <3>1, <3>2
  <2>5. CASE h # g /\ h # gcontext
    <3>1. contextUses'[h] = contextUses[h]
      BY <1>3, <2>5
    <3>2. One(gcontext' = h) = 0 /\ One(gcontext = h) = 0
      BY <1>3, <2>5 DEF One
    <3> QED  BY <1>8, <2>1, <2>2, <3>1, <3>2
  <2> QED  BY <2>3, <2>4, <2>5
<1>11. contextUses' \in [Generation -> Nat]
  <2>1. DOMAIN contextUses' = Generation /\ contextUses' = [h \in Generation |-> contextUses'[h]]
    BY <1>3
  <2> QED  BY <1>10, <2>1
<1>12. ShareTypes' /\ ShareInv'
  BY <1>1, <1>3, <1>7, <1>10, <1>11 DEF LifeInv, ShareTypes, ShareInv, Held
<1> QED  BY <1>4, <1>5, <1>6, <1>12
         DEF LifeInv, TypeOK, RestTypes, DataOK, ShareTypes

LEMMA LifeMake ==
    ASSUME LifeInv, NEW outcome \in Exists, Make(outcome)
    PROVE  LifeInv'
<1>1. RestTypes /\ DataOK /\ ShareTypes /\ ipc = "make"
  BY TypeParts DEF LifeInv, Make
<1>2. PICK k \in Kind : k = Order[at]
  BY <1>1, OrderKind DEF RestTypes
<1>3. PICK g \in Generation : g = gen
  BY <1>1, InitAssumption DEF LifeInv, InitInv, RestTypes, Generation, InitAssumption
<1>4. /\ global' = [global EXCEPT ![k] = g]
      /\ client' = [client EXCEPT ![k][g] = outcome]
      /\ uses' = [uses EXCEPT ![k][g] = 1]
      /\ contextUses' = [contextUses EXCEPT ![g] = contextUses[g] + 1]
      /\ UNCHANGED <<gen, safe, gcontext, callVars, socketVars, historyVars>>
      /\ asked' \subseteq Kind /\ at' \in 1..4
      /\ ipc' = "idle" \/ (ipc' = "make" /\ at' = at + 1)
  BY <1>1, <1>2, <1>3, OrderKind DEF Make, NextKind, RestTypes
<1>5. /\ global[k] = 0 /\ g > 0
      /\ \A kk \in Kind : global'[kk] = IF kk = k THEN g ELSE global[kk]
  BY <1>1, <1>2, <1>3, <1>4, InitAssumption
  DEF LifeInv, InitInv, RestTypes, Generation, InitAssumption
<1>6. Receivers(k, g) = {} /\ Held(k, g) = 0 /\ k \notin Clients(g)
  BY <1>1, <1>3, <1>5, NothingMade
<1>7. RestTypes' /\ DataOK'
  BY <1>1, <1>3, <1>4 DEF RestTypes, DataOK, callVars, socketVars, historyVars
<1>8. CallInv'
  BY <1>1, <1>4 DEF LifeInv, CallInv, callVars
<1>9. InitInv'
  <2>1. \A kk \in Kind : global'[kk] <= gen
    BY <1>1, <1>3, <1>5 DEF LifeInv, InitInv, RestTypes
  <2>2. ASSUME ipc' = "make", NEW j \in at'..4 PROVE global'[Order[j]] = 0
    <3>1. j \in at..4 /\ j # at /\ j \in 1..4 /\ at \in 1..4
      BY <1>1, <1>4, <2>2 DEF RestTypes
    <3>2. Order[j] \in Kind /\ Order[j] # k
      BY <1>2, <3>1, OrderKind
    <3> QED  BY <1>1, <1>5, <3>1, <3>2 DEF LifeInv, InitInv
  <2> QED  BY <1>1, <1>4, <2>1, <2>2 DEF LifeInv, InitInv, callVars
<1>9a. "none" \notin Exists
  BY DEF Exists, Open
<1>10. /\ Held(k, g)' = 1
       /\ \A kk \in Kind, gg \in Generation :
             kk # k \/ gg # g => Held(kk, gg)' = Held(kk, gg)
  <2>1. Receivers(k, g)' = {}
    BY <1>4, <1>6 DEF Receivers, UsesClient, callVars
  <2>2. One(global'[k] = g) = 1
    BY <1>5 DEF One
  <2>3. Held(k, g)' = 1
    BY <2>1, <2>2, FS_EmptySet DEF Held
  <2>4. ASSUME NEW kk \in Kind, NEW gg \in Generation, kk # k \/ gg # g
        PROVE  Held(kk, gg)' = Held(kk, gg)
    <3>1. gg # 0
      BY InitAssumption DEF Generation, InitAssumption
    <3>2. One(global'[kk] = gg) = One(global[kk] = gg)
      BY <1>5, <2>4, <3>1 DEF One
    <3> QED  BY <1>4, <3>2, HeldKept
  <2> QED  BY <2>3, <2>4
<1>11. /\ uses' \in [Kind -> [Generation -> Nat]]
       /\ \A kk \in Kind, gg \in Generation :
             uses'[kk][gg] = IF kk = k /\ gg = g THEN 1 ELSE uses[kk][gg]
       /\ client' \in [Kind -> [Generation -> Exists \cup {"none"}]]
       /\ \A kk \in Kind, gg \in Generation :
             client'[kk][gg] = IF kk = k /\ gg = g THEN outcome ELSE client[kk][gg]
  BY <1>1, <1>4 DEF ShareTypes
<1>12. \A kk \in Kind, gg \in Generation : uses'[kk][gg] = Held(kk, gg)'
  BY <1>10, <1>11 DEF LifeInv, ShareInv, Held
<1>13. \A kk \in Kind, gg \in Generation :
          client'[kk][gg] \in Exists <=> uses'[kk][gg] > 0
  BY <1>11 DEF LifeInv, ShareInv
<1>14. /\ Clients(g)' = Clients(g) \cup {k}
       /\ \A gg \in Generation : gg # g => Clients(gg)' = Clients(gg)
  BY <1>11 DEF Clients
<1>15. /\ Cardinality(Clients(g)') = Cardinality(Clients(g)) + 1
       /\ Cardinality(Clients(g)) \in Nat
  <2>1. Cardinality(Clients(g) \cup {k}) = Cardinality(Clients(g)) + 1
    BY <1>6, ClientsFinite, FS_AddElement
  <2> QED  BY <1>14, <2>1, ClientsFinite
<1>16. ASSUME NEW gg \in Generation
       PROVE  /\ contextUses'[gg] = One(gcontext' = gg) + Cardinality(Clients(gg)')
              /\ contextUses'[gg] \in Nat
  <2>1. /\ contextUses[gg] = One(gcontext = gg) + Cardinality(Clients(gg))
        /\ contextUses[gg] \in Nat
        /\ One(gcontext' = gg) = One(gcontext = gg) /\ One(gcontext = gg) \in Nat
    BY <1>1, <1>4 DEF LifeInv, ShareInv, ShareTypes, One
  <2>2. contextUses'[gg] = IF gg = g THEN contextUses[gg] + 1 ELSE contextUses[gg]
    BY <1>1, <1>4 DEF ShareTypes
  <2>3. CASE gg = g
    BY <1>15, <2>1, <2>2, <2>3
  <2>4. CASE gg # g
    BY <1>14, <2>1, <2>2, <2>4
  <2> QED  BY <2>3, <2>4
<1>17. contextUses' \in [Generation -> Nat]
  BY <1>1, <1>4, <1>16 DEF ShareTypes
<1>18. ShareTypes' /\ ShareInv'
  BY <1>11, <1>12, <1>13, <1>16, <1>17 DEF ShareTypes, ShareInv, Held
<1> QED  BY <1>7, <1>8, <1>9, <1>18
         DEF LifeInv, TypeOK, RestTypes, DataOK, ShareTypes

-----------------------------------------------------------------------------
(* Messages: steps that send and receive nothing *)

\* The last share is nobody else's.
LEMMA SoleShare ==
    ASSUME LifeInv, NEW k \in Kind, NEW g \in Generation, uses[k][g] = 1
    PROVE  /\ global[k] = g => Receivers(k, g) = {}
           /\ \A t \in Receivers(k, g) : Receivers(k, g) = {t}
<1> DEFINE S == Receivers(k, g)
<1>1. /\ uses[k][g] = One(global[k] = g) + Cardinality(S)
      /\ IsFiniteSet(S) /\ Cardinality(S) \in Nat
  BY ReceiversFinite DEF LifeInv, ShareInv
<1>2. ASSUME global[k] = g PROVE S = {}
  <2>1. Cardinality(S) = 0
    BY <1>1, <1>2 DEF One
  <2> QED  BY <1>1, <2>1, FS_EmptySet
<1>3. ASSUME NEW t \in S PROVE S = {t}
  <2>1. IsFiniteSet(S \ {t}) /\ Cardinality(S \ {t}) = Cardinality(S) - 1
    BY <1>1, FS_RemoveElement
  <2>2. Cardinality(S \ {t}) \in Nat
    BY <2>1, FS_CardinalityType
  <2>3. One(global[k] = g) \in Nat
    BY DEF One
  <2>4. Cardinality(S \ {t}) = 0
    BY <1>1, <2>1, <2>2, <2>3
  <2>5. S \ {t} = {}
    BY <2>1, <2>4, FS_EmptySet
  <2> QED  BY <2>5
<1> QED  BY <1>2, <1>3

\* Torn messages stay torn.
LEMMA FrameKept ==
    ASSUME NEW f, Frame(f), torn \subseteq torn'
    PROVE  Frame(f)'
BY DEF Frame

\* Calls go on as they are or return, and a socket that nobody is sending on
\* or receiving from may be emptied.
LEMMA MessageRests ==
    ASSUME LifeInv, MessageInv, DataTypes', torn' = torn,
           \A t \in Thread :
              /\ \/ /\ pc'[t] = pc[t] /\ op'[t] = op[t]
                    /\ ref'[t] = ref[t] /\ parts'[t] = parts[t]
                 \/ /\ pc'[t] = "idle" /\ op'[t] = "none" /\ parts'[t] = <<>>
                    /\ pc[t] # "content"
              /\ pc[t] # "idle" => safe'[ref[t]] = safe[ref[t]],
           \A g \in Generation :
              /\ \/ sending'[g] = sending[g]
                 \/ /\ sending'[g] = <<>>
                    /\ \A t \in Thread : pc[t] = "content" => ref[t] # g
              /\ \/ inbox'[g] = inbox[g]
                 \/ /\ inbox'[g] = <<>>
                    /\ \A t \in Thread : pc'[t] = "part" => ref[t] # g
    PROVE  MessageInv'
<1>1. \A t \in Thread : pc[t] # "idle" => ref[t] \in Generation
  BY InitAssumption DEF LifeInv, TypeOK, Generation, InitAssumption
<1>2. Exclusive'
  BY DEF MessageInv, Exclusive, Inside
<1>3. SendInv'
  <2>1. ASSUME NEW t \in Thread, pc'[t] = "content"
        PROVE  /\ op'[t] = "pub" /\ sending'[ref'[t]] # <<>> /\ parts'[t] # <<>>
               /\ parts'[t][1] = sending'[ref'[t]][Len(sending'[ref'[t]])]
    BY <1>1, <2>1 DEF MessageInv, SendInv
  <2>2. ASSUME NEW g \in Generation, NEW i \in 1..Len(sending'[g])
        PROVE  /\ sending'[g][i].content = FALSE
               /\ sending'[g][i].msg \in torn'
                  \/ /\ i = Len(sending'[g])
                     /\ \E t \in Thread : pc'[t] = "content" /\ ref'[t] = g
    <3>1. sending'[g] = sending[g]
      BY <2>2
    <3> QED  BY <2>2, <3>1 DEF MessageInv, SendInv
  <2> QED  BY <2>1, <2>2 DEF SendInv
<1>4. ReceiveInv'
  <2>1. ASSUME NEW g \in Generation, NEW i \in 1..Len(inbox'[g]) PROVE (Frame(inbox[g][i]))'
    <3>1. inbox'[g] = inbox[g]
      BY <2>1
    <3>2. PICK f : f = inbox[g][i]
      OBVIOUS
    <3>3. Frame(f)
      BY <2>1, <3>1, <3>2 DEF MessageInv, ReceiveInv
    <3>4. Frame(f)'
      BY <3>3 DEF Frame
    <3> QED  BY <3>1, <3>2, <3>4 DEF Frame
  <2>2. ASSUME NEW t \in Thread, pc'[t] = "part", parts'[t] # <<>> PROVE Continues(t)'
    <3>1. inbox'[ref[t]] = inbox[ref[t]] /\ ref'[t] = ref[t] /\ parts'[t] = parts[t]
          /\ pc[t] = "part"
      BY <1>1, <2>2
    <3> QED  BY <2>2, <3>1 DEF MessageInv, ReceiveInv, Continues
  <2> QED  BY <2>1, <2>2 DEF MessageInv, ReceiveInv
<1>5. FramesWhole'
  BY DEF MessageInv, FramesWhole
<1> QED  BY <1>2, <1>3, <1>4, <1>5 DEF MessageInv

\* What closing a socket empties.
LEMMA Dropped ==
    ASSUME DataTypes, NEW k \in Kind, NEW g \in Generation, Drop(k, g)
    PROVE  /\ sending' \in [Generation -> Seq(PartType)]
           /\ inbox' \in [Generation -> Seq(Seq(PartType))]
           /\ \A h \in Generation :
                 /\ \/ sending'[h] = sending[h]
                    \/ k = "pub" /\ h = g /\ uses[k][g] = 1 /\ sending'[h] = <<>>
                 /\ \/ inbox'[h] = inbox[h]
                    \/ k = "sub" /\ h = g /\ uses[k][g] = 1 /\ inbox'[h] = <<>>
<1>1. <<>> \in Seq(PartType) /\ <<>> \in Seq(Seq(PartType))
  OBVIOUS
<1>2. CASE uses[k][g] = 1 /\ Close(k, g)
  BY <1>1, <1>2 DEF DataTypes, Close
<1>3. CASE UNCHANGED socketVars
  BY <1>3 DEF DataTypes, socketVars
<1> QED  BY <1>2, <1>3 DEF Drop

LEMMA MessageInit ==
    ASSUME LifeInv, MessageInv,
           (\E threadSafe \in BOOLEAN, flag \in Flags : InitBegin(threadSafe, flag))
           \/ InitStep
    PROVE  MessageInv'
<1>1. RestTypes
  BY TypeParts DEF LifeInv
<1>2. UNCHANGED callVars /\ torn' = torn
  BY DEF InitBegin, InitStep, Reset, NewContext, FetchUrls, Skip, Make, historyVars
<1>3. \A t \in Thread : pc[t] # "idle" => safe'[ref[t]] = safe[ref[t]]
  <2>1. CASE \E threadSafe \in BOOLEAN, flag \in Flags : InitBegin(threadSafe, flag)
    <3>1. \A t \in Thread : ref[t] # gen + 1
      BY <1>1 DEF LifeInv, InitInv, RestTypes
    <3> QED  BY <1>1, <2>1, <3>1 DEF InitBegin, RestTypes
  <2>2. CASE InitStep
    BY <2>2 DEF InitStep, Reset, NewContext, FetchUrls, Skip, Make
  <2> QED  BY <2>1, <2>2
<1>4. CASE Reset /\ global[Order[at]] # 0
  <2>1. PICK k \in Kind : k = Order[at]
    BY <1>1, OrderKind DEF RestTypes
  <2>2. PICK g \in Generation : g = global[k]
    BY <1>1, <1>4, <2>1, InitAssumption DEF RestTypes, Generation, InitAssumption
  <2>3. Drop(k, g) /\ ipc = "reset"
    BY <1>4, <2>1, <2>2 DEF Reset
  <2>4. \A t \in Thread : pc[t] # "content"
    BY <2>3 DEF LifeInv, CallInv, MessageInv, SendInv
  <2>5. ASSUME k = "sub", uses[k][g] = 1, NEW t \in Thread, pc[t] = "part"
        PROVE  ref[t] # g
    <3>1. Receivers(k, g) = {}
      BY <2>2, <2>5, SoleShare
    <3> QED  BY <2>5, <3>1 DEF Receivers, UsesClient, KindOf, MessageInv, ReceiveInv
  <2>6. DataTypes'
    BY <1>2, <2>3, Dropped DEF MessageInv, DataTypes, callVars
  <2>7. \A h \in Generation :
          /\ sending'[h] = sending[h] \/ sending'[h] = <<>>
          /\ \/ inbox'[h] = inbox[h]
             \/ inbox'[h] = <<>> /\ \A t \in Thread : pc[t] = "part" => ref[t] # h
    BY <2>3, <2>5, Dropped DEF MessageInv
  <2> QED  BY <1>2, <1>3, <2>4, <2>6, <2>7, MessageRests DEF callVars
<1>5. CASE ~(Reset /\ global[Order[at]] # 0)
  <2>1. UNCHANGED socketVars
    BY <1>5 DEF InitBegin, InitStep, Reset, NewContext, FetchUrls, Skip, Make
  <2>2. DataTypes'
    BY <1>2, <2>1 DEF MessageInv, DataTypes, callVars, socketVars
  <2> QED  BY <1>2, <1>3, <2>1, <2>2, MessageRests DEF callVars, socketVars
<1> QED  BY <1>4, <1>5

\* A call that has sent nothing, or received a frame, returns.
LEMMA MessageLeaves ==
    ASSUME LifeInv, MessageInv, NEW t \in Thread, Return(t), pc[t] # "content",
           safe' = safe, torn' = torn,
           \/ sending' = sending /\ inbox' = inbox
           \/ op[t] = "recv" /\ pc[t] # "idle" /\ Drop("sub", ref[t])
    PROVE  MessageInv'
<1>1. RestTypes
  BY TypeParts DEF LifeInv
<1>2. /\ pc'[t] = "idle" /\ op'[t] = "none"
      /\ \A u \in Thread \ {t} :
            pc'[u] = pc[u] /\ op'[u] = op[u] /\ ref'[u] = ref[u]
  BY <1>1, Returned
<1>3. /\ parts' \in [Thread -> Seq(PartType)] /\ parts'[t] = <<>>
      /\ \A u \in Thread \ {t} : parts'[u] = parts[u]
  <2>1. <<>> \in Seq(PartType)
    OBVIOUS
  <2> QED  BY <2>1 DEF Return, MessageInv, DataTypes
<1>4. CASE sending' = sending /\ inbox' = inbox
  <2>1. DataTypes'
    BY <1>3, <1>4 DEF MessageInv, DataTypes
  <2> QED  BY <1>2, <1>3, <1>4, <2>1, MessageRests
<1>5. CASE op[t] = "recv" /\ pc[t] # "idle" /\ Drop("sub", ref[t])
  <2>1. PICK g \in Generation : g = ref[t]
    BY <1>1, <1>5, InitAssumption DEF RestTypes, Generation, InitAssumption
  <2>2. "sub" \in Kind /\ Drop("sub", g)
    BY <1>5, <2>1 DEF Kind
  <2>3. DataTypes'
    BY <1>3, <2>2, Dropped DEF MessageInv, DataTypes
  <2>4. ASSUME uses["sub"][g] = 1, NEW u \in Thread, pc'[u] = "part" PROVE ref[u] # g
    <3>1. Receivers("sub", g) = {t}
      BY <1>5, <2>1, <2>2, <2>4, SoleShare DEF Receivers, UsesClient, KindOf
    <3>2. u # t /\ op[u] = "recv" /\ pc[u] = "part"
      BY <1>2, <2>4 DEF MessageInv, ReceiveInv
    <3> QED  BY <3>1, <3>2 DEF Receivers, UsesClient, KindOf
  <2>5. \A h \in Generation :
          /\ sending'[h] = sending[h]
          /\ \/ inbox'[h] = inbox[h]
             \/ inbox'[h] = <<>> /\ \A u \in Thread : pc'[u] = "part" => ref[u] # h
    BY <2>2, <2>4, Dropped DEF MessageInv
  <2> QED  BY <1>2, <1>3, <2>3, <2>5, MessageRests
<1> QED  BY <1>4, <1>5

\* A call begins, or takes the lock and waits for what it is to receive.
LEMMA MessageMoves ==
    ASSUME LifeInv, MessageInv, NEW t \in Thread, NEW place \in Places,
           Goto(t, place), UNCHANGED <<safe, socketVars, historyVars, parts>>,
           \A u \in Thread \ {t} : op'[u] = op[u] /\ ref'[u] = ref[u],
           pc[t] \in {"idle", "lock"}, place \in {"lock", "part", "pull"},
           place = "part" => op'[t] = "recv",
           \A u \in Thread \ {t} :
              pc[u] # "idle" /\ KindOf(op'[t]) = KindOf(op[u]) /\ ref'[t] = ref[u]
              => safe[ref[u]] /\ (place = "lock" \/ ~Inside(u))
    PROVE  MessageInv'
<1>1. RestTypes
  BY TypeParts DEF LifeInv
<1>2. pc'[t] = place /\ \A u \in Thread \ {t} : pc'[u] = pc[u]
  BY <1>1 DEF RestTypes, Goto, Places
<1>3. parts[t] = <<>> /\ parts' = parts /\ sending' = sending /\ inbox' = inbox
      /\ torn' = torn /\ safe' = safe
  BY DEF MessageInv, ReceiveInv, socketVars, historyVars
<1>4. DataTypes'
  BY <1>3 DEF MessageInv, DataTypes
<1>5. Exclusive'
  BY <1>2, <1>3 DEF MessageInv, Exclusive, Inside
<1>6. SendInv'
  <2>1. ASSUME NEW u \in Thread PROVE pc'[u] = "content" <=> u # t /\ pc[u] = "content"
    BY <1>2
  <2>2. pc[t] # "content"
    OBVIOUS
  <2> QED  BY <1>3, <2>1, <2>2 DEF MessageInv, SendInv
<1>7. ReceiveInv'
  <2>1. ASSUME NEW g \in Generation, NEW i \in 1..Len(inbox[g])
        PROVE  (Frame(inbox[g][i]))'
    <3>1. PICK f : f = inbox[g][i]
      OBVIOUS
    <3>2. Frame(f)'
      BY <1>3, <3>1, FrameKept DEF MessageInv, ReceiveInv
    <3> QED  BY <1>3, <3>1, <3>2 DEF Frame
  <2>2. \A u \in Thread : pc'[u] = "part" => op'[u] = "recv"
    BY <1>2 DEF MessageInv, ReceiveInv
  <2>3. ASSUME NEW u \in Thread, pc'[u] = "part", parts'[u] # <<>> PROVE Continues(u)'
    <3>1. u # t /\ pc[u] = "part" /\ ref'[u] = ref[u]
      BY <1>2, <1>3, <2>3
    <3> QED  BY <1>3, <2>3, <3>1 DEF MessageInv, ReceiveInv, Continues
  <2>4. \A u \in Thread : pc'[u] \in {"idle", "lock"} => parts'[u] = <<>>
    BY <1>2, <1>3 DEF MessageInv, ReceiveInv
  <2> QED  BY <1>3, <2>1, <2>2, <2>3, <2>4 DEF ReceiveInv
<1>8. FramesWhole'
  BY <1>2, <1>3 DEF MessageInv, FramesWhole
<1> QED  BY <1>4, <1>5, <1>6, <1>7, <1>8 DEF MessageInv

LEMMA MessageCall ==
    ASSUME LifeInv, MessageInv, NEW t \in Thread, NEW o \in Operation, Call(t, o)
    PROVE  MessageInv'
<1>1. RestTypes
  BY TypeParts DEF LifeInv
<1>2. PICK g : g = global[KindOf(o)]
  OBVIOUS
<1>3. /\ op'[t] = o /\ ref'[t] = g
      /\ \A u \in Thread \ {t} : op'[u] = op[u] /\ ref'[u] = ref[u]
  BY <1>1, <1>2 DEF RestTypes, Call
<1>4. safe[g] \/ \A u \in Thread : ~UsesClient(u, KindOf(o), g)
  BY <1>2 DEF Call
<1>5. \A u \in Thread \ {t} :
          pc[u] # "idle" /\ KindOf(op'[t]) = KindOf(op[u]) /\ ref'[t] = ref[u]
          => safe[ref[u]]
  BY <1>3, <1>4 DEF UsesClient
<1>6. Goto(t, "lock") /\ pc[t] = "idle"
      /\ UNCHANGED <<safe, socketVars, historyVars, parts>>
  BY DEF Call, Goto, initVars
<1> QED  BY <1>3, <1>5, <1>6, MessageMoves DEF Places

\* Whoever may enter finds nobody inside.
LEMMA Entered ==
    ASSUME LifeInv, MessageInv, NEW t \in Thread, MayEnter(t)
    PROVE  \A u \in Thread \ {t} :
              pc[u] # "idle" /\ KindOf(op[t]) = KindOf(op[u]) /\ ref[t] = ref[u]
              => safe[ref[u]] /\ ~Inside(u)
BY DEF MayEnter, UsesClient, MessageInv, Exclusive

LEMMA MessageEnter ==
    ASSUME LifeInv, MessageInv, NEW t \in Thread, PullEnter(t) \/ ReceiveEnter(t)
    PROVE  MessageInv'
<1>1. PICK place \in {"part", "pull"} : Goto(t, place) /\ (place = "part" => op[t] = "recv")
  BY DEF PullEnter, ReceiveEnter
<1>2. UNCHANGED <<initVars, lifeVars, op, ref, parts, socketVars, historyVars>>
      /\ MayEnter(t) /\ pc[t] = "lock"
  BY DEF PullEnter, ReceiveEnter, MayEnter
<1> QED  BY <1>1, <1>2, Entered, MessageMoves DEF Places, initVars

-----------------------------------------------------------------------------
(* Messages: sending *)

LEMMA Appended ==
    ASSUME NEW S, NEW s \in Seq(S), NEW e \in S
    PROVE  /\ Append(s, e) \in Seq(S) /\ Append(s, e) # <<>>
           /\ Len(s) \in Nat /\ Len(Append(s, e)) = Len(s) + 1
           /\ \A i \in 1..Len(s) : Append(s, e)[i] = s[i]
           /\ Append(s, e)[Len(s) + 1] = e
OBVIOUS

LEMMA PartMade ==
    ASSUME NEW m \in Nat, NEW isContent \in BOOLEAN, NEW text \in Topic \cup Content \cup {Empty}
    PROVE  /\ Part(m, isContent, text) \in PartType
           /\ Part(m, isContent, text).msg = m
           /\ Part(m, isContent, text).content = isContent
BY DEF Part, PartType

LEMMA MessageTopic ==
    ASSUME LifeInv, MessageInv, NEW t \in Thread, NEW topic \in Topic \cup {Empty},
           PublishTopic(t, topic)
    PROVE  MessageInv'
<1>1. RestTypes /\ DataOK
  BY TypeParts DEF LifeInv
<1>2. PICK g \in Generation : g = ref[t]
  BY <1>1, InitAssumption
  DEF RestTypes, Generation, InitAssumption, PublishTopic, MayEnter
<1>3. PICK part \in PartType : part = Part(published + 1, FALSE, topic)
  <2>1. PICK m \in Nat : m = published + 1
    BY <1>1 DEF DataOK
  <2> QED  BY <2>1, PartMade
<1>4. /\ sending' = [sending EXCEPT ![g] = Append(sending[g], part)]
      /\ parts' = [parts EXCEPT ![t] = <<part>>]
      /\ pc' = [pc EXCEPT ![t] = "content"]
      /\ op[t] = "pub" /\ MayEnter(t) /\ part.content = FALSE
      /\ UNCHANGED <<safe, op, ref, torn, inbox>>
  <2>1. part.content = FALSE
    BY <1>3 DEF Part
  <2> QED  BY <1>2, <1>3, <2>1 DEF PublishTopic, Goto, initVars
<1>5. /\ pc'[t] = "content" /\ pc[t] = "lock"
      /\ \A u \in Thread \ {t} : pc'[u] = pc[u] /\ (pc[u] = "content" => ref[u] # g)
  <2>1. /\ pc'[t] = "content" /\ pc[t] = "lock"
        /\ \A u \in Thread \ {t} : pc'[u] = pc[u]
    BY <1>1, <1>4 DEF RestTypes, MayEnter
  <2>2. ASSUME NEW u \in Thread \ {t}, pc[u] = "content" PROVE ref[u] # g
    <3>1. op[u] = "pub"
      BY <2>2 DEF MessageInv, SendInv
    <3> QED  BY <1>2, <1>4, <2>2, <3>1, Entered DEF Inside
  <2> QED  BY <2>1, <2>2
<1>6. DataTypes /\ SendInv /\ Exclusive /\ ReceiveInv
  BY DEF MessageInv
<1>7. /\ Append(sending[g], part) \in Seq(PartType) /\ <<part>> \in Seq(PartType)
      /\ sending[g] \in Seq(PartType)
  BY <1>6, Appended DEF DataTypes
<1>8. /\ sending'[g] = Append(sending[g], part) /\ parts'[t] = <<part>>
      /\ \A h \in Generation : h # g => sending'[h] = sending[h]
      /\ \A u \in Thread : u # t => parts'[u] = parts[u]
  BY <1>4, <1>6 DEF DataTypes
<1>9. DataTypes'
  BY <1>4, <1>6, <1>7 DEF DataTypes
<1>10. Exclusive'
  BY <1>4, <1>5, <1>6, Entered DEF Exclusive, Inside
<1>11. SendInv'
  <2>1. ASSUME NEW u \in Thread, pc'[u] = "content"
        PROVE  /\ op'[u] = "pub" /\ sending'[ref'[u]] # <<>> /\ parts'[u] # <<>>
               /\ parts'[u][1] = sending'[ref'[u]][Len(sending'[ref'[u]])]
    <3>1. CASE u = t
      <4>1. parts'[u] # <<>> /\ parts'[u][1] = part
        <5>1. <<part>> # <<>> /\ <<part>>[1] = part
          OBVIOUS
        <5> QED  BY <1>8, <3>1, <5>1
      <4>2. /\ sending'[g] # <<>>
            /\ Len(sending'[g]) = Len(sending[g]) + 1
            /\ sending'[g][Len(sending[g]) + 1] = part
        BY <1>7, <1>8, Appended
      <4>3. ref'[u] = g /\ op'[u] = "pub"
        BY <1>2, <1>4, <3>1
      <4> QED  BY <4>1, <4>2, <4>3
    <3>2. CASE u # t
      <4>1. ref[u] \in Generation /\ ref[u] # g /\ pc[u] = "content"
        BY <1>1, <1>5, <2>1, <3>2, InitAssumption
        DEF RestTypes, Generation, InitAssumption
      <4> QED  BY <1>4, <1>6, <1>8, <3>2, <4>1 DEF SendInv
    <3> QED  BY <3>1, <3>2
  <2>2. ASSUME NEW h \in Generation, NEW i \in 1..Len(sending'[h])
        PROVE  /\ sending'[h][i].content = FALSE
               /\ sending'[h][i].msg \in torn'
                  \/ /\ i = Len(sending'[h])
                     /\ \E u \in Thread : pc'[u] = "content" /\ ref'[u] = h
    <3>1. CASE h = g
      <4>1. CASE i = Len(sending[g]) + 1
        BY <1>2, <1>4, <1>5, <1>7, <1>8, <3>1, <4>1, Appended
      <4>2. CASE i \in 1..Len(sending[g])
        <5>1. sending'[h][i] = sending[g][i]
          BY <1>7, <1>8, <3>1, <4>2, Appended
        <5>2. ~\E u \in Thread : pc[u] = "content" /\ ref[u] = g
          BY <1>5
        <5> QED  BY <1>4, <1>6, <4>2, <5>1, <5>2 DEF SendInv
      <4>3. Len(sending'[g]) = Len(sending[g]) + 1 /\ Len(sending[g]) \in Nat
        BY <1>7, <1>8, Appended
      <4>4. i = Len(sending[g]) + 1 \/ i \in 1..Len(sending[g])
        BY <2>2, <3>1, <4>3
      <4> QED  BY <4>1, <4>2, <4>4
    <3>2. CASE h # g
      <4>1. sending'[h] = sending[h]
        BY <1>8, <3>2
      <4>2. \A u \in Thread : pc[u] = "content" => pc'[u] = "content"
        BY <1>5
      <4>3. i \in 1..Len(sending[h])
        BY <2>2, <4>1
      <4>4. /\ sending[h][i].content = FALSE
            /\ sending[h][i].msg \in torn
               \/ /\ i = Len(sending[h])
                  /\ \E u \in Thread : pc[u] = "content" /\ ref[u] = h
        BY <1>6, <4>3 DEF SendInv
      <4>5. (\E u \in Thread : pc[u] = "content" /\ ref[u] = h)
            => \E u \in Thread : pc'[u] = "content" /\ ref'[u] = h
        BY <1>4, <4>2
      <4>6. sending'[h][i] = sending[h][i] /\ Len(sending'[h]) = Len(sending[h])
            /\ torn' = torn
        BY <1>4, <4>1
      <4> QED  BY <4>4, <4>5, <4>6
    <3> QED  BY <3>1, <3>2
  <2> QED  BY <2>1, <2>2 DEF SendInv
<1>12. ReceiveInv'
  <2>1. ASSUME NEW h \in Generation, NEW i \in 1..Len(inbox[h])
        PROVE  (Frame(inbox[h][i]))'
    <3>1. PICK f : f = inbox[h][i]
      OBVIOUS
    <3>2. Frame(f)'
      BY <1>4, <1>6, <3>1, FrameKept DEF ReceiveInv
    <3> QED  BY <1>4, <3>1, <3>2 DEF Frame
  <2>2. \A u \in Thread : pc'[u] = "part" => op'[u] = "recv"
    BY <1>4, <1>5, <1>6 DEF ReceiveInv
  <2>3. ASSUME NEW u \in Thread, pc'[u] = "part", parts'[u] # <<>> PROVE Continues(u)'
    <3>1. u # t /\ pc[u] = "part"
      BY <1>5, <2>3
    <3> QED  BY <1>4, <1>6, <1>8, <2>3, <3>1 DEF ReceiveInv, Continues
  <2>4. \A u \in Thread : pc'[u] \in {"idle", "lock"} => parts'[u] = <<>>
    BY <1>5, <1>6, <1>8 DEF ReceiveInv
  <2> QED  BY <1>4, <2>1, <2>2, <2>3, <2>4 DEF ReceiveInv
<1>13. FramesWhole'
  BY <1>4, <1>5, <1>8 DEF MessageInv, FramesWhole
<1> QED  BY <1>9, <1>10, <1>11, <1>12, <1>13 DEF MessageInv

\* What a publisher has sent makes a frame with the content.
LEMMA MessageFrame ==
    ASSUME DataTypes, SendInv, NEW t \in Thread, NEW g \in Generation, g = ref[t],
           pc[t] = "content", NEW part \in PartType, part.content = TRUE,
           part.msg = parts[t][1].msg
    PROVE  Append(sending[g], part) \in Seq(PartType) /\ Frame(Append(sending[g], part))
<1>1. PICK s \in Seq(PartType) : s = sending[g]
  BY DEF DataTypes
<1>2. PICK n \in Nat : n = Len(s)
  BY <1>1
<1>3. s # <<>> /\ n > 0 /\ parts[t][1] = s[n]
  <2>1. /\ sending[ref[t]] # <<>>
        /\ parts[t][1] = sending[ref[t]][Len(sending[ref[t]])]
    BY DEF SendInv
  <2> QED  BY <1>1, <1>2, <2>1
<1>4. PICK f \in Seq(PartType) : f = Append(s, part)
  BY <1>1, Appended
<1>5. /\ f # <<>> /\ Len(f) = n + 1 /\ f[n + 1] = part
      /\ \A i \in 1..n : f[i] = s[i]
  BY <1>2, <1>4, Appended
<1>6. \A i \in 1..n : s[i].content = FALSE /\ (i # n => s[i].msg \in torn)
  BY <1>1, <1>2 DEF SendInv
<1>7. f[Len(f)].content = TRUE /\ \A i \in 1..(Len(f) - 1) : f[i].content = FALSE
  <2>1. f[Len(f)] = part
    BY <1>5
  <2>2. Len(f) - 1 = n
    BY <1>2, <1>5
  <2>3. \A i \in 1..n : f[i].content = FALSE
    BY <1>5, <1>6
  <2> QED  BY <2>1, <2>2, <2>3
<1>8. \A i \in 1..(Len(f) - 2) : f[i].msg \in torn
  <2>1. ASSUME NEW i \in 1..(Len(f) - 2) PROVE f[i].msg \in torn
    <3>1. i \in 1..n /\ i # n
      BY <1>5
    <3> QED  BY <1>5, <1>6, <3>1
  <2> QED  BY <2>1
<1>9. f[Len(f) - 1].msg = f[Len(f)].msg
  <2>1. Len(f) - 1 = n /\ n \in 1..n
    BY <1>3, <1>5
  <2> QED  BY <1>3, <1>5, <2>1
<1> QED  BY <1>1, <1>4, <1>5, <1>7, <1>8, <1>9 DEF Frame

LEMMA MessageContent ==
    ASSUME LifeInv, MessageInv, NEW t \in Thread, NEW content \in Content \cup {Empty},
           PublishContent(t, content)
    PROVE  MessageInv'
<1>1. RestTypes /\ DataTypes /\ SendInv /\ Exclusive /\ ReceiveInv
  BY TypeParts DEF LifeInv, MessageInv
<1>2. PICK g \in Generation : g = ref[t]
  BY <1>1, InitAssumption DEF RestTypes, Generation, InitAssumption, PublishContent
<1>3. pc[t] = "content" /\ op[t] = "pub" /\ parts[t] # <<>>
  BY <1>1 DEF PublishContent, SendInv
<1>4. PICK m \in Nat : m = parts[t][1].msg
  <2>1. parts[t][1] \in PartType
    BY <1>1, <1>3 DEF DataTypes
  <2> QED  BY <2>1 DEF PartType
<1>5. PICK part \in PartType : part = Part(m, TRUE, content)
  BY PartMade
<1>6. PICK message \in Seq(PartType) : message = Append(sending[g], part) /\ Frame(message)
  <2>1. part.content = TRUE /\ part.msg = parts[t][1].msg
    BY <1>4, <1>5, PartMade
  <2> QED  BY <1>1, <1>2, <1>3, <2>1, MessageFrame
<1>7. /\ pc'[t] = "idle" /\ op'[t] = "none"
      /\ \A u \in Thread \ {t} :
            pc'[u] = pc[u] /\ op'[u] = op[u] /\ ref'[u] = ref[u]
      /\ parts' \in [Thread -> Seq(PartType)] /\ parts'[t] = <<>>
      /\ \A u \in Thread \ {t} : parts'[u] = parts[u]
      /\ safe' = safe
  <2>1. Return(t) /\ safe' = safe
    BY DEF PublishContent, initVars
  <2>2. <<>> \in Seq(PartType)
    OBVIOUS
  <2> QED  BY <1>1, <2>1, <2>2, Returned DEF Return, DataTypes
<1>8. ASSUME NEW u \in Thread \ {t}, pc[u] = "content" PROVE ref[u] # g /\ pc'[u] = "content"
  <2>1. op[u] = "pub"
    BY <1>1, <1>8 DEF SendInv
  <2> QED  BY <1>1, <1>2, <1>3, <1>7, <1>8, <2>1 DEF Exclusive, Inside
<1>9. Exclusive'
  <2>1. ASSUME NEW u \in Thread, NEW v \in Thread, u # v,
               pc'[u] # "idle", pc'[v] # "idle", KindOf(op'[u]) = KindOf(op'[v]),
               ref'[u] = ref'[v]
        PROVE  safe'[ref'[u]] /\ ~(Inside(u)' /\ Inside(v)')
    <3>1. u # t /\ v # t
      BY <1>7, <2>1
    <3>2. /\ pc'[u] = pc[u] /\ op'[u] = op[u] /\ ref'[u] = ref[u]
          /\ pc'[v] = pc[v] /\ op'[v] = op[v] /\ ref'[v] = ref[v] /\ safe' = safe
      BY <1>7, <3>1
    <3>3. safe[ref[u]] /\ ~(Inside(u) /\ Inside(v))
      BY <1>1, <2>1, <3>2 DEF Exclusive
    <3> QED  BY <3>2, <3>3 DEF Inside
  <2> QED  BY <2>1 DEF Exclusive
<1>10. \A u \in Thread : pc[u] # "idle" => ref[u] \in Generation
  BY <1>1, InitAssumption DEF RestTypes, Generation, InitAssumption
<1>11. CASE torn' = torn \cup {m} /\ UNCHANGED <<inbox, sending>>
  <2>1. DataTypes'
    BY <1>1, <1>7, <1>11 DEF DataTypes
  <2>2. SendInv'
    <3>1. ASSUME NEW u \in Thread, pc'[u] = "content"
          PROVE  /\ op'[u] = "pub" /\ sending'[ref'[u]] # <<>> /\ parts'[u] # <<>>
                 /\ parts'[u][1] = sending'[ref'[u]][Len(sending'[ref'[u]])]
      BY SMTT(30), <1>1, <1>7, <1>11, <3>1 DEF SendInv
    <3>2. ASSUME NEW h \in Generation, NEW i \in 1..Len(sending[h])
          PROVE  /\ sending[h][i].content = FALSE
                 /\ sending[h][i].msg \in torn'
                    \/ /\ i = Len(sending[h])
                       /\ \E u \in Thread : pc'[u] = "content" /\ ref'[u] = h
      <4>1. /\ sending[h][i].content = FALSE
            /\ sending[h][i].msg \in torn
               \/ /\ i = Len(sending[h])
                  /\ \E u \in Thread : pc[u] = "content" /\ ref[u] = h
        BY <1>1 DEF SendInv
      <4>2. CASE sending[h][i].msg \in torn
        BY <1>11, <4>1, <4>2
      <4>3. ASSUME i = Len(sending[h]), NEW u \in Thread, pc[u] = "content", ref[u] = h
            PROVE  \/ sending[h][i].msg \in torn'
                   \/ pc'[u] = "content" /\ ref'[u] = h
        <5>1. CASE u = t
          <6>1. h = g /\ parts[t][1] = sending[h][i]
            BY <1>1, <1>2, <4>3, <5>1 DEF SendInv
          <6> QED  BY <1>4, <1>11, <6>1
        <5>2. CASE u # t
          BY <1>7, <1>8, <4>3, <5>2
        <5> QED  BY <5>1, <5>2
      <4> QED  BY <4>1, <4>2, <4>3
    <3> QED  BY <1>11, <3>1, <3>2 DEF SendInv
  <2>3. ReceiveInv'
    <3>1. ASSUME NEW h \in Generation, NEW i \in 1..Len(inbox[h])
          PROVE  (Frame(inbox[h][i]))'
      <4>1. PICK f : f = inbox[h][i]
        OBVIOUS
      <4>2. Frame(f)'
        BY <1>1, <1>11, <4>1, FrameKept DEF ReceiveInv
      <4> QED  BY <1>11, <4>1, <4>2 DEF Frame
    <3>2. ASSUME NEW u \in Thread, pc'[u] = "part", parts'[u] # <<>> PROVE Continues(u)'
      <4>1. u # t /\ pc[u] = "part"
        BY <1>7, <3>2
      <4> QED  BY <1>1, <1>7, <1>11, <3>2, <4>1 DEF ReceiveInv, Continues
    <3>3. \A u \in Thread : pc'[u] = "part" => op'[u] = "recv"
      BY <1>1, <1>7 DEF ReceiveInv
    <3>3a. \A u \in Thread : pc'[u] \in {"idle", "lock"} => parts'[u] = <<>>
      BY <1>1, <1>7 DEF ReceiveInv
    <3>4. inbox' = inbox
      BY <1>11
    <3> QED  BY <3>1, <3>2, <3>3, <3>3a, <3>4 DEF ReceiveInv
  <2>4. FramesWhole'
    BY <1>7, <1>11 DEF MessageInv, FramesWhole
  <2> QED  BY <1>9, <2>1, <2>2, <2>3, <2>4 DEF MessageInv
<1>12. ASSUME NEW to \in SUBSET Generation,
              inbox' = [h \in Generation |->
                  IF h \in to THEN Append(inbox[h], message) ELSE inbox[h]],
              sending' = [sending EXCEPT ![g] = <<>>], torn' = torn
       PROVE  MessageInv'
  <2>1. \A h \in Generation :
           /\ inbox'[h] \in Seq(Seq(PartType)) /\ Len(inbox'[h]) >= Len(inbox[h])
           /\ \A i \in 1..Len(inbox[h]) : inbox'[h][i] = inbox[h][i]
           /\ \A i \in 1..Len(inbox'[h]) : i \in 1..Len(inbox[h]) \/ inbox'[h][i] = message
    <3>1. ASSUME NEW h \in Generation
          PROVE  /\ inbox'[h] \in Seq(Seq(PartType)) /\ Len(inbox'[h]) >= Len(inbox[h])
                 /\ \A i \in 1..Len(inbox[h]) : inbox'[h][i] = inbox[h][i]
                 /\ \A i \in 1..Len(inbox'[h]) :
                       i \in 1..Len(inbox[h]) \/ inbox'[h][i] = message
      <4>1. PICK q \in Seq(Seq(PartType)) : q = inbox[h]
        BY <1>1 DEF DataTypes
      <4>2. CASE h \in to
        <5>1. inbox'[h] = Append(q, message)
          BY <1>12, <4>1, <4>2
        <5> QED  BY <1>6, <4>1, <5>1, Appended
      <4>3. CASE h \notin to
        <5>1. inbox'[h] = q
          BY <1>12, <4>1, <4>3
        <5> QED  BY <4>1, <5>1
      <4> QED  BY <4>2, <4>3
    <3> QED  BY <3>1
  <2>2. /\ sending' \in [Generation -> Seq(PartType)] /\ sending'[g] = <<>>
        /\ \A h \in Generation : h # g => sending'[h] = sending[h]
    <3>1. <<>> \in Seq(PartType)
      OBVIOUS
    <3> QED  BY <1>1, <1>12, <3>1 DEF DataTypes
  <2>3. DataTypes'
    <3>1. inbox' \in [Generation -> Seq(Seq(PartType))]
      BY <1>12, <2>1
    <3> QED  BY <1>7, <2>2, <3>1 DEF DataTypes
  <2>4. SendInv'
    <3>1. ASSUME NEW u \in Thread, pc'[u] = "content"
          PROVE  /\ op'[u] = "pub" /\ sending'[ref'[u]] # <<>> /\ parts'[u] # <<>>
                 /\ parts'[u][1] = sending'[ref'[u]][Len(sending'[ref'[u]])]
      <4>1. u # t /\ pc[u] = "content" /\ ref[u] # g /\ ref[u] \in Generation
        BY <1>7, <1>8, <1>10, <3>1
      <4>2. sending'[ref'[u]] = sending[ref[u]] /\ parts'[u] = parts[u] /\ op'[u] = op[u]
        BY <1>7, <2>2, <4>1
      <4> QED  BY <1>1, <4>1, <4>2 DEF SendInv
    <3>2. ASSUME NEW h \in Generation, NEW i \in 1..Len(sending'[h])
          PROVE  /\ sending'[h][i].content = FALSE
                 /\ sending'[h][i].msg \in torn'
                    \/ /\ i = Len(sending'[h])
                       /\ \E u \in Thread : pc'[u] = "content" /\ ref'[u] = h
      <4>1. h # g /\ sending'[h] = sending[h]
        BY <2>2, <3>2
      <4>2. /\ sending[h][i].content = FALSE
            /\ sending[h][i].msg \in torn
               \/ /\ i = Len(sending[h])
                  /\ \E u \in Thread : pc[u] = "content" /\ ref[u] = h
        BY <1>1, <3>2, <4>1 DEF SendInv
      <4>3. (\E u \in Thread : pc[u] = "content" /\ ref[u] = h)
            => \E u \in Thread : pc'[u] = "content" /\ ref'[u] = h
        BY <1>2, <1>7, <4>1
      <4>4. sending'[h][i] = sending[h][i] /\ Len(sending'[h]) = Len(sending[h])
            /\ torn' = torn
        BY <1>12, <4>1
      <4> QED  BY <4>2, <4>3, <4>4
    <3> QED  BY <3>1, <3>2 DEF SendInv
  <2>5. ReceiveInv'
    <3>1. ASSUME NEW h \in Generation, NEW i \in 1..Len(inbox'[h])
          PROVE  (Frame(inbox[h][i]))'
      <4>1. PICK f : f = inbox'[h][i]
        OBVIOUS
      <4>2. Frame(f)
        BY <1>1, <1>6, <2>1, <4>1 DEF ReceiveInv
      <4>3. Frame(f)'
        BY <1>12, <4>2, FrameKept
      <4> QED  BY <4>1, <4>3 DEF Frame
    <3>2. ASSUME NEW u \in Thread, pc'[u] = "part", parts'[u] # <<>> PROVE Continues(u)'
      <4>1. u # t /\ pc[u] = "part" /\ ref'[u] = ref[u] /\ parts'[u] = parts[u]
        BY <1>7, <3>2
      <4>2. PICK h \in Generation : h = ref[u]
        BY <1>10, <4>1
      <4>3. inbox[h] # <<>> /\ inbox[h] \in Seq(Seq(PartType))
        BY <1>1, <3>2, <4>1, <4>2 DEF ReceiveInv, Continues, DataTypes
      <4>4. inbox'[h] # <<>> /\ inbox'[h][1] = inbox[h][1]
        <5>1. PICK q \in Seq(Seq(PartType)) : q = inbox[h] /\ q # <<>>
          BY <4>3
        <5>2. Len(q) \in Nat /\ Len(q) > 0
          BY <5>1
        <5>3. 1 \in 1..Len(q)
          BY <5>2
        <5>4. inbox'[h][1] = q[1]
          BY <2>1, <5>1, <5>3
        <5>5. inbox'[h] \in Seq(Seq(PartType)) /\ Len(inbox'[h]) >= Len(q)
          BY <2>1, <5>1
        <5> QED  BY <5>1, <5>2, <5>4, <5>5
      <4> QED  BY <1>1, <1>12, <3>2, <4>1, <4>2, <4>4 DEF ReceiveInv, Continues
    <3>3. \A u \in Thread : pc'[u] = "part" => op'[u] = "recv"
      BY <1>1, <1>7 DEF ReceiveInv
    <3>3a. \A u \in Thread : pc'[u] \in {"idle", "lock"} => parts'[u] = <<>>
      BY <1>1, <1>7 DEF ReceiveInv
    <3> QED  BY <3>1, <3>2, <3>3, <3>3a DEF ReceiveInv
  <2>6. FramesWhole'
    BY <1>7, <1>12 DEF MessageInv, FramesWhole
  <2> QED  BY <1>9, <2>3, <2>4, <2>5, <2>6 DEF MessageInv
<1>13. \/ torn' = torn \cup {m} /\ UNCHANGED <<inbox, sending>>
       \/ \E to \in SUBSET Generation :
             /\ inbox' = [h \in Generation |->
                   IF h \in to THEN Append(inbox[h], message) ELSE inbox[h]]
             /\ sending' = [sending EXCEPT ![g] = <<>>] /\ torn' = torn
  BY <1>2, <1>4, <1>5, <1>6 DEF PublishContent
<1> QED  BY <1>11, <1>12, <1>13

-----------------------------------------------------------------------------
(* Messages: receiving *)

LEMMA Single ==
    ASSUME NEW S, NEW e \in S
    PROVE  <<e>> \in Seq(S) /\ Len(<<e>>) = 1 /\ <<e>>[1] = e
OBVIOUS

LEMMA Longer ==
    ASSUME NEW S, NEW s \in Seq(S), Len(s) > 1
    PROVE  s # <<>> /\ Len(s) # 1
<1>1. PICK n \in Nat : n = Len(s)
  OBVIOUS
<1>2. n > 1
  BY <1>1
<1>3. n # 0 /\ n # 1
  BY <1>2
<1>4. ASSUME s = <<>> PROVE n = 0
  BY <1>1, <1>4
<1> QED  BY <1>1, <1>3, <1>4

LEMMA Tailed ==
    ASSUME NEW S, NEW s \in Seq(S), s # <<>>
    PROVE  /\ Head(s) \in S /\ Head(s) = s[1] /\ Tail(s) \in Seq(S)
           /\ Len(s) \in Nat /\ Len(s) > 0 /\ Len(Tail(s)) = Len(s) - 1
           /\ \A i \in 1..Len(Tail(s)) : Tail(s)[i] = s[i + 1]
OBVIOUS

\* What is left of a frame is one, which goes on with the part taken off.
LEMMA FrameTail ==
    ASSUME NEW f \in Seq(PartType), Frame(f), NEW rest \in Seq(PartType),
           rest = Tail(f), rest # <<>>
    PROVE  /\ Frame(rest) /\ f[1].content = FALSE
           /\ f[1].msg \in torn \/ (Len(rest) = 1 /\ rest[1].msg = f[1].msg)
<1>1. /\ f # <<>> /\ f[Len(f)].content = TRUE
      /\ \A i \in 1..(Len(f) - 1) : f[i].content = FALSE
      /\ \A i \in 1..(Len(f) - 2) : f[i].msg \in torn
      /\ Len(f) > 1 => f[Len(f) - 1].msg = f[Len(f)].msg
  BY DEF Frame
<1>2. PICK n \in Nat : n = Len(rest)
  OBVIOUS
<1>3. /\ n > 0 /\ Len(f) = n + 1
      /\ \A i \in 1..n : rest[i] = f[i + 1]
  BY <1>1, <1>2, Tailed
<1>4. rest[n].content = TRUE
  BY <1>1, <1>3
<1>5. \A i \in 1..(n - 1) : rest[i].content = FALSE
  <2>1. ASSUME NEW i \in 1..(n - 1) PROVE rest[i].content = FALSE
    <3>1. i \in 1..n /\ i + 1 \in 1..(Len(f) - 1)
      BY <1>3
    <3> QED  BY <1>1, <1>3, <3>1
  <2> QED  BY <2>1
<1>6. \A i \in 1..(n - 2) : rest[i].msg \in torn
  <2>1. ASSUME NEW i \in 1..(n - 2) PROVE rest[i].msg \in torn
    <3>1. i \in 1..n /\ i + 1 \in 1..(Len(f) - 2)
      BY <1>3
    <3> QED  BY <1>1, <1>3, <3>1
  <2> QED  BY <2>1
<1>7. ASSUME n > 1 PROVE rest[n - 1].msg = rest[n].msg
  <2>1. n - 1 \in 1..n /\ n \in 1..n /\ (n - 1) + 1 = Len(f) - 1 /\ n + 1 = Len(f)
    BY <1>2, <1>3, <1>7
  <2>2. rest[n - 1] = f[Len(f) - 1] /\ rest[n] = f[Len(f)]
    BY <1>3, <2>1
  <2>3. Len(f) > 1
    BY <1>2, <1>3, <1>7
  <2> QED  BY <1>1, <2>2, <2>3
<1>8. Frame(rest)
  BY <1>2, <1>4, <1>5, <1>6, <1>7 DEF Frame
<1>9. f[1].content = FALSE
  BY <1>1, <1>3
<1>10. f[1].msg \in torn \/ (n = 1 /\ rest[1].msg = f[1].msg)
  <2>1. CASE n = 1
    <3>1. Len(f) = 2 /\ rest[1] = f[2]
      BY <1>3, <2>1
    <3> QED  BY <1>1, <2>1, <3>1
  <2>2. CASE n # 1
    <3>1. 1 \in 1..(Len(f) - 2)
      BY <1>2, <1>3, <2>2
    <3> QED  BY <1>1, <3>1
  <2> QED  BY <2>1, <2>2
<1> QED  BY <1>2, <1>8, <1>9, <1>10

LEMMA MessagePart ==
    ASSUME LifeInv, MessageInv, NEW t \in Thread, ReceivePart(t)
    PROVE  MessageInv'
<1>1. RestTypes /\ DataTypes /\ SendInv /\ Exclusive /\ ReceiveInv
  BY TypeParts DEF LifeInv, MessageInv
<1>2. PICK g \in Generation : g = ref[t]
  BY <1>1, InitAssumption DEF RestTypes, Generation, InitAssumption, ReceivePart
<1>3. PICK queue \in Seq(Seq(PartType)) : queue = inbox[g]
  BY <1>1 DEF DataTypes
<1>4. queue # <<>> /\ \A i \in 1..Len(queue) : Frame(queue[i])
  BY <1>1, <1>2, <1>3 DEF ReceivePart, ReceiveInv
<1>5. PICK first \in Seq(PartType) :
          first = Head(queue) /\ first = queue[1] /\ first # <<>> /\ Frame(first)
  <2>1. Head(queue) \in Seq(PartType) /\ Head(queue) = queue[1] /\ 1 \in 1..Len(queue)
    BY <1>4, Tailed
  <2>2. PICK f : f = queue[1]
    OBVIOUS
  <2>3. Frame(f)
    BY <1>4, <2>1, <2>2
  <2>4. f # <<>>
    BY <2>3 DEF Frame
  <2> QED  BY <2>1, <2>2, <2>3, <2>4
<1>6. PICK part \in PartType : part = Head(first) /\ part = first[1]
  BY <1>5, Tailed
<1>7. PICK rest \in Seq(PartType) : rest = Tail(first)
  BY <1>5, Tailed
<1>8. PICK q : q = IF rest = <<>> THEN Tail(queue) ELSE <<rest>> \o Tail(queue)
  OBVIOUS
<1>9. /\ op[t] = "recv" /\ pc[t] = "part"
      /\ inbox' = [inbox EXCEPT ![g] = q]
      /\ UNCHANGED <<safe, op, ref, sending, torn>>
      /\ \/ part.text = Empty /\ Goto(t, "return") /\ UNCHANGED parts
         \/ /\ parts' = [parts EXCEPT ![t] = Append(parts[t], part)]
            /\ Goto(t, IF rest = <<>> THEN "return" ELSE "part")
  BY <1>2, <1>3, <1>5, <1>6, <1>7, <1>8 DEF ReceivePart, initVars
<1>10. /\ q \in Seq(Seq(PartType)) /\ \A i \in 1..Len(q) : Frame(q[i])
       /\ rest # <<>> => q # <<>> /\ q[1] = rest
  <2>1. PICK others \in Seq(Seq(PartType)) : others = Tail(queue)
    BY <1>4, Tailed
  <2>2. \A i \in 1..Len(others) : Frame(others[i])
    <3>1. \A i \in 1..Len(others) : others[i] = queue[i + 1] /\ i + 1 \in 1..Len(queue)
      BY <1>4, <2>1, Tailed
    <3> QED  BY <1>4, <3>1
  <2>3. CASE rest = <<>>
    BY <1>8, <2>1, <2>2, <2>3
  <2>4. CASE rest # <<>>
    <3>1. Frame(rest)
      BY <1>5, <1>7, <2>4, FrameTail
    <3>2. PICK one \in Seq(Seq(PartType)) : one = <<rest>> /\ Len(one) = 1 /\ one[1] = rest
      BY Single
    <3>3. /\ q = one \o others /\ q \in Seq(Seq(PartType))
          /\ Len(q) = 1 + Len(others) /\ q[1] = rest /\ Len(others) \in Nat
          /\ \A i \in 1..Len(q) : i = 1 \/ (i - 1 \in 1..Len(others) /\ q[i] = others[i - 1])
      BY <1>8, <2>1, <2>4, <3>2
    <3>4. \A i \in 1..Len(q) : Frame(q[i])
      BY <2>2, <3>1, <3>3
    <3>5. q # <<>>
      BY <3>3
    <3> QED  BY <3>3, <3>4, <3>5
  <2> QED  BY <2>3, <2>4
<1>11. PICK mine \in Seq(PartType) : mine = parts[t]
  BY <1>1 DEF DataTypes
<1>12. /\ inbox' \in [Generation -> Seq(Seq(PartType))] /\ inbox'[g] = q
       /\ \A h \in Generation : h # g => inbox'[h] = inbox[h]
  BY <1>1, <1>9, <1>10 DEF DataTypes
<1>13. /\ parts' \in [Thread -> Seq(PartType)]
       /\ \A u \in Thread \ {t} : parts'[u] = parts[u] /\ pc'[u] = pc[u]
       /\ pc'[t] \in {"part", "return"}
       /\ \/ pc'[t] = "return" /\ parts'[t] = mine
          \/ /\ parts'[t] = Append(mine, part)
             /\ pc'[t] = IF rest = <<>> THEN "return" ELSE "part"
  <2>1. Append(mine, part) \in Seq(PartType)
    BY Appended
  <2> QED  BY <1>1, <1>9, <1>11, <2>1 DEF DataTypes, RestTypes, Goto
<1>14. DataTypes'
  BY <1>1, <1>9, <1>12, <1>13 DEF DataTypes
<1>15. Exclusive'
  <2>1. \A u \in Thread : (pc'[u] = "idle" <=> pc[u] = "idle") /\ (Inside(u)' <=> Inside(u))
    BY <1>9, <1>13 DEF Inside
  <2> QED  BY <1>1, <1>9, <2>1 DEF Exclusive
<1>16. SendInv'
  <2>1. \A u \in Thread : pc'[u] = "content" <=> pc[u] = "content"
    BY <1>9, <1>13
  <2>2. \A u \in Thread : pc[u] = "content" => parts'[u] = parts[u]
    BY <1>9, <1>13
  <2>3. op' = op /\ ref' = ref /\ sending' = sending /\ torn' = torn
    BY <1>9
  <2> QED  BY SMTT(30), <1>1, <2>1, <2>2, <2>3 DEF SendInv
<1>17. mine # <<>> => /\ mine[1].content = FALSE
                      /\ \/ mine[1].msg \in torn
                         \/ Len(mine) = 1 /\ Len(first) = 1 /\ part.msg = mine[1].msg
  BY <1>1, <1>2, <1>3, <1>5, <1>6, <1>9, <1>11 DEF ReceiveInv, Continues
<1>18. ReceiveInv'
  <2>1. ASSUME NEW h \in Generation, NEW i \in 1..Len(inbox'[h])
        PROVE  (Frame(inbox[h][i]))'
    <3>1. PICK f : f = inbox'[h][i]
      OBVIOUS
    <3>2. Frame(f)
      BY <1>1, <1>10, <1>12, <3>1 DEF ReceiveInv
    <3>3. Frame(f)'
      BY <1>9, <3>2, FrameKept
    <3> QED  BY <3>1, <3>3 DEF Frame
  <2>2. \A u \in Thread : pc'[u] = "part" => op'[u] = "recv"
    BY <1>1, <1>9, <1>13 DEF ReceiveInv
  <2>3. ASSUME NEW u \in Thread, pc'[u] = "part", parts'[u] # <<>> PROVE Continues(u)'
    <3>1. CASE u = t
      <4>1. parts'[t] = Append(mine, part) /\ rest # <<>>
        BY <1>13, <2>3, <3>1
      <4>2. /\ part.content = FALSE
            /\ part.msg \in torn \/ (Len(rest) = 1 /\ rest[1].msg = part.msg)
            /\ Len(first) # 1
        <5>1. /\ first[1].content = FALSE
              /\ first[1].msg \in torn \/ (Len(rest) = 1 /\ rest[1].msg = first[1].msg)
          BY <1>5, <1>7, <4>1, FrameTail
        <5>2. Len(rest) = Len(first) - 1 /\ Len(first) \in Nat
          BY <1>5, <1>7, Tailed
        <5>3. Len(rest) # 0
          BY <4>1
        <5> QED  BY <1>6, <5>1, <5>2, <5>3
      <4>3. inbox'[ref'[t]] # <<>> /\ inbox'[ref'[t]][1] = rest
        BY <1>2, <1>9, <1>10, <1>12, <4>1
      <4>4. CASE mine = <<>>
        <5>1. parts'[t][1] = part /\ Len(parts'[t]) = 1
          BY <4>1, <4>4
        <5> QED  BY <1>9, <3>1, <4>2, <4>3, <5>1 DEF Continues
      <4>5. CASE mine # <<>>
        <5>1. parts'[t][1] = mine[1]
          BY <4>1, <4>5, Appended
        <5>2. mine[1].content = FALSE /\ mine[1].msg \in torn
          BY <1>17, <4>2, <4>5
        <5> QED  BY <1>9, <3>1, <4>3, <5>1, <5>2 DEF Continues
      <4> QED  BY <4>4, <4>5
    <3>2. CASE u # t
      <4>1. pc[u] = "part" /\ op[u] = "recv" /\ parts'[u] = parts[u] /\ ref'[u] = ref[u]
        BY <1>1, <1>9, <1>13, <2>3, <3>2 DEF ReceiveInv
      <4>2. ref[u] # g /\ ref[u] \in Generation
        BY <1>1, <1>2, <1>9, <3>2, <4>1, InitAssumption
        DEF Exclusive, Inside, RestTypes, Generation, InitAssumption
      <4>3. inbox'[ref'[u]] = inbox[ref[u]]
        BY <1>12, <4>1, <4>2
      <4>4. Continues(u)
        BY <1>1, <2>3, <4>1 DEF ReceiveInv
      <4> QED  BY <1>9, <4>1, <4>3, <4>4 DEF Continues
    <3> QED  BY <3>1, <3>2
  <2>4. \A u \in Thread : pc'[u] \in {"idle", "lock"} => parts'[u] = <<>>
    BY <1>1, <1>13 DEF ReceiveInv
  <2> QED  BY <2>1, <2>2, <2>3, <2>4 DEF ReceiveInv
<1>19. FramesWhole'
  <2> SUFFICES ASSUME NEW u \in Thread, op'[u] = "recv", pc'[u] = "return",
                      Len(parts'[u]) > 1, parts'[u][1].msg \notin torn'
               PROVE  /\ ~parts'[u][1].content /\ parts'[u][2].content
                      /\ parts'[u][1].msg = parts'[u][2].msg
    BY DEF FramesWhole
  <2>1. CASE u # t
    BY <1>9, <1>13, <2>1 DEF MessageInv, FramesWhole
  <2>2. CASE u = t
    <3>1. CASE parts'[t] = mine
      <4>1. Len(mine) > 1
        BY <2>2, <3>1
      <4>2. mine # <<>> /\ Len(mine) # 1
        BY <4>1, Longer
      <4>3. mine[1].msg \notin torn
        BY <1>9, <2>2, <3>1
      <4> QED  BY <1>17, <4>2, <4>3
    <3>2. CASE parts'[t] = Append(mine, part) /\ rest = <<>>
      <4>1. mine # <<>> /\ parts'[t][1] = mine[1]
        BY <2>2, <3>2, Appended
      <4>2. Len(mine) = 1 /\ Len(first) = 1 /\ part.msg = mine[1].msg /\ mine[1].content = FALSE
        <5>1. mine[1].msg \notin torn
          BY <1>9, <2>2, <4>1
        <5> QED  BY <1>17, <4>1, <5>1
      <4>3. parts'[t][2] = part
        <5>1. Len(mine) + 1 = 2
          BY <4>2
        <5>2. Append(mine, part)[Len(mine) + 1] = part
          BY Appended
        <5> QED  BY <3>2, <5>1, <5>2
      <4>4. part.content = TRUE
        BY <1>5, <1>6, <4>2 DEF Frame
      <4> QED  BY <2>2, <4>1, <4>2, <4>3, <4>4
    <3> QED  BY <1>13, <2>2, <3>1, <3>2
  <2> QED  BY <2>1, <2>2
<1> QED  BY <1>14, <1>15, <1>16, <1>18, <1>19 DEF MessageInv

LEMMA MessageInterrupt ==
    ASSUME LifeInv, MessageInv, NEW t \in Thread, pc[t] = "part", Goto(t, "return"),
           UNCHANGED <<safe, op, ref, parts, socketVars, historyVars>>
    PROVE  MessageInv'
<1>1. RestTypes /\ DataTypes /\ SendInv /\ Exclusive /\ ReceiveInv
  BY TypeParts DEF LifeInv, MessageInv
<1>2. pc'[t] = "return" /\ \A u \in Thread \ {t} : pc'[u] = pc[u]
  BY <1>1 DEF RestTypes, Goto
<1>3. safe' = safe /\ op' = op /\ ref' = ref /\ parts' = parts /\ sending' = sending
      /\ inbox' = inbox /\ torn' = torn
  BY DEF socketVars, historyVars
<1>4. DataTypes'
  BY <1>1, <1>3 DEF DataTypes
<1>5. Exclusive'
  BY <1>1, <1>2, <1>3 DEF Exclusive, Inside
<1>6. SendInv'
  <2>1. \A u \in Thread : pc'[u] = "content" <=> pc[u] = "content"
    BY <1>2
  <2> QED  BY <1>1, <1>3, <2>1 DEF SendInv
<1>7. ReceiveInv'
  <2>1. ASSUME NEW g \in Generation, NEW i \in 1..Len(inbox[g])
        PROVE  (Frame(inbox[g][i]))'
    <3>1. PICK f : f = inbox[g][i]
      OBVIOUS
    <3>2. Frame(f)'
      BY <1>1, <1>3, <3>1, FrameKept DEF ReceiveInv
    <3> QED  BY <1>3, <3>1, <3>2 DEF Frame
  <2>2. \A u \in Thread : pc'[u] = "part" => op'[u] = "recv"
    BY <1>1, <1>2, <1>3 DEF ReceiveInv
  <2>3. ASSUME NEW u \in Thread, pc'[u] = "part", parts'[u] # <<>> PROVE Continues(u)'
    BY <1>1, <1>2, <1>3, <2>3 DEF ReceiveInv, Continues
  <2>4. \A u \in Thread : pc'[u] \in {"idle", "lock"} => parts'[u] = <<>>
    BY <1>1, <1>2, <1>3 DEF ReceiveInv
  <2> QED  BY <1>3, <2>1, <2>2, <2>3, <2>4 DEF ReceiveInv
<1>8. FramesWhole'
  <2> SUFFICES ASSUME NEW u \in Thread, op'[u] = "recv", pc'[u] = "return",
                      Len(parts'[u]) > 1, parts'[u][1].msg \notin torn'
               PROVE  /\ ~parts'[u][1].content /\ parts'[u][2].content
                      /\ parts'[u][1].msg = parts'[u][2].msg
    BY DEF FramesWhole
  <2>1. CASE u # t
    BY <1>2, <1>3, <2>1 DEF MessageInv, FramesWhole
  <2>2. CASE u = t
    <3>1. PICK mine \in Seq(PartType) : mine = parts[t]
      BY <1>1 DEF DataTypes
    <3>2. mine # <<>> /\ Len(mine) # 1
      BY <1>3, <2>2, <3>1, Longer
    <3>3. Continues(t)
      BY <1>1, <3>1, <3>2 DEF ReceiveInv
    <3> QED  BY <1>3, <2>2, <3>1, <3>2, <3>3 DEF Continues
  <2> QED  BY <2>1, <2>2
<1> QED  BY <1>4, <1>5, <1>6, <1>7, <1>8 DEF MessageInv

-----------------------------------------------------------------------------
(* A subscription behind a receive *)

LEMMA StillStarved ==
    ASSUME NEW t, NEW u, NEW g, Starved(t, u), g = ref[t], safe' = safe,
           op'[t] = op[t], pc'[t] = pc[t], ref'[t] = ref[t],
           op'[u] = op[u], pc'[u] = pc[u], ref'[u] = ref[u],
           subscribed'[g] = {}, inbox'[g] = <<>>
    PROVE  Starved(t, u)'
BY DEF Starved

\* Neither of the two moves, nor does anybody enter their subscriber.
LEMMA NobodyEnters ==
    ASSUME NEW t \in Thread, NEW u \in Thread, Starved(t, u), NEW x \in Thread, MayEnter(x)
    PROVE  x # t /\ x # u /\ (KindOf(op[x]) = "sub" => ref[x] # ref[t])
<1>1. /\ op[t] = "sub" /\ op[u] = "recv" /\ pc[u] = "part" /\ pc[t] = "lock"
      /\ ref[u] = ref[t] /\ safe[ref[t]]
  BY DEF Starved
<1>2. UsesClient(u, "sub", ref[t]) /\ Inside(u) /\ x # u
  BY <1>1 DEF UsesClient, Inside, KindOf, MayEnter
<1>3. ~(KindOf(op[x]) = "sub" /\ ref[x] = ref[t])
  BY <1>1, <1>2 DEF MayEnter
<1> QED  BY <1>1, <1>2, <1>3 DEF KindOf

LEMMA StarvedCall ==
    ASSUME LifeInv, DataTypes, ReceiveInv, NEW t \in Thread, NEW u \in Thread, Starved(t, u),
           NEW x \in Thread, CallStep(x)
    PROVE  Starved(t, u)' \/ Interrupt(u)
<1>1. RestTypes /\ DataOK
  BY TypeParts DEF LifeInv
<1>2. PICK g \in Generation : g = ref[t]
  BY <1>1, InitAssumption DEF Starved, RestTypes, Generation, InitAssumption
<1>3. /\ op[t] = "sub" /\ pc[t] = "lock" /\ op[u] = "recv" /\ pc[u] = "part"
      /\ subscribed[g] = {} /\ inbox[g] = <<>> /\ ref[u] = g
  BY <1>2 DEF Starved
<1>4. \/ x # t /\ x # u
      \/ x = u /\ ~MayEnter(x) /\ op[x] = "recv" /\ pc[x] = "part"
      \/ x = t /\ ~MayEnter(x) /\ op[x] = "sub" /\ pc[x] = "lock"
  BY <1>3, NobodyEnters
<1>5. SUFFICES ASSUME x # t, x # u PROVE Starved(t, u)'
  <2>1. CASE x = u
    <3>1. ReceivePart(u) \/ Interrupt(u)
      BY <1>4, <2>1, <1>3
         DEF CallStep, PublishTopic, Subscribe, PublishContent, Push, PullEnter, Pull,
             ReceiveEnter, ReceiveReturn, Fail
    <3>2. ~ReceivePart(u)
      BY <1>3 DEF ReceivePart
    <3> QED  BY <3>1, <3>2
  <2>2. CASE x = t
    BY <1>3, <1>4, <2>2
       DEF CallStep, PublishTopic, Subscribe, PublishContent, Push, PullEnter, Pull,
           ReceiveEnter, ReceivePart, ReceiveReturn, Interrupt, Fail
  <2> QED  BY <1>4, <1>5, <2>1, <2>2
<1>6. SUFFICES safe' = safe /\ subscribed'[g] = {} /\ inbox'[g] = <<>>
               /\ (Return(x) \/ \E place : Goto(x, place) /\ UNCHANGED <<op, ref>>)
  <2> SUFFICES ASSUME safe' = safe, subscribed'[g] = {}, inbox'[g] = <<>>,
                      Return(x) \/ \E place : Goto(x, place) /\ UNCHANGED <<op, ref>>
               PROVE  Starved(t, u)'
    OBVIOUS
  <2>1. \A y \in Thread \ {x} : op'[y] = op[y] /\ pc'[y] = pc[y] /\ ref'[y] = ref[y]
    <3>1. CASE Return(x)
      BY <1>1, <3>1, Returned
    <3>2. CASE \E place : Goto(x, place) /\ UNCHANGED <<op, ref>>
      BY <1>1, <3>2 DEF RestTypes, Goto
    <3> QED  BY <3>1, <3>2
  <2> QED  BY <1>2, <1>5, <2>1, StillStarved
<1>7. subscribed' = subscribed => subscribed'[g] = {}
  BY <1>3
<1>8. inbox' = inbox => inbox'[g] = <<>>
  BY <1>3
<1>9. \A h : Drop("sub", h) \/ UNCHANGED socketVars => subscribed'[g] = {} /\ inbox'[g] = <<>>
  BY <1>1, <1>2, <1>3 DEF Drop, Close, socketVars, DataOK, DataTypes
<1>10. ASSUME NEW topic \in Topic \cup {Empty}, PublishTopic(x, topic)
       PROVE  safe' = safe /\ subscribed'[g] = {} /\ inbox'[g] = <<>>
              /\ (Return(x) \/ \E place : Goto(x, place) /\ UNCHANGED <<op, ref>>)
  BY <1>7, <1>8, <1>10 DEF PublishTopic, initVars
<1>11. ASSUME NEW topics \in SUBSET (Topic \cup {Empty}), Subscribe(x, topics)
       PROVE  safe' = safe /\ subscribed'[g] = {} /\ inbox'[g] = <<>>
              /\ (Return(x) \/ \E place : Goto(x, place) /\ UNCHANGED <<op, ref>>)
  <2>1. ref[x] # g
    <3>1. MayEnter(x) /\ op[x] = "sub"
      BY <1>11 DEF Subscribe
    <3>2. KindOf(op[x]) = "sub"
      BY <3>1 DEF KindOf
    <3> QED  BY <1>2, <3>1, <3>2, NobodyEnters
  <2>2. subscribed'[g] = {}
    BY <1>1, <1>3, <1>11, <2>1 DEF Subscribe, DataOK
  <2> QED  BY <1>8, <1>11, <2>2 DEF Subscribe, initVars
<1>12. ASSUME NEW content \in Content \cup {Empty}, PublishContent(x, content)
       PROVE  safe' = safe /\ subscribed'[g] = {} /\ inbox'[g] = <<>>
              /\ (Return(x) \/ \E place : Goto(x, place) /\ UNCHANGED <<op, ref>>)
  <2>1. \A topic : ~Accepts(g, topic)
    BY <1>3 DEF Accepts
  <2>2. inbox'[g] = <<>>
    BY <1>3, <1>8, <1>12, <2>1 DEF PublishContent
  <2> QED  BY <1>7, <1>12, <2>2 DEF PublishContent, initVars
<1>13. CASE Push(x) \/ Pull(x)
  BY <1>7, <1>8, <1>13 DEF Push, Pull, initVars
<1>14. CASE PullEnter(x) \/ ReceiveEnter(x)
  BY <1>7, <1>8, <1>14 DEF PullEnter, ReceiveEnter, initVars, socketVars
<1>15. CASE ReceivePart(x)
  <2>1. ref[x] # g
    BY <1>3, <1>15 DEF ReceivePart
  <2>2. inbox'[g] = <<>>
    BY <1>3, <1>15, <2>1 DEF ReceivePart, DataTypes
  <2> QED  BY <1>7, <1>15, <2>2 DEF ReceivePart, initVars
<1>16. CASE ReceiveReturn(x)
  BY <1>9, <1>16 DEF ReceiveReturn, initVars
<1>17. CASE Fail(x)
  <2>1. Drop("sub", ref[x]) \/ UNCHANGED socketVars
    BY <1>17 DEF Fail
  <2> QED  BY <1>9, <1>17, <2>1 DEF Fail, initVars
<1>18. CASE Interrupt(x)
  BY <1>7, <1>8, <1>18 DEF Interrupt, initVars, socketVars
<1> QED  BY <1>10, <1>11, <1>12, <1>13, <1>14, <1>15, <1>16, <1>17, <1>18 DEF CallStep

LEMMA StarvedNext ==
    ASSUME LifeInv, DataTypes, ReceiveInv, [Next]_vars, NEW t \in Thread, NEW u \in Thread,
           Starved(t, u)
    PROVE  Starved(t, u)' \/ Interrupt(u)
<1>1. ipc = "idle"
  BY DEF LifeInv, CallInv, Starved
<1>2. PICK g : g = ref[t]
  OBVIOUS
<1>3. subscribed[g] = {} /\ inbox[g] = <<>> /\ pc[t] = "lock" /\ op[t] = "sub" /\ pc[u] = "part"
  BY <1>2 DEF Starved
<1>4. ASSUME NEW threadSafe \in BOOLEAN, NEW flag \in Flags, InitBegin(threadSafe, flag)
      PROVE  FALSE
  BY <1>3, <1>4 DEF InitBegin
<1>5. CASE InitStep
  BY <1>1, <1>5 DEF InitStep, Reset, NewContext, FetchUrls, Skip, Make
<1>6. ASSUME NEW x \in Thread, CallStep(x) PROVE Starved(t, u)' \/ Interrupt(u)
  BY <1>6, StarvedCall
<1>7. ASSUME NEW x \in Thread, NEW o \in Operation, Call(x, o) PROVE Starved(t, u)'
  <2>1. RestTypes
    BY TypeParts DEF LifeInv
  <2>2. x # t /\ x # u /\ safe' = safe /\ subscribed' = subscribed /\ inbox' = inbox
    BY <1>3, <1>7 DEF Call, initVars, socketVars
  <2>3. /\ op'[t] = op[t] /\ pc'[t] = pc[t] /\ ref'[t] = ref[t]
        /\ op'[u] = op[u] /\ pc'[u] = pc[u] /\ ref'[u] = ref[u]
    BY <1>7, <2>1, <2>2 DEF Call, RestTypes
  <2> QED  BY <1>2, <1>3, <2>2, <2>3, StillStarved
<1>8. CASE UNCHANGED vars
  BY <1>2, <1>3, <1>8, StillStarved DEF vars, initVars, callVars, socketVars
<1> QED  BY <1>4, <1>5, <1>6, <1>7, <1>8 DEF Next

-----------------------------------------------------------------------------
(* Theorems *)

LEMMA InitHolds == Init => LifeInv /\ MessageInv
<1> SUFFICES ASSUME Init PROVE LifeInv /\ MessageInv
  OBVIOUS
<1> USE InitAssumption DEF InitAssumption
<1>1. \A k \in Kind, g \in Generation : Receivers(k, g) = {} /\ Held(k, g) = 0
  <2>1. ASSUME NEW k \in Kind, NEW g \in Generation
        PROVE  Receivers(k, g) = {} /\ Held(k, g) = 0
    <3>1. Receivers(k, g) = {}
      BY DEF Init, Receivers, UsesClient
    <3>2. One(global[k] = g) = 0
      BY DEF Init, One, Generation
    <3> QED  BY <3>1, <3>2, FS_EmptySet DEF Held
  <2> QED  BY <2>1
<1>2. \A g \in Generation : One(gcontext = g) = 0 /\ Cardinality(Clients(g)) = 0
  <2>1. ASSUME NEW g \in Generation
        PROVE  One(gcontext = g) = 0 /\ Cardinality(Clients(g)) = 0
    <3>1. Clients(g) = {}
      BY DEF Init, Clients, Exists, Open
    <3>2. One(gcontext = g) = 0
      BY DEF Init, One, Generation
    <3> QED  BY <3>1, <3>2, FS_EmptySet
  <2> QED  BY <2>1
<1>3. ShareInv
  BY <1>1, <1>2 DEF ShareInv, Held, Init, Exists, Open
<1>4. TypeOK
  BY DEF Init, TypeOK, Exists, Open, Operation
<1>5. CallInv /\ InitInv
  BY DEF Init, CallInv, InitInv
<1>6. DataTypes
  <2>1. <<>> \in Seq(PartType) /\ <<>> \in Seq(Seq(PartType))
    OBVIOUS
  <2> QED  BY <2>1 DEF Init, DataTypes
<1>7. Exclusive /\ FramesWhole
  BY DEF Init, Exclusive, FramesWhole
<1>8. SendInv /\ ReceiveInv
  BY DEF Init, SendInv, ReceiveInv
<1> QED  BY <1>3, <1>4, <1>5, <1>6, <1>7, <1>8 DEF LifeInv, MessageInv

LEMMA MessageCallStep ==
    ASSUME LifeInv, MessageInv, NEW t \in Thread, CallStep(t)
    PROVE  MessageInv'
<1>1. ASSUME NEW topic \in Topic \cup {Empty}, PublishTopic(t, topic) PROVE MessageInv'
  BY <1>1, MessageTopic
<1>2. ASSUME NEW content \in Content \cup {Empty}, PublishContent(t, content)
      PROVE  MessageInv'
  BY <1>2, MessageContent
<1>3. ASSUME NEW topics \in SUBSET (Topic \cup {Empty}), Subscribe(t, topics)
      PROVE  MessageInv'
  <2>1. /\ pc[t] = "lock" /\ Return(t) /\ safe' = safe /\ torn' = torn
        /\ sending' = sending /\ inbox' = inbox
    BY <1>3 DEF Subscribe, MayEnter, initVars
  <2> QED  BY <2>1, MessageLeaves
<1>4. CASE Push(t)
  <2>1. /\ pc[t] = "lock" /\ Return(t) /\ safe' = safe /\ torn' = torn
        /\ sending' = sending /\ inbox' = inbox
    BY <1>4 DEF Push, MayEnter, initVars
  <2> QED  BY <2>1, MessageLeaves
<1>5. CASE Pull(t)
  <2>1. /\ pc[t] = "pull" /\ Return(t) /\ safe' = safe /\ torn' = torn
        /\ sending' = sending /\ inbox' = inbox
    BY <1>5 DEF Pull, initVars
  <2> QED  BY <2>1, MessageLeaves
<1>6. CASE PullEnter(t) \/ ReceiveEnter(t)
  BY <1>6, MessageEnter
<1>7. CASE ReceivePart(t)
  BY <1>7, MessagePart
<1>8. CASE ReceiveReturn(t)
  BY <1>8, MessageLeaves DEF ReceiveReturn, initVars, historyVars
<1>9. CASE Fail(t)
  <2>1. /\ pc[t] = "lock" /\ Return(t) /\ safe' = safe /\ torn' = torn
        /\ \/ sending' = sending /\ inbox' = inbox
           \/ op[t] = "recv" /\ Drop("sub", ref[t])
    BY <1>9 DEF Fail, MayEnter, initVars, historyVars, socketVars
  <2> QED  BY <2>1, MessageLeaves
<1>10. CASE Interrupt(t)
  <2>1. CASE op[t] = "recv"
    BY <1>10, <2>1, MessageInterrupt DEF Interrupt, initVars
  <2>2. CASE op[t] # "recv"
    <3>1. /\ pc[t] = "pull" /\ Return(t) /\ safe' = safe /\ torn' = torn
          /\ sending' = sending /\ inbox' = inbox
      BY <1>10, <2>2 DEF Interrupt, initVars, historyVars, socketVars
    <3> QED  BY <3>1, MessageLeaves
  <2> QED  BY <2>1, <2>2
<1> QED  BY <1>1, <1>2, <1>3, <1>4, <1>5, <1>6, <1>7, <1>8, <1>9, <1>10 DEF CallStep

LEMMA NextHolds ==
    ASSUME LifeInv, MessageInv, [Next]_vars
    PROVE  LifeInv' /\ MessageInv'
<1>1. ASSUME NEW threadSafe \in BOOLEAN, NEW flag \in Flags, InitBegin(threadSafe, flag)
      PROVE  LifeInv' /\ MessageInv'
  BY <1>1, LifeBegin, MessageInit
<1>2. CASE InitStep
  BY <1>2, LifeReset, LifeContext, LifeFetchSkip, LifeMake, MessageInit DEF InitStep
<1>3. ASSUME NEW t \in Thread, CallStep(t) PROVE LifeInv' /\ MessageInv'
  BY <1>3, LifeCallStep, MessageCallStep DEF MessageInv
<1>4. ASSUME NEW t \in Thread, NEW o \in Operation, Call(t, o)
      PROVE  LifeInv' /\ MessageInv'
  BY <1>4, LifeCall, MessageCall
<1>5. CASE UNCHANGED vars
  <2>1. LifeInv'
    <3>1. \A k, g : Receivers(k, g)' = Receivers(k, g) /\ Clients(g)' = Clients(g)
      BY <1>5 DEF vars, callVars, lifeVars, Receivers, UsesClient, Clients
    <3> QED  BY <1>5, <3>1
             DEF LifeInv, TypeOK, ShareInv, CallInv, InitInv, vars, initVars, lifeVars,
                 callVars, socketVars, historyVars
  <2>2. DataTypes'
    BY <1>5 DEF MessageInv, DataTypes, vars, callVars, socketVars
  <2> QED  BY <1>5, <2>1, <2>2, MessageRests
           DEF vars, initVars, callVars, socketVars, historyVars
<1> QED  BY <1>1, <1>2, <1>3, <1>4, <1>5 DEF Next

\* The invariants of shares, calls, initialization and messages hold together
\* (mb.cpp, mb_publisher.cpp, mb_subscriber.cpp).
THEOREM Invariant == Spec => [](LifeInv /\ MessageInv)
<1>1. Init => LifeInv /\ MessageInv
  BY InitHolds
<1>2. LifeInv /\ MessageInv /\ [Next]_vars => (LifeInv /\ MessageInv)'
  BY NextHolds
<1> QED  BY <1>1, <1>2, PTL DEF Spec

\* Types, and a call in progress has a generation (mb_global.cpp:17-21).
THEOREM TypeOKHolds == Spec => []TypeOK
<1>1. LifeInv => TypeOK
  BY DEF LifeInv
<1> QED  BY <1>1, Invariant, PTL

\* Clients and contexts live exactly as long as they are shared, whatever the
\* numbers of threads and of initializations (mb.cpp:11-17, 84).
THEOREM LifetimesHolds == Spec => []Lifetimes
<1>1. ASSUME LifeInv PROVE Lifetimes
  <2>1. RestTypes
    BY <1>1, TypeParts DEF LifeInv
  <2>2. ASSUME NEW k \in Kind, NEW g \in Generation
        PROVE  client[k][g] \in Exists <=> Shares(k, g)
    <3>1. uses[k][g] = One(global[k] = g) + Cardinality(Receivers(k, g))
          /\ (client[k][g] \in Exists <=> uses[k][g] > 0)
      BY <1>1 DEF LifeInv, ShareInv
    <3>2. /\ Cardinality(Receivers(k, g)) \in Nat
          /\ Cardinality(Receivers(k, g)) = 0 <=> Receivers(k, g) = {}
      BY ReceiversFinite, FS_EmptySet
    <3>3. Receivers(k, g) # {} <=> \E t \in Thread : op[t] = "recv" /\ UsesClient(t, k, g)
      BY DEF Receivers
    <3> QED  BY <3>1, <3>2, <3>3 DEF Shares, One
  <2>3. ASSUME NEW t \in Thread, pc[t] # "idle" PROVE ClientOf(t) \in Exists
    <3>1. PICK g \in Generation : g = ref[t]
      BY <2>1, <2>3, InitAssumption DEF RestTypes, Generation, InitAssumption
    <3>2. PICK k \in Kind : k = KindOf(op[t])
      BY <1>1, <2>1, <2>3 DEF LifeInv, CallInv, RestTypes, KindOf, Kind, Operation
    <3>3. Shares(k, g)
      BY <1>1, <2>3, <3>1, <3>2 DEF Shares, UsesClient, LifeInv, CallInv, KindOf
    <3> QED  BY <2>2, <3>1, <3>2, <3>3 DEF ClientOf
  <2>4. ASSUME NEW g \in Generation
        PROVE  contextUses[g] > 0 <=>
                 gcontext = g \/ \E k \in Kind : client[k][g] \in Exists
    <3>1. contextUses[g] = One(gcontext = g) + Cardinality(Clients(g))
      BY <1>1 DEF LifeInv, ShareInv
    <3>2. /\ Cardinality(Clients(g)) \in Nat
          /\ Cardinality(Clients(g)) = 0 <=> Clients(g) = {}
      BY ClientsFinite, FS_EmptySet
    <3>3. Clients(g) # {} <=> \E k \in Kind : client[k][g] \in Exists
      BY DEF Clients
    <3> QED  BY <3>1, <3>2, <3>3 DEF One
  <2> QED  BY <2>2, <2>3, <2>4 DEF Lifetimes
<1> QED  BY <1>1, Invariant, PTL

\* A received frame is one message, whatever the threads, texts and losses
\* (mb_publisher.cpp:23-31, mb_subscriber.cpp:56-80).
THEOREM FramesWholeHolds == Spec => []FramesWhole
<1>1. MessageInv => FramesWhole
  BY DEF MessageInv
<1> QED  BY <1>1, Invariant, PTL

\* A first subscription behind a receive waits for ever, unless a signal ends
\* the receive, whatever the other threads do (mb_subscriber.cpp:27, 56-65).
THEOREM SubscribeStarvesHolds == Spec => SubscribeStarves
<1> DEFINE Waits == \A t, u \in Thread : Starved(t, u) => Starved(t, u)' \/ Interrupt(u)
<1>1. LifeInv /\ MessageInv /\ [Next]_vars => [Waits]_vars
  BY StarvedNext DEF MessageInv
<1> QED  BY <1>1, Invariant, PTL DEF Spec, SubscribeStarves
=============================================================================
