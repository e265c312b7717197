---------------------------- MODULE EnvPostProofs ----------------------------
(***************************************************************************)
(* Proofs about EnvRegistry, for any number of threads and envs, and about *)
(* EnvPost and MsgPack, for any values and argument lists.                 *)
(*                                                                         *)
(* The registry, in three layers: types (TypeInv); what mList, the lock    *)
(* and the envs under creation have to do with each other (ListInv), from  *)
(* which an id names one env; and, for boot scripts that keep to           *)
(* themselves, that whatever is posted to or handled is an env whose boot  *)
(* has ended (UpInv).                                                      *)
(*                                                                         *)
(* The payloads: the bytes of a value are a header and what it announces   *)
(* (Code), and wherever they are in a byte string decoding reads them back *)
(* (ReadValue), by induction over the levels of nesting and, in the loops, *)
(* over the values that are still to be read (Items).  From it what one    *)
(* call, several calls and a payload that was cut give, and from the       *)
(* state machine that no other bytes are under way.                        *)
(***************************************************************************)
EXTENDS EnvPost, FiniteSetTheorems, SequenceTheorems, WellFoundedInduction, TLAPS

-----------------------------------------------------------------------------
(* Layer 1: types.                                                         *)

Lives == {"unborn", "creating", "boot", "up", "freed"}
Pcs == {"run", "find", "publish", "init", "post"}
Faults == {"none", "moved", "beyond", "freed", "no queue"}
MaybeEnv == Envs \cup {NoEnv}
MaybePayload == Payloads \cup {<<>>}

ListType == \E n \in Nat : n > 2 /\ mList \in [0 .. n - 1 -> MaybeEnv]

EnvType == envs \in [Envs -> [mId: Nat, mMq: BOOLEAN, life: Lives]]

CallType ==
  /\ pc \in [Threads -> Pcs]
  /\ creating \in [Threads -> Seq(Envs)]
  /\ handling \in [Threads -> [env: MaybeEnv, payload: MaybePayload]]
  /\ posting \in [Threads -> [to: Nat, payload: MaybePayload, moves: Nat]]

\* What a thread in the middle of env_create or env_post has at hand.
PhaseType ==
  \A t \in Threads :
    /\ pc[t] \in {"publish", "init"} => creating[t] # <<>>
    /\ pc[t] = "post" => posting[t].payload \in Payloads

TypeInv ==
  /\ ListType /\ EnvType /\ CallType /\ PhaseType
  /\ moves \in Nat /\ mLock \in Threads \cup {0} /\ known \subseteq Nat
  /\ queue \in [Envs -> Seq(Payloads)]
  /\ fault \in Faults /\ nPosts \in 0 .. MaxPosts

(* Layer 2: mList and the envs under creation.                             *)

Listed(e) == envs[e].mId \in DOMAIN mList /\ mList[envs[e].mId] = e

\* t has made e and is about to put it into mList.
Publishing(t, e) == pc[t] = "publish" /\ Innermost(t) = e

LockInv == \A t \in Threads : pc[t] \in {"find", "publish"} => mLock = t

StackInv ==
  \A t \in Threads : \A k \in 1 .. Len(creating[t]) :
    Listed(creating[t][k]) \/ (pc[t] = "publish" /\ k = Len(creating[t]))

PublishInv ==
  \A t \in Threads :
    pc[t] = "publish" => /\ envs[Innermost(t)].mId = NewId
                         /\ envs[Innermost(t)].life = "creating"

BornInv ==
  /\ mList[0] = NoEnv
  /\ \A e \in Envs :
       \/ envs[e] = Unborn
       \/ envs[e].mId # 0 /\ (Listed(e) \/ \E t \in Threads : Publishing(t, e))

ListInv == LockInv /\ StackInv /\ PublishInv /\ BornInv

(* When the list has moved, and what a call of env_post knows of that.     *)

MoveInv ==
  /\ Grow <= mListLen
  /\ moves > 0 => ListWasFull
  /\ \A t \in Threads : pc[t] = "post" => posting[t].moves <= moves
  /\ fault = "moved" => moves > 0

(* Layer 3: who is posted to and handled.                                  *)

Up(e) == envs[e].life = "up" /\ envs[e].mMq

KnownInv ==
  /\ \A i \in known : i \in DOMAIN mList /\ mList[i] # NoEnv /\ Up(mList[i])
  /\ \A t \in Threads : pc[t] = "post" => posting[t].to \in known

UnderWayInv ==
  \A t \in Threads : \A k \in 1 .. Len(creating[t]) :
    envs[creating[t][k]].life \in {"creating", "boot"}

ApartInv ==
  \A t \in Threads, u \in Threads :
    \A k \in 1 .. Len(creating[t]), l \in 1 .. Len(creating[u]) :
      creating[t][k] = creating[u][l] => t = u /\ k = l

CreatedInv == UnderWayInv /\ ApartInv

HandledInv ==
  /\ \A e \in Envs : queue[e] # <<>> => Up(e)
  /\ \A t \in Threads : handling[t].env # NoEnv => Up(handling[t].env)
  /\ \A t \in Threads, u \in Threads :
       handling[t].env = handling[u].env => t = u \/ handling[t].env = NoEnv

FaultInv == fault \in {"none", "moved"}

UpInv == KnownInv /\ CreatedInv /\ HandledInv /\ FaultInv

-----------------------------------------------------------------------------
(* Facts about the list and the choice of ids.                             *)

\* A set of natural numbers has a least element (the order of the prefixes 0 .. x is
\* well-founded).
LEMMA LeastNatural ==
  ASSUME NEW S \in SUBSET Nat, S # {}
  PROVE  \E x \in S : \A y \in S : x <= y
<1> DEFINE T == {0 .. x : x \in S}
<1>1. T \subseteq FiniteSubsetsOf(Nat) /\ T # {}
  <2>1. ASSUME NEW x \in S PROVE 0 .. x \in FiniteSubsetsOf(Nat)
    <3>1. 0 \in Int /\ x \in Int
      OBVIOUS
    <3>2. IsFiniteSet(0 .. x)
      BY <3>1, FS_Interval
    <3> QED
      BY <3>2 DEF FiniteSubsetsOf
  <2> QED
    BY <2>1
<1>2. PICK X \in T : \A Y \in T : <<Y, X>> \notin StrictSubsetOrdering(Nat)
  <2> HIDE DEF T
  <2> QED
    BY <1>1, WFMin, FS_StrictSubsetOrderingWellFounded
<1>3. PICK x \in S : X = 0 .. x
  OBVIOUS
<1>4. ASSUME NEW y \in S PROVE x <= y
  <2> SUFFICES ASSUME y < x PROVE FALSE
    OBVIOUS
  <2>1. 0 .. y \subseteq 0 .. x /\ 0 .. y # 0 .. x
    <3>1. x \in 0 .. x /\ x \notin 0 .. y
      OBVIOUS
    <3> QED
      BY <3>1
  <2>2. <<0 .. y, X>> \in StrictSubsetOrdering(Nat)
    BY <2>1, <1>3 DEF StrictSubsetOrdering
  <2> QED
    BY <2>2, <1>2
<1> QED
  BY <1>4

\* mListLen is the length of the list.
LEMMA ListLength ==
  ASSUME ListType
  PROVE  /\ mListLen \in Nat /\ mListLen > 2
         /\ DOMAIN mList = 0 .. mListLen - 1
         /\ mList \in [0 .. mListLen - 1 -> MaybeEnv]
BY FS_Interval DEF ListType, mListLen

\* The id env_create finds has no env, and is at most one beyond the list.
LEMMA NewIdIsFree ==
  ASSUME ListType
  PROVE  /\ NewId \in Nat /\ NewId # 0 /\ NewId <= mListLen
         /\ NewId \in DOMAIN mList => mList[NewId] = NoEnv
<1>1. CASE FreeIds = {}
  BY <1>1, ListLength DEF NewId
<1>2. CASE FreeIds # {}
  <2>1. FreeIds \in SUBSET Nat
    BY DEF FreeIds
  <2>2. \E i \in FreeIds : \A j \in FreeIds : i <= j
    BY <2>1, <1>2, LeastNatural
  <2>3. NewId \in FreeIds
    BY <2>2, <1>2 DEF NewId
  <2> QED
    BY <2>3, ListLength DEF FreeIds
<1> QED
  BY <1>1, <1>2

\* It is in the list as long as there is one to have.
LEMMA NewIdIsTaken ==
  ASSUME ListType, FreeIds # {}
  PROVE  NewId \in 1 .. mListLen - 1
<1>1. FreeIds \in SUBSET Nat
  BY DEF FreeIds
<1>2. \E i \in FreeIds : \A j \in FreeIds : i <= j
  BY <1>1, LeastNatural
<1>3. NewId \in FreeIds
  BY <1>2 DEF NewId
<1> QED
  BY <1>3 DEF FreeIds

\* The env it makes is a new one.
LEMMA NewEnvIsUnborn ==
  ASSUME \E e \in Envs : envs[e] = Unborn
  PROVE  NewEnv \in Envs /\ envs[NewEnv] = Unborn
BY DEF NewEnv

\* The innermost env a thread is creating.
LEMMA InnermostIsEnv ==
  ASSUME CallType, NEW t \in Threads, creating[t] # <<>>
  PROVE  /\ Innermost(t) \in Envs
         /\ Len(creating[t]) \in Nat /\ Len(creating[t]) >= 1
         /\ Innermost(t) = creating[t][Len(creating[t])]
BY EmptySeq DEF CallType, Innermost

\* A non-empty sequence without its last element.
LEMMA WithoutLast ==
  ASSUME NEW S, NEW s \in Seq(S), s # <<>>
  PROVE  LET r == SubSeq(s, 1, Len(s) - 1) IN
         /\ r \in Seq(S) /\ Len(r) = Len(s) - 1 /\ Len(r) \in Nat
         /\ \A k \in 1 .. Len(r) : r[k] = s[k]
<1> DEFINE n == Len(s) - 1
<1>1. n \in Nat
  BY EmptySeq
<1>2. \A i \in 1 .. n : s[i] \in S
  BY <1>1
<1>3. /\ SubSeq(s, 1, n) \in Seq(S)
      /\ Len(SubSeq(s, 1, n)) = n
      /\ \A i \in 1 .. n : SubSeq(s, 1, n)[i] = s[i]
  <2>1. 1 \in Int /\ n \in Int
    BY <1>1
  <2> HIDE DEF n
  <2>2. /\ SubSeq(s, 1, n) \in Seq(S)
        /\ Len(SubSeq(s, 1, n)) = IF 1 <= n THEN n - 1 + 1 ELSE 0
        /\ \A i \in 1 .. n - 1 + 1 : SubSeq(s, 1, n)[i] = s[1 + i - 1]
    BY <2>1, <1>2, SubSeqProperties
  <2>3. Len(SubSeq(s, 1, n)) = n
    BY <2>2, <1>1
  <2>4. ASSUME NEW i \in 1 .. n PROVE SubSeq(s, 1, n)[i] = s[i]
    <3>1. i \in 1 .. n - 1 + 1 /\ 1 + i - 1 = i
      BY <1>1
    <3> QED
      BY <2>2, <3>1
  <2> QED
    BY <2>2, <2>3, <2>4
<1> QED
  BY <1>1, <1>3

\* What env_post can find.
LEMMA DamageIsFault == \A p, e : Damage(p, e) \in Faults
BY Zenon DEF Damage, Faults

\* Nothing, but a list that has moved, if the entry leads to an env that is up.
LEMMA NoDamage ==
  ASSUME NEW p, NEW e, p.to \in DOMAIN mList, Up(e)
  PROVE  Damage(p, e) \in {"none", "moved"}
<1>1. envs[e].life # "freed" /\ envs[e].mMq
  BY DEF Up
<1> QED
  BY <1>1, Zenon DEF Damage

\* A moved list is noticed by its moves.
LEMMA MovedDamage == \A p, e : Damage(p, e) = "moved" => p.moves # moves
<1> SUFFICES ASSUME NEW p, NEW e, p.moves = moves PROVE Damage(p, e) # "moved"
  OBVIOUS
<1>1. Damage(p, e) \in {"beyond", "none", "freed", "no queue"}
  BY Zenon DEF Damage
<1> QED
  BY <1>1, Zenon

\* An env about to be published is not in the list.
LEMMA PublishedLater ==
  ASSUME TypeInv, PublishInv, NEW t \in Threads, pc[t] = "publish"
  PROVE  ~Listed(Innermost(t))
BY NewIdIsFree, InnermostIsEnv DEF TypeInv, PhaseType, PublishInv, Listed, MaybeEnv, NoEnv, Envs

-----------------------------------------------------------------------------
(* Types.                                                                  *)

\* The envs main has booted, with their messages, have the types.
LEMMA TypeInit == Init => TypeInv
<1> SUFFICES ASSUME NEW payload \in Payloads, InitWith(payload) PROVE TypeInv
  BY DEF Init
<1> USE RegistryAssumption DEF InitWith
<1>1. ListType
  <2>1. mList \in [0 .. Grow - 1 -> MaybeEnv]
    BY DEF MaybeEnv, Envs, NoEnv
  <2> QED
    BY <2>1 DEF ListType
<1>2. EnvType
  BY DEF EnvType, Envs, Unborn, Lives
<1>3. CallType /\ PhaseType
  BY DEF CallType, PhaseType, Pcs, Idle, NoPost, MaybeEnv, MaybePayload
<1>4. queue \in [Envs -> Seq(Payloads)]
  OBVIOUS
<1> QED
  BY <1>1, <1>2, <1>3, <1>4 DEF TypeInv, Faults

\* Every step of env_create, env_post and the workers keeps the types.
LEMMA TypeStep == TypeInv /\ [Next]_vars => TypeInv'
<1> SUFFICES ASSUME TypeInv, [Next]_vars PROVE TypeInv'
  OBVIOUS
<1> USE RegistryAssumption DEF TypeInv
<1>1. ASSUME NEW t \in Threads, CreateLock(t) PROVE TypeInv'
  BY <1>1 DEF CreateLock, Goto, ListType, EnvType, CallType, PhaseType, Pcs
<1>2. ASSUME NEW t \in Threads, CreateFind(t) PROVE TypeInv'
  <2> USE <1>2 DEF CreateFind, Goto, listVars
  <2>1. NewEnv \in Envs /\ NewId \in Nat
    BY NewEnvIsUnborn, NewIdIsFree
  <2>2. EnvType'
    BY <2>1 DEF EnvType, Lives
  <2>3. Append(creating[t], NewEnv) \in Seq(Envs) /\ Append(creating[t], NewEnv) # <<>>
    BY <2>1, AppendProperties DEF CallType
  <2>4. CallType' /\ PhaseType'
    BY <2>3 DEF CallType, PhaseType, Pcs
  <2> QED
    BY <2>2, <2>4 DEF ListType
<1>3. ASSUME NEW t \in Threads, CreatePublish(t) PROVE TypeInv'
  <2> USE <1>3 DEF CreatePublish, Goto, Stands
  <2> DEFINE e == Innermost(t)
             n == IF envs[e].mId >= mListLen THEN mListLen + Grow ELSE mListLen
  <2>1. e \in Envs
    BY InnermostIsEnv DEF PhaseType
  <2>2. ListType'
    <3>1. n \in Nat /\ n > 2
      BY ListLength, <2>1 DEF EnvType
    <3>2. mList' \in [0 .. n - 1 -> MaybeEnv]
      BY ListLength, <2>1 DEF MaybeEnv, NewEntry
    <3> QED
      BY <3>1, <3>2 DEF ListType
  <2>3. CallType' /\ PhaseType'
    BY DEF CallType, PhaseType, Pcs
  <2> QED
    BY <2>2, <2>3 DEF EnvType
<1>4. ASSUME NEW t \in Threads, CreateInit(t) PROVE TypeInv'
  <2> USE <1>4 DEF CreateInit, Goto, listVars, Stands
  <2>1. Innermost(t) \in Envs
    BY InnermostIsEnv DEF PhaseType
  <2>2. EnvType' /\ known' \subseteq Nat
    BY <2>1 DEF EnvType, Lives
  <2>3. CallType' /\ PhaseType'
    BY DEF CallType, PhaseType, Pcs
  <2> QED
    BY <2>2, <2>3 DEF ListType
<1>5. ASSUME NEW t \in Threads, NEW life \in Lives, NEW mq \in BOOLEAN, Created(t, life, mq),
             known' \subseteq Nat
      PROVE  TypeInv'
  <2> USE <1>5 DEF Created, Script, Stands, listVars
  <2>1. Innermost(t) \in Envs /\ Len(creating[t]) \in Nat
    BY InnermostIsEnv
  <2>2. EnvType'
    BY <2>1 DEF EnvType
  <2>3. SubSeq(creating[t], 1, Len(creating[t]) - 1) \in Seq(Envs)
    BY <2>1, WithoutLast DEF CallType
  <2>4. CallType' /\ PhaseType'
    BY <2>3 DEF CallType, PhaseType
  <2> QED
    BY <2>2, <2>4 DEF ListType
<1>6. ASSUME NEW t \in Threads, Booted(t) PROVE TypeInv'
  <2>1. Innermost(t) \in Envs
    BY <1>6, InnermostIsEnv DEF Booted, Created
  <2>2. known' \subseteq Nat
    BY <1>6, <2>1 DEF Booted, EnvType
  <2> QED
    BY <1>5, <1>6, <2>2 DEF Booted, Lives
<1>7. ASSUME NEW t \in Threads, BootFails(t) PROVE TypeInv'
  BY <1>5, <1>7 DEF BootFails, Lives
<1>8. ASSUME NEW t \in Threads, NEW to \in known, NEW p \in Payloads, PostBegin(t, to, p)
      PROVE  TypeInv'
  <2> USE <1>8 DEF PostBegin, Goto, listVars, Script, Stands
  <2>1. CallType' /\ PhaseType'
    <3>1. CASE to > mListLen
      BY <3>1 DEF CallType, PhaseType
    <3>2. CASE ~(to > mListLen)
      <4>1. [to |-> to, payload |-> p, moves |-> moves] \in [to: Nat, payload: MaybePayload, moves: Nat]
        BY DEF MaybePayload
      <4>2. pc' = [pc EXCEPT ![t] = "post"] /\ pc' \in [Threads -> Pcs]
        BY <3>2 DEF CallType, Pcs
      <4>3. /\ posting' = [posting EXCEPT ![t] = [to |-> to, payload |-> p, moves |-> moves]]
            /\ posting' \in [Threads -> [to: Nat, payload: MaybePayload, moves: Nat]]
        BY <3>2, <4>1 DEF CallType
      <4>4. CallType'
        BY <4>2, <4>3 DEF CallType
      <4>5. posting'[t].payload \in Payloads /\ pc'[t] = "post"
        BY <4>2, <4>3 DEF CallType
      <4>6. ASSUME NEW u \in Threads, u # t PROVE posting'[u] = posting[u] /\ pc'[u] = pc[u]
        BY <4>2, <4>3, <4>6 DEF CallType
      <4>7. creating' = creating
        OBVIOUS
      <4>8. PhaseType'
        BY <4>5, <4>6, <4>7 DEF PhaseType
      <4> QED
        BY <4>4, <4>8
    <3> QED
      BY <3>1, <3>2
  <2>2. nPosts' \in 0 .. MaxPosts
    OBVIOUS
  <2> QED
    BY <2>1, <2>2 DEF ListType, EnvType
<1>9. ASSUME NEW t \in Threads, PostEnd(t) PROVE TypeInv'
  <2> USE <1>9 DEF PostEnd, Goto, listVars, Stands
  <2> DEFINE e == IF posting[t].to \in DOMAIN mList THEN mList[posting[t].to] ELSE NoEnv
  <2>1. CallType' /\ PhaseType'
    <3>1. NoPost \in [to: Nat, payload: MaybePayload, moves: Nat]
      BY DEF NoPost, MaybePayload
    <3>2. pc' \in [Threads -> Pcs] /\ posting' \in [Threads -> [to: Nat, payload: MaybePayload, moves: Nat]]
      BY <3>1 DEF CallType, Pcs
    <3> QED
      BY <3>2 DEF CallType, PhaseType
  <2>2. fault' \in Faults
    BY DamageIsFault
  <2>3. e \in MaybeEnv
    BY ListLength DEF MaybeEnv
  <2>4. queue' \in [Envs -> Seq(Payloads)]
    <3>1. CASE e \in Envs
      <4>1. Append(queue[e], posting[t].payload) \in Seq(Payloads)
        BY <3>1, AppendProperties DEF PhaseType
      <4> QED
        BY <3>1, <4>1
    <3>2. CASE e = NoEnv
      BY <3>2
    <3> QED
      BY <2>3, <3>1, <3>2 DEF MaybeEnv
  <2> QED
    BY <2>1, <2>2, <2>4 DEF ListType, EnvType
<1>10. ASSUME NEW t \in Threads, NEW e \in Envs, Handle(t, e) PROVE TypeInv'
  <2> USE <1>10 DEF Handle, listVars
  <2>1. Head(queue[e]) \in Payloads /\ Tail(queue[e]) \in Seq(Payloads)
    BY HeadTailProperties
  <2>2. CallType' /\ PhaseType'
    BY <2>1 DEF CallType, PhaseType, MaybeEnv, MaybePayload
  <2> QED
    BY <2>1, <2>2 DEF ListType, EnvType, Faults
<1>11. ASSUME NEW t \in Threads, Return(t) PROVE TypeInv'
  BY <1>11 DEF Return, listVars, ListType, EnvType, CallType, PhaseType, Idle, MaybeEnv, MaybePayload
<1>12. CASE UNCHANGED vars
  BY <1>12 DEF vars, listVars, callVars, ListType, EnvType, CallType, PhaseType
<1> QED
  BY <1>1, <1>2, <1>3, <1>4, <1>6, <1>7, <1>8, <1>9, <1>10, <1>11, <1>12 DEF Next, NextWith

-----------------------------------------------------------------------------
(* The list.                                                               *)

\* The id the next env gets depends on the list alone.
LEMMA NewIdKept ==
  ASSUME mList' = mList
  PROVE  NewId' = NewId
BY DEF NewId, FreeIds, mListLen

\* A step that changes no env and nothing of the list, and moves threads between run
\* and post only, cannot disturb the list's invariant.
LEMMA QuietStep ==
  ASSUME ListInv, UNCHANGED <<mList, mLock, envs, creating>>,
         \A u \in Threads : pc'[u] = pc[u] \/ (pc[u] \in {"run", "post"} /\ pc'[u] \in {"run", "post"})
  PROVE  ListInv'
<1>1. LockInv'
  BY DEF ListInv, LockInv
<1>2. StackInv'
  BY DEF ListInv, StackInv, Listed
<1>3. PublishInv'
  BY NewIdKept DEF ListInv, PublishInv, Innermost
<1>4. BornInv'
  BY DEF ListInv, BornInv, Listed, Publishing, Innermost
<1> QED
  BY <1>1, <1>2, <1>3, <1>4 DEF ListInv

\* Publishing an env puts it into the list and takes no other out, whether or not
\* the list grows.
LEMMA ListKeepsAll ==
  ASSUME TypeInv, ListInv, NEW t \in Threads, CreatePublish(t)
  PROVE  /\ Listed(Innermost(t))'
         /\ \A f \in Envs : Listed(f) => Listed(f)'
         /\ mList'[0] = NoEnv
<1> DEFINE e == Innermost(t)
           id == envs[e].mId
           n == IF id >= mListLen THEN mListLen + Grow ELSE mListLen
<1> USE DEF TypeInv
<1>1. e \in Envs /\ id \in Nat /\ id = NewId
  BY InnermostIsEnv DEF CreatePublish, Stands, PhaseType, EnvType, ListInv, PublishInv
<1>2. n \in Nat /\ id \in 0 .. n - 1 /\ DOMAIN mList \subseteq 0 .. n - 1
  BY <1>1, NewIdIsFree, ListLength, RegistryAssumption
<1>3. mList' = [i \in 0 .. n - 1 |-> IF i = id THEN e ELSE IF i \in DOMAIN mList THEN mList[i] ELSE NewEntry]
  BY DEF CreatePublish
<1>4. envs' = envs /\ creating' = creating
  BY DEF CreatePublish
<1>5. Listed(e)'
  BY <1>2, <1>3, <1>4 DEF Listed, Innermost
<1>6. ASSUME NEW f \in Envs, Listed(f) PROVE Listed(f)'
  <2>1. envs[f].mId # id
    BY <1>1, <1>6, NewIdIsFree DEF Listed, Envs, NoEnv
  <2> QED
    BY <1>2, <1>3, <1>4, <1>6, <2>1 DEF Listed
<1>7. mList'[0] = NoEnv
  <2>1. 0 \in DOMAIN mList /\ id # 0
    BY <1>1, NewIdIsFree, ListLength
  <2> QED
    BY <1>2, <1>3, <2>1 DEF ListInv, BornInv
<1> QED
  BY <1>5, <1>6, <1>7

\* The list main leaves behind is in order.
LEMMA ListInit == Init => ListInv
<1> SUFFICES ASSUME NEW payload \in Payloads, InitWith(payload) PROVE ListInv
  BY DEF Init
<1> USE RegistryAssumption DEF InitWith
<1>1. \A e \in Envs : envs[e] = Unborn \/ (envs[e].mId = e /\ Listed(e))
  BY DEF Envs, Listed, Unborn, NoEnv
<1>2. BornInv
  BY <1>1 DEF BornInv, Envs
<1> QED
  BY <1>2 DEF ListInv, LockInv, StackInv, PublishInv

\* Every step keeps the list, the lock and the envs under creation in order.
LEMMA ListStep == TypeInv /\ TypeInv' /\ ListInv /\ [Next]_vars => ListInv'
<1> SUFFICES ASSUME TypeInv, TypeInv', ListInv, [Next]_vars PROVE ListInv'
  OBVIOUS
<1> USE RegistryAssumption DEF TypeInv
<1>1. ASSUME NEW t \in Threads, CreateLock(t) PROVE ListInv'
  <2> USE <1>1 DEF CreateLock, Goto, Script, Stands
  <2>1. LockInv'
    BY DEF ListInv, LockInv, CallType
  <2>2. \A u \in Threads : pc'[u] = "publish" <=> pc[u] = "publish"
    BY DEF CallType
  <2>3. StackInv'
    BY <2>2 DEF ListInv, StackInv, Listed
  <2>4. PublishInv'
    BY <2>2, NewIdKept DEF ListInv, PublishInv, Innermost
  <2>5. BornInv'
    BY <2>2 DEF ListInv, BornInv, Listed, Publishing, Innermost
  <2> QED
    BY <2>1, <2>3, <2>4, <2>5 DEF ListInv
<1>2. ASSUME NEW t \in Threads, CreateFind(t) PROVE ListInv'
  <2> USE <1>2 DEF CreateFind, Goto, Stands, listVars
  <2>1. NewEnv \in Envs /\ envs[NewEnv] = Unborn /\ NewId \in Nat /\ NewId # 0
    BY NewEnvIsUnborn, NewIdIsFree
  <2>2. ~Listed(NewEnv)
    BY <2>1 DEF Listed, Unborn, ListInv, BornInv, Envs, NoEnv
  <2>3. envs'[NewEnv] = [mId |-> NewId, mMq |-> FALSE, life |-> "creating"]
    BY <2>1 DEF EnvType
  <2>4. \A f \in Envs : f # NewEnv => envs'[f] = envs[f] /\ (Listed(f) => Listed(f)')
    BY <2>1 DEF EnvType, Listed
  <2>5. \A u \in Threads : u # t => pc'[u] = pc[u] /\ creating'[u] = creating[u] /\ pc[u] # "publish"
    BY DEF ListInv, LockInv, CallType
  <2>6. /\ pc'[t] = "publish" /\ creating'[t] = Append(creating[t], NewEnv)
        /\ creating[t] \in Seq(Envs)
    BY DEF CallType
  <2>7. /\ Len(creating'[t]) = Len(creating[t]) + 1 /\ Len(creating[t]) \in Nat
        /\ creating'[t][Len(creating[t]) + 1] = NewEnv
        /\ \A k \in 1 .. Len(creating[t]) : creating'[t][k] = creating[t][k]
    BY <2>1, <2>6, AppendProperties
  <2>8. Innermost(t)' = NewEnv
    BY <2>7 DEF Innermost
  <2>9. LockInv'
    BY <2>5 DEF ListInv, LockInv
  <2>10. ASSUME NEW u \in Threads, NEW k \in 1 .. Len(creating[u])
         PROVE  Listed(creating[u][k])'
    <3>1. creating[u] \in Seq(Envs) /\ creating[u][k] \in Envs
      BY DEF CallType
    <3>2. Listed(creating[u][k])
      BY <2>5 DEF ListInv, StackInv
    <3>3. creating[u][k] # NewEnv
      BY <3>2, <2>2
    <3>4. \A f \in Envs : f # NewEnv /\ Listed(f) => envs'[f].mId \in DOMAIN mList' /\ mList'[envs'[f].mId] = f
      BY <2>4 DEF Listed
    <3> QED
      BY <3>1, <3>2, <3>3, <3>4 DEF Listed
  <2>11. StackInv'
    <3>1. ASSUME NEW u \in Threads, u # t, NEW k \in 1 .. Len(creating'[u])
          PROVE  Listed(creating[u][k])'
      BY <2>5, <2>10, <3>1
    <3>2. ASSUME NEW k \in 1 .. Len(creating'[t])
          PROVE  Listed(creating[t][k])' \/ k = Len(creating'[t])
      BY <2>7, <2>10, <3>2
    <3> QED
      BY <2>6, <3>1, <3>2 DEF StackInv
  <2>12. PublishInv'
    BY <2>5, <2>8, <2>3, NewIdKept DEF PublishInv
  <2>13. BornInv'
    <3>1. ASSUME NEW f \in Envs, f # NewEnv, envs'[f] # Unborn PROVE envs'[f].mId # 0 /\ Listed(f)'
      <4>1. envs[f] # Unborn /\ envs[f].mId # 0
        BY <2>4, <3>1 DEF ListInv, BornInv
      <4>2. ASSUME NEW u \in Threads PROVE ~Publishing(u, f)
        BY <2>5 DEF Publishing
      <4> QED
        BY <2>4, <3>1, <4>1, <4>2 DEF ListInv, BornInv
    <3>2. ASSUME NEW f \in Envs, f = NewEnv PROVE envs'[f].mId # 0 /\ Publishing(t, f)'
      BY <2>1, <2>3, <2>6, <2>8, <3>2 DEF Publishing
    <3>3. mList'[0] = NoEnv
      BY DEF ListInv, BornInv
    <3> HIDE <1>2
    <3> QED
      BY <3>1, <3>2, <3>3 DEF BornInv
  <2> QED
    BY <2>9, <2>11, <2>12, <2>13 DEF ListInv
<1>3. ASSUME NEW t \in Threads, CreatePublish(t) PROVE ListInv'
  <2> USE <1>3 DEF CreatePublish, Goto, Stands
  <2>1. /\ Listed(Innermost(t))' /\ \A f \in Envs : Listed(f) => Listed(f)'
        /\ mList'[0] = NoEnv
    BY ListKeepsAll
  <2>2. \A u \in Threads : u # t => pc'[u] = pc[u] /\ pc[u] \notin {"find", "publish"}
    BY DEF ListInv, LockInv, CallType
  <2>3. pc'[t] = "init" /\ creating' = creating /\ envs' = envs
    BY DEF CallType
  <2> HIDE <1>3
  <2>4. LockInv' /\ PublishInv'
    BY <2>2, <2>3 DEF LockInv, PublishInv
  <2>5. StackInv'
    <3>1. ASSUME NEW u \in Threads, NEW k \in 1 .. Len(creating[u])
          PROVE  Listed(creating[u][k])'
      <4>1. creating[u] \in Seq(Envs) /\ creating[u][k] \in Envs
        BY DEF CallType
      <4>2. CASE Listed(creating[u][k])
        BY <4>1, <4>2, <2>1, <2>3 DEF Listed
      <4>3. CASE ~Listed(creating[u][k])
        <5>1. u = t /\ k = Len(creating[u])
          BY <4>3, <2>2 DEF ListInv, StackInv
        <5> QED
          BY <5>1, <2>1, <2>3 DEF Listed, Innermost
      <4> QED
        BY <4>2, <4>3
    <3> QED
      BY <3>1, <2>3 DEF StackInv
  <2>6. BornInv'
    <3>1. ASSUME NEW f \in Envs, envs[f] # Unborn PROVE envs[f].mId # 0 /\ Listed(f)'
      <4>1. CASE Listed(f)
        BY <2>1, <3>1, <4>1 DEF ListInv, BornInv
      <4>2. CASE ~Listed(f)
        <5>1. PICK u \in Threads : Publishing(u, f)
          BY <3>1, <4>2 DEF ListInv, BornInv
        <5>2. u = t /\ f = Innermost(t)
          BY <5>1, <2>2 DEF Publishing
        <5> QED
          BY <3>1, <5>2, <2>1, <2>3 DEF ListInv, BornInv, Listed, Innermost
      <4> QED
        BY <4>1, <4>2
    <3> QED
      BY <3>1, <2>1, <2>3 DEF BornInv
  <2> QED
    BY <2>4, <2>5, <2>6 DEF ListInv
<1>4. ASSUME NEW t \in Threads, NEW e \in Envs, e = Innermost(t),
             \A u \in Threads : ~Publishing(u, e), envs[e] # Unborn,
             envs'[e].mId = envs[e].mId, \A f \in Envs : f # e => envs'[f] = envs[f],
             UNCHANGED <<mList, mLock>>,
             \A u \in Threads : u # t => pc'[u] = pc[u] /\ creating'[u] = creating[u],
             pc[t] \notin {"find", "publish"}, pc'[t] \notin {"find", "publish"},
             Len(creating'[t]) \in Nat, Len(creating'[t]) <= Len(creating[t]),
             \A k \in 1 .. Len(creating'[t]) : creating'[t][k] = creating[t][k]
      PROVE  ListInv'
  <2>1. \A f \in Envs : envs'[f].mId = envs[f].mId /\ (f # e => envs'[f] = envs[f])
    BY <1>4 DEF EnvType
  <2>2. \A f \in Envs : envs'[f].mId \in DOMAIN mList' /\ mList'[envs'[f].mId] = f <=> Listed(f)
    BY <1>4, <2>1 DEF Listed
  <2>3. \A u \in Threads, f \in Envs : Publishing(u, f)' <=> Publishing(u, f)
    BY <1>4 DEF Publishing, Innermost
  <2>4. LockInv'
    BY <1>4 DEF ListInv, LockInv
  <2>5. StackInv'
    <3>1. ASSUME NEW u \in Threads, NEW k \in 1 .. Len(creating'[u]), NEW f \in Envs,
                 f = creating'[u][k]
          PROVE  Listed(f)' \/ (pc'[u] = "publish" /\ k = Len(creating'[u]))
      <4>1. k \in 1 .. Len(creating[u]) /\ f = creating[u][k]
        <5>1. CASE u = t
          <6>1. creating'[t][k] = creating[t][k]
            BY <1>4, <3>1, <5>1
          <6>2. Len(creating[t]) \in Nat
            BY DEF CallType
          <6> QED
            BY <1>4, <3>1, <5>1, <6>1, <6>2
        <5>2. CASE u # t
          BY <1>4, <3>1, <5>2
        <5> QED
          BY <5>1, <5>2
      <4>2. Listed(f) \/ (pc[u] = "publish" /\ k = Len(creating[u]))
        BY <4>1 DEF ListInv, StackInv
      <4> QED
        BY <1>4, <2>2, <4>2 DEF Listed
    <3>2. \A u \in Threads : \A k \in 1 .. Len(creating'[u]) : creating'[u][k] \in Envs
      BY DEF CallType
    <3> QED
      BY <3>1, <3>2 DEF StackInv, Listed
  <2>6. PublishInv'
    <3>1. ASSUME NEW u \in Threads, pc'[u] = "publish"
          PROVE  Innermost(u)' = Innermost(u) /\ pc[u] = "publish" /\ Innermost(u) \in Envs \ {e}
      BY <1>4, <3>1, InnermostIsEnv DEF Innermost, Publishing, PhaseType
    <3>2. ASSUME NEW u \in Threads, pc'[u] = "publish"
          PROVE  envs'[Innermost(u)'] = envs[Innermost(u)]
      BY <1>4, <3>1, <3>2
    <3> QED
      BY <1>4, <3>1, <3>2, NewIdKept DEF ListInv, PublishInv
  <2>7. BornInv'
    <3>1. ASSUME NEW f \in Envs, envs'[f] # Unborn
          PROVE  envs'[f].mId # 0 /\ (Listed(f)' \/ \E u \in Threads : Publishing(u, f)')
      <4>1. envs[f] # Unborn
        BY <1>4, <3>1
      <4>2. envs[f].mId # 0 /\ (Listed(f) \/ \E u \in Threads : Publishing(u, f))
        BY <4>1 DEF ListInv, BornInv
      <4> QED
        BY <2>1, <2>2, <2>3, <4>2 DEF Listed
    <3> QED
      BY <1>4, <3>1 DEF ListInv, BornInv
  <2> QED
    BY <2>4, <2>5, <2>6, <2>7 DEF ListInv
\* An env that is booted or freed has been published.
<1>5. ASSUME NEW t \in Threads, creating[t] # <<>>, pc[t] # "publish"
      PROVE  /\ Innermost(t) \in Envs /\ envs[Innermost(t)] # Unborn
             /\ \A u \in Threads : ~Publishing(u, Innermost(t))
             /\ Len(creating[t]) \in Nat /\ Len(creating[t]) >= 1
  <2>1. /\ Innermost(t) \in Envs /\ Len(creating[t]) \in Nat /\ Len(creating[t]) >= 1
        /\ Innermost(t) = creating[t][Len(creating[t])]
    BY <1>5, InnermostIsEnv
  <2>2. Listed(Innermost(t))
    <3>1. Len(creating[t]) \in 1 .. Len(creating[t])
      BY <2>1
    <3>2. Listed(creating[t][Len(creating[t])])
      BY <1>5, <3>1 DEF ListInv, StackInv
    <3> QED
      BY <2>1, <3>2 DEF Listed
  <2>3. \A u \in Threads : ~Publishing(u, Innermost(t))
    BY <2>2, PublishedLater DEF Publishing, ListInv
  <2>4. envs[Innermost(t)] # Unborn
    BY <2>1, <2>2 DEF Listed, Unborn, ListInv, BornInv, Envs, NoEnv
  <2> QED
    BY <2>1, <2>3, <2>4
<1>6. ASSUME NEW t \in Threads, CreateInit(t) PROVE ListInv'
  <2> USE <1>6 DEF CreateInit, Goto, Stands, listVars
  <2>1. PICK e \in Envs : e = Innermost(t)
    BY <1>5 DEF PhaseType
  <2>2. envs[e] # Unborn /\ \A u \in Threads : ~Publishing(u, e)
    BY <1>5, <2>1 DEF PhaseType
  <2>3. envs'[e].mId = envs[e].mId /\ \A f \in Envs : f # e => envs'[f] = envs[f]
    BY <2>1 DEF EnvType
  <2>4. /\ pc[t] \notin {"find", "publish"} /\ pc'[t] \notin {"find", "publish"}
        /\ \A u \in Threads : u # t => pc'[u] = pc[u] /\ creating'[u] = creating[u]
        /\ UNCHANGED <<mList, mLock>>
    BY DEF CallType
  <2>5. /\ Len(creating'[t]) \in Nat /\ Len(creating'[t]) <= Len(creating[t])
        /\ \A k \in 1 .. Len(creating'[t]) : creating'[t][k] = creating[t][k]
    BY <1>5 DEF PhaseType
  <2> HIDE <1>6
  <2> QED
    BY <1>4, <2>1, <2>2, <2>3, <2>4, <2>5
<1>7. ASSUME NEW t \in Threads, NEW life, NEW mq, Created(t, life, mq) PROVE ListInv'
  <2> USE <1>7 DEF Created, Script, Stands, listVars
  <2>1. PICK e \in Envs : e = Innermost(t)
    BY <1>5
  <2>2. envs[e] # Unborn /\ \A u \in Threads : ~Publishing(u, e)
    BY <1>5, <2>1
  <2>3. envs'[e].mId = envs[e].mId /\ \A f \in Envs : f # e => envs'[f] = envs[f]
    BY <2>1 DEF EnvType
  <2>4. /\ pc[t] \notin {"find", "publish"} /\ pc'[t] \notin {"find", "publish"}
        /\ \A u \in Threads : u # t => pc'[u] = pc[u] /\ creating'[u] = creating[u]
        /\ UNCHANGED <<mList, mLock>>
    BY DEF CallType
  <2>5. Len(creating[t]) \in Nat /\ Len(creating[t]) >= 1 /\ creating[t] \in Seq(Envs)
    BY <1>5 DEF CallType
  <2>6. creating'[t] = SubSeq(creating[t], 1, Len(creating[t]) - 1)
    BY DEF CallType
  <2>7. /\ Len(creating'[t]) \in Nat /\ Len(creating'[t]) <= Len(creating[t])
        /\ \A k \in 1 .. Len(creating'[t]) : creating'[t][k] = creating[t][k]
    <3>1. creating[t] # <<>>
      OBVIOUS
    <3>2. /\ Len(creating'[t]) = Len(creating[t]) - 1 /\ Len(creating'[t]) \in Nat
          /\ \A k \in 1 .. Len(creating'[t]) : creating'[t][k] = creating[t][k]
      BY ONLY <3>1, <2>5, <2>6, WithoutLast
    <3> QED
      BY <3>2, <2>5
  <2> HIDE <1>7
  <2> QED
    BY <1>4, <2>1, <2>2, <2>3, <2>4, <2>7
<1>8. ASSUME NEW t \in Threads, NEW to \in known, NEW p \in Payloads, PostBegin(t, to, p)
      PROVE  ListInv'
  BY <1>8, QuietStep DEF PostBegin, Goto, listVars, Script, Stands, CallType
<1>9. ASSUME NEW t \in Threads, PostEnd(t) PROVE ListInv'
  BY <1>9, QuietStep DEF PostEnd, Goto, listVars, Stands, CallType
<1>10. ASSUME NEW t \in Threads, NEW e \in Envs, Handle(t, e) PROVE ListInv'
  BY <1>10, QuietStep DEF Handle, listVars
<1>11. ASSUME NEW t \in Threads, Return(t) PROVE ListInv'
  BY <1>11, QuietStep DEF Return, listVars
<1>12. CASE UNCHANGED vars
  BY <1>12, QuietStep DEF vars, listVars, callVars
<1> QED
  BY <1>1, <1>2, <1>3, <1>6, <1>7, <1>8, <1>9, <1>10, <1>11, <1>12
  DEF Next, NextWith, Booted, BootFails

\* From the list's invariant: no two envs share an id, and the id of an env that has
\* been published leads to it.
LEMMA ListGivesIds == TypeInv /\ ListInv => IdNamesOneEnv
<1> SUFFICES ASSUME TypeInv, ListInv PROVE IdNamesOneEnv
  OBVIOUS
<1> USE DEF TypeInv
<1>1. ASSUME NEW e \in Envs, NEW t \in Threads, Publishing(t, e), NEW f \in Envs, Listed(f)
      PROVE  envs[e].mId # envs[f].mId
  BY <1>1, NewIdIsFree DEF Publishing, ListInv, PublishInv, Listed, Envs, NoEnv
<1>2. ASSUME NEW e \in Envs, NEW f \in Envs, e # f, envs[e].mId = envs[f].mId, envs[e] # Unborn
      PROVE  FALSE
  <2>1. envs[f] # Unborn
    BY <1>2 DEF ListInv, BornInv, Unborn
  <2>2. CASE Listed(e) /\ Listed(f)
    BY <1>2, <2>2 DEF Listed
  <2>3. CASE Listed(e) /\ ~Listed(f)
    BY <1>1, <1>2, <2>1, <2>3 DEF ListInv, BornInv
  <2>4. CASE ~Listed(e) /\ Listed(f)
    BY <1>1, <1>2, <2>4 DEF ListInv, BornInv
  <2>5. CASE ~Listed(e) /\ ~Listed(f)
    <3>1. PICK t \in Threads, u \in Threads : Publishing(t, e) /\ Publishing(u, f)
      BY <1>2, <2>1, <2>5 DEF ListInv, BornInv
    <3>2. t = u
      BY <3>1 DEF Publishing, ListInv, LockInv
    <3> QED
      BY <1>2, <3>1, <3>2 DEF Publishing
  <2> QED
    BY <2>2, <2>3, <2>4, <2>5
<1>3. ASSUME NEW e \in Envs, envs[e].life \in {"boot", "up"} PROVE mList[envs[e].mId] = e
  BY <1>3 DEF ListInv, BornInv, PublishInv, Publishing, Listed, Unborn
<1> QED
  BY <1>2, <1>3 DEF IdNamesOneEnv

\* TypeInv says what TypeOK says.
LEMMA TypeInvGivesTypeOK == TypeInv => TypeOK
<1> SUFFICES ASSUME TypeInv PROVE TypeOK
  OBVIOUS
<1>1. DOMAIN mList = 0 .. mListLen - 1 /\ \A i \in DOMAIN mList : mList[i] \in Envs \cup {NoEnv}
  BY ListLength DEF TypeInv, MaybeEnv
<1>2. \A t \in Threads : creating[t] \in Seq(Envs) /\ handling[t].env \in Envs \cup {NoEnv}
  BY DEF TypeInv, CallType, MaybeEnv
<1> QED
  BY <1>1, <1>2 DEF TypeInv, TypeOK, EnvType, CallType, Lives, Pcs, Faults

\* Both layers hold in every reachable state.
THEOREM ListInvHolds == Spec => [](TypeInv /\ ListInv)
<1>1. Init => TypeInv /\ ListInv
  BY TypeInit, ListInit
<1>2. TypeInv /\ ListInv /\ [Next]_vars => (TypeInv /\ ListInv)'
  BY TypeStep, ListStep
<1> QED
  BY <1>1, <1>2, PTL DEF Spec

\* Every variable keeps its type (env_t, env_mgr_t, the calls under way), for any
\* number of threads and envs.
THEOREM TypeCorrect == Spec => []TypeOK
BY ListInvHolds, TypeInvGivesTypeOK, PTL

\* env_create gives every env an id of its own and mList leads from it to the env,
\* however many threads create envs at once and however often the list grows.
THEOREM IdNamesOneEnvHolds == Spec => []IdNamesOneEnv
BY ListInvHolds, ListGivesIds, PTL

-----------------------------------------------------------------------------
(* When the list moves.                                                    *)

\* An entry that has an env keeps having one, and every step but the growth of the
\* list leaves moves alone.
LEMMA MoveKept ==
  ASSUME MoveInv, UNCHANGED <<mList, moves, fault>>,
         \A u \in Threads : pc'[u] = "post" => pc[u] = "post" /\ posting'[u] = posting[u]
  PROVE  MoveInv'
<1>1. ListWasFull => ListWasFull'
  BY DEF ListWasFull
<1>2. mListLen' = mListLen
  BY DEF mListLen
<1> QED
  BY <1>1, <1>2 DEF MoveInv

\* main leaves a list of Grow entries that has not moved.
LEMMA MoveInit == Init => MoveInv
<1> SUFFICES ASSUME NEW payload \in Payloads, InitWith(payload) PROVE MoveInv
  BY DEF Init
<1> USE RegistryAssumption DEF InitWith
<1>1. mListLen = Grow
  <2>1. 0 \in Int /\ Grow - 1 \in Int /\ DOMAIN mList = 0 .. Grow - 1
    OBVIOUS
  <2> QED
    BY <2>1, FS_Interval DEF mListLen
<1> QED
  BY <1>1 DEF MoveInv

\* The list moves only when all its ids have been given out.
LEMMA MoveStep ==
  ASSUME TypeInv, TypeInv', ListInv, MoveInv, [Next]_vars
  PROVE  MoveInv'
<1> USE RegistryAssumption DEF TypeInv
<1>1. ASSUME NEW t \in Threads,
             \/ CreateLock(t) \/ CreateFind(t) \/ CreateInit(t)
             \/ \E life, mq : Created(t, life, mq)
      PROVE  MoveInv'
  <2>1. UNCHANGED <<mList, moves, fault, posting>>
    BY <1>1 DEF CreateLock, CreateFind, CreateInit, Created, listVars
  <2>2. \A u \in Threads : pc'[u] = "post" => pc[u] = "post"
    BY <1>1 DEF CreateLock, CreateFind, CreateInit, Created, CallType, Goto
  <2> QED
    BY <2>1, <2>2, MoveKept
<1>2. ASSUME NEW t \in Threads, NEW e \in Envs, Handle(t, e) PROVE MoveInv'
  <2>1. UNCHANGED <<mList, moves, pc, posting>>
    BY <1>2 DEF Handle, listVars
  <2>2. fault' = "moved" => fault = "moved"
    BY <1>2 DEF Handle
  <2>3. (ListWasFull => ListWasFull') /\ mListLen' = mListLen
    BY <2>1 DEF ListWasFull, mListLen
  <2> QED
    BY <2>1, <2>2, <2>3 DEF MoveInv
<1>3. ASSUME NEW t \in Threads, Return(t) PROVE MoveInv'
  BY <1>3, MoveKept DEF Return, listVars
<1>4. ASSUME NEW t \in Threads, NEW to \in known, NEW p \in Payloads, PostBegin(t, to, p)
      PROVE  MoveInv'
  <2>1. UNCHANGED <<mList, moves, fault>>
    BY <1>4 DEF PostBegin, listVars
  <2>2. ASSUME NEW u \in Threads, pc'[u] = "post"
        PROVE  posting'[u].moves <= moves
    <3>1. CASE to > mListLen
      BY <1>4, <2>2, <3>1 DEF PostBegin, MoveInv
    <3>2. CASE ~(to > mListLen)
      <4>1. CASE u = t
        BY <1>4, <3>2, <4>1 DEF PostBegin, CallType
      <4>2. CASE u # t
        BY <1>4, <2>2, <3>2, <4>2 DEF PostBegin, Goto, CallType, MoveInv
      <4> QED
        BY <4>1, <4>2
    <3> QED
      BY <3>1, <3>2
  <2>3. (ListWasFull => ListWasFull') /\ mListLen' = mListLen
    BY <2>1 DEF ListWasFull, mListLen
  <2> QED
    BY <2>1, <2>2, <2>3 DEF MoveInv
<1>5. ASSUME NEW t \in Threads, PostEnd(t) PROVE MoveInv'
  <2>1. UNCHANGED <<mList, moves>> /\ pc[t] = "post" /\ pc'[t] = "run"
    BY <1>5 DEF PostEnd, listVars, Stands, Goto, CallType
  <2>2. \A u \in Threads : pc'[u] = "post" => pc[u] = "post" /\ posting'[u] = posting[u]
    BY <1>5, <2>1 DEF PostEnd, Goto, CallType
  <2>3. \E e : fault' = Damage(posting[t], e)
    BY <1>5 DEF PostEnd
  <2>4. fault' = "moved" => posting[t].moves # moves
    BY <2>3, MovedDamage
  <2>5. posting[t].moves \in Nat /\ posting[t].moves <= moves
    BY <2>1 DEF CallType, MoveInv
  <2>6. fault' = "moved" => moves > 0
    BY <2>4, <2>5
  <2>7. (ListWasFull => ListWasFull') /\ mListLen' = mListLen
    BY <2>1 DEF ListWasFull, mListLen
  <2> QED
    BY <2>1, <2>2, <2>6, <2>7 DEF MoveInv
<1>6. ASSUME NEW t \in Threads, CreatePublish(t) PROVE MoveInv'
  <2>1. PICK e, id : e = Innermost(t) /\ id = envs[e].mId
    OBVIOUS
  <2>2. e \in Envs /\ id \in Nat /\ id = NewId
    BY <1>6, <2>1, InnermostIsEnv
    DEF CreatePublish, Stands, PhaseType, EnvType, ListInv, PublishInv
  <2>3. PICK n \in Nat : n = IF id >= mListLen THEN mListLen + Grow ELSE mListLen
    BY ListLength
  <2>4. /\ mList' = [i \in 0 .. n - 1 |->
                       IF i = id THEN e ELSE IF i \in DOMAIN mList THEN mList[i] ELSE NewEntry]
        /\ moves' = IF id >= mListLen THEN moves + 1 ELSE moves
        /\ UNCHANGED <<fault, posting>>
        /\ \A u \in Threads : pc'[u] = "post" => pc[u] = "post"
    BY <1>6, <2>1, <2>3 DEF CreatePublish, Goto, CallType
  <2>5. DOMAIN mList = 0 .. mListLen - 1 /\ mListLen \in Nat /\ Grow <= mListLen
    BY ListLength DEF MoveInv
  <2>6. \A i \in DOMAIN mList : mList[i] # NoEnv => i \in DOMAIN mList' /\ mList'[i] # NoEnv
    BY <2>2, <2>3, <2>4, <2>5 DEF Envs, NoEnv
  <2>7. ListWasFull => ListWasFull'
    BY <2>6 DEF ListWasFull
  <2>8. id >= mListLen => ListWasFull
    <3>1. SUFFICES ASSUME id >= mListLen PROVE ListWasFull
      OBVIOUS
    <3>2. FreeIds = {}
      <4>1. NewId \in DOMAIN mList => NewId < mListLen
        BY <2>5
      <4>2. FreeIds # {} => NewId < mListLen
        BY <2>5, NewIdIsTaken
      <4> QED
        BY <2>2, <2>5, <3>1, <4>2
    <3>3. \A i \in 1 .. mListLen - 1 : mList[i] # NoEnv
      BY <3>2 DEF FreeIds
    <3> QED
      BY <2>5, <3>3 DEF ListWasFull
  <2>9. Grow <= mListLen'
    <3>1. mListLen' = n
      <4>1. 0 \in Int /\ n - 1 \in Int /\ DOMAIN mList' = 0 .. n - 1 /\ n > 0
        BY <2>3, <2>4, <2>5
      <4>2. Cardinality(0 .. n - 1) = n
        BY <4>1, FS_Interval
      <4> QED
        BY <4>1, <4>2 DEF mListLen
    <3> QED
      BY <2>3, <2>5, <3>1
  <2>10. moves' \in Nat /\ moves <= moves' /\ (moves' > 0 => moves > 0 \/ id >= mListLen)
    BY <2>4
  <2>11. \A u \in Threads : pc'[u] = "post" => posting'[u].moves <= moves'
    <3>1. \A u \in Threads : posting[u].moves \in Nat
      BY DEF CallType
    <3> QED
      BY <2>4, <2>10, <3>1 DEF MoveInv
  <2> QED
    BY <2>4, <2>7, <2>8, <2>9, <2>10, <2>11 DEF MoveInv
<1>7. CASE UNCHANGED vars
  BY <1>7, MoveKept DEF vars, listVars, callVars
<1> QED
  BY <1>1, <1>2, <1>3, <1>4, <1>5, <1>6, <1>7 DEF Next, NextWith, Booted, BootFails

-----------------------------------------------------------------------------
(* Who is posted to and handled, when boot scripts keep to themselves.     *)

\* Both envs main has booted are up, and nobody is creating one.
LEMMA UpInit == Init => UpInv
<1> SUFFICES ASSUME NEW payload \in Payloads, InitWith(payload) PROVE UpInv
  BY DEF Init
<1> USE RegistryAssumption DEF InitWith
<1>1. \A i \in 1 .. 2 : i \in DOMAIN mList /\ mList[i] = i /\ i # NoEnv /\ i \in Envs /\ Up(i)
  BY DEF Envs, NoEnv, Up
<1>2. KnownInv
  BY <1>1 DEF KnownInv
<1>3. CreatedInv
  BY DEF CreatedInv, UnderWayInv, ApartInv
<1>4. HandledInv
  <2>1. \A e \in Envs : queue[e] # <<>> => e \in 1 .. 2
    BY DEF Envs
  <2> QED
    BY <1>1, <2>1 DEF HandledInv, Idle
<1> QED
  BY <1>2, <1>3, <1>4 DEF UpInv, FaultInv

\* A step that leaves what is in mList and the envs that are up alone keeps them what
\* is posted to and handled.
LEMMA UpKept ==
  ASSUME TypeInv, UpInv, UNCHANGED <<queue, handling, posting, fault>>, known \subseteq known',
         \A i \in known' : \/ i \in known
                           \/ /\ i \in DOMAIN mList' /\ mList'[i] # NoEnv
                              /\ envs'[mList'[i]].life = "up" /\ envs'[mList'[i]].mMq,
         \A u \in Threads : pc'[u] = "post" => pc[u] = "post",
         \A i \in DOMAIN mList : mList[i] # NoEnv => i \in DOMAIN mList' /\ mList'[i] = mList[i],
         \A e \in Envs : Up(e) => envs'[e].life = "up" /\ envs'[e].mMq
  PROVE  KnownInv' /\ HandledInv' /\ FaultInv'
<1>1. \A i \in known : mList[i] \in Envs
  BY ListLength DEF TypeInv, UpInv, KnownInv, MaybeEnv
<1>2. KnownInv'
  BY <1>1 DEF UpInv, KnownInv, Up
<1>3. HandledInv'
  <2>1. ASSUME NEW t \in Threads PROVE handling[t].env \in Envs \cup {NoEnv}
    BY DEF TypeInv, CallType, MaybeEnv
  <2>2. ASSUME NEW e \in Envs, queue'[e] # <<>> PROVE Up(e)'
    BY <2>2 DEF UpInv, HandledInv, Up
  <2>3. ASSUME NEW t \in Threads, handling'[t].env # NoEnv PROVE Up(handling[t].env)'
    BY <2>1, <2>3 DEF UpInv, HandledInv, Up
  <2> QED
    BY <2>2, <2>3 DEF UpInv, HandledInv, Up
<1> QED
  BY <1>2, <1>3 DEF UpInv, FaultInv

\* Likewise for the envs under creation, if none is added and none ends.
LEMMA CreatedKept ==
  ASSUME CallType, CreatedInv, creating' = creating,
         \A e \in Envs : envs[e].life \in {"creating", "boot"} => envs'[e].life \in {"creating", "boot"}
  PROVE  CreatedInv'
<1>1. \A t \in Threads : \A k \in 1 .. Len(creating[t]) : creating[t][k] \in Envs
  BY DEF CallType
<1>2. UnderWayInv'
  BY <1>1 DEF CreatedInv, UnderWayInv
<1>3. ApartInv'
  BY DEF CreatedInv, ApartInv
<1> QED
  BY <1>2, <1>3 DEF CreatedInv

\* An env whose creation has not ended is not up.
LEMMA CreatedIsNotUp ==
  ASSUME TypeInv, UpInv, NEW t \in Threads, creating[t] # <<>>
  PROVE  /\ Innermost(t) \in Envs /\ ~Up(Innermost(t))
         /\ Len(creating[t]) \in 1 .. Len(creating[t])
         /\ envs[Innermost(t)].life \in {"creating", "boot"}
<1>1. /\ Innermost(t) \in Envs /\ Len(creating[t]) \in 1 .. Len(creating[t])
      /\ Innermost(t) = creating[t][Len(creating[t])]
  BY InnermostIsEnv DEF TypeInv
<1>2. envs[Innermost(t)].life \in {"creating", "boot"}
  BY <1>1 DEF UpInv, CreatedInv, UnderWayInv
<1> QED
  BY <1>1, <1>2 DEF Up

\* No step makes an id known, or leaves a message, for an env that is not up.
LEMMA UpStep ==
  ASSUME ~Exposed, TypeInv, TypeInv', ListInv, UpInv, [Next]_vars
  PROVE  UpInv'
<1> USE RegistryAssumption DEF TypeInv
<1>1. ASSUME NEW t \in Threads, CreateLock(t) PROVE UpInv'
  <2> USE <1>1 DEF CreateLock, Goto
  <2>1. \A u \in Threads : pc'[u] = "post" => pc[u] = "post"
    BY DEF CallType
  <2>2. KnownInv' /\ HandledInv' /\ FaultInv'
    BY <2>1, UpKept DEF Up
  <2>3. CreatedInv'
    BY CreatedKept DEF UpInv
  <2> QED
    BY <2>2, <2>3 DEF UpInv
<1>2. ASSUME NEW t \in Threads, CreateFind(t) PROVE UpInv'
  <2> USE <1>2 DEF CreateFind, Goto, listVars
  <2>1. PICK n \in Envs : n = NewEnv /\ envs[n] = Unborn
    BY NewEnvIsUnborn
  <2>2. envs'[n].life = "creating" /\ \A f \in Envs : f # n => envs'[f] = envs[f]
    BY <2>1 DEF EnvType
  <2>3. \A u \in Threads : pc'[u] = "post" => pc[u] = "post"
    BY DEF CallType
  <2>4. \A f \in Envs : Up(f) => envs'[f].life = "up" /\ envs'[f].mMq
    BY <2>1, <2>2 DEF Up, Unborn
  <2>5. KnownInv' /\ HandledInv' /\ FaultInv'
    BY <2>3, <2>4, UpKept
  <2>6. /\ creating[t] \in Seq(Envs) /\ creating'[t] = Append(creating[t], n)
        /\ \A u \in Threads : u # t => creating'[u] = creating[u]
    BY <2>1 DEF CallType
  <2>7. /\ Len(creating[t]) \in Nat /\ Len(creating'[t]) = Len(creating[t]) + 1
        /\ creating'[t][Len(creating[t]) + 1] = n
        /\ \A k \in 1 .. Len(creating[t]) : creating'[t][k] = creating[t][k]
    BY <2>6, AppendProperties
  <2>8. ASSUME NEW u \in Threads, NEW k \in 1 .. Len(creating[u])
        PROVE  creating[u][k] \in Envs /\ creating[u][k] # n
    <3>1. creating[u][k] \in Envs
      BY DEF CallType
    <3>2. envs[creating[u][k]].life \in {"creating", "boot"}
      BY DEF UpInv, CreatedInv, UnderWayInv
    <3> QED
      BY <2>1, <3>1, <3>2 DEF Unborn
  <2> HIDE <1>2
  <2>9. ASSUME NEW u \in Threads, NEW k \in 1 .. Len(creating'[u])
        PROVE  \/ k \in 1 .. Len(creating[u]) /\ creating'[u][k] = creating[u][k]
               \/ u = t /\ k = Len(creating[t]) + 1 /\ creating'[u][k] = n
    <3>1. CASE u # t
      BY <2>6, <3>1
    <3>2. CASE u = t
      BY <2>7, <3>2
    <3> QED
      BY <3>1, <3>2
  <2>10. UnderWayInv'
    <3>1. ASSUME NEW u \in Threads, NEW k \in 1 .. Len(creating'[u])
          PROVE  envs'[creating'[u][k]].life \in {"creating", "boot"}
      <4>1. CASE k \in 1 .. Len(creating[u]) /\ creating'[u][k] = creating[u][k]
        BY <2>2, <2>8, <4>1 DEF UpInv, CreatedInv, UnderWayInv
      <4>2. CASE creating'[u][k] = n
        BY <2>2, <4>2
      <4> QED
        BY <2>9, <4>1, <4>2
    <3> QED
      BY <3>1 DEF UnderWayInv
  <2>11. ApartInv'
    <3>1. ASSUME NEW u \in Threads, NEW v \in Threads,
                 NEW k \in 1 .. Len(creating'[u]), NEW l \in 1 .. Len(creating'[v]),
                 creating'[u][k] = creating'[v][l]
          PROVE  u = v /\ k = l
      <4>1. CASE creating'[u][k] # n
        <5>1. /\ k \in 1 .. Len(creating[u]) /\ l \in 1 .. Len(creating[v])
              /\ creating[u][k] = creating[v][l]
          BY <2>9, <3>1, <4>1
        <5> QED
          BY <5>1 DEF UpInv, CreatedInv, ApartInv
      <4>2. CASE creating'[u][k] = n
        <5>1. u = t /\ k = Len(creating[t]) + 1
          BY <2>8, <2>9, <4>2
        <5>2. v = t /\ l = Len(creating[t]) + 1
          BY <2>8, <2>9, <3>1, <4>2
        <5> QED
          BY <5>1, <5>2
      <4> QED
        BY <4>1, <4>2
    <3> QED
      BY <3>1 DEF ApartInv
  <2> QED
    BY <2>5, <2>10, <2>11 DEF UpInv, CreatedInv
<1>3. ASSUME NEW t \in Threads, CreatePublish(t) PROVE UpInv'
  <2> USE <1>3 DEF CreatePublish, Goto, Stands
  <2>1. envs[Innermost(t)].mId = NewId
    BY DEF ListInv, PublishInv
  <2>2. \A i \in DOMAIN mList : mList[i] # NoEnv => i # NewId
    BY NewIdIsFree
  <2>3. \A i \in DOMAIN mList : i \in DOMAIN mList' /\ (i # NewId => mList'[i] = mList[i])
    BY <2>1, ListLength, NewIdIsFree
  <2>4. \A u \in Threads : pc'[u] = "post" => pc[u] = "post"
    BY DEF CallType
  <2>5. UNCHANGED <<known, queue, handling, posting, fault, envs, creating>>
    OBVIOUS
  <2> HIDE <1>3
  <2>6. KnownInv' /\ HandledInv' /\ FaultInv'
    BY <2>2, <2>3, <2>4, <2>5, UpKept DEF Up
  <2>7. CreatedInv'
    BY <2>5, CreatedKept DEF UpInv
  <2> QED
    BY <2>6, <2>7 DEF UpInv
<1>4. ASSUME NEW t \in Threads, CreateInit(t) PROVE UpInv'
  <2> USE <1>4 DEF CreateInit, Goto, Stands, listVars
  <2>1. PICK e \in Envs : e = Innermost(t) /\ ~Up(e)
    BY CreatedIsNotUp DEF PhaseType
  <2>2. envs'[e].life = "boot" /\ \A f \in Envs : f # e => envs'[f] = envs[f]
    BY <2>1 DEF EnvType
  <2>3. \A u \in Threads : pc'[u] = "post" => pc[u] = "post"
    BY DEF CallType
  <2>4. \A f \in Envs : Up(f) => envs'[f].life = "up" /\ envs'[f].mMq
    BY <2>1, <2>2 DEF Up
  <2>5. UNCHANGED <<known, queue, handling, posting, fault, mList, creating>>
    OBVIOUS
  <2> HIDE <1>4
  <2>6. KnownInv' /\ HandledInv' /\ FaultInv'
    BY <2>3, <2>4, <2>5, UpKept
  <2>7. CreatedInv'
    BY <2>2, <2>5, CreatedKept DEF UpInv
  <2> QED
    BY <2>6, <2>7 DEF UpInv
<1>5. ASSUME NEW t \in Threads, NEW life, NEW mq, Created(t, life, mq)
      PROVE  /\ CreatedInv'
             /\ \A f \in Envs : Up(f) => envs'[f].life = "up" /\ envs'[f].mMq
             /\ Listed(Innermost(t)) /\ Innermost(t) \in Envs
             /\ envs'[Innermost(t)].life = life /\ envs'[Innermost(t)].mMq = mq
  <2> USE <1>5 DEF Created, Script, Stands, listVars
  <2>1. PICK e \in Envs : /\ e = Innermost(t) /\ ~Up(e)
                          /\ Len(creating[t]) \in 1 .. Len(creating[t])
    BY CreatedIsNotUp
  <2>2. e = creating[t][Len(creating[t])]
    BY <2>1 DEF Innermost
  <2>3. \A f \in Envs : f # e => envs'[f] = envs[f]
    BY <2>1 DEF EnvType
  <2>4. envs'[e].life = life /\ envs'[e].mMq = mq
    BY <2>1 DEF EnvType
  <2>5. Listed(e)
    BY <2>1, <2>2 DEF ListInv, StackInv
  <2>6. creating[t] \in Seq(Envs) /\ creating[t] # <<>>
    BY DEF CallType
  <2>7. creating'[t] = SubSeq(creating[t], 1, Len(creating[t]) - 1)
    BY DEF CallType
  <2>8. \A u \in Threads : u # t => creating'[u] = creating[u]
    BY DEF CallType
  <2> HIDE <1>5
  <2>9. /\ Len(creating'[t]) = Len(creating[t]) - 1 /\ Len(creating'[t]) \in Nat
        /\ \A k \in 1 .. Len(creating'[t]) : creating'[t][k] = creating[t][k]
    BY ONLY <2>6, <2>7, WithoutLast
  <2>10. ASSUME NEW u \in Threads, NEW k \in 1 .. Len(creating'[u])
         PROVE  /\ k \in 1 .. Len(creating[u]) /\ creating'[u][k] = creating[u][k]
                /\ creating[u][k] \in Envs /\ creating[u][k] # e
    <3>1. k \in 1 .. Len(creating[u]) /\ creating'[u][k] = creating[u][k] /\ (u = t => k # Len(creating[t]))
      <4>1. CASE u = t
        BY SMTT(60), <2>9, <4>1
      <4>2. CASE u # t
        BY <2>8, <4>2
      <4> QED
        BY <4>1, <4>2
    <3>2. creating[u][k] \in Envs
      BY <3>1 DEF CallType
    <3>3. creating[u][k] # e
      BY <2>1, <2>2, <3>1 DEF UpInv, CreatedInv, ApartInv
    <3> QED
      BY <3>1, <3>2, <3>3
  <2>11. UnderWayInv'
    <3>1. ASSUME NEW u \in Threads, NEW k \in 1 .. Len(creating'[u])
          PROVE  envs'[creating'[u][k]].life \in {"creating", "boot"}
      <4>1. envs[creating[u][k]].life \in {"creating", "boot"}
        BY <2>10 DEF UpInv, CreatedInv, UnderWayInv
      <4> QED
        BY <2>3, <2>10, <4>1
    <3> QED
      BY <3>1 DEF UnderWayInv
  <2>12. ApartInv'
    <3>1. ASSUME NEW u \in Threads, NEW v \in Threads,
                 NEW k \in 1 .. Len(creating'[u]), NEW l \in 1 .. Len(creating'[v]),
                 creating'[u][k] = creating'[v][l]
          PROVE  u = v /\ k = l
      <4>1. /\ k \in 1 .. Len(creating[u]) /\ l \in 1 .. Len(creating[v])
            /\ creating[u][k] = creating[v][l]
        BY <2>10, <3>1
      <4> QED
        BY <4>1 DEF UpInv, CreatedInv, ApartInv
    <3> QED
      BY <3>1 DEF ApartInv
  <2>13. \A f \in Envs : Up(f) => envs'[f].life = "up" /\ envs'[f].mMq
    BY <2>1, <2>3 DEF Up
  <2> QED
    BY <2>1, <2>4, <2>5, <2>11, <2>12, <2>13 DEF CreatedInv
<1>6. ASSUME NEW t \in Threads, Booted(t) PROVE UpInv'
  <2> DEFINE i == envs[Innermost(t)].mId
  <2>1. CreatedInv' /\ \A f \in Envs : Up(f) => envs'[f].life = "up" /\ envs'[f].mMq
    BY <1>5, <1>6 DEF Booted
  <2>2. i \in DOMAIN mList /\ mList[i] = Innermost(t) /\ Innermost(t) \in Envs
    BY <1>5, <1>6 DEF Booted, Listed
  <2>3. envs'[Innermost(t)].life = "up" /\ envs'[Innermost(t)].mMq
    BY <1>5, <1>6 DEF Booted
  <2>4. known' = known \cup {i} /\ UNCHANGED <<queue, handling, posting, fault, mList, pc>>
    BY <1>6 DEF Booted, Created, listVars
  <2>5. mList[i] # NoEnv
    BY <2>2 DEF Envs, NoEnv
  <2>6. KnownInv' /\ HandledInv' /\ FaultInv'
    BY <2>1, <2>2, <2>3, <2>4, <2>5, UpKept
  <2> QED
    BY <2>1, <2>6 DEF UpInv
<1>7. ASSUME NEW t \in Threads, BootFails(t) PROVE UpInv'
  <2>1. CreatedInv' /\ \A f \in Envs : Up(f) => envs'[f].life = "up" /\ envs'[f].mMq
    BY <1>5, <1>7 DEF BootFails
  <2>2. UNCHANGED <<known, queue, handling, posting, fault, mList, pc>>
    BY <1>7 DEF BootFails, Created, listVars
  <2>3. KnownInv' /\ HandledInv' /\ FaultInv'
    BY <2>1, <2>2, UpKept
  <2> QED
    BY <2>1, <2>3 DEF UpInv
<1>8. ASSUME NEW t \in Threads, NEW to \in known, NEW p \in Payloads, PostBegin(t, to, p)
      PROVE  UpInv'
  <2> USE <1>8 DEF PostBegin, Goto, listVars
  <2>1. UNCHANGED <<mList, envs, known, creating, queue, handling, fault>>
    OBVIOUS
  <2>2. ASSUME NEW u \in Threads, pc'[u] = "post" PROVE posting'[u].to \in known
    <3>1. CASE to > mListLen
      BY <2>2, <3>1 DEF UpInv, KnownInv
    <3>2. CASE ~(to > mListLen)
      <4>1. CASE u = t
        BY <3>2, <4>1 DEF CallType
      <4>2. CASE u # t
        BY <2>2, <3>2, <4>2 DEF CallType, UpInv, KnownInv
      <4> QED
        BY <4>1, <4>2
    <3> QED
      BY <3>1, <3>2
  <2> HIDE <1>8
  <2>3. KnownInv'
    BY <2>1, <2>2 DEF UpInv, KnownInv, Up
  <2>4. HandledInv'
    BY <2>1 DEF UpInv, HandledInv, Up
  <2>5. CreatedInv'
    BY <2>1, CreatedKept DEF UpInv
  <2> QED
    BY <2>1, <2>3, <2>4, <2>5 DEF UpInv, FaultInv
<1>9. ASSUME NEW t \in Threads, PostEnd(t) PROVE UpInv'
  <2> USE <1>9 DEF PostEnd, Goto, listVars, Stands
  <2> DEFINE to == posting[t].to
             e == mList[to]
  <2>1. to \in DOMAIN mList /\ e # NoEnv /\ Up(e)
    BY DEF UpInv, KnownInv
  <2>2. e \in Envs
    BY <2>1, ListLength DEF MaybeEnv
  <2>3. fault' = Damage(posting[t], e)
    BY <2>1
  <2>4. UNCHANGED <<mList, envs, known, creating, handling>>
    OBVIOUS
  <2>5. \A f \in Envs : queue'[f] # <<>> => queue[f] # <<>> \/ f = e
    BY <2>1, <2>2
  <2>6. ASSUME NEW u \in Threads, pc'[u] = "post" PROVE posting'[u].to \in known
    BY <2>6 DEF UpInv, KnownInv, CallType
  <2> HIDE <1>9 DEF e, to
  <2>7. fault' \in {"none", "moved"}
    BY <2>1, <2>3, NoDamage DEF to
  <2>8. KnownInv'
    BY <2>4, <2>6 DEF UpInv, KnownInv, Up
  <2>9. HandledInv'
    <3>1. \A f \in Envs : queue'[f] # <<>> => Up(f)
      BY <2>1, <2>5 DEF UpInv, HandledInv
    <3> QED
      BY <2>4, <3>1 DEF UpInv, HandledInv, Up
  <2>10. CreatedInv'
    BY <2>4, CreatedKept DEF UpInv
  <2> QED
    BY <2>7, <2>8, <2>9, <2>10 DEF UpInv, FaultInv
<1>10. ASSUME NEW t \in Threads, NEW e \in Envs, Handle(t, e) PROVE UpInv'
  <2> USE <1>10 DEF Handle, listVars
  <2>1. UNCHANGED <<mList, envs, known, creating, pc, posting>>
    OBVIOUS
  <2>2. queue[e] # <<>> /\ Up(e) /\ envs[e].life # "freed"
    BY DEF UpInv, HandledInv, Up
  <2>3. fault' = fault
    BY <2>2
  <2>4. /\ handling'[t].env = e /\ \A u \in Threads : u # t => handling'[u] = handling[u]
        /\ \A u \in Threads : handling[u].env # e
    BY DEF CallType
  <2>5. \A f \in Envs : queue'[f] # <<>> => queue[f] # <<>>
    BY <2>2
  <2> HIDE <1>10
  <2>6. KnownInv'
    BY <2>1 DEF UpInv, KnownInv, Up
  <2>7. HandledInv'
    <3>1. \A f \in Envs : queue'[f] # <<>> => Up(f)
      BY <2>5 DEF UpInv, HandledInv
    <3>2. \A u \in Threads : handling'[u].env # NoEnv => Up(handling'[u].env)
      BY <2>2, <2>4 DEF UpInv, HandledInv
    <3>3. ASSUME NEW u \in Threads, NEW v \in Threads, handling'[u].env = handling'[v].env, u # v
          PROVE  handling'[u].env = NoEnv
      BY <2>4, <3>3 DEF UpInv, HandledInv
    <3> QED
      BY <2>1, <3>1, <3>2, <3>3 DEF HandledInv, Up
  <2>8. CreatedInv'
    BY <2>1, CreatedKept DEF UpInv
  <2> QED
    BY <2>3, <2>6, <2>7, <2>8 DEF UpInv, FaultInv
<1>11. ASSUME NEW t \in Threads, Return(t) PROVE UpInv'
  <2> USE <1>11 DEF Return, listVars
  <2>1. UNCHANGED <<mList, envs, queue, known, creating, pc, posting, fault>>
    OBVIOUS
  <2>2. handling'[t].env = NoEnv /\ \A u \in Threads : u # t => handling'[u] = handling[u]
    BY DEF CallType, Idle
  <2> HIDE <1>11
  <2>3. KnownInv'
    BY <2>1 DEF UpInv, KnownInv, Up
  <2>4. HandledInv'
    <3>1. \A u \in Threads : handling'[u].env # NoEnv => Up(handling'[u].env)
      BY <2>2 DEF UpInv, HandledInv
    <3>2. ASSUME NEW u \in Threads, NEW v \in Threads, handling'[u].env = handling'[v].env, u # v
          PROVE  handling'[u].env = NoEnv
      BY <2>2, <3>2 DEF UpInv, HandledInv
    <3> QED
      BY <2>1, <3>1, <3>2 DEF UpInv, HandledInv, Up
  <2>5. CreatedInv'
    BY <2>1, CreatedKept DEF UpInv
  <2> QED
    BY <2>1, <2>3, <2>4, <2>5 DEF UpInv, FaultInv
<1>12. CASE UNCHANGED vars
  <2>1. KnownInv' /\ HandledInv' /\ FaultInv'
    BY <1>12, UpKept DEF vars, listVars, callVars, Up
  <2>2. CreatedInv'
    BY <1>12, CreatedKept DEF vars, callVars, UpInv
  <2> QED
    BY <2>1, <2>2 DEF UpInv
<1> QED
  BY <1>1, <1>2, <1>3, <1>4, <1>6, <1>7, <1>8, <1>9, <1>10, <1>11, <1>12 DEF Next, NextWith

\* From the invariant of this layer: a thread in the Lua VM of an env is alone there.
LEMMA UpGivesVmRunByOne == TypeInv /\ UpInv => VmRunByOne
<1> SUFFICES ASSUME TypeInv, UpInv, NEW e \in Envs
             PROVE  Cardinality({t \in Threads : \/ handling[t].env = e
                                                 \/ \E k \in DOMAIN creating[t] : creating[t][k] = e}) <= 1
  BY DEF VmRunByOne
<1> DEFINE In == {t \in Threads : \/ handling[t].env = e
                                  \/ \E k \in DOMAIN creating[t] : creating[t][k] = e}
<1>1. ASSUME NEW t \in In PROVE \/ handling[t].env = e /\ Up(e)
                                \/ \E k \in 1 .. Len(creating[t]) : creating[t][k] = e /\ ~Up(e)
  <2>1. CASE handling[t].env = e
    BY <2>1 DEF UpInv, HandledInv, Envs, NoEnv
  <2>2. CASE \E k \in DOMAIN creating[t] : creating[t][k] = e
    <3>1. creating[t] \in Seq(Envs) /\ DOMAIN creating[t] = 1 .. Len(creating[t])
      BY DEF TypeInv, CallType
    <3> QED
      BY <2>2, <3>1 DEF UpInv, CreatedInv, UnderWayInv, Up
  <2> QED
    BY <2>1, <2>2
<1>2. ASSUME NEW t \in In, NEW u \in In PROVE t = u
  <2>1. t \in Threads /\ u \in Threads
    OBVIOUS
  <2> HIDE DEF In
  <2>2. CASE Up(e)
    BY <1>1, <2>1, <2>2 DEF UpInv, HandledInv, Envs, NoEnv
  <2>3. CASE ~Up(e)
    BY <1>1, <2>1, <2>3 DEF UpInv, CreatedInv, ApartInv
  <2> QED
    BY <2>2, <2>3
<1>3. In = {} \/ \E t \in In : In = {t}
  BY <1>2
<1> HIDE DEF In
<1>4. Cardinality(In) <= 1
  <2>1. CASE In = {}
    BY <2>1, FS_EmptySet
  <2>2. CASE \E t \in In : In = {t}
    <3>1. PICK t \in In : In = {t}
      BY <2>2
    <3>2. Cardinality({t}) = 1
      BY FS_Singleton
    <3> QED
      BY <3>1, <3>2
  <2> QED
    BY <1>3, <2>1, <2>2
<1> QED
  BY <1>4 DEF In

\* The three layers together, for boot scripts that tell nobody their id and cause no
\* messages to themselves.
THEOREM UpInvHolds == ASSUME ~Exposed PROVE Spec => [](TypeInv /\ ListInv /\ UpInv)
<1>1. Init => TypeInv /\ ListInv /\ UpInv
  BY TypeInit, ListInit, UpInit
<1>2. TypeInv /\ ListInv /\ UpInv /\ [Next]_vars => (TypeInv /\ ListInv /\ UpInv)'
  BY TypeStep, ListStep, UpStep
<1> QED
  BY <1>1, <1>2, PTL DEF Spec

\* From both: what went wrong, if anything did, is that the list moved.
THEOREM MoveInvHolds == Spec => [](TypeInv /\ ListInv /\ MoveInv)
<1>1. Init => TypeInv /\ ListInv /\ MoveInv
  BY TypeInit, ListInit, MoveInit
<1>2. TypeInv /\ ListInv /\ MoveInv /\ [Next]_vars => (TypeInv /\ ListInv /\ MoveInv)'
  BY TypeStep, ListStep, MoveStep
<1> QED
  BY <1>1, <1>2, PTL DEF Spec

\* Who has an id posts to an env that lives and has a queue, and no env is handled
\* after it was freed, although neither env_post nor the worker looks at that, with
\* one exception that can happen: REALLOC moves the list between the two reads of
\* env_post, which it does not before ids 1 .. Grow - 1 have been given out.
THEOREM PostsFindQueueHolds == ASSUME ~Exposed PROVE Spec => []PostsFindQueue
<1>1. UpInv /\ MoveInv => PostsFindQueue
  BY DEF UpInv, FaultInv, MoveInv, PostsFindQueue
<1> QED
  BY <1>1, UpInvHolds, MoveInvHolds, PTL

\* Under the same condition no two threads are in the Lua VM of an env, one that boots
\* it among them; Env_boot.cfg shows that the condition is needed.
THEOREM VmRunByOneHolds == ASSUME ~Exposed PROVE Spec => []VmRunByOne
<1>1. TypeInv /\ ListInv /\ UpInv => VmRunByOne
  BY UpGivesVmRunByOne
<1> QED
  BY <1>1, UpInvHolds, PTL

-----------------------------------------------------------------------------
(* Induction, for sets: a set that has 0 and with each number the next.    *)

\* Upwards to n.
LEMMA UpTo ==
  ASSUME NEW n \in Nat, NEW T, 0 \in T, \A k \in 0 .. n - 1 : k \in T => k + 1 \in T
  PROVE  \A k \in 0 .. n : k \in T
<1> DEFINE Out == {k \in 0 .. n : k \notin T}
<1>1. ASSUME Out # {} PROVE FALSE
  <2>1. PICK k \in Out : \A j \in Out : k <= j
    <3>1. Out \in SUBSET Nat
      OBVIOUS
    <3> HIDE DEF Out
    <3> QED  BY <1>1, <3>1, LeastNatural
  <2>2. k # 0 /\ k - 1 \in 0 .. n - 1 /\ k - 1 \notin Out
    BY <2>1
  <2> QED  BY <2>1, <2>2
<1> QED  BY <1>1

\* Downwards from n.
LEMMA DownFrom ==
  ASSUME NEW n \in Nat, NEW T, n \in T, \A k \in 1 .. n : k \in T => k - 1 \in T
  PROVE  \A k \in 0 .. n : k \in T
<1> DEFINE U == {k \in 0 .. n : n - k \in T}
<1>1. 0 \in U /\ \A k \in 0 .. n - 1 : k \in U => k + 1 \in U
  <2>1. ASSUME NEW k \in 0 .. n - 1, k \in U PROVE k + 1 \in U
    <3>1. n - k \in 1 .. n /\ n - k \in T
      BY <2>1
    <3>2. n - (k + 1) \in T
      BY <3>1
    <3> QED  BY <3>2
  <2> QED  BY <2>1
<1>2. \A k \in 0 .. n : k \in U
  <2> HIDE DEF U
  <2> QED  BY <1>1, UpTo
<1>3. ASSUME NEW k \in 0 .. n PROVE k \in T
  <2>1. n - k \in U
    BY <1>2
  <2> QED  BY <2>1
<1> QED  BY <1>3

-----------------------------------------------------------------------------
(* FlattenSeq.                                                             *)

\* What its recursion computes from what it had before.
Longer(ss, f, i) == IF i = 1 THEN ss[i] ELSE f[i - 1] \o ss[i]

\* The joined sequences are by choice, as recursive functions are defined.
LEMMA FlattenByChoice ==
  ASSUME NEW ss, Len(ss) # 0
  PROVE  FlattenSeq(ss) = (CHOOSE f : f = [i \in 1 .. Len(ss) |-> Longer(ss, f, i)])[Len(ss)]
BY DEF FlattenSeq, Longer

\* The joined sequence grows piece by piece.
LEMMA Flattening ==
  ASSUME NEW S, NEW ss \in Seq(Seq(S))
  PROVE  \E f \in [0 .. Len(ss) -> Seq(S)] :
           /\ f[0] = <<>> /\ FlattenSeq(ss) = f[Len(ss)]
           /\ \A i \in 1 .. Len(ss) : f[i] = f[i - 1] \o ss[i]
<1>1. PICK n \in Nat : n = Len(ss)
  OBVIOUS
<1> DEFINE F(k, f) == /\ f \in [1 .. k -> Seq(S)]
                      /\ \A i \in 1 .. k : f[i] = Longer(ss, f, i)
           T == {k \in 0 .. n : \E f : F(k, f)}
<1>2. \A i \in 1 .. n : ss[i] \in Seq(S)
  BY <1>1
<1>3. n \in T
  <2>1. 0 \in T
    <3>1. F(0, [i \in 1 .. 0 |-> <<>>])
      OBVIOUS
    <3> HIDE DEF F
    <3> QED  BY <3>1
  <2>2. ASSUME NEW k \in 0 .. n - 1, k \in T PROVE k + 1 \in T
    <3>1. PICK f : F(k, f)
      BY <2>2
    <3> DEFINE g == [i \in 1 .. k + 1 |-> IF i = k + 1 THEN Longer(ss, f, i) ELSE f[i]]
    <3>2. Longer(ss, f, k + 1) \in Seq(S)
      <4>1. k + 1 \in 1 .. n /\ k \in Nat /\ (k # 0 => k \in 1 .. k) /\ (k + 1) - 1 = k /\ (k + 1 = 1 <=> k = 0)
        OBVIOUS
      <4>2. ss[k + 1] \in Seq(S)
        BY <1>2, <4>1, Zenon
      <4>3. ASSUME k # 0 PROVE f[k] \in Seq(S) /\ f[k] \o ss[k + 1] \in Seq(S)
        BY <3>1, <4>1, <4>2, <4>3, ConcatProperties
      <4> QED  BY <4>1, <4>2, <4>3, Zenon DEF Longer
    <3>3. g \in [1 .. k + 1 -> Seq(S)]
      BY <3>1, <3>2
    <3>4. ASSUME NEW i \in 1 .. k + 1 PROVE g[i] = Longer(ss, g, i)
      <4>1. i = 1 \/ g[i - 1] = f[i - 1]
        OBVIOUS
      <4>2. g[i] = Longer(ss, f, i)
        BY <3>1
      <4> HIDE DEF g
      <4> QED  BY <4>1, <4>2, Zenon DEF Longer
    <3>5. F(k + 1, g)
      BY <3>3, <3>4
    <3> HIDE DEF g, F
    <3> QED  BY <3>5
  <2>3. \A k \in 0 .. n - 1 : k \in T => k + 1 \in T
    BY <2>2
  <2> HIDE DEF T
  <2>4. \A k \in 0 .. n : k \in T
    BY <2>1, <2>3, UpTo
  <2> QED  BY <2>4
<1>4. CASE n = 0
  <2>0. Len(ss) = 0
    BY <1>1, <1>4
  <2>1. ss = <<>> /\ FlattenSeq(ss) = ss
    <3>1. ss = <<>>
      BY <2>0, EmptySeq
    <3>2. FlattenSeq(ss) = ss
      BY <2>0, Zenon DEF FlattenSeq
    <3> QED  BY <3>1, <3>2
  <2> DEFINE f == [i \in {0} |-> <<>>]
  <2>2. f \in [0 .. 0 -> Seq(S)] /\ f[0] = <<>>
    OBVIOUS
  <2> HIDE DEF f
  <2>3. \A i \in 1 .. 0 : f[i] = f[i - 1] \o ss[i]
    OBVIOUS
  <2> QED  BY <1>1, <1>4, <2>1, <2>2, <2>3, Zenon
<1>5. CASE n # 0
  <2>1. PICK f : F(n, f)
    BY <1>3
  <2>2. f = [i \in 1 .. n |-> Longer(ss, f, i)]
    BY <2>1
  <2>3. PICK c : /\ c = [i \in 1 .. n |-> Longer(ss, c, i)]
                 /\ FlattenSeq(ss) = c[n]
    <3> DEFINE d == CHOOSE g : g = [i \in 1 .. n |-> Longer(ss, g, i)]
    <3>1. d = [i \in 1 .. n |-> Longer(ss, d, i)]
      BY <2>2
    <3>2. FlattenSeq(ss) = d[n]
      BY <1>1, <1>5, FlattenByChoice
    <3> HIDE DEF d
    <3> QED  BY <3>1, <3>2
  <2>4. \A i \in 1 .. n : c[i] = Longer(ss, c, i)
    BY <2>3
  <2> DEFINE D == {i \in 0 .. n : i = 0 \/ c[i] \in Seq(S)}
  <2>5. 0 \in D /\ \A i \in 0 .. n - 1 : i \in D => i + 1 \in D
    <3>1. ASSUME NEW i \in 0 .. n - 1, i \in D PROVE i + 1 \in D
      <4>1. i + 1 \in 1 .. n /\ (i + 1) - 1 = i
        OBVIOUS
      <4>2. c[i + 1] = Longer(ss, c, i + 1)
        BY <2>4, <4>1
      <4>3. i = 0 \/ c[i] \in Seq(S)
        BY <3>1
      <4>4. Longer(ss, c, i + 1) \in Seq(S)
        BY <1>2, <4>1, <4>3, ConcatProperties DEF Longer
      <4> QED  BY <4>1, <4>2, <4>4
    <3> QED  BY <3>1
  <2>6. \A i \in 0 .. n : i \in D
    <3> HIDE DEF D
    <3> QED  BY <2>5, UpTo
  <2>7. \A i \in 1 .. n : c[i] \in Seq(S)
    BY <2>6
  <2> DEFINE g == [i \in 0 .. n |-> IF i = 0 THEN <<>> ELSE c[i]]
  <2>8. g \in [0 .. n -> Seq(S)] /\ g[0] = <<>> /\ g[n] = c[n]
    BY <1>5, <2>7
  <2>9. ASSUME NEW i \in 1 .. n PROVE g[i] = g[i - 1] \o ss[i]
    <3>1. g[i] = c[i] /\ c[i] = Longer(ss, c, i)
      BY <2>4
    <3>2. CASE i = 1
      <4>1. g[i - 1] = <<>>
        BY <3>2
      <4>2. g[i] = ss[i]
        BY <3>1, <3>2, Zenon DEF Longer
      <4>3. <<>> \o ss[i] = ss[i]
        BY <1>2, ConcatEmptySeq
      <4> QED  BY <4>1, <4>2, <4>3, Zenon
    <3>3. CASE i # 1
      <4>1. g[i - 1] = c[i - 1]
        BY <3>3
      <4> HIDE DEF g
      <4> QED  BY <3>1, <3>3, <4>1, Zenon DEF Longer
    <3> QED  BY <3>2, <3>3
  <2> HIDE DEF g
  <2> QED  BY <1>1, <2>3, <2>8, <2>9, Zenon
<1> QED  BY <1>4, <1>5

\* Two sequences one after the other, element by element.
LEMMA Joined ==
  ASSUME NEW S, NEW x \in Seq(S), NEW y \in Seq(S)
  PROVE  /\ x \o y \in Seq(S) /\ Len(x \o y) = Len(x) + Len(y)
         /\ \A d \in 1 .. Len(x) : (x \o y)[d] = x[d]
         /\ \A d \in 1 .. Len(y) : (x \o y)[Len(x) + d] = y[d]
OBVIOUS

\* What grows piece by piece is the joined sequence.
LEMMA FlattenedBy ==
  ASSUME NEW S, NEW ss \in Seq(Seq(S)), NEW n \in Nat, n = Len(ss),
         NEW f, f[0] = <<>>, \A i \in 1 .. n : f[i] = f[i - 1] \o ss[i]
  PROVE  FlattenSeq(ss) = f[n] /\ f[n] \in Seq(S)
<1>1. PICK g \in [0 .. n -> Seq(S)] :
           /\ g[0] = <<>> /\ FlattenSeq(ss) = g[n]
           /\ \A i \in 1 .. n : g[i] = g[i - 1] \o ss[i]
  <2>1. \E g \in [0 .. Len(ss) -> Seq(S)] :
           /\ g[0] = <<>> /\ FlattenSeq(ss) = g[Len(ss)]
           /\ \A i \in 1 .. Len(ss) : g[i] = g[i - 1] \o ss[i]
    BY Flattening
  <2> QED  BY <2>1, Zenon
<1> DEFINE T == {i \in 0 .. n : f[i] = g[i]}
<1>2. 0 \in T
  BY <1>1
<1>3. ASSUME NEW i \in 0 .. n - 1, i \in T PROVE i + 1 \in T
  <2>1. i + 1 \in 1 .. n /\ (i + 1) - 1 = i /\ f[i] = g[i]
    BY <1>3
  <2>2. f[i + 1] = f[(i + 1) - 1] \o ss[i + 1] /\ g[i + 1] = g[(i + 1) - 1] \o ss[i + 1]
    BY <1>1, <2>1
  <2>3. f[i + 1] = g[i + 1]
    BY <2>1, <2>2, Zenon
  <2> QED  BY <2>3
<1>4. \A i \in 0 .. n : i \in T
  <2>1. \A i \in 0 .. n - 1 : i \in T => i + 1 \in T
    BY <1>3
  <2> HIDE DEF T
  <2> QED  BY <1>2, <2>1, UpTo
<1>5. f[n] = g[n] /\ g[n] \in Seq(S)
  BY <1>4
<1> QED  BY <1>1, <1>5, Zenon

\* Nothing joined is empty.
LEMMA FlattenedEmpty == FlattenSeq(<<>>) = <<>>
<1>1. Len(<<>>) = 0
  OBVIOUS
<1> QED  BY <1>1, Zenon DEF FlattenSeq

\* One sequence joined is that sequence.
LEMMA FlattenedOne ==
  ASSUME NEW S, NEW s \in Seq(S)
  PROVE  FlattenSeq(<<s>>) = s
<1> DEFINE ss == <<s>>
           f == [i \in 0 .. 1 |-> IF i = 0 THEN <<>> ELSE s]
<1>1. ss \in Seq(Seq(S)) /\ Len(ss) = 1 /\ ss[1] = s
  OBVIOUS
<1>2. f[0] = <<>> /\ f[1] = s
  OBVIOUS
<1>3. <<>> \o s = s
  BY ConcatEmptySeq
<1>4. ASSUME NEW i \in 1 .. 1 PROVE f[i] = f[i - 1] \o ss[i]
  <2>1. i = 1 /\ i - 1 = 0
    OBVIOUS
  <2> HIDE DEF f, ss
  <2> QED  BY <1>1, <1>2, <1>3, <2>1, Zenon
<1> HIDE DEF f, ss
<1>5. PICK n \in Nat : n = 1
  OBVIOUS
<1>6. n = Len(ss) /\ \A i \in 1 .. n : f[i] = f[i - 1] \o ss[i]
  BY <1>1, <1>4, <1>5
<1>7. FlattenSeq(ss) = f[n]
  BY <1>1, <1>2, <1>6, FlattenedBy, ZenonT(40)
<1> QED  BY <1>2, <1>5, <1>7, Zenon DEF ss

\* What is joined has the elements of its parts.
LEMMA FlattenedType ==
  ASSUME NEW S, NEW ss \in Seq(Seq(S))
  PROVE  FlattenSeq(ss) \in Seq(S)
<1>1. PICK f \in [0 .. Len(ss) -> Seq(S)] : FlattenSeq(ss) = f[Len(ss)]
  BY Flattening
<1>2. Len(ss) \in 0 .. Len(ss)
  OBVIOUS
<1> QED  BY <1>1, <1>2

\* Three sequences in a row, by names, as the provers do not rewrite terms.
LEMMA Associative ==
  ASSUME NEW S
  PROVE  \A x, y, z \in Seq(S) : \A p, q : p = x \o y /\ q = y \o z => p \o z = x \o q
BY ConcatAssociative

\* The same for given sequences.
LEMMA Associative2 ==
  ASSUME NEW S, NEW x \in Seq(S), NEW y \in Seq(S), NEW z \in Seq(S), NEW p, NEW q, p = x \o y, q = y \o z
  PROVE  p \o z = x \o q
BY ConcatAssociative

\* Joining a list of parts in two portions.
LEMMA FlattenedConcat ==
  ASSUME NEW S, NEW a \in Seq(Seq(S)), NEW b \in Seq(Seq(S))
  PROVE  FlattenSeq(a \o b) = FlattenSeq(a) \o FlattenSeq(b)
<1>0. \A x, y, z \in Seq(S) : \A p, q : p = x \o y /\ q = y \o z => p \o z = x \o q
  BY Associative
<1>1. PICK n \in Nat : n = Len(a)
  OBVIOUS
<1>2. PICK m \in Nat : m = Len(b)
  OBVIOUS
<1>3. PICK f :
           /\ f \in [0 .. n -> Seq(S)]
           /\ f[0] = <<>> /\ FlattenSeq(a) = f[n]
           /\ \A i \in 1 .. n : f[i] = f[i - 1] \o a[i]
  <2>1. \E g \in [0 .. Len(a) -> Seq(S)] :
           /\ g[0] = <<>> /\ FlattenSeq(a) = g[Len(a)]
           /\ \A i \in 1 .. Len(a) : g[i] = g[i - 1] \o a[i]
    BY Flattening
  <2> QED  BY <1>1, <2>1, Zenon
<1>4. PICK g :
           /\ g \in [0 .. m -> Seq(S)]
           /\ g[0] = <<>> /\ FlattenSeq(b) = g[m]
           /\ \A i \in 1 .. m : g[i] = g[i - 1] \o b[i]
  <2>1. \E g \in [0 .. Len(b) -> Seq(S)] :
           /\ g[0] = <<>> /\ FlattenSeq(b) = g[Len(b)]
           /\ \A i \in 1 .. Len(b) : g[i] = g[i - 1] \o b[i]
    BY Flattening
  <2> QED  BY <1>2, <2>1, Zenon
<1>5. PICK ab : ab = a \o b
  OBVIOUS
<1>6. /\ ab \in Seq(Seq(S)) /\ Len(ab) = n + m
      /\ \A i \in 1 .. n : ab[i] = a[i]
      /\ \A i \in 1 .. m : ab[n + i] = b[i]
  BY <1>1, <1>2, <1>5
<1> DEFINE h == [i \in 0 .. n + m |-> IF i <= n THEN f[i] ELSE f[n] \o g[i - n]]
<1>7. \A i \in 1 .. m : b[i] \in Seq(S)
  BY <1>2
<1>8. \A i \in 0 .. n : h[i] = f[i]
  OBVIOUS
<1>9. \A i \in 0 .. m : h[n + i] = f[n] \o g[i]
  <2>2. ASSUME NEW i \in 0 .. m PROVE h[n + i] = f[n] \o g[i]
    <3>1. CASE i = 0
      <4>1. h[n + i] = f[n]
        BY <3>1
      <4>2. f[n] \o <<>> = f[n]
        BY ConcatEmptySeq
      <4> HIDE DEF h
      <4> QED  BY <1>4, <3>1, <4>1, <4>2, Zenon
    <3>2. CASE i # 0
      <4>1. n + i \in 0 .. n + m /\ ~(n + i <= n) /\ (n + i) - n = i
        BY <3>2
      <4>2. h[n + i] = f[n] \o g[(n + i) - n]
        BY <4>1, Zenon
      <4> HIDE DEF h
      <4> QED  BY <4>1, <4>2, Zenon
    <3> QED  BY <3>1, <3>2
  <2> QED  BY <2>2
<1> HIDE DEF h
<1>10. ASSUME NEW i \in 1 .. n + m PROVE h[i] = h[i - 1] \o ab[i]
  <2>1. CASE i <= n
    <3>1. i \in 0 .. n /\ i - 1 \in 0 .. n /\ i \in 1 .. n
      BY <2>1
    <3>2. h[i] = f[i] /\ h[i - 1] = f[i - 1] /\ ab[i] = a[i]
      BY <3>1, <1>6, <1>8
    <3>3. f[i] = f[i - 1] \o a[i]
      BY <3>1, <1>3
    <3> QED  BY <3>2, <3>3, Zenon
  <2>2. CASE ~(i <= n)
    <3>1. PICK j \in 1 .. m : i = n + j
      <4>1. i - n \in 1 .. m /\ i = n + (i - n)
        BY <2>2
      <4> QED  BY <4>1
    <3>2. j \in 0 .. m /\ j - 1 \in 0 .. m /\ i - 1 = n + (j - 1)
      BY <3>1
    <3>3. h[i] = f[n] \o g[j] /\ h[n + (j - 1)] = f[n] \o g[j - 1] /\ ab[i] = b[j]
      BY <1>6, <1>9, <3>1, <3>2
    <3>4. h[i - 1] = f[n] \o g[j - 1]
      BY <3>2, <3>3, Zenon
    <3>5. g[j] = g[j - 1] \o b[j]
      BY <1>4
    <3>6. f[n] \in Seq(S) /\ g[j - 1] \in Seq(S) /\ b[j] \in Seq(S)
      BY <1>3, <1>4, <1>7, <3>2
    <3>7. h[i - 1] \o b[j] = f[n] \o g[j]
      <4>1. PICK x \in Seq(S), y \in Seq(S), z \in Seq(S) : x = f[n] /\ y = g[j - 1] /\ z = b[j]
        BY <3>6
      <4>2. PICK p, q : p = h[i - 1] /\ q = g[j]
        OBVIOUS
      <4>3. p = x \o y /\ q = y \o z
        BY <3>4, <3>5, <4>1, <4>2, Zenon
      <4>4. p \o z = x \o q
        BY <4>3, Associative2, SMTT(30)
      <4> QED  BY <4>1, <4>2, <4>4, Zenon
    <3> QED  BY <3>3, <3>7, Zenon
  <2> QED  BY <2>1, <2>2, Zenon
<1>11. n \in 0 .. n /\ m \in 0 .. m /\ 0 \in 0 .. n
  OBVIOUS
<1>12. h[0] = <<>> /\ h[n + m] = f[n] \o g[m]
  BY <1>3, <1>8, <1>9, <1>11, Zenon
<1>13. FlattenSeq(ab) = h[n + m]
  <2>1. PICK k \in Nat : k = n + m
    OBVIOUS
  <2>2. k = Len(ab) /\ \A i \in 1 .. k : h[i] = h[i - 1] \o ab[i]
    BY <1>6, <1>10, <2>1
  <2>3. ab \in Seq(Seq(S)) /\ h[0] = <<>>
    BY <1>6, <1>12
  <2>4. FlattenSeq(ab) = h[k]
    BY <2>2, <2>3, FlattenedBy, ZenonT(40)
  <2> QED  BY <2>1, <2>4, Zenon
<1> QED  BY <1>3, <1>4, <1>5, <1>12, <1>13, Zenon

\* Joining what was joined already.
LEMMA FlattenedTwice ==
  ASSUME NEW S, NEW sss \in Seq(Seq(Seq(S)))
  PROVE  FlattenSeq(FlattenSeq(sss)) = FlattenSeq([j \in DOMAIN sss |-> FlattenSeq(sss[j])])
<1>1. PICK n \in Nat : n = Len(sss) /\ DOMAIN sss = 1 .. n
  OBVIOUS
<1>2. PICK f \in [0 .. n -> Seq(Seq(S))] :
           /\ f[0] = <<>> /\ FlattenSeq(sss) = f[n]
           /\ \A i \in 1 .. n : f[i] = f[i - 1] \o sss[i]
  <2>1. \E g \in [0 .. Len(sss) -> Seq(Seq(S))] :
           /\ g[0] = <<>> /\ FlattenSeq(sss) = g[Len(sss)]
           /\ \A i \in 1 .. Len(sss) : g[i] = g[i - 1] \o sss[i]
    BY Flattening
  <2> QED  BY <1>1, <2>1, Zenon
<1> DEFINE ss == [j \in 1 .. n |-> FlattenSeq(sss[j])]
           g == [i \in 0 .. n |-> FlattenSeq(f[i])]
<1>3. \A i \in 1 .. n : sss[i] \in Seq(Seq(S))
  BY <1>1
<1>4. \A i \in 1 .. n : FlattenSeq(sss[i]) \in Seq(S)
  BY <1>3, FlattenedType
<1>5. ss \in Seq(Seq(S)) /\ Len(ss) = n
  BY <1>4
<1>6. \A i \in 1 .. n : ss[i] = FlattenSeq(sss[i])
  OBVIOUS
<1>7. \A i \in 0 .. n : g[i] = FlattenSeq(f[i])
  OBVIOUS
<1>8. g[0] = <<>>
  BY <1>2, <1>7, FlattenedEmpty
<1>9. ASSUME NEW i \in 1 .. n PROVE g[i] = g[i - 1] \o ss[i]
  <2>1. i \in 0 .. n /\ i - 1 \in 0 .. n
    OBVIOUS
  <2>2. g[i] = FlattenSeq(f[i]) /\ g[i - 1] = FlattenSeq(f[i - 1]) /\ ss[i] = FlattenSeq(sss[i])
    BY <1>6, <1>7, <2>1
  <2>3. f[i] = f[i - 1] \o sss[i]
    BY <1>2
  <2>4. f[i - 1] \in Seq(Seq(S)) /\ sss[i] \in Seq(Seq(S))
    BY <1>3, <2>1
  <2>5. FlattenSeq(f[i - 1] \o sss[i]) = FlattenSeq(f[i - 1]) \o FlattenSeq(sss[i])
    BY <2>4, FlattenedConcat
  <2> HIDE DEF g, ss
  <2> QED  BY <2>2, <2>3, <2>5, Zenon
<1>10. n \in 0 .. n
  OBVIOUS
<1>11. FlattenSeq(ss) = g[n]
  <2> HIDE DEF g, ss
  <2> QED  BY <1>5, <1>8, <1>9, FlattenedBy, ZenonT(40)
<1> QED  BY <1>1, <1>2, <1>7, <1>10, <1>11, Zenon

\* Division with remainder, for any integer.
LEMMA DivMod == ASSUME NEW Q \in Nat, Q > 0, NEW N \in Int
  PROVE /\ N \div Q \in Int /\ N % Q \in 0 .. Q - 1 /\ N = Q * (N \div Q) + (N % Q)
BY SMT

\* Positive numbers have a positive product.
LEMMA MulPos == ASSUME NEW Q \in Nat, Q > 0, NEW P \in Nat, P > 0
  PROVE Q * P \in Nat /\ Q * P > 0
BY SMT

\* There is one remainder.
LEMMA Unique == ASSUME NEW D \in Nat, D > 0, NEW a \in Int, NEW b \in Int, NEW r \in 0 .. D - 1, NEW q \in 0 .. D-1,
   D * a + r = D * b + q
  PROVE  r = q
<1>1. D * (a - b) = q - r
  BY SMT
<1>2. CASE a - b >= 1
  <2>1. D * (a - b) >= D
     BY <1>2, SMT
  <2> QED BY <2>1, <1>1, SMT
<1>3. CASE a - b <= -1
  <2>1. D * (a - b) <= -D
     BY <1>3, SMT
  <2> QED BY <2>1, <1>1, SMT
<1>4. CASE a - b = 0
  <2>1. D * (a - b) = 0
     BY <1>4, SMT
  <2> QED BY <2>1, <1>1, SMT
<1> QED BY <1>2, <1>3, <1>4, SMT

\* A number written as multiple and remainder has that remainder.
LEMMA ModIs == ASSUME NEW D \in Nat, D > 0, NEW a \in Int, NEW r \in 0 .. D - 1, NEW N \in Int, N = D * a + r
  PROVE N % D = r
<1>1. N \div D \in Int /\ N % D \in 0 .. D - 1 /\ N = D * (N \div D) + (N % D)
  BY DivMod
<1>2. \A x, y \in Int : \A p, q \in 0 .. D - 1 : D * x + p = D * y + q => p = q
  BY Unique
<1> QED BY <1>1, <1>2

\* Two digits to the base Q are one to the base Q * Q.
LEMMA TwoDigits == ASSUME NEW Q \in Nat, Q > 0, NEW N \in Int
  PROVE /\ Q * Q \in Nat /\ Q * Q > 0 /\ N % (Q * Q) = ((N \div Q) % Q) * Q + (N % Q)
<1>1. PICK h \in Int, l \in 0 .. Q - 1 : N \div Q = h /\ N % Q = l /\ N = Q * h + l
  BY DivMod
<1>2. PICK a \in Int, b \in 0 .. Q - 1 : h % Q = b /\ h = Q * a + b
  BY DivMod
<1>3. Q * Q \in Nat /\ Q * Q > 0
  BY MulPos
<1>4. N = (Q * Q) * a + (b * Q + l)
  BY <1>1, <1>2, SMT
<1>5. b * Q + l \in 0 .. Q * Q - 1
  <2>1. b * Q \in Nat /\ b * Q <= (Q - 1) * Q
    BY SMT
  <2>2. (Q - 1) * Q = Q * Q - Q
    BY SMT
  <2> QED BY <2>1, <2>2, <1>3, SMT
<1>6. PICK D \in Nat : D = Q * Q
  BY <1>3
<1>7. N % D = b * Q + l
  <2>1. b * Q + l \in 0 .. D - 1 /\ D > 0 /\ N = D * a + (b * Q + l)
    BY <1>3, <1>4, <1>5, <1>6, Zenon
  <2>2. \A x \in Int, r \in 0 .. D - 1, y \in Int : y = D * x + r => y % D = r
    BY <2>1, ModIs
  <2> QED BY <2>1, <2>2, Zenon
<1> QED BY <1>1, <1>2, <1>3, <1>6, <1>7, Zenon

\* The powers of Base that the widths of numbers need, and their order.
LEMMA Powers ==
  /\ Base \in Nat /\ Base > 1
  /\ \A w \in {1, 2, 4, 8} : Pow(w) \in Nat /\ Pow(w) > 1
  /\ Pow(1) = Base /\ Pow(2) = Base * Base /\ Pow(4) = Pow(2) * Pow(2) /\ Pow(8) = Pow(4) * Pow(4)
  /\ Pow(1) < Pow(2) /\ Pow(2) < Pow(4) /\ Pow(4) < Pow(8)
<1>1. Base \in Nat /\ Base > 1
  BY MsgPackAssumption
<1>2. Pow(1) = Base /\ Pow(2) = Base * Base /\ Pow(4) = Pow(2) * Pow(2) /\ Pow(8) = Pow(4) * Pow(4)
  <2>1. Pow(1) = Base /\ Pow(2) = Base * Base
    BY DEF Pow
  <2>2. Pow(4) = (Base * Base) * (Base * Base)
    BY DEF Pow
  <2>3. Pow(8) = ((Base * Base) * (Base * Base)) * ((Base * Base) * (Base * Base))
    BY DEF Pow
  <2> QED  BY <2>1, <2>2, <2>3, Zenon
<1>3. ASSUME NEW x \in Nat, x > 1 PROVE x * x \in Nat /\ x * x > x
  <2>1. x * x >= 2 * x
    BY <1>3, SMT
  <2> QED  BY <1>3, <2>1, SMT
<1>4. Pow(2) \in Nat /\ Pow(2) > Base
  BY <1>1, <1>2, <1>3
<1>5. Pow(4) \in Nat /\ Pow(4) > Pow(2)
  BY <1>1, <1>2, <1>3, <1>4
<1>6. Pow(8) \in Nat /\ Pow(8) > Pow(4)
  BY <1>1, <1>2, <1>3, <1>4, <1>5
<1> QED  BY <1>1, <1>2, <1>4, <1>5, <1>6

-----------------------------------------------------------------------------
(* Numbers                                                                 *)

Symbols == ({"byte"} \X (0 .. Base - 1)) \cup (Kinds \X Nat)

\* Joined, for byte strings.
LEMMA JoinedSymbols ==
  \A x, y \in Seq(Symbols) :
    /\ x \o y \in Seq(Symbols) /\ Len(x \o y) = Len(x) + Len(y)
    /\ \A d \in 1 .. Len(x) : (x \o y)[d] = x[d]
    /\ \A d \in 1 .. Len(y) : (x \o y)[Len(x) + d] = y[d]
BY Joined

\* One byte of a number is its lowest digit.
LEMMA ByteType == \A n \in Int : Byte(n) \in Symbols /\ Byte(n) = <<"byte", n % Base>> /\ Byte(n)[2] = n % Base
<1>1. ASSUME NEW n \in Int PROVE n % Base \in 0 .. Base - 1
  BY Powers, DivMod
<1>2. ASSUME NEW n \in Int PROVE Byte(n) \in Symbols /\ Byte(n) = <<"byte", n % Base>> /\ Byte(n)[2] = n % Base
  BY <1>1, <1>2 DEF Byte, Symbols
<1> QED  BY <1>2

\* The bytes of a number for each width there is.
LEMMA ByWidth ==
  ASSUME NEW n
  PROVE  /\ Bytes(n, 1) = <<Byte(n)>> /\ Bytes(n, 2) = Bytes2(n) /\ Bytes(n, 4) = Bytes4(n)
         /\ Bytes(n, 8) = Bytes4(n \div Pow(4)) \o Bytes4(n)
<1> DEFINE c == Bytes4(n \div Pow(4)) \o Bytes4(n)
<1>1. Bytes(n, 8) = c
  <2>1. Bytes(n, 8) = CASE 8 = 1 -> <<Byte(n)>> [] 8 = 2 -> Bytes2(n) [] 8 = 4 -> Bytes4(n) [] 8 = 8 -> c
    BY Zenon DEF Bytes
  <2> HIDE DEF c
  <2> QED  BY <2>1
<1>2. Bytes(n, 1) = <<Byte(n)>> /\ Bytes(n, 2) = Bytes2(n) /\ Bytes(n, 4) = Bytes4(n)
  BY DEF Bytes
<1> QED  BY <1>1, <1>2

\* The bytes of a number.
LEMMA BytesType ==
  ASSUME NEW n \in Int, NEW w \in {1, 2, 4, 8}
  PROVE  Bytes(n, w) \in Seq(Symbols) /\ Len(Bytes(n, w)) = w
<1>1. \A m \in Int : Byte(m) \in Symbols /\ m \div Base \in Int /\ m \div Pow(2) \in Int /\ m \div Pow(4) \in Int
  BY ByteType, Powers, DivMod, SMTT(30)
<1>2. ASSUME NEW m \in Int PROVE Bytes2(m) \in Seq(Symbols) /\ Len(Bytes2(m)) = 2
  BY <1>1 DEF Bytes2
<1>3. ASSUME NEW m \in Int PROVE Bytes4(m) \in Seq(Symbols) /\ Len(Bytes4(m)) = 4
  <2>1. PICK x, y : x = Bytes2(m \div Pow(2)) /\ y = Bytes2(m)
    OBVIOUS
  <2>2. x \in Seq(Symbols) /\ Len(x) = 2 /\ y \in Seq(Symbols) /\ Len(y) = 2
    BY <1>1, <1>2, <2>1
  <2>3. Bytes4(m) = x \o y
    BY <2>1, Zenon DEF Bytes4
  <2>4. x \o y \in Seq(Symbols) /\ Len(x \o y) = Len(x) + Len(y)
    BY <2>2, JoinedSymbols
  <2>5. Len(x) + Len(y) = 4
    BY <2>2
  <2> QED  BY <2>3, <2>4, <2>5, Zenon
<1>4. CASE w = 1
  <2>1. Bytes(n, w) = <<Byte(n)>>
    BY <1>4, ByWidth, Zenon
  <2>2. <<Byte(n)>> \in Seq(Symbols) /\ Len(<<Byte(n)>>) = 1
    BY <1>1
  <2> QED  BY <1>4, <2>1, <2>2, Zenon
<1>5. CASE w = 2
  BY <1>2, <1>5, ByWidth
<1>6. CASE w = 4
  BY <1>3, <1>6, ByWidth
<1>7. CASE w = 8
  <2>1. PICK x, y : x = Bytes4(n \div Pow(4)) /\ y = Bytes4(n)
    OBVIOUS
  <2>2. x \in Seq(Symbols) /\ Len(x) = 4 /\ y \in Seq(Symbols) /\ Len(y) = 4
    BY <1>1, <1>3, <2>1
  <2>3. Bytes(n, w) = x \o y
    BY <1>7, <2>1, ByWidth, Zenon
  <2>4. x \o y \in Seq(Symbols) /\ Len(x \o y) = Len(x) + Len(y)
    BY <2>2, JoinedSymbols
  <2>5. Len(x) + Len(y) = w
    BY <1>7, <2>2
  <2> QED  BY <2>3, <2>4, <2>5, Zenon
<1> QED  BY <1>4, <1>5, <1>6, <1>7

\* What has been written in bytes is read back.
LEMMA Number2Read ==
  ASSUME NEW s, NEW k \in Nat, NEW n \in Int,
         \A d \in 1 .. 2 : At(s, k + d - 1) = Bytes2(n)[d]
  PROVE  Number2(s, k) = n % Pow(2)
<1>1. At(s, k) = Byte(n \div Base) /\ At(s, k + 1) = Byte(n)
  <2>1. k + 1 - 1 = k /\ k + 2 - 1 = k + 1 /\ 1 \in 1 .. 2 /\ 2 \in 1 .. 2
    OBVIOUS
  <2>2. At(s, k + 1 - 1) = Bytes2(n)[1] /\ At(s, k + 2 - 1) = Bytes2(n)[2]
    BY <2>1
  <2> QED  BY <2>1, <2>2 DEF Bytes2
<1>2. n \div Base \in Int
  BY Powers, DivMod
<1>3. At(s, k)[2] = (n \div Base) % Base /\ At(s, k + 1)[2] = n % Base
  BY <1>1, <1>2, ByteType
<1>4. Number2(s, k) = (((n \div Base) % Base) * Base) + (n % Base)
  BY <1>3, Zenon DEF Number2
<1>5. n % (Base * Base) = (((n \div Base) % Base) * Base) + (n % Base)
  BY Powers, TwoDigits
<1>6. Pow(2) = Base * Base
  BY Powers
<1> QED  BY <1>4, <1>5, <1>6, Zenon

\* Four bytes in big-endian order are read back modulo their range.
LEMMA Number4Read ==
  ASSUME NEW s, NEW k \in Nat, NEW n \in Int,
         \A d \in 1 .. 4 : At(s, k + d - 1) = Bytes4(n)[d]
  PROVE  Number4(s, k) = n % Pow(4)
<1>1. PICK m \in Int : m = n \div Pow(2)
  BY Powers, DivMod
<1>2. \A d \in 1 .. 2 : Bytes4(n)[d] = Bytes2(m)[d] /\ Bytes4(n)[2 + d] = Bytes2(n)[d]
  <2>1. Bytes4(n) = Bytes2(m) \o Bytes2(n)
    BY <1>1, Zenon DEF Bytes4
  <2> QED  BY <2>1 DEF Bytes2
<1>3. \A d \in 1 .. 2 : At(s, k + d - 1) = Bytes2(m)[d]
  BY <1>2
<1>4. \A d \in 1 .. 2 : At(s, (k + 2) + d - 1) = Bytes2(n)[d]
  <2>1. ASSUME NEW d \in 1 .. 2 PROVE At(s, (k + 2) + d - 1) = Bytes2(n)[d]
    <3>1. 2 + d \in 1 .. 4 /\ (k + 2) + d - 1 = k + (2 + d) - 1
      OBVIOUS
    <3> QED  BY <1>2, <3>1, Zenon
  <2> QED  BY <2>1
<1>5. Number2(s, k) = m % Pow(2)
  BY <1>3, Number2Read
<1>6. Number2(s, k + 2) = n % Pow(2)
  BY <1>4, Number2Read
<1>7. Number4(s, k) = (((n \div Pow(2)) % Pow(2)) * Pow(2)) + (n % Pow(2))
  BY <1>1, <1>5, <1>6, Zenon DEF Number4
<1>8. n % (Pow(2) * Pow(2)) = (((n \div Pow(2)) % Pow(2)) * Pow(2)) + (n % Pow(2))
  <2>1. PICK Q \in Nat : Q > 0 /\ Q = Pow(2)
    BY Powers
  <2>2. n % (Q * Q) = (((n \div Q) % Q) * Q) + (n % Q)
    BY <2>1, TwoDigits
  <2> QED  BY <2>1, <2>2, Zenon
<1>9. Pow(4) = Pow(2) * Pow(2)
  BY Powers
<1> QED  BY <1>7, <1>8, <1>9, Zenon

\* So are one, two and eight.
LEMMA NumberRead ==
  ASSUME NEW s, NEW k \in Nat, NEW n \in Int, NEW w \in {1, 2, 4, 8},
         \A d \in 1 .. w : At(s, k + d - 1) = Bytes(n, w)[d]
  PROVE  NumberAt(s, k, w) = n % Pow(w)
<1>1. CASE w = 1
  <2>1. 1 \in 1 .. w /\ k + 1 - 1 = k
    BY <1>1
  <2>2. At(s, k + 1 - 1) = Bytes(n, w)[1] /\ Bytes(n, w) = <<Byte(n)>>
    BY <1>1, <2>1 DEF Bytes
  <2>3. At(s, k) = Byte(n)
    BY <2>1, <2>2
  <2>4. At(s, k)[2] = n % Base
    BY <2>3, ByteType
  <2> QED  BY <1>1, <2>4, Powers DEF NumberAt
<1>2. CASE w = 2
  <2>1. \A d \in 1 .. 2 : At(s, k + d - 1) = Bytes2(n)[d]
    BY <1>2 DEF Bytes
  <2> QED  BY <1>2, <2>1, Number2Read DEF NumberAt
<1>3. CASE w = 4
  <2>1. \A d \in 1 .. 4 : At(s, k + d - 1) = Bytes4(n)[d]
    BY <1>3 DEF Bytes
  <2> QED  BY <1>3, <2>1, Number4Read DEF NumberAt
<1>4. CASE w = 8
  <2>1. PICK m \in Int : m = n \div Pow(4)
    BY Powers, DivMod
  <2>2. \A d \in 1 .. 4 : Bytes(n, w)[d] = Bytes4(m)[d] /\ Bytes(n, w)[4 + d] = Bytes4(n)[d]
    <3>1. Bytes(n, w) = Bytes4(m) \o Bytes4(n)
      BY <1>4, <2>1, ByWidth, Zenon
    <3>2. Bytes4(m) = Bytes(m, 4) /\ Bytes4(n) = Bytes(n, 4)
      BY ByWidth, Zenon
    <3>3. PICK x, y : x = Bytes4(m) /\ y = Bytes4(n)
      OBVIOUS
    <3>4. x \in Seq(Symbols) /\ y \in Seq(Symbols) /\ Len(x) = 4 /\ Len(y) = 4
      BY <3>2, <3>3, BytesType
    <3>5. Bytes(n, w) = x \o y
      BY <3>1, <3>3, Zenon
    <3>6. \A d \in 1 .. 4 : (x \o y)[d] = x[d] /\ (x \o y)[4 + d] = y[d]
      <4>1. /\ \A d \in 1 .. Len(x) : (x \o y)[d] = x[d]
            /\ \A d \in 1 .. Len(y) : (x \o y)[Len(x) + d] = y[d]
        BY <3>4, JoinedSymbols, Zenon
      <4> QED  BY <3>4, <4>1, Zenon
    <3> QED  BY <3>3, <3>5, <3>6, Zenon
  <2>3. \A d \in 1 .. 4 : At(s, k + d - 1) = Bytes4(m)[d]
    BY <1>4, <2>2
  <2>4. \A d \in 1 .. 4 : At(s, (k + 4) + d - 1) = Bytes4(n)[d]
    <3>1. ASSUME NEW d \in 1 .. 4 PROVE At(s, (k + 4) + d - 1) = Bytes4(n)[d]
      <4>1. 4 + d \in 1 .. w /\ (k + 4) + d - 1 = k + (4 + d) - 1
        BY <1>4
      <4> QED  BY <2>2, <4>1, Zenon
    <3> QED  BY <3>1
  <2>5. Number4(s, k) = m % Pow(4) /\ Number4(s, k + 4) = n % Pow(4)
    BY <2>3, <2>4, Number4Read
  <2>6. NumberAt(s, k, w) = (((n \div Pow(4)) % Pow(4)) * Pow(4)) + (n % Pow(4))
    <3>1. NumberAt(s, k, 8) = Number4(s, k) * Pow(4) + Number4(s, k + 4)
      <4> DEFINE x == Number4(s, k) * Pow(4) + Number4(s, k + 4)
      <4>1. NumberAt(s, k, 8) = CASE 8 = 1 -> At(s, k)[2] [] 8 = 2 -> Number2(s, k)
                                  [] 8 = 4 -> Number4(s, k) [] 8 = 8 -> x
        BY Zenon DEF NumberAt
      <4> HIDE DEF x
      <4>2. NumberAt(s, k, 8) = x
        BY <4>1
      <4> QED  BY <4>2 DEF x
    <3> QED  BY <1>4, <2>1, <2>5, <3>1, Zenon
  <2>7. n % (Pow(4) * Pow(4)) = (((n \div Pow(4)) % Pow(4)) * Pow(4)) + (n % Pow(4))
    <3>1. PICK Q \in Nat : Q > 0 /\ Q = Pow(4)
      BY Powers
    <3>2. n % (Q * Q) = (((n \div Q) % Q) * Q) + (n % Q)
      BY <3>1, TwoDigits
    <3> QED  BY <3>1, <3>2, Zenon
  <2>8. Pow(8) = Pow(4) * Pow(4)
    BY Powers
  <2> QED  BY <1>4, <2>6, <2>7, <2>8, Zenon
<1> QED  BY <1>1, <1>2, <1>3, <1>4

\* The widths of the number behind a header byte.
LEMMA WidthType == \A k : Width(k) \in {0, 1, 2, 4, 8}
BY DEF Width

\* A first byte with its number.
LEMMA CodedType ==
  ASSUME NEW k \in Kinds, NEW n \in Int, Width(k) = 0 => n \in Nat
  PROVE  /\ Coded(k, n) \in Seq(Symbols) /\ Len(Coded(k, n)) = 1 + Width(k)
         /\ Coded(k, n)[1] = <<k, IF Width(k) = 0 THEN n ELSE 0>>
         /\ \A d \in 1 .. Width(k) : Coded(k, n)[1 + d] = Bytes(n, Width(k))[d]
<1>1. PICK w : w = Width(k) /\ w \in {0, 1, 2, 4, 8}
  BY WidthType
<1>2. CASE w = 0
  <2>1. Coded(k, n) = <<<<k, n>>>>
    BY <1>1, <1>2, Zenon DEF Coded
  <2>2. <<k, n>> \in Symbols
    BY <1>1, <1>2 DEF Symbols
  <2>3. <<<<k, n>>>> \in Seq(Symbols) /\ Len(<<<<k, n>>>>) = 1 /\ <<<<k, n>>>>[1] = <<k, n>>
    BY <2>2
  <2> QED  BY <1>1, <1>2, <2>1, <2>3
<1>3. CASE w # 0
  <2>1. PICK h, b : h = <<<<k, 0>>>> /\ b = Bytes(n, w)
    OBVIOUS
  <2>2. Coded(k, n) = h \o b
    BY <1>1, <1>3, <2>1, Zenon DEF Coded
  <2>3. b \in Seq(Symbols) /\ Len(b) = w
    BY <1>1, <1>3, <2>1, BytesType
  <2>4. h \in Seq(Symbols) /\ Len(h) = 1 /\ h[1] = <<k, 0>>
    BY <2>1 DEF Symbols
  <2>5. /\ h \o b \in Seq(Symbols) /\ Len(h \o b) = Len(h) + Len(b)
        /\ \A d \in 1 .. Len(h) : (h \o b)[d] = h[d]
        /\ \A d \in 1 .. Len(b) : (h \o b)[Len(h) + d] = b[d]
    BY <2>3, <2>4, JoinedSymbols, Zenon
  <2>6. 1 \in 1 .. 1
    OBVIOUS
  <2>7. (h \o b)[1] = <<k, 0>> /\ \A d \in 1 .. w : (h \o b)[1 + d] = b[d]
    BY <2>3, <2>4, <2>5, <2>6, Zenon
  <2> QED  BY <1>1, <1>3, <2>1, <2>2, <2>3, <2>4, <2>5, <2>7, Zenon
<1> QED  BY <1>2, <1>3

\* From o on, s has c, as far as s goes.
Follows(s, o, c) == \A d \in 1 .. Len(c) : o + d <= Len(s) => s[o + d] = c[d]

\* mp_decode_to_lua_type finds the first byte and the number that have been written, and
\* misses bytes where they are not all there.
LEMMA HeaderRead ==
  ASSUME NEW s \in Seq(Symbols), NEW o \in 0 .. Len(s),
         NEW k \in Kinds, NEW n \in Int, Width(k) = 0 => n \in Nat,
         Follows(s, o, Coded(k, n)), NEW loop
  PROVE  DecodeType(s, o, loop) =
           IF o + 1 + Width(k) > Len(s) THEN Fails("missing bytes")
           ELSE DecodeCase(s, k, IF Width(k) = 0 THEN n ELSE n % Pow(Width(k)), o + 1 + Width(k), loop)
<1>1. PICK w : w = Width(k) /\ w \in {0, 1, 2, 4, 8}
  BY WidthType
<1>2. PICK N \in Nat : N = Len(s) /\ DOMAIN s = 1 .. N
  OBVIOUS
<1>3. PICK c : c = Coded(k, n)
  OBVIOUS
<1>4. /\ Len(c) = 1 + w /\ c[1] = <<k, IF w = 0 THEN n ELSE 0>>
      /\ \A d \in 1 .. w : c[1 + d] = Bytes(n, w)[d]
  <2>1. /\ Len(Coded(k, n)) = 1 + Width(k)
        /\ Coded(k, n)[1] = <<k, IF Width(k) = 0 THEN n ELSE 0>>
        /\ \A d \in 1 .. Width(k) : Coded(k, n)[1 + d] = Bytes(n, Width(k))[d]
    BY CodedType
  <2> QED  BY <1>1, <1>3, <2>1, Zenon
<1>5. \A d \in 1 .. 1 + w : o + d <= N => At(s, o + d) = c[d]
  <2>1. \A d \in 1 .. 1 + w : o + d <= N => s[o + d] = c[d]
    BY <1>2, <1>3, <1>4, Zenon DEF Follows
  <2> QED  BY <1>1, <1>2, <2>1 DEF At
<1>6. o + 1 <= N => At(s, o + 1) = c[1]
  BY <1>1, <1>5
<1> DEFINE k0 == At(s, o + 1)[1]
           n0 == IF Width(k0) = 0 THEN At(s, o + 1)[2] ELSE NumberAt(s, o + 2, Width(k0))
<1>7. DecodeType(s, o, loop) =
        IF Needs(s, o, 1) THEN Fails("missing bytes")
        ELSE IF k0 \notin Kinds THEN Fails("bad format")
        ELSE IF Needs(s, o, 1 + Width(k0)) THEN Fails("missing bytes")
        ELSE DecodeCase(s, k0, n0, o + 1 + Width(k0), loop)
  BY Zenon DEF DecodeType
<1> HIDE DEF k0, n0
<1>8. Needs(s, o, 1) <=> ~(o + 1 <= N)
  BY <1>2 DEF Needs
<1>9. Needs(s, o, 1 + w) <=> o + 1 + w > N
  BY <1>1, <1>2 DEF Needs
<1>10. o + 1 <= N => k0 = k
  <2>1. o + 1 <= N => At(s, o + 1)[1] = k
    BY <1>4, <1>6
  <2> QED  BY <2>1 DEF k0
<1>11. CASE ~(o + 1 <= N)
  <2>1. DecodeType(s, o, loop) = Fails("missing bytes")
    BY <1>7, <1>8, <1>11, Zenon
  <2>2. o + 1 + w > N
    BY <1>1, <1>2, <1>11
  <2> QED  BY <1>1, <1>2, <2>1, <2>2, Zenon
<1>12. CASE o + 1 <= N /\ o + 1 + w > N
  BY <1>1, <1>2, <1>7, <1>8, <1>9, <1>10, <1>12, Zenon
<1>13. CASE o + 1 <= N /\ ~(o + 1 + w > N)
  <2>1. DecodeType(s, o, loop) = DecodeCase(s, k, n0, o + 1 + w, loop)
    BY <1>1, <1>7, <1>8, <1>9, <1>10, <1>13, Zenon
  <2>2. n0 = IF w = 0 THEN n ELSE n % Pow(w)
    <3>1. n0 = IF w = 0 THEN At(s, o + 1)[2] ELSE NumberAt(s, o + 2, w)
      BY <1>1, <1>10, <1>13, Zenon DEF n0
    <3>2. w = 0 => At(s, o + 1)[2] = n
      BY <1>4, <1>6, <1>13
    <3>3. ASSUME w # 0 PROVE NumberAt(s, o + 2, w) = n % Pow(w)
      <4>1. ASSUME NEW d \in 1 .. w PROVE At(s, (o + 2) + d - 1) = Bytes(n, w)[d]
        <5>1. 1 + d \in 1 .. 1 + w /\ o + (1 + d) <= N /\ (o + 2) + d - 1 = o + (1 + d)
          BY <1>1, <1>2, <1>13
        <5> QED  BY <1>4, <1>5, <5>1, Zenon
      <4>2. \A d \in 1 .. w : At(s, (o + 2) + d - 1) = Bytes(n, w)[d]
        BY <4>1
      <4>3. PICK b \in Nat : b = o + 2
        OBVIOUS
      <4>4. \A d \in 1 .. w : At(s, b + d - 1) = Bytes(n, w)[d]
        BY <4>2, <4>3, Zenon
      <4>5. NumberAt(s, b, w) = n % Pow(w)
        <5>1. \A i \in Nat, m \in Int, v \in {1, 2, 4, 8} :
                (\A d \in 1 .. v : At(s, i + d - 1) = Bytes(m, v)[d]) => NumberAt(s, i, v) = m % Pow(v)
          BY NumberRead
        <5>2. w \in {1, 2, 4, 8}
          BY <1>1, <3>3
        <5> QED  BY <4>4, <5>1, <5>2, Zenon
      <4> QED  BY <4>3, <4>5, Zenon
    <3> QED  BY <3>1, <3>2, <3>3, Zenon
  <2> QED  BY <1>1, <1>2, <1>13, <2>1, <2>2, Zenon
<1> QED  BY <1>11, <1>12, <1>13

-----------------------------------------------------------------------------
(* The loops that read entries: each result depends on those further on.   *)

LoopKinds == {"array", "hash", "stream"}

AllTurns(s, o, loop) == [kind \in LoopKinds |-> [len \in Nat |-> Turn(s, o, kind, len, loop)]]

\* From m on, what has been read without an error ends where it began or behind.
GoesOn(loop, m) ==
  \A o \in Nat : o >= m => \A kind \in LoopKinds, len \in Nat :
    loop[o][kind][len].err = "none" => loop[o][kind][len].o \in Nat /\ loop[o][kind][len].o >= o

\* Two that are the same behind o.
SameBehind(f, g, o) == \A p \in Nat : p > o => f[p] = g[p]

\* Any offset of a byte string shows a symbol with a number.
LEMMA AtType == \A s \in Seq(Symbols) : \A k : At(s, k) \in Symbols /\ At(s, k)[2] \in Nat
<1>1. <<"byte", 0>> \in Symbols
  BY Powers DEF Symbols
<1>2. ASSUME NEW s \in Seq(Symbols), NEW k PROVE At(s, k) \in Symbols
  <2>1. CASE k \in DOMAIN s
    <3>1. s[k] \in Symbols
      BY <2>1
    <3> QED  BY <2>1, <3>1, Zenon DEF At
  <2>2. CASE k \notin DOMAIN s
    BY <1>1, <2>2, Zenon DEF At
  <2> QED  BY <2>1, <2>2
<1>3. \A x \in Symbols : x[2] \in Nat
  BY Powers DEF Symbols
<1> QED  BY <1>2, <1>3

\* What is read from a byte string as a number is a natural number.
LEMMA NumberAtType == \A s \in Seq(Symbols), k \in Nat, w \in {1, 2, 4, 8} : NumberAt(s, k, w) \in Nat
<1> SUFFICES ASSUME NEW s \in Seq(Symbols) PROVE \A k \in Nat, w \in {1, 2, 4, 8} : NumberAt(s, k, w) \in Nat
  OBVIOUS
<1>1. ASSUME NEW x \in Nat, NEW y \in Nat, NEW p \in Nat PROVE x * p + y \in Nat
  OBVIOUS
<1>2. \A k : At(s, k)[2] \in Nat
  BY AtType
<1>3. ASSUME NEW k \in Nat PROVE Number2(s, k) \in Nat
  BY <1>1, <1>2, Powers DEF Number2
<1>4. ASSUME NEW k \in Nat PROVE Number4(s, k) \in Nat
  <2>1. Number2(s, k) \in Nat /\ Number2(s, k + 2) \in Nat /\ Pow(2) \in Nat
    <3>1. k + 2 \in Nat /\ Pow(2) \in Nat
      BY Powers
    <3> QED  BY <1>3, <3>1, Zenon
  <2>2. PICK x \in Nat, y \in Nat, p \in Nat : x = Number2(s, k) /\ y = Number2(s, k + 2) /\ p = Pow(2)
    BY <2>1
  <2>3. Number4(s, k) = x * p + y
    BY <2>2, Zenon DEF Number4
  <2>4. x * p + y \in Nat
    BY <1>1
  <2> QED  BY <2>3, <2>4, Zenon
<1>5. ASSUME NEW k \in Nat PROVE Number4(s, k) * Pow(4) + Number4(s, k + 4) \in Nat
  <2>1. Number4(s, k) \in Nat /\ Number4(s, k + 4) \in Nat /\ Pow(4) \in Nat
    <3>1. k + 4 \in Nat /\ Pow(4) \in Nat
      BY Powers
    <3> QED  BY <1>4, <3>1, Zenon
  <2> QED  BY <1>1, <2>1, Zenon
<1>6. ASSUME NEW k \in Nat, NEW w \in {1, 2, 4, 8} PROVE NumberAt(s, k, w) \in Nat
  <2> DEFINE e == Number4(s, k) * Pow(4) + Number4(s, k + 4)
  <2>1. NumberAt(s, k, w) = CASE w = 1 -> At(s, k)[2] [] w = 2 -> Number2(s, k) [] w = 4 -> Number4(s, k) [] w = 8 -> e
    BY Zenon DEF NumberAt
  <2>2. e \in Nat
    BY <1>5
  <2> HIDE DEF e
  <2> QED  BY <1>2, <1>3, <1>4, <2>1, <2>2
<1> QED  BY <1>6

\* A case of ldecode_type never ends before the offset it starts at.
LEMMA CaseGoesOn ==
  ASSUME NEW s, NEW k \in Kinds, NEW n \in Nat, NEW o \in Nat, NEW loop, GoesOn(loop, o)
  PROVE  LET r == DecodeCase(s, k, n, o, loop) IN r.err = "none" => r.o \in Nat /\ r.o >= o
<1>1. PICK r : r = DecodeCase(s, k, n, o, loop)
  OBVIOUS
<1>2. PICK a : a = loop[o]["array"][n]
  OBVIOUS
<1>3. PICK h : h = loop[o]["hash"][n]
  OBVIOUS
<1>4. (a.err = "none" => a.o \in Nat /\ a.o >= o) /\ (h.err = "none" => h.o \in Nat /\ h.o >= o)
  <2>1. o >= o
    OBVIOUS
  <2> QED  BY <1>2, <1>3, <2>1, Zenon DEF GoesOn, LoopKinds
<1>5. SUFFICES r.err = "none" => r.o \in Nat /\ r.o >= o
  BY <1>1, Zenon
<1>6. CASE k \in {"array", "dc", "dd"}
  <2>1. r = IF a.err # "none" THEN a
            ELSE Got(Table(Present([j \in 1 .. n |-> <<Number(j), a.v[j]>>])), a.o)
    BY <1>1, <1>2, <1>6 DEF DecodeCase
  <2> QED  BY <1>4, <2>1 DEF Got
<1>7. CASE k \in {"map", "de", "df"}
  <2>1. r = IF h.err # "none" THEN h ELSE Got(Table(Present(h.v)), h.o)
    BY <1>1, <1>3, <1>7 DEF DecodeCase
  <2> QED  BY <1>4, <2>1 DEF Got
<1>8. CASE k \in {"raw", "d9", "da", "db"}
  <2>1. r = IF Needs(s, o, n) THEN Fails("missing bytes") ELSE Got(Str(SubSeq(s, o + 1, o + n)), o + n)
    BY <1>1, <1>8 DEF DecodeCase
  <2>2. r.err # "none" \/ \E v : r = Got(v, o + n)
    <3>1. CASE Needs(s, o, n)
      BY <2>1, <3>1 DEF Fails
    <3>2. CASE ~Needs(s, o, n)
      BY <2>1, <3>2, Zenon
    <3> QED  BY <3>1, <3>2
  <2> QED  BY <2>2 DEF Got
<1>9. CASE k \in {"fix+", "fix-", "cc", "cd", "ce", "cf", "d0", "d1", "d2", "d3", "c0", "c2", "c3", "ca", "cb"}
  <2>1. \E v : r = Got(v, o)
    BY <1>1, <1>9 DEF DecodeCase
  <2> QED  BY <2>1 DEF Got
<1> QED  BY <1>6, <1>7, <1>8, <1>9 DEF Kinds

\* mp_decode_to_lua_type goes on by a byte at least.
LEMMA DecodeGoesOn ==
  ASSUME NEW s \in Seq(Symbols), NEW o \in Nat, NEW loop, GoesOn(loop, o + 1)
  PROVE  LET r == DecodeType(s, o, loop) IN r.err = "none" => r.o \in Nat /\ r.o > o
<1>1. PICK k : k = At(s, o + 1)[1]
  OBVIOUS
<1>2. PICK w : w = Width(k) /\ w \in {0, 1, 2, 4, 8}
  BY WidthType
<1>3. PICK n : n = IF w = 0 THEN At(s, o + 1)[2] ELSE NumberAt(s, o + 2, w)
  OBVIOUS
<1>4. DecodeType(s, o, loop) =
        IF Needs(s, o, 1) THEN Fails("missing bytes")
        ELSE IF k \notin Kinds THEN Fails("bad format")
        ELSE IF Needs(s, o, 1 + w) THEN Fails("missing bytes")
        ELSE DecodeCase(s, k, n, o + 1 + w, loop)
  BY <1>1, <1>2, <1>3, Zenon DEF DecodeType
<1>5. n \in Nat
  <2>1. w # 0 => w \in {1, 2, 4, 8} /\ o + 2 \in Nat
    BY <1>2
  <2> QED  BY <1>3, <2>1, AtType, NumberAtType, Zenon
<1>6. PICK p \in Nat : p = o + 1 + w
  BY <1>2
<1>7. p > o /\ GoesOn(loop, p)
  BY <1>2, <1>6 DEF GoesOn
<1>8. \A why : why # "none" => Fails(why).err # "none"
  BY DEF Fails
<1>9. CASE DecodeType(s, o, loop) = DecodeCase(s, k, n, p, loop) /\ k \in Kinds
  <2>1. PICK r : r = DecodeCase(s, k, n, p, loop)
    OBVIOUS
  <2>2. r.err = "none" => r.o \in Nat /\ r.o >= p
    <3>1. LET q == DecodeCase(s, k, n, p, loop) IN q.err = "none" => q.o \in Nat /\ q.o >= p
      BY <1>5, <1>7, <1>9, CaseGoesOn
    <3> QED  BY <2>1, <3>1, Zenon
  <2>3. r.err = "none" => r.o \in Nat /\ r.o > o
    BY <1>7, <2>2
  <2> QED  BY <1>9, <2>1, <2>3, Zenon
<1>10. CASE DecodeType(s, o, loop) \in {Fails("missing bytes"), Fails("bad format")}
  <2>1. PICK r : r = DecodeType(s, o, loop)
    OBVIOUS
  <2>2. r.err # "none"
    BY <1>8, <1>10, <2>1
  <2> QED  BY <2>1, <2>2, Zenon
<1> QED  BY <1>4, <1>6, <1>9, <1>10, Zenon

\* A value depends on the loops behind its header only.
LEMMA DecodeSame ==
  ASSUME NEW s, NEW o \in Nat, NEW f, NEW g, SameBehind(f, g, o)
  PROVE  DecodeType(s, o, f) = DecodeType(s, o, g)
<1>1. PICK k : k = At(s, o + 1)[1]
  OBVIOUS
<1>2. PICK w : w = Width(k) /\ w \in {0, 1, 2, 4, 8}
  BY WidthType
<1>3. PICK p \in Nat : p = o + 1 + w /\ p > o
  BY <1>2
<1>4. f[p] = g[p]
  BY <1>3, Zenon DEF SameBehind
<1>5. \A n : DecodeCase(s, k, n, p, f) = DecodeCase(s, k, n, p, g)
  BY <1>4, Zenon DEF DecodeCase
<1> QED  BY <1>1, <1>2, <1>3, <1>5, Zenon DEF DecodeType

\* A pair, when it is read, ends behind the offset it starts at.
LEMMA PairGoesOn ==
  ASSUME NEW s \in Seq(Symbols), NEW o \in Nat, NEW loop, GoesOn(loop, o + 1)
  PROVE  LET r == DecodePair(s, o, loop) IN r.err = "none" => r.o \in Nat /\ r.o > o
<1>1. PICK key : key = DecodeType(s, o, loop)
  OBVIOUS
<1>2. PICK val : val = DecodeType(s, key.o, loop)
  OBVIOUS
<1>3. PICK r : r = DecodePair(s, o, loop)
  OBVIOUS
<1>4. r = IF key.err # "none" THEN key
          ELSE IF val.err # "none" THEN val
          ELSE IF key.v = Nil THEN Fails("index is nil")
          ELSE Got(<<key.v, val.v>>, val.o)
  BY <1>1, <1>2, <1>3, Zenon DEF DecodePair, PairOf
<1>5. key.err = "none" => key.o \in Nat /\ key.o > o
  <2>1. LET q == DecodeType(s, o, loop) IN q.err = "none" => q.o \in Nat /\ q.o > o
    BY DecodeGoesOn
  <2> QED  BY <1>1, <2>1, Zenon
<1>6. key.err = "none" /\ val.err = "none" => val.o \in Nat /\ val.o > o
  <2>1. ASSUME key.err = "none" PROVE val.err = "none" => val.o \in Nat /\ val.o > key.o
    <3>1. PICK p \in Nat : p = key.o /\ p > o
      BY <1>5, <2>1
    <3>2. GoesOn(loop, p + 1)
      BY <3>1 DEF GoesOn
    <3>3. LET q == DecodeType(s, p, loop) IN q.err = "none" => q.o \in Nat /\ q.o > p
      BY <3>2, DecodeGoesOn
    <3> QED  BY <1>2, <3>1, <3>3, Zenon
  <2> QED  BY <1>5, <2>1
<1>7. r.err = "none" => r.o \in Nat /\ r.o > o
  BY <1>4, <1>5, <1>6 DEF Got, Fails
<1> QED  BY <1>3, <1>7, Zenon

\* A pair depends on the loops behind its start only.
LEMMA PairSame ==
  ASSUME NEW s \in Seq(Symbols), NEW o \in Nat, NEW f, NEW g, SameBehind(f, g, o), GoesOn(f, o + 1)
  PROVE  DecodePair(s, o, f) = DecodePair(s, o, g)
<1>1. PICK key : key = DecodeType(s, o, f) /\ key = DecodeType(s, o, g)
  BY DecodeSame
<1>2. CASE key.err # "none"
  BY <1>1, <1>2, Zenon DEF DecodePair, PairOf
<1>3. CASE key.err = "none"
  <2>1. LET q == DecodeType(s, o, f) IN q.err = "none" => q.o \in Nat /\ q.o > o
    BY DecodeGoesOn
  <2>2. PICK p \in Nat : p = key.o /\ p > o
    BY <1>1, <1>3, <2>1, Zenon
  <2>3. SameBehind(f, g, p)
    BY <2>2 DEF SameBehind
  <2>4. DecodeType(s, p, f) = DecodeType(s, p, g)
    BY <2>3, DecodeSame
  <2>5. DecodeType(s, key.o, f) = DecodeType(s, key.o, g)
    BY <2>2, <2>4, Zenon
  <2> QED  BY <1>1, <2>5, Zenon DEF DecodePair, PairOf
<1> QED  BY <1>2, <1>3

\* What a turn begins with.
First(s, o, kind, loop) == IF kind = "hash" THEN DecodePair(s, o, loop) ELSE DecodeType(s, o, loop)

\* So does whatever a turn of a loop reads first end further on.
LEMMA FirstGoesOn ==
  ASSUME NEW s \in Seq(Symbols), NEW o \in Nat, NEW kind, NEW loop, GoesOn(loop, o + 1),
         NEW x, x = First(s, o, kind, loop), x.err = "none"
  PROVE  x.o \in Nat /\ x.o > o
<1>1. LET q == DecodeType(s, o, loop) IN q.err = "none" => q.o \in Nat /\ q.o > o
  BY DecodeGoesOn
<1>2. LET q == DecodePair(s, o, loop) IN q.err = "none" => q.o \in Nat /\ q.o > o
  BY PairGoesOn
<1> QED  BY <1>1, <1>2, Zenon DEF First

\* A turn never ends before it starts.
LEMMA TurnGoesOn ==
  ASSUME NEW s \in Seq(Symbols), NEW o \in Nat, NEW kind \in LoopKinds, NEW len \in Nat,
         NEW loop, GoesOn(loop, o + 1), NEW r, r = Turn(s, o, kind, len, loop)
  PROVE  r.err = "none" => r.o \in Nat /\ r.o >= o
<1>1. PICK x : x = First(s, o, kind, loop)
  OBVIOUS
<1>2. PICK rest : rest = loop[x.o][kind][len - 1]
  OBVIOUS
<1>3. r = IF len = 0 \/ (kind = "stream" /\ o >= Len(s)) THEN Got(<<>>, o)
          ELSE IF x.err # "none" THEN x
          ELSE IF rest.err # "none" THEN rest
          ELSE Got(<<x.v>> \o rest.v, rest.o)
  BY <1>1, <1>2, Zenon DEF Turn, Prepend, First
<1>4. ASSUME x.err = "none", len # 0 PROVE rest.err = "none" => rest.o \in Nat /\ rest.o >= o
  <2>1. x.o \in Nat /\ x.o > o
    BY <1>1, <1>4, FirstGoesOn
  <2>2. PICK p \in Nat : p = x.o /\ p >= o + 1 /\ p > o
    BY <2>1
  <2>3. PICK l \in Nat : l = len - 1
    BY <1>4
  <2>4. loop[p][kind][l].err = "none" => loop[p][kind][l].o \in Nat /\ loop[p][kind][l].o >= p
    BY <2>2, Zenon DEF GoesOn
  <2>5. rest.err = "none" => rest.o \in Nat /\ rest.o >= p
    BY <1>2, <2>2, <2>3, <2>4, Zenon
  <2> QED  BY <2>2, <2>5
<1>5. \A v, p : Got(v, p).o = p /\ Got(v, p).err = "none"
  BY DEF Got
<1>6. CASE len = 0 \/ (kind = "stream" /\ o >= Len(s))
  <2>1. r.o = o
    BY <1>3, <1>5, <1>6, Zenon
  <2> QED  BY <2>1
<1>7. CASE ~(len = 0 \/ (kind = "stream" /\ o >= Len(s))) /\ x.err # "none"
  BY <1>3, <1>7, Zenon
<1>8. CASE ~(len = 0 \/ (kind = "stream" /\ o >= Len(s))) /\ x.err = "none" /\ rest.err # "none"
  BY <1>3, <1>8, Zenon
<1>9. CASE ~(len = 0 \/ (kind = "stream" /\ o >= Len(s))) /\ x.err = "none" /\ rest.err = "none"
  <2>1. r.o = rest.o
    BY <1>3, <1>5, <1>9, Zenon
  <2> QED  BY <1>4, <1>9, <2>1
<1> QED  BY <1>6, <1>7, <1>8, <1>9

\* A turn depends on the loops behind its start only.
LEMMA TurnSame ==
  ASSUME NEW s \in Seq(Symbols), NEW o \in Nat, NEW kind \in LoopKinds, NEW len \in Nat,
         NEW f, NEW g, SameBehind(f, g, o), GoesOn(f, o + 1)
  PROVE  Turn(s, o, kind, len, f) = Turn(s, o, kind, len, g)
<1>1. PICK x : x = First(s, o, kind, f) /\ x = First(s, o, kind, g)
  <2>1. DecodeType(s, o, f) = DecodeType(s, o, g) /\ DecodePair(s, o, f) = DecodePair(s, o, g)
    BY DecodeSame, PairSame
  <2> QED  BY <2>1, Zenon DEF First
<1>2. PICK a : a = f[x.o][kind][len - 1]
  OBVIOUS
<1>3. PICK b : b = g[x.o][kind][len - 1]
  OBVIOUS
<1>4. Turn(s, o, kind, len, f) =
        IF len = 0 \/ (kind = "stream" /\ o >= Len(s)) THEN Got(<<>>, o)
        ELSE IF x.err # "none" THEN x
        ELSE IF a.err # "none" THEN a ELSE Got(<<x.v>> \o a.v, a.o)
  BY <1>1, <1>2, Zenon DEF Turn, Prepend, First
<1>5. Turn(s, o, kind, len, g) =
        IF len = 0 \/ (kind = "stream" /\ o >= Len(s)) THEN Got(<<>>, o)
        ELSE IF x.err # "none" THEN x
        ELSE IF b.err # "none" THEN b ELSE Got(<<x.v>> \o b.v, b.o)
  BY <1>1, <1>3, Zenon DEF Turn, Prepend, First
<1>6. x.err = "none" => a = b
  <2>1. ASSUME x.err = "none" PROVE f[x.o] = g[x.o]
    <3>1. x.o \in Nat /\ x.o > o
      BY <1>1, <2>1, FirstGoesOn
    <3> QED  BY <3>1, Zenon DEF SameBehind
  <2> QED  BY <1>2, <1>3, <2>1, Zenon
<1>7. CASE len = 0 \/ (kind = "stream" /\ o >= Len(s))
  <2>1. Turn(s, o, kind, len, f) = Got(<<>>, o)
    BY <1>4, <1>7, Zenon
  <2>2. Turn(s, o, kind, len, g) = Got(<<>>, o)
    BY <1>5, <1>7, Zenon
  <2> QED  BY <2>1, <2>2, Zenon
<1>8. CASE ~(len = 0 \/ (kind = "stream" /\ o >= Len(s))) /\ x.err # "none"
  <2>1. Turn(s, o, kind, len, f) = x
    BY <1>4, <1>8, Zenon
  <2>2. Turn(s, o, kind, len, g) = x
    BY <1>5, <1>8, Zenon
  <2> QED  BY <2>1, <2>2, Zenon
<1>9. CASE ~(len = 0 \/ (kind = "stream" /\ o >= Len(s))) /\ x.err = "none"
  <2>1. Turn(s, o, kind, len, f) = IF a.err # "none" THEN a ELSE Got(<<x.v>> \o a.v, a.o)
    BY <1>4, <1>9, Zenon
  <2>2. Turn(s, o, kind, len, g) = IF b.err # "none" THEN b ELSE Got(<<x.v>> \o b.v, b.o)
    BY <1>5, <1>9, Zenon
  <2>3. a = b
    BY <1>6, <1>9
  <2> QED  BY <2>1, <2>2, <2>3
<1> QED  BY <1>7, <1>8, <1>9

\* Behind the end there is nothing to go on to.
LEMMA TurnEnd ==
  ASSUME NEW s \in Seq(Symbols), NEW o \in Nat, o >= Len(s), NEW kind, NEW len, NEW loop
  PROVE  Turn(s, o, kind, len, loop) =
           IF len = 0 \/ kind = "stream" THEN Got(<<>>, o) ELSE Fails("missing bytes")
<1>1. Needs(s, o, 1)
  BY DEF Needs
<1>2. DecodeType(s, o, loop) = Fails("missing bytes")
  BY <1>1, Zenon DEF DecodeType
<1>3. Fails("missing bytes").err # "none"
  BY DEF Fails
<1>4. First(s, o, kind, loop) = Fails("missing bytes")
  BY <1>2, <1>3, Zenon DEF First, DecodePair, PairOf
<1>5. PICK x : x = First(s, o, kind, loop) /\ x = Fails("missing bytes")
  BY <1>4
<1>6. PICK rest : rest = loop[x.o][kind][len - 1]
  OBVIOUS
<1>7. Turn(s, o, kind, len, loop) =
        IF len = 0 \/ (kind = "stream" /\ o >= Len(s)) THEN Got(<<>>, o)
        ELSE IF x.err # "none" THEN x
        ELSE IF rest.err # "none" THEN rest
        ELSE Got(<<x.v>> \o rest.v, rest.o)
  BY <1>5, <1>6, Zenon DEF Turn, Prepend, First
<1> QED  BY <1>3, <1>5, <1>7, Zenon

\* The loops are by choice, as recursive functions are defined.
LEMMA LoopsByChoice ==
  ASSUME NEW s
  PROVE  Loops(s) = CHOOSE f : f = [o \in Nat |-> AllTurns(s, o, f)]
BY Zenon DEF Loops, AllTurns, LoopKinds

\* One turn among those of an offset.
LEMMA AllTurnsAt ==
  ASSUME NEW s, NEW o, NEW kind \in LoopKinds, NEW len \in Nat, NEW loop
  PROVE  AllTurns(s, o, loop)[kind][len] = Turn(s, o, kind, len, loop)
<1>1. AllTurns(s, o, loop)[kind] = [l \in Nat |-> Turn(s, o, kind, l, loop)]
  BY Zenon DEF AllTurns
<1> QED  BY <1>1, Zenon

\* The turns at an offset depend on the offsets behind it only.
LEMMA AllTurnsSame ==
  ASSUME NEW s \in Seq(Symbols), NEW o \in Nat, NEW f, NEW g, SameBehind(f, g, o), GoesOn(f, o + 1)
  PROVE  AllTurns(s, o, f) = AllTurns(s, o, g)
<1>1. \A kind \in LoopKinds, len \in Nat : Turn(s, o, kind, len, f) = Turn(s, o, kind, len, g)
  BY TurnSame
<1>2. \A kind \in LoopKinds : [len \in Nat |-> Turn(s, o, kind, len, f)] = [len \in Nat |-> Turn(s, o, kind, len, g)]
  BY <1>1, Zenon
<1> QED  BY <1>2, Zenon DEF AllTurns

\* At the end of the bytes they depend on none.
LEMMA AllTurnsEnd ==
  ASSUME NEW s \in Seq(Symbols), NEW o \in Nat, o >= Len(s), NEW f, NEW g
  PROVE  AllTurns(s, o, f) = AllTurns(s, o, g)
<1>1. ASSUME NEW kind \in LoopKinds, NEW len \in Nat
      PROVE  Turn(s, o, kind, len, f) = Turn(s, o, kind, len, g)
  <2>1. \A loop : Turn(s, o, kind, len, loop) =
                    IF len = 0 \/ kind = "stream" THEN Got(<<>>, o) ELSE Fails("missing bytes")
    BY TurnEnd
  <2> QED  BY <2>1, Zenon
<1>2. \A kind \in LoopKinds : [len \in Nat |-> Turn(s, o, kind, len, f)] = [len \in Nat |-> Turn(s, o, kind, len, g)]
  BY <1>1, Zenon
<1> QED  BY <1>2, Zenon DEF AllTurns

\* From m on, loop is what the turns make of it.
Runs(s, loop, m) == \A o \in Nat : o >= m => loop[o] = AllTurns(s, o, loop)

\* Such a loop goes on.
LEMMA RunsGoOn ==
  ASSUME NEW s \in Seq(Symbols), NEW loop, NEW m \in Nat, m <= Len(s), Runs(s, loop, m)
  PROVE  GoesOn(loop, m)
<1>1. PICK N \in Nat : N = Len(s) /\ m <= N
  OBVIOUS
<1>2. ASSUME NEW o \in Nat, o >= m, NEW kind \in LoopKinds, NEW len \in Nat
      PROVE  loop[o][kind][len] = Turn(s, o, kind, len, loop)
  <2>1. loop[o] = AllTurns(s, o, loop)
    BY <1>2, Zenon DEF Runs
  <2>2. AllTurns(s, o, loop)[kind][len] = Turn(s, o, kind, len, loop)
    BY AllTurnsAt
  <2> QED  BY <2>1, <2>2, Zenon
<1> DEFINE T == {k \in 0 .. N - m : GoesOn(loop, N - k)}
<1>3. GoesOn(loop, N)
  <2> SUFFICES ASSUME NEW o \in Nat, o >= N, NEW kind \in LoopKinds, NEW len \in Nat
               PROVE  loop[o][kind][len].err = "none" =>
                        loop[o][kind][len].o \in Nat /\ loop[o][kind][len].o >= o
    BY DEF GoesOn
  <2>1. PICK r : r = loop[o][kind][len]
    OBVIOUS
  <2>2. o >= m /\ o >= Len(s)
    BY <1>1
  <2>3. Turn(s, o, kind, len, loop) = IF len = 0 \/ kind = "stream" THEN Got(<<>>, o) ELSE Fails("missing bytes")
    BY <2>2, TurnEnd
  <2>4. r = IF len = 0 \/ kind = "stream" THEN Got(<<>>, o) ELSE Fails("missing bytes")
    BY <1>2, <2>1, <2>2, <2>3, Zenon
  <2>5. r.err = "none" => r.o \in Nat /\ r.o >= o
    <3>1. CASE r = Got(<<>>, o)
      BY <3>1 DEF Got
    <3>2. CASE r = Fails("missing bytes")
      BY <3>2 DEF Fails
    <3> QED  BY <2>4, <3>1, <3>2, Zenon
  <2> QED  BY <2>1, <2>5, Zenon
<1>4. ASSUME NEW k \in 0 .. (N - m) - 1, GoesOn(loop, N - k) PROVE GoesOn(loop, N - (k + 1))
  <2>1. PICK q \in Nat : q = N - (k + 1) /\ q >= m /\ N - k = q + 1
    <3>1. N - (k + 1) \in Nat /\ N - (k + 1) >= m /\ N - k = (N - (k + 1)) + 1
      BY <1>1
    <3> QED  BY <3>1
  <2>2. GoesOn(loop, q + 1)
    BY <1>4, <2>1, Zenon
  <2>3. ASSUME NEW kind \in LoopKinds, NEW len \in Nat
        PROVE  loop[q][kind][len].err = "none" =>
                        loop[q][kind][len].o \in Nat /\ loop[q][kind][len].o >= q
    <3>1. PICK r : r = loop[q][kind][len]
      OBVIOUS
    <3>2. r = Turn(s, q, kind, len, loop)
      BY <1>2, <2>1, <3>1, Zenon
    <3>3. r.err = "none" => r.o \in Nat /\ r.o >= q
      BY <2>2, <3>2, TurnGoesOn
    <3> QED  BY <3>1, <3>3, Zenon
  <2>4. \A o \in Nat : o >= q => o = q \/ o >= q + 1
    OBVIOUS
  <2>5. GoesOn(loop, q)
    BY <2>2, <2>3, <2>4, Zenon DEF GoesOn
  <2> QED  BY <2>1, <2>5, Zenon
<1>5. PICK d \in Nat : d = N - m
  <2>1. N - m \in Nat
    BY <1>1
  <2> QED  BY <2>1
<1>6. 0 \in T /\ \A k \in 0 .. d - 1 : k \in T => k + 1 \in T
  <2>1. N - 0 = N /\ 0 \in 0 .. N - m
    BY <1>1, <1>5
  <2>2. 0 \in T
    BY <1>3, <2>1
  <2>3. \A k \in 0 .. d - 1 : k \in 0 .. (N - m) - 1 /\ k + 1 \in 0 .. N - m
    BY <1>5
  <2> QED  BY <1>4, <2>2, <2>3, Zenon
<1>7. \A k \in 0 .. d : k \in T
  <2> HIDE DEF T
  <2> QED  BY <1>6, UpTo
<1>8. d \in 0 .. d /\ N - d = m
  BY <1>1, <1>5
<1>9. GoesOn(loop, N - d)
  BY <1>7, <1>8, Zenon
<1> QED  BY <1>8, <1>9, Zenon

\* The loops exist, by recursion from the end of the bytes to their start.
LEMMA LoopsExist ==
  ASSUME NEW s \in Seq(Symbols)
  PROVE  \E f : f = [o \in Nat |-> AllTurns(s, o, f)]
<1>1. PICK N \in Nat : N = Len(s)
  OBVIOUS
<1> DEFINE T == {m \in 0 .. N : \E f : f = [o \in Nat |-> f[o]] /\ Runs(s, f, m)}
<1>2. N \in T
  <2> DEFINE f == [o \in Nat |-> AllTurns(s, o, 0)]
  <2>1. f = [o \in Nat |-> f[o]]
    OBVIOUS
  <2>2. \A o \in Nat : f[o] = AllTurns(s, o, 0)
    OBVIOUS
  <2> HIDE DEF f
  <2>3. ASSUME NEW o \in Nat, o >= N PROVE f[o] = AllTurns(s, o, f)
    <3>1. AllTurns(s, o, 0) = AllTurns(s, o, f)
      BY <1>1, <2>3, AllTurnsEnd
    <3> QED  BY <2>2, <3>1, Zenon
  <2>4. Runs(s, f, N)
    BY <2>3, Zenon DEF Runs
  <2> QED  BY <2>1, <2>4
<1>3. ASSUME NEW m \in 1 .. N, m \in T PROVE m - 1 \in T
  <2>1. PICK f : f = [o \in Nat |-> f[o]] /\ Runs(s, f, m)
    BY <1>3
  <2>2. PICK q \in Nat : q = m - 1 /\ m = q + 1 /\ q \in 0 .. N
    OBVIOUS
  <2> DEFINE g == [o \in Nat |-> IF o = q THEN AllTurns(s, q, f) ELSE f[o]]
  <2>3. g = [o \in Nat |-> g[o]]
    OBVIOUS
  <2>4. g[q] = AllTurns(s, q, f) /\ \A o \in Nat : o # q => g[o] = f[o]
    OBVIOUS
  <2> HIDE DEF g
  <2>5. GoesOn(f, m)
    <3>1. m \in Nat /\ m <= Len(s)
      BY <1>1
    <3> QED  BY <2>1, <3>1, RunsGoOn
  <2>6. ASSUME NEW o \in Nat, o >= q PROVE g[o] = AllTurns(s, o, g)
    <3>1. SameBehind(f, g, o)
      <4>1. \A p \in Nat : p > o => p # q
        BY <2>6
      <4> QED  BY <2>4, <4>1, Zenon DEF SameBehind
    <3>2. GoesOn(f, o + 1)
      <4>1. \A p \in Nat : p >= o + 1 => p >= m
        BY <2>2, <2>6
      <4> QED  BY <2>5, <4>1, Zenon DEF GoesOn
    <3>3. AllTurns(s, o, f) = AllTurns(s, o, g)
      BY <3>1, <3>2, AllTurnsSame
    <3>4. CASE o = q
      BY <2>4, <3>3, <3>4, Zenon
    <3>5. CASE o # q
      <4>1. o >= m
        BY <2>2, <2>6, <3>5
      <4>2. f[o] = AllTurns(s, o, f)
        BY <2>1, <4>1, Zenon DEF Runs
      <4> QED  BY <2>4, <3>3, <3>5, <4>2, Zenon
    <3> QED  BY <3>4, <3>5
  <2>7. Runs(s, g, q)
    BY <2>6, Zenon DEF Runs
  <2> QED  BY <2>2, <2>3, <2>7, Zenon
<1>4. \A m \in 0 .. N : m \in T
  <2>1. \A m \in 1 .. N : m \in T => m - 1 \in T
    BY <1>3, Zenon
  <2> HIDE DEF T
  <2> QED  BY <1>2, <2>1, DownFrom
<1>5. 0 \in T
  <2>1. 0 \in 0 .. N
    OBVIOUS
  <2> HIDE DEF T
  <2> QED  BY <1>4, <2>1
<1>6. PICK f : f = [o \in Nat |-> f[o]] /\ Runs(s, f, 0)
  BY <1>5
<1>7. \A o \in Nat : f[o] = AllTurns(s, o, f)
  <2>1. \A o \in Nat : o >= 0
    OBVIOUS
  <2> QED  BY <1>6, <2>1, Zenon DEF Runs
<1>8. f = [o \in Nat |-> AllTurns(s, o, f)]
  <2>1. [o \in Nat |-> f[o]] = [o \in Nat |-> AllTurns(s, o, f)]
    BY <1>7, Zenon
  <2> QED  BY <1>6, <2>1, Zenon
<1> QED  BY <1>8

\* The recursion of the loops.
LEMMA LoopsTurn ==
  ASSUME NEW s \in Seq(Symbols), NEW o \in Nat, NEW kind \in LoopKinds, NEW len \in Nat
  PROVE  Loops(s)[o][kind][len] = Turn(s, o, kind, len, Loops(s))
<1>1. PICK L : L = Loops(s)
  OBVIOUS
<1>2. L = [p \in Nat |-> AllTurns(s, p, L)]
  <2> DEFINE d == CHOOSE f : f = [p \in Nat |-> AllTurns(s, p, f)]
  <2>1. d = [p \in Nat |-> AllTurns(s, p, d)]
    BY LoopsExist, Zenon
  <2>2. L = d
    BY <1>1, LoopsByChoice, Zenon
  <2> HIDE DEF d
  <2> QED  BY <2>1, <2>2, Zenon
<1>3. L[o] = AllTurns(s, o, L)
  BY <1>2, Zenon
<1>4. L[o][kind][len] = Turn(s, o, kind, len, L)
  <2>1. AllTurns(s, o, L)[kind][len] = Turn(s, o, kind, len, L)
    BY AllTurnsAt
  <2> QED  BY <1>3, <2>1, Zenon
<1> QED  BY <1>1, <1>4, Zenon

-----------------------------------------------------------------------------
(* The recursions over the level of nesting.                               *)

EncodeRow(level, inner) == [v \in Values |-> EncodeType(v, level, inner)]
KeepRow(level, inner) == [v \in Values |-> KeepType(v, level, inner)]
LoseRow(level, inner) == [v \in Values |-> LoseType(v, level, inner)]

\* The recursion of Encoding.
LEMMA EncodeEnd ==
  ASSUME NEW f, NEW g
  PROVE  EncodeRow(MaxNesting, f) = EncodeRow(MaxNesting, g)
<1>1. ~(MaxNesting < MaxNesting)
  BY MsgPackAssumption
<1>2. \A v \in Values : EncodeType(v, MaxNesting, f) = EncodeType(v, MaxNesting, g)
  BY <1>1, Zenon DEF EncodeType
<1> QED  BY <1>2, Zenon DEF EncodeRow

\* The encodings exist, by recursion from the deepest level.
LEMMA EncodeRowsExist ==
  \E f : f = [level \in 0 .. MaxNesting |-> EncodeRow(level, f[level + 1])]
<1>1. PICK M \in Nat : M = MaxNesting
  BY MsgPackAssumption
<1> DEFINE From(f, m) == \A level \in 0 .. M : level >= m => f[level] = EncodeRow(level, f[level + 1])
           T == {m \in 0 .. M : \E f : f = [level \in 0 .. M |-> f[level]] /\ From(f, m)}
<1>2. M \in T
  <2> DEFINE f == [level \in 0 .. M |-> EncodeRow(M, 0)]
  <2>1. f = [level \in 0 .. M |-> f[level]] /\ f[M] = EncodeRow(M, 0)
    OBVIOUS
  <2> HIDE DEF f
  <2>2. f[M] = EncodeRow(M, f[M + 1])
    BY <1>1, <2>1, EncodeEnd, Zenon
  <2>3. \A level \in 0 .. M : level >= M => level = M
    OBVIOUS
  <2>4. From(f, M)
    BY <2>2, <2>3, Zenon
  <2>5. M \in 0 .. M
    OBVIOUS
  <2> HIDE DEF From
  <2> QED  BY <2>1, <2>4, <2>5
<1>3. ASSUME NEW m \in 1 .. M, m \in T PROVE m - 1 \in T
  <2>1. PICK f : f = [level \in 0 .. M |-> f[level]] /\ From(f, m)
    BY <1>3
  <2>2. PICK q \in 0 .. M : q = m - 1 /\ q + 1 = m /\ m \in 0 .. M
    OBVIOUS
  <2> DEFINE g == [level \in 0 .. M |-> IF level = q THEN EncodeRow(q, f[q + 1]) ELSE f[level]]
  <2>3. g = [level \in 0 .. M |-> g[level]] /\ g[q] = EncodeRow(q, f[q + 1])
    OBVIOUS
  <2>4. \A level \in 0 .. M : level # q => g[level] = f[level]
    OBVIOUS
  <2> HIDE DEF g
  <2>5. q + 1 # q /\ q + 1 \in 0 .. M
    BY <2>2
  <2>6. g[q + 1] = f[q + 1]
    BY <2>4, <2>5, Zenon
  <2>7. ASSUME NEW level \in 0 .. M, level >= q PROVE g[level] = EncodeRow(level, g[level + 1])
    <3>1. CASE level = q
      BY <2>3, <2>6, <3>1, Zenon
    <3>2. CASE level # q /\ level # M
      <4>1. level >= m /\ level + 1 # q /\ level + 1 \in 0 .. M
        BY <2>2, <2>7, <3>2
      <4>2. f[level] = EncodeRow(level, f[level + 1])
        BY <2>1, <4>1, Zenon
      <4>3. g[level] = f[level] /\ g[level + 1] = f[level + 1]
        BY <2>4, <3>2, <4>1, Zenon
      <4> QED  BY <4>2, <4>3, Zenon
    <3>3. CASE level # q /\ level = M
      <4>1. level >= m
        BY <2>2, <2>7, <3>3
      <4>2. f[level] = EncodeRow(level, f[level + 1])
        BY <2>1, <4>1, Zenon
      <4>3. g[level] = f[level]
        BY <2>4, <3>3, Zenon
      <4>4. EncodeRow(level, f[level + 1]) = EncodeRow(level, g[level + 1])
        BY <1>1, <3>3, EncodeEnd, Zenon
      <4> QED  BY <4>2, <4>3, <4>4, Zenon
    <3> QED  BY <3>1, <3>2, <3>3
  <2>8. From(g, q)
    BY <2>7, Zenon
  <2> HIDE DEF From
  <2> QED  BY <2>2, <2>3, <2>8, Zenon
<1>4. 0 \in T
  <2>1. \A m \in 1 .. M : m \in T => m - 1 \in T
    BY <1>3, Zenon
  <2>2. 0 \in 0 .. M
    OBVIOUS
  <2> HIDE DEF T
  <2>3. \A m \in 0 .. M : m \in T
    BY <1>2, <2>1, DownFrom
  <2> QED  BY <2>2, <2>3
<1>5. PICK f : f = [level \in 0 .. M |-> f[level]] /\ From(f, 0)
  BY <1>4
<1>6. \A level \in 0 .. M : f[level] = EncodeRow(level, f[level + 1])
  <2>1. \A level \in 0 .. M : level >= 0
    OBVIOUS
  <2> QED  BY <1>5, <2>1, Zenon
<1>7. f = [level \in 0 .. M |-> EncodeRow(level, f[level + 1])]
  <2>1. [level \in 0 .. M |-> f[level]] = [level \in 0 .. M |-> EncodeRow(level, f[level + 1])]
    BY <1>6, Zenon
  <2> QED  BY <1>5, <2>1, Zenon
<1> QED  BY <1>1, <1>7, Zenon

\* What lencode_type writes at a level, from the level below it.
LEMMA EncodeBy ==
  ASSUME NEW level \in 0 .. MaxNesting, NEW v \in Values
  PROVE  Encoding[level][v] = EncodeType(v, level, Encoding[level + 1])
<1>1. Encoding = [l \in 0 .. MaxNesting |-> EncodeRow(l, Encoding[l + 1])]
  <2> DEFINE d == CHOOSE f : f = [l \in 0 .. MaxNesting |-> EncodeRow(l, f[l + 1])]
  <2>1. d = [l \in 0 .. MaxNesting |-> EncodeRow(l, d[l + 1])]
    BY EncodeRowsExist, Zenon
  <2>2. Encoding = d
    BY Zenon DEF Encoding, EncodeRow
  <2> HIDE DEF d
  <2> QED  BY <2>1, <2>2, Zenon
<1>2. Encoding[level] = EncodeRow(level, Encoding[level + 1])
  BY <1>1, Zenon
<1> QED  BY <1>2, Zenon DEF EncodeRow

\* The recursion of Keeping.
LEMMA KeepEnd ==
  ASSUME NEW f, NEW g
  PROVE  KeepRow(MaxNesting, f) = KeepRow(MaxNesting, g)
<1>1. ~(MaxNesting < MaxNesting)
  BY MsgPackAssumption
<1>2. \A v \in Values : KeepType(v, MaxNesting, f) = KeepType(v, MaxNesting, g)
  BY <1>1, Zenon DEF KeepType
<1> QED  BY <1>2, Zenon DEF KeepRow

\* So do the values as they come out.
LEMMA KeepRowsExist ==
  \E f : f = [level \in 0 .. MaxNesting |-> KeepRow(level, f[level + 1])]
<1>1. PICK M \in Nat : M = MaxNesting
  BY MsgPackAssumption
<1> DEFINE From(f, m) == \A level \in 0 .. M : level >= m => f[level] = KeepRow(level, f[level + 1])
           T == {m \in 0 .. M : \E f : f = [level \in 0 .. M |-> f[level]] /\ From(f, m)}
<1>2. M \in T
  <2> DEFINE f == [level \in 0 .. M |-> KeepRow(M, 0)]
  <2>1. f = [level \in 0 .. M |-> f[level]] /\ f[M] = KeepRow(M, 0)
    OBVIOUS
  <2> HIDE DEF f
  <2>2. f[M] = KeepRow(M, f[M + 1])
    BY <1>1, <2>1, KeepEnd, Zenon
  <2>3. \A level \in 0 .. M : level >= M => level = M
    OBVIOUS
  <2>4. From(f, M)
    BY <2>2, <2>3, Zenon
  <2>5. M \in 0 .. M
    OBVIOUS
  <2> HIDE DEF From
  <2> QED  BY <2>1, <2>4, <2>5
<1>3. ASSUME NEW m \in 1 .. M, m \in T PROVE m - 1 \in T
  <2>1. PICK f : f = [level \in 0 .. M |-> f[level]] /\ From(f, m)
    BY <1>3
  <2>2. PICK q \in 0 .. M : q = m - 1 /\ q + 1 = m /\ m \in 0 .. M
    OBVIOUS
  <2> DEFINE g == [level \in 0 .. M |-> IF level = q THEN KeepRow(q, f[q + 1]) ELSE f[level]]
  <2>3. g = [level \in 0 .. M |-> g[level]] /\ g[q] = KeepRow(q, f[q + 1])
    OBVIOUS
  <2>4. \A level \in 0 .. M : level # q => g[level] = f[level]
    OBVIOUS
  <2> HIDE DEF g
  <2>5. q + 1 # q /\ q + 1 \in 0 .. M
    BY <2>2
  <2>6. g[q + 1] = f[q + 1]
    BY <2>4, <2>5, Zenon
  <2>7. ASSUME NEW level \in 0 .. M, level >= q PROVE g[level] = KeepRow(level, g[level + 1])
    <3>1. CASE level = q
      BY <2>3, <2>6, <3>1, Zenon
    <3>2. CASE level # q /\ level # M
      <4>1. level >= m /\ level + 1 # q /\ level + 1 \in 0 .. M
        BY <2>2, <2>7, <3>2
      <4>2. f[level] = KeepRow(level, f[level + 1])
        BY <2>1, <4>1, Zenon
      <4>3. g[level] = f[level] /\ g[level + 1] = f[level + 1]
        BY <2>4, <3>2, <4>1, Zenon
      <4> QED  BY <4>2, <4>3, Zenon
    <3>3. CASE level # q /\ level = M
      <4>1. level >= m
        BY <2>2, <2>7, <3>3
      <4>2. f[level] = KeepRow(level, f[level + 1])
        BY <2>1, <4>1, Zenon
      <4>3. g[level] = f[level]
        BY <2>4, <3>3, Zenon
      <4>4. KeepRow(level, f[level + 1]) = KeepRow(level, g[level + 1])
        BY <1>1, <3>3, KeepEnd, Zenon
      <4> QED  BY <4>2, <4>3, <4>4, Zenon
    <3> QED  BY <3>1, <3>2, <3>3
  <2>8. From(g, q)
    BY <2>7, Zenon
  <2> HIDE DEF From
  <2> QED  BY <2>2, <2>3, <2>8, Zenon
<1>4. 0 \in T
  <2>1. \A m \in 1 .. M : m \in T => m - 1 \in T
    BY <1>3, Zenon
  <2>2. 0 \in 0 .. M
    OBVIOUS
  <2> HIDE DEF T
  <2>3. \A m \in 0 .. M : m \in T
    BY <1>2, <2>1, DownFrom
  <2> QED  BY <2>2, <2>3
<1>5. PICK f : f = [level \in 0 .. M |-> f[level]] /\ From(f, 0)
  BY <1>4
<1>6. \A level \in 0 .. M : f[level] = KeepRow(level, f[level + 1])
  <2>1. \A level \in 0 .. M : level >= 0
    OBVIOUS
  <2> QED  BY <1>5, <2>1, Zenon
<1>7. f = [level \in 0 .. M |-> KeepRow(level, f[level + 1])]
  <2>1. [level \in 0 .. M |-> f[level]] = [level \in 0 .. M |-> KeepRow(level, f[level + 1])]
    BY <1>6, Zenon
  <2> QED  BY <1>5, <2>1, Zenon
<1> QED  BY <1>1, <1>7, Zenon

\* What is left of a value at a level, from the level below it.
LEMMA KeepBy ==
  ASSUME NEW level \in 0 .. MaxNesting, NEW v \in Values
  PROVE  Keeping[level][v] = KeepType(v, level, Keeping[level + 1])
<1>1. Keeping = [l \in 0 .. MaxNesting |-> KeepRow(l, Keeping[l + 1])]
  <2> DEFINE d == CHOOSE f : f = [l \in 0 .. MaxNesting |-> KeepRow(l, f[l + 1])]
  <2>1. d = [l \in 0 .. MaxNesting |-> KeepRow(l, d[l + 1])]
    BY KeepRowsExist, Zenon
  <2>2. Keeping = d
    BY Zenon DEF Keeping, KeepRow
  <2> HIDE DEF d
  <2> QED  BY <2>1, <2>2, Zenon
<1>2. Keeping[level] = KeepRow(level, Keeping[level + 1])
  BY <1>1, Zenon
<1> QED  BY <1>2, Zenon DEF KeepRow

\* The recursion of Losing.
LEMMA LoseEnd ==
  ASSUME NEW f, NEW g
  PROVE  LoseRow(MaxNesting, f) = LoseRow(MaxNesting, g)
<1>1. ~(MaxNesting < MaxNesting)
  BY MsgPackAssumption
<1>2. \A v \in Values : LoseType(v, MaxNesting, f) = LoseType(v, MaxNesting, g)
  BY <1>1, Zenon DEF LoseType
<1> QED  BY <1>2, Zenon DEF LoseRow

\* So do the values that are refused.
LEMMA LoseRowsExist ==
  \E f : f = [level \in 0 .. MaxNesting |-> LoseRow(level, f[level + 1])]
<1>1. PICK M \in Nat : M = MaxNesting
  BY MsgPackAssumption
<1> DEFINE From(f, m) == \A level \in 0 .. M : level >= m => f[level] = LoseRow(level, f[level + 1])
           T == {m \in 0 .. M : \E f : f = [level \in 0 .. M |-> f[level]] /\ From(f, m)}
<1>2. M \in T
  <2> DEFINE f == [level \in 0 .. M |-> LoseRow(M, 0)]
  <2>1. f = [level \in 0 .. M |-> f[level]] /\ f[M] = LoseRow(M, 0)
    OBVIOUS
  <2> HIDE DEF f
  <2>2. f[M] = LoseRow(M, f[M + 1])
    BY <1>1, <2>1, LoseEnd, Zenon
  <2>3. \A level \in 0 .. M : level >= M => level = M
    OBVIOUS
  <2>4. From(f, M)
    BY <2>2, <2>3, Zenon
  <2>5. M \in 0 .. M
    OBVIOUS
  <2> HIDE DEF From
  <2> QED  BY <2>1, <2>4, <2>5
<1>3. ASSUME NEW m \in 1 .. M, m \in T PROVE m - 1 \in T
  <2>1. PICK f : f = [level \in 0 .. M |-> f[level]] /\ From(f, m)
    BY <1>3
  <2>2. PICK q \in 0 .. M : q = m - 1 /\ q + 1 = m /\ m \in 0 .. M
    OBVIOUS
  <2> DEFINE g == [level \in 0 .. M |-> IF level = q THEN LoseRow(q, f[q + 1]) ELSE f[level]]
  <2>3. g = [level \in 0 .. M |-> g[level]] /\ g[q] = LoseRow(q, f[q + 1])
    OBVIOUS
  <2>4. \A level \in 0 .. M : level # q => g[level] = f[level]
    OBVIOUS
  <2> HIDE DEF g
  <2>5. q + 1 # q /\ q + 1 \in 0 .. M
    BY <2>2
  <2>6. g[q + 1] = f[q + 1]
    BY <2>4, <2>5, Zenon
  <2>7. ASSUME NEW level \in 0 .. M, level >= q PROVE g[level] = LoseRow(level, g[level + 1])
    <3>1. CASE level = q
      BY <2>3, <2>6, <3>1, Zenon
    <3>2. CASE level # q /\ level # M
      <4>1. level >= m /\ level + 1 # q /\ level + 1 \in 0 .. M
        BY <2>2, <2>7, <3>2
      <4>2. f[level] = LoseRow(level, f[level + 1])
        BY <2>1, <4>1, Zenon
      <4>3. g[level] = f[level] /\ g[level + 1] = f[level + 1]
        BY <2>4, <3>2, <4>1, Zenon
      <4> QED  BY <4>2, <4>3, Zenon
    <3>3. CASE level # q /\ level = M
      <4>1. level >= m
        BY <2>2, <2>7, <3>3
      <4>2. f[level] = LoseRow(level, f[level + 1])
        BY <2>1, <4>1, Zenon
      <4>3. g[level] = f[level]
        BY <2>4, <3>3, Zenon
      <4>4. LoseRow(level, f[level + 1]) = LoseRow(level, g[level + 1])
        BY <1>1, <3>3, LoseEnd, Zenon
      <4> QED  BY <4>2, <4>3, <4>4, Zenon
    <3> QED  BY <3>1, <3>2, <3>3
  <2>8. From(g, q)
    BY <2>7, Zenon
  <2> HIDE DEF From
  <2> QED  BY <2>2, <2>3, <2>8, Zenon
<1>4. 0 \in T
  <2>1. \A m \in 1 .. M : m \in T => m - 1 \in T
    BY <1>3, Zenon
  <2>2. 0 \in 0 .. M
    OBVIOUS
  <2> HIDE DEF T
  <2>3. \A m \in 0 .. M : m \in T
    BY <1>2, <2>1, DownFrom
  <2> QED  BY <2>2, <2>3
<1>5. PICK f : f = [level \in 0 .. M |-> f[level]] /\ From(f, 0)
  BY <1>4
<1>6. \A level \in 0 .. M : f[level] = LoseRow(level, f[level + 1])
  <2>1. \A level \in 0 .. M : level >= 0
    OBVIOUS
  <2> QED  BY <1>5, <2>1, Zenon
<1>7. f = [level \in 0 .. M |-> LoseRow(level, f[level + 1])]
  <2>1. [level \in 0 .. M |-> f[level]] = [level \in 0 .. M |-> LoseRow(level, f[level + 1])]
    BY <1>6, Zenon
  <2> QED  BY <1>5, <2>1, Zenon
<1> QED  BY <1>1, <1>7, Zenon

\* Which values are refused at a level, from the level below it.
LEMMA LoseBy ==
  ASSUME NEW level \in 0 .. MaxNesting, NEW v \in Values
  PROVE  Losing[level][v] = LoseType(v, level, Losing[level + 1])
<1>1. Losing = [l \in 0 .. MaxNesting |-> LoseRow(l, Losing[l + 1])]
  <2> DEFINE d == CHOOSE f : f = [l \in 0 .. MaxNesting |-> LoseRow(l, f[l + 1])]
  <2>1. d = [l \in 0 .. MaxNesting |-> LoseRow(l, d[l + 1])]
    BY LoseRowsExist, Zenon
  <2>2. Losing = d
    BY Zenon DEF Losing, LoseRow
  <2> HIDE DEF d
  <2> QED  BY <2>1, <2>2, Zenon
<1>2. Losing[level] = LoseRow(level, Losing[level + 1])
  BY <1>1, Zenon
<1> QED  BY <1>2, Zenon DEF LoseRow

-----------------------------------------------------------------------------
(* What values are encoded to.                                             *)

\* A value by its type.
LEMMA ValueShape ==
  ASSUME NEW v \in Values
  PROVE  \/ v = Nil \/ v = Function
         \/ v.t = "boolean" /\ v.b \in BOOLEAN /\ v = Bool(v.b)
         \/ v.t = "float" /\ v.w \in {4, 8} /\ v = Float(v.w)
         \/ v.t = "integer" /\ v.n \in -(Pow(8) \div 2) .. Pow(8) \div 2 - 1 /\ v = Number(v.n)
         \/ v.t = "string" /\ v.s \in Seq({"byte"} \X (0 .. Base - 1)) /\ Len(v.s) < Pow(4) /\ v = Str(v.s)
         \/ /\ v.t = "table" /\ v = Table(v.kv)
            /\ v.kv \in Seq((Values \ {Nil}) \X (Values \ {Nil})) /\ Len(v.kv) < Pow(4)
            /\ \A i, j \in DOMAIN v.kv :
                 i # j /\ v.kv[i][1].t \in {"integer", "string", "boolean"} => v.kv[i][1] # v.kv[j][1]
<1>1. IsLuaValue(v)
  BY ValuesAssumption
<1>2. CASE v \in {Nil, Function, Bool(TRUE), Bool(FALSE), Float(4), Float(8)}
  <2>1. CASE v = Nil \/ v = Function
    BY <2>1
  <2>2. CASE v = Bool(TRUE) \/ v = Bool(FALSE)
    <3>1. PICK x \in BOOLEAN : v = Bool(x)
      BY <2>2
    <3>2. v.t = "boolean" /\ v.b = x
      BY <3>1 DEF Bool
    <3> QED  BY <3>1, <3>2, Zenon
  <2>3. CASE v = Float(4) \/ v = Float(8)
    BY <2>3 DEF Float
  <2> QED  BY <1>2, <2>1, <2>2, <2>3, Zenon
<1>3. CASE v \in [t: {"integer"}, n: -(Pow(8) \div 2) .. Pow(8) \div 2 - 1]
  BY <1>3 DEF Number
<1>4. CASE v \in [t: {"string"}, s: Seq({"byte"} \X (0 .. Base - 1))] /\ Len(v.s) < Pow(4)
  BY <1>4 DEF Str
<1>5. CASE /\ v \in [t: {"table"}, kv: Seq((Values \ {Nil}) \X (Values \ {Nil}))] /\ Len(v.kv) < Pow(4)
           /\ \A i, j \in DOMAIN v.kv :
                i # j /\ v.kv[i][1].t \in {"integer", "string", "boolean"} => v.kv[i][1] # v.kv[j][1]
  BY <1>5 DEF Table
<1> QED  BY <1>1, <1>2, <1>3, <1>4, <1>5, Zenon DEF IsLuaValue

\* The entries of a table are values.
LEMMA TableParts ==
  ASSUME NEW v \in Values, v.t = "table"
  PROVE  /\ v = Table(v.kv) /\ v.kv \in Seq((Values \ {Nil}) \X (Values \ {Nil}))
         /\ Len(v.kv) < Pow(4) /\ Len(v.kv) \in Nat /\ DOMAIN v.kv = 1 .. Len(v.kv)
         /\ \A j \in DOMAIN v.kv : v.kv[j][1] \in Values \ {Nil} /\ v.kv[j][2] \in Values \ {Nil}
         /\ \A i, j \in DOMAIN v.kv :
              i # j /\ v.kv[i][1].t \in {"integer", "string", "boolean"} => v.kv[i][1] # v.kv[j][1]
         /\ \A j : Entry(v.kv, j) \in Values
<1>1. /\ v = Table(v.kv) /\ v.kv \in Seq((Values \ {Nil}) \X (Values \ {Nil})) /\ Len(v.kv) < Pow(4)
      /\ \A i, j \in DOMAIN v.kv :
           i # j /\ v.kv[i][1].t \in {"integer", "string", "boolean"} => v.kv[i][1] # v.kv[j][1]
  BY ValueShape DEF Nil, Function
<1>2. PICK kv : kv = v.kv
  OBVIOUS
<1>3. kv \in Seq((Values \ {Nil}) \X (Values \ {Nil}))
  BY <1>1, <1>2
<1>4. Len(kv) \in Nat /\ DOMAIN kv = 1 .. Len(kv)
  BY <1>3
<1>5. \A j \in DOMAIN kv : kv[j][1] \in Values \ {Nil} /\ kv[j][2] \in Values \ {Nil}
  BY <1>3
<1>6. ASSUME NEW j PROVE Entry(kv, j) \in Values
  <2>1. CASE \E x \in DOMAIN kv : kv[x][1] = Number(j)
    <3>1. PICK x : x = CHOOSE y \in DOMAIN kv : kv[y][1] = Number(j)
      OBVIOUS
    <3>2. x \in DOMAIN kv
      BY <2>1, <3>1, Zenon
    <3>3. Entry(kv, j) = kv[x][2]
      BY <2>1, <3>1, Zenon DEF Entry
    <3> QED  BY <1>5, <3>2, <3>3
  <2>2. CASE ~\E x \in DOMAIN kv : kv[x][1] = Number(j)
    <3>1. Entry(kv, j) = Nil
      BY <2>2, Zenon DEF Entry
    <3> QED  BY <3>1, ValuesAssumption
  <2> QED  BY <2>1, <2>2
<1> QED  BY <1>1, <1>2, <1>4, <1>5, <1>6, Zenon

\* How mp_encode_array and mp_encode_map begin.
LEMMA LenCoded ==
  ASSUME NEW n \in Nat, n < Pow(4)
  PROVE  /\ \E k \in {"array", "dc", "dd"} :
              EncodeArray(n) = Coded(k, n) /\ (Width(k) # 0 => n < Pow(Width(k)))
         /\ \E k \in {"map", "de", "df"} :
              EncodeMap(n) = Coded(k, n) /\ (Width(k) # 0 => n < Pow(Width(k)))
<1>1. Width("array") = 0 /\ Width("map") = 0 /\ Width("dc") = 2 /\ Width("dd") = 4
      /\ Width("de") = 2 /\ Width("df") = 4
  BY DEF Width
<1>2. EncodeArray(n) = Coded(IF n <= FixLen THEN "array" ELSE IF n <= Pow(2) - 1 THEN "dc" ELSE "dd", n)
  BY Zenon DEF EncodeArray, EncodeLen
<1>3. EncodeMap(n) = Coded(IF n <= FixLen THEN "map" ELSE IF n <= Pow(2) - 1 THEN "de" ELSE "df", n)
  BY Zenon DEF EncodeMap, EncodeLen
<1>4. CASE n <= FixLen
  BY <1>1, <1>2, <1>3, <1>4, Zenon
<1>5. CASE ~(n <= FixLen) /\ n <= Pow(2) - 1
  <2>1. n < Pow(2)
    BY <1>5, Powers
  <2> QED  BY <1>1, <1>2, <1>3, <1>5, <2>1, Zenon
<1>6. CASE ~(n <= FixLen) /\ ~(n <= Pow(2) - 1)
  BY <1>1, <1>2, <1>3, <1>6, Zenon
<1> QED  BY <1>4, <1>5, <1>6

\* How mp_encode_bytes begins.
LEMMA BytesCoded ==
  ASSUME NEW x, Len(x) \in Nat, Len(x) < Pow(4)
  PROVE  \E k \in {"raw", "d9", "da", "db"} :
           EncodeBytes(x) = <<Coded(k, Len(x)), x>> /\ (Width(k) # 0 => Len(x) < Pow(Width(k)))
<1>1. Width("raw") = 0 /\ Width("d9") = 1 /\ Width("da") = 2 /\ Width("db") = 4
  BY DEF Width
<1>2. PICK n \in Nat : n = Len(x) /\ n < Pow(4)
  OBVIOUS
<1>3. PICK k : k = CASE n < FixRaw -> "raw"
                     [] n \in FixRaw .. Base - 1 -> "d9"
                     [] n \in Base .. Pow(2) - 1 -> "da"
                     [] OTHER -> "db"
  OBVIOUS
<1>4. EncodeBytes(x) = <<Coded(k, Len(x)), x>>
  BY <1>2, <1>3, Zenon DEF EncodeBytes
<1>5. k \in {"raw", "d9", "da", "db"} /\ (k = "d9" => n < Pow(1)) /\ (k = "da" => n < Pow(2))
  <2>1. Pow(1) = Base /\ Base \in Nat /\ Pow(2) \in Nat /\ FixRaw \in 0 .. Base
    BY Powers, MsgPackAssumption
  <2>2. PICK p \in Nat : p = Pow(2)
    BY <2>1
  <2>3. CASE n < FixRaw
    <3>1. k = "raw"
      BY <1>3, <2>1, <2>3
    <3> QED  BY <3>1
  <2>4. CASE ~(n < FixRaw) /\ n \in FixRaw .. Base - 1
    <3>1. k = "d9"
      BY <1>3, <2>1, <2>4
    <3> QED  BY <2>1, <2>4, <3>1
  <2>5. CASE ~(n < FixRaw) /\ n \notin FixRaw .. Base - 1 /\ n \in Base .. p - 1
    <3>1. k = "da"
      BY <1>3, <2>1, <2>2, <2>5
    <3> QED  BY <2>1, <2>2, <2>5, <3>1
  <2>6. CASE ~(n < FixRaw) /\ n \notin FixRaw .. Base - 1 /\ n \notin Base .. p - 1
    BY <1>3, <2>2, <2>6
  <2> QED  BY <2>3, <2>4, <2>5, <2>6
<1>6. Width(k) # 0 => n < Pow(Width(k))
  <2>1. CASE k = "raw"
    BY <1>1, <2>1
  <2>2. CASE k = "d9"
    BY <1>1, <1>5, <2>2
  <2>3. CASE k = "da"
    BY <1>1, <1>5, <2>3
  <2>4. CASE k = "db"
    BY <1>1, <1>2, <2>4
  <2> QED  BY <1>5, <2>1, <2>2, <2>3, <2>4
<1> QED  BY <1>2, <1>4, <1>5, <1>6, Zenon

\* The numbers that a form of mp_encode_int is for.
IntForm(n, k) ==
  \/ n \in 0 .. FixPos /\ k = "fix+"
  \/ n \in 0 .. Pow(1) - 1 /\ k = "cc"
  \/ n \in 0 .. Pow(2) - 1 /\ k = "cd"
  \/ n \in 0 .. Pow(4) - 1 /\ k = "ce"
  \/ n >= Pow(4) /\ k = "cf"
  \/ n \in -FixNeg .. -1 /\ k = "fix-"
  \/ n \in -(Pow(1) \div 2) .. -1 /\ n \notin -FixNeg .. -1 /\ k = "d0"
  \/ n \in -(Pow(2) \div 2) .. -1 /\ n \notin -FixNeg .. -1 /\ k = "d1"
  \/ n \in -(Pow(4) \div 2) .. -1 /\ n \notin -FixNeg .. -1 /\ k = "d2"
  \/ n < 0 /\ n \notin -FixNeg .. -1 /\ k = "d3"

\* The ranges of lencode_int leave no integer without a form.
LEMMA IntKindIs ==
  ASSUME NEW n \in Int
  PROVE  IntForm(n, IntKind(n))
<1>1. PICK b \in Nat, p \in Nat, q \in Nat :
        /\ b = Base /\ b = Pow(1) /\ p = Pow(2) /\ q = Pow(4) /\ b > 1 /\ b < p /\ p < q
  BY Powers
<1>2. PICK f \in Nat, g \in Nat : f = FixPos /\ g = FixNeg /\ f <= b - 1 /\ g <= b \div 2
  BY <1>1, MsgPackAssumption
<1>3. PICK x \in Nat, y \in Nat, z \in Nat :
        x = b \div 2 /\ y = p \div 2 /\ z = q \div 2 /\ x <= y /\ y <= z
  <2>1. b \div 2 \in Nat /\ p \div 2 \in Nat /\ q \div 2 \in Nat /\ b \div 2 <= p \div 2 /\ p \div 2 <= q \div 2
    BY <1>1
  <2> QED  BY <2>1
<1>4. PICK k : k = IntKind(n)
  OBVIOUS
<1> SUFFICES IntForm(n, k)
  BY <1>4, Zenon
<1> USE DEF IntForm
<1>5. k = CASE n \in 0 .. f -> "fix+"
            [] n \in f + 1 .. b - 1 -> "cc"
            [] n \in b .. p - 1 -> "cd"
            [] n \in p .. q - 1 -> "ce"
            [] n >= q -> "cf"
            [] n \in -g .. -1 -> "fix-"
            [] n \in -x .. -g - 1 -> "d0"
            [] n \in -y .. -x - 1 -> "d1"
            [] n \in -z .. -y - 1 -> "d2"
            [] OTHER -> "d3"
  BY <1>1, <1>2, <1>3, <1>4, Zenon DEF IntKind
<1>6. g <= x
  BY <1>2, <1>3
<1>7. CASE n \in 0 .. f
  BY <1>1, <1>2, <1>3, <1>5, <1>6, <1>7, <1>4
<1>8. CASE n \in f + 1 .. b - 1
  <2>1. k = "cc"
    BY <1>1, <1>2, <1>3, <1>5, <1>6, <1>8
  <2> QED  BY <1>1, <1>2, <1>4, <1>8, <2>1
<1>9. CASE n \in b .. p - 1
  <2>1. k = "cd"
    BY <1>1, <1>2, <1>3, <1>5, <1>6, <1>9
  <2> QED  BY <1>1, <1>2, <1>4, <1>9, <2>1
<1>10. CASE n \in p .. q - 1
  <2>1. k = "ce"
    BY <1>1, <1>2, <1>3, <1>5, <1>6, <1>10
  <2> QED  BY <1>1, <1>2, <1>4, <1>10, <2>1
<1>11. CASE n >= q
  <2>1. k = "cf"
    BY <1>1, <1>2, <1>3, <1>5, <1>6, <1>11
  <2> QED  BY <1>1, <1>4, <1>11, <2>1
<1>12. CASE n \in -g .. -1
  <2>1. k = "fix-"
    BY <1>1, <1>2, <1>3, <1>5, <1>6, <1>12
  <2> QED  BY <1>2, <1>4, <1>12, <2>1
<1>13. CASE n \in -x .. -g - 1
  <2>1. k = "d0"
    BY <1>1, <1>2, <1>3, <1>5, <1>6, <1>13
  <2>2. n \in -x .. -1 /\ n \notin -g .. -1
    BY <1>13
  <2> QED  BY <1>1, <1>2, <1>3, <1>4, <2>1, <2>2, Zenon
<1>14. CASE n \in -y .. -x - 1
  <2>1. k = "d1"
    BY <1>1, <1>2, <1>3, <1>5, <1>6, <1>14
  <2>2. n \in -y .. -1 /\ n \notin -g .. -1
    BY <1>6, <1>14
  <2> QED  BY <1>1, <1>2, <1>3, <1>4, <2>1, <2>2, Zenon
<1>15. CASE n \in -z .. -y - 1
  <2>1. k = "d2"
    BY <1>1, <1>2, <1>3, <1>5, <1>6, <1>15
  <2>2. n \in -z .. -1 /\ n \notin -g .. -1
    BY <1>3, <1>6, <1>15
  <2> QED  BY <1>1, <1>2, <1>3, <1>4, <2>1, <2>2, Zenon
<1>16. CASE n < -z
  <2>1. k = "d3"
    BY <1>1, <1>2, <1>3, <1>5, <1>6, <1>16
  <2>2. n < 0 /\ n \notin -g .. -1
    BY <1>3, <1>6, <1>16
  <2> QED  BY <1>2, <1>4, <2>1, <2>2, Zenon
<1> QED
  <2>1. \/ n \in 0 .. f \/ n \in f + 1 .. b - 1 \/ n \in b .. p - 1 \/ n \in p .. q - 1 \/ n >= q
        \/ n \in -g .. -1 \/ n \in -x .. -g - 1 \/ n \in -y .. -x - 1 \/ n \in -z .. -y - 1 \/ n < -z
    BY <1>1, <1>2, <1>3, <1>6
  <2> QED  BY <2>1, <1>7, <1>8, <1>9, <1>10, <1>11, <1>12, <1>13, <1>14, <1>15, <1>16, Zenon

\* A number within its range is its own remainder.
LEMMA SmallMod == \A p \in Nat : p > 0 => \A n \in 0 .. p - 1 : n % p = n
BY SMT

\* A negative number from its lowest bytes.
LEMMA SignedRead ==
  ASSUME NEW w \in {1, 2, 4, 8}, NEW n \in -(Pow(w) \div 2) .. -1
  PROVE  Signed(n % Pow(w), w) = n
<1>1. PICK p \in Nat : p = Pow(w) /\ p > 1
  BY Powers
<1>2. PICK h \in Nat : h = p \div 2 /\ 2 * h <= p
  <2>1. p \div 2 \in Nat /\ 2 * (p \div 2) <= p
    OBVIOUS
  <2> QED  BY <2>1
<1>3. n \in -h .. -1
  BY <1>1, <1>2, Zenon
<1>4. n % p = n + p
  <2>1. n + p \in 0 .. p - 1 /\ n = p * (-1) + (n + p)
    BY <1>2, <1>3
  <2>2. \A a \in Int, r \in 0 .. p - 1, m \in Int : m = p * a + r => m % p = r
    BY <1>1, ModIs
  <2>3. n \in Int /\ -1 \in Int
    BY <1>3
  <2> QED  BY <2>1, <2>2, <2>3, Zenon
<1>5. ~(n + p < h) /\ (n + p) - p = n
  BY <1>2, <1>3
<1>6. Signed(n % Pow(w), w) = IF n + p < h THEN n + p ELSE (n + p) - p
  BY <1>1, <1>2, <1>4, Zenon DEF Signed
<1> QED  BY <1>5, <1>6

\* What a first byte k and its number m are decoded to is v, with nothing behind them.
Holds(k, m, v) ==
  \A s, o, loop : DecodeCase(s, k, IF Width(k) = 0 THEN m ELSE m % Pow(Width(k)), o, loop) = Got(v, o)

\* Decoding of the forms for integers.
LEMMA IntCases ==
  ASSUME NEW s, NEW x, NEW o, NEW loop
  PROVE  /\ \A k \in {"fix+", "cc", "cd", "ce", "cf"} : DecodeCase(s, k, x, o, loop) = Got(Number(x), o)
         /\ \A k \in {"d0", "d1", "d2", "d3"} : DecodeCase(s, k, x, o, loop) = Got(Number(Signed(x, Width(k))), o)
         /\ DecodeCase(s, "fix-", x, o, loop) = Got(Number(Signed(x, 1)), o)
<1>1. ASSUME NEW k \in {"fix+", "cc", "cd", "ce", "cf"} PROVE DecodeCase(s, k, x, o, loop) = Got(Number(x), o)
  BY DEF DecodeCase
<1>2. ASSUME NEW k \in {"d0", "d1", "d2", "d3"}
      PROVE  DecodeCase(s, k, x, o, loop) = Got(Number(Signed(x, Width(k))), o)
  BY DEF DecodeCase
<1>3. DecodeCase(s, "fix-", x, o, loop) = Got(Number(Signed(x, 1)), o)
  BY DEF DecodeCase
<1> QED  BY <1>1, <1>2, <1>3

\* Every Lua integer is written in a form from which it is read.
LEMMA IntCoded ==
  ASSUME NEW n \in -(Pow(8) \div 2) .. Pow(8) \div 2 - 1
  PROVE  \E k \in Kinds, m \in Int :
           EncodeInt(n) = Coded(k, m) /\ (Width(k) = 0 => m \in Nat) /\ Holds(k, m, Number(n))
<1>1. n \in Int
  OBVIOUS
<1>2. PICK k : k = IntKind(n)
  OBVIOUS
<1>3. EncodeInt(n) = Coded(k, IF n \in -FixNeg .. -1 THEN n % Base ELSE n)
  BY <1>2, Zenon DEF EncodeInt
<1>4. PICK w : w = Width(k)
  OBVIOUS
<1>5. IntForm(n, k)
  BY <1>1, <1>2, IntKindIs, Zenon
<1>8. FixPos < Base /\ FixNeg \in 0 .. Base \div 2 /\ Base = Pow(1) /\ Base \in Nat /\ Base > 1
  BY Powers, MsgPackAssumption
<1>9. CASE k \in {"fix+", "cc", "cd", "ce", "cf"}
  <2>1. n >= 0 /\ k \in Kinds /\ (w = 0 \/ (w \in {1, 2, 4, 8} /\ n < Pow(w)))
    <3>1. Width("fix+") = 0 /\ Width("cc") = 1 /\ Width("cd") = 2 /\ Width("ce") = 4 /\ Width("cf") = 8
      BY DEF Width
    <3>2. PICK p \in Nat : p = Pow(8)
      BY Powers
    <3>3. n < Pow(8)
      <4>1. n \in -(p \div 2) .. p \div 2 - 1
        BY <3>2, Zenon
      <4> QED  BY <3>2, <4>1
    <3>0. Pow(1) \in Nat /\ Pow(2) \in Nat /\ Pow(4) \in Nat /\ FixPos \in Nat
      BY Powers, MsgPackAssumption
    <3>4. CASE k = "fix+"
      <4>1. n \in 0 .. FixPos
        BY <1>5, <3>4 DEF IntForm
      <4>2. n >= 0
        BY <3>0, <4>1
      <4>3. w = 0
        BY <1>4, <3>1, <3>4, Zenon
      <4>4. k \in Kinds
        BY <3>4 DEF Kinds
      <4> QED  BY <4>2, <4>3, <4>4
    <3>5. CASE k = "cc"
      <4>1. n \in 0 .. Pow(1) - 1
        BY <1>5, <3>5 DEF IntForm
      <4>2. n >= 0 /\ n < Pow(1)
        BY <3>0, <4>1
      <4> QED  BY <1>4, <3>1, <3>5, <4>2 DEF Kinds
    <3>6. CASE k = "cd"
      <4>1. n \in 0 .. Pow(2) - 1
        BY <1>5, <3>6 DEF IntForm
      <4>2. n >= 0 /\ n < Pow(2)
        BY <3>0, <4>1
      <4> QED  BY <1>4, <3>1, <3>6, <4>2 DEF Kinds
    <3>7. CASE k = "ce"
      <4>1. n \in 0 .. Pow(4) - 1
        BY <1>5, <3>7 DEF IntForm
      <4>2. n >= 0 /\ n < Pow(4)
        BY <3>0, <4>1
      <4> QED  BY <1>4, <3>1, <3>7, <4>2 DEF Kinds
    <3>8. CASE k = "cf"
      <4>1. n >= Pow(4) /\ Pow(4) \in Nat
        BY <1>5, <3>8, Powers DEF IntForm
      <4> QED  BY <1>4, <3>1, <3>3, <3>8, <4>1 DEF Kinds
    <3> QED  BY <1>9, <3>4, <3>5, <3>6, <3>7, <3>8
  <2>2. n \notin -FixNeg .. -1
    BY <1>8, <2>1
  <2>3. (IF w = 0 THEN n ELSE n % Pow(w)) = n
    <3>1. ASSUME w # 0 PROVE n % Pow(w) = n
      <4>1. PICK p \in Nat : p = Pow(w) /\ p > 0
        BY <2>1, <3>1, Powers
      <4>2. n \in 0 .. p - 1
        BY <2>1, <3>1, <4>1
      <4> QED  BY <4>1, <4>2, SmallMod, Zenon
    <3> QED  BY <3>1, Zenon
  <2>4. Holds(k, n, Number(n))
    <3>1. \A s, o, loop : DecodeCase(s, k, n, o, loop) = Got(Number(n), o)
      BY <1>9, IntCases
    <3> QED  BY <1>4, <2>3, <3>1, Zenon DEF Holds
  <2>5. EncodeInt(n) = Coded(k, n) /\ n \in Nat
    BY <1>3, <2>1, <2>2
  <2> QED  BY <1>1, <2>1, <2>4, <2>5
<1>10. CASE k \in {"d0", "d1", "d2", "d3"}
  <2>1. k \in Kinds /\ n \notin -FixNeg .. -1 /\ w \in {1, 2, 4, 8} /\ n \in -(Pow(w) \div 2) .. -1
    <3>1. Width("d0") = 1 /\ Width("d1") = 2 /\ Width("d2") = 4 /\ Width("d3") = 8
      BY DEF Width
    <3>2. PICK h : h = Pow(8) \div 2
      OBVIOUS
    <3>3. CASE k = "d0"
      BY <1>4, <1>5, <3>1, <3>3 DEF Kinds, IntForm
    <3>4. CASE k = "d1"
      BY <1>4, <1>5, <3>1, <3>4, <1>8 DEF Kinds, IntForm
    <3>5. CASE k = "d2"
      BY <1>4, <1>5, <3>1, <3>5 DEF Kinds, IntForm
    <3>6. CASE k = "d3"
      <4>1. n < 0 /\ n \notin -FixNeg .. -1
        BY <1>5, <3>6 DEF IntForm
      <4>2. n \in -(Pow(8) \div 2) .. -1
        <5>1. PICK p \in Nat : p = Pow(8)
          BY Powers
        <5>2. n \in -(p \div 2) .. p \div 2 - 1
          BY <5>1, Zenon
        <5>3. n \in -(p \div 2) .. -1
          BY <4>1, <5>2
        <5> QED  BY <5>1, <5>3, Zenon
      <4> QED  BY <1>4, <3>1, <3>6, <4>1, <4>2 DEF Kinds
    <3> QED  BY <1>10, <3>3, <3>4, <3>5, <3>6
  <2>2. Signed(n % Pow(w), w) = n
    BY <2>1, SignedRead
  <2>3. w # 0
    BY <2>1
  <2>4. Holds(k, n, Number(n))
    <3>1. PICK x : x = n % Pow(w)
      OBVIOUS
    <3>2. \A s, o, loop : DecodeCase(s, k, x, o, loop) = Got(Number(Signed(x, w)), o)
      BY <1>4, <1>10, IntCases
    <3> QED  BY <1>4, <2>2, <2>3, <3>1, <3>2, Zenon DEF Holds
  <2>5. EncodeInt(n) = Coded(k, n)
    BY <1>3, <2>1, Zenon
  <2> QED  BY <1>1, <1>4, <2>1, <2>3, <2>4, <2>5
<1>11. CASE k = "fix-"
  <2>1. n \in -FixNeg .. -1 /\ Width(k) = 0 /\ k \in Kinds
    BY <1>5, <1>11 DEF Width, Kinds, IntForm
  <2>2. n % Base \in Nat /\ n % Base \in Int
    <3>1. n % Base \in 0 .. Base - 1
      BY <1>1, <1>8, DivMod
    <3> QED  BY <3>1
  <2>3. Signed(n % Base, 1) = n
    <3>1. n \in -(Base \div 2) .. -1 /\ 1 \in {1, 2, 4, 8}
      BY <1>8, <2>1
    <3>2. n \in -(Pow(1) \div 2) .. -1
      BY <1>8, <3>1, Zenon
    <3>3. Signed(n % Pow(1), 1) = n
      BY <3>1, <3>2, SignedRead
    <3> QED  BY <1>8, <3>3, Zenon
  <2>4. Holds(k, n % Base, Number(n))
    <3>1. PICK x : x = n % Base
      OBVIOUS
    <3>2. \A s, o, loop : DecodeCase(s, k, x, o, loop) = Got(Number(Signed(x, 1)), o)
      BY <1>11, IntCases
    <3> QED  BY <2>1, <2>3, <3>1, <3>2, Zenon DEF Holds
  <2>5. EncodeInt(n) = Coded(k, n % Base)
    BY <1>3, <2>1, Zenon
  <2> QED  BY <2>1, <2>2, <2>4, <2>5
<1>12. k \in {"fix+", "cc", "cd", "ce", "cf", "d0", "d1", "d2", "d3", "fix-"}
  BY <1>5 DEF IntForm
<1> QED  BY <1>9, <1>10, <1>11, <1>12

\* Decoding of the forms without a length.
LEMMA PlainCases ==
  /\ \A s, n, o, loop : DecodeCase(s, "c0", n, o, loop) = Got(Nil, o)
  /\ \A s, n, o, loop : DecodeCase(s, "c2", n, o, loop) = Got(Bool("c2" = "c3"), o)
  /\ \A s, n, o, loop : DecodeCase(s, "c3", n, o, loop) = Got(Bool("c3" = "c3"), o)
  /\ \A s, n, o, loop : DecodeCase(s, "ca", n, o, loop) = Got(Float(Width("ca")), o)
  /\ \A s, n, o, loop : DecodeCase(s, "cb", n, o, loop) = Got(Float(Width("cb")), o)
<1>1. \A s, n, o, loop : DecodeCase(s, "c0", n, o, loop) = Got(Nil, o)
  BY DEF DecodeCase
<1>2. \A s, n, o, loop : DecodeCase(s, "c2", n, o, loop) = Got(Bool("c2" = "c3"), o)
  BY DEF DecodeCase
<1>3. \A s, n, o, loop : DecodeCase(s, "c3", n, o, loop) = Got(Bool("c3" = "c3"), o)
  BY DEF DecodeCase
<1>4. \A s, n, o, loop : DecodeCase(s, "ca", n, o, loop) = Got(Float(Width("ca")), o)
  BY DEF DecodeCase
<1>5. \A s, n, o, loop : DecodeCase(s, "cb", n, o, loop) = Got(Float(Width("cb")), o)
  BY DEF DecodeCase
<1> QED  BY <1>1, <1>2, <1>3, <1>4, <1>5, Zenon

\* What a first byte alone decides: the code of a value that has no other values in it.
LEMMA ScalarCode ==
  ASSUME NEW v \in Values, NEW level, v.t # "string", v.t = "table" => level = MaxNesting, NEW f, NEW g
  PROVE  \E k \in Kinds, m \in Int :
           EncodeType(v, level, f) = <<Coded(k, m)>> /\ (Width(k) = 0 => m \in Nat)
             /\ Holds(k, m, KeepType(v, level, g))
<1>1. CASE v.t = "integer"
  <2>1. v.n \in -(Pow(8) \div 2) .. Pow(8) \div 2 - 1 /\ v = Number(v.n)
    BY <1>1, ValueShape DEF Nil, Function
  <2>2. EncodeType(v, level, f) = <<EncodeInt(v.n)>> /\ KeepType(v, level, g) = Number(v.n)
    BY <1>1, <2>1 DEF EncodeType, KeepType
  <2>3. \E k \in Kinds, m \in Int :
           EncodeInt(v.n) = Coded(k, m) /\ (Width(k) = 0 => m \in Nat) /\ Holds(k, m, Number(v.n))
    BY <2>1, IntCoded
  <2> QED  BY <2>2, <2>3, Zenon
<1>2. CASE v.t = "boolean"
  <2>1. v.b \in BOOLEAN /\ v = Bool(v.b)
    BY <1>2, ValueShape DEF Nil, Function
  <2>2. "c2" \in Kinds /\ "c3" \in Kinds /\ Width("c2") = 0 /\ Width("c3") = 0
    BY DEF Kinds, Width
  <2>3. CASE v.b = TRUE
    <3>1. EncodeType(v, level, f) = <<Coded("c3", 0)>> /\ KeepType(v, level, g) = Bool("c3" = "c3")
      BY <1>2, <2>1, <2>3 DEF EncodeType, KeepType
    <3>2. Holds("c3", 0, Bool("c3" = "c3"))
      <4>1. PICK y : y = Bool("c3" = "c3")
        OBVIOUS
      <4>2. \A s, n, o, loop : DecodeCase(s, "c3", n, o, loop) = Got(y, o)
        BY <4>1, PlainCases
      <4>3. Holds("c3", 0, y)
        BY <2>2, <4>2, Zenon DEF Holds
      <4> QED  BY <4>1, <4>3
    <3> QED  BY <2>2, <3>1, <3>2
  <2>4. CASE v.b = FALSE
    <3>1. EncodeType(v, level, f) = <<Coded("c2", 0)>>
      BY <1>2, <2>4 DEF EncodeType
    <3>2. KeepType(v, level, g) = Bool("c2" = "c3")
      <4>1. KeepType(v, level, g) = v
        BY <1>2 DEF KeepType
      <4>2. v = Bool(FALSE)
        BY <2>1, <2>4, Zenon
      <4>3. ("c2" = "c3") = FALSE
        OBVIOUS
      <4> QED  BY <4>1, <4>2, <4>3, Zenon
    <3>3. Holds("c2", 0, Bool("c2" = "c3"))
      <4>1. \A s, n, o, loop : DecodeCase(s, "c2", n, o, loop) = Got(Bool("c2" = "c3"), o)
        BY PlainCases
      <4> QED  BY <2>2, <4>1, Zenon DEF Holds
    <3> QED  BY <2>2, <3>1, <3>2, <3>3
  <2> QED  BY <2>1, <2>3, <2>4
<1>3. CASE v.t = "float"
  <2>1. v.w \in {4, 8} /\ v = Float(v.w)
    BY <1>3, ValueShape DEF Nil, Function
  <2>2. PICK k : k = IF v.w = 4 THEN "ca" ELSE "cb"
    OBVIOUS
  <2>3. EncodeType(v, level, f) = <<Coded(k, 0)>>
    BY <1>3, <2>2 DEF EncodeType
  <2>4. KeepType(v, level, g) = Float(v.w)
    BY <1>3, <2>1 DEF KeepType
  <2>5. k \in Kinds /\ Width(k) = v.w /\ v.w # 0 /\ k \in {"ca", "cb"}
    BY <2>1, <2>2 DEF Kinds, Width
  <2>6. Holds(k, 0, Float(v.w))
    <3>1. \A s, n, o, loop : DecodeCase(s, k, n, o, loop) = Got(Float(Width(k)), o)
      <4>1. CASE k = "ca"
        <5>1. \A s, n, o, loop : DecodeCase(s, "ca", n, o, loop) = Got(Float(Width("ca")), o)
          BY PlainCases
        <5> QED  BY <4>1, <5>1, Zenon
      <4>2. CASE k = "cb"
        <5>1. \A s, n, o, loop : DecodeCase(s, "cb", n, o, loop) = Got(Float(Width("cb")), o)
          BY PlainCases
        <5> QED  BY <4>2, <5>1, Zenon
      <4> QED  BY <2>5, <4>1, <4>2, Zenon
    <3> QED  BY <2>5, <3>1, Zenon DEF Holds
  <2> QED  BY <2>3, <2>4, <2>5, <2>6
<1>4. CASE v = Nil \/ v = Function \/ v.t = "table"
  <2>1. EncodeType(v, level, f) = <<Coded("c0", 0)>> /\ KeepType(v, level, g) = Nil
    <3>1. CASE v = Nil
      BY <3>1 DEF EncodeType, KeepType, Nil
    <3>2. CASE v = Function
      BY <3>2 DEF EncodeType, KeepType, Nil, Function
    <3>3. CASE v.t = "table"
      <4>1. ~(level < MaxNesting)
        BY <3>3, MsgPackAssumption
      <4> QED  BY <3>3, <4>1 DEF EncodeType, KeepType
    <3> QED  BY <1>4, <3>1, <3>2, <3>3
  <2>2. "c0" \in Kinds /\ Width("c0") = 0
    BY DEF Kinds, Width
  <2>3. Holds("c0", 0, Nil)
    <3>1. \A s, n, o, loop : DecodeCase(s, "c0", n, o, loop) = Got(Nil, o)
      BY PlainCases, Zenon
    <3> QED  BY <3>1, Zenon DEF Holds
  <2> QED  BY <2>1, <2>2, <2>3
<1> QED
  <2>1. v.t = "integer" \/ v.t = "boolean" \/ v.t = "float" \/ v = Nil \/ v = Function \/ v.t = "table"
    BY ValueShape, Zenon
  <2> QED  BY <2>1, <1>1, <1>2, <1>3, <1>4, Zenon

\* Bytes are symbols of a payload.
LEMMA BytesAreSymbols == \A x : x \in Seq({"byte"} \X (0 .. Base - 1)) => x \in Seq(Symbols)
<1>1. ({"byte"} \X (0 .. Base - 1)) \subseteq Symbols
  BY DEF Symbols
<1>2. PICK B : B = {"byte"} \X (0 .. Base - 1)
  OBVIOUS
<1>3. B \subseteq Symbols
  BY <1>1, <1>2, Zenon
<1>4. ASSUME NEW x \in Seq(B) PROVE x \in Seq(Symbols)
  BY <1>3, <1>4
<1> QED  BY <1>2, <1>4, Zenon

\* The codes of the values of a table, entry by entry.
ListPieces(kv, inner) == [j \in DOMAIN kv |-> inner[Entry(kv, j)]]
MapPieces(kv, inner) == [j \in DOMAIN kv |-> inner[kv[j][1]] \o inner[kv[j][2]]]

\* A table is written as a list or a map whose length fits its header.
LEMMA TableCode ==
  ASSUME NEW v \in Values, v.t = "table", NEW level, level < MaxNesting, NEW inner
  PROVE  /\ TableIsAnArray(v.kv) => \E k \in {"array", "dc", "dd"} :
              /\ EncodeType(v, level, inner) = <<Coded(k, Len(v.kv))>> \o FlattenSeq(ListPieces(v.kv, inner))
              /\ Width(k) # 0 => Len(v.kv) < Pow(Width(k))
         /\ ~TableIsAnArray(v.kv) => \E k \in {"map", "de", "df"} :
              /\ EncodeType(v, level, inner) = <<Coded(k, Len(v.kv))>> \o FlattenSeq(MapPieces(v.kv, inner))
              /\ Width(k) # 0 => Len(v.kv) < Pow(Width(k))
<1>1. PICK x \in Nat : x = Len(v.kv) /\ x < Pow(4)
  BY TableParts
<1>2. EncodeType(v, level, inner) =
         IF TableIsAnArray(v.kv) THEN <<EncodeArray(Len(v.kv))>> \o FlattenSeq(ListPieces(v.kv, inner))
         ELSE <<EncodeMap(Len(v.kv))>> \o FlattenSeq(MapPieces(v.kv, inner))
  BY DEF EncodeType, ListPieces, MapPieces
<1>3. /\ \E k \in {"array", "dc", "dd"} :
              EncodeArray(x) = Coded(k, x) /\ (Width(k) # 0 => x < Pow(Width(k)))
      /\ \E k \in {"map", "de", "df"} :
              EncodeMap(x) = Coded(k, x) /\ (Width(k) # 0 => x < Pow(Width(k)))
  BY <1>1, LenCoded
<1>4. ASSUME TableIsAnArray(v.kv)
      PROVE  \E k \in {"array", "dc", "dd"} :
              /\ EncodeType(v, level, inner) = <<Coded(k, Len(v.kv))>> \o FlattenSeq(ListPieces(v.kv, inner))
              /\ Width(k) # 0 => Len(v.kv) < Pow(Width(k))
  <2>1. PICK k \in {"array", "dc", "dd"} : EncodeArray(x) = Coded(k, x) /\ (Width(k) # 0 => x < Pow(Width(k)))
    BY <1>3
  <2>2. EncodeType(v, level, inner) = <<Coded(k, Len(v.kv))>> \o FlattenSeq(ListPieces(v.kv, inner))
    BY <1>1, <1>2, <1>4, <2>1, Zenon
  <2> QED  BY <1>1, <2>1, <2>2, Zenon
<1>5. ASSUME ~TableIsAnArray(v.kv)
      PROVE  \E k \in {"map", "de", "df"} :
              /\ EncodeType(v, level, inner) = <<Coded(k, Len(v.kv))>> \o FlattenSeq(MapPieces(v.kv, inner))
              /\ Width(k) # 0 => Len(v.kv) < Pow(Width(k))
  <2>1. PICK k \in {"map", "de", "df"} : EncodeMap(x) = Coded(k, x) /\ (Width(k) # 0 => x < Pow(Width(k)))
    BY <1>3
  <2>2. EncodeType(v, level, inner) = <<Coded(k, Len(v.kv))>> \o FlattenSeq(MapPieces(v.kv, inner))
    BY <1>1, <1>2, <1>5, <2>1, Zenon
  <2> QED  BY <1>1, <2>1, <2>2, Zenon
<1> QED  BY <1>4, <1>5, Zenon

\* The forms that announce a length.
LEMMA LenKinds == {"array", "dc", "dd", "map", "de", "df", "raw", "d9", "da", "db"} \subseteq Kinds
BY DEF Kinds

\* The pieces of a table, entry by entry.
LEMMA PiecesType ==
  ASSUME NEW v \in Values, v.t = "table", NEW inner, \A u \in Values : inner[u] \in Seq(Seq(Symbols))
  PROVE  /\ ListPieces(v.kv, inner) \in Seq(Seq(Seq(Symbols)))
         /\ MapPieces(v.kv, inner) \in Seq(Seq(Seq(Symbols)))
         /\ DOMAIN ListPieces(v.kv, inner) = 1 .. Len(v.kv)
         /\ DOMAIN MapPieces(v.kv, inner) = 1 .. Len(v.kv)
<1>1. PICK n \in Nat : n = Len(v.kv) /\ DOMAIN v.kv = 1 .. n
  BY TableParts
<1>2. PICK Q : Q = Seq(Symbols)
  OBVIOUS
<1>3. \A j \in 1 .. n : inner[Entry(v.kv, j)] \in Seq(Q)
  BY <1>2, TableParts
<1>4. \A j \in 1 .. n : inner[v.kv[j][1]] \o inner[v.kv[j][2]] \in Seq(Q)
  <2>1. ASSUME NEW j \in 1 .. n PROVE inner[v.kv[j][1]] \o inner[v.kv[j][2]] \in Seq(Q)
    <3>1. inner[v.kv[j][1]] \in Seq(Q) /\ inner[v.kv[j][2]] \in Seq(Q)
      BY <1>1, <1>2, TableParts
    <3> QED  BY <3>1
  <2> QED  BY <2>1
<1>5. ListPieces(v.kv, inner) \in [1 .. n -> Seq(Q)] /\ MapPieces(v.kv, inner) \in [1 .. n -> Seq(Q)]
  BY <1>1, <1>3, <1>4 DEF ListPieces, MapPieces
<1>6. [1 .. n -> Seq(Q)] \subseteq Seq(Seq(Q))
  BY <1>1
<1>7. ListPieces(v.kv, inner) \in Seq(Seq(Q)) /\ MapPieces(v.kv, inner) \in Seq(Seq(Q))
  BY <1>5, <1>6
<1>8. DOMAIN ListPieces(v.kv, inner) = 1 .. n /\ DOMAIN MapPieces(v.kv, inner) = 1 .. n
  BY <1>5
<1> QED  BY <1>1, <1>2, <1>7, <1>8, Zenon

\* A string is written behind a header its length fits.
LEMMA StringCode ==
  ASSUME NEW v \in Values, v.t = "string"
  PROVE  /\ v = Str(v.s) /\ v.s \in Seq(Symbols) /\ Len(v.s) \in Nat
         /\ \E k \in {"raw", "d9", "da", "db"} :
              /\ \A level, f : EncodeType(v, level, f) = <<Coded(k, Len(v.s)), v.s>>
              /\ Width(k) # 0 => Len(v.s) < Pow(Width(k))
<1>1. v.s \in Seq({"byte"} \X (0 .. Base - 1)) /\ Len(v.s) < Pow(4) /\ v = Str(v.s)
  BY ValueShape DEF Nil, Function
<1>2. v.s \in Seq(Symbols)
  BY <1>1, BytesAreSymbols
<1>3. Len(v.s) \in Nat
  BY <1>2
<1>4. \E k \in {"raw", "d9", "da", "db"} :
           EncodeBytes(v.s) = <<Coded(k, Len(v.s)), v.s>> /\ (Width(k) # 0 => Len(v.s) < Pow(Width(k)))
  BY <1>1, <1>3, BytesCoded
<1>5. \A level, f : EncodeType(v, level, f) = EncodeBytes(v.s)
  BY DEF EncodeType
<1> QED  BY <1>1, <1>2, <1>3, <1>4, <1>5

\* One level of encoding yields pieces of payload.
LEMMA EncodeTypeIn ==
  ASSUME NEW v \in Values, NEW level \in 0 .. MaxNesting, NEW inner,
         level < MaxNesting => \A u \in Values : inner[u] \in Seq(Seq(Symbols))
  PROVE  EncodeType(v, level, inner) \in Seq(Seq(Symbols))
<1>1. CASE v.t # "string" /\ (v.t = "table" => level = MaxNesting)
  <2>1. PICK k \in Kinds, m \in Int : EncodeType(v, level, inner) = <<Coded(k, m)>> /\ (Width(k) = 0 => m \in Nat)
    BY <1>1, ScalarCode
  <2>2. Coded(k, m) \in Seq(Symbols)
    BY <2>1, CodedType
  <2> QED  BY <2>1, <2>2
<1>2. CASE v.t = "string"
  <2>1. PICK k \in {"raw", "d9", "da", "db"} : \A l, f : EncodeType(v, l, f) = <<Coded(k, Len(v.s)), v.s>>
    BY <1>2, StringCode
  <2>2. Coded(k, Len(v.s)) \in Seq(Symbols)
    <3>1. Len(v.s) \in Nat /\ k \in Kinds
      BY <1>2, StringCode, LenKinds
    <3> QED  BY <3>1, CodedType
  <2>3. v.s \in Seq(Symbols)
    BY <1>2, StringCode
  <2>4. EncodeType(v, level, inner) = <<Coded(k, Len(v.s)), v.s>>
    BY <2>1, Zenon
  <2>5. <<Coded(k, Len(v.s)), v.s>> \in Seq(Seq(Symbols))
    BY <2>2, <2>3
  <2> QED  BY <2>4, <2>5, Zenon
<1>3. CASE v.t = "table" /\ level # MaxNesting
  <2>1. level < MaxNesting /\ Len(v.kv) \in Nat
    BY <1>3, TableParts, MsgPackAssumption
  <2>2. \E k \in Kinds, ps \in Seq(Seq(Seq(Symbols))) :
          EncodeType(v, level, inner) = <<Coded(k, Len(v.kv))>> \o FlattenSeq(ps)
    <3>1. ListPieces(v.kv, inner) \in Seq(Seq(Seq(Symbols))) /\ MapPieces(v.kv, inner) \in Seq(Seq(Seq(Symbols)))
      BY <1>3, <2>1, PiecesType
    <3>2. CASE TableIsAnArray(v.kv)
      <4>1. PICK k \in {"array", "dc", "dd"} :
              EncodeType(v, level, inner) = <<Coded(k, Len(v.kv))>> \o FlattenSeq(ListPieces(v.kv, inner))
        BY <1>3, <2>1, <3>2, TableCode, ZenonT(60)
      <4>2. k \in Kinds
        BY LenKinds
      <4> QED  BY <3>1, <4>1, <4>2, Zenon
    <3>3. CASE ~TableIsAnArray(v.kv)
      <4>1. PICK k \in {"map", "de", "df"} :
              EncodeType(v, level, inner) = <<Coded(k, Len(v.kv))>> \o FlattenSeq(MapPieces(v.kv, inner))
        BY <1>3, <2>1, <3>3, TableCode
      <4>2. k \in Kinds
        BY LenKinds
      <4> QED  BY <3>1, <4>1, <4>2, Zenon
    <3> QED  BY <3>2, <3>3
  <2>3. PICK k \in Kinds, ps \in Seq(Seq(Seq(Symbols))) :
          EncodeType(v, level, inner) = <<Coded(k, Len(v.kv))>> \o FlattenSeq(ps)
    BY <2>2
  <2>4. Coded(k, Len(v.kv)) \in Seq(Symbols)
    BY <2>1, CodedType
  <2>5. FlattenSeq(ps) \in Seq(Seq(Symbols))
    BY FlattenedType
  <2> QED  BY <2>3, <2>4, <2>5
<1> QED  BY <1>1, <1>2, <1>3

\* So does every level.
LEMMA EncodingType ==
  \A level \in 0 .. MaxNesting : \A v \in Values : Encoding[level][v] \in Seq(Seq(Symbols))
<1> DEFINE T == {l \in 0 .. MaxNesting : \A v \in Values : Encoding[l][v] \in Seq(Seq(Symbols))}
<1>1. MaxNesting \in Nat
  BY MsgPackAssumption
<1>2. MaxNesting \in T
  <2>1. ASSUME NEW v \in Values PROVE Encoding[MaxNesting][v] \in Seq(Seq(Symbols))
    <3>1. MaxNesting \in 0 .. MaxNesting /\ ~(MaxNesting < MaxNesting)
      BY <1>1
    <3>2. EncodeType(v, MaxNesting, Encoding[MaxNesting + 1]) \in Seq(Seq(Symbols))
      BY <3>1, EncodeTypeIn
    <3> QED  BY <3>1, <3>2, EncodeBy
  <2> QED  BY <1>1, <2>1
<1>3. ASSUME NEW k \in 1 .. MaxNesting, k \in T PROVE k - 1 \in T
  <2>1. ASSUME NEW v \in Values PROVE Encoding[k - 1][v] \in Seq(Seq(Symbols))
    <3>1. PICK l \in 0 .. MaxNesting : l = k - 1 /\ l + 1 = k
      BY <1>1
    <3>2. \A u \in Values : Encoding[l + 1][u] \in Seq(Seq(Symbols))
      BY <1>3, <3>1, Zenon
    <3>3. EncodeType(v, l, Encoding[l + 1]) \in Seq(Seq(Symbols))
      BY <3>2, EncodeTypeIn
    <3>4. Encoding[l][v] \in Seq(Seq(Symbols))
      BY <3>3, EncodeBy
    <3> QED  BY <3>1, <3>4, Zenon
  <2>2. k - 1 \in 0 .. MaxNesting
    BY <1>1
  <2> QED  BY <2>1, <2>2
<1> HIDE DEF T
<1>4. \A k \in 0 .. MaxNesting : k \in T
  BY <1>1, <1>2, <1>3, DownFrom
<1> QED  BY <1>4 DEF T

\* The bytes of a value.
Code(v, level) == FlattenSeq(Encoding[level][v])

\* Those of the entries of a table.
ListCodes(kv, level) == [j \in 1 .. Len(kv) |-> Code(Entry(kv, j), level)]
MapCodes(kv, level) == [j \in 1 .. Len(kv) |-> Code(kv[j][1], level) \o Code(kv[j][2], level)]

\* The bytes of a value are a byte string.
LEMMA CodeIn == \A level \in 0 .. MaxNesting : \A v \in Values : Code(v, level) \in Seq(Symbols)
BY EncodingType, FlattenedType DEF Code

\* A value without contents, or nested too deep, is one header with its number.
LEMMA ScalarBytes ==
  ASSUME NEW v \in Values, NEW level \in 0 .. MaxNesting, v.t # "string", v.t = "table" => level = MaxNesting
  PROVE  \E k \in Kinds, m \in Int :
           Code(v, level) = Coded(k, m) /\ (Width(k) = 0 => m \in Nat) /\ Holds(k, m, Kept(v, level))
<1>1. PICK k \in Kinds, m \in Int :
        /\ EncodeType(v, level, Encoding[level + 1]) = <<Coded(k, m)>> /\ (Width(k) = 0 => m \in Nat)
        /\ Holds(k, m, KeepType(v, level, Keeping[level + 1]))
  BY ScalarCode
<1>2. Encoding[level][v] = <<Coded(k, m)>>
  BY <1>1, EncodeBy
<1>3. Kept(v, level) = KeepType(v, level, Keeping[level + 1])
  BY KeepBy DEF Kept
<1>4. Coded(k, m) \in Seq(Symbols)
  BY <1>1, CodedType
<1>5. FlattenSeq(<<Coded(k, m)>>) = Coded(k, m)
  BY <1>4, FlattenedOne
<1>6. Code(v, level) = Coded(k, m)
  BY <1>2, <1>5, Zenon DEF Code
<1>7. Holds(k, m, Kept(v, level))
  BY <1>1, <1>3, Zenon
<1> QED  BY <1>1, <1>6, <1>7, Zenon

\* A string is a header and its bytes.
LEMMA StringBytes ==
  ASSUME NEW v \in Values, NEW level \in 0 .. MaxNesting, v.t = "string"
  PROVE  \E k \in {"raw", "d9", "da", "db"} :
           Code(v, level) = Coded(k, Len(v.s)) \o v.s /\ (Width(k) # 0 => Len(v.s) < Pow(Width(k)))
<1>1. PICK k \in {"raw", "d9", "da", "db"} :
        /\ \A l, f : EncodeType(v, l, f) = <<Coded(k, Len(v.s)), v.s>>
        /\ Width(k) # 0 => Len(v.s) < Pow(Width(k))
  BY StringCode
<1>2. Encoding[level][v] = <<Coded(k, Len(v.s)), v.s>>
  BY <1>1, EncodeBy, Zenon
<1>3. v.s \in Seq(Symbols) /\ Len(v.s) \in Nat /\ k \in Kinds
  BY StringCode, LenKinds
<1>4. PICK c \in Seq(Symbols) : c = Coded(k, Len(v.s))
  BY <1>3, CodedType
<1>5. PICK x \in Seq(Symbols) : x = v.s
  BY <1>3
<1>6. FlattenSeq(<<c, x>>) = c \o x
  <2>1. <<c>> \in Seq(Seq(Symbols)) /\ <<x>> \in Seq(Seq(Symbols)) /\ <<c, x>> = <<c>> \o <<x>>
    OBVIOUS
  <2>2. FlattenSeq(<<c>>) = c /\ FlattenSeq(<<x>>) = x
    BY FlattenedOne
  <2>3. FlattenSeq(<<c>> \o <<x>>) = FlattenSeq(<<c>>) \o FlattenSeq(<<x>>)
    BY <2>1, FlattenedConcat
  <2> QED  BY <2>1, <2>2, <2>3, Zenon
<1>7. Code(v, level) = Coded(k, Len(v.s)) \o v.s
  BY <1>2, <1>4, <1>5, <1>6, Zenon DEF Code
<1> QED  BY <1>1, <1>7, Zenon

\* A first piece, and pieces joined before.
LEMMA FlattenedBehind ==
  ASSUME NEW h \in Seq(Symbols), NEW ps \in Seq(Seq(Seq(Symbols)))
  PROVE  FlattenSeq(<<h>> \o FlattenSeq(ps)) = h \o FlattenSeq([j \in DOMAIN ps |-> FlattenSeq(ps[j])])
<1>1. <<h>> \in Seq(Seq(Symbols)) /\ FlattenSeq(<<h>>) = h
  BY FlattenedOne
<1>2. FlattenSeq(ps) \in Seq(Seq(Symbols))
  BY FlattenedType
<1>3. FlattenSeq(<<h>> \o FlattenSeq(ps)) = FlattenSeq(<<h>>) \o FlattenSeq(FlattenSeq(ps))
  BY <1>1, <1>2, FlattenedConcat
<1>4. FlattenSeq(FlattenSeq(ps)) = FlattenSeq([j \in DOMAIN ps |-> FlattenSeq(ps[j])])
  BY FlattenedTwice
<1> QED  BY <1>1, <1>3, <1>4, Zenon

\* A table is a header and the bytes of its entries, one level down.
LEMMA TableBytes ==
  ASSUME NEW v \in Values, v.t = "table", NEW level \in 0 .. MaxNesting, level # MaxNesting
  PROVE  /\ TableIsAnArray(v.kv) => \E k \in {"array", "dc", "dd"} :
              /\ Code(v, level) = Coded(k, Len(v.kv)) \o FlattenSeq(ListCodes(v.kv, level + 1))
              /\ Width(k) # 0 => Len(v.kv) < Pow(Width(k))
         /\ ~TableIsAnArray(v.kv) => \E k \in {"map", "de", "df"} :
              /\ Code(v, level) = Coded(k, Len(v.kv)) \o FlattenSeq(MapCodes(v.kv, level + 1))
              /\ Width(k) # 0 => Len(v.kv) < Pow(Width(k))
<1>1. level < MaxNesting /\ level + 1 \in 0 .. MaxNesting
  BY MsgPackAssumption
<1>2. PICK inner : inner = Encoding[level + 1]
  OBVIOUS
<1>3. \A u \in Values : inner[u] \in Seq(Seq(Symbols))
  BY <1>1, <1>2, EncodingType, Zenon
<1>4. Encoding[level][v] = EncodeType(v, level, inner)
  BY <1>2, EncodeBy, Zenon
<1>5. /\ ListPieces(v.kv, inner) \in Seq(Seq(Seq(Symbols)))
      /\ MapPieces(v.kv, inner) \in Seq(Seq(Seq(Symbols)))
      /\ DOMAIN ListPieces(v.kv, inner) = 1 .. Len(v.kv)
      /\ DOMAIN MapPieces(v.kv, inner) = 1 .. Len(v.kv)
      /\ DOMAIN v.kv = 1 .. Len(v.kv) /\ Len(v.kv) \in Nat
  BY <1>3, PiecesType, TableParts
<1>6. \A k \in Kinds : Coded(k, Len(v.kv)) \in Seq(Symbols)
  <2>1. PICK n \in Nat : n = Len(v.kv)
    BY <1>5
  <2>2. \A k \in Kinds : Coded(k, n) \in Seq(Symbols)
    BY CodedType
  <2> QED  BY <2>1, <2>2, Zenon
<1>7. ASSUME TableIsAnArray(v.kv)
      PROVE  \E k \in {"array", "dc", "dd"} :
              /\ Code(v, level) = Coded(k, Len(v.kv)) \o FlattenSeq(ListCodes(v.kv, level + 1))
              /\ Width(k) # 0 => Len(v.kv) < Pow(Width(k))
  <2>1. PICK k \in {"array", "dc", "dd"} :
              /\ EncodeType(v, level, inner) = <<Coded(k, Len(v.kv))>> \o FlattenSeq(ListPieces(v.kv, inner))
              /\ Width(k) # 0 => Len(v.kv) < Pow(Width(k))
    BY <1>1, <1>7, TableCode
  <2>2. k \in Kinds
    BY LenKinds
  <2>3. [j \in DOMAIN ListPieces(v.kv, inner) |-> FlattenSeq(ListPieces(v.kv, inner)[j])] = ListCodes(v.kv, level + 1)
    <3>1. \A j \in 1 .. Len(v.kv) : ListPieces(v.kv, inner)[j] = inner[Entry(v.kv, j)]
      BY <1>5 DEF ListPieces
    <3>2. \A j \in 1 .. Len(v.kv) : FlattenSeq(ListPieces(v.kv, inner)[j]) = Code(Entry(v.kv, j), level + 1)
      BY <1>2, <3>1, Zenon DEF Code
    <3> QED  BY <1>5, <3>2, Zenon DEF ListCodes
  <2>4. PICK h \in Seq(Symbols) : h = Coded(k, Len(v.kv))
    BY <1>6, <2>2
  <2>5. PICK ps \in Seq(Seq(Seq(Symbols))) : ps = ListPieces(v.kv, inner)
    BY <1>5
  <2>6. FlattenSeq(<<h>> \o FlattenSeq(ps)) = h \o FlattenSeq([j \in DOMAIN ps |-> FlattenSeq(ps[j])])
    BY FlattenedBehind
  <2>7. Code(v, level) = h \o FlattenSeq(ListCodes(v.kv, level + 1))
    BY <1>4, <2>1, <2>3, <2>4, <2>5, <2>6, Zenon DEF Code
  <2> QED  BY <2>1, <2>4, <2>7, Zenon
<1>8. ASSUME ~TableIsAnArray(v.kv)
      PROVE  \E k \in {"map", "de", "df"} :
              /\ Code(v, level) = Coded(k, Len(v.kv)) \o FlattenSeq(MapCodes(v.kv, level + 1))
              /\ Width(k) # 0 => Len(v.kv) < Pow(Width(k))
  <2>1. PICK k \in {"map", "de", "df"} :
              /\ EncodeType(v, level, inner) = <<Coded(k, Len(v.kv))>> \o FlattenSeq(MapPieces(v.kv, inner))
              /\ Width(k) # 0 => Len(v.kv) < Pow(Width(k))
    BY <1>1, <1>8, TableCode
  <2>2. k \in Kinds
    BY LenKinds
  <2>3. [j \in DOMAIN MapPieces(v.kv, inner) |-> FlattenSeq(MapPieces(v.kv, inner)[j])] = MapCodes(v.kv, level + 1)
    <3>1. \A j \in 1 .. Len(v.kv) : MapPieces(v.kv, inner)[j] = inner[v.kv[j][1]] \o inner[v.kv[j][2]]
      BY <1>5 DEF MapPieces
    <3>2. ASSUME NEW j \in 1 .. Len(v.kv)
          PROVE  FlattenSeq(MapPieces(v.kv, inner)[j]) = Code(v.kv[j][1], level + 1) \o Code(v.kv[j][2], level + 1)
      <4>1. PICK a \in Seq(Seq(Symbols)), b \in Seq(Seq(Symbols)) : a = inner[v.kv[j][1]] /\ b = inner[v.kv[j][2]]
        BY <1>3, <1>5, TableParts
      <4>2. FlattenSeq(a \o b) = FlattenSeq(a) \o FlattenSeq(b)
        BY FlattenedConcat
      <4> QED  BY <1>2, <3>1, <4>1, <4>2, Zenon DEF Code
    <3> QED  BY <1>5, <3>2, Zenon DEF MapCodes
  <2>4. PICK h \in Seq(Symbols) : h = Coded(k, Len(v.kv))
    BY <1>6, <2>2
  <2>5. PICK ps \in Seq(Seq(Seq(Symbols))) : ps = MapPieces(v.kv, inner)
    BY <1>5
  <2>6. FlattenSeq(<<h>> \o FlattenSeq(ps)) = h \o FlattenSeq([j \in DOMAIN ps |-> FlattenSeq(ps[j])])
    BY FlattenedBehind
  <2>7. Code(v, level) = h \o FlattenSeq(MapCodes(v.kv, level + 1))
    BY <1>4, <2>1, <2>3, <2>4, <2>5, <2>6, Zenon DEF Code
  <2> QED  BY <2>1, <2>4, <2>7, Zenon
<1> QED  BY <1>7, <1>8, Zenon

\* Two byte strings that stand in a row stand each at its place.
LEMMA FollowsJoined ==
  ASSUME NEW s \in Seq(Symbols), NEW o \in Nat, NEW a \in Seq(Symbols), NEW b \in Seq(Symbols),
         Follows(s, o, a \o b)
  PROVE  Follows(s, o, a) /\ Follows(s, o + Len(a), b)
<1>1. PICK c \in Seq(Symbols) :
        /\ c = a \o b /\ Len(c) = Len(a) + Len(b)
        /\ \A d \in 1 .. Len(a) : c[d] = a[d]
        /\ \A d \in 1 .. Len(b) : c[Len(a) + d] = b[d]
  BY JoinedSymbols
<1>2. PICK n \in Nat, x \in Nat, y \in Nat : n = Len(s) /\ x = Len(a) /\ y = Len(b)
  OBVIOUS
<1>3. \A d \in 1 .. x + y : o + d <= n => s[o + d] = c[d]
  BY <1>1, <1>2 DEF Follows
<1>4. \A d \in 1 .. x : o + d <= n => s[o + d] = a[d]
  <2>1. ASSUME NEW d \in 1 .. x, o + d <= n PROVE s[o + d] = a[d]
    <3>1. d \in 1 .. x + y
      BY <1>2
    <3>2. s[o + d] = c[d] /\ c[d] = a[d]
      BY <1>1, <1>2, <1>3, <2>1, <3>1, Zenon
    <3> QED  BY <3>2, Zenon
  <2> QED  BY <2>1
<1>5. \A d \in 1 .. y : o + x + d <= n => s[o + x + d] = b[d]
  <2>1. ASSUME NEW d \in 1 .. y, o + x + d <= n PROVE s[o + x + d] = b[d]
    <3>1. x + d \in 1 .. x + y /\ o + (x + d) = o + x + d
      BY <1>2
    <3>2. s[o + (x + d)] = c[x + d]
      BY <1>3, <2>1, <3>1, Zenon
    <3>3. c[x + d] = b[d]
      BY <1>1, <1>2, Zenon
    <3> QED  BY <3>1, <3>2, <3>3, Zenon
  <2> QED  BY <2>1
<1> QED  BY <1>2, <1>4, <1>5, Zenon DEF Follows

\* The length of a header with what follows it.
LEMMA HeaderLength ==
  ASSUME NEW k \in Kinds, NEW n \in Int, Width(k) = 0 => n \in Nat, NEW b \in Seq(Symbols)
  PROVE  /\ Coded(k, n) \in Seq(Symbols)
         /\ Coded(k, n) \o b \in Seq(Symbols) /\ Len(Coded(k, n) \o b) = 1 + Width(k) + Len(b)
         /\ Width(k) \in Nat
<1>1. PICK c \in Seq(Symbols) : c = Coded(k, n) /\ Len(c) = 1 + Width(k)
  BY CodedType
<1>2. c \o b \in Seq(Symbols) /\ Len(c \o b) = Len(c) + Len(b) /\ Width(k) \in Nat
  BY JoinedSymbols, WidthType
<1> QED  BY <1>1, <1>2

\* The entries of a table are byte strings, one for each.
LEMMA ListCodesType ==
  ASSUME NEW v \in Values, v.t = "table", NEW level \in 0 .. MaxNesting
  PROVE  /\ ListCodes(v.kv, level) \in Seq(Seq(Symbols)) /\ Len(ListCodes(v.kv, level)) = Len(v.kv)
         /\ MapCodes(v.kv, level) \in Seq(Seq(Symbols)) /\ Len(MapCodes(v.kv, level)) = Len(v.kv)
         /\ FlattenSeq(ListCodes(v.kv, level)) \in Seq(Symbols)
         /\ FlattenSeq(MapCodes(v.kv, level)) \in Seq(Symbols)
<1>1. PICK n \in Nat : n = Len(v.kv) /\ DOMAIN v.kv = 1 .. n
  BY TableParts
<1>2. \A j \in 1 .. n : Code(Entry(v.kv, j), level) \in Seq(Symbols)
  BY TableParts, CodeIn
<1>3. \A j \in 1 .. n : Code(v.kv[j][1], level) \o Code(v.kv[j][2], level) \in Seq(Symbols)
  <2>1. ASSUME NEW j \in 1 .. n PROVE Code(v.kv[j][1], level) \o Code(v.kv[j][2], level) \in Seq(Symbols)
    <3>1. Code(v.kv[j][1], level) \in Seq(Symbols) /\ Code(v.kv[j][2], level) \in Seq(Symbols)
      BY <1>1, TableParts, CodeIn
    <3> QED  BY <3>1
  <2> QED  BY <2>1
<1>4. ListCodes(v.kv, level) \in [1 .. n -> Seq(Symbols)] /\ MapCodes(v.kv, level) \in [1 .. n -> Seq(Symbols)]
  BY <1>1, <1>2, <1>3 DEF ListCodes, MapCodes
<1>5. \A f \in [1 .. n -> Seq(Symbols)] : f \in Seq(Seq(Symbols)) /\ Len(f) = n
  BY <1>1
<1> QED  BY <1>1, <1>4, <1>5, FlattenedType

\* No value is written in zero bytes.
LEMMA CodeNotEmpty ==
  ASSUME NEW v \in Values, NEW level \in 0 .. MaxNesting
  PROVE  Code(v, level) \in Seq(Symbols) /\ Len(Code(v, level)) >= 1 /\ Len(Code(v, level)) \in Nat
<1>1. \E k \in Kinds, n \in Int, b \in Seq(Symbols) :
        (Width(k) = 0 => n \in Nat) /\ Code(v, level) \in {Coded(k, n), Coded(k, n) \o b}
  <2>1. CASE v.t # "string" /\ (v.t = "table" => level = MaxNesting)
    <3>1. \E k \in Kinds, m \in Int : Code(v, level) = Coded(k, m) /\ (Width(k) = 0 => m \in Nat)
      BY <2>1, ScalarBytes
    <3>2. <<>> \in Seq(Symbols)
      OBVIOUS
    <3> QED  BY <3>1, <3>2, Zenon
  <2>2. CASE v.t = "string"
    <3>1. PICK k \in {"raw", "d9", "da", "db"} : Code(v, level) = Coded(k, Len(v.s)) \o v.s
      BY <2>2, StringBytes
    <3>2. k \in Kinds /\ Len(v.s) \in Nat /\ v.s \in Seq(Symbols)
      BY <2>2, LenKinds, StringCode
    <3>3. Len(v.s) \in Int
      BY <3>2
    <3> QED  BY <3>1, <3>2, <3>3, Zenon
  <2>3. CASE v.t = "table" /\ level # MaxNesting
    <3>0. level + 1 \in 0 .. MaxNesting /\ Len(v.kv) \in Nat
      BY <2>3, MsgPackAssumption, TableParts
    <3>1. \E k \in Kinds, b \in Seq(Symbols) : Code(v, level) = Coded(k, Len(v.kv)) \o b
      <4>1. /\ TableIsAnArray(v.kv) => \E k \in {"array", "dc", "dd"} :
                 Code(v, level) = Coded(k, Len(v.kv)) \o FlattenSeq(ListCodes(v.kv, level + 1))
            /\ ~TableIsAnArray(v.kv) => \E k \in {"map", "de", "df"} :
                 Code(v, level) = Coded(k, Len(v.kv)) \o FlattenSeq(MapCodes(v.kv, level + 1))
        BY <2>3, TableBytes
      <4>2. FlattenSeq(ListCodes(v.kv, level + 1)) \in Seq(Symbols) /\ FlattenSeq(MapCodes(v.kv, level + 1)) \in Seq(Symbols)
        BY <2>3, <3>0, ListCodesType
      <4>3. {"array", "dc", "dd"} \subseteq Kinds /\ {"map", "de", "df"} \subseteq Kinds
        BY LenKinds
      <4> QED  BY <4>1, <4>2, <4>3, Zenon
    <3>2. Len(v.kv) \in Int
      BY <3>0
    <3> QED  BY <3>0, <3>1, <3>2, Zenon
  <2> QED  BY <2>1, <2>2, <2>3
<1>2. PICK k \in Kinds, n \in Int, b \in Seq(Symbols) :
        (Width(k) = 0 => n \in Nat) /\ Code(v, level) \in {Coded(k, n), Coded(k, n) \o b}
  BY <1>1
<1>3. Len(Coded(k, n)) = 1 + Width(k) /\ Len(Coded(k, n) \o b) = 1 + Width(k) + Len(b) /\ Width(k) \in Nat
  BY <1>2, CodedType, HeaderLength
<1>4. Len(b) \in Nat
  OBVIOUS
<1>5. Len(Code(v, level)) = Len(Coded(k, n)) \/ Len(Code(v, level)) = Len(Coded(k, n) \o b)
  BY <1>2, Zenon
<1> QED  BY <1>3, <1>4, <1>5, CodeIn

\* Where the pieces of joined bytes begin and end, behind o in s.
PartsAt(s, o, cs, n, p) ==
  /\ p \in [0 .. n -> Nat] /\ p[0] = o /\ p[n] = o + Len(FlattenSeq(cs))
  /\ \A i \in 1 .. n : p[i] = p[i - 1] + Len(cs[i]) /\ Follows(s, p[i - 1], cs[i])

\* Joined parts have offsets at which each of them stands.
LEMMA FollowedParts ==
  ASSUME NEW s \in Seq(Symbols), NEW o \in Nat, NEW cs \in Seq(Seq(Symbols)), NEW n \in Nat, n = Len(cs),
         Follows(s, o, FlattenSeq(cs))
  PROVE  \E p : PartsAt(s, o, cs, n, p)
<1>1. PICK f : /\ f \in [0 .. n -> Seq(Symbols)] /\ f[0] = <<>> /\ FlattenSeq(cs) = f[n]
               /\ \A i \in 1 .. n : f[i] = f[i - 1] \o cs[i]
  <2>1. \E f \in [0 .. Len(cs) -> Seq(Symbols)] :
           /\ f[0] = <<>> /\ FlattenSeq(cs) = f[Len(cs)]
           /\ \A i \in 1 .. Len(cs) : f[i] = f[i - 1] \o cs[i]
    BY Flattening
  <2> QED  BY <2>1, Zenon
<1>2. \A i \in 1 .. n : cs[i] \in Seq(Symbols) /\ Len(cs[i]) \in Nat
  OBVIOUS
<1>3. \A i \in 0 .. n : f[i] \in Seq(Symbols) /\ Len(f[i]) \in Nat
  BY <1>1
<1> DEFINE T == {i \in 0 .. n : Follows(s, o, f[i])}
<1>4. n \in T
  BY <1>1
<1>5. ASSUME NEW k \in 1 .. n, k \in T
      PROVE  /\ k - 1 \in T /\ Follows(s, o + Len(f[k - 1]), cs[k])
             /\ Len(f[k]) = Len(f[k - 1]) + Len(cs[k])
  <2>1. PICK i \in 0 .. n : i = k - 1
    OBVIOUS
  <2>2. PICK a \in Seq(Symbols), b \in Seq(Symbols) : a = f[i] /\ b = cs[k]
    BY <1>2, <1>3
  <2>3. f[k] = a \o b
    BY <1>1, <2>1, <2>2, Zenon
  <2>4. Follows(s, o, a \o b)
    BY <1>5, <2>3, Zenon
  <2>5. Follows(s, o, a) /\ Follows(s, o + Len(a), b)
    BY <2>4, FollowsJoined
  <2>6. Len(a \o b) = Len(a) + Len(b)
    OBVIOUS
  <2>7. k - 1 \in T
    BY <2>1, <2>2, <2>5, Zenon
  <2> QED  BY <2>1, <2>2, <2>3, <2>5, <2>6, <2>7, Zenon
<1> HIDE DEF T
<1>6. \A k \in 1 .. n : k \in T => k - 1 \in T
  BY <1>5
<1>7. \A i \in 0 .. n : i \in T
  BY <1>4, <1>6, DownFrom
<1>8. PICK p : p = [i \in 0 .. n |-> o + Len(f[i])]
  OBVIOUS
<1>9. p \in [0 .. n -> Nat] /\ \A i \in 0 .. n : p[i] = o + Len(f[i])
  BY <1>3, <1>8
<1>10. p[0] = o /\ p[n] = o + Len(FlattenSeq(cs))
  <2>1. Len(f[0]) = 0 /\ 0 \in 0 .. n /\ n \in 0 .. n
    BY <1>1
  <2>2. p[0] = o + Len(f[0])
    BY <1>9, <2>1
  <2>3. p[n] = o + Len(f[n])
    BY <1>9, <2>1
  <2>4. p[n] = o + Len(FlattenSeq(cs))
    BY <1>1, <2>3, Zenon
  <2> QED  BY <2>1, <2>2, <2>4
<1>11. ASSUME NEW i \in 1 .. n PROVE p[i] = p[i - 1] + Len(cs[i]) /\ Follows(s, p[i - 1], cs[i])
  <2>1. i \in 0 .. n /\ i - 1 \in 0 .. n
    OBVIOUS
  <2>2. Follows(s, o + Len(f[i - 1]), cs[i]) /\ Len(f[i]) = Len(f[i - 1]) + Len(cs[i])
    BY <1>5, <1>7, <2>1
  <2>3. p[i] = o + Len(f[i]) /\ p[i - 1] = o + Len(f[i - 1])
    BY <1>9, <2>1, Zenon
  <2>4. Follows(s, p[i - 1], cs[i])
    BY <2>2, <2>3, Zenon
  <2>5. PICK x \in Nat, y \in Nat, z \in Nat : x = Len(f[i]) /\ y = Len(f[i - 1]) /\ z = Len(cs[i])
    BY <1>2, <1>3, <2>1
  <2>6. p[i] = o + x /\ p[i - 1] = o + y /\ x = y + z
    BY <2>2, <2>3, <2>5, Zenon
  <2>7. p[i] = p[i - 1] + z
    BY <2>6
  <2> QED  BY <2>4, <2>5, <2>7, Zenon
<1> QED  BY <1>9, <1>10, <1>11, Zenon DEF PartsAt

\* The offsets grow.
LEMMA Growing ==
  ASSUME NEW n \in Nat, NEW p, p \in [0 .. n -> Nat], \A i \in 1 .. n : p[i - 1] < p[i]
  PROVE  \A i, j \in 0 .. n : i < j => p[i] < p[j]
<1>1. SUFFICES ASSUME NEW i \in 0 .. n PROVE \A j \in 0 .. n : i < j => p[i] < p[j]
  OBVIOUS
<1> DEFINE T == {j \in 0 .. n : i < j => p[i] < p[j]}
<1>2. 0 \in T
  OBVIOUS
<1>3. ASSUME NEW k \in 0 .. n - 1, k \in T PROVE k + 1 \in T
  <2>1. PICK j \in 1 .. n : j = k + 1 /\ j - 1 = k
    OBVIOUS
  <2>2. PICK x \in Nat, y \in Nat, z \in Nat : x = p[i] /\ y = p[k] /\ z = p[j] /\ y < z
    <3>1. p[i] \in Nat /\ p[k] \in Nat /\ p[j] \in Nat
      BY <2>1
    <3>2. p[j - 1] < p[j]
      BY <2>1
    <3> QED  BY <2>1, <3>1, <3>2
  <2>3. i < k => x < y
    BY <1>3, <2>2, Zenon
  <2>4. i < j => x < z
    <3>1. ASSUME i < j PROVE x < z
      <4>1. i = k \/ i < k
        BY <2>1, <3>1
      <4>2. CASE i = k
        <5>1. x = y
          BY <2>2, <4>2, Zenon
        <5> QED  BY <2>2, <5>1
      <4>3. CASE i < k
        BY <2>2, <2>3, <4>3
      <4> QED  BY <4>1, <4>2, <4>3
    <3> QED  BY <3>1
  <2>5. j \in T
    BY <2>2, <2>4
  <2> QED  BY <2>1, <2>5, Zenon
<1> HIDE DEF T
<1>4. \A j \in 0 .. n : j \in T
  BY <1>2, <1>3, UpTo
<1> QED  BY <1>4 DEF T

\* The turns of the loops, as the recursion has them.
LEMMA TurnOver ==
  ASSUME NEW s \in Seq(Symbols), NEW o \in Nat, NEW kind \in LoopKinds, NEW len \in Nat,
         len = 0 \/ (kind = "stream" /\ o >= Len(s))
  PROVE  Loops(s)[o][kind][len] = Got(<<>>, o)
<1>1. Loops(s)[o][kind][len] = Turn(s, o, kind, len, Loops(s))
  BY LoopsTurn
<1> QED  BY <1>1, Zenon DEF Turn, Prepend

\* A turn that does not end the loop, by its first value and the rest.
LEMMA TurnGoing ==
  ASSUME NEW s \in Seq(Symbols), NEW o \in Nat, NEW kind \in LoopKinds, NEW len \in Nat,
         len # 0, ~(kind = "stream" /\ o >= Len(s)), NEW x, x = First(s, o, kind, Loops(s)),
         NEW r, r = Loops(s)[o][kind][len]
  PROVE  r = IF x.err # "none" THEN x
             ELSE IF Loops(s)[x.o][kind][len - 1].err # "none" THEN Loops(s)[x.o][kind][len - 1]
             ELSE Got(<<x.v>> \o Loops(s)[x.o][kind][len - 1].v, Loops(s)[x.o][kind][len - 1].o)
<1>1. r = Turn(s, o, kind, len, Loops(s))
  BY LoopsTurn
<1>2. PICK f : f = Loops(s)
  OBVIOUS
<1>3. r = IF len = 0 \/ (kind = "stream" /\ o >= Len(s)) THEN Got(<<>>, o)
          ELSE IF x.err # "none" THEN x
          ELSE IF f[x.o][kind][len - 1].err # "none" THEN f[x.o][kind][len - 1]
          ELSE Got(<<x.v>> \o f[x.o][kind][len - 1].v, f[x.o][kind][len - 1].o)
  BY <1>1, <1>2, Zenon DEF Turn, Prepend, First
<1>4. r = IF x.err # "none" THEN x
          ELSE IF f[x.o][kind][len - 1].err # "none" THEN f[x.o][kind][len - 1]
          ELSE Got(<<x.v>> \o f[x.o][kind][len - 1].v, f[x.o][kind][len - 1].o)
  BY <1>3, Zenon
<1> QED  BY <1>2, <1>4, Zenon

\* A turn whose first value is refused is refused for that reason.
LEMMA TurnFails ==
  ASSUME NEW s \in Seq(Symbols), NEW o \in Nat, NEW kind \in LoopKinds, NEW len \in Nat,
         len # 0, ~(kind = "stream" /\ o >= Len(s)), First(s, o, kind, Loops(s)).err # "none"
  PROVE  Loops(s)[o][kind][len] = First(s, o, kind, Loops(s))
<1>1. Loops(s)[o][kind][len] = Turn(s, o, kind, len, Loops(s))
  BY LoopsTurn
<1>2. PICK x : x = First(s, o, kind, Loops(s))
  OBVIOUS
<1>3. Turn(s, o, kind, len, Loops(s)) =
        IF len = 0 \/ (kind = "stream" /\ o >= Len(s)) THEN Got(<<>>, o)
        ELSE IF x.err # "none" THEN x
        ELSE IF Loops(s)[x.o][kind][len - 1].err # "none" THEN Loops(s)[x.o][kind][len - 1]
        ELSE Got(<<x.v>> \o Loops(s)[x.o][kind][len - 1].v, Loops(s)[x.o][kind][len - 1].o)
  BY <1>2, Zenon DEF Turn, Prepend, First
<1> QED  BY <1>1, <1>2, <1>3, Zenon

\* A turn whose first value is read puts it before the rest.
LEMMA TurnMore ==
  ASSUME NEW s \in Seq(Symbols), NEW o \in Nat, NEW kind \in LoopKinds, NEW len \in Nat,
         len # 0, ~(kind = "stream" /\ o >= Len(s)), NEW v, NEW q, First(s, o, kind, Loops(s)) = Got(v, q),
         NEW rest, rest = Loops(s)[q][kind][len - 1]
  PROVE  /\ rest.err # "none" => Loops(s)[o][kind][len] = rest
         /\ \A vs, z : rest = Got(vs, z) => Loops(s)[o][kind][len] = Got(<<v>> \o vs, z)
<1>1. PICK r : r = Loops(s)[o][kind][len]
  OBVIOUS
<1>2. PICK x : x = First(s, o, kind, Loops(s)) /\ x = Got(v, q)
  OBVIOUS
<1>3. r = IF x.err # "none" THEN x
             ELSE IF Loops(s)[x.o][kind][len - 1].err # "none" THEN Loops(s)[x.o][kind][len - 1]
             ELSE Got(<<x.v>> \o Loops(s)[x.o][kind][len - 1].v, Loops(s)[x.o][kind][len - 1].o)
  BY <1>1, <1>2, TurnGoing
<1>4. x.err = "none" /\ x.v = v /\ x.o = q
  BY <1>2 DEF Got
<1>5. r = IF rest.err # "none" THEN rest ELSE Got(<<v>> \o rest.v, rest.o)
  BY <1>3, <1>4, Zenon
<1>6. ASSUME NEW vs, NEW z, rest = Got(vs, z) PROVE r = Got(<<v>> \o vs, z)
  <2>1. rest.err = "none" /\ rest.v = vs /\ rest.o = z
    BY <1>6 DEF Got
  <2> QED  BY <1>5, <2>1, Zenon
<1> QED  BY <1>1, <1>5, <1>6, Zenon

\* What reading up to the offset e comes to: all of v, unless bytes are missing or a key is lost.
ReadAs(r, s, e, v, lost) ==
  IF e <= Len(s) THEN (IF lost THEN r.err = "index is nil" ELSE r = Got(v, e))
  ELSE (lost \/ r.err = "missing bytes")

\* The values behind the i-th, up to the m-th.
Between(vals, i, m) == [j \in 1 .. m - i |-> vals[i + j]]

\* Between an offset and itself there is no value.
LEMMA BetweenNone == \A vals, i : i \in Nat => Between(vals, i, i) = <<>>
<1> SUFFICES ASSUME NEW vals, NEW i \in Nat PROVE Between(vals, i, i) = <<>>
  OBVIOUS
<1>1. 1 .. i - i = {}
  OBVIOUS
<1> QED  BY <1>1 DEF Between

\* One more value in front.
LEMMA BetweenMore ==
  ASSUME NEW n \in Nat, NEW V, NEW vals \in [1 .. n -> V], NEW k \in 1 .. n, NEW m \in k .. n
  PROVE  <<vals[k]>> \o Between(vals, k, m) = Between(vals, k - 1, m)
<1>1. PICK c \in Nat : c = m - k
  OBVIOUS
<1>2. m - (k - 1) = c + 1
  BY <1>1
<1>3. \A j \in 1 .. c : k + j \in 1 .. n
  BY <1>1
<1>4. Between(vals, k, m) = [j \in 1 .. c |-> vals[k + j]]
  BY <1>1, Zenon DEF Between
<1>5. PICK b : b = Between(vals, k, m)
  OBVIOUS
<1>6. b \in [1 .. c -> V] /\ \A j \in 1 .. c : b[j] = vals[k + j]
  BY <1>3, <1>4, <1>5
<1>7. b \in Seq(V) /\ Len(b) = c
  BY <1>1, <1>6
<1>8. <<vals[k]>> \in Seq(V) /\ Len(<<vals[k]>>) = 1 /\ <<vals[k]>>[1] = vals[k]
  OBVIOUS
<1>9. PICK a \in Seq(V) : a = <<vals[k]>> /\ Len(a) = 1 /\ a[1] = vals[k]
  BY <1>8
<1>10. /\ a \o b \in Seq(V) /\ Len(a \o b) = 1 + c /\ (a \o b)[1] = a[1]
       /\ \A d \in 1 .. c : (a \o b)[1 + d] = b[d]
  <2>1. /\ a \o b \in Seq(V) /\ Len(a \o b) = Len(a) + Len(b)
        /\ \A d \in 1 .. Len(a) : (a \o b)[d] = a[d]
        /\ \A d \in 1 .. Len(b) : (a \o b)[Len(a) + d] = b[d]
    <3>1. \A x, y \in Seq(V) :
            /\ x \o y \in Seq(V) /\ Len(x \o y) = Len(x) + Len(y)
            /\ \A d \in 1 .. Len(x) : (x \o y)[d] = x[d]
            /\ \A d \in 1 .. Len(y) : (x \o y)[Len(x) + d] = y[d]
      BY Joined
    <3> QED  BY <1>7, <3>1, Zenon
  <2>2. /\ a \o b \in Seq(V) /\ Len(a \o b) = 1 + c
        /\ \A d \in 1 .. 1 : (a \o b)[d] = a[d]
        /\ \A d \in 1 .. c : (a \o b)[1 + d] = b[d]
    BY <1>7, <1>9, <2>1, Zenon
  <2> QED  BY <2>2
<1>11. PICK g : g = Between(vals, k - 1, m)
  OBVIOUS
<1>12. g = [j \in 1 .. c + 1 |-> vals[(k - 1) + j]]
  BY <1>2, <1>11, Zenon DEF Between
<1>13. \A j \in 1 .. c + 1 : (a \o b)[j] = g[j]
  <2>1. ASSUME NEW j \in 1 .. c + 1 PROVE (a \o b)[j] = g[j]
    <3>1. g[j] = vals[(k - 1) + j]
      BY <1>12
    <3>2. CASE j = 1
      <4>1. (k - 1) + j = k
        BY <3>2
      <4> QED  BY <1>9, <1>10, <3>1, <3>2, <4>1, Zenon
    <3>3. CASE j # 1
      <4>1. PICK d \in 1 .. c : j = 1 + d /\ (k - 1) + j = k + d
        <5>1. j - 1 \in 1 .. c /\ j = 1 + (j - 1) /\ (k - 1) + j = k + (j - 1)
          BY <3>3
        <5> QED  BY <5>1
      <4> QED  BY <1>6, <1>10, <3>1, <4>1, Zenon
    <3> QED  BY <3>2, <3>3
  <2> QED  BY <2>1
<1>15. a \o b = g
  <2>1. PICK h \in Seq(V) : h = a \o b /\ Len(h) = c + 1
    <3>1. PICK l \in Nat : l = 1 + c /\ l = c + 1
      BY <1>1
    <3> QED  BY <1>10, <3>1, Zenon
  <2>2. h \in [1 .. c + 1 -> V]
    <3>1. h \in [1 .. Len(h) -> V]
      OBVIOUS
    <3> QED  BY <2>1, <3>1, Zenon
  <2>3. \A j \in 1 .. c + 1 : h[j] = g[j]
    BY <1>13, <2>1, Zenon
  <2>4. DOMAIN g = 1 .. c + 1 /\ g = [j \in 1 .. c + 1 |-> g[j]]
    BY <1>12
  <2>5. h = [j \in 1 .. c + 1 |-> h[j]]
    BY <2>2
  <2>6. h = g
    BY <2>3, <2>4, <2>5
  <2> QED  BY <2>1, <2>6, Zenon
<1> QED  BY <1>5, <1>9, <1>11, <1>15, Zenon

\* Whether a key is lost in one of the entries behind the i-th, up to the e-th.
LostIn(lost, i, e) == \E j \in lost : i < j /\ j <= e

\* What a loop that reads the entries behind the i-th, up to the e-th, comes to; one that
\* reads a stream may also end where the input does.
Streamed(r, s, kind, p, vals, lost, i, e) ==
  IF p[e] <= Len(s)
  THEN (IF LostIn(lost, i, e) THEN r.err = "index is nil" ELSE r = Got(Between(vals, i, e), p[e]))
  ELSE \/ LostIn(lost, i, e)
       \/ r.err = "missing bytes"
       \/ kind = "stream" /\ \E m \in i .. e - 1 : r = Got(Between(vals, i, m), p[m])

\* Where the entries begin and end: offsets that grow.
Offsets(p, n) == p \in [0 .. n -> Nat] /\ \A i \in 1 .. n : p[i - 1] < p[i]

\* One value for each.
Valued(vals, n) == \E V : vals \in [1 .. n -> V]

\* The same for every end.
LEMMA AllBetweenMore ==
  ASSUME NEW n \in Nat, NEW vals, Valued(vals, n), NEW k \in 1 .. n
  PROVE  \A m \in k .. n : <<vals[k]>> \o Between(vals, k, m) = Between(vals, k - 1, m)
<1>1. PICK V : vals \in [1 .. n -> V]
  BY DEF Valued
<1> QED  BY <1>1, BetweenMore

\* A turn that reads the first entry x, and what the others come to.
TurnIs(s, o, kind, x, v, q, rest, r) ==
  /\ (kind = "stream" /\ o >= Len(s)) => r = Got(<<>>, o)
  /\ (~(kind = "stream" /\ o >= Len(s)) /\ x.err # "none") => r = x
  /\ (~(kind = "stream" /\ o >= Len(s)) /\ x = Got(v, q) /\ rest.err # "none") => r = rest
  /\ \A vs, z : (~(kind = "stream" /\ o >= Len(s)) /\ x = Got(v, q) /\ rest = Got(vs, z))
                => r = Got(<<v>> \o vs, z)

\* The two outcomes of a turn in one formula.
LEMMA TurnByFirst ==
  ASSUME NEW s \in Seq(Symbols), NEW o \in Nat, NEW kind \in LoopKinds, NEW len \in Nat, len # 0, NEW v, NEW q
  PROVE  TurnIs(s, o, kind, First(s, o, kind, Loops(s)), v, q, Loops(s)[q][kind][len - 1], Loops(s)[o][kind][len])
<1>1. PICK x : x = First(s, o, kind, Loops(s))
  OBVIOUS
<1>2. PICK rest : rest = Loops(s)[q][kind][len - 1]
  OBVIOUS
<1>3. PICK r : r = Loops(s)[o][kind][len]
  OBVIOUS
<1>4. (kind = "stream" /\ o >= Len(s)) => r = Got(<<>>, o)
  BY <1>3, TurnOver
<1>5. (~(kind = "stream" /\ o >= Len(s)) /\ x.err # "none") => r = x
  <2>1. ASSUME ~(kind = "stream" /\ o >= Len(s)), First(s, o, kind, Loops(s)).err # "none"
        PROVE  Loops(s)[o][kind][len] = First(s, o, kind, Loops(s))
    BY <2>1, TurnFails
  <2> QED  BY <1>1, <1>3, <2>1, Zenon
<1>6. ASSUME ~(kind = "stream" /\ o >= Len(s)), x = Got(v, q)
      PROVE  /\ rest.err # "none" => r = rest
             /\ \A vs, z : rest = Got(vs, z) => r = Got(<<v>> \o vs, z)
  <2>1. First(s, o, kind, Loops(s)) = Got(v, q)
    BY <1>1, <1>6, Zenon
  <2>2. /\ rest.err # "none" => Loops(s)[o][kind][len] = rest
        /\ \A vs, z : rest = Got(vs, z) => Loops(s)[o][kind][len] = Got(<<v>> \o vs, z)
    BY <1>2, <1>6, <2>1, TurnMore
  <2> QED  BY <1>3, <2>2, Zenon
<1>7. TurnIs(s, o, kind, x, v, q, rest, r)
  BY <1>4, <1>5, <1>6, Zenon DEF TurnIs
<1> QED  BY <1>1, <1>2, <1>3, <1>7, Zenon

\* From the values behind the k-th to those behind the one before it.
LEMMA ItemsStep ==
  ASSUME NEW s, NEW L \in Nat, L = Len(s), NEW n \in Nat, NEW p, Offsets(p, n),
         NEW kind, NEW e \in 0 .. n, NEW vals, Valued(vals, n), NEW lost \in SUBSET (1 .. n),
         NEW k \in 1 .. e, NEW o, NEW q, o = p[k - 1], q = p[k], o <= L,
         NEW x, ReadAs(x, s, q, vals[k], k \in lost),
         NEW rest, q <= L => Streamed(rest, s, kind, p, vals, lost, k, e),
         NEW r, TurnIs(s, o, kind, x, vals[k], q, rest, r)
  PROVE  Streamed(r, s, kind, p, vals, lost, k - 1, e)
<1>more. \A m \in k .. n : <<vals[k]>> \o Between(vals, k, m) = Between(vals, k - 1, m)
  <2>1. k \in 1 .. n
    OBVIOUS
  <2> QED  BY <2>1, AllBetweenMore
<1>0. p \in [0 .. n -> Nat] /\ \A i \in 1 .. n : p[i - 1] < p[i]
  BY DEF Offsets
<1>1. PICK i \in 0 .. n : i = k - 1 /\ i < k /\ k <= e /\ i <= e - 1
  OBVIOUS
<1>2. o \in Nat /\ q \in Nat /\ o < q
  <2>1. p[k - 1] \in Nat /\ p[k] \in Nat /\ p[k - 1] < p[k]
    BY <1>0
  <2> QED  BY <2>1, Zenon
<1>3. PICK z \in Nat : z = p[e] /\ q <= z
  <2>1. PICK z \in Nat : z = p[e]
    BY <1>0
  <2>2. CASE k = e
    <3>1. z = q
      BY <2>1, <2>2, Zenon
    <3> QED  BY <1>2, <2>1, <3>1
  <2>3. CASE k < e
    <3>1. p[k] < p[e]
      <4>1. k \in 0 .. n
        OBVIOUS
      <4>2. \A a, b \in 0 .. n : a < b => p[a] < p[b]
        BY <1>0, Growing
      <4> QED  BY <2>3, <4>1, <4>2, Zenon
    <3>2. q < z
      BY <2>1, <3>1, Zenon
    <3> QED  BY <1>2, <2>1, <3>2
  <2> QED  BY <2>2, <2>3
<1>5. /\ (kind = "stream" /\ o >= L) => r = Got(<<>>, o)
      /\ (~(kind = "stream" /\ o >= L) /\ x.err # "none") => r = x
      /\ (~(kind = "stream" /\ o >= L) /\ x = Got(vals[k], q) /\ rest.err # "none") => r = rest
      /\ \A vs, y : (~(kind = "stream" /\ o >= L) /\ x = Got(vals[k], q) /\ rest = Got(vs, y))
                    => r = Got(<<vals[k]>> \o vs, y)
  BY Zenon DEF TurnIs
<1>8. SUFFICES IF z <= L
               THEN (IF LostIn(lost, i, e) THEN r.err = "index is nil" ELSE r = Got(Between(vals, i, e), z))
               ELSE \/ LostIn(lost, i, e)
                    \/ r.err = "missing bytes"
                    \/ kind = "stream" /\ \E m \in i .. e - 1 : r = Got(Between(vals, i, m), p[m])
  BY <1>1, <1>3, Zenon DEF Streamed
<1>9. /\ q <= L /\ k \in lost => x.err = "index is nil"
      /\ q <= L /\ k \notin lost => x = Got(vals[k], q)
      /\ ~(q <= L) /\ k \notin lost => x.err = "missing bytes"
  BY Zenon DEF ReadAs
<1>10. ASSUME q <= L
       PROVE  /\ z <= L /\ LostIn(lost, k, e) => rest.err = "index is nil"
              /\ z <= L /\ ~LostIn(lost, k, e) => rest = Got(Between(vals, k, e), z)
              /\ ~(z <= L) => \/ LostIn(lost, k, e)
                              \/ rest.err = "missing bytes"
                              \/ kind = "stream" /\ \E m \in k .. e - 1 : rest = Got(Between(vals, k, m), p[m])
  BY <1>3, <1>10, Zenon DEF Streamed
<1>11. k \in lost => LostIn(lost, i, e)
  BY <1>1 DEF LostIn
<1>12. k \notin lost => (LostIn(lost, i, e) <=> LostIn(lost, k, e))
  <2>1. \A j \in lost : j \in Int
    OBVIOUS
  <2>2. ASSUME k \notin lost PROVE \A j \in lost : i < j <=> k < j
    BY <1>1, <2>1, <2>2
  <2> QED  BY <2>2, Zenon DEF LostIn
<1>13. CASE kind = "stream" /\ o >= L
  <2>1. o = L /\ ~(z <= L)
    BY <1>2, <1>3, <1>13
  <2>3. r = Got(Between(vals, i, i), p[i])
    <3>1. Between(vals, i, i) = <<>>
      BY BetweenNone
    <3>2. p[i] = o
      BY <1>1, Zenon
    <3> QED  BY <1>5, <1>13, <3>1, <3>2, Zenon
  <2>4. i \in i .. e - 1
    BY <1>1
  <2> QED  BY <1>13, <2>1, <2>3, <2>4, Zenon
<1>14. CASE ~(kind = "stream" /\ o >= L) /\ x.err # "none"
  <2>1. r = x
    BY <1>5, <1>14, Zenon
  <2>2. CASE q <= L
    <3>1. k \in lost
      <4>1. Got(vals[k], q).err = "none"
        BY DEF Got
      <4> QED  BY <1>9, <1>14, <2>2, <4>1, Zenon
    <3> QED  BY <1>9, <1>11, <2>1, <2>2, <3>1, Zenon
  <2>3. CASE ~(q <= L)
    <3>1. ~(z <= L)
      BY <1>2, <1>3, <2>3
    <3> QED  BY <1>9, <1>11, <2>1, <2>3, <3>1, Zenon
  <2> QED  BY <2>2, <2>3
<1>15. CASE ~(kind = "stream" /\ o >= L) /\ x.err = "none"
  <2>1. CASE ~(q <= L)
    <3>1. ~(z <= L)
      BY <1>2, <1>3, <2>1
    <3>2. k \in lost
      <4>1. "none" # "missing bytes"
        OBVIOUS
      <4> QED  BY <1>9, <1>15, <2>1, <4>1, Zenon
    <3> QED  BY <1>11, <3>1, <3>2, Zenon
  <2>2. CASE q <= L
    <3>1. k \notin lost /\ x = Got(vals[k], q)
      <4>1. "none" # "index is nil"
        OBVIOUS
      <4> QED  BY <1>9, <1>15, <2>2, <4>1, Zenon
    <3>2. /\ rest.err # "none" => r = rest
          /\ \A vs, y : rest = Got(vs, y) => r = Got(<<vals[k]>> \o vs, y)
      BY <1>5, <1>15, <3>1, Zenon
    <3>3. \A m \in k .. n : <<vals[k]>> \o Between(vals, k, m) = Between(vals, i, m)
      <4>1. \A m \in k .. n : <<vals[k]>> \o Between(vals, k, m) = Between(vals, k - 1, m)
        BY <1>more
      <4> QED  BY <1>1, <4>1, Zenon
    <3>4. "index is nil" # "none" /\ "missing bytes" # "none" /\ e \in k .. n
      OBVIOUS
    <3>5. CASE z <= L
      BY <1>10, <1>12, <2>2, <3>1, <3>2, <3>3, <3>4, <3>5, Zenon
    <3>6. CASE ~(z <= L) /\ rest.err = "missing bytes"
      BY <3>2, <3>4, <3>6, Zenon
    <3>7. CASE ~(z <= L) /\ rest.err # "missing bytes"
      <4>1. CASE LostIn(lost, k, e)
        BY <1>12, <3>1, <3>7, <4>1, Zenon
      <4>2. CASE ~LostIn(lost, k, e)
        <5>1. kind = "stream" /\ \E m \in k .. e - 1 : rest = Got(Between(vals, k, m), p[m])
          BY <1>10, <2>2, <3>7, <4>2, Zenon
        <5>2. PICK m \in k .. e - 1 : rest = Got(Between(vals, k, m), p[m])
          BY <5>1
        <5>3. m \in i .. e - 1 /\ m \in k .. n
          BY <1>1
        <5>4. r = Got(Between(vals, i, m), p[m])
          BY <3>2, <3>3, <5>2, <5>3, Zenon
        <5> QED  BY <3>7, <5>1, <5>3, <5>4, Zenon
      <4> QED  BY <4>1, <4>2
    <3> QED  BY <3>5, <3>6, <3>7, Zenon
  <2> QED  BY <2>1, <2>2
<1> QED  BY <1>13, <1>14, <1>15, Zenon

\* From the offsets in p on, each entry is read as the value and with the loss it has.
ItemsRead(s, n, p, kind, vals, lost) ==
  /\ Offsets(p, n) /\ Valued(vals, n) /\ lost \in SUBSET (1 .. n)
  /\ \A i \in 1 .. n : p[i - 1] <= Len(s) =>
       ReadAs(First(s, p[i - 1], kind, Loops(s)), s, p[i], vals[i], i \in lost)

\* A loop that has counted down, or has no bytes left, reads nothing more.
LEMMA ItemsEnd ==
  ASSUME NEW s \in Seq(Symbols), NEW n \in Nat, NEW p, Offsets(p, n),
         NEW kind \in LoopKinds, NEW K \in Nat, NEW e \in 0 .. n,
         e = K \/ (kind = "stream" /\ e = n /\ n <= K /\ Len(s) <= p[n]),
         NEW vals, NEW lost \in SUBSET (1 .. n), p[e] <= Len(s)
  PROVE  Streamed(Loops(s)[p[e]][kind][K - e], s, kind, p, vals, lost, e, e)
<1>1. PICK o \in Nat : o = p[e]
  BY DEF Offsets
<1>2. PICK len \in Nat : len = K - e
  <2>1. K - e \in Nat
    OBVIOUS
  <2> QED  BY <2>1
<1>3. len = 0 \/ (kind = "stream" /\ o >= Len(s))
  <2>1. CASE e = K
    BY <1>2, <2>1
  <2>2. CASE kind = "stream" /\ e = n /\ Len(s) <= p[n]
    <3>1. Len(s) <= o /\ Len(s) \in Nat
      BY <1>1, <2>2, Zenon, LenProperties
    <3> QED  BY <2>2, <3>1
  <2> QED  BY <2>1, <2>2
<1>4. Loops(s)[o][kind][len] = Got(<<>>, o)
  BY <1>3, TurnOver
<1>5. Between(vals, e, e) = <<>>
  BY BetweenNone
<1>6. ~LostIn(lost, e, e)
  BY DEF LostIn
<1> QED  BY <1>1, <1>2, <1>4, <1>5, <1>6, Zenon DEF Streamed

\* A loop started at any value reads those up to its end, unless one is refused.
LEMMA Items ==
  ASSUME NEW s \in Seq(Symbols), NEW n \in Nat, NEW p, NEW kind \in LoopKinds, NEW vals, NEW lost,
         ItemsRead(s, n, p, kind, vals, lost), NEW K \in Nat, NEW e \in 0 .. n,
         e = K \/ (kind = "stream" /\ e = n /\ n <= K /\ Len(s) <= p[n])
  PROVE  \A i \in 0 .. e : p[i] <= Len(s) =>
           Streamed(Loops(s)[p[i]][kind][K - i], s, kind, p, vals, lost, i, e)
<1>1. Offsets(p, n) /\ Valued(vals, n) /\ lost \in SUBSET (1 .. n)
  BY DEF ItemsRead
<1>2. PICK L \in Nat : L = Len(s)
  OBVIOUS
<1> DEFINE T == {i \in 0 .. e : p[i] <= Len(s) => Streamed(Loops(s)[p[i]][kind][K - i], s, kind, p, vals, lost, i, e)}
<1>3. e \in T
  <2>1. ASSUME p[e] <= Len(s) PROVE Streamed(Loops(s)[p[e]][kind][K - e], s, kind, p, vals, lost, e, e)
    BY <1>1, <2>1, ItemsEnd
  <2>2. e \in 0 .. e
    OBVIOUS
  <2> QED  BY <2>1, <2>2, Zenon
<1>4. ASSUME NEW k \in 1 .. e, k \in T PROVE k - 1 \in T
  <2>0. k - 1 \in 0 .. e /\ k \in 1 .. n /\ k - 1 \in 0 .. n /\ k \in 0 .. n
    OBVIOUS
  <2>1. PICK o \in Nat, q \in Nat : o = p[k - 1] /\ q = p[k]
    BY <1>1, <2>0 DEF Offsets
  <2>2. SUFFICES ASSUME o <= L
                 PROVE  Streamed(Loops(s)[o][kind][K - (k - 1)], s, kind, p, vals, lost, k - 1, e)
    BY <1>2, <2>0, <2>1, Zenon
  <2>3. PICK len \in Nat : len = K - (k - 1) /\ len # 0 /\ len - 1 = K - k
    <3>1. e <= K
      OBVIOUS
    <3>2. K - (k - 1) \in Nat /\ K - (k - 1) # 0 /\ (K - (k - 1)) - 1 = K - k
      BY <3>1
    <3> QED  BY <3>2
  <2>4. PICK x : x = First(s, o, kind, Loops(s))
    OBVIOUS
  <2>5. PICK rest : rest = Loops(s)[q][kind][len - 1]
    OBVIOUS
  <2>6. PICK r : r = Loops(s)[o][kind][len]
    OBVIOUS
  <2>7. TurnIs(s, o, kind, x, vals[k], q, rest, r)
    <3>1. \A v : TurnIs(s, o, kind, First(s, o, kind, Loops(s)), v, q, Loops(s)[q][kind][len - 1], Loops(s)[o][kind][len])
      BY <2>3, TurnByFirst
    <3> QED  BY <2>4, <2>5, <2>6, <3>1, Zenon
  <2>8. ReadAs(x, s, q, vals[k], k \in lost)
    <3>1. p[k - 1] <= Len(s) => ReadAs(First(s, p[k - 1], kind, Loops(s)), s, p[k], vals[k], k \in lost)
      BY <2>0, Zenon DEF ItemsRead
    <3> QED  BY <1>2, <2>1, <2>2, <2>4, <3>1, Zenon
  <2>9. q <= L => Streamed(rest, s, kind, p, vals, lost, k, e)
    BY <1>2, <1>4, <2>1, <2>3, <2>5, Zenon
  <2>10. Streamed(r, s, kind, p, vals, lost, k - 1, e)
    BY <1>1, <1>2, <2>1, <2>2, <2>7, <2>8, <2>9, ItemsStep
  <2> QED  BY <2>3, <2>6, <2>10, Zenon
<1> HIDE DEF T
<1>5. \A k \in 0 .. e : k \in T
  BY <1>3, <1>4, DownFrom
<1> QED  BY <1>5 DEF T

\* As many different numbers as there are places take every place.
LEMMA AllTaken ==
  ASSUME NEW n \in Nat, NEW f \in [1 .. n -> 1 .. n], \A x, y \in 1 .. n : x # y => f[x] # f[y]
  PROVE  \A j \in 1 .. n : \E x \in 1 .. n : f[x] = j
<1>1. SUFFICES ASSUME NEW j \in 1 .. n, \A x \in 1 .. n : f[x] # j PROVE FALSE
  OBVIOUS
<1>2. PICK S : S = 1 .. n
  OBVIOUS
<1>3. IsFiniteSet(S) /\ Cardinality(S) = n
  <2>1. IsFiniteSet(1 .. n) /\ Cardinality(1 .. n) = n
    <3>1. /\ IsFiniteSet(1 .. n)
          /\ Cardinality(1 .. n) = IF 1 > n THEN 0 ELSE n - 1 + 1
      BY FS_Interval
    <3> QED  BY <3>1
  <2> QED  BY <1>2, <2>1, Zenon
<1>4. IsFiniteSet(S \ {j}) /\ Cardinality(S \ {j}) = n - 1
  <2>1. j \in S
    BY <1>2
  <2>2. IsFiniteSet(S \ {j}) /\ Cardinality(S \ {j}) = (IF j \in S THEN Cardinality(S) - 1 ELSE Cardinality(S))
    BY <1>3, FS_RemoveElement
  <2> QED  BY <1>3, <2>1, <2>2
<1>5. f \in [S -> S \ {j}]
  BY <1>1, <1>2
<1>6. Cardinality(S \ {j}) < Cardinality(S)
  BY <1>3, <1>4
<1>7. \E x, y \in S : x # y /\ f[x] = f[y]
  <2>1. PICK U : U = S \ {j}
    OBVIOUS
  <2>2. IsFiniteSet(S) /\ IsFiniteSet(U) /\ Cardinality(U) < Cardinality(S) /\ f \in [S -> U]
    BY <1>3, <1>4, <1>5, <1>6, <2>1, Zenon
  <2> QED  BY <2>2, FS_PigeonHole
<1> QED  BY <1>2, <1>7

\* table_is_an_array finds the tables whose keys are 1, 2, ... up to their number.
LEMMA ArrayIsList ==
  ASSUME NEW v \in Values, v.t = "table"
  PROVE  /\ TableIsAnArray(v.kv) <=> IsList(v.kv)
         /\ TableIsAnArray(v.kv) =>
              /\ \A x \in 1 .. Len(v.kv) : \E j \in 1 .. Len(v.kv) :
                   v.kv[x][1] = Number(j) /\ Entry(v.kv, j) = v.kv[x][2]
              /\ \A j \in 1 .. Len(v.kv) : \E x \in 1 .. Len(v.kv) :
                   v.kv[x][1] = Number(j) /\ Entry(v.kv, j) = v.kv[x][2]
<1>1. PICK kv : kv = v.kv
  OBVIOUS
<1>2. PICK n \in Nat : n = Len(kv) /\ DOMAIN kv = 1 .. n
  BY <1>1, TableParts
<1>3. \A x \in 1 .. n : kv[x][1] \in Values
  BY <1>1, <1>2, TableParts
<1>4. \A x, y \in 1 .. n : x # y /\ kv[x][1].t = "integer" => kv[x][1] # kv[y][1]
  BY <1>1, <1>2, TableParts
<1>5. \A u \in Values : u.t = "integer" => u = Number(u.n)
  BY ValueShape DEF Nil, Function
<1>6. ASSUME TableIsAnArray(kv)
      PROVE  /\ \A x \in 1 .. n : kv[x][1].n \in 1 .. n /\ kv[x][1] = Number(kv[x][1].n)
             /\ \A j \in 1 .. n : \E x \in 1 .. n : kv[x][1] = Number(j)
  <2>1. \A x \in 1 .. n : kv[x][1].t = "integer" /\ kv[x][1].n > 0 /\ kv[x][1].n <= n
    BY <1>2, <1>6, Zenon DEF TableIsAnArray
  <2>2. \A x \in 1 .. n : kv[x][1] = Number(kv[x][1].n)
    BY <1>3, <1>5, <2>1, Zenon
  <2>3. \A u \in Values : u.t = "integer" => u.n \in Int
    <3>1. \A u \in Values : u.t = "integer" => u.n \in -(Pow(8) \div 2) .. Pow(8) \div 2 - 1
      BY ValueShape DEF Nil, Function
    <3> QED  BY <3>1
  <2>4. \A x \in 1 .. n : kv[x][1].n \in 1 .. n
    <3>1. ASSUME NEW x \in 1 .. n PROVE kv[x][1].n \in 1 .. n
      <4>1. PICK m \in Int : m = kv[x][1].n
        BY <1>3, <2>1, <2>3
      <4>2. m > 0 /\ m <= n
        BY <2>1, <4>1, Zenon
      <4>3. m \in 1 .. n
        BY <4>2
      <4> QED  BY <4>1, <4>3, Zenon
    <3> QED  BY <3>1
  <2>5. PICK f : f = [x \in 1 .. n |-> kv[x][1].n]
    OBVIOUS
  <2>6. f \in [1 .. n -> 1 .. n] /\ \A x \in 1 .. n : f[x] = kv[x][1].n
    BY <2>4, <2>5
  <2>7. \A x, y \in 1 .. n : x # y => f[x] # f[y]
    <3>1. ASSUME NEW x \in 1 .. n, NEW y \in 1 .. n, x # y, f[x] = f[y] PROVE FALSE
      <4>1. kv[x][1] = Number(f[x]) /\ kv[y][1] = Number(f[y])
        BY <2>2, <2>6, Zenon
      <4>2. kv[x][1] = kv[y][1]
        BY <3>1, <4>1, Zenon
      <4> QED  BY <1>4, <2>1, <3>1, <4>2, Zenon
    <3> QED  BY <3>1
  <2>8. \A j \in 1 .. n : \E x \in 1 .. n : f[x] = j
    BY <2>6, <2>7, AllTaken
  <2>9. \A j \in 1 .. n : \E x \in 1 .. n : kv[x][1] = Number(j)
    <3>1. ASSUME NEW j \in 1 .. n PROVE \E x \in 1 .. n : kv[x][1] = Number(j)
      <4>1. PICK x \in 1 .. n : f[x] = j
        BY <2>8
      <4>2. kv[x][1] = Number(f[x])
        BY <2>2, <2>6, Zenon
      <4> QED  BY <4>1, <4>2, Zenon
    <3> QED  BY <3>1
  <2> QED  BY <2>2, <2>4, <2>9
<1>7. ASSUME NEW x \in 1 .. n, NEW j, kv[x][1] = Number(j) PROVE Entry(kv, j) = kv[x][2]
  <2>1. Number(j).t = "integer"
    BY DEF Number
  <2>2. \A y \in 1 .. n : kv[y][1] = Number(j) => y = x
    BY <1>4, <1>7, <2>1, Zenon
  <2>3. PICK y : y = CHOOSE z \in DOMAIN kv : kv[z][1] = Number(j)
    OBVIOUS
  <2>4. y \in 1 .. n /\ kv[y][1] = Number(j)
    BY <1>2, <1>7, <2>3, Zenon
  <2>5. y = x
    BY <2>2, <2>4, Zenon
  <2> QED  BY <1>2, <1>7, <2>3, <2>5, Zenon DEF Entry
<1>8. TableIsAnArray(kv) => IsList(kv)
  <2>1. ASSUME TableIsAnArray(kv) PROVE {kv[j][1] : j \in 1 .. n} = {Number(j) : j \in 1 .. n}
    <3>1. \A x \in 1 .. n : kv[x][1].n \in 1 .. n /\ kv[x][1] = Number(kv[x][1].n)
      BY <1>6, <2>1
    <3>2. \A j \in 1 .. n : \E x \in 1 .. n : kv[x][1] = Number(j)
      BY <1>6, <2>1
    <3>3. \A x \in 1 .. n : kv[x][1] \in {Number(j) : j \in 1 .. n}
      BY <3>1
    <3>4. \A j \in 1 .. n : Number(j) \in {kv[x][1] : x \in 1 .. n}
      BY <3>2
    <3> QED  BY <3>3, <3>4
  <2> QED  BY <1>2, <2>1, Zenon DEF IsList
<1>9. IsList(kv) => TableIsAnArray(kv)
  <2>1. SUFFICES ASSUME IsList(kv) PROVE TableIsAnArray(kv)
    OBVIOUS
  <2>2. {kv[j][1] : j \in 1 .. n} = {Number(j) : j \in 1 .. n}
    BY <1>2, <2>1, Zenon DEF IsList
  <2>3. \A x \in 1 .. n : \E j \in 1 .. n : kv[x][1] = Number(j)
    BY <2>2, Zenon
  <2>4. \A j \in 1 .. n : \E x \in 1 .. n : kv[x][1] = Number(j)
    BY <2>2, Zenon
  <2>5. \A j : Number(j).t = "integer" /\ Number(j).n = j
    BY DEF Number
  <2>6. \A x \in 1 .. n : kv[x][1].t = "integer" /\ kv[x][1].n \in 1 .. n
    <3>1. ASSUME NEW x \in 1 .. n PROVE kv[x][1].t = "integer" /\ kv[x][1].n \in 1 .. n
      <4>1. PICK j \in 1 .. n : kv[x][1] = Number(j)
        BY <2>3
      <4> QED  BY <2>5, <4>1, Zenon
    <3> QED  BY <3>1
  <2>7. \A x \in 1 .. n : kv[x][1].n > 0 /\ kv[x][1].n <= n
    <3>1. \A m \in 1 .. n : m > 0 /\ m <= n
      OBVIOUS
    <3> QED  BY <2>6, <3>1, Zenon
  <2>8. kv # <<>> => \E x \in 1 .. n : kv[x][1].n = n
    <3>1. kv # <<>> => n \in 1 .. n
      <4>1. kv \in Seq((Values \ {Nil}) \X (Values \ {Nil}))
        BY <1>1, TableParts
      <4>2. kv # <<>> => Len(kv) # 0
        BY <4>1
      <4>3. n # 0 => n \in 1 .. n
        OBVIOUS
      <4> QED  BY <1>2, <4>2, <4>3, Zenon
    <3> QED  BY <2>4, <2>5, <3>1, Zenon
  <2> QED  BY <1>2, <2>6, <2>7, <2>8, Zenon DEF TableIsAnArray
<1>10. ASSUME TableIsAnArray(kv)
       PROVE  /\ \A x \in 1 .. n : \E j \in 1 .. n : kv[x][1] = Number(j) /\ Entry(kv, j) = kv[x][2]
              /\ \A j \in 1 .. n : \E x \in 1 .. n : kv[x][1] = Number(j) /\ Entry(kv, j) = kv[x][2]
  BY <1>6, <1>7, <1>10, ZenonT(40)
<1> QED  BY <1>1, <1>2, <1>8, <1>9, <1>10, Zenon

\* The table that the values of a list make.
ArrayOf(n, vals) == Table(Present([j \in 1 .. n |-> <<Number(j), vals[j]>>]))

\* What comes of reading its entries as a.
AfterList(n, a) == IF a.err # "none" THEN a ELSE Got(ArrayOf(n, a.v), a.o)
AfterMap(a) == IF a.err # "none" THEN a ELSE Got(Table(Present(a.v)), a.o)

\* Decoding of the forms that announce a length.
LEMMA LenCases ==
  ASSUME NEW s, NEW n, NEW o, NEW loop
  PROVE  /\ \A k \in {"raw", "d9", "da", "db"} : DecodeCase(s, k, n, o, loop) =
              IF Needs(s, o, n) THEN Fails("missing bytes") ELSE Got(Str(SubSeq(s, o + 1, o + n)), o + n)
         /\ \A k \in {"array", "dc", "dd"} : DecodeCase(s, k, n, o, loop) = AfterList(n, loop[o]["array"][n])
         /\ \A k \in {"map", "de", "df"} : DecodeCase(s, k, n, o, loop) = AfterMap(loop[o]["hash"][n])
<1>1. ASSUME NEW k \in {"raw", "d9", "da", "db"}
      PROVE  DecodeCase(s, k, n, o, loop) =
               IF Needs(s, o, n) THEN Fails("missing bytes") ELSE Got(Str(SubSeq(s, o + 1, o + n)), o + n)
  BY DEF DecodeCase
<1>2. ASSUME NEW k \in {"array", "dc", "dd"}
      PROVE  DecodeCase(s, k, n, o, loop) = AfterList(n, loop[o]["array"][n])
  BY DEF DecodeCase, ArrayOf, AfterList
<1>3. ASSUME NEW k \in {"map", "de", "df"}
      PROVE  DecodeCase(s, k, n, o, loop) = AfterMap(loop[o]["hash"][n])
  BY DEF DecodeCase, AfterMap
<1> QED  BY <1>1, <1>2, <1>3, Zenon

\* b is behind a header that ends at q.
Opens(s, o, k, n, b, q) ==
  /\ q > o /\ q + Len(b) = o + Len(Coded(k, n) \o b) /\ Follows(s, q, b)
  /\ \A loop : DecodeType(s, o, loop) =
       IF q > Len(s) THEN Fails("missing bytes") ELSE DecodeCase(s, k, n, q, loop)

\* A header that has all of its number, and what is behind it.
LEMMA HeaderOf ==
  ASSUME NEW s \in Seq(Symbols), NEW o \in Nat, o <= Len(s), NEW k \in Kinds,
         NEW n \in Nat, Width(k) # 0 => n < Pow(Width(k)), NEW b \in Seq(Symbols),
         Follows(s, o, Coded(k, n) \o b)
  PROVE  \E q \in Nat : Opens(s, o, k, n, b, q)
<1>1. n \in Int /\ Width(k) \in Nat
  BY WidthType
<1>2. PICK w \in Nat : w = Width(k)
  BY <1>1
<1>3. PICK c \in Seq(Symbols) : c = Coded(k, n) /\ Len(c) = 1 + w
  BY <1>1, <1>2, CodedType
<1>4. Follows(s, o, c \o b)
  BY <1>3, Zenon
<1>5. Follows(s, o, c) /\ Follows(s, o + Len(c), b)
  BY <1>4, FollowsJoined
<1>6. PICK q \in Nat : q = o + 1 + w /\ q = o + Len(c) /\ q > o
  BY <1>2, <1>3
<1>7. q + Len(b) = o + Len(c \o b)
  <2>1. PICK x \in Nat : x = Len(b)
    OBVIOUS
  <2>2. Len(c \o b) = Len(c) + x
    BY <2>1, JoinedSymbols
  <2> QED  BY <1>3, <1>6, <2>1, <2>2
<1>8. (IF w = 0 THEN n ELSE n % Pow(w)) = n
  <2>1. ASSUME w # 0 PROVE n % Pow(w) = n
    <3>1. PICK p \in Nat : p = Pow(w) /\ p > 0
      <4>1. w \in {1, 2, 4, 8}
        BY <1>2, <2>1, WidthType
      <4>2. \A u \in {1, 2, 4, 8} : Pow(u) \in Nat /\ Pow(u) > 1
        BY Powers
      <4>3. Pow(w) \in Nat /\ Pow(w) > 1
        BY <4>1, <4>2, Zenon
      <4> QED  BY <4>3
    <3>2. n < p
      BY <1>2, <2>1, <3>1, Zenon
    <3>3. n \in 0 .. p - 1
      BY <3>1, <3>2
    <3> QED  BY <3>1, <3>3, SmallMod, Zenon
  <2> QED  BY <2>1, Zenon
<1>9. ASSUME NEW loop
      PROVE  DecodeType(s, o, loop) =
               IF q > Len(s) THEN Fails("missing bytes") ELSE DecodeCase(s, k, n, q, loop)
  <2>1. Follows(s, o, Coded(k, n))
    BY <1>3, <1>5, Zenon
  <2>2. o \in 0 .. Len(s)
    OBVIOUS
  <2>3. DecodeType(s, o, loop) =
           IF o + 1 + Width(k) > Len(s) THEN Fails("missing bytes")
           ELSE DecodeCase(s, k, IF Width(k) = 0 THEN n ELSE n % Pow(Width(k)), o + 1 + Width(k), loop)
    BY <1>1, <2>1, <2>2, HeaderRead
  <2> QED  BY <1>2, <1>6, <1>8, <2>3, Zenon
<1>10. Opens(s, o, k, n, b, q)
  BY <1>3, <1>5, <1>6, <1>7, <1>9, Zenon DEF Opens
<1> QED  BY <1>10

\* A value without contents is read back, whatever the loops.
LEMMA ReadScalar ==
  ASSUME NEW v \in Values, NEW level \in 0 .. MaxNesting, v.t # "string", v.t = "table" => level = MaxNesting,
         NEW s \in Seq(Symbols), NEW o \in Nat, o <= Len(s), Follows(s, o, Code(v, level)), NEW loop
  PROVE  ReadAs(DecodeType(s, o, loop), s, o + Len(Code(v, level)), Kept(v, level), LosesKey(v, level))
<1>1. PICK k \in Kinds, m \in Int :
           Code(v, level) = Coded(k, m) /\ (Width(k) = 0 => m \in Nat) /\ Holds(k, m, Kept(v, level))
  BY ScalarBytes
<1>2. PICK w \in Nat : w = Width(k) /\ Len(Coded(k, m)) = 1 + w
  <2>1. Len(Coded(k, m)) = 1 + Width(k)
    BY <1>1, CodedType
  <2>2. Width(k) \in Nat
    BY WidthType
  <2> QED  BY <2>1, <2>2
<1>3. DecodeType(s, o, loop) =
           IF o + 1 + Width(k) > Len(s) THEN Fails("missing bytes")
           ELSE DecodeCase(s, k, IF Width(k) = 0 THEN m ELSE m % Pow(Width(k)), o + 1 + Width(k), loop)
  <2>1. Follows(s, o, Coded(k, m))
    BY <1>1, Zenon
  <2>2. o \in 0 .. Len(s)
    OBVIOUS
  <2> QED  BY <1>1, <2>1, <2>2, HeaderRead
<1>4. PICK q \in Nat : q = o + 1 + w /\ q = o + Len(Code(v, level))
  <2>1. o + 1 + w \in Nat /\ o + 1 + w = o + (1 + w)
    OBVIOUS
  <2> QED  BY <1>1, <1>2, <2>1, Zenon
<1>5. DecodeType(s, o, loop) = IF q > Len(s) THEN Fails("missing bytes") ELSE Got(Kept(v, level), q)
  BY <1>1, <1>2, <1>3, <1>4, Zenon DEF Holds
<1>6. ~LosesKey(v, level)
  <2>1. LosesKey(v, level) = LoseType(v, level, Losing[level + 1])
    BY LoseBy DEF LosesKey
  <2>2. ~LoseType(v, level, Losing[level + 1])
    <3>1. ~(v.t = "table" /\ level < MaxNesting)
      BY MsgPackAssumption
    <3> QED  BY <3>1, Zenon DEF LoseType
  <2> QED  BY <2>1, <2>2, Zenon
<1>7. CASE q <= Len(s)
  <2>1. ~(q > Len(s))
    BY <1>7
  <2> QED  BY <1>4, <1>5, <1>6, <1>7, <2>1, Zenon DEF ReadAs
<1>8. CASE ~(q <= Len(s))
  <2>1. q > Len(s)
    BY <1>8
  <2>2. Fails("missing bytes").err = "missing bytes"
    BY DEF Fails
  <2> QED  BY <1>4, <1>5, <1>6, <1>8, <2>1, <2>2, Zenon DEF ReadAs
<1> QED  BY <1>7, <1>8

\* So is a string.
LEMMA ReadString ==
  ASSUME NEW v \in Values, NEW level \in 0 .. MaxNesting, v.t = "string",
         NEW s \in Seq(Symbols), NEW o \in Nat, o <= Len(s), Follows(s, o, Code(v, level)), NEW loop
  PROVE  ReadAs(DecodeType(s, o, loop), s, o + Len(Code(v, level)), Kept(v, level), LosesKey(v, level))
<1>1. PICK k \in {"raw", "d9", "da", "db"} :
           Code(v, level) = Coded(k, Len(v.s)) \o v.s /\ (Width(k) # 0 => Len(v.s) < Pow(Width(k)))
  BY StringBytes
<1>2. PICK x \in Seq(Symbols), n \in Nat : x = v.s /\ n = Len(x) /\ v = Str(x)
  BY StringCode
<1>3. k \in Kinds
  BY LenKinds
<1>4. \E q \in Nat : Opens(s, o, k, n, x, q)
  <2>1. Follows(s, o, Coded(k, n) \o x) /\ (Width(k) # 0 => n < Pow(Width(k)))
    BY <1>1, <1>2, Zenon
  <2> QED  BY <1>3, <2>1, HeaderOf
<1>5. PICK q \in Nat :
           /\ q > o /\ q + n = o + Len(Code(v, level)) /\ Follows(s, q, x)
           /\ DecodeType(s, o, loop) = IF q > Len(s) THEN Fails("missing bytes") ELSE DecodeCase(s, k, n, q, loop)
  BY <1>1, <1>2, <1>4, Zenon DEF Opens
<1>6. PICK L \in Nat : L = Len(s)
  OBVIOUS
<1>7. DecodeCase(s, k, n, q, loop) =
        IF L - q < n THEN Fails("missing bytes") ELSE Got(Str(SubSeq(s, q + 1, q + n)), q + n)
  <2>1. DecodeCase(s, k, n, q, loop) =
          IF Needs(s, q, n) THEN Fails("missing bytes") ELSE Got(Str(SubSeq(s, q + 1, q + n)), q + n)
    BY LenCases, ZenonT(40)
  <2> QED  BY <1>6, <2>1, Zenon DEF Needs
<1>8. q + n <= L => SubSeq(s, q + 1, q + n) = x
  <2>1. SUFFICES ASSUME q + n <= L PROVE SubSeq(s, q + 1, q + n) = x
    OBVIOUS
  <2>2. PICK y : y = SubSeq(s, q + 1, q + n)
    OBVIOUS
  <2>3. y \in Seq(Symbols) /\ Len(y) = n /\ \A d \in 1 .. n : y[d] = s[q + d]
    <3>1. \A d \in 1 .. n : (q + 1) + d - 1 = q + d
      OBVIOUS
    <3> QED  BY <1>6, <2>1, <2>2, <3>1
  <2>4. \A d \in 1 .. n : s[q + d] = x[d]
    <3>1. \A d \in 1 .. n : q + d <= L
      BY <2>1
    <3> QED  BY <1>2, <1>5, <1>6, <3>1, Zenon DEF Follows
  <2>5. \A d \in 1 .. n : y[d] = x[d]
    BY <2>3, <2>4, Zenon
  <2>6. y \in [1 .. n -> Symbols] /\ x \in [1 .. n -> Symbols]
    <3>1. y \in [1 .. Len(y) -> Symbols] /\ x \in [1 .. Len(x) -> Symbols]
      BY <2>3
    <3> QED  BY <1>2, <2>3, <3>1, Zenon
  <2>7. y = x
    BY <2>5, <2>6
  <2> QED  BY <2>2, <2>7, Zenon
<1>9. Kept(v, level) = Str(x) /\ ~LosesKey(v, level)
  <2>1. KeepType(v, level, Keeping[level + 1]) = v
    BY DEF KeepType
  <2>2. ~LoseType(v, level, Losing[level + 1])
    BY DEF LoseType
  <2>3. Kept(v, level) = v
    BY <2>1, KeepBy DEF Kept
  <2>4. LosesKey(v, level) = LoseType(v, level, Losing[level + 1])
    BY LoseBy DEF LosesKey
  <2> QED  BY <1>2, <2>2, <2>3, <2>4, Zenon
<1>10. Fails("missing bytes").err = "missing bytes"
  BY DEF Fails
<1>11. CASE q + n <= L
  <2>1. ~(q > L) /\ ~(L - q < n)
    BY <1>11
  <2> QED  BY <1>5, <1>6, <1>7, <1>8, <1>9, <1>11, <2>1, Zenon DEF ReadAs
<1>12. CASE ~(q + n <= L)
  <2>1. q > L \/ L - q < n
    BY <1>12
  <2>2. DecodeType(s, o, loop) = Fails("missing bytes")
    BY <1>5, <1>6, <1>7, <2>1, Zenon
  <2> QED  BY <1>5, <1>6, <1>9, <1>10, <1>12, <2>2, Zenon DEF ReadAs
<1> QED  BY <1>11, <1>12

\* What is kept of a table, and what is lost, by its entries.
LEMMA KeptTable ==
  ASSUME NEW v \in Values, v.t = "table", NEW level \in 0 .. MaxNesting, level # MaxNesting
  PROVE  Kept(v, level) =
           IF IsList(v.kv)
           THEN Table(Present([j \in 1 .. Len(v.kv) |-> <<Number(j), Kept(Entry(v.kv, j), level + 1)>>]))
           ELSE Table(Present([j \in 1 .. Len(v.kv) |-> <<Kept(v.kv[j][1], level + 1), Kept(v.kv[j][2], level + 1)>>]))
<1>1. DOMAIN v.kv = 1 .. Len(v.kv)
  BY TableParts
<1>2. PICK inner : inner = Keeping[level + 1]
  OBVIOUS
<1>3. Kept(v, level) = KeepType(v, level, inner)
  BY <1>2, KeepBy DEF Kept
<1>4. KeepType(v, level, inner) =
        Table(Present([j \in DOMAIN v.kv |->
         IF IsList(v.kv) THEN <<Number(j), inner[Entry(v.kv, j)]>>
         ELSE <<inner[v.kv[j][1]], inner[v.kv[j][2]]>>]))
  BY DEF KeepType
<1>5. CASE IsList(v.kv)
  <2>1. [j \in DOMAIN v.kv |-> IF IsList(v.kv) THEN <<Number(j), inner[Entry(v.kv, j)]>>
                               ELSE <<inner[v.kv[j][1]], inner[v.kv[j][2]]>>]
          = [j \in 1 .. Len(v.kv) |-> <<Number(j), Kept(Entry(v.kv, j), level + 1)>>]
    BY <1>1, <1>2, <1>5 DEF Kept
  <2> QED  BY <1>3, <1>4, <1>5, <2>1, Zenon
<1>6. CASE ~IsList(v.kv)
  <2>1. [j \in DOMAIN v.kv |-> IF IsList(v.kv) THEN <<Number(j), inner[Entry(v.kv, j)]>>
                               ELSE <<inner[v.kv[j][1]], inner[v.kv[j][2]]>>]
          = [j \in 1 .. Len(v.kv) |-> <<Kept(v.kv[j][1], level + 1), Kept(v.kv[j][2], level + 1)>>]
    BY <1>1, <1>2, <1>6 DEF Kept
  <2> QED  BY <1>3, <1>4, <1>6, <2>1, Zenon
<1> QED  BY <1>5, <1>6

\* Whether an entry of a map is lost.
LosesEntry(kv, j, level) ==
  Kept(kv[j][1], level) = Nil \/ LosesKey(kv[j][1], level) \/ LosesKey(kv[j][2], level)

\* Integers come back, never as nil, and are never refused.
LEMMA NumberKept ==
  ASSUME NEW v \in Values, v.t = "integer", NEW level \in 0 .. MaxNesting
  PROVE  Kept(v, level) # Nil /\ ~LosesKey(v, level)
<1>1. KeepType(v, level, Keeping[level + 1]) = v
  BY DEF KeepType
<1>2. ~LoseType(v, level, Losing[level + 1])
  BY DEF LoseType
<1>3. Kept(v, level) = v
  BY <1>1, KeepBy DEF Kept
<1>4. LosesKey(v, level) = LoseType(v, level, Losing[level + 1])
  BY LoseBy DEF LosesKey
<1>5. v # Nil
  BY DEF Nil
<1> QED  BY <1>2, <1>3, <1>4, <1>5, Zenon

\* A table is refused when one of its entries is.
LEMMA LosesTable ==
  ASSUME NEW v \in Values, v.t = "table", NEW level \in 0 .. MaxNesting, level # MaxNesting
  PROVE  /\ LosesKey(v, level) <=> \E j \in 1 .. Len(v.kv) : LosesEntry(v.kv, j, level + 1)
         /\ TableIsAnArray(v.kv) =>
              (LosesKey(v, level) <=> \E j \in 1 .. Len(v.kv) : LosesKey(Entry(v.kv, j), level + 1))
<1>1. DOMAIN v.kv = 1 .. Len(v.kv)
  BY TableParts
<1>2. level < MaxNesting /\ level + 1 \in 0 .. MaxNesting
  BY MsgPackAssumption
<1>3. LosesKey(v, level) = LoseType(v, level, Losing[level + 1])
  BY LoseBy DEF LosesKey
<1>4. \A F, x : (\E i \in 1 .. 2 : F[x[i]]) <=> (F[x[1]] \/ F[x[2]])
  <2>1. 1 .. 2 = {1, 2}
    OBVIOUS
  <2> QED  BY <2>1, Zenon
<1>5. LoseType(v, level, Losing[level + 1]) <=>
        \E j \in 1 .. Len(v.kv) :
          Kept(v.kv[j][1], level + 1) = Nil \/ Losing[level + 1][v.kv[j][1]] \/ Losing[level + 1][v.kv[j][2]]
  BY <1>1, <1>2, <1>4, Zenon DEF LoseType
<1>6. LosesKey(v, level) <=> \E j \in 1 .. Len(v.kv) : LosesEntry(v.kv, j, level + 1)
  BY <1>3, <1>5, Zenon DEF LosesEntry, LosesKey
<1>7. ASSUME TableIsAnArray(v.kv)
      PROVE  LosesKey(v, level) <=> \E j \in 1 .. Len(v.kv) : LosesKey(Entry(v.kv, j), level + 1)
  <2>1. /\ \A x \in 1 .. Len(v.kv) : \E j \in 1 .. Len(v.kv) :
                   v.kv[x][1] = Number(j) /\ Entry(v.kv, j) = v.kv[x][2]
        /\ \A j \in 1 .. Len(v.kv) : \E x \in 1 .. Len(v.kv) :
                   v.kv[x][1] = Number(j) /\ Entry(v.kv, j) = v.kv[x][2]
    BY <1>7, ArrayIsList
  <2>2. \A x \in 1 .. Len(v.kv) : Kept(v.kv[x][1], level + 1) # Nil /\ ~LosesKey(v.kv[x][1], level + 1)
    <3>1. ASSUME NEW x \in 1 .. Len(v.kv)
          PROVE  Kept(v.kv[x][1], level + 1) # Nil /\ ~LosesKey(v.kv[x][1], level + 1)
      <4>1. v.kv[x][1] \in Values
        BY <1>1, TableParts
      <4>2. v.kv[x][1].t = "integer"
        BY <1>1, <1>7, Zenon DEF TableIsAnArray
      <4> QED  BY <1>2, <4>1, <4>2, NumberKept
    <3> QED  BY <3>1
  <2>3. \A x \in 1 .. Len(v.kv) : LosesEntry(v.kv, x, level + 1) <=> LosesKey(v.kv[x][2], level + 1)
    BY <2>2, Zenon DEF LosesEntry
  <2>4. ASSUME LosesKey(v, level) PROVE \E j \in 1 .. Len(v.kv) : LosesKey(Entry(v.kv, j), level + 1)
    <3>1. PICK x \in 1 .. Len(v.kv) : LosesKey(v.kv[x][2], level + 1)
      BY <1>6, <2>3, <2>4, Zenon
    <3>2. PICK j \in 1 .. Len(v.kv) : Entry(v.kv, j) = v.kv[x][2]
      BY <2>1
    <3>3. LosesKey(Entry(v.kv, j), level + 1)
      BY <3>1, <3>2, Zenon
    <3> QED  BY <3>3
  <2>5. ASSUME NEW j \in 1 .. Len(v.kv), LosesKey(Entry(v.kv, j), level + 1) PROVE LosesKey(v, level)
    <3>1. PICK x \in 1 .. Len(v.kv) : Entry(v.kv, j) = v.kv[x][2]
      BY <2>1
    <3>2. LosesKey(v.kv[x][2], level + 1)
      BY <2>5, <3>1, Zenon
    <3> QED  BY <1>6, <2>3, <3>2, Zenon
  <2> QED  BY <2>4, <2>5, Zenon
<1> QED  BY <1>6, <1>7, Zenon

\* Each of the codes is read as the value and with the loss it has, wherever it is.
EachRead(s, cs, kind, vals, lost) ==
  \A i \in 1 .. Len(cs) : \A a \in Nat :
    (a <= Len(s) /\ Follows(s, a, cs[i])) =>
      ReadAs(First(s, a, kind, Loops(s)), s, a + Len(cs[i]), vals[i], i \in lost)

\* So are they one behind the other.
LEMMA PartsRead ==
  ASSUME NEW s \in Seq(Symbols), NEW q \in Nat, NEW cs \in Seq(Seq(Symbols)), NEW n \in Nat, n = Len(cs),
         Follows(s, q, FlattenSeq(cs)), \A i \in 1 .. n : Len(cs[i]) >= 1,
         NEW kind, NEW vals, Valued(vals, n), NEW lost \in SUBSET (1 .. n), EachRead(s, cs, kind, vals, lost)
  PROVE  \E p : ItemsRead(s, n, p, kind, vals, lost) /\ p[0] = q /\ p[n] = q + Len(FlattenSeq(cs))
<1>1. PICK p : /\ p \in [0 .. n -> Nat] /\ p[0] = q /\ p[n] = q + Len(FlattenSeq(cs))
               /\ \A i \in 1 .. n : p[i] = p[i - 1] + Len(cs[i]) /\ Follows(s, p[i - 1], cs[i])
  <2>1. \E f : PartsAt(s, q, cs, n, f)
    BY FollowedParts
  <2> QED  BY <2>1, Zenon DEF PartsAt
<1>2. \A i \in 1 .. n : p[i - 1] \in Nat /\ Len(cs[i]) \in Nat
  <2>1. \A i \in 1 .. n : i - 1 \in 0 .. n
    OBVIOUS
  <2>2. \A i \in 1 .. n : cs[i] \in Seq(Symbols)
    OBVIOUS
  <2>3. \A x \in Seq(Symbols) : Len(x) \in Nat
    OBVIOUS
  <2>4. \A j \in 0 .. n : p[j] \in Nat
    BY <1>1
  <2> QED  BY <2>1, <2>2, <2>3, <2>4, Zenon
<1>3. \A i \in 1 .. n : p[i - 1] < p[i]
  BY <1>1, <1>2
<1>4. Offsets(p, n)
  BY <1>1, <1>3, Zenon DEF Offsets
<1>5. \A i \in 1 .. n : p[i - 1] <= Len(s) =>
        ReadAs(First(s, p[i - 1], kind, Loops(s)), s, p[i], vals[i], i \in lost)
  <2>1. \A i \in 1 .. n : \A a \in Nat :
          (a <= Len(s) /\ Follows(s, a, cs[i])) =>
            ReadAs(First(s, a, kind, Loops(s)), s, a + Len(cs[i]), vals[i], i \in lost)
    BY Zenon DEF EachRead
  <2> QED  BY <1>1, <1>2, <2>1, Zenon
<1>6. ItemsRead(s, n, p, kind, vals, lost)
  BY <1>4, <1>5, Zenon DEF ItemsRead
<1> QED  BY <1>1, <1>6, Zenon

\* The entries of a table.
LEMMA EntriesRead ==
  ASSUME NEW s \in Seq(Symbols), NEW q \in Nat, q <= Len(s), NEW cs \in Seq(Seq(Symbols)), NEW n \in Nat, n = Len(cs),
         Follows(s, q, FlattenSeq(cs)), \A i \in 1 .. n : Len(cs[i]) >= 1,
         NEW kind \in {"array", "hash"}, NEW vals, Valued(vals, n), NEW lost \in SUBSET (1 .. n),
         EachRead(s, cs, kind, vals, lost)
  PROVE  ReadAs(Loops(s)[q][kind][n], s, q + Len(FlattenSeq(cs)), Between(vals, 0, n), lost # {})
<1>1. PICK p : ItemsRead(s, n, p, kind, vals, lost) /\ p[0] = q /\ p[n] = q + Len(FlattenSeq(cs))
  <2>1. \E f : ItemsRead(s, n, f, kind, vals, lost) /\ f[0] = q /\ f[n] = q + Len(FlattenSeq(cs))
    BY PartsRead, SMTT(30)
  <2> QED  BY <2>1, Zenon
<1>2. kind \in LoopKinds /\ kind # "stream"
  BY DEF LoopKinds
<1>3. \A i \in 0 .. n : p[i] <= Len(s) =>
           Streamed(Loops(s)[p[i]][kind][n - i], s, kind, p, vals, lost, i, n)
  <2>1. n \in 0 .. n
    OBVIOUS
  <2>2. ItemsRead(s, n, p, kind, vals, lost)
    BY <1>1, Zenon
  <2> QED  BY <1>2, <2>1, <2>2, Items
<1>4. Streamed(Loops(s)[q][kind][n], s, kind, p, vals, lost, 0, n)
  <2>1. 0 \in 0 .. n /\ n - 0 = n
    OBVIOUS
  <2>2. Streamed(Loops(s)[p[0]][kind][n - 0], s, kind, p, vals, lost, 0, n)
    BY <1>1, <1>3, <2>1, Zenon
  <2> QED  BY <1>1, <2>1, <2>2, Zenon
<1>5. LostIn(lost, 0, n) <=> lost # {}
  <2>1. \A j \in lost : 0 < j /\ j <= n
    OBVIOUS
  <2> QED  BY <2>1, Zenon DEF LostIn
<1> QED  BY <1>1, <1>2, <1>4, <1>5, Zenon DEF Streamed, ReadAs

\* Every value is read at this level.
ReadsAll(s, level) ==
  \A v \in Values : \A o \in Nat :
    (o <= Len(s) /\ Follows(s, o, Code(v, level))) =>
      ReadAs(DecodeType(s, o, Loops(s)), s, o + Len(Code(v, level)), Kept(v, level), LosesKey(v, level))

\* Entries of a list are read one by one, given that of the level below are.
LEMMA ListEach ==
  ASSUME NEW v \in Values, v.t = "table", NEW level \in 0 .. MaxNesting,
         NEW s \in Seq(Symbols), ReadsAll(s, level)
  PROVE  EachRead(s, ListCodes(v.kv, level), "array",
                  [j \in 1 .. Len(v.kv) |-> Kept(Entry(v.kv, j), level)],
                  {j \in 1 .. Len(v.kv) : LosesKey(Entry(v.kv, j), level)})
<1>1. PICK n \in Nat : n = Len(v.kv) /\ n = Len(ListCodes(v.kv, level))
  BY TableParts, ListCodesType
<1>2. PICK vals : vals = [j \in 1 .. n |-> Kept(Entry(v.kv, j), level)]
  OBVIOUS
<1>3. PICK lost : lost = {j \in 1 .. n : LosesKey(Entry(v.kv, j), level)}
  OBVIOUS
<1>4. PICK cs : cs = ListCodes(v.kv, level)
  OBVIOUS
<1>5. \A i \in 1 .. n : cs[i] = Code(Entry(v.kv, i), level) /\ vals[i] = Kept(Entry(v.kv, i), level)
  BY <1>1, <1>2, <1>4 DEF ListCodes
<1>6. \A i \in 1 .. n : i \in lost <=> LosesKey(Entry(v.kv, i), level)
  BY <1>3, Zenon
<1>7. ASSUME NEW i \in 1 .. n, NEW a \in Nat, a <= Len(s), Follows(s, a, cs[i])
      PROVE  ReadAs(First(s, a, "array", Loops(s)), s, a + Len(cs[i]), vals[i], i \in lost)
  <2>1. PICK u \in Values : u = Entry(v.kv, i)
    BY TableParts
  <2>2. cs[i] = Code(u, level) /\ vals[i] = Kept(u, level) /\ (i \in lost <=> LosesKey(u, level))
    BY <1>5, <1>6, <2>1, Zenon
  <2>3. ReadAs(DecodeType(s, a, Loops(s)), s, a + Len(Code(u, level)), Kept(u, level), LosesKey(u, level))
    BY <1>7, <2>2, Zenon DEF ReadsAll
  <2>4. First(s, a, "array", Loops(s)) = DecodeType(s, a, Loops(s))
    BY DEF First
  <2>5. ReadAs(First(s, a, "array", Loops(s)), s, a + Len(cs[i]), vals[i], LosesKey(u, level))
    BY <2>2, <2>3, <2>4, Zenon
  <2> QED  BY <2>2, <2>5, Zenon DEF ReadAs
<1>8. EachRead(s, cs, "array", vals, lost)
  BY <1>1, <1>4, <1>7, Zenon DEF EachRead
<1> QED  BY <1>1, <1>2, <1>3, <1>4, <1>8, Zenon

\* A key and its value are read as a pair, or refused.
LEMMA PairRead ==
  ASSUME NEW s \in Seq(Symbols), NEW level \in 0 .. MaxNesting, ReadsAll(s, level),
         NEW u \in Values, NEW w \in Values, NEW a \in Nat, a <= Len(s),
         Follows(s, a, Code(u, level) \o Code(w, level))
  PROVE  ReadAs(DecodePair(s, a, Loops(s)), s, a + Len(Code(u, level) \o Code(w, level)),
                <<Kept(u, level), Kept(w, level)>>,
                Kept(u, level) = Nil \/ LosesKey(u, level) \/ LosesKey(w, level))
<1>1. PICK c \in Seq(Symbols), d \in Seq(Symbols) : c = Code(u, level) /\ d = Code(w, level)
  BY CodeIn
<1>2. Follows(s, a, c) /\ Follows(s, a + Len(c), d)
  <2>1. Follows(s, a, c \o d)
    BY <1>1, Zenon
  <2> QED  BY <2>1, FollowsJoined
<1>3. PICK b \in Nat : b = a + Len(c)
  OBVIOUS
<1>4. PICK e \in Nat : e = b + Len(d) /\ e = a + Len(c \o d) /\ b <= e
  <2>1. PICK x \in Nat, y \in Nat : x = Len(c) /\ y = Len(d)
    OBVIOUS
  <2>2. Len(c \o d) = Len(c) + Len(d)
    BY JoinedSymbols
  <2>3. b + y \in Nat /\ b + y = a + (x + y) /\ b <= b + y
    BY <1>3, <2>1
  <2> QED  BY <2>1, <2>2, <2>3, Zenon
<1>5. PICK f : f = Loops(s)
  OBVIOUS
<1>6. PICK key : key = DecodeType(s, a, f)
  OBVIOUS
<1>7. PICK val : val = DecodeType(s, key.o, f)
  OBVIOUS
<1>8. PICK r : r = DecodePair(s, a, f)
  OBVIOUS
<1>9. r = IF key.err # "none" THEN key ELSE IF val.err # "none" THEN val
          ELSE IF key.v = Nil THEN Fails("index is nil") ELSE Got(<<key.v, val.v>>, val.o)
  BY <1>6, <1>7, <1>8, Zenon DEF DecodePair, PairOf
<1>10. PICK x, y : x = Kept(u, level) /\ y = Kept(w, level)
  OBVIOUS
<1>11. PICK L \in Nat : L = Len(s)
  OBVIOUS
<1>12. /\ b <= L /\ LosesKey(u, level) => key.err = "index is nil"
       /\ b <= L /\ ~LosesKey(u, level) => key = Got(x, b)
       /\ ~(b <= L) /\ ~LosesKey(u, level) => key.err = "missing bytes"
  <2>1. ReadAs(DecodeType(s, a, Loops(s)), s, a + Len(Code(u, level)), Kept(u, level), LosesKey(u, level))
    BY <1>1, <1>2, Zenon DEF ReadsAll
  <2> QED  BY <1>1, <1>3, <1>5, <1>6, <1>10, <1>11, <2>1, Zenon DEF ReadAs
<1>13. ASSUME b <= L, key = Got(x, b)
       PROVE  /\ e <= L /\ LosesKey(w, level) => val.err = "index is nil"
              /\ e <= L /\ ~LosesKey(w, level) => val = Got(y, e)
              /\ ~(e <= L) /\ ~LosesKey(w, level) => val.err = "missing bytes"
  <2>1. key.o = b
    BY <1>13 DEF Got
  <2>2. Follows(s, b, Code(w, level)) /\ b <= Len(s)
    BY <1>1, <1>2, <1>3, <1>11, <1>13, Zenon
  <2>3. ReadAs(DecodeType(s, b, Loops(s)), s, b + Len(Code(w, level)), Kept(w, level), LosesKey(w, level))
    BY <2>2, Zenon DEF ReadsAll
  <2> QED  BY <1>1, <1>4, <1>5, <1>7, <1>10, <1>11, <2>1, <2>3, Zenon DEF ReadAs
<1>14. /\ "index is nil" # "none" /\ "missing bytes" # "none" /\ "index is nil" # "missing bytes"
       /\ Fails("index is nil").err = "index is nil"
       /\ \A v, o : Got(v, o).err = "none" /\ Got(v, o).v = v /\ Got(v, o).o = o
  BY DEF Fails, Got
<1>15. SUFFICES IF e <= L
                THEN (IF x = Nil \/ LosesKey(u, level) \/ LosesKey(w, level) THEN r.err = "index is nil"
                      ELSE r = Got(<<x, y>>, e))
                ELSE ((x = Nil \/ LosesKey(u, level) \/ LosesKey(w, level)) \/ r.err = "missing bytes")
  BY <1>1, <1>4, <1>5, <1>8, <1>10, <1>11, Zenon DEF ReadAs
<1>16. CASE e <= L
  <2>1. b <= L
    BY <1>4, <1>16
  <2>2. CASE LosesKey(u, level)
    BY <1>9, <1>12, <1>14, <1>16, <2>1, <2>2, Zenon
  <2>3. CASE ~LosesKey(u, level)
    <3>1. key = Got(x, b) /\ key.err = "none" /\ key.v = x
      <4>1. key = Got(x, b)
        BY <1>12, <2>1, <2>3, Zenon
      <4>2. Got(x, b).err = "none" /\ Got(x, b).v = x
        BY <1>14, Zenon
      <4> QED  BY <4>1, <4>2, Zenon
    <3>2. CASE LosesKey(w, level)
      <4>1. val.err = "index is nil"
        BY <1>13, <1>16, <2>1, <3>1, <3>2, Zenon
      <4>2. r = val
        BY <1>9, <1>14, <3>1, <4>1, Zenon
      <4> QED  BY <1>16, <3>2, <4>1, <4>2, Zenon
    <3>3. CASE ~LosesKey(w, level)
      <4>1. val = Got(y, e)
        BY <1>13, <1>16, <2>1, <3>1, <3>3, Zenon
      <4>2. val.err = "none" /\ val.v = y /\ val.o = e
        BY <1>14, <4>1, Zenon
      <4>3. r = IF x = Nil THEN Fails("index is nil") ELSE Got(<<x, y>>, e)
        BY <1>9, <3>1, <4>2, Zenon
      <4> QED  BY <1>14, <1>16, <2>3, <3>3, <4>3, Zenon
    <3> QED  BY <3>2, <3>3
  <2> QED  BY <2>2, <2>3
<1>17. CASE ~(e <= L)
  <2>1. CASE LosesKey(u, level) \/ LosesKey(w, level)
    BY <1>17, <2>1, Zenon
  <2>2. CASE ~LosesKey(u, level) /\ ~LosesKey(w, level)
    <3>1. CASE b <= L
      <4>1. key = Got(x, b) /\ key.err = "none"
        <5>1. key = Got(x, b)
          BY <1>12, <2>2, <3>1, Zenon
        <5>2. Got(x, b).err = "none"
          BY <1>14, Zenon
        <5> QED  BY <5>1, <5>2, Zenon
      <4>2. val.err = "missing bytes"
        BY <1>13, <1>17, <2>2, <3>1, <4>1, Zenon
      <4>3. r = val
        BY <1>9, <1>14, <4>1, <4>2, Zenon
      <4> QED  BY <1>17, <4>2, <4>3, Zenon
    <3>2. CASE ~(b <= L)
      <4>1. key.err = "missing bytes"
        BY <1>12, <2>2, <3>2, Zenon
      <4>2. r = key
        BY <1>9, <1>14, <4>1, Zenon
      <4> QED  BY <1>17, <4>1, <4>2, Zenon
    <3> QED  BY <3>1, <3>2
  <2> QED  BY <2>1, <2>2, Zenon
<1> QED  BY <1>16, <1>17

\* Entries of a map are read one by one.
LEMMA MapEach ==
  ASSUME NEW v \in Values, v.t = "table", NEW level \in 0 .. MaxNesting,
         NEW s \in Seq(Symbols), ReadsAll(s, level)
  PROVE  EachRead(s, MapCodes(v.kv, level), "hash",
                  [j \in 1 .. Len(v.kv) |-> <<Kept(v.kv[j][1], level), Kept(v.kv[j][2], level)>>],
                  {j \in 1 .. Len(v.kv) : LosesEntry(v.kv, j, level)})
<1>1. PICK n \in Nat : n = Len(v.kv) /\ n = Len(MapCodes(v.kv, level)) /\ DOMAIN v.kv = 1 .. n
  BY TableParts, ListCodesType
<1>2. PICK vals : vals = [j \in 1 .. n |-> <<Kept(v.kv[j][1], level), Kept(v.kv[j][2], level)>>]
  OBVIOUS
<1>3. PICK lost : lost = {j \in 1 .. n : LosesEntry(v.kv, j, level)}
  OBVIOUS
<1>4. PICK cs : cs = MapCodes(v.kv, level)
  OBVIOUS
<1>5. \A i \in 1 .. n : cs[i] = Code(v.kv[i][1], level) \o Code(v.kv[i][2], level)
                     /\ vals[i] = <<Kept(v.kv[i][1], level), Kept(v.kv[i][2], level)>>
  BY <1>1, <1>2, <1>4 DEF MapCodes
<1>6. \A i \in 1 .. n : i \in lost <=> LosesEntry(v.kv, i, level)
  BY <1>3, Zenon
<1>7. ASSUME NEW i \in 1 .. n, NEW a \in Nat, a <= Len(s), Follows(s, a, cs[i])
      PROVE  ReadAs(First(s, a, "hash", Loops(s)), s, a + Len(cs[i]), vals[i], i \in lost)
  <2>1. PICK u \in Values, w \in Values : u = v.kv[i][1] /\ w = v.kv[i][2]
    BY <1>1, TableParts
  <2>2. cs[i] = Code(u, level) \o Code(w, level) /\ vals[i] = <<Kept(u, level), Kept(w, level)>>
    BY <1>5, <2>1, Zenon
  <2>3. i \in lost <=> (Kept(u, level) = Nil \/ LosesKey(u, level) \/ LosesKey(w, level))
    BY <1>6, <2>1, Zenon DEF LosesEntry
  <2>4. Follows(s, a, Code(u, level) \o Code(w, level))
    BY <1>7, <2>2, Zenon
  <2>5. ReadAs(DecodePair(s, a, Loops(s)), s, a + Len(Code(u, level) \o Code(w, level)),
                <<Kept(u, level), Kept(w, level)>>,
                Kept(u, level) = Nil \/ LosesKey(u, level) \/ LosesKey(w, level))
    BY <1>7, <2>4, PairRead
  <2>6. First(s, a, "hash", Loops(s)) = DecodePair(s, a, Loops(s))
    BY DEF First
  <2>7. ReadAs(First(s, a, "hash", Loops(s)), s, a + Len(cs[i]), vals[i],
               Kept(u, level) = Nil \/ LosesKey(u, level) \/ LosesKey(w, level))
    BY <2>2, <2>5, <2>6, Zenon
  <2> QED  BY <2>3, <2>7, Zenon DEF ReadAs
<1>8. EachRead(s, cs, "hash", vals, lost)
  BY <1>1, <1>4, <1>7, Zenon DEF EachRead
<1> QED  BY <1>1, <1>2, <1>3, <1>4, <1>8, Zenon

\* No entry is written in zero bytes.
LEMMA CodesNotEmpty ==
  ASSUME NEW v \in Values, v.t = "table", NEW level \in 0 .. MaxNesting
  PROVE  \A i \in 1 .. Len(v.kv) : Len(ListCodes(v.kv, level)[i]) >= 1 /\ Len(MapCodes(v.kv, level)[i]) >= 1
<1>1. SUFFICES ASSUME NEW i \in 1 .. Len(v.kv)
               PROVE  Len(ListCodes(v.kv, level)[i]) >= 1 /\ Len(MapCodes(v.kv, level)[i]) >= 1
  OBVIOUS
<1>2. ListCodes(v.kv, level)[i] = Code(Entry(v.kv, i), level)
  BY DEF ListCodes
<1>3. MapCodes(v.kv, level)[i] = Code(v.kv[i][1], level) \o Code(v.kv[i][2], level)
  BY DEF MapCodes
<1>4. PICK u \in Values, w \in Values, z \in Values : u = v.kv[i][1] /\ w = v.kv[i][2] /\ z = Entry(v.kv, i)
  BY TableParts
<1>5. Len(Code(z, level)) >= 1
  BY CodeNotEmpty
<1>6. PICK c \in Seq(Symbols), d \in Seq(Symbols) : c = Code(u, level) /\ d = Code(w, level) /\ Len(c) >= 1
  BY CodeNotEmpty
<1>7. Len(c \o d) >= 1
  <2>1. Len(c \o d) = Len(c) + Len(d)
    BY JoinedSymbols
  <2>2. Len(c) \in Nat /\ Len(d) \in Nat
    OBVIOUS
  <2> QED  BY <1>6, <2>1, <2>2
<1> QED  BY <1>2, <1>3, <1>4, <1>5, <1>6, <1>7, Zenon

\* Between the first and the last offset are all values.
LEMMA BetweenAll ==
  ASSUME NEW n \in Nat, NEW vals, vals = [j \in 1 .. n |-> vals[j]]
  PROVE  Between(vals, 0, n) = vals
<1>1. n - 0 = n /\ \A j \in 1 .. n : 0 + j = j
  OBVIOUS
<1>2. Between(vals, 0, n) = [j \in 1 .. n |-> vals[0 + j]]
  BY <1>1, Zenon DEF Between
<1>3. [j \in 1 .. n |-> vals[0 + j]] = [j \in 1 .. n |-> vals[j]]
  BY <1>1
<1> QED  BY <1>2, <1>3, Zenon

\* A list is read back.
LEMMA ReadList ==
  ASSUME NEW v \in Values, v.t = "table", NEW level \in 0 .. MaxNesting, level # MaxNesting,
         TableIsAnArray(v.kv), NEW s \in Seq(Symbols), ReadsAll(s, level + 1),
         NEW o \in Nat, o <= Len(s), Follows(s, o, Code(v, level))
  PROVE  ReadAs(DecodeType(s, o, Loops(s)), s, o + Len(Code(v, level)), Kept(v, level), LosesKey(v, level))
<1>1. level + 1 \in 0 .. MaxNesting
  BY MsgPackAssumption
<1>2. PICK n \in Nat : n = Len(v.kv)
  BY TableParts
<1>3. PICK cs \in Seq(Seq(Symbols)) : cs = ListCodes(v.kv, level + 1) /\ n = Len(cs)
  BY <1>1, <1>2, ListCodesType
<1>4. PICK b \in Seq(Symbols) : b = FlattenSeq(cs)
  BY FlattenedType
<1>5. PICK k \in {"array", "dc", "dd"} : Code(v, level) = Coded(k, n) \o b /\ (Width(k) # 0 => n < Pow(Width(k)))
  <2>1. PICK k \in {"array", "dc", "dd"} :
              /\ Code(v, level) = Coded(k, Len(v.kv)) \o FlattenSeq(ListCodes(v.kv, level + 1))
              /\ Width(k) # 0 => Len(v.kv) < Pow(Width(k))
    BY TableBytes
  <2> QED  BY <1>2, <1>3, <1>4, <2>1, Zenon
<1>6. PICK q \in Nat : Opens(s, o, k, n, b, q)
  <2>1. k \in Kinds
    BY LenKinds
  <2>2. Follows(s, o, Coded(k, n) \o b)
    BY <1>5, Zenon
  <2>3. \E q \in Nat : Opens(s, o, k, n, b, q)
    BY <1>5, <2>1, <2>2, HeaderOf
  <2> QED  BY <2>3
<1>7. PICK e \in Nat : e = q + Len(b) /\ e = o + Len(Code(v, level)) /\ q <= e
  <2>1. PICK x \in Nat : x = Len(b)
    OBVIOUS
  <2>2. q + x \in Nat /\ q <= q + x
    OBVIOUS
  <2> QED  BY <1>5, <1>6, <2>1, <2>2, Zenon DEF Opens
<1>8. PICK f : f = Loops(s)
  OBVIOUS
<1>9. PICK arr : arr = f[q]["array"][n]
  OBVIOUS
<1>10. PICK r : r = DecodeType(s, o, f)
  OBVIOUS
<1>11. PICK L \in Nat : L = Len(s)
  OBVIOUS
<1>12. PICK vals : vals = [j \in 1 .. n |-> Kept(Entry(v.kv, j), level + 1)]
  OBVIOUS
<1>13. PICK lost : lost = {j \in 1 .. n : LosesKey(Entry(v.kv, j), level + 1)}
  OBVIOUS
<1>14. Kept(v, level) = ArrayOf(n, vals)
  <2>1. IsList(v.kv)
    BY ArrayIsList
  <2>2. Kept(v, level) =
          Table(Present([j \in 1 .. Len(v.kv) |-> <<Number(j), Kept(Entry(v.kv, j), level + 1)>>]))
    BY <2>1, KeptTable
  <2>3. [j \in 1 .. n |-> <<Number(j), Kept(Entry(v.kv, j), level + 1)>>] = [j \in 1 .. n |-> <<Number(j), vals[j]>>]
    BY <1>12
  <2> QED  BY <1>2, <2>2, <2>3, Zenon DEF ArrayOf
<1>15. LosesKey(v, level) <=> lost # {}
  <2>1. LosesKey(v, level) <=> \E j \in 1 .. n : LosesKey(Entry(v.kv, j), level + 1)
    BY <1>2, LosesTable, Zenon
  <2>2. lost # {} <=> \E j \in 1 .. n : LosesKey(Entry(v.kv, j), level + 1)
    BY <1>13, Zenon
  <2> QED  BY <2>1, <2>2, Zenon
<1>16. q <= L => ReadAs(arr, s, e, vals, lost # {})
  <2>1. SUFFICES ASSUME q <= L PROVE ReadAs(arr, s, e, vals, lost # {})
    OBVIOUS
  <2>2. EachRead(s, cs, "array", vals, lost)
    BY <1>1, <1>2, <1>3, <1>12, <1>13, ListEach, Zenon
  <2>3. \A i \in 1 .. n : Len(cs[i]) >= 1
    BY <1>1, <1>2, <1>3, CodesNotEmpty, Zenon
  <2>4. vals \in [1 .. n -> {vals[j] : j \in 1 .. n}] /\ lost \in SUBSET (1 .. n)
    BY <1>12, <1>13
  <2>5. Valued(vals, n)
    BY <2>4, Zenon DEF Valued
  <2>6. Follows(s, q, FlattenSeq(cs)) /\ q <= Len(s)
    BY <1>4, <1>6, <1>11, <2>1, Zenon DEF Opens
  <2>7. ReadAs(Loops(s)[q]["array"][n], s, q + Len(FlattenSeq(cs)), Between(vals, 0, n), lost # {})
    BY <1>3, <2>2, <2>3, <2>4, <2>5, <2>6, EntriesRead
  <2>8. Between(vals, 0, n) = vals
    BY <1>12, BetweenAll
  <2> QED  BY <1>4, <1>7, <1>8, <1>9, <2>7, <2>8, Zenon
<1>17. r = IF q > L THEN Fails("missing bytes") ELSE DecodeCase(s, k, n, q, f)
  BY <1>6, <1>8, <1>10, <1>11, Zenon DEF Opens
<1>18. DecodeCase(s, k, n, q, f) =
         IF arr.err # "none" THEN arr ELSE Got(ArrayOf(n, arr.v), arr.o)
  <2>1. DecodeCase(s, k, n, q, f) = AfterList(n, f[q]["array"][n])
    BY LenCases, ZenonT(60)
  <2> QED  BY <1>9, <2>1, Zenon DEF AfterList
<1>19. /\ "index is nil" # "none" /\ "missing bytes" # "none"
       /\ Fails("missing bytes").err = "missing bytes"
       /\ Got(vals, e).err = "none" /\ Got(vals, e).v = vals /\ Got(vals, e).o = e
  BY DEF Fails, Got
<1>20. SUFFICES IF e <= L THEN (IF lost # {} THEN r.err = "index is nil" ELSE r = Got(Kept(v, level), e))
                ELSE (lost # {} \/ r.err = "missing bytes")
  BY <1>7, <1>8, <1>10, <1>11, <1>15, Zenon DEF ReadAs
<1>21. CASE q > L
  <2>1. ~(e <= L)
    BY <1>7, <1>21
  <2> QED  BY <1>17, <1>19, <1>21, <2>1, Zenon
<1>22. CASE ~(q > L)
  <2>1. q <= L
    BY <1>22
  <2>2. IF e <= L THEN (IF lost # {} THEN arr.err = "index is nil" ELSE arr = Got(vals, e))
        ELSE (lost # {} \/ arr.err = "missing bytes")
    BY <1>11, <1>16, <2>1, Zenon DEF ReadAs
  <2>3. r = IF arr.err # "none" THEN arr ELSE Got(ArrayOf(n, arr.v), arr.o)
    BY <1>17, <1>18, <1>22, Zenon
  <2>4. CASE e <= L /\ lost = {}
    <3>1. arr = Got(vals, e)
      BY <2>2, <2>4, Zenon
    <3>2. r = Got(ArrayOf(n, vals), e)
      BY <1>19, <2>3, <3>1, Zenon
    <3> QED  BY <1>14, <2>4, <3>2, Zenon
  <2>5. CASE e <= L /\ lost # {}
    BY <1>19, <2>2, <2>3, <2>5, Zenon
  <2>6. CASE ~(e <= L)
    BY <1>19, <2>2, <2>3, <2>6, Zenon
  <2> QED  BY <2>4, <2>5, <2>6, Zenon
<1> QED  BY <1>21, <1>22
\* A map is read back.
LEMMA ReadMap ==
  ASSUME NEW v \in Values, v.t = "table", NEW level \in 0 .. MaxNesting, level # MaxNesting,
         ~TableIsAnArray(v.kv), NEW s \in Seq(Symbols), ReadsAll(s, level + 1),
         NEW o \in Nat, o <= Len(s), Follows(s, o, Code(v, level))
  PROVE  ReadAs(DecodeType(s, o, Loops(s)), s, o + Len(Code(v, level)), Kept(v, level), LosesKey(v, level))
<1>1. level + 1 \in 0 .. MaxNesting
  BY MsgPackAssumption
<1>2. PICK n \in Nat : n = Len(v.kv)
  BY TableParts
<1>3. PICK cs \in Seq(Seq(Symbols)) : cs = MapCodes(v.kv, level + 1) /\ n = Len(cs)
  BY <1>1, <1>2, ListCodesType
<1>4. PICK b \in Seq(Symbols) : b = FlattenSeq(cs)
  BY FlattenedType
<1>5. PICK k \in {"map", "de", "df"} : Code(v, level) = Coded(k, n) \o b /\ (Width(k) # 0 => n < Pow(Width(k)))
  <2>1. PICK k \in {"map", "de", "df"} :
              /\ Code(v, level) = Coded(k, Len(v.kv)) \o FlattenSeq(MapCodes(v.kv, level + 1))
              /\ Width(k) # 0 => Len(v.kv) < Pow(Width(k))
    BY TableBytes
  <2> QED  BY <1>2, <1>3, <1>4, <2>1, Zenon
<1>6. PICK q \in Nat : Opens(s, o, k, n, b, q)
  <2>1. k \in Kinds
    BY LenKinds
  <2>2. Follows(s, o, Coded(k, n) \o b)
    BY <1>5, Zenon
  <2>3. \E q \in Nat : Opens(s, o, k, n, b, q)
    BY <1>5, <2>1, <2>2, HeaderOf
  <2> QED  BY <2>3
<1>7. PICK e \in Nat : e = q + Len(b) /\ e = o + Len(Code(v, level)) /\ q <= e
  <2>1. PICK x \in Nat : x = Len(b)
    OBVIOUS
  <2>2. q + x \in Nat /\ q <= q + x
    OBVIOUS
  <2> QED  BY <1>5, <1>6, <2>1, <2>2, Zenon DEF Opens
<1>8. PICK f : f = Loops(s)
  OBVIOUS
<1>9. PICK arr : arr = f[q]["hash"][n]
  OBVIOUS
<1>10. PICK r : r = DecodeType(s, o, f)
  OBVIOUS
<1>11. PICK L \in Nat : L = Len(s)
  OBVIOUS
<1>12. PICK vals : vals = [j \in 1 .. n |-> <<Kept(v.kv[j][1], level + 1), Kept(v.kv[j][2], level + 1)>>]
  OBVIOUS
<1>13. PICK lost : lost = {j \in 1 .. n : LosesEntry(v.kv, j, level + 1)}
  OBVIOUS
<1>14. Kept(v, level) = Table(Present(vals))
  <2>1. ~IsList(v.kv)
    BY ArrayIsList
  <2>2. Kept(v, level) =
          Table(Present([j \in 1 .. Len(v.kv) |-> <<Kept(v.kv[j][1], level + 1), Kept(v.kv[j][2], level + 1)>>]))
    BY <2>1, KeptTable
  <2> QED  BY <1>2, <1>12, <2>2, Zenon
<1>15. LosesKey(v, level) <=> lost # {}
  <2>1. LosesKey(v, level) <=> \E j \in 1 .. n : LosesEntry(v.kv, j, level + 1)
    BY <1>2, LosesTable, Zenon
  <2>2. lost # {} <=> \E j \in 1 .. n : LosesEntry(v.kv, j, level + 1)
    BY <1>13, Zenon
  <2> QED  BY <2>1, <2>2, Zenon
<1>16. q <= L => ReadAs(arr, s, e, vals, lost # {})
  <2>1. SUFFICES ASSUME q <= L PROVE ReadAs(arr, s, e, vals, lost # {})
    OBVIOUS
  <2>2. EachRead(s, cs, "hash", vals, lost)
    BY <1>1, <1>2, <1>3, <1>12, <1>13, MapEach, Zenon
  <2>3. \A i \in 1 .. n : Len(cs[i]) >= 1
    BY <1>1, <1>2, <1>3, CodesNotEmpty, Zenon
  <2>4. vals \in [1 .. n -> {vals[j] : j \in 1 .. n}] /\ lost \in SUBSET (1 .. n)
    BY <1>12, <1>13
  <2>5. Valued(vals, n)
    BY <2>4, Zenon DEF Valued
  <2>6. Follows(s, q, FlattenSeq(cs)) /\ q <= Len(s)
    BY <1>4, <1>6, <1>11, <2>1, Zenon DEF Opens
  <2>7. ReadAs(Loops(s)[q]["hash"][n], s, q + Len(FlattenSeq(cs)), Between(vals, 0, n), lost # {})
    BY <1>3, <2>2, <2>3, <2>4, <2>5, <2>6, EntriesRead
  <2>8. Between(vals, 0, n) = vals
    BY <1>12, BetweenAll
  <2> QED  BY <1>4, <1>7, <1>8, <1>9, <2>7, <2>8, Zenon
<1>17. r = IF q > L THEN Fails("missing bytes") ELSE DecodeCase(s, k, n, q, f)
  BY <1>6, <1>8, <1>10, <1>11, Zenon DEF Opens
<1>18. DecodeCase(s, k, n, q, f) =
         IF arr.err # "none" THEN arr ELSE Got(Table(Present(arr.v)), arr.o)
  <2>1. DecodeCase(s, k, n, q, f) = AfterMap(f[q]["hash"][n])
    BY LenCases, ZenonT(60)
  <2> QED  BY <1>9, <2>1, Zenon DEF AfterMap
<1>19. /\ "index is nil" # "none" /\ "missing bytes" # "none"
       /\ Fails("missing bytes").err = "missing bytes"
       /\ Got(vals, e).err = "none" /\ Got(vals, e).v = vals /\ Got(vals, e).o = e
  BY DEF Fails, Got
<1>20. SUFFICES IF e <= L THEN (IF lost # {} THEN r.err = "index is nil" ELSE r = Got(Kept(v, level), e))
                ELSE (lost # {} \/ r.err = "missing bytes")
  BY <1>7, <1>8, <1>10, <1>11, <1>15, Zenon DEF ReadAs
<1>21. CASE q > L
  <2>1. ~(e <= L)
    BY <1>7, <1>21
  <2> QED  BY <1>17, <1>19, <1>21, <2>1, Zenon
<1>22. CASE ~(q > L)
  <2>1. q <= L
    BY <1>22
  <2>2. IF e <= L THEN (IF lost # {} THEN arr.err = "index is nil" ELSE arr = Got(vals, e))
        ELSE (lost # {} \/ arr.err = "missing bytes")
    BY <1>11, <1>16, <2>1, Zenon DEF ReadAs
  <2>3. r = IF arr.err # "none" THEN arr ELSE Got(Table(Present(arr.v)), arr.o)
    BY <1>17, <1>18, <1>22, Zenon
  <2>4. CASE e <= L /\ lost = {}
    <3>1. arr = Got(vals, e)
      BY <2>2, <2>4, Zenon
    <3>2. r = Got(Table(Present(vals)), e)
      BY <1>19, <2>3, <3>1, Zenon
    <3> QED  BY <1>14, <2>4, <3>2, Zenon
  <2>5. CASE e <= L /\ lost # {}
    BY <1>19, <2>2, <2>3, <2>5, Zenon
  <2>6. CASE ~(e <= L)
    BY <1>19, <2>2, <2>3, <2>6, Zenon
  <2> QED  BY <2>4, <2>5, <2>6, Zenon
<1> QED  BY <1>21, <1>22
\* Every value is read as it was written, save what is lost, at every level.
LEMMA ReadValue ==
  ASSUME NEW s \in Seq(Symbols)
  PROVE  \A level \in 0 .. MaxNesting : ReadsAll(s, level)
<1> DEFINE T == {l \in 0 .. MaxNesting : ReadsAll(s, l)}
<1>1. MaxNesting \in Nat
  BY MsgPackAssumption
<1>2. ASSUME NEW level \in 0 .. MaxNesting, level # MaxNesting => ReadsAll(s, level + 1) PROVE ReadsAll(s, level)
  <2>1. ASSUME NEW v \in Values, NEW o \in Nat, o <= Len(s), Follows(s, o, Code(v, level))
        PROVE  ReadAs(DecodeType(s, o, Loops(s)), s, o + Len(Code(v, level)), Kept(v, level), LosesKey(v, level))
    <3>1. CASE v.t # "string" /\ (v.t = "table" => level = MaxNesting)
      BY <2>1, <3>1, ReadScalar
    <3>2. CASE v.t = "string"
      BY <2>1, <3>2, ReadString
    <3>3. CASE v.t = "table" /\ level # MaxNesting /\ TableIsAnArray(v.kv)
      BY <1>2, <2>1, <3>3, ReadList
    <3>4. CASE v.t = "table" /\ level # MaxNesting /\ ~TableIsAnArray(v.kv)
      BY <1>2, <2>1, <3>4, ReadMap
    <3> QED  BY <3>1, <3>2, <3>3, <3>4, Zenon
  <2> QED  BY <2>1, Zenon DEF ReadsAll
<1>3. MaxNesting \in T
  <2>1. MaxNesting \in 0 .. MaxNesting
    BY <1>1
  <2> QED  BY <1>2, <2>1, Zenon
<1>4. ASSUME NEW k \in 1 .. MaxNesting, k \in T PROVE k - 1 \in T
  <2>1. PICK l \in 0 .. MaxNesting : l = k - 1 /\ l + 1 = k
    BY <1>1
  <2>2. ReadsAll(s, l + 1)
    BY <1>4, <2>1, Zenon
  <2>3. ReadsAll(s, l)
    BY <1>2, <2>2, Zenon
  <2> QED  BY <2>1, <2>3, Zenon
<1> HIDE DEF T
<1>5. \A k \in 0 .. MaxNesting : k \in T
  BY <1>1, <1>3, <1>4, DownFrom
<1> QED  BY <1>5 DEF T

-----------------------------------------------------------------------------
(* Argument lists.                                                         *)

\* The bytes of each argument, and the arguments with a key that is lost.
ArgCodes(a) == [i \in DOMAIN a |-> Code(a[i], 0)]
LostArgs(a) == {i \in DOMAIN a : LosesKey(a[i], 0)}

\* A payload is the bytes of its arguments, one after the other.
LEMMA PackIsCodes == \A a : Pack(a) = FlattenSeq(ArgCodes(a))
BY Zenon DEF Pack, ArgCodes, Code, Encode

\* The arguments are byte strings, none of them empty.
LEMMA ArgCodesType ==
  ASSUME NEW a \in Seq(Values), NEW n \in Nat, n = Len(a)
  PROVE  /\ ArgCodes(a) \in Seq(Seq(Symbols)) /\ Len(ArgCodes(a)) = n
         /\ \A i \in 1 .. n : ArgCodes(a)[i] = Code(a[i], 0) /\ Len(ArgCodes(a)[i]) >= 1
         /\ Pack(a) \in Seq(Symbols)
<1>1. 0 \in 0 .. MaxNesting
  BY MsgPackAssumption
<1>2. DOMAIN a = 1 .. n /\ \A i \in 1 .. n : a[i] \in Values
  OBVIOUS
<1>3. \A i \in 1 .. n : Code(a[i], 0) \in Seq(Symbols) /\ Len(Code(a[i], 0)) >= 1
  BY <1>1, <1>2, CodeNotEmpty
<1>4. PICK cs : cs = ArgCodes(a)
  OBVIOUS
<1>5. cs \in [1 .. n -> Seq(Symbols)] /\ \A i \in 1 .. n : cs[i] = Code(a[i], 0)
  BY <1>2, <1>3, <1>4 DEF ArgCodes
<1>6. cs \in Seq(Seq(Symbols)) /\ Len(cs) = n
  BY <1>5
<1>7. \A i \in 1 .. n : Len(cs[i]) >= 1
  BY <1>3, <1>5, Zenon
<1>8. FlattenSeq(cs) \in Seq(Symbols)
  BY <1>6, FlattenedType
<1> QED  BY <1>4, <1>5, <1>6, <1>7, <1>8, PackIsCodes, Zenon

\* Each argument is read as it was kept or refused.
LEMMA ArgsEach ==
  ASSUME NEW a \in Seq(Values), NEW s \in Seq(Symbols)
  PROVE  EachRead(s, ArgCodes(a), "stream", KeptArgs(a), LostArgs(a))
<1>1. PICK n \in Nat : n = Len(a) /\ n = Len(ArgCodes(a)) /\ DOMAIN a = 1 .. n
  <2>1. PICK n \in Nat : n = Len(a) /\ DOMAIN a = 1 .. n
    OBVIOUS
  <2> QED  BY <2>1, ArgCodesType
<1>2. \A i \in 1 .. n : a[i] \in Values
  BY <1>1
<1>3. 0 \in 0 .. MaxNesting
  BY MsgPackAssumption
<1>4. PICK cs : cs = ArgCodes(a)
  OBVIOUS
<1>5. PICK vals : vals = KeptArgs(a)
  OBVIOUS
<1>6. PICK lost : lost = LostArgs(a)
  OBVIOUS
<1>7. \A i \in 1 .. n : cs[i] = Code(a[i], 0) /\ vals[i] = Kept(a[i], 0) /\ (i \in lost <=> LosesKey(a[i], 0))
  BY <1>1, <1>4, <1>5, <1>6 DEF ArgCodes, KeptArgs, LostArgs
<1>8. ReadsAll(s, 0)
  BY <1>3, ReadValue
<1>9. ASSUME NEW i \in 1 .. n, NEW o \in Nat, o <= Len(s), Follows(s, o, cs[i])
      PROVE  ReadAs(First(s, o, "stream", Loops(s)), s, o + Len(cs[i]), vals[i], i \in lost)
  <2>1. PICK u \in Values : u = a[i]
    BY <1>2
  <2>2. cs[i] = Code(u, 0) /\ vals[i] = Kept(u, 0) /\ (i \in lost <=> LosesKey(u, 0))
    BY <1>7, <2>1, Zenon
  <2>3. ReadAs(DecodeType(s, o, Loops(s)), s, o + Len(Code(u, 0)), Kept(u, 0), LosesKey(u, 0))
    BY <1>8, <1>9, <2>2, Zenon DEF ReadsAll
  <2>4. First(s, o, "stream", Loops(s)) = DecodeType(s, o, Loops(s))
    BY DEF First
  <2>5. ReadAs(First(s, o, "stream", Loops(s)), s, o + Len(cs[i]), vals[i], LosesKey(u, 0))
    BY <2>2, <2>3, <2>4, Zenon
  <2> QED  BY <2>2, <2>5, Zenon DEF ReadAs
<1>10. EachRead(s, cs, "stream", vals, lost)
  BY <1>1, <1>4, <1>9, Zenon DEF EachRead
<1> QED  BY <1>4, <1>5, <1>6, <1>10, Zenon

\* What PartsRead assumes.
Parted(s, q, cs, n, kind, vals, lost) ==
  /\ n = Len(cs) /\ Follows(s, q, FlattenSeq(cs)) /\ \A i \in 1 .. n : Len(cs[i]) >= 1
  /\ Valued(vals, n) /\ lost \in SUBSET (1 .. n) /\ EachRead(s, cs, kind, vals, lost)

\* Parts that stand in a row and are each read give a loop its values.
LEMMA PartedRead ==
  ASSUME NEW s \in Seq(Symbols), NEW q \in Nat, NEW cs \in Seq(Seq(Symbols)), NEW n \in Nat, NEW kind, NEW vals, NEW lost,
         Parted(s, q, cs, n, kind, vals, lost)
  PROVE  \E p : ItemsRead(s, n, p, kind, vals, lost) /\ p[0] = q /\ p[n] = q + Len(FlattenSeq(cs))
<1>1. /\ n = Len(cs) /\ Follows(s, q, FlattenSeq(cs)) /\ \A i \in 1 .. n : Len(cs[i]) >= 1
      /\ Valued(vals, n) /\ lost \in SUBSET (1 .. n) /\ EachRead(s, cs, kind, vals, lost)
  BY Zenon DEF Parted
<1> QED  BY <1>1, PartsRead

\* The bytes s are those of the arguments a, as far as they go, and p has the ends of the arguments.
Stream(s, a, n, p) ==
  /\ ItemsRead(s, n, p, "stream", KeptArgs(a), LostArgs(a)) /\ p[0] = 0 /\ p[n] = Len(Pack(a))
  /\ \A i \in 0 .. n : p[i] \in Nat /\ i <= p[i]

\* A byte string that starts with a payload is a stream of its arguments.
LEMMA ArgsRead ==
  ASSUME NEW a \in Seq(Values), NEW n \in Nat, n = Len(a), NEW s \in Seq(Symbols), Follows(s, 0, Pack(a))
  PROVE  \E p : Stream(s, a, n, p)
<1>1. PICK cs \in Seq(Seq(Symbols)) : cs = ArgCodes(a) /\ n = Len(cs) /\ \A i \in 1 .. n : Len(cs[i]) >= 1
  BY ArgCodesType
<1>2. Pack(a) = FlattenSeq(cs)
  BY <1>1, PackIsCodes, Zenon
<1>3. PICK vals : vals = KeptArgs(a)
  OBVIOUS
<1>4. PICK lost : lost = LostArgs(a)
  OBVIOUS
<1>5. EachRead(s, cs, "stream", vals, lost)
  BY <1>1, <1>3, <1>4, ArgsEach, Zenon
<1>6. DOMAIN a = 1 .. n
  OBVIOUS
<1>7. vals \in [1 .. n -> {Kept(a[i], 0) : i \in 1 .. n}] /\ lost \in SUBSET (1 .. n)
  BY <1>3, <1>4, <1>6 DEF KeptArgs, LostArgs
<1>8. Valued(vals, n)
  BY <1>7, Zenon DEF Valued
<1>9. Follows(s, 0, FlattenSeq(cs))
  BY <1>2, Zenon
<1>10. PICK z \in Nat : z = 0
  OBVIOUS
<1>11. \E p : ItemsRead(s, n, p, "stream", vals, lost) /\ p[0] = z /\ p[n] = z + Len(FlattenSeq(cs))
  <2>1. Follows(s, z, FlattenSeq(cs)) /\ n = Len(cs) /\ (\A i \in 1 .. n : Len(cs[i]) >= 1) /\ lost \in SUBSET (1 .. n)
    BY <1>1, <1>7, <1>9, <1>10, Zenon
  <2>2. Parted(s, z, cs, n, "stream", vals, lost)
    BY <1>5, <1>8, <2>1, Zenon DEF Parted
  <2> QED  BY <2>2, PartedRead
<1>12. PICK p : ItemsRead(s, n, p, "stream", vals, lost) /\ p[0] = z /\ p[n] = z + Len(FlattenSeq(cs))
  BY <1>11
<1>13. p[0] = 0 /\ p[n] = Len(Pack(a))
  <2>1. FlattenSeq(cs) \in Seq(Symbols)
    BY FlattenedType
  <2>2. PICK l \in Nat : l = Len(FlattenSeq(cs))
    BY <2>1
  <2>3. p[n] = z + l
    BY <1>12, <2>2, Zenon
  <2>4. p[n] = l
    BY <1>10, <2>3
  <2> QED  BY <1>2, <1>10, <1>12, <2>2, <2>4, Zenon
<1>14. p \in [0 .. n -> Nat] /\ \A i \in 1 .. n : p[i - 1] < p[i]
  BY <1>12, Zenon DEF ItemsRead, Offsets
<1> DEFINE T == {i \in 0 .. n : i <= p[i]}
<1>15. 0 \in T /\ \A i \in 0 .. n - 1 : i \in T => i + 1 \in T
  <2>1. 0 \in T
    BY <1>13
  <2>2. ASSUME NEW i \in 0 .. n - 1, i \in T PROVE i + 1 \in T
    <3>1. PICK j \in 1 .. n : j = i + 1 /\ j - 1 = i
      OBVIOUS
    <3>2. p[j - 1] < p[j]
      BY <1>14
    <3>3. PICK x \in Nat, y \in Nat : x = p[i] /\ y = p[j]
      <4>1. i \in 0 .. n /\ j \in 0 .. n
        OBVIOUS
      <4> QED  BY <1>14, <4>1
    <3>4. x < y /\ i <= x
      BY <2>2, <3>1, <3>2, <3>3, Zenon
    <3>5. j <= y
      BY <3>1, <3>4
    <3> QED  BY <3>1, <3>3, <3>5
  <2> QED  BY <2>1, <2>2
<1> HIDE DEF T
<1>16. \A i \in 0 .. n : i \in T
  BY <1>15, UpTo
<1>17. \A i \in 0 .. n : p[i] \in Nat /\ i <= p[i]
  BY <1>14, <1>16 DEF T
<1> QED  BY <1>3, <1>4, <1>12, <1>13, <1>17, Zenon DEF Stream

\* What mp_unpack_full returns.
Read(vs, next) == [vals |-> vs, err |-> "none", next |-> next]
Refused(why) == [vals |-> <<>>, err |-> why, next |-> -1]

\* A call of lua_unpack is a loop of streams, with the next offset or -1.
LEMMA UnpackRead ==
  ASSUME NEW s \in Seq(Symbols), NEW limit \in Nat, NEW offset \in Nat, offset <= Len(s),
         NEW K, K = IF limit = 0 /\ offset = 0 THEN Len(s) ELSE limit
  PROVE  \A r : r = Loops(s)[offset]["stream"][K] =>
           /\ r.err # "none" => UnpackFull(s, limit, offset) = Refused(r.err)
           /\ \A vs, y : r = Got(vs, y) => UnpackFull(s, limit, offset) = Read(vs, NextOffset(s, y))
<1>1. ~(offset > Len(s))
  <2>1. PICK l \in Nat : l = Len(s)
    OBVIOUS
  <2>2. offset <= l
    BY <2>1, Zenon
  <2>3. ~(offset > l)
    BY <2>2
  <2> QED  BY <2>1, <2>3, Zenon
<1>2. SUFFICES ASSUME NEW r, r = Loops(s)[offset]["stream"][K]
               PROVE  /\ r.err # "none" => UnpackFull(s, limit, offset) = Refused(r.err)
                      /\ \A vs, y : r = Got(vs, y) => UnpackFull(s, limit, offset) = Read(vs, NextOffset(s, y))
  BY Zenon
<1>3. UnpackFull(s, limit, offset) =
        IF offset > Len(s) THEN [vals |-> <<>>, err |-> "offset", next |-> -1]
        ELSE IF r.err # "none" THEN [vals |-> <<>>, err |-> r.err, next |-> -1]
        ELSE [vals |-> r.v, err |-> "none", next |-> NextOffset(s, r.o)]
  BY <1>2, Zenon DEF UnpackFull, Returned
<1>4. r.err # "none" => UnpackFull(s, limit, offset) = Refused(r.err)
  BY <1>1, <1>3, Zenon DEF Refused
<1>5. ASSUME NEW vs, NEW y, r = Got(vs, y) PROVE UnpackFull(s, limit, offset) = Read(vs, NextOffset(s, y))
  <2>1. r.err = "none" /\ r.v = vs /\ r.o = y
    BY <1>5 DEF Got
  <2> QED  BY <1>1, <1>3, <2>1, Zenon DEF Read
<1> QED  BY <1>4, <1>5, Zenon

\* The offsets of a stream and its values.
LEMMA StreamType ==
  ASSUME NEW s, NEW a, NEW n \in Nat, NEW p, Stream(s, a, n, p)
  PROVE  /\ ItemsRead(s, n, p, "stream", KeptArgs(a), LostArgs(a)) /\ p[0] = 0 /\ p[n] = Len(Pack(a))
         /\ p \in [0 .. n -> Nat] /\ (\A i \in 1 .. n : p[i - 1] < p[i])
         /\ (\A i \in 0 .. n : p[i] \in Nat /\ i <= p[i])
         /\ (\A i, j \in 0 .. n : i < j => p[i] < p[j])
         /\ Valued(KeptArgs(a), n) /\ LostArgs(a) \in SUBSET (1 .. n)
<1>1. ItemsRead(s, n, p, "stream", KeptArgs(a), LostArgs(a)) /\ p[0] = 0 /\ p[n] = Len(Pack(a))
      /\ \A i \in 0 .. n : p[i] \in Nat /\ i <= p[i]
  BY Zenon DEF Stream
<1>2. Offsets(p, n) /\ Valued(KeptArgs(a), n) /\ LostArgs(a) \in SUBSET (1 .. n)
  BY <1>1, Zenon DEF ItemsRead
<1>3. p \in [0 .. n -> Nat] /\ \A i \in 1 .. n : p[i - 1] < p[i]
  BY <1>2, Zenon DEF Offsets
<1>4. \A i, j \in 0 .. n : i < j => p[i] < p[j]
  BY <1>3, Growing
<1> QED  BY <1>1, <1>2, <1>3, <1>4, Zenon

\* Reading k values, or up to the end, from the i-th on.
LEMMA StreamFrom ==
  ASSUME NEW s \in Seq(Symbols), NEW a, NEW n \in Nat, NEW p, Stream(s, a, n, p), NEW K \in Nat, NEW e \in 0 .. n,
         e = K \/ (e = n /\ n <= K /\ Len(s) <= p[n])
  PROVE  \A i \in 0 .. e : p[i] <= Len(s) =>
           Streamed(Loops(s)[p[i]]["stream"][K - i], s, "stream", p, KeptArgs(a), LostArgs(a), i, e)
<1>1. ItemsRead(s, n, p, "stream", KeptArgs(a), LostArgs(a))
  BY StreamType
<1>2. PICK kind \in LoopKinds : kind = "stream"
  BY DEF LoopKinds
<1>3. ItemsRead(s, n, p, kind, KeptArgs(a), LostArgs(a))
  BY <1>1, <1>2, Zenon
<1>4. e = K \/ (kind = "stream" /\ e = n /\ n <= K /\ Len(s) <= p[n])
  BY <1>2, Zenon
<1>5. PICK vals, lost : vals = KeptArgs(a) /\ lost = LostArgs(a)
  OBVIOUS
<1>6. ItemsRead(s, n, p, kind, vals, lost)
  BY <1>3, <1>5, Zenon
<1>7. \A i \in 0 .. e : p[i] <= Len(s) =>
           Streamed(Loops(s)[p[i]][kind][K - i], s, kind, p, vals, lost, i, e)
  BY <1>4, <1>6, Items
<1> QED  BY <1>2, <1>5, <1>7, Zenon

\* As many values come out as went in.
LEMMA KeptLength ==
  ASSUME NEW a \in Seq(Values), NEW n \in Nat, n = Len(a)
  PROVE  /\ KeptArgs(a) = [i \in 1 .. n |-> KeptArgs(a)[i]] /\ Between(KeptArgs(a), 0, n) = KeptArgs(a)
         /\ \E V : KeptArgs(a) \in Seq(V)
         /\ Len(KeptArgs(a)) = n
<1>1. DOMAIN a = 1 .. n
  OBVIOUS
<1>2. PICK vals : vals = KeptArgs(a)
  OBVIOUS
<1>3. vals = [i \in 1 .. n |-> Kept(a[i], 0)]
  BY <1>1, <1>2, Zenon DEF KeptArgs
<1>4. vals = [i \in 1 .. n |-> vals[i]] /\ vals \in [1 .. n -> {Kept(a[i], 0) : i \in 1 .. n}]
  BY <1>3
<1>5. Between(vals, 0, n) = vals
  BY <1>4, BetweenAll
<1>6. vals \in Seq({Kept(a[i], 0) : i \in 1 .. n}) /\ Len(vals) = n
  BY <1>4
<1> QED  BY <1>2, <1>4, <1>5, <1>6, Zenon

\* A whole payload: all that was packed, or an error for a lost key.
LEMMA PackedRead ==
  ASSUME NEW a \in Seq(Values)
  PROVE  /\ LostArgs(a) = {} => Unpack(Pack(a)) = Read(KeptArgs(a), -1)
         /\ LostArgs(a) # {} => Unpack(Pack(a)) = Refused("index is nil")
<1>1. PICK n \in Nat : n = Len(a)
  OBVIOUS
<1>2. PICK s \in Seq(Symbols) : s = Pack(a)
  BY <1>1, ArgCodesType
<1>3. PICK L \in Nat : L = Len(s)
  OBVIOUS
<1>4. Follows(s, 0, Pack(a))
  <2>1. Follows(s, 0, s)
    BY DEF Follows
  <2> QED  BY <1>2, <2>1, Zenon
<1>5. PICK p : Stream(s, a, n, p)
  BY <1>1, <1>4, ArgsRead
<1>6. p[0] = 0 /\ p[n] = L /\ n <= L /\ LostArgs(a) \in SUBSET (1 .. n)
  <2>1. p[0] = 0 /\ p[n] = Len(Pack(a)) /\ LostArgs(a) \in SUBSET (1 .. n)
    BY <1>5, StreamType, ZenonT(40)
  <2>2. n <= p[n]
    <3>1. \A i \in 0 .. n : p[i] \in Nat /\ i <= p[i]
      BY <1>5, StreamType
    <3>2. n \in 0 .. n
      OBVIOUS
    <3> QED  BY <3>1, <3>2, Zenon
  <2>3. p[n] = L
    BY <1>2, <1>3, <2>1, Zenon
  <2> QED  BY <2>1, <2>2, <2>3, Zenon
<1>7. PICK r : r = Loops(s)[0]["stream"][L]
  OBVIOUS
<1>8. Streamed(r, s, "stream", p, KeptArgs(a), LostArgs(a), 0, n)
  <2>1. n \in 0 .. n /\ 0 \in 0 .. n /\ L - 0 = L /\ 0 <= L /\ L <= L
    OBVIOUS
  <2>2. n = L \/ (n = n /\ n <= L /\ Len(s) <= p[n])
    BY <1>3, <1>6, <2>1, Zenon
  <2>3. \A i \in 0 .. n : p[i] <= Len(s) =>
           Streamed(Loops(s)[p[i]]["stream"][L - i], s, "stream", p, KeptArgs(a), LostArgs(a), i, n)
    BY <1>5, <2>1, <2>2, StreamFrom
  <2>4. p[0] <= Len(s)
    BY <1>3, <1>6, <2>1, Zenon
  <2>5. Streamed(Loops(s)[p[0]]["stream"][L - 0], s, "stream", p, KeptArgs(a), LostArgs(a), 0, n)
    BY <2>1, <2>3, <2>4, Zenon
  <2> QED  BY <1>6, <1>7, <2>1, <2>5, Zenon
<1>9. IF LostIn(LostArgs(a), 0, n) THEN r.err = "index is nil" ELSE r = Got(KeptArgs(a), L)
  <2>1. L <= L
    OBVIOUS
  <2>2. p[n] <= Len(s)
    BY <1>3, <1>6, <2>1, Zenon
  <2>3. Between(KeptArgs(a), 0, n) = KeptArgs(a)
    BY <1>1, KeptLength
  <2> QED  BY <1>6, <1>8, <2>2, <2>3, Zenon DEF Streamed
<1>10. LostIn(LostArgs(a), 0, n) <=> LostArgs(a) # {}
  <2>1. PICK lost \in SUBSET (1 .. n) : lost = LostArgs(a)
    BY <1>6
  <2>2. \A j \in lost : 0 < j /\ j <= n
    OBVIOUS
  <2> QED  BY <2>1, <2>2, Zenon DEF LostIn
<1>11. /\ r.err # "none" => UnpackFull(s, 0, 0) = Refused(r.err)
       /\ \A vs, y : r = Got(vs, y) => UnpackFull(s, 0, 0) = Read(vs, NextOffset(s, y))
  <2>1. L = IF 0 = 0 /\ 0 = 0 THEN Len(s) ELSE 0
    BY <1>3, Zenon
  <2>2. 0 \in Nat /\ 0 <= Len(s)
    OBVIOUS
  <2>3. \A x : x = Loops(s)[0]["stream"][L] =>
           /\ x.err # "none" => UnpackFull(s, 0, 0) = Refused(x.err)
           /\ \A vs, y : x = Got(vs, y) => UnpackFull(s, 0, 0) = Read(vs, NextOffset(s, y))
    BY <2>1, <2>2, UnpackRead
  <2> QED  BY <1>7, <2>3, Zenon
<1>12. NextOffset(s, L) = -1
  BY <1>3, Zenon DEF NextOffset
<1>13. "index is nil" # "none"
  OBVIOUS
<1> QED  BY <1>2, <1>9, <1>10, <1>11, <1>12, <1>13, Zenon DEF Unpack

\* Fewer values are a strict prefix.
LEMMA FirstValues ==
  ASSUME NEW n \in Nat, NEW V, NEW vals \in Seq(V), n = Len(vals), NEW j \in 0 .. n - 1
  PROVE  IsStrictPrefix(Between(vals, 0, j), vals)
<1>1. j \in Nat /\ j - 0 = j /\ j < n /\ j <= n
  OBVIOUS
<1>2. \A i \in 1 .. j : 0 + i = i /\ i \in 1 .. n
  OBVIOUS
<1>3. \A i \in 1 .. j : vals[i] \in V
  BY <1>2
<1>4. Between(vals, 0, j) = [i \in 1 .. j |-> vals[0 + i]]
  BY <1>1, Zenon DEF Between
<1>5. PICK b : b = Between(vals, 0, j)
  OBVIOUS
<1>6. b \in [1 .. j -> V] /\ \A i \in 1 .. j : b[i] = vals[i]
  BY <1>2, <1>3, <1>4, <1>5
<1>7. b \in Seq(V) /\ Len(b) = j
  BY <1>1, <1>6
<1>8. SubSeq(b, 1, j) = [i \in 1 .. j |-> b[i]] /\ SubSeq(vals, 1, j) = [i \in 1 .. j |-> vals[i]]
  BY <1>1, <1>7
<1>9. [i \in 1 .. j |-> b[i]] = [i \in 1 .. j |-> vals[i]]
  BY <1>6
<1>10. Len(b) <= Len(vals)
  BY <1>1, <1>7
<1>11. b # vals
  <2>1. Len(b) # Len(vals)
    BY <1>1, <1>7
  <2> QED  BY <2>1, Zenon
<1>12. IsStrictPrefix(b, vals)
  BY <1>7, <1>8, <1>9, <1>10, <1>11, Zenon DEF IsStrictPrefix, IsPrefix
<1> QED  BY <1>5, <1>12, Zenon

\* A payload that was cut: an error, or the first values.
LEMMA CutRead ==
  ASSUME NEW a \in Seq(Values), LostArgs(a) = {}, NEW m \in Nat, m < Len(Pack(a))
  PROVE  \/ Unpack(SubSeq(Pack(a), 1, m)) = Refused("missing bytes")
         \/ \E vs, next : /\ Unpack(SubSeq(Pack(a), 1, m)) = Read(vs, next)
                          /\ IsStrictPrefix(vs, KeptArgs(a))
<1>1. PICK n \in Nat : n = Len(a)
  OBVIOUS
<1>2. PICK b \in Seq(Symbols) : b = Pack(a)
  BY <1>1, ArgCodesType
<1>3. PICK s \in Seq(Symbols) : s = SubSeq(Pack(a), 1, m) /\ Len(s) = m /\ \A i \in 1 .. m : s[i] = b[i]
  <2>1. m < Len(b)
    BY <1>2, Zenon
  <2>2. SubSeq(b, 1, m) \in Seq(Symbols) /\ Len(SubSeq(b, 1, m)) = m /\ \A i \in 1 .. m : SubSeq(b, 1, m)[i] = b[i]
    BY <2>1
  <2> QED  BY <1>2, <2>2, Zenon
<1>4. Follows(s, 0, Pack(a))
  <2>1. ASSUME NEW d \in 1 .. Len(b), 0 + d <= Len(s) PROVE s[0 + d] = b[d]
    <3>1. d \in 1 .. m /\ 0 + d = d
      BY <1>3, <2>1
    <3> QED  BY <1>3, <3>1, Zenon
  <2> QED  BY <1>2, <2>1, Zenon DEF Follows
<1>5. PICK p : Stream(s, a, n, p)
  BY <1>1, <1>4, ArgsRead
<1>6. p[0] = 0 /\ p[n] \in Nat /\ m < p[n]
  <2>1. p[0] = 0 /\ p[n] = Len(Pack(a))
    BY <1>5, StreamType, ZenonT(60)
  <2>2. Len(b) \in Nat
    OBVIOUS
  <2> QED  BY <1>2, <2>1, <2>2, Zenon
<1>7. PICK r : r = Loops(s)[0]["stream"][m]
  OBVIOUS
<1>8. PICK e \in 0 .. n : e = m \/ (e = n /\ n <= m)
  <2>1. CASE n <= m
    <3>1. n \in 0 .. n
      OBVIOUS
    <3> QED  BY <2>1, <3>1
  <2>2. CASE ~(n <= m)
    <3>1. m \in 0 .. n
      BY <2>2
    <3> QED  BY <3>1
  <2> QED  BY <2>1, <2>2
<1>9. Streamed(r, s, "stream", p, KeptArgs(a), LostArgs(a), 0, e)
  <2>1. m - 0 = m /\ 0 <= m /\ (e = n => m <= p[e]) /\ 0 \in 0 .. e
    BY <1>6
  <2>2. e = m \/ (e = n /\ n <= m /\ Len(s) <= p[n])
    BY <1>3, <1>8, <2>1, Zenon
  <2>3. \A i \in 0 .. e : p[i] <= Len(s) =>
           Streamed(Loops(s)[p[i]]["stream"][m - i], s, "stream", p, KeptArgs(a), LostArgs(a), i, e)
    BY <1>5, <2>2, StreamFrom
  <2>4. p[0] <= Len(s)
    BY <1>3, <1>6, <2>1, Zenon
  <2>5. Streamed(Loops(s)[p[0]]["stream"][m - 0], s, "stream", p, KeptArgs(a), LostArgs(a), 0, e)
    BY <2>1, <2>3, <2>4, Zenon
  <2> QED  BY <1>6, <1>7, <2>1, <2>5, Zenon
<1>10. ~LostIn(LostArgs(a), 0, e)
  BY DEF LostIn
<1>11. r.err = "missing bytes" \/ \E j \in 0 .. n - 1 : r = Got(Between(KeptArgs(a), 0, j), p[j])
  <2>1. CASE p[e] <= Len(s)
    <3>1. e # n
      <4>1. ~(p[n] <= m)
        BY <1>6
      <4> QED  BY <1>3, <2>1, <4>1, Zenon
    <3>2. e \in 0 .. n - 1
      BY <3>1
    <3>3. r = Got(Between(KeptArgs(a), 0, e), p[e])
      BY <1>9, <1>10, <2>1, Zenon DEF Streamed
    <3> QED  BY <3>2, <3>3, Zenon
  <2>2. CASE ~(p[e] <= Len(s))
    <3>1. r.err = "missing bytes" \/ \E j \in 0 .. e - 1 : r = Got(Between(KeptArgs(a), 0, j), p[j])
      BY <1>9, <1>10, <2>2, Zenon DEF Streamed
    <3>2. \A j \in 0 .. e - 1 : j \in 0 .. n - 1
      OBVIOUS
    <3> QED  BY <3>1, <3>2, Zenon
  <2> QED  BY <2>1, <2>2
<1>12. /\ r.err # "none" => UnpackFull(s, 0, 0) = Refused(r.err)
       /\ \A vs, y : r = Got(vs, y) => UnpackFull(s, 0, 0) = Read(vs, NextOffset(s, y))
  <2>1. m = IF 0 = 0 /\ 0 = 0 THEN Len(s) ELSE 0
    BY <1>3, Zenon
  <2>2. 0 \in Nat /\ 0 <= Len(s)
    OBVIOUS
  <2>3. \A x : x = Loops(s)[0]["stream"][m] =>
           /\ x.err # "none" => UnpackFull(s, 0, 0) = Refused(x.err)
           /\ \A vs, y : x = Got(vs, y) => UnpackFull(s, 0, 0) = Read(vs, NextOffset(s, y))
    BY <2>1, <2>2, UnpackRead
  <2> QED  BY <1>7, <2>3, Zenon
<1>13. CASE r.err = "missing bytes"
  <2>1. "missing bytes" # "none"
    OBVIOUS
  <2> QED  BY <1>3, <1>12, <1>13, <2>1, Zenon DEF Unpack
<1>14. CASE \E j \in 0 .. n - 1 : r = Got(Between(KeptArgs(a), 0, j), p[j])
  <2>1. PICK j \in 0 .. n - 1 : r = Got(Between(KeptArgs(a), 0, j), p[j])
    BY <1>14
  <2>2. PICK vals : vals = KeptArgs(a)
    OBVIOUS
  <2>3. PICK V : vals \in Seq(V) /\ Len(vals) = n
    BY <1>1, <2>2, KeptLength
  <2>4. IsStrictPrefix(Between(vals, 0, j), vals)
    BY <2>3, FirstValues
  <2> QED  BY <1>3, <1>12, <2>1, <2>2, <2>4, Zenon DEF Unpack
<1> QED  BY <1>11, <1>13, <1>14

\* Values up to an offset and from it on.
LEMMA BetweenJoined ==
  ASSUME NEW n \in Nat, NEW vals, Valued(vals, n), NEW c \in 0 .. n
  PROVE  \A e \in c .. n : Between(vals, 0, c) \o Between(vals, c, e) = Between(vals, 0, e)
<1>1. PICK V : vals \in [1 .. n -> V]
  BY DEF Valued
<1>2. SUFFICES ASSUME NEW e \in c .. n
               PROVE  Between(vals, 0, c) \o Between(vals, c, e) = Between(vals, 0, e)
  OBVIOUS
<1>3. PICK k \in Nat : k = e - c /\ c + k = e /\ c - 0 = c /\ e - 0 = e /\ c \in Nat /\ e \in Nat
  OBVIOUS
<1>4. PICK a : a = Between(vals, 0, c)
  OBVIOUS
<1>5. PICK b : b = Between(vals, c, e)
  OBVIOUS
<1>6. PICK g : g = Between(vals, 0, e)
  OBVIOUS
<1>7. a = [j \in 1 .. c |-> vals[0 + j]] /\ b = [j \in 1 .. k |-> vals[c + j]] /\ g = [j \in 1 .. e |-> vals[0 + j]]
  BY <1>3, <1>4, <1>5, <1>6, Zenon DEF Between
<1>8. a \in [1 .. c -> V] /\ b \in [1 .. k -> V] /\ g \in [1 .. e -> V]
  <2>1. (\A j \in 1 .. c : 0 + j \in 1 .. n) /\ (\A j \in 1 .. k : c + j \in 1 .. n) /\ (\A j \in 1 .. e : 0 + j \in 1 .. n)
    BY <1>3
  <2> QED  BY <1>1, <1>7, <2>1
<1>9. a \in Seq(V) /\ Len(a) = c /\ b \in Seq(V) /\ Len(b) = k
  BY <1>3, <1>8
<1>10. PICK h \in Seq(V) :
         /\ h = a \o b /\ Len(h) = e
         /\ \A d \in 1 .. c : h[d] = a[d]
         /\ \A d \in 1 .. k : h[c + d] = b[d]
  <2>1. \A x, y \in Seq(V) :
            /\ x \o y \in Seq(V) /\ Len(x \o y) = Len(x) + Len(y)
            /\ \A d \in 1 .. Len(x) : (x \o y)[d] = x[d]
            /\ \A d \in 1 .. Len(y) : (x \o y)[Len(x) + d] = y[d]
    BY Joined
  <2>2. a \o b \in Seq(V) /\ Len(a \o b) = c + k
        /\ (\A d \in 1 .. c : (a \o b)[d] = a[d]) /\ \A d \in 1 .. k : (a \o b)[c + d] = b[d]
    BY <1>9, <2>1, Zenon
  <2> QED  BY <1>3, <2>2, Zenon
<1>11. \A j \in 1 .. e : h[j] = g[j]
  <2>1. ASSUME NEW j \in 1 .. e PROVE h[j] = g[j]
    <3>1. CASE j <= c
      <4>1. j \in 1 .. c
        BY <1>3, <3>1
      <4>2. a[j] = vals[0 + j] /\ g[j] = vals[0 + j]
        BY <1>7, <2>1, <4>1
      <4> QED  BY <1>10, <4>1, <4>2, Zenon
    <3>2. CASE ~(j <= c)
      <4>1. PICK d \in 1 .. k : j = c + d /\ 0 + j = c + d
        <5>1. j - c \in 1 .. k /\ j = c + (j - c) /\ 0 + j = c + (j - c)
          BY <1>3, <3>2
        <5> QED  BY <5>1
      <4>2. b[d] = vals[c + d]
        BY <1>7
      <4>3. g[j] = vals[0 + j]
        BY <1>7
      <4> QED  BY <1>10, <4>1, <4>2, <4>3, Zenon
    <3> QED  BY <3>1, <3>2
  <2> QED  BY <2>1
<1>12. h \in [1 .. e -> V]
  <2>1. h \in [1 .. Len(h) -> V]
    OBVIOUS
  <2> QED  BY <1>10, <2>1, Zenon
<1>13. h = g
  BY <1>8, <1>11, <1>12
<1> QED  BY <1>4, <1>5, <1>6, <1>10, <1>13, Zenon

\* What has been read when c of the values have been.
ReadSoFar(s, a, p, c) == Read(Between(KeptArgs(a), 0, c), NextOffset(s, p[c]))

\* A call of unpack_one or unpack_limit goes on where the one before ended.
LEMMA CallReads ==
  ASSUME NEW s \in Seq(Symbols), NEW a, NEW n \in Nat, NEW p, Stream(s, a, n, p), LostArgs(a) = {},
         Len(s) = Len(Pack(a)), NEW limit \in Nat, limit # 0, NEW c \in 0 .. n - 1
  PROVE  \E e \in c + 1 .. n : CallOn(s, limit, ReadSoFar(s, a, p, c)) = ReadSoFar(s, a, p, e)
<1>0. /\ p[n] = Len(Pack(a)) /\ (\A i \in 0 .. n : p[i] \in Nat /\ i <= p[i])
      /\ (\A i, j \in 0 .. n : i < j => p[i] < p[j]) /\ Valued(KeptArgs(a), n)
  <2>1. ItemsRead(s, n, p, "stream", KeptArgs(a), LostArgs(a)) /\ p[n] = Len(Pack(a))
        /\ \A i \in 0 .. n : p[i] \in Nat /\ i <= p[i]
    BY Zenon DEF Stream
  <2>2. Offsets(p, n) /\ Valued(KeptArgs(a), n)
    BY <2>1, Zenon DEF ItemsRead
  <2>3. p \in [0 .. n -> Nat] /\ \A i \in 1 .. n : p[i - 1] < p[i]
    BY <2>2, Zenon DEF Offsets
  <2>4. \A i, j \in 0 .. n : i < j => p[i] < p[j]
    BY <2>3, Growing
  <2> QED  BY <2>1, <2>2, <2>4, Zenon
<1>1. PICK e \in c + 1 .. n : e = limit + c \/ (e = n /\ n <= limit + c)
  <2>1. CASE limit + c <= n
    <3>1. limit + c \in c + 1 .. n
      BY <2>1
    <3> QED  BY <3>1
  <2>2. CASE ~(limit + c <= n)
    <3>1. n \in c + 1 .. n /\ n <= limit + c
      BY <2>2
    <3> QED  BY <3>1
  <2> QED  BY <2>1, <2>2
<1>2. PICK vals : vals = KeptArgs(a) /\ Valued(vals, n)
  BY <1>0, Zenon
<1>3. PICK L \in Nat : L = Len(s)
  OBVIOUS
<1>4. PICK o \in Nat, q \in Nat : o = p[c] /\ q = p[e] /\ o < L /\ q <= L
  <2>1. (\A i \in 0 .. n : p[i] \in Nat) /\ (\A i, j \in 0 .. n : i < j => p[i] < p[j]) /\ p[n] = Len(Pack(a))
    BY <1>0, Zenon
  <2>2. c \in 0 .. n /\ e \in 0 .. n /\ n \in 0 .. n /\ c < n /\ (e = n \/ e < n)
    OBVIOUS
  <2>3. p[n] = L
    BY <1>3, <2>1, Zenon
  <2>4. PICK x \in Nat, y \in Nat : x = p[c] /\ y = p[e]
    BY <2>1, <2>2, Zenon
  <2>5. x < L /\ (y = L \/ y < L)
    BY <2>1, <2>2, <2>3, <2>4, Zenon
  <2>6. y <= L
    BY <2>5
  <2> QED  BY <2>4, <2>5, <2>6, Zenon
<1>5. PICK r : r = Loops(s)[o]["stream"][limit]
  OBVIOUS
<1>6. Streamed(r, s, "stream", p, KeptArgs(a), LostArgs(a), c, e)
  <2>1. limit + c \in Nat /\ e \in 0 .. n /\ c \in 0 .. e /\ (limit + c) - c = limit /\ L <= L /\ o <= L
    BY <1>4
  <2>2. Len(s) <= p[n]
    <3>1. p[n] = L
      BY <1>0, <1>3, Zenon
    <3> QED  BY <1>3, <2>1, <3>1, Zenon
  <2>3. e = limit + c \/ (e = n /\ n <= limit + c /\ Len(s) <= p[n])
    BY <1>1, <2>2, Zenon
  <2>4. \A i \in 0 .. e : p[i] <= Len(s) =>
           Streamed(Loops(s)[p[i]]["stream"][(limit + c) - i], s, "stream", p, KeptArgs(a), LostArgs(a), i, e)
    BY <2>1, <2>3, StreamFrom
  <2>5. p[c] <= Len(s)
    BY <1>3, <1>4, <2>1, Zenon
  <2>6. Streamed(Loops(s)[p[c]]["stream"][(limit + c) - c], s, "stream", p, KeptArgs(a), LostArgs(a), c, e)
    BY <2>1, <2>4, <2>5, Zenon
  <2> QED  BY <1>4, <1>5, <2>1, <2>6, Zenon
<1>7. r = Got(Between(vals, c, e), q)
  <2>1. ~LostIn(LostArgs(a), c, e)
    BY DEF LostIn
  <2>2. p[e] <= Len(s)
    BY <1>3, <1>4, Zenon
  <2> QED  BY <1>2, <1>4, <1>6, <2>1, <2>2, Zenon DEF Streamed
<1>8. UnpackFull(s, limit, o) = Read(Between(vals, c, e), NextOffset(s, q))
  <2>1. o <= Len(s)
    <3>1. o <= L
      BY <1>4
    <3> QED  BY <1>3, <3>1, Zenon
  <2>2. limit = IF limit = 0 /\ o = 0 THEN Len(s) ELSE limit
    BY Zenon
  <2>3. \A x : x = Loops(s)[o]["stream"][limit] =>
           /\ x.err # "none" => UnpackFull(s, limit, o) = Refused(x.err)
           /\ \A vs, y : x = Got(vs, y) => UnpackFull(s, limit, o) = Read(vs, NextOffset(s, y))
    BY <2>1, <2>2, UnpackRead
  <2> QED  BY <1>5, <1>7, <2>3, Zenon
<1>9. PICK before : before = Read(Between(vals, 0, c), o)
  OBVIOUS
<1>10. ReadSoFar(s, a, p, c) = before
  <2>1. o # L
    BY <1>4
  <2>2. NextOffset(s, o) = o
    BY <1>3, <2>1, Zenon DEF NextOffset
  <2> QED  BY <1>2, <1>4, <1>9, <2>2, Zenon DEF ReadSoFar
<1>11. before.err = "none" /\ before.next = o /\ before.vals = Between(vals, 0, c) /\ o # -1
  <2>1. o # -1
    OBVIOUS
  <2>2. before.err = "none" /\ before.next = o /\ before.vals = Between(vals, 0, c)
    BY <1>9 DEF Read
  <2> QED  BY <2>1, <2>2
<1>12. PICK u : u = UnpackFull(s, limit, o)
  OBVIOUS
<1>13. CallOn(s, limit, before) = [u EXCEPT !.vals = before.vals \o @]
  <2>1. UnpackOne(s, o) = UnpackFull(s, 1, o) /\ UnpackLimit(s, limit, o) = UnpackFull(s, limit, o)
    BY Zenon DEF UnpackOne, UnpackLimit
  <2>2. limit = 1 => UnpackOne(s, o) = u
    BY <1>12, <2>1, Zenon
  <2>3. ~(before.err # "none" \/ before.next = -1)
    BY <1>11, Zenon
  <2>4. u = IF limit = 1 THEN UnpackOne(s, before.next) ELSE UnpackLimit(s, limit, before.next)
    BY <1>11, <1>12, <2>1, <2>2, Zenon
  <2> QED  BY <2>3, <2>4, Zenon DEF CallOn
<1>14. [u EXCEPT !.vals = before.vals \o @] = Read(before.vals \o Between(vals, c, e), NextOffset(s, q))
  <2>1. \A vs, next, b : [Read(vs, next) EXCEPT !.vals = b \o @] = Read(b \o vs, next)
    <3>1. SUFFICES ASSUME NEW vs, NEW next, NEW b PROVE [Read(vs, next) EXCEPT !.vals = b \o @] = Read(b \o vs, next)
      BY Zenon
    <3>2. PICK x : x = b \o vs
      OBVIOUS
    <3>3. PICK z : z = [vals |-> vs, err |-> "none", next |-> next]
      OBVIOUS
    <3>4. z.vals = vs
      BY <3>3
    <3>5. [z EXCEPT !.vals = b \o @] = [z EXCEPT !.vals = x]
      BY <3>2, <3>4, Zenon
    <3>6. [z EXCEPT !.vals = x] = [vals |-> x, err |-> "none", next |-> next]
      BY <3>3
    <3> QED  BY <3>2, <3>3, <3>5, <3>6, Zenon DEF Read
  <2> QED  BY <1>8, <1>12, <2>1, Zenon
<1>15. Between(vals, 0, c) \o Between(vals, c, e) = Between(vals, 0, e)
  <2>1. c \in 0 .. n /\ e \in c .. n
    OBVIOUS
  <2> QED  BY <1>2, <2>1, BetweenJoined, ZenonT(60)
<1>16. CallOn(s, limit, before) = Read(Between(vals, 0, e), NextOffset(s, q))
  BY <1>11, <1>13, <1>14, <1>15, Zenon
<1>17. ReadSoFar(s, a, p, e) = Read(Between(vals, 0, e), NextOffset(s, q))
  BY <1>2, <1>4, Zenon DEF ReadSoFar
<1> QED  BY <1>10, <1>16, <1>17, Zenon

\* The calls, one from the one before.
CallStep(s, limit, f, k) == IF k = 0 THEN Read(<<>>, 0) ELSE CallOn(s, limit, f[k - 1])

\* The calls are by choice, as recursive functions are defined.
LEMMA CallsByChoice ==
  \A s, limit, n : Calls(s, limit, n) = (CHOOSE f : f = [k \in 0 .. n |-> CallStep(s, limit, f, k)])[n]
BY Zenon DEF Calls, CallStep, Read

\* The calls exist, one after the other.
LEMMA CallsExist ==
  ASSUME NEW L \in Nat, NEW s, NEW limit
  PROVE  \E f : f = [k \in 0 .. L |-> CallStep(s, limit, f, k)]
<1> DEFINE F(k, f) == f = [j \in 0 .. k |-> f[j]] /\ \A j \in 0 .. k : f[j] = CallStep(s, limit, f, j)
           T == {k \in 0 .. L : \E f : F(k, f)}
<1>1. 0 \in T
  <2> DEFINE g == [j \in 0 .. 0 |-> Read(<<>>, 0)]
  <2>1. g = [j \in 0 .. 0 |-> g[j]] /\ g[0] = Read(<<>>, 0)
    OBVIOUS
  <2>2. \A j \in 0 .. 0 : j = 0
    OBVIOUS
  <2> HIDE DEF g
  <2>3. \A j \in 0 .. 0 : g[j] = CallStep(s, limit, g, j)
    BY <2>1, <2>2, Zenon DEF CallStep
  <2>4. F(0, g)
    BY <2>1, <2>3, Zenon
  <2>5. 0 \in 0 .. L
    OBVIOUS
  <2> HIDE DEF F
  <2> QED  BY <2>4, <2>5, Zenon
<1>2. ASSUME NEW k \in 0 .. L - 1, k \in T PROVE k + 1 \in T
  <2>1. PICK f : F(k, f)
    BY <1>2
  <2>2. PICK c : c = CallOn(s, limit, f[k])
    OBVIOUS
  <2> DEFINE g == [j \in 0 .. k + 1 |-> IF j = k + 1 THEN c ELSE f[j]]
  <2>3. g = [j \in 0 .. k + 1 |-> g[j]] /\ g[k + 1] = c /\ \A j \in 0 .. k : g[j] = f[j]
    <3>1. k + 1 \in 0 .. k + 1 /\ \A j \in 0 .. k : j \in 0 .. k + 1 /\ j # k + 1
      OBVIOUS
    <3> QED  BY <3>1
  <2> HIDE DEF g
  <2>4. ASSUME NEW j \in 0 .. k + 1 PROVE g[j] = CallStep(s, limit, g, j)
    <3>1. CASE j = 0
      <4>1. 0 \in 0 .. k
        OBVIOUS
      <4>2. f[0] = CallStep(s, limit, f, 0)
        BY <2>1, <4>1, Zenon
      <4>3. g[0] = f[0]
        BY <2>3, <4>1, Zenon
      <4> QED  BY <3>1, <4>2, <4>3, Zenon DEF CallStep
    <3>2. CASE j \in 1 .. k
      <4>1. j \in 0 .. k /\ j - 1 \in 0 .. k
        BY <3>2
      <4>2. f[j] = CallStep(s, limit, f, j)
        BY <2>1, <4>1, Zenon
      <4>3. g[j] = f[j] /\ g[j - 1] = f[j - 1]
        BY <2>3, <4>1, Zenon
      <4> QED  BY <4>2, <4>3, Zenon DEF CallStep
    <3>3. CASE j = k + 1
      <4>1. k \in 0 .. k /\ j - 1 = k /\ j # 0
        BY <3>3
      <4>2. g[j - 1] = f[k]
        BY <2>3, <4>1, Zenon
      <4>3. g[j] = c
        BY <2>3, <3>3, Zenon
      <4> QED  BY <2>2, <4>1, <4>2, <4>3, Zenon DEF CallStep
    <3>4. j = 0 \/ j \in 1 .. k \/ j = k + 1
      OBVIOUS
    <3> QED  BY <3>1, <3>2, <3>3, <3>4
  <2>5. F(k + 1, g)
    BY <2>3, <2>4, Zenon
  <2>6. k + 1 \in 0 .. L
    OBVIOUS
  <2> HIDE DEF F
  <2> QED  BY <2>5, <2>6, Zenon
<1>3. L \in T
  <2> HIDE DEF T
  <2>1. \A k \in 0 .. L : k \in T
    BY <1>1, <1>2, UpTo
  <2>2. L \in 0 .. L
    OBVIOUS
  <2> QED  BY <2>1, <2>2, Zenon
<1>4. PICK f : F(L, f)
  BY <1>3
<1>5. f = [k \in 0 .. L |-> CallStep(s, limit, f, k)]
  <2>1. [k \in 0 .. L |-> f[k]] = [k \in 0 .. L |-> CallStep(s, limit, f, k)]
    BY <1>4
  <2> QED  BY <1>4, <2>1, Zenon
<1> QED  BY <1>5, Zenon

\* The calls read each value once, in order, when there are as many as values.
LEMMA CallsRead ==
  ASSUME NEW a \in Seq(Values), a # <<>>, LostArgs(a) = {}, NEW limit \in Nat, limit # 0,
         NEW L \in Nat, Len(a) <= L
  PROVE  Calls(Pack(a), limit, L) = Read(KeptArgs(a), -1)
<1>1. PICK n \in Nat : n = Len(a) /\ n # 0
  OBVIOUS
<1>2. PICK s \in Seq(Symbols) : s = Pack(a)
  BY <1>1, ArgCodesType
<1>3. PICK M \in Nat : M = Len(s)
  OBVIOUS
<1>4. Follows(s, 0, Pack(a))
  <2>1. Follows(s, 0, s)
    BY DEF Follows
  <2> QED  BY <1>2, <2>1, Zenon
<1>5. PICK p : Stream(s, a, n, p)
  BY <1>1, <1>4, ArgsRead
<1>6. p[0] = 0 /\ p[n] = M /\ n <= M
  <2>1. p[0] = 0 /\ p[n] = Len(Pack(a)) /\ \A i \in 0 .. n : p[i] \in Nat /\ i <= p[i]
    BY <1>5, Zenon DEF Stream
  <2>2. n \in 0 .. n
    OBVIOUS
  <2> QED  BY <1>2, <1>3, <2>1, <2>2, Zenon
<1>7. PICK f : f = [k \in 0 .. L |-> CallStep(s, limit, f, k)] /\ Calls(s, limit, L) = f[L]
  <2> DEFINE d == CHOOSE g : g = [k \in 0 .. L |-> CallStep(s, limit, g, k)]
  <2>1. d = [k \in 0 .. L |-> CallStep(s, limit, d, k)]
    <3>1. \E g : g = [k \in 0 .. L |-> CallStep(s, limit, g, k)]
      BY CallsExist, ZenonT(60)
    <3> QED  BY <3>1, Zenon
  <2>2. Calls(s, limit, L) = d[L]
    BY CallsByChoice, Zenon
  <2> HIDE DEF d
  <2> QED  BY <2>1, <2>2, Zenon
<1>8. \A k \in 0 .. L : f[k] = CallStep(s, limit, f, k)
  BY <1>7, Zenon
<1> DEFINE T == {k \in 0 .. L : \E c \in 0 .. n : f[k] = ReadSoFar(s, a, p, c) /\ (c = n \/ k <= c)}
<1>9. 0 \in T
  <2>1. 0 \in 0 .. L /\ 0 \in 0 .. n /\ 0 <= 0 /\ 0 # M
    BY <1>1, <1>6
  <2>2. f[0] = Read(<<>>, 0)
    BY <1>8, <2>1, Zenon DEF CallStep
  <2>3. Between(KeptArgs(a), 0, 0) = <<>>
    BY BetweenNone
  <2>4. NextOffset(s, 0) = 0
    BY <1>3, <2>1, Zenon DEF NextOffset
  <2>5. f[0] = ReadSoFar(s, a, p, 0)
    BY <1>6, <2>2, <2>3, <2>4, Zenon DEF ReadSoFar
  <2> QED  BY <2>1, <2>5, Zenon
<1>10. ASSUME NEW k \in 0 .. L - 1, k \in T PROVE k + 1 \in T
  <2>1. PICK c \in 0 .. n : f[k] = ReadSoFar(s, a, p, c) /\ (c = n \/ k <= c)
    BY <1>10
  <2>2. f[k + 1] = CallOn(s, limit, ReadSoFar(s, a, p, c))
    <3>1. k + 1 \in 0 .. L /\ (k + 1) - 1 = k /\ k + 1 # 0
      OBVIOUS
    <3> QED  BY <1>8, <2>1, <3>1, Zenon DEF CallStep
  <2>3. CASE c = n
    <3>1. ReadSoFar(s, a, p, c).next = -1
      <4>1. NextOffset(s, p[c]) = -1
        BY <1>3, <1>6, <2>3, Zenon DEF NextOffset
      <4> QED  BY <4>1 DEF ReadSoFar, Read
    <3>2. CallOn(s, limit, ReadSoFar(s, a, p, c)) = ReadSoFar(s, a, p, c)
      BY <3>1, Zenon DEF CallOn
    <3>3. k + 1 \in 0 .. L
      OBVIOUS
    <3>4. f[k + 1] = ReadSoFar(s, a, p, c)
      BY <2>2, <3>2, Zenon
    <3> QED  BY <2>3, <3>3, <3>4, Zenon
  <2>4. CASE c # n
    <3>1. c \in 0 .. n - 1
      BY <2>4
    <3>2. Len(s) = Len(Pack(a))
      BY <1>2, Zenon
    <3>3. PICK e \in c + 1 .. n : CallOn(s, limit, ReadSoFar(s, a, p, c)) = ReadSoFar(s, a, p, e)
      BY <1>5, <3>1, <3>2, CallReads
    <3>4. e \in 0 .. n /\ k + 1 <= e /\ k + 1 \in 0 .. L
      <4>1. k <= c
        BY <2>1, <2>4, Zenon
      <4> QED  BY <4>1
    <3> QED  BY <2>2, <3>3, <3>4, Zenon
  <2> QED  BY <2>3, <2>4
<1>11. PICK c \in 0 .. n : f[L] = ReadSoFar(s, a, p, c) /\ (c = n \/ L <= c)
  <2>1. \A k \in 0 .. L : k \in T
    <3> HIDE DEF T
    <3> QED  BY <1>9, <1>10, UpTo
  <2>2. L \in 0 .. L
    OBVIOUS
  <2> QED  BY <2>1, <2>2, Zenon
<1>12. c = n
  BY <1>1, <1>11
<1>13. Between(KeptArgs(a), 0, n) = KeptArgs(a)
  BY <1>1, KeptLength
<1>14. NextOffset(s, p[n]) = -1
  BY <1>3, <1>6, Zenon DEF NextOffset
<1> QED  BY <1>2, <1>7, <1>11, <1>12, <1>13, <1>14, Zenon DEF ReadSoFar

-----------------------------------------------------------------------------
(* The buffer of mp_pack.                                                  *)

Lengths == Nat \cup {Reuse}

\* The bytes that are written at a time are few.
LEMMA WritesType == ASSUME NEW a \in Seq(Values) PROVE Writes(a) \in Seq(Lengths)
<1>1. PICK n \in Nat : n = Len(a) /\ DOMAIN a = 1 .. n
  OBVIOUS
<1>2. PICK ss : ss = [i \in 1 .. n |-> [j \in DOMAIN Encode(a[i], 0) |-> Len(Encode(a[i], 0)[j])] \o <<Reuse>>]
  OBVIOUS
<1>3. Writes(a) = FlattenSeq(ss)
  <2>1. Writes(a) = FlattenSeq([i \in DOMAIN a |-> [j \in DOMAIN Encode(a[i], 0) |-> Len(Encode(a[i], 0)[j])] \o <<Reuse>>])
    BY Zenon DEF Writes
  <2> QED  BY <1>1, <1>2, <2>1, Zenon
<1>4. ASSUME NEW i \in 1 .. n
      PROVE  [j \in DOMAIN Encode(a[i], 0) |-> Len(Encode(a[i], 0)[j])] \o <<Reuse>> \in Seq(Lengths)
  <2>1. 0 \in 0 .. MaxNesting /\ a[i] \in Values
    BY <1>1, MsgPackAssumption
  <2>2. PICK e \in Seq(Seq(Symbols)) : e = Encode(a[i], 0)
    BY <2>1, EncodingType DEF Encode
  <2>3. PICK m \in Nat : m = Len(e) /\ DOMAIN e = 1 .. m
    OBVIOUS
  <2>4. \A j \in 1 .. m : Len(e[j]) \in Lengths
    BY <2>3 DEF Lengths
  <2>5. [j \in 1 .. m |-> Len(e[j])] \in [1 .. m -> Lengths]
    BY <2>4
  <2>6. PICK g : g = [j \in 1 .. m |-> Len(e[j])]
    OBVIOUS
  <2>7. g \in Seq(Lengths) /\ <<Reuse>> \in Seq(Lengths)
    BY <2>5, <2>6 DEF Lengths
  <2>8. g \o <<Reuse>> \in Seq(Lengths)
    BY <2>7
  <2> QED  BY <2>2, <2>3, <2>6, <2>8, Zenon
<1>5. ss \in Seq(Seq(Lengths))
  <2>1. ss \in [1 .. n -> Seq(Lengths)]
    BY <1>2, <1>4
  <2> QED  BY <2>1
<1> QED  BY <1>3, <1>5, FlattenedType

\* The writes, one behind the other.
WriteStep(writes, f, k) ==
  IF k = 0 THEN [buf |-> NewBuf, seen |-> {NewBuf}] ELSE Written(f[k - 1], writes[k])

\* The writes are by choice, as recursive functions are defined.
LEMMA BuffersByChoice ==
  \A writes : Buffers(writes) =
     (CHOOSE f : f = [k \in 0 .. Len(writes) |-> WriteStep(writes, f, k)])[Len(writes)].seen
BY Zenon DEF Buffers, WriteStep

\* The writes exist, one after the other.
LEMMA WritesExist ==
  ASSUME NEW L \in Nat, NEW writes
  PROVE  \E f : f = [k \in 0 .. L |-> WriteStep(writes, f, k)]
<1> DEFINE F(k, f) == f = [j \in 0 .. k |-> f[j]] /\ \A j \in 0 .. k : f[j] = WriteStep(writes, f, j)
           T == {k \in 0 .. L : \E f : F(k, f)}
<1>1. 0 \in T
  <2> DEFINE g == [j \in 0 .. 0 |-> [buf |-> NewBuf, seen |-> {NewBuf}]]
  <2>1. g = [j \in 0 .. 0 |-> g[j]] /\ g[0] = [buf |-> NewBuf, seen |-> {NewBuf}]
    OBVIOUS
  <2>2. \A j \in 0 .. 0 : j = 0
    OBVIOUS
  <2> HIDE DEF g
  <2>3. \A j \in 0 .. 0 : g[j] = WriteStep(writes, g, j)
    BY <2>1, <2>2, Zenon DEF WriteStep
  <2>4. F(0, g)
    BY <2>1, <2>3, Zenon
  <2>5. 0 \in 0 .. L
    OBVIOUS
  <2> HIDE DEF F
  <2> QED  BY <2>4, <2>5, Zenon
<1>2. ASSUME NEW k \in 0 .. L - 1, k \in T PROVE k + 1 \in T
  <2>1. PICK f : F(k, f)
    BY <1>2
  <2>2. PICK c : c = Written(f[k], writes[k + 1])
    OBVIOUS
  <2> DEFINE g == [j \in 0 .. k + 1 |-> IF j = k + 1 THEN c ELSE f[j]]
  <2>3. g = [j \in 0 .. k + 1 |-> g[j]] /\ g[k + 1] = c /\ \A j \in 0 .. k : g[j] = f[j]
    <3>1. k + 1 \in 0 .. k + 1 /\ \A j \in 0 .. k : j \in 0 .. k + 1 /\ j # k + 1
      OBVIOUS
    <3> QED  BY <3>1
  <2> HIDE DEF g
  <2>4. ASSUME NEW j \in 0 .. k + 1 PROVE g[j] = WriteStep(writes, g, j)
    <3>1. CASE j = 0
      <4>1. 0 \in 0 .. k
        OBVIOUS
      <4>2. f[0] = WriteStep(writes, f, 0)
        BY <2>1, <4>1, Zenon
      <4>3. g[0] = f[0]
        BY <2>3, <4>1, Zenon
      <4> QED  BY <3>1, <4>2, <4>3, Zenon DEF WriteStep
    <3>2. CASE j \in 1 .. k
      <4>1. j \in 0 .. k /\ j - 1 \in 0 .. k
        BY <3>2
      <4>2. f[j] = WriteStep(writes, f, j)
        BY <2>1, <4>1, Zenon
      <4>3. g[j] = f[j] /\ g[j - 1] = f[j - 1]
        BY <2>3, <4>1, Zenon
      <4> QED  BY <4>2, <4>3, Zenon DEF WriteStep
    <3>3. CASE j = k + 1
      <4>1. k \in 0 .. k /\ j - 1 = k /\ j # 0
        BY <3>3
      <4>2. g[j - 1] = f[k]
        BY <2>3, <4>1, Zenon
      <4>3. g[j] = c
        BY <2>3, <3>3, Zenon
      <4> QED  BY <2>2, <3>3, <4>1, <4>2, <4>3, Zenon DEF WriteStep
    <3>4. j = 0 \/ j \in 1 .. k \/ j = k + 1
      OBVIOUS
    <3> QED  BY <3>1, <3>2, <3>3, <3>4
  <2>5. F(k + 1, g)
    BY <2>3, <2>4, Zenon
  <2>6. k + 1 \in 0 .. L
    OBVIOUS
  <2> HIDE DEF F
  <2> QED  BY <2>5, <2>6, Zenon
<1>3. L \in T
  <2> HIDE DEF T
  <2>1. \A k \in 0 .. L : k \in T
    BY <1>1, <1>2, UpTo
  <2>2. L \in 0 .. L
    OBVIOUS
  <2> QED  BY <2>1, <2>2, Zenon
<1>4. PICK f : F(L, f)
  BY <1>3
<1>5. f = [k \in 0 .. L |-> WriteStep(writes, f, k)]
  <2>1. [k \in 0 .. L |-> f[k]] = [k \in 0 .. L |-> WriteStep(writes, f, k)]
    BY <1>4
  <2> QED  BY <1>4, <2>1, Zenon
<1> QED  BY <1>5, Zenon

Bufs == [len: Nat, free: Nat, cap: Nat]

Fits(b) == b \in Bufs /\ b.len + b.free <= b.cap

\* Two fields of a buffer set, one behind the other.
FreeLen(b, u, v) == [b EXCEPT !.free = u, !.len = v]
LenFree(b, v, u) == [b EXCEPT !.len = v, !.free = u]
CapFree(b, v, u) == [b EXCEPT !.cap = v, !.free = u]
Appended(b, w) == [b EXCEPT !.len = @ + w, !.free = @ - w]

\* A buffer with two fields set, one after the other.
LEMMA TwoFields ==
  \A l, r, c, u, v, b :
    b = [len |-> l, free |-> r, cap |-> c] =>
      /\ FreeLen(b, u, v) = [len |-> v, free |-> u, cap |-> c]
      /\ LenFree(b, v, u) = [len |-> v, free |-> u, cap |-> c]
      /\ CapFree(b, v, u) = [len |-> l, free |-> u, cap |-> v]
<1> SUFFICES ASSUME NEW l, NEW r, NEW c, NEW u, NEW v, NEW b, b = [len |-> l, free |-> r, cap |-> c]
             PROVE  /\ [b EXCEPT !.free = u, !.len = v] = [len |-> v, free |-> u, cap |-> c]
                    /\ [b EXCEPT !.len = v, !.free = u] = [len |-> v, free |-> u, cap |-> c]
                    /\ [b EXCEPT !.cap = v, !.free = u] = [len |-> l, free |-> u, cap |-> v]
  BY Zenon DEF FreeLen, LenFree, CapFree
<1>1. PICK d : d = [b EXCEPT !.free = u]
  OBVIOUS
<1>2. d = [len |-> l, free |-> u, cap |-> c]
  BY <1>1
<1>3. [d EXCEPT !.len = v] = [len |-> v, free |-> u, cap |-> c]
  BY <1>2
<1>4. PICK x : x = [b EXCEPT !.len = v]
  OBVIOUS
<1>5. x = [len |-> v, free |-> r, cap |-> c]
  BY <1>4
<1>6. [x EXCEPT !.free = u] = [len |-> v, free |-> u, cap |-> c]
  BY <1>5
<1>7. PICK y : y = [b EXCEPT !.cap = v]
  OBVIOUS
<1>8. y = [len |-> l, free |-> r, cap |-> v]
  BY <1>7
<1>9. [y EXCEPT !.free = u] = [len |-> l, free |-> u, cap |-> v]
  BY <1>8
<1> QED  BY <1>1, <1>3, <1>4, <1>6, <1>7, <1>9, Zenon

\* A write leaves a buffer that holds what it counts on.
LEMMA WriteFits ==
  ASSUME NEW b, Fits(b), NEW w \in Lengths
  PROVE  Fits(IF w = Reuse THEN BufReuse(b) ELSE BufAppend(b, w))
<1>1. b \in Bufs /\ b.len \in Nat /\ b.free \in Nat /\ b.cap \in Nat /\ b.len + b.free <= b.cap
  BY DEF Fits, Bufs
<1>2. PICK x \in Nat, y \in Nat, z \in Nat : b = [len |-> x, free |-> y, cap |-> z] /\ x + y <= z
  BY <1>1 DEF Bufs
<1>3. CASE w = Reuse
  <2>1. BufReuse(b) = [len |-> 0, free |-> y + x, cap |-> z]
    <3>1. PICK u : u = y + x
      OBVIOUS
    <3>2. b.len = x /\ b.free = y
      BY <1>2
    <3>3. BufReuse(b) = FreeLen(b, u, 0)
      BY <3>1, <3>2, Zenon DEF BufReuse, FreeLen
    <3>4. FreeLen(b, u, 0) = [len |-> 0, free |-> u, cap |-> z]
      BY <1>2, TwoFields
    <3> QED  BY <3>1, <3>3, <3>4, Zenon
  <2>2. Fits([len |-> 0, free |-> y + x, cap |-> z])
    BY <1>2 DEF Fits, Bufs
  <2> QED  BY <1>3, <2>1, <2>2, Zenon
<1>4. CASE w # Reuse
  <2>1. w \in Nat
    BY <1>4 DEF Lengths
  <2>4. b.len = x /\ b.free = y
    BY <1>2
  <2>5. \A d, l, r, c : d = [len |-> l, free |-> r, cap |-> c] =>
          Appended(d, w) = [len |-> l + w, free |-> r - w, cap |-> c]
    <3>1. SUFFICES ASSUME NEW d, NEW l, NEW r, NEW c, d = [len |-> l, free |-> r, cap |-> c]
                   PROVE  Appended(d, w) = [len |-> l + w, free |-> r - w, cap |-> c]
      BY Zenon
    <3>2. PICK u, v : u = l + w /\ v = r - w
      OBVIOUS
    <3>3. d.len = l /\ d.free = r
      BY <3>1
    <3>4. Appended(d, w) = LenFree(d, u, v)
      BY <3>2, <3>3, Zenon DEF Appended, LenFree
    <3>5. LenFree(d, u, v) = [len |-> u, free |-> v, cap |-> c]
      BY <3>1, TwoFields
    <3> QED  BY <3>2, <3>4, <3>5, Zenon
  <2>2. CASE y < w
    <3>1. BufAppend(b, w) = [len |-> x + w, free |-> (x + w) - w, cap |-> 2 * (x + w)]
      <4>1. PICK u, v : u = x + w /\ v = 2 * (x + w)
        OBVIOUS
      <4>2. CapFree(b, v, u) = [len |-> x, free |-> u, cap |-> v]
        BY <1>2, TwoFields
      <4>3. PICK d : d = CapFree(b, v, u)
        OBVIOUS
      <4>4. BufAppend(b, w) = Appended(d, w)
        BY <2>2, <2>4, <4>1, <4>3, Zenon DEF BufAppend, CapFree, Appended
      <4>5. Appended(d, w) = [len |-> x + w, free |-> u - w, cap |-> v]
        BY <2>5, <4>2, <4>3
      <4> QED  BY <4>1, <4>4, <4>5, Zenon
    <3>2. Fits([len |-> x + w, free |-> (x + w) - w, cap |-> 2 * (x + w)])
      <4>1. x + w \in Nat /\ (x + w) - w \in Nat /\ 2 * (x + w) \in Nat /\ (x + w) + ((x + w) - w) <= 2 * (x + w)
        BY <2>1
      <4> QED  BY <4>1 DEF Fits, Bufs
    <3> QED  BY <1>4, <3>1, <3>2, Zenon
  <2>3. CASE ~(y < w)
    <3>1. BufAppend(b, w) = [len |-> x + w, free |-> y - w, cap |-> z]
      <4>1. BufAppend(b, w) = Appended(b, w)
        BY <2>3, <2>4, Zenon DEF BufAppend, Appended
      <4>2. Appended(b, w) = [len |-> x + w, free |-> y - w, cap |-> z]
        BY <1>2, <2>5
      <4> QED  BY <4>1, <4>2, Zenon
    <3>2. Fits([len |-> x + w, free |-> y - w, cap |-> z])
      <4>1. x + w \in Nat /\ y - w \in Nat /\ (x + w) + (y - w) <= z
        BY <1>2, <2>1, <2>3
      <4> QED  BY <4>1 DEF Fits, Bufs
    <3> QED  BY <1>4, <3>1, <3>2, Zenon
  <2> QED  BY <2>2, <2>3
<1> QED  BY <1>3, <1>4

\* All the buffers of a call of mp_pack do.
LEMMA BuffersFit ==
  ASSUME NEW writes \in Seq(Lengths)
  PROVE  \A b \in Buffers(writes) : Fits(b)
<1>1. PICK L \in Nat : L = Len(writes)
  OBVIOUS
<1>2. PICK f : f = [k \in 0 .. L |-> WriteStep(writes, f, k)] /\ Buffers(writes) = f[L].seen
  <2> DEFINE d == CHOOSE g : g = [k \in 0 .. L |-> WriteStep(writes, g, k)]
  <2>1. d = [k \in 0 .. L |-> WriteStep(writes, d, k)]
    BY WritesExist, Zenon
  <2>2. Buffers(writes) = d[L].seen
    BY <1>1, BuffersByChoice, Zenon
  <2> HIDE DEF d
  <2> QED  BY <2>1, <2>2, Zenon
<1>3. \A k \in 0 .. L : f[k] = WriteStep(writes, f, k)
  BY <1>2, Zenon
<1> DEFINE T == {k \in 0 .. L : Fits(f[k].buf) /\ \A b \in f[k].seen : Fits(b)}
<1>4. 0 \in T
  <2>1. 0 \in 0 .. L
    OBVIOUS
  <2>2. f[0] = [buf |-> NewBuf, seen |-> {NewBuf}]
    BY <1>3, <2>1, Zenon DEF WriteStep
  <2>3. Fits(NewBuf)
    BY DEF Fits, Bufs, NewBuf
  <2>4. f[0].buf = NewBuf /\ f[0].seen = {NewBuf}
    BY <2>2
  <2> QED  BY <2>1, <2>3, <2>4, Zenon
<1>5. ASSUME NEW k \in 0 .. L - 1, k \in T PROVE k + 1 \in T
  <2>1. PICK b, seen : b = f[k].buf /\ seen = f[k].seen
    OBVIOUS
  <2>2. PICK w \in Lengths : w = writes[k + 1]
    <3>1. k + 1 \in 1 .. Len(writes)
      BY <1>1
    <3> QED  BY <3>1
  <2>3. PICK c : c = IF w = Reuse THEN BufReuse(b) ELSE BufAppend(b, w)
    OBVIOUS
  <2>4. Fits(b) /\ \A x \in seen : Fits(x)
    BY <1>5, <2>1, Zenon
  <2>5. Fits(c)
    BY <2>3, <2>4, WriteFits
  <2>6. f[k + 1] = [buf |-> c, seen |-> seen \cup {c}]
    <3>1. k + 1 \in 0 .. L /\ (k + 1) - 1 = k /\ k + 1 # 0
      OBVIOUS
    <3>2. f[k + 1] = Written(f[k], writes[k + 1])
      BY <1>3, <3>1, Zenon DEF WriteStep
    <3> QED  BY <2>1, <2>2, <2>3, <3>2, Zenon DEF Written
  <2>7. f[k + 1].buf = c /\ f[k + 1].seen = seen \cup {c}
    BY <2>6
  <2>8. k + 1 \in 0 .. L
    OBVIOUS
  <2> QED  BY <2>4, <2>5, <2>7, <2>8, Zenon
<1>6. \A k \in 0 .. L : k \in T
  <2> HIDE DEF T
  <2> QED  BY <1>4, <1>5, UpTo
<1>7. L \in 0 .. L
  OBVIOUS
<1> QED  BY <1>2, <1>6, <1>7, Zenon

-----------------------------------------------------------------------------
(* EnvPost.                                                                *)

\* No other bytes than b are under way.
Only(b) ==
  /\ queue \in [Envs -> Seq({b})]
  /\ \A t \in Threads : pc[t] = "post" => posting[t].payload = b
  /\ \A t \in Threads : handling[t] # Idle => handling[t].payload = b

\* At first nothing is under way.
LEMMA OnlyInit == ASSUME NEW b, InitWith(b) PROVE Only(b)
<1>1. queue \in [Envs -> Seq({b})]
  <2>1. queue = [e \in Envs |-> IF e <= 2 THEN <<b>> ELSE <<>>]
    BY DEF InitWith
  <2>2. <<b>> \in Seq({b}) /\ <<>> \in Seq({b})
    OBVIOUS
  <2> QED  BY <2>1, <2>2
<1>2. \A t \in Threads : pc[t] = "run" /\ handling[t] = Idle
  BY DEF InitWith
<1> QED  BY <1>1, <1>2 DEF Only

\* A step that neither puts anything into a queue nor takes anything from it.
LEMMA OnlyQuiet ==
  ASSUME NEW b, Only(b), UNCHANGED <<queue, posting>>,
         \A u \in Threads : pc'[u] = "post" => pc[u] = "post",
         \A u \in Threads : handling'[u] # Idle => handling'[u] = handling[u]
  PROVE  Only(b)'
<1>1. \A t \in Threads : pc'[t] = "post" => posting'[t].payload = b
  BY DEF Only
<1>2. \A t \in Threads : handling'[t] # Idle => handling'[t].payload = b
  BY DEF Only
<1>3. Idle' = Idle
  BY DEF Idle
<1> QED  BY <1>1, <1>2, <1>3 DEF Only

\* A step of the registry hands on the bytes there are or the one it is given.
LEMMA OnlyStep ==
  ASSUME NEW b \in Payloads, TypeInv, Only(b), NextWith({b}) PROVE Only(b)'
<1> USE DEF TypeInv, CallType
<1>0. pc \in [Threads -> Pcs] /\ handling \in [Threads -> [env: MaybeEnv, payload: MaybePayload]]
      /\ posting \in [Threads -> [to: Nat, payload: MaybePayload, moves: Nat]]
  OBVIOUS
<1> HIDE DEF TypeInv, CallType
<1>1. ASSUME NEW t \in Threads, CreateLock(t) \/ CreateFind(t) \/ CreatePublish(t) \/ CreateInit(t)
      PROVE  Only(b)'
  <2>1. UNCHANGED <<queue, posting, handling>>
    BY <1>1 DEF CreateLock, CreateFind, CreatePublish, CreateInit
  <2>2. \E where \in {"find", "publish", "init", "run"} : pc' = [pc EXCEPT ![t] = where]
    BY <1>1 DEF CreateLock, CreateFind, CreatePublish, CreateInit, Goto
  <2>3. \A u \in Threads : pc'[u] = "post" => pc[u] = "post"
    BY <1>0, <2>2
  <2> QED  BY <2>1, <2>3, OnlyQuiet
<1>2. ASSUME NEW t \in Threads, Booted(t) \/ BootFails(t) PROVE Only(b)'
  <2>1. UNCHANGED <<queue, posting, handling, pc>>
    BY <1>2 DEF Booted, BootFails, Created
  <2> QED  BY <2>1, OnlyQuiet
<1>3. ASSUME NEW t \in Threads, NEW to \in known, PostBegin(t, to, b) PROVE Only(b)'
  <2>1. UNCHANGED <<queue, handling>>
    BY <1>3 DEF PostBegin
  <2>2. ASSUME NEW u \in Threads, pc'[u] = "post" PROVE posting'[u].payload = b
    BY <1>0, <1>3, <2>2 DEF PostBegin, Goto, Only
  <2> QED  BY <2>1, <2>2 DEF Only, Idle
<1>4. ASSUME NEW t \in Threads, PostEnd(t) PROVE Only(b)'
  <2>1. UNCHANGED handling /\ pc' = [pc EXCEPT ![t] = "run"] /\ posting' = [posting EXCEPT ![t] = NoPost]
        /\ posting[t].payload = b
    BY <1>4 DEF PostEnd, Goto, Stands, Only
  <2>2. ASSUME NEW u \in Threads, pc'[u] = "post" PROVE posting'[u].payload = b
    BY <1>0, <2>1, <2>2 DEF Only
  <2>3. queue' \in [Envs -> Seq({b})]
    <3>1. queue' = queue \/ \E e : queue' = [queue EXCEPT ![e] = Append(@, b)]
      BY <1>4, <2>1 DEF PostEnd
    <3>2. queue \in [Envs -> Seq({b})]
      BY DEF Only
    <3>3. \A q \in Seq({b}) : Append(q, b) \in Seq({b})
      OBVIOUS
    <3> QED  BY <3>1, <3>2, <3>3
  <2> QED  BY <2>1, <2>2, <2>3 DEF Only, Idle
<1>5. ASSUME NEW t \in Threads, NEW e \in Envs, Handle(t, e) PROVE Only(b)'
  <2>1. /\ UNCHANGED <<pc, posting>> /\ queue[e] # <<>>
        /\ handling' = [handling EXCEPT ![t] = [env |-> e, payload |-> Head(queue[e])]]
        /\ queue' = [queue EXCEPT ![e] = Tail(queue[e])]
    BY <1>5 DEF Handle
  <2>2. queue \in [Envs -> Seq({b})]
    BY DEF Only
  <2>3. Head(queue[e]) = b /\ Tail(queue[e]) \in Seq({b})
    <3>1. PICK q \in Seq({b}) : q = queue[e] /\ q # <<>>
      BY <2>1, <2>2
    <3>2. Head(q) \in {b} /\ Tail(q) \in Seq({b})
      BY <3>1
    <3> QED  BY <3>1, <3>2, Zenon
  <2>4. queue' \in [Envs -> Seq({b})]
    BY <2>1, <2>2, <2>3
  <2>5. ASSUME NEW u \in Threads, handling'[u] # Idle PROVE handling'[u].payload = b
    BY <1>0, <2>1, <2>3, <2>5 DEF Only
  <2> QED  BY <2>1, <2>4, <2>5 DEF Only, Idle
<1>6. ASSUME NEW t \in Threads, Return(t) PROVE Only(b)'
  <2>1. UNCHANGED <<queue, posting, pc>> /\ handling' = [handling EXCEPT ![t] = Idle]
    BY <1>6 DEF Return
  <2>2. \A u \in Threads : handling'[u] # Idle => handling'[u] = handling[u]
    BY <1>0, <2>1
  <2> QED  BY <2>1, <2>2, OnlyQuiet
<1> QED  BY <1>1, <1>2, <1>3, <1>4, <1>5, <1>6 DEF NextWith

\* The message that is posted, and that nothing else is.
PayloadInv == args \in Inputs /\ Only(Pack(args))

\* What a boot script posts is a payload.
LEMMA PostedIsPayload == \A a \in Inputs : Pack(a) \in Payloads /\ a \in Seq(Values) /\ a # <<>>
BY PostAssumption

\* The messages of EnvPost go the way of EnvRegistry.
LEMMA PostInitIsInit == PostInit => Init
BY PostedIsPayload DEF PostInit, Init

\* A step of EnvPost is one of the registry.
LEMMA PostNextIsNext == args \in Inputs /\ [PostNext]_postVars => [Next]_vars
<1> SUFFICES ASSUME args \in Inputs, [PostNext]_postVars PROVE [Next]_vars
  OBVIOUS
<1>1. CASE PostNext
  <2>1. NextWith({Pack(args)})
    BY <1>1 DEF PostNext
  <2>2. Pack(args) \in Payloads
    BY PostedIsPayload
  <2>3. NextWith(Payloads)
    BY <2>1, <2>2 DEF NextWith
  <2> QED  BY <2>3 DEF Next
<1>2. CASE UNCHANGED postVars
  BY <1>2 DEF postVars
<1> QED  BY <1>1, <1>2

\* The first state has no payloads but those of args.
LEMMA PayloadInit == PostInit => PayloadInv
BY OnlyInit DEF PostInit, PayloadInv

\* Every step keeps to them.
LEMMA PayloadStep == TypeInv /\ PayloadInv /\ [PostNext]_postVars => PayloadInv'
<1> SUFFICES ASSUME TypeInv, PayloadInv, [PostNext]_postVars PROVE PayloadInv'
  OBVIOUS
<1>0. args \in Inputs /\ Only(Pack(args)) /\ Pack(args) \in Payloads
  BY PostedIsPayload DEF PayloadInv
<1>1. PICK b \in Payloads : b = Pack(args)
  BY <1>0
<1>2. Only(b)
  BY <1>0, <1>1, Zenon
<1>3. CASE PostNext
  <2>1. NextWith({b}) /\ args' = args
    BY <1>1, <1>3, Zenon DEF PostNext
  <2>2. Only(b)'
    BY <1>2, <2>1, OnlyStep
  <2>3. Pack(args') = b
    BY <1>1, <2>1, Zenon
  <2>4. Only(Pack(args))'
    BY <2>2, <2>3 DEF Only
  <2> QED  BY <1>0, <2>1, <2>4 DEF PayloadInv
<1>4. CASE UNCHANGED postVars
  <2>1. args' = args /\ UNCHANGED <<queue, pc, posting, handling>>
    BY <1>4 DEF postVars, vars, callVars
  <2>2. Pack(args') = b
    BY <1>1, <2>1, Zenon
  <2>3. Only(Pack(args))'
    BY <1>2, <2>1, <2>2 DEF Only, Idle
  <2> QED  BY <1>0, <2>1, <2>3 DEF PayloadInv
<1> QED  BY <1>3, <1>4

\* At any time the only payload under way is that of the arguments that were posted.
THEOREM PayloadInvHolds == PostSpec => [](TypeInv /\ PayloadInv)
<1>1. PostInit => TypeInv /\ PayloadInv
  BY PostInitIsInit, TypeInit, PayloadInit
<1>2. TypeInv /\ PayloadInv /\ [PostNext]_postVars => (TypeInv /\ PayloadInv)'
  <2>1. PayloadInv => args \in Inputs
    BY DEF PayloadInv
  <2> QED  BY <2>1, PostNextIsNext, TypeStep, PayloadStep
<1> QED  BY <1>1, <1>2, PTL DEF PostSpec

\* The messages of EnvPost go the way of EnvRegistry: what is proved there of every env, of the
\* lock and of the ids holds when scripts post what they have packed.
LEMMA PostIsRegistry == PostSpec => Spec
<1>1. PostInit => Init
  BY PostInitIsInit
<1>2. PayloadInv /\ [PostNext]_postVars => [Next]_vars
  BY PostNextIsNext DEF PayloadInv
<1> QED  BY <1>1, <1>2, PayloadInvHolds, PTL DEF PostSpec, Spec

\* What is handled is the bytes of what was sent.
LEMMA HandledIsPacked ==
  ASSUME PayloadInv
  PROVE  \A m \in Handled : m.sent \in Seq(Values) /\ m.sent # <<>> /\ m.bytes = Pack(m.sent)
<1>1. SUFFICES ASSUME NEW m \in Handled
               PROVE  m.sent \in Seq(Values) /\ m.sent # <<>> /\ m.bytes = Pack(m.sent)
  OBVIOUS
<1>2. args \in Seq(Values) /\ args # <<>>
  BY PostedIsPayload DEF PayloadInv
<1>3. PICK t \in Threads : handling[t] # Idle /\ m = [sent |-> args, bytes |-> handling[t].payload]
  BY DEF Handled
<1>4. handling[t].payload = Pack(args)
  BY <1>3 DEF PayloadInv, Only
<1>5. m.sent = args /\ m.bytes = handling[t].payload
  BY <1>3
<1> QED  BY <1>2, <1>4, <1>5, Zenon

\* No argument has a key that is lost exactly if LostArgs has none.
LEMMA NoneIsLost == \A a : (\E i \in DOMAIN a : LosesKey(a[i], 0)) <=> LostArgs(a) # {}
BY Zenon DEF LostArgs

\* A payload that is unpacked without an error has lost nothing.
LEMMA UnpackErrors ==
  ASSUME NEW a \in Seq(Values)
  PROVE  Unpack(Pack(a)).err = "none" => LostArgs(a) = {} /\ Unpack(Pack(a)) = Read(KeptArgs(a), -1)
<1>1. Refused("index is nil").err # "none"
  BY DEF Refused
<1> QED  BY <1>1, PackedRead, Zenon

\* Each of the four properties is a fact about payloads, of whatever is under way.
LEMMA PayloadsDelivered == PayloadInv => DeliveredAsSent
<1> SUFFICES ASSUME PayloadInv, NEW m \in Handled
             PROVE  IF \E i \in DOMAIN m.sent : LosesKey(m.sent[i], 0)
                    THEN Unpack(m.bytes).err = "index is nil"
                    ELSE Unpack(m.bytes) = [vals |-> KeptArgs(m.sent), err |-> "none", next |-> -1]
  BY Zenon DEF DeliveredAsSent
<1>1. PICK a \in Seq(Values) : a = m.sent /\ m.bytes = Pack(a)
  BY HandledIsPacked, Zenon
<1>2. (\E i \in DOMAIN a : LosesKey(a[i], 0)) <=> LostArgs(a) # {}
  BY NoneIsLost, Zenon
<1>3. /\ LostArgs(a) = {} => Unpack(Pack(a)) = Read(KeptArgs(a), -1)
      /\ LostArgs(a) # {} => Unpack(Pack(a)) = Refused("index is nil")
  BY PackedRead
<1>4. Refused("index is nil").err = "index is nil"
  BY DEF Refused
<1>5. Read(KeptArgs(a), -1) = [vals |-> KeptArgs(a), err |-> "none", next |-> -1]
  BY Zenon DEF Read
<1> QED  BY <1>1, <1>2, <1>3, <1>4, <1>5, Zenon

\* The calls by streams agree with the one without them.
LEMMA PayloadsAgree == PayloadInv => StreamsAgree
<1> SUFFICES ASSUME PayloadInv, NEW m \in Handled, Unpack(m.bytes).err = "none", NEW limit \in 1 .. 2
             PROVE  Calls(m.bytes, limit, Len(Unpack(m.bytes).vals)) = Unpack(m.bytes)
  BY Zenon DEF StreamsAgree
<1>1. PICK a \in Seq(Values) : a = m.sent /\ m.bytes = Pack(a) /\ a # <<>>
  BY HandledIsPacked, Zenon
<1>2. Unpack(Pack(a)).err = "none"
  BY <1>1, Zenon
<1>3. LostArgs(a) = {} /\ Unpack(Pack(a)) = Read(KeptArgs(a), -1)
  BY <1>2, UnpackErrors
<1>4. limit \in Nat /\ limit # 0
  OBVIOUS
<1>5. PICK L \in Nat : L = Len(a) /\ L = Len(KeptArgs(a))
  <2>1. PICK L \in Nat : L = Len(a)
    OBVIOUS
  <2>2. Len(KeptArgs(a)) = L
    BY <2>1, KeptLength
  <2> QED  BY <2>1, <2>2, Zenon
<1>6. Calls(Pack(a), limit, L) = Read(KeptArgs(a), -1)
  <2>1. Len(a) <= L
    BY <1>5
  <2> QED  BY <1>1, <1>3, <1>4, <2>1, CallsRead
<1>7. L = Len(Unpack(Pack(a)).vals)
  <2>1. Read(KeptArgs(a), -1).vals = KeptArgs(a)
    BY DEF Read
  <2> QED  BY <1>3, <1>5, <2>1, Zenon
<1> QED  BY <1>1, <1>3, <1>6, <1>7, Zenon

\* A payload that lost bytes is refused or short.
LEMMA PayloadsCut == PayloadInv => CutIsRefused
<1> SUFFICES ASSUME PayloadInv, NEW m \in Handled, Unpack(m.bytes).err = "none",
                    NEW n \in 0 .. Len(m.bytes) - 1
             PROVE  \/ Unpack(SubSeq(m.bytes, 1, n)).err = "missing bytes"
                    \/ /\ Unpack(SubSeq(m.bytes, 1, n)).err = "none"
                       /\ IsStrictPrefix(Unpack(SubSeq(m.bytes, 1, n)).vals, Unpack(m.bytes).vals)
  BY Zenon DEF CutIsRefused
<1>1. PICK a \in Seq(Values) : a = m.sent /\ m.bytes = Pack(a)
  BY HandledIsPacked, Zenon
<1>2. Unpack(Pack(a)).err = "none"
  BY <1>1, Zenon
<1>3. LostArgs(a) = {} /\ Unpack(Pack(a)) = Read(KeptArgs(a), -1)
  BY <1>2, UnpackErrors
<1>4. n \in Nat /\ n < Len(Pack(a))
  <2>1. PICK k \in Nat : k = Len(a)
    OBVIOUS
  <2>2. PICK b \in Seq(Symbols) : b = Pack(a)
    BY <2>1, ArgCodesType
  <2>3. n \in 0 .. Len(b) - 1
    BY <1>1, <2>2, Zenon
  <2>4. n \in Nat /\ n < Len(b)
    BY <2>3
  <2> QED  BY <2>2, <2>4, Zenon
<1>5. PICK r : r = Unpack(SubSeq(Pack(a), 1, n))
  OBVIOUS
<1>6. r = Refused("missing bytes") \/ \E vs, next : r = Read(vs, next) /\ IsStrictPrefix(vs, KeptArgs(a))
  BY <1>3, <1>4, <1>5, CutRead
<1>7. Refused("missing bytes").err = "missing bytes"
  BY DEF Refused
<1>8. \A vs, next : Read(vs, next).err = "none" /\ Read(vs, next).vals = vs
  <2>1. ASSUME NEW vs, NEW next PROVE Read(vs, next).err = "none" /\ Read(vs, next).vals = vs
    <3>1. [vals |-> vs, err |-> "none", next |-> next].err = "none" /\ [vals |-> vs, err |-> "none", next |-> next].vals = vs
      OBVIOUS
    <3> QED  BY <3>1, Zenon DEF Read
  <2> QED  BY <2>1, Zenon
<1>9. r = Unpack(SubSeq(m.bytes, 1, n)) /\ Unpack(m.bytes).vals = KeptArgs(a)
  <2>1. Unpack(m.bytes) = Read(KeptArgs(a), -1)
    BY <1>1, <1>3, Zenon
  <2> QED  BY <1>1, <1>5, <1>8, <2>1, Zenon
<1>10. r.err = "missing bytes" \/ (r.err = "none" /\ IsStrictPrefix(r.vals, KeptArgs(a)))
  <2>1. CASE r = Refused("missing bytes")
    BY <1>7, <2>1, Zenon
  <2>2. CASE \E vs, next : r = Read(vs, next) /\ IsStrictPrefix(vs, KeptArgs(a))
    <3>1. PICK vs, next : r = Read(vs, next) /\ IsStrictPrefix(vs, KeptArgs(a))
      BY <2>2
    <3>2. r.err = "none" /\ r.vals = vs
      BY <1>8, <3>1, Zenon
    <3> QED  BY <3>1, <3>2, Zenon
  <2> QED  BY <1>6, <2>1, <2>2, Zenon
<1> QED  BY <1>9, <1>10, Zenon

\* The writes of a payload stay within the buffer.
LEMMA PayloadsFit == PayloadInv => BuffersHold
<1> SUFFICES ASSUME PayloadInv, NEW m \in Handled PROVE \A b \in Buffers(Writes(m.sent)) : b.len + b.free <= b.cap
  BY Zenon DEF BuffersHold
<1>1. PICK a \in Seq(Values) : a = m.sent
  BY HandledIsPacked, Zenon
<1>2. Writes(a) \in Seq(Lengths)
  BY WritesType
<1>3. PICK ws \in Seq(Lengths) : ws = Writes(a)
  BY <1>2
<1>4. \A b \in Buffers(ws) : Fits(b)
  BY BuffersFit
<1> QED  BY <1>1, <1>3, <1>4, Zenon DEF Fits

\* What a script posts arrives in number, order and content: whatever the values, the tables among
\* them and the lengths and numbers at the borders of the formats, unpacking what mp_pack wrote
\* gives them back, save functions and tables nested too deep; if one of these is a key, the
\* receiver has an error.
THEOREM DeliveredAsSentHolds == PostSpec => []DeliveredAsSent
BY PayloadInvHolds, PayloadsDelivered, PTL

\* unpack_one and unpack_limit, each called with the offset the call before returned, read what
\* unpack reads at once: no value is skipped or read twice.
THEOREM StreamsAgreeHolds == PostSpec => []StreamsAgree
BY PayloadInvHolds, PayloadsAgree, PTL

\* Of a payload that lost its end, mp_unpack_full reads an error or some of the first values, and
\* never anything behind the end.
THEOREM CutIsRefusedHolds == PostSpec => []CutIsRefused
BY PayloadInvHolds, PayloadsCut, PTL

\* mp_buf_append never counts more of the buffer as free than it allocated, however many pieces
\* and arguments mp_pack appends, and across the reuse of the buffer.
THEOREM BuffersHoldHolds == PostSpec => []BuffersHold
BY PayloadInvHolds, PayloadsFit, PTL
==============================================================================
