-------------------------- MODULE GlobalSocketProofs --------------------------
(***************************************************************************)
(* Proofs about GlobalSocket for any number of threads, slots, descriptors *)
(* and calls, as long as the table has room: its last slot is not in use,  *)
(* so that _occupySoAndLock always finds a slot.                           *)
(*                                                                         *)
(* Three layers.  ControlInv: which locks a thread has and wants at every  *)
(* point of every function.  TableInv: what the locks protect, and that a  *)
(* descriptor is in one place at most.  ServeInv, for servers that listen  *)
(* before their first connection: every descriptor is in a place, and what *)
(* epoll watches is what the table says.                                   *)
(***************************************************************************)
EXTENDS GlobalSocket, FiniteSetTheorems, SequenceTheorems, WellFoundedInduction, TLAPS

\* The table is not full.
TableHasRoom == mFd[NSlots] = 0

-----------------------------------------------------------------------------
(* Layer 1: locks and control.                                             *)

WE(s) == <<<<"W", s>>, <<"E", s>>>>

WorkerPcs == {"idle", "listen", "accept", "accept_error", "occupy", "establish", "add", "close",
              "read_check", "reading", "read_fail"}
SocketPcs == {"wait", "events", "dispatch", "flush", "flushing", "flush_error"}
Apart == {"idle", "wait", "events", "dispatch", "flush"}

\* All locks a thread takes in the function it is in, as far as pc says.
Route(t) ==
  LET s == sid[t] IN
  CASE pc[t] \in {"listen", "close"} -> {<<"S", s>>, <<"R", s>>, <<"W", s>>, <<"E", s>>}
    [] pc[t] = "accept" -> {<<"S", s>>}
    [] pc[t] \in {"accept_error", "add"} -> {<<"S", s>>, <<"E", s>>}
    [] pc[t] = "occupy" -> {<<"S", s>>, <<"S", nso[t]>>}
    [] pc[t] = "establish" ->
         {<<"S", nso[t]>>, <<"R", nso[t]>>, <<"W", nso[t]>>, <<"E", nso[t]>>}
    [] pc[t] \in {"read_check", "reading"} -> {<<"R", s>>}
    [] pc[t] = "read_fail" -> {<<"R", s>>, <<"E", s>>}
    [] pc[t] = "dispatch" -> {<<"S", evt.so>>, <<"E", evt.so>>}
    [] pc[t] = "flushing" -> {<<"W", s>>}
    [] pc[t] = "flush_error" -> {<<"W", s>>, <<"E", s>>}
    [] OTHER -> {}

\* The lists of locks a thread can still have before it there.
Ahead(t) ==
  LET s == sid[t] IN
  CASE pc[t] = "listen" -> {SRWE(s), RWE(s), WE(s), Only("E", s)}
    [] pc[t] = "close" -> {RWE(s), WE(s), Only("E", s)}
    [] pc[t] = "accept" -> {Only("S", s), <<>>}
    [] pc[t] \in {"accept_error", "add", "read_fail", "flush_error"} -> {Only("E", s)}
    [] pc[t] = "occupy" -> {Only("S", nso[t])}
    [] pc[t] = "establish" -> {RWE(nso[t]), WE(nso[t]), Only("E", nso[t])}
    [] pc[t] = "dispatch" -> {Only("E", evt.so)}
    [] OTHER -> {<<>>}

\* The locks of a list.
Of(locks) == {locks[i] : i \in DOMAIN locks}

\* What a thread has at hand at each point.
PcOk(t) ==
  /\ t \in Workers => pc[t] \in WorkerPcs
  /\ t = Socket => pc[t] \in SocketPcs
  /\ pc[t] \notin Apart => sid[t] \in Slots
  /\ pc[t] \in {"occupy", "establish"} => nso[t] \in Slots
  /\ pc[t] = "occupy" => nso[t] # sid[t]
  /\ nfd[t] # None <=> pc[t] \in {"listen", "occupy"}
  /\ pc[t] = "dispatch" => evt # None

\* It has the locks of its route that are not ahead of it, and no others.
LocksOk(t) ==
  /\ want[t] \in Ahead(t)
  /\ \A l \in Locks : lock[l] = t <=> l \in Route(t) /\ l \notin Of(want[t])

ControlInv ==
  /\ pc \in [Threads -> WorkerPcs \cup SocketPcs]
  /\ \A t \in Threads : PcOk(t) /\ LocksOk(t)

(* Layer 2: the table and what the locks protect.                          *)

SlotInv == \A s \in Slots : mState[s] \in {"listening", "established", "rw"} => mFd[s] # 0

\* What a thread relies on while it has a lock.
Relies(t) ==
  /\ pc[t] = "occupy" => mState[sid[t]] = "listening"
  /\ pc[t] \in {"reading", "read_fail", "flush_error"} =>
       mState[sid[t]] \in {"rw", "errored"} /\ mFd[sid[t]] # 0
  /\ pc[t] = "establish" => mFd[nso[t]] # 0 /\ reg[mFd[nso[t]]] = None

\* A descriptor is in one place at most, and open there.
PlaceInv ==
  /\ \A s \in Slots : mFd[s] # 0 => mFd[s] \in open
  /\ \A r, s \in Slots : mFd[r] = mFd[s] => r = s \/ mFd[s] = 0
  /\ \A t \in Threads : nfd[t] # None =>
       /\ nfd[t] \in open /\ reg[nfd[t]] = None
       /\ \A s \in Slots : mFd[s] # nfd[t]
  /\ \A t, u \in Threads : nfd[t] = nfd[u] => t = u \/ nfd[u] = None

KernelInv ==
  /\ \A fd \in Fds : fd \notin open => reg[fd] = None
  /\ \A fd \in edge : reg[fd] # None

\* No ring of acceptors, each waiting for the slot another one listens on.
RingFree ==
  \A D \in (SUBSET Threads) \ {{}} :
    \E t \in D : \A u \in D : ~(pc[t] = "occupy" /\ pc[u] = "occupy" /\ nso[t] = sid[u])

DataInv == SlotInv /\ (\A t \in Threads : Relies(t)) /\ PlaceInv /\ KernelInv /\ RingFree

TableInv == TypeOK /\ ControlInv /\ DataInv

(* Layer 3: servers that listen before their first connection.             *)

\* Until then there is nothing but listening sockets.
EarlyInv ==
  /\ nConns = 0 =>
       /\ \A s \in Slots : mState[s] \notin {"established", "rw"} /\ mFd[s] \in {0, s}
       /\ \A fd \in Fds : queue[fd] = 0
       /\ \A t \in Threads : pc[t] \notin {"occupy", "establish"}
  /\ \A t \in Threads : pc[t] = "listen" => nConns = 0 /\ sid[t] = nfd[t]

\* Every open descriptor is somewhere.
HomeInv ==
  \A fd \in open : (\E s \in Slots : mFd[s] = fd) \/ (\E t \in Threads : nfd[t] = fd)

\* Sockets that are served are watched.
ServedInv == \A s \in Slots : mState[s] \in {"listening", "rw"} => reg[mFd[s]] = s

ServeInv == EarlyInv /\ HomeInv /\ WatchedIsLive /\ ServedInv

-----------------------------------------------------------------------------
(* Lists of locks.                                                         *)

Kinds == {"S", "R", "W", "E"}

\* A list of one, two, three or four locks, taken apart.
LEMMA ListsTakenApart ==
  /\ \A a \in Locks : <<a>> \in Seq(Locks) /\ Len(<<a>>) = 1 /\ Head(<<a>>) = a /\ Tail(<<a>>) = <<>>
  /\ \A a, b \in Locks :
       <<a, b>> \in Seq(Locks) /\ Len(<<a, b>>) = 2 /\ Head(<<a, b>>) = a /\ Tail(<<a, b>>) = <<b>>
  /\ \A a, b, c \in Locks :
       /\ <<a, b, c>> \in Seq(Locks) /\ Len(<<a, b, c>>) = 3
       /\ Head(<<a, b, c>>) = a /\ Tail(<<a, b, c>>) = <<b, c>>
  /\ \A a, b, c, d \in Locks :
       /\ <<a, b, c, d>> \in Seq(Locks) /\ Len(<<a, b, c, d>>) = 4
       /\ Head(<<a, b, c, d>>) = a /\ Tail(<<a, b, c, d>>) = <<b, c, d>>
OBVIOUS

\* The lists the code has: their first lock and the rest.
LEMMA FirstLock ==
  ASSUME NEW s \in Slots
  PROVE  /\ \A k \in Kinds : /\ Only(k, s) \in Seq(Locks) /\ Len(Only(k, s)) = 1
                             /\ Head(Only(k, s)) = <<k, s>> /\ Tail(Only(k, s)) = <<>>
         /\ SE(s) \in Seq(Locks) /\ Head(SE(s)) = <<"S", s>> /\ Tail(SE(s)) = Only("E", s)
         /\ WE(s) \in Seq(Locks) /\ Len(WE(s)) = 2
         /\ Head(WE(s)) = <<"W", s>> /\ Tail(WE(s)) = Only("E", s)
         /\ RWE(s) \in Seq(Locks) /\ Len(RWE(s)) = 3
         /\ Head(RWE(s)) = <<"R", s>> /\ Tail(RWE(s)) = WE(s)
         /\ SRWE(s) \in Seq(Locks) /\ Len(SRWE(s)) = 4
         /\ Head(SRWE(s)) = <<"S", s>> /\ Tail(SRWE(s)) = RWE(s)
<1>1. \A k \in Kinds : <<k, s>> \in Locks
  BY DEF Kinds, Locks
<1>2. <<"S", s>> \in Locks /\ <<"R", s>> \in Locks /\ <<"W", s>> \in Locks /\ <<"E", s>> \in Locks
  BY <1>1 DEF Kinds
<1>3. \A k \in Kinds : /\ Only(k, s) \in Seq(Locks) /\ Len(Only(k, s)) = 1
                       /\ Head(Only(k, s)) = <<k, s>> /\ Tail(Only(k, s)) = <<>>
  BY <1>1, ListsTakenApart DEF Only
<1> QED
  BY <1>2, <1>3, ListsTakenApart DEF Only, SE, WE, RWE, SRWE

\* The locks of a list are its first one and those of the rest; of a list of one
\* there is no rest.
LEMMA OfRest ==
  ASSUME NEW q \in Seq(Locks), q # <<>>
  PROVE  /\ Of(q) = {Head(q)} \cup Of(Tail(q))
         /\ Head(q) \in Locks /\ Tail(q) \in Seq(Locks)
<1>1. /\ Head(q) \in Locks /\ Head(q) = q[1] /\ Tail(q) \in Seq(Locks)
      /\ Len(q) \in Nat \ {0} /\ Len(Tail(q)) = Len(q) - 1
      /\ DOMAIN q = 1 .. Len(q) /\ DOMAIN Tail(q) = 1 .. Len(q) - 1
      /\ \A i \in 1 .. Len(q) - 1 : Tail(q)[i] = q[i + 1]
  BY HeadTailProperties, LenProperties, EmptySeq
<1>2. \A l : l \in Of(q) <=> \E i \in 1 .. Len(q) : l = q[i]
  BY <1>1 DEF Of
<1>3. \A l : l \in Of(Tail(q)) <=> \E i \in 1 .. Len(q) - 1 : l = q[i + 1]
  BY <1>1 DEF Of
<1>4. ASSUME NEW i \in 1 .. Len(q), i # 1 PROVE q[i] \in Of(Tail(q))
  <2>1. i - 1 \in 1 .. Len(q) - 1 /\ (i - 1) + 1 = i
    BY <1>1, <1>4
  <2> QED
    BY <1>3, <2>1
<1>5. \A i \in 1 .. Len(q) - 1 : q[i + 1] \in Of(q)
  BY <1>1, <1>2
<1>6. q[1] \in Of(q)
  BY <1>1, <1>2
<1> QED
  BY <1>1, <1>2, <1>3, <1>4, <1>5, <1>6

\* The locks of no list.
LEMMA OfNothing == Of(<<>>) = {}
BY EmptySeq DEF Of

\* The locks of the lists the code has.
LEMMA OfLists ==
  ASSUME NEW s \in Slots
  PROVE  /\ \A k \in Kinds : Of(Only(k, s)) = {<<k, s>>} /\ Only(k, s) # <<>>
         /\ Of(SE(s)) = {<<"S", s>>, <<"E", s>>} /\ SE(s) # <<>>
         /\ Of(WE(s)) = {<<"W", s>>, <<"E", s>>} /\ WE(s) # <<>>
         /\ Of(RWE(s)) = {<<"R", s>>, <<"W", s>>, <<"E", s>>} /\ RWE(s) # <<>>
         /\ Of(SRWE(s)) = {<<"S", s>>, <<"R", s>>, <<"W", s>>, <<"E", s>>} /\ SRWE(s) # <<>>
<1>1. \A k \in Kinds : Only(k, s) # <<>>
  BY DEF Only
<1>2. SE(s) # <<>> /\ WE(s) # <<>> /\ RWE(s) # <<>>
  BY DEF SE, WE, RWE
<1>3. SRWE(s) # <<>>
  BY DEF SRWE
<1>4. \A k \in Kinds : Of(Only(k, s)) = {<<k, s>>}
  BY <1>1, OfRest, OfNothing, FirstLock
<1>5. Of(Only("E", s)) = {<<"E", s>>}
  BY <1>4 DEF Kinds
<1>6. Of(WE(s)) = {<<"W", s>>, <<"E", s>>} /\ Of(SE(s)) = {<<"S", s>>, <<"E", s>>}
  BY ZenonT(60), <1>2, <1>5, OfRest, FirstLock
<1>7. Of(RWE(s)) = {<<"R", s>>, <<"W", s>>, <<"E", s>>}
  BY ZenonT(60), <1>2, <1>6, OfRest, FirstLock
<1>8. Of(SRWE(s)) = {<<"S", s>>, <<"R", s>>, <<"W", s>>, <<"E", s>>}
  BY ZenonT(60), <1>3, <1>7, OfRest, FirstLock
<1> QED
  BY <1>1, <1>2, <1>3, <1>4, <1>6, <1>7, <1>8

-----------------------------------------------------------------------------
(* Locks and control.                                                      *)

ControlType ==
  /\ lock \in [Locks -> Threads \cup {None}]
  /\ want \in [Threads -> Seq(Locks)]
  /\ sid \in [Threads -> Slots \cup {None}]
  /\ nfd \in [Threads -> Fds \cup {None}]
  /\ nso \in [Threads -> Slots \cup {None}]
  /\ evt \in [so : Slots, hup : BOOLEAN] \cup {None}

\* A step of t leaves the other threads where they are, with their locks.
OthersStay(t) ==
  /\ \A u \in Threads : u # t =>
       /\ pc'[u] = pc[u] /\ want'[u] = want[u] /\ sid'[u] = sid[u]
       /\ nfd'[u] = nfd[u] /\ nso'[u] = nso[u]
  /\ t # Socket => evt' = evt
  /\ \A l \in Locks : \A u \in Threads : u # t => (lock'[l] = u <=> lock[l] = u)

\* Threads, slots and descriptors are no None.
LEMMA NoneApart == None \notin Threads /\ None \notin Slots /\ None \notin Fds /\ 0 \notin Fds /\ 0 \notin Slots
BY SocketAssumption DEF Threads, Slots, Fds

\* What is ahead of a thread is on its route.
LEMMA AheadIsOnRoute ==
  ASSUME ControlType, NEW t \in Threads, PcOk(t), want[t] \in Ahead(t),
         pc[t] \in WorkerPcs \cup SocketPcs
  PROVE  Of(want[t]) \subseteq Route(t)
<1> USE DEF PcOk, Apart
<1>1. CASE pc[t] \in {"listen", "close"}
  BY <1>1, OfLists DEF Route, Ahead, Kinds
<1>5. CASE pc[t] \in {"accept", "accept_error", "add", "read_fail", "flush_error"}
  BY <1>5, OfLists, OfNothing DEF Route, Ahead, Kinds
<1>2. CASE pc[t] \in {"occupy", "establish"}
  BY <1>2, OfLists DEF Route, Ahead, Kinds
<1>3. CASE pc[t] = "dispatch"
  BY <1>3, OfLists DEF Route, Ahead, Kinds, ControlType
<1>4. CASE pc[t] \in {"idle", "wait", "events", "flush", "flushing", "read_check", "reading"}
  BY <1>4, OfNothing DEF Ahead
<1> QED
  BY <1>1, <1>2, <1>3, <1>4, <1>5 DEF WorkerPcs, SocketPcs

\* A thread at a step has all locks of its route, and the others have none of them.
LEMMA Taken ==
  ASSUME ControlType, ControlInv, NEW t \in Threads, NEW label, At(t, label)
  PROVE  /\ Locked(t) \in [Locks -> Threads \cup {None}]
         /\ \A l \in Locks : Locked(t)[l] = t <=> l \in Route(t)
         /\ \A l \in Locks : \A u \in Threads : u # t => (Locked(t)[l] = u <=> lock[l] = u)
         /\ \A l \in Locks : \A u \in Threads : u # t /\ l \in Route(t) => lock[l] # u
<1> USE NoneApart DEF ControlType
<1>1. \A l \in Locks : lock[l] = t <=> l \in Route(t) /\ l \notin Of(want[t])
  BY DEF ControlInv, LocksOk
<1>2. CASE want[t] = <<>>
  <2>1. Of(want[t]) = {}
    BY <1>2, OfNothing
  <2>2. \A l \in Locks : Locked(t)[l] = lock[l]
    BY <1>2 DEF Locked
  <2> QED
    BY <1>1, <2>1, <2>2 DEF Locked
<1>3. CASE want[t] # <<>>
  <2> DEFINE h == Head(want[t])
  <2>1. Len(want[t]) = 1 /\ lock[h] = None
    BY <1>3 DEF At
  <2>2. Of(want[t]) = {h} /\ h \in Locks
    <3>1. Len(Tail(want[t])) = 0 /\ Tail(want[t]) \in Seq(Locks)
      BY <2>1, <1>3, HeadTailProperties
    <3>2. Tail(want[t]) = <<>>
      BY <3>1, EmptySeq
    <3> QED
      BY <3>2, <1>3, OfRest, OfNothing
  <2>3. Of(want[t]) \subseteq Route(t)
    BY AheadIsOnRoute DEF ControlInv, LocksOk, ControlType
  <2>4. \A l \in Locks : Locked(t)[l] = IF l = h THEN t ELSE lock[l]
    BY <1>3 DEF Locked
  <2> HIDE DEF h
  <2> QED
    BY <1>1, <2>1, <2>2, <2>3, <2>4 DEF Locked
<1> QED
  BY <1>2, <1>3

\* What a step of one thread has to show for the locks of all.
LEMMA OthersControl ==
  ASSUME ControlInv, NEW t \in Threads, OthersStay(t), PcOk(t)', LocksOk(t)',
         pc' \in [Threads -> WorkerPcs \cup SocketPcs]
  PROVE  ControlInv'
<1> SUFFICES ASSUME NEW u \in Threads, u # t PROVE PcOk(u)' /\ LocksOk(u)'
  BY DEF ControlInv
<1>1. PcOk(u) /\ LocksOk(u)
  BY DEF ControlInv
<1>2. /\ pc'[u] = pc[u] /\ want'[u] = want[u] /\ sid'[u] = sid[u]
      /\ nfd'[u] = nfd[u] /\ nso'[u] = nso[u]
      /\ \A l \in Locks : lock'[l] = u <=> lock[l] = u
  BY DEF OthersStay
<1>3. CASE pc[u] = "dispatch"
  <2>1. u = Socket
    BY <1>1, <1>3 DEF PcOk, Threads, WorkerPcs
  <2>2. evt' = evt
    BY <2>1 DEF OthersStay
  <2> QED
    BY <1>1, <1>2, <2>2 DEF PcOk, LocksOk, Route, Ahead
<1>4. CASE pc[u] # "dispatch"
  BY <1>1, <1>2, <1>4 DEF PcOk, LocksOk, Route, Ahead
<1> QED
  BY <1>3, <1>4

\* A function that returns has no lock left.
LEMMA ReturnControl ==
  ASSUME ControlType, ControlInv, NEW t \in Threads, Return(t), nso' = nso,
         evt' = evt, nfd' \in [Threads -> Fds \cup {None}], nfd'[t] = None,
         \A u \in Threads : u # t => nfd'[u] = nfd[u]
  PROVE  ControlType' /\ ControlInv'
<1> USE NoneApart DEF ControlType, Return, UnlockAll, Goto
<1> DEFINE label == IF t = Socket THEN "flush" ELSE "idle"
<1>1. ControlType'
  <2>1. <<>> \in Seq(Locks)
    OBVIOUS
  <2>2. lock' \in [Locks -> Threads \cup {None}]
    OBVIOUS
  <2> QED
    BY <2>1, <2>2
<1>2. /\ pc'[t] = label /\ want'[t] = <<>> /\ pc' \in [Threads -> WorkerPcs \cup SocketPcs]
      /\ \A l \in Locks : lock'[l] = IF lock[l] = t THEN None ELSE lock[l]
  BY DEF ControlInv, WorkerPcs, SocketPcs
<1>3. OthersStay(t)
  BY <1>2 DEF ControlInv, OthersStay
<1>4. PcOk(t)'
  BY <1>2, SocketAssumption DEF PcOk, Apart, WorkerPcs, SocketPcs
<1>5. LocksOk(t)'
  BY <1>2 DEF LocksOk, Route, Ahead
<1> QED
  BY <1>1, <1>2, <1>3, <1>4, <1>5, OthersControl

\* A thread that enters a function takes the first lock of its route.
LEMMA EnterControl ==
  ASSUME ControlType, ControlInv, NEW t \in Threads, NEW label, NEW q \in Seq(Locks), q # <<>>,
         Enter(t, label, q), pc[t] \in {"idle", "events", "flush"},
         nfd' = nfd, nso' = nso, sid' \in [Threads -> Slots \cup {None}],
         \A u \in Threads : u # t => sid'[u] = sid[u],
         evt' \in [so : Slots, hup : BOOLEAN] \cup {None}, t # Socket => evt' = evt,
         label \in WorkerPcs \cup SocketPcs, PcOk(t)',
         Tail(q) \in Ahead(t)', Of(q) = Route(t)', Head(q) \notin Of(Tail(q))
  PROVE  ControlType' /\ ControlInv'
<1> USE NoneApart DEF ControlType, Enter, Goto
<1>1. Head(q) \in Locks /\ Tail(q) \in Seq(Locks) /\ Of(q) = {Head(q)} \cup Of(Tail(q))
  BY OfRest
<1>2. /\ pc'[t] = label /\ want'[t] = Tail(q) /\ lock[Head(q)] = None
      /\ pc' \in [Threads -> WorkerPcs \cup SocketPcs]
      /\ \A l \in Locks : lock'[l] = IF l = Head(q) THEN t ELSE lock[l]
  BY <1>1 DEF ControlInv
<1>3. ControlType'
  BY <1>1
<1>4. OthersStay(t)
  BY <1>2 DEF ControlInv, OthersStay
<1>5. LocksOk(t)'
  <2>1. \A l \in Locks : lock[l] # t
    BY ZenonT(60), OfNothing DEF ControlInv, LocksOk, Route
  <2> QED
    BY <1>1, <1>2, <2>1 DEF LocksOk
<1> QED
  BY <1>2, <1>3, <1>4, <1>5, OthersControl

\* A thread that keeps the locks it has may want one more.
LEMMA KeepControl ==
  ASSUME ControlType, ControlInv, NEW t \in Threads, NEW from, NEW label, NEW q \in Seq(Locks),
         At(t, from), Keep(t), Goto(t, label, q), UNCHANGED <<sid, nfd, nso, evt>>,
         label \in WorkerPcs \cup SocketPcs, PcOk(t)',
         q \in Ahead(t)', Route(t) = Route(t)' \ Of(q)
  PROVE  ControlType' /\ ControlInv'
<1> USE NoneApart DEF ControlType, Keep, Goto
<1>1. /\ lock' \in [Locks -> Threads \cup {None}]
      /\ \A l \in Locks : lock'[l] = t <=> l \in Route(t)
      /\ \A l \in Locks : \A u \in Threads : u # t => (lock'[l] = u <=> lock[l] = u)
  BY Taken
<1>2. pc'[t] = label /\ want'[t] = q /\ pc' \in [Threads -> WorkerPcs \cup SocketPcs]
  BY DEF ControlInv
<1>3. ControlType'
  BY <1>1
<1>4. OthersStay(t)
  BY <1>1 DEF ControlInv, OthersStay
<1>5. LocksOk(t)'
  BY <1>1, <1>2 DEF LocksOk
<1> QED
  BY <1>2, <1>3, <1>4, <1>5, OthersControl

\* A set of natural numbers has a least element.
LEMMA LeastNatural ==
  ASSUME NEW S \in SUBSET Nat, S # {}
  PROVE  \E x \in S : \A y \in S : x <= y
<1> DEFINE T == {0 .. x : x \in S}
<1>1. T \subseteq FiniteSubsetsOf(Nat) /\ T # {}
  <2>1. ASSUME NEW x \in S PROVE IsFiniteSet(0 .. x) /\ 0 .. x \subseteq Nat
    BY FS_Interval
  <2> QED
    BY <2>1 DEF FiniteSubsetsOf
<1>2. PICK X \in T : \A Y \in T : <<Y, X>> \notin StrictSubsetOrdering(Nat)
  <2> HIDE DEF T
  <2> QED
    BY <1>1, WFMin, FS_StrictSubsetOrderingWellFounded
<1>3. PICK x \in S : X = 0 .. x
  OBVIOUS
<1>4. ASSUME NEW y \in S, y < x PROVE FALSE
  <2>1. 0 .. y \subseteq 0 .. x /\ x \in 0 .. x /\ x \notin 0 .. y
    BY <1>4
  <2>2. <<0 .. y, X>> \in StrictSubsetOrdering(Nat)
    BY <2>1, <1>3 DEF StrictSubsetOrdering
  <2> QED
    BY <2>2, <1>2
<1> QED
  BY <1>4

\* The lowest number of a set of slots or descriptors is in it.
LEMMA LowestIsIn ==
  ASSUME NEW S \in SUBSET Nat, S # {}
  PROVE  Lowest(S) \in S
BY LeastNatural DEF Lowest

\* While the table has room the scan from any slot whose successor exists ends at a
\* slot that looked free.
LEMMA ScanFinds ==
  ASSUME TableHasRoom, NEW i \in 1 .. NSlots
  PROVE  /\ FreeFrom(i) # {} /\ Lowest(FreeFrom(i)) \in Slots
         /\ mFd[Lowest(FreeFrom(i))] = 0
<1>1. NSlots \in FreeFrom(i)
  BY SocketAssumption DEF TableHasRoom, FreeFrom, Slots
<1>2. FreeFrom(i) \in SUBSET Nat
  BY SocketAssumption DEF FreeFrom, Slots
<1>3. Lowest(FreeFrom(i)) \in FreeFrom(i)
  BY <1>1, <1>2, LowestIsIn
<1> QED
  BY <1>1, <1>3 DEF FreeFrom

\* The new descriptor of socket and accept.
LEMMA NewFd ==
  ASSUME Unused # {}
  PROVE  Lowest(Unused) \in Fds /\ Lowest(Unused) \notin open
<1>1. Unused \in SUBSET Nat
  BY SocketAssumption DEF Unused, Fds
<1>2. Lowest(Unused) \in Unused
  BY <1>1, LowestIsIn
<1> QED
  BY <1>2 DEF Unused

-----------------------------------------------------------------------------
(* Control: every step.                                                    *)

\* The part of the state the control of the threads depends on.
controlVars == <<lock, want, pc, sid, nfd, nso, evt>>

\* A step that takes no lock and moves no thread.
LEMMA QuietControl ==
  ASSUME ControlType, ControlInv, UNCHANGED controlVars
  PROVE  ControlType' /\ ControlInv'
BY DEF controlVars, ControlType, ControlInv, PcOk, LocksOk, Route, Ahead

\* A list of several locks is followed by another one of its function.
LEMMA RestIsAhead ==
  ASSUME NEW t \in Threads, PcOk(t), pc[t] \in {"listen", "close", "establish"},
         want[t] \in Ahead(t), Len(want[t]) > 1
  PROVE  /\ Tail(want[t]) \in Ahead(t)
         /\ Head(want[t]) \in Route(t) /\ Head(want[t]) \notin Of(Tail(want[t]))
<1> DEFINE s == IF pc[t] = "establish" THEN nso[t] ELSE sid[t]
<1>1. s \in Slots
  BY DEF PcOk, Apart
<1>2. /\ pc[t] # "listen" => Ahead(t) = {RWE(s), WE(s), Only("E", s)}
      /\ pc[t] = "listen" => Ahead(t) = {SRWE(s), RWE(s), WE(s), Only("E", s)}
      /\ Route(t) = {<<"S", s>>, <<"R", s>>, <<"W", s>>, <<"E", s>>}
  BY DEF Ahead, Route
<1> HIDE DEF s
<1> DEFINE Follows(q) ==
             Tail(q) \in Ahead(t) /\ Head(q) \in Route(t) /\ Head(q) \notin Of(Tail(q))
<1>3. /\ Only("E", s) \in Ahead(t) /\ WE(s) \in Ahead(t) /\ RWE(s) \in Ahead(t)
      /\ <<"S", s>> \in Route(t) /\ <<"R", s>> \in Route(t) /\ <<"W", s>> \in Route(t)
  BY <1>2
<1>4. /\ <<"W", s>> \notin Of(Only("E", s)) /\ <<"R", s>> \notin Of(WE(s))
      /\ <<"S", s>> \notin Of(RWE(s))
  BY <1>1, OfLists DEF Kinds
<1>5. Follows(WE(s)) /\ Follows(RWE(s)) /\ Follows(SRWE(s))
  BY <1>1, <1>3, <1>4, FirstLock, Zenon
<1>6. ASSUME want[t] = Only("E", s) PROVE FALSE
  <2>1. Len(Only("E", s)) = 1
    BY <1>1, FirstLock DEF Kinds
  <2>2. Len(want[t]) = 1
    BY <1>6, <2>1, Zenon
  <2> QED
    BY <2>2
<1> HIDE DEF Follows
<1>7. Follows(want[t])
  BY <1>2, <1>5, <1>6, Zenon
<1> QED
  BY <1>7 DEF Follows

\* One lock on the way.
LEMMA AcquireControl ==
  ASSUME ControlType, ControlInv, NEW t \in Threads, Acquire(t)
  PROVE  ControlType' /\ ControlInv'
<1> USE NoneApart DEF ControlType, Acquire, eventVars
<1>1. PcOk(t) /\ LocksOk(t)
  BY DEF ControlInv
<1>2. want[t] # <<>> /\ Len(want[t]) > 1
  BY EmptySeq
<1>3. /\ Head(want[t]) \in Locks /\ Tail(want[t]) \in Seq(Locks)
      /\ Of(want[t]) = {Head(want[t])} \cup Of(Tail(want[t]))
  BY <1>2, OfRest
<1>4. ControlType'
  BY <1>3
<1>5. /\ want'[t] = Tail(want[t]) /\ \A u \in Threads : u # t => want'[u] = want[u]
      /\ \A l \in Locks : lock'[l] = IF l = Head(want[t]) THEN t ELSE lock[l]
      /\ lock[Head(want[t])] = None
  BY <1>3
<1>6. OthersStay(t)
  BY <1>5 DEF OthersStay
<1>7. PcOk(t)' /\ Route(t)' = Route(t) /\ Ahead(t)' = Ahead(t)
  BY <1>1 DEF PcOk, Route, Ahead
<1>8. pc[t] \in {"listen", "close", "establish"}
  <2>1. \A s \in Slots, k \in Kinds : Len(Only(k, s)) = 1
    BY FirstLock
  <2>2. sid[t] \in Slots => Len(Only("E", sid[t])) = 1 /\ Len(Only("S", sid[t])) = 1
    BY <2>1 DEF Kinds
  <2>3. nso[t] \in Slots => Len(Only("S", nso[t])) = 1
    BY <2>1 DEF Kinds
  <2>4. evt # None => Len(Only("E", evt.so)) = 1
    BY <2>1 DEF Kinds
  <2>5. Len(<<>>) = 0
    OBVIOUS
  <2> QED
    BY <1>1, <1>2, <2>2, <2>3, <2>4, <2>5 DEF PcOk, LocksOk, Ahead, Apart
<1>9. Tail(want[t]) \in Ahead(t) /\ Head(want[t]) \in Route(t) /\ Head(want[t]) \notin Of(Tail(want[t]))
  BY <1>1, <1>2, <1>8, RestIsAhead DEF LocksOk
<1>10. LocksOk(t)'
  BY <1>1, <1>3, <1>5, <1>7, <1>9 DEF LocksOk
<1> QED
  BY <1>4, <1>6, <1>7, <1>10, OthersControl DEF ControlInv

\* The socket thread goes on with nothing in its hands.
LEMMA GoOnControl ==
  ASSUME ControlType, ControlInv, NEW label \in {"wait", "events", "flush"},
         pc[Socket] \in {"wait", "events", "flush"}, Goto(Socket, label, <<>>),
         UNCHANGED <<lock, sid, nfd, nso, evt>>
  PROVE  ControlType' /\ ControlInv'
<1> USE DEF ControlType, Goto
<1>1. Socket \in Threads /\ <<>> \in Seq(Locks)
  BY DEF Threads
<1>2. PcOk(Socket) /\ LocksOk(Socket)
  BY <1>1 DEF ControlInv
<1>3. /\ pc'[Socket] = label /\ want'[Socket] = <<>>
      /\ pc' \in [Threads -> WorkerPcs \cup SocketPcs]
  BY <1>1 DEF ControlInv, SocketPcs
<1>4. ControlType'
  BY <1>1
<1>5. OthersStay(Socket)
  BY DEF ControlInv, OthersStay
<1>6. PcOk(Socket)'
  BY <1>2, <1>3, SocketAssumption DEF PcOk, Apart, SocketPcs
<1>7. LocksOk(Socket)'
  BY <1>2, <1>3, OfNothing DEF LocksOk, Ahead, Route
<1> QED
  BY <1>1, <1>3, <1>4, <1>5, <1>6, <1>7, OthersControl

\* so_listen begins.
LEMMA CallListenControl ==
  ASSUME ControlType, ControlInv, NEW t \in Workers, CallListen(t)
  PROVE  ControlType' /\ ControlInv'
<1> USE DEF ControlType, CallListen, Goto, eventVars
<1> DEFINE fd == Lowest(Unused)
<1>1. fd \in Fds /\ fd \in Slots /\ fd # None
  BY NewFd, SocketAssumption DEF Fds, Slots
<1> HIDE DEF fd
<1>2. /\ nfd' = [nfd EXCEPT ![t] = fd] /\ sid' = [sid EXCEPT ![t] = fd]
      /\ want' = [want EXCEPT ![t] = SRWE(fd)]
  BY DEF fd
<1>3. t \in Threads /\ t # Socket /\ SRWE(fd) \in Seq(Locks) /\ SRWE(fd) # <<>>
  BY <1>1, FirstLock, OfLists, SocketAssumption DEF Threads
<1>4. PcOk(t) /\ LocksOk(t) /\ pc[t] = "idle"
  BY <1>3 DEF ControlInv, At
<1>5. ControlType'
  BY <1>1, <1>2, <1>3
<1>6. /\ pc'[t] = "listen" /\ want'[t] = SRWE(fd) /\ sid'[t] = fd /\ nfd'[t] = fd
      /\ pc' \in [Threads -> WorkerPcs \cup SocketPcs]
  BY <1>2, <1>3 DEF ControlInv, WorkerPcs
<1>7. OthersStay(t)
  BY <1>2, <1>3 DEF ControlInv, OthersStay
<1>8. PcOk(t)'
  BY <1>1, <1>3, <1>6 DEF PcOk, WorkerPcs
<1>9. LocksOk(t)'
  <2>1. \A l \in Locks : lock'[l] # t
    BY <1>4 DEF LocksOk, Route
  <2>2. Route(t)' = Of(SRWE(fd)) /\ SRWE(fd) \in Ahead(t)'
    BY <1>1, <1>6, OfLists DEF Route, Ahead
  <2> QED
    BY <1>6, <2>1, <2>2 DEF LocksOk
<1> QED
  BY <1>3, <1>5, <1>6, <1>7, <1>8, <1>9, OthersControl

\* so_accept, so_add, so_close, so_read, the events and the flush take their first lock.
LEMMA CallControl ==
  ASSUME ControlType, ControlInv, NEW t \in Threads, NEW s \in Slots, NEW q,
         \/ t \in Workers /\ At(t, "idle") /\ Enter(t, "accept", q) /\ q = Only("S", s)
         \/ t \in Workers /\ At(t, "idle") /\ Enter(t, "read_check", q) /\ q = Only("R", s)
         \/ t \in Workers /\ At(t, "idle") /\ Enter(t, "add", q) /\ q = SE(s)
         \/ t \in Workers /\ At(t, "idle") /\ Enter(t, "close", q) /\ q = SRWE(s)
         \/ t = Socket /\ At(t, "flush") /\ Enter(t, "flushing", q) /\ q = Only("W", s),
         sid' = [sid EXCEPT ![t] = s], UNCHANGED <<nfd, nso, evt>>
  PROVE  ControlType' /\ ControlInv'
<1> DEFINE label == pc'[t]
<1>1. /\ q \in Seq(Locks) /\ q # <<>> /\ Enter(t, label, q) /\ pc[t] \in {"idle", "flush"}
      /\ label \in {"accept", "read_check", "add", "close", "flushing"}
      /\ label = "flushing" <=> t = Socket
  BY FirstLock, OfLists, SocketAssumption DEF At, Enter, Goto, ControlInv, Kinds
<1>2. sid'[t] = s /\ sid' \in [Threads -> Slots \cup {None}]
      /\ \A u \in Threads : u # t => sid'[u] = sid[u]
  BY DEF ControlType
<1>3. PcOk(t)'
  <2>1. PcOk(t)
    BY DEF ControlInv
  <2> QED
    BY <1>1, <1>2, <2>1, SocketAssumption DEF PcOk, WorkerPcs, SocketPcs, Threads
<1>4. Of(q) = Route(t)'
  BY <1>1, <1>2, OfLists DEF Route, Kinds, Enter, Goto, ControlInv
<1>5. Tail(q) \in Ahead(t)' /\ Head(q) \notin Of(Tail(q))
  <2>1. \/ label = "accept" /\ q = Only("S", s)
        \/ label = "read_check" /\ q = Only("R", s)
        \/ label = "flushing" /\ q = Only("W", s)
        \/ label = "add" /\ q = SE(s)
        \/ label = "close" /\ q = SRWE(s)
    BY DEF Enter, Goto, ControlInv
  <2>2. ASSUME NEW k \in Kinds, q = Only(k, s) PROVE Tail(q) = <<>>
    BY <2>2, FirstLock, Zenon
  <2>3. q = SE(s) => Tail(q) = Only("E", s) /\ Head(q) = <<"S", s>>
    BY FirstLock, Zenon
  <2>4. q = SRWE(s) => Tail(q) = RWE(s) /\ Head(q) = <<"S", s>>
    BY FirstLock, Zenon
  <2>5. /\ <<"S", s>> \notin Of(Only("E", s)) /\ <<"S", s>> \notin Of(RWE(s))
        /\ Head(q) \notin Of(<<>>)
    BY OfLists, OfNothing DEF Kinds
  <2>6. "S" \in Kinds /\ "R" \in Kinds /\ "W" \in Kinds
    BY DEF Kinds
  <2>7. CASE Tail(q) = <<>> /\ label \in {"accept", "read_check", "flushing"}
    <3>1. Head(q) \notin Of(Tail(q))
      BY <2>5, <2>7, Zenon
    <3> QED
      BY <2>7, <3>1 DEF Ahead
  <2>8. CASE label = "add" /\ q = SE(s)
    <3>1. Head(q) \notin Of(Tail(q))
      BY <2>3, <2>5, <2>8, Zenon
    <3> QED
      BY <1>2, <2>3, <2>8, <3>1 DEF Ahead
  <2>9. CASE label = "close" /\ q = SRWE(s)
    <3>1. Head(q) \notin Of(Tail(q))
      BY <2>4, <2>5, <2>9, Zenon
    <3> QED
      BY <1>2, <2>4, <2>9, <3>1 DEF Ahead
  <2> HIDE DEF label
  <2> QED
    BY <2>1, <2>2, <2>6, <2>7, <2>8, <2>9
<1> QED
  BY <1>1, <1>2, <1>3, <1>4, <1>5, EnterControl DEF ControlType, WorkerPcs, SocketPcs

\* The socket thread takes an event.
LEMMA NextEventControl ==
  ASSUME TypeOK, ControlType, ControlInv, NextEvent
  PROVE  ControlType' /\ ControlInv'
<1>1. PICK ev \in batch : /\ At(Socket, "events") /\ evt' = ev
                          /\ Enter(Socket, "dispatch", SE(ev.so))
                          /\ UNCHANGED <<sid, nfd, nso>>
  BY DEF NextEvent
<1>2. ev \in [so : Slots, hup : BOOLEAN] /\ ev.so \in Slots
  BY DEF TypeOK
<1>3. /\ Socket \in Threads /\ pc[Socket] = "events" /\ pc'[Socket] = "dispatch"
      /\ SE(ev.so) \in Seq(Locks) /\ SE(ev.so) # <<>>
  BY <1>1, <1>2, FirstLock, OfLists DEF At, Enter, Goto, ControlInv, Threads
<1>4. ev # None /\ Socket \notin Workers
  BY <1>2, SocketAssumption DEF Slots
<1>5. PcOk(Socket)'
  <2>1. PcOk(Socket)
    BY <1>3 DEF ControlInv
  <2> QED
    BY <1>1, <1>3, <1>4, <2>1 DEF PcOk, SocketPcs, Apart
<1>6. Tail(SE(ev.so)) = Only("E", ev.so) /\ Head(SE(ev.so)) = <<"S", ev.so>>
  BY <1>2, FirstLock
<1>7. Only("E", ev.so) \in Ahead(Socket)' /\ Of(SE(ev.so)) = Route(Socket)'
  BY <1>1, <1>2, <1>3, OfLists DEF Route, Ahead
<1>8. Tail(SE(ev.so)) \in Ahead(Socket)'
  BY <1>6, <1>7, Zenon
<1>9. Head(SE(ev.so)) \notin Of(Tail(SE(ev.so)))
  <2>1. <<"S", ev.so>> \notin Of(Only("E", ev.so))
    BY <1>2, OfLists DEF Kinds
  <2> QED
    BY <1>6, <2>1, Zenon
<1>10. pc[Socket] \in {"idle", "events", "flush"} /\ "dispatch" \in WorkerPcs \cup SocketPcs
  BY <1>3 DEF SocketPcs
<1>11. sid' \in [Threads -> Slots \cup {None}] /\ \A u \in Threads : u # Socket => sid'[u] = sid[u]
  BY <1>1 DEF ControlType
<1>12. evt' \in [so : Slots, hup : BOOLEAN] \cup {None}
  BY <1>1, <1>2
<1> QED
  BY <1>1, <1>3, <1>5, <1>7, <1>8, <1>9, <1>10, <1>11, <1>12, EnterControl

\* The event is dealt with.
LEMMA DispatchControl ==
  ASSUME ControlType, ControlInv, Dispatch
  PROVE  ControlType' /\ ControlInv'
<1> USE NoneApart DEF ControlType, Dispatch, UnlockAll, Goto
<1>1. Socket \in Threads /\ <<>> \in Seq(Locks)
  BY DEF Threads
<1>2. ControlType'
  BY <1>1
<1>3. /\ pc'[Socket] = "events" /\ want'[Socket] = <<>>
      /\ pc' \in [Threads -> WorkerPcs \cup SocketPcs]
      /\ \A l \in Locks : lock'[l] = IF lock[l] = Socket THEN None ELSE lock[l]
  BY <1>1 DEF ControlInv, SocketPcs
<1>4. OthersStay(Socket)
  BY <1>1, <1>3 DEF ControlInv, OthersStay
<1>5. PcOk(Socket)'
  <2>1. PcOk(Socket) /\ pc[Socket] = "dispatch"
    BY <1>1 DEF ControlInv, At
  <2> QED
    BY <1>3, <2>1, SocketAssumption DEF PcOk, Apart, SocketPcs
<1>6. LocksOk(Socket)'
  BY <1>1, <1>3 DEF LocksOk, Route, Ahead
<1> QED
  BY <1>1, <1>2, <1>3, <1>4, <1>5, <1>6, OthersControl

\* The errors on the way wait for the lock E of the slot.
LEMMA ErrorControl ==
  ASSUME ControlType, ControlInv, NEW t \in Threads, NEW from, NEW label,
         \/ from = "accept" /\ label = "accept_error" /\ t \in Workers
         \/ from = "reading" /\ label = "read_fail" /\ t \in Workers
         \/ from = "flushing" /\ label = "flush_error" /\ t = Socket,
         At(t, from), Keep(t), Goto(t, label, Only("E", sid[t])), UNCHANGED <<sid, nfd, nso, evt>>
  PROVE  ControlType' /\ ControlInv'
<1>1. PcOk(t) /\ pc[t] = from /\ pc'[t] = label /\ sid' = sid /\ nfd' = nfd /\ nso' = nso
  BY DEF ControlInv, At, Goto
<1>2. sid[t] \in Slots /\ Only("E", sid[t]) \in Seq(Locks) /\ Of(Only("E", sid[t])) = {<<"E", sid[t]>>}
  BY <1>1, FirstLock, OfLists DEF PcOk, Apart, Kinds
<1>3. PcOk(t)' /\ label \in WorkerPcs \cup SocketPcs
  BY <1>1, SocketAssumption DEF PcOk, Apart, WorkerPcs, SocketPcs
<1>4. Only("E", sid[t]) \in Ahead(t)'
  BY <1>1 DEF Ahead
<1>5. Route(t) = Route(t)' \ Of(Only("E", sid[t]))
  BY <1>1, <1>2 DEF Route
<1> QED
  BY <1>2, <1>3, <1>4, <1>5, KeepControl

\* so_read goes on with the lock it has.
LEMMA ReadingControl ==
  ASSUME ControlType, ControlInv, NEW t \in Workers,
         At(t, "read_check"), Keep(t), Goto(t, "reading", <<>>), UNCHANGED <<sid, nfd, nso, evt>>
  PROVE  ControlType' /\ ControlInv'
<1>1. t \in Threads
  BY DEF Threads
<1>2. PcOk(t) /\ pc[t] = "read_check" /\ pc'[t] = "reading" /\ sid' = sid /\ nfd' = nfd /\ nso' = nso
  BY <1>1 DEF ControlInv, At, Goto
<1>3. PcOk(t)' /\ "reading" \in WorkerPcs \cup SocketPcs
  BY <1>2, SocketAssumption DEF PcOk, Apart, WorkerPcs, SocketPcs
<1>4. <<>> \in Ahead(t)' /\ <<>> \in Seq(Locks)
  BY <1>2 DEF Ahead
<1>5. Route(t) = Route(t)' \ Of(<<>>)
  BY <1>2, OfNothing DEF Route
<1> QED
  BY <1>1, <1>3, <1>4, <1>5, KeepControl

\* An acceptor that found a slot wants its lock, and is not the listener it has.
LEMMA ScanControl ==
  ASSUME ControlType, ControlInv, NEW t \in Workers, NEW i \in 1 .. NSlots, NEW locks,
         TableHasRoom, Scan(t, i, locks), pc[t] \in {"accept", "occupy"},
         locks \in [Locks -> Threads \cup {None}],
         \A l \in Locks : locks[l] = t <=> l = <<"S", sid[t]>>,
         \A l \in Locks : \A u \in Threads : u # t => (locks[l] = u <=> lock[l] = u),
         mFd[sid[t]] # 0, sid' = sid, evt' = evt,
         nfd' \in [Threads -> Fds \cup {None}], nfd'[t] # None,
         \A u \in Threads : u # t => nfd'[u] = nfd[u]
  PROVE  ControlType' /\ ControlInv'
<1> DEFINE s == Lowest(FreeFrom(i))
<1>1. t \in Threads /\ t # Socket /\ t \notin {Socket}
  BY SocketAssumption DEF Threads
<1>2. s \in Slots /\ mFd[s] = 0 /\ FreeFrom(i) # {}
  BY ScanFinds
<1> HIDE DEF s
<1>3. /\ nso' = [nso EXCEPT ![t] = s] /\ lock' = locks
      /\ pc' = [pc EXCEPT ![t] = "occupy"] /\ want' = [want EXCEPT ![t] = Only("S", s)]
  BY <1>2 DEF Scan, Goto, s
<1>4. Only("S", s) \in Seq(Locks) /\ Of(Only("S", s)) = {<<"S", s>>}
  BY <1>2, FirstLock, OfLists DEF Kinds
<1>5. PcOk(t) /\ sid[t] \in Slots
  BY <1>1 DEF ControlInv, PcOk, Apart
<1>6. ControlType'
  BY <1>2, <1>3, <1>4 DEF ControlType
<1>7. /\ pc'[t] = "occupy" /\ want'[t] = Only("S", s) /\ nso'[t] = s /\ sid'[t] = sid[t]
      /\ pc' \in [Threads -> WorkerPcs \cup SocketPcs]
  BY <1>1, <1>3 DEF ControlType, ControlInv, WorkerPcs
<1>8. OthersStay(t)
  BY <1>3 DEF ControlType, ControlInv, OthersStay
<1>9. PcOk(t)'
  BY <1>1, <1>2, <1>5, <1>7 DEF PcOk, WorkerPcs
<1>10. LocksOk(t)'
  <2>1. Only("S", s) \in Ahead(t)' /\ Route(t)' = {<<"S", sid[t]>>, <<"S", s>>}
    BY <1>7 DEF Route, Ahead
  <2>2. \A l \in Locks : lock'[l] = t <=> l = <<"S", sid[t]>>
    BY <1>3
  <2>3. <<"S", sid[t]>> # <<"S", s>>
    BY <1>2
  <2> QED
    BY <1>4, <1>7, <2>1, <2>2, <2>3 DEF LocksOk
<1> QED
  BY <1>1, <1>6, <1>7, <1>8, <1>9, <1>10, OthersControl

\* accept gives a descriptor.
LEMMA AcceptedControl ==
  ASSUME ControlType, ControlInv, SlotInv, TableHasRoom, NEW t \in Workers, Accepted(t)
  PROVE  ControlType' /\ ControlInv'
<1>1. t \in Threads /\ pc[t] = "accept"
  BY DEF Threads, Accepted, At
<1>2. sid[t] \in Slots /\ mFd[sid[t]] # 0
  BY <1>1 DEF ControlInv, PcOk, Apart, SlotInv, Accepted
<1>3. 1 \in 1 .. NSlots
  BY <1>2, SocketAssumption DEF Slots
<1>4. /\ Locked(t) \in [Locks -> Threads \cup {None}]
      /\ \A l \in Locks : Locked(t)[l] = t <=> l \in {<<"S", sid[t]>>}
      /\ \A l \in Locks : \A u \in Threads : u # t => (Locked(t)[l] = u <=> lock[l] = u)
  <2>1. Route(t) = {<<"S", sid[t]>>} /\ At(t, "accept")
    BY <1>1 DEF Route, Accepted
  <2> QED
    BY <1>1, <2>1, Taken
<1>5. /\ nfd' \in [Threads -> Fds \cup {None}] /\ nfd'[t] # None
      /\ \A u \in Threads : u # t => nfd'[u] = nfd[u]
  BY <1>1, NewFd, NoneApart DEF Accepted, ControlType
<1>6. Scan(t, 1, Locked(t)) /\ sid' = sid /\ evt' = evt
  BY DEF Accepted, eventVars
<1> QED
  BY <1>1, <1>2, <1>3, <1>4, <1>5, <1>6, ScanControl

\* The slot is taken, or the scan goes on.
LEMMA OccupyControl ==
  ASSUME ControlType, ControlInv, SlotInv, TableHasRoom, NEW t \in Workers, Relies(t), Occupy(t)
  PROVE  ControlType' /\ ControlInv'
<1> DEFINE i == nso[t]
<1>1. t \in Threads /\ pc[t] = "occupy" /\ At(t, "occupy") /\ t # Socket
  BY SocketAssumption DEF Threads, Occupy, At
<1>2. /\ PcOk(t) /\ sid[t] \in Slots /\ mFd[sid[t]] # 0 /\ i \in Slots /\ i # sid[t]
  BY <1>1 DEF ControlInv, PcOk, Apart, SlotInv, Relies
<1>3. /\ Locked(t) \in [Locks -> Threads \cup {None}]
      /\ \A l \in Locks : Locked(t)[l] = t <=> l \in {<<"S", sid[t]>>, <<"S", i>>}
      /\ \A l \in Locks : \A u \in Threads : u # t => (Locked(t)[l] = u <=> lock[l] = u)
  <2>1. Route(t) = {<<"S", sid[t]>>, <<"S", i>>}
    BY <1>1 DEF Route
  <2> QED
    BY <1>1, <2>1, Taken
<1>4. sid' = sid /\ evt' = evt
  BY DEF Occupy, eventVars
<1>5. CASE /\ nfd' = [nfd EXCEPT ![t] = None]
           /\ Unlock(t, <<"S", sid[t]>>)
           /\ Goto(t, "establish", RWE(i))
           /\ nso' = nso
  <2>1. /\ pc'[t] = "establish" /\ want'[t] = RWE(i) /\ nso'[t] = i /\ nfd'[t] = None
        /\ pc' \in [Threads -> WorkerPcs \cup SocketPcs]
    BY <1>1, <1>5 DEF ControlType, ControlInv, Goto, WorkerPcs
  <2>2. /\ RWE(i) \in Seq(Locks) /\ <<"S", sid[t]>> \in Locks
        /\ Of(RWE(i)) = {<<"R", i>>, <<"W", i>>, <<"E", i>>}
    BY <1>2, FirstLock, OfLists DEF Locks
  <2>3. \A l \in Locks : lock'[l] = IF l = <<"S", sid[t]>> THEN None ELSE Locked(t)[l]
    BY <1>3, <1>5 DEF Unlock
  <2>4. ControlType'
    BY <1>3, <1>4, <1>5, <2>2 DEF ControlType, Goto, Unlock
  <2>5. OthersStay(t)
    BY <1>3, <1>4, <1>5, <2>3, <1>1, NoneApart DEF ControlType, ControlInv, OthersStay, Goto
  <2>6. PcOk(t)'
    BY <1>1, <1>2, <1>4, <2>1 DEF PcOk, WorkerPcs, Apart
  <2>7. LocksOk(t)'
    <3>1. \A l \in Locks : lock'[l] = t <=> l = <<"S", i>>
      <4>1. <<"S", i>> # <<"S", sid[t]>>
        BY <1>2
      <4> QED
        BY <1>1, <1>3, <2>3, <4>1, NoneApart
    <3>2. /\ RWE(i) \in Ahead(t)'
          /\ Route(t)' = {<<"S", i>>, <<"R", i>>, <<"W", i>>, <<"E", i>>}
      BY <2>1 DEF Ahead, Route
    <3> QED
      BY <2>1, <2>2, <3>1, <3>2 DEF LocksOk
  <2> QED
    BY <1>1, <2>1, <2>4, <2>5, <2>6, <2>7, OthersControl
<1>6. CASE mFd[i] # 0 /\ Scan(t, i + 1, [Locked(t) EXCEPT ![<<"S", i>>] = None]) /\ nfd' = nfd
  <2> DEFINE locks == [Locked(t) EXCEPT ![<<"S", i>>] = None]
  <2>1. i + 1 \in 1 .. NSlots
    BY <1>2, <1>6, SocketAssumption DEF TableHasRoom, Slots
  <2>2. <<"S", i>> \in Locks /\ <<"S", i>> # <<"S", sid[t]>>
    BY <1>2 DEF Locks
  <2>3. /\ locks \in [Locks -> Threads \cup {None}]
        /\ \A l \in Locks : locks[l] = IF l = <<"S", i>> THEN None ELSE Locked(t)[l]
    BY <1>3, <2>2
  <2> HIDE DEF locks
  <2>4. /\ \A l \in Locks : locks[l] = t <=> l = <<"S", sid[t]>>
        /\ \A l \in Locks : \A u \in Threads : u # t => (locks[l] = u <=> lock[l] = u)
    BY <1>1, <1>3, <2>2, <2>3, NoneApart
  <2>5. Scan(t, i + 1, locks)
    BY <1>6 DEF locks
  <2>6. nfd' \in [Threads -> Fds \cup {None}] /\ nfd'[t] # None
    BY <1>1, <1>2, <1>6 DEF ControlType, PcOk
  <2>7. \A u \in Threads : u # t => nfd'[u] = nfd[u]
    BY <1>6
  <2> QED
    BY <1>1, <1>2, <1>4, <2>1, <2>3, <2>4, <2>5, <2>6, <2>7, ScanControl
<1> QED
  BY <1>5, <1>6 DEF Occupy

\* The new slot is established.
LEMMA EstablishControl ==
  ASSUME ControlType, ControlInv, NEW t \in Workers, Establish(t)
  PROVE  ControlType' /\ ControlInv'
<1> DEFINE s == sid[t]
<1>1. /\ t \in Threads /\ pc[t] = "establish" /\ At(t, "establish") /\ t # Socket
      /\ sid' = sid /\ evt' = evt
  BY SocketAssumption DEF Threads, Establish, At, eventVars
<1>2. s \in Slots /\ nso[t] \in Slots /\ PcOk(t)
  BY <1>1 DEF ControlInv, PcOk, Apart
<1>3. /\ Only("S", s) \in Seq(Locks) /\ Of(Only("S", s)) = {<<"S", s>>}
  BY <1>2, FirstLock, OfLists DEF Kinds
<1>4. /\ nso' = [nso EXCEPT ![t] = None] /\ nfd' = [nfd EXCEPT ![t] = None]
      /\ pc' = [pc EXCEPT ![t] = "accept"] /\ want' = [want EXCEPT ![t] = Only("S", s)]
      /\ lock' = [l \in Locks |-> IF lock[l] = t \/ l = <<"S", nso[t]>> THEN None ELSE lock[l]]
  BY DEF Establish, Goto
<1>5. ControlType'
  BY <1>1, <1>3, <1>4 DEF ControlType
<1>6. /\ pc'[t] = "accept" /\ want'[t] = Only("S", s) /\ nfd'[t] = None /\ sid'[t] = s
      /\ pc' \in [Threads -> WorkerPcs \cup SocketPcs]
  BY <1>1, <1>4 DEF ControlType, ControlInv, WorkerPcs
<1>7. \A u \in Threads : u # t => lock[<<"S", nso[t]>>] # u
  <2>1. <<"S", nso[t]>> \in Route(t) /\ <<"S", nso[t]>> \in Locks
    BY <1>1, <1>2 DEF Route, Locks
  <2> QED
    BY <1>1, <2>1, Taken
<1>8. OthersStay(t)
  BY <1>1, <1>4, <1>7, NoneApart DEF ControlType, ControlInv, OthersStay
<1>9. PcOk(t)'
  BY <1>1, <1>2, <1>6 DEF PcOk, WorkerPcs
<1>10. LocksOk(t)'
  <2>1. \A l \in Locks : lock'[l] # t
    BY <1>1, <1>4, NoneApart
  <2>2. Only("S", s) \in Ahead(t)' /\ Route(t)' = {<<"S", s>>}
    BY <1>6 DEF Route, Ahead
  <2> QED
    BY <1>3, <1>6, <2>1, <2>2 DEF LocksOk
<1> QED
  BY <1>1, <1>5, <1>6, <1>8, <1>9, <1>10, OthersControl

\* TypeOK has the types of the control.
LEMMA ControlTyped == TypeOK => ControlType
BY DEF TypeOK, ControlType

\* Every step keeps the locks with those that took them, and every thread where its
\* locks allow it.
LEMMA ControlStep ==
  ASSUME TypeOK, ControlInv, SlotInv, \A t \in Threads : Relies(t), TableHasRoom, [Next]_vars
  PROVE  ControlType' /\ ControlInv'
<1> USE ControlTyped
<1> SUFFICES ASSUME ControlType PROVE ControlType' /\ ControlInv'
  OBVIOUS
<1>0. Workers \subseteq Threads /\ Socket \in Threads /\ Socket \notin Workers
  BY SocketAssumption DEF Threads
<1>1. ASSUME NEW t \in Threads, Acquire(t) PROVE ControlType' /\ ControlInv'
  BY <1>1, AcquireControl
<1>2. ASSUME NEW t \in Workers, CallListen(t) PROVE ControlType' /\ ControlInv'
  BY <1>2, CallListenControl
<1>3. ASSUME NEW t \in Threads, Return(t), nso' = nso, evt' = evt,
             nfd' = nfd \/ nfd' = [nfd EXCEPT ![t] = None], pc[t] # "occupy",
             pc[t] = "listen" => nfd' = [nfd EXCEPT ![t] = None]
      PROVE  ControlType' /\ ControlInv'
  <2>1. nfd' \in [Threads -> Fds \cup {None}] /\ \A u \in Threads : u # t => nfd'[u] = nfd[u]
    BY <1>3 DEF ControlType
  <2>2. nfd'[t] = None
    BY <1>3 DEF ControlType, ControlInv, PcOk
  <2> QED
    BY <1>3, <2>1, <2>2, ReturnControl
<1>4. ASSUME NEW t \in Workers, Listen(t) PROVE ControlType' /\ ControlInv'
  <2>1. /\ Return(t) /\ nso' = nso /\ evt' = evt /\ nfd' = [nfd EXCEPT ![t] = None]
        /\ pc[t] = "listen"
    BY <1>4 DEF Listen, eventVars, At
  <2> QED
    BY <1>0, <1>3, <2>1
<1>5. ASSUME NEW t \in Workers, NEW s \in Slots, CallAccept(t, s) PROVE ControlType' /\ ControlInv'
  BY <1>0, <1>5, CallControl DEF CallAccept
<1>6. ASSUME NEW t \in Workers, NEW s \in Slots, CallAdd(t, s) PROVE ControlType' /\ ControlInv'
  BY <1>0, <1>6, CallControl DEF CallAdd, Call, eventVars
<1>7. ASSUME NEW t \in Workers, NEW s \in Slots, CallClose(t, s) PROVE ControlType' /\ ControlInv'
  BY <1>0, <1>7, CallControl DEF CallClose, Call, eventVars
<1>8. ASSUME NEW t \in Workers, NEW s \in Slots, CallRead(t, s) PROVE ControlType' /\ ControlInv'
  BY <1>0, <1>8, CallControl DEF CallRead
<1>9. ASSUME NEW t \in Workers, AcceptNone(t) PROVE ControlType' /\ ControlInv'
  <2>1. Return(t) /\ nso' = nso /\ evt' = evt /\ nfd' = nfd /\ pc[t] = "accept"
    BY <1>9 DEF AcceptNone, eventVars, At
  <2> QED
    BY <1>0, <1>3, <2>1
<1>10. ASSUME NEW t \in Workers, AcceptFails(t) PROVE ControlType' /\ ControlInv'
  <2>1. /\ At(t, "accept") /\ Keep(t) /\ Goto(t, "accept_error", Only("E", sid[t]))
        /\ UNCHANGED <<sid, nfd, nso, evt>>
    BY <1>10 DEF AcceptFails, eventVars
  <2> QED
    BY <1>0, <2>1, ErrorControl
<1>11. ASSUME NEW t \in Workers, AcceptError(t) PROVE ControlType' /\ ControlInv'
  <2>1. Return(t) /\ nso' = nso /\ evt' = evt /\ nfd' = nfd /\ pc[t] = "accept_error"
    BY <1>11 DEF AcceptError, FailSocket, eventVars, At
  <2> QED
    BY <1>0, <1>3, <2>1
<1>12. ASSUME NEW t \in Workers, Accepted(t) PROVE ControlType' /\ ControlInv'
  BY <1>12, AcceptedControl
<1>13. ASSUME NEW t \in Workers, Occupy(t) PROVE ControlType' /\ ControlInv'
  BY <1>0, <1>13, OccupyControl
<1>14. ASSUME NEW t \in Workers, Establish(t) PROVE ControlType' /\ ControlInv'
  BY <1>14, EstablishControl
<1>15. ASSUME NEW t \in Workers, Add(t) PROVE ControlType' /\ ControlInv'
  <2>1. Return(t) /\ nso' = nso /\ evt' = evt /\ nfd' = nfd /\ pc[t] = "add"
    BY <1>15 DEF Add, eventVars, At
  <2> QED
    BY <1>0, <1>3, <2>1
<1>16. ASSUME NEW t \in Workers, Close(t) PROVE ControlType' /\ ControlInv'
  <2>1. Return(t) /\ nso' = nso /\ evt' = evt /\ nfd' = nfd /\ pc[t] = "close"
    BY <1>16 DEF Close, eventVars, At
  <2> QED
    BY <1>0, <1>3, <2>1
<1>17. ASSUME NEW t \in Workers, ReadCheck(t) PROVE ControlType' /\ ControlInv'
  <2>1. nso' = nso /\ evt' = evt /\ nfd' = nfd /\ pc[t] = "read_check" /\ At(t, "read_check")
    BY <1>17 DEF ReadCheck, eventVars, At
  <2>2. CASE Return(t)
    BY <1>0, <1>3, <2>1, <2>2
  <2>3. CASE Goto(t, "reading", <<>>) /\ Keep(t) /\ UNCHANGED sid
    BY <2>1, <2>3, ReadingControl
  <2> QED
    BY <1>17, <2>2, <2>3 DEF ReadCheck
<1>18. ASSUME NEW t \in Workers, ReadData(t) PROVE ControlType' /\ ControlInv'
  BY <1>18, QuietControl DEF ReadData, threadVars, eventVars, controlVars
<1>19. ASSUME NEW t \in Workers, ReadStops(t) PROVE ControlType' /\ ControlInv'
  <2>1. nso' = nso /\ evt' = evt /\ nfd' = nfd /\ pc[t] = "reading" /\ At(t, "reading")
    BY <1>19 DEF ReadStops, eventVars, At
  <2>2. CASE Return(t)
    BY <1>0, <1>3, <2>1, <2>2
  <2>3. CASE Goto(t, "read_fail", Only("E", sid[t])) /\ Keep(t) /\ UNCHANGED sid
    BY <1>0, <2>1, <2>3, ErrorControl
  <2> QED
    BY <1>19, <2>2, <2>3 DEF ReadStops
<1>20. ASSUME NEW t \in Workers, ReadFail(t) PROVE ControlType' /\ ControlInv'
  <2>1. Return(t) /\ nso' = nso /\ evt' = evt /\ nfd' = nfd /\ pc[t] = "read_fail"
    BY <1>20 DEF ReadFail, FailSocket, eventVars, At
  <2> QED
    BY <1>0, <1>3, <2>1
<1>21. CASE EpollWait
  BY <1>21, GoOnControl DEF EpollWait, At
<1>22. CASE NextEvent
  BY <1>22, NextEventControl
<1>23. CASE Dispatch
  BY <1>23, DispatchControl
<1>24. CASE EventsDone
  BY <1>24, GoOnControl DEF EventsDone, eventVars, At
<1>25. ASSUME NEW s \in Slots, CallFlush(s) PROVE ControlType' /\ ControlInv'
  BY <1>0, <1>25, CallControl DEF CallFlush, eventVars
<1>26. CASE Flush
  <2>1. nso' = nso /\ evt' = evt /\ nfd' = nfd /\ pc[Socket] = "flushing" /\ At(Socket, "flushing")
    BY <1>26 DEF Flush, eventVars, At
  <2>2. CASE Return(Socket)
    BY <1>0, <1>3, <2>1, <2>2
  <2>3. CASE Goto(Socket, "flush_error", Only("E", sid[Socket])) /\ Keep(Socket) /\ UNCHANGED sid
    BY <1>0, <2>1, <2>3, ErrorControl
  <2> QED
    BY <1>26, <2>2, <2>3 DEF Flush
<1>27. CASE FlushError
  <2>1. Return(Socket) /\ nso' = nso /\ evt' = evt /\ nfd' = nfd /\ pc[Socket] = "flush_error"
    BY <1>27 DEF FlushError, eventVars, At
  <2> QED
    BY <1>0, <1>3, <2>1
<1>28. CASE FlushDone
  BY <1>28, GoOnControl DEF FlushDone, eventVars, At
<1>29. CASE Client
  BY <1>29, QuietControl
     DEF Client, ClientConnects, ClientSends, ClientLeaves, threadVars, eventVars, controlVars
<1>30. CASE UNCHANGED vars
  BY <1>30, QuietControl DEF vars, threadVars, eventVars, controlVars
<1> QED
  BY <1>1, <1>2, <1>4, <1>5, <1>6, <1>7, <1>8, <1>9, <1>10, <1>11, <1>12, <1>13, <1>14, <1>15, <1>16,
     <1>17, <1>18, <1>19, <1>20, <1>21, <1>22, <1>23, <1>24, <1>25, <1>26, <1>27, <1>28, <1>29, <1>30
     DEF Next, WorkerStep, SocketStep

-----------------------------------------------------------------------------
(* Types.                                                                  *)

TableType ==
  /\ mState \in [Slots -> {"free", "errored", "listening", "established", "rw"}]
  /\ mFd \in [Slots -> Fds \cup {0}]

EventType ==
  /\ batch \subseteq [so : Slots, hup : BOOLEAN]
  /\ posted \subseteq {"acceptable", "readable"} \X Slots
  /\ aborted \in BOOLEAN

KernelType ==
  /\ open \subseteq Fds
  /\ queue \in [Fds -> Nat]
  /\ peer \in [Fds -> {"up", "fin", "rst"}]
  /\ reg \in [Fds -> Slots \cup {None}]
  /\ edge \subseteq open

BoundType ==
  /\ nListens \in 0 .. MaxListens
  /\ nConns \in 0 .. MaxConns
  /\ nCalls \in 0 .. MaxCalls
  /\ nTraffic \in 0 .. MaxTraffic

\* The parts of TypeOK.
LEMMA TypeParts == TypeOK <=> ControlType /\ TableType /\ EventType /\ KernelType /\ BoundType
BY DEF TypeOK, ControlType, TableType, EventType, KernelType, BoundType

\* A slot's descriptor, its own or the one it gets, is given back.
LEMMA ReserveType ==
  ASSUME TableType, KernelType, NEW s \in Slots, NEW fd \in Fds \cup {0}, SoReserve(s, fd)
  PROVE  TableType' /\ KernelType'
BY DEF TableType, KernelType, SoReserve, CloseFd, epollVars

\* An error on a socket.
LEMMA FailType ==
  ASSUME TableType, EventType, KernelType, BoundType, NEW t \in Threads, FailSocket(t)
  PROVE  TableType' /\ EventType' /\ KernelType' /\ BoundType'
BY DEF TableType, EventType, KernelType, BoundType, FailSocket, EvDel, eventVars, epollVars, bounds

\* Every step of the threads, the kernel and the clients keeps the types.
LEMMA TypeStep ==
  ASSUME TypeOK, ControlInv, PlaceInv, KernelInv, SlotInv, [Next]_vars, ControlType'
  PROVE  TypeOK'
<1> SUFFICES TableType' /\ EventType' /\ KernelType' /\ BoundType'
  BY DEF TypeOK, ControlType, TableType, EventType, KernelType, BoundType
<1> USE TypeParts, NoneApart
<1>0. Workers \subseteq Threads /\ Socket \in Threads /\ Socket \notin Workers
  BY SocketAssumption DEF Threads
<1>1. ASSUME UNCHANGED <<table, batch, posted, aborted, open, queue, peer, epollVars, bounds>>
      PROVE  TableType' /\ EventType' /\ KernelType' /\ BoundType'
  BY <1>1 DEF table, epollVars, bounds, TableType, EventType, KernelType, BoundType
<1>2. ASSUME NEW t \in Threads, Acquire(t) PROVE TableType' /\ EventType' /\ KernelType' /\ BoundType'
  BY <1>1, <1>2 DEF Acquire, eventVars
<1>3. ASSUME NEW t \in Workers, CallListen(t)
      PROVE  TableType' /\ EventType' /\ KernelType' /\ BoundType'
  <2>1. Lowest(Unused) \in Fds
    BY <1>3, NewFd DEF CallListen
  <2>2. nListens + 1 \in 0 .. MaxListens
    BY <1>3, SocketAssumption DEF CallListen, BoundType
  <2> QED
    BY <1>3, <2>1, <2>2 DEF CallListen, OpenFd, table, eventVars, epollVars,
       TableType, EventType, KernelType, BoundType
<1>4. ASSUME NEW t \in Workers, Listen(t)
      PROVE  TableType' /\ EventType' /\ KernelType' /\ BoundType'
  <2>1. t \in Threads /\ nfd[t] # None /\ sid[t] \in Slots
    BY <1>0, <1>4 DEF Listen, At, ControlInv, PcOk, Apart
  <2>2. nfd[t] \in open /\ nfd[t] \in Fds
    BY <2>1 DEF PlaceInv, ControlType
  <2>3. EventType' /\ BoundType'
    BY <1>4 DEF Listen, eventVars, bounds, EventType, BoundType
  <2>4. CASE SoReserve(sid[t], nfd[t])
    BY <2>1, <2>2, <2>3, <2>4, ReserveType
  <2>5. CASE /\ EvAdd(sid[t], nfd[t])
             /\ mFd' = [mFd EXCEPT ![sid[t]] = nfd[t]]
             /\ mState' = [mState EXCEPT ![sid[t]] = "listening"]
             /\ UNCHANGED <<open, queue, peer>>
    BY <2>1, <2>2, <2>3, <2>5 DEF EvAdd, TableType, KernelType
  <2> QED
    BY <1>4, <2>4, <2>5 DEF Listen
<1>5. ASSUME NEW t \in Workers, NEW s \in Slots, CallAccept(t, s) \/ CallRead(t, s)
      PROVE  TableType' /\ EventType' /\ KernelType' /\ BoundType'
  BY <1>5 DEF CallAccept, CallRead, table, epollVars, bounds, TableType, EventType, KernelType, BoundType
<1>6. ASSUME NEW t \in Workers, NEW s \in Slots, NEW label, NEW q, Call(t, s, label, q)
      PROVE  TableType' /\ EventType' /\ KernelType' /\ BoundType'
  <2>1. nCalls + 1 \in 0 .. MaxCalls
    BY <1>6, SocketAssumption DEF Call, BoundType
  <2> QED
    BY <1>6, <2>1 DEF Call, table, eventVars, epollVars, TableType, EventType, KernelType, BoundType
<1>7. ASSUME NEW t \in Workers, AcceptNone(t) \/ AcceptFails(t) \/ ReadCheck(t) \/ ReadStops(t)
      PROVE  TableType' /\ EventType' /\ KernelType' /\ BoundType'
  BY <1>1, <1>7 DEF AcceptNone, AcceptFails, ReadCheck, ReadStops, eventVars
<1>8. ASSUME NEW t \in Workers, AcceptError(t) \/ ReadFail(t)
      PROVE  TableType' /\ EventType' /\ KernelType' /\ BoundType'
  BY <1>0, <1>8, FailType DEF AcceptError, ReadFail
<1>9. ASSUME NEW t \in Workers, Accepted(t)
      PROVE  TableType' /\ EventType' /\ KernelType' /\ BoundType'
  <2>1. Lowest(Unused) \in Fds
    BY <1>9, NewFd DEF Accepted
  <2>2. mFd[sid[t]] \in Fds /\ queue \in [Fds -> Nat]
    BY <1>0, <1>9 DEF Accepted, At, ControlInv, PcOk, Apart, SlotInv, TableType, KernelType
  <2>3. queue' = [queue EXCEPT ![mFd[sid[t]]] = @ - 1] /\ queue[mFd[sid[t]]] > 0
    BY <1>9 DEF Accepted
  <2>4. queue' \in [Fds -> Nat]
    BY <2>2, <2>3
  <2> QED
    BY <1>9, <2>1, <2>4 DEF Accepted, OpenFd, table, eventVars, epollVars, bounds,
       TableType, EventType, KernelType, BoundType
<1>10. ASSUME NEW t \in Workers, Occupy(t)
       PROVE  TableType' /\ EventType' /\ KernelType' /\ BoundType'
  <2>1. nfd[t] \in Fds
    BY <1>0, <1>10 DEF Occupy, At, ControlInv, PcOk, ControlType
  <2> QED
    BY <1>10, <2>1 DEF Occupy, eventVars, epollVars, bounds, TableType, EventType, KernelType, BoundType
<1>11. ASSUME NEW t \in Workers, Establish(t)
       PROVE  TableType' /\ EventType' /\ KernelType' /\ BoundType'
  BY <1>11 DEF Establish, eventVars, epollVars, bounds, TableType, EventType, KernelType, BoundType
<1>12. ASSUME NEW t \in Workers, Add(t)
       PROVE  TableType' /\ EventType' /\ KernelType' /\ BoundType'
  <2>1. sid[t] \in Slots
    BY <1>0, <1>12 DEF Add, At, ControlInv, PcOk, Apart
  <2>2. mState[sid[t]] = "established" => mFd[sid[t]] \in open /\ mFd[sid[t]] \in Fds
    BY <2>1 DEF SlotInv, PlaceInv, TableType
  <2>3. EventType' /\ BoundType' /\ TableType'
    BY <1>12 DEF Add, eventVars, bounds, EventType, BoundType, TableType
  <2>4. KernelType'
    BY <1>12, <2>1, <2>2 DEF Add, EvAdd, KernelType, epollVars
  <2> QED
    BY <2>3, <2>4
<1>13. ASSUME NEW t \in Workers, Close(t)
       PROVE  TableType' /\ EventType' /\ KernelType' /\ BoundType'
  <2>1. sid[t] \in Slots /\ mFd[sid[t]] \in Fds \cup {0}
    BY <1>0, <1>13 DEF Close, At, ControlInv, PcOk, Apart, TableType
  <2>2. EventType' /\ BoundType'
    BY <1>13 DEF Close, eventVars, bounds, EventType, BoundType
  <2>3. CASE SoReserve(sid[t], mFd[sid[t]])
    BY <2>1, <2>2, <2>3, ReserveType
  <2>4. CASE UNCHANGED <<table, open, queue, peer, epollVars>>
    BY <2>2, <2>4 DEF table, epollVars, TableType, KernelType
  <2> QED
    BY <1>13, <2>3, <2>4 DEF Close
<1>14. ASSUME NEW t \in Workers, ReadData(t)
       PROVE  TableType' /\ EventType' /\ KernelType' /\ BoundType'
  <2> DEFINE fd == mFd[sid[t]]
  <2>2. queue' = [queue EXCEPT ![fd] = @ - 1] /\ queue[fd] > 0
    BY <1>14 DEF ReadData
  <2> HIDE DEF fd
  <2>1. queue' \in [Fds -> Nat]
    <3>1. CASE fd \in Fds
      BY <2>2, <3>1 DEF KernelType
    <3>2. CASE fd \notin Fds
      BY <2>2, <3>2 DEF KernelType
    <3> QED
      BY <3>1, <3>2
  <2> QED
    BY <1>14, <2>1 DEF ReadData, table, eventVars, epollVars, bounds,
       TableType, EventType, KernelType, BoundType
<1>15. CASE EpollWait
  <2>1. batch' \subseteq [so : Slots, hup : BOOLEAN]
    <3>1. \A fd \in edge : reg[fd] \in Slots
      BY DEF KernelInv, KernelType
    <3>2. batch' = {[so |-> reg[fd], hup |-> peer[fd] = "rst"] : fd \in {f \in edge : Ready(f)}}
      BY <1>15 DEF EpollWait
    <3>3. \A fd \in edge : [so |-> reg[fd], hup |-> peer[fd] = "rst"] \in [so : Slots, hup : BOOLEAN]
      BY <3>1
    <3> QED
      BY <3>2, <3>3, Zenon
  <2> QED
    BY <1>15, <2>1 DEF EpollWait, table, bounds, TableType, EventType, KernelType, BoundType
<1>16. CASE NextEvent
  <2>1. batch' \subseteq batch
    BY <1>16 DEF NextEvent
  <2>2. UNCHANGED <<table, posted, aborted, open, queue, peer, epollVars, bounds>>
    BY <1>16 DEF NextEvent
  <2> QED
    BY <2>1, <2>2 DEF table, epollVars, bounds, TableType, EventType, KernelType, BoundType
<1>17. CASE Dispatch
  <2>1. evt.so \in Slots
    BY <1>0, <1>17 DEF Dispatch, At, ControlInv, PcOk, ControlType
  <2>2. BoundType' /\ TableType'
    BY <1>17, <2>1 DEF Dispatch, bounds, TableType, BoundType
  <2>3. EventType'
    <3>1. \/ posted' = posted
          \/ posted' = posted \cup {<<"acceptable", evt.so>>}
          \/ posted' = posted \cup {<<"readable", evt.so>>}
      BY <1>17 DEF Dispatch, NotifyEv
    <3>2. posted' \subseteq {"acceptable", "readable"} \X Slots
      BY <2>1, <3>1 DEF EventType
    <3>3. batch' = batch /\ (aborted' = aborted \/ aborted' = TRUE)
      BY <1>17 DEF Dispatch
    <3> QED
      BY <3>2, <3>3 DEF EventType
  <2>4. KernelType'
    <3>1. EvDel(evt.so) \/ UNCHANGED epollVars
      BY <1>17 DEF Dispatch
    <3>2. UNCHANGED <<open, queue, peer>>
      BY <1>17 DEF Dispatch
    <3> QED
      BY <3>1, <3>2 DEF EvDel, epollVars, KernelType
  <2> QED
    BY <2>2, <2>3, <2>4
<1>18. ASSUME EventsDone \/ FlushDone \/ Flush \/ \E s \in Slots : CallFlush(s)
       PROVE  TableType' /\ EventType' /\ KernelType' /\ BoundType'
  BY <1>1, <1>18 DEF EventsDone, FlushDone, Flush, CallFlush, eventVars
<1>19. CASE FlushError
  BY <1>19 DEF FlushError, eventVars, epollVars, bounds, TableType, EventType, KernelType, BoundType
<1>20. CASE Client
  <2>1. PICK fd \in Fds : \/ ClientConnects(fd) \/ ClientSends(fd)
                          \/ \E how \in {"fin", "rst"} : ClientLeaves(fd, how)
    BY <1>20 DEF Client
  <2>2. edge' \subseteq open
    BY <2>1 DEF ClientConnects, ClientSends, ClientLeaves, Edge, KernelType
  <2>3. BoundType'
    BY <2>1, SocketAssumption DEF ClientConnects, ClientSends, ClientLeaves, BoundType
  <2>4. KernelType'
    BY <2>1, <2>2 DEF ClientConnects, ClientSends, ClientLeaves, KernelType
  <2>5. TableType' /\ EventType'
    BY <2>1 DEF ClientConnects, ClientSends, ClientLeaves, table, eventVars, TableType, EventType
  <2> QED
    BY <2>3, <2>4, <2>5
<1>21. CASE UNCHANGED vars
  BY <1>1, <1>21 DEF vars, eventVars
<1> QED
  BY <1>2, <1>3, <1>4, <1>5, <1>6, <1>7, <1>8, <1>9, <1>10, <1>11, <1>12, <1>13, <1>14, <1>15, <1>16,
     <1>17, <1>18, <1>19, <1>20, <1>21
     DEF Next, WorkerStep, SocketStep, CallAdd, CallClose

-----------------------------------------------------------------------------
(* The table.                                                              *)

\* A thread that stays where it is, and a step of t in which all others do.
Stays(u) == pc'[u] = pc[u] /\ sid'[u] = sid[u] /\ nso'[u] = nso[u]
Alone(t) == \A u \in Threads : u # t => Stays(u)

\* A step in which no acceptor starts to wait for the slot another one listens on
\* closes no ring of acceptors.
LEMMA RingKept ==
  ASSUME RingFree, NEW t \in Threads, Alone(t),
         \A u \in Threads : ~(pc'[t] = "occupy" /\ pc'[u] = "occupy" /\ nso'[t] = sid'[u])
  PROVE  RingFree'
<1> SUFFICES ASSUME NEW D \in (SUBSET Threads) \ {{}}
             PROVE  \E v \in D : \A u \in D :
                      ~(pc'[v] = "occupy" /\ pc'[u] = "occupy" /\ nso'[v] = sid'[u])
  BY DEF RingFree
<1>1. CASE t \in D
  BY <1>1
<1>2. CASE t \notin D
  <2>1. PICK v \in D : \A u \in D : ~(pc[v] = "occupy" /\ pc[u] = "occupy" /\ nso[v] = sid[u])
    BY DEF RingFree
  <2>2. \A u \in D : Stays(u)
    BY <1>2 DEF Alone
  <2> QED
    BY <2>1, <2>2 DEF Stays
<1> QED
  BY <1>1, <1>2

\* What the others rely on is out of reach of a thread that has the locks of its route.
LEMMA Excluded ==
  ASSUME ControlType, ControlInv, NEW t \in Threads, NEW label, At(t, label),
         NEW u \in Threads, u # t
  PROVE  /\ pc[u] = "occupy" => sid[u] \in Slots /\ <<"S", sid[u]>> \notin Route(t)
         /\ pc[u] = "establish" => nso[u] \in Slots /\ <<"S", nso[u]>> \notin Route(t)
         /\ pc[u] \in {"reading", "read_fail"} => sid[u] \in Slots /\ <<"R", sid[u]>> \notin Route(t)
         /\ pc[u] = "flush_error" => sid[u] \in Slots /\ <<"W", sid[u]>> \notin Route(t)
<1> DEFINE Has(l) == l \in Route(u) /\ l \notin Of(want[u])
<1>1. \A l \in Locks : Has(l) => l \notin Route(t)
  BY Taken DEF ControlInv, LocksOk
<1>2. PcOk(u) /\ want[u] \in Ahead(u)
  BY DEF ControlInv, LocksOk
<1>3. CASE pc[u] = "occupy"
  <2>1. sid[u] \in Slots /\ nso[u] \in Slots /\ nso[u] # sid[u]
    BY <1>2, <1>3 DEF PcOk, Apart
  <2>2. <<"S", sid[u]>> \in Locks /\ want[u] = Only("S", nso[u]) /\ <<"S", sid[u]>> \in Route(u)
    BY <1>2, <1>3, <2>1 DEF Locks, Ahead, Route
  <2>3. Of(want[u]) = {<<"S", nso[u]>>}
    BY <2>1, <2>2, OfLists DEF Kinds
  <2> QED
    BY <1>1, <1>3, <2>1, <2>2, <2>3
<1>4. CASE pc[u] = "establish"
  <2>1. nso[u] \in Slots
    BY <1>2, <1>4 DEF PcOk
  <2>2. /\ <<"S", nso[u]>> \in Locks /\ <<"S", nso[u]>> \in Route(u)
        /\ want[u] \in {RWE(nso[u]), WE(nso[u]), Only("E", nso[u])}
    BY <1>2, <1>4, <2>1 DEF Locks, Ahead, Route
  <2>3. <<"S", nso[u]>> \notin Of(want[u])
    BY <2>1, <2>2, OfLists DEF Kinds
  <2> QED
    BY <1>1, <1>4, <2>1, <2>2, <2>3
<1>5. CASE pc[u] \in {"reading", "read_fail"}
  <2>1. sid[u] \in Slots
    BY <1>2, <1>5 DEF PcOk, Apart
  <2>2. /\ <<"R", sid[u]>> \in Locks /\ <<"R", sid[u]>> \in Route(u)
        /\ want[u] \in {Only("E", sid[u]), <<>>}
    BY <1>2, <1>5, <2>1 DEF Locks, Ahead, Route
  <2>3. <<"R", sid[u]>> \notin Of(want[u])
    BY <2>1, <2>2, OfLists, OfNothing DEF Kinds
  <2> QED
    BY <1>1, <1>5, <2>1, <2>2, <2>3
<1>6. CASE pc[u] = "flush_error"
  <2>1. sid[u] \in Slots
    BY <1>2, <1>6 DEF PcOk, Apart
  <2>2. /\ <<"W", sid[u]>> \in Locks /\ <<"W", sid[u]>> \in Route(u)
        /\ want[u] = Only("E", sid[u])
    BY <1>2, <1>6, <2>1 DEF Locks, Ahead, Route
  <2>3. <<"W", sid[u]>> \notin Of(want[u])
    BY <2>1, <2>2, OfLists DEF Kinds
  <2> QED
    BY <1>1, <1>6, <2>1, <2>2, <2>3
<1> QED
  BY <1>3, <1>4, <1>5, <1>6

\* Steps that leave the table and the registrations alone.
LEMMA QuietData ==
  ASSUME DataInv, NEW t \in Threads, Alone(t), UNCHANGED <<mState, mFd, nfd, open, reg>>,
         \A fd \in edge' : fd \in edge \/ reg[fd] # None,
         \/ Stays(t)
         \/ pc'[t] # "occupy" /\ Relies(t)'
  PROVE  DataInv'
<1>1. SlotInv' /\ PlaceInv' /\ KernelInv'
  BY DEF DataInv, SlotInv, PlaceInv, KernelInv
<1>2. ASSUME NEW u \in Threads, Stays(u) PROVE Relies(u)'
  BY <1>2 DEF DataInv, Relies, Stays
<1>3. CASE Stays(t)
  <2>1. \A u \in Threads : Stays(u)
    BY <1>3 DEF Alone
  <2>2. RingFree'
    BY <2>1 DEF DataInv, RingFree, Stays
  <2> QED
    BY <1>1, <1>2, <2>1, <2>2 DEF DataInv
<1>4. CASE pc'[t] # "occupy" /\ Relies(t)'
  <2>1. RingFree'
    BY <1>4, RingKept DEF DataInv
  <2>2. \A u \in Threads : Relies(u)'
    BY <1>2, <1>4 DEF Alone
  <2> QED
    BY <1>1, <2>1, <2>2 DEF DataInv
<1> QED
  BY <1>3, <1>4

\* A socket is found broken: it is not watched any more, or never was.
LEMMA ErrorData ==
  ASSUME TypeOK, ControlInv, DataInv, NEW t \in Threads, NEW label, At(t, label), Alone(t),
         NEW s \in Slots, UNCHANGED <<mFd, nfd, open>>,
         mState' = [mState EXCEPT ![s] = "errored"], EvDel(s) \/ UNCHANGED <<reg, edge>>,
         \/ <<"S", s>> \in Route(t)
         \/ mState[s] # "listening",
         pc'[t] \in Apart
  PROVE  DataInv'
<1> USE NoneApart DEF TypeOK
<1>1. \A fd \in Fds : reg'[fd] = reg[fd] \/ reg'[fd] = None
  BY DEF EvDel
<1>2. SlotInv' /\ PlaceInv'
  BY <1>1 DEF DataInv, SlotInv, PlaceInv
<1>3. KernelInv'
  BY DEF DataInv, KernelInv, EvDel
<1>4. RingFree'
  BY RingKept DEF DataInv, Apart
<1>5. Relies(t)'
  BY DEF Apart, Relies
<1>6. ASSUME NEW u \in Threads, u # t PROVE Relies(u)'
  <2>1. /\ pc[u] = "occupy" => sid[u] \in Slots /\ <<"S", sid[u]>> \notin Route(t)
        /\ pc[u] = "establish" => nso[u] \in Slots
        /\ pc[u] \in {"reading", "read_fail", "flush_error"} => sid[u] \in Slots
    BY <1>6, Excluded, ControlTyped
  <2>2. Relies(u) /\ Stays(u)
    BY <1>6 DEF DataInv, Alone
  <2>3. pc[u] = "occupy" => sid[u] # s
    BY <2>1, <2>2 DEF Relies
  <2> QED
    BY <1>1, <2>1, <2>2, <2>3 DEF Relies, Stays
<1> QED
  BY <1>2, <1>3, <1>4, <1>5, <1>6 DEF DataInv

\* so_listen gets a new descriptor.
LEMMA CallListenData ==
  ASSUME TypeOK, ControlInv, DataInv, NEW t \in Workers, CallListen(t)
  PROVE  DataInv'
<1> DEFINE fd == Lowest(Unused)
<1> USE NoneApart DEF TypeOK
<1>1. /\ t \in Threads /\ fd \in Fds /\ fd \notin open
      /\ nfd' = [nfd EXCEPT ![t] = fd] /\ open' = open \cup {fd}
      /\ UNCHANGED <<mState, mFd, reg, edge>> /\ pc'[t] = "listen"
      /\ Alone(t)
  BY NewFd DEF CallListen, OpenFd, Goto, table, epollVars, Threads, ControlInv, Alone, Stays
<1> HIDE DEF fd
<1>2. SlotInv' /\ KernelInv' /\ PlaceInv'
  BY <1>1 DEF DataInv, SlotInv, PlaceInv, KernelInv
<1>3. RingFree'
  BY <1>1, RingKept DEF DataInv
<1>4. ASSUME NEW u \in Threads PROVE Relies(u)'
  <2>1. CASE u = t
    BY <1>1, <2>1 DEF Relies
  <2>2. CASE u # t
    <3>1. Relies(u) /\ Stays(u)
      BY <1>1, <2>2 DEF DataInv, Alone
    <3> QED
      BY <1>1, <3>1 DEF Relies, Stays
  <2> QED
    BY <2>1, <2>2
<1> QED
  BY <1>2, <1>3, <1>4 DEF DataInv

\* The listening socket gets the slot with its number, or is closed again.
LEMMA ListenData ==
  ASSUME TypeOK, ControlInv, DataInv, NEW t \in Workers, Listen(t)
  PROVE  DataInv'
<1> DEFINE fd == nfd[t]
           s == sid[t]
<1> USE NoneApart DEF TypeOK
<1>1. t \in Threads /\ pc[t] = "listen" /\ At(t, "listen")
  BY DEF Threads, Listen, At
<1>2. s \in Slots /\ fd \in Fds /\ fd # None
  BY <1>1 DEF ControlInv, PcOk, Apart
<1>3. fd \in open /\ reg[fd] = None /\ \A r \in Slots : mFd[r] # fd
  BY <1>1, <1>2 DEF DataInv, PlaceInv
<1>4. /\ nfd' = [nfd EXCEPT ![t] = None] /\ pc'[t] = "idle" /\ Alone(t)
  BY <1>1, SocketAssumption DEF Listen, Return, Goto, ControlInv, Alone, Stays
<1>5. Route(t) = {<<"S", s>>, <<"R", s>>, <<"W", s>>, <<"E", s>>}
  BY <1>1 DEF Route
<1>6. \A u \in Threads : u # t =>
        /\ pc[u] = "occupy" => sid[u] \in Slots /\ sid[u] # s
        /\ pc[u] = "establish" => nso[u] \in Slots /\ nso[u] # s
        /\ pc[u] \in {"reading", "read_fail", "flush_error"} => sid[u] \in Slots /\ sid[u] # s
  BY <1>1, <1>5, Excluded, ControlTyped
<1>7. RingFree'
  BY <1>1, <1>4, RingKept DEF DataInv
<1>8. Relies(t)'
  BY <1>4 DEF Relies
<1> HIDE DEF fd, s
<1>9. nfd[t] = fd
  BY DEF fd
<1>10. CASE /\ EvAdd(s, fd)
            /\ mFd' = [mFd EXCEPT ![s] = fd]
            /\ mState' = [mState EXCEPT ![s] = "listening"]
            /\ UNCHANGED <<open, queue, peer>>
  <2>1. SlotInv' /\ KernelInv'
    BY <1>2, <1>3, <1>10 DEF DataInv, SlotInv, KernelInv, EvAdd
  <2>2. PlaceInv'
    BY <1>1, <1>2, <1>3, <1>4, <1>9, <1>10 DEF DataInv, PlaceInv, EvAdd
  <2>3. ASSUME NEW u \in Threads, u # t PROVE Relies(u)'
    <3>1. Relies(u) /\ Stays(u)
      BY <1>4, <2>3 DEF DataInv, Alone
    <3>2. pc[u] = "establish" => mFd'[nso[u]] = mFd[nso[u]] /\ mFd[nso[u]] # fd
      BY <1>3, <1>6, <1>10, <2>3
    <3>3. reg' = [reg EXCEPT ![fd] = s]
      BY <1>10 DEF EvAdd
    <3> QED
      BY <1>2, <1>6, <1>10, <2>3, <3>1, <3>2, <3>3 DEF Relies, Stays
  <2> QED
    BY <1>7, <1>8, <2>1, <2>2, <2>3 DEF DataInv
<1>11. CASE SoReserve(s, fd)
  <2>1. /\ mFd' = [mFd EXCEPT ![s] = 0] /\ mState' = [mState EXCEPT ![s] = "free"]
        /\ open' = open \ {fd} /\ reg' = [reg EXCEPT ![fd] = None] /\ edge' = edge \ {fd}
    BY <1>2, <1>11 DEF SoReserve, CloseFd
  <2>2. SlotInv' /\ KernelInv'
    BY <1>2, <1>3, <2>1 DEF DataInv, SlotInv, KernelInv
  <2>3. PlaceInv'
    BY <1>1, <1>2, <1>3, <1>4, <1>9, <2>1 DEF DataInv, PlaceInv
  <2>4. ASSUME NEW u \in Threads, u # t PROVE Relies(u)'
    <3>1. Relies(u) /\ Stays(u)
      BY <1>4, <2>4 DEF DataInv, Alone
    <3>2. pc[u] = "establish" => mFd'[nso[u]] = mFd[nso[u]] /\ mFd[nso[u]] # fd
      BY <1>3, <1>6, <2>1, <2>4
    <3> QED
      BY <1>2, <1>6, <2>1, <2>4, <3>1, <3>2 DEF Relies, Stays
  <2> QED
    BY <1>7, <1>8, <2>2, <2>3, <2>4 DEF DataInv
<1> QED
  BY <1>10, <1>11 DEF Listen, s, fd

\* accept gives a descriptor to a thread that then looks for a slot.
LEMMA AcceptedData ==
  ASSUME TypeOK, ControlInv, DataInv, TableHasRoom, NEW t \in Workers, Accepted(t),
         ControlInv'
  PROVE  DataInv'
<1> DEFINE fd == Lowest(Unused)
           i == Lowest(FreeFrom(1))
<1> USE NoneApart DEF TypeOK
<1>1. t \in Threads /\ pc[t] = "accept" /\ mState[sid[t]] = "listening"
  BY DEF Threads, Accepted, At
<1>10. sid[t] \in Slots
  BY <1>1 DEF ControlInv, PcOk, Apart
<1>2. sid[t] \in Slots /\ 1 \in 1 .. NSlots
  BY <1>10, SocketAssumption DEF Slots
<1>3. FreeFrom(1) # {} /\ i \in Slots /\ mFd[i] = 0
  BY <1>2, ScanFinds
<1>4. fd \in Fds /\ fd \notin open
  BY NewFd DEF Accepted
<1>5. /\ nfd' = [nfd EXCEPT ![t] = fd] /\ open' = open \cup {fd}
      /\ nso' = [nso EXCEPT ![t] = i] /\ pc' = [pc EXCEPT ![t] = "occupy"]
      /\ UNCHANGED <<mState, mFd, sid, reg, edge>>
  BY <1>3 DEF Accepted, OpenFd, Scan, Goto, table, epollVars
<1> HIDE DEF fd, i
<1>6. pc'[t] = "occupy" /\ nso'[t] = i /\ Alone(t)
  BY <1>1, <1>5 DEF ControlInv, Alone, Stays
<1>7. SlotInv' /\ KernelInv' /\ PlaceInv'
  BY <1>1, <1>4, <1>5 DEF DataInv, SlotInv, PlaceInv, KernelInv
<1>8. \A u \in Threads : Relies(u)'
  BY <1>1, <1>5, <1>6 DEF DataInv, Relies, Alone, Stays
<1>9. RingFree'
  <2>1. ASSUME NEW u \in Threads, pc'[u] = "occupy", sid'[u] = i PROVE FALSE
    <3>1. mState'[i] = "listening"
      BY <1>8, <2>1 DEF Relies
    <3> QED
      BY <1>3, <1>5, <3>1 DEF DataInv, SlotInv
  <2> QED
    BY <1>1, <1>6, <2>1, RingKept DEF DataInv
<1> QED
  BY <1>7, <1>8, <1>9 DEF DataInv

\* The slot is taken, or the scan goes on.
LEMMA OccupyData ==
  ASSUME TypeOK, ControlInv, DataInv, TableHasRoom, NEW t \in Workers, Occupy(t)
  PROVE  DataInv'
<1> DEFINE fd == nfd[t]
           i == nso[t]
<1> USE NoneApart DEF TypeOK
<1>1. t \in Threads /\ pc[t] = "occupy" /\ At(t, "occupy")
  BY DEF Threads, Occupy, At
<1>2. /\ sid[t] \in Slots /\ i \in Slots /\ i # sid[t] /\ fd \in Fds /\ fd # None
      /\ mState[sid[t]] = "listening"
  BY <1>1 DEF ControlInv, PcOk, Apart, DataInv, Relies
<1>3. fd \in open /\ reg[fd] = None /\ \A r \in Slots : mFd[r] # fd
  BY <1>1, <1>2 DEF DataInv, PlaceInv
<1>4. UNCHANGED <<mState, sid, open, reg, edge>>
  BY DEF Occupy, epollVars
<1> HIDE DEF fd, i
<1>5. nfd[t] = fd /\ nso[t] = i
  BY DEF fd, i
<1>6. CASE /\ mFd[i] = 0
           /\ mFd' = [mFd EXCEPT ![i] = fd]
           /\ nfd' = [nfd EXCEPT ![t] = None]
           /\ Goto(t, "establish", RWE(i))
           /\ nso' = nso
  <2>1. pc'[t] = "establish" /\ Alone(t)
    BY <1>1, <1>4, <1>6 DEF Goto, ControlInv, Alone, Stays
  <2>2. SlotInv' /\ KernelInv'
    BY <1>2, <1>3, <1>4, <1>6 DEF DataInv, SlotInv, KernelInv
  <2>3. PlaceInv'
    BY <1>1, <1>2, <1>3, <1>4, <1>5, <1>6 DEF DataInv, PlaceInv
  <2>4. RingFree'
    BY <1>1, <2>1, RingKept DEF DataInv
  <2>5. Relies(t)'
    BY <1>2, <1>3, <1>4, <1>5, <1>6, <2>1 DEF Relies
  <2>6. ASSUME NEW u \in Threads, u # t PROVE Relies(u)'
    <3>1. /\ pc[u] = "establish" => nso[u] \in Slots
          /\ pc[u] \in {"reading", "read_fail", "flush_error"} => sid[u] \in Slots
      BY <1>1, <2>6, Excluded, ControlTyped
    <3>2. Relies(u) /\ Stays(u)
      BY <2>1, <2>6 DEF DataInv, Alone
    <3> QED
      BY <1>2, <1>3, <1>4, <1>6, <3>1, <3>2 DEF Relies, Stays
  <2> QED
    BY <2>2, <2>3, <2>4, <2>5, <2>6 DEF DataInv
<1>7. CASE mFd[i] # 0 /\ Scan(t, i + 1, [Locked(t) EXCEPT ![<<"S", i>>] = None])
           /\ UNCHANGED <<mFd, nfd>>
  <2> DEFINE j == Lowest(FreeFrom(i + 1))
  <2>1. i + 1 \in 1 .. NSlots
    BY SMTT(60), <1>2, <1>7, SocketAssumption DEF TableHasRoom, Slots
  <2>2. FreeFrom(i + 1) # {} /\ j \in Slots /\ mFd[j] = 0
    BY <2>1, ScanFinds
  <2>3. nso' = [nso EXCEPT ![t] = j] /\ pc' = [pc EXCEPT ![t] = "occupy"]
    BY <1>7, <2>2 DEF Scan, Goto
  <2> HIDE DEF j
  <2>4. pc'[t] = "occupy" /\ nso'[t] = j /\ Alone(t)
    BY <1>1, <1>4, <2>3 DEF ControlInv, Alone, Stays
  <2>5. SlotInv' /\ PlaceInv' /\ KernelInv'
    BY <1>4, <1>7 DEF DataInv, SlotInv, PlaceInv, KernelInv
  <2>6. ASSUME NEW u \in Threads PROVE Relies(u)'
    <3>1. CASE u = t
      BY <1>2, <1>4, <2>4, <3>1 DEF Relies
    <3>2. CASE u # t
      <4>1. Relies(u) /\ Stays(u)
        BY <2>4, <3>2 DEF DataInv, Alone
      <4> QED
        BY <1>4, <1>7, <4>1 DEF Relies, Stays
    <3> QED
      BY <3>1, <3>2
  <2>7. RingFree'
    <3>1. ASSUME NEW u \in Threads, pc'[u] = "occupy", sid'[u] = j PROVE FALSE
      <4>1. mState'[j] = "listening"
        BY <2>6, <3>1 DEF Relies
      <4> QED
        BY <1>4, <2>2, <4>1 DEF DataInv, SlotInv
    <3> QED
      BY <1>1, <2>4, <3>1, RingKept DEF DataInv
  <2> QED
    BY <2>5, <2>6, <2>7 DEF DataInv
<1> QED
  BY <1>6, <1>7 DEF Occupy, fd, i

\* The new slot is established.
LEMMA EstablishData ==
  ASSUME TypeOK, ControlInv, DataInv, NEW t \in Workers, Establish(t)
  PROVE  DataInv'
<1> DEFINE s == nso[t]
<1> USE NoneApart DEF TypeOK
<1>1. t \in Threads /\ pc[t] = "establish" /\ At(t, "establish")
  BY DEF Threads, Establish, At
<1>2. s \in Slots /\ mFd[s] # 0 /\ nfd[t] = None
  BY <1>1 DEF ControlInv, PcOk, DataInv, Relies
<1>3. /\ mState' = [mState EXCEPT ![s] = "established"] /\ nfd' = [nfd EXCEPT ![t] = None]
      /\ UNCHANGED <<mFd, open, reg, edge>>
  BY DEF Establish, epollVars
<1>4. pc'[t] = "accept" /\ Alone(t)
  BY <1>1 DEF Establish, Goto, ControlInv, Alone, Stays
<1>5. Route(t) = {<<"S", s>>, <<"R", s>>, <<"W", s>>, <<"E", s>>}
  BY <1>1 DEF Route
<1>6. \A u \in Threads : u # t =>
        /\ pc[u] = "occupy" => sid[u] \in Slots /\ sid[u] # s
        /\ pc[u] \in {"reading", "read_fail", "flush_error"} => sid[u] \in Slots /\ sid[u] # s
  BY <1>1, <1>5, Excluded, ControlTyped
<1> HIDE DEF s
<1>7. nfd' = nfd
  BY <1>1, <1>2, <1>3
<1>8. SlotInv' /\ PlaceInv' /\ KernelInv'
  BY <1>2, <1>3, <1>7 DEF DataInv, SlotInv, PlaceInv, KernelInv
<1>9. RingFree'
  BY <1>1, <1>4, RingKept DEF DataInv
<1>10. ASSUME NEW u \in Threads PROVE Relies(u)'
  <2>1. CASE u = t
    BY <1>4, <2>1 DEF Relies
  <2>2. CASE u # t
    <3>1. Relies(u) /\ Stays(u)
      BY <1>4, <2>2 DEF DataInv, Alone
    <3> QED
      BY <1>2, <1>3, <1>6, <2>2, <3>1 DEF Relies, Stays
  <2> QED
    BY <2>1, <2>2
<1> QED
  BY <1>8, <1>9, <1>10 DEF DataInv

\* so_add begins to watch the connection.
LEMMA AddData ==
  ASSUME TypeOK, ControlInv, DataInv, NEW t \in Workers, Add(t)
  PROVE  DataInv'
<1> DEFINE s == sid[t]
<1> USE NoneApart DEF TypeOK
<1>1. t \in Threads /\ pc[t] = "add" /\ At(t, "add")
  BY DEF Threads, Add, At
<1>2. s \in Slots
  BY <1>1 DEF ControlInv, PcOk, Apart
<1>3. UNCHANGED <<mFd, nfd, open>> /\ pc'[t] = "idle" /\ Alone(t)
  BY <1>1, SocketAssumption DEF Add, Return, Goto, ControlInv, Alone, Stays
<1>4. Route(t) = {<<"S", s>>, <<"E", s>>}
  BY <1>1 DEF Route
<1> HIDE DEF s
<1>5. Relies(t)'
  BY <1>3 DEF Relies
<1>6. CASE /\ mState[s] = "established"
           /\ EvAdd(s, mFd[s])
           /\ mState' = [mState EXCEPT ![s] = "rw"]
  <2> DEFINE fd == mFd[s]
  <2>1. fd \in open /\ fd \in Fds
    BY <1>2, <1>6 DEF DataInv, SlotInv, PlaceInv
  <2>2. SlotInv' /\ PlaceInv' /\ KernelInv'
    BY <1>2, <1>3, <1>6, <2>1 DEF DataInv, SlotInv, PlaceInv, KernelInv, EvAdd
  <2>3. RingFree'
    BY <1>1, <1>3, RingKept DEF DataInv
  <2>4. ASSUME NEW u \in Threads, u # t PROVE Relies(u)'
    <3>1. /\ pc[u] = "occupy" => sid[u] \in Slots /\ sid[u] # s
          /\ pc[u] = "establish" => nso[u] \in Slots /\ nso[u] # s
          /\ pc[u] \in {"reading", "read_fail", "flush_error"} => sid[u] \in Slots
      BY <1>1, <1>4, <2>4, Excluded, ControlTyped
    <3>2. Relies(u) /\ Stays(u)
      BY <1>3, <2>4 DEF DataInv, Alone
    <3>3. pc[u] = "establish" => mFd[nso[u]] # mFd[s]
      BY <1>2, <2>1, <3>1 DEF DataInv, PlaceInv
    <3> QED
      BY <1>2, <1>3, <1>6, <2>1, <3>1, <3>2, <3>3 DEF Relies, Stays, EvAdd
  <2> QED
    BY <1>5, <2>2, <2>3, <2>4 DEF DataInv
<1>7. CASE mState' = [mState EXCEPT ![s] = "errored"] /\ UNCHANGED epollVars
  BY <1>1, <1>2, <1>3, <1>4, <1>7, ErrorData DEF Apart, epollVars
<1>8. CASE UNCHANGED <<mState, epollVars>>
  BY <1>1, <1>3, <1>5, <1>8, QuietData DEF epollVars
<1> QED
  BY <1>6, <1>7, <1>8 DEF Add, s

\* so_close frees the slot and closes its descriptor.
LEMMA CloseData ==
  ASSUME TypeOK, ControlInv, DataInv, NEW t \in Workers, Close(t)
  PROVE  DataInv'
<1> DEFINE s == sid[t]
           fd == mFd[s]
<1> USE NoneApart DEF TypeOK
<1>1. t \in Threads /\ pc[t] = "close" /\ At(t, "close")
  BY DEF Threads, Close, At
<1>2. s \in Slots /\ fd \in Fds \cup {0}
  BY <1>1 DEF ControlInv, PcOk, Apart
<1>3. nfd' = nfd /\ pc'[t] = "idle" /\ Alone(t)
  BY <1>1, SocketAssumption DEF Close, Return, Goto, ControlInv, Alone, Stays
<1>4. Route(t) = {<<"S", s>>, <<"R", s>>, <<"W", s>>, <<"E", s>>}
  BY <1>1 DEF Route
<1>5. \A u \in Threads : u # t =>
        /\ pc[u] = "occupy" => sid[u] \in Slots /\ sid[u] # s
        /\ pc[u] = "establish" => nso[u] \in Slots /\ nso[u] # s
        /\ pc[u] \in {"reading", "read_fail", "flush_error"} => sid[u] \in Slots /\ sid[u] # s
  BY <1>1, <1>4, Excluded, ControlTyped
<1>6. Relies(t)'
  BY <1>3 DEF Relies
<1> HIDE DEF fd, s
<1>7. mFd[s] = fd
  BY DEF fd
<1>8. CASE UNCHANGED <<table, open, queue, peer, epollVars>>
  BY <1>1, <1>3, <1>6, <1>8, QuietData DEF epollVars, table
<1>9. CASE SoReserve(s, fd)
  <2>1. /\ mFd' = [mFd EXCEPT ![s] = 0] /\ mState' = [mState EXCEPT ![s] = "free"]
        /\ \/ fd # 0 /\ open' = open \ {fd} /\ reg' = [reg EXCEPT ![fd] = None] /\ edge' = edge \ {fd}
           \/ fd = 0 /\ UNCHANGED <<open, reg, edge>>
    BY <1>9 DEF SoReserve, CloseFd, epollVars
  <2>2. SlotInv' /\ KernelInv'
    BY ZenonT(60), <1>2, <2>1 DEF DataInv, SlotInv, KernelInv
  <2>3. PlaceInv'
    BY <1>2, <1>3, <1>7, <2>1 DEF DataInv, PlaceInv
  <2>4. RingFree'
    BY <1>1, <1>3, RingKept DEF DataInv
  <2>5. ASSUME NEW u \in Threads, u # t PROVE Relies(u)'
    <3>1. pc'[u] = pc[u] /\ sid'[u] = sid[u] /\ nso'[u] = nso[u]
      BY <1>3, <2>5 DEF Alone, Stays
    <3>2. Relies(u)
      BY DEF DataInv
    <3>3. \A r \in Slots \ {s} : mFd'[r] = mFd[r] /\ mState'[r] = mState[r]
      BY <2>1 DEF DataInv, SlotInv
    <3>4. pc'[u] = "occupy" => mState'[sid'[u]] = "listening"
      BY <1>5, <2>5, <3>1, <3>2, <3>3 DEF Relies
    <3>5. pc'[u] \in {"reading", "read_fail", "flush_error"} =>
            mState'[sid'[u]] \in {"rw", "errored"} /\ mFd'[sid'[u]] # 0
      BY <1>5, <2>5, <3>1, <3>2, <3>3 DEF Relies
    <3>6. pc'[u] = "establish" => mFd'[nso'[u]] # 0 /\ reg'[mFd'[nso'[u]]] = None
      <4>1. pc'[u] = "establish" =>
              /\ mFd'[nso'[u]] = mFd[nso[u]] /\ mFd[nso[u]] # 0 /\ reg[mFd[nso[u]]] = None
              /\ mFd[nso[u]] \in Fds
        BY <1>5, <2>5, <3>1, <3>2, <3>3 DEF Relies
      <4>2. reg' = reg \/ reg' = [reg EXCEPT ![fd] = None]
        BY <2>1
      <4>3. \A x \in Fds : reg[x] = None => reg'[x] = None
        BY <4>2
      <4> QED  BY <4>1, <4>3
    <3> QED  BY <3>4, <3>5, <3>6 DEF Relies
  <2> QED
    BY <1>6, <2>2, <2>3, <2>4, <2>5 DEF DataInv
<1> QED
  BY <1>8, <1>9 DEF Close, s, fd

\* An error path ends: nothing happens if the socket was errored already.
LEMMA FailData ==
  ASSUME TypeOK, ControlInv, DataInv, NEW t \in Threads, NEW label, At(t, label), FailSocket(t),
         sid[t] \in Slots, \/ <<"S", sid[t]>> \in Route(t)
                           \/ mState[sid[t]] # "listening"
  PROVE  DataInv'
<1>1. UNCHANGED <<mFd, nfd, open>> /\ pc'[t] \in Apart /\ Alone(t)
  BY DEF FailSocket, Return, Goto, ControlInv, Apart, Alone, Stays, TypeOK
<1>2. CASE EvDel(sid[t]) /\ mState' = [mState EXCEPT ![sid[t]] = "errored"]
  BY <1>1, <1>2, ErrorData
<1>3. CASE UNCHANGED <<mState, epollVars>>
  <2>1. Relies(t)' /\ pc'[t] # "occupy"
    BY <1>1 DEF Relies, Apart
  <2> QED
    BY <1>1, <1>3, <2>1, QuietData DEF epollVars
<1> QED
  BY <1>2, <1>3 DEF FailSocket

\* An event is looked at.
LEMMA DispatchData ==
  ASSUME TypeOK, ControlInv, DataInv, Dispatch
  PROVE  DataInv'
<1> DEFINE s == evt.so
<1>1. Socket \in Threads /\ pc[Socket] = "dispatch" /\ At(Socket, "dispatch")
  BY DEF Threads, Dispatch, At
<1>2. s \in Slots
  BY <1>1, NoneApart DEF ControlInv, PcOk, TypeOK
<1>3. UNCHANGED <<mFd, nfd, open>> /\ pc'[Socket] \in Apart /\ Alone(Socket)
  BY <1>1 DEF Dispatch, Goto, ControlInv, Apart, Alone, Stays
<1>4. <<"S", s>> \in Route(Socket)
  BY <1>1 DEF Route
<1> HIDE DEF s
<1>5. CASE (EvDel(s) \/ UNCHANGED epollVars) /\ mState' = [mState EXCEPT ![s] = "errored"]
  BY <1>1, <1>2, <1>3, <1>4, <1>5, ErrorData DEF epollVars
<1>6. CASE UNCHANGED <<mState, epollVars>>
  <2>1. Relies(Socket)' /\ pc'[Socket] # "occupy"
    BY <1>3 DEF Relies, Apart
  <2> QED
    BY <1>1, <1>3, <1>6, <2>1, QuietData DEF epollVars
<1> QED
  BY <1>5, <1>6 DEF Dispatch, s

\* The functions that only look at the table go on with what they saw.
LEMMA LookData ==
  ASSUME TypeOK, ControlInv, DataInv, NEW t \in Workers,
         AcceptNone(t) \/ AcceptFails(t) \/ ReadCheck(t) \/ ReadStops(t)
  PROVE  DataInv'
<1>1. t \in Threads /\ UNCHANGED <<mState, mFd, nfd, open, reg, edge>>
  BY DEF AcceptNone, AcceptFails, ReadCheck, ReadStops, table, epollVars, Threads
<1>2. Alone(t)
  BY <1>1 DEF AcceptNone, AcceptFails, ReadCheck, ReadStops, Return, Goto, ControlInv, Alone, Stays,
     TypeOK
<1>3. /\ pc[t] \in {"read_check", "reading"} => sid[t] \in Slots
      /\ pc[t] = "reading" => mState[sid[t]] \in {"rw", "errored"} /\ mFd[sid[t]] # 0
  BY <1>1 DEF DataInv, Relies, ControlInv, PcOk, Apart
<1>4. pc'[t] # "occupy" /\ Relies(t)'
  <2>1. CASE Return(t)
    BY <1>1, <2>1, SocketAssumption DEF Return, Goto, ControlInv, Relies
  <2>2. CASE AcceptFails(t)
    BY <1>1, <2>2 DEF AcceptFails, Goto, ControlInv, Relies
  <2>3. CASE ReadCheck(t) /\ mState[sid[t]] = "rw" /\ Goto(t, "reading", <<>>) /\ UNCHANGED sid
    <3>1. pc'[t] = "reading" /\ mFd[sid[t]] # 0
      BY <1>1, <1>3, <2>3 DEF ReadCheck, At, Goto, ControlInv, DataInv, SlotInv
    <3> QED
      BY <1>1, <2>3, <3>1 DEF Relies
  <2>4. CASE ReadStops(t) /\ Goto(t, "read_fail", Only("E", sid[t])) /\ UNCHANGED sid
    <3>1. pc'[t] = "read_fail"
      BY <1>1, <2>4 DEF Goto, ControlInv
    <3> QED
      BY <1>1, <1>3, <2>4, <3>1 DEF Relies, ReadStops, At
  <2> QED
    BY <2>1, <2>2, <2>3, <2>4 DEF AcceptNone, AcceptFails, ReadCheck, ReadStops
<1> QED
  BY <1>1, <1>2, <1>4, QuietData

\* A flush that fails still has a connection before it.
LEMMA FlushData ==
  ASSUME TypeOK, ControlInv, DataInv, Flush \/ FlushError
  PROVE  DataInv'
<1> DEFINE s == sid[Socket]
<1>1. /\ Socket \in Threads /\ UNCHANGED <<mFd, nfd, open, reg, edge>>
      /\ pc[Socket] \in {"flushing", "flush_error"}
  BY DEF Flush, FlushError, epollVars, table, Threads, At
<1>2. s \in Slots
  BY <1>1 DEF ControlInv, PcOk, Apart
<1>3. Alone(Socket)
  BY <1>1 DEF Flush, FlushError, Return, Goto, ControlInv, Alone, Stays, TypeOK
<1>4. CASE FlushError
  <2>1. mState' = [mState EXCEPT ![s] = "errored"] /\ pc'[Socket] = "flush"
    BY <1>1, <1>4 DEF FlushError, Return, Goto, ControlInv
  <2>2. At(Socket, "flush_error") /\ mState[s] # "listening"
    BY <1>1, <1>4 DEF FlushError, At, DataInv, Relies
  <2> HIDE DEF s
  <2> QED
    BY <1>1, <1>2, <1>3, <2>1, <2>2, ErrorData DEF Apart
<1>5. CASE Flush /\ Return(Socket)
  <2>1. mState' = mState /\ pc'[Socket] = "flush"
    BY <1>1, <1>5 DEF Flush, table, Return, Goto, ControlInv
  <2>2. Relies(Socket)'
    BY <2>1 DEF Relies
  <2> QED
    BY <1>1, <1>3, <2>1, <2>2, QuietData
<1>6. CASE Flush /\ mState[s] = "rw" /\ Goto(Socket, "flush_error", Only("E", s)) /\ UNCHANGED sid
  <2>1. mState' = mState /\ pc'[Socket] = "flush_error" /\ mFd[s] # 0
    BY <1>1, <1>2, <1>6 DEF Flush, table, Goto, ControlInv, DataInv, SlotInv
  <2>2. Relies(Socket)'
    BY <1>1, <1>6, <2>1 DEF Relies
  <2> QED
    BY <1>1, <1>3, <2>1, <2>2, QuietData
<1> QED
  BY <1>4, <1>5, <1>6 DEF Flush

\* Every step keeps what the locks protect.
LEMMA DataStep ==
  ASSUME TypeOK, ControlInv, DataInv, TableHasRoom, ControlInv', [Next]_vars
  PROVE  DataInv'
<1>0. Workers \subseteq Threads /\ Socket \in Threads /\ Socket \notin Workers
  BY SocketAssumption DEF Threads
<1>1. ASSUME NEW t \in Threads, \A u \in Threads : Stays(u),
             UNCHANGED <<mState, mFd, nfd, open, reg>>,
             \A fd \in edge' : fd \in edge \/ reg[fd] # None
      PROVE  DataInv'
  BY <1>1, QuietData DEF Alone
<1>2. ASSUME NEW t \in Threads, Alone(t), pc'[t] \in {"accept", "add", "close", "read_check",
               "idle", "wait", "events", "dispatch", "flush", "flushing"},
             UNCHANGED <<mState, mFd, nfd, open, reg>>, edge' \subseteq edge
      PROVE  DataInv'
  <2>1. Relies(t)' /\ pc'[t] # "occupy"
    BY <1>2 DEF Relies
  <2> QED
    BY <1>2, <2>1, QuietData
<1>3. ASSUME NEW t \in Threads, Acquire(t) PROVE DataInv'
  BY <1>0, <1>1, <1>3 DEF Acquire, table, epollVars, Stays
<1>4. ASSUME NEW t \in Workers, CallListen(t) PROVE DataInv'
  BY <1>4, CallListenData
<1>5. ASSUME NEW t \in Workers, Listen(t) PROVE DataInv'
  BY <1>5, ListenData
<1>6. ASSUME NEW t \in Workers, NEW s \in Slots, CallAccept(t, s) \/ CallRead(t, s) PROVE DataInv'
  <2>1. /\ UNCHANGED <<mState, mFd, nfd, open, reg>> /\ edge' = edge
        /\ pc'[t] \in {"accept", "read_check"}
        /\ Alone(t)
    BY <1>0, <1>6 DEF CallAccept, CallRead, Enter, Goto, table, epollVars, ControlInv, Alone, Stays,
       TypeOK
  <2> QED
    BY <1>0, <1>2, <2>1
<1>7. ASSUME NEW t \in Workers, NEW s \in Slots, CallAdd(t, s) \/ CallClose(t, s) PROVE DataInv'
  <2>1. /\ UNCHANGED <<mState, mFd, nfd, open, reg>> /\ edge' = edge
        /\ pc'[t] \in {"add", "close"}
        /\ Alone(t)
    BY <1>0, <1>7 DEF CallAdd, CallClose, Call, Enter, Goto, table, epollVars, ControlInv, Alone,
       Stays, TypeOK
  <2> QED
    BY <1>0, <1>2, <2>1
<1>8. ASSUME NEW t \in Workers, AcceptNone(t) \/ AcceptFails(t) \/ ReadCheck(t) \/ ReadStops(t)
      PROVE  DataInv'
  BY <1>8, LookData
<1>9. ASSUME NEW t \in Workers, AcceptError(t) PROVE DataInv'
  <2>1. pc[t] = "accept_error" /\ At(t, "accept_error") /\ FailSocket(t) /\ sid[t] \in Slots
    BY <1>0, <1>9 DEF AcceptError, At, ControlInv, PcOk, Apart
  <2>2. <<"S", sid[t]>> \in Route(t)
    BY <2>1 DEF Route
  <2> QED
    BY <1>0, <2>1, <2>2, FailData
<1>10. ASSUME NEW t \in Workers, ReadFail(t) PROVE DataInv'
  <2>1. pc[t] = "read_fail" /\ At(t, "read_fail") /\ FailSocket(t) /\ sid[t] \in Slots
    BY <1>0, <1>10 DEF ReadFail, At, ControlInv, PcOk, Apart
  <2>2. mState[sid[t]] # "listening"
    BY <1>0, <2>1 DEF DataInv, Relies
  <2> QED
    BY <1>0, <2>1, <2>2, FailData
<1>11. ASSUME NEW t \in Workers, Accepted(t) PROVE DataInv'
  BY <1>11, AcceptedData
<1>12. ASSUME NEW t \in Workers, Occupy(t) PROVE DataInv'
  BY <1>12, OccupyData
<1>13. ASSUME NEW t \in Workers, Establish(t) PROVE DataInv'
  BY <1>13, EstablishData
<1>14. ASSUME NEW t \in Workers, Add(t) PROVE DataInv'
  BY <1>14, AddData
<1>15. ASSUME NEW t \in Workers, Close(t) PROVE DataInv'
  BY <1>15, CloseData
<1>16. ASSUME NEW t \in Workers, ReadData(t) PROVE DataInv'
  BY <1>0, <1>1, <1>16 DEF ReadData, table, threadVars, epollVars, Stays
<1>17. CASE EpollWait \/ NextEvent \/ EventsDone \/ FlushDone
  <2>1. /\ UNCHANGED <<mState, mFd, nfd, open, reg>> /\ edge' \subseteq edge
        /\ pc'[Socket] \in {"events", "dispatch", "flush", "wait"}
        /\ Alone(Socket)
    BY <1>0, <1>17 DEF EpollWait, NextEvent, EventsDone, FlushDone, Enter, Goto, table, epollVars,
       ControlInv, Alone, Stays
  <2> QED
    BY <1>0, <1>2, <2>1
<1>18. CASE Dispatch
  BY <1>18, DispatchData
<1>19. ASSUME NEW s \in Slots, CallFlush(s) PROVE DataInv'
  <2>1. /\ UNCHANGED <<mState, mFd, nfd, open, reg>> /\ edge' = edge
        /\ pc'[Socket] = "flushing" /\ Alone(Socket)
    BY <1>0, <1>19 DEF CallFlush, Enter, Goto, table, epollVars, ControlInv, Alone, Stays, TypeOK
  <2> QED
    BY <1>0, <1>2, <2>1
<1>20. CASE Flush \/ FlushError
  BY <1>20, FlushData
<1>21. CASE Client
  <2>1. /\ UNCHANGED <<mState, mFd, nfd, open, reg>> /\ \A u \in Threads : Stays(u)
        /\ \A fd \in edge' : fd \in edge \/ reg[fd] # None
    BY <1>21 DEF Client, ClientConnects, ClientSends, ClientLeaves, Edge, table, threadVars, Stays
  <2> QED
    BY <1>0, <1>1, <2>1
<1>22. CASE UNCHANGED vars
  BY <1>0, <1>1, <1>22 DEF vars, table, threadVars, epollVars, Stays
<1> QED
  BY <1>3, <1>4, <1>5, <1>6, <1>7, <1>8, <1>9, <1>10, <1>11, <1>12, <1>13, <1>14, <1>15, <1>16, <1>17,
     <1>18, <1>19, <1>20, <1>21, <1>22
     DEF Next, WorkerStep, SocketStep

\* In the beginning the table is empty and nobody has a lock.
LEMMA TableInit == Init => TableInv
<1> SUFFICES ASSUME Init PROVE TableInv
  OBVIOUS
<1> USE NoneApart, SocketAssumption DEF Init
<1>1. TypeOK
  <2>1. ControlType
    BY EmptySeq DEF ControlType
  <2>2. TableType /\ EventType
    BY DEF TableType, EventType
  <2>3. KernelType
    BY DEF KernelType
  <2>4. BoundType
    BY DEF BoundType
  <2> QED
    BY <2>1, <2>2, <2>3, <2>4, TypeParts
<1>2. ControlInv
  <2>1. pc \in [Threads -> WorkerPcs \cup SocketPcs]
    BY DEF WorkerPcs, SocketPcs
  <2>2. ASSUME NEW t \in Threads PROVE PcOk(t) /\ LocksOk(t)
    <3>1. pc[t] = (IF t = Socket THEN "wait" ELSE "idle") /\ want[t] = <<>> /\ nfd[t] = None
      BY <2>2
    <3>2. PcOk(t)
      BY <2>2, <3>1 DEF PcOk, Apart, WorkerPcs, SocketPcs
    <3>3. LocksOk(t)
      BY <2>2, <3>1 DEF LocksOk, Route, Ahead
    <3> QED
      BY <3>2, <3>3
  <2> QED
    BY <2>1, <2>2 DEF ControlInv
<1>3. SlotInv /\ PlaceInv /\ KernelInv
  BY DEF SlotInv, PlaceInv, KernelInv
<1>4. \A t \in Threads : Relies(t)
  BY DEF Relies
<1>5. RingFree
  <2> SUFFICES ASSUME NEW D \in (SUBSET Threads) \ {{}}
               PROVE  \E t \in D : \A u \in D :
                        ~(pc[t] = "occupy" /\ pc[u] = "occupy" /\ nso[t] = sid[u])
    BY DEF RingFree
  <2>1. PICK t \in D : TRUE
    OBVIOUS
  <2>2. pc[t] # "occupy"
    BY <2>1
  <2> QED
    BY <2>1, <2>2
<1> QED
  BY <1>1, <1>2, <1>3, <1>4, <1>5 DEF TableInv, DataInv

\* Every step keeps the table invariant.
LEMMA TableStep == TableInv /\ TableHasRoom /\ [Next]_vars => TableInv'
<1> SUFFICES ASSUME TableInv, TableHasRoom, [Next]_vars PROVE TableInv'
  OBVIOUS
<1>1. ControlType' /\ ControlInv'
  BY ControlStep DEF TableInv, DataInv
<1>2. TypeOK'
  BY <1>1, TypeStep DEF TableInv, DataInv
<1>3. DataInv'
  BY <1>1, DataStep DEF TableInv
<1> QED
  BY <1>1, <1>2, <1>3 DEF TableInv

-----------------------------------------------------------------------------
(* No circle of locks.                                                     *)

\* The order of the locks: who has one wants a later kind, or is an acceptor on its
\* way to a new slot.
LEMMA LaterLock ==
  ASSUME ControlType, ControlInv, NEW t \in Threads, want[t] # <<>>, NEW l \in Locks, lock[l] = t
  PROVE  /\ l[1] # "E"
         /\ l[1] = "W" => Head(want[t])[1] = "E"
         /\ l[1] = "R" => Head(want[t])[1] \in {"W", "E"}
         /\ l[1] = "S" => \/ Head(want[t])[1] \in {"R", "W", "E"}
                          \/ pc[t] = "occupy" /\ l[2] = sid[t]
<1> DEFINE q == want[t]
<1>1. PcOk(t) /\ q \in Ahead(t) /\ l \in Route(t) /\ l \notin Of(q) /\ pc[t] \in WorkerPcs \cup SocketPcs
  BY DEF ControlInv, LocksOk
<1> HIDE DEF q
<1>2. ASSUME NEW s \in Slots, q \in {SRWE(s), RWE(s), WE(s), Only("E", s)},
             l \in {<<"S", s>>, <<"R", s>>, <<"W", s>>, <<"E", s>>}
      PROVE  /\ l[1] # "E"
             /\ l[1] = "W" => Head(q)[1] = "E"
             /\ l[1] = "R" => Head(q)[1] \in {"W", "E"}
             /\ l[1] = "S" => Head(q)[1] \in {"R", "W", "E"}
  <2>1. CASE q = SRWE(s)
    BY <1>1, <1>2, <2>1, OfLists
  <2>2. CASE q = RWE(s)
    <3>1. l = <<"S", s>>
      BY <1>1, <1>2, <2>2, OfLists
    <3>2. Head(q) = <<"R", s>>
      BY <2>2, FirstLock
    <3> QED
      BY <3>1, <3>2
  <2>3. CASE q = WE(s)
    <3>1. l \in {<<"S", s>>, <<"R", s>>}
      BY <1>1, <1>2, <2>3, OfLists
    <3>2. Head(q) = <<"W", s>>
      BY <2>3, FirstLock
    <3> QED
      BY <3>1, <3>2
  <2>4. CASE q = Only("E", s)
    <3>1. l \in {<<"S", s>>, <<"R", s>>, <<"W", s>>}
      BY <1>1, <1>2, <2>4, OfLists DEF Kinds
    <3>2. Head(q) = <<"E", s>>
      BY <2>4, FirstLock DEF Kinds
    <3> QED
      BY <3>1, <3>2
  <2> QED
    BY <1>2, <2>1, <2>2, <2>3, <2>4
<1>3. CASE pc[t] \in {"listen", "close", "accept_error", "add", "read_fail", "flush_error"}
  <2>1. sid[t] \in Slots
    BY <1>1, <1>3 DEF PcOk, Apart
  <2>2. /\ q \in {SRWE(sid[t]), RWE(sid[t]), WE(sid[t]), Only("E", sid[t])}
        /\ l \in {<<"S", sid[t]>>, <<"R", sid[t]>>, <<"W", sid[t]>>, <<"E", sid[t]>>}
    BY <1>1, <1>3 DEF Ahead, Route
  <2> QED
    BY <1>2, <2>1, <2>2 DEF q
<1>4. CASE pc[t] = "establish"
  <2>1. nso[t] \in Slots
    BY <1>1, <1>4 DEF PcOk
  <2>2. /\ q \in {SRWE(nso[t]), RWE(nso[t]), WE(nso[t]), Only("E", nso[t])}
        /\ l \in {<<"S", nso[t]>>, <<"R", nso[t]>>, <<"W", nso[t]>>, <<"E", nso[t]>>}
    BY <1>1, <1>4 DEF Ahead, Route
  <2> QED
    BY <1>2, <2>1, <2>2 DEF q
<1>5. CASE pc[t] = "dispatch"
  <2>1. evt.so \in Slots
    BY <1>1, <1>5 DEF PcOk, ControlType
  <2>2. /\ q \in {SRWE(evt.so), RWE(evt.so), WE(evt.so), Only("E", evt.so)}
        /\ l \in {<<"S", evt.so>>, <<"R", evt.so>>, <<"W", evt.so>>, <<"E", evt.so>>}
    BY <1>1, <1>5 DEF Ahead, Route
  <2> QED
    BY <1>2, <2>1, <2>2 DEF q
<1>6. CASE pc[t] = "occupy"
  <2>1. nso[t] \in Slots /\ q = Only("S", nso[t]) /\ l \in {<<"S", sid[t]>>, <<"S", nso[t]>>}
    BY <1>1, <1>6 DEF PcOk, Ahead, Route
  <2>2. l = <<"S", sid[t]>>
    BY <1>1, <2>1, OfLists DEF Kinds
  <2> QED
    BY <1>6, <2>2
<1>7. CASE pc[t] = "accept"
  <2>1. sid[t] \in Slots /\ q = Only("S", sid[t]) /\ l = <<"S", sid[t]>>
    BY <1>1, <1>7 DEF PcOk, Apart, Ahead, Route, q
  <2> QED
    BY <1>1, <2>1, OfLists DEF Kinds
<1>8. CASE pc[t] \in {"idle", "wait", "events", "flush", "flushing", "read_check", "reading"}
  BY <1>1, <1>8 DEF Ahead, q
<1> QED
  BY <1>1, <1>3, <1>4, <1>5, <1>6, <1>7, <1>8 DEF WorkerPcs, SocketPcs

\* In a circle everybody would want an S lock that an acceptor has: a ring.
LEMMA TableHasNoCircle == TableInv => NoLockCycle
<1> SUFFICES ASSUME TableInv, NEW D \in SUBSET Threads, D # {},
                    \A t \in D : want[t] # <<>> /\ lock[Head(want[t])] \in D
             PROVE  FALSE
  BY DEF NoLockCycle
<1>1. ControlType /\ ControlInv /\ RingFree
  BY ControlTyped DEF TableInv, DataInv
<1> DEFINE h(t) == Head(want[t])
           holder(t) == lock[h(t)]
<1>2. \A t \in D : h(t) \in Locks /\ holder(t) \in D
  BY <1>1, OfRest DEF ControlType
<1>3. \A t \in D : LET k == h(t)[1]
                       n == h(holder(t))[1]
                   IN  /\ k # "E" /\ (k = "W" => n = "E") /\ (k = "R" => n \in {"W", "E"})
                       /\ k = "S" => \/ n \in {"R", "W", "E"}
                                     \/ pc[holder(t)] = "occupy" /\ h(t)[2] = sid[holder(t)]
  BY <1>1, <1>2, LaterLock
<1>4. \A t \in D : h(t)[1] \in {"S", "R", "W", "E"}
  BY <1>2 DEF Locks
<1> HIDE DEF h, holder
<1>5. \A t \in D : h(t)[1] # "W"
  BY <1>2, <1>3
<1>6. \A t \in D : h(t)[1] # "R"
  BY <1>2, <1>3, <1>5
<1>7. \A t \in D : pc[holder(t)] = "occupy" /\ h(t)[2] = sid[holder(t)]
  BY <1>2, <1>3, <1>4, <1>5, <1>6
<1> DEFINE O == {t \in D : pc[t] = "occupy"}
<1>8. O # {} /\ O \in SUBSET Threads
  BY <1>2, <1>7
<1>9. \A t \in O : h(t)[2] = nso[t]
  <2>1. ASSUME NEW t \in O PROVE want[t] = Only("S", nso[t]) /\ nso[t] \in Slots
    BY <1>1 DEF ControlInv, LocksOk, PcOk, Ahead
  <2>2. ASSUME NEW t \in O PROVE Head(want[t]) = <<"S", nso[t]>>
    BY <2>1, FirstLock DEF Kinds
  <2> QED
    BY <2>2 DEF h
<1>10. \A t \in O : holder(t) \in O /\ nso[t] = sid[holder(t)]
  BY <1>2, <1>7, <1>9
<1> HIDE DEF O
<1>11. \A t \in O : pc[t] = "occupy"
  BY DEF O
<1> QED
  BY <1>1, <1>8, <1>10, <1>11 DEF RingFree

\* While the table has room the locks of the sockets never close a circle, whatever
\* the workers, the events and the clients do (gs.c, all of its locking).
THEOREM LocksNeverCircle == Spec /\ []TableHasRoom => []NoLockCycle
<1>1. Spec /\ []TableHasRoom => []TableInv
  BY TableInit, TableStep, PTL DEF Spec
<1> QED
  BY <1>1, TableHasNoCircle, PTL

-----------------------------------------------------------------------------
(* Every descriptor has a home, and what is watched is live.               *)

Early(t) == pc'[t] \notin {"listen", "occupy", "establish"}

\* What a step of t in which no client connects has to show for EarlyInv.
LEMMA EarlyKept ==
  ASSUME EarlyInv, NEW t \in Threads, Alone(t), \A u \in Threads : u # t => nfd'[u] = nfd[u],
         nConns' = nConns, pc'[t] = "listen" => nConns = 0 /\ sid'[t] = nfd'[t],
         nConns = 0 =>
           /\ \A s \in Slots : mState'[s] \notin {"established", "rw"} /\ mFd'[s] \in {0, s}
           /\ \A fd \in Fds : queue'[fd] = 0
           /\ pc'[t] \notin {"occupy", "establish"}
  PROVE  EarlyInv'
<1>1. nConns' = 0 =>
        /\ \A s \in Slots : mState'[s] \notin {"established", "rw"} /\ mFd'[s] \in {0, s}
        /\ \A fd \in Fds : queue'[fd] = 0
  OBVIOUS
<1>2. ASSUME NEW u \in Threads
      PROVE  /\ nConns' = 0 => pc'[u] \notin {"occupy", "establish"}
             /\ pc'[u] = "listen" => nConns' = 0 /\ sid'[u] = nfd'[u]
  BY <1>2 DEF EarlyInv, Alone, Stays
<1> QED
  BY <1>1, <1>2 DEF EarlyInv

\* Steps that leave the table, the descriptors and the registrations alone.
LEMMA QuietServe ==
  ASSUME ServeInv, NEW t \in Threads, Alone(t), UNCHANGED <<mState, mFd, nfd, open, reg, nConns>>,
         nConns = 0 => queue' = queue, Stays(t) \/ Early(t)
  PROVE  ServeInv'
<1>1. HomeInv' /\ WatchedIsLive' /\ ServedInv'
  BY DEF ServeInv, HomeInv, WatchedIsLive, ServedInv
<1>2. /\ pc'[t] = "listen" => nConns = 0 /\ sid'[t] = nfd'[t]
      /\ nConns = 0 => pc'[t] \notin {"occupy", "establish"}
  BY DEF ServeInv, EarlyInv, Stays, Early
<1>3. EarlyInv'
  BY <1>2, EarlyKept DEF ServeInv, EarlyInv
<1> QED
  BY <1>1, <1>3 DEF ServeInv

\* A socket is found broken.
LEMMA ErrorServe ==
  ASSUME TypeOK, DataInv, ServeInv, NEW t \in Threads, Alone(t), NEW s \in Slots,
         UNCHANGED <<mFd, nfd, open, queue, nConns>>,
         mState' = [mState EXCEPT ![s] = "errored"], EvDel(s) \/ UNCHANGED reg, Early(t)
  PROVE  ServeInv'
<1> USE NoneApart DEF TypeOK
<1>1. HomeInv'
  BY DEF ServeInv, HomeInv
<1>2. WatchedIsLive'
  BY DEF ServeInv, WatchedIsLive, EvDel
<1>3. ServedInv'
  <2>1. ASSUME NEW r \in Slots, mState'[r] \in {"listening", "rw"} PROVE reg'[mFd'[r]] = r
    <3>1. r # s /\ mState[r] \in {"listening", "rw"} /\ mFd'[r] = mFd[r]
      BY <2>1
    <3>2. reg[mFd[r]] = r /\ mFd[r] # 0 /\ mFd[r] # mFd[s]
      BY <3>1 DEF ServeInv, ServedInv, DataInv, SlotInv, PlaceInv
    <3> QED
      BY <3>1, <3>2 DEF EvDel
  <2> QED
    BY <2>1 DEF ServedInv
<1>4. EarlyInv'
  <2>1. nConns = 0 =>
           /\ \A r \in Slots : mState'[r] \notin {"established", "rw"} /\ mFd'[r] \in {0, r}
           /\ \A fd \in Fds : queue'[fd] = 0
    BY DEF ServeInv, EarlyInv
  <2> QED
    BY <2>1, EarlyKept DEF ServeInv, Early
<1> QED
  BY <1>1, <1>2, <1>3, <1>4 DEF ServeInv

\* so_listen gets a new descriptor, before the first connection.
LEMMA CallListenServe ==
  ASSUME TypeOK, DataInv, ControlInv, ServeInv, ~LateListen, NEW t \in Workers, CallListen(t)
  PROVE  ServeInv'
<1> DEFINE fd == Lowest(Unused)
<1> USE NoneApart DEF TypeOK
<1>1. /\ t \in Threads /\ fd \in Fds /\ fd \notin open /\ nConns = 0
      /\ nfd' = [nfd EXCEPT ![t] = fd] /\ open' = open \cup {fd} /\ sid'[t] = fd
      /\ UNCHANGED <<mState, mFd, reg, queue, nConns>> /\ pc'[t] = "listen" /\ pc[t] = "idle"
      /\ Alone(t)
  BY NewFd DEF CallListen, OpenFd, Goto, table, epollVars, Threads, ControlInv, Alone, Stays, At
<1> HIDE DEF fd
<1>2. WatchedIsLive' /\ ServedInv'
  BY <1>1 DEF ServeInv, WatchedIsLive, ServedInv
<1>3. nfd[t] = None
  BY <1>1 DEF ControlInv, PcOk
<1>4. HomeInv'
  <2>1. ASSUME NEW f \in open' PROVE (\E s \in Slots : mFd'[s] = f) \/ (\E u \in Threads : nfd'[u] = f)
    <3>1. CASE f = fd
      BY <1>1, <3>1
    <3>2. CASE f # fd
      <4>1. f \in open /\ f \in Fds
        BY <1>1, <3>2
      <4>2. CASE \E s \in Slots : mFd[s] = f
        BY <1>1, <4>2
      <4>3. ASSUME NEW u \in Threads, nfd[u] = f PROVE \E v \in Threads : nfd'[v] = f
        BY <1>1, <1>3, <4>1, <4>3
      <4> QED
        BY <4>1, <4>2, <4>3 DEF ServeInv, HomeInv
    <3> QED
      BY <3>1, <3>2
  <2> QED
    BY <2>1 DEF HomeInv
<1>5. EarlyInv'
  BY <1>1, EarlyKept DEF ServeInv, EarlyInv
<1> QED
  BY <1>2, <1>4, <1>5 DEF ServeInv

\* The slot of a new listener is free.
LEMMA ListenServe ==
  ASSUME TypeOK, DataInv, ControlInv, ServeInv, NEW t \in Workers, Listen(t)
  PROVE  ServeInv'
<1> DEFINE fd == nfd[t]
           s == sid[t]
<1> USE NoneApart DEF TypeOK
<1>1. t \in Threads /\ pc[t] = "listen" /\ At(t, "listen")
  BY DEF Threads, Listen, At
<1>2. s \in Slots /\ fd \in Fds /\ fd # None /\ nConns = 0 /\ s = fd
  BY <1>1 DEF ControlInv, PcOk, Apart, ServeInv, EarlyInv
<1>3. /\ fd \in open /\ reg[fd] = None /\ \A r \in Slots : mFd[r] # fd
  BY <1>1, <1>2 DEF DataInv, PlaceInv
<1>4. mFd[s] = 0
  BY <1>2, <1>3 DEF ServeInv, EarlyInv
<1>5. /\ nfd' = [nfd EXCEPT ![t] = None] /\ pc'[t] = "idle" /\ Alone(t) /\ nConns' = nConns
  BY <1>1, SocketAssumption DEF Listen, Return, Goto, ControlInv, Alone, Stays, bounds
<1> HIDE DEF fd, s
<1>6. nfd[t] = fd
  BY DEF fd
<1>7. \A f \in Fds : reg[f] # s
  BY <1>2, <1>4 DEF ServeInv, WatchedIsLive
<1>8. CASE /\ EvAdd(s, fd)
           /\ mFd' = [mFd EXCEPT ![s] = fd]
           /\ mState' = [mState EXCEPT ![s] = "listening"]
           /\ UNCHANGED <<open, queue, peer>>
  <2>1. HomeInv'
    <3>1. ASSUME NEW f \in open', f # fd
          PROVE  (\E r \in Slots : mFd'[r] = f) \/ (\E u \in Threads : nfd'[u] = f)
      <4>1. f \in open /\ f # 0
        BY <1>8, <3>1
      <4>2. ASSUME NEW r \in Slots, mFd[r] = f PROVE mFd'[r] = f
        BY <1>2, <1>4, <1>8, <4>1, <4>2
      <4>3. ASSUME NEW u \in Threads, nfd[u] = f PROVE nfd'[u] = f
        BY <1>1, <1>5, <1>6, <3>1, <4>3
      <4> QED
        BY <4>1, <4>2, <4>3 DEF ServeInv, HomeInv
    <3>2. mFd'[s] = fd
      BY <1>2, <1>8
    <3> QED
      BY <1>2, <3>1, <3>2 DEF HomeInv
  <2>2. WatchedIsLive'
    BY <1>2, <1>7, <1>8 DEF ServeInv, WatchedIsLive, EvAdd
  <2>3. ServedInv'
    BY <1>2, <1>3, <1>8 DEF ServeInv, ServedInv, EvAdd
  <2>4. EarlyInv'
    BY <1>1, <1>2, <1>5, <1>8, EarlyKept DEF ServeInv, EarlyInv
  <2> QED
    BY <2>1, <2>2, <2>3, <2>4 DEF ServeInv
<1>9. CASE SoReserve(s, fd)
  <2>1. /\ mFd' = [mFd EXCEPT ![s] = 0] /\ mState' = [mState EXCEPT ![s] = "free"]
        /\ open' = open \ {fd} /\ reg' = [reg EXCEPT ![fd] = None]
        /\ queue' = [queue EXCEPT ![fd] = 0]
    BY <1>2, <1>9 DEF SoReserve, CloseFd
  <2>2. HomeInv'
    BY <1>1, <1>2, <1>4, <1>5, <1>6, <2>1 DEF ServeInv, HomeInv
  <2>3. WatchedIsLive'
    BY <1>2, <1>7, <2>1 DEF ServeInv, WatchedIsLive
  <2>4. ServedInv'
    BY <1>2, <1>3, <2>1 DEF ServeInv, ServedInv
  <2>5. EarlyInv'
    BY <1>1, <1>2, <1>5, <2>1, EarlyKept DEF ServeInv, EarlyInv
  <2> QED
    BY <2>2, <2>3, <2>4, <2>5 DEF ServeInv
<1> QED
  BY <1>8, <1>9 DEF Listen, s, fd

\* accept gives a descriptor to a thread that then looks for a slot.
LEMMA AcceptedServe ==
  ASSUME TypeOK, ControlInv, DataInv, ServeInv, TableHasRoom, NEW t \in Workers, Accepted(t)
  PROVE  ServeInv'
<1> DEFINE fd == Lowest(Unused)
<1> USE NoneApart DEF TypeOK
<1>1. t \in Threads /\ pc[t] = "accept" /\ mState[sid[t]] = "listening"
  BY DEF Threads, Accepted, At
<1>2. sid[t] \in Slots /\ nfd[t] = None
  BY <1>1 DEF ControlInv, PcOk, Apart
<1>3. 1 \in 1 .. NSlots
  BY <1>2, SocketAssumption DEF Slots
<1>4. FreeFrom(1) # {}
  BY <1>3, ScanFinds
<1>5. fd \in Fds /\ fd \notin open
  BY NewFd DEF Accepted
<1>6. /\ nfd' = [nfd EXCEPT ![t] = fd] /\ open' = open \cup {fd} /\ nConns' = nConns
      /\ pc' = [pc EXCEPT ![t] = "occupy"]
      /\ UNCHANGED <<mState, mFd, sid, reg>>
  BY <1>4 DEF Accepted, OpenFd, Scan, Goto, table, epollVars, bounds
<1>7. Alone(t) /\ pc'[t] = "occupy"
  BY <1>1, <1>6 DEF Accepted, Scan, ControlInv, Alone, Stays
<1>8. nConns # 0
  <2>1. mFd[sid[t]] \in Fds /\ queue[mFd[sid[t]]] > 0
    BY <1>1, <1>2 DEF Accepted, DataInv, SlotInv
  <2> QED
    BY <2>1 DEF ServeInv, EarlyInv
<1> HIDE DEF fd
<1>9. WatchedIsLive' /\ ServedInv'
  BY <1>6 DEF ServeInv, WatchedIsLive, ServedInv
<1>10. HomeInv'
  <2>1. ASSUME NEW f \in open', f # fd
        PROVE  (\E r \in Slots : mFd'[r] = f) \/ (\E u \in Threads : nfd'[u] = f)
    <3>1. f \in open /\ f \in Fds
      BY <1>6, <2>1
    <3>2. ASSUME NEW u \in Threads, nfd[u] = f PROVE nfd'[u] = f
      BY <1>1, <1>2, <1>6, <3>1, <3>2
    <3> QED
      BY <1>6, <3>1, <3>2 DEF ServeInv, HomeInv
  <2>2. nfd'[t] = fd
    BY <1>1, <1>6
  <2> QED
    BY <1>1, <2>1, <2>2 DEF HomeInv
<1>11. EarlyInv'
  BY <1>1, <1>6, <1>7, <1>8, EarlyKept DEF ServeInv
<1> QED
  BY <1>9, <1>10, <1>11 DEF ServeInv

\* The slot is taken, or the scan goes on.
LEMMA OccupyServe ==
  ASSUME TypeOK, ControlInv, DataInv, ServeInv, TableHasRoom, NEW t \in Workers, Occupy(t)
  PROVE  ServeInv'
<1> DEFINE fd == nfd[t]
           i == nso[t]
<1> USE NoneApart DEF TypeOK
<1>1. t \in Threads /\ pc[t] = "occupy" /\ At(t, "occupy")
  BY DEF Threads, Occupy, At
<1>2. i \in Slots /\ fd \in Fds /\ fd # None /\ nConns # 0
  BY <1>1 DEF ControlInv, PcOk, ServeInv, EarlyInv
<1>3. fd \in open /\ reg[fd] = None /\ \A r \in Slots : mFd[r] # fd
  BY <1>1, <1>2 DEF DataInv, PlaceInv
<1>4. UNCHANGED <<mState, sid, open, reg, nConns, queue>>
  BY DEF Occupy, epollVars, bounds
<1> HIDE DEF fd, i
<1>5. nfd[t] = fd /\ nso[t] = i
  BY DEF fd, i
<1>6. CASE /\ mFd[i] = 0
           /\ mFd' = [mFd EXCEPT ![i] = fd]
           /\ nfd' = [nfd EXCEPT ![t] = None]
           /\ Goto(t, "establish", RWE(i))
           /\ nso' = nso
  <2>1. pc'[t] = "establish" /\ Alone(t)
    BY <1>1, <1>4, <1>6 DEF Goto, ControlInv, Alone, Stays
  <2>2. HomeInv'
    <3>1. ASSUME NEW f \in open', f # fd
          PROVE  (\E r \in Slots : mFd'[r] = f) \/ (\E u \in Threads : nfd'[u] = f)
      <4>1. f \in open /\ f # 0
        BY <1>4, <3>1
      <4>2. ASSUME NEW r \in Slots, mFd[r] = f PROVE mFd'[r] = f
        BY <1>2, <1>6, <4>1, <4>2
      <4>3. ASSUME NEW u \in Threads, nfd[u] = f PROVE nfd'[u] = f
        BY <1>1, <1>5, <1>6, <3>1, <4>3
      <4> QED
        BY <4>1, <4>2, <4>3 DEF ServeInv, HomeInv
    <3>2. mFd'[i] = fd
      BY <1>2, <1>6
    <3> QED
      BY <1>2, <3>1, <3>2 DEF HomeInv
  <2>3. WatchedIsLive'
    BY <1>2, <1>4, <1>6 DEF ServeInv, WatchedIsLive
  <2>4. ServedInv'
    <3>1. \A r \in Slots : mState[r] \in {"listening", "rw"} => mFd'[r] = mFd[r]
      BY <1>2, <1>6 DEF DataInv, SlotInv
    <3> QED
      BY <1>4, <3>1 DEF ServeInv, ServedInv
  <2>5. EarlyInv'
    BY <1>1, <1>2, <1>4, <1>6, <2>1, EarlyKept DEF ServeInv
  <2> QED
    BY <2>2, <2>3, <2>4, <2>5 DEF ServeInv
<1>7. CASE mFd[i] # 0 /\ Scan(t, i + 1, [Locked(t) EXCEPT ![<<"S", i>>] = None])
           /\ UNCHANGED <<mFd, nfd>>
  <2>1. i + 1 \in 1 .. NSlots
    BY <1>2, <1>7, SocketAssumption DEF TableHasRoom, Slots
  <2>2. FreeFrom(i + 1) # {}
    BY <2>1, ScanFinds
  <2>3. pc' = [pc EXCEPT ![t] = "occupy"] /\ Alone(t)
    BY <1>4, <1>7, <2>2 DEF Scan, Goto, ControlInv, Alone, Stays
  <2>4. HomeInv' /\ WatchedIsLive' /\ ServedInv'
    BY <1>4, <1>7 DEF ServeInv, HomeInv, WatchedIsLive, ServedInv
  <2>5. EarlyInv'
    BY <1>1, <1>2, <1>4, <1>7, <2>3, EarlyKept DEF ServeInv, ControlInv
  <2> QED
    BY <2>4, <2>5 DEF ServeInv
<1> QED
  BY <1>6, <1>7 DEF Occupy, fd, i

\* The new slot is established.
LEMMA EstablishServe ==
  ASSUME TypeOK, ControlInv, DataInv, ServeInv, NEW t \in Workers, Establish(t)
  PROVE  ServeInv'
<1> DEFINE s == nso[t]
<1> USE NoneApart DEF TypeOK
<1>1. t \in Threads /\ pc[t] = "establish" /\ nConns # 0
  BY DEF Threads, Establish, At, ServeInv, EarlyInv
<1>2. s \in Slots /\ mFd[s] # 0 /\ nfd[t] = None /\ reg[mFd[s]] = None
  BY <1>1 DEF ControlInv, PcOk, DataInv, Relies
<1>3. /\ mState' = [mState EXCEPT ![s] = "established"] /\ nfd' = [nfd EXCEPT ![t] = None]
      /\ UNCHANGED <<mFd, open, reg, nConns>>
  BY DEF Establish, epollVars, bounds
<1>4. pc'[t] = "accept" /\ Alone(t)
  BY <1>1 DEF Establish, Goto, ControlInv, Alone, Stays
<1> HIDE DEF s
<1>5. nfd' = nfd
  BY <1>1, <1>2, <1>3
<1>6. HomeInv'
  BY <1>3, <1>5 DEF ServeInv, HomeInv
<1>7. WatchedIsLive'
  BY <1>2, <1>3 DEF ServeInv, WatchedIsLive
<1>8. ServedInv'
  BY <1>2, <1>3 DEF ServeInv, ServedInv
<1>9. EarlyInv'
  BY <1>1, <1>3, <1>4, <1>5, EarlyKept DEF ServeInv
<1> QED
  BY <1>6, <1>7, <1>8, <1>9 DEF ServeInv

\* so_add begins to watch the connection.
LEMMA AddServe ==
  ASSUME TypeOK, ControlInv, DataInv, ServeInv, NEW t \in Workers, Add(t)
  PROVE  ServeInv'
<1> DEFINE s == sid[t]
<1> USE NoneApart DEF TypeOK
<1>1. t \in Threads /\ pc[t] = "add"
  BY DEF Threads, Add, At
<1>2. s \in Slots
  BY <1>1 DEF ControlInv, PcOk, Apart
<1>3. UNCHANGED <<mFd, nfd, open, queue, nConns>> /\ pc'[t] = "idle" /\ Alone(t)
  BY <1>1, SocketAssumption DEF Add, Return, Goto, ControlInv, Alone, Stays, bounds
<1> HIDE DEF s
<1>4. CASE /\ mState[s] = "established"
           /\ EvAdd(s, mFd[s])
           /\ mState' = [mState EXCEPT ![s] = "rw"]
  <2> DEFINE fd == mFd[s]
  <2>1. fd \in open /\ fd \in Fds /\ fd # 0
    BY <1>2, <1>4 DEF DataInv, SlotInv, PlaceInv
  <2>2. reg' = [reg EXCEPT ![fd] = s]
    BY <1>4 DEF EvAdd
  <2>3. HomeInv'
    BY <1>3 DEF ServeInv, HomeInv
  <2>4. WatchedIsLive'
    BY <1>2, <1>3, <1>4, <2>1, <2>2 DEF ServeInv, WatchedIsLive
  <2>5. ServedInv'
    <3>1. ASSUME NEW r \in Slots, r # s, mState[r] \in {"listening", "rw"} PROVE reg'[mFd[r]] = r
      <4>1. reg[mFd[r]] = r /\ mFd[r] # mFd[s]
        BY <1>2, <2>1, <3>1 DEF ServeInv, ServedInv, DataInv, PlaceInv
      <4> QED
        BY <2>2, <4>1
    <3> QED
      BY <1>2, <1>3, <1>4, <2>1, <2>2, <3>1 DEF ServedInv
  <2>6. EarlyInv'
    <3>1. nConns # 0
      BY <1>2, <1>4 DEF ServeInv, EarlyInv
    <3> QED
      BY <1>1, <1>3, <3>1, EarlyKept DEF ServeInv
  <2> QED
    BY <2>3, <2>4, <2>5, <2>6 DEF ServeInv
<1>5. CASE mState' = [mState EXCEPT ![s] = "errored"] /\ UNCHANGED epollVars
  BY <1>1, <1>2, <1>3, <1>5, ErrorServe DEF Early, epollVars
<1>6. CASE UNCHANGED <<mState, epollVars>>
  BY <1>1, <1>3, <1>6, QuietServe DEF Early, epollVars
<1> QED
  BY <1>4, <1>5, <1>6 DEF Add, s

\* so_close frees the slot and closes its descriptor.
LEMMA CloseServe ==
  ASSUME TypeOK, ControlInv, DataInv, ServeInv, NEW t \in Workers, Close(t)
  PROVE  ServeInv'
<1> DEFINE s == sid[t]
           fd == mFd[s]
<1> USE NoneApart DEF TypeOK
<1>1. t \in Threads /\ pc[t] = "close"
  BY DEF Threads, Close, At
<1>2. s \in Slots /\ fd \in Fds \cup {0}
  BY <1>1 DEF ControlInv, PcOk, Apart
<1>3. UNCHANGED <<nfd, nConns>> /\ pc'[t] = "idle" /\ Alone(t)
  BY <1>1, SocketAssumption DEF Close, Return, Goto, ControlInv, Alone, Stays, bounds
<1> HIDE DEF fd, s
<1>4. mFd[s] = fd
  BY DEF fd
<1>5. CASE UNCHANGED <<table, open, queue, peer, epollVars>>
  BY <1>1, <1>3, <1>5, QuietServe DEF epollVars, table, Early
<1>6. CASE SoReserve(s, fd)
  <2>1. /\ mFd' = [mFd EXCEPT ![s] = 0] /\ mState' = [mState EXCEPT ![s] = "free"]
        /\ \/ /\ fd # 0 /\ open' = open \ {fd} /\ reg' = [reg EXCEPT ![fd] = None]
              /\ queue' = [queue EXCEPT ![fd] = 0]
           \/ fd = 0 /\ UNCHANGED <<open, reg, queue>>
    BY <1>6 DEF SoReserve, CloseFd, epollVars
  <2>2. HomeInv'
    <3>1. ASSUME NEW f \in open'
          PROVE  (\E r \in Slots : mFd'[r] = f) \/ (\E u \in Threads : nfd'[u] = f)
      <4>1. f \in open /\ f # 0 /\ f # fd
        BY <2>1, <3>1
      <4>2. ASSUME NEW r \in Slots, mFd[r] = f PROVE mFd'[r] = f
        BY <1>2, <1>4, <2>1, <4>1, <4>2
      <4> QED
        BY <1>3, <4>1, <4>2 DEF ServeInv, HomeInv
    <3> QED
      BY <3>1 DEF HomeInv
  <2>3. WatchedIsLive'
    BY <1>2, <1>4, <2>1 DEF ServeInv, WatchedIsLive
  <2>4. ServedInv'
    <3>1. ASSUME NEW r \in Slots, r # s, mState[r] \in {"listening", "rw"} PROVE reg'[mFd[r]] = r
      <4>1. reg[mFd[r]] = r /\ mFd[r] # 0 /\ mFd[r] # fd
        BY <1>2, <1>4, <3>1 DEF ServeInv, ServedInv, DataInv, SlotInv, PlaceInv
      <4> QED
        BY <2>1, <4>1
    <3> QED
      BY <1>2, <2>1, <3>1 DEF ServedInv
  <2>5. EarlyInv'
    <3>1. nConns = 0 =>
           /\ \A r \in Slots : mState'[r] \notin {"established", "rw"} /\ mFd'[r] \in {0, r}
           /\ \A f \in Fds : queue'[f] = 0
      BY <1>2, <2>1 DEF ServeInv, EarlyInv
    <3> QED
      BY <1>1, <1>3, <3>1, EarlyKept DEF ServeInv
  <2> QED
    BY <2>2, <2>3, <2>4, <2>5 DEF ServeInv
<1> QED
  BY <1>5, <1>6 DEF Close, s, fd

\* The functions that look at the table and go on or return.
LEMMA LookServe ==
  ASSUME TypeOK, ControlInv, ServeInv, NEW t \in Workers,
         AcceptNone(t) \/ AcceptFails(t) \/ ReadCheck(t) \/ ReadStops(t)
  PROVE  ServeInv'
<1>1. t \in Threads /\ UNCHANGED <<mState, mFd, nfd, open, reg, queue, nConns>>
  BY DEF AcceptNone, AcceptFails, ReadCheck, ReadStops, table, epollVars, bounds, Threads
<1>2. Alone(t)
  BY <1>1 DEF AcceptNone, AcceptFails, ReadCheck, ReadStops, Return, Goto, ControlInv, Alone, Stays,
     TypeOK
<1>3. pc'[t] \in {"idle", "accept_error", "reading", "read_fail"}
  BY <1>1, SocketAssumption DEF AcceptNone, AcceptFails, ReadCheck, ReadStops, Return, Goto, ControlInv
<1> QED
  BY <1>1, <1>2, <1>3, QuietServe DEF Early

\* An error path ends.
LEMMA FailServe ==
  ASSUME TypeOK, ControlInv, DataInv, ServeInv, NEW t \in Threads, FailSocket(t), sid[t] \in Slots
  PROVE  ServeInv'
<1>1. UNCHANGED <<mFd, nfd, open, queue, nConns>> /\ Early(t) /\ Alone(t)
  BY DEF FailSocket, Return, Goto, ControlInv, Early, Alone, Stays, TypeOK, bounds
<1>2. CASE EvDel(sid[t]) /\ mState' = [mState EXCEPT ![sid[t]] = "errored"]
  BY <1>1, <1>2, ErrorServe
<1>3. CASE UNCHANGED <<mState, epollVars>>
  BY <1>1, <1>3, QuietServe DEF epollVars
<1> QED
  BY <1>2, <1>3 DEF FailSocket

\* The steps of the socket thread.
LEMMA SocketServe ==
  ASSUME TypeOK, ControlInv, DataInv, ServeInv, SocketStep
  PROVE  ServeInv'
<1>0. Socket \in Threads
  BY DEF Threads
<1>1. ASSUME EpollWait \/ NextEvent \/ EventsDone \/ FlushDone \/ \E s \in Slots : CallFlush(s)
      PROVE  ServeInv'
  <2>1. /\ UNCHANGED <<mState, mFd, nfd, open, reg, queue, nConns>>
        /\ pc'[Socket] \in {"events", "dispatch", "flush", "wait", "flushing"}
        /\ Alone(Socket)
    BY <1>0, <1>1 DEF EpollWait, NextEvent, EventsDone, FlushDone, CallFlush, Enter, Goto, table,
       epollVars, bounds, ControlInv, Alone, Stays, TypeOK
  <2> QED
    BY <1>0, <2>1, QuietServe DEF Early
<1>2. CASE Dispatch
  <2>1. UNCHANGED <<mFd, nfd, open, queue, nConns>> /\ pc'[Socket] = "events" /\ Alone(Socket)
    BY <1>0, <1>2 DEF Dispatch, Goto, ControlInv, Alone, Stays, bounds
  <2>2. evt.so \in Slots
    BY <1>0, <1>2, NoneApart DEF Dispatch, At, ControlInv, PcOk, TypeOK
  <2>3. CASE (EvDel(evt.so) \/ UNCHANGED epollVars) /\ mState' = [mState EXCEPT ![evt.so] = "errored"]
    BY <1>0, <2>1, <2>2, <2>3, ErrorServe DEF Early, epollVars
  <2>4. CASE UNCHANGED <<mState, epollVars>>
    BY <1>0, <2>1, <2>4, QuietServe DEF Early, epollVars
  <2> QED
    BY <1>2, <2>3, <2>4 DEF Dispatch
<1>3. CASE Flush
  <2>1. /\ UNCHANGED <<mState, mFd, nfd, open, reg, queue, nConns>>
        /\ pc'[Socket] \in {"flush", "flush_error"}
        /\ Alone(Socket)
    BY <1>0, <1>3 DEF Flush, Return, Goto, table, epollVars, bounds, ControlInv, Alone, Stays, TypeOK
  <2> QED
    BY <1>0, <2>1, QuietServe DEF Early
<1>4. CASE FlushError
  <2>1. /\ UNCHANGED <<mFd, nfd, open, reg, queue, nConns>> /\ Alone(Socket) /\ pc'[Socket] = "flush"
        /\ mState' = [mState EXCEPT ![sid[Socket]] = "errored"]
    BY <1>0, <1>4 DEF FlushError, Return, Goto, epollVars, bounds, ControlInv, Alone, Stays, TypeOK
  <2>2. sid[Socket] \in Slots
    BY <1>0, <1>4 DEF FlushError, At, ControlInv, PcOk, Apart
  <2> QED
    BY <1>0, <2>1, <2>2, ErrorServe DEF Early
<1> QED
  BY <1>1, <1>2, <1>3, <1>4 DEF SocketStep

\* What clients do.
LEMMA ClientServe ==
  ASSUME TypeOK, ControlInv, DataInv, ServeInv, ~LateListen, Client
  PROVE  ServeInv'
<1>1. /\ UNCHANGED <<mState, mFd, nfd, open, reg, pc, sid, nso>>
  BY DEF Client, ClientConnects, ClientSends, ClientLeaves, table, threadVars
<1>2. HomeInv' /\ WatchedIsLive' /\ ServedInv'
  BY <1>1 DEF ServeInv, HomeInv, WatchedIsLive, ServedInv
<1>3. EarlyInv'
  <2>1. PICK fd \in Fds : \/ ClientConnects(fd) \/ ClientSends(fd)
                          \/ \E how \in {"fin", "rst"} : ClientLeaves(fd, how)
    BY DEF Client
  <2>2. CASE ClientConnects(fd)
    <3>1. nConns' # 0
      BY <2>2 DEF ClientConnects, TypeOK
    <3>2. \A t \in Threads : pc[t] # "listen"
      BY <2>2 DEF ClientConnects, ControlInv, PcOk, SocketPcs, Threads
    <3> QED
      BY <1>1, <3>1, <3>2 DEF EarlyInv
  <2>3. CASE ClientSends(fd)
    <3>1. nConns # 0 /\ nConns' = nConns
      BY <2>3 DEF ClientSends, Connected, ServeInv, EarlyInv
    <3> QED
      BY <1>1, <3>1 DEF ServeInv, EarlyInv
  <2>4. ASSUME NEW how, ClientLeaves(fd, how) PROVE EarlyInv'
    <3>1. queue' = queue /\ nConns' = nConns
      BY <2>4 DEF ClientLeaves
    <3> QED
      BY <1>1, <3>1 DEF ServeInv, EarlyInv
  <2> QED
    BY <2>1, <2>2, <2>3, <2>4
<1> QED
  BY <1>2, <1>3 DEF ServeInv

\* Every step of a server that listens before its first connection keeps its
\* descriptors in their places.
LEMMA ServeStep ==
  ASSUME TypeOK, ControlInv, DataInv, ServeInv, TableHasRoom, ~LateListen, [Next]_vars
  PROVE  ServeInv'
<1>0. Workers \subseteq Threads /\ Socket \in Threads /\ Socket \notin Workers
  BY SocketAssumption DEF Threads
<1>1. ASSUME NEW t \in Threads, Acquire(t) PROVE ServeInv'
  <2>1. /\ UNCHANGED <<mState, mFd, nfd, open, reg, queue, nConns>> /\ Alone(t) /\ Stays(t)
    BY <1>1 DEF Acquire, table, epollVars, bounds, Alone, Stays
  <2> QED
    BY <2>1, QuietServe
<1>2. ASSUME NEW t \in Workers, CallListen(t) PROVE ServeInv'
  BY <1>2, CallListenServe
<1>3. ASSUME NEW t \in Workers, Listen(t) PROVE ServeInv'
  BY <1>3, ListenServe
<1>4. ASSUME NEW t \in Workers, NEW s \in Slots,
             CallAccept(t, s) \/ CallRead(t, s) \/ CallAdd(t, s) \/ CallClose(t, s)
      PROVE  ServeInv'
  <2>1. /\ UNCHANGED <<mState, mFd, nfd, open, reg, queue, nConns>> /\ Alone(t)
        /\ pc'[t] \in {"accept", "read_check", "add", "close"}
    BY <1>0, <1>4 DEF CallAccept, CallRead, CallAdd, CallClose, Call, Enter, Goto, table, epollVars,
       bounds, ControlInv, Alone, Stays, TypeOK
  <2> QED
    BY <1>0, <2>1, QuietServe DEF Early
<1>5. ASSUME NEW t \in Workers, AcceptNone(t) \/ AcceptFails(t) \/ ReadCheck(t) \/ ReadStops(t)
      PROVE  ServeInv'
  BY <1>5, LookServe
<1>6. ASSUME NEW t \in Workers, AcceptError(t) \/ ReadFail(t) PROVE ServeInv'
  <2>1. FailSocket(t) /\ sid[t] \in Slots
    BY <1>0, <1>6 DEF AcceptError, ReadFail, At, ControlInv, PcOk, Apart
  <2> QED
    BY <1>0, <2>1, FailServe
<1>7. ASSUME NEW t \in Workers, Accepted(t) PROVE ServeInv'
  BY <1>7, AcceptedServe
<1>8. ASSUME NEW t \in Workers, Occupy(t) PROVE ServeInv'
  BY <1>8, OccupyServe
<1>9. ASSUME NEW t \in Workers, Establish(t) PROVE ServeInv'
  BY <1>9, EstablishServe
<1>10. ASSUME NEW t \in Workers, Add(t) PROVE ServeInv'
  BY <1>10, AddServe
<1>11. ASSUME NEW t \in Workers, Close(t) PROVE ServeInv'
  BY <1>11, CloseServe
<1>12. ASSUME NEW t \in Workers, ReadData(t) PROVE ServeInv'
  <2>1. /\ UNCHANGED <<mState, mFd, nfd, open, reg, nConns>> /\ Alone(t) /\ Stays(t)
    BY <1>12 DEF ReadData, table, threadVars, epollVars, bounds, Alone, Stays
  <2>2. pc[t] = "reading" /\ sid[t] \in Slots /\ mFd[sid[t]] # 0
    BY <1>0, <1>12 DEF ReadData, At, ControlInv, PcOk, Apart, DataInv, Relies
  <2>3. mFd[sid[t]] \in Fds /\ queue[mFd[sid[t]]] > 0
    BY <1>12, <2>2 DEF ReadData, TypeOK
  <2>4. nConns # 0
    BY <2>3 DEF ServeInv, EarlyInv
  <2> QED
    BY <1>0, <2>1, <2>4, QuietServe
<1>13. CASE SocketStep
  BY <1>13, SocketServe
<1>14. CASE Client
  BY <1>14, ClientServe
<1>15. CASE UNCHANGED vars
  <2>1. /\ UNCHANGED <<mState, mFd, nfd, open, reg, queue, nConns>>
        /\ Alone(Socket) /\ Stays(Socket)
    BY <1>15 DEF vars, table, threadVars, epollVars, bounds, Alone, Stays
  <2> QED
    BY <1>0, <2>1, QuietServe
<1> QED
  BY <1>1, <1>2, <1>3, <1>4, <1>5, <1>6, <1>7, <1>8, <1>9, <1>10, <1>11, <1>12, <1>13, <1>14, <1>15
     DEF Next, WorkerStep

\* In the beginning there is nothing.
LEMMA ServeInit == Init => ServeInv
<1> SUFFICES ASSUME Init PROVE ServeInv
  OBVIOUS
<1>1. EarlyInv
  BY DEF Init, EarlyInv
<1>2. HomeInv /\ WatchedIsLive /\ ServedInv
  BY DEF Init, HomeInv, WatchedIsLive, ServedInv
<1> QED
  BY <1>1, <1>2 DEF ServeInv

\* The invariants of the table and of its service hold together.
LEMMA Served ==
  ASSUME ~LateListen
  PROVE  Spec /\ []TableHasRoom => [](TableInv /\ ServeInv)
<1>1. Init => TableInv /\ ServeInv
  BY TableInit, ServeInit
<1>2. TableInv /\ ServeInv /\ TableHasRoom /\ [Next]_vars => (TableInv /\ ServeInv)'
  BY TableStep, ServeStep DEF TableInv
<1> QED
  BY <1>1, <1>2, PTL DEF Spec

\* A descriptor that is in one place at most and in one at least is in one.
LEMMA HomesAreOne == TableInv /\ ServeInv => EveryFdHasAHome
<1> SUFFICES ASSUME TableInv, ServeInv PROVE EveryFdHasAHome
  OBVIOUS
<1> USE NoneApart
<1>1. TypeOK /\ PlaceInv /\ HomeInv
  BY DEF TableInv, DataInv, ServeInv
<1>2. ASSUME NEW fd \in open
      PROVE  Cardinality({s \in Slots : mFd[s] = fd} \cup {t \in Threads : nfd[t] = fd}) = 1
  <2> DEFINE homes == {s \in Slots : mFd[s] = fd} \cup {t \in Threads : nfd[t] = fd}
  <2>1. fd # 0 /\ fd # None
    BY <1>1 DEF TypeOK
  <2>2. CASE \E s \in Slots : mFd[s] = fd
    <3>1. PICK s \in Slots : mFd[s] = fd
      BY <2>2
    <3>2. \A r \in Slots : mFd[r] = fd => r = s
      BY <1>1, <2>1, <3>1 DEF PlaceInv
    <3>3. \A t \in Threads : nfd[t] # fd
      BY <1>1, <2>1, <3>1 DEF PlaceInv
    <3>4. homes = {s}
      BY <3>1, <3>2, <3>3
    <3> QED
      BY <3>4, FS_Singleton
  <2>3. CASE \E t \in Threads : nfd[t] = fd
    <3>1. PICK t \in Threads : nfd[t] = fd
      BY <2>3
    <3>2. \A u \in Threads : nfd[u] = fd => u = t
      BY <1>1, <2>1, <3>1 DEF PlaceInv
    <3>3. \A r \in Slots : mFd[r] # fd
      BY <1>1, <2>1, <3>1 DEF PlaceInv
    <3>4. homes = {t}
      BY <3>1, <3>2, <3>3
    <3> QED
      BY <3>4, FS_Singleton
  <2> QED
    BY <1>1, <2>2, <2>3 DEF HomeInv
<1> QED
  BY <1>1, <1>2 DEF EveryFdHasAHome, PlaceInv

\* Of a server that listens before its first connection, and whose table has room,
\* every open descriptor is in one slot or in the hands of one thread, and no slot
\* has a closed one.
THEOREM DescriptorsHaveHomes ==
  ASSUME ~LateListen
  PROVE  Spec /\ []TableHasRoom => []EveryFdHasAHome
BY Served, HomesAreOne, PTL

\* Of such a server epoll watches live sockets only: the slot it reports has the
\* descriptor, and gs_update can handle its state.
THEOREM WatchedSocketsAreLive ==
  ASSUME ~LateListen
  PROVE  Spec /\ []TableHasRoom => []WatchedIsLive
<1>1. TableInv /\ ServeInv => WatchedIsLive
  BY DEF ServeInv
<1> QED
  BY <1>1, Served, PTL

-----------------------------------------------------------------------------
(* Nothing goes unnoticed.                                                 *)

\* There is a descriptor for every connection.
DescriptorsLeft == Unused # {}

Accepting == {"accept", "accept_error", "occupy", "establish"}
Reading == {"read_check", "reading", "read_fail"}

\* The socket thread has an event in its hands only while it looks at it, and events
\* before it only until it has looked at all.
HasEvents ==
  /\ evt # None => pc[Socket] = "dispatch"
  /\ batch # {} => pc[Socket] \in {"events", "dispatch"}

NoticeInv == NothingUnnoticed /\ HasEvents

\* What a step of t has to show for a slot that is served after it: the descriptor is
\* reported anew, or there is no more to notice than before and t is still at it.
StillNoticed(t, s) ==
  \/ Ready(mFd[s])' => mFd'[s] \in edge'
  \/ /\ mState'[s] = mState[s] /\ mFd'[s] = mFd[s]
     /\ mFd[s] \in edge => mFd[s] \in edge'
     /\ queue'[mFd[s]] > 0 => queue[mFd[s]] > 0
     /\ Ready(mFd[s])' => Ready(mFd[s])
     /\ sid[t] = s /\ mState[s] = "listening" /\ pc[t] \in Accepting =>
          ~(queue'[mFd[s]] > 0) \/ (sid'[t] = s /\ pc'[t] \in Accepting)
     /\ sid[t] = s /\ mState[s] = "rw" /\ pc[t] \in Reading =>
          ~Ready(mFd[s])' \/ (sid'[t] = s /\ pc'[t] \in Reading)

\* The steps of workers that take no message.
LEMMA NoticeKept ==
  ASSUME NoticeInv, NEW t \in Workers, Alone(t), UNCHANGED <<batch, evt, posted>>,
         \A s \in Slots : mState'[s] \in {"listening", "rw"} => StillNoticed(t, s)
  PROVE  NoticeInv'
<1>0. t \in Threads /\ Workers \subseteq Threads /\ Socket \in Threads /\ t # Socket
  BY SocketAssumption DEF Threads
<1>1. HasEvents'
  BY <1>0 DEF NoticeInv, HasEvents, Alone, Stays
<1>2. ASSUME NEW s \in Slots, mState'[s] = "listening", queue'[mFd'[s]] > 0
      PROVE  Notified(s, "acceptable", Accepting)'
  <2>1. StillNoticed(t, s) /\ Ready(mFd[s])'
    BY <1>2 DEF Ready
  <2>2. CASE mFd'[s] \in edge'
    BY <2>2 DEF Notified
  <2>3. CASE mFd'[s] \notin edge'
    <3>1. /\ mState[s] = "listening" /\ mFd'[s] = mFd[s] /\ queue[mFd[s]] > 0 /\ mFd[s] \notin edge
          /\ sid[t] = s /\ pc[t] \in Accepting => sid'[t] = s /\ pc'[t] \in Accepting
      BY <1>2, <2>1, <2>3 DEF StillNoticed
    <3>2. Notified(s, "acceptable", Accepting)
      BY <3>1 DEF NoticeInv, NothingUnnoticed, Accepting
    <3>3. ASSUME NEW u \in Workers, sid[u] = s, pc[u] \in Accepting
          PROVE  sid'[u] = s /\ pc'[u] \in Accepting
      BY <1>0, <3>1, <3>3 DEF Alone, Stays
    <3> QED
      BY <3>1, <3>2, <3>3 DEF Notified
  <2> QED
    BY <2>2, <2>3
<1>3. ASSUME NEW s \in Slots, mState'[s] = "rw", Ready(mFd[s])'
      PROVE  Notified(s, "readable", Reading)'
  <2>1. StillNoticed(t, s)
    BY <1>3
  <2>2. CASE mFd'[s] \in edge'
    BY <2>2 DEF Notified
  <2>3. CASE mFd'[s] \notin edge'
    <3>1. /\ mState[s] = "rw" /\ mFd'[s] = mFd[s] /\ Ready(mFd[s]) /\ mFd[s] \notin edge
          /\ sid[t] = s /\ pc[t] \in Reading => sid'[t] = s /\ pc'[t] \in Reading
      BY <1>3, <2>1, <2>3 DEF StillNoticed
    <3>2. Notified(s, "readable", Reading)
      BY <3>1 DEF NoticeInv, NothingUnnoticed, Reading
    <3>3. ASSUME NEW u \in Workers, sid[u] = s, pc[u] \in Reading
          PROVE  sid'[u] = s /\ pc'[u] \in Reading
      BY <1>0, <3>1, <3>3 DEF Alone, Stays
    <3> QED
      BY <3>1, <3>2, <3>3 DEF Notified
  <2> QED
    BY <2>2, <2>3
<1> QED
  BY <1>1, <1>2, <1>3 DEF NoticeInv, NothingUnnoticed, Accepting, Reading

\* A served slot has an open descriptor of its own, which epoll knows.
LEMMA ServedSlot ==
  ASSUME TypeOK, DataInv, ServeInv, NEW s \in Slots, mState[s] \in {"listening", "rw"}
  PROVE  /\ mFd[s] \in open /\ mFd[s] \in Fds /\ mFd[s] # 0 /\ reg[mFd[s]] = s
         /\ \A r \in Slots : mFd[r] = mFd[s] => r = s
         /\ \A t \in Threads : nfd[t] # mFd[s]
<1>1. mFd[s] # 0 /\ mFd[s] \in Fds /\ mFd[s] # None
  BY NoneApart DEF DataInv, SlotInv, TypeOK
<1> QED
  BY <1>1 DEF DataInv, PlaceInv, ServeInv, ServedInv

\* so_listen.
LEMMA ListenNotice ==
  ASSUME TypeOK, ControlInv, DataInv, ServeInv, NoticeInv, NEW t \in Workers,
         CallListen(t) \/ Listen(t)
  PROVE  NoticeInv'
<1>1. t \in Threads /\ pc[t] \in {"idle", "listen"}
  BY DEF Threads, CallListen, Listen, At
<1>2. CASE CallListen(t)
  <2> DEFINE fd == Lowest(Unused)
  <2>1. fd \notin open
    BY <1>2, NewFd DEF CallListen
  <2>2. /\ UNCHANGED <<mState, mFd, batch, evt, posted, queue, edge>> /\ Alone(t)
        /\ peer' = [peer EXCEPT ![fd] = "up"]
    BY <1>1, <1>2 DEF CallListen, OpenFd, Goto, table, eventVars, epollVars, ControlInv, Alone, Stays,
       TypeOK
  <2> HIDE DEF fd
  <2>3. ASSUME NEW s \in Slots, mState'[s] \in {"listening", "rw"} PROVE StillNoticed(t, s)
    <3>1. mFd[s] \in open
      BY <2>2, <2>3, ServedSlot
    <3>2. peer'[mFd[s]] = peer[mFd[s]]
      BY <2>1, <2>2, <3>1 DEF TypeOK
    <3> QED
      BY <1>1, <2>2, <3>2 DEF StillNoticed, Ready, Accepting, Reading
  <2> QED
    BY <2>2, <2>3, NoticeKept
<1>3. CASE Listen(t)
  <2> DEFINE fd == nfd[t]
             s == sid[t]
  <2>1. s \in Slots /\ fd \in Fds /\ fd # None
    BY <1>1, <1>3 DEF Listen, At, ControlInv, PcOk, Apart, TypeOK
  <2>2. UNCHANGED <<batch, evt, posted>> /\ Alone(t)
    BY <1>1, <1>3 DEF Listen, Return, Goto, eventVars, ControlInv, Alone, Stays, TypeOK
  <2>3. \A r \in Slots : mState[r] \in {"listening", "rw"} => mFd[r] # fd
    BY <1>1, ServedSlot
  <2> HIDE DEF fd, s
  <2>4. CASE /\ EvAdd(s, fd)
             /\ mFd' = [mFd EXCEPT ![s] = fd]
             /\ mState' = [mState EXCEPT ![s] = "listening"]
             /\ UNCHANGED <<open, queue, peer>>
    <3>1. ASSUME NEW r \in Slots, mState'[r] \in {"listening", "rw"} PROVE StillNoticed(t, r)
      <4>1. CASE r = s
        BY <2>1, <2>4, <4>1 DEF StillNoticed, EvAdd, Ready, TypeOK
      <4>2. CASE r # s
        BY <1>1, <2>1, <2>4, <4>2 DEF StillNoticed, EvAdd, Ready, Accepting, Reading, TypeOK
      <4> QED
        BY <4>1, <4>2
    <3> QED
      BY <2>2, <3>1, NoticeKept
  <2>5. CASE SoReserve(s, fd)
    <3>1. /\ mFd' = [mFd EXCEPT ![s] = 0] /\ mState' = [mState EXCEPT ![s] = "free"]
          /\ edge' = edge \ {fd}
          /\ queue' = [queue EXCEPT ![fd] = 0] /\ peer' = [peer EXCEPT ![fd] = "up"]
      BY <2>1, <2>5, NoneApart DEF SoReserve, CloseFd
    <3>2. ASSUME NEW r \in Slots, mState'[r] \in {"listening", "rw"} PROVE StillNoticed(t, r)
      <4>1. r # s /\ mState'[r] = mState[r] /\ mFd[r] # fd /\ mFd'[r] = mFd[r]
        BY <2>1, <2>3, <3>1, <3>2 DEF TypeOK
      <4>2. queue'[mFd[r]] = queue[mFd[r]] /\ peer'[mFd[r]] = peer[mFd[r]]
        BY <3>1, <4>1 DEF TypeOK
      <4> QED
        BY <1>1, <3>1, <4>1, <4>2 DEF StillNoticed, Ready, Accepting, Reading
    <3> QED
      BY <2>2, <3>2, NoticeKept
  <2> QED
    BY <1>3, <2>4, <2>5 DEF Listen, s, fd
<1> QED
  BY <1>2, <1>3

\* An error path: the socket is not served any more.
LEMMA FailNotice ==
  ASSUME TypeOK, ControlInv, DataInv, ServeInv, NoticeInv, NEW t \in Workers,
         FailSocket(t), sid[t] \in Slots
  PROVE  NoticeInv'
<1> DEFINE s == sid[t]
<1>1. /\ t \in Threads /\ UNCHANGED <<mFd, batch, evt, posted, queue, peer>> /\ Alone(t)
  BY DEF Threads, FailSocket, Return, Goto, eventVars, ControlInv, Alone, Stays, TypeOK
<1>2. /\ mState'[s] = "errored" /\ edge \ {mFd[s]} \subseteq edge'
      /\ \A r \in Slots : r # s => mState'[r] = mState[r]
  BY DEF FailSocket, EvDel, epollVars, TypeOK
<1>3. ASSUME NEW r \in Slots, mState'[r] \in {"listening", "rw"} PROVE StillNoticed(t, r)
  <2>1. r # s /\ mState'[r] = mState[r]
    BY <1>2, <1>3
  <2>2. mFd[r] # mFd[s]
    BY <1>3, <2>1, ServedSlot
  <2> QED
    BY <1>1, <1>2, <2>1, <2>2 DEF StillNoticed, Ready
<1> QED
  BY <1>1, <1>3, NoticeKept

\* so_accept.
LEMMA AcceptNotice ==
  ASSUME TypeOK, ControlInv, DataInv, ServeInv, NoticeInv, TableHasRoom, DescriptorsLeft,
         NEW t \in Workers,
         AcceptNone(t) \/ AcceptFails(t) \/ Accepted(t) \/ Occupy(t) \/ Establish(t)
  PROVE  NoticeInv'
<1> USE DEF Accepting, Reading
<1>1. t \in Threads /\ pc[t] \in {"accept", "occupy", "establish"}
  BY DEF Threads, AcceptNone, AcceptFails, Accepted, Occupy, Establish, At
<1>2. CASE AcceptNone(t)
  <2>1. UNCHANGED <<mState, mFd, batch, evt, posted, queue, peer, edge>> /\ Alone(t)
    BY <1>1, <1>2 DEF AcceptNone, Return, Goto, table, eventVars, epollVars, ControlInv, Alone, Stays,
       TypeOK
  <2>2. mState[sid[t]] # "listening" \/ queue[mFd[sid[t]]] = 0
    BY <1>2 DEF AcceptNone, DescriptorsLeft
  <2>3. pc[t] = "accept"
    BY <1>2 DEF AcceptNone, At
  <2>4. ASSUME NEW s \in Slots, mState'[s] \in {"listening", "rw"} PROVE StillNoticed(t, s)
    BY <2>1, <2>2, <2>3 DEF StillNoticed, Ready
  <2> QED
    BY <2>1, <2>4, NoticeKept
<1>3. CASE AcceptFails(t)
  <2>1. /\ UNCHANGED <<mState, mFd, batch, evt, posted, queue, peer, edge, sid>> /\ Alone(t)
        /\ pc'[t] = "accept_error"
    BY <1>1, <1>3 DEF AcceptFails, Goto, table, eventVars, epollVars, ControlInv, Alone, Stays
  <2>2. ASSUME NEW s \in Slots, mState'[s] \in {"listening", "rw"} PROVE StillNoticed(t, s)
    BY <1>1, <2>1 DEF StillNoticed, Ready
  <2> QED
    BY <2>1, <2>2, NoticeKept
<1>4. CASE Accepted(t)
  <2> DEFINE fd == Lowest(Unused)
             l == mFd[sid[t]]
  <2>1. sid[t] \in Slots /\ mState[sid[t]] = "listening" /\ pc[t] = "accept"
    BY <1>1, <1>4 DEF Accepted, At, ControlInv, PcOk, Apart
  <2>2. 1 \in 1 .. NSlots
    BY <2>1, SocketAssumption DEF Slots
  <2>3. FreeFrom(1) # {}
    BY <2>2, ScanFinds
  <2>4. fd \notin open /\ l \in Fds
    BY <1>4, <2>1, NewFd, ServedSlot DEF Accepted
  <2>5. /\ UNCHANGED <<mState, mFd, batch, evt, posted, edge, sid>>
        /\ pc' = [pc EXCEPT ![t] = "occupy"]
        /\ queue' = [queue EXCEPT ![l] = @ - 1] /\ queue[l] > 0
        /\ peer' = [peer EXCEPT ![fd] = "up"]
    BY <1>4, <2>3 DEF Accepted, OpenFd, Scan, Goto, table, eventVars, epollVars
  <2>6. Alone(t) /\ pc'[t] = "occupy"
    BY <1>1, <1>4, <2>5 DEF Accepted, Scan, ControlInv, Alone, Stays, TypeOK
  <2> HIDE DEF fd, l
  <2>7. ASSUME NEW s \in Slots, mState'[s] \in {"listening", "rw"} PROVE StillNoticed(t, s)
    <3>1. mFd[s] \in open /\ mFd[s] \in Fds
      BY <2>5, <2>7, ServedSlot
    <3>2. peer'[mFd[s]] = peer[mFd[s]]
      BY <2>4, <2>5, <3>1 DEF TypeOK
    <3>3. queue'[mFd[s]] > 0 => queue[mFd[s]] > 0
      BY <2>4, <2>5, <3>1 DEF TypeOK
    <3> QED
      BY <2>1, <2>5, <2>6, <3>2, <3>3 DEF StillNoticed, Ready
  <2> QED
    BY <2>5, <2>6, <2>7, NoticeKept
<1>5. CASE Occupy(t)
  <2>1. UNCHANGED <<mState, batch, evt, posted, queue, peer, edge, sid>>
    BY <1>5 DEF Occupy, eventVars, epollVars
  <2>2. Alone(t) /\ pc'[t] \in {"occupy", "establish"}
    BY <1>1, <1>5 DEF Occupy, Scan, Goto, ControlInv, Alone, Stays, TypeOK
  <2>3. \A s \in Slots : mFd[s] # 0 => mFd'[s] = mFd[s]
    BY <1>5 DEF Occupy, TypeOK
  <2>4. ASSUME NEW s \in Slots, mState'[s] \in {"listening", "rw"} PROVE StillNoticed(t, s)
    <3>1. mFd'[s] = mFd[s]
      BY <2>1, <2>3, <2>4, ServedSlot
    <3> QED
      BY <1>1, <2>1, <2>2, <3>1 DEF StillNoticed, Ready
  <2> QED
    BY <2>1, <2>2, <2>4, NoticeKept
<1>6. CASE Establish(t)
  <2>1. /\ UNCHANGED <<mFd, batch, evt, posted, queue, peer, edge, sid>> /\ Alone(t)
        /\ pc'[t] = "accept" /\ mState' = [mState EXCEPT ![nso[t]] = "established"]
    BY <1>1, <1>6 DEF Establish, Goto, eventVars, epollVars, ControlInv, Alone, Stays, TypeOK
  <2>2. ASSUME NEW s \in Slots, mState'[s] \in {"listening", "rw"} PROVE StillNoticed(t, s)
    <3>1. mState'[s] = mState[s]
      BY <2>1, <2>2 DEF TypeOK
    <3> QED
      BY <1>1, <2>1, <3>1 DEF StillNoticed, Ready
  <2> QED
    BY <2>1, <2>2, NoticeKept
<1> QED
  BY <1>2, <1>3, <1>4, <1>5, <1>6

\* so_add and so_close.
LEMMA AddCloseNotice ==
  ASSUME TypeOK, ControlInv, DataInv, ServeInv, NoticeInv, NEW t \in Workers,
         Add(t) \/ Close(t)
  PROVE  NoticeInv'
<1> USE DEF Accepting, Reading
<1> DEFINE s == sid[t]
           fd == mFd[s]
<1>1. t \in Threads /\ pc[t] \in {"add", "close"}
  BY DEF Threads, Add, Close, At
<1>2. s \in Slots
  BY <1>1 DEF ControlInv, PcOk, Apart
<1>3. UNCHANGED <<batch, evt, posted>> /\ Alone(t)
  BY <1>1 DEF Add, Close, Return, Goto, eventVars, ControlInv, Alone, Stays, TypeOK
<1> HIDE DEF fd, s
<1>4. mFd[s] = fd
  BY DEF fd
<1>5. CASE Add(t)
  <2>1. UNCHANGED <<mFd, queue, peer>> /\ edge \subseteq edge'
    BY <1>5 DEF Add, EvAdd, epollVars
  <2>2. /\ \A r \in Slots : r # s => mState'[r] = mState[r]
        /\ mState'[s] = mState[s] \/ mState'[s] = "errored"
             \/ (mState'[s] = "rw" /\ EvAdd(s, fd))
    BY <1>2, <1>5 DEF Add, s, fd, TypeOK
  <2>3. ASSUME NEW r \in Slots, mState'[r] \in {"listening", "rw"} PROVE StillNoticed(t, r)
    <3>1. CASE mState'[r] = mState[r]
      BY <1>1, <2>1, <3>1 DEF StillNoticed, Ready
    <3>2. CASE r = s /\ EvAdd(s, fd)
      BY <1>4, <2>1, <3>2 DEF StillNoticed, EvAdd, Ready
    <3> QED
      BY <2>2, <2>3, <3>1, <3>2
  <2> QED
    BY <1>3, <2>3, NoticeKept
<1>6. CASE Close(t) /\ UNCHANGED <<table, open, queue, peer, epollVars>>
  <2>1. ASSUME NEW r \in Slots, mState'[r] \in {"listening", "rw"} PROVE StillNoticed(t, r)
    BY <1>1, <1>6 DEF StillNoticed, Ready, table, epollVars
  <2> QED
    BY <1>3, <2>1, NoticeKept
<1>7. CASE Close(t) /\ SoReserve(s, fd)
  <2>1. /\ mFd' = [mFd EXCEPT ![s] = 0] /\ mState' = [mState EXCEPT ![s] = "free"]
        /\ edge \ {fd} \subseteq edge'
        /\ queue' = [queue EXCEPT ![fd] = 0] \/ queue' = queue
        /\ peer' = [peer EXCEPT ![fd] = "up"] \/ peer' = peer
    BY <1>7 DEF SoReserve, CloseFd, epollVars
  <2>2. ASSUME NEW r \in Slots, mState'[r] \in {"listening", "rw"} PROVE StillNoticed(t, r)
    <3>1. r # s /\ mState'[r] = mState[r] /\ mFd'[r] = mFd[r]
      BY <1>2, <2>1, <2>2 DEF TypeOK
    <3>2. mFd[r] # fd /\ mFd[r] \in Fds
      BY <1>2, <1>4, <2>2, <3>1, ServedSlot
    <3>3. queue'[mFd[r]] = queue[mFd[r]] /\ peer'[mFd[r]] = peer[mFd[r]]
      BY <2>1, <3>2 DEF TypeOK
    <3> QED
      BY <1>1, <2>1, <3>1, <3>2, <3>3 DEF StillNoticed, Ready
  <2> QED
    BY <1>3, <2>2, NoticeKept
<1> QED
  BY <1>5, <1>6, <1>7 DEF Close, s, fd

\* so_read.
LEMMA ReadNotice ==
  ASSUME TypeOK, ControlInv, DataInv, ServeInv, NoticeInv, NEW t \in Workers,
         ReadCheck(t) \/ ReadData(t) \/ ReadStops(t)
  PROVE  NoticeInv'
<1> USE DEF Accepting, Reading
<1>1. t \in Threads /\ pc[t] \in {"read_check", "reading"}
  BY DEF Threads, ReadCheck, ReadData, ReadStops, At
<1>2. UNCHANGED <<mState, mFd, batch, evt, posted, peer, edge>>
  BY DEF ReadCheck, ReadData, ReadStops, table, eventVars, epollVars
<1>3. Alone(t)
  BY <1>1 DEF ReadCheck, ReadData, ReadStops, Return, Goto, threadVars, ControlInv, Alone, Stays, TypeOK
<1>4. CASE ReadCheck(t) \/ ReadStops(t)
  <2>1. queue' = queue
    BY <1>4 DEF ReadCheck, ReadStops
  <2>2. mState[sid[t]] = "rw" =>
          \/ ~Ready(mFd[sid[t]])
          \/ sid'[t] = sid[t] /\ pc'[t] \in {"reading", "read_fail"}
    BY <1>1, <1>4 DEF ReadCheck, ReadStops, Goto, Ready, ControlInv
  <2>3. ASSUME NEW s \in Slots, mState'[s] \in {"listening", "rw"} PROVE StillNoticed(t, s)
    BY <1>1, <1>2, <2>1, <2>2 DEF StillNoticed, Ready
  <2> QED
    BY <1>2, <1>3, <2>3, NoticeKept
<1>5. CASE ReadData(t)
  <2> DEFINE fd == mFd[sid[t]]
  <2>1. /\ queue' = [queue EXCEPT ![fd] = @ - 1] /\ queue[fd] > 0
        /\ UNCHANGED <<pc, sid>>
    BY <1>5 DEF ReadData, threadVars
  <2> HIDE DEF fd
  <2>2. ASSUME NEW s \in Slots, mState'[s] \in {"listening", "rw"} PROVE StillNoticed(t, s)
    <3>1. mFd[s] # fd => queue'[mFd[s]] = queue[mFd[s]]
      BY <1>2, <2>1, <2>2 DEF TypeOK
    <3>2. queue'[mFd[s]] > 0 => queue[mFd[s]] > 0
      BY <2>1, <3>1
    <3> QED
      BY <1>1, <1>2, <2>1, <3>2 DEF StillNoticed, Ready
  <2> QED
    BY <1>2, <1>3, <2>2, NoticeKept
<1> QED
  BY <1>4, <1>5

\* A handler is called: what the message told of is in its hands now.
LEMMA CallNotice ==
  ASSUME TypeOK, ControlInv, NoticeInv, NEW t \in Workers, NEW s \in Slots,
         CallAccept(t, s) \/ CallRead(t, s) \/ CallAdd(t, s) \/ CallClose(t, s)
  PROVE  NoticeInv'
<1>1. t \in Threads /\ Workers \subseteq Threads /\ Socket \in Threads /\ t # Socket /\ pc[t] = "idle"
  BY SocketAssumption DEF Threads, CallAccept, CallRead, CallAdd, CallClose, Call, At
<1>2. UNCHANGED <<mState, mFd, batch, evt, queue, peer, edge>> /\ Alone(t) /\ sid'[t] = s
  BY <1>1 DEF CallAccept, CallRead, CallAdd, CallClose, Call, Enter, Goto, table, eventVars, epollVars,
     ControlInv, Alone, Stays, TypeOK
<1>3. CASE CallAdd(t, s) \/ CallClose(t, s)
  <2>1. posted' = posted
    BY <1>3 DEF CallAdd, CallClose, Call, eventVars
  <2>2. ASSUME NEW r \in Slots, mState'[r] \in {"listening", "rw"} PROVE StillNoticed(t, r)
    BY <1>1, <1>2 DEF StillNoticed, Ready, Accepting, Reading
  <2> QED
    BY <1>2, <2>1, <2>2, NoticeKept
<1>4. CASE CallAccept(t, s) \/ CallRead(t, s)
  <2>1. \/ posted' = posted \ {<<"acceptable", s>>} /\ pc'[t] = "accept"
        \/ posted' = posted \ {<<"readable", s>>} /\ pc'[t] = "read_check"
    BY <1>1, <1>4 DEF CallAccept, CallRead, Enter, Goto, ControlInv
  <2>2. ASSUME NEW r \in Slots, NEW type \in {"acceptable", "readable"}, NEW labels, "idle" \notin labels,
               type = "acceptable" => "accept" \in labels,
               type = "readable" => "read_check" \in labels,
               Notified(r, type, labels)
        PROVE  Notified(r, type, labels)'
    <3>1. CASE <<type, r>> \in posted
      <4>1. CASE <<type, r>> \in posted'
        BY <4>1 DEF Notified
      <4>2. CASE <<type, r>> \notin posted'
        <5>1. r = s /\ pc'[t] \in labels
          BY <2>1, <2>2, <3>1, <4>2
        <5> QED
          BY <1>2, <5>1 DEF Notified
      <4> QED
        BY <4>1, <4>2
    <3>2. ASSUME NEW u \in Workers, sid[u] = r, pc[u] \in labels PROVE Notified(r, type, labels)'
      <4>1. u # t
        BY <1>1, <2>2, <3>2
      <4> QED
        BY <1>1, <1>2, <3>2, <4>1 DEF Alone, Stays, Notified
    <3>3. CASE mFd[r] \in edge \/ (\E ev \in batch : ev.so = r) \/ (evt # None /\ evt.so = r)
      BY <1>2, <3>3 DEF Notified
    <3> QED
      BY <2>2, <3>1, <3>2, <3>3 DEF Notified
  <2>3. /\ "idle" \notin Accepting /\ "idle" \notin Reading
        /\ "accept" \in Accepting /\ "read_check" \in Reading
    BY DEF Accepting, Reading
  <2>4. ASSUME NEW r \in Slots, mState'[r] = "listening", queue'[mFd'[r]] > 0
        PROVE  Notified(r, "acceptable", Accepting)'
    <3>1. Notified(r, "acceptable", Accepting)
      BY <1>2, <2>4 DEF NoticeInv, NothingUnnoticed, Accepting
    <3> QED
      BY <2>2, <2>3, <3>1
  <2>5. ASSUME NEW r \in Slots, mState'[r] = "rw", Ready(mFd[r])'
        PROVE  Notified(r, "readable", Reading)'
    <3>1. Notified(r, "readable", Reading)
      BY <1>2, <2>5 DEF NoticeInv, NothingUnnoticed, Reading, Ready
    <3> QED
      BY <2>2, <2>3, <3>1
  <2>6. HasEvents'
    BY <1>1, <1>2 DEF NoticeInv, HasEvents, Alone, Stays
  <2> QED
    BY <2>4, <2>5, <2>6 DEF NoticeInv, NothingUnnoticed, Accepting, Reading
<1> QED
  BY <1>3, <1>4

\* What a step of another thread has to show: whatever told of a slot that is served
\* after it still does, or something else does.
LEMMA NoticeMoved ==
  ASSUME NoticeInv, \A u \in Workers : Stays(u),
         HasEvents',
         \A s \in Slots : mState'[s] \in {"listening", "rw"} =>
           /\ mState'[s] = mState[s] /\ mFd'[s] = mFd[s]
           /\ \/ Ready(mFd[s])' => mFd'[s] \in edge'
              \/ /\ queue'[mFd[s]] = queue[mFd[s]] /\ peer'[mFd[s]] = peer[mFd[s]]
                 /\ Ready(mFd[s]) /\ mFd[s] \in edge =>
                      mFd[s] \in edge' \/ \E ev \in batch' : ev.so = s
                 /\ (\E ev \in batch : ev.so = s) =>
                      (\E ev \in batch' : ev.so = s) \/ (evt' # None /\ evt'.so = s)
                 /\ evt # None /\ evt.so = s =>
                      \/ evt' # None /\ evt'.so = s
                      \/ mState[s] = "listening" /\ <<"acceptable", s>> \in posted'
                      \/ mState[s] = "rw" /\ <<"readable", s>> \in posted',
         posted \subseteq posted'
  PROVE  NoticeInv'
<1>1. ASSUME NEW s \in Slots, NEW type \in {"acceptable", "readable"}, NEW labels,
             Notified(s, type, labels),
             type = "acceptable" => mState'[s] = "listening",
             type = "readable" => mState'[s] = "rw",
             Ready(mFd[s]), Ready(mFd[s])'
      PROVE  Notified(s, type, labels)'
  <2>1. mState'[s] = mState[s] /\ mFd'[s] = mFd[s]
    BY <1>1
  <2>2. CASE mFd'[s] \in edge'
    BY <2>2 DEF Notified
  <2>3. CASE mFd'[s] \notin edge'
    <3>1. CASE mFd[s] \in edge
      BY <1>1, <2>1, <2>3, <3>1 DEF Notified
    <3>2. CASE \E ev \in batch : ev.so = s
      BY <1>1, <2>1, <2>3, <3>2 DEF Notified
    <3>3. CASE evt # None /\ evt.so = s
      BY <1>1, <2>1, <2>3, <3>3 DEF Notified
    <3>4. CASE <<type, s>> \in posted
      BY <3>4 DEF Notified
    <3>5. ASSUME NEW u \in Workers, sid[u] = s, pc[u] \in labels PROVE Notified(s, type, labels)'
      BY <3>5 DEF Stays, Notified
    <3> QED
      BY <1>1, <3>1, <3>2, <3>3, <3>4, <3>5 DEF Notified
  <2> QED
    BY <2>2, <2>3
<1>2. ASSUME NEW s \in Slots, mState'[s] = "listening", queue'[mFd'[s]] > 0, Ready(mFd[s])'
      PROVE  Notified(s, "acceptable", Accepting)'
  <2>1. CASE mFd'[s] \in edge'
    BY <2>1 DEF Notified
  <2>2. CASE mFd'[s] \notin edge'
    <3>1. mState[s] = "listening" /\ queue[mFd[s]] > 0 /\ Ready(mFd[s])
      BY <1>2, <2>2 DEF Ready
    <3>2. Notified(s, "acceptable", Accepting)
      BY <3>1 DEF NoticeInv, NothingUnnoticed, Accepting
    <3> QED
      BY <1>1, <1>2, <3>1, <3>2
  <2> QED
    BY <2>1, <2>2
<1>3. ASSUME NEW s \in Slots, mState'[s] = "rw", Ready(mFd[s])'
      PROVE  Notified(s, "readable", Reading)'
  <2>1. CASE mFd'[s] \in edge'
    BY <2>1 DEF Notified
  <2>2. CASE mFd'[s] \notin edge'
    <3>1. mState[s] = "rw" /\ Ready(mFd[s])
      BY <1>3, <2>2 DEF Ready
    <3>2. Notified(s, "readable", Reading)
      BY <3>1 DEF NoticeInv, NothingUnnoticed, Reading
    <3> QED
      BY <1>1, <1>3, <3>1, <3>2
  <2> QED
    BY <2>1, <2>2
<1> QED
  BY <1>2, <1>3 DEF NoticeInv, NothingUnnoticed, Accepting, Reading, Ready

\* epoll_wait and what follows from it.
LEMMA EventNotice ==
  ASSUME TypeOK, ControlInv, DataInv, ServeInv, NoticeInv, EpollWait \/ NextEvent \/ Dispatch
  PROVE  NoticeInv'
<1>0. Socket \in Threads /\ Socket \notin Workers /\ Workers \subseteq Threads
  BY SocketAssumption DEF Threads
<1>1. \A u \in Workers : Stays(u)
  BY <1>0 DEF EpollWait, NextEvent, Dispatch, Enter, Goto, ControlInv, Stays
<1>2. UNCHANGED <<mFd, queue, peer>>
  BY DEF EpollWait, NextEvent, Dispatch, table
<1>3. ASSUME NEW s \in Slots, mState[s] \in {"listening", "rw"}
      PROVE  reg[mFd[s]] = s /\ \A r \in Slots : mFd[r] = mFd[s] => r = s
  BY <1>3, ServedSlot
<1>4. CASE EpollWait
  <2>1. /\ mState' = mState /\ batch = {} /\ evt = None /\ evt' = evt /\ posted' = posted
        /\ pc'[Socket] = "events"
        /\ batch' = {[so |-> reg[fd], hup |-> peer[fd] = "rst"] : fd \in {f \in edge : Ready(f)}}
    BY <1>0, <1>4 DEF EpollWait, Goto, At, table, NoticeInv, HasEvents, ControlInv
  <2>2. HasEvents'
    BY <2>1 DEF HasEvents
  <2>3. ASSUME NEW s \in Slots, mState[s] \in {"listening", "rw"}, Ready(mFd[s]), mFd[s] \in edge
        PROVE  \E ev \in batch' : ev.so = s
    <3> DEFINE ev == [so |-> reg[mFd[s]], hup |-> peer[mFd[s]] = "rst"]
    <3>1. ev \in batch'
      BY <2>1, <2>3
    <3>2. ev.so = s
      BY <1>3, <2>3
    <3> QED
      BY <3>1, <3>2
  <2> QED
    BY <1>1, <1>2, <2>1, <2>2, <2>3, NoticeMoved
<1>5. CASE NextEvent
  <2>1. PICK ev \in batch : batch' = batch \ {ev} /\ evt' = ev
    BY <1>5 DEF NextEvent
  <2>2. /\ UNCHANGED <<mState, edge, posted>> /\ pc'[Socket] = "dispatch" /\ pc[Socket] = "events"
    BY <1>0, <1>5 DEF NextEvent, Enter, Goto, At, table, epollVars, ControlInv
  <2>3. evt = None /\ ev # None
    BY <2>1, <2>2, SocketAssumption DEF NoticeInv, HasEvents, TypeOK, Slots
  <2>4. HasEvents'
    BY <2>2 DEF HasEvents
  <2>5. ASSUME NEW s \in Slots, \E e \in batch : e.so = s
        PROVE  (\E e \in batch' : e.so = s) \/ (evt' # None /\ evt'.so = s)
    BY <2>1, <2>3, <2>5
  <2> QED
    BY <1>1, <1>2, <2>2, <2>3, <2>4, <2>5, NoticeMoved
<1>6. CASE Dispatch
  <2>1. /\ batch' = batch /\ evt' = None /\ pc'[Socket] = "events" /\ evt # None
    BY <1>0, <1>6 DEF Dispatch, Goto, At, ControlInv, PcOk
  <2>2. evt.so \in Slots /\ posted \subseteq posted' /\ edge \ {mFd[evt.so]} \subseteq edge'
    BY <1>6, <2>1 DEF Dispatch, NotifyEv, EvDel, epollVars, TypeOK
  <2>3. HasEvents'
    BY <2>1 DEF HasEvents
  <2>4. ASSUME NEW s \in Slots, mState'[s] \in {"listening", "rw"}
        PROVE  /\ mState'[s] = mState[s]
               /\ mFd[s] \in edge => mFd[s] \in edge'
               /\ evt.so = s => \/ mState[s] = "listening" /\ <<"acceptable", s>> \in posted'
                                \/ mState[s] = "rw" /\ <<"readable", s>> \in posted'
    <3>1. mState'[s] = mState[s]
      BY <1>6, <2>2, <2>4 DEF Dispatch, TypeOK
    <3>2. CASE evt.so # s
      <4>1. mFd[evt.so] # mFd[s]
        BY <1>3, <2>2, <2>4, <3>1, <3>2
      <4> QED
        BY <2>2, <3>1, <3>2, <4>1
    <3>3. CASE evt.so = s
      BY <1>6, <2>2, <2>4, <3>1, <3>3 DEF Dispatch, NotifyEv, TypeOK, epollVars
    <3> QED
      BY <3>2, <3>3
  <2> QED
    BY <1>1, <1>2, <2>1, <2>2, <2>3, <2>4, NoticeMoved
<1> QED
  BY <1>4, <1>5, <1>6

\* The rest of the loop.
LEMMA FlushNotice ==
  ASSUME TypeOK, ControlInv, NoticeInv,
         EventsDone \/ FlushDone \/ Flush \/ FlushError \/ \E s \in Slots : CallFlush(s)
  PROVE  NoticeInv'
<1>0. Socket \in Threads /\ Socket \notin Workers /\ Workers \subseteq Threads
  BY SocketAssumption DEF Threads
<1>1. \A u \in Workers : Stays(u)
  BY <1>0 DEF EventsDone, FlushDone, Flush, FlushError, CallFlush, Return, Enter, Goto, ControlInv, Stays,
     TypeOK
<1>2. UNCHANGED <<mFd, queue, peer, edge, batch, evt, posted>>
  BY DEF EventsDone, FlushDone, Flush, FlushError, CallFlush, table, epollVars, eventVars
<1>3. \A s \in Slots : mState'[s] \in {"listening", "rw"} => mState'[s] = mState[s]
  BY DEF EventsDone, FlushDone, Flush, FlushError, CallFlush, table, TypeOK
<1>4. HasEvents'
  <2>1. pc[Socket] # "dispatch" /\ evt = None
    BY DEF EventsDone, FlushDone, Flush, FlushError, CallFlush, At, NoticeInv, HasEvents
  <2>2. batch = {}
    BY DEF EventsDone, FlushDone, Flush, FlushError, CallFlush, At, NoticeInv, HasEvents
  <2> QED
    BY <1>2, <2>1, <2>2 DEF HasEvents
<1> QED
  BY <1>1, <1>2, <1>3, <1>4, NoticeMoved

\* What clients do is reported if the socket is watched, and it is if it is served.
LEMMA ClientNotice ==
  ASSUME TypeOK, ControlInv, DataInv, ServeInv, NoticeInv, Client
  PROVE  NoticeInv'
<1>1. PICK fd \in Fds : \/ ClientConnects(fd) \/ ClientSends(fd)
                        \/ \E how \in {"fin", "rst"} : ClientLeaves(fd, how)
  BY DEF Client
<1>2. UNCHANGED <<mState, mFd, batch, evt, posted, pc, sid, nso, reg>> /\ Edge(fd)
  BY <1>1 DEF ClientConnects, ClientSends, ClientLeaves, table, threadVars, eventVars
<1>3. \A f \in Fds \ {fd} : queue'[f] = queue[f] /\ peer'[f] = peer[f]
  BY <1>1 DEF ClientConnects, ClientSends, ClientLeaves, TypeOK
<1>4. ASSUME NEW s \in Slots, mState[s] \in {"listening", "rw"}
      PROVE  /\ \/ mFd[s] \in edge'
                \/ queue'[mFd[s]] = queue[mFd[s]] /\ peer'[mFd[s]] = peer[mFd[s]]
             /\ mFd[s] \in edge => mFd[s] \in edge'
  <2>1. mFd[s] \in Fds /\ reg[mFd[s]] = s /\ s # None
    BY <1>4, ServedSlot, NoneApart
  <2> QED
    BY <1>2, <1>3, <2>1 DEF Edge
<1>5. HasEvents' /\ \A u \in Workers : Stays(u)
  BY <1>2 DEF NoticeInv, HasEvents, Stays
<1> QED
  BY <1>2, <1>4, <1>5, NoticeMoved

\* While there are descriptors left, every step keeps every duty with somebody.
LEMMA NoticeStep ==
  ASSUME TypeOK, ControlInv, DataInv, ServeInv, NoticeInv, TableHasRoom, DescriptorsLeft, [Next]_vars
  PROVE  NoticeInv'
<1>0. Workers \subseteq Threads /\ Socket \in Threads /\ Socket \notin Workers
  BY SocketAssumption DEF Threads
<1>1. ASSUME UNCHANGED <<mState, mFd, queue, peer, edge, batch, evt, posted, pc, sid, nso>>
      PROVE  NoticeInv'
  <2>1. HasEvents' /\ \A u \in Workers : Stays(u)
    BY <1>1 DEF NoticeInv, HasEvents, Stays
  <2> QED
    BY <1>1, <2>1, NoticeMoved
<1>2. ASSUME NEW t \in Threads, Acquire(t) PROVE NoticeInv'
  BY <1>1, <1>2 DEF Acquire, table, epollVars, eventVars
<1>3. ASSUME NEW t \in Workers, CallListen(t) \/ Listen(t) PROVE NoticeInv'
  BY <1>3, ListenNotice
<1>4. ASSUME NEW t \in Workers, NEW s \in Slots,
             CallAccept(t, s) \/ CallRead(t, s) \/ CallAdd(t, s) \/ CallClose(t, s)
      PROVE  NoticeInv'
  BY <1>4, CallNotice
<1>5. ASSUME NEW t \in Workers,
             AcceptNone(t) \/ AcceptFails(t) \/ Accepted(t) \/ Occupy(t) \/ Establish(t)
      PROVE  NoticeInv'
  BY <1>5, AcceptNotice
<1>6. ASSUME NEW t \in Workers, AcceptError(t) \/ ReadFail(t) PROVE NoticeInv'
  <2>1. FailSocket(t) /\ sid[t] \in Slots
    BY <1>0, <1>6 DEF AcceptError, ReadFail, At, ControlInv, PcOk, Apart
  <2> QED
    BY <2>1, FailNotice
<1>7. ASSUME NEW t \in Workers, Add(t) \/ Close(t) PROVE NoticeInv'
  BY <1>7, AddCloseNotice
<1>8. ASSUME NEW t \in Workers, ReadCheck(t) \/ ReadData(t) \/ ReadStops(t) PROVE NoticeInv'
  BY <1>8, ReadNotice
<1>9. CASE EpollWait \/ NextEvent \/ Dispatch
  BY <1>9, EventNotice
<1>10. CASE EventsDone \/ FlushDone \/ Flush \/ FlushError \/ \E s \in Slots : CallFlush(s)
  BY <1>10, FlushNotice
<1>11. CASE Client
  BY <1>11, ClientNotice
<1>12. CASE UNCHANGED vars
  BY <1>1, <1>12 DEF vars, table, threadVars, epollVars, eventVars
<1> QED
  BY <1>2, <1>3, <1>4, <1>5, <1>6, <1>7, <1>8, <1>9, <1>10, <1>11, <1>12
     DEF Next, WorkerStep, SocketStep

\* Of a server that listens before its first connection, with room in its table and
\* descriptors to spare, no connection to accept, no data and no end of file on a
\* served socket is left without an event, a message or a handler that will find it.
THEOREM NothingIsLeftUnnoticed ==
  ASSUME ~LateListen
  PROVE  Spec /\ []TableHasRoom /\ []DescriptorsLeft => []NothingUnnoticed
<1>1. Init => NoticeInv
  BY DEF Init, NoticeInv, HasEvents, NothingUnnoticed
<1>2. TableInv /\ ServeInv /\ NoticeInv /\ TableHasRoom /\ DescriptorsLeft /\ [Next]_vars => NoticeInv'
  BY NoticeStep DEF TableInv
<1>3. NoticeInv => NothingUnnoticed
  BY DEF NoticeInv
<1> QED
  BY <1>1, <1>2, <1>3, Served, PTL DEF Spec
==============================================================================
