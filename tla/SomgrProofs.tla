----------------------------- MODULE SomgrProofs ------------------------------
(***************************************************************************)
(* Proofs about Somgr for a table of any size, any chunk and any lengths.  *)
(* MgrOK is what a manager is between two operations; while one works on a *)
(* socket it is Loose at that socket.                                      *)
(***************************************************************************)
EXTENDS Somgr, FiniteSetTheorems, SequenceTheorems, TLAPS

So == [state : SUBSET Flags, watch : SUBSET {"in", "out"}, cur : Nat, cap : Nat]

Mgr == [sos : [Ids -> So], sosn : 0 .. MaxSosn,
        freesos : Seq(Ids), badsos : Seq(Ids), writesos : Seq(Ids)]

-----------------------------------------------------------------------------
(* The inductive invariant.                                                *)

Live(b) == b.state \cap {"BAD", "FREE"} = {}

\* A socket by itself: in the pool it is blank, removed it is out of epoll, and else it
\* is watched for what it waits for.
SoOK(b) ==
  /\ b.cur <= b.cap
  /\ "FREE" \in b.state => b = Pooled
  /\ "BAD" \in b.state => b.watch = {}
  /\ Live(b) =>
       /\ b.state \in {{}, {"WRITABLE"}, {"LISTEN", "WRITABLE"}, {"CONNECTTING"}}
       /\ b.watch = IF "CONNECTTING" \in b.state THEN {"out"}
                    ELSE IF "WRITABLE" \in b.state THEN {"in"} ELSE {"in", "out"}
       /\ "LISTEN" \in b.state \/ "CONNECTTING" \in b.state => b.cur = 0

ToWrite(b) == b.state = {"WRITABLE"} /\ b.cur > 0

\* The queues hold each socket once, and those that belong there.  The sockets told are
\* on their way from badsos to the pool.
QueuesOK(m, told) ==
  /\ IsInjective(m.freesos) /\ IsInjective(m.badsos) /\ IsInjective(m.writesos)
  /\ \A i \in Ids : i \in Range(m.freesos) <=> i < m.sosn /\ "FREE" \in m.sos[i].state
  /\ \A i \in Ids : i \in Range(m.badsos) <=> i \notin told /\ "BAD" \in m.sos[i].state
  /\ \A i \in Ids : m.sosn <= i => "FREE" \in m.sos[i].state
  /\ \A i \in told : i \in Ids /\ "BAD" \in m.sos[i].state

MgrOK(m, told) ==
  /\ m \in Mgr
  /\ QueuesOK(m, told)
  /\ \A i \in Ids : SoOK(m.sos[i])
  /\ \A i \in Ids : i \in Range(m.writesos) <=> ToWrite(m.sos[i])

Told == IF call.to = "ecb" THEN {call.id} ELSE {}

\* A callback that is being called: in which part of somgr_runonce, and for what socket.
CallOK ==
  /\ call.to = "none" => call = NoCall
  /\ call.to # "none" => call.id \in Ids
  /\ call.to = "ecb" => pc = "bad"
  /\ call.to \in {"acb", "rcb", "ccb"} => pc = "events"
  /\ call.to = "rcb" =>
       /\ evs[call.id] = {}
       /\ mgr.sos[call.id].state \cap {"FREE", "LISTEN", "CONNECTTING"} = {}
       /\ "out" \in call.ev => "WRITABLE" \notin mgr.sos[call.id].state

\* An event in hand: only while the events are handled, and for a socket in use; one that
\* can be written did not become so since epoll said so, and one that is to be read was
\* connected when epoll said so.
EventsOK ==
  \A i \in Ids : evs[i] # {} =>
    /\ pc = "events"
    /\ "FREE" \notin mgr.sos[i].state
    /\ "out" \in evs[i] => "WRITABLE" \notin mgr.sos[i].state
    /\ evs[i] = {"in"} => "CONNECTTING" \notin mgr.sos[i].state

\* Of the assertions of somgr_proc_rw only the one about kicked sockets stops the program.
NotCrashed == crashed \notin {"writable", "queued"}

Control ==
  /\ pc \in {"out", "bad", "write", "events", "destroyed"}
  /\ call \in [to: {"none", "acb", "rcb", "ecb", "ccb"}, id: Ids \cup {0},
              ev: SUBSET {"hup", "in", "out"}]
  /\ evs \in [Ids -> SUBSET {"hup", "in", "out"}]
  /\ crashed \in {"no", "accept", "kicked", "writable", "queued"}
  /\ nCalls \in 0 .. MaxCalls

SomgrInv == Control /\ MgrOK(mgr, Told) /\ CallOK /\ EventsOK /\ NotCrashed

-----------------------------------------------------------------------------
(* Queues that hold each element once.                                     *)

\* What a queue holds stands somewhere in it.
LEMMA InQueue ==
  ASSUME NEW S, NEW q \in Seq(S)
  PROVE  /\ Len(q) \in Nat /\ DOMAIN q = 1 .. Len(q)
         /\ \A k \in 1 .. Len(q) : q[k] \in S /\ q[k] \in Range(q)
         /\ \A y : y \in Range(q) => \E k \in 1 .. Len(q) : q[k] = y
BY LenProperties DEF Range

\* soqueue_push of an element that is not there.
LEMMA Pushing ==
  ASSUME NEW S, NEW q \in Seq(S), NEW x \in S, IsInjective(q), x \notin Range(q)
  PROVE  /\ Append(q, x) \in Seq(S) /\ IsInjective(Append(q, x))
         /\ \A y : y \in Range(Append(q, x)) <=> y \in Range(q) \/ y = x
<1> DEFINE p == Append(q, x)
<1>1. /\ p \in Seq(S) /\ Len(p) = Len(q) + 1 /\ p[Len(q) + 1] = x
      /\ \A k \in 1 .. Len(q) : p[k] = q[k]
  BY AppendProperties
<1>2. Len(q) \in Nat /\ Len(p) \in Nat
  BY <1>1, LenProperties
<1> HIDE DEF p
<1>3. IsInjective(p)
  <2> SUFFICES ASSUME NEW a \in 1 .. Len(p), NEW b \in 1 .. Len(p), p[a] = p[b] PROVE a = b
    BY <1>1, InQueue DEF IsInjective
  <2>1. \A c \in 1 .. Len(q) : q[c] # x
    BY InQueue
  <2>2. \A c, d \in 1 .. Len(q) : q[c] = q[d] => c = d
    BY InQueue DEF IsInjective
  <2> QED  BY <1>1, <1>2, <2>1, <2>2
<1>4. ASSUME NEW y PROVE y \in Range(p) <=> y \in Range(q) \/ y = x
  <2>1. ASSUME y \in Range(p) PROVE y \in Range(q) \/ y = x
    <3>1. PICK k \in 1 .. Len(p) : p[k] = y
      BY <1>1, <2>1, InQueue
    <3> QED  BY <1>1, <1>2, <3>1, InQueue
  <2>2. ASSUME y \in Range(q) PROVE y \in Range(p)
    <3>1. PICK k \in 1 .. Len(q) : q[k] = y
      BY <2>2, InQueue
    <3>2. k \in 1 .. Len(p) /\ p[k] = y
      BY <1>1, <1>2, <3>1
    <3> QED  BY <1>1, <3>2, InQueue
  <2>3. x \in Range(p)
    <3>1. Len(q) + 1 \in 1 .. Len(p)
      BY <1>1, <1>2
    <3> QED  BY <1>1, <3>1, InQueue
  <2> QED  BY <2>1, <2>2, <2>3
<1> QED  BY <1>1, <1>3, <1>4 DEF p

\* soqueue_erase: the others stay.
LEMMA Erasing ==
  ASSUME NEW S, NEW q \in Seq(S), NEW x, IsInjective(q)
  PROVE  /\ Without(q, x) \in Seq(S) /\ IsInjective(Without(q, x))
         /\ \A y : y \in Range(Without(q, x)) <=> y \in Range(q) /\ y # x
<1>1. CASE x \notin Range(q)
  BY <1>1 DEF Without
<1>2. CASE x \in Range(q)
  <2>1. PICK n \in 1 .. Len(q) : q[n] = x /\ n = (CHOOSE k \in DOMAIN q : q[k] = x)
    BY <1>2, InQueue
  <2> DEFINE p == RemoveAt(q, n)
             l == SubSeq(q, 1, n - 1)
             r == SubSeq(q, n + 1, Len(q))
  <2>2. Len(q) \in Nat /\ \A k \in 1 .. Len(q) : q[k] \in S
    BY InQueue
  <2>3. l \in Seq(S) /\ Len(l) = n - 1 /\ \A k \in 1 .. n - 1 : l[k] = q[k]
    <3>1. 1 \in Int /\ n - 1 \in Int /\ \A i \in 1 .. n - 1 : q[i] \in S
      BY <2>2
    <3>2. /\ l \in Seq(S) /\ Len(l) = IF 1 <= n - 1 THEN n - 1 - 1 + 1 ELSE 0
          /\ \A k \in 1 .. n - 1 - 1 + 1 : l[k] = q[1 + k - 1]
      BY <3>1, SubSeqProperties
    <3> HIDE DEF l
    <3> QED  BY <2>2, <3>2
  <2>4. r \in Seq(S) /\ Len(r) = Len(q) - n /\ \A k \in 1 .. Len(q) - n : r[k] = q[n + k]
    <3>1. n + 1 \in Int /\ Len(q) \in Int /\ \A i \in n + 1 .. Len(q) : q[i] \in S
      BY <2>2
    <3>2. /\ r \in Seq(S) /\ Len(r) = IF n + 1 <= Len(q) THEN Len(q) - (n + 1) + 1 ELSE 0
          /\ \A k \in 1 .. Len(q) - (n + 1) + 1 : r[k] = q[n + 1 + k - 1]
      BY <3>1, SubSeqProperties
    <3> HIDE DEF r
    <3> QED  BY <2>2, <3>2
  <2>5. p = l \o r
    BY DEF RemoveAt
  <2>6. /\ p \in Seq(S) /\ Len(p) = Len(q) - 1
        /\ \A k \in 1 .. Len(q) - 1 : p[k] = IF k < n THEN q[k] ELSE q[k + 1]
    <3> HIDE DEF l, r, p
    <3>1. /\ p \in Seq(S) /\ Len(p) = Len(l) + Len(r)
          /\ \A k \in 1 .. Len(l) + Len(r) : p[k] = IF k <= Len(l) THEN l[k] ELSE r[k - Len(l)]
      BY <2>3, <2>4, <2>5, ConcatProperties
    <3>3. Len(l) + Len(r) = Len(q) - 1 /\ n \in 1 .. Len(q)
      BY <2>2, <2>3, <2>4
    <3>4. \A k \in 1 .. Len(q) - 1 : p[k] = IF k <= n - 1 THEN l[k] ELSE r[k - (n - 1)]
      BY <2>3, <3>1, <3>3, Zenon
    <3>2. ASSUME NEW k \in 1 .. Len(q) - 1 PROVE p[k] = IF k < n THEN q[k] ELSE q[k + 1]
      <4>1. CASE k < n
        BY <2>2, <2>3, <3>4, <4>1
      <4>2. CASE k >= n
        <5>1. k - (n - 1) \in 1 .. Len(q) - n /\ ~(k <= n - 1) /\ n + (k - (n - 1)) = k + 1
          BY <2>2, <4>2
        <5>2. p[k] = r[k - (n - 1)]
          BY <3>4, <5>1
        <5> QED  BY <2>4, <4>2, <5>1, <5>2
      <4> QED  BY <2>2, <4>1, <4>2
    <3> QED  BY <2>2, <2>3, <2>4, <3>1, <3>2
  <2>7. Without(q, x) = p
    BY <1>2, <2>1 DEF Without
  <2> HIDE DEF p, l, r
  <2>8. \A c, d \in 1 .. Len(q) : q[c] = q[d] => c = d
    BY InQueue DEF IsInjective
  <2>9. IsInjective(p)
    <3> SUFFICES ASSUME NEW a \in 1 .. Len(p), NEW b \in 1 .. Len(p), p[a] = p[b] PROVE a = b
      BY <2>6, InQueue DEF IsInjective
    <3> QED  BY <2>2, <2>6, <2>8
  <2>10. ASSUME NEW y PROVE y \in Range(p) <=> y \in Range(q) /\ y # x
    <3>1. ASSUME y \in Range(p) PROVE y \in Range(q) /\ y # x
      <4>1. PICK k \in 1 .. Len(p) : p[k] = y
        BY <2>6, <3>1, InQueue
      <4>2. PICK j \in 1 .. Len(q) : y = q[j] /\ j # n
        BY <2>2, <2>6, <4>1
      <4> QED  BY <2>1, <2>8, <4>2, InQueue
    <3>2. ASSUME y \in Range(q), y # x PROVE y \in Range(p)
      <4>1. PICK k \in 1 .. Len(q) : q[k] = y
        BY <3>2, InQueue
      <4>2. k # n
        BY <2>1, <3>2, <4>1
      <4>3. CASE k < n
        BY SMTT(60), <2>2, <2>6, <4>1, <4>3, InQueue
      <4>4. CASE k > n
        <5>1. k - 1 \in 1 .. Len(p) /\ p[k - 1] = y
          BY <2>2, <2>6, <4>1, <4>4
        <5> QED  BY <2>6, <5>1, InQueue
      <4> QED  BY <4>2, <4>3, <4>4
    <3> QED  BY <3>1, <3>2
  <2> QED  BY <2>6, <2>7, <2>9, <2>10
<1> QED  BY <1>1, <1>2

\* soqueue_pop: the head comes off, the others stay.
LEMMA Popping ==
  ASSUME NEW S, NEW q \in Seq(S), IsInjective(q), q # <<>>
  PROVE  /\ Head(q) \in S /\ Head(q) \in Range(q)
         /\ Tail(q) \in Seq(S) /\ IsInjective(Tail(q))
         /\ \A y : y \in Range(Tail(q)) <=> y \in Range(q) /\ y # Head(q)
<1> DEFINE p == Tail(q)
           h == Head(q)
<1>1. /\ h \in S /\ p \in Seq(S) /\ Len(p) = Len(q) - 1 /\ Len(q) \in Nat \ {0}
      /\ h = q[1] /\ \A k \in 1 .. Len(p) : p[k] = q[k + 1]
  BY HeadTailProperties, EmptySeq
<1> HIDE DEF p, h
<1>2. \A c, d \in 1 .. Len(q) : q[c] = q[d] => c = d
  BY InQueue DEF IsInjective
<1>3. IsInjective(p)
  <2> SUFFICES ASSUME NEW a \in 1 .. Len(p), NEW b \in 1 .. Len(p), p[a] = p[b] PROVE a = b
    BY <1>1, InQueue DEF IsInjective
  <2> QED  BY <1>1, <1>2
<1>4. ASSUME NEW y PROVE y \in Range(p) <=> y \in Range(q) /\ y # h
  <2>1. ASSUME y \in Range(p) PROVE y \in Range(q) /\ y # h
    <3>1. PICK k \in 1 .. Len(p) : p[k] = y
      BY <1>1, <2>1, InQueue
    <3>2. y = q[k + 1] /\ k + 1 \in 1 .. Len(q) /\ k + 1 # 1 /\ 1 \in 1 .. Len(q)
      BY <1>1, <3>1
    <3> QED  BY <1>1, <1>2, <3>2, InQueue
  <2>2. ASSUME y \in Range(q), y # h PROVE y \in Range(p)
    <3>1. PICK k \in 1 .. Len(q) : q[k] = y
      BY <2>2, InQueue
    <3>2. k - 1 \in 1 .. Len(p) /\ p[k - 1] = y
      BY <1>1, <2>2, <3>1
    <3> QED  BY <1>1, <3>2, InQueue
  <2> QED  BY <2>1, <2>2
<1>5. h \in Range(q)
  BY <1>1, InQueue
<1> QED  BY <1>1, <1>3, <1>4, <1>5 DEF p, h

\* What is in one queue once is there once when another is linked behind it that has
\* none of its elements.
LEMMA Linking ==
  ASSUME NEW S, NEW q \in Seq(S), NEW p \in Seq(S), IsInjective(q), IsInjective(p),
         \A y \in Range(p) : y \notin Range(q)
  PROVE  /\ q \o p \in Seq(S) /\ IsInjective(q \o p)
         /\ \A y : y \in Range(q \o p) <=> y \in Range(q) \/ y \in Range(p)
<1> DEFINE r == q \o p
<1>1. /\ r \in Seq(S) /\ Len(r) = Len(q) + Len(p) /\ Len(q) \in Nat /\ Len(p) \in Nat
      /\ \A k \in 1 .. Len(q) + Len(p) : r[k] = IF k <= Len(q) THEN q[k] ELSE p[k - Len(q)]
  BY ConcatProperties, LenProperties
<1>2. \A y : y \in Range(r) <=> y \in Range(q) \/ y \in Range(p)
  BY RangeConcatenation
<1> HIDE DEF r
<1>3. /\ \A c, d \in 1 .. Len(q) : q[c] = q[d] => c = d
      /\ \A c, d \in 1 .. Len(p) : p[c] = p[d] => c = d
      /\ \A c \in 1 .. Len(q), d \in 1 .. Len(p) : q[c] # p[d]
  BY InQueue DEF IsInjective
<1>4. IsInjective(r)
  <2> SUFFICES ASSUME NEW a \in 1 .. Len(r), NEW b \in 1 .. Len(r), r[a] = r[b], a <= b
               PROVE a = b
    <3>1. \A a, b \in 1 .. Len(r) : a <= b \/ b <= a
      BY <1>1
    <3> QED  BY <1>1, <3>1, InQueue DEF IsInjective
  <2>1. CASE b <= Len(q)
    BY <1>1, <1>3, <2>1
  <2>2. CASE a <= Len(q) /\ b > Len(q)
    <3>1. r[a] = q[a] /\ r[b] = p[b - Len(q)] /\ b - Len(q) \in 1 .. Len(p) /\ a \in 1 .. Len(q)
      BY <1>1, <2>2
    <3> QED  BY <1>3, <3>1
  <2>3. CASE a > Len(q)
    <3>1. /\ r[a] = p[a - Len(q)] /\ r[b] = p[b - Len(q)]
          /\ a - Len(q) \in 1 .. Len(p) /\ b - Len(q) \in 1 .. Len(p)
      BY <1>1, <2>3
    <3>2. a - Len(q) = b - Len(q)
      BY <1>3, <3>1
    <3> QED  BY <1>1, <3>2
  <2> QED  BY <1>1, <2>1, <2>2, <2>3
<1> QED  BY <1>1, <1>2, <1>4 DEF r

-----------------------------------------------------------------------------
(* A manager while an operation works on a socket in use.                  *)

\* A socket with these fields.
New(s, w, c, p) == [state |-> s, watch |-> w, cur |-> c, cap |-> p]

\* The manager with another socket i.
With(m, i, b) == [m EXCEPT !.sos[i] = b]

\* What With changes.
LEMMA WithSocket ==
  ASSUME NEW m \in Mgr, NEW i \in Ids, NEW b \in So
  PROVE  /\ With(m, i, b) \in Mgr
         /\ With(m, i, b).sos = [m.sos EXCEPT ![i] = b] /\ With(m, i, b).sos[i] = b
         /\ With(m, i, b).sosn = m.sosn /\ With(m, i, b).freesos = m.freesos
         /\ With(m, i, b).badsos = m.badsos /\ With(m, i, b).writesos = m.writesos
         /\ \A c : With(With(m, i, b), i, c) = With(m, i, c)
<1>1. /\ With(m, i, b) \in Mgr
      /\ With(m, i, b).sos = [m.sos EXCEPT ![i] = b] /\ With(m, i, b).sos[i] = b
      /\ With(m, i, b).sosn = m.sosn /\ With(m, i, b).freesos = m.freesos
      /\ With(m, i, b).badsos = m.badsos /\ With(m, i, b).writesos = m.writesos
  BY DEF With, Mgr
<1>2. ASSUME NEW c PROVE With(With(m, i, b), i, c) = With(m, i, c)
  <2>1. [[m.sos EXCEPT ![i] = b] EXCEPT ![i] = c] = [m.sos EXCEPT ![i] = c]
    BY DEF Mgr
  <2> QED  BY <2>1 DEF With, Mgr
<1> QED  BY <1>1, <1>2

\* The operators that change one socket.
LEMMA OneSocket ==
  ASSUME NEW m \in Mgr, NEW i \in Ids
  PROVE  LET b == m.sos[i] IN
         /\ b \in So /\ New(b.state, b.watch, b.cur, b.cap) = b
         /\ \A sta : Set(m, i, sta) = With(m, i, New(b.state \cup sta, b.watch, b.cur, b.cap))
         /\ \A sta : Clear(m, i, sta) = With(m, i, New(b.state \ sta, b.watch, b.cur, b.cap))
         /\ \A ev : Watch(m, i, ev) = With(m, i, New(b.state, ev, b.cur, b.cap))
         /\ \A left : Flushed(m, i, left) = With(m, i, New(b.state, b.watch, left, b.cap))
<1>1. m.sos[i] \in So
  BY DEF Mgr
<1> QED  BY <1>1 DEF Set, Clear, Watch, Flushed, With, So, New

\* Everything is as it must be but the socket itself and whether it waits to be written.
Loose(m, told, i) ==
  /\ m \in Mgr /\ i \in Ids
  /\ QueuesOK(m, told)
  /\ Live(m.sos[i]) /\ m.sos[i].cur <= m.sos[i].cap
  /\ \A j \in Ids \ {i} : SoOK(m.sos[j])
  /\ \A j \in Ids \ {i} : j \in Range(m.writesos) <=> ToWrite(m.sos[j])

\* Work on a socket in use starts like this,
LEMMA Loosened ==
  ASSUME NEW m, NEW told, NEW i \in Ids, MgrOK(m, told), Live(m.sos[i])
  PROVE  Loose(m, told, i)
BY DEF MgrOK, Loose, SoOK, Live

\* it ends when the socket is as it must be and queued if it has to be,
LEMMA Tightened ==
  ASSUME NEW m, NEW told, NEW i, Loose(m, told, i), SoOK(m.sos[i]),
         i \in Range(m.writesos) <=> ToWrite(m.sos[i])
  PROVE  MgrOK(m, told)
BY DEF MgrOK, Loose

\* and in between the socket may change,
LEMMA LooseSocket ==
  ASSUME NEW m, NEW told, NEW i, Loose(m, told, i), NEW b \in So, Live(b), b.cur <= b.cap
  PROVE  Loose([m EXCEPT !.sos[i] = b], told, i)
<1> DEFINE x == [m EXCEPT !.sos[i] = b]
<1>1. /\ x.sos = [m.sos EXCEPT ![i] = b] /\ x.sosn = m.sosn /\ x.freesos = m.freesos
      /\ x.badsos = m.badsos /\ x.writesos = m.writesos /\ x \in Mgr
  BY DEF Loose, Mgr
<1>2. m.sos \in [Ids -> So] /\ i \in Ids
  BY DEF Loose, Mgr
<1> HIDE DEF x
<1>3. \A j \in Ids : x.sos[j] = IF j = i THEN b ELSE m.sos[j]
  BY <1>1, <1>2
<1>4. QueuesOK(x, told)
  <2>1. QueuesOK(m, told) /\ Live(m.sos[i])
    BY DEF Loose
  <2>2. i \notin told /\ "BAD" \notin b.state /\ "FREE" \notin b.state
    BY <2>1 DEF QueuesOK, Live
  <2> QED  BY <1>1, <1>2, <1>3, <2>1, <2>2 DEF QueuesOK, Live
<1>5. Loose(x, told, i)
  BY <1>1, <1>2, <1>3, <1>4 DEF Loose
<1> QED  BY <1>5 DEF x

\* and the queue.
LEMMA LooseQueue ==
  ASSUME NEW m, NEW told, NEW i, Loose(m, told, i), NEW w \in Seq(Ids), IsInjective(w),
         \A j \in Ids \ {i} : j \in Range(w) <=> j \in Range(m.writesos)
  PROVE  Loose([m EXCEPT !.writesos = w], told, i)
<1> DEFINE x == [m EXCEPT !.writesos = w]
<1>1. /\ x.sos = m.sos /\ x.sosn = m.sosn /\ x.freesos = m.freesos
      /\ x.badsos = m.badsos /\ x.writesos = w /\ x \in Mgr
  BY DEF Loose, Mgr
<1> HIDE DEF x
<1>2. QueuesOK(x, told)
  BY <1>1 DEF Loose, QueuesOK
<1>3. Loose(x, told, i)
  BY <1>1, <1>2 DEF Loose
<1> QED  BY <1>3 DEF x

\* Work on socket i led from manager m to manager x, where the socket is b.
Works(m, x, told, i, b) ==
  /\ Loose(x, told, i) /\ x.sos[i] = b
  /\ x.writesos = m.writesos
  /\ \A j \in Ids \ {i} : x.sos[j] = m.sos[j]

\* The operators that change one socket, at work on it.
LEMMA Working ==
  ASSUME NEW m, NEW told, NEW i, NEW x, NEW b, Works(m, x, told, i, b)
  PROVE  /\ Works(m, Clear(x, i, {"WRITABLE"}), told, i,
                  New(b.state \ {"WRITABLE"}, b.watch, b.cur, b.cap))
         /\ Works(m, Clear(x, i, {"CONNECTTING"}), told, i,
                  New(b.state \ {"CONNECTTING"}, b.watch, b.cur, b.cap))
         /\ Works(m, Set(x, i, {"WRITABLE"}), told, i,
                  New(b.state \cup {"WRITABLE"}, b.watch, b.cur, b.cap))
         /\ \A ev \in SUBSET {"in", "out"} :
              Works(m, Watch(x, i, ev), told, i, New(b.state, ev, b.cur, b.cap))
         /\ \A left \in 0 .. b.cur :
              Works(m, Flushed(x, i, left), told, i, New(b.state, b.watch, left, b.cap))
<1>1. /\ x \in Mgr /\ i \in Ids /\ Loose(x, told, i) /\ x.sos[i] = b /\ b \in So
      /\ Live(b) /\ b.cur <= b.cap
  BY DEF Works, Loose, Mgr
<1>2. ASSUME NEW c \in So, Live(c), c.cur <= c.cap
      PROVE  Works(m, With(x, i, c), told, i, c)
  <2>1. Loose(With(x, i, c), told, i)
    BY <1>1, <1>2, LooseSocket DEF With
  <2>2. /\ With(x, i, c).sos = [x.sos EXCEPT ![i] = c]
        /\ With(x, i, c).writesos = x.writesos
    BY <1>1, WithSocket
  <2> QED  BY <1>1, <2>1, <2>2 DEF Works, Mgr
<1>3. /\ \A sta : Set(x, i, sta) = With(x, i, New(b.state \cup sta, b.watch, b.cur, b.cap))
      /\ \A sta : Clear(x, i, sta) = With(x, i, New(b.state \ sta, b.watch, b.cur, b.cap))
      /\ \A ev : Watch(x, i, ev) = With(x, i, New(b.state, ev, b.cur, b.cap))
      /\ \A left : Flushed(x, i, left) = With(x, i, New(b.state, b.watch, left, b.cap))
  BY <1>1, OneSocket
<1>4. ASSUME NEW s, NEW w, NEW c, NEW p, s \in SUBSET Flags, s \cap {"BAD", "FREE"} = {},
             w \in SUBSET {"in", "out"}, c \in Nat, p \in Nat, c <= p
      PROVE  Works(m, With(x, i, New(s, w, c, p)), told, i, New(s, w, c, p))
  <2>1. /\ New(s, w, c, p) \in So /\ Live(New(s, w, c, p))
        /\ New(s, w, c, p).cur <= New(s, w, c, p).cap
    BY <1>4 DEF New, So, Live
  <2> QED  BY <1>2, <2>1
<1>5. /\ b.state \in SUBSET Flags /\ b.state \cap {"BAD", "FREE"} = {}
      /\ b.watch \in SUBSET {"in", "out"} /\ b.cur \in Nat /\ b.cap \in Nat /\ b.cur <= b.cap
  BY <1>1 DEF So, Live
<1>6. /\ Works(m, Clear(x, i, {"WRITABLE"}), told, i,
              New(b.state \ {"WRITABLE"}, b.watch, b.cur, b.cap))
      /\ Works(m, Clear(x, i, {"CONNECTTING"}), told, i,
              New(b.state \ {"CONNECTTING"}, b.watch, b.cur, b.cap))
      /\ Works(m, Set(x, i, {"WRITABLE"}), told, i,
              New(b.state \cup {"WRITABLE"}, b.watch, b.cur, b.cap))
  <2>1. /\ b.state \ {"WRITABLE"} \in SUBSET Flags
        /\ b.state \ {"CONNECTTING"} \in SUBSET Flags
        /\ b.state \cup {"WRITABLE"} \in SUBSET Flags
        /\ (b.state \ {"WRITABLE"}) \cap {"BAD", "FREE"} = {}
        /\ (b.state \ {"CONNECTTING"}) \cap {"BAD", "FREE"} = {}
        /\ (b.state \cup {"WRITABLE"}) \cap {"BAD", "FREE"} = {}
    BY <1>5 DEF Flags
  <2> QED  BY <1>3, <1>4, <1>5, <2>1
<1>7. ASSUME NEW ev \in SUBSET {"in", "out"}
      PROVE  Works(m, Watch(x, i, ev), told, i, New(b.state, ev, b.cur, b.cap))
  BY <1>3, <1>4, <1>5
<1>8. ASSUME NEW left \in 0 .. b.cur
      PROVE  Works(m, Flushed(x, i, left), told, i, New(b.state, b.watch, left, b.cap))
  <2>1. left \in Nat /\ left <= b.cap
    BY <1>5
  <2> QED  BY <1>3, <1>4, <1>5, <2>1
<1> QED  BY <1>6, <1>7, <1>8

\* somgr_remove_so puts an end to the work, in whatever state the socket is.
LEMMA Removing ==
  ASSUME NEW m, NEW told, NEW i, Loose(m, told, i)
  PROVE  /\ MgrOK(RemoveSo(m, i), told)
         /\ \A j \in Ids : RemoveSo(m, i).sos[j].state
                          = IF j = i THEN m.sos[i].state \cup {"BAD"} ELSE m.sos[j].state
<1> DEFINE b == New(m.sos[i].state \cup {"BAD"}, {}, m.sos[i].cur, m.sos[i].cap)
           w == Without(m.writesos, i)
           d == Append(m.badsos, i)
           x == RemoveSo(m, i)
<1>0. /\ m \in Mgr /\ i \in Ids /\ QueuesOK(m, told) /\ m.sos \in [Ids -> So]
      /\ m.sos[i] \in So /\ Live(m.sos[i]) /\ m.sos[i].cur <= m.sos[i].cap
      /\ m.writesos \in Seq(Ids) /\ m.badsos \in Seq(Ids)
  BY DEF Loose, Mgr
<1>1. w \in Seq(Ids) /\ IsInjective(w) /\ \A y : y \in Range(w) <=> y \in Range(m.writesos) /\ y # i
  BY <1>0, Erasing DEF QueuesOK
<1>2. d \in Seq(Ids) /\ IsInjective(d) /\ \A y : y \in Range(d) <=> y \in Range(m.badsos) \/ y = i
  <2>1. i \notin Range(m.badsos)
    BY <1>0 DEF QueuesOK, Live
  <2> QED  BY <1>0, <2>1, Pushing DEF QueuesOK
<1>3. b \in So
  BY <1>0 DEF So, Flags, New
<1>4. /\ x.sos = [m.sos EXCEPT ![i] = b] /\ x.sosn = m.sosn /\ x.freesos = m.freesos
      /\ x.badsos = d /\ x.writesos = w
      /\ x = [m EXCEPT !.sos = [m.sos EXCEPT ![i] = b], !.badsos = d, !.writesos = w]
  <2>1. x = [Watch(Set(m, i, {"BAD"}), i, {})
               EXCEPT !.writesos = Without(@, i), !.badsos = Append(@, i)]
    BY <1>0 DEF RemoveSo, HasState, Live
  <2>2. Watch(Set(m, i, {"BAD"}), i, {}) = [m EXCEPT !.sos = [m.sos EXCEPT ![i] = b]]
    <3> DEFINE c == New(b.state, m.sos[i].watch, b.cur, b.cap)
    <3>1. c \in So /\ Set(m, i, {"BAD"}) = With(m, i, c)
      BY <1>0, OneSocket DEF So, Flags, New
    <3>2. With(m, i, c) \in Mgr /\ With(m, i, c).sos[i] = c
      BY <1>0, <3>1, WithSocket
    <3>3. b = New(c.state, {}, c.cur, c.cap)
      BY DEF New
    <3> DEFINE M == With(m, i, c)
    <3> HIDE DEF c, b, M
    <3>4. Watch(M, i, {}) = With(M, i, New(M.sos[i].state, {}, M.sos[i].cur, M.sos[i].cap))
      BY <1>0, <3>2, OneSocket DEF M
    <3>5. Watch(M, i, {}) = With(M, i, b)
      BY <3>2, <3>3, <3>4 DEF M
    <3>6. With(M, i, b) = With(m, i, b)
      <4>1. m \in Mgr /\ i \in Ids /\ c \in So
        BY <1>0, <3>1
      <4>2. \A e : With(With(m, i, c), i, e) = With(m, i, e)
        BY <4>1, WithSocket
      <4> QED  BY <4>2, Zenon DEF M
    <3> QED  BY <3>1, <3>5, <3>6 DEF M, With
  <2> HIDE DEF x, w, d
  <2>3. x = [[m EXCEPT !.sos = [m.sos EXCEPT ![i] = b]] EXCEPT !.writesos = w, !.badsos = d]
    BY <1>0, <2>1, <2>2 DEF w, d, Mgr
  <2> HIDE DEF b
  <2> QED  BY <1>0, <2>3 DEF Mgr
<1> HIDE DEF x, w, d
<1>5. x \in Mgr
  <2>1. [m.sos EXCEPT ![i] = b] \in [Ids -> So]
    BY <1>0, <1>3
  <2> HIDE DEF b
  <2> QED  BY <1>0, <1>1, <1>2, <1>4, <2>1 DEF Mgr
<1>6. \A j \in Ids : x.sos[j] = IF j = i THEN b ELSE m.sos[j]
  <2> HIDE DEF b
  <2> QED  BY <1>0, <1>4
<1>7. "FREE" \notin b.state /\ "BAD" \in b.state /\ b.watch = {} /\ b.cur <= b.cap
      /\ b.state # {"WRITABLE"}
  BY <1>0 DEF Live, New
<1>11. \A j \in Ids : x.sos[j].state
                     = IF j = i THEN m.sos[i].state \cup {"BAD"} ELSE m.sos[j].state
  BY <1>6 DEF New
<1> HIDE DEF b
<1>8. QueuesOK(x, told)
  <2>1. i \notin told /\ "FREE" \notin m.sos[i].state
    BY <1>0 DEF QueuesOK, Live
  <2> QED  BY <1>0, <1>1, <1>2, <1>4, <1>6, <1>7, <2>1 DEF QueuesOK
<1>9. \A j \in Ids : SoOK(x.sos[j])
  BY <1>6, <1>7 DEF Loose, SoOK, Live
<1>10. \A j \in Ids : j \in Range(x.writesos) <=> ToWrite(x.sos[j])
  BY <1>1, <1>4, <1>6, <1>7 DEF Loose, ToWrite
<1> QED  BY <1>5, <1>8, <1>9, <1>10, <1>11 DEF MgrOK, x
\* No socket in use goes to the pool, and none but i gets a flag it did not have, except BAD.
Spares(m, x, i) ==
  \A j \in Ids : "FREE" \notin m.sos[j].state =>
    /\ "FREE" \notin x.sos[j].state
    /\ j # i => x.sos[j].state \ {"BAD"} \subseteq m.sos[j].state

\* somgr_remove_so of a socket in use, removed before or not.
LEMMA Removed ==
  ASSUME NEW m, NEW told, NEW i \in Ids, MgrOK(m, told), "FREE" \notin m.sos[i].state
  PROVE  MgrOK(RemoveSo(m, i), told) /\ Spares(m, RemoveSo(m, i), 0)
<1>1. CASE HasState(m, i, {"BAD"})
  BY <1>1 DEF RemoveSo, Spares
<1>2. CASE ~HasState(m, i, {"BAD"})
  <2>1. Loose(m, told, i)
    BY <1>2, Loosened DEF HasState, Live
  <2>2. /\ MgrOK(RemoveSo(m, i), told)
        /\ \A j \in Ids : RemoveSo(m, i).sos[j].state
                         = IF j = i THEN m.sos[i].state \cup {"BAD"} ELSE m.sos[j].state
    BY <2>1, Removing
  <2> QED  BY <2>2 DEF Spares
<1> QED  BY <1>1, <1>2

\* somgr_free_so of a socket that is in no queue.
LEMMA Freeing ==
  ASSUME NEW m, NEW told, NEW i, m \in Mgr, i \in Ids, QueuesOK(m, told),
         "FREE" \notin m.sos[i].state, i \notin Range(m.badsos),
         \A j \in Ids \ {i} : SoOK(m.sos[j]),
         \A j \in Ids : j \in Range(m.writesos) <=> j # i /\ ToWrite(m.sos[j])
  PROVE  MgrOK(FreeSo(m, i), told \ {i}) /\ \A j \in Ids \ {i} : FreeSo(m, i).sos[j] = m.sos[j]
<1> DEFINE x == FreeSo(m, i)
           f == Append(m.freesos, i)
<1>1. f \in Seq(Ids) /\ IsInjective(f) /\ \A y : y \in Range(f) <=> y \in Range(m.freesos) \/ y = i
  BY Pushing DEF QueuesOK, Mgr
<1>2. Pooled \in So /\ Pooled.state = {"FREE"} /\ SoOK(Pooled) /\ ~ToWrite(Pooled)
  BY DEF So, Pooled, Flags, SoOK, Live, ToWrite
<1>3. /\ x.sos = [m.sos EXCEPT ![i] = Pooled] /\ x.sosn = m.sosn /\ x.freesos = f
      /\ x.badsos = m.badsos /\ x.writesos = m.writesos
      /\ x = [m EXCEPT !.sos = [m.sos EXCEPT ![i] = Pooled], !.freesos = f]
  <2> HIDE DEF f
  <2>1. x = [m EXCEPT !.sos[i] = Pooled, !.freesos = f]
    BY DEF FreeSo, f, Mgr
  <2> QED  BY <2>1 DEF Mgr
<1> HIDE DEF x, f
<1>4. x \in Mgr
  <2>1. [m.sos EXCEPT ![i] = Pooled] \in [Ids -> So]
    BY <1>2 DEF Mgr
  <2> QED  BY <1>1, <1>3, <2>1 DEF Mgr
<1>5. \A j \in Ids : x.sos[j] = IF j = i THEN Pooled ELSE m.sos[j]
  BY <1>3 DEF Mgr
<1>6. i < m.sosn
  BY DEF QueuesOK, Mgr, Ids
<1>7. QueuesOK(x, told \ {i})
  BY <1>1, <1>2, <1>3, <1>5, <1>6 DEF QueuesOK
<1>8. /\ \A j \in Ids : SoOK(x.sos[j])
      /\ \A j \in Ids : j \in Range(x.writesos) <=> ToWrite(x.sos[j])
  BY <1>2, <1>3, <1>5
<1> QED  BY <1>4, <1>5, <1>7, <1>8 DEF MgrOK, x

-----------------------------------------------------------------------------
(* Opening a socket.                                                       *)

\* somgr_expand_sos: as many new sockets as there are, all in the pool.
LEMMA Refilling ==
  ASSUME NEW m, NEW told, MgrOK(m, told), CanAlloc(m)
  PROVE  /\ MgrOK(Refilled(m), told) /\ Refilled(m).sos = m.sos
         /\ Refilled(m).freesos # <<>>
<1>1. CASE m.freesos # <<>>
  BY <1>1 DEF Refilled
<1>2. CASE m.freesos = <<>>
  <2> DEFINE n == IF m.sosn = 0 THEN 2 ELSE 2 * m.sosn
             first == IF m.sosn = 0 THEN 1 ELSE m.sosn
             new == [k \in 1 .. n - first |-> first + k - 1]
             x == Refilled(m)
  <2>1. /\ x.sos = m.sos /\ x.sosn = n /\ x.freesos = new
        /\ x.badsos = m.badsos /\ x.writesos = m.writesos
        /\ x = [m EXCEPT !.sosn = n, !.freesos = new]
    <3> DEFINE f == m.freesos \o new
    <3>1. new \in Seq(Int)
      <4>1. n - first \in Nat /\ first \in Nat
        BY SomgrAssumption DEF MgrOK, Mgr
      <4> HIDE DEF n, first
      <4> QED  BY <4>1
    <3> HIDE DEF new
    <3>2. f = new
      BY <1>2, <3>1, ConcatEmptySeq
    <3>3. x = [m EXCEPT !.sosn = n, !.freesos = f]
      BY <1>2 DEF Refilled, ExpandSos, MgrOK, Mgr, new
    <3> HIDE DEF n, f, x
    <3>4. x = [m EXCEPT !.sosn = n, !.freesos = new]
      BY <3>2, <3>3
    <3> QED  BY <3>4 DEF MgrOK, Mgr
  <2>2. /\ n \in Nat /\ first \in Nat /\ first >= 1 /\ first < n /\ m.sosn <= first
        /\ n <= MaxSosn /\ MaxSosn \in Nat /\ \A i \in Ids : i < first => i < m.sosn
    BY <2>1, SomgrAssumption DEF CanAlloc, MgrOK, Mgr, Ids
  <2> HIDE DEF n, first
  <2>3. /\ new \in Seq(Ids) /\ IsInjective(new) /\ new # <<>>
        /\ \A y : y \in Range(new) <=> y \in first .. n - 1
    <3>1. new \in Seq(Ids)
      BY <2>2 DEF Ids
    <3>2. IsInjective(new)
      BY <2>2 DEF IsInjective
    <3>3. ASSUME NEW y PROVE y \in Range(new) <=> y \in first .. n - 1
      <4>1. ASSUME y \in first .. n - 1 PROVE y \in Range(new)
        <5>1. y - first + 1 \in 1 .. n - first /\ new[y - first + 1] = y
          BY <2>2, <4>1
        <5> QED  BY <5>1 DEF Range
      <4>2. ASSUME y \in Range(new) PROVE y \in first .. n - 1
        BY <2>2, <4>2 DEF Range
      <4> QED  BY <4>1, <4>2
    <3>4. new # <<>>
      BY <2>2, <3>3 DEF Range
    <3> QED  BY <3>1, <3>2, <3>3, <3>4
  <2> HIDE DEF new, x
  <2>4. x \in Mgr
    <3>1. n \in 0 .. MaxSosn /\ new \in Seq(Ids) /\ m \in Mgr
      BY <2>2, <2>3 DEF MgrOK
    <3> QED  BY <2>1, <3>1 DEF Mgr
  <2>5. QueuesOK(x, told)
    <3>1. ASSUME NEW i \in Ids
          PROVE  i \in Range(new) <=> i < n /\ "FREE" \in m.sos[i].state
      <4>1. i < m.sosn => "FREE" \notin m.sos[i].state
        <5>1. i \notin Range(m.freesos)
          BY <1>2 DEF Range
        <5> QED  BY <5>1 DEF MgrOK, QueuesOK
      <4>2. m.sosn <= i => "FREE" \in m.sos[i].state
        BY DEF MgrOK, QueuesOK
      <4>3. i \in Int /\ m.sosn \in Int
        BY DEF Ids, MgrOK, Mgr
      <4> QED  BY <2>2, <2>3, <4>1, <4>2, <4>3
    <3>2. \A i \in Ids : n <= i => m.sosn <= i
      BY <2>2 DEF Ids, MgrOK, Mgr
    <3> QED  BY <2>1, <2>3, <3>1, <3>2 DEF MgrOK, QueuesOK
  <2>6. MgrOK(x, told)
    BY <2>1, <2>4, <2>5 DEF MgrOK
  <2> QED  BY <2>1, <2>3, <2>6 DEF x
<1> QED  BY <1>1, <1>2
\* somgr_alloc_so with the epoll_ctl behind it: done, or undone when it fails.
Opened(m, sta) == AddSo(AllocSo(m, sta), AllocId(m))
Undone(m, sta) == FreeSo(AllocSo(m, sta), AllocId(m))

\* What somgr_alloc_so hands out was in the pool; it comes into use with epoll, or goes back.
LEMMA Opening ==
  ASSUME NEW m, NEW told, NEW sta \in {{}, {"LISTEN"}, {"CONNECTTING"}},
         MgrOK(m, told), CanAlloc(m)
  PROVE  /\ AllocId(m) \in Ids /\ "FREE" \in m.sos[AllocId(m)].state
         /\ MgrOK(Opened(m, sta), told) /\ MgrOK(Undone(m, sta), told)
         /\ \A j \in Ids \ {AllocId(m)} :
              Opened(m, sta).sos[j] = m.sos[j] /\ Undone(m, sta).sos[j] = m.sos[j]
         /\ "FREE" \notin Opened(m, sta).sos[AllocId(m)].state
<1> DEFINE i == AllocId(m)
           r == Refilled(m)
           a == AllocSo(m, sta)
           b == New(sta, {}, 0, 0)
           f == Tail(r.freesos)
<1>1. MgrOK(r, told) /\ r.sos = m.sos /\ r.freesos # <<>>
  BY Refilling
<1>2. i = Head(r.freesos)
  BY DEF AllocId
<1> HIDE DEF i, r
<1>3. /\ r \in Mgr /\ QueuesOK(r, told) /\ r.freesos \in Seq(Ids) /\ IsInjective(r.freesos)
      /\ r.sos \in [Ids -> So]
  BY <1>1 DEF MgrOK, QueuesOK, Mgr
<1>4. /\ i \in Ids /\ i \in Range(r.freesos) /\ f \in Seq(Ids) /\ IsInjective(f)
      /\ \A y : y \in Range(f) <=> y \in Range(r.freesos) /\ y # i
  BY <1>1, <1>2, <1>3, Popping, Zenon
<1>5. "FREE" \in m.sos[i].state /\ r.sos[i] = Pooled /\ i < r.sosn
  BY <1>1, <1>3, <1>4 DEF MgrOK, QueuesOK, SoOK
<1>6. b \in So /\ SoOK(Pooled)
  BY DEF So, New, Flags, SoOK, Pooled, Live
<1>7. Live(b) /\ b.cur = 0 /\ b.cap = 0 /\ b.state = sta
  BY DEF New, Live
<1>8. /\ a.sos = [r.sos EXCEPT ![i] = b] /\ a.sosn = r.sosn /\ a.freesos = f
      /\ a.badsos = r.badsos /\ a.writesos = r.writesos
      /\ a = [r EXCEPT !.sos = [r.sos EXCEPT ![i] = b], !.freesos = f]
  <2>1. a = [r EXCEPT !.freesos = f, !.sos[i].state = sta]
    BY <1>3 DEF AllocSo, i, r, f, Mgr
  <2>2. [r.sos[i] EXCEPT !.state = sta] = b
    BY <1>5 DEF Pooled, New
  <2> HIDE DEF a, b, f
  <2>3. a = [r EXCEPT !.sos = [r.sos EXCEPT ![i] = b], !.freesos = f]
    BY <1>3, <1>4, <2>1, <2>2 DEF Mgr
  <2> QED  BY <1>3, <2>3 DEF Mgr
<1> HIDE DEF a, b, f
<1>9. a \in Mgr
  <2>1. [r.sos EXCEPT ![i] = b] \in [Ids -> So]
    BY <1>3, <1>6
  <2> QED  BY <1>3, <1>4, <1>8, <2>1 DEF Mgr
<1>10. /\ \A j \in Ids \ {i} : a.sos[j] = m.sos[j]
       /\ a.sos[i] = b
  BY <1>1, <1>3, <1>4, <1>8
<1>11. i \notin told /\ i \notin Range(a.badsos) /\ i \notin Range(a.writesos)
  BY <1>1, <1>3, <1>4, <1>5, <1>8 DEF MgrOK, QueuesOK, Pooled, ToWrite
<1>12. QueuesOK(a, told)
  <2>1. /\ IsInjective(a.freesos) /\ IsInjective(a.badsos) /\ IsInjective(a.writesos)
        /\ \A j \in told : "BAD" \in r.sos[j].state
    BY <1>3, <1>4, <1>8 DEF QueuesOK
  <2>2. ASSUME NEW j \in Ids
        PROVE  /\ j \in Range(a.freesos) <=> j < a.sosn /\ "FREE" \in a.sos[j].state
               /\ j \in Range(a.badsos) <=> j \notin told /\ "BAD" \in a.sos[j].state
               /\ a.sosn <= j => "FREE" \in a.sos[j].state
               /\ j \in told => j # i /\ "BAD" \in a.sos[j].state
    <3>1. CASE j = i
      <4>1. "FREE" \notin b.state /\ "BAD" \notin b.state /\ ~(r.sosn <= i)
        BY <1>3, <1>4, <1>5, <1>7 DEF Live, Ids, Mgr
      <4> QED  BY <1>4, <1>8, <1>10, <1>11, <3>1, <4>1
    <3>2. CASE j # i
      <4>1. a.sos[j] = r.sos[j]
        BY <1>1, <1>10, <3>2
      <4> QED  BY <1>3, <1>4, <1>8, <3>2, <4>1 DEF QueuesOK
    <3> QED  BY <3>1, <3>2
  <2>3. \A j \in told : j \in Ids
    BY <1>3 DEF QueuesOK
  <2> QED  BY <2>1, <2>2, <2>3 DEF QueuesOK
<1>13. /\ \A j \in Ids \ {i} : SoOK(a.sos[j])
       /\ \A j \in Ids \ {i} : j \in Range(a.writesos) <=> ToWrite(a.sos[j])
  BY <1>1, <1>8, <1>10 DEF MgrOK
<1>14. Works(a, a, told, i, b)
  BY <1>4, <1>7, <1>9, <1>10, <1>12, <1>13 DEF Works, Loose, New
<1>15. /\ MgrOK(FreeSo(a, i), told)
       /\ \A j \in Ids \ {i} : FreeSo(a, i).sos[j] = m.sos[j]
  <2>1. "FREE" \notin a.sos[i].state
    BY <1>7, <1>10 DEF Live
  <2>2. \A j \in Ids : j \in Range(a.writesos) <=> j # i /\ ToWrite(a.sos[j])
    BY <1>11, <1>13
  <2>3. /\ MgrOK(FreeSo(a, i), told \ {i})
        /\ \A j \in Ids \ {i} : FreeSo(a, i).sos[j] = a.sos[j]
    BY SMTT(60), <1>4, <1>9, <1>11, <1>12, <1>13, <2>1, <2>2, Freeing
  <2>4. told \ {i} = told
    BY <1>11
  <2> QED  BY <1>10, <2>3, <2>4
<1>16. /\ MgrOK(AddSo(a, i), told)
       /\ \A j \in Ids \ {i} : AddSo(a, i).sos[j] = m.sos[j]
       /\ "FREE" \notin AddSo(a, i).sos[i].state
  <2> DEFINE x == AddSo(a, i)
  <2>1. PICK c : /\ Works(a, x, told, i, c) /\ SoOK(c) /\ ~ToWrite(c)
    <3>1. CASE sta = {"CONNECTTING"}
      <4> DEFINE c == New(b.state, {"out"}, b.cur, b.cap)
      <4>1. x = Watch(a, i, {"out"})
        BY <1>7, <1>10, <3>1 DEF AddSo, HasState
      <4>2. {"out"} \in SUBSET {"in", "out"}
        OBVIOUS
      <4>5. \A ev \in SUBSET {"in", "out"} :
              Works(a, Watch(a, i, ev), told, i, New(b.state, ev, b.cur, b.cap))
        BY <1>14, Working
      <4>3. Works(a, x, told, i, c)
        BY <4>1, <4>2, <4>5, Zenon
      <4>4. SoOK(c) /\ ~ToWrite(c)
        BY <1>7, <3>1 DEF SoOK, Live, New, ToWrite
      <4> QED  BY <4>3, <4>4
    <3>2. CASE sta # {"CONNECTTING"}
      <4> DEFINE d == New(b.state \cup {"WRITABLE"}, b.watch, b.cur, b.cap)
                 c == New(d.state, {"in"}, d.cur, d.cap)
      <4>1. x = Watch(Set(a, i, {"WRITABLE"}), i, {"in"})
        BY <1>7, <1>10, <3>2 DEF AddSo, HasState
      <4>2. {"in"} \in SUBSET {"in", "out"}
        OBVIOUS
      <4>3. Works(a, Set(a, i, {"WRITABLE"}), told, i, d)
        BY <1>14, Working
      <4> HIDE DEF d
      <4> DEFINE s == Set(a, i, {"WRITABLE"})
      <4> HIDE DEF s
      <4>6. \A ev \in SUBSET {"in", "out"} :
              Works(a, Watch(s, i, ev), told, i, New(d.state, ev, d.cur, d.cap))
        BY <4>3, Working DEF s
      <4>4. Works(a, x, told, i, c)
        BY <4>1, <4>2, <4>6, Zenon DEF s
      <4>5. SoOK(c) /\ ~ToWrite(c)
        BY <1>7, <3>2 DEF SoOK, Live, New, ToWrite, d
      <4> QED  BY <4>4, <4>5
    <3> QED  BY <3>1, <3>2
  <2> HIDE DEF x
  <2>2. /\ Loose(x, told, i) /\ x.sos[i] = c /\ x.writesos = a.writesos
        /\ \A j \in Ids \ {i} : x.sos[j] = a.sos[j]
    BY <2>1 DEF Works
  <2>3. MgrOK(x, told)
    <3>1. SoOK(x.sos[i]) /\ (i \in Range(x.writesos) <=> ToWrite(x.sos[i]))
      BY <1>11, <2>1, <2>2
    <3> QED  BY <2>2, <3>1, Tightened
  <2>4. "FREE" \notin x.sos[i].state
    BY <2>2 DEF Loose, Live
  <2> QED  BY <1>10, <2>2, <2>3, <2>4 DEF x
<1> QED  BY <1>4, <1>5, <1>15, <1>16 DEF i, a, Opened, Undone
-----------------------------------------------------------------------------
(* Sending and storing.                                                    *)

\* What a flush leaves of a connection that can be written: removed, empty, or blocked and
\* watched; its place in the queue is as it was.
LEMMA Sending ==
  ASSUME NEW m, NEW told, NEW i, Loose(m, told, i),
         m.sos[i].state = {"WRITABLE"}, m.sos[i].watch = {"in"},
         NEW left \in -1 .. m.sos[i].cur, NEW ok
  PROVE  LET x == Pushed(m, i, left, ok) IN
         /\ Spares(m, x, 0)
         /\ \/ MgrOK(x, told) /\ "BAD" \in x.sos[i].state
            \/ /\ Loose(x, told, i) /\ SoOK(x.sos[i]) /\ ~ToWrite(x.sos[i])
               /\ x.sos[i].state \in {{}, {"WRITABLE"}} /\ x.writesos = m.writesos
<1> DEFINE b == m.sos[i]
           x == Pushed(m, i, left, ok)
<1>1. /\ i \in Ids /\ b \in So /\ b.cur \in Nat /\ b.cur <= b.cap
  BY DEF Loose, Mgr, So
<1>2. Works(m, m, told, i, b)
  BY DEF Works
<1>3. CASE left < 0
  <2>1. x = RemoveSo(m, i)
    BY <1>3 DEF Pushed
  <2> HIDE DEF x
  <2>4. /\ MgrOK(RemoveSo(m, i), told)
        /\ \A j \in Ids : RemoveSo(m, i).sos[j].state
                         = IF j = i THEN m.sos[i].state \cup {"BAD"} ELSE m.sos[j].state
    BY ZenonT(60), Removing
  <2>2. /\ MgrOK(x, told)
        /\ \A j \in Ids : x.sos[j].state
                         = IF j = i THEN m.sos[i].state \cup {"BAD"} ELSE m.sos[j].state
    BY <2>1, <2>4, Zenon
  <2>3. Spares(m, x, 0) /\ MgrOK(x, told) /\ "BAD" \in x.sos[i].state
    BY <1>1, <2>2 DEF Spares
  <2> QED  BY <2>3 DEF x
<1>4. CASE left >= 0
  <2> DEFINE c == New(b.state, b.watch, left, b.cap)
             y == Flushed(m, i, left)
  <2>1. left \in 0 .. b.cur
    BY <1>1, <1>4
  <2>2. Works(m, y, told, i, c)
    <3>1. \A l \in 0 .. b.cur : Works(m, Flushed(m, i, l), told, i, New(b.state, b.watch, l, b.cap))
      BY <1>2, Working
    <3> QED  BY <2>1, <3>1
  <2>3. CASE left = 0
    <3>1. x = y
      BY <2>3 DEF Pushed
    <3>2. SoOK(c) /\ ~ToWrite(c) /\ c.state = {"WRITABLE"}
      BY <1>1, <2>3 DEF New, SoOK, Live, ToWrite, So
    <3> HIDE DEF x, y, c
    <3>3. /\ Loose(x, told, i) /\ x.sos[i] = c /\ x.writesos = m.writesos
          /\ \A j \in Ids \ {i} : x.sos[j] = m.sos[j]
      BY <2>2, <3>1 DEF Works
    <3>4. Spares(m, x, 0)
      BY <3>2, <3>3 DEF Spares
    <3> QED  BY <3>2, <3>3, <3>4 DEF x
  <2>4. CASE left > 0
    <3> DEFINE z == Clear(y, i, {"WRITABLE"})
               d == New(c.state \ {"WRITABLE"}, c.watch, c.cur, c.cap)
    <3>1. Works(m, z, told, i, d)
      BY <2>2, Working
    <3>2. d.state = {} /\ d.cur = left /\ d.cap = b.cap
      BY DEF New
    <3>3. x = IF ok THEN Watch(z, i, {"in", "out"}) ELSE RemoveSo(z, i)
      BY <2>4 DEF Pushed, Blocked, ModSo
    <3> HIDE DEF x, y, z, c, d
    <3>4. CASE ok
      <4> DEFINE e == New(d.state, {"in", "out"}, d.cur, d.cap)
      <4>1. Works(m, x, told, i, e)
        <5>1. \A ev \in SUBSET {"in", "out"} :
                Works(m, Watch(z, i, ev), told, i, New(d.state, ev, d.cur, d.cap))
          BY <3>1, Working
        <5>2. {"in", "out"} \in SUBSET {"in", "out"}
          OBVIOUS
        <5> QED  BY <3>3, <3>4, <5>1, <5>2, Zenon
      <4>2. SoOK(e) /\ ~ToWrite(e) /\ e.state = {}
        BY <1>1, <2>1, <3>2 DEF New, SoOK, Live, ToWrite, So
      <4> HIDE DEF e
      <4>3. /\ Loose(x, told, i) /\ x.sos[i] = e /\ x.writesos = m.writesos
            /\ \A j \in Ids \ {i} : x.sos[j] = m.sos[j]
        BY <4>1 DEF Works
      <4>4. Spares(m, x, 0)
        BY <4>2, <4>3 DEF Spares
      <4> QED  BY <4>2, <4>3, <4>4 DEF x
    <3>5. CASE ~ok
      <4>1. /\ Loose(z, told, i) /\ z.sos[i] = d
            /\ \A j \in Ids \ {i} : z.sos[j] = m.sos[j]
        BY <3>1 DEF Works
      <4>2. /\ MgrOK(x, told)
            /\ \A j \in Ids : x.sos[j].state
                             = IF j = i THEN z.sos[i].state \cup {"BAD"} ELSE z.sos[j].state
        BY <3>3, <3>5, <4>1, Removing
      <4>3. Spares(m, x, 0)
        BY <3>2, <4>1, <4>2 DEF Spares
      <4>4. "BAD" \in x.sos[i].state
        BY <1>1, <4>2
      <4> QED  BY <4>2, <4>3, <4>4 DEF x
    <3> QED  BY <3>4, <3>5
  <2> QED  BY <1>1, <1>4, <2>3, <2>4
<1> QED  BY <1>1, <1>3, <1>4

\* sbuf_expand makes room.
LEMMA Expanding ==
  ASSUME NEW b, NEW need \in Nat, b.cap \in Nat
  PROVE  Expanded(b, need) \in Nat /\ Expanded(b, need) >= b.cap + need
<1> DEFINE n == b.cap + need + Chunk
<1>1. n \in Nat /\ Chunk \in Nat /\ Chunk > 0
  BY SomgrAssumption
<1> HIDE DEF n
<1>2. /\ n \div Chunk \in Nat
      /\ n = Chunk * (n \div Chunk) + (n % Chunk)
      /\ n % Chunk \in 0 .. Chunk - 1
  BY <1>1
<1> DEFINE q == n \div Chunk
<1>3. q \in Nat /\ q * Chunk = Chunk * q /\ q * Chunk \in Nat
  BY <1>1, <1>2
<1> HIDE DEF q
<1>4. q * Chunk > n - Chunk
  BY <1>1, <1>2, <1>3 DEF q
<1>5. Expanded(b, need) = q * Chunk
  BY DEF Expanded, q, n
<1> QED  BY <1>1, <1>3, <1>4, <1>5 DEF n

\* The end of somgr_write leaves a connection queued exactly if it can be written.
LEMMA Storing ==
  ASSUME NEW m, NEW told, NEW i, Loose(m, told, i), SoOK(m.sos[i]),
         m.sos[i].state \in {{}, {"WRITABLE"}}, NEW dlen \in Nat \ {0}
  PROVE  MgrOK(Store(m, i, dlen), told) /\ Spares(m, Store(m, i, dlen), 0)
<1> DEFINE b == m.sos[i]
           free == b.cap - b.cur
           room == IF free < dlen THEN Expanded(b, dlen - free) ELSE b.cap
           c == New(b.state, b.watch, b.cur + dlen, room)
           w == IF ~HasState(m, i, {"WRITABLE"}) THEN Without(m.writesos, i)
                ELSE IF i \in Range(m.writesos) THEN m.writesos ELSE Append(m.writesos, i)
           x == Store(m, i, dlen)
<1>1. /\ i \in Ids /\ m \in Mgr /\ b \in So /\ b.cur \in Nat /\ b.cap \in Nat /\ b.cur <= b.cap
      /\ m.writesos \in Seq(Ids) /\ IsInjective(m.writesos)
  BY DEF Loose, Mgr, So, QueuesOK
<1>2. room \in Nat /\ b.cur + dlen <= room
  <2>1. CASE free < dlen
    <3>1. dlen - free \in Nat
      BY <1>1, <2>1
    <3>2. Expanded(b, dlen - free) \in Nat /\ Expanded(b, dlen - free) >= b.cap + (dlen - free)
      BY <1>1, <3>1, Expanding
    <3> QED  BY <1>1, <2>1, <3>2
  <2>2. CASE ~(free < dlen)
    BY <1>1, <2>2
  <2> QED  BY <2>1, <2>2
<1>3. /\ w \in Seq(Ids) /\ IsInjective(w)
      /\ \A j \in Ids \ {i} : j \in Range(w) <=> j \in Range(m.writesos)
      /\ i \in Range(w) <=> "WRITABLE" \in b.state
  <2>1. HasState(m, i, {"WRITABLE"}) <=> "WRITABLE" \in b.state
    BY DEF HasState
  <2>2. CASE "WRITABLE" \notin b.state
    BY <1>1, <2>1, <2>2, Erasing
  <2>3. CASE "WRITABLE" \in b.state /\ i \in Range(m.writesos)
    BY <1>1, <2>1, <2>3
  <2>4. CASE "WRITABLE" \in b.state /\ i \notin Range(m.writesos)
    BY <1>1, <2>1, <2>4, Pushing
  <2> QED  BY <2>2, <2>3, <2>4
<1> HIDE DEF room
<1>4. c \in So /\ Live(c) /\ c.cur <= c.cap /\ SoOK(c) /\ (ToWrite(c) <=> "WRITABLE" \in b.state)
      /\ c.state = b.state
  BY <1>1, <1>2 DEF New, So, Live, SoOK, Flags, ToWrite
<1>5. x = [[m EXCEPT !.sos[i] = c] EXCEPT !.writesos = w]
  <2>1. \A q \in So : [[q EXCEPT !.cap = room] EXCEPT !.cur = @ + dlen]
                      = New(q.state, q.watch, q.cur + dlen, room)
    <3> TAKE q \in So
    <3> DEFINE s == q.state
               e == q.watch
               u == q.cur
               p == q.cap
    <3>1. q = New(s, e, u, p) /\ u \in Nat
      BY DEF New, So
    <3> HIDE DEF s, e, u, p
    <3>2. [q EXCEPT !.cap = room] = New(s, e, u, room)
      BY <3>1 DEF New
    <3>3. [New(s, e, u, room) EXCEPT !.cur = @ + dlen] = New(s, e, u + dlen, room)
      BY <3>1 DEF New
    <3>4. [[q EXCEPT !.cap = room] EXCEPT !.cur = @ + dlen] = New(s, e, u + dlen, room)
      BY <3>2, <3>3
    <3> QED  BY <3>4 DEF s, e, u
  <2>2. x = [[[m EXCEPT !.sos[i].cap = room] EXCEPT !.sos[i].cur = @ + dlen] EXCEPT !.writesos = w]
    BY <1>1 DEF Store, room, Mgr
  <2>3. [[m EXCEPT !.sos[i].cap = room] EXCEPT !.sos[i].cur = @ + dlen] = [m EXCEPT !.sos[i] = c]
    <3>1. \A f \in [Ids -> So] :
             [[f EXCEPT ![i].cap = room] EXCEPT ![i].cur = @ + dlen]
               = [f EXCEPT ![i] = New(f[i].state, f[i].watch, f[i].cur + dlen, room)]
      <4> TAKE f \in [Ids -> So]
      <4>1. [[f EXCEPT ![i].cap = room] EXCEPT ![i].cur = @ + dlen]
              = [f EXCEPT ![i] = [[f[i] EXCEPT !.cap = room] EXCEPT !.cur = @ + dlen]]
        BY <1>1
      <4> QED  BY <1>1, <2>1, <4>1
    <3>2. m.sos \in [Ids -> So]
      BY <1>1 DEF Mgr
    <3>3. [[m EXCEPT !.sos[i].cap = room] EXCEPT !.sos[i].cur = @ + dlen]
            = [m EXCEPT !.sos = [[m.sos EXCEPT ![i].cap = room] EXCEPT ![i].cur = @ + dlen]]
      <4> DEFINE g == [m.sos EXCEPT ![i].cap = room]
      <4>1. [m EXCEPT !.sos[i].cap = room] = [m EXCEPT !.sos = g]
        BY <1>1 DEF Mgr
      <4> HIDE DEF g
      <4>2. [[m EXCEPT !.sos = g] EXCEPT !.sos[i].cur = @ + dlen]
              = [m EXCEPT !.sos = [g EXCEPT ![i].cur = @ + dlen]]
        BY <1>1 DEF Mgr
      <4> QED  BY <4>1, <4>2 DEF g
    <3> QED  BY <3>1, <3>2, <3>3
  <2> HIDE DEF c, w, x
  <2> QED  BY <2>2, <2>3
<1> HIDE DEF c, w, x
<1> DEFINE y == [m EXCEPT !.sos[i] = c]
<1>6. Loose(y, told, i) /\ y.sos = [m.sos EXCEPT ![i] = c] /\ y.writesos = m.writesos
  <2>1. y.sos = [m.sos EXCEPT ![i] = c] /\ y.writesos = m.writesos
    BY <1>1 DEF Mgr
  <2> QED  BY <1>4, <2>1, LooseSocket
<1>7. x = [y EXCEPT !.writesos = w]
  BY <1>5
<1> HIDE DEF y
<1>8. Loose(x, told, i)
  BY <1>3, <1>6, <1>7, LooseQueue
<1>9. x.sos = [m.sos EXCEPT ![i] = c] /\ x.writesos = w
  BY <1>6, <1>7 DEF Loose, Mgr
<1>10. \A j \in Ids : x.sos[j] = IF j = i THEN c ELSE m.sos[j]
  BY <1>1, <1>9 DEF Mgr
<1>11. MgrOK(x, told)
  <2>1. SoOK(x.sos[i]) /\ (i \in Range(x.writesos) <=> ToWrite(x.sos[i]))
    BY <1>1, <1>3, <1>4, <1>9, <1>10
  <2> QED  BY <1>8, <2>1, Tightened
<1>12. Spares(m, x, 0)
  BY <1>4, <1>10 DEF Spares
<1> QED  BY <1>11, <1>12 DEF x
-----------------------------------------------------------------------------
(* Handling events.                                                        *)

\* somgr_proc_rw after EPOLLOUT: of the assertions, only that the socket was not kicked can
\* fail; a socket that was not is live, so it waits in no queue.
LEMMA Outing ==
  ASSUME MgrOK(mgr, {}), crashed = "no", NEW i \in Ids, ProcOut(i),
         mgr.sos[i].state \cap {"FREE", "LISTEN", "CONNECTTING", "WRITABLE"} = {}
  PROVE  /\ MgrOK(mgr', {}) /\ Spares(mgr, mgr', i)
         /\ \/ crashed' = "kicked" /\ UNCHANGED <<mgr, call>>
            \/ crashed' = "no" /\ call' = NoCall
<1> DEFINE b == mgr.sos[i]
           m == Set(mgr, i, {"WRITABLE"})
           c == New(b.state \cup {"WRITABLE"}, b.watch, b.cur, b.cap)
<1>1. ~HasState(mgr, i, {"WRITABLE"}) /\ ~ToWrite(b) /\ i \notin Range(mgr.writesos)
  BY DEF HasState, ToWrite, MgrOK
<1>2. CASE i \in Range(mgr.badsos)
  BY <1>1, <1>2 DEF ProcOut, Crash, Spares
<1>3. CASE i \notin Range(mgr.badsos)
  <2>1. Live(b)
    BY <1>3 DEF MgrOK, QueuesOK, Live
  <2>2. /\ b.state = {} /\ b.watch = {"in", "out"} /\ b \in So /\ b.cur \in Nat
        /\ b.cap \in Nat /\ b.cur <= b.cap
    BY <2>1 DEF MgrOK, SoOK, Mgr, So
  <2>3. Loose(mgr, {}, i) /\ Works(mgr, mgr, {}, i, b)
    BY <2>1, Loosened DEF Works
  <2>4. Works(mgr, m, {}, i, c)
    BY <2>3, Working
  <2>5. PICK left \in FlushResults(mgr, i), ok \in ModResults(mgr, i) :
          CASE left < 0 -> Becomes(RemoveSo(m, i))
            [] left > 0 -> Becomes(Flushed(mgr, i, left))
            [] OTHER -> Becomes(IF ok THEN ModSo(Flushed(m, i, 0), i, FALSE)
                                ELSE RemoveSo(Flushed(m, i, 0), i))
    BY <1>1, <1>3 DEF ProcOut
  <2>6. left \in -1 .. b.cur
    BY <2>2, <2>5 DEF FlushResults
  <2>7. crashed' = "no" /\ call' = NoCall
    BY <2>2, <2>5, <2>6 DEF Becomes
  <2>8. ASSUME NEW x, NEW d, Works(mgr, x, {}, i, d), mgr' = RemoveSo(x, i)
        PROVE  MgrOK(mgr', {}) /\ Spares(mgr, mgr', i)
    <3>1. /\ Loose(x, {}, i) /\ \A j \in Ids \ {i} : x.sos[j] = mgr.sos[j]
          /\ "FREE" \notin x.sos[i].state
      BY <2>8 DEF Works, Loose, Live
    <3>2. /\ MgrOK(mgr', {})
          /\ \A j \in Ids : mgr'.sos[j].state
                           = IF j = i THEN x.sos[i].state \cup {"BAD"} ELSE x.sos[j].state
      BY <2>8, <3>1, Removing
    <3> QED  BY <3>1, <3>2 DEF Spares
  <2>9. ASSUME NEW d, Works(mgr, mgr', {}, i, d), SoOK(d), ~ToWrite(d)
        PROVE  MgrOK(mgr', {}) /\ Spares(mgr, mgr', i)
    <3>1. /\ Loose(mgr', {}, i) /\ mgr'.sos[i] = d /\ mgr'.writesos = mgr.writesos
          /\ \A j \in Ids \ {i} : mgr'.sos[j] = mgr.sos[j]
      BY <2>9 DEF Works
    <3>2. SoOK(mgr'.sos[i]) /\ (i \in Range(mgr'.writesos) <=> ToWrite(mgr'.sos[i]))
      BY <1>1, <2>9, <3>1
    <3>3. MgrOK(mgr', {})
      BY <3>1, <3>2, Tightened
    <3>4. "FREE" \notin d.state
      BY <3>1 DEF Loose, Live
    <3> QED  BY <3>1, <3>3, <3>4 DEF Spares
  <2>10. CASE left < 0
    <3>1. mgr' = RemoveSo(m, i)
      <4>1. left < 0 /\ ~(left > 0)
        BY <2>2, <2>6, <2>10
      <4> QED  BY <2>5, <4>1, Zenon DEF Becomes
    <3> QED  BY <2>4, <2>7, <2>8, <3>1
  <2>11. CASE left > 0
    <3> DEFINE d == New(b.state, b.watch, left, b.cap)
    <3>1. mgr' = Flushed(mgr, i, left) /\ left \in 0 .. b.cur
      BY <2>2, <2>5, <2>6, <2>11 DEF Becomes
    <3>2. \A l \in 0 .. b.cur :
            Works(mgr, Flushed(mgr, i, l), {}, i, New(b.state, b.watch, l, b.cap))
      BY <2>3, Working
    <3>3. Works(mgr, mgr', {}, i, d)
      BY <3>1, <3>2, Zenon
    <3>4. SoOK(d) /\ ~ToWrite(d)
      BY <2>2, <3>1 DEF New, SoOK, Live, ToWrite
    <3> QED  BY <2>7, <2>9, <3>3, <3>4
  <2>12. CASE left = 0
    <3> DEFINE d == New(c.state, c.watch, 0, c.cap)
               y == Flushed(m, i, 0)
               e == New(d.state, {"in"}, d.cur, d.cap)
    <3>1. mgr' = IF ok THEN Watch(y, i, {"in"}) ELSE RemoveSo(y, i)
      BY <2>5, <2>12 DEF Becomes, ModSo
    <3>2. 0 \in 0 .. c.cur /\ c.state = {"WRITABLE"} /\ c.cap \in Nat
      BY <2>2 DEF New
    <3>3. \A l \in 0 .. c.cur : Works(mgr, Flushed(m, i, l), {}, i, New(c.state, c.watch, l, c.cap))
      <4> HIDE DEF c, m
      <4> QED  BY <2>4, Working
    <3>4. Works(mgr, y, {}, i, d)
      <4> HIDE DEF c, m
      <4> QED  BY <3>2, <3>3, Zenon
    <3>5. d.state = {"WRITABLE"} /\ d.cur = 0 /\ d.cap \in Nat
      BY <3>2 DEF New
    <3> HIDE DEF c, m, y, d
    <3>6. CASE ok
      <4>1. \A ev \in SUBSET {"in", "out"} :
              Works(mgr, Watch(y, i, ev), {}, i, New(d.state, ev, d.cur, d.cap))
        BY <3>4, Working
      <4>2. {"in"} \in SUBSET {"in", "out"}
        OBVIOUS
      <4>3. Works(mgr, mgr', {}, i, e)
        BY <3>1, <3>6, <4>1, <4>2, Zenon
      <4>4. SoOK(e) /\ ~ToWrite(e)
        BY <3>5 DEF New, SoOK, Live, ToWrite
      <4> HIDE DEF e
      <4> QED  BY <2>7, <2>9, <4>3, <4>4
    <3>7. CASE ~ok
      <4>1. mgr' = RemoveSo(y, i)
        BY <3>1, <3>7
      <4> QED  BY <2>7, <2>8, <3>4, <4>1
    <3> QED  BY <3>6, <3>7
  <2> QED  BY <2>6, <2>10, <2>11, <2>12
<1> QED  BY <1>2, <1>3

\* somgr_proc_connected: a live connection, which epoll_ctl found, can be written and has nothing
\* to write.
LEMMA Connecting ==
  ASSUME MgrOK(mgr, {}), crashed = "no", NEW i \in Ids, ProcConnected(i),
         "FREE" \notin mgr.sos[i].state, "CONNECTTING" \in mgr.sos[i].state
  PROVE  /\ MgrOK(mgr', {}) /\ Spares(mgr, mgr', i) /\ crashed' = "no"
         /\ call' \in {NoCall, [to |-> "ccb", id |-> i, ev |-> {}]}
<1> DEFINE b == mgr.sos[i]
<1>1. CASE Becomes(RemoveSo(mgr, i))
  <2>1. MgrOK(mgr', {}) /\ Spares(mgr, mgr', 0)
    BY <1>1, Removed DEF Becomes
  <2> QED  BY <1>1, <2>1 DEF Becomes, Spares, Ids
<1>2. CASE /\ TRUE \in ModResults(mgr, i)
           /\ Calls(Clear(Set(ModSo(mgr, i, FALSE), i, {"WRITABLE"}), i, {"CONNECTTING"}),
                    "ccb", i, {})
  <2>1. b \in So /\ SoOK(b)
    BY DEF MgrOK, Mgr
  <2>2. b.watch # {} /\ Live(b)
    BY <1>2, <2>1 DEF ModResults, SoOK, Live
  <2>3. b.state = {"CONNECTTING"} /\ b.cur = 0 /\ b.cap \in Nat /\ ~ToWrite(b)
    BY <2>1, <2>2 DEF SoOK, So, ToWrite
  <2>4. Works(mgr, mgr, {}, i, b)
    BY <2>2, Loosened DEF Works
  <2> DEFINE x == ModSo(mgr, i, FALSE)
             c == New(b.state, {"in"}, b.cur, b.cap)
             y == Set(x, i, {"WRITABLE"})
             d == New(c.state \cup {"WRITABLE"}, c.watch, c.cur, c.cap)
             z == Clear(y, i, {"CONNECTTING"})
             e == New(d.state \ {"CONNECTTING"}, d.watch, d.cur, d.cap)
  <2>5. Works(mgr, x, {}, i, c)
    <3>1. \A ev \in SUBSET {"in", "out"} :
            Works(mgr, Watch(mgr, i, ev), {}, i, New(b.state, ev, b.cur, b.cap))
      BY <2>4, Working
    <3>2. {"in"} \in SUBSET {"in", "out"} /\ x = Watch(mgr, i, {"in"})
      BY DEF ModSo
    <3> QED  BY <3>1, <3>2, Zenon
  <2>6. e.state = {"WRITABLE"} /\ e.watch = {"in"} /\ e.cur = 0 /\ e.cap \in Nat
    BY <2>3 DEF New
  <2>7. SoOK(e) /\ ~ToWrite(e)
    BY <2>6 DEF SoOK, Live, ToWrite, New
  <2>8. mgr' = z /\ crashed' = "no" /\ call' = [to |-> "ccb", id |-> i, ev |-> {}]
    BY <1>2 DEF Calls
  <2> HIDE DEF x, c
  <2>9. Works(mgr, y, {}, i, d)
    BY <2>5, Working
  <2> HIDE DEF y, d
  <2>10. Works(mgr, z, {}, i, e)
    BY <2>9, Working
  <2> HIDE DEF z, e
  <2>11. /\ Loose(mgr', {}, i) /\ mgr'.sos[i] = e /\ mgr'.writesos = mgr.writesos
         /\ \A j \in Ids \ {i} : mgr'.sos[j] = mgr.sos[j]
    BY <2>8, <2>10 DEF Works
  <2>12. SoOK(mgr'.sos[i]) /\ (i \in Range(mgr'.writesos) <=> ToWrite(mgr'.sos[i]))
    BY <2>3, <2>7, <2>11 DEF MgrOK
  <2>13. MgrOK(mgr', {})
    BY <2>11, <2>12, Tightened
  <2> QED  BY <2>6, <2>8, <2>11, <2>13 DEF Spares
<1> QED  BY <1>1, <1>2 DEF ProcConnected
-----------------------------------------------------------------------------
(* The steps.                                                              *)

\* A socket goes back to the pool only when its owner is being told, or with the manager.
TellsFirst ==
  \A i \in Ids :
    ~HasState(mgr, i, {"FREE"}) /\ HasState(mgr', i, {"FREE"}) => Being(i) \/ pc' = "destroyed"

\* A step that spares the sockets frees none untold,
LEMMA Sparing ==
  ASSUME NEW i, Spares(mgr, mgr', i)
  PROVE  TellsFirst
BY DEF Spares, TellsFirst, HasState

\* and what was known of the events and of the call stays known.
LEMMA Keeping ==
  ASSUME Spares(mgr, mgr', 0), pc' = pc
  PROVE  /\ EventsOK /\ evs' = evs => EventsOK'
         /\ CallOK /\ UNCHANGED <<call, evs>> => CallOK'
<1>1. \A i \in Ids : "FREE" \notin mgr.sos[i].state =>
        /\ "FREE" \notin mgr'.sos[i].state
        /\ mgr'.sos[i].state \ {"BAD"} \subseteq mgr.sos[i].state
  BY DEF Spares, Ids
<1> QED  BY <1>1 DEF EventsOK, CallOK

\* The interface is called by callbacks too; it leaves somgr_runonce where it was.
LEMMA Owning ==
  ASSUME SomgrInv, Owner, MgrOK(mgr', Told), Spares(mgr, mgr', 0)
  PROVE  SomgrInv' /\ TellsFirst
<1>1. UNCHANGED <<pc, call, evs, crashed>> /\ nCalls' = nCalls + 1 /\ nCalls < MaxCalls
  BY DEF Owner
<1>2. Control'
  BY <1>1, SomgrAssumption DEF SomgrInv, Control
<1>3. EventsOK' /\ CallOK'
  BY <1>1, Keeping DEF SomgrInv
<1>4. MgrOK(mgr, Told)' /\ NotCrashed'
  BY <1>1 DEF SomgrInv, NotCrashed, Told
<1> QED  BY <1>2, <1>3, <1>4, Sparing DEF SomgrInv

\* somgr_listen and somgr_connect.
LEMMA StepOpen ==
  ASSUME SomgrInv, NEW sta \in {{"LISTEN"}, {"CONNECTTING"}}, Open(sta)
  PROVE  SomgrInv' /\ TellsFirst
<1> DEFINE i == AllocId(mgr)
           x == Opened(mgr, sta)
           y == Undone(mgr, sta)
<1>1. Owner /\ CanAlloc(mgr) /\ mgr' \in {x, y} /\ MgrOK(mgr, Told)
  BY DEF Open, SomgrInv, Opened, Undone
<1>2. /\ i \in Ids /\ "FREE" \in mgr.sos[i].state
      /\ MgrOK(x, Told) /\ MgrOK(y, Told)
      /\ \A j \in Ids \ {i} : x.sos[j] = mgr.sos[j] /\ y.sos[j] = mgr.sos[j]
  <2>1. sta \in {{}, {"LISTEN"}, {"CONNECTTING"}} /\ MgrOK(mgr, Told) /\ CanAlloc(mgr)
    BY <1>1
  <2> QED  BY ZenonT(60), <2>1, Opening
<1> HIDE DEF i, x, y
<1>3. MgrOK(mgr', Told)
  BY <1>1, <1>2, Zenon
<1>4. \A j \in Ids \ {i} : mgr'.sos[j] = mgr.sos[j]
  BY <1>1, <1>2
<1>5. Spares(mgr, mgr', 0)
  BY <1>2, <1>4 DEF Spares
<1> QED  BY <1>1, <1>3, <1>5, Owning

\* somgr_write.
LEMMA StepWrite ==
  ASSUME SomgrInv, NEW i \in Ids, NEW dlen \in Lengths, Write(i, dlen)
  PROVE  SomgrInv' /\ TellsFirst
<1> DEFINE b == mgr.sos[i]
           tries == b.cap - b.cur < dlen /\ HasState(mgr, i, {"WRITABLE"}) /\ b.cur > 0
<1>1. /\ Owner /\ MgrOK(mgr, Told) /\ mgr \in Mgr /\ b \in So /\ SoOK(b)
      /\ b.state \cap {"BAD", "LISTEN", "FREE", "CONNECTTING"} = {}
      /\ dlen \in Nat \ {0} /\ b.cur \in Nat
  BY SomgrAssumption DEF Write, SomgrInv, HasState, MgrOK, Mgr, So
<1>2. PICK left \in IF tries THEN FlushResults(mgr, i) ELSE {b.cur},
           ok \in ModResults(mgr, i), expands \in BOOLEAN :
        LET m == IF tries THEN Pushed(mgr, i, left, ok) ELSE mgr
        IN  mgr' = CASE HasState(m, i, {"BAD"}) -> m
                     [] ~expands -> RemoveSo(m, i)
                     [] OTHER -> Store(m, i, dlen)
  BY DEF Write
<1> DEFINE m == IF tries THEN Pushed(mgr, i, left, ok) ELSE mgr
<1>3. Live(b) /\ b.state \in {{}, {"WRITABLE"}} /\ ("WRITABLE" \in b.state => b.watch = {"in"})
  BY <1>1 DEF Live, SoOK
<1>4. Loose(mgr, Told, i)
  BY <1>1, <1>3, Loosened
<1>5. /\ Spares(mgr, m, 0)
      /\ \/ MgrOK(m, Told) /\ "BAD" \in m.sos[i].state
         \/ Loose(m, Told, i) /\ SoOK(m.sos[i]) /\ m.sos[i].state \in {{}, {"WRITABLE"}}
  <2>1. CASE tries
    <3>1. left \in -1 .. b.cur /\ b.state = {"WRITABLE"} /\ b.watch = {"in"}
      BY <1>1, <1>2, <1>3, <2>1 DEF FlushResults, HasState
    <3>2. m = Pushed(mgr, i, left, ok)
      BY <2>1
    <3>3. LET x == Pushed(mgr, i, left, ok) IN
          /\ Spares(mgr, x, 0)
          /\ \/ MgrOK(x, Told) /\ "BAD" \in x.sos[i].state
             \/ /\ Loose(x, Told, i) /\ SoOK(x.sos[i]) /\ ~ToWrite(x.sos[i])
                /\ x.sos[i].state \in {{}, {"WRITABLE"}} /\ x.writesos = mgr.writesos
      BY <1>4, <3>1, Sending
    <3> HIDE DEF m
    <3> QED  BY <3>2, <3>3, Zenon
  <2>2. CASE ~tries
    BY <1>1, <1>3, <1>4, <2>2 DEF Spares
  <2> QED  BY <2>1, <2>2
<1>6. mgr' = CASE "BAD" \in m.sos[i].state -> m
               [] ~expands -> RemoveSo(m, i)
               [] OTHER -> Store(m, i, dlen)
  <2> HIDE DEF tries
  <2> QED  BY <1>2 DEF HasState
<1> HIDE DEF m, tries
<1>7. CASE "BAD" \in m.sos[i].state
  <2>1. mgr' = m /\ MgrOK(m, Told)
    <3>1. mgr' = m
      <4>1. RemoveSo(m, i) = m
        BY <1>7 DEF RemoveSo, HasState
      <4> QED  BY <1>6, <1>7, <4>1
    <3> QED  BY <1>5, <1>7, <3>1
  <2> QED  BY <1>1, <1>5, <2>1, Owning
<1>8. CASE "BAD" \notin m.sos[i].state
  <2>1. Loose(m, Told, i) /\ SoOK(m.sos[i]) /\ m.sos[i].state \in {{}, {"WRITABLE"}}
    BY <1>5, <1>8
  <2>2. MgrOK(mgr', Told) /\ Spares(m, mgr', 0)
    <3>1. CASE ~expands
      <4>1. mgr' = RemoveSo(m, i)
        BY <1>6, <1>8, <3>1
      <4>2. /\ MgrOK(RemoveSo(m, i), Told)
            /\ \A j \in Ids : RemoveSo(m, i).sos[j].state
                             = IF j = i THEN m.sos[i].state \cup {"BAD"} ELSE m.sos[j].state
        BY ZenonT(60), <2>1, Removing
      <4> QED  BY <4>1, <4>2 DEF Spares
    <3>2. CASE expands
      <4>1. mgr' = Store(m, i, dlen)
        BY <1>6, <1>8, <3>2
      <4> QED  BY <1>1, <2>1, <4>1, Storing
    <3> QED  BY <3>1, <3>2
  <2>3. Spares(mgr, mgr', 0)
    BY <1>5, <2>2 DEF Spares
  <2> QED  BY <1>1, <2>2, <2>3, Owning
<1> QED  BY <1>7, <1>8

\* somgr_kick.
LEMMA StepKick ==
  ASSUME SomgrInv, NEW i \in Ids, Kick(i)
  PROVE  SomgrInv' /\ TellsFirst
<1> DEFINE b == mgr.sos[i]
<1>1. Owner /\ MgrOK(mgr, Told) /\ Live(b)
  BY DEF Kick, SomgrInv, HasState, Live
<1>2. PICK left \in 0 .. b.cur : mgr' = RemoveSo(Flushed(mgr, i, left), i)
  BY DEF Kick
<1> DEFINE x == Flushed(mgr, i, left)
           c == New(b.state, b.watch, left, b.cap)
<1>3. Works(mgr, mgr, Told, i, b)
  BY <1>1, Loosened DEF Works
<1>4. \A l \in 0 .. b.cur : Works(mgr, Flushed(mgr, i, l), Told, i, New(b.state, b.watch, l, b.cap))
  BY <1>3, Working
<1>5. Works(mgr, x, Told, i, c)
  BY <1>4
<1>6. c.state = b.state
  BY DEF New
<1> HIDE DEF x, c
<1>7. Loose(x, Told, i) /\ x.sos[i] = c /\ \A j \in Ids \ {i} : x.sos[j] = mgr.sos[j]
  BY <1>5 DEF Works
<1>8. /\ MgrOK(RemoveSo(x, i), Told)
      /\ \A j \in Ids : RemoveSo(x, i).sos[j].state
                       = IF j = i THEN x.sos[i].state \cup {"BAD"} ELSE x.sos[j].state
  BY <1>7, Removing
<1>9. mgr' = RemoveSo(x, i)
  BY <1>2 DEF x
<1>10. Spares(mgr, mgr', 0)
  BY <1>6, <1>7, <1>8, <1>9 DEF Spares
<1> QED  BY <1>1, <1>8, <1>9, <1>10, Owning
\* The steps of somgr_runonce itself: it is nobody's call, so nobody is being told.
LEMMA Running ==
  ASSUME SomgrInv, NEW where, Runs(where)
  PROVE  /\ Told = {} /\ MgrOK(mgr, {}) /\ mgr \in Mgr
         /\ crashed = "no" /\ pc = where /\ nCalls' = nCalls
         /\ call' = call => Told' = {} /\ CallOK'
         /\ call' = NoCall => Told' = {} /\ CallOK'
         /\ where # "events" => evs = NoEvents
<1>1. Told = {} /\ call = NoCall /\ NoCall.to = "none"
  BY DEF Runs, Told, NoCall
<1>2. where # "events" => evs = NoEvents
  BY DEF SomgrInv, EventsOK, Control, Runs, NoEvents
<1> QED  BY <1>1, <1>2 DEF SomgrInv, MgrOK, Runs, Told, CallOK

\* somgr_runonce goes from one part to the next.
LEMMA StepParts ==
  ASSUME SomgrInv, Begin \/ BadDone \/ EventsDone
  PROVE  SomgrInv' /\ TellsFirst
<1>1. PICK where : Runs(where)
  BY DEF Begin, BadDone, EventsDone
<1>2. /\ UNCHANGED <<mgr, call, evs, crashed>> /\ pc' \in {"out", "bad", "write"}
      /\ evs = NoEvents
  <2>1. CASE Begin
    BY <2>1, Running DEF Begin
  <2>2. CASE BadDone
    BY <2>2, Running DEF BadDone
  <2>3. CASE EventsDone
    BY <2>3 DEF EventsDone
  <2> QED  BY <2>1, <2>2, <2>3
<1>3. Told = {} /\ MgrOK(mgr, {}) /\ nCalls' = nCalls /\ Told' = {} /\ CallOK'
  BY <1>1, <1>2, Running
<1>4. Control' /\ EventsOK' /\ NotCrashed'
  BY <1>2, <1>3 DEF SomgrInv, Control, EventsOK, NoEvents, NotCrashed
<1>5. MgrOK(mgr, Told)' /\ Spares(mgr, mgr', 0)
  BY <1>2, <1>3 DEF Spares
<1> QED  BY <1>3, <1>4, <1>5, Sparing DEF SomgrInv

\* ecb is called for the socket that leaves badsos.
LEMMA StepTellBad ==
  ASSUME SomgrInv, TellBad
  PROVE  SomgrInv' /\ TellsFirst
<1> DEFINE h == Head(mgr.badsos)
           t == Tail(mgr.badsos)
<1>1. /\ Told = {} /\ MgrOK(mgr, {}) /\ mgr \in Mgr
      /\ pc = "bad" /\ nCalls' = nCalls /\ evs = NoEvents
      /\ mgr.badsos # <<>> /\ mgr' = [mgr EXCEPT !.badsos = t]
      /\ call' = [to |-> "ecb", id |-> h, ev |-> {}] /\ UNCHANGED <<pc, evs, crashed>>
  BY Running DEF TellBad
<1>2. mgr.badsos \in Seq(Ids) /\ IsInjective(mgr.badsos)
  BY <1>1 DEF Mgr, MgrOK, QueuesOK
<1>3. /\ h \in Ids /\ h \in Range(mgr.badsos) /\ t \in Seq(Ids) /\ IsInjective(t)
      /\ \A y : y \in Range(t) <=> y \in Range(mgr.badsos) /\ y # h
  BY <1>1, <1>2, Popping
<1> HIDE DEF h, t
<1>4. /\ mgr'.sos = mgr.sos /\ mgr'.sosn = mgr.sosn /\ mgr'.freesos = mgr.freesos
      /\ mgr'.badsos = t /\ mgr'.writesos = mgr.writesos /\ mgr' \in Mgr
  BY <1>1, <1>3 DEF Mgr
<1>5. Told' = {h}
  BY <1>1 DEF Told
<1>6. MgrOK(mgr', {h})
  <2>1. QueuesOK(mgr', {h})
    BY <1>1, <1>3, <1>4 DEF MgrOK, QueuesOK
  <2> QED  BY <1>1, <1>4, <2>1 DEF MgrOK
<1>7. Control' /\ EventsOK' /\ NotCrashed' /\ CallOK'
  BY <1>1, <1>3 DEF SomgrInv, Control, EventsOK, NoEvents, NotCrashed, CallOK, NoCall
<1>8. Spares(mgr, mgr', 0)
  BY <1>4 DEF Spares
<1> QED  BY <1>5, <1>6, <1>7, <1>8, Sparing DEF SomgrInv

\* The next of writesos is flushed: it leaves the queue, and what is left of it does not
\* belong there.
LEMMA StepFlush ==
  ASSUME SomgrInv, FlushNext
  PROVE  SomgrInv' /\ TellsFirst
<1> DEFINE i == Head(mgr.writesos)
           t == Tail(mgr.writesos)
           m == [mgr EXCEPT !.writesos = t]
<1>1. /\ Told = {} /\ MgrOK(mgr, {}) /\ mgr \in Mgr
      /\ pc = "write" /\ nCalls' = nCalls /\ evs = NoEvents
      /\ Told' = {} /\ CallOK'
      /\ mgr.writesos # <<>> /\ UNCHANGED <<pc, call, evs, crashed>>
  BY Running DEF FlushNext
<1>2. PICK left \in FlushResults(m, i), ok \in ModResults(m, i) : mgr' = Pushed(m, i, left, ok)
  BY DEF FlushNext
<1>3. mgr.writesos \in Seq(Ids) /\ IsInjective(mgr.writesos)
  BY <1>1 DEF Mgr, MgrOK, QueuesOK
<1>4. /\ i \in Ids /\ i \in Range(mgr.writesos) /\ t \in Seq(Ids) /\ IsInjective(t)
      /\ \A y : y \in Range(t) <=> y \in Range(mgr.writesos) /\ y # i
  BY <1>1, <1>3, Popping
<1> HIDE DEF i, t
<1>5. /\ mgr.sos[i].state = {"WRITABLE"} /\ mgr.sos[i].cur > 0 /\ SoOK(mgr.sos[i])
      /\ mgr.sos[i] \in So
  BY <1>1, <1>4 DEF MgrOK, ToWrite, Mgr
<1>6. Live(mgr.sos[i]) /\ mgr.sos[i].watch = {"in"} /\ mgr.sos[i].cur \in Nat
  BY <1>5 DEF SoOK, Live, So
<1>7. Loose(m, {}, i)
  BY <1>1, <1>4, <1>6, Loosened, LooseQueue
<1>8. m.sos = mgr.sos /\ m.writesos = t
  BY <1>1 DEF Mgr
<1>9. left \in -1 .. m.sos[i].cur
  BY <1>2, <1>5, <1>6, <1>8 DEF FlushResults
<1> HIDE DEF m
<1>10. /\ Spares(m, mgr', 0)
       /\ \/ MgrOK(mgr', {})
          \/ Loose(mgr', {}, i) /\ SoOK(mgr'.sos[i]) /\ ~ToWrite(mgr'.sos[i]) /\ mgr'.writesos = t
  <2> DEFINE x == Pushed(m, i, left, ok)
  <2>1. m.sos[i].state = {"WRITABLE"} /\ m.sos[i].watch = {"in"}
    BY <1>5, <1>6, <1>8
  <2>2. /\ Spares(m, x, 0)
        /\ \/ MgrOK(x, {}) /\ "BAD" \in x.sos[i].state
           \/ /\ Loose(x, {}, i) /\ SoOK(x.sos[i]) /\ ~ToWrite(x.sos[i])
              /\ x.sos[i].state \in {{}, {"WRITABLE"}} /\ x.writesos = m.writesos
    BY <1>7, <1>9, <2>1, Sending
  <2> HIDE DEF x
  <2>3. mgr' = x
    BY <1>2 DEF x
  <2> QED  BY <1>8, <2>2, <2>3
<1>11. MgrOK(mgr', {})
  BY <1>4, <1>10, Tightened
<1>12. Spares(mgr, mgr', 0)
  BY <1>8, <1>10 DEF Spares
<1>13. Control' /\ EventsOK' /\ NotCrashed'
  BY <1>1 DEF SomgrInv, Control, EventsOK, NoEvents, NotCrashed
<1>14. MgrOK(mgr, Told)'
  BY <1>1, <1>11
<1> QED  BY <1>1, <1>12, <1>13, <1>14, Sparing DEF SomgrInv

\* epoll reports what is watched: nothing of a socket in the pool or removed, writability of
\* one that waits for it.
LEMMA StepEpoll ==
  ASSUME SomgrInv, EpollWait
  PROVE  SomgrInv' /\ TellsFirst
<1>1. /\ Told = {} /\ MgrOK(mgr, {}) /\ pc = "write" /\ nCalls' = nCalls /\ call = NoCall
      /\ UNCHANGED <<mgr, call, crashed>> /\ pc' = "events" /\ Told' = {} /\ CallOK'
      /\ evs' \in [Ids -> SUBSET {"hup", "in", "out"}] /\ \A i \in Ids : evs'[i] \in Reports(i)
  BY Running DEF EpollWait, Runs
<1>2. ASSUME NEW i \in Ids, evs'[i] # {}
      PROVE  /\ "FREE" \notin mgr.sos[i].state
             /\ "out" \in evs'[i] => "WRITABLE" \notin mgr.sos[i].state
             /\ evs'[i] = {"in"} => "CONNECTTING" \notin mgr.sos[i].state
  <2>1. /\ mgr.sos[i].watch # {}
        /\ "out" \in evs'[i] => "out" \in mgr.sos[i].watch
        /\ evs'[i] = {"in"} => "in" \in mgr.sos[i].watch
    BY <1>1, <1>2 DEF Reports
  <2>2. Live(mgr.sos[i])
    BY <1>1, <2>1 DEF MgrOK, SoOK, Live, Pooled
  <2>3. /\ "WRITABLE" \in mgr.sos[i].state => "out" \notin mgr.sos[i].watch
        /\ "CONNECTTING" \in mgr.sos[i].state => "in" \notin mgr.sos[i].watch
    BY <1>1, <2>2 DEF MgrOK, SoOK
  <2> QED  BY <2>1, <2>2, <2>3 DEF Live
<1>3. EventsOK'
  BY <1>1, <1>2 DEF EventsOK
<1>4. Control' /\ NotCrashed' /\ MgrOK(mgr, Told)' /\ Spares(mgr, mgr', 0)
  BY <1>1 DEF SomgrInv, Control, NotCrashed, Spares
<1> QED  BY <1>1, <1>3, <1>4, Sparing DEF SomgrInv

\* A new manager.
LEMMA NewIsOK == MgrOK(NewMgr, {})
<1>1. Pooled \in So /\ SoOK(Pooled) /\ ~ToWrite(Pooled) /\ Pooled.state = {"FREE"}
  BY DEF So, Pooled, Flags, SoOK, Live, ToWrite
<1>2. NewMgr \in Mgr
  BY <1>1, SomgrAssumption DEF Mgr, NewMgr
<1>3. \A y : y \notin Range(<<>>)
  BY DEF Range
<1>4. IsInjective(<<>>)
  BY DEF IsInjective
<1> QED  BY <1>1, <1>2, <1>3, <1>4, SomgrAssumption DEF MgrOK, QueuesOK, NewMgr, Ids

\* somgr_destroy.
LEMMA StepDestroy ==
  ASSUME SomgrInv, Destroy
  PROVE  SomgrInv' /\ TellsFirst
<1>1. /\ nCalls' = nCalls /\ evs = NoEvents /\ mgr' = NewMgr /\ pc' = "destroyed"
      /\ Told' = {} /\ CallOK' /\ UNCHANGED <<call, evs, crashed>>
  BY Running DEF Destroy
<1>2. Control' /\ EventsOK' /\ NotCrashed'
  BY <1>1 DEF SomgrInv, Control, EventsOK, NoEvents, NotCrashed
<1>3. MgrOK(mgr, Told)' /\ TellsFirst
  BY <1>1, NewIsOK DEF TellsFirst
<1> QED  BY <1>1, <1>2, <1>3 DEF SomgrInv
\* One event is handled: what the handler leaves, and whom it calls.
LEMMA Handling ==
  ASSUME MgrOK(mgr, {}), crashed = "no", call = NoCall, NEW i \in Ids, Handle(i),
         evs \in [Ids -> SUBSET {"hup", "in", "out"}], evs[i] # {}, "FREE" \notin mgr.sos[i].state,
         "out" \in evs[i] => "WRITABLE" \notin mgr.sos[i].state
  PROVE  /\ MgrOK(mgr', {}) /\ Spares(mgr, mgr', i)
         /\ crashed' \in {"no", "accept", "kicked"}
         /\ \/ call' = NoCall
            \/ \E to \in {"acb", "ccb"}, j \in Ids : call' = [to |-> to, id |-> j, ev |-> {}]
            \/ /\ call' = [to |-> "rcb", id |-> i, ev |-> evs[i]] /\ mgr' = mgr
               /\ mgr.sos[i].state \cap {"LISTEN", "CONNECTTING"} = {}
<1>1. /\ MgrOK(RemoveSo(mgr, i), {}) /\ Spares(mgr, RemoveSo(mgr, i), i)
      /\ Spares(mgr, mgr, i)
  <2>1. MgrOK(RemoveSo(mgr, i), {}) /\ Spares(mgr, RemoveSo(mgr, i), 0)
    BY Removed
  <2> QED  BY <2>1 DEF Spares, Ids
<1>2. CASE Becomes(RemoveSo(mgr, i))
  BY <1>1, <1>2 DEF Becomes
<1>3. CASE "hup" \notin evs[i] /\ HasState(mgr, i, {"LISTEN"})
  <2>1. CASE Becomes(mgr) \/ Crash("accept")
    BY <1>1, <2>1 DEF Becomes, Crash
  <2>2. CASE CanAlloc(mgr) /\ Calls(Opened(mgr, {}), "acb", AllocId(mgr), {})
    <3> DEFINE n == AllocId(mgr)
               x == Opened(mgr, {})
    <3>1. {} \in {{}, {"LISTEN"}, {"CONNECTTING"}} /\ CanAlloc(mgr)
      BY <2>2
    <3>2. /\ n \in Ids /\ "FREE" \in mgr.sos[n].state /\ MgrOK(x, {})
          /\ \A j \in Ids \ {n} : x.sos[j] = mgr.sos[j]
      BY <3>1, Opening
    <3>3. mgr' = x /\ crashed' = crashed /\ call' = [to |-> "acb", id |-> n, ev |-> {}]
      BY <2>2 DEF Calls
    <3> HIDE DEF n, x
    <3> QED  BY <3>2, <3>3 DEF Spares
  <2>3. ProcAccept(i)
    BY <1>3 DEF Handle
  <2> QED  BY <2>1, <2>2, <2>3 DEF ProcAccept, Opened
<1>4. CASE "hup" \notin evs[i] /\ ~HasState(mgr, i, {"LISTEN"}) /\ HasState(mgr, i, {"CONNECTTING"})
  <2>1. ProcConnected(i) /\ "CONNECTTING" \in mgr.sos[i].state
    BY <1>4 DEF Handle, HasState
  <2>2. /\ MgrOK(mgr', {}) /\ Spares(mgr, mgr', i) /\ crashed' = "no"
        /\ call' \in {NoCall, [to |-> "ccb", id |-> i, ev |-> {}]}
    BY <2>1, Connecting
  <2> QED  BY <2>2
<1>5. CASE /\ "hup" \notin evs[i] /\ ~HasState(mgr, i, {"LISTEN"})
           /\ ~HasState(mgr, i, {"CONNECTTING"}) /\ "in" \in evs[i]
  <2>1. Calls(mgr, "rcb", i, evs[i]) \/ Becomes(RemoveSo(mgr, i))
    BY <1>5 DEF Handle, ProcRw
  <2>2. mgr.sos[i].state \cap {"LISTEN", "CONNECTTING"} = {}
    BY <1>5 DEF HasState
  <2> QED  BY <1>1, <1>2, <2>1, <2>2 DEF Calls
<1>6. CASE /\ "hup" \notin evs[i] /\ ~HasState(mgr, i, {"LISTEN"})
           /\ ~HasState(mgr, i, {"CONNECTTING"}) /\ "in" \notin evs[i]
  <2>1. ProcOut(i) /\ "out" \in evs[i]
    BY <1>6 DEF Handle, ProcRw
  <2>2. mgr.sos[i].state \cap {"FREE", "LISTEN", "CONNECTTING", "WRITABLE"} = {}
    BY <1>6, <2>1 DEF HasState
  <2>3. /\ MgrOK(mgr', {}) /\ Spares(mgr, mgr', i)
        /\ \/ crashed' = "kicked" /\ UNCHANGED <<mgr, call>>
           \/ crashed' = "no" /\ call' = NoCall
    BY <2>1, <2>2, Outing
  <2> QED  BY <2>3
<1>7. "hup" \in evs[i] => Becomes(RemoveSo(mgr, i))
  BY DEF Handle
<1> QED  BY <1>2, <1>3, <1>4, <1>5, <1>6, <1>7

\* The next event: it is not in hand any more, the others are as they were.
LEMMA StepEvent ==
  ASSUME SomgrInv, NextEvent
  PROVE  SomgrInv' /\ TellsFirst
<1>1. /\ MgrOK(mgr, {}) /\ crashed = "no" /\ pc = "events" /\ call = NoCall
      /\ pc' = pc /\ nCalls' = nCalls
      /\ evs \in [Ids -> SUBSET {"hup", "in", "out"}]
  BY Running DEF NextEvent, Runs, SomgrInv, Control
<1>2. PICK i \in Ids : evs[i] # {} /\ Handle(i) /\ evs' = [evs EXCEPT ![i] = {}]
  BY DEF NextEvent
<1>3. "FREE" \notin mgr.sos[i].state /\ ("out" \in evs[i] => "WRITABLE" \notin mgr.sos[i].state)
  BY <1>2 DEF SomgrInv, EventsOK
<1>4. /\ MgrOK(mgr', {}) /\ Spares(mgr, mgr', i)
      /\ crashed' \in {"no", "accept", "kicked"}
      /\ \/ call' = NoCall
         \/ \E to \in {"acb", "ccb"}, j \in Ids : call' = [to |-> to, id |-> j, ev |-> {}]
         \/ /\ call' = [to |-> "rcb", id |-> i, ev |-> evs[i]] /\ mgr' = mgr
            /\ mgr.sos[i].state \cap {"LISTEN", "CONNECTTING"} = {}
  BY <1>1, <1>2, <1>3, Handling
<1>5. /\ call' \in [to: {"none", "acb", "rcb", "ecb", "ccb"}, id: Ids \cup {0},
                    ev: SUBSET {"hup", "in", "out"}]
      /\ call'.to # "ecb"
  BY <1>1, <1>4 DEF NoCall
<1>6. CallOK'
  BY <1>1, <1>2, <1>3, <1>4 DEF CallOK, NoCall
<1>7. /\ evs' \in [Ids -> SUBSET {"hup", "in", "out"}]
      /\ \A j \in Ids : evs'[j] # {} => j # i /\ evs'[j] = evs[j]
  BY <1>1, <1>2
<1>8. EventsOK'
  BY <1>1, <1>4, <1>7 DEF SomgrInv, EventsOK, Spares
<1>9. Control' /\ NotCrashed'
  BY <1>1, <1>4, <1>5, <1>7 DEF SomgrInv, Control, NotCrashed
<1>10. MgrOK(mgr, Told)'
  BY <1>4, <1>5 DEF Told
<1> QED  BY <1>4, <1>6, <1>8, <1>9, <1>10, Sparing DEF SomgrInv

\* A callback returns.  After ecb the socket goes to the pool; after rcb nothing is left in
\* hand for it, so it may become writable.
LEMMA StepReturn ==
  ASSUME SomgrInv, CallReturn
  PROVE  SomgrInv' /\ TellsFirst
<1> DEFINE i == call.id
<1>1. crashed = "no" /\ UNCHANGED <<pc, evs, nCalls>> /\ MgrOK(mgr, Told)
  BY DEF CallReturn, SomgrInv
<1>2. CASE call.to = "ecb"
  <2>1. Becomes(FreeSo(mgr, i)) /\ i \in Ids /\ pc = "bad" /\ MgrOK(mgr, {i})
    BY <1>1, <1>2 DEF CallReturn, SomgrInv, CallOK, Told
  <2>2. /\ mgr \in Mgr /\ QueuesOK(mgr, {i})
        /\ "BAD" \in mgr.sos[i].state /\ i \notin Range(mgr.badsos)
        /\ \A j \in Ids : SoOK(mgr.sos[j])
        /\ \A j \in Ids : j \in Range(mgr.writesos) <=> ToWrite(mgr.sos[j])
    BY <2>1 DEF MgrOK, QueuesOK
  <2>3. "FREE" \notin mgr.sos[i].state /\ ~ToWrite(mgr.sos[i])
    BY <2>1, <2>2 DEF SoOK, Pooled, ToWrite
  <2>4. \A j \in Ids : j \in Range(mgr.writesos) <=> j # i /\ ToWrite(mgr.sos[j])
    BY <2>2, <2>3
  <2>5. /\ MgrOK(FreeSo(mgr, i), {i} \ {i})
        /\ \A j \in Ids \ {i} : FreeSo(mgr, i).sos[j] = mgr.sos[j]
    <3> DEFINE told == {i}
    <3>1. \A j \in Ids \ {i} : SoOK(mgr.sos[j])
      BY <2>2
    <3>2. mgr \in Mgr /\ i \in Ids /\ QueuesOK(mgr, told) /\ i \notin Range(mgr.badsos)
      BY <2>1, <2>2
    <3> HIDE DEF i, told
    <3>3. /\ MgrOK(FreeSo(mgr, i), told \ {i})
          /\ \A j \in Ids \ {i} : FreeSo(mgr, i).sos[j] = mgr.sos[j]
      <4>1. PICK m, j, t : m = mgr /\ j = i /\ t = told
        OBVIOUS
      <4>2. /\ m \in Mgr /\ j \in Ids /\ QueuesOK(m, t) /\ j \notin Range(m.badsos)
            /\ "FREE" \notin m.sos[j].state /\ \A k \in Ids \ {j} : SoOK(m.sos[k])
            /\ \A k \in Ids : k \in Range(m.writesos) <=> k # j /\ ToWrite(m.sos[k])
        BY <2>3, <2>4, <3>1, <3>2, <4>1
      <4>3. /\ MgrOK(FreeSo(m, j), t \ {j})
            /\ \A k \in Ids \ {j} : FreeSo(m, j).sos[k] = m.sos[k]
        BY <4>2, Freeing
      <4> QED  BY <4>1, <4>3
    <3> QED  BY <3>3 DEF told
  <2>6. mgr' = FreeSo(mgr, i) /\ call' = NoCall /\ crashed' = crashed
    BY <2>1 DEF Becomes
  <2>7. MgrOK(mgr, Told)' /\ CallOK' /\ Control' /\ NotCrashed'
    <3>1. {i} \ {i} = {} /\ Told' = {}
      BY <2>6 DEF Told, NoCall
    <3>2. MgrOK(mgr', {})
      BY <2>5, <2>6, <3>1
    <3> QED  BY <1>1, <2>6, <3>1, <3>2 DEF SomgrInv, Control, CallOK, NoCall, NotCrashed
  <2>8. EventsOK'
    BY <1>1, <2>1 DEF SomgrInv, EventsOK, Control
  <2>9. TellsFirst
    BY <1>2, <2>5, <2>6 DEF TellsFirst, HasState, Being
  <2> QED  BY <2>7, <2>8, <2>9 DEF SomgrInv
<1>3. ASSUME call.to # "ecb", MgrOK(mgr', {}), crashed' \in {"no", "kicked"},
             call' \in {NoCall, call},
             call' = call => mgr' = mgr,
             Spares(mgr, mgr', 0) \/ (Spares(mgr, mgr', i) /\ i \in Ids /\ evs[i] = {})
      PROVE  SomgrInv' /\ TellsFirst
  <2>1. MgrOK(mgr, Told)' /\ Control' /\ NotCrashed'
    BY <1>1, <1>3 DEF SomgrInv, Control, NotCrashed, Told, NoCall
  <2>2. CallOK'
    BY <1>1, <1>3 DEF SomgrInv, CallOK, NoCall
  <2>3. EventsOK'
    BY <1>1, <1>3 DEF SomgrInv, EventsOK, Spares, Ids
  <2> QED  BY <1>3, <2>1, <2>2, <2>3, Sparing DEF SomgrInv
<1>7. call.to # "none" => call # NoCall
  BY DEF NoCall
<1>4. CASE call.to \in {"acb", "ccb"}
  <2>3. MgrOK(mgr, {})
    BY <1>1, <1>4 DEF Told
  <2>4. call' = NoCall /\ mgr' = mgr /\ crashed' = "no" /\ call.to # "ecb" /\ call # NoCall
    BY <1>1, <1>4, <1>7 DEF CallReturn, Becomes
  <2>2. Spares(mgr, mgr', 0)
    BY <2>4 DEF Spares
  <2>5. MgrOK(mgr', {})
    BY <2>3, <2>4, Zenon
  <2> QED  BY <1>3, <2>2, <2>4, <2>5
<1>5. CASE call.to = "rcb"
  <2>1. /\ i \in Ids /\ evs[i] = {} /\ mgr.sos[i].state \cap {"FREE", "LISTEN", "CONNECTTING"} = {}
        /\ "out" \in call.ev => "WRITABLE" \notin mgr.sos[i].state
        /\ Told = {} /\ MgrOK(mgr, {})
    BY <1>1, <1>5 DEF SomgrInv, CallOK, Told
  <2>2. \/ Becomes(RemoveSo(mgr, i))
        \/ "out" \in call.ev /\ ProcOut(i)
        \/ Becomes(mgr)
    BY <1>5 DEF CallReturn
  <2>3. CASE Becomes(RemoveSo(mgr, i))
    <3>1. MgrOK(mgr', {}) /\ Spares(mgr, mgr', 0)
      BY <2>1, <2>3, Removed DEF Becomes
    <3>2. call' = NoCall /\ crashed' = "no" /\ call.to # "ecb" /\ call # NoCall
      BY <1>1, <1>5, <1>7, <2>3 DEF Becomes
    <3> QED  BY <1>3, <3>1, <3>2
  <2>4. CASE "out" \in call.ev /\ ProcOut(i)
    <3>1. mgr.sos[i].state \cap {"FREE", "LISTEN", "CONNECTTING", "WRITABLE"} = {}
      BY <2>1, <2>4
    <3>2. /\ MgrOK(mgr', {}) /\ Spares(mgr, mgr', i)
          /\ \/ crashed' = "kicked" /\ UNCHANGED <<mgr, call>>
             \/ crashed' = "no" /\ call' = NoCall
      BY <1>1, <2>1, <2>4, <3>1, Outing
    <3> QED  BY <1>3, <1>5, <2>1, <3>2 DEF NoCall
  <2>5. CASE Becomes(mgr)
    <3>1. Spares(mgr, mgr', 0)
      BY <2>5 DEF Becomes, Spares
    <3>2. call' = NoCall /\ crashed' = "no" /\ call.to # "ecb" /\ call # NoCall /\ mgr' = mgr
      BY <1>1, <1>5, <1>7, <2>5 DEF Becomes
    <3> QED  BY <1>3, <2>1, <3>1, <3>2
  <2> QED  BY <2>2, <2>3, <2>4, <2>5
<1>6. call.to \in {"ecb", "acb", "ccb", "rcb"}
  BY DEF CallReturn, SomgrInv, Control
<1> QED  BY <1>2, <1>4, <1>5, <1>6

-----------------------------------------------------------------------------
(* The theorems.                                                           *)

\* The invariant holds at the start,
LEMMA SomgrInit == Init => SomgrInv
<1> SUFFICES ASSUME Init PROVE SomgrInv
  OBVIOUS
<1>1. MgrOK(mgr, Told)
  BY NewIsOK DEF Init, Told, NoCall
<1> QED  BY <1>1, SomgrAssumption
         DEF Init, SomgrInv, Control, CallOK, EventsOK, NotCrashed, NoCall, NoEvents

\* and every step keeps it.
LEMMA SomgrStep == SomgrInv /\ [Next]_vars => SomgrInv' /\ (TellsFirst \/ UNCHANGED vars)
<1> SUFFICES ASSUME SomgrInv, [Next]_vars PROVE SomgrInv' /\ (TellsFirst \/ UNCHANGED vars)
  OBVIOUS
<1>1. CASE Listen \/ Connect
  BY <1>1, StepOpen DEF Listen, Connect
<1>2. CASE \E i \in Ids : Kick(i) \/ \E dlen \in Lengths : Write(i, dlen)
  BY <1>2, StepKick, StepWrite
<1>3. CASE RunOnce
  BY <1>3, StepParts, StepTellBad, StepFlush, StepEpoll, StepEvent, StepReturn DEF RunOnce
<1>4. CASE Destroy
  BY <1>4, StepDestroy
<1>5. CASE UNCHANGED vars
  <2>1. UNCHANGED <<mgr, pc, call, evs, crashed, nCalls>>
    BY <1>5 DEF vars
  <2>2. Control' /\ CallOK' /\ EventsOK' /\ NotCrashed' /\ MgrOK(mgr, Told)'
    BY <2>1 DEF SomgrInv, Control, CallOK, EventsOK, NotCrashed, Told
  <2> QED  BY <1>5, <2>2 DEF SomgrInv
<1> QED  BY <1>1, <1>2, <1>3, <1>4, <1>5 DEF Next, Interface
\* What is known of the manager and the rest in every state,
LEMMA SomgrAlways == Spec => []SomgrInv
<1> QED  BY SomgrInit, SomgrStep, PTL DEF Spec

\* A queue that holds each element once.
LEMMA Once ==
  ASSUME NEW q \in Seq(Ids), IsInjective(q), NEW i \in Ids
  PROVE  Times(i, q) = IF i \in Range(q) THEN 1 ELSE 0
<1> DEFINE K == {k \in DOMAIN q : q[k] = i}
<1>1. CASE i \in Range(q)
  <2>1. PICK n \in 1 .. Len(q) : q[n] = i
    BY <1>1, InQueue
  <2>2. K = {n}
    BY <2>1, InQueue DEF IsInjective
  <2>3. Cardinality({n}) = 1
    BY FS_Singleton
  <2> QED  BY <1>1, <2>2, <2>3 DEF Times
<1>2. CASE i \notin Range(q)
  <2>1. K = {}
    BY <1>2 DEF Range
  <2>2. Cardinality({}) = 0
    BY FS_EmptySet
  <2> QED  BY <1>2, <2>1, <2>2 DEF Times
<1> QED  BY <1>1, <1>2

\* A socket of the manager is where its state says, and nowhere else, whatever the interface
\* and the callbacks do to it.
THEOREM EachHasOneHome == Spec => []OneHome
<1>1. SomgrInv => OneHome
  <2> SUFFICES ASSUME SomgrInv PROVE OneHome
    OBVIOUS
  <2>1. MgrOK(mgr, Told) /\ mgr \in Mgr /\ QueuesOK(mgr, Told) /\ Control
    BY DEF SomgrInv, MgrOK
  <2>2. /\ mgr.freesos \in Seq(Ids) /\ mgr.badsos \in Seq(Ids) /\ mgr.writesos \in Seq(Ids)
        /\ IsInjective(mgr.freesos) /\ IsInjective(mgr.badsos) /\ IsInjective(mgr.writesos)
    BY <2>1 DEF Mgr, QueuesOK
  <2>3. TypeOK
    BY <2>1 DEF TypeOK, Mgr, So, Control
  <2>4. ASSUME NEW i \in Ids
        PROVE  /\ Times(i, mgr.freesos)
                    = IF i < mgr.sosn /\ "FREE" \in mgr.sos[i].state THEN 1 ELSE 0
               /\ Times(i, mgr.badsos) = IF "BAD" \in mgr.sos[i].state /\ ~Being(i) THEN 1 ELSE 0
               /\ Times(i, mgr.writesos) <= 1
               /\ i \in Range(mgr.writesos) => mgr.sos[i].state = {"WRITABLE"} /\ mgr.sos[i].cur > 0
    <3>1. /\ Times(i, mgr.freesos) = IF i \in Range(mgr.freesos) THEN 1 ELSE 0
          /\ Times(i, mgr.badsos) = IF i \in Range(mgr.badsos) THEN 1 ELSE 0
          /\ Times(i, mgr.writesos) = IF i \in Range(mgr.writesos) THEN 1 ELSE 0
      BY <2>2, Once
    <3>2. i \in Told <=> Being(i)
      BY DEF Told, Being
    <3>3. /\ i \in Range(mgr.freesos) <=> i < mgr.sosn /\ "FREE" \in mgr.sos[i].state
          /\ i \in Range(mgr.badsos) <=> i \notin Told /\ "BAD" \in mgr.sos[i].state
      BY <2>1 DEF QueuesOK
    <3>4. i \in Range(mgr.writesos) => mgr.sos[i].state = {"WRITABLE"} /\ mgr.sos[i].cur > 0
      BY <2>1 DEF MgrOK, ToWrite
    <3> QED  BY <3>1, <3>2, <3>3, <3>4
  <2> QED  BY <2>3, <2>4 DEF OneHome
<1> QED  BY <1>1, SomgrAlways, PTL

\* Bytes accepted by somgr_write are queued or wait for EPOLLOUT until they are sent: no
\* connection is forgotten with bytes in its buffer.
THEOREM BytesAreNotForgotten == Spec => []UnsentIsArmed
<1>1. SomgrInv => UnsentIsArmed
  BY DEF SomgrInv, MgrOK, SoOK, Live, ToWrite, UnsentIsArmed
<1> QED  BY <1>1, SomgrAlways, PTL

\* sbuf_expand always makes room for what somgr_write then copies.
THEOREM NothingIsWrittenBehind == Spec => []BytesFit
<1>1. SomgrInv => BytesFit
  BY DEF SomgrInv, MgrOK, SoOK, BytesFit
<1> QED  BY <1>1, SomgrAlways, PTL

\* Whatever the callbacks of a batch kick, listen and connect, an event left of the batch finds
\* a socket in use.
THEOREM EventsAreNotStale == Spec => []EventsFindSockets
<1>1. SomgrInv => EventsFindSockets
  BY DEF SomgrInv, EventsOK, EventsFindSockets, HasState
<1> QED  BY <1>1, SomgrAlways, PTL

\* The assertions of somgr.c about flags and queues never fail, but the one at line 259 for
\* kicked sockets and the one at line 473 in the error path of somgr_proc_accept.
THEOREM NoAssertionFails == Spec => []AssertionsHold
<1>1. SomgrInv => AssertionsHold
  <2> SUFFICES ASSUME SomgrInv PROVE AssertionsHold
    OBVIOUS
  <2>1. MgrOK(mgr, Told) /\ QueuesOK(mgr, Told) /\ CallOK /\ EventsOK /\ NotCrashed
    BY DEF SomgrInv, MgrOK
  <2>2. ASSUME NEW i \in Ids PROVE InHand(i) => "FREE" \notin mgr.sos[i].state
    BY <2>1 DEF InHand, CallOK, EventsOK, MgrOK, ToWrite
  <2>3. ASSUME NEW i \in Ids, "BAD" \notin mgr.sos[i].state, "FREE" \notin mgr.sos[i].state
        PROVE  i \notin Range(mgr.freesos) /\ i \notin Range(mgr.badsos)
    BY <2>1, <2>3 DEF QueuesOK
  <2>4. ASSUME NEW i \in Ids, evs[i] = {"in"} PROVE "CONNECTTING" \notin mgr.sos[i].state
    BY <2>1, <2>4 DEF EventsOK
  <2> QED  BY <2>1, <2>2, <2>3, <2>4 DEF AssertionsHold, NotCrashed, HasState
<1> QED  BY <1>1, SomgrAlways, PTL

\* No id is handed out again before its owner was told that the old socket is gone.
THEOREM TellsBeforeReuse == Spec => ToldBeforeReuse
<1>1. SomgrInv /\ [Next]_vars =>
        [\A i \in Ids :
           ~HasState(mgr, i, {"FREE"}) /\ HasState(mgr', i, {"FREE"})
             => Being(i) \/ pc' = "destroyed"]_vars
  BY SomgrStep DEF TellsFirst
<1> QED  BY <1>1, SomgrAlways, PTL DEF Spec, ToldBeforeReuse
===============================================================================
