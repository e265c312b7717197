--------------------------- MODULE EnvTimersProofs ---------------------------
(***************************************************************************)
(* Proofs about EnvTimers for any number of sessions: a session stands for *)
(* one timeout at a time.  OneUnderWay counts; the inductive invariant     *)
(* UnderWay says the same without counting.                                *)
(***************************************************************************)
EXTENDS EnvTimers, FiniteSetTheorems, SequenceTheorems, WellFoundedInduction, TLAPS

\* Where the timer messages of session s stand in the queue of the env.
Places(s) == {i \in DOMAIN mailbox : mailbox[i] = s}

\* A session's timer is in the wheel, or one message of it in the queue, or
\* neither, and this is so just when it has no runs left.
OnItsWay(s) ==
  /\ armed[s] \in {0, 1}
  /\ \A i, j \in Places(s) : i = j
  /\ armed[s] = 1 => Places(s) = {}
  /\ mTimerCbs[s] > 0 <=> armed[s] = 1 \/ Places(s) # {}

UnderWay == \A s \in Sessions : OnItsWay(s)

WayInv == TypeOK /\ UnderWay

-----------------------------------------------------------------------------
(* Facts about the choice of a session and about the queue.                *)

\* A set of natural numbers has a least element.
LEMMA LeastNatural ==
  ASSUME NEW S \in SUBSET Nat, S # {}
  PROVE  \E x \in S : \A y \in S : x <= y
<1> DEFINE T == {0 .. x : x \in S}
<1>1. T \subseteq FiniteSubsetsOf(Nat) /\ T # {}
  <2>1. ASSUME NEW x \in S PROVE IsFiniteSet(0 .. x) /\ 0 .. x \subseteq Nat
    BY FS_Interval
  <2> QED
    BY <2>1 DEF FiniteSubsetsOf
<1>2. PICK X \in T : \A Y \in T : <<Y, X>> \notin StrictSubsetOrdering(Nat)
  <2> HIDE DEF T
  <2> QED
    BY <1>1, WFMin, FS_StrictSubsetOrderingWellFounded
<1>3. PICK x \in S : X = 0 .. x
  OBVIOUS
<1>4. ASSUME NEW y \in S, y < x PROVE FALSE
  <2>1. 0 .. y \subseteq 0 .. x /\ x \in 0 .. x /\ x \notin 0 .. y
    BY <1>4
  <2>2. <<0 .. y, X>> \in StrictSubsetOrdering(Nat)
    BY <2>1, <1>3 DEF StrictSubsetOrdering
  <2> QED
    BY <2>2, <1>2
<1> QED
  BY <1>4

\* env:timeout finds a free session if there is one, wherever the last one was: the
\* search goes round all of them.
LEMMA NextSessionIsFree ==
  ASSUME mTimerSession \in Sessions, FreeSessions # {}
  PROVE  NextSession \in FreeSessions
<1> USE EnvTimersAssumption
<1> DEFINE N == MaxSession + 1
           Behind(d) == (mTimerSession + d) % (MaxSession + 1)
           steps == {d \in 1 .. MaxSession + 1 : Behind(d) \in FreeSessions}
<1>1. PICK f \in Sessions : f \in FreeSessions
  BY DEF FreeSessions
<1>2. f \in 0 .. N - 1 /\ mTimerSession \in 0 .. N - 1 /\ N \in Nat \ {0}
  BY DEF Sessions
<1>3. steps # {}
  <2>1. CASE f > mTimerSession
    <3>1. f - mTimerSession \in 1 .. N /\ mTimerSession + (f - mTimerSession) = f
      BY <1>2, <2>1
    <3>2. f % N = f
      BY <1>2
    <3> QED
      BY <3>1, <3>2, <1>1
  <2>2. CASE ~(f > mTimerSession)
    <3>1. f - mTimerSession + N \in 1 .. N /\ mTimerSession + (f - mTimerSession + N) = f + N
      BY <1>2, <2>2
    <3>2. (f + N) % N = f
      BY <1>2
    <3> QED
      BY <3>1, <3>2, <1>1
  <2> QED
    BY <2>1, <2>2
<1>4. \E d \in steps : \A e \in steps : d <= e
  <2>1. steps \in SUBSET Nat
    OBVIOUS
  <2> HIDE DEF steps
  <2> QED
    BY <1>3, <2>1, LeastNatural
<1>5. (CHOOSE d \in steps : \A e \in steps : d <= e) \in steps
  <2> HIDE DEF steps
  <2> QED
    BY <1>4
<1> QED
  BY <1>5 DEF NextSession

\* A message at the end of the queue is one more for its session, and no other.
LEMMA PlacesOfPosted ==
  ASSUME mailbox \in Seq(Sessions), NEW s \in Sessions, mailbox' = Append(mailbox, s)
  PROVE  /\ mailbox' \in Seq(Sessions)
         /\ \A r \in Sessions :
              Places(r)' = IF r = s THEN Places(r) \cup {Len(mailbox) + 1} ELSE Places(r)
<1>1. /\ mailbox' \in Seq(Sessions) /\ Len(mailbox) \in Nat
      /\ DOMAIN mailbox = 1 .. Len(mailbox) /\ DOMAIN mailbox' = 1 .. Len(mailbox) + 1
      /\ \A i \in 1 .. Len(mailbox) : mailbox'[i] = mailbox[i]
      /\ mailbox'[Len(mailbox) + 1] = s
  BY AppendProperties, LenProperties
<1>2. DOMAIN mailbox' = DOMAIN mailbox \cup {Len(mailbox) + 1}
  BY <1>1
<1> QED
  BY <1>1, <1>2 DEF Places

\* Taking the first message leaves the others where they are, one place further on.
LEMMA PlacesOfRest ==
  ASSUME mailbox \in Seq(Sessions), mailbox # <<>>, mailbox' = Tail(mailbox)
  PROVE  /\ mailbox' \in Seq(Sessions) /\ Head(mailbox) \in Sessions
         /\ 1 \in Places(Head(mailbox))
         /\ \A r : \A i : i \in Places(r)' <=> i \in Nat \ {0} /\ i + 1 \in Places(r)
<1>1. /\ mailbox' \in Seq(Sessions) /\ Head(mailbox) \in Sessions
      /\ Len(mailbox) \in Nat \ {0} /\ Len(mailbox') = Len(mailbox) - 1
      /\ DOMAIN mailbox = 1 .. Len(mailbox) /\ DOMAIN mailbox' = 1 .. Len(mailbox) - 1
      /\ \A i \in 1 .. Len(mailbox) - 1 : mailbox'[i] = mailbox[i + 1]
  BY HeadTailProperties, LenProperties, EmptySeq
<1>2. Head(mailbox) = mailbox[1]
  BY <1>1
<1> QED
  BY <1>1, <1>2 DEF Places

-----------------------------------------------------------------------------
(* The invariant.                                                          *)

\* At the start no session is in use and nothing is under way.
LEMMA WayInit == Init => WayInv
BY EnvTimersAssumption, EmptySeq DEF Init, WayInv, TypeOK, UnderWay, OnItsWay, Places, Sessions

\* A session that is handed out was free, one that falls due had its timer in the
\* wheel, and the message that comes is the only one of its session.
LEMMA WayStep == WayInv /\ [Next]_vars => WayInv'
<1> SUFFICES ASSUME WayInv, [Next]_vars PROVE WayInv'
  OBVIOUS
<1> USE EnvTimersAssumption DEF WayInv, TypeOK
<1>1. ASSUME NEW n \in Repeats, Timeout(n) PROVE WayInv'
  <2> USE <1>1 DEF Timeout, TimeoutRaw
  <2>1. PICK s \in Sessions : s = NextSession /\ mTimerCbs[s] = 0
    BY NextSessionIsFree DEF FreeSessions
  <2>2. /\ mTimerCbs' = [mTimerCbs EXCEPT ![s] = IF n <= 1 THEN 1 ELSE n]
        /\ armed' = [armed EXCEPT ![s] = @ + 1]
        /\ mTimerSession' = s /\ mailbox' = mailbox
    BY <2>1
  <2>3. TypeOK'
    BY <2>1, <2>2
  <2>4. \A r \in Sessions : Places(r)' = Places(r)
    BY <2>2 DEF Places
  <2>5. armed[s] = 0 /\ Places(s) = {}
    BY <2>1 DEF UnderWay, OnItsWay
  <2>6. mTimerCbs'[s] > 0 /\ armed'[s] = 1
    BY <2>1, <2>2, <2>5
  <2>7. \A r \in Sessions : r # s => mTimerCbs'[r] = mTimerCbs[r] /\ armed'[r] = armed[r]
    BY <2>1, <2>2
  <2>8. OnItsWay(s)'
    BY <2>4, <2>5, <2>6, <2>1 DEF OnItsWay
  <2>9. ASSUME NEW r \in Sessions, r # s PROVE OnItsWay(r)'
    BY <2>4, <2>7, <2>9 DEF UnderWay, OnItsWay
  <2>10. UnderWay'
    BY <2>8, <2>9 DEF UnderWay
  <2> QED
    BY <2>3, <2>10
<1>2. ASSUME NEW s \in Sessions, Due(s) PROVE WayInv'
  <2> USE <1>2 DEF Due
  <2>1. armed[s] = 1 /\ Places(s) = {}
    BY DEF UnderWay, OnItsWay
  <2>2. mailbox' \in Seq(Sessions)
    BY PlacesOfPosted
  <2>3. \A r \in Sessions :
          Places(r)' = IF r = s THEN {Len(mailbox) + 1} ELSE Places(r)
    BY <2>1, PlacesOfPosted
  <2>4. armed'[s] = 0 /\ \A r \in Sessions : r # s => armed'[r] = armed[r]
    BY <2>1
  <2>5. OnItsWay(s)'
    <3>1. Places(s)' = {Len(mailbox) + 1}
      BY <2>3
    <3>2. mTimerCbs'[s] > 0
      BY <2>1 DEF UnderWay, OnItsWay
    <3> QED
      BY <2>4, <3>1, <3>2 DEF OnItsWay
  <2>6. ASSUME NEW r \in Sessions, r # s PROVE OnItsWay(r)'
    BY <2>3, <2>4, <2>6 DEF UnderWay, OnItsWay
  <2>7. UnderWay'
    BY <2>5, <2>6 DEF UnderWay
  <2> QED
    BY <2>2, <2>7
<1>3. CASE OnTimer
  <2> USE <1>3 DEF OnTimer, TimeoutRaw
  <2>0. PICK s \in Sessions : s = Head(mailbox)
    BY PlacesOfRest
  <2>1. /\ mailbox' \in Seq(Sessions) /\ 1 \in Places(s)
        /\ \A r : \A i : i \in Places(r)' <=> i \in Nat \ {0} /\ i + 1 \in Places(r)
    BY <2>0, PlacesOfRest
  <2>2. /\ mTimerCbs' = [mTimerCbs EXCEPT ![s] = IF @ > 0 THEN @ - 1 ELSE 0]
        /\ armed' = IF mTimerCbs[s] > 1 THEN [armed EXCEPT ![s] = @ + 1] ELSE armed
    BY <2>0
  <2>3. TypeOK'
    BY SMTT(60), <2>1, <2>2
  <2>4. Places(s) = {1} /\ armed[s] = 0 /\ mTimerCbs[s] > 0
    BY <2>1 DEF UnderWay, OnItsWay
  <2>5. Places(s)' = {}
    <3>1. ASSUME NEW i \in Places(s)' PROVE FALSE
      <4>1. i \in Nat \ {0} /\ i + 1 \in {1}
        BY <2>1, <2>4
      <4> QED
        BY <4>1
    <3> QED
      BY <3>1
  <2>6. mTimerCbs'[s] = mTimerCbs[s] - 1 /\ armed'[s] = IF mTimerCbs[s] > 1 THEN 1 ELSE 0
    BY <2>1, <2>2, <2>4
  <2>7. ASSUME NEW r \in Sessions, r # s
        PROVE  /\ mTimerCbs'[r] = mTimerCbs[r] /\ armed'[r] = armed[r]
               /\ \A i, j \in Places(r)' : i = j
               /\ Places(r)' = {} <=> Places(r) = {}
    <3>1. mTimerCbs'[r] = mTimerCbs[r] /\ armed'[r] = armed[r]
      BY <2>1, <2>2, <2>7
    <3>2. \A i \in Places(r) : i \in Nat /\ i > 1
      BY <2>1, <2>4, <2>7, LenProperties DEF Places
    <3>3. \A i, j \in Places(r)' : i = j
      BY <2>1 DEF UnderWay, OnItsWay
    <3>4. ASSUME NEW i \in Places(r) PROVE i - 1 \in Places(r)'
      <4>1. i - 1 \in Nat \ {0} /\ (i - 1) + 1 = i
        BY <3>2
      <4> QED
        BY <4>1, <2>1
    <3>5. \A i \in Places(r)' : i + 1 \in Places(r)
      BY <2>1
    <3> QED
      BY <3>1, <3>3, <3>4, <3>5
  <2>8. OnItsWay(s)'
    BY <2>4, <2>5, <2>6, <2>1 DEF OnItsWay
  <2>9. ASSUME NEW r \in Sessions, r # s PROVE OnItsWay(r)'
    BY <2>7, <2>9 DEF UnderWay, OnItsWay
  <2>10. UnderWay'
    BY <2>8, <2>9 DEF UnderWay
  <2> QED
    BY <2>3, <2>10
<1>4. CASE UNCHANGED vars
  BY <1>4 DEF vars, UnderWay, OnItsWay, Places
<1> QED
  BY <1>1, <1>2, <1>3, <1>4 DEF Next

\* What the invariant says is what OneUnderWay counts.
LEMMA WayCounts == WayInv => OneUnderWay
<1> SUFFICES ASSUME WayInv, NEW s \in Sessions
             PROVE  armed[s] + Cardinality(Places(s)) = IF mTimerCbs[s] > 0 THEN 1 ELSE 0
  BY DEF WayInv, OneUnderWay, Places
<1>1. CASE Places(s) = {}
  BY <1>1, FS_EmptySet DEF WayInv, UnderWay, OnItsWay, TypeOK
<1>2. CASE Places(s) # {}
  <2>0. OnItsWay(s)
    BY DEF WayInv, UnderWay
  <2>1. PICK i \in Places(s) : Places(s) = {i}
    BY <1>2, <2>0 DEF OnItsWay
  <2>2. Cardinality(Places(s)) = 1
    BY <2>1, FS_Singleton
  <2> QED
    BY <1>2, <2>2 DEF WayInv, UnderWay, OnItsWay, TypeOK
<1> QED
  BY <1>1, <1>2

\* Whatever sessions come round again and however long timers run, a session with
\* runs left has exactly one timer or message under way and any other has none, so
\* that c_onTimer finds the callback that was meant (env.lua, line 76).
THEOREM SessionsAreUnique == Spec => []OneUnderWay
<1>1. WayInv /\ [Next]_vars => WayInv'
  BY WayStep
<1> QED
  BY <1>1, WayInit, WayCounts, PTL DEF Spec
==============================================================================
