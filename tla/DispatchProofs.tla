--------------------------- MODULE DispatchProofs ----------------------------
(***************************************************************************)
(* Proofs about Dispatch for any number of envs, workers and messages.     *)
(*                                                                         *)
(* The inductive invariant comes in three layers, each proved with the     *)
(* help of the one before: what the variables of a thread hold at each     *)
(* label (LocalInv), which labels hold which lock (LockInv), and where an  *)
(* mq is between two posts (QueueInv).  HolderInv, who has a message, goes  *)
(* beside them.                                                            *)
(***************************************************************************)
EXTENDS Dispatch, FiniteSetTheorems, SequenceTheorems, TLAPS

-----------------------------------------------------------------------------
(* Layer 1: types, and the local variables of each thread.                 *)

\* Labels at which a worker counts as idle, i.e. has decremented wokingNum.
IdlePcs == {"idle_wait", "waiting", "woken"}
IdleWorkers == {w \in Workers : pc[w] \in IdlePcs}

\* Labels at which a worker has an env, and at which it has a message of it.
ServePcs == PushPcs \cup EndPcs \cup {"mq_pop", "mq_take", "handle"}
HandlePcs == PushPcs \cup {"handle"}

PcInv ==
  /\ \A w \in Workers : pc[w] \in WorkerPcs
  /\ \A t \in Posters : pc[t] \in PushPcs \cup {"poll", "signal"}

ArgsInv ==
  \A t \in Threads : pc[t] \in PushPcs => tgt[t] \in Envs /\ out[t] \in Msgs

CurInv == \A w \in Workers : cur[w] \in Envs <=> pc[w] \in ServePcs

MsgInv == \A w \in Workers : msg[w] # None <=> pc[w] \in HandlePcs

CountInv == wokingNum = -Cardinality(IdleWorkers)

LocalInv == TypeOK /\ PcInv /\ ArgsInv /\ CurInv /\ MsgInv /\ CountInv

(* Layer 2: who holds which lock.                                          *)

HoldsMq(t, e) ==
  \/ tgt[t] = e /\ pc[t] \in {"push_msg", "push_gqlock", "push_mq", "push_mark"}
  \/ /\ t \in Workers
     /\ cur[t] = e
     /\ pc[t] \in {"mq_take", "end_check", "end_gqlock", "end_push", "end_unlock"}

HoldsGq(t) == pc[t] \in {"gq_take", "push_mq", "end_push"}

MqLockInv == \A t \in Threads, e \in Envs : HoldsMq(t, e) => mqLock[e] = t

GqLockInv == \A t \in Threads : HoldsGq(t) => gqLock = t

LockInv == MqLockInv /\ GqLockInv

(* Layer 3: an mq is in the global queue once, or owned by one worker, or  *)
(* neither; mIsG follows with the delay of push_mark.                      *)

Owned(e) == \E w \in Workers : Owns(w, e)
Marks(t, e) == tgt[t] = e /\ pc[t] = "push_mark"
Marking(e) == \E t \in Threads : Marks(t, e)

QueuedOnce == \A i, j \in DOMAIN gq : gq[i] = gq[j] => i = j

OwnedOnce ==
  \A e \in Envs, v, w \in Workers : Owns(v, e) /\ Owns(w, e) => v = w

QueuedOrOwned == \A e \in Envs : ~(InGq(e) /\ Owned(e))

\* Queued or owned is what mIsG says, up to a thread that is about to set it.
Marked ==
  \A e \in Envs : InGq(e) \/ Owned(e) <=> mIsG[e] \/ Marking(e)

\* A thread that took the branch of gq_push_msg found mIsG false, and it has
\* stayed so.
Unmarked ==
  \A t \in Threads, e \in Envs : Scheduling(t, e) => ~mIsG[e]

Pending ==
  \A e \in Envs :
    mMsgs[e] # <<>> => mIsG[e] \/ \E t \in Threads : Scheduling(t, e)

QueueInv ==
  QueuedOnce /\ OwnedOnce /\ QueuedOrOwned /\ Marked /\ Unmarked /\ Pending

IInv == LocalInv /\ LockInv /\ QueueInv

-----------------------------------------------------------------------------
(* The steps of a thread, for the proofs by cases below.                   *)

\* Every step is one of these, or leaves all variables alone.
LEMMA NextCases ==
  ASSUME [Next]_vars
  PROVE  \/ \E t \in Threads, e \in Envs, m \in Msgs : BeginPost(t, e, m)
         \/ \E t \in Threads : \/ PushLock(t) \/ PushMsg(t) \/ PushGqLock(t)
                               \/ PushMq(t) \/ PushMark(t)
         \/ \E w \in Workers : \/ GqPopLock(w) \/ GqTake(w) \/ MqPopLock(w)
                               \/ MqTake(w) \/ HandlerReturn(w)
                               \/ EndLock(w) \/ EndCheck(w) \/ EndGqLock(w)
                               \/ EndPush(w) \/ EndUnlock(w)
         \/ \E w \in Workers : \/ IdleEnter(w) \/ IdleWait(w) \/ IdleLeave(w)
                               \/ SpuriousWake(w)
         \/ TimerCheck \/ TimerSignal
         \/ UNCHANGED vars
BY DEF Next, PushStep, WorkerStep, TimerStep

\* The labels a step goes through determine which workers are idle.
LEMMA IdleFinite ==
  /\ IsFiniteSet(IdleWorkers)
  /\ Cardinality(IdleWorkers) \in 0 .. Cardinality(Workers)
  /\ Cardinality(Workers) \in Nat
BY ThreadsAssumption, FS_Subset, FS_CardinalityType DEF IdleWorkers

-----------------------------------------------------------------------------
(* Layer 1.                                                                *)

USE DEF Threads, Posters, Home, Goto, PushPcs, EndPcs, WorkerPcs, ServePcs,
        HandlePcs, IdlePcs, mqVars, gqVars, idleVars, localVars

\* Before its first step a thread is at one of these labels.
LEMMA FirstPcs ==
  ASSUME Init
  PROVE  /\ pc \in [Threads -> {"poll", "gq_pop", "absent"}]
         /\ \A w \in Workers : pc[w] \in {"gq_pop", "absent"}
         /\ \A t \in Posters : pc[t] = "poll"
<1>1. PICK ws \in SUBSET Workers \ {{}} :
        pc = [t \in Threads |-> FirstPc(t, ws)]
  BY DEF Init
<1> QED
  BY <1>1, ThreadsAssumption DEF FirstPc

\* At first every thread is at its first label and holds nothing.
LEMMA LocalInit == Init => LocalInv
<1> SUFFICES ASSUME Init PROVE LocalInv
  OBVIOUS
<1>1. IdleWorkers = {}
  BY FirstPcs DEF IdleWorkers
<1>2. CountInv
  BY <1>1, FS_EmptySet DEF Init, CountInv
<1>3. TypeOK
  <2>1. pc \in [Threads -> WorkerPcs \cup {"poll", "signal"}]
    BY FirstPcs
  <2> QED
    BY <2>1, IdleFinite, ThreadsAssumption DEF Init, TypeOK
<1>4. PcInv /\ ArgsInv /\ CurInv /\ MsgInv
  <2>1. PcInv /\ ArgsInv
    BY FirstPcs, ThreadsAssumption DEF PcInv, ArgsInv
  <2> QED
    BY <2>1, FirstPcs, ThreadsAssumption DEF Init, CurInv, MsgInv
<1> QED
  BY <1>2, <1>3, <1>4 DEF LocalInv

\* A step that neither makes a worker idle nor ends its idleness.
LEMMA CountKept ==
  ASSUME CountInv, UNCHANGED wokingNum, IdleWorkers' = IdleWorkers
  PROVE  CountInv'
BY DEF CountInv

\* No step of any thread breaks the local invariant.
LEMMA LocalStep == LocalInv /\ [Next]_vars => LocalInv'
<1> SUFFICES ASSUME LocalInv, [Next]_vars PROVE LocalInv'
  OBVIOUS
<1> USE ThreadsAssumption DEF LocalInv
<1>1. ASSUME NEW t \in Threads, NEW e \in Envs, NEW m \in Msgs, BeginPost(t, e, m)
      PROVE  LocalInv'
  <2>1. TypeOK' /\ PcInv' /\ ArgsInv' /\ CurInv' /\ MsgInv'
    BY <1>1 DEF BeginPost, TypeOK, PcInv, ArgsInv, CurInv, MsgInv
  <2>2. wokingNum' = wokingNum /\ IdleWorkers' = IdleWorkers
    BY <1>1 DEF BeginPost, TypeOK, PcInv, IdleWorkers
  <2> QED
    BY <2>1, <2>2, CountKept
<1>2. ASSUME NEW t \in Threads, PushLock(t) PROVE LocalInv'
  <2>1. TypeOK' /\ PcInv' /\ ArgsInv' /\ CurInv' /\ MsgInv'
    BY <1>2 DEF PushLock, TypeOK, PcInv, ArgsInv, CurInv, MsgInv, LockMq
  <2>2. wokingNum' = wokingNum /\ IdleWorkers' = IdleWorkers
    BY <1>2 DEF PushLock, TypeOK, PcInv, IdleWorkers, LockMq
  <2> QED
    BY <2>1, <2>2, CountKept
<1>3. ASSUME NEW t \in Threads, PushMsg(t) PROVE LocalInv'
  <2>1. /\ t \in Threads /\ pc[t] = "push_msg"
        /\ tgt[t] \in Envs /\ out[t] \in Msgs
        /\ mIsG[tgt[t]] \in BOOLEAN
        /\ Append(mMsgs[tgt[t]], out[t]) \in Seq(Msgs)
    BY <1>3 DEF PushMsg, TypeOK, ArgsInv, CurInv
  <2>2. wokingNum' = wokingNum /\ IdleWorkers' = IdleWorkers
    BY <1>3 DEF PushMsg, TypeOK, PcInv, IdleWorkers
  <2>3. CASE mIsG[tgt[t]]
    <3>1. /\ mMsgs' = [mMsgs EXCEPT ![tgt[t]] = Append(@, out[t])]
          /\ mqLock' = [mqLock EXCEPT ![tgt[t]] = None]
          /\ pc' = [pc EXCEPT ![t] = Home(t)]
          /\ tgt' = [tgt EXCEPT ![t] = None]
          /\ out' = [out EXCEPT ![t] = None]
          /\ UNCHANGED <<mIsG, gqVars, idleVars, cur, msg, unused>>
      BY <1>3, <2>3 DEF PushMsg, UnlockMq
    <3>2. TypeOK'
      BY <2>1, <3>1 DEF TypeOK
    <3>3. PcInv'
      BY <2>1, <3>1 DEF TypeOK, PcInv
    <3>4. ArgsInv'
      BY <2>1, <3>1 DEF TypeOK, ArgsInv
    <3>5. CurInv'
      BY <2>1, <3>1 DEF TypeOK, CurInv
    <3>6. MsgInv'
      BY <2>1, <3>1 DEF TypeOK, MsgInv
    <3> QED
      BY <3>2, <3>3, <3>4, <3>5, <3>6, <2>2, CountKept
  <2>4. CASE ~mIsG[tgt[t]]
    <3>1. /\ mMsgs' = [mMsgs EXCEPT ![tgt[t]] = Append(@, out[t])]
          /\ pc' = [pc EXCEPT ![t] = "push_gqlock"]
          /\ UNCHANGED <<mIsG, mqLock, gqVars, idleVars, localVars, unused>>
      BY <1>3, <2>4 DEF PushMsg, UnlockMq
    <3>2. TypeOK'
      BY <2>1, <3>1 DEF TypeOK
    <3>3. PcInv'
      BY <2>1, <3>1 DEF TypeOK, PcInv
    <3>4. ArgsInv'
      BY <2>1, <3>1 DEF TypeOK, ArgsInv
    <3>5. CurInv'
      BY <2>1, <3>1 DEF TypeOK, CurInv
    <3>6. MsgInv'
      BY <2>1, <3>1 DEF TypeOK, MsgInv
    <3> QED
      BY <3>2, <3>3, <3>4, <3>5, <3>6, <2>2, CountKept
  <2> QED
    BY <2>1, <2>3, <2>4 DEF TypeOK
<1>4. ASSUME NEW t \in Threads, PushGqLock(t) PROVE LocalInv'
  <2>1. TypeOK' /\ PcInv' /\ ArgsInv' /\ CurInv' /\ MsgInv'
    BY <1>4 DEF PushGqLock, TypeOK, PcInv, ArgsInv, CurInv, MsgInv, LockGq
  <2>2. wokingNum' = wokingNum /\ IdleWorkers' = IdleWorkers
    BY <1>4 DEF PushGqLock, TypeOK, PcInv, IdleWorkers, LockGq
  <2> QED
    BY <2>1, <2>2, CountKept
<1>5. ASSUME NEW t \in Threads, PushMq(t) PROVE LocalInv'
  <2>1. TypeOK' /\ PcInv' /\ ArgsInv' /\ CurInv' /\ MsgInv'
    BY <1>5 DEF PushMq, TypeOK, PcInv, ArgsInv, CurInv, MsgInv, UnlockGq
  <2>2. wokingNum' = wokingNum /\ IdleWorkers' = IdleWorkers
    BY <1>5 DEF PushMq, TypeOK, PcInv, IdleWorkers, UnlockGq
  <2> QED
    BY <2>1, <2>2, CountKept
<1>6. ASSUME NEW t \in Threads, PushMark(t) PROVE LocalInv'
  <2>1. TypeOK' /\ PcInv' /\ ArgsInv' /\ CurInv' /\ MsgInv'
    BY <1>6 DEF PushMark, TypeOK, PcInv, ArgsInv, CurInv, MsgInv, UnlockMq
  <2>2. wokingNum' = wokingNum /\ IdleWorkers' = IdleWorkers
    BY <1>6 DEF PushMark, TypeOK, PcInv, IdleWorkers, UnlockMq
  <2> QED
    BY <2>1, <2>2, CountKept
<1>7. ASSUME NEW w \in Workers, GqPopLock(w) PROVE LocalInv'
  <2>1. TypeOK' /\ PcInv' /\ ArgsInv' /\ CurInv' /\ MsgInv'
    BY <1>7 DEF GqPopLock, TypeOK, PcInv, ArgsInv, CurInv, MsgInv, LockGq
  <2>2. wokingNum' = wokingNum /\ IdleWorkers' = IdleWorkers
    BY <1>7 DEF GqPopLock, TypeOK, PcInv, IdleWorkers, LockGq
  <2> QED
    BY <2>1, <2>2, CountKept
<1>8. ASSUME NEW w \in Workers, GqTake(w) PROVE LocalInv'
  <2>1. w \in Threads /\ pc[w] = "gq_take" /\ gq \in Seq(Envs)
    BY <1>8 DEF GqTake, TypeOK, ArgsInv, CurInv
  <2>2. wokingNum' = wokingNum /\ IdleWorkers' = IdleWorkers
    BY <1>8 DEF GqTake, TypeOK, PcInv, IdleWorkers
  <2>3. CASE gq # <<>>
    <3>1. /\ gq' = Tail(gq) /\ gqLock' = None
          /\ cur' = [cur EXCEPT ![w] = Head(gq)]
          /\ pc' = [pc EXCEPT ![w] = "mq_pop"]
          /\ UNCHANGED <<mqVars, idleVars, msg, tgt, out, unused>>
      BY <1>8, <2>3 DEF GqTake, UnlockGq
    <3>2. Head(gq) \in Envs /\ Tail(gq) \in Seq(Envs)
      BY <2>1, <2>3, HeadTailProperties DEF TypeOK
    <3>3. TypeOK'
      BY <2>1, <3>1, <3>2 DEF TypeOK
    <3>4. PcInv'
      BY <2>1, <3>1, <3>2 DEF TypeOK, PcInv
    <3>5. ArgsInv'
      BY <2>1, <3>1, <3>2 DEF TypeOK, ArgsInv
    <3>6. CurInv'
      BY <2>1, <3>1, <3>2 DEF TypeOK, CurInv
    <3>7. MsgInv'
      BY <2>1, <3>1, <3>2 DEF TypeOK, MsgInv
    <3> QED
      BY <3>3, <3>4, <3>5, <3>6, <3>7, <2>2, CountKept
  <2>4. CASE gq = <<>>
    <3>1. /\ gqLock' = None
          /\ pc' = [pc EXCEPT ![w] = "idle_enter"]
          /\ UNCHANGED <<gq, mqVars, idleVars, localVars, unused>>
      BY <1>8, <2>4 DEF GqTake, UnlockGq
    <3>2. TypeOK'
      BY <2>1, <3>1 DEF TypeOK
    <3>3. PcInv'
      BY <2>1, <3>1 DEF TypeOK, PcInv
    <3>4. ArgsInv'
      BY <2>1, <3>1 DEF TypeOK, ArgsInv
    <3>5. CurInv'
      BY <2>1, <3>1 DEF TypeOK, CurInv
    <3>6. MsgInv'
      BY <2>1, <3>1 DEF TypeOK, MsgInv
    <3> QED
      BY <3>2, <3>3, <3>4, <3>5, <3>6, <2>2, CountKept
  <2> QED
    BY <2>1, <2>3, <2>4 DEF TypeOK
<1>9. ASSUME NEW w \in Workers, MqPopLock(w) PROVE LocalInv'
  <2>1. TypeOK' /\ PcInv' /\ ArgsInv' /\ CurInv' /\ MsgInv'
    BY <1>9 DEF MqPopLock, TypeOK, PcInv, ArgsInv, CurInv, MsgInv, LockMq
  <2>2. wokingNum' = wokingNum /\ IdleWorkers' = IdleWorkers
    BY <1>9 DEF MqPopLock, TypeOK, PcInv, IdleWorkers, LockMq
  <2> QED
    BY <2>1, <2>2, CountKept
<1>10. ASSUME NEW w \in Workers, MqTake(w) PROVE LocalInv'
  <2>1. /\ w \in Threads /\ pc[w] = "mq_take" /\ cur[w] \in Envs
        /\ mMsgs[cur[w]] \in Seq(Msgs)
    BY <1>10 DEF MqTake, TypeOK, ArgsInv, CurInv
  <2>2. wokingNum' = wokingNum /\ IdleWorkers' = IdleWorkers
    BY <1>10 DEF MqTake, TypeOK, PcInv, IdleWorkers
  <2>3. CASE mMsgs[cur[w]] # <<>>
    <3>1. /\ msg' = [msg EXCEPT ![w] = Head(mMsgs[cur[w]])]
          /\ mMsgs' = [mMsgs EXCEPT ![cur[w]] = Tail(@)]
          /\ mqLock' = [mqLock EXCEPT ![cur[w]] = None]
          /\ pc' = [pc EXCEPT ![w] = "handle"]
          /\ UNCHANGED <<mIsG, gqVars, idleVars, cur, tgt, out, unused>>
      BY <1>10, <2>3 DEF MqTake, UnlockMq
    <3>2. /\ Head(mMsgs[cur[w]]) \in Msgs
          /\ Tail(mMsgs[cur[w]]) \in Seq(Msgs)
      BY <2>1, <2>3, HeadTailProperties DEF TypeOK
    <3>3. TypeOK'
      BY <2>1, <3>1, <3>2 DEF TypeOK
    <3>4. PcInv'
      BY <2>1, <3>1, <3>2 DEF TypeOK, PcInv
    <3>5. ArgsInv'
      BY <2>1, <3>1, <3>2 DEF TypeOK, ArgsInv
    <3>6. CurInv'
      BY <2>1, <3>1, <3>2 DEF TypeOK, CurInv
    <3>7. MsgInv'
      BY <2>1, <3>1, <3>2 DEF TypeOK, MsgInv
    <3> QED
      BY <3>3, <3>4, <3>5, <3>6, <3>7, <2>2, CountKept
  <2>4. CASE mMsgs[cur[w]] = <<>>
    <3>1. /\ mqLock' = [mqLock EXCEPT ![cur[w]] = None]
          /\ pc' = [pc EXCEPT ![w] = "end"]
          /\ UNCHANGED <<mMsgs, mIsG, gqVars, idleVars, localVars, unused>>
      BY <1>10, <2>4 DEF MqTake, UnlockMq
    <3>2. TypeOK'
      BY <2>1, <3>1 DEF TypeOK
    <3>3. PcInv'
      BY <2>1, <3>1 DEF TypeOK, PcInv
    <3>4. ArgsInv'
      BY <2>1, <3>1 DEF TypeOK, ArgsInv
    <3>5. CurInv'
      BY <2>1, <3>1 DEF TypeOK, CurInv
    <3>6. MsgInv'
      BY <2>1, <3>1 DEF TypeOK, MsgInv
    <3> QED
      BY <3>2, <3>3, <3>4, <3>5, <3>6, <2>2, CountKept
  <2> QED
    BY <2>1, <2>3, <2>4 DEF TypeOK
<1>11. ASSUME NEW w \in Workers, HandlerReturn(w) PROVE LocalInv'
  <2>1. TypeOK' /\ PcInv' /\ ArgsInv' /\ CurInv' /\ MsgInv'
    BY <1>11 DEF HandlerReturn, TypeOK, PcInv, ArgsInv, CurInv, MsgInv
  <2>2. wokingNum' = wokingNum /\ IdleWorkers' = IdleWorkers
    BY <1>11 DEF HandlerReturn, TypeOK, PcInv, IdleWorkers
  <2> QED
    BY <2>1, <2>2, CountKept
<1>12. ASSUME NEW w \in Workers, EndLock(w) PROVE LocalInv'
  <2>1. TypeOK' /\ PcInv' /\ ArgsInv' /\ CurInv' /\ MsgInv'
    BY <1>12 DEF EndLock, TypeOK, PcInv, ArgsInv, CurInv, MsgInv, LockMq
  <2>2. wokingNum' = wokingNum /\ IdleWorkers' = IdleWorkers
    BY <1>12 DEF EndLock, TypeOK, PcInv, IdleWorkers, LockMq
  <2> QED
    BY <2>1, <2>2, CountKept
<1>13. ASSUME NEW w \in Workers, EndCheck(w) PROVE LocalInv'
  <2>1. w \in Threads /\ pc[w] = "end_check" /\ cur[w] \in Envs
    BY <1>13 DEF EndCheck, TypeOK, ArgsInv, CurInv
  <2>2. wokingNum' = wokingNum /\ IdleWorkers' = IdleWorkers
    BY <1>13 DEF EndCheck, TypeOK, PcInv, IdleWorkers
  <2>3. CASE mMsgs[cur[w]] # <<>>
    <3>1. /\ pc' = [pc EXCEPT ![w] = "end_gqlock"]
          /\ UNCHANGED <<mqVars, gqVars, idleVars, localVars, unused>>
      BY <1>13, <2>3 DEF EndCheck, UnlockMq
    <3>2. TypeOK'
      BY <2>1, <3>1 DEF TypeOK
    <3>3. PcInv'
      BY <2>1, <3>1 DEF TypeOK, PcInv
    <3>4. ArgsInv'
      BY <2>1, <3>1 DEF TypeOK, ArgsInv
    <3>5. CurInv'
      BY <2>1, <3>1 DEF TypeOK, CurInv
    <3>6. MsgInv'
      BY <2>1, <3>1 DEF TypeOK, MsgInv
    <3> QED
      BY <3>2, <3>3, <3>4, <3>5, <3>6, <2>2, CountKept
  <2>4. CASE mMsgs[cur[w]] = <<>>
    <3>1. /\ mIsG' = [mIsG EXCEPT ![cur[w]] = FALSE]
          /\ mqLock' = [mqLock EXCEPT ![cur[w]] = None]
          /\ cur' = [cur EXCEPT ![w] = None]
          /\ pc' = [pc EXCEPT ![w] = "gq_pop"]
          /\ UNCHANGED <<mMsgs, gqVars, idleVars, msg, tgt, out, unused>>
      BY <1>13, <2>4 DEF EndCheck, UnlockMq
    <3>2. TypeOK'
      BY <2>1, <3>1 DEF TypeOK
    <3>3. PcInv'
      BY <2>1, <3>1 DEF TypeOK, PcInv
    <3>4. ArgsInv'
      BY <2>1, <3>1 DEF TypeOK, ArgsInv
    <3>5. CurInv'
      BY <2>1, <3>1 DEF TypeOK, CurInv
    <3>6. MsgInv'
      BY <2>1, <3>1 DEF TypeOK, MsgInv
    <3> QED
      BY <3>2, <3>3, <3>4, <3>5, <3>6, <2>2, CountKept
  <2> QED
    BY <2>1, <2>3, <2>4 DEF TypeOK
<1>14. ASSUME NEW w \in Workers, EndGqLock(w) PROVE LocalInv'
  <2>1. TypeOK' /\ PcInv' /\ ArgsInv' /\ CurInv' /\ MsgInv'
    BY <1>14 DEF EndGqLock, TypeOK, PcInv, ArgsInv, CurInv, MsgInv, LockGq
  <2>2. wokingNum' = wokingNum /\ IdleWorkers' = IdleWorkers
    BY <1>14 DEF EndGqLock, TypeOK, PcInv, IdleWorkers, LockGq
  <2> QED
    BY <2>1, <2>2, CountKept
<1>15. ASSUME NEW w \in Workers, EndPush(w) PROVE LocalInv'
  <2>1. /\ w \in Threads /\ pc[w] = "end_push" /\ cur[w] \in Envs
        /\ Append(gq, cur[w]) \in Seq(Envs)
    BY <1>15 DEF EndPush, TypeOK, CurInv
  <2>2. TypeOK' /\ PcInv' /\ ArgsInv' /\ CurInv' /\ MsgInv'
    BY <1>15, <2>1 DEF EndPush, TypeOK, PcInv, ArgsInv, CurInv, MsgInv, UnlockGq
  <2>3. wokingNum' = wokingNum /\ IdleWorkers' = IdleWorkers
    BY <1>15 DEF EndPush, TypeOK, PcInv, IdleWorkers, UnlockGq
  <2> QED
    BY <2>2, <2>3, CountKept
<1>16. ASSUME NEW w \in Workers, EndUnlock(w) PROVE LocalInv'
  <2>1. TypeOK' /\ PcInv' /\ ArgsInv' /\ CurInv' /\ MsgInv'
    BY <1>16 DEF EndUnlock, TypeOK, PcInv, ArgsInv, CurInv, MsgInv, UnlockMq
  <2>2. wokingNum' = wokingNum /\ IdleWorkers' = IdleWorkers
    BY <1>16 DEF EndUnlock, TypeOK, PcInv, IdleWorkers, UnlockMq
  <2> QED
    BY <2>1, <2>2, CountKept
<1>17. ASSUME NEW w \in Workers, IdleWait(w) PROVE LocalInv'
  <2>1. TypeOK' /\ PcInv' /\ ArgsInv' /\ CurInv' /\ MsgInv'
    BY <1>17 DEF IdleWait, TypeOK, PcInv, ArgsInv, CurInv, MsgInv
  <2>2. wokingNum' = wokingNum /\ IdleWorkers' = IdleWorkers
    BY <1>17 DEF IdleWait, TypeOK, PcInv, IdleWorkers
  <2> QED
    BY <2>1, <2>2, CountKept
<1>18. ASSUME NEW w \in Workers, SpuriousWake(w) PROVE LocalInv'
  <2>1. TypeOK' /\ PcInv' /\ ArgsInv' /\ CurInv' /\ MsgInv'
    BY <1>18 DEF SpuriousWake, TypeOK, PcInv, ArgsInv, CurInv, MsgInv
  <2>2. wokingNum' = wokingNum /\ IdleWorkers' = IdleWorkers
    BY <1>18 DEF SpuriousWake, TypeOK, PcInv, IdleWorkers
  <2> QED
    BY <2>1, <2>2, CountKept
<1>19. ASSUME TimerCheck PROVE LocalInv'
  <2>1. TypeOK' /\ PcInv' /\ ArgsInv' /\ CurInv' /\ MsgInv'
    BY <1>19 DEF TimerCheck, TypeOK, PcInv, ArgsInv, CurInv, MsgInv
  <2>2. wokingNum' = wokingNum /\ IdleWorkers' = IdleWorkers
    BY <1>19 DEF TimerCheck, TypeOK, PcInv, IdleWorkers
  <2> QED
    BY <2>1, <2>2, CountKept
<1>20. ASSUME TimerSignal PROVE LocalInv'
  <2>1. /\ \/ \E w \in Workers : /\ pc[w] = "waiting"
                                /\ pc' = [pc EXCEPT ![Timer] = "poll", ![w] = "woken"]
           \/ pc' = [pc EXCEPT ![Timer] = "poll"]
        /\ Timer \in Threads /\ pc[Timer] = "signal"
        /\ UNCHANGED <<mqVars, gqVars, idleVars, localVars, unused>>
    BY <1>20 DEF TimerSignal
  <2>2. TypeOK'
    BY <2>1 DEF TypeOK
  <2>3. PcInv' /\ ArgsInv'
    BY ZenonT(60), <2>1 DEF TypeOK, PcInv, ArgsInv
  <2>4. CurInv'
    BY ZenonT(60), <2>1 DEF TypeOK, CurInv
  <2>5. MsgInv'
    BY ZenonT(60), <2>1 DEF TypeOK, MsgInv
  <2>6. wokingNum' = wokingNum /\ IdleWorkers' = IdleWorkers
    BY <2>1 DEF TypeOK, IdleWorkers
  <2> QED
    BY <2>2, <2>3, <2>4, <2>5, <2>6, CountKept
<1>21. ASSUME NEW w \in Workers, IdleEnter(w) PROVE LocalInv'
  <2>1. IdleWorkers' = IdleWorkers \cup {w} /\ w \notin IdleWorkers
    BY <1>21 DEF IdleEnter, TypeOK, PcInv, IdleWorkers
  <2>2. wokingNum' = wokingNum - 1
    BY <1>21 DEF IdleEnter
  <2>a. Cardinality(IdleWorkers \cup {w}) = Cardinality(IdleWorkers) + 1
    BY <2>1, FS_AddElement, IdleFinite
  <2>3. CountInv'
    BY <2>1, <2>2, <2>a, IdleFinite DEF CountInv
  <2>4. IdleWorkers' \subseteq Workers
    BY DEF IdleWorkers
  <2>5. wokingNum' \in -Cardinality(Workers) .. 0
    BY <2>3, <2>4, FS_Subset, FS_CardinalityType DEF CountInv
  <2>6. TypeOK' /\ PcInv' /\ ArgsInv' /\ CurInv' /\ MsgInv'
    BY <1>21, <2>5 DEF IdleEnter, TypeOK, PcInv, ArgsInv, CurInv, MsgInv
  <2> QED
    BY <2>3, <2>6
<1>22. ASSUME NEW w \in Workers, IdleLeave(w) PROVE LocalInv'
  <2>1. IdleWorkers' = IdleWorkers \ {w} /\ w \in IdleWorkers
    BY <1>22 DEF IdleLeave, TypeOK, PcInv, IdleWorkers
  <2>2. wokingNum' = wokingNum + 1
    BY <1>22 DEF IdleLeave
  <2>a. Cardinality(IdleWorkers \ {w}) = Cardinality(IdleWorkers) - 1
    BY <2>1, FS_RemoveElement, IdleFinite
  <2>3. CountInv'
    BY <2>1, <2>2, <2>a, IdleFinite DEF CountInv
  <2>4. IdleWorkers' \subseteq Workers
    BY DEF IdleWorkers
  <2>5. wokingNum' \in -Cardinality(Workers) .. 0
    BY <2>3, <2>4, FS_Subset, FS_CardinalityType DEF CountInv
  <2>6. TypeOK' /\ PcInv' /\ ArgsInv' /\ CurInv' /\ MsgInv'
    BY <1>22, <2>5 DEF IdleLeave, TypeOK, PcInv, ArgsInv, CurInv, MsgInv
  <2> QED
    BY <2>3, <2>6
<1>23. CASE UNCHANGED vars
  BY <1>23 DEF vars, CountInv, IdleWorkers, TypeOK, PcInv, ArgsInv, CurInv, MsgInv
<1> QED
  BY <1>1, <1>2, <1>3, <1>4, <1>5, <1>6, <1>7, <1>8, <1>9, <1>10, <1>11,
     <1>12, <1>13, <1>14, <1>15, <1>16, <1>17, <1>18, <1>19, <1>20, <1>21,
     <1>22, <1>23, NextCases

\* The variables of a thread hold what its label says, and wokingNum is minus
\* the number of idle workers.
LEMMA LocalCorrect == Spec => []LocalInv
<1> QED
  BY LocalInit, LocalStep, PTL DEF Spec

\* Type correctness: every variable of the dispatcher keeps its type.
THEOREM TypeCorrect == Spec => []TypeOK
<1>1. LocalInv => TypeOK
  BY DEF LocalInv
<1> QED
  BY <1>1, LocalCorrect, PTL

-----------------------------------------------------------------------------
(* Layer 2.                                                                *)

\* At first no lock is held.
LEMMA LockInit == Init => LockInv
<1> SUFFICES ASSUME Init PROVE LockInv
  OBVIOUS
<1>1. \A t \in Threads, e \in Envs : ~HoldsMq(t, e)
  BY FirstPcs DEF HoldsMq
<1>2. \A t \in Threads : ~HoldsGq(t)
  BY FirstPcs DEF HoldsGq
<1> QED
  BY <1>1, <1>2 DEF LockInv, MqLockInv, GqLockInv

\* Each lock is taken only when free and left only by the thread that holds it.
LEMMA LockStep == LocalInv /\ LockInv /\ [Next]_vars => LockInv'
<1> SUFFICES ASSUME LocalInv, LockInv, [Next]_vars PROVE LockInv'
  OBVIOUS
<1>0. TypeOK /\ PcInv /\ ArgsInv /\ CurInv
  BY DEF LocalInv
<1> USE ThreadsAssumption DEF LockInv
<1>1. ASSUME NEW t \in Threads, NEW e \in Envs, NEW m \in Msgs, BeginPost(t, e, m)
      PROVE  LockInv'
  <2>1. MqLockInv'
    BY <1>0, <1>1 DEF BeginPost, TypeOK, PcInv, ArgsInv, CurInv, MqLockInv, HoldsMq
  <2>2. GqLockInv'
    BY <1>0, <1>1 DEF BeginPost, TypeOK, PcInv, GqLockInv, HoldsGq
  <2> QED
    BY <2>1, <2>2
<1>2. ASSUME NEW t \in Threads, PushLock(t) PROVE LockInv'
  <2>1. MqLockInv'
    BY <1>0, <1>2 DEF PushLock, LockMq, TypeOK, PcInv, ArgsInv, CurInv, MqLockInv, HoldsMq
  <2>2. GqLockInv'
    BY <1>0, <1>2 DEF PushLock, LockMq, TypeOK, PcInv, GqLockInv, HoldsGq
  <2> QED
    BY <2>1, <2>2
<1>3. ASSUME NEW t \in Threads, PushMsg(t) PROVE LockInv'
  <2>1. MqLockInv'
    <3>1. t \in Threads /\ pc[t] = "push_msg" /\ tgt[t] \in Envs
      BY <1>0, <1>3 DEF PushMsg, ArgsInv
    <3>2. CASE mIsG[tgt[t]]
      <4>1. /\ mqLock' = [mqLock EXCEPT ![tgt[t]] = None]
            /\ pc' = [pc EXCEPT ![t] = Home(t)]
            /\ tgt' = [tgt EXCEPT ![t] = None]
            /\ cur' = cur
        BY <1>3, <3>2 DEF PushMsg, UnlockMq
      <4> QED
        BY <1>0, <3>1, <4>1 DEF TypeOK, MqLockInv, HoldsMq
    <3>3. CASE ~mIsG[tgt[t]]
      <4>1. /\ pc' = [pc EXCEPT ![t] = "push_gqlock"]
            /\ UNCHANGED <<mqLock, tgt, cur>>
        BY <1>3, <3>3 DEF PushMsg
      <4> QED
        BY <1>0, <3>1, <4>1 DEF TypeOK, MqLockInv, HoldsMq
    <3> QED
      BY <3>2, <3>3
  <2>2. GqLockInv'
    BY <1>0, <1>3 DEF PushMsg, UnlockMq, TypeOK, PcInv, GqLockInv, HoldsGq
  <2> QED
    BY <2>1, <2>2
<1>4. ASSUME NEW t \in Threads, PushGqLock(t) PROVE LockInv'
  <2>1. MqLockInv'
    BY <1>0, <1>4 DEF PushGqLock, LockGq, TypeOK, PcInv, ArgsInv, CurInv, MqLockInv, HoldsMq
  <2>2. GqLockInv'
    BY <1>0, <1>4 DEF PushGqLock, LockGq, TypeOK, PcInv, GqLockInv, HoldsGq
  <2> QED
    BY <2>1, <2>2
<1>5. ASSUME NEW t \in Threads, PushMq(t) PROVE LockInv'
  <2>1. MqLockInv'
    BY <1>0, <1>5 DEF PushMq, UnlockGq, TypeOK, PcInv, ArgsInv, CurInv, MqLockInv, HoldsMq
  <2>2. GqLockInv'
    BY <1>0, <1>5 DEF PushMq, UnlockGq, TypeOK, PcInv, GqLockInv, HoldsGq
  <2> QED
    BY <2>1, <2>2
<1>6. ASSUME NEW t \in Threads, PushMark(t) PROVE LockInv'
  <2>1. MqLockInv'
    BY <1>0, <1>6 DEF PushMark, UnlockMq, TypeOK, PcInv, ArgsInv, CurInv, MqLockInv, HoldsMq
  <2>2. GqLockInv'
    BY <1>0, <1>6 DEF PushMark, UnlockMq, TypeOK, PcInv, GqLockInv, HoldsGq
  <2> QED
    BY <2>1, <2>2
<1>7. ASSUME NEW w \in Workers, GqPopLock(w) PROVE LockInv'
  <2>1. MqLockInv'
    BY <1>0, <1>7 DEF GqPopLock, LockGq, TypeOK, PcInv, ArgsInv, CurInv, MqLockInv, HoldsMq
  <2>2. GqLockInv'
    BY <1>0, <1>7 DEF GqPopLock, LockGq, TypeOK, PcInv, GqLockInv, HoldsGq
  <2> QED
    BY <2>1, <2>2
<1>8. ASSUME NEW w \in Workers, GqTake(w) PROVE LockInv'
  <2>1. MqLockInv'
    <3>1. /\ pc[w] = "gq_take" /\ pc'[w] \in {"mq_pop", "idle_enter"}
          /\ UNCHANGED <<mqLock, tgt>>
          /\ \A t \in Threads : t # w => pc'[t] = pc[t] /\ (t \in Workers => cur'[t] = cur[t])
      BY <1>0, <1>8 DEF GqTake, TypeOK
    <3>2. \A t \in Threads, e \in Envs : HoldsMq(t, e)' => HoldsMq(t, e)
      BY <3>1 DEF HoldsMq
    <3> QED
      BY <3>1, <3>2 DEF MqLockInv
  <2>2. GqLockInv'
    BY <1>0, <1>8 DEF GqTake, UnlockGq, TypeOK, PcInv, GqLockInv, HoldsGq
  <2> QED
    BY <2>1, <2>2
<1>9. ASSUME NEW w \in Workers, MqPopLock(w) PROVE LockInv'
  <2>1. MqLockInv'
    BY <1>0, <1>9 DEF MqPopLock, LockMq, TypeOK, PcInv, ArgsInv, CurInv, MqLockInv, HoldsMq
  <2>2. GqLockInv'
    BY <1>0, <1>9 DEF MqPopLock, LockMq, TypeOK, PcInv, GqLockInv, HoldsGq
  <2> QED
    BY <2>1, <2>2
<1>10. ASSUME NEW w \in Workers, MqTake(w) PROVE LockInv'
  <2>1. MqLockInv'
    BY <1>0, <1>10 DEF MqTake, UnlockMq, TypeOK, PcInv, ArgsInv, CurInv, MqLockInv, HoldsMq
  <2>2. GqLockInv'
    BY <1>0, <1>10 DEF MqTake, UnlockMq, TypeOK, PcInv, GqLockInv, HoldsGq
  <2> QED
    BY <2>1, <2>2
<1>11. ASSUME NEW w \in Workers, HandlerReturn(w) PROVE LockInv'
  <2>1. MqLockInv'
    BY <1>0, <1>11 DEF HandlerReturn, TypeOK, PcInv, ArgsInv, CurInv, MqLockInv, HoldsMq
  <2>2. GqLockInv'
    BY <1>0, <1>11 DEF HandlerReturn, TypeOK, PcInv, GqLockInv, HoldsGq
  <2> QED
    BY <2>1, <2>2
<1>12. ASSUME NEW w \in Workers, EndLock(w) PROVE LockInv'
  <2>1. MqLockInv'
    BY <1>0, <1>12 DEF EndLock, LockMq, TypeOK, PcInv, ArgsInv, CurInv, MqLockInv, HoldsMq
  <2>2. GqLockInv'
    BY <1>0, <1>12 DEF EndLock, LockMq, TypeOK, PcInv, GqLockInv, HoldsGq
  <2> QED
    BY <2>1, <2>2
<1>13. ASSUME NEW w \in Workers, EndCheck(w) PROVE LockInv'
  <2>1. MqLockInv'
    BY <1>0, <1>13 DEF EndCheck, UnlockMq, TypeOK, PcInv, ArgsInv, CurInv, MqLockInv, HoldsMq
  <2>2. GqLockInv'
    BY <1>0, <1>13 DEF EndCheck, UnlockMq, TypeOK, PcInv, GqLockInv, HoldsGq
  <2> QED
    BY <2>1, <2>2
<1>14. ASSUME NEW w \in Workers, EndGqLock(w) PROVE LockInv'
  <2>1. MqLockInv'
    BY <1>0, <1>14 DEF EndGqLock, LockGq, TypeOK, PcInv, ArgsInv, CurInv, MqLockInv, HoldsMq
  <2>2. GqLockInv'
    BY <1>0, <1>14 DEF EndGqLock, LockGq, TypeOK, PcInv, GqLockInv, HoldsGq
  <2> QED
    BY <2>1, <2>2
<1>15. ASSUME NEW w \in Workers, EndPush(w) PROVE LockInv'
  <2>1. MqLockInv'
    BY <1>0, <1>15 DEF EndPush, UnlockGq, TypeOK, PcInv, ArgsInv, CurInv, MqLockInv, HoldsMq
  <2>2. GqLockInv'
    BY <1>0, <1>15 DEF EndPush, UnlockGq, TypeOK, PcInv, GqLockInv, HoldsGq
  <2> QED
    BY <2>1, <2>2
<1>16. ASSUME NEW w \in Workers, EndUnlock(w) PROVE LockInv'
  <2>1. MqLockInv'
    BY <1>0, <1>16 DEF EndUnlock, UnlockMq, TypeOK, PcInv, ArgsInv, CurInv, MqLockInv, HoldsMq
  <2>2. GqLockInv'
    BY <1>0, <1>16 DEF EndUnlock, UnlockMq, TypeOK, PcInv, GqLockInv, HoldsGq
  <2> QED
    BY <2>1, <2>2
<1>17. ASSUME NEW w \in Workers, IdleEnter(w) PROVE LockInv'
  <2>1. MqLockInv'
    BY <1>0, <1>17 DEF IdleEnter, TypeOK, PcInv, ArgsInv, CurInv, MqLockInv, HoldsMq
  <2>2. GqLockInv'
    BY <1>0, <1>17 DEF IdleEnter, TypeOK, PcInv, GqLockInv, HoldsGq
  <2> QED
    BY <2>1, <2>2
<1>18. ASSUME NEW w \in Workers, IdleWait(w) PROVE LockInv'
  <2>1. MqLockInv'
    BY <1>0, <1>18 DEF IdleWait, TypeOK, PcInv, ArgsInv, CurInv, MqLockInv, HoldsMq
  <2>2. GqLockInv'
    BY <1>0, <1>18 DEF IdleWait, TypeOK, PcInv, GqLockInv, HoldsGq
  <2> QED
    BY <2>1, <2>2
<1>19. ASSUME NEW w \in Workers, IdleLeave(w) PROVE LockInv'
  <2>1. MqLockInv'
    BY <1>0, <1>19 DEF IdleLeave, TypeOK, PcInv, ArgsInv, CurInv, MqLockInv, HoldsMq
  <2>2. GqLockInv'
    BY <1>0, <1>19 DEF IdleLeave, TypeOK, PcInv, GqLockInv, HoldsGq
  <2> QED
    BY <2>1, <2>2
<1>20. ASSUME NEW w \in Workers, SpuriousWake(w) PROVE LockInv'
  <2>1. MqLockInv'
    BY <1>0, <1>20 DEF SpuriousWake, TypeOK, PcInv, ArgsInv, CurInv, MqLockInv, HoldsMq
  <2>2. GqLockInv'
    BY <1>0, <1>20 DEF SpuriousWake, TypeOK, PcInv, GqLockInv, HoldsGq
  <2> QED
    BY <2>1, <2>2
<1>21. ASSUME TimerCheck PROVE LockInv'
  <2>1. MqLockInv'
    BY <1>0, <1>21 DEF TimerCheck, TypeOK, PcInv, ArgsInv, CurInv, MqLockInv, HoldsMq
  <2>2. GqLockInv'
    BY <1>0, <1>21 DEF TimerCheck, TypeOK, PcInv, GqLockInv, HoldsGq
  <2> QED
    BY <2>1, <2>2
<1>22. ASSUME TimerSignal PROVE LockInv'
  <2>1. MqLockInv'
    BY <1>0, <1>22 DEF TimerSignal, TypeOK, PcInv, ArgsInv, CurInv, MqLockInv, HoldsMq
  <2>2. GqLockInv'
    BY <1>0, <1>22 DEF TimerSignal, TypeOK, PcInv, GqLockInv, HoldsGq
  <2> QED
    BY <2>1, <2>2
<1>23. CASE UNCHANGED vars
  BY <1>23 DEF vars, MqLockInv, GqLockInv, HoldsMq, HoldsGq
<1> QED
  BY <1>1, <1>2, <1>3, <1>4, <1>5, <1>6, <1>7, <1>8, <1>9, <1>10, <1>11,
     <1>12, <1>13, <1>14, <1>15, <1>16, <1>17, <1>18, <1>19, <1>20, <1>21,
     <1>22, <1>23, NextCases

\* Two threads are never both between the lock and the unlock of one mq, nor
\* of the global queue.
LEMMA MqExclusion ==
  ASSUME LockInv, NEW t \in Threads, NEW u \in Threads, NEW e \in Envs,
         HoldsMq(t, e), HoldsMq(u, e)
  PROVE  t = u
BY DEF LockInv, MqLockInv

-----------------------------------------------------------------------------
(* Layer 3.                                                                *)

\* gq_push_mq_raw: the environment joins the queue, and no other moves.
LEMMA GqAppend ==
  ASSUME gq \in Seq(Envs), NEW e \in Envs, gq' = Append(gq, e)
  PROVE  /\ \A f \in Envs : InGq(f)' <=> InGq(f) \/ f = e
         /\ QueuedOnce /\ ~InGq(e) => QueuedOnce'
<1>1. /\ DOMAIN gq = 1 .. Len(gq) /\ Len(gq) \in Nat
      /\ DOMAIN gq' = 1 .. Len(gq) + 1
      /\ \A i \in 1 .. Len(gq) : gq'[i] = gq[i]
      /\ gq'[Len(gq) + 1] = e
  OBVIOUS
<1>2. \A f \in Envs : InGq(f)' <=> InGq(f) \/ f = e
  <2> SUFFICES ASSUME NEW f \in Envs PROVE InGq(f)' <=> InGq(f) \/ f = e
    OBVIOUS
  <2>1. ASSUME InGq(f)' PROVE InGq(f) \/ f = e
    <3>1. PICK i \in DOMAIN gq' : gq'[i] = f
      BY <2>1 DEF InGq
    <3> QED
      BY <1>1, <3>1 DEF InGq
  <2>2. ASSUME InGq(f) PROVE InGq(f)'
    BY <1>1, <2>2 DEF InGq
  <2>3. ASSUME f = e PROVE InGq(f)'
    <3>1. Len(gq) + 1 \in DOMAIN gq' /\ gq'[Len(gq) + 1] = f
      BY <1>1, <2>3
    <3> QED
      BY <3>1 DEF InGq
  <2> QED
    BY <2>1, <2>2, <2>3
<1>3. QueuedOnce /\ ~InGq(e) => QueuedOnce'
  BY <1>1 DEF QueuedOnce, InGq
<1> QED
  BY <1>2, <1>3

\* gq_pop: the head leaves the queue, and no other moves.
LEMMA GqTail ==
  ASSUME gq \in Seq(Envs), gq # <<>>, gq' = Tail(gq), QueuedOnce
  PROVE  /\ \A f \in Envs : InGq(f)' <=> InGq(f) /\ f # Head(gq)
         /\ InGq(Head(gq)) /\ Head(gq) \in Envs
         /\ QueuedOnce'
<1>1. /\ DOMAIN gq = 1 .. Len(gq) /\ Len(gq) \in Nat /\ Len(gq) > 0
      /\ DOMAIN gq' = 1 .. Len(gq) - 1
      /\ \A i \in 1 .. Len(gq) - 1 : gq'[i] = gq[i + 1]
      /\ Head(gq) = gq[1] /\ Head(gq) \in Envs
  BY HeadTailProperties, EmptySeq
<1>2. QueuedOnce'
  BY <1>1 DEF QueuedOnce
<1>3. InGq(Head(gq))
  BY <1>1 DEF InGq
<1>4. \A f \in Envs : InGq(f)' <=> InGq(f) /\ f # Head(gq)
  <2> SUFFICES ASSUME NEW f \in Envs PROVE InGq(f)' <=> InGq(f) /\ f # Head(gq)
    OBVIOUS
  <2>1. ASSUME InGq(f)' PROVE InGq(f) /\ f # Head(gq)
    <3>1. PICK i \in DOMAIN gq' : gq'[i] = f
      BY <2>1 DEF InGq
    <3> QED
      BY <1>1, <3>1 DEF InGq, QueuedOnce
  <2>2. ASSUME InGq(f), f # Head(gq) PROVE InGq(f)'
    <3>1. PICK i \in DOMAIN gq : gq[i] = f
      BY <2>2 DEF InGq
    <3>2. i - 1 \in DOMAIN gq' /\ gq'[i - 1] = f
      BY <1>1, <2>2, <3>1
    <3> QED
      BY <3>2 DEF InGq
  <2> QED
    BY <2>1, <2>2
<1> QED
  BY <1>1, <1>2, <1>3, <1>4

\* A step that leaves the global queue alone keeps what is said of it.
LEMMA GqKept ==
  ASSUME UNCHANGED gq
  PROVE  /\ \A e \in Envs : InGq(e)' <=> InGq(e)
         /\ QueuedOnce => QueuedOnce'
BY DEF InGq, QueuedOnce

\* At first no environment is queued, and no thread owns one.
LEMMA QueueInit == Init => QueueInv
<1> SUFFICES ASSUME Init PROVE QueueInv
  OBVIOUS
<1>1. \A e \in Envs : ~InGq(e) /\ ~Owned(e)
  BY ThreadsAssumption DEF Init, InGq, Owned, Owns
<1>2. \A t \in Threads, e \in Envs : ~Scheduling(t, e) /\ ~Marks(t, e)
  BY FirstPcs DEF Scheduling, Marks
<1>3. QueuedOnce /\ OwnedOnce
  BY <1>1 DEF Init, QueuedOnce, OwnedOnce, Owned
<1> QED
  BY <1>1, <1>2, <1>3 DEF Init, QueueInv, QueuedOrOwned, Marked, Marking, Unmarked, Pending

\* A quiet step moves no mq, changes no mIsG and adds no message.
OwnsKept == \A w \in Workers, e \in Envs : Owns(w, e)' <=> Owns(w, e)
MarksKept == \A t \in Threads, e \in Envs : Marks(t, e)' <=> Marks(t, e)
SchedulingKept ==
  \A t \in Threads, e \in Envs : Scheduling(t, e)' <=> Scheduling(t, e)
NoNewMsgs == \A e \in Envs : mMsgs[e] = <<>> => mMsgs'[e] = <<>>

Quiet ==
  UNCHANGED <<gq, mIsG>> /\ OwnsKept /\ MarksKept /\ SchedulingKept /\ NoNewMsgs

\* In a quiet step, but also in one that adds a message, every mq stays where
\* it is.
LEMMA StayStep ==
  ASSUME QueueInv, UNCHANGED <<gq, mIsG>>, OwnsKept, MarksKept
  PROVE  QueuedOnce' /\ OwnedOnce' /\ QueuedOrOwned' /\ Marked'
<1> USE DEF QueueInv
<1>1. QueuedOnce' /\ \A f \in Envs : InGq(f)' <=> InGq(f)
  BY GqKept
<1>2. \A f \in Envs : Owned(f)' <=> Owned(f)
  BY DEF Owned, OwnsKept
<1>3. \A f \in Envs : Marking(f)' <=> Marking(f)
  BY DEF Marking, MarksKept
<1>4. OwnedOnce'
  BY DEF OwnedOnce, OwnsKept
<1>5. QueuedOrOwned' /\ Marked'
  BY <1>1, <1>2, <1>3 DEF QueuedOrOwned, Marked
<1> QED
  BY <1>1, <1>4, <1>5

\* A step that changes nothing the queue invariant speaks of keeps it.
LEMMA QuietStep == QueueInv /\ Quiet => QueueInv'
<1> SUFFICES ASSUME QueueInv, Quiet PROVE QueueInv'
  OBVIOUS
<1>1. QueuedOnce' /\ OwnedOnce' /\ QueuedOrOwned' /\ Marked'
  BY StayStep DEF Quiet
<1>2. Unmarked' /\ Pending'
  BY DEF QueueInv, Quiet, Unmarked, Pending, SchedulingKept, NoNewMsgs
<1> QED
  BY <1>1, <1>2 DEF QueueInv

\* Every step keeps an environment queued once or owned by one worker, never both.
LEMMA QueueStep == LocalInv /\ LockInv /\ QueueInv /\ [Next]_vars => QueueInv'
<1> SUFFICES ASSUME LocalInv, LockInv, QueueInv, [Next]_vars PROVE QueueInv'
  OBVIOUS
<1>0. TypeOK /\ PcInv /\ ArgsInv /\ CurInv
  BY DEF LocalInv
<1> USE ThreadsAssumption DEF QueueInv
<1>1. ASSUME NEW t \in Threads, NEW e \in Envs, NEW m \in Msgs, BeginPost(t, e, m)
      PROVE  QueueInv'
  <2>1. OwnsKept
    BY <1>0, <1>1 DEF BeginPost, TypeOK, CurInv, OwnsKept, Owns
  <2>2. MarksKept /\ SchedulingKept
    BY <1>0, <1>1 DEF BeginPost, TypeOK, PcInv, MarksKept, Marks, SchedulingKept, Scheduling
  <2>3. UNCHANGED <<gq, mIsG>> /\ NoNewMsgs
    BY <1>0, <1>1 DEF BeginPost, TypeOK, NoNewMsgs
  <2>4. Quiet
    BY <2>1, <2>2, <2>3 DEF Quiet
  <2> QED
    BY <2>4, QuietStep
<1>2. ASSUME NEW t \in Threads, PushLock(t) PROVE QueueInv'
  <2>1. OwnsKept
    BY <1>0, <1>2 DEF PushLock, LockMq, TypeOK, CurInv, OwnsKept, Owns
  <2>2. MarksKept /\ SchedulingKept
    BY <1>0, <1>2 DEF PushLock, LockMq, TypeOK, PcInv, MarksKept, Marks, SchedulingKept, Scheduling
  <2>3. UNCHANGED <<gq, mIsG>> /\ NoNewMsgs
    BY <1>0, <1>2 DEF PushLock, LockMq, TypeOK, NoNewMsgs
  <2>4. Quiet
    BY <2>1, <2>2, <2>3 DEF Quiet
  <2> QED
    BY <2>4, QuietStep
<1>3. ASSUME NEW t \in Threads, PushMsg(t) PROVE QueueInv'
  <2> DEFINE e == tgt[t]
  <2>1. /\ t \in Threads /\ e \in Envs /\ pc[t] = "push_msg"
        /\ UNCHANGED <<gq, mIsG, cur>>
        /\ mMsgs' = [mMsgs EXCEPT ![e] = Append(@, out[t])]
    BY <1>0, <1>3 DEF PushMsg, ArgsInv
  <2>2. \A f \in Envs \ {e} : mMsgs'[f] = mMsgs[f]
    BY <1>0, <2>1 DEF TypeOK
  <2>3. CASE mIsG[e]
    <3>1. /\ pc' = [pc EXCEPT ![t] = Home(t)]
          /\ tgt' = [tgt EXCEPT ![t] = None]
      BY <1>3, <2>3 DEF PushMsg
    <3>2. OwnsKept
      BY <1>0, <2>1, <3>1 DEF TypeOK, OwnsKept, Owns
    <3>3. MarksKept /\ SchedulingKept
      BY <1>0, <2>1, <3>1 DEF TypeOK, MarksKept, Marks, SchedulingKept, Scheduling
    <3>4. QueuedOnce' /\ OwnedOnce' /\ QueuedOrOwned' /\ Marked'
      BY <2>1, <3>2, <3>3, StayStep
    <3>5. Unmarked'
      BY <2>1, <3>3 DEF Unmarked, SchedulingKept
    <3>6. Pending'
      BY <2>1, <2>2, <2>3, <3>3 DEF Pending, SchedulingKept
    <3> QED
      BY <3>4, <3>5, <3>6
  <2>4. CASE ~mIsG[e]
    <3>1. pc' = [pc EXCEPT ![t] = "push_gqlock"] /\ tgt' = tgt
      BY <1>3, <2>4 DEF PushMsg
    <3>2. OwnsKept
      BY <1>0, <2>1, <3>1 DEF TypeOK, OwnsKept, Owns
    <3>3. MarksKept
      BY <1>0, <2>1, <3>1 DEF TypeOK, MarksKept, Marks
    <3>4. QueuedOnce' /\ OwnedOnce' /\ QueuedOrOwned' /\ Marked'
      BY <2>1, <3>2, <3>3, StayStep
    <3>5. \A u \in Threads, f \in Envs :
            Scheduling(u, f)' <=> Scheduling(u, f) \/ (u = t /\ f = e)
      BY <1>0, <2>1, <3>1 DEF TypeOK, Scheduling
    <3>6. Unmarked'
      BY <2>1, <2>4, <3>5 DEF Unmarked
    <3>7. Pending'
      BY <2>1, <2>2, <3>5 DEF Pending
    <3> QED
      BY <3>4, <3>6, <3>7
  <2> QED
    BY <2>3, <2>4
<1>4. ASSUME NEW t \in Threads, PushGqLock(t) PROVE QueueInv'
  <2>1. OwnsKept
    BY <1>0, <1>4 DEF PushGqLock, LockGq, TypeOK, CurInv, OwnsKept, Owns
  <2>2. MarksKept /\ SchedulingKept
    BY <1>0, <1>4 DEF PushGqLock, LockGq, TypeOK, PcInv, MarksKept, Marks, SchedulingKept, Scheduling
  <2>3. UNCHANGED <<gq, mIsG>> /\ NoNewMsgs
    BY <1>0, <1>4 DEF PushGqLock, LockGq, TypeOK, NoNewMsgs
  <2>4. Quiet
    BY <2>1, <2>2, <2>3 DEF Quiet
  <2> QED
    BY <2>4, QuietStep
<1>5. ASSUME NEW t \in Threads, PushMq(t) PROVE QueueInv'
  <2> DEFINE e == tgt[t]
  <2>1. /\ t \in Threads /\ e \in Envs /\ pc[t] = "push_mq"
        /\ gq' = Append(gq, e) /\ pc' = [pc EXCEPT ![t] = "push_mark"]
        /\ UNCHANGED <<mMsgs, mIsG, cur, tgt>>
    BY <1>0, <1>5 DEF PushMq, ArgsInv
  <2>2. HoldsMq(t, e) /\ Scheduling(t, e)
    BY <2>1 DEF HoldsMq, Scheduling
  <2>3. ~Marking(e)
    <3> SUFFICES ASSUME NEW u \in Threads, Marks(u, e) PROVE FALSE
      BY DEF Marking
    <3>1. HoldsMq(u, e)
      BY DEF HoldsMq, Marks
    <3>2. u = t
      BY <2>1, <2>2, <3>1, MqExclusion
    <3> QED
      BY <2>1, <3>2 DEF Marks
  <2>4. ~InGq(e) /\ ~Owned(e)
    BY <2>1, <2>2, <2>3 DEF Marked, Unmarked
  <2>5. QueuedOnce' /\ \A f \in Envs : InGq(f)' <=> InGq(f) \/ f = e
    BY <1>0, <2>1, <2>4, GqAppend DEF TypeOK
  <2>6. OwnsKept /\ SchedulingKept /\ NoNewMsgs
    BY <1>0, <2>1 DEF TypeOK, OwnsKept, Owns, SchedulingKept, Scheduling, NoNewMsgs
  <2>7. \A f \in Envs : Owned(f)' <=> Owned(f)
    BY <2>6 DEF Owned, OwnsKept
  <2>8. \A u \in Threads, f \in Envs : Marks(u, f)' <=> Marks(u, f) \/ (u = t /\ f = e)
    BY <1>0, <2>1 DEF TypeOK, Marks
  <2>9. \A f \in Envs : Marking(f)' <=> Marking(f) \/ f = e
    BY <2>1, <2>8 DEF Marking
  <2>10. OwnedOnce'
    BY <2>6 DEF OwnedOnce, OwnsKept
  <2>11. QueuedOrOwned' /\ Marked'
    BY <2>1, <2>4, <2>5, <2>7, <2>9 DEF QueuedOrOwned, Marked
  <2>12. Unmarked' /\ Pending'
    BY <2>1, <2>6 DEF Unmarked, Pending, SchedulingKept, NoNewMsgs
  <2> QED
    BY <2>5, <2>10, <2>11, <2>12
<1>6. ASSUME NEW t \in Threads, PushMark(t) PROVE QueueInv'
  <2> DEFINE e == tgt[t]
  <2>1. /\ t \in Threads /\ e \in Envs /\ pc[t] = "push_mark"
        /\ mIsG' = [mIsG EXCEPT ![e] = TRUE]
        /\ pc' = [pc EXCEPT ![t] = Home(t)]
        /\ tgt' = [tgt EXCEPT ![t] = None]
        /\ UNCHANGED <<gq, mMsgs, cur>>
    BY <1>0, <1>6 DEF PushMark, ArgsInv
  <2>2. HoldsMq(t, e) /\ Marks(t, e)
    BY <2>1 DEF HoldsMq, Marks
  <2>3. QueuedOnce' /\ \A f \in Envs : InGq(f)' <=> InGq(f)
    BY <2>1, GqKept
  <2>4. mIsG'[e] /\ \A f \in Envs \ {e} : mIsG'[f] = mIsG[f]
    BY <1>0, <2>1 DEF TypeOK
  <2>5. OwnsKept
    BY <1>0, <2>1 DEF TypeOK, OwnsKept, Owns
  <2>6. \A f \in Envs : Owned(f)' <=> Owned(f)
    BY <2>5 DEF Owned, OwnsKept
  <2>7. \A u \in Threads, f \in Envs : Marks(u, f)' <=> Marks(u, f) /\ u # t
    BY <1>0, <2>1 DEF TypeOK, Marks
  <2>8. \A u \in Threads, f \in Envs : Scheduling(u, f)' <=> Scheduling(u, f) /\ u # t
    BY <1>0, <2>1 DEF TypeOK, Scheduling
  <2>9. InGq(e) \/ Owned(e)
    BY <2>1, <2>2 DEF Marked, Marking
  <2>10. \A f \in Envs \ {e} : Marking(f)' <=> Marking(f)
    BY <2>7 DEF Marking, Marks
  <2>11. OwnedOnce'
    BY <2>5 DEF OwnedOnce, OwnsKept
  <2>12. QueuedOrOwned' /\ Marked'
    BY <2>3, <2>4, <2>6, <2>9, <2>10 DEF QueuedOrOwned, Marked
  <2>13. \A u \in Threads : Scheduling(u, e) => u = t
    <3> SUFFICES ASSUME NEW u \in Threads, Scheduling(u, e) PROVE u = t
      OBVIOUS
    <3>1. HoldsMq(u, e)
      BY DEF HoldsMq, Scheduling
    <3> QED
      BY <2>1, <2>2, <3>1, MqExclusion
  <2>14. Unmarked'
    <3> SUFFICES ASSUME NEW u \in Threads, NEW f \in Envs, Scheduling(u, f)'
                 PROVE  ~mIsG'[f]
      BY DEF Unmarked
    <3>1. Scheduling(u, f) /\ u # t
      BY <2>8
    <3>2. f # e
      BY <2>13, <3>1
    <3> QED
      BY <2>4, <3>1, <3>2 DEF Unmarked
  <2>15. Pending'
    <3> SUFFICES ASSUME NEW f \in Envs, f # e, mMsgs[f] # <<>>
                 PROVE  mIsG'[f] \/ \E u \in Threads : Scheduling(u, f)'
      BY <2>1, <2>4 DEF Pending
    <3>1. CASE mIsG[f]
      BY <2>4, <3>1
    <3>2. CASE \E u \in Threads : Scheduling(u, f)
      <4>1. PICK u \in Threads : Scheduling(u, f)
        BY <3>2
      <4>2. u # t
        BY <4>1 DEF Scheduling
      <4> QED
        BY <2>8, <4>1, <4>2
    <3> QED
      BY <3>1, <3>2 DEF Pending
  <2> QED
    BY <2>3, <2>11, <2>12, <2>14, <2>15
<1>7. ASSUME NEW w \in Workers, GqPopLock(w) PROVE QueueInv'
  <2>1. OwnsKept
    BY <1>0, <1>7 DEF GqPopLock, LockGq, TypeOK, CurInv, OwnsKept, Owns
  <2>2. MarksKept /\ SchedulingKept
    BY <1>0, <1>7 DEF GqPopLock, LockGq, TypeOK, PcInv, MarksKept, Marks, SchedulingKept, Scheduling
  <2>3. UNCHANGED <<gq, mIsG>> /\ NoNewMsgs
    BY <1>0, <1>7 DEF GqPopLock, LockGq, TypeOK, NoNewMsgs
  <2>4. Quiet
    BY <2>1, <2>2, <2>3 DEF Quiet
  <2> QED
    BY <2>4, QuietStep
<1>8. ASSUME NEW w \in Workers, GqTake(w) PROVE QueueInv'
  <2>1. /\ w \in Threads /\ pc[w] = "gq_take" /\ cur[w] \notin Envs
        /\ gq \in Seq(Envs)
        /\ UNCHANGED <<mMsgs, mIsG, tgt>>
    BY <1>0, <1>8 DEF GqTake, CurInv, TypeOK
  <2>2. MarksKept /\ SchedulingKept /\ NoNewMsgs
    BY <1>0, <1>8, <2>1 DEF GqTake, TypeOK, MarksKept, Marks, SchedulingKept,
                            Scheduling, NoNewMsgs
  <2>3. CASE gq = <<>>
    <3>1. UNCHANGED <<gq, cur>> /\ pc' = [pc EXCEPT ![w] = "idle_enter"]
      BY <1>8, <2>3 DEF GqTake
    <3>2. OwnsKept
      BY <1>0, <2>1, <3>1 DEF TypeOK, OwnsKept, Owns
    <3>3. Quiet
      BY <2>1, <2>2, <3>1, <3>2 DEF Quiet
    <3> QED
      BY <3>3, QuietStep
  <2>4. CASE gq # <<>>
    <3> DEFINE e == Head(gq)
    <3>1. /\ gq' = Tail(gq) /\ cur' = [cur EXCEPT ![w] = e]
          /\ pc' = [pc EXCEPT ![w] = "mq_pop"]
      BY <1>8, <2>4 DEF GqTake
    <3>2. /\ \A f \in Envs : InGq(f)' <=> InGq(f) /\ f # e
          /\ InGq(e) /\ e \in Envs
          /\ QueuedOnce'
      BY <2>1, <2>4, <3>1, GqTail
    <3>3. ~Owned(e)
      BY <3>2 DEF QueuedOrOwned
    <3> HIDE DEF e
    <3>4. \A v \in Workers, f \in Envs : Owns(v, f)' <=> Owns(v, f) \/ (v = w /\ f = e)
      BY <1>0, <2>1, <3>1, <3>2 DEF TypeOK, Owns
    <3>5. \A f \in Envs : Owned(f)' <=> Owned(f) \/ f = e
      BY <3>2, <3>4 DEF Owned
    <3>6. OwnedOnce'
      BY <3>3, <3>4 DEF OwnedOnce, Owned
    <3>7. \A f \in Envs : Marking(f)' <=> Marking(f)
      BY <2>2 DEF Marking, MarksKept
    <3>8. QueuedOrOwned' /\ Marked'
      BY <2>1, <3>2, <3>5, <3>7 DEF QueuedOrOwned, Marked
    <3>9. Unmarked' /\ Pending'
      BY <2>1, <2>2 DEF Unmarked, Pending, SchedulingKept, NoNewMsgs
    <3> QED
      BY <3>2, <3>6, <3>8, <3>9
  <2> QED
    BY <2>3, <2>4
<1>9. ASSUME NEW w \in Workers, MqPopLock(w) PROVE QueueInv'
  <2>1. OwnsKept
    BY <1>0, <1>9 DEF MqPopLock, LockMq, TypeOK, CurInv, OwnsKept, Owns
  <2>2. MarksKept /\ SchedulingKept
    BY <1>0, <1>9 DEF MqPopLock, LockMq, TypeOK, PcInv, MarksKept, Marks, SchedulingKept, Scheduling
  <2>3. UNCHANGED <<gq, mIsG>> /\ NoNewMsgs
    BY <1>0, <1>9 DEF MqPopLock, LockMq, TypeOK, NoNewMsgs
  <2>4. Quiet
    BY <2>1, <2>2, <2>3 DEF Quiet
  <2> QED
    BY <2>4, QuietStep
<1>10. ASSUME NEW w \in Workers, MqTake(w) PROVE QueueInv'
  <2>1. OwnsKept
    BY <1>0, <1>10 DEF MqTake, UnlockMq, TypeOK, CurInv, OwnsKept, Owns
  <2>2. MarksKept /\ SchedulingKept
    BY <1>0, <1>10 DEF MqTake, UnlockMq, TypeOK, PcInv, MarksKept, Marks, SchedulingKept, Scheduling
  <2>3. UNCHANGED <<gq, mIsG>> /\ NoNewMsgs
    BY <1>0, <1>10 DEF MqTake, UnlockMq, TypeOK, NoNewMsgs
  <2>4. Quiet
    BY <2>1, <2>2, <2>3 DEF Quiet
  <2> QED
    BY <2>4, QuietStep
<1>11. ASSUME NEW w \in Workers, HandlerReturn(w) PROVE QueueInv'
  <2>1. OwnsKept
    BY <1>0, <1>11 DEF HandlerReturn, TypeOK, CurInv, OwnsKept, Owns
  <2>2. MarksKept /\ SchedulingKept
    BY <1>0, <1>11 DEF HandlerReturn, TypeOK, PcInv, MarksKept, Marks, SchedulingKept, Scheduling
  <2>3. UNCHANGED <<gq, mIsG>> /\ NoNewMsgs
    BY <1>0, <1>11 DEF HandlerReturn, TypeOK, NoNewMsgs
  <2>4. Quiet
    BY <2>1, <2>2, <2>3 DEF Quiet
  <2> QED
    BY <2>4, QuietStep
<1>12. ASSUME NEW w \in Workers, EndLock(w) PROVE QueueInv'
  <2>1. OwnsKept
    BY <1>0, <1>12 DEF EndLock, LockMq, TypeOK, CurInv, OwnsKept, Owns
  <2>2. MarksKept /\ SchedulingKept
    BY <1>0, <1>12 DEF EndLock, LockMq, TypeOK, PcInv, MarksKept, Marks, SchedulingKept, Scheduling
  <2>3. UNCHANGED <<gq, mIsG>> /\ NoNewMsgs
    BY <1>0, <1>12 DEF EndLock, LockMq, TypeOK, NoNewMsgs
  <2>4. Quiet
    BY <2>1, <2>2, <2>3 DEF Quiet
  <2> QED
    BY <2>4, QuietStep
<1>13. ASSUME NEW w \in Workers, EndCheck(w) PROVE QueueInv'
  <2>1. PICK e \in Envs : /\ cur[w] = e /\ w \in Threads /\ pc[w] = "end_check"
                          /\ UNCHANGED <<gq, mMsgs, tgt>>
    BY <1>0, <1>13 DEF EndCheck, CurInv
  <2>2. MarksKept /\ SchedulingKept /\ NoNewMsgs
    BY <1>0, <1>13, <2>1 DEF EndCheck, TypeOK, MarksKept, Marks, SchedulingKept,
                            Scheduling, NoNewMsgs
  <2>3. CASE mMsgs[e] # <<>>
    <3>1. UNCHANGED <<mIsG, cur>> /\ pc' = [pc EXCEPT ![w] = "end_gqlock"]
      BY <1>13, <2>1, <2>3 DEF EndCheck
    <3>2. OwnsKept
      BY <1>0, <2>1, <3>1 DEF TypeOK, OwnsKept, Owns
    <3>3. Quiet
      BY <2>1, <2>2, <3>1, <3>2 DEF Quiet
    <3> QED
      BY <3>3, QuietStep
  <2>4. CASE mMsgs[e] = <<>>
    <3>1. /\ mIsG' = [mIsG EXCEPT ![e] = FALSE]
          /\ cur' = [cur EXCEPT ![w] = None]
          /\ pc' = [pc EXCEPT ![w] = "gq_pop"]
      BY <1>13, <2>1, <2>4 DEF EndCheck
    <3>2. HoldsMq(w, e) /\ Owns(w, e)
      BY <2>1 DEF HoldsMq, Owns
    <3>3. ~Marking(e)
      <4> SUFFICES ASSUME NEW u \in Threads, Marks(u, e) PROVE FALSE
        BY DEF Marking
      <4>1. HoldsMq(u, e)
        BY DEF HoldsMq, Marks
      <4>2. u = w
        BY <2>1, <3>2, <4>1, MqExclusion
      <4> QED
        BY <2>1, <4>2 DEF Marks
    <3>4. Owned(e) /\ ~InGq(e)
      BY <2>1, <3>2 DEF Owned, QueuedOrOwned
    <3>5. ~mIsG'[e] /\ \A f \in Envs \ {e} : mIsG'[f] = mIsG[f]
      BY <1>0, <2>1, <3>1 DEF TypeOK
    <3>6. QueuedOnce' /\ \A f \in Envs : InGq(f)' <=> InGq(f)
      BY <2>1, GqKept
    <3>7. \A v \in Workers, f \in Envs : Owns(v, f)' <=> Owns(v, f) /\ v # w
      BY <1>0, <2>1, <3>1 DEF TypeOK, Owns
    <3>8. \A f \in Envs : Owned(f)' <=> Owned(f) /\ f # e
      <4>1. ~Owned(e)'
        BY <2>1, <3>2, <3>7 DEF Owned, OwnedOnce
      <4>2. \A f \in Envs \ {e} : Owned(f)' <=> Owned(f)
        BY <2>1, <3>7 DEF Owned, Owns
      <4> QED
        BY <2>1, <4>1, <4>2
    <3>9. OwnedOnce'
      BY <3>7 DEF OwnedOnce
    <3>10. \A f \in Envs : Marking(f)' <=> Marking(f)
      BY <2>2 DEF Marking, MarksKept
    <3>11. QueuedOrOwned'
      BY <3>6, <3>8 DEF QueuedOrOwned
    <3>12. Marked'
      <4>1. \A f \in Envs \ {e} : InGq(f)' \/ Owned(f)' <=> mIsG'[f] \/ Marking(f)'
        BY <3>5, <3>6, <3>8, <3>10 DEF Marked
      <4>2. ~InGq(e)' /\ ~Owned(e)' /\ ~mIsG'[e] /\ ~Marking(e)'
        BY <2>1, <3>3, <3>4, <3>5, <3>6, <3>8, <3>10
      <4> QED
        BY <4>1, <4>2 DEF Marked
    <3>13. Unmarked'
      BY <2>2, <3>5 DEF Unmarked, SchedulingKept
    <3>14. Pending'
      BY <2>1, <2>2, <2>4, <3>5 DEF Pending, SchedulingKept
    <3> QED
      BY <3>6, <3>9, <3>11, <3>12, <3>13, <3>14
  <2> QED
    BY <2>3, <2>4
<1>14. ASSUME NEW w \in Workers, EndGqLock(w) PROVE QueueInv'
  <2>1. OwnsKept
    BY <1>0, <1>14 DEF EndGqLock, LockGq, TypeOK, CurInv, OwnsKept, Owns
  <2>2. MarksKept /\ SchedulingKept
    BY <1>0, <1>14 DEF EndGqLock, LockGq, TypeOK, PcInv, MarksKept, Marks, SchedulingKept, Scheduling
  <2>3. UNCHANGED <<gq, mIsG>> /\ NoNewMsgs
    BY <1>0, <1>14 DEF EndGqLock, LockGq, TypeOK, NoNewMsgs
  <2>4. Quiet
    BY <2>1, <2>2, <2>3 DEF Quiet
  <2> QED
    BY <2>4, QuietStep
<1>15. ASSUME NEW w \in Workers, EndPush(w) PROVE QueueInv'
  <2> DEFINE e == cur[w]
  <2>1. /\ w \in Threads /\ pc[w] = "end_push" /\ e \in Envs
        /\ gq' = Append(gq, e) /\ pc' = [pc EXCEPT ![w] = "end_unlock"]
        /\ UNCHANGED <<mMsgs, mIsG, cur, tgt>>
    BY <1>0, <1>15 DEF EndPush, CurInv
  <2>2. Owns(w, e)
    BY <2>1 DEF Owns
  <2>3. Owned(e) /\ ~InGq(e)
    BY <2>1, <2>2 DEF Owned, QueuedOrOwned
  <2>4. QueuedOnce' /\ \A f \in Envs : InGq(f)' <=> InGq(f) \/ f = e
    BY <1>0, <2>1, <2>3, GqAppend DEF TypeOK
  <2>5. MarksKept /\ SchedulingKept /\ NoNewMsgs
    BY <1>0, <2>1 DEF TypeOK, MarksKept, Marks, SchedulingKept, Scheduling, NoNewMsgs
  <2>6. \A v \in Workers, f \in Envs : Owns(v, f)' <=> Owns(v, f) /\ v # w
    BY <1>0, <2>1 DEF TypeOK, Owns
  <2>7. \A f \in Envs : Owned(f)' <=> Owned(f) /\ f # e
    <3>1. ~Owned(e)'
      BY <2>1, <2>2, <2>6 DEF Owned, OwnedOnce
    <3>2. \A f \in Envs \ {e} : Owned(f)' <=> Owned(f)
      BY <2>6 DEF Owned, Owns
    <3> QED
      BY <2>1, <3>1, <3>2
  <2>8. OwnedOnce'
    BY <2>6 DEF OwnedOnce
  <2>9. \A f \in Envs : Marking(f)' <=> Marking(f)
    BY <2>5 DEF Marking, MarksKept
  <2>10. QueuedOrOwned' /\ Marked'
    BY <2>1, <2>3, <2>4, <2>7, <2>9 DEF QueuedOrOwned, Marked
  <2>11. Unmarked' /\ Pending'
    BY <2>1, <2>5 DEF Unmarked, Pending, SchedulingKept, NoNewMsgs
  <2> QED
    BY <2>4, <2>8, <2>10, <2>11
<1>16. ASSUME NEW w \in Workers, EndUnlock(w) PROVE QueueInv'
  <2>1. OwnsKept
    BY <1>0, <1>16 DEF EndUnlock, UnlockMq, TypeOK, CurInv, OwnsKept, Owns
  <2>2. MarksKept /\ SchedulingKept
    BY <1>0, <1>16 DEF EndUnlock, UnlockMq, TypeOK, PcInv, MarksKept, Marks, SchedulingKept, Scheduling
  <2>3. UNCHANGED <<gq, mIsG>> /\ NoNewMsgs
    BY <1>0, <1>16 DEF EndUnlock, UnlockMq, TypeOK, NoNewMsgs
  <2>4. Quiet
    BY <2>1, <2>2, <2>3 DEF Quiet
  <2> QED
    BY <2>4, QuietStep
<1>17. ASSUME NEW w \in Workers, IdleEnter(w) PROVE QueueInv'
  <2>1. OwnsKept
    BY <1>0, <1>17 DEF IdleEnter, TypeOK, CurInv, OwnsKept, Owns
  <2>2. MarksKept /\ SchedulingKept
    BY <1>0, <1>17 DEF IdleEnter, TypeOK, PcInv, MarksKept, Marks, SchedulingKept, Scheduling
  <2>3. UNCHANGED <<gq, mIsG>> /\ NoNewMsgs
    BY <1>0, <1>17 DEF IdleEnter, TypeOK, NoNewMsgs
  <2>4. Quiet
    BY <2>1, <2>2, <2>3 DEF Quiet
  <2> QED
    BY <2>4, QuietStep
<1>18. ASSUME NEW w \in Workers, IdleWait(w) PROVE QueueInv'
  <2>1. OwnsKept
    BY <1>0, <1>18 DEF IdleWait, TypeOK, CurInv, OwnsKept, Owns
  <2>2. MarksKept /\ SchedulingKept
    BY <1>0, <1>18 DEF IdleWait, TypeOK, PcInv, MarksKept, Marks, SchedulingKept, Scheduling
  <2>3. UNCHANGED <<gq, mIsG>> /\ NoNewMsgs
    BY <1>0, <1>18 DEF IdleWait, TypeOK, NoNewMsgs
  <2>4. Quiet
    BY <2>1, <2>2, <2>3 DEF Quiet
  <2> QED
    BY <2>4, QuietStep
<1>19. ASSUME NEW w \in Workers, IdleLeave(w) PROVE QueueInv'
  <2>1. OwnsKept
    BY <1>0, <1>19 DEF IdleLeave, TypeOK, CurInv, OwnsKept, Owns
  <2>2. MarksKept /\ SchedulingKept
    BY <1>0, <1>19 DEF IdleLeave, TypeOK, PcInv, MarksKept, Marks, SchedulingKept, Scheduling
  <2>3. UNCHANGED <<gq, mIsG>> /\ NoNewMsgs
    BY <1>0, <1>19 DEF IdleLeave, TypeOK, NoNewMsgs
  <2>4. Quiet
    BY <2>1, <2>2, <2>3 DEF Quiet
  <2> QED
    BY <2>4, QuietStep
<1>20. ASSUME NEW w \in Workers, SpuriousWake(w) PROVE QueueInv'
  <2>1. OwnsKept
    BY <1>0, <1>20 DEF SpuriousWake, TypeOK, CurInv, OwnsKept, Owns
  <2>2. MarksKept /\ SchedulingKept
    BY <1>0, <1>20 DEF SpuriousWake, TypeOK, PcInv, MarksKept, Marks, SchedulingKept, Scheduling
  <2>3. UNCHANGED <<gq, mIsG>> /\ NoNewMsgs
    BY <1>0, <1>20 DEF SpuriousWake, TypeOK, NoNewMsgs
  <2>4. Quiet
    BY <2>1, <2>2, <2>3 DEF Quiet
  <2> QED
    BY <2>4, QuietStep
<1>21. ASSUME TimerCheck PROVE QueueInv'
  <2>1. OwnsKept
    BY <1>0, <1>21 DEF TimerCheck, TypeOK, CurInv, OwnsKept, Owns
  <2>2. MarksKept /\ SchedulingKept
    BY <1>0, <1>21 DEF TimerCheck, TypeOK, PcInv, MarksKept, Marks, SchedulingKept, Scheduling
  <2>3. UNCHANGED <<gq, mIsG>> /\ NoNewMsgs
    BY <1>0, <1>21 DEF TimerCheck, TypeOK, NoNewMsgs
  <2>4. Quiet
    BY <2>1, <2>2, <2>3 DEF Quiet
  <2> QED
    BY <2>4, QuietStep
<1>22. ASSUME TimerSignal PROVE QueueInv'
  <2>1. OwnsKept
    BY <1>0, <1>22 DEF TimerSignal, TypeOK, CurInv, OwnsKept, Owns
  <2>2. MarksKept /\ SchedulingKept
    BY <1>0, <1>22 DEF TimerSignal, TypeOK, PcInv, MarksKept, Marks, SchedulingKept, Scheduling
  <2>3. UNCHANGED <<gq, mIsG>> /\ NoNewMsgs
    BY <1>0, <1>22 DEF TimerSignal, TypeOK, NoNewMsgs
  <2>4. Quiet
    BY <2>1, <2>2, <2>3 DEF Quiet
  <2> QED
    BY <2>4, QuietStep
<1>23. CASE UNCHANGED vars
  <2>1. Quiet
    BY <1>23 DEF vars, Quiet, OwnsKept, Owns, MarksKept, Marks,
         SchedulingKept, Scheduling, NoNewMsgs
  <2> QED
    BY <2>1, QuietStep
<1> QED
  BY <1>1, <1>2, <1>3, <1>4, <1>5, <1>6, <1>7, <1>8, <1>9, <1>10, <1>11,
     <1>12, <1>13, <1>14, <1>15, <1>16, <1>17, <1>18, <1>19, <1>20, <1>21,
     <1>22, <1>23, NextCases

-----------------------------------------------------------------------------
(* The safety invariants of Dispatch.                                      *)

\* The three layers together are inductive.
THEOREM InvariantHolds == Spec => []IInv
<1>1. Init => IInv
  BY LocalInit, LockInit, QueueInit DEF IInv
<1>2. IInv /\ [Next]_vars => IInv'
  BY LocalStep, LockStep, QueueStep DEF IInv
<1> QED
  BY <1>1, <1>2, PTL DEF Spec

\* A worker inside the handler of an env owns the mq of that env.
LEMMA RunnerOwns ==
  ASSUME IInv, NEW w \in Workers, NEW e \in Envs, Runs(w, e)
  PROVE  Owns(w, e)
BY DEF IInv, LocalInv, MsgInv, Runs, Owns

\* No two workers are ever inside the Lua VM of one env, however many workers
\* tWorker is started for.
THEOREM ExclusiveEnvHolds == Spec => []ExclusiveEnv
<1>1. IInv => ExclusiveEnv
  BY RunnerOwns DEF IInv, QueueInv, OwnedOnce, ExclusiveEnv
<1> QED
  BY <1>1, InvariantHolds, PTL

\* An mq with a message is always on its way to a worker: gq_worker_end and
\* gq_push_msg leave no window in which it is forgotten.
THEOREM NoLostEnvHolds == Spec => []NoLostEnv
<1>1. IInv => NoLostEnv
  <2> SUFFICES ASSUME IInv, NEW e \in Envs, mMsgs[e] # <<>>
               PROVE  \/ InGq(e)
                      \/ \E w \in Workers : Owns(w, e)
                      \/ \E t \in Threads : Scheduling(t, e)
    BY DEF NoLostEnv
  <2>1. mIsG[e] \/ \E t \in Threads : Scheduling(t, e)
    BY DEF IInv, QueueInv, Pending
  <2>2. mIsG[e] => InGq(e) \/ \E w \in Workers : Owns(w, e)
    BY DEF IInv, QueueInv, Marked, Owned
  <2> QED
    BY <2>1, <2>2
<1> QED
  BY <1>1, InvariantHolds, PTL

\* The assertions of gq.c at lines 131 and 142 never fail.
THEOREM AssertionsHoldAlways == Spec => []AssertionsHold
<1>1. IInv => AssertionsHold
  <2> SUFFICES ASSUME IInv PROVE AssertionsHold
    OBVIOUS
  <2>0. /\ LocalInv /\ TypeOK /\ CurInv
        /\ LockInv
        /\ QueuedOnce /\ OwnedOnce /\ QueuedOrOwned /\ Marked /\ Unmarked
    BY DEF IInv, LocalInv, QueueInv
  <2>1. ASSUME NEW t \in Threads, NEW e \in Envs, HoldsMq(t, e), Marking(e)
        PROVE  pc[t] = "push_mark"
    <3>1. PICK u \in Threads : Marks(u, e)
      BY <2>1 DEF Marking
    <3>2. HoldsMq(u, e)
      BY <3>1 DEF HoldsMq, Marks
    <3> QED
      BY <2>0, <2>1, <3>1, <3>2, MqExclusion DEF Marks
  <2>2. ASSUME NEW t \in Threads, NEW e \in Envs,
               Scheduling(t, e), pc[t] # "push_mark"
        PROVE  ~InGq(e)
    <3>1. HoldsMq(t, e)
      BY <2>2 DEF HoldsMq, Scheduling
    <3> QED
      BY <2>0, <2>1, <2>2, <3>1 DEF Marked, Unmarked
  <2>3. ASSUME NEW w \in Workers, pc[w] \in {"end_check", "end_gqlock", "end_push"}
        PROVE  mIsG[cur[w]]
    <3>1. PICK e \in Envs : cur[w] = e
      BY <2>0, <2>3 DEF CurInv
    <3>2. HoldsMq(w, e) /\ Owned(e) /\ w \in Threads
      BY <2>3, <3>1 DEF HoldsMq, Owned, Owns
    <3>3. ~Marking(e)
      BY <2>1, <2>3, <3>2
    <3> QED
      BY <2>0, <3>1, <3>2, <3>3 DEF Marked
  <2> QED
    BY <2>2, <2>3 DEF AssertionsHold
<1> QED
  BY <1>1, InvariantHolds, PTL

-----------------------------------------------------------------------------
(* Who has a message.                                                      *)

CarriersOf(m) == {t \in Threads : Carries(t) /\ out[t] = m}
SpotsIn(m, e) == {i \in DOMAIN mMsgs[e] : mMsgs[e][i] = m}
HandlersOf(m) == {w \in Workers : msg[w] = m}

\* A message has one holder, memory without a message has none.
HolderInv ==
  \A m \in Msgs : /\ m \in unused => Holders(m) = {}
                  /\ m \notin unused => \E h : Holders(m) = {h}

\* The three kinds of holders.
LEMMA HoldersAre ==
  ASSUME NEW m, NEW h
  PROVE  h \in Holders(m) <=>
           \/ \E t \in CarriersOf(m) : h = <<"poster", t, 0>>
           \/ \E e \in Envs : \E i \in SpotsIn(m, e) : h = <<"mq", e, i>>
           \/ \E w \in HandlersOf(m) : h = <<"worker", w, 0>>
BY DEF Holders, CarriersOf, SpotsIn, HandlersOf

\* The same after a step.
LEMMA HoldersAreNext ==
  ASSUME NEW m, NEW h
  PROVE  h \in Holders(m)' <=>
           \/ \E t \in CarriersOf(m)' : h = <<"poster", t, 0>>
           \/ \E e \in Envs : \E i \in SpotsIn(m, e)' : h = <<"mq", e, i>>
           \/ \E w \in HandlersOf(m)' : h = <<"worker", w, 0>>
BY DEF Holders, CarriersOf, SpotsIn, HandlersOf

\* Who keeps each kind of holder keeps them all.
LEMMA HoldersKept ==
  ASSUME NEW m, CarriersOf(m)' = CarriersOf(m), HandlersOf(m)' = HandlersOf(m),
         \A e \in Envs : SpotsIn(m, e)' = SpotsIn(m, e)
  PROVE  Holders(m)' = Holders(m)
<1>1. \A h : h \in Holders(m)' <=> h \in Holders(m)
  BY HoldersAre, HoldersAreNext
<1> QED
  BY <1>1

\* At first there is no message.
LEMMA HolderInit == Init => HolderInv
<1> SUFFICES ASSUME Init, NEW m \in Msgs PROVE Holders(m) = {} /\ m \in unused
  BY DEF HolderInv
<1>1. CarriersOf(m) = {} /\ HandlersOf(m) = {} /\ \A e \in Envs : SpotsIn(m, e) = {}
  BY ThreadsAssumption DEF Init, CarriersOf, HandlersOf, SpotsIn, Carries
<1> QED
  BY <1>1, HoldersAre DEF Init

\* A step in which no message changes hands on its way to an mq.
CarriesKept ==
  /\ UNCHANGED unused
  /\ \A t \in Threads : Carries(t)' <=> Carries(t)
  /\ \A t \in Threads : Carries(t) => out'[t] = out[t]

\* A step in which no message changes hands at all.
LEMMA HolderStay ==
  ASSUME HolderInv, CarriesKept, UNCHANGED <<mMsgs, msg>> PROVE HolderInv'
<1>1. ASSUME NEW m \in Msgs PROVE Holders(m)' = Holders(m)
  <2>1. CarriersOf(m)' = CarriersOf(m)
    BY DEF CarriesKept, CarriersOf
  <2>2. HandlersOf(m)' = HandlersOf(m) /\ \A e \in Envs : SpotsIn(m, e)' = SpotsIn(m, e)
    BY DEF HandlersOf, SpotsIn
  <2> QED
    BY <2>1, <2>2, HoldersKept
<1> QED
  BY <1>1 DEF HolderInv, CarriesKept

\* A new message is held by the thread that allocated it.
LEMMA HolderBegins ==
  ASSUME LocalInv, HolderInv, NEW t \in Threads, NEW e \in Envs, NEW m \in Msgs,
         BeginPost(t, e, m)
  PROVE  HolderInv'
<1>1. TypeOK
  BY DEF LocalInv
<1>2. /\ unused' = unused \ {m} /\ m \in unused /\ UNCHANGED <<mMsgs, msg>>
      /\ Carries(t)' /\ out'[t] = m /\ ~Carries(t)
      /\ \A u \in Threads \ {t} : (Carries(u)' <=> Carries(u)) /\ out'[u] = out[u]
  BY <1>1, ThreadsAssumption DEF BeginPost, TypeOK, Carries
<1>3. \A n : HandlersOf(n)' = HandlersOf(n) /\ \A f \in Envs : SpotsIn(n, f)' = SpotsIn(n, f)
  BY <1>2 DEF HandlersOf, SpotsIn
<1>4. ASSUME NEW n \in Msgs, n # m PROVE Holders(n)' = Holders(n)
  <2>1. CarriersOf(n)' = CarriersOf(n)
    BY <1>2, <1>4 DEF CarriersOf
  <2> QED
    BY <1>3, <2>1, HoldersKept
<1>5. Holders(m) = {}
  BY <1>2 DEF HolderInv
<1>6. /\ CarriersOf(m) = {} /\ HandlersOf(m) = {}
      /\ \A f \in Envs : SpotsIn(m, f) = {}
  BY <1>5, HoldersAre
<1>7. CarriersOf(m)' = {t}
  BY <1>2, <1>6 DEF CarriersOf
<1>8. \A h : h \in Holders(m)' <=> h = <<"poster", t, 0>>
  BY <1>3, <1>6, <1>7, HoldersAreNext
<1>9. Holders(m)' = {<<"poster", t, 0>>}
  BY <1>8
<1> QED
  BY <1>2, <1>4, <1>9 DEF HolderInv

\* mq_push_raw: the message passes from the thread to the list.
LEMMA HolderPushes ==
  ASSUME LocalInv, HolderInv, NEW t \in Threads, PushMsg(t) PROVE HolderInv'
<1>1. TypeOK /\ ArgsInv
  BY DEF LocalInv
<1>2. pc[t] = "push_msg" /\ out[t] \in Msgs /\ tgt[t] \in Envs
  BY <1>1 DEF PushMsg, ArgsInv, PushPcs
<1>3. PICK m \in Msgs, e \in Envs : m = out[t] /\ e = tgt[t]
  BY <1>2
<1>4. /\ Carries(t)
      /\ UNCHANGED <<msg, unused>>
      /\ mMsgs' = [mMsgs EXCEPT ![e] = Append(@, m)]
      /\ \E l \in {"push_gqlock", Home(t)} : pc' = [pc EXCEPT ![t] = l]
      /\ out' = out \/ out' = [out EXCEPT ![t] = None]
  BY <1>2, <1>3 DEF PushMsg, Goto, Carries
<1>5. /\ ~Carries(t)'
      /\ \A u \in Threads \ {t} : (Carries(u)' <=> Carries(u)) /\ out'[u] = out[u]
  BY <1>1, <1>4, ThreadsAssumption DEF TypeOK, Carries, Home
<1>6. PICK last : last = Len(mMsgs[e]) + 1
  OBVIOUS
<1>7. mMsgs[e] \in Seq(Msgs) /\ mMsgs'[e] = Append(mMsgs[e], m)
  BY <1>1, <1>4 DEF TypeOK
<1>8. /\ DOMAIN mMsgs[e] = 1 .. last - 1 /\ last \in Nat \ {0}
      /\ DOMAIN mMsgs'[e] = 1 .. last /\ mMsgs'[e][last] = m
      /\ \A i \in 1 .. last - 1 : mMsgs'[e][i] = mMsgs[e][i]
  BY <1>6, <1>7
<1>9. \A f \in Envs \ {e} : mMsgs'[f] = mMsgs[f]
  BY <1>1, <1>4 DEF TypeOK
<1>10. \A n : HandlersOf(n)' = HandlersOf(n)
  BY <1>4 DEF HandlersOf
<1>11. ASSUME NEW n \in Msgs, n # m PROVE Holders(n)' = Holders(n)
  <2>1. CarriersOf(n)' = CarriersOf(n)
    BY <1>4, <1>3, <1>5, <1>11 DEF CarriersOf
  <2>2. SpotsIn(n, e)' = SpotsIn(n, e)
    BY <1>8, <1>11 DEF SpotsIn
  <2>3. \A f \in Envs : SpotsIn(n, f)' = SpotsIn(n, f)
    BY <1>9, <2>2 DEF SpotsIn
  <2> QED
    BY <1>10, <2>1, <2>3, HoldersKept
<1>12. t \in CarriersOf(m)
  BY <1>4, <1>3 DEF CarriersOf
<1>13. <<"poster", t, 0>> \in Holders(m)
  BY <1>12, HoldersAre
<1>14. m \notin unused /\ Holders(m) = {<<"poster", t, 0>>}
  BY <1>4, <1>13 DEF HolderInv
<1>15. CarriersOf(m) \subseteq {t} /\ HandlersOf(m) = {} /\ \A f \in Envs : SpotsIn(m, f) = {}
  <2>1. \A u \in CarriersOf(m) : <<"poster", u, 0>> = <<"poster", t, 0>>
    BY <1>14, HoldersAre
  <2>2. \A w \in HandlersOf(m) : <<"worker", w, 0>> = <<"poster", t, 0>>
    BY <1>14, HoldersAre
  <2>3. \A f \in Envs : \A i \in SpotsIn(m, f) : <<"mq", f, i>> = <<"poster", t, 0>>
    BY <1>14, HoldersAre
  <2> QED
    BY <2>1, <2>2, <2>3
<1>16. CarriersOf(m)' = {}
  BY <1>5, <1>15 DEF CarriersOf
<1>17. SpotsIn(m, e)' = {last}
  BY <1>4, <1>8, <1>15 DEF SpotsIn
<1>18. \A f \in Envs \ {e} : SpotsIn(m, f)' = {}
  BY <1>9, <1>15 DEF SpotsIn
<1>19. \A h : h \in Holders(m)' <=> h = <<"mq", e, last>>
  BY <1>4, <1>10, <1>15, <1>16, <1>17, <1>18, HoldersAreNext
<1>20. Holders(m)' = {<<"mq", e, last>>}
  BY <1>19
<1> QED
  BY <1>4, <1>11, <1>14, <1>20 DEF HolderInv

\* A message with a place in an mq has no other holder, and no other place.
LEMMA HolderAtSpot ==
  ASSUME HolderInv, NEW m \in Msgs, NEW e \in Envs, NEW i \in SpotsIn(m, e)
  PROVE  /\ m \notin unused /\ CarriersOf(m) = {} /\ HandlersOf(m) = {}
         /\ SpotsIn(m, e) = {i} /\ \A f \in Envs \ {e} : SpotsIn(m, f) = {}
<1>1. <<"mq", e, i>> \in Holders(m)
  BY HoldersAre
<1>2. m \notin unused /\ Holders(m) = {<<"mq", e, i>>}
  BY <1>1 DEF HolderInv
<1>3. \A t \in CarriersOf(m) : <<"poster", t, 0>> = <<"mq", e, i>>
  BY <1>2, HoldersAre
<1>4. \A w \in HandlersOf(m) : <<"worker", w, 0>> = <<"mq", e, i>>
  BY <1>2, HoldersAre
<1>5. \A f \in Envs : \A j \in SpotsIn(m, f) : <<"mq", f, j>> = <<"mq", e, i>>
  BY <1>2, HoldersAre
<1>6. \A f \in Envs : \A j \in SpotsIn(m, f) : f = e /\ j = i
  BY <1>5
<1> QED
  BY <1>2, <1>3, <1>4, <1>6

\* mq_pop: the first message passes from the list to the worker, the others move up.
LEMMA HolderTakes ==
  ASSUME LocalInv, HolderInv, NEW w \in Workers, MqTake(w) PROVE HolderInv'
<1>1. TypeOK /\ CurInv /\ MsgInv
  BY DEF LocalInv
<1>2. PICK e \in Envs : e = cur[w]
  BY <1>1 DEF MqTake, CurInv, ServePcs
<1>3. /\ w \in Threads /\ pc[w] = "mq_take" /\ msg[w] = None /\ mMsgs[e] \in Seq(Msgs)
      /\ UNCHANGED <<out, unused>>
      /\ \E l \in {"handle", "end"} : pc' = [pc EXCEPT ![w] = l]
  BY <1>1, <1>2 DEF MqTake, MsgInv, TypeOK, Threads, HandlePcs, PushPcs
<1>4. CarriesKept
  BY <1>1, <1>3 DEF TypeOK, CarriesKept, Carries
<1>5. CASE mMsgs[e] = <<>>
  <2>1. UNCHANGED <<mMsgs, msg>>
    BY <1>2, <1>5 DEF MqTake
  <2> QED
    BY <1>4, <2>1, HolderStay
<1>6. CASE mMsgs[e] # <<>>
  <2>0. PICK m, len : m = Head(mMsgs[e]) /\ len = Len(mMsgs[e])
    OBVIOUS
  <2>1. msg' = [msg EXCEPT ![w] = m] /\ mMsgs' = [mMsgs EXCEPT ![e] = Tail(@)]
    BY <1>2, <1>6, <2>0 DEF MqTake
  <2>2. /\ m \in Msgs /\ len \in Nat \ {0} /\ DOMAIN mMsgs[e] = 1 .. len
        /\ mMsgs[e][1] = m
    BY <1>3, <1>6, <2>0
  <2>3. mMsgs'[e] = Tail(mMsgs[e]) /\ \A f \in Envs \ {e} : mMsgs'[f] = mMsgs[f]
    BY <1>1, <2>1 DEF TypeOK
  <2>4. /\ DOMAIN mMsgs'[e] = 1 .. len - 1
        /\ \A i \in 1 .. len - 1 : mMsgs'[e][i] = mMsgs[e][i + 1]
    BY <1>3, <1>6, <2>0, <2>3
  <2>5. msg'[w] = m /\ m # None /\ \A v \in Workers \ {w} : msg'[v] = msg[v]
    BY <1>1, <2>1, <2>2, ThreadsAssumption DEF TypeOK
  <2>6. \A n : CarriersOf(n)' = CarriersOf(n)
    BY <1>4 DEF CarriesKept, CarriersOf
  <2>7. \A n : \A f \in Envs \ {e} : SpotsIn(n, f)' = SpotsIn(n, f)
    BY <2>3 DEF SpotsIn
  <2>8. \A n : \A i \in SpotsIn(n, e)' : i \in Int /\ i + 1 \in SpotsIn(n, e)
    BY <2>2, <2>4 DEF SpotsIn
  <2>9. 1 \in SpotsIn(m, e)
    BY <2>2 DEF SpotsIn
  <2>10. /\ m \notin unused /\ CarriersOf(m) = {} /\ HandlersOf(m) = {}
         /\ SpotsIn(m, e) = {1} /\ \A f \in Envs \ {e} : SpotsIn(m, f) = {}
    BY <2>2, <2>9, HolderAtSpot
  <2>11. Holders(m)' = {<<"worker", w, 0>>}
    <3>1. HandlersOf(m)' = {w}
      BY <2>5, <2>10 DEF HandlersOf
    <3>2. SpotsIn(m, e)' = {}
      <4> SUFFICES ASSUME NEW i \in SpotsIn(m, e)' PROVE FALSE
        OBVIOUS
      <4>1. i \in Int /\ i + 1 = 1
        BY <2>8, <2>10
      <4>2. i \in 1 .. len - 1
        BY <2>4 DEF SpotsIn
      <4> QED
        BY <4>1, <4>2
    <3>3. \A h : h \in Holders(m)' <=> h = <<"worker", w, 0>>
      BY <2>6, <2>7, <2>10, <3>1, <3>2, HoldersAreNext
    <3> QED
      BY <3>3
  <2>12. ASSUME NEW n \in Msgs, n # m
         PROVE  /\ n \in unused => Holders(n)' = {}
                /\ n \notin unused => \E h : Holders(n)' = {h}
    <3>1. HandlersOf(n)' = HandlersOf(n)
      BY <1>3, <2>2, <2>5, <2>12, ThreadsAssumption DEF HandlersOf
    <3>2. CASE SpotsIn(n, e) = {}
      <4>1. SpotsIn(n, e)' = {}
        BY <2>8, <3>2
      <4>2. \A f \in Envs : SpotsIn(n, f)' = SpotsIn(n, f)
        BY <2>7, <3>2, <4>1
      <4>3. Holders(n)' = Holders(n)
        BY <2>6, <3>1, <4>2, HoldersKept
      <4> QED
        BY <4>3 DEF HolderInv
    <3>3. ASSUME NEW j \in SpotsIn(n, e)
          PROVE  n \notin unused /\ Holders(n)' = {<<"mq", e, j - 1>>}
      <4>1. /\ n \notin unused /\ CarriersOf(n) = {} /\ HandlersOf(n) = {}
            /\ SpotsIn(n, e) = {j} /\ \A f \in Envs \ {e} : SpotsIn(n, f) = {}
        BY HolderAtSpot
      <4>2. j \in 1 .. len /\ mMsgs[e][j] = n
        BY <2>2 DEF SpotsIn
      <4>3. j # 1
        BY <2>2, <2>12, <4>2
      <4>4. j - 1 \in 1 .. len - 1 /\ (j - 1) + 1 = j
        BY <2>2, <4>2, <4>3
      <4>5. j - 1 \in SpotsIn(n, e)'
        BY <2>4, <4>2, <4>4 DEF SpotsIn
      <4>6. \A i \in SpotsIn(n, e)' : i \in Int /\ i + 1 = j
        BY <2>8, <4>1
      <4>7. SpotsIn(n, e)' = {j - 1}
        BY <4>2, <4>5, <4>6
      <4>8. \A h : h \in Holders(n)' <=> h = <<"mq", e, j - 1>>
        BY <2>6, <2>7, <3>1, <4>1, <4>7, HoldersAreNext
      <4> QED
        BY <4>1, <4>8
    <3> QED
      BY <3>2, <3>3
  <2> QED
    BY <1>3, <2>10, <2>11, <2>12 DEF HolderInv
<1> QED
  BY <1>5, <1>6

\* FREE: the worker was the only holder.
LEMMA HolderReturns ==
  ASSUME LocalInv, HolderInv, NEW w \in Workers, HandlerReturn(w) PROVE HolderInv'
<1>1. TypeOK /\ MsgInv
  BY DEF LocalInv
<1>0. PICK m : m = msg[w]
  OBVIOUS
<1>2. /\ w \in Threads /\ pc[w] = "handle" /\ m \in Msgs /\ m # None
      /\ unused' = unused \cup {m}
      /\ UNCHANGED <<mMsgs, out>>
      /\ pc' = [pc EXCEPT ![w] = "mq_pop"]
      /\ msg' = [msg EXCEPT ![w] = None]
  BY <1>0, <1>1 DEF HandlerReturn, Goto, MsgInv, HandlePcs, TypeOK, Threads
<1>3. msg'[w] = None /\ \A v \in Workers \ {w} : msg'[v] = msg[v]
  BY <1>1, <1>2 DEF TypeOK
<1>4. \A n : CarriersOf(n)' = CarriersOf(n) /\ \A f \in Envs : SpotsIn(n, f)' = SpotsIn(n, f)
  BY <1>1, <1>2 DEF TypeOK, CarriersOf, Carries, SpotsIn
<1>5. w \in HandlersOf(m)
  BY <1>0 DEF HandlersOf
<1>6. <<"worker", w, 0>> \in Holders(m)
  BY <1>5, HoldersAre
<1>7. m \notin unused /\ Holders(m) = {<<"worker", w, 0>>}
  BY <1>2, <1>6 DEF HolderInv
<1>8. CarriersOf(m) = {} /\ HandlersOf(m) \subseteq {w} /\ \A f \in Envs : SpotsIn(m, f) = {}
  <2>1. \A t \in CarriersOf(m) : <<"poster", t, 0>> = <<"worker", w, 0>>
    BY <1>7, HoldersAre
  <2>2. \A v \in HandlersOf(m) : <<"worker", v, 0>> = <<"worker", w, 0>>
    BY <1>7, HoldersAre
  <2>3. \A f \in Envs : \A i \in SpotsIn(m, f) : <<"mq", f, i>> = <<"worker", w, 0>>
    BY <1>7, HoldersAre
  <2> QED
    BY <2>1, <2>2, <2>3
<1>9. HandlersOf(m)' = {}
  BY <1>2, <1>3, <1>8 DEF HandlersOf
<1>10. \A h : h \notin Holders(m)'
  BY <1>4, <1>8, <1>9, HoldersAreNext
<1>11. Holders(m)' = {}
  BY <1>10
<1>12. ASSUME NEW n \in Msgs, n # m PROVE Holders(n)' = Holders(n)
  <2>1. HandlersOf(n)' = HandlersOf(n)
    BY <1>2, <1>0, <1>3, <1>12, ThreadsAssumption DEF HandlersOf
  <2> QED
    BY <1>4, <2>1, HoldersKept
<1> QED
  BY <1>2, <1>11, <1>12 DEF HolderInv

\* Every message keeps one holder, every step.
LEMMA HolderStep == LocalInv /\ HolderInv /\ [Next]_vars => HolderInv'
<1> SUFFICES ASSUME LocalInv, HolderInv, [Next]_vars PROVE HolderInv'
  OBVIOUS
<1>0. TypeOK /\ PcInv
  BY DEF LocalInv
<1> USE ThreadsAssumption
<1> DEFINE Still == CarriesKept /\ UNCHANGED <<mMsgs, msg>>
<1>1. ASSUME NEW t \in Threads,
             PushLock(t) \/ PushGqLock(t) \/ PushMq(t) \/ PushMark(t)
      PROVE  Still
  BY <1>0, <1>1 DEF PushLock, PushGqLock, PushMq, PushMark, TypeOK, CarriesKept, Carries
<1>2. ASSUME NEW w \in Workers, GqPopLock(w) \/ GqTake(w) \/ MqPopLock(w)
      PROVE  Still
  BY <1>0, <1>2 DEF GqPopLock, GqTake, MqPopLock, TypeOK, CarriesKept, Carries
<1>3. ASSUME NEW w \in Workers,
             EndLock(w) \/ EndCheck(w) \/ EndGqLock(w) \/ EndPush(w) \/ EndUnlock(w)
      PROVE  Still
  BY <1>0, <1>3 DEF EndLock, EndCheck, EndGqLock, EndPush, EndUnlock, TypeOK,
                    CarriesKept, Carries
<1>4. ASSUME NEW w \in Workers,
             IdleEnter(w) \/ IdleWait(w) \/ IdleLeave(w) \/ SpuriousWake(w)
      PROVE  Still
  BY <1>0, <1>4 DEF IdleEnter, IdleWait, IdleLeave, SpuriousWake, TypeOK,
                    CarriesKept, Carries
<1>5. ASSUME TimerCheck \/ TimerSignal PROVE Still
  BY <1>0, <1>5 DEF TimerCheck, TimerSignal, TypeOK, CarriesKept, Carries
<1>6. ASSUME UNCHANGED vars PROVE Still
  BY <1>6 DEF vars, CarriesKept, Carries
<1>7. Still => HolderInv'
  BY HolderStay
<1> QED
  BY <1>1, <1>2, <1>3, <1>4, <1>5, <1>6, <1>7,
     HolderBegins, HolderPushes, HolderTakes, HolderReturns, NextCases

\* A message is never in two places: not linked in twice, nor freed while an mq or
\* a worker has it, nor dropped without FREE.
THEOREM OneHolderHolds == Spec => []OneHolder
<1>1. Init => LocalInv /\ HolderInv
  BY LocalInit, HolderInit
<1>2. LocalInv /\ HolderInv /\ [Next]_vars => LocalInv' /\ HolderInv'
  BY LocalStep, HolderStep
<1>3. HolderInv => OneHolder
  <2> SUFFICES ASSUME HolderInv, NEW m \in Msgs
               PROVE  Cardinality(Holders(m)) = IF m \in unused THEN 0 ELSE 1
    BY DEF OneHolder
  <2>1. CASE m \in unused
    BY <2>1, FS_EmptySet DEF HolderInv
  <2>2. CASE m \notin unused
    <3>1. PICK h : Holders(m) = {h}
      BY <2>2 DEF HolderInv
    <3> QED
      BY <2>2, <3>1, FS_Singleton
  <2> QED
    BY <2>1, <2>2
<1> QED
  BY <1>1, <1>2, <1>3, PTL DEF Spec

\* What a thread carries no other thread carries, and none of it is free.
LEMMA CarriedOnce ==
  ASSUME LocalInv, HolderInv, NEW t \in Threads, NEW u \in Threads,
         Carries(t), Carries(u)
  PROVE  out[t] \notin unused /\ (out[t] = out[u] => t = u)
<1>1. out[t] \in Msgs
  BY DEF LocalInv, ArgsInv, Carries, PushPcs
<1>2. <<"poster", t, 0>> \in Holders(out[t])
  BY HoldersAre DEF CarriersOf
<1>3. out[t] = out[u] => <<"poster", u, 0>> \in Holders(out[t])
  BY HoldersAre DEF CarriersOf
<1>4. out[t] \notin unused /\ Holders(out[t]) = {<<"poster", t, 0>>}
  BY <1>1, <1>2 DEF HolderInv
<1> QED
  BY <1>3, <1>4

-----------------------------------------------------------------------------
(* Dispatch implements Mailbox.                                            *)

\* runningBar is the message of the worker that runs the env, if one does.
LEMMA RunningBar ==
  /\ \A w \in Workers, e \in Envs :
       ExclusiveEnv /\ Runs(w, e) => runningBar[e] = msg[w]
  /\ \A e \in Envs : (\A w \in Workers : ~Runs(w, e)) => runningBar[e] = None
<1>1. ASSUME NEW w \in Workers, NEW e \in Envs, ExclusiveEnv, Runs(w, e)
      PROVE  runningBar[e] = msg[w]
  <2> DEFINE v == CHOOSE v \in Workers : Runs(v, e)
  <2>1. v \in Workers /\ Runs(v, e)
    BY <1>1
  <2>2. v = w
    BY <1>1, <2>1 DEF ExclusiveEnv
  <2> QED
    BY <1>1, <2>2 DEF runningBar
<1>2. ASSUME NEW e \in Envs, \A w \in Workers : ~Runs(w, e)
      PROVE  runningBar[e] = None
  BY <1>2 DEF runningBar
<1> QED
  BY <1>1, <1>2

\* What an environment runs after a step, read off the worker that runs it.
LEMMA RunningBarNext ==
  /\ \A w \in Workers, e \in Envs :
       ExclusiveEnv' /\ Runs(w, e)' => runningBar'[e] = msg'[w]
  /\ \A e \in Envs : (\A w \in Workers : ~Runs(w, e)') => runningBar'[e] = None
<1>1. ASSUME NEW w \in Workers, NEW e \in Envs, ExclusiveEnv', Runs(w, e)'
      PROVE  runningBar'[e] = msg'[w]
  <2>1. \A v \in Workers : cur'[v] = e /\ msg'[v] # None => v = w
    BY <1>1 DEF ExclusiveEnv, Runs
  <2>2. (CHOOSE v \in Workers : cur'[v] = e /\ msg'[v] # None) = w
    BY <1>1, <2>1 DEF Runs
  <2>3. \E v \in Workers : cur'[v] = e /\ msg'[v] # None
    BY <1>1 DEF Runs
  <2> QED
    BY <2>2, <2>3 DEF runningBar, Runs
<1>2. ASSUME NEW e \in Envs, \A w \in Workers : ~Runs(w, e)'
      PROVE  runningBar'[e] = None
  BY <1>2 DEF runningBar
<1> QED
  BY <1>1, <1>2

\* A step that neither starts nor ends the handling of a message.
RunsKept == UNCHANGED msg /\ \A w \in Workers, e \in Envs : Runs(w, e)' <=> Runs(w, e)

\* The mapped handlers stand still when no handling starts or ends.
LEMMA RunningBarKept ==
  ASSUME ExclusiveEnv, ExclusiveEnv', RunsKept PROVE runningBar' = runningBar
<1> SUFFICES ASSUME NEW e \in Envs PROVE runningBar'[e] = runningBar[e]
  BY DEF runningBar
<1>1. ASSUME NEW w \in Workers, Runs(w, e) PROVE runningBar'[e] = runningBar[e]
  BY <1>1, RunningBar, RunningBarNext DEF RunsKept
<1>2. ASSUME \A w \in Workers : ~Runs(w, e) PROVE runningBar'[e] = runningBar[e]
  <2>1. \A w \in Workers : ~Runs(w, e)'
    BY <1>2 DEF RunsKept
  <2> QED
    BY <1>2, <2>1, RunningBar, RunningBarNext
<1> QED
  BY <1>1, <1>2

\* The mapped unused messages stand still when no post is linked in or begun.
LEMMA UnusedBarKept == CarriesKept => unusedBar' = unusedBar
BY DEF CarriesKept, Carries, unusedBar

\* Both together, when no message is linked in or taken out either.
Invisible == RunsKept /\ CarriesKept /\ UNCHANGED mMsgs

\* A step that does neither, and leaves the lists alone, is a stutter of Mailbox.
LEMMA InvisibleStep ==
  ASSUME ExclusiveEnv, ExclusiveEnv', Invisible PROVE UNCHANGED MB!vars
<1>1. runningBar' = runningBar
  BY RunningBarKept DEF Invisible
<1>2. unusedBar' = unusedBar
  BY UnusedBarKept DEF Invisible
<1> QED
  BY <1>1, <1>2 DEF MB!vars, Invisible

\* The first state maps to the first state of Mailbox.
LEMMA RefinesInit == Init => MB!Init
<1> SUFFICES ASSUME Init PROVE MB!Init
  OBVIOUS
<1>1. unusedBar = Msgs
  BY FirstPcs DEF Init, unusedBar, Carries
<1>2. \A w \in Workers, e \in Envs : ~Runs(w, e)
  BY DEF Init, Runs
<1>3. runningBar = [e \in Envs |-> None]
  BY <1>2 DEF runningBar
<1> QED
  BY <1>1, <1>3 DEF Init, MB!Init

\* Every step maps to a step of Mailbox or to a stutter.
LEMMA RefinesStep ==
  IInv /\ HolderInv /\ ExclusiveEnv /\ ExclusiveEnv' /\ [Next]_vars
    => [MB!Next]_(MB!vars)
<1> SUFFICES ASSUME IInv, HolderInv, ExclusiveEnv, ExclusiveEnv', [Next]_vars
             PROVE  MB!Next \/ UNCHANGED MB!vars
  OBVIOUS
<1>0. /\ TypeOK /\ PcInv /\ ArgsInv /\ CurInv /\ MsgInv
      /\ ExclusiveEnv /\ ExclusiveEnv'
  BY DEF IInv, LocalInv
<1> USE ThreadsAssumption
<1>1. ASSUME NEW t \in Threads, NEW e \in Envs, NEW m \in Msgs, BeginPost(t, e, m)
      PROVE  UNCHANGED MB!vars
  <2>1. RunsKept /\ UNCHANGED mMsgs
    BY <1>1 DEF BeginPost, RunsKept, Runs
  <2>2. runningBar' = runningBar
    BY <1>0, <2>1, RunningBarKept
  <2>3. /\ unused' = unused \ {m} /\ m \in unused
        /\ Carries(t)' /\ out'[t] = m /\ ~Carries(t)
        /\ \A u \in Threads \ {t} : (Carries(u)' <=> Carries(u)) /\ out'[u] = out[u]
    BY <1>0, <1>1 DEF BeginPost, TypeOK, Carries
  <2>4. unusedBar' = unusedBar
    BY <2>3 DEF unusedBar, Carries
  <2> QED
    BY <2>1, <2>2, <2>4 DEF MB!vars
<1>2. ASSUME NEW t \in Threads, PushMsg(t) PROVE MB!Next
  <2> DEFINE e == tgt[t]
  <2>1. /\ t \in Threads /\ e \in Envs /\ out[t] \in Msgs /\ pc[t] = "push_msg"
        /\ UNCHANGED <<cur, msg, unused>>
        /\ mMsgs' = [mMsgs EXCEPT ![e] = Append(@, out[t])]
        /\ \E l \in {"push_gqlock", Home(t)} : pc' = [pc EXCEPT ![t] = l]
        /\ out' = out \/ out' = [out EXCEPT ![t] = None]
    BY <1>0, <1>2 DEF PushMsg, ArgsInv
  <2>2. RunsKept
    BY <2>1 DEF RunsKept, Runs
  <2>3. runningBar' = runningBar
    BY <1>0, <2>2, RunningBarKept
  <2>4. /\ Carries(t) /\ ~Carries(t)'
        /\ \A u \in Threads \ {t} : (Carries(u)' <=> Carries(u)) /\ out'[u] = out[u]
    BY <1>0, <2>1 DEF TypeOK, Carries
  <2>5. unusedBar' = unusedBar \ {out[t]} /\ out[t] \in unusedBar
    <3>1. \A u \in Threads : Carries(u) => out[t] \notin unused /\ (out[t] = out[u] => t = u)
      BY <2>4, CarriedOnce DEF IInv
    <3> QED
      BY <2>1, <2>4, <3>1 DEF unusedBar
  <2>6. MB!Post(e, out[t])
    BY <2>1, <2>3, <2>5 DEF MB!Post
  <2> QED
    BY <2>1, <2>6 DEF MB!Next
<1>3. ASSUME NEW w \in Workers, MqTake(w) PROVE MB!Next \/ UNCHANGED MB!vars
  <2>1. PICK e \in Envs : e = cur[w]
    BY <1>0, <1>3 DEF MqTake, CurInv
  <2>2. /\ w \in Threads /\ pc[w] = "mq_take" /\ msg[w] = None
        /\ mMsgs[e] \in Seq(Msgs)
        /\ UNCHANGED <<cur, out, unused>>
    BY <1>0, <1>3 DEF MqTake, MsgInv, TypeOK
  <2>3. CarriesKept
    BY <1>0, <1>3, <2>2 DEF MqTake, TypeOK, CarriesKept, Carries
  <2>4. CASE mMsgs[e] = <<>>
    <3>1. UNCHANGED <<msg, mMsgs>>
      BY <1>3, <2>1, <2>4 DEF MqTake
    <3>2. Invisible
      BY <2>2, <2>3, <3>1 DEF Invisible, RunsKept, Runs
    <3> QED
      BY <1>0, <3>2, InvisibleStep
  <2>5. CASE mMsgs[e] # <<>>
    <3> DEFINE m == Head(mMsgs[e])
    <3>1. /\ msg' = [msg EXCEPT ![w] = m]
          /\ mMsgs' = [mMsgs EXCEPT ![e] = Tail(@)]
      BY <1>3, <2>1, <2>5 DEF MqTake
    <3>2. m \in Msgs
      BY <2>2, <2>5, HeadTailProperties
    <3> HIDE DEF m
    <3>3. /\ msg'[w] = m /\ m # None
          /\ \A v \in Workers \ {w} : msg'[v] = msg[v]
      BY <1>0, <3>1, <3>2 DEF TypeOK
    <3>4. \A v \in Workers : ~Runs(v, e)
      <4> SUFFICES ASSUME NEW v \in Workers, Runs(v, e) PROVE FALSE
        OBVIOUS
      <4>1. Owns(v, e) /\ Owns(w, e)
        BY <2>1, <2>2, RunnerOwns DEF Owns
      <4>2. v = w
        BY <4>1 DEF IInv, QueueInv, OwnedOnce
      <4> QED
        BY <2>2, <4>2 DEF Runs
    <3>5. runningBar[e] = None
      BY <3>4, RunningBar
    <3>6. Runs(w, e)'
      BY <2>1, <2>2, <3>3 DEF Runs
    <3>7. runningBar'[e] = m
      BY <1>0, <3>3, <3>6, RunningBarNext
    <3>8. \A f \in Envs \ {e} : runningBar'[f] = runningBar[f]
      <4> SUFFICES ASSUME NEW f \in Envs \ {e} PROVE runningBar'[f] = runningBar[f]
        OBVIOUS
      <4>1. \A v \in Workers : (Runs(v, f)' <=> Runs(v, f)) /\ (Runs(v, f) => msg'[v] = msg[v])
        BY <2>1, <2>2, <3>3 DEF Runs
      <4>2. CASE \A v \in Workers : ~Runs(v, f)
        BY <4>1, <4>2, RunningBar, RunningBarNext
      <4>3. ASSUME NEW v \in Workers, Runs(v, f) PROVE runningBar'[f] = runningBar[f]
        BY <1>0, <4>1, <4>3, RunningBar, RunningBarNext
      <4> QED
        BY <4>2, <4>3
    <3>9. runningBar' = [runningBar EXCEPT ![e] = m]
      BY <3>7, <3>8 DEF runningBar
    <3>10. unusedBar' = unusedBar
      BY <2>3, UnusedBarKept
    <3>11. MB!Start(e)
      BY <2>5, <3>1, <3>5, <3>9, <3>10 DEF MB!Start, m
    <3> QED
      BY <3>11 DEF MB!Next
  <2> QED
    BY <2>4, <2>5
<1>4. ASSUME NEW w \in Workers, HandlerReturn(w) PROVE MB!Next
  <2>1. PICK e \in Envs : e = cur[w]
    BY <1>0, <1>4 DEF HandlerReturn, CurInv
  <2>2. /\ w \in Threads /\ pc[w] = "handle" /\ msg[w] # None
        /\ msg' = [msg EXCEPT ![w] = None]
        /\ unused' = unused \cup {msg[w]}
        /\ UNCHANGED <<cur, out, mMsgs>>
    BY <1>0, <1>4 DEF HandlerReturn, MsgInv
  <2>3. \A t \in Threads : (Carries(t)' <=> Carries(t)) /\ out'[t] = out[t]
    BY <1>0, <1>4, <2>2 DEF HandlerReturn, TypeOK, Carries
  <2>4. /\ msg'[w] = None
        /\ \A v \in Workers \ {w} : msg'[v] = msg[v]
    BY <1>0, <2>2 DEF TypeOK
  <2>5. Runs(w, e)
    BY <2>1, <2>2 DEF Runs
  <2>6. runningBar[e] = msg[w]
    BY <1>0, <2>5, RunningBar
  <2>7. \A v \in Workers : ~Runs(v, e)'
    BY <1>0, <2>2, <2>4, <2>5 DEF ExclusiveEnv, Runs
  <2>8. runningBar'[e] = None
    BY <2>7, RunningBarNext
  <2>9. \A f \in Envs \ {e} : runningBar'[f] = runningBar[f]
    <3> SUFFICES ASSUME NEW f \in Envs \ {e} PROVE runningBar'[f] = runningBar[f]
      OBVIOUS
    <3>1. \A v \in Workers : (Runs(v, f)' <=> Runs(v, f)) /\ (Runs(v, f) => msg'[v] = msg[v])
      BY <2>1, <2>2, <2>4 DEF Runs
    <3>2. CASE \A v \in Workers : ~Runs(v, f)
      BY <3>1, <3>2, RunningBar, RunningBarNext
    <3>3. ASSUME NEW v \in Workers, Runs(v, f) PROVE runningBar'[f] = runningBar[f]
      BY <1>0, <3>1, <3>3, RunningBar, RunningBarNext
    <3> QED
      BY <3>2, <3>3
  <2>10. runningBar' = [runningBar EXCEPT ![e] = None]
    BY <2>8, <2>9 DEF runningBar
  <2>11. unusedBar' = unusedBar \cup {msg[w]}
    BY <2>2, <2>3 DEF unusedBar
  <2>12. MB!Finish(e)
    BY <2>2, <2>6, <2>10, <2>11 DEF MB!Finish
  <2> QED
    BY <2>12 DEF MB!Next
<1>5. ASSUME NEW t \in Threads, PushLock(t) \/ PushGqLock(t) \/ PushMq(t) \/ PushMark(t)
      PROVE  Invisible
  <2>1. RunsKept /\ UNCHANGED mMsgs
    BY <1>5 DEF PushLock, PushGqLock, PushMq, PushMark, RunsKept, Runs
  <2>2. CarriesKept
    BY <1>0, <1>5 DEF PushLock, PushGqLock, PushMq, PushMark, TypeOK, CarriesKept, Carries
  <2> QED
    BY <2>1, <2>2 DEF Invisible
<1>6. ASSUME NEW w \in Workers, GqPopLock(w) \/ GqTake(w) \/ MqPopLock(w)
      PROVE  Invisible
  <2>1. RunsKept /\ UNCHANGED mMsgs
    BY <1>0, <1>6 DEF GqPopLock, GqTake, MqPopLock, TypeOK, MsgInv, RunsKept, Runs
  <2>2. CarriesKept
    BY <1>0, <1>6 DEF GqPopLock, GqTake, MqPopLock, TypeOK, CarriesKept, Carries
  <2> QED
    BY <2>1, <2>2 DEF Invisible
<1>7. ASSUME NEW w \in Workers,
             EndLock(w) \/ EndCheck(w) \/ EndGqLock(w) \/ EndPush(w) \/ EndUnlock(w)
      PROVE  Invisible
  <2>1. RunsKept /\ UNCHANGED mMsgs
    BY <1>0, <1>7 DEF EndLock, EndCheck, EndGqLock, EndPush, EndUnlock, TypeOK,
                      MsgInv, RunsKept, Runs
  <2>2. CarriesKept
    BY <1>0, <1>7 DEF EndLock, EndCheck, EndGqLock, EndPush, EndUnlock, TypeOK,
                      CarriesKept, Carries
  <2> QED
    BY <2>1, <2>2 DEF Invisible
<1>8. ASSUME NEW w \in Workers,
             IdleEnter(w) \/ IdleWait(w) \/ IdleLeave(w) \/ SpuriousWake(w)
      PROVE  Invisible
  <2>1. RunsKept /\ UNCHANGED mMsgs
    BY <1>8 DEF IdleEnter, IdleWait, IdleLeave, SpuriousWake, RunsKept, Runs
  <2>2. CarriesKept
    BY <1>0, <1>8 DEF IdleEnter, IdleWait, IdleLeave, SpuriousWake, TypeOK,
                      CarriesKept, Carries
  <2> QED
    BY <2>1, <2>2 DEF Invisible
<1>9. ASSUME TimerCheck \/ TimerSignal PROVE Invisible
  <2>1. RunsKept /\ UNCHANGED mMsgs
    BY <1>9 DEF TimerCheck, TimerSignal, RunsKept, Runs
  <2>2. CarriesKept
    BY <1>0, <1>9 DEF TimerCheck, TimerSignal, TypeOK, CarriesKept, Carries
  <2> QED
    BY <2>1, <2>2 DEF Invisible
<1>10. ASSUME UNCHANGED vars PROVE Invisible
  BY <1>10 DEF vars, Invisible, RunsKept, Runs, CarriesKept, Carries
<1>11. Invisible => UNCHANGED MB!vars
  BY <1>0, InvisibleStep
<1> QED
  BY <1>1, <1>2, <1>3, <1>4, <1>5, <1>6, <1>7, <1>8, <1>9, <1>10, <1>11, NextCases

\* The dispatcher implements the abstract mailbox: whatever the locks and
\* threads do, every env sees a queue that hands over one message at a time, in
\* the order they were linked in.
THEOREM RefinesMailbox == Spec => ImplementsMailbox
<1>1. Init => MB!Init
  BY RefinesInit
<1>2. Init => IInv /\ HolderInv
  BY LocalInit, LockInit, QueueInit, HolderInit DEF IInv
<1>3. IInv /\ HolderInv /\ [Next]_vars => IInv' /\ HolderInv'
  BY LocalStep, LockStep, QueueStep, HolderStep DEF IInv
<1>4. IInv /\ HolderInv /\ ExclusiveEnv /\ ExclusiveEnv' /\ [Next]_vars
        => [MB!Next]_(MB!vars)
  BY RefinesStep
<1> QED
  BY <1>1, <1>2, <1>3, <1>4, ExclusiveEnvHolds, PTL DEF Spec, ImplementsMailbox, MB!Spec
==============================================================================
