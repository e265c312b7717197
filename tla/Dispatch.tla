------------------------------ MODULE Dispatch -------------------------------
(***************************************************************************)
(* The dispatcher of mul: one message queue (mq_t) per env, the global     *)
(* queue (gq_t) of envs that have work, the worker threads that serve it   *)
(* and the timer and socket threads that post into it (gq.c, main.c,       *)
(* lock.c).                                                                *)
(*                                                                         *)
(* Every step runs from one lock operation of a thread to its next one.    *)
(* The linked lists mHead..mTail are sequences: each is only touched under *)
(* its lock.                                                               *)
(***************************************************************************)
EXTENDS Integers, Sequences, FiniteSets

CONSTANTS
  Envs,     \* the envs; each owns exactly one mq_t
  Workers,  \* the tWorker threads there can be; main starts wokerNum of them
  Timer,    \* the tTimer thread
  Socket,   \* the tSocket thread
  Msgs,     \* the pieces of memory a msg_t can have; bounds the messages under way
  None

Posters == {Timer, Socket}
Threads == Workers \cup Posters

ASSUME ThreadsAssumption ==
  /\ Timer \notin Workers
  /\ Socket \notin Workers
  /\ Timer # Socket
  /\ None \notin Threads \cup Envs \cup Msgs
  /\ IsFiniteSet(Workers)
  /\ Workers # {}

VARIABLES
  mMsgs,    \* mq_t mHead..mTail: env -> sequence of messages
  mIsG,     \* mq_t.mIsG: the mq is in the global queue or owned by a worker
  mqLock,   \* mq_t.mLock: env -> holder
  gq,       \* gq_t mHead..mTail: the sequence of mqs to serve
  gqLock,   \* gq_t.mLock: holder
  mutex,    \* main.c mutex that goes with cond: holder
  wokingNum,\* main.c wokingNum
  pc,       \* thread -> label of the step it takes next
  cur,      \* worker -> local mq of tWorker
  msg,      \* worker -> local msg of tWorker
  tgt,      \* thread -> first argument of a gq_push_msg call in progress
  out,      \* thread -> second argument of that call
  unused    \* memory without a message: never taken by MALLOC, or freed again

mqVars == <<mMsgs, mIsG, mqLock>>
gqVars == <<gq, gqLock>>
idleVars == <<mutex, wokingNum>>
localVars == <<cur, msg, tgt, out>>
vars == <<mqVars, gqVars, idleVars, pc, localVars, unused>>

\* wokerNum is 1 in the code, for whoever builds it to change.
Started == {w \in Workers : pc[w] # "absent"}
wokerNum == Cardinality(Started)

\* The label a thread begins with, if main starts the workers ws.
FirstPc(t, ws) ==
  IF t \in Posters THEN "poll" ELSE IF t \in ws THEN "gq_pop" ELSE "absent"

Init ==
  /\ mMsgs = [e \in Envs |-> <<>>]
  /\ mIsG = [e \in Envs |-> FALSE]
  /\ mqLock = [e \in Envs |-> None]
  /\ gq = <<>>
  /\ gqLock = None
  /\ mutex = None
  /\ wokingNum = 0
  /\ \E ws \in SUBSET Workers \ {{}} : pc = [t \in Threads |-> FirstPc(t, ws)]
  /\ cur = [w \in Workers |-> None]
  /\ msg = [w \in Workers |-> None]
  /\ tgt = [t \in Threads |-> None]
  /\ out = [t \in Threads |-> None]
  /\ unused = Msgs

Goto(t, label) == pc' = [pc EXCEPT ![t] = label]

\* lock_lock spins until its test-and-set finds the lock free; lock_unlock
\* releases it.
LockMq(t, e) == mqLock[e] = None /\ mqLock' = [mqLock EXCEPT ![e] = t]
UnlockMq(e) == mqLock' = [mqLock EXCEPT ![e] = None]
LockGq(t) == gqLock = None /\ gqLock' = t
UnlockGq == gqLock' = None

-----------------------------------------------------------------------------
(* gq_push_msg, called by any thread through env_post.                     *)

\* Where a thread stands when it is free to post: a worker inside the Lua
\* handler, the timer thread inside gt_update, the socket thread inside
\* gs_update.
Home(t) == IF t \in Workers THEN "handle" ELSE "poll"

\* The message is allocated and filled, and handed to gq_push_msg.
BeginPost(t, e, m) ==
  /\ pc[t] = Home(t)
  /\ m \in unused
  /\ unused' = unused \ {m}
  /\ tgt' = [tgt EXCEPT ![t] = e]
  /\ out' = [out EXCEPT ![t] = m]
  /\ Goto(t, "push_lock")
  /\ UNCHANGED <<mqVars, gqVars, idleVars, cur, msg>>

PushLock(t) ==
  /\ pc[t] = "push_lock"
  /\ LockMq(t, tgt[t])
  /\ Goto(t, "push_msg")
  /\ UNCHANGED <<mMsgs, mIsG, gqVars, idleVars, localVars, unused>>

\* Mutant: mIsG is not consulted, every message puts its mq in the queue.
PushMsgAlwaysQueues(t) ==
  /\ pc[t] = "push_msg"
  /\ mMsgs' = [mMsgs EXCEPT ![tgt[t]] = Append(@, out[t])]
  /\ Goto(t, "push_gqlock")
  /\ UNCHANGED <<mIsG, mqLock, gqVars, idleVars, localVars, unused>>

\* Mutant: the message is linked in at the head of the list.
PushMsgAtHead(t) ==
  LET e == tgt[t] IN
  /\ pc[t] = "push_msg"
  /\ mMsgs' = [mMsgs EXCEPT ![e] = <<out[t]>> \o @]
  /\ \/ /\ mIsG[e]
        /\ UnlockMq(e)
        /\ Goto(t, Home(t))
        /\ tgt' = [tgt EXCEPT ![t] = None]
        /\ out' = [out EXCEPT ![t] = None]
     \/ /\ ~mIsG[e]
        /\ Goto(t, "push_gqlock")
        /\ UNCHANGED <<mqLock, tgt, out>>
  /\ UNCHANGED <<mIsG, gqVars, idleVars, cur, msg, unused>>

\* mq_push_raw, then the test of mIsG; an mq already scheduled is left alone.
PushMsg(t) ==
  LET e == tgt[t] IN
  /\ pc[t] = "push_msg"
  /\ mMsgs' = [mMsgs EXCEPT ![e] = Append(@, out[t])]
  /\ \/ /\ mIsG[e]
        /\ UnlockMq(e)
        /\ Goto(t, Home(t))
        /\ tgt' = [tgt EXCEPT ![t] = None]
        /\ out' = [out EXCEPT ![t] = None]
     \/ /\ ~mIsG[e]
        /\ Goto(t, "push_gqlock")
        /\ UNCHANGED <<mqLock, tgt, out>>
  /\ UNCHANGED <<mIsG, gqVars, idleVars, cur, msg, unused>>

PushGqLock(t) ==
  /\ pc[t] = "push_gqlock"
  /\ LockGq(t)
  /\ Goto(t, "push_mq")
  /\ UNCHANGED <<mqVars, gq, idleVars, localVars, unused>>

\* Mutant: the mq lock is released before mIsG is set.
PushMqUnlocksEarly(t) ==
  /\ pc[t] = "push_mq"
  /\ gq' = Append(gq, tgt[t])
  /\ UnlockGq
  /\ UnlockMq(tgt[t])
  /\ Goto(t, "push_mark")
  /\ UNCHANGED <<mMsgs, mIsG, idleVars, localVars, unused>>

\* gq_push_mq_raw under the global lock.
PushMq(t) ==
  /\ pc[t] = "push_mq"
  /\ gq' = Append(gq, tgt[t])
  /\ UnlockGq
  /\ Goto(t, "push_mark")
  /\ UNCHANGED <<mqVars, idleVars, localVars, unused>>

\* mIsG is set only after the global lock is gone: a worker may already have
\* popped the mq, and is kept out of it by the mq lock.
PushMark(t) ==
  /\ pc[t] = "push_mark"
  /\ mIsG' = [mIsG EXCEPT ![tgt[t]] = TRUE]
  /\ UnlockMq(tgt[t])
  /\ Goto(t, Home(t))
  /\ tgt' = [tgt EXCEPT ![t] = None]
  /\ out' = [out EXCEPT ![t] = None]
  /\ UNCHANGED <<mMsgs, gqVars, idleVars, cur, msg, unused>>

PushStep(t) ==
  PushLock(t) \/ PushMsg(t) \/ PushGqLock(t) \/ PushMq(t) \/ PushMark(t)

-----------------------------------------------------------------------------
(* tWorker.                                                                *)

GqPopLock(w) ==
  /\ pc[w] = "gq_pop"
  /\ LockGq(w)
  /\ Goto(w, "gq_take")
  /\ UNCHANGED <<mqVars, gq, idleVars, localVars, unused>>

\* gq_pop: the head of the global queue, or NULL and the worker goes idle.
GqTake(w) ==
  /\ pc[w] = "gq_take"
  /\ UnlockGq
  /\ \/ /\ gq # <<>>
        /\ cur' = [cur EXCEPT ![w] = Head(gq)]
        /\ gq' = Tail(gq)
        /\ Goto(w, "mq_pop")
     \/ /\ gq = <<>>
        /\ Goto(w, "idle_enter")
        /\ UNCHANGED <<gq, cur>>
  /\ UNCHANGED <<mqVars, idleVars, msg, tgt, out, unused>>

MqPopLock(w) ==
  /\ pc[w] = "mq_pop"
  /\ LockMq(w, cur[w])
  /\ Goto(w, "mq_take")
  /\ UNCHANGED <<mMsgs, mIsG, gqVars, idleVars, localVars, unused>>

\* Mutant: the message stays linked in while it is handled.
MqTakeLinked(w) ==
  LET e == cur[w] IN
  /\ pc[w] = "mq_take"
  /\ UnlockMq(e)
  /\ \/ /\ mMsgs[e] # <<>>
        /\ msg' = [msg EXCEPT ![w] = Head(mMsgs[e])]
        /\ Goto(w, "handle")
     \/ /\ mMsgs[e] = <<>>
        /\ Goto(w, "end")
        /\ UNCHANGED msg
  /\ UNCHANGED <<mMsgs, mIsG, gqVars, idleVars, cur, tgt, out, unused>>

\* mq_pop: the oldest message goes to the handler, none ends the turn.
MqTake(w) ==
  LET e == cur[w] IN
  /\ pc[w] = "mq_take"
  /\ UnlockMq(e)
  /\ \/ /\ mMsgs[e] # <<>>
        /\ msg' = [msg EXCEPT ![w] = Head(mMsgs[e])]
        /\ mMsgs' = [mMsgs EXCEPT ![e] = Tail(@)]
        /\ Goto(w, "handle")
     \/ /\ mMsgs[e] = <<>>
        /\ Goto(w, "end")
        /\ UNCHANGED <<msg, mMsgs>>
  /\ UNCHANGED <<mIsG, gqVars, idleVars, cur, tgt, out, unused>>

\* env_process_msg returns after FREE(msg); in between the handler may post
\* (BeginPost).  The worker stays with the same mq, however often this happens.
HandlerReturn(w) ==
  /\ pc[w] = "handle"
  /\ unused' = unused \cup {msg[w]}
  /\ msg' = [msg EXCEPT ![w] = None]
  /\ Goto(w, "mq_pop")
  /\ UNCHANGED <<mqVars, gqVars, idleVars, cur, tgt, out>>

EndLock(w) ==
  /\ pc[w] = "end"
  /\ LockMq(w, cur[w])
  /\ Goto(w, "end_check")
  /\ UNCHANGED <<mMsgs, mIsG, gqVars, idleVars, localVars, unused>>

\* Mutant: the queue is not looked at again after mq_pop returned NULL.
EndCheckTrustsPop(w) ==
  /\ pc[w] = "end_check"
  /\ mIsG' = [mIsG EXCEPT ![cur[w]] = FALSE]
  /\ UnlockMq(cur[w])
  /\ cur' = [cur EXCEPT ![w] = None]
  /\ Goto(w, "gq_pop")
  /\ UNCHANGED <<mMsgs, gqVars, idleVars, msg, tgt, out, unused>>

\* gq_worker_end: a message may have come in since mq_pop returned NULL.
EndCheck(w) ==
  LET e == cur[w] IN
  /\ pc[w] = "end_check"
  /\ \/ /\ mMsgs[e] # <<>>
        /\ Goto(w, "end_gqlock")
        /\ UNCHANGED <<mIsG, mqLock, cur>>
     \/ /\ mMsgs[e] = <<>>
        /\ mIsG' = [mIsG EXCEPT ![e] = FALSE]
        /\ UnlockMq(e)
        /\ cur' = [cur EXCEPT ![w] = None]
        /\ Goto(w, "gq_pop")
  /\ UNCHANGED <<mMsgs, gqVars, idleVars, msg, tgt, out, unused>>

EndGqLock(w) ==
  /\ pc[w] = "end_gqlock"
  /\ LockGq(w)
  /\ Goto(w, "end_push")
  /\ UNCHANGED <<mqVars, gq, idleVars, localVars, unused>>

\* Mutant: the mq is put before those that wait.
EndPushAtHead(w) ==
  /\ pc[w] = "end_push"
  /\ gq' = <<cur[w]>> \o gq
  /\ UnlockGq
  /\ Goto(w, "end_unlock")
  /\ UNCHANGED <<mqVars, idleVars, localVars, unused>>

EndPush(w) ==
  /\ pc[w] = "end_push"
  /\ gq' = Append(gq, cur[w])
  /\ UnlockGq
  /\ Goto(w, "end_unlock")
  /\ UNCHANGED <<mqVars, idleVars, localVars, unused>>

EndUnlock(w) ==
  /\ pc[w] = "end_unlock"
  /\ UnlockMq(cur[w])
  /\ cur' = [cur EXCEPT ![w] = None]
  /\ Goto(w, "gq_pop")
  /\ UNCHANGED <<mMsgs, mIsG, gqVars, idleVars, msg, tgt, out, unused>>

-----------------------------------------------------------------------------
(* A worker with nothing to do waits on cond; only tTimer signals it.      *)

IdleEnter(w) ==
  /\ pc[w] = "idle_enter"
  /\ mutex = None
  /\ mutex' = w
  /\ wokingNum' = wokingNum - 1
  /\ Goto(w, "idle_wait")
  /\ UNCHANGED <<mqVars, gqVars, localVars, unused>>

\* pthread_cond_wait: the worker starts to wait and releases mutex at once.
IdleWait(w) ==
  /\ pc[w] = "idle_wait"
  /\ mutex' = None
  /\ Goto(w, "waiting")
  /\ UNCHANGED <<mqVars, gqVars, wokingNum, localVars, unused>>

\* pthread_cond_wait may return without a signal.
SpuriousWake(w) ==
  /\ pc[w] = "waiting"
  /\ Goto(w, "woken")
  /\ UNCHANGED <<mqVars, gqVars, idleVars, localVars, unused>>

\* Mutant: the count is not restored when the worker wakes up.
IdleLeaveUncounted(w) ==
  /\ pc[w] = "woken"
  /\ mutex = None
  /\ Goto(w, "gq_pop")
  /\ UNCHANGED <<mqVars, gqVars, idleVars, localVars, unused>>

\* The wait ends with mutex held: the count is restored and mutex released.
IdleLeave(w) ==
  /\ pc[w] = "woken"
  /\ mutex = None
  /\ wokingNum' = wokingNum + 1
  /\ Goto(w, "gq_pop")
  /\ UNCHANGED <<mqVars, gqVars, mutex, localVars, unused>>

\* After gt_update the timer thread reads wokingNum without mutex ...
TimerCheck ==
  /\ pc[Timer] = "poll"
  /\ wokingNum < wokerNum
  /\ Goto(Timer, "signal")
  /\ UNCHANGED <<mqVars, gqVars, idleVars, localVars, unused>>

\* ... and signals, waking one waiting worker if there is one.
TimerSignal ==
  /\ pc[Timer] = "signal"
  /\ \/ \E w \in Workers :
          /\ pc[w] = "waiting"
          /\ pc' = [pc EXCEPT ![Timer] = "poll", ![w] = "woken"]
     \/ /\ \A w \in Workers : pc[w] # "waiting"
        /\ Goto(Timer, "poll")
  /\ UNCHANGED <<mqVars, gqVars, idleVars, localVars, unused>>

-----------------------------------------------------------------------------
WorkerStep(w) ==
  \/ GqPopLock(w) \/ GqTake(w)
  \/ MqPopLock(w) \/ MqTake(w) \/ HandlerReturn(w)
  \/ EndLock(w) \/ EndCheck(w) \/ EndGqLock(w) \/ EndPush(w) \/ EndUnlock(w)
  \/ IdleEnter(w) \/ IdleWait(w) \/ IdleLeave(w)

TimerStep == TimerCheck \/ TimerSignal

Next ==
  \/ \E t \in Threads, e \in Envs, m \in Msgs : BeginPost(t, e, m)
  \/ \E t \in Threads : PushStep(t)
  \/ \E w \in Workers : WorkerStep(w) \/ SpuriousWake(w)
  \/ TimerStep

Spec == Init /\ [][Next]_vars

\* What a thread does without being asked: everything but starting a post and
\* waking up for no reason.
Step(t) ==
  \/ PushStep(t)
  \/ t \in Workers /\ WorkerStep(t)
  \/ t = Timer /\ TimerStep

\* Every thread keeps running, and one that spins on a lock which is free
\* infinitely often gets it in the end.  A thread has one step at a time, so
\* strong fairness of its steps together says that of each; where it may post
\* instead, posting has an end: every Lua handler returns, and every gt_update.
Fairness ==
  /\ \A t \in Threads : SF_vars(Step(t))
  /\ \A w \in Workers : SF_vars(HandlerReturn(w))
  /\ SF_vars(TimerCheck)

FairSpec == Spec /\ Fairness

-----------------------------------------------------------------------------
(* What the properties talk about.                                         *)

PushPcs == {"push_lock", "push_msg", "push_gqlock", "push_mq", "push_mark"}
EndPcs == {"end", "end_check", "end_gqlock", "end_push", "end_unlock"}
WorkerPcs == PushPcs \cup EndPcs \cup
  {"gq_pop", "gq_take", "mq_pop", "mq_take", "handle",
   "idle_enter", "idle_wait", "waiting", "woken", "absent"}

InGq(e) == \E i \in DOMAIN gq : gq[i] = e

\* w serves the mq of e.  At end_unlock the mq is back in the global queue
\* and w only has its lock to release.
Owns(w, e) == cur[w] = e /\ pc[w] # "end_unlock"

\* t is inside gq_push_msg, between the test of mIsG and its assignment.
Scheduling(t, e) == tgt[t] = e /\ pc[t] \in {"push_gqlock", "push_mq", "push_mark"}

\* w executes the Lua VM of e: inside env_process_msg, posts included.
Runs(w, e) == cur[w] = e /\ msg[w] # None

TypeOK ==
  /\ mMsgs \in [Envs -> Seq(Msgs)]
  /\ mIsG \in [Envs -> BOOLEAN]
  /\ mqLock \in [Envs -> Threads \cup {None}]
  /\ gq \in Seq(Envs)
  /\ gqLock \in Threads \cup {None}
  /\ mutex \in Workers \cup {None}
  /\ wokingNum \in -Cardinality(Workers) .. 0
  /\ pc \in [Threads -> WorkerPcs \cup {"poll", "signal"}]
  /\ cur \in [Workers -> Envs \cup {None}]
  /\ msg \in [Workers -> Msgs \cup {None}]
  /\ tgt \in [Threads -> Envs \cup {None}]
  /\ out \in [Threads -> Msgs \cup {None}]
  /\ unused \subseteq Msgs

\* At most one worker is inside the Lua VM of an env at any time: a VM is not
\* thread safe and tWorker takes no lock around env_process_msg.
ExclusiveEnv ==
  \A e \in Envs, v, w \in Workers : Runs(v, e) /\ Runs(w, e) => v = w

\* No message is ever left behind: an mq that holds one is in the global
\* queue, owned by a worker, or about to be scheduled by the thread that is
\* still inside gq_push_msg for it.
NoLostEnv ==
  \A e \in Envs :
    mMsgs[e] # <<>> =>
      \/ InGq(e)
      \/ \E w \in Workers : Owns(w, e)
      \/ \E t \in Threads : Scheduling(t, e)

\* The assertions of gq.c hold where they are evaluated: an mq that
\* gq_push_msg is about to schedule is not linked in the global queue (line
\* 131, and 117 would break with it), and gq_worker_end finds mIsG set (142).
AssertionsHold ==
  /\ \A t \in Threads, e \in Envs :
       Scheduling(t, e) /\ pc[t] # "push_mark" => ~InGq(e)
  /\ \A w \in Workers :
       pc[w] \in {"end_check", "end_gqlock", "end_push"} => mIsG[cur[w]]

\* Who has m: the thread that allocated it, up to mq_push_raw, an mq, where it
\* has a place, or the worker that handles it.
Carries(t) == pc[t] \in {"push_lock", "push_msg"}

Holders(m) ==
  {<<"poster", t, 0>> : t \in {u \in Threads : Carries(u) /\ out[u] = m}}
  \cup (UNION {{<<"mq", e, i>> : i \in {j \in DOMAIN mMsgs[e] : mMsgs[e][j] = m}} : e \in Envs})
  \cup {<<"worker", w, 0>> : w \in {v \in Workers : msg[v] = m}}

\* The memory of a message has one holder from MALLOC to FREE and none besides: no
\* message is linked in twice, freed while it is linked, handled by two workers
\* or forgotten without FREE, though it passes from thread to thread unlocked.
OneHolder ==
  \A m \in Msgs : Cardinality(Holders(m)) = IF m \in unused THEN 0 ELSE 1

-----------------------------------------------------------------------------
(* The abstract mailbox Dispatch implements.  A message counts as posted    *)
(* when mq_push_raw links it in.                                           *)

unusedBar ==
  unused \cup {out[t] : t \in {u \in Threads : Carries(u)}}

runningBar ==
  [e \in Envs |->
     IF \E w \in Workers : Runs(w, e)
     THEN msg[CHOOSE w \in Workers : Runs(w, e)]
     ELSE None]

MB == INSTANCE Mailbox WITH
        unused <- unusedBar, mailbox <- mMsgs, running <- runningBar

\* Every step of the dispatcher is a post, start or finish of the abstract
\* mailbox, or invisible to it: first-in first-out, one message at a time,
\* none lost, none handled twice.
ImplementsMailbox == MB!Spec

\* A message was handed to gq_push_msg for e, and no handler of e has it yet.
Waits(e) ==
  mMsgs[e] # <<>> \/ \E t \in Threads : Carries(t) /\ tgt[t] = e

\* tWorker stays with an mq until it is empty.  An env that is sent a new message
\* before its queue is found empty, every time, by itself or others, keeps its
\* worker, which pops one message after the other; if all workers are kept by such
\* envs, e waits for ever.
Starved(e) ==
  /\ <>[](\A w \in Started : cur[w] \notin {None, e})
  /\ \A w \in Workers : []<>(pc[w] \in {"mq_take", "absent"})

\* No env waits for ever with a message that no handler takes, unless it is starved:
\* neither the locks, nor the sleep of workers whose only wake-up is the 10 ms tick,
\* nor posts without end keep it from being run, as long as one worker comes back to
\* the global queue now and then.  Messages are handled in their order, so it is
\* enough that e runs one again and again.
HandledUnlessStarved ==
  \A e \in Envs : Starved(e) \/ []<>(Waits(e) => \E w \in Workers : Runs(w, e))
==============================================================================
