----------------------------- MODULE WriteQueue ------------------------------
(***************************************************************************)
(* The write path of gs.c: so_write appends to the buffer of a socket and  *)
(* links the socket into the write queue (mWHead, mWTail, mQn, so_t.next), *)
(* _processFlush takes the sockets off and writes the buffers out.         *)
(*                                                                         *)
(* The queue is kept as the code keeps it, with its pointers.  A step that *)
(* runs under mQLock is one action: no other lock is taken under it.  Of   *)
(* the life of a socket only "rw or not" matters here; GlobalSocket.tla    *)
(* has the rest.                                                           *)
(***************************************************************************)
EXTENDS Integers, Sequences, FiniteSets

CONSTANTS
  Workers,    \* threads that run Lua handlers
  Socket,     \* the thread that runs gs_update
  Slots,      \* the sockets
  None,
  MaxWrites,  \* bound: calls of so_write
  MaxCloses   \* bound: calls of so_close

ASSUME WriteAssumption ==
  /\ Socket \notin Workers
  /\ None \notin Slots \cup Workers \cup {Socket}
  /\ IsFiniteSet(Slots)
  /\ MaxWrites \in Nat /\ MaxCloses \in Nat

Threads == Workers \cup {Socket}

VARIABLES
  rw,      \* slot -> mState = so_e_rw
  mCur,    \* slot -> mWBuf->mCur, in writes
  mInq,    \* slot -> so_t.mInq
  wLock,   \* slot -> holder of mWLock
  next,    \* slot -> so_t.next
  mWHead,
  mWTail,
  mQn,
  pc,
  so,      \* thread -> the socket it works on
  left,    \* _processFlush: i, sockets still to take
  halted,  \* why the process is gone: an assertion, or the heap overwritten
  nWrites,
  nCloses

queueVars == <<next, mWHead, mWTail, mQn>>
flushVars == <<left, halted>>
bounds == <<nWrites, nCloses>>
vars == <<rw, mCur, mInq, wLock, queueVars, pc, so, flushVars, bounds>>

Init ==
  /\ rw = [s \in Slots |-> TRUE]
  /\ mCur = [s \in Slots |-> 0]
  /\ mInq = [s \in Slots |-> FALSE]
  /\ wLock = [s \in Slots |-> None]
  /\ next = [s \in Slots |-> None]
  /\ mWHead = None /\ mWTail = None /\ mQn = 0
  /\ pc = [t \in Threads |-> "idle"]
  /\ so = [t \in Threads |-> None]
  /\ left = 0
  /\ halted = "no"
  /\ nWrites = 0 /\ nCloses = 0

At(t, label) == halted = "no" /\ pc[t] = label
Goto(t, label) == pc' = [pc EXCEPT ![t] = label]

Lock(t, s) == wLock[s] = None /\ wLock' = [wLock EXCEPT ![s] = t]
Unlock(s) == wLock' = [wLock EXCEPT ![s] = None]

-----------------------------------------------------------------------------
(* so_write.                                                               *)

Write(t, s) ==
  /\ At(t, "idle") /\ t # Socket
  /\ nWrites < MaxWrites
  /\ nWrites' = nWrites + 1
  /\ Lock(t, s)
  /\ so' = [so EXCEPT ![t] = s]
  /\ Goto(t, "append")
  /\ UNCHANGED <<rw, mCur, mInq, queueVars, flushVars, nCloses>>

\* A socket that waits to be flushed already is not linked in again.
Appended(t) ==
  LET s == so[t] IN
  /\ At(t, "append")
  /\ \/ /\ ~rw[s]
        /\ Unlock(s)
        /\ Goto(t, "idle")
        /\ UNCHANGED mCur
     \/ /\ rw[s]
        /\ mCur' = [mCur EXCEPT ![s] = @ + 1]
        /\ \/ mInq[s] /\ Unlock(s) /\ Goto(t, "idle")
           \/ ~mInq[s] /\ Goto(t, "push") /\ UNCHANGED wLock
  /\ UNCHANGED <<rw, mInq, queueVars, so, flushVars, bounds>>

\* Mutant: mQn is not raised.
PushWQUncounted(t) ==
  LET s == so[t] IN
  /\ At(t, "push")
  /\ IF mWTail = None
     THEN /\ mWHead' = s /\ mWTail' = s /\ mQn' = 1
          /\ next' = [next EXCEPT ![s] = None]
     ELSE /\ next' = [next EXCEPT ![mWTail] = s, ![s] = None]
          /\ UNCHANGED <<mWHead, mWTail, mQn>>
  /\ Goto(t, "mark")
  /\ UNCHANGED <<rw, mCur, mInq, wLock, so, flushVars, bounds>>

\* _pushWQ.  The else branch links s behind mWTail and leaves mWTail there.
PushWQ(t) ==
  LET s == so[t] IN
  /\ At(t, "push")
  /\ IF mWTail = None
     THEN /\ halted' = IF mWHead # None THEN "assert" ELSE halted
          /\ mWHead' = s /\ mWTail' = s /\ mQn' = 1
          /\ next' = [next EXCEPT ![s] = None]
     ELSE /\ next' = [[next EXCEPT ![mWTail] = s] EXCEPT ![s] = None]
          /\ mQn' = mQn + 1
          /\ UNCHANGED <<mWHead, mWTail, halted>>
  /\ Goto(t, "mark")
  /\ UNCHANGED <<rw, mCur, mInq, wLock, so, left, bounds>>

\* Mutant: the socket is not marked as queued.
MarkForgotten(t) ==
  /\ At(t, "mark")
  /\ Unlock(so[t])
  /\ Goto(t, "idle")
  /\ UNCHANGED <<rw, mCur, mInq, queueVars, so, flushVars, bounds>>

Mark(t) ==
  /\ At(t, "mark")
  /\ mInq' = [mInq EXCEPT ![so[t]] = TRUE]
  /\ Unlock(so[t])
  /\ Goto(t, "idle")
  /\ UNCHANGED <<rw, mCur, queueVars, so, flushVars, bounds>>

\* so_close resets the buffer and leaves the socket in the queue; so_accept
\* and so_add put the slot to use again.
Close(s) ==
  /\ halted = "no"
  /\ wLock[s] = None
  /\ nCloses < MaxCloses
  /\ nCloses' = nCloses + 1
  /\ rw' = [rw EXCEPT ![s] = FALSE]
  /\ mCur' = [mCur EXCEPT ![s] = 0]
  /\ UNCHANGED <<mInq, wLock, queueVars, pc, so, flushVars, nWrites>>

\* gs_update or so_read finds the connection broken; neither takes mWLock.
Broken(s) ==
  /\ halted = "no"
  /\ rw[s]
  /\ rw' = [rw EXCEPT ![s] = FALSE]
  /\ UNCHANGED <<mCur, mInq, wLock, queueVars, pc, so, flushVars, bounds>>

\* A slot so_close has freed: the buffer of one that failed is not reset.
Reopen(s) ==
  /\ halted = "no"
  /\ wLock[s] = None
  /\ ~rw[s] /\ mCur[s] = 0
  /\ rw' = [rw EXCEPT ![s] = TRUE]
  /\ UNCHANGED <<mCur, mInq, wLock, queueVars, pc, so, flushVars, bounds>>

-----------------------------------------------------------------------------
(* _processFlush.                                                          *)

FlushBegin ==
  /\ At(Socket, "idle")
  /\ mQn > 0
  /\ left' = mQn
  /\ Goto(Socket, "pop")
  /\ UNCHANGED <<rw, mCur, mInq, wLock, queueVars, so, halted, bounds>>

\* The head is taken off; when it was the last one, it has to be mWTail.
Pop ==
  LET s == mWHead IN
  /\ At(Socket, "pop")
  /\ left > 0 /\ s # None
  /\ left' = left - 1
  /\ mWHead' = next[s]
  /\ mQn' = mQn - 1
  /\ IF next[s] = None
     THEN /\ mWTail' = None
          /\ halted' = IF s = mWTail /\ mQn = 1 THEN halted ELSE "assert"
     ELSE UNCHANGED <<mWTail, halted>>
  /\ so' = [so EXCEPT ![Socket] = s]
  /\ Goto(Socket, "flush")
  /\ UNCHANGED <<rw, mCur, mInq, wLock, next, bounds>>

FlushDone ==
  /\ At(Socket, "pop")
  /\ left = 0 \/ mWHead = None
  /\ left' = 0
  /\ Goto(Socket, "idle")
  /\ UNCHANGED <<rw, mCur, mInq, wLock, queueVars, so, halted, bounds>>

FlushLock ==
  /\ At(Socket, "flush")
  /\ Lock(Socket, so[Socket])
  /\ Goto(Socket, "write")
  /\ UNCHANGED <<rw, mCur, mInq, queueVars, so, flushVars, bounds>>

\* Mutant: mInq is reset after the lock was given back.
FlushMarksLate ==
  LET s == so[Socket] IN
  \/ /\ At(Socket, "write")
     /\ mCur' = [mCur EXCEPT ![s] = IF rw[s] THEN 0 ELSE @]
     /\ Unlock(s)
     /\ Goto(Socket, "unmark")
     /\ UNCHANGED <<rw, mInq, queueVars, so, flushVars, bounds>>
  \/ /\ At(Socket, "unmark")
     /\ mInq' = [mInq EXCEPT ![s] = FALSE]
     /\ Goto(Socket, "pop")
     /\ UNCHANGED <<rw, mCur, wLock, queueVars, so, flushVars, bounds>>

\* mInq = 0 and _flush under the lock of the socket.  write takes the whole
\* buffer; or it fails, EAGAIN included, and the socket is given up; or it takes
\* a part, and memcpy moves what follows the buf_t itself over the buf_t.
Flush ==
  LET s == so[Socket] IN
  /\ At(Socket, "write")
  /\ mInq' = [mInq EXCEPT ![s] = FALSE]
  /\ \/ /\ ~rw[s] \/ mCur[s] = 0
        /\ UNCHANGED <<rw, mCur, halted>>
     \/ /\ rw[s] /\ mCur[s] > 0
        /\ mCur' = [mCur EXCEPT ![s] = 0]
        /\ UNCHANGED <<rw, halted>>
     \/ /\ rw[s] /\ mCur[s] > 0
        /\ rw' = [rw EXCEPT ![s] = FALSE]
        /\ UNCHANGED <<mCur, halted>>
     \/ /\ rw[s] /\ mCur[s] > 0
        /\ halted' = "overwritten"
        /\ UNCHANGED <<rw, mCur>>
  /\ Unlock(s)
  /\ Goto(Socket, "pop")
  /\ UNCHANGED <<queueVars, so, left, bounds>>

-----------------------------------------------------------------------------
Next ==
  \/ \E t \in Workers :
       \/ \E s \in Slots : Write(t, s)
       \/ Appended(t) \/ PushWQ(t) \/ Mark(t)
  \/ \E s \in Slots : Close(s) \/ Broken(s) \/ Reopen(s)
  \/ FlushBegin \/ Pop \/ FlushDone \/ FlushLock \/ Flush

Spec == Init /\ [][Next]_vars

-----------------------------------------------------------------------------
\* The sockets _processFlush would find, in order.
Linked ==
  LET chain[n \in 0 .. Cardinality(Slots)] ==
        IF n = 0 THEN IF mWHead = None THEN <<>> ELSE <<mWHead>>
        ELSE LET c == chain[n - 1] IN
             IF c = <<>> \/ next[c[Len(c)]] = None THEN c ELSE Append(c, next[c[Len(c)]])
  IN chain[Cardinality(Slots)]

TypeOK ==
  /\ rw \in [Slots -> BOOLEAN]
  /\ mCur \in [Slots -> 0 .. MaxWrites]
  /\ mInq \in [Slots -> BOOLEAN]
  /\ wLock \in [Slots -> Threads \cup {None}]
  /\ next \in [Slots -> Slots \cup {None}]
  /\ {mWHead, mWTail} \subseteq Slots \cup {None}
  /\ mQn \in Nat
  /\ so \in [Threads -> Slots \cup {None}]
  /\ left \in 0 .. mQn
  /\ halted \in {"no", "assert", "overwritten"}
  /\ nWrites \in 0 .. MaxWrites /\ nCloses \in 0 .. MaxCloses

\* _processFlush has taken s off and not yet written its buffer out.
Flushing(s) == so[Socket] = s /\ pc[Socket] \in {"flush", "write"}

IsLinked(s) == \E i \in DOMAIN Linked : Linked[i] = s

\* The hand-over between so_write and _processFlush: bytes of a socket that is
\* in use, once so_write has let go of it, are marked with mInq, and the socket is
\* linked in or being flushed.  The else branch of _pushWQ does lose sockets, but
\* never unnoticed: mQn counts one more than can be taken off, so the flush ends
\* in its assertion (QueueAssertions).  It holds across so_close and the next use
\* of a slot that is still queued.
UnsentIsQueued ==
  halted = "no" =>
    \A s \in Slots :
      wLock[s] = None /\ rw[s] /\ mCur[s] > 0 =>
        mInq[s] /\ (Flushing(s) \/ IsLinked(s) \/ Len(Linked) < mQn)

\* Beside TypeOK, no socket is linked in twice: what _processFlush would find is marked, or
\* about to be by the so_write that holds its lock, and stands there once.
LinkedIsMarked ==
  /\ TypeOK
  /\ \A i \in DOMAIN Linked :
       mInq[Linked[i]] \/ \E t \in Workers : pc[t] = "mark" /\ so[t] = Linked[i]
  /\ \A i, j \in DOMAIN Linked : Linked[i] = Linked[j] => i = j

\* mQn, which is unsigned, never counts less than what can be taken off, so
\* the decrement in _processFlush does not wrap around.
QnCoversList == halted = "no" => Len(Linked) <= mQn

\* The assertions of _pushWQ and _processFlush (lines 420, 518 and 519).
QueueAssertions == halted # "assert"
==============================================================================
