--------------------------- MODULE WriteQueueProofs ---------------------------
(***************************************************************************)
(* Proofs about WriteQueue for any number of sockets, threads, writes and  *)
(* closes.  The else branch of _pushWQ leaves mWTail where it is, so the   *)
(* list never has more than two sockets (those linked in between are lost, *)
(* which QueueAssertions shows), and the shape it can have is what the     *)
(* invariant says.                                                         *)
(***************************************************************************)
EXTENDS WriteQueue, FiniteSetTheorems, WellFoundedInduction, TLAPS

\* so_write has linked the socket in, and marked it or is about to.
Queued(s) == mInq[s] \/ \E t \in Workers : pc[t] = "mark" /\ so[t] = s

-----------------------------------------------------------------------------
(* The inductive invariant.                                                *)

\* so_write has the lock of its socket all the time, _processFlush while it writes.
HoldsLock(t) ==
  /\ t # Socket => pc[t] \in {"idle", "append", "push", "mark"}
  /\ t = Socket => pc[t] \in {"idle", "pop", "flush", "write"}
  /\ pc[t] \in {"append", "push", "mark", "write"} => wLock[so[t]] = t
  /\ pc[t] \in {"append", "push", "mark", "write", "flush"} => so[t] \in Slots

\* What so_write found stays so under the lock: the socket is not queued.
FoundUnmarked(t) == pc[t] \in {"push", "mark"} => ~mInq[so[t]]

\* A buffer has no more than was written, a call that has yet to append not counted.
BufferCounted ==
  /\ \A s \in Slots : mCur[s] <= nWrites
  /\ \A t \in Workers : pc[t] = "append" => mCur[so[t]] < nWrites

\* The list: empty; or mWTail alone, or with one more behind it; or, when mWTail has
\* been taken off, the one that was behind it.
ListShape ==
  /\ mWHead = None /\ halted = "no" => mWTail = None /\ mQn = 0
  /\ mWHead # None =>
       /\ mWTail # None /\ mQn >= 1 /\ Queued(mWHead)
       /\ mWHead # mWTail => next[mWHead] = None
       /\ next[mWHead] # None =>
            /\ next[mWHead] # mWHead /\ next[next[mWHead]] = None
            /\ Queued(next[mWHead]) /\ mQn >= 2

\* What _processFlush has taken off is still marked, and nobody has linked it in again.
InHand ==
  pc[Socket] \in {"flush", "write"} =>
    /\ Queued(so[Socket])
    /\ mWHead # None => so[Socket] # mWHead /\ next[mWHead] # so[Socket]

\* Bytes of a socket in use are marked.
UnsentMarked ==
  halted = "no" => \A s \in Slots : wLock[s] = None /\ rw[s] /\ mCur[s] > 0 => mInq[s]

\* The sockets that wait to be flushed, those that _pushWQ has lost included: mQn
\* counts them.
Waiting == {s \in Slots : Queued(s) /\ ~Flushing(s)}

WaitingCounted == mQn = Cardinality(Waiting)

Labels == {"idle", "append", "push", "mark", "pop", "flush", "write"}

QueueInv ==
  /\ TypeOK /\ pc \in [Threads -> Labels]
  /\ BufferCounted
  /\ \A t \in Threads : HoldsLock(t) /\ FoundUnmarked(t)
  /\ ListShape /\ InHand
  /\ UnsentMarked /\ WaitingCounted

\* There are finitely many sockets.
LEMMA WaitingFinite == IsFiniteSet(Waiting)
BY WriteAssumption, FS_Subset DEF Waiting

\* A step that puts none into the queue, takes none off and ends no flush.
LEMMA WaitingKept ==
  ASSUME WaitingCounted, mQn' = mQn,
         \A s \in Slots : (Queued(s)' <=> Queued(s)) /\ (Flushing(s)' <=> Flushing(s))
  PROVE  WaitingCounted'
<1>1. Waiting' = Waiting
  BY DEF Waiting
<1> QED  BY <1>1 DEF WaitingCounted

-----------------------------------------------------------------------------
(* The steps.  In each of them <1>a is about the types, <1>b the labels,   *)
(* <1>c the buffers, <1>d the locks, <1>e what so_write found, <1>f the    *)
(* list, <1>g the socket in hand, <1>h the marks, <1>i the count.          *)

\* so_write takes the lock and looks at the mark; it appends only to a socket in use.
LEMMA WriteStep ==
  ASSUME QueueInv, NEW t \in Workers, NEW s \in Slots, Write(t, s)
  PROVE  QueueInv'
<1>a. TypeOK'
  BY WriteAssumption DEF QueueInv, TypeOK, Threads, Write, Lock, queueVars, flushVars
<1>b. pc' \in [Threads -> Labels]
  BY DEF QueueInv, Labels, Write, Goto
<1>c. BufferCounted'
  BY DEF QueueInv, TypeOK, BufferCounted, HoldsLock, Threads, Write, Goto
<1>d. \A u \in Threads : HoldsLock(u)'
  BY WriteAssumption DEF QueueInv, TypeOK, HoldsLock, Threads, Write, Lock, Goto
<1>e. \A u \in Threads : FoundUnmarked(u)'
  BY DEF QueueInv, FoundUnmarked, Write, Goto
<1>f. ListShape'
  BY DEF QueueInv, ListShape, Queued, Write, At, Goto, queueVars
<1>g. InHand'
  BY DEF QueueInv, InHand, Queued, Write, At, Goto, queueVars
<1>h. UnsentMarked'
  BY DEF QueueInv, UnsentMarked, Write, Lock, At
<1>i. WaitingCounted'
  <2>1. \A r \in Slots : (Queued(r)' <=> Queued(r)) /\ (Flushing(r)' <=> Flushing(r))
    BY WriteAssumption DEF QueueInv, TypeOK, HoldsLock, FoundUnmarked, Queued, Flushing, Threads, Write, At, Goto, queueVars
  <2>2. mQn' = mQn
    BY DEF Write, At, Goto, queueVars
  <2> QED  BY <2>1, <2>2, WaitingKept DEF QueueInv
<1> QED  BY <1>a, <1>b, <1>c, <1>d, <1>e, <1>f, <1>g, <1>h, <1>i DEF QueueInv

\* The bytes are in the buffer: to _pushWQ if the socket is not marked, or done.
LEMMA AppendedStep ==
  ASSUME QueueInv, NEW t \in Workers, Appended(t)
  PROVE  QueueInv'
<1>a. TypeOK'
  BY WriteAssumption DEF QueueInv, TypeOK, BufferCounted, Appended, Unlock, At, queueVars,
     flushVars, bounds
<1>b. pc' \in [Threads -> Labels]
  BY DEF QueueInv, Labels, Appended, Goto
<1>c. BufferCounted'
  BY DEF QueueInv, TypeOK, BufferCounted, HoldsLock, Threads, Appended, At, Goto, bounds
<1>d. \A u \in Threads : HoldsLock(u)'
  BY DEF QueueInv, TypeOK, HoldsLock, Threads, Appended, Unlock, At, Goto
<1>e. \A u \in Threads : FoundUnmarked(u)'
  BY DEF QueueInv, FoundUnmarked, Appended, Goto
<1>f. ListShape'
  BY DEF QueueInv, ListShape, Queued, Threads, Appended, At, Goto, queueVars
<1>g. InHand'
  BY DEF QueueInv, InHand, Queued, Threads, Appended, At, Goto, queueVars
<1>h. UnsentMarked'
  BY WriteAssumption DEF QueueInv, TypeOK, HoldsLock, UnsentMarked, Threads, Appended,
     Unlock, At
<1>i. WaitingCounted'
  <2>1. \A r \in Slots : (Queued(r)' <=> Queued(r)) /\ (Flushing(r)' <=> Flushing(r))
    BY WriteAssumption DEF QueueInv, TypeOK, HoldsLock, FoundUnmarked, Queued, Flushing, Threads, Appended, At, Goto, queueVars
  <2>2. mQn' = mQn
    BY DEF Appended, At, Goto, queueVars
  <2> QED  BY <2>1, <2>2, WaitingKept DEF QueueInv
<1> QED  BY <1>a, <1>b, <1>c, <1>d, <1>e, <1>f, <1>g, <1>h, <1>i DEF QueueInv

\* _pushWQ: the first on the list, or one behind mWTail, which stays where it is.
LEMMA PushWQStep ==
  ASSUME QueueInv, NEW t \in Workers, PushWQ(t)
  PROVE  QueueInv'
<1>1. /\ so[t] \in Slots /\ halted = "no" /\ left' = left
      /\ UNCHANGED <<rw, mCur, mInq, wLock, so, nWrites, nCloses>>
  BY DEF PushWQ, At, QueueInv, HoldsLock, Threads, bounds
<1>2. \/ /\ mWTail = None /\ mQn' = 1 /\ mWHead' = so[t] /\ mWTail' = so[t]
         /\ halted' \in {"no", "assert"}
      \/ mQn' = mQn + 1 /\ UNCHANGED <<mWHead, mWTail, halted>>
  BY <1>1 DEF PushWQ
<1>3. next' \in [Slots -> Slots \cup {None}]
  BY <1>1 DEF PushWQ, QueueInv, TypeOK
<1>4. left \in Nat /\ mQn \in Nat /\ left <= mQn /\ (mWTail = None => mQn = 0)
  BY <1>1 DEF QueueInv, TypeOK, ListShape
<1>a. TypeOK'
  BY <1>1, <1>2, <1>3, <1>4 DEF QueueInv, TypeOK
<1>b. pc' \in [Threads -> Labels]
  BY DEF QueueInv, Labels, PushWQ, Goto
<1>c. BufferCounted'
  BY DEF QueueInv, BufferCounted, PushWQ, Goto, bounds
<1>d. \A u \in Threads : HoldsLock(u)'
  BY DEF QueueInv, HoldsLock, PushWQ, At, Goto
<1>e. \A u \in Threads : FoundUnmarked(u)'
  BY DEF QueueInv, FoundUnmarked, PushWQ, At, Goto
<1>f. ListShape'
  BY WriteAssumption DEF QueueInv, TypeOK, HoldsLock, ListShape, Queued, Threads, PushWQ, At, Goto
<1>g. InHand'
  BY WriteAssumption DEF QueueInv, TypeOK, HoldsLock, FoundUnmarked, InHand, Queued, Threads,
     PushWQ, At, Goto
<1>h. UnsentMarked'
  BY DEF QueueInv, UnsentMarked, PushWQ
<1>i. WaitingCounted'
  <2>1. PICK s \in Slots : s = so[t] /\ ~Queued(s) /\ pc[t] = "push"
    BY <1>1, WriteAssumption DEF QueueInv, HoldsLock, FoundUnmarked, Queued, Threads, PushWQ, At
  <2>2. /\ pc' = [pc EXCEPT ![t] = "mark"] /\ UNCHANGED <<so, mInq>>
        /\ pc'[Socket] = pc[Socket] /\ \A u \in Threads \ {t} : pc'[u] = pc[u]
        /\ pc'[t] = "mark"
    BY WriteAssumption DEF PushWQ, Goto, QueueInv, Threads
  <2>3. \A r \in Slots : Queued(r)' <=> Queued(r) \/ r = s
    BY <2>1, <2>2 DEF Queued, Threads
  <2>4. \A r \in Slots : Flushing(r)' <=> Flushing(r)
    BY <2>2 DEF Flushing
  <2>5. ~Flushing(s)
    BY <2>1 DEF QueueInv, InHand, Flushing
  <2>6. Waiting' = Waiting \cup {s} /\ s \notin Waiting
    BY <2>1, <2>3, <2>4, <2>5 DEF Waiting
  <2>7. Cardinality(Waiting') = Cardinality(Waiting) + 1
    BY <2>6, WaitingFinite, FS_AddElement
  <2>8. mQn' = mQn + 1
    BY <1>2, <1>4
  <2> QED  BY <2>7, <2>8 DEF QueueInv, WaitingCounted
<1> QED  BY <1>a, <1>b, <1>c, <1>d, <1>e, <1>f, <1>g, <1>h, <1>i DEF QueueInv

\* so_write marks the socket it has linked in and lets go of it.
LEMMA MarkStep ==
  ASSUME QueueInv, NEW t \in Workers, Mark(t)
  PROVE  QueueInv'
<1>a. TypeOK'
  BY DEF QueueInv, TypeOK, Mark, Unlock, queueVars, flushVars, bounds
<1>b. pc' \in [Threads -> Labels]
  BY DEF QueueInv, Labels, Mark, Goto
<1>c. BufferCounted'
  BY DEF QueueInv, BufferCounted, Mark, Goto, bounds
<1>d. \A u \in Threads : HoldsLock(u)'
  BY DEF QueueInv, HoldsLock, Threads, Mark, Unlock, At, Goto
<1>e. \A u \in Threads : FoundUnmarked(u)'
  BY DEF QueueInv, HoldsLock, FoundUnmarked, Threads, Mark, At, Goto
<1>f. ListShape'
  BY DEF QueueInv, TypeOK, ListShape, Queued, Mark, At, Goto, queueVars
<1>g. InHand'
  BY DEF QueueInv, TypeOK, HoldsLock, InHand, Queued, Mark, Goto, queueVars
<1>h. UnsentMarked'
  BY DEF QueueInv, TypeOK, UnsentMarked, Mark, Unlock, At
<1>i. WaitingCounted'
  <2>1. \A r \in Slots : (Queued(r)' <=> Queued(r)) /\ (Flushing(r)' <=> Flushing(r))
    BY WriteAssumption DEF QueueInv, TypeOK, HoldsLock, FoundUnmarked, Queued, Flushing, Threads, Mark, At, Goto, queueVars
  <2>2. mQn' = mQn
    BY DEF Mark, At, Goto, queueVars
  <2> QED  BY <2>1, <2>2, WaitingKept DEF QueueInv
<1> QED  BY <1>a, <1>b, <1>c, <1>d, <1>e, <1>f, <1>g, <1>h, <1>i DEF QueueInv

\* so_close while nobody has the lock: what was written is forgotten.
LEMMA CloseStep ==
  ASSUME QueueInv, NEW s \in Slots, Close(s)
  PROVE  QueueInv'
<1>a. TypeOK'
  BY WriteAssumption DEF QueueInv, TypeOK, Close, queueVars, flushVars
<1>b. pc' \in [Threads -> Labels]
  BY DEF QueueInv, Close
<1>c. BufferCounted'
  BY DEF QueueInv, TypeOK, BufferCounted, Close
<1>d. \A u \in Threads : HoldsLock(u)'
  BY DEF QueueInv, HoldsLock, Close
<1>e. \A u \in Threads : FoundUnmarked(u)'
  BY DEF QueueInv, FoundUnmarked, Close
<1>f. ListShape'
  BY DEF QueueInv, ListShape, Queued, Close, queueVars
<1>g. InHand'
  BY DEF QueueInv, InHand, Queued, Close, queueVars
<1>h. UnsentMarked'
  BY DEF QueueInv, UnsentMarked, Close
<1>i. WaitingCounted'
  <2>1. \A r \in Slots : (Queued(r)' <=> Queued(r)) /\ (Flushing(r)' <=> Flushing(r))
    BY WriteAssumption DEF QueueInv, TypeOK, HoldsLock, FoundUnmarked, Queued, Flushing, Threads, Close, queueVars
  <2>2. mQn' = mQn
    BY DEF Close, queueVars
  <2> QED  BY <2>1, <2>2, WaitingKept DEF QueueInv
<1> QED  BY <1>a, <1>b, <1>c, <1>d, <1>e, <1>f, <1>g, <1>h, <1>i DEF QueueInv

\* The connection breaks.
LEMMA BrokenStep ==
  ASSUME QueueInv, NEW s \in Slots, Broken(s)
  PROVE  QueueInv'
<1>a. TypeOK'
  BY DEF QueueInv, TypeOK, Broken, queueVars, flushVars, bounds
<1>b. pc' \in [Threads -> Labels]
  BY DEF QueueInv, Broken
<1>c. BufferCounted'
  BY DEF QueueInv, BufferCounted, Broken, bounds
<1>d. \A u \in Threads : HoldsLock(u)'
  BY DEF QueueInv, HoldsLock, Broken
<1>e. \A u \in Threads : FoundUnmarked(u)'
  BY DEF QueueInv, FoundUnmarked, Broken
<1>f. ListShape'
  BY DEF QueueInv, ListShape, Queued, Broken, queueVars
<1>g. InHand'
  BY DEF QueueInv, InHand, Queued, Broken, queueVars
<1>h. UnsentMarked'
  BY DEF QueueInv, UnsentMarked, Broken
<1>i. WaitingCounted'
  <2>1. \A r \in Slots : (Queued(r)' <=> Queued(r)) /\ (Flushing(r)' <=> Flushing(r))
    BY WriteAssumption DEF QueueInv, TypeOK, HoldsLock, FoundUnmarked, Queued, Flushing, Threads, Broken, queueVars
  <2>2. mQn' = mQn
    BY DEF Broken, queueVars
  <2> QED  BY <2>1, <2>2, WaitingKept DEF QueueInv
<1> QED  BY <1>a, <1>b, <1>c, <1>d, <1>e, <1>f, <1>g, <1>h, <1>i DEF QueueInv

\* The slot is taken again.
LEMMA ReopenStep ==
  ASSUME QueueInv, NEW s \in Slots, Reopen(s)
  PROVE  QueueInv'
<1>a. TypeOK'
  BY DEF QueueInv, TypeOK, Reopen, queueVars, flushVars, bounds
<1>b. pc' \in [Threads -> Labels]
  BY DEF QueueInv, Reopen
<1>c. BufferCounted'
  BY DEF QueueInv, BufferCounted, Reopen, bounds
<1>d. \A u \in Threads : HoldsLock(u)'
  BY DEF QueueInv, HoldsLock, Reopen
<1>e. \A u \in Threads : FoundUnmarked(u)'
  BY DEF QueueInv, FoundUnmarked, Reopen
<1>f. ListShape'
  BY DEF QueueInv, ListShape, Queued, Reopen, queueVars
<1>g. InHand'
  BY DEF QueueInv, InHand, Queued, Reopen, queueVars
<1>h. UnsentMarked'
  BY DEF QueueInv, UnsentMarked, Reopen
<1>i. WaitingCounted'
  <2>1. \A r \in Slots : (Queued(r)' <=> Queued(r)) /\ (Flushing(r)' <=> Flushing(r))
    BY WriteAssumption DEF QueueInv, TypeOK, HoldsLock, FoundUnmarked, Queued, Flushing, Threads, Reopen, queueVars
  <2>2. mQn' = mQn
    BY DEF Reopen, queueVars
  <2> QED  BY <2>1, <2>2, WaitingKept DEF QueueInv
<1> QED  BY <1>a, <1>b, <1>c, <1>d, <1>e, <1>f, <1>g, <1>h, <1>i DEF QueueInv

\* _processFlush takes mQn.
LEMMA FlushBeginStep ==
  ASSUME QueueInv, FlushBegin
  PROVE  QueueInv'
<1>a. TypeOK'
  BY DEF QueueInv, TypeOK, FlushBegin, queueVars, bounds
<1>b. pc' \in [Threads -> Labels]
  BY DEF QueueInv, Labels, FlushBegin, Goto
<1>c. BufferCounted'
  BY DEF QueueInv, BufferCounted, FlushBegin, Goto, bounds
<1>d. \A u \in Threads : HoldsLock(u)'
  BY DEF QueueInv, HoldsLock, FlushBegin, Goto
<1>e. \A u \in Threads : FoundUnmarked(u)'
  BY DEF QueueInv, FoundUnmarked, FlushBegin, Goto
<1>f. ListShape'
  BY DEF QueueInv, HoldsLock, ListShape, Queued, FlushBegin, Goto, queueVars
<1>g. InHand'
  BY DEF QueueInv, InHand, Threads, FlushBegin, Goto
<1>h. UnsentMarked'
  BY DEF QueueInv, UnsentMarked, FlushBegin
<1>i. WaitingCounted'
  <2>1. \A r \in Slots : (Queued(r)' <=> Queued(r)) /\ (Flushing(r)' <=> Flushing(r))
    BY WriteAssumption DEF QueueInv, TypeOK, HoldsLock, FoundUnmarked, Queued, Flushing, Threads, FlushBegin, At, Goto, queueVars
  <2>2. mQn' = mQn
    BY DEF FlushBegin, At, Goto, queueVars
  <2> QED  BY <2>1, <2>2, WaitingKept DEF QueueInv
<1> QED  BY <1>a, <1>b, <1>c, <1>d, <1>e, <1>f, <1>g, <1>h, <1>i DEF QueueInv

\* _popWQ takes the head off; what stands behind it is the head now.
LEMMA PopStep ==
  ASSUME QueueInv, Pop
  PROVE  QueueInv'
<1>a. TypeOK'
  BY DEF QueueInv, TypeOK, Threads, Pop, bounds
<1>b. pc' \in [Threads -> Labels]
  BY DEF QueueInv, Labels, Pop, Goto
<1>c. BufferCounted'
  BY DEF QueueInv, TypeOK, BufferCounted, Pop, Goto, bounds
<1>d. \A u \in Threads : HoldsLock(u)'
  BY DEF QueueInv, TypeOK, HoldsLock, Pop, Goto
<1>e. \A u \in Threads : FoundUnmarked(u)'
  BY DEF QueueInv, FoundUnmarked, Pop, Goto
<1>f. ListShape'
  BY DEF QueueInv, TypeOK, HoldsLock, ListShape, Queued, Pop, Goto
<1>g. InHand'
  BY DEF QueueInv, TypeOK, HoldsLock, ListShape, InHand, Queued, Threads, Pop, Goto
<1>h. UnsentMarked'
  BY DEF QueueInv, UnsentMarked, Pop
<1>i. WaitingCounted'
  <2>1. PICK s \in Slots : s = mWHead /\ Queued(s) /\ pc[Socket] = "pop"
    BY DEF Pop, At, QueueInv, TypeOK, ListShape
  <2>2. /\ mQn' = mQn - 1 /\ UNCHANGED mInq
        /\ \A u \in Workers : pc'[u] = pc[u] /\ so'[u] = so[u]
        /\ so'[Socket] = s /\ pc'[Socket] = "flush"
    BY <2>1, WriteAssumption DEF Pop, Goto, QueueInv, TypeOK, Threads
  <2>3. \A r \in Slots : Queued(r)' <=> Queued(r)
    BY <2>2 DEF Queued
  <2>4. \A r \in Slots : ~Flushing(r) /\ (Flushing(r)' <=> r = s)
    BY <2>1, <2>2 DEF Flushing
  <2>5. Waiting' = Waiting \ {s} /\ s \in Waiting
    BY <2>1, <2>3, <2>4 DEF Waiting
  <2>6. Cardinality(Waiting') = Cardinality(Waiting) - 1
    BY <2>5, WaitingFinite, FS_RemoveElement
  <2> QED  BY <2>2, <2>6 DEF QueueInv, WaitingCounted
<1> QED  BY <1>a, <1>b, <1>c, <1>d, <1>e, <1>f, <1>g, <1>h, <1>i DEF QueueInv

\* _processFlush has taken as many as it counted, or found the list empty.
LEMMA FlushDoneStep ==
  ASSUME QueueInv, FlushDone
  PROVE  QueueInv'
<1>a. TypeOK'
  BY DEF QueueInv, TypeOK, FlushDone, queueVars, bounds
<1>b. pc' \in [Threads -> Labels]
  BY DEF QueueInv, Labels, FlushDone, Goto
<1>c. BufferCounted'
  BY DEF QueueInv, BufferCounted, FlushDone, Goto, bounds
<1>d. \A u \in Threads : HoldsLock(u)'
  BY DEF QueueInv, HoldsLock, FlushDone, Goto
<1>e. \A u \in Threads : FoundUnmarked(u)'
  BY DEF QueueInv, FoundUnmarked, FlushDone, Goto
<1>f. ListShape'
  BY DEF QueueInv, HoldsLock, ListShape, Queued, FlushDone, Goto, queueVars
<1>g. InHand'
  BY DEF QueueInv, InHand, Threads, FlushDone, Goto
<1>h. UnsentMarked'
  BY DEF QueueInv, UnsentMarked, FlushDone
<1>i. WaitingCounted'
  <2>1. \A r \in Slots : (Queued(r)' <=> Queued(r)) /\ (Flushing(r)' <=> Flushing(r))
    BY WriteAssumption DEF QueueInv, TypeOK, HoldsLock, FoundUnmarked, Queued, Flushing, Threads, FlushDone, At, Goto, queueVars
  <2>2. mQn' = mQn
    BY DEF FlushDone, At, Goto, queueVars
  <2> QED  BY <2>1, <2>2, WaitingKept DEF QueueInv
<1> QED  BY <1>a, <1>b, <1>c, <1>d, <1>e, <1>f, <1>g, <1>h, <1>i DEF QueueInv

\* _processFlush takes the lock of the socket in hand.
LEMMA FlushLockStep ==
  ASSUME QueueInv, FlushLock
  PROVE  QueueInv'
<1>a. TypeOK'
  BY DEF QueueInv, TypeOK, Threads, FlushLock, Lock, queueVars, flushVars, bounds
<1>b. pc' \in [Threads -> Labels]
  BY DEF QueueInv, Labels, FlushLock, Goto
<1>c. BufferCounted'
  BY DEF QueueInv, BufferCounted, FlushLock, Goto, bounds
<1>d. \A u \in Threads : HoldsLock(u)'
  BY WriteAssumption DEF QueueInv, TypeOK, HoldsLock, Threads, FlushLock, Lock, At, Goto
<1>e. \A u \in Threads : FoundUnmarked(u)'
  BY DEF QueueInv, FoundUnmarked, FlushLock, Goto
<1>f. ListShape'
  BY DEF QueueInv, ListShape, Queued, FlushLock, At, Goto, queueVars
<1>g. InHand'
  BY DEF QueueInv, InHand, Queued, FlushLock, At, Goto, queueVars
<1>h. UnsentMarked'
  BY DEF QueueInv, UnsentMarked, FlushLock, Lock, At
<1>i. WaitingCounted'
  <2>1. \A r \in Slots : (Queued(r)' <=> Queued(r)) /\ (Flushing(r)' <=> Flushing(r))
    BY WriteAssumption DEF QueueInv, TypeOK, HoldsLock, FoundUnmarked, Queued, Flushing, Threads, FlushLock, At, Goto, queueVars
  <2>2. mQn' = mQn
    BY DEF FlushLock, At, Goto, queueVars
  <2> QED  BY <2>1, <2>2, WaitingKept DEF QueueInv
<1> QED  BY <1>a, <1>b, <1>c, <1>d, <1>e, <1>f, <1>g, <1>h, <1>i DEF QueueInv

\* _processFlush writes, clears the mark and lets go.
LEMMA FlushStep ==
  ASSUME QueueInv, Flush
  PROVE  QueueInv'
<1>1. /\ so[Socket] \in Slots
      /\ mInq' = [mInq EXCEPT ![so[Socket]] = FALSE]
      /\ wLock' = [wLock EXCEPT ![so[Socket]] = None]
      /\ UNCHANGED <<queueVars, so, left, bounds>>
  BY DEF Flush, Unlock, At, QueueInv, HoldsLock, Threads
<1>2. /\ rw' = rw \/ rw' = [rw EXCEPT ![so[Socket]] = FALSE]
      /\ mCur' = mCur \/ mCur' = [mCur EXCEPT ![so[Socket]] = 0]
      /\ halted' = halted \/ halted' = "overwritten"
  BY DEF Flush
<1>3. 0 \in 0 .. MaxWrites
  BY WriteAssumption
<1>a. TypeOK'
  BY <1>1, <1>2, <1>3 DEF QueueInv, TypeOK, queueVars, bounds
<1>b. pc' \in [Threads -> Labels]
  BY DEF QueueInv, Labels, Flush, Goto
<1>c. BufferCounted'
  BY DEF QueueInv, TypeOK, BufferCounted, HoldsLock, Threads, Flush, Goto, bounds
<1>d. \A u \in Threads : HoldsLock(u)'
  BY DEF QueueInv, HoldsLock, Threads, Flush, Unlock, At, Goto
<1>e. \A u \in Threads : FoundUnmarked(u)'
  BY DEF QueueInv, FoundUnmarked, Flush, Goto
<1>f. ListShape'
  BY DEF QueueInv, ListShape, InHand, Queued, Flush, At, Goto, queueVars
<1>g. InHand'
  BY DEF QueueInv, InHand, Threads, Flush, Goto
<1>h. UnsentMarked'
  BY DEF QueueInv, TypeOK, UnsentMarked, Flush, Unlock
<1>i. WaitingCounted'
  <2>1. PICK s \in Slots : s = so[Socket] /\ pc[Socket] = "write" /\ wLock[s] = Socket
    BY <1>1 DEF Flush, At, QueueInv, HoldsLock, Threads
  <2>2. /\ mQn' = mQn /\ UNCHANGED so /\ pc'[Socket] = "pop"
        /\ \A u \in Workers : pc'[u] = pc[u]
        /\ ~mInq'[s] /\ \A r \in Slots \ {s} : mInq'[r] = mInq[r]
    BY <1>1, <2>1, WriteAssumption DEF Flush, Goto, QueueInv, TypeOK, Threads, queueVars
  <2>3. \A u \in Workers : pc[u] = "mark" => so[u] # s
    BY <2>1, WriteAssumption DEF QueueInv, HoldsLock, Threads
  <2>4. \A r \in Slots : Queued(r)' <=> Queued(r) /\ r # s
    BY <2>2, <2>3 DEF Queued
  <2>5. \A r \in Slots : ~Flushing(r)' /\ (Flushing(r) <=> r = s)
    BY <2>1, <2>2 DEF Flushing
  <2>6. Waiting' = Waiting
    BY <2>4, <2>5 DEF Waiting
  <2> QED  BY <2>2, <2>6 DEF QueueInv, WaitingCounted
<1> QED  BY <1>a, <1>b, <1>c, <1>d, <1>e, <1>f, <1>g, <1>h, <1>i DEF QueueInv

-----------------------------------------------------------------------------
(* What _processFlush finds.                                               *)

\* The chain of n + 1 sockets, or fewer, when f has those of n.
Longer(f, n) ==
  IF n = 0 THEN IF mWHead = None THEN <<>> ELSE <<mWHead>>
  ELSE LET c == f[n - 1] IN
       IF c = <<>> \/ next[c[Len(c)]] = None THEN c ELSE Append(c, next[c[Len(c)]])

\* A set of natural numbers has a least element.
LEMMA LeastNatural ==
  ASSUME NEW S \in SUBSET Nat, S # {}
  PROVE  \E x \in S : \A y \in S : x <= y
<1> DEFINE T == {0 .. x : x \in S}
<1>1. T \subseteq FiniteSubsetsOf(Nat) /\ T # {}
  <2>1. ASSUME NEW x \in S PROVE IsFiniteSet(0 .. x) /\ 0 .. x \subseteq Nat
    BY FS_Interval
  <2> QED
    BY <2>1 DEF FiniteSubsetsOf
<1>2. PICK X \in T : \A Y \in T : <<Y, X>> \notin StrictSubsetOrdering(Nat)
  <2> HIDE DEF T
  <2> QED
    BY <1>1, WFMin, FS_StrictSubsetOrderingWellFounded
<1>3. PICK x \in S : X = 0 .. x
  OBVIOUS
<1>4. ASSUME NEW y \in S, y < x PROVE FALSE
  <2>1. 0 .. y \subseteq 0 .. x /\ x \in 0 .. x /\ x \notin 0 .. y
    BY <1>4
  <2>2. <<0 .. y, X>> \in StrictSubsetOrdering(Nat)
    BY <2>1, <1>3 DEF StrictSubsetOrdering
  <2> QED
    BY <2>2, <1>2
<1> QED
  BY <1>4

\* Linked is what its definition, a recursive function, says.
LEMMA LinkedByChains ==
  Linked = (CHOOSE f : f = [n \in 0 .. Cardinality(Slots) |-> Longer(f, n)])[Cardinality(Slots)]
BY DEF Linked, Longer

\* A function that satisfies the definition is the one it defines.
LEMMA ChainsAreUnique ==
  ASSUME NEW N \in Nat, NEW g, g = [n \in 0 .. N |-> Longer(g, n)]
  PROVE  (CHOOSE f : f = [n \in 0 .. N |-> Longer(f, n)]) = g
<1>1. PICK f : f = (CHOOSE h : h = [n \in 0 .. N |-> Longer(h, n)])
  OBVIOUS
<1>2. f = [n \in 0 .. N |-> Longer(f, n)]
  BY <1>1
<1> DEFINE Differ == {n \in 0 .. N : f[n] # g[n]}
<1>3. ASSUME Differ # {} PROVE FALSE
  <2>1. PICK n \in Differ : \A k \in Differ : n <= k
    <3>1. Differ \in SUBSET Nat
      OBVIOUS
    <3> HIDE DEF Differ
    <3> QED  BY <1>3, <3>1, LeastNatural
  <2>2. f[n] = Longer(f, n) /\ g[n] = Longer(g, n)
    BY <1>2
  <2>3. n = 0 \/ f[n - 1] = g[n - 1]
    BY <2>1
  <2>4. CASE n = 0
    BY <2>1, <2>2, <2>4 DEF Longer
  <2>5. CASE n # 0 /\ f[n - 1] = g[n - 1]
    <3>1. Longer(f, n) = Longer(g, n)
      BY <2>5, Zenon DEF Longer
    <3> QED  BY <2>1, <2>2, <3>1
  <2> QED  BY <2>3, <2>4, <2>5
<1>4. \A n \in 0 .. N : f[n] = g[n]
  BY <1>3
<1>5. f = [n \in 0 .. N |-> f[n]] /\ g = [n \in 0 .. N |-> g[n]]
  BY <1>2
<1> QED  BY <1>1, <1>4, <1>5

\* What is linked, by the shape of the list.
LEMMA WhatIsLinked ==
  ASSUME QueueInv
  PROVE  /\ mWHead = None => Linked = <<>>
         /\ mWHead # None /\ next[mWHead] = None => Linked = <<mWHead>>
         /\ mWHead # None /\ next[mWHead] # None => Linked = <<mWHead, next[mWHead]>>
<1> DEFINE N == Cardinality(Slots)
           G(g) == g = [n \in 0 .. N |-> Longer(g, n)]
<1>1. N \in Nat /\ (Slots # {} => N >= 1)
  BY WriteAssumption, FS_CardinalityType, FS_EmptySet
<1>2. ASSUME NEW g, G(g) PROVE Linked = g[N]
  BY <1>1, <1>2, ChainsAreUnique, LinkedByChains
<1> HIDE DEF N
<1>3. CASE mWHead = None
  <2> DEFINE g == [n \in 0 .. N |-> <<>>]
  <2>1. \A n \in 0 .. N : Longer(g, n) = <<>>
    BY <1>1, <1>3 DEF Longer
  <2>2. G(g)
    BY <2>1
  <2> QED  BY <1>1, <1>2, <1>3, <2>2
<1>4. CASE mWHead # None /\ next[mWHead] = None
  <2> DEFINE g == [n \in 0 .. N |-> <<mWHead>>]
  <2>1. \A n \in 0 .. N : Longer(g, n) = <<mWHead>>
    BY <1>1, <1>4 DEF Longer
  <2>2. G(g)
    BY <2>1
  <2> QED  BY <1>1, <1>2, <1>4, <2>2
<1>5. CASE mWHead # None /\ next[mWHead] # None
  <2> DEFINE g == [n \in 0 .. N |-> IF n = 0 THEN <<mWHead>> ELSE <<mWHead, next[mWHead]>>]
  <2>1. mWHead \in Slots /\ next[mWHead] \in Slots /\ next[next[mWHead]] = None
    BY <1>5 DEF QueueInv, TypeOK, ListShape
  <2>2. \A n \in 0 .. N : Longer(g, n) = IF n = 0 THEN <<mWHead>> ELSE <<mWHead, next[mWHead]>>
    <3> SUFFICES ASSUME NEW n \in 0 .. N
                 PROVE  Longer(g, n) = IF n = 0 THEN <<mWHead>> ELSE <<mWHead, next[mWHead]>>
      OBVIOUS
    <3>1. CASE n = 0
      BY <1>5, <3>1 DEF Longer
    <3>2. CASE n = 1
      <4>1. g[n - 1] = <<mWHead>>
        BY <1>1, <3>2
      <4> HIDE DEF g
      <4>2. Len(<<mWHead>>) = 1 /\ <<mWHead>>[1] = mWHead /\ <<mWHead>> # <<>>
        OBVIOUS
      <4>3. Longer(g, n) = Append(<<mWHead>>, next[mWHead])
        BY <1>5, <3>2, <4>1, <4>2 DEF Longer
      <4> QED  BY <3>2, <4>3
    <3>3. CASE n > 1
      <4>1. g[n - 1] = <<mWHead, next[mWHead]>>
        BY <1>1, <3>3
      <4> HIDE DEF g
      <4> DEFINE X == next[mWHead]
      <4>2. Len(<<mWHead, X>>) = 2 /\ <<mWHead, X>>[2] = X /\ <<mWHead, X>> # <<>> /\ next[X] = None
        BY <2>1
      <4>3. n # 0
        BY <3>3
      <4> QED  BY <4>1, <4>2, <4>3, Zenon DEF Longer
    <3> QED  BY <1>1, <3>1, <3>2, <3>3
  <2>3. G(g)
    BY <2>2
  <2>4. N >= 1
    BY <1>1, <2>1
  <2>5. Linked = g[N]
    BY <1>2, <2>3
  <2>6. g[N] = <<mWHead, next[mWHead]>>
    BY <1>1, <2>4
  <2> QED  BY <1>5, <2>5, <2>6
<1> QED  BY <1>3, <1>4, <1>5

-----------------------------------------------------------------------------
(* The invariant, and what follows.                                        *)

\* Nothing is queued at first.
LEMMA QueueInit == Init => QueueInv
<1> SUFFICES ASSUME Init PROVE QueueInv
  OBVIOUS
<1>1. TypeOK /\ pc \in [Threads -> Labels] /\ BufferCounted
  BY WriteAssumption DEF Init, TypeOK, Labels, BufferCounted, Threads
<1>2. \A t \in Threads : HoldsLock(t) /\ FoundUnmarked(t)
  BY DEF Init, HoldsLock, FoundUnmarked
<1>3. ListShape /\ InHand /\ UnsentMarked
  BY WriteAssumption DEF Init, ListShape, InHand, UnsentMarked, Threads
<1>4. Waiting = {}
  BY DEF Init, Waiting, Queued, Threads
<1>5. WaitingCounted
  BY <1>4, FS_EmptySet DEF Init, WaitingCounted
<1> QED  BY <1>1, <1>2, <1>3, <1>5 DEF QueueInv

\* Every step of a worker, of the socket thread and of the network keeps it.
LEMMA QueueStep == QueueInv /\ [Next]_vars => QueueInv'
<1> SUFFICES ASSUME QueueInv, [Next]_vars PROVE QueueInv'
  OBVIOUS
<1>1. CASE UNCHANGED vars
  BY <1>1 DEF QueueInv, TypeOK, BufferCounted, HoldsLock, FoundUnmarked, ListShape, Queued,
     InHand, UnsentMarked, WaitingCounted, Waiting, Flushing, vars, queueVars, flushVars, bounds
<1>2. CASE Next
  BY <1>2, WriteStep, AppendedStep, PushWQStep, MarkStep, CloseStep, BrokenStep, ReopenStep,
     FlushBeginStep, PopStep, FlushDoneStep, FlushLockStep, FlushStep DEF Next
<1> QED  BY <1>1, <1>2

\* What is linked waits.
LEMMA LinkedWaits ==
  ASSUME QueueInv, mWHead # None
  PROVE  mWHead \in Waiting /\ (next[mWHead] # None => next[mWHead] \in Waiting)
BY DEF QueueInv, TypeOK, ListShape, InHand, Waiting, Flushing

\* A socket that waits and is not linked makes mQn exceed the length of the list.
LEMMA LostIsCounted ==
  ASSUME QueueInv, NEW s \in Waiting
  PROVE  IsLinked(s) \/ Len(Linked) < mQn
<1>1. IsFiniteSet(Waiting) /\ mQn = Cardinality(Waiting)
  BY WaitingFinite DEF QueueInv, WaitingCounted
<1>2. ASSUME NEW S, S \subseteq Waiting PROVE Cardinality(S) <= mQn /\ Cardinality(S) \in Nat
  BY <1>1, <1>2, FS_Subset, FS_CardinalityType
<1>3. CASE mWHead = None
  <2>1. Linked = <<>> /\ Len(Linked) = 0
    BY <1>3, WhatIsLinked
  <2>2. Cardinality({s}) = 1
    BY FS_Singleton
  <2> QED  BY <1>1, <1>2, <2>1, <2>2, FS_CardinalityType
<1>4. CASE mWHead # None /\ next[mWHead] = None
  <2>1. Linked = <<mWHead>> /\ mWHead \in Waiting
    BY <1>4, WhatIsLinked, LinkedWaits
  <2>2. CASE s = mWHead
    <3>1. 1 \in DOMAIN Linked /\ Linked[1] = s
      BY <2>1, <2>2
    <3> QED  BY <3>1 DEF IsLinked
  <2>3. CASE s # mWHead
    <3>1. IsFiniteSet({mWHead}) /\ Cardinality({mWHead}) = 1
      BY FS_Singleton
    <3>2. Cardinality({mWHead} \cup {s}) = 2
      BY <2>3, <3>1, FS_AddElement
    <3>3. Len(Linked) = 1 /\ {mWHead} \cup {s} \subseteq Waiting
      BY <2>1
    <3> QED  BY <1>1, <1>2, <3>2, <3>3, FS_CardinalityType
  <2> QED  BY <2>2, <2>3
<1>5. CASE mWHead # None /\ next[mWHead] # None
  <2>1. /\ Linked = <<mWHead, next[mWHead]>> /\ next[mWHead] # mWHead
        /\ mWHead \in Waiting /\ next[mWHead] \in Waiting
    BY <1>5, WhatIsLinked, LinkedWaits DEF QueueInv, ListShape
  <2>2. CASE s \in {mWHead, next[mWHead]}
    <3>1. 1 \in DOMAIN Linked /\ 2 \in DOMAIN Linked /\ (Linked[1] = s \/ Linked[2] = s)
      BY <2>1, <2>2
    <3> QED  BY <3>1 DEF IsLinked
  <2>3. CASE s \notin {mWHead, next[mWHead]}
    <3>1. IsFiniteSet({mWHead}) /\ Cardinality({mWHead}) = 1
      BY FS_Singleton
    <3>2. /\ IsFiniteSet({mWHead} \cup {next[mWHead]})
          /\ Cardinality({mWHead} \cup {next[mWHead]}) = 2
      BY <2>1, <3>1, FS_AddElement
    <3>3. Cardinality(({mWHead} \cup {next[mWHead]}) \cup {s}) = 3
      BY <2>3, <3>2, FS_AddElement
    <3>4. Len(Linked) = 2
      BY <2>1
    <3>5. ({mWHead} \cup {next[mWHead]}) \cup {s} \subseteq Waiting
      BY <2>1
    <3> QED  BY <1>1, <1>2, <3>3, <3>4, <3>5, FS_CardinalityType
  <2> QED  BY <2>2, <2>3
<1> QED  BY <1>3, <1>4, <1>5

\* What a script has written to a socket in use is marked for _processFlush, as soon as
\* so_write has let go of the socket, and the socket is in the queue or in the flush,
\* unless _pushWQ has lost one: then mQn says more than the list has.
THEOREM WrittenIsQueued == Spec => []UnsentIsQueued
<1>1. QueueInv => UnsentIsQueued
  <2> SUFFICES ASSUME QueueInv, halted = "no", NEW s \in Slots,
                      wLock[s] = None, rw[s], mCur[s] > 0
               PROVE  mInq[s] /\ (Flushing(s) \/ IsLinked(s) \/ Len(Linked) < mQn)
    BY DEF UnsentIsQueued
  <2>1. mInq[s] /\ (Flushing(s) \/ s \in Waiting)
    BY DEF QueueInv, UnsentMarked, Queued, Waiting
  <2> QED  BY <2>1, LostIsCounted
<1> QED  BY <1>1, QueueInit, QueueStep, PTL DEF Spec

\* What _processFlush would find is marked, or about to be, and each socket stands there
\* once: none is ever linked in while it is linked in or being flushed.
THEOREM NoneLinkedTwice == Spec => []LinkedIsMarked
<1>1. QueueInv => LinkedIsMarked
  <2> SUFFICES ASSUME QueueInv PROVE LinkedIsMarked
    OBVIOUS
  <2>1. CASE mWHead = None
    <3>1. Linked = <<>>
      BY <2>1, WhatIsLinked
    <3> QED  BY <3>1 DEF LinkedIsMarked, QueueInv
  <2>2. CASE mWHead # None /\ next[mWHead] = None
    <3>1. Linked = <<mWHead>> /\ Queued(mWHead)
      BY <2>2, WhatIsLinked DEF QueueInv, ListShape
    <3> QED  BY <3>1 DEF LinkedIsMarked, QueueInv, Queued
  <2>3. CASE mWHead # None /\ next[mWHead] # None
    <3>1. /\ Linked = <<mWHead, next[mWHead]>> /\ mWHead # next[mWHead]
          /\ Queued(mWHead) /\ Queued(next[mWHead])
      BY <2>3, WhatIsLinked DEF QueueInv, ListShape
    <3> QED  BY <3>1 DEF LinkedIsMarked, QueueInv, Queued
  <2> QED  BY <2>1, <2>2, <2>3
<1> QED  BY <1>1, QueueInit, QueueStep, PTL DEF Spec

\* mQn covers the sockets that can be taken off, so _processFlush, which takes mQn of them
\* and decrements it each time, does not make it wrap around.
THEOREM CountCoversList == Spec => []QnCoversList
<1>1. QueueInv => QnCoversList
  <2> SUFFICES ASSUME QueueInv, halted = "no" PROVE Len(Linked) <= mQn
    BY DEF QnCoversList
  <2>0. /\ mQn \in Nat /\ (mWHead # None => mQn >= 1)
        /\ mWHead # None /\ next[mWHead] # None => mQn >= 2
    BY DEF QueueInv, TypeOK, ListShape
  <2>1. CASE mWHead = None
    BY <2>0, <2>1, WhatIsLinked
  <2>2. CASE mWHead # None /\ next[mWHead] = None
    BY <2>0, <2>2, WhatIsLinked
  <2>3. CASE mWHead # None /\ next[mWHead] # None
    BY <2>0, <2>3, WhatIsLinked
  <2> QED  BY <2>1, <2>2, <2>3
<1> QED  BY <1>1, QueueInit, QueueStep, PTL DEF Spec
==============================================================================
