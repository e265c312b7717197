---------------------------- MODULE GlobalSocket -----------------------------
(***************************************************************************)
(* The socket table of gs.c: worker threads listen, accept, add, read and  *)
(* close through the so_ functions, the socket thread turns epoll events   *)
(* into messages (gs_update).  The kernel's side of the sockets is modelled *)
(* from how gs.c uses it: descriptors are the lowest free number, epoll is *)
(* edge triggered and drops a descriptor that is closed.                   *)
(*                                                                         *)
(* A thread takes the locks it needs one by one (want) and then executes   *)
(* the step they protect (pc).  Nothing blocks between the unlocks at the  *)
(* end of a function, so they are one step.                                *)
(*                                                                         *)
(* WriteQueue.tla has the write path.  Of it only the flush is seen here,  *)
(* and only that it takes the W lock and may find the connection broken.   *)
(***************************************************************************)
EXTENDS Integers, Sequences, FiniteSets

CONSTANTS
  Workers,    \* threads that run Lua handlers
  Socket,     \* the thread that runs gs_update
  None,
  FirstFd,    \* first descriptor the process gets for a socket
  MaxFd,      \* last one: accept fails with EMFILE beyond it
  NSlots,     \* mSon - 1: slots 1 .. NSlots are handed out
  LateListen, \* so_listen may come or last beyond the first connection
  MaxListens, \* bound: calls of so_listen
  MaxConns,   \* bound: connections clients open
  MaxCalls,   \* bound: calls of so_add and so_close
  MaxTraffic  \* bound: what clients send, their leaving included

ASSUME SocketAssumption ==
  /\ Socket \notin Workers
  /\ None \notin Workers \cup {Socket} \cup Nat \cup [so : Nat, hup : BOOLEAN]
  /\ FirstFd \in Nat \ {0} /\ MaxFd \in Nat
  /\ NSlots \in Nat /\ NSlots >= MaxFd
  /\ LateListen \in BOOLEAN
  /\ {MaxListens, MaxConns, MaxCalls, MaxTraffic} \subseteq Nat

Threads == Workers \cup {Socket}
Slots == 1 .. NSlots
Fds == FirstFd .. MaxFd
Locks == {"S", "R", "W", "E"} \X Slots

VARIABLES
  mState,  \* so_t.mState
  mFd,     \* so_t.mFd, 0 where the slot is free
  lock,    \* mLock, mRLock, mWLock, mELock of every slot: holder
  want,    \* thread -> locks it takes next, in order
  pc,      \* thread -> what it does when it has them
  sid,     \* thread -> slot its call is about
  nfd,     \* thread -> descriptor not in the table yet
  nso,     \* thread -> slot so_accept tries to occupy
  batch,   \* events of mEvs that gs_update has not looked at
  evt,     \* the event gs_update looks at
  posted,  \* messages in the envs' queues: type and slot
  aborted, \* an assertion failed
  open,    \* kernel: open descriptors
  queue,   \* kernel: connections to accept, or reads that find data
  peer,    \* kernel: "up", "fin" after a shutdown, "rst" after an error
  reg,     \* kernel: the slot a descriptor is registered for with epoll
  edge,    \* kernel: descriptors epoll_wait has to report
  nListens,
  nConns,
  nCalls,
  nTraffic

table == <<mState, mFd>>
threadVars == <<lock, want, pc, sid, nfd, nso>>
eventVars == <<batch, evt, posted, aborted>>
epollVars == <<reg, edge>>
bounds == <<nListens, nConns, nCalls, nTraffic>>
vars == <<table, threadVars, eventVars, open, queue, peer, epollVars, bounds>>

Init ==
  /\ mState = [s \in Slots |-> "free"]
  /\ mFd = [s \in Slots |-> 0]
  /\ lock = [l \in Locks |-> None]
  /\ want = [t \in Threads |-> <<>>]
  /\ pc = [t \in Threads |-> IF t = Socket THEN "wait" ELSE "idle"]
  /\ sid = [t \in Threads |-> None]
  /\ nfd = [t \in Threads |-> None]
  /\ nso = [t \in Threads |-> None]
  /\ batch = {} /\ evt = None /\ posted = {} /\ aborted = FALSE
  /\ open = {}
  /\ queue = [fd \in Fds |-> 0]
  /\ peer = [fd \in Fds |-> "up"]
  /\ reg = [fd \in Fds |-> None]
  /\ edge = {}
  /\ nListens = 0 /\ nConns = 0 /\ nCalls = 0 /\ nTraffic = 0

-----------------------------------------------------------------------------
(* Locks and control.                                                      *)

\* All locks of a list but the last are taken by steps of their own ...
Acquire(t) ==
  /\ ~aborted
  /\ Len(want[t]) > 1
  /\ lock[Head(want[t])] = None
  /\ lock' = [lock EXCEPT ![Head(want[t])] = t]
  /\ want' = [want EXCEPT ![t] = Tail(@)]
  /\ UNCHANGED <<table, pc, sid, nfd, nso, eventVars, open, queue, peer, epollVars, bounds>>

\* ... and the last one together with the step that it protects: nobody can
\* tell the two apart.
At(t, label) ==
  /\ pc[t] = label
  /\ ~aborted
  /\ want[t] # <<>> => Len(want[t]) = 1 /\ lock[Head(want[t])] = None

\* The locks as t finds them in that step.
Locked(t) ==
  [l \in Locks |-> IF want[t] # <<>> /\ l = Head(want[t]) THEN t ELSE lock[l]]

Goto(t, label, locks) ==
  /\ pc' = [pc EXCEPT ![t] = label]
  /\ want' = [want EXCEPT ![t] = locks]

\* A call that starts with a lock.  A thread that waits for it and holds no
\* other is as good as one that comes later, so it comes when the lock is free.
Enter(t, label, locks) ==
  /\ lock[Head(locks)] = None
  /\ lock' = [lock EXCEPT ![Head(locks)] = t]
  /\ Goto(t, label, Tail(locks))

Only(k, s) == <<<<k, s>>>>
SE(s) == <<<<"S", s>>, <<"E", s>>>>
RWE(s) == <<<<"R", s>>, <<"W", s>>, <<"E", s>>>>
SRWE(s) == <<<<"S", s>>, <<"R", s>>, <<"W", s>>, <<"E", s>>>>

Keep(t) == lock' = Locked(t)
Unlock(t, l) == lock' = [Locked(t) EXCEPT ![l] = None]
UnlockAll(t) == lock' = [l \in Locks |-> IF lock[l] = t THEN None ELSE lock[l]]

\* The function returns and so does the Lua handler, or the flush of a socket.
Return(t) ==
  /\ UnlockAll(t)
  /\ sid' = [sid EXCEPT ![t] = None]
  /\ Goto(t, IF t = Socket THEN "flush" ELSE "idle", <<>>)

\* Kernel: a new descriptor.
Lowest(S) == CHOOSE x \in S : \A y \in S : x <= y
Unused == Fds \ open
OpenFd(fd) ==
  /\ open' = open \cup {fd}
  /\ peer' = [peer EXCEPT ![fd] = "up"]

-----------------------------------------------------------------------------
(* epoll and the end of a socket.                                          *)

Ready(fd) == queue[fd] > 0 \/ peer[fd] # "up"

\* _evAdd: a descriptor that is ready already is reported, too.
EvAdd(s, fd) ==
  /\ reg' = [reg EXCEPT ![fd] = s]
  /\ edge' = IF Ready(fd) THEN edge \cup {fd} ELSE edge

\* _evDel; the descriptor of a free slot is 0, which epoll does not know.
EvDel(s) ==
  /\ reg' = [fd \in Fds |-> IF fd = mFd[s] THEN None ELSE reg[fd]]
  /\ edge' = edge \ {mFd[s]}

\* close, by which the kernel forgets everything about the descriptor.
CloseFd(fd) ==
  /\ open' = open \ {fd}
  /\ queue' = [queue EXCEPT ![fd] = 0]
  /\ peer' = [peer EXCEPT ![fd] = "up"]
  /\ reg' = [reg EXCEPT ![fd] = None]
  /\ edge' = edge \ {fd}

\* _soReserve: the slot is free again and its descriptor, if any, closed.
SoReserve(s, fd) ==
  /\ mFd' = [mFd EXCEPT ![s] = 0]
  /\ mState' = [mState EXCEPT ![s] = "free"]
  /\ \/ fd # 0 /\ CloseFd(fd)
     \/ fd = 0 /\ UNCHANGED <<open, queue, peer, epollVars>>

\* The error paths of so_read and so_accept: once per socket.
FailSocket(t) ==
  LET s == sid[t] IN
  /\ \/ /\ mState[s] # "errored"
        /\ EvDel(s)
        /\ mState' = [mState EXCEPT ![s] = "errored"]
     \/ /\ mState[s] = "errored"
        /\ UNCHANGED <<mState, epollVars>>
  /\ Return(t)
  /\ UNCHANGED <<mFd, nfd, nso, eventVars, open, queue, peer, bounds>>

-----------------------------------------------------------------------------
(* so_listen.                                                              *)

\* socket, bind and listen succeed; the slot is the one numbered like the
\* descriptor, whether it is free or not.
CallListen(t) ==
  LET fd == Lowest(Unused) IN
  /\ At(t, "idle")
  /\ nListens < MaxListens
  /\ LateListen \/ nConns = 0
  /\ nListens' = nListens + 1
  /\ Unused # {}
  /\ OpenFd(fd)
  /\ nfd' = [nfd EXCEPT ![t] = fd]
  /\ sid' = [sid EXCEPT ![t] = fd]
  /\ Goto(t, "listen", SRWE(fd))
  /\ UNCHANGED <<table, lock, nso, eventVars, queue, epollVars, nConns, nCalls, nTraffic>>

Listen(t) ==
  LET fd == nfd[t]
      s == sid[t]
  IN
  /\ At(t, "listen")
  /\ \/ /\ EvAdd(s, fd)
        /\ mFd' = [mFd EXCEPT ![s] = fd]
        /\ mState' = [mState EXCEPT ![s] = "listening"]
        /\ UNCHANGED <<open, queue, peer>>
     \/ SoReserve(s, fd)
  /\ nfd' = [nfd EXCEPT ![t] = None]
  /\ Return(t)
  /\ UNCHANGED <<nso, eventVars, bounds>>

-----------------------------------------------------------------------------
(* so_accept, called by c_onAcceptable until it returns 0 or an error.     *)

CallAccept(t, s) ==
  /\ At(t, "idle")
  /\ <<"acceptable", s>> \in posted
  /\ posted' = posted \ {<<"acceptable", s>>}
  /\ sid' = [sid EXCEPT ![t] = s]
  /\ Enter(t, "accept", Only("S", s))
  /\ UNCHANGED <<table, nfd, nso, batch, evt, aborted, open, queue, peer,
                 epollVars, bounds>>

\* Not listening any more, nothing to accept (EAGAIN) or no descriptor left
\* (EMFILE): the handler is done.
AcceptNone(t) ==
  /\ At(t, "accept")
  /\ \/ mState[sid[t]] # "listening"
     \/ mState[sid[t]] = "listening" /\ queue[mFd[sid[t]]] = 0
     \/ Unused = {}
  /\ Return(t)
  /\ UNCHANGED <<table, nfd, nso, eventVars, open, queue, peer, epollVars, bounds>>

\* accept may fail for other reasons (ECONNABORTED, say).
AcceptFails(t) ==
  /\ At(t, "accept")
  /\ mState[sid[t]] = "listening"
  /\ Goto(t, "accept_error", Only("E", sid[t]))
  /\ Keep(t)
  /\ UNCHANGED <<table, sid, nfd, nso, eventVars, open, queue, peer, epollVars, bounds>>

AcceptError(t) == At(t, "accept_error") /\ FailSocket(t)

\* _occupySoAndLock looks for a slot whose mFd is 0 without any lock.  If it
\* finds none it returns the last slot as if it had occupied it: without the
\* lock, and with nothing in mFd.
FreeFrom(i) == {s \in Slots : s >= i /\ mFd[s] = 0}

Scan(t, i, locks) ==
  LET found == FreeFrom(i) # {}
      s == IF found THEN Lowest(FreeFrom(i)) ELSE NSlots
  IN
  /\ nso' = [nso EXCEPT ![t] = s]
  /\ IF found THEN Goto(t, "occupy", Only("S", s)) ELSE Goto(t, "establish", RWE(s))
  /\ lock' = IF found THEN locks ELSE [locks EXCEPT ![<<"S", sid[t]>>] = None]

Accepted(t) ==
  LET fd == Lowest(Unused) IN
  /\ At(t, "accept")
  /\ mState[sid[t]] = "listening"
  /\ queue[mFd[sid[t]]] > 0
  /\ Unused # {}
  /\ OpenFd(fd)
  /\ queue' = [queue EXCEPT ![mFd[sid[t]]] = @ - 1]
  /\ nfd' = [nfd EXCEPT ![t] = fd]
  /\ Scan(t, 1, Locked(t))
  /\ UNCHANGED <<table, sid, eventVars, epollVars, bounds>>

\* Mutant: mFd is not looked at again once the lock is held.
OccupyBlindly(t) ==
  /\ At(t, "occupy")
  /\ mFd' = [mFd EXCEPT ![nso[t]] = nfd[t]]
  /\ nfd' = [nfd EXCEPT ![t] = None]
  /\ Unlock(t, <<"S", sid[t]>>)
  /\ Goto(t, "establish", RWE(nso[t]))
  /\ UNCHANGED <<mState, sid, nso, eventVars, open, queue, peer, epollVars, bounds>>

\* It looks again with the lock of the slot, which may be taken by then.
Occupy(t) ==
  LET i == nso[t] IN
  /\ At(t, "occupy")
  /\ \/ /\ mFd[i] = 0
        /\ mFd' = [mFd EXCEPT ![i] = nfd[t]]
        /\ nfd' = [nfd EXCEPT ![t] = None]
        /\ Unlock(t, <<"S", sid[t]>>)
        /\ Goto(t, "establish", RWE(i))
        /\ UNCHANGED nso
     \/ /\ mFd[i] # 0
        /\ Scan(t, i + 1, [Locked(t) EXCEPT ![<<"S", i>>] = None])
        /\ UNCHANGED <<mFd, nfd>>
  /\ UNCHANGED <<mState, sid, eventVars, open, queue, peer, epollVars, bounds>>

\* Mutant: the handler accepts one connection per message.
EstablishOnce(t) ==
  /\ At(t, "establish")
  /\ mState' = [mState EXCEPT ![nso[t]] = "established"]
  /\ nso' = [nso EXCEPT ![t] = None]
  /\ Return(t)
  /\ UNCHANGED <<mFd, nfd, eventVars, open, queue, peer, epollVars, bounds>>

\* The new slot is established and its lock given back, whoever has it;
\* c_onAcceptable accepts the next one.
Establish(t) ==
  /\ At(t, "establish")
  /\ mState' = [mState EXCEPT ![nso[t]] = "established"]
  /\ nso' = [nso EXCEPT ![t] = None]
  /\ nfd' = [nfd EXCEPT ![t] = None]
  /\ lock' = [l \in Locks |-> IF lock[l] = t \/ l = <<"S", nso[t]>> THEN None ELSE lock[l]]
  /\ Goto(t, "accept", Only("S", sid[t]))
  /\ UNCHANGED <<mFd, sid, eventVars, open, queue, peer, epollVars, bounds>>

-----------------------------------------------------------------------------
(* so_add, so_close, so_read.                                              *)

\* The Lua code may call so_add and so_close with any number.  A call for a
\* slot nobody uses returns at once, or is like one that is made later.
Call(t, s, label, locks) ==
  /\ At(t, "idle")
  /\ mFd[s] # 0 \/ mState[s] # "free"
  /\ nCalls < MaxCalls
  /\ nCalls' = nCalls + 1
  /\ sid' = [sid EXCEPT ![t] = s]
  /\ Enter(t, label, locks)
  /\ UNCHANGED <<table, nfd, nso, eventVars, open, queue, peer, epollVars,
                 nListens, nConns, nTraffic>>

CallAdd(t, s) == Call(t, s, "add", SE(s))
CallClose(t, s) == Call(t, s, "close", SRWE(s))

Add(t) ==
  LET s == sid[t] IN
  /\ At(t, "add")
  /\ \/ /\ mState[s] = "established"
        /\ EvAdd(s, mFd[s])
        /\ mState' = [mState EXCEPT ![s] = "rw"]
     \/ /\ mState[s] = "established"
        /\ mState' = [mState EXCEPT ![s] = "errored"]
        /\ UNCHANGED epollVars
     \/ /\ mState[s] # "established"
        /\ UNCHANGED <<mState, epollVars>>
  /\ Return(t)
  /\ UNCHANGED <<mFd, nfd, nso, eventVars, open, queue, peer, bounds>>

\* Mutant: the slot is reset but the descriptor stays open.
CloseKeepsFd(t) ==
  LET s == sid[t] IN
  /\ At(t, "close")
  /\ mFd' = [mFd EXCEPT ![s] = 0]
  /\ mState' = [mState EXCEPT ![s] = "free"]
  /\ Return(t)
  /\ UNCHANGED <<nfd, nso, eventVars, open, queue, peer, epollVars, bounds>>

Close(t) ==
  LET s == sid[t] IN
  /\ At(t, "close")
  /\ \/ /\ mState[s] = "free"
        /\ UNCHANGED <<table, open, queue, peer, epollVars>>
     \/ mState[s] # "free" /\ SoReserve(s, mFd[s])
  /\ Return(t)
  /\ UNCHANGED <<nfd, nso, eventVars, bounds>>

\* c_onReadable calls so_read.
CallRead(t, s) ==
  /\ At(t, "idle")
  /\ <<"readable", s>> \in posted
  /\ posted' = posted \ {<<"readable", s>>}
  /\ sid' = [sid EXCEPT ![t] = s]
  /\ Enter(t, "read_check", Only("R", s))
  /\ UNCHANGED <<table, nfd, nso, batch, evt, aborted, open, queue, peer,
                 epollVars, bounds>>

ReadCheck(t) ==
  /\ At(t, "read_check")
  /\ \/ mState[sid[t]] # "rw" /\ Return(t)
     \/ mState[sid[t]] = "rw" /\ Goto(t, "reading", <<>>) /\ Keep(t) /\ UNCHANGED sid
  /\ UNCHANGED <<table, nfd, nso, eventVars, open, queue, peer, epollVars, bounds>>

\* Reads until EAGAIN, end of file or an error.
ReadData(t) ==
  /\ At(t, "reading")
  /\ queue[mFd[sid[t]]] > 0
  /\ queue' = [queue EXCEPT ![mFd[sid[t]]] = @ - 1]
  /\ UNCHANGED <<table, threadVars, eventVars, open, peer, epollVars, bounds>>

ReadStops(t) ==
  LET fd == mFd[sid[t]] IN
  /\ At(t, "reading")
  /\ queue[fd] = 0
  /\ \/ peer[fd] = "up" /\ Return(t)
     \/ /\ peer[fd] # "up"
        /\ Goto(t, "read_fail", Only("E", sid[t]))
        /\ Keep(t)
        /\ UNCHANGED sid
  /\ UNCHANGED <<table, nfd, nso, eventVars, open, queue, peer, epollVars, bounds>>

ReadFail(t) == At(t, "read_fail") /\ FailSocket(t)

-----------------------------------------------------------------------------
(* gs_update.                                                              *)

\* epoll_wait; it may also time out with no event.
EpollWait ==
  /\ At(Socket, "wait")
  /\ batch' = {[so |-> reg[fd], hup |-> peer[fd] = "rst"] : fd \in {f \in edge : Ready(f)}}
  /\ edge' = {}
  /\ Goto(Socket, "events", <<>>)
  /\ UNCHANGED <<table, lock, sid, nfd, nso, evt, posted, aborted, open, queue, peer, reg,
                 bounds>>

\* Mutant: the locks are taken in the other order.
NextEventReversed ==
  \E ev \in batch :
    /\ At(Socket, "events")
    /\ batch' = batch \ {ev}
    /\ evt' = ev
    /\ Enter(Socket, "dispatch", <<<<"E", ev.so>>, <<"S", ev.so>>>>)
    /\ UNCHANGED <<table, sid, nfd, nso, posted, aborted, open, queue, peer,
                   epollVars, bounds>>

NextEvent ==
  \E ev \in batch :
    /\ At(Socket, "events")
    /\ batch' = batch \ {ev}
    /\ evt' = ev
    /\ Enter(Socket, "dispatch", SE(ev.so))
    /\ UNCHANGED <<table, sid, nfd, nso, posted, aborted, open, queue, peer,
                   epollVars, bounds>>

\* _notifyEv, for the env of the slot.
NotifyEv(type, s) == posted' = posted \cup {<<type, s>>}

\* What the state of the slot says now decides; it may have changed since
\* epoll_wait.  An MTYPE_SOCKET_ERROR has no handler in env_process_msg and is
\* left out.
Dispatch ==
  LET s == evt.so IN
  /\ At(Socket, "dispatch")
  /\ \/ /\ mState[s] = "errored"
        /\ UNCHANGED <<mState, posted, aborted, epollVars>>
     \/ /\ mState[s] # "errored" /\ evt.hup
        /\ IF mState[s] # "established" THEN EvDel(s) ELSE UNCHANGED epollVars
        /\ mState' = [mState EXCEPT ![s] = "errored"]
        /\ UNCHANGED <<posted, aborted>>
     \/ /\ ~evt.hup /\ mState[s] = "listening"
        /\ NotifyEv("acceptable", s)
        /\ UNCHANGED <<mState, aborted, epollVars>>
     \/ /\ ~evt.hup /\ mState[s] = "rw"
        /\ NotifyEv("readable", s)
        /\ UNCHANGED <<mState, aborted, epollVars>>
     \/ /\ ~evt.hup /\ mState[s] \in {"free", "established"}
        /\ aborted' = TRUE
        /\ UNCHANGED <<mState, posted, epollVars>>
  /\ evt' = None
  /\ UnlockAll(Socket)
  /\ Goto(Socket, "events", <<>>)
  /\ UNCHANGED <<mFd, sid, nfd, nso, batch, open, queue, peer, bounds>>

EventsDone ==
  /\ At(Socket, "events")
  /\ batch = {}
  /\ Goto(Socket, "flush", <<>>)
  /\ UNCHANGED <<table, lock, sid, nfd, nso, eventVars, open, queue, peer, epollVars, bounds>>

\* _processFlush; what is not rw any more is skipped.
CallFlush(s) ==
  /\ At(Socket, "flush")
  /\ mState[s] = "rw"
  /\ sid' = [sid EXCEPT ![Socket] = s]
  /\ Enter(Socket, "flushing", Only("W", s))
  /\ UNCHANGED <<table, nfd, nso, eventVars, open, queue, peer, epollVars, bounds>>

\* _flush writes all, or has nothing to do, or write fails.
Flush ==
  /\ At(Socket, "flushing")
  /\ \/ Return(Socket)
     \/ /\ mState[sid[Socket]] = "rw"
        /\ Goto(Socket, "flush_error", Only("E", sid[Socket]))
        /\ Keep(Socket)
        /\ UNCHANGED sid
  /\ UNCHANGED <<table, nfd, nso, eventVars, open, queue, peer, epollVars, bounds>>

FlushError ==
  /\ At(Socket, "flush_error")
  /\ mState' = [mState EXCEPT ![sid[Socket]] = "errored"]
  /\ Return(Socket)
  /\ UNCHANGED <<mFd, nfd, nso, eventVars, open, queue, peer, epollVars, bounds>>

FlushDone ==
  /\ At(Socket, "flush")
  /\ Goto(Socket, "wait", <<>>)
  /\ UNCHANGED <<table, lock, sid, nfd, nso, eventVars, open, queue, peer, epollVars, bounds>>

-----------------------------------------------------------------------------
(* The other ends of the connections.                                      *)

Edge(fd) == edge' = IF reg[fd] = None THEN edge ELSE edge \cup {fd}

Listeners == {mFd[s] : s \in {s \in Slots : mState[s] = "listening"}}

ClientConnects(fd) ==
  /\ fd \in open \cap Listeners
  /\ LateListen \/ \A t \in Workers : pc[t] # "listen"
  /\ nConns < MaxConns
  /\ nConns' = nConns + 1
  /\ queue' = [queue EXCEPT ![fd] = @ + 1]
  /\ Edge(fd)
  /\ UNCHANGED <<table, threadVars, eventVars, open, peer, reg, nListens, nCalls,
                 nTraffic>>

Connected == {mFd[s] : s \in {s \in Slots : mState[s] \in {"established", "rw"}}}

ClientSends(fd) ==
  /\ fd \in open \cap Connected
  /\ peer[fd] = "up"
  /\ nTraffic < MaxTraffic
  /\ nTraffic' = nTraffic + 1
  /\ queue' = [queue EXCEPT ![fd] = @ + 1]
  /\ Edge(fd)
  /\ UNCHANGED <<table, threadVars, eventVars, open, peer, reg, nListens, nConns, nCalls>>

ClientLeaves(fd, how) ==
  /\ fd \in open \cap Connected
  /\ peer[fd] = "up"
  /\ nTraffic < MaxTraffic
  /\ nTraffic' = nTraffic + 1
  /\ peer' = [peer EXCEPT ![fd] = how]
  /\ Edge(fd)
  /\ UNCHANGED <<table, threadVars, eventVars, open, queue, reg, nListens, nConns, nCalls>>

-----------------------------------------------------------------------------
WorkerStep(t) ==
  \/ CallListen(t) \/ Listen(t)
  \/ \E s \in Slots : CallAccept(t, s) \/ CallAdd(t, s) \/ CallClose(t, s) \/ CallRead(t, s)
  \/ AcceptNone(t) \/ AcceptFails(t) \/ AcceptError(t)
  \/ Accepted(t) \/ Occupy(t) \/ Establish(t)
  \/ Add(t) \/ Close(t)
  \/ ReadCheck(t) \/ ReadData(t) \/ ReadStops(t) \/ ReadFail(t)

SocketStep ==
  \/ EpollWait \/ NextEvent \/ Dispatch \/ EventsDone
  \/ \E s \in Slots : CallFlush(s)
  \/ Flush \/ FlushError \/ FlushDone

Client ==
  \E fd \in Fds :
    \/ ClientConnects(fd) \/ ClientSends(fd)
    \/ \E how \in {"fin", "rst"} : ClientLeaves(fd, how)

Next ==
  \/ \E t \in Threads : Acquire(t)
  \/ \E t \in Workers : WorkerStep(t)
  \/ SocketStep
  \/ ~aborted /\ Client

Spec == Init /\ [][Next]_vars

-----------------------------------------------------------------------------
TypeOK ==
  /\ mState \in [Slots -> {"free", "errored", "listening", "established", "rw"}]
  /\ mFd \in [Slots -> Fds \cup {0}]
  /\ lock \in [Locks -> Threads \cup {None}]
  /\ want \in [Threads -> Seq(Locks)]
  /\ sid \in [Threads -> Slots \cup {None}]
  /\ nfd \in [Threads -> Fds \cup {None}]
  /\ nso \in [Threads -> Slots \cup {None}]
  /\ batch \subseteq [so : Slots, hup : BOOLEAN]
  /\ evt \in [so : Slots, hup : BOOLEAN] \cup {None}
  /\ posted \subseteq {"acceptable", "readable"} \X Slots
  /\ aborted \in BOOLEAN
  /\ open \subseteq Fds
  /\ queue \in [Fds -> Nat]
  /\ peer \in [Fds -> {"up", "fin", "rst"}]
  /\ reg \in [Fds -> Slots \cup {None}]
  /\ edge \subseteq open
  /\ nListens \in 0 .. MaxListens
  /\ nConns \in 0 .. MaxConns
  /\ nCalls \in 0 .. MaxCalls
  /\ nTraffic \in 0 .. MaxTraffic

\* The four locks of two slots, taken in whatever order the so_ functions and
\* gs_update come, never close a circle: no set of threads waits for locks
\* that its own members hold.  A thread waiting for a lock it holds is one.
NoLockCycle ==
  \A D \in (SUBSET Threads) \ {{}} :
    \E t \in D : want[t] = <<>> \/ lock[Head(want[t])] \notin D

\* Two so_accept that race for a slot, a so_close in between, an error on the
\* way: beside TypeOK, every open descriptor is in exactly one slot or in the hands of the one
\* thread that is about to put it there, and a slot never keeps a closed one.
EveryFdHasAHome ==
  /\ TypeOK
  /\ \A fd \in open :
       Cardinality({s \in Slots : mFd[s] = fd} \cup {t \in Threads : nfd[t] = fd}) = 1
  /\ \A s \in Slots : mFd[s] # 0 => mFd[s] \in open

\* What epoll watches is a socket that gs_update can handle: the registration
\* names the slot that has the descriptor, and neither a free slot nor one that
\* was not added yet is watched (gs.c asserts it at line 563).
WatchedIsLive ==
  \A fd \in Fds : reg[fd] # None =>
    /\ mFd[reg[fd]] = fd
    /\ mState[reg[fd]] \in {"listening", "rw", "errored"}

\* Edge triggered epoll tells of new data once.  A connection to accept, data
\* or an end of file on a socket that is served always has an event, a message
\* or a handler on its way that will find it.
Notified(s, type, labels) ==
  \/ mFd[s] \in edge
  \/ \E ev \in batch : ev.so = s
  \/ evt # None /\ evt.so = s
  \/ <<type, s>> \in posted
  \/ \E t \in Workers : sid[t] = s /\ pc[t] \in labels

NothingUnnoticed ==
  \A s \in Slots :
    /\ mState[s] = "listening" /\ queue[mFd[s]] > 0 =>
         Notified(s, "acceptable", {"accept", "accept_error", "occupy", "establish"})
    /\ mState[s] = "rw" /\ Ready(mFd[s]) =>
         Notified(s, "readable", {"read_check", "reading", "read_fail"})

\* assert(0) of gs_update (line 563): no event is for a free slot or for one
\* that was not added.
EventFindsLiveSocket == ~aborted
==============================================================================
