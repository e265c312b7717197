----------------------------- MODULE EnvSockets ------------------------------
(***************************************************************************)
(* Sockets as the scripts have them: the functions of lualib/env.lua, the  *)
(* table mSockets of each env, the messages about sockets in the queues of *)
(* the envs, and gs.c with the env a socket belongs to (mEnv).             *)
(*                                                                         *)
(* A function of gs.c is one step, since it keeps a lock of its slot all   *)
(* the time (GlobalSocket.tla has the locks, the descriptors and EMFILE,   *)
(* WriteQueue.tla so_write); an env runs one handler at a time and its     *)
(* messages are handled in order (Mailbox.tla).  Between the calls a       *)
(* script makes anything may happen elsewhere, and a script may use every  *)
(* sid it was ever given, whatever has become of the socket.               *)
(***************************************************************************)
EXTENDS Integers, Sequences, FiniteSets

CONSTANTS
  Envs,
  Acceptor,  \* the env that listens when the threads start
  NSlots,    \* sockets at a time
  MaxConns,  \* bound: connections clients open
  MaxCalls,  \* bound: calls of scripts
  MaxTraffic \* bound: what clients send, their leaving included

ASSUME SocketsAssumption ==
  /\ Acceptor \in Envs /\ NSlots \in Nat \ {0}
  /\ {MaxConns, MaxCalls, MaxTraffic} \subseteq Nat

Slots == 1 .. NSlots
NoSlot == 0
NoEnv == "no env"

VARIABLES
  mState, mEnv,  \* so_t
  mFd,           \* the slots whose mFd is not 0
  edge,          \* kernel: sockets that epoll_wait has to report
  batch,         \* mEvs: those it has reported and gs_update has not looked at
  queue,         \* kernel: connections to accept, or reads that find data
  peer,          \* kernel: the other end is up, has left (fin) or was lost (rst)
  mSockets,      \* env -> sid -> kind of its callback
  known,         \* env -> sids its script was given
  mailbox,       \* env -> messages
  pc, sid, nid,  \* env -> where its handler is; the locals of c_onAcceptable
  failed,        \* the assertion that failed, or "none"
  used,          \* slot -> how many sockets it has had (not in the code)
  nConns, nCalls, nTraffic

soVars == <<mState, mEnv, mFd, used>>
kernelVars == <<edge, queue, peer>>
luaVars == <<mSockets, known, pc, sid, nid>>
bounds == <<nConns, nCalls, nTraffic>>
vars == <<soVars, kernelVars, batch, luaVars, mailbox, failed, bounds>>

\* The boot script of the acceptor has called socketListen.
Init ==
  /\ mState = [s \in Slots |-> IF s = 1 THEN "listening" ELSE "free"]
  /\ mEnv = [s \in Slots |-> IF s = 1 THEN Acceptor ELSE NoEnv]
  /\ mFd = {1}
  /\ used = [s \in Slots |-> IF s = 1 THEN 1 ELSE 0]
  /\ edge = {} /\ batch = {}
  /\ queue = [s \in Slots |-> 0] /\ peer = [s \in Slots |-> "up"]
  /\ mSockets = [e \in Envs |-> [s \in Slots |-> IF e = Acceptor /\ s = 1 THEN "accept" ELSE "nil"]]
  /\ known = [e \in Envs |-> IF e = Acceptor THEN {1} ELSE {}]
  /\ mailbox = [e \in Envs |-> <<>>]
  /\ pc = [e \in Envs |-> "idle"]
  /\ sid = [e \in Envs |-> NoSlot] /\ nid = [e \in Envs |-> NoSlot]
  /\ failed = "none"
  /\ nConns = 0 /\ nCalls = 0 /\ nTraffic = 0

Ready(s) == queue[s] > 0 \/ peer[s] # "up"
Free == Slots \ mFd

At(e, where) == failed = "none" /\ pc[e] = where
Goto(e, where) == pc' = [pc EXCEPT ![e] = where]

-----------------------------------------------------------------------------
(* What gs.c does to a slot.                                               *)

\* so_close and what close makes the kernel forget.
SoClose(s) ==
  /\ mState' = [mState EXCEPT ![s] = "free"]
  /\ mEnv' = [mEnv EXCEPT ![s] = NoEnv]
  /\ queue' = [queue EXCEPT ![s] = 0]
  /\ peer' = [peer EXCEPT ![s] = "up"]
  /\ edge' = edge \ {s}
  /\ mFd' = mFd \ {s}
  /\ UNCHANGED used

\* Mutant: read is called once per event.
SoReadOnce(s) ==
  \/ /\ mState[s] = "rw"
     /\ queue' = [queue EXCEPT ![s] = IF @ > 0 THEN @ - 1 ELSE 0]
     /\ mState' = IF queue[s] > 0 \/ peer[s] = "up" THEN mState ELSE [mState EXCEPT ![s] = "errored"]
     /\ edge' = IF queue[s] > 0 \/ peer[s] = "up" THEN edge ELSE edge \ {s}
     /\ UNCHANGED <<mEnv, mFd, used, peer>>
  \/ /\ mState[s] # "rw"
     /\ UNCHANGED <<soVars, kernelVars>>

\* so_read: all there is; then maybe the end of the connection.
SoRead(s) ==
  \/ /\ mState[s] = "rw"
     /\ queue' = [queue EXCEPT ![s] = 0]
     /\ mState' = IF peer[s] = "up" THEN mState ELSE [mState EXCEPT ![s] = "errored"]
     /\ edge' = IF peer[s] = "up" THEN edge ELSE edge \ {s}
     /\ UNCHANGED <<mEnv, mFd, used, peer>>
  \/ /\ mState[s] # "rw"
     /\ UNCHANGED <<soVars, kernelVars>>

-----------------------------------------------------------------------------
(* The handlers that env_process_msg calls.                                *)

Receive(e, type) ==
  /\ At(e, "idle")
  /\ mailbox[e] # <<>> /\ Head(mailbox[e]).type = type
  /\ mailbox' = [mailbox EXCEPT ![e] = Tail(@)]

\* Another env has sent a sid (addClient of the demo).
OnPosed(e) ==
  /\ Receive(e, "posed")
  /\ known' = [known EXCEPT ![e] = @ \cup {Head(mailbox[e]).sid}]
  /\ Goto(e, "script")
  /\ UNCHANGED <<soVars, kernelVars, batch, mSockets, sid, nid, failed, bounds>>

\* Without a callback pcall(acb, nid) would fail and every connection be closed.
OnAcceptable(e) ==
  LET s == Head(mailbox[e]).sid IN
  /\ Receive(e, "acceptable")
  /\ sid' = [sid EXCEPT ![e] = s]
  /\ Goto(e, "accept")
  /\ failed' = IF mSockets[e][s] = "nil" THEN "acb" ELSE failed
  /\ UNCHANGED <<soVars, kernelVars, batch, mSockets, known, nid, bounds>>

Done(e) ==
  /\ sid' = [sid EXCEPT ![e] = NoSlot] /\ nid' = [nid EXCEPT ![e] = NoSlot]
  /\ Goto(e, "idle")

\* socketAcceptRaw finds no connection, or no listener and the handler is given up.
AcceptEnds(e) ==
  /\ At(e, "accept")
  /\ mState[sid[e]] = "listening" => queue[sid[e]] = 0
  /\ Done(e)
  /\ UNCHANGED <<soVars, kernelVars, batch, mSockets, known, mailbox, failed, bounds>>

\* accept fails: so does the handler, and the listener is given up.
AcceptFails(e) ==
  /\ At(e, "accept")
  /\ mState[sid[e]] = "listening" /\ queue[sid[e]] > 0
  /\ mState' = [mState EXCEPT ![sid[e]] = "errored"]
  /\ edge' = edge \ {sid[e]}
  /\ Done(e)
  /\ UNCHANGED <<mEnv, mFd, used, queue, peer, batch, mSockets, known, mailbox, failed, bounds>>

\* A connection gets the lowest free slot and the callback runs with it.
Accept(e) ==
  LET s == sid[e]
      n == CHOOSE i \in Free : \A j \in Free : i <= j
  IN  /\ At(e, "accept")
      /\ mState[s] = "listening" /\ queue[s] > 0 /\ Free # {}
      /\ queue' = [queue EXCEPT ![s] = @ - 1]
      /\ mState' = [mState EXCEPT ![n] = "established"]
      /\ mEnv' = [mEnv EXCEPT ![n] = e]
      /\ mFd' = mFd \cup {n}
      /\ used' = [used EXCEPT ![n] = @ + 1]
      /\ nid' = [nid EXCEPT ![e] = n]
      /\ known' = [known EXCEPT ![e] = @ \cup {n}]
      /\ Goto(e, "script")
      /\ UNCHANGED <<edge, peer, batch, mSockets, sid, mailbox, failed, bounds>>

\* The accept callback raised an error: the connection is closed, even if it has been
\* handed on.
AcceptError(e) ==
  /\ At(e, "script") /\ sid[e] # NoSlot
  /\ SoClose(nid[e])
  /\ Goto(e, "accept")
  /\ UNCHANGED <<batch, mSockets, known, sid, nid, mailbox, failed, bounds>>

\* The read callback reads first; assert(readcb) comes before.
OnReadable(e) ==
  LET s == Head(mailbox[e]).sid IN
  /\ Receive(e, "readable")
  /\ IF mSockets[e][s] = "nil"
     THEN failed' = "readcb" /\ UNCHANGED <<soVars, kernelVars, pc>>
     ELSE SoRead(s) /\ Goto(e, "script") /\ UNCHANGED failed
  /\ UNCHANGED <<batch, mSockets, known, sid, nid, bounds>>

\* Mutant: c_onAcceptable accepts one connection per message.
ReturnAfterOne(e) ==
  /\ At(e, "script")
  /\ Done(e)
  /\ UNCHANGED <<soVars, kernelVars, batch, mSockets, known, mailbox, failed, bounds>>

\* The script is done, and with it the handler or one round of c_onAcceptable.
Return(e) ==
  /\ At(e, "script")
  /\ IF sid[e] = NoSlot THEN Done(e) ELSE Goto(e, "accept") /\ UNCHANGED <<sid, nid>>
  /\ UNCHANGED <<soVars, kernelVars, batch, mSockets, known, mailbox, failed, bounds>>

-----------------------------------------------------------------------------
(* What scripts call.                                                      *)

Call(e) ==
  /\ At(e, "script")
  /\ nCalls < MaxCalls
  /\ nCalls' = nCalls + 1
  /\ UNCHANGED <<batch, pc, sid, nid, nConns, nTraffic>>

\* The slot is the number of a new descriptor (for one in use see GlobalSocket.tla).  When
\* the assertion fails the socket listens, but the script does not get its sid.
SocketListen(e, s) ==
  /\ Call(e)
  /\ s \in Free
  /\ mFd' = mFd \cup {s}
  /\ mState' = [mState EXCEPT ![s] = "listening"]
  /\ mEnv' = [mEnv EXCEPT ![s] = e]
  /\ used' = [used EXCEPT ![s] = @ + 1]
  /\ \/ /\ mSockets[e][s] = "nil"
        /\ mSockets' = [mSockets EXCEPT ![e][s] = "accept"]
        /\ known' = [known EXCEPT ![e] = @ \cup {s}]
        /\ UNCHANGED failed
     \/ /\ mSockets[e][s] # "nil"
        /\ failed' = "listen"
        /\ UNCHANGED <<mSockets, known>>
  /\ UNCHANGED <<kernelVars, mailbox>>

\* Mutant: the socket stays with the env that accepted it.
AddKeepsOwner(e, s) ==
  /\ Call(e)
  /\ mState[s] = "established"
  /\ mState' = [mState EXCEPT ![s] = "rw"]
  /\ mSockets' = [mSockets EXCEPT ![e][s] = "read"]
  /\ edge' = IF Ready(s) THEN edge \cup {s} ELSE edge
  /\ UNCHANGED <<mEnv, mFd, used, queue, peer, known, mailbox, failed>>

\* socketAdd; its assertion is about mSockets[lid], where lid is nil, and always holds.
SocketAdd(e, s) ==
  /\ Call(e)
  /\ mState[s] = "established"
  /\ \/ /\ mState' = [mState EXCEPT ![s] = "rw"]
        /\ mEnv' = [mEnv EXCEPT ![s] = e]
        /\ mSockets' = [mSockets EXCEPT ![e][s] = "read"]
        /\ edge' = IF Ready(s) THEN edge \cup {s} ELSE edge
     \/ /\ mState' = [mState EXCEPT ![s] = "errored"]
        /\ UNCHANGED <<mEnv, mSockets, edge>>
  /\ UNCHANGED <<mFd, used, queue, peer, known, mailbox, failed>>

\* Mutant: the callback goes with the socket.
CloseForgets(e, s) ==
  /\ Call(e)
  /\ mState[s] # "free"
  /\ SoClose(s)
  /\ mSockets' = [mSockets EXCEPT ![e][s] = "nil"]
  /\ UNCHANGED <<known, mailbox, failed>>

\* socketCloseRaw; nothing removes the entry of mSockets.
SocketClose(e, s) ==
  /\ Call(e)
  /\ mState[s] # "free"
  /\ SoClose(s)
  /\ UNCHANGED <<mSockets, known, mailbox, failed>>

\* The sid is posted to an env.
PassOn(e, s, to) ==
  /\ Call(e)
  /\ mailbox' = [mailbox EXCEPT ![to] = Append(@, [type |-> "posed", sid |-> s, life |-> 0])]
  /\ UNCHANGED <<soVars, kernelVars, mSockets, known, failed>>

-----------------------------------------------------------------------------
(* gs_update, and the other ends of the connections.                       *)

EpollWait ==
  /\ failed = "none" /\ batch = {} /\ edge # {}
  /\ batch' = {[so |-> s, hup |-> peer[s] = "rst"] : s \in {i \in edge : Ready(i)}}
  /\ edge' = {}
  /\ UNCHANGED <<soVars, queue, peer, luaVars, mailbox, failed, bounds>>

\* _notifyEv: the message goes to the env the socket belongs to now.
NotifyEv(s, type) ==
  mailbox' = [mailbox EXCEPT ![mEnv[s]] = Append(@, [type |-> type, sid |-> s, life |-> used[s]])]

\* The slot may have been closed, or be another socket, since epoll_wait.  An error is
\* posted as well, but env_process_msg has no case for it.
Event(ev) ==
  LET s == ev.so IN
  /\ failed = "none"
  /\ batch' = batch \ {ev}
  /\ \/ mState[s] = "errored" /\ UNCHANGED <<mState, edge, mailbox, failed>>
     \/ /\ mState[s] # "errored" /\ ev.hup
        /\ mState' = [mState EXCEPT ![s] = "errored"]
        /\ edge' = edge \ {s}
        /\ UNCHANGED <<mailbox, failed>>
     \/ /\ mState[s] = "listening" /\ ~ev.hup
        /\ NotifyEv(s, "acceptable")
        /\ UNCHANGED <<mState, edge, failed>>
     \/ /\ mState[s] = "rw" /\ ~ev.hup
        /\ NotifyEv(s, "readable")
        /\ UNCHANGED <<mState, edge, failed>>
     \/ /\ mState[s] \in {"free", "established"} /\ ~ev.hup
        /\ failed' = "event"
        /\ UNCHANGED <<mState, edge, mailbox>>
  /\ UNCHANGED <<mEnv, mFd, used, queue, peer, luaVars, bounds>>

Edge(s) == edge' = IF mState[s] \in {"listening", "rw"} THEN edge \cup {s} ELSE edge

\* There is a slot for every connection, the table being large.
ClientConnects(s) ==
  /\ failed = "none" /\ mState[s] = "listening"
  /\ nConns < MaxConns /\ queue[s] < Cardinality(Free)
  /\ nConns' = nConns + 1
  /\ queue' = [queue EXCEPT ![s] = @ + 1]
  /\ Edge(s)
  /\ UNCHANGED <<soVars, peer, batch, luaVars, mailbox, failed, nCalls, nTraffic>>

Connected(s) == mState[s] \in {"established", "rw"} /\ peer[s] = "up"

\* What is sent takes two reads.
ClientSends(s) ==
  /\ failed = "none" /\ Connected(s)
  /\ nTraffic < MaxTraffic
  /\ nTraffic' = nTraffic + 1
  /\ queue' = [queue EXCEPT ![s] = @ + 2]
  /\ Edge(s)
  /\ UNCHANGED <<soVars, peer, batch, luaVars, mailbox, failed, nConns, nCalls>>

ClientLeaves(s, how) ==
  /\ failed = "none" /\ Connected(s)
  /\ nTraffic < MaxTraffic
  /\ nTraffic' = nTraffic + 1
  /\ peer' = [peer EXCEPT ![s] = how]
  /\ Edge(s)
  /\ UNCHANGED <<soVars, queue, batch, luaVars, mailbox, failed, nConns, nCalls>>

-----------------------------------------------------------------------------
Framework(e) ==
  OnPosed(e) \/ OnAcceptable(e) \/ AcceptEnds(e) \/ AcceptFails(e) \/ Accept(e) \/ OnReadable(e) \/ Return(e)

Script(e) ==
  \/ AcceptError(e)
  \/ \E s \in Slots : SocketListen(e, s)
  \/ \E s \in known[e] : \/ SocketAdd(e, s) \/ SocketClose(e, s)
                         \/ \E to \in Envs \ {e} : PassOn(e, s, to)

SocketThread == EpollWait \/ \E ev \in batch : Event(ev)

Client ==
  \E s \in Slots : \/ ClientConnects(s) \/ ClientSends(s)
                   \/ \E how \in {"fin", "rst"} : ClientLeaves(s, how)

Next == (\E e \in Envs : Framework(e) \/ Script(e)) \/ SocketThread \/ Client

Spec == Init /\ [][Next]_vars

\* Workers take the messages of every env (Dispatch.tla) and handlers end; tSocket calls
\* gs_update for ever.
FairSpec ==
  /\ Spec
  /\ \A e \in Envs : WF_vars(Framework(e) \/ AcceptError(e))
  /\ WF_vars(SocketThread)

-----------------------------------------------------------------------------
TypeOK ==
  /\ mState \in [Slots -> {"free", "errored", "listening", "established", "rw"}]
  /\ mEnv \in [Slots -> Envs \cup {NoEnv}]
  /\ mFd \subseteq Slots
  /\ edge \subseteq mFd /\ batch \subseteq [so : Slots, hup : BOOLEAN]
  /\ queue \in [Slots -> Nat] /\ peer \in [Slots -> {"up", "fin", "rst"}]
  /\ mSockets \in [Envs -> [Slots -> {"nil", "accept", "read"}]]
  /\ known \in [Envs -> SUBSET Slots]
  /\ mailbox \in [Envs -> Seq([type : {"posed", "acceptable", "readable"}, sid : Slots, life : Nat])]
  /\ pc \in [Envs -> {"idle", "accept", "script"}]
  /\ sid \in [Envs -> Slots \cup {NoSlot}] /\ nid \in [Envs -> Slots \cup {NoSlot}]
  /\ failed \in {"none", "listen", "acb", "readcb", "event"}
  /\ used \in [Slots -> Nat]
  /\ nConns \in 0 .. MaxConns /\ nCalls \in 0 .. MaxCalls /\ nTraffic \in 0 .. MaxTraffic

\* Every message about a socket finds a callback in the env it was sent to
\* (assert(readcb), env.lua:114), however late it comes and whoever has closed the
\* socket or taken its slot meanwhile.
CallbackFound == failed \notin {"acb", "readcb"}

\* Beside TypeOK, a message about a socket that still exists is in the queue of the env that has it
\* (added it, or listens), and that is an env with a callback of the right kind.
ToItsOwner ==
  TypeOK /\ \A e \in Envs : \A k \in DOMAIN mailbox[e] :
    LET m == mailbox[e][k] IN
    m.type # "posed" /\ m.life = used[m.sid] /\ m.sid \in mFd =>
      /\ mEnv[m.sid] = e
      /\ mSockets[e][m.sid] = IF m.type = "acceptable" THEN "accept" ELSE "read"

\* What a client sends on a socket in use is read in the end, and what came before the
\* socket was added too, unless the socket fails or is closed: no edge, message or
\* handler between the kernel and the script is lost.
DataIsRead ==
  \A s \in Slots :
    (mState[s] = "rw" /\ queue[s] > 0) ~> (mState[s] # "rw" \/ queue[s] = 0 \/ failed # "none")

\* A connection is accepted in the end, unless the listener is closed.
ConnectionAccepted ==
  \A s \in Slots :
    (mState[s] = "listening" /\ queue[s] > 0) ~>
      (mState[s] # "listening" \/ queue[s] = 0 \/ failed # "none")
==============================================================================
