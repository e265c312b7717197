-------------------------------- MODULE Somgr --------------------------------
(***************************************************************************)
(* The connection manager of common/somgr: one thread calls somgr_runonce  *)
(* again and again, and somgr_listen, somgr_connect, somgr_write and       *)
(* somgr_kick between those calls or from the callbacks they make.         *)
(*                                                                         *)
(* Operators named after the C functions map a manager to a manager; steps *)
(* end where a callback is called or returns.  The linked lists of         *)
(* so_util.c are sequences, and so_t.curq is the sequence that has the     *)
(* socket.  Bytes are counted.                                             *)
(***************************************************************************)
EXTENDS Integers, Sequences, FiniteSets, SequencesExt

CONSTANTS
  MaxSosn,   \* bound: size of the table, 0x0fffffff in the code
  Chunk,     \* sbuf_expand rounds to it, 1024 in the code
  Lengths,   \* dlen of somgr_write
  MaxCalls   \* bound: calls of the interface

ASSUME SomgrAssumption ==
  /\ MaxSosn \in Nat /\ MaxSosn >= 2 /\ MaxCalls \in Nat
  /\ Chunk \in Nat \ {0} /\ Lengths \subseteq Nat \ {0}

Ids == 1 .. MaxSosn - 1

Flags == {"LISTEN", "WRITABLE", "CONNECTTING", "BAD", "FREE"}

VARIABLES
  mgr,     \* somgr_t: the sockets, the table size and the three queues
  pc,      \* where somgr_runonce stands, "out" between its calls
  call,    \* the callback being called, and the events left to its socket
  evs,     \* id -> what epoll_wait reported and is still to be handled
  crashed, \* the assertion that failed, or "no"
  nCalls

vars == <<mgr, pc, call, evs, crashed, nCalls>>

\* A socket in the pool; watch is what epoll reports of it.
Pooled == [state |-> {"FREE"}, watch |-> {}, cur |-> 0, cap |-> 0]

NoCall == [to |-> "none", id |-> 0, ev |-> {}]

NoEvents == [i \in Ids |-> {}]

NewMgr == [sos |-> [i \in Ids |-> Pooled], sosn |-> 0,
           freesos |-> <<>>, badsos |-> <<>>, writesos |-> <<>>]

Init ==
  /\ mgr = NewMgr
  /\ pc = "out" /\ call = NoCall /\ evs = NoEvents
  /\ crashed = "no" /\ nCalls = 0

HasState(m, i, sta) == sta \cap m.sos[i].state # {}
Set(m, i, sta) == [m EXCEPT !.sos[i].state = @ \cup sta]
Clear(m, i, sta) == [m EXCEPT !.sos[i].state = @ \ sta]
Watch(m, i, ev) == [m EXCEPT !.sos[i].watch = ev]

\* soqueue_erase.
Without(q, i) ==
  IF i \in Range(q) THEN RemoveAt(q, CHOOSE k \in DOMAIN q : q[k] = i) ELSE q

-----------------------------------------------------------------------------
(* The table.                                                              *)

ExpandSos(m) ==
  LET n == IF m.sosn = 0 THEN 2 ELSE 2 * m.sosn
      first == IF m.sosn = 0 THEN 1 ELSE m.sosn
      new == [k \in 1 .. n - first |-> first + k - 1]
  IN  [m EXCEPT !.sosn = n, !.freesos = @ \o new]

Refilled(m) == IF m.freesos = <<>> THEN ExpandSos(m) ELSE m

\* The bound on the table has not been reached.
CanAlloc(m) == Refilled(m).sosn <= MaxSosn

AllocId(m) == Head(Refilled(m).freesos)

\* somgr_alloc_so, and the flags its caller gives the socket.
AllocSo(m, sta) ==
  [Refilled(m) EXCEPT !.freesos = Tail(@), !.sos[AllocId(m)].state = sta]

FreeSo(m, i) == [m EXCEPT !.sos[i] = Pooled, !.freesos = Append(@, i)]

\* Mutant: the socket is left in the queue of those to be written.
RemoveSoQueued(m, i) ==
  IF HasState(m, i, {"BAD"}) THEN m
  ELSE [Watch(Set(m, i, {"BAD"}), i, {}) EXCEPT !.badsos = Append(@, i)]

\* Mutant: the socket goes back to the pool at once.
RemoveSoNow(m, i) ==
  FreeSo([m EXCEPT !.writesos = Without(@, i)], i)

\* Mutant: the socket is marked and waits for nothing.
RemoveSoUntold(m, i) ==
  [Watch(Set(m, i, {"BAD"}), i, {}) EXCEPT !.writesos = Without(@, i)]

RemoveSo(m, i) ==
  IF HasState(m, i, {"BAD"}) THEN m
  ELSE [Watch(Set(m, i, {"BAD"}), i, {})
          EXCEPT !.writesos = Without(@, i), !.badsos = Append(@, i)]

\* A connection in progress is watched until it is writable; any other socket
\* is taken to be writable and watched for input.
AddSo(m, i) ==
  IF HasState(m, i, {"CONNECTTING"}) THEN Watch(m, i, {"out"})
  ELSE Watch(Set(m, i, {"WRITABLE"}), i, {"in"})

\* epoll_ctl may fail, and does for a socket that RemoveSo took out of epoll.
ModResults(m, i) == IF m.sos[i].watch = {} THEN {FALSE} ELSE BOOLEAN

ModSo(m, i, w) == Watch(m, i, IF w THEN {"in", "out"} ELSE {"in"})

-----------------------------------------------------------------------------
(* Writing.                                                                *)

\* What somgr_flush_so leaves in the buffer: nothing, or what did not fit into
\* the buffer of the kernel, or -1 for an error.
FlushResults(m, i) == IF m.sos[i].cur = 0 THEN {0} ELSE -1 .. m.sos[i].cur

Flushed(m, i, left) == [m EXCEPT !.sos[i].cur = left]

\* Mutant: the socket stays writable although the kernel takes no more.
BlockedKept(m, i, left, ok) ==
  IF ok THEN ModSo(Flushed(m, i, left), i, TRUE) ELSE RemoveSo(m, i)

\* Mutant: nobody asks epoll when the socket is writable again.
BlockedUnwatched(m, i, left, ok) ==
  Clear(Flushed(m, i, left), i, {"WRITABLE"})

\* Bytes are left: not writable, and epoll is to tell when it is.
Blocked(m, i, left, ok) ==
  LET x == Clear(Flushed(m, i, left), i, {"WRITABLE"}) IN
  IF ok THEN ModSo(x, i, TRUE) ELSE RemoveSo(x, i)

\* One flush: a failure removes the socket, bytes left block it.
Pushed(m, i, left, ok) ==
  CASE left < 0 -> RemoveSo(m, i)
    [] left = 0 -> Flushed(m, i, 0)
    [] OTHER    -> Blocked(m, i, left, ok)

\* sbuf_expand.
Expanded(b, need) == ((b.cap + need + Chunk) \div Chunk) * Chunk

\* Mutant: a buffer that is too small by some bytes grows by one chunk.
StoreShort(m, i, dlen) ==
  LET b == m.sos[i]
      room == IF b.cap - b.cur < dlen THEN b.cap + Chunk ELSE b.cap
      queued == i \in Range(m.writesos)
  IN  [m EXCEPT !.sos[i].cap = room, !.sos[i].cur = @ + dlen,
                !.writesos = IF ~HasState(m, i, {"WRITABLE"}) THEN Without(@, i)
                             ELSE IF queued THEN @ ELSE Append(@, i)]

\* The end of somgr_write: room for dlen bytes, the bytes, and the queue.
Store(m, i, dlen) ==
  LET free == m.sos[i].cap - m.sos[i].cur
      room == IF free < dlen THEN Expanded(m.sos[i], dlen - free) ELSE m.sos[i].cap
      queued == i \in Range(m.writesos)
  IN  [m EXCEPT !.sos[i].cap = room, !.sos[i].cur = @ + dlen,
                !.writesos = IF ~HasState(m, i, {"WRITABLE"}) THEN Without(@, i)
                             ELSE IF queued THEN @ ELSE Append(@, i)]

-----------------------------------------------------------------------------
(* The interface, between calls of somgr_runonce or in a callback.         *)

Owner ==
  /\ crashed = "no"
  /\ pc = "out" \/ call # NoCall
  /\ nCalls < MaxCalls
  /\ nCalls' = nCalls + 1
  /\ UNCHANGED <<pc, call, evs, crashed>>

\* somgr_listen and somgr_connect.  Nothing changes when a system call before
\* somgr_alloc_so fails; when epoll_ctl does, the socket goes back.
Open(sta) ==
  LET i == AllocId(mgr)
      m == AllocSo(mgr, sta)
  IN  /\ Owner
      /\ CanAlloc(mgr)
      /\ mgr' \in {AddSo(m, i), FreeSo(m, i)}

Listen == Open({"LISTEN"})

Connect == Open({"CONNECTTING"})

\* somgr_write; when the bytes do not fit it first tries to send some.
Write(i, dlen) ==
  LET b == mgr.sos[i]
      tries == b.cap - b.cur < dlen /\ HasState(mgr, i, {"WRITABLE"}) /\ b.cur > 0
  IN  /\ Owner
      /\ i < mgr.sosn
      /\ ~HasState(mgr, i, {"BAD", "LISTEN", "FREE", "CONNECTTING"})
      /\ \E left \in IF tries THEN FlushResults(mgr, i) ELSE {b.cur},
            ok \in ModResults(mgr, i), expands \in BOOLEAN :
           LET m == IF tries THEN Pushed(mgr, i, left, ok) ELSE mgr
               short == m.sos[i].cap - m.sos[i].cur < dlen
           IN  /\ ok \/ (tries /\ left > 0)
               /\ expands \/ short
               /\ mgr' = CASE HasState(m, i, {"BAD"}) -> m
                           [] ~expands -> RemoveSo(m, i)
                           [] OTHER -> Store(m, i, dlen)

\* somgr_kick sends what it can, whatever comes of it.
Kick(i) ==
  /\ Owner
  /\ i < mgr.sosn
  /\ ~HasState(mgr, i, {"BAD", "FREE"})
  /\ \E left \in 0 .. mgr.sos[i].cur : mgr' = RemoveSo(Flushed(mgr, i, left), i)

Interface ==
  \/ Listen \/ Connect
  \/ \E i \in Ids : Kick(i) \/ \E dlen \in Lengths : Write(i, dlen)

-----------------------------------------------------------------------------
(* somgr_runonce.                                                          *)

Runs(where) ==
  /\ crashed = "no" /\ pc = where /\ call = NoCall
  /\ UNCHANGED nCalls

Begin ==
  /\ Runs("out")
  /\ pc' = "bad"
  /\ UNCHANGED <<mgr, call, evs, crashed>>

\* Mutant: the socket is freed before its owner is told.
TellBadFreed ==
  /\ Runs("bad")
  /\ mgr.badsos # <<>>
  /\ mgr' = FreeSo([mgr EXCEPT !.badsos = Tail(@)], Head(mgr.badsos))
  /\ call' = [to |-> "ecb", id |-> Head(mgr.badsos), ev |-> {}]
  /\ UNCHANGED <<pc, evs, crashed>>

\* The next removed socket: its owner is told.
TellBad ==
  /\ Runs("bad")
  /\ mgr.badsos # <<>>
  /\ mgr' = [mgr EXCEPT !.badsos = Tail(@)]
  /\ call' = [to |-> "ecb", id |-> Head(mgr.badsos), ev |-> {}]
  /\ UNCHANGED <<pc, evs, crashed>>

BadDone ==
  /\ Runs("bad")
  /\ mgr.badsos = <<>>
  /\ pc' = "write"
  /\ UNCHANGED <<mgr, call, evs, crashed>>

FlushNext ==
  LET i == Head(mgr.writesos)
      m == [mgr EXCEPT !.writesos = Tail(@)]
  IN  /\ Runs("write")
      /\ mgr.writesos # <<>>
      /\ \E left \in FlushResults(m, i), ok \in ModResults(m, i) :
           /\ ok \/ left > 0
           /\ mgr' = Pushed(m, i, left, ok)
      /\ UNCHANGED <<pc, call, evs, crashed>>

\* epoll_wait: each watched socket may have an error or what it is watched for.
Reports(i) ==
  IF mgr.sos[i].watch = {} THEN {{}} ELSE {{"hup"}} \cup SUBSET mgr.sos[i].watch

EpollWait ==
  /\ Runs("write")
  /\ mgr.writesos = <<>>
  /\ evs' \in {e \in [Ids -> SUBSET {"hup", "in", "out"}] : \A i \in Ids : e[i] \in Reports(i)}
  /\ pc' = "events"
  /\ UNCHANGED <<mgr, call, crashed>>

Crash(why) == crashed' = why /\ UNCHANGED <<mgr, call>>

Calls(m, to, i, ev) ==
  mgr' = m /\ call' = [to |-> to, id |-> i, ev |-> ev] /\ UNCHANGED crashed

Becomes(m) == mgr' = m /\ call' = NoCall /\ UNCHANGED crashed

\* somgr_proc_accept.  Its error path removes so where lso is meant: so is NULL
\* after a failed accept, and back in the pool after a failed somgr_add_so, which
\* the assertion of somgr_remove_so finds.
ProcAccept(i) ==
  \/ Becomes(mgr)
  \/ Crash("accept")
  \/ /\ CanAlloc(mgr)
     /\ LET n == AllocId(mgr) IN Calls(AddSo(AllocSo(mgr, {}), n), "acb", n, {})

\* somgr_proc_connected.
ProcConnected(i) ==
  \/ Becomes(RemoveSo(mgr, i))
  \/ /\ TRUE \in ModResults(mgr, i)
     /\ Calls(Clear(Set(ModSo(mgr, i, FALSE), i, {"WRITABLE"}), i, {"CONNECTTING"}),
              "ccb", i, {})

\* The socket can be written again, unless an assertion fails: writable already,
\* or in a queue.
ProcOut(i) ==
  LET m == Set(mgr, i, {"WRITABLE"}) IN
  IF HasState(mgr, i, {"WRITABLE"}) THEN Crash("writable")
  ELSE IF i \in Range(mgr.writesos) THEN Crash("queued")
  ELSE IF i \in Range(mgr.badsos) THEN Crash("kicked")
  ELSE \E left \in FlushResults(mgr, i), ok \in ModResults(mgr, i) :
         CASE left < 0 -> Becomes(RemoveSo(m, i))
           [] left > 0 -> Becomes(Flushed(mgr, i, left))
           [] OTHER -> Becomes(IF ok THEN ModSo(Flushed(m, i, 0), i, FALSE)
                               ELSE RemoveSo(Flushed(m, i, 0), i))

\* somgr_proc_rw.  A read that returns nothing, for whatever reason (EAGAIN and
\* EINTR too: their break only leaves the switch), removes the socket.
ProcRw(i) ==
  IF "in" \in evs[i]
  THEN Calls(mgr, "rcb", i, evs[i]) \/ Becomes(RemoveSo(mgr, i))
  ELSE ProcOut(i)

Handle(i) ==
  IF "hup" \in evs[i] THEN Becomes(RemoveSo(mgr, i))
  ELSE IF HasState(mgr, i, {"LISTEN"}) THEN ProcAccept(i)
  ELSE IF HasState(mgr, i, {"CONNECTTING"}) THEN ProcConnected(i)
  ELSE ProcRw(i)

NextEvent ==
  /\ Runs("events")
  /\ \E i \in Ids :
       /\ evs[i] # {}
       /\ Handle(i)
       /\ evs' = [evs EXCEPT ![i] = {}]
  /\ UNCHANGED pc

EventsDone ==
  /\ Runs("events")
  /\ evs = NoEvents
  /\ pc' = "out"
  /\ UNCHANGED <<mgr, call, evs, crashed>>

\* A callback returns.  rcb says how much it took, out of range or not, and may
\* have kicked the socket.
CallReturn ==
  LET i == call.id IN
  /\ crashed = "no"
  /\ CASE call.to = "ecb" -> Becomes(FreeSo(mgr, i))
       [] call.to \in {"acb", "ccb"} -> Becomes(mgr)
       [] call.to = "rcb" ->
            \/ Becomes(RemoveSo(mgr, i))
            \/ /\ ~HasState(mgr, i, {"BAD"})
               /\ IF "out" \in call.ev THEN ProcOut(i) ELSE Becomes(mgr)
       [] OTHER -> FALSE
  /\ UNCHANGED <<pc, evs, nCalls>>

RunOnce ==
  \/ Begin \/ TellBad \/ BadDone \/ FlushNext \/ EpollWait
  \/ NextEvent \/ EventsDone \/ CallReturn

\* somgr_destroy closes everything and tells nobody.
Destroy ==
  /\ Runs("out")
  /\ mgr' = NewMgr
  /\ pc' = "destroyed"
  /\ UNCHANGED <<call, evs, crashed>>

Next == Interface \/ RunOnce \/ Destroy

Spec == Init /\ [][Next]_vars

\* somgr_runonce is called for ever and callbacks return.
FairSpec == Spec /\ WF_vars(RunOnce)

-----------------------------------------------------------------------------
TypeOK ==
  /\ mgr.sos \in [Ids -> [state: SUBSET Flags, watch: SUBSET {"in", "out"},
                          cur: Nat, cap: Nat]]
  /\ mgr.sosn \in 0 .. MaxSosn
  /\ mgr.freesos \in Seq(Ids) /\ mgr.badsos \in Seq(Ids) /\ mgr.writesos \in Seq(Ids)
  /\ pc \in {"out", "bad", "write", "events", "destroyed"}
  /\ call \in [to: {"none", "acb", "rcb", "ecb", "ccb"}, id: Ids \cup {0},
              ev: SUBSET {"hup", "in", "out"}]
  /\ evs \in [Ids -> SUBSET {"hup", "in", "out"}]
  /\ crashed \in {"no", "accept", "kicked", "writable", "queued"}
  /\ nCalls \in 0 .. MaxCalls

Times(i, q) == Cardinality({k \in DOMAIN q : q[k] = i})

Being(i) == call.to = "ecb" /\ call.id = i

\* Beside TypeOK, a socket is where its state says and nowhere else: in the pool once while free,
\* waiting once for its owner to be told while bad (or its owner is being told),
\* and to be written only while connected, writable and with bytes to send.
OneHome ==
  TypeOK /\ \A i \in Ids :
    LET b == mgr.sos[i] IN
    /\ Times(i, mgr.freesos) = IF i < mgr.sosn /\ "FREE" \in b.state THEN 1 ELSE 0
    /\ Times(i, mgr.badsos) = IF "BAD" \in b.state /\ ~Being(i) THEN 1 ELSE 0
    /\ Times(i, mgr.writesos) <= 1
    /\ i \in Range(mgr.writesos) => b.state = {"WRITABLE"} /\ b.cur > 0

\* Bytes are never left behind: a live connection that has some is queued while
\* it is writable, and watched for writability while it is not; and epoll reports
\* writability to those only that wait for it.
UnsentIsArmed ==
  \A i \in Ids :
    LET b == mgr.sos[i] IN
    b.state \cap {"BAD", "FREE"} = {} =>
      /\ "CONNECTTING" \in b.state <=> "in" \notin b.watch
      /\ "out" \in b.watch <=> "WRITABLE" \notin b.state
      /\ b.cur > 0 /\ "WRITABLE" \in b.state => i \in Range(mgr.writesos)

\* No byte is written behind the end of a buffer.
BytesFit == \A i \in Ids : mgr.sos[i].cur <= mgr.sos[i].cap

\* An event in hand is for the socket epoll reported it for: whatever callbacks
\* do in between, its slot has not gone back to the pool.
EventsFindSockets == \A i \in Ids : evs[i] # {} => ~HasState(mgr, i, {"FREE"})

\* A socket whose events or whose call are under way, or that waits to be written.
InHand(i) ==
  evs[i] # {} \/ (call.to = "rcb" /\ call.id = i) \/ i \in Range(mgr.writesos)

\* The assertions of somgr.c about flags and queues: 258, and 259 as its comment means it
\* (not in the write queue); a connection in progress is reported writable or broken only
\* (349); and what somgr_write, somgr_kick and an event may queue, remove or take off a
\* queue is in the write queue or in none (395, 398, 405, 473).  Left out, because they
\* fail: 259 for kicked sockets, and 473 in the error path of somgr_proc_accept.
AssertionsHold ==
  /\ crashed \notin {"writable", "queued"}
  /\ \A i \in Ids :
       /\ evs[i] = {"in"} => ~HasState(mgr, i, {"CONNECTTING"})
       /\ ~HasState(mgr, i, {"BAD"}) /\ (InHand(i) \/ ~HasState(mgr, i, {"FREE"}))
            => i \notin Range(mgr.freesos) \cup Range(mgr.badsos)

\* A socket goes back to the pool only after its owner was told of its end.
ToldBeforeReuse ==
  [][\A i \in Ids :
       ~HasState(mgr, i, {"FREE"}) /\ HasState(mgr', i, {"FREE"})
         => Being(i) \/ pc' = "destroyed"]_vars

\* The owner of a removed socket is told, unless the process ends before.
RemovedIsTold ==
  \A i \in Ids : HasState(mgr, i, {"BAD"}) ~> ~HasState(mgr, i, {"BAD"}) \/ crashed # "no"
==============================================================================
