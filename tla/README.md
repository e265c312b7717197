# A formal model of mul

mul is a small actor runtime: an *env* is an actor with a Lua VM of its own, and
envs run in parallel on a pool of worker threads. This directory holds TLA+
modules of its scheduler, its env registry, its messages, its timers and its
socket layer, TLC configurations that check them on small instances, and machine-checked
proofs, for any number of envs, threads, sockets, timers and messages, and for any
values in the messages, of the safety properties of every module.

## 1. Inventory

Threads (`main.c`): `tWorker` x `wokerNum` run envs, `tTimer` ticks every 10 ms,
`tSocket` runs the epoll loop. They share everything below through spin locks
(`lock.c`) and one mutex/condition pair.

| Part | State | Operations | Called by | Hard part | What makes it correct |
|---|---|---|---|---|---|
| message queues, global queue (`gq.c`) | `mq_t`: list, `mIsG`, lock; `gq_t`: list of mqs, lock | `gq_push_msg`, `gq_pop`, `mq_pop`, `gq_worker_end` | every thread | `mIsG` and the global list change under different locks | an env runs on one worker at a time; no queue with messages is forgotten; first in, first out |
| worker pool (`main.c`) | `wokingNum`, `mutex`, `cond` | idle entry/exit of `tWorker`, signal of `tTimer` | workers, timer | the count is read without the mutex, a post signals nobody, a worker stays with a queue until it is empty | a sleeping worker is woken when there is work; no env waits for ever with a message, unless busy envs keep all workers |
| timer wheel (`common/timer`) | slots, `longlist`, `freelist`, object pool, `current`, `ticking` | `timer_add`, `timer_del`, `timer_tick`, `timer_nearest` | `gt.c`, callbacks | re-arming in a callback, long timers, recycled objects | each timer fires in its tick, none is lost, a deleted one does not fire |
| global timer (`gt.c`) | one wheel, one lock | `gt_add`, `gt_update` | workers, timer | | a due timer becomes one message |
| env timers (`lualib/env.lua`) | `mTimerCbs`, `mTimerSession` | `env:timeout`, `c_onTimer` | the env | reuse and wrap-around of sessions | a session stands for one timeout |
| env sockets (`lualib/env.lua`) | `mSockets` of each env, `mEnv` of a slot | `socketListen`, `socketAdd`, `socketCloseRaw`, `c_onAcceptable`, `c_onReadable` | the env, `tSocket` through its queue | sids that are passed on, closed and taken again while messages about them wait | a message finds a callback, in the env that has the socket; no connection and no data forgotten |
| socket table (`gs.c`) | `so_t` slots: `mState`, `mFd`, four locks; epoll | `so_listen`, `so_accept`, `so_add`, `so_read`, `so_close`, `gs_update` | workers, `tSocket` | lock order, stale events, lost edges, slot reuse | no deadlock, descriptors and slots in step, no edge lost |
| write queue (`gs.c`) | `mWHead`, `mWTail`, `mQn`, `mInq`, buffers | `so_write`, `_pushWQ`, `_processFlush`, `_flush` | workers, `tSocket` | hand-over of a socket between two threads | no bytes left behind, no socket twice in the list |
| env registry (`env.c`) | `mList`, `mListLen`, `mLock` | `env_create`, `env_post` | every thread | `mList` is read without its lock while it may move; an env is published before it has a queue and booted outside its queue; a boot may fail | an id names one env; who has an id finds a queue; one thread in a Lua VM |
| message dispatch (`env.c`) | | `env_process_msg`, the `c_` bindings | workers | | each type reaches its Lua handler |
| packing (`common/lserial.c`, `env:post`, `c_onPosed`) | none | pack, unpack, unpack_one, unpack_limit | Lua | widths, nesting, lists that are nearly lists, truncated input, the accounting of the buffer | what arrives is what was posted |
| connection manager (`common/somgr`) | socket table and pool, `badsos`, `writesos`, flags, epoll registration | `somgr_runonce`, `somgr_listen`, `_connect`, `_write`, `_kick` | nobody (the predecessor of `gs.c`) | callbacks that close and open sockets while events are in hand; bytes that wait for the queue or for `EPOLLOUT` | no slot reused too early, no bytes left behind, every end told |
| `lualib/class.lua`, `lualib/timer.lua`, `common/global.c`, `test`, `testb`, `3rd` | | | | | helpers, an older `env:timeout`, demos, vendored code; not modelled |

## 2. Modules

| Module | What it is |
|---|---|
| `Dispatch` | `gq.c`, `lock.c`, `tWorker` and `tTimer` |
| `Mailbox` | what the dispatcher promises: a mailbox per env; `Dispatch` implements it |
| `DispatchProofs` | theorems about `Dispatch` |
| `TimerWheel` | `common/timer/timer.c` |
| `DeadlineTimers` | timers as deadlines, without a wheel; `TimerWheel` implements it |
| `TimerWheelProofs` | theorems about `TimerWheel`, that it implements `DeadlineTimers` among them |
| `GlobalSocket`, `MCSocket` | the socket table and epoll loop of `gs.c` |
| `GlobalSocketProofs` | theorems about `GlobalSocket` |
| `WriteQueue`, `MCWrite` | the write path of `gs.c` |
| `WriteQueueProofs` | theorems about `WriteQueue` |
| `EnvTimers` | `env:timeout`, `gt_add`, the timer message and `c_onTimer` together |
| `EnvTimersProofs` | theorems about `EnvTimers` |
| `EnvSockets` | sockets as scripts have them: owners, callbacks, messages, `gs_update` |
| `EnvSocketsProofs` | theorems about `EnvSockets` |
| `EnvRegistry` | `env_create`, `env_post`, and who is in which Lua VM |
| `MsgPack` | `lserial.c` as operators |
| `EnvPost`, `MCEnvPost` | the two together: a posted message from `env:post` to `c_onPosed` |
| `EnvPostProofs` | theorems about `EnvRegistry`, `MsgPack` and `EnvPost` |
| `Somgr` | `common/somgr` |
| `SomgrProofs` | theorems about `Somgr` |

The parts meet in few places. A callback of `gt.c` and `_notifyEv` of `gs.c` end
in `env_post`, which is `BeginPost` of `Dispatch` by the threads `Timer` and
`Socket`. What a handler does to timers and sockets while `Dispatch` has its
worker at `handle` is `EnvTimers` and the worker calls of `GlobalSocket`; that an
env runs one handler at a time is proved in `Dispatch` and used in `EnvTimers`,
whose steps are whole Lua functions; `EnvRegistry` too takes the exclusion from it
(`Handle`) and shows the one place that goes past it, the boot of an env. `GlobalSocket` and `WriteQueue` both have the
W lock of a slot: the first sees a flush only as a holder of the lock that may
mark the socket errored, the second sees the life of a socket only as "rw or
not".

Definitions whose comment begins with *Mutant:* are never used by a
specification. Each is one plausible mistake in the code, and the property it is
listed with in `PROJECT.json` fails when it replaces the definition it mimics.

### Dispatch

A step runs from one lock operation of a thread to its next one: what lies
between is either local or protected by the lock. `pc` is the place in the code
(`push_*` in `gq_push_msg`, `gq_*`, `mq_*` and `end*` in the worker loop, `idle_*`,
`waiting` and `woken` around `pthread_cond_wait`, `poll` and `signal` for the two
other threads). The linked lists are sequences. Handlers may post any number of
messages to any env, their own included, before they return (`BeginPost`).
`Msgs` are the pieces of memory a message can have: `BeginPost` takes one, `HandlerReturn`
frees it (`env.c:108`), and it is taken again. So `Msgs` bounds the messages under way at
one time and not how many are posted: envs may post to each other and to themselves
for ever. `OneHolder` follows a piece from the poster to the mq, the worker and back. A
waiting worker may also wake up for no reason.

`tWorker` stays with an mq until `mq_pop` finds it empty (`main.c:83-91`). An env that has
a new message every time, from itself or others, therefore keeps its worker, and when
there is no other worker (`wokerNum` is 1 by default, `main.c:15`) the messages of other
envs are never handled. So it is not true of the code that every message is handled. What
is true is `HandledUnlessStarved`: an env does not wait for ever with a message unless *all*
workers are kept like that for ever by other envs (`Starved`). Nothing else makes it
wait: not the locks, not the sleep of idle workers, not posts without end. The
mq of a turn that ends goes to the tail of the global queue, which is one of the things
this rests on (mutant `EndPushAtHead`). `Workers` are the workers there can be; `Init`
chooses how many of them `main` starts, so that one run has both one worker and several.

### TimerWheel

`timer_tick` is split into `TickBegin`, `TickCall`, `TickReturn` and `TickEnd`, because
callbacks may call `timer_add` and `timer_del` in the middle. `gt.c` keeps a lock
around each call, so nothing else interleaves. `uq_erase` is modelled as written:
the erased object's successor becomes the head of the list. The parameter
`DelAnywhere` says whether `timer_del` is called for any timer or only for the first
of a list, the one case in which `uq_erase` is right. In mul itself nobody calls
`timer_del`, and `timer_exact` sets it to FALSE. With TRUE, TLC shows within seconds
that deleting the second timer of a slot drops the first (`timer.c:196`). A
repeating timer that deletes itself in its callback is armed again and runs once
more, since `erased` is decided before the callback (`timer.c:92`, `109-117`); the
refinement of `DeadlineTimers` has this as `CancelFiring`. `Those` is what the loops at the
end of `timer_tick` find in `longlist`, in its order; it is a recursive function, so that
it can be proved about. In `DeadlineTimers`, `With` and `Without` are the timers with one more
and one less.

### GlobalSocket

A thread has a list `want` of locks that it takes one by one; the last one is taken
together with the step it protects. Everything at the end of a function, after
which only unlocks follow, is one step. The kernel is modelled from how `gs.c`
uses it: a new descriptor is the lowest free number, `close` removes the
registration, an edge is reported once, a descriptor that is ready when it is
registered is reported. `ClientConnects`, `ClientSends` and `ClientLeaves` are the other
ends. `assert(0)` sets `aborted`, after which nothing moves. `_occupySoAndLock` looks at `mFd`
of one slot after the other without a lock, locks the first that is free and looks again.
`Scan` is this search from a slot on; if it finds none it gives the last slot,
with no lock taken, as the code does. Scripts may call
`so_add` and `so_close` on any slot at any time. `LateListen` says whether listeners
may be opened after connections exist. The runs keep to programs that open them first,
as the demo scripts do: with TRUE, `EveryFdHasAHome` fails within seconds, since slots 1,
2, ... go to accepted connections and `so_listen` takes the slot numbered like its
descriptor without looking (`gs.c:236`).

### WriteQueue

The list is kept with the code's pointers, since the pointers are what is
interesting. A connection may break at any time (`Broken`: `gs_update` and `so_read`
mark it errored without the W lock). A failed assertion, or `memcpy` over the `buf_t` after a partial
write (`gs.c:481`), ends the behaviour in `halted`; the safety properties
speak about the time before.

### EnvTimers

`mTimerCbs` keeps the runs left to each session, `armed` the timers in the wheel,
`mailbox` the messages for the env. The wheel may give timers back in any order.

### EnvSockets

Two envs, their queues and their `mSockets`, above a `gs.c` whose functions are single
steps (`GlobalSocket` has their locks). An env at `accept` is in the loop of
`c_onAcceptable`, with `sid` and `nid`; at `script` it runs Lua of its own, in the loop
or in a handler, and may use every sid in `known`: listen, add, close, or post it to
the other env. `queue` counts connections to accept, or reads that find data. A step of
`gs_update` takes one event of `batch`, so that anything may happen to the slot between
`epoll_wait` and the event, and between the event and the handler. `used` numbers the
sockets a slot has had, and a message has that number in `life`: the code has neither,
they only let `ToItsOwner` tell a message about this socket from one about its
predecessor. Late messages do reach the successor, and the model has it: the callback
an env once set for a sid reads from the socket that has the sid now, whoever added
it. A failed assertion ends the behaviour in `failed`. Two of them do fail. One is that of
`gs_update` (`socket_stale`). The other is `assert(not self.mSockets[lid])` of `socketListen`
(`env.lua:44`): nothing removes entries of `mSockets`, so an env that listens, or adds a
socket, closes it and gets the sid again for a listener stops there, with the socket
listening and no sid for the script. `socketAdd` would do the same if it did not test a
global `lid` that is always nil (`env.lua:51`).

### EnvRegistry, MsgPack and EnvPost

A thread is in `env_create` at `find` (it has `mLock`), `publish` (it is about to change
`mList`) and `init`; the boot script itself is the thread being at `run` with the env
in `creating`, so that it may post and create further envs, whose boots nest.
`env_post` reads `mList` and its length in one step and the entry in another, so that
a REALLOC may come in between: then, and when an env without a queue or a freed
env is found, `fault` says so and the behaviour ends. `Exposed` says whether an env can
be posted to before `env_create` returns; it can when its boot script tells its id,
sets a timer or listens.

In `MsgPack` a byte string is a sequence of pairs and the bytes of numbers have the
base `Base`, 4 in the run, with the limits of the one-byte forms scaled alike. All ten
encodings of integers, the four of strings, three each of lists and maps and their
borders are then reached by numbers up to 32767 and lengths up to 17. A table is the
sequence of its entries in the order of `lua_next`. The code recurses: encoding over
the level of nesting, decoding over what is left of the input. So do the functions
`Encoding` (from a level and a value to the pieces passed to `mp_buf_append`) and `Loops`
(from an offset, a kind of loop and the turns it has to go to what it returns); they are
recursive functions, so that they can be proved about. `EncodeType` and `DecodeType` are the
bodies of `mp_encode_lua_type` and `mp_decode_to_lua_type`, `Turn` that of the three loops.
`unpack` without a limit runs to the end of the input: as no value is
written in zero bytes, as many turns as there are bytes do for `INT_MAX`. `Values` are the Lua
values there are, with those in the tables among them, and `IsLuaValue` says what a Lua value
is: a 64-bit integer, a string or table whose length fits the four bytes of the
widest form, keys that differ. `Kept` says what survives a
journey without mentioning bytes; it is what `Unpack` is compared with. `EnvPost` puts
the bytes of an argument list into the messages of `EnvRegistry` and compares what
the handler unpacks with what was posted.

### Somgr

`mgr` is `somgr_t`; the operators on it (`RemoveSo`, `Pushed`, `Store`, ...) are the functions of
the code, composed by the actions. `somgr_runonce` is one step per socket it
deals with (`pc`); a callback is open in `call` and may use the whole interface
before `CallReturn`. What the kernel does is nondeterministic: how much a write takes, whether
`epoll_ctl` fails, what `epoll_wait` reports of a watched socket. A failed assertion, or
the removal of the wrong socket in the error path of `somgr_proc_accept`
(`somgr.c:308`), ends the behaviour in `crashed`. Two assertions do fail. `somgr.c:259` does when
a callback kicks a connection whose `EPOLLOUT` is still to be handled in the
same batch: the socket is in `badsos` (`crashed = "kicked"`). Its comment speaks of the write
queue, which `AssertionsHold` covers. `somgr.c:473` does in that error path, when
`somgr_add_so` has failed and `so` is back in the pool (`crashed = "accept"`; after a failed
`accept` the pointer is NULL). `AssertionsHold` leaves out these two cases and has the rest: 258, 349,
and, as a condition on the manager in every state, what 395, 398, 405 and 473 need
for any socket that `somgr_write`, `somgr_kick`, an event or a callback may queue or remove.

## 3. Runs

| Run | Question | Bounds | Result |
|---|---|---|---|
| `dispatch` | exclusion, no lost env, assertions, one holder of a message, refinement of `Mailbox`, no env waits for ever unless busy ones keep all workers | 2 envs, 1 or 2 workers + timer + socket, 2 messages under way | holds |
| `timer_exact` | exact deadlines, no object lost, `timer_nearest`, every timer ends | wheels of 1 and 3 slots, waits 0, 1, 3, 7, repeats 0, 1, 2, pool growing 1 -> 2 | holds |
| `socket_safety` | lock order, descriptors vs. slots, what epoll watches, no lost edge | 2 workers + socket thread, 4 descriptors, 5 slots, 2 listeners, 2 connections, 2 add/close calls, 1 send or leave | holds |
| `socket_stale` | `assert(0)` at `gs.c:563` | 1 worker, 1 connection | violated |
| `socket_emfile` | is a connection left by EMFILE accepted later? | room for 1 connection of 2 | violated |
| `write_safety` | hand-over between `so_write` and the flush | 2 workers, 3 sockets, 4 writes, 1 close | holds |
| `write_assert` | assertions of the write queue | 1 worker, 2 sockets | violated |
| `env_timers` | one timeout per session, every timeout ends | sessions 0..3, repeats 0, 1, 3 | holds |
| `env_sockets` | a callback for every message, messages with the owner of the socket, no connection and no data forgotten | 2 envs, 3 slots, 2 connections, 3 calls of scripts, 1 send or leave | holds |
| `somgr_safety` | slots and queues in step with the flags, unsent bytes armed, buffers, events, reports | table of 4 (after 2), chunk of 2 bytes, writes of 1 and 3, 4 calls | holds |
| `env_post` | ids, posts that find a queue, one thread per Lua VM, what arrives | 2 workers, 4 envs, list growing at 4, 1 post, 47 argument lists | holds |
| `env_boot` | one thread per Lua VM, boots included | 2 workers, 3 envs, 1 post | violated |

Why these bounds: two workers are what it takes for one to end its turn while
another one serves; two envs put one in the global queue behind another; two
messages to one env race with the end of its turn and put one behind the other
(the safety properties are proved for any number, section 5). With one worker
started and two messages, which are recycled, the timer and the socket thread can post to one
env for ever while a message of the other one waits: this is the starvation that
`HandledUnlessStarved` excepts, and without the exception TLC finds it. (For an env that posts to
*itself* while another one waits it would take a third message; with two, it does so alone.) A wheel of
three slots has timers due in this turn, the next and the one after; the wheel of
one slot is the edge case in which every wait is long. The socket run has two
accepts racing for slots, a close that makes a slot and a descriptor free in
between, and the listener's own slot closed under an accept. Descriptors begin at
`FirstFd = 2`, so that the first free slot (1) is not the number of the first
descriptor, as in the real program, where slots below the first descriptor are
used by accepted connections. Three sockets let a third push overwrite the
`next` of a second one. Four sessions wrap around after a few timeouts.
Two workers of `env_post` create the third and the fourth env at once, the fourth
being the one for which the list grows; the arguments stand on both sides of
every border of the format. Four calls of `somgr` open two connections or a
listener, write to one and kick it, or make the table grow; a write of three bytes
after one of one byte needs an expansion that is not a multiple of the chunk of
two, and can be sent in part.

Three calls in `env_sockets` are enough for a socket to be passed to the other env, added
there, closed (also by an error of the callback that accepted it, which is not
a call), and its slot taken by a second connection, with messages about the
first one still waiting. What is sent takes two reads, so that one edge stands for two,
and it may stand for two connections; a client connects only while there is a slot
for it, since a full table of 65534 is not modelled.

Where a module's `TypeOK` is not a property of its own, it is a conjunct of one of the
others (`OneHome`, `EveryFdHasAHome`, `LinkedIsMarked`, `OneUnderWay`, `ToItsOwner`).

Every CONSTANT called a bound in its module (`MaxPool`, `MaxListens`,
`MaxConns`, `MaxCalls`, `MaxTraffic`, `MaxWrites`, `MaxCloses`, `MaxEnvs`, `MaxPosts`, `MaxSosn`) only cuts off the number
of calls. Deadlock checking is off in the socket, write, `somgr` and env runs alone, where an
assertion of the code, undefined behaviour or `somgr_destroy` really stops the
process, or where it may run out of messages. Symmetry is used only in runs
without liveness properties.

### What the violated runs say

* `socket_stale`: `so_close` between `epoll_wait` and the handling of its event; the
  slot is free, or taken by a connection not yet added, and `assert(0)` fails.
* `socket_emfile`: the comment at `gs.c:287` leaves the connection to the next
  attempt, but the edge is used up and there is none until someone else connects.
* `write_assert`: `_pushWQ` never moves `mWTail` (`gs.c:424`), so as soon as two
  sockets are queued the assertion at `gs.c:518` fails when the queue empties.
* `env_boot`: the boot script of a new env tells its id, or sets a timer, and goes on;
  another worker takes the message from the queue of the new env and is in its Lua
  VM together with the worker that boots it (`env.c:318`). `env_post` shows the rest of
  the registry for boot scripts that keep to themselves.

### What a passing run excepts

In the code `env_post` may have read `mList` when `env_create` on another thread finds the list
full, and reads its entry from the memory REALLOC has given back (`env.c:48`, `281`).
The run `env_post` reaches this, as its list grows at the fourth env: there the behaviour ends in
`fault = "moved"`, and no more is said about it. `PostsFindQueue` excepts it by name and says
when it can happen: once all ids of the first list are taken (`ListWasFull`; 1023 envs in
the code). It does not say that a post by an id always finds a queue. The
exceptions of `AssertionsHold` in `somgr_safety` are those of section 2 (`Somgr`), that of
`HandledUnlessStarved` is `Starved`, and the properties of `write_safety` speak of the time before
an assertion fails.

## 4. Fairness

* `dispatch`: strong fairness of each thread's steps. A thread is scheduled by
  the OS for ever, so it is tried again and again; `lock_lock` is a test-and-set
  loop without a queue, so a lock that is free infinitely often is assumed to be got
  in the end (strong, not weak). `HandlerReturn` and `TimerCheck` have strong fairness of their
  own, since a thread may post there instead of going on: every Lua handler ends, and so does every
  `gt_update`, after any number of posts. `BeginPost` and `SpuriousWake` have none, they need
  not happen, and may happen for ever. The signal comes
  from `tTimer`, which loops for ever.
* `timer_exact`: weak fairness of the steps of `timer_tick`: `tTimer` calls it every
  10 ms and callbacks return. Adding and deleting are not fair.
* `env_timers`: weak fairness of each timer becoming due (which `timer_exact` shows)
  and of the handling of messages (which `dispatch` shows of an env that is not starved).
* `env_sockets`: weak fairness of each env's handlers (`dispatch` shows that messages are
  handled unless the env is starved; a script returns or raises an error, it need not call anything) and of
  `gs_update`, which `tSocket` calls for ever. Clients owe nothing.
* `somgr_safety`: weak fairness of `RunOnce`: whoever owns a `somgr_t` calls `somgr_runonce` in a
  loop, and callbacks return. `RemovedIsTold` needs no more. A call of the interface
  is never due.

## 5. Proofs

`DispatchProofs` proves, for any finite non-empty set of workers and any envs and
messages (`ThreadsAssumption` is all that is assumed):

| Theorem | Statement |
|---|---|
| `TypeCorrect` | `Spec => []TypeOK` |
| `InvariantHolds` | `Spec => []IInv` |
| `ExclusiveEnvHolds` | one worker per Lua VM |
| `NoLostEnvHolds` | an env with messages is queued, owned or being scheduled |
| `AssertionsHoldAlways` | the assertions of `gq.c` |
| `OneHolderHolds` | a message has one holder from MALLOC to FREE |
| `RefinesMailbox` | `Dispatch` implements `Mailbox` |

None of the safety properties is inductive: that a worker is alone on an env
depends on `mIsG`, which depends on who holds which lock, which depends on where
each thread stands. The inductive invariant has three layers, each proved from
the ones before:

1. `LocalInv` = types, and what each thread's `pc` says about its locals. `CountInv`
   in it says that `wokingNum` is minus the number of idle workers, from which its range
   follows, and that the test of the timer thread never fails.
2. `LockInv`: a thread that stands between a lock and its unlock holds it.
3. `QueueInv`: an env is in the global queue at most once, owned at most once, and
   never both; `mIsG` is set when it is queued or owned, except in the window
   between `gq_push_mq_raw` and `mIsG = 1` (`push_mark`), which the mq lock protects;
   and an env with messages that is not marked is being scheduled.

Every `...Step` lemma has one case per action. Actions that touch neither queue nor
marks are dealt with together by `QuietStep`. For `OneHolder` and the refinement, `HolderInv` adds
that a message which is not `unused` is with one poster, at one place of one mq or with
one worker, and with none of the others; `RefinesStep` maps `PushMsg` to
`Post`, `MqTake` of a message to `Start`, `HandlerReturn` to `Finish`, and every other step
to a stutter.

`EnvPostProofs` proves of the registry, for any threads, any number of envs and any growth of the
list (`RegistryAssumption`: 0 is not a thread, the list begins with room for the two
envs of `main`):

| Theorem | Statement |
|---|---|
| `ListInvHolds` | `Spec => [](TypeInv /\ ListInv)` |
| `TypeCorrect` | `Spec => []TypeOK` |
| `IdNamesOneEnvHolds` | an id names one env for ever |
| `UpInvHolds` | with `~Exposed`: `Spec => [](TypeInv /\ ListInv /\ UpInv)` |
| `MoveInvHolds` | `Spec => [](TypeInv /\ ListInv /\ MoveInv)` |
| `PostsFindQueueHolds` | with `~Exposed`: who has an id posts to an env that lives and has a queue, or has read an `mList` that was moved, which takes `Grow - 1` envs |
| `VmRunByOneHolds` | with `~Exposed`: one thread per Lua VM, boots included |

Again three layers. `TypeInv` adds to the types that a thread about to publish or boot
an env has one in hand. `ListInv` relates the list, the lock and the envs under creation:
who looks for an id or publishes has the lock, and the id it found is still the one it
would find now; every env that was ever made is in the list under its id or about to
be put there. Without the second half `IdNamesOneEnv` is not inductive: two threads
could hold the same id. `UpInv` says that the ids scripts have lead to envs whose boot
has ended, that queues and handlers belong to such envs only, and that the stacks of
boots share no env. It needs `~Exposed`, and `env_boot` shows what happens without.
`MoveInv` says that the list has moved only if all its first ids were taken, and that they stay so.
`NewIdIsFree` rests on `LeastNatural`, which comes from the well-foundedness of
strict inclusion among finite sets, since `CHOOSE` of the first free entry needs a
least one to exist.

Of messages `EnvPostProofs` proves, for any set of Lua values nested to any depth, any lists
of arguments, any base and any borders of the one-byte forms (`MsgPackAssumption`: they are
below what a byte or a two-byte length holds, as in the code; `ValuesAssumption`: `Values` are Lua
values; `PostAssumption`: what is posted is what `Pack` makes of a non-empty list of them):

| Theorem | Statement |
|---|---|
| `PayloadInvHolds` | `PostSpec => [](TypeInv /\ PayloadInv)` |
| `DeliveredAsSentHolds` | what arrives is what was posted, but for what the format has no place for |
| `StreamsAgreeHolds` | `unpack_one` and `unpack_limit` read what `unpack` reads |
| `CutIsRefusedHolds` | a payload that lost its end is refused or gives fewer whole values |
| `BuffersHoldHolds` | what counts as free in the buffer was allocated |

`PayloadInv` says that `args` is one of the inputs and that all bytes queued, in hand of a
poster or being handled are `Pack(args)`; it is inductive with the types (`OnlyStep`), since the steps of the registry hand
payloads on and never make any. With it each property is a fact about
`Unpack(Pack(a))`, and the rest of the module is the proof of that fact:

1. Numbers. `Bytes` and `NumberAt` are inverse modulo `Pow(w)` (`NumberRead`), and with the sign on all of
   int64 (`IntCoded`): this is where an error at a border of one of the ten forms would show.
2. The recursion. A recursive function is what its body says only if some function is, which
   is to be proved: by induction from the deepest level up for `Encoding`, `Keeping` and `Losing`, from the
   end of the input for `Loops`. The latter takes that no turn ends before it
   starts (`TurnGoesOn`) and depends on later offsets only (`TurnSame`). With no induction theorem at hand the
   inductions are by the least counterexample (`LeastNatural`, `UpTo`, `DownFrom`).
3. Values. `ReadValue`: wherever in a byte string the bytes `Code(v, level)` stand, `mp_decode_to_lua_type`
   reads `Kept(v, level)` there and stops behind them; if a key is lost it is refused, and if the
   string ends before they do bytes are missing. That the reading of *cut* input is part of the
   statement makes the induction go through, and is all that `CutIsRefused` needs.
   The induction is over the levels; lists, maps and argument lists are one lemma (`Items`) about a loop over
   parts each of which is read, by induction over the parts from the last to the first.
4. Calls. From `Items`, what a call with any limit and offset returns (`UnpackRead`), and by induction over the
   calls that they read the stream value by value (`CallsRead`).
5. The buffer. `WriteFits`: `len + free <= cap` survives `BufAppend` and `BufReuse`. It is strict
   arithmetic on what the code counts, and the induction over the writes is `BuffersFit`.

`TimerWheelProofs`, for wheels of any size, any pool, waits and repeats, with `~DelAnywhere`
(`timer_del` on the first of a list at most: `uq_erase` loses timers elsewhere, and mul
never calls it):

| Theorem | Statement |
|---|---|
| `TimersHaveOneHome` | `Spec => []OneHome` |
| `NearestIsInTime` | `Spec => []NearestMissesNone` |
| `WheelIsExact` | `Spec => ImplementsDeadlines` |

`OneHome` counts places, which is not a form to reason with. `WheelInv` says instead that there is
a function from the pool to the places (the slots, `longlist`, `freelist`, in the
callback) such that each list has exactly the tids of its place, each once. Each
`...Step` lemma takes the function of the old state and gives that of the new one, and
says besides what happened to the timers that wait: they stay, one joins, one
leaves, or all come nearer by one call. `LeftOf`, the calls a timer has still to wait,
is arithmetic modulo the size of the wheel; `NearerSlot` is what the turn does to it.
From these `OneHome` is counted, `timer_nearest` compared with the least of the busy
slots, and the refinement follows action by action. `TickOK` is needed for it: `timer_tick` takes `objn`
objects at most, and only since nothing joins the slot at work (0 ticks
become 1 in a callback) is the slot empty when the call ends.

`GlobalSocketProofs`, for any threads, slots, descriptors, connections and calls:

| Theorem | Hypotheses | Statement |
|---|---|---|
| `LocksNeverCircle` | `[]TableHasRoom` | no threads wait in a ring for the locks of slots |
| `DescriptorsHaveHomes` | `~LateListen`, `[]TableHasRoom` | `EveryFdHasAHome` |
| `WatchedSocketsAreLive` | the same | `WatchedIsLive` |
| `NothingIsLeftUnnoticed` | the same, `[]DescriptorsLeft` | `NothingUnnoticed` |

The hypotheses are what the code asks of its callers and its surroundings. `TableHasRoom`: the last slot
is free; a scan of a full table returns a slot it holds no lock of. `~LateListen`: all listeners are opened before
the first connection, since `so_listen` takes the slot numbered like its descriptor
without looking (`gs.c:236`). `DescriptorsLeft`: `accept` does not run out of
descriptors; `socket_emfile` shows the edge that is lost when it does. `socket_safety` has the first two
in every state (its fifth slot stays free) and four descriptors, enough for its two listeners and two connections.
Layers: `ControlInv` says for each thread and `pc` which locks it still wants (`Ahead`) and that
it holds precisely the rest of those of the function it is in (`Route`). `TableInv` adds what a thread relies on
while it has a lock, that a descriptor is in one place at most, and `RingFree`: of any
threads between `accept` and the lock of their new slot, one waits for a slot nobody in
the set listens on. The locks of one slot are taken in the order S, R, W, E, and only an
acceptor holds a lock while it waits for one of another slot; so a ring of waiting threads
would be a ring of acceptors. `RingFree` is kept because the slot an acceptor chooses is free at that
moment, while the slots the others listen on are in use: the last to choose cannot close a ring. `ServeInv` adds that no descriptor is without a place and
that served sockets are watched, and `NoticeInv` that what a socket has to offer is known to
the ready list, to the event in hand, or to a worker at `accept` or `read`.

`WriteQueueProofs`, for any sockets, writers, pieces and closes (`Slots` finite), without
further hypotheses, up to the assertion that fails (`write_assert`):

| Theorem | Statement |
|---|---|
| `WrittenIsQueued` | `Spec => []UnsentIsQueued` |
| `NoneLinkedTwice` | `Spec => []LinkedIsMarked` |
| `CountCoversList` | `Spec => []QnCoversList` |

`_pushWQ` never moves `mWTail`, so from the third socket on each push unlinks the one before it: the list that can
be reached has two sockets at most. Such a socket still has `mInq` set and its bytes, and nobody will flush it.
`UnsentIsQueued` says therefore that a socket with bytes is marked and in the flush or in the list,
*or* that `mQn` counts more than the list has, which is when the flush runs into its assertion. For this `mQn` is
shown to be the number of the sockets that wait, reachable or not (`WaitingCounted`). `ListShape` in `QueueInv` says which two-socket lists there are;
without it `mQn` could not be compared with the list. `Linked`, which walks the list, is a
recursive function; that its values are what its definition says is shown by the
least counterexample (`LinkedByChains`), as induction over data is not at hand.

`EnvTimersProofs`: `SessionsAreUnique`, `Spec => []OneUnderWay`, for any number of sessions and repeats. The
invariant `UnderWay` says for each session that its timer is in the wheel, or one message of
it in the queue, or it has no runs left. `OneUnderWay` alone is not inductive: a session with two messages and one run
left would pass the count and not the next step.

`EnvSocketsProofs`, for any envs, sids, connections and calls: `CallbacksAreFound`
(`CallbackFound`) and `MessagesReachOwners` (`ToItsOwner`). `MailInv` joins the state of a slot, the owner `mEnv` and
the entry of `mSockets` (`SlotOK`) to every letter under way (`LetterOK`): a letter about a
socket that is still there is in its owner's queue, and any letter finds an entry,
since entries are never removed, which is the same fact that makes `env.lua:44` fail.

`SomgrProofs`, for a table of any size and buffers of any length, without hypotheses:

| Theorem | Statement |
|---|---|
| `EachHasOneHome` | `Spec => []OneHome` |
| `BytesAreNotForgotten` | `Spec => []UnsentIsArmed` |
| `NothingIsWrittenBehind` | `Spec => []BytesFit` |
| `EventsAreNotStale` | `Spec => []EventsFindSockets` |
| `NoAssertionFails` | `Spec => []AssertionsHold` |
| `TellsBeforeReuse` | `Spec => ToldBeforeReuse`, an action property |

`MgrOK` is what a manager is between two operations: each queue has its sockets once
and exactly those whose flags say so, a removed socket is watched no more, and one in use is watched for what it waits
for. In the middle of an operation this is broken at one socket (`Loose`), and each function of the
code is a lemma that says which loose socket it mends. `CallOK` and `EventsOK` relate the callback and the batch in
hand to the manager: that no socket of the batch can be reused before its event is handled
comes from `badsos`, which only the loop at `somgr.c:315` empties. `NoAssertionFails` follows from all of them: a
socket in hand is not in the pool, and one that is neither free nor bad is in no queue but `writesos`.

Only model-checked:

* liveness (`HandledUnlessStarved`, `ArmedGetsDone`, `TimeoutEnds`, `DataIsRead`,
  `ConnectionAccepted`, `RemovedIsTold`), which is beyond the prover. Every safety
  property of the passing runs is proved.

The theorems about `TimerWheel` and `GlobalSocket` say nothing of the cases their
hypotheses leave out, and there the code is wrong: see `DelAnywhere`, `LateListen` and
`socket_emfile` above.

## 6. Not modelled

* Memory: `tw[wokingNum]` in `main`, reads one beyond `mList` or the socket table, the slots
  of the Lua stack. Buffer sizes are modelled in `Somgr` and `MsgPack` only. Where the code overwrites its own bookkeeping the model stops.
* Bytes on the wire; reads and writes are counted, so that `so_read` puts each piece at
  the beginning of the buffer (`gs.c:389`) is not seen. Of messages between envs the
  contents are in `MsgPack`, without the digits of floats.
* A `sid` or env id the program never handed out. A full table of sockets (65534) is in
  `GlobalSocket` (`Scan`), but no run fills it.
* `somgr_notify_s`, `_g`, `_wait_g` (a pipe to wake `epoll_wait`), the read buffer and the addresses of
  `somgr`.
* `mp_safe` (a `pcall`), the registration of `cmsgpack`, `class.lua`, `timer.lua`, the demo scripts, the
  vendored libraries.
* `MTYPE_SOCKET_ERROR`: it is posted, but `env_process_msg` has no case for it.
* The `EPOLLOUT` branch of `gs_update`: nothing registers for `EPOLLOUT`.
* Weak memory: the locks are built on `__sync` primitives, which order memory; the
  reads outside locks (`wokingNum`, `mFd`, `mState`) are of single words.

## 7. Plan

Done: all the modules above, and theorems for every safety property of the passing
runs.

Next, in this order:

1. `NothingIsLeftUnnoticed` for accepts that run out of descriptors between two edges:
   which weaker promise survives EMFILE.
2. Without `TableHasRoom`: what is left of the lock discipline when the scan of a full table
   returns a slot it holds no lock of, as a run of its own.
3. A composition of `EnvTimers` with `Mailbox`, in place of its own mailbox.
4. The digits of floats in `MsgPack`, and numbers that are integers beyond 2^53, which a
   Lua with doubles only cannot hold.
