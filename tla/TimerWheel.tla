----------------------------- MODULE TimerWheel ------------------------------
(***************************************************************************)
(* The timer wheel of common/timer/timer.c.  A timer waits in the slot of  *)
(* the tick it is due in, or, when that is more than one turn of the wheel *)
(* away, in longlist; unused objects wait in freelist.                     *)
(*                                                                         *)
(* timer_tick is split where it calls back: a callback may add and delete  *)
(* timers.  gt.c calls everything under one lock, so nothing else can come *)
(* in between.  The lists are sequences.  objn is their length, or more    *)
(* once uq_erase has not lowered it; timer_tick, which reads it, stops at  *)
(* an empty slot just the same, and nothing joins the slot it works on.    *)
(***************************************************************************)
EXTENDS Integers, Sequences, FiniteSets

CONSTANTS
  TickCounts,  \* wheel sizes timer_new is called with
  Timeouts,    \* ticks callers ask for
  Repeats,     \* repeat counts callers ask for; 0 is for ever
  FirstPool,   \* objects of the first expand_objpool (8 in the code)
  MaxPool,     \* bound: expand_objpool is not called beyond this size
  DelAnywhere, \* timer_del is called on any timer, or only where uq_erase
               \* unlinks no other: on the first of a list
  Null

ASSUME TimerAssumption ==
  /\ TickCounts \subseteq Nat \ {0}
  /\ Timeouts \subseteq Nat
  /\ Repeats \subseteq Nat
  /\ FirstPool \in Nat \ {0} /\ MaxPool \in Nat
  /\ DelAnywhere \in BOOLEAN
  /\ Null \notin [id : Nat, timeout : Nat, last : BOOLEAN, repeat : Nat]

Ids == 1 .. MaxPool

VARIABLES
  ticklistn, \* number of slots
  ticklist,  \* slot -> sequence of tids
  longlist,  \* tids due after more than a turn
  freelist,  \* tids not in use
  objpooln,  \* tids 1 .. objpooln exist
  obj,       \* tid -> timeout, timeleft, repeat
  current,   \* slot of the next timer_tick
  ticking,   \* tid of the last callback of this timer_tick, or 0
  phase,     \* where timer_tick stands: "idle", "loop", "callback"
  num,       \* timer_tick: objects of the slot still to look at
  erased     \* timer_tick: the callback that runs is the last one

lists == <<ticklist, longlist, freelist>>
tickVars == <<ticking, phase, num, erased>>
vars == <<ticklistn, lists, objpooln, obj, current, tickVars>>

Slots == 0 .. ticklistn - 1
Blank == [timeout |-> 0, timeleft |-> 0, repeat |-> 0]

\* timer_new
Init ==
  /\ ticklistn \in TickCounts
  /\ ticklist = [s \in Slots |-> <<>>]
  /\ longlist = <<>>
  /\ freelist = <<>>
  /\ objpooln = 0
  /\ obj = [id \in Ids |-> Blank]
  /\ current = 0
  /\ ticking = 0
  /\ phase = "idle"
  /\ num = 0
  /\ erased = FALSE

-----------------------------------------------------------------------------
\* uq_addtail, and what uq_pophead leaves of a list; it returns the Head.
AddTail(list, id) == Append(list, id)
PopHead(list) == Tail(list)

\* Mutant: a long timer is charged for a whole turn instead of the rest of it.
AddObjWholeTurn(id, t, r) ==
  LET left == IF ticking # 0 /\ t = 0 THEN 1 ELSE t IN
  IF left >= ticklistn
  THEN /\ longlist' = Append(longlist, id)
       /\ obj' = [obj EXCEPT ![id] = [timeout |-> t, repeat |-> r,
                                      timeleft |-> left - ticklistn]]
       /\ UNCHANGED ticklist
  ELSE /\ ticklist' = [ticklist EXCEPT ![(current + left) % ticklistn] = Append(@, id)]
       /\ obj' = [obj EXCEPT ![id] = [timeout |-> t, repeat |-> r, timeleft |-> left]]
       /\ UNCHANGED longlist

\* add_obj_raw with timeleft = timeout.
AddObj(id, t, r) ==
  LET left == IF ticking # 0 /\ t = 0 THEN 1 ELSE t IN
  IF left >= ticklistn
  THEN /\ longlist' = AddTail(longlist, id)
       /\ obj' = [obj EXCEPT ![id] = [timeout |-> t, repeat |-> r,
                                      timeleft |-> left - (ticklistn - current)]]
       /\ UNCHANGED ticklist
  ELSE /\ ticklist' = [ticklist EXCEPT ![(current + left) % ticklistn] = AddTail(@, id)]
       /\ obj' = [obj EXCEPT ![id] = [timeout |-> t, repeat |-> r, timeleft |-> left]]
       /\ UNCHANGED longlist

\* expand_objpool, called when freelist is empty.
PoolAfterGrowth == IF objpooln = 0 THEN FirstPool ELSE objpooln * 2
Grown == [i \in 1 .. PoolAfterGrowth - objpooln |-> objpooln + i]

\* timer_add, between two ticks or from a callback.
TimerAdd(t, r) ==
  LET free == IF freelist = <<>> THEN Grown ELSE freelist IN
  /\ phase # "loop"
  /\ freelist = <<>> => PoolAfterGrowth <= MaxPool
  /\ objpooln' = IF freelist = <<>> THEN PoolAfterGrowth ELSE objpooln
  /\ freelist' = PopHead(free)
  /\ AddObj(Head(free), t, r)
  /\ UNCHANGED <<ticklistn, current, tickVars>>

\* uq_erase: the head of the list becomes the successor of the erased object,
\* wherever that one stands.
Erased(list, id) ==
  SubSeq(list, 1 + CHOOSE i \in DOMAIN list : list[i] = id, Len(list))

MayErase(list, id) ==
  \E i \in DOMAIN list : list[i] = id /\ (DelAnywhere \/ i = 1)

\* timer_del of a timer that runs its callback: one more run is left to it.
TimerDelTicking ==
  /\ phase = "callback"
  /\ obj' = [obj EXCEPT ![ticking].repeat = 1]
  /\ UNCHANGED <<ticklistn, lists, objpooln, current, tickVars>>

\* timer_del of any other object: out of its list and back to freelist.
TimerDel(id) ==
  /\ phase # "loop"
  /\ \/ \E s \in Slots :
          /\ MayErase(ticklist[s], id)
          /\ ticklist' = [ticklist EXCEPT ![s] = Erased(@, id)]
          /\ freelist' = AddTail(freelist, id)
          /\ UNCHANGED longlist
     \/ /\ MayErase(longlist, id)
        /\ longlist' = Erased(longlist, id)
        /\ freelist' = AddTail(freelist, id)
        /\ UNCHANGED ticklist
     \/ /\ MayErase(freelist, id)
        /\ freelist' = AddTail(Erased(freelist, id), id)
        /\ UNCHANGED <<ticklist, longlist>>
  /\ obj' = [obj EXCEPT ![id] = Blank]
  /\ UNCHANGED <<ticklistn, objpooln, current, tickVars>>

-----------------------------------------------------------------------------
(* timer_tick.                                                             *)

TickBegin ==
  /\ phase = "idle"
  /\ phase' = "loop"
  /\ num' = Len(ticklist[current])
  /\ UNCHANGED <<ticklistn, lists, objpooln, obj, current, ticking, erased>>

\* The next object of the slot is taken off and called back.
TickCall ==
  LET id == Head(ticklist[current])
      r == obj[id].repeat
  IN
  /\ phase = "loop"
  /\ num > 0 /\ ticklist[current] # <<>>
  /\ num' = num - 1
  /\ ticklist' = [ticklist EXCEPT ![current] = PopHead(@)]
  /\ ticking' = id
  /\ obj' = [obj EXCEPT ![id].repeat = IF r > 0 THEN r - 1 ELSE 0]
  /\ erased' = (r = 1)
  /\ phase' = "callback"
  /\ UNCHANGED <<ticklistn, longlist, freelist, objpooln, current>>

\* Mutant: an object that ran for the last time is not put back.
TickReturnLeaks ==
  /\ phase = "callback"
  /\ phase' = "loop"
  /\ \/ /\ erased
        /\ obj' = [obj EXCEPT ![ticking] = Blank]
        /\ UNCHANGED lists
     \/ /\ ~erased
        /\ AddObj(ticking, obj[ticking].timeout, obj[ticking].repeat)
        /\ UNCHANGED freelist
  /\ UNCHANGED <<ticklistn, objpooln, current, ticking, num, erased>>

\* The callback returns: the object is freed or armed again.
TickReturn ==
  /\ phase = "callback"
  /\ phase' = "loop"
  /\ \/ /\ erased
        /\ freelist' = AddTail(freelist, ticking)
        /\ obj' = [obj EXCEPT ![ticking] = Blank]
        /\ UNCHANGED <<ticklist, longlist>>
     \/ /\ ~erased
        /\ AddObj(ticking, obj[ticking].timeout, obj[ticking].repeat)
        /\ UNCHANGED freelist
  /\ UNCHANGED <<ticklistn, objpooln, current, ticking, num, erased>>

\* A timer of longlist is due in the turn that begins.
DueInTurn(id) == obj[id].timeleft < ticklistn

\* Mutant: the timers that are due in the turn stay in longlist.
TurnForgets ==
  /\ obj' = [id \in Ids |->
               IF (\E i \in DOMAIN longlist : longlist[i] = id) /\ ~DueInTurn(id)
               THEN [obj[id] EXCEPT !.timeleft = @ - ticklistn]
               ELSE obj[id]]
  /\ UNCHANGED <<ticklist, longlist>>

\* What uq_pophead, one after the other, finds in a list of the tids in S.
Those(list, S) ==
  LET found[n \in 0 .. Len(list)] ==
        IF n = 0 THEN <<>>
        ELSE IF list[n] \in S THEN Append(found[n - 1], list[n])
        ELSE found[n - 1]
  IN  found[Len(list)]

\* A new turn begins: long timers due in it get their slots, in the order they
\* stand in longlist, the others have one turn less to wait.
Turn ==
  /\ ticklist' = [s \in Slots |->
                    ticklist[s] \o Those(longlist, {id \in Ids : obj[id].timeleft = s})]
  /\ longlist' = Those(longlist, {id \in Ids : ~DueInTurn(id)})
  /\ obj' = [id \in Ids |->
               IF (\E i \in DOMAIN longlist : longlist[i] = id) /\ ~DueInTurn(id)
               THEN [obj[id] EXCEPT !.timeleft = @ - ticklistn]
               ELSE obj[id]]

TickEnd ==
  /\ phase = "loop"
  /\ num = 0 \/ ticklist[current] = <<>>
  /\ phase' = "idle"
  /\ num' = 0
  /\ ticking' = 0
  /\ erased' = FALSE
  /\ current' = (current + 1) % ticklistn
  /\ \/ current' = 0 /\ Turn
     \/ current' # 0 /\ UNCHANGED <<ticklist, longlist, obj>>
  /\ UNCHANGED <<ticklistn, freelist, objpooln>>

Tick == TickBegin \/ TickCall \/ TickReturn \/ TickEnd

Next ==
  \/ \E t \in Timeouts, r \in Repeats : TimerAdd(t, r)
  \/ \E id \in Ids : TimerDel(id)
  \/ TimerDelTicking
  \/ Tick

Spec == Init /\ [][Next]_vars

\* gt_update comes every 10 ms and callbacks return.
FairSpec == Spec /\ WF_vars(Tick)

-----------------------------------------------------------------------------
In(list, id) == \E i \in DOMAIN list : list[i] = id

Armed == {id \in Ids : In(longlist, id) \/ \E s \in Slots : In(ticklist[s], id)}

\* Where a tid is: list number and place in it (slots are numbered from 0).
Homes(id) ==
  (UNION {{<<s, i>> : i \in {i \in DOMAIN ticklist[s] : ticklist[s][i] = id}} : s \in Slots})
  \cup {<<-1, i>> : i \in {i \in DOMAIN longlist : longlist[i] = id}}
  \cup {<<-2, i>> : i \in {i \in DOMAIN freelist : freelist[i] = id}}
  \cup IF phase = "callback" /\ ticking = id THEN {<<-3, 0>>} ELSE {}

\* Calls of timer_tick that complete before the one id is due in.
Left(id) ==
  IF In(longlist, id) THEN obj[id].timeleft + (ticklistn - current)
  ELSE ((CHOOSE s \in Slots : In(ticklist[s], id)) - current) % ticklistn

\* Mutant: the slot that is due next is not looked at.
NearestSkipsFirst ==
  LET busy == {s \in current + 1 .. ticklistn - 1 : ticklist[s] # <<>>}
  IN  IF busy = {} THEN ticklistn - current
      ELSE (CHOOSE s \in busy : \A u \in busy : s <= u) - current

\* timer_nearest: up to the next object that is due in this turn.
Nearest ==
  LET busy == {s \in current .. ticklistn - 1 : ticklist[s] # <<>>}
  IN  IF busy = {} THEN ticklistn - current
      ELSE (CHOOSE s \in busy : \A u \in busy : s <= u) - current

TypeOK ==
  /\ ticklistn \in TickCounts
  /\ ticklist \in [Slots -> Seq(Ids)]
  /\ longlist \in Seq(Ids)
  /\ freelist \in Seq(Ids)
  /\ objpooln \in 0 .. MaxPool
  /\ obj \in [Ids -> [timeout : Nat, timeleft : Nat, repeat : Nat]]
  /\ current \in Slots
  /\ ticking \in 0 .. objpooln
  /\ phase \in {"idle", "loop", "callback"}
  /\ num \in Nat
  /\ erased \in BOOLEAN

\* Beside TypeOK, no object is lost and none is in two places: every tid of the pool is in
\* exactly one list, once, or runs its callback (the container and NULL checks
\* of uq_addtail and uq_pophead rely on it).
OneHome ==
  /\ TypeOK
  /\ \A id \in Ids : Cardinality(Homes(id)) = IF id <= objpooln THEN 1 ELSE 0

\* A poller that sleeps for timer_nearest ticks misses no timer, long ones and
\* those of the next turn included.
NearestMissesNone ==
  phase = "idle" => \A id \in Armed : Nearest <= Left(id)

\* Every timer that is armed gets its callback or is deleted.
ArmedGetsDone == \A id \in Ids : id \in Armed ~> id \notin Armed

-----------------------------------------------------------------------------
firingBar ==
  IF phase = "callback"
  THEN [id |-> ticking, timeout |-> obj[ticking].timeout,
        last |-> erased, repeat |-> obj[ticking].repeat]
  ELSE Null

timersBar ==
  [id \in Armed |-> [left |-> Left(id), timeout |-> obj[id].timeout,
                     repeat |-> obj[id].repeat]]

DT == INSTANCE DeadlineTimers WITH
        timers <- timersBar, firing <- firingBar, inTick <- phase # "idle"

\* Turning the wheel, moving long timers and re-arming never change the tick
\* in which a timer is due: the wheel is exact.
ImplementsDeadlines == DT!Spec
==============================================================================
