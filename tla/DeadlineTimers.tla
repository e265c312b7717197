--------------------------- MODULE DeadlineTimers ----------------------------
(***************************************************************************)
(* What timer.h promises: a timer added with t ticks to wait runs its      *)
(* callback in the t+1-st call of timer_tick from then on, and one that    *)
(* repeats runs it again every t calls (every call if t is 0).  There is   *)
(* no wheel here, only the number of calls each timer still waits for;     *)
(* TimerWheel.tla is shown to implement this module.                       *)
(***************************************************************************)
EXTENDS Integers

CONSTANTS
  Ids,       \* timer ids (tids) there are
  Timeouts,  \* the waiting times callers ask for
  Repeats,   \* the repeat counts callers ask for; 0 stands for ever
  Null

VARIABLES
  timers,    \* armed tid -> [left, timeout, repeat]
  firing,    \* tid whose callback runs, with its timeout and repeat, or Null
  inTick     \* timer_tick is being executed

vars == <<timers, firing, inTick>>

Init ==
  /\ timers = [id \in {} |-> Null]
  /\ firing = Null
  /\ inTick = FALSE

\* Inside a callback nothing can be due in the call that is being executed.
Soon(t) == IF inTick /\ t = 0 THEN 1 ELSE t

Busy(id) == id \in DOMAIN timers \/ (firing # Null /\ firing.id = id)

\* The timers with id among them, to run after t calls.
With(id, t, r) ==
  [i \in DOMAIN timers \cup {id} |->
     IF i = id THEN [left |-> Soon(t), timeout |-> t, repeat |-> r] ELSE timers[i]]

Without(id) == [i \in DOMAIN timers \ {id} |-> timers[i]]

Arm(id, t, r) ==
  /\ ~Busy(id)
  /\ timers' = With(id, t, r)
  /\ UNCHANGED <<firing, inTick>>

\* A timer that is not running its callback is gone when it is deleted.
Cancel(id) ==
  /\ id \in DOMAIN timers
  /\ timers' = Without(id)
  /\ UNCHANGED <<firing, inTick>>

\* One deleted from its own callback runs once more if it was to run again.
CancelFiring ==
  /\ firing # Null
  /\ firing' = [firing EXCEPT !.repeat = 1]
  /\ UNCHANGED <<timers, inTick>>

BeginTick ==
  /\ ~inTick
  /\ inTick' = TRUE
  /\ UNCHANGED <<timers, firing>>

\* A callback starts; the last run of a timer is known by then.
Fire(id) ==
  /\ inTick
  /\ firing = Null
  /\ id \in DOMAIN timers
  /\ timers[id].left = 0
  /\ LET r == timers[id].repeat
     IN  firing' = [id |-> id, timeout |-> timers[id].timeout, last |-> r = 1,
                    repeat |-> IF r = 0 THEN 0 ELSE r - 1]
  /\ timers' = Without(id)
  /\ UNCHANGED inTick

Return ==
  /\ firing # Null
  /\ firing' = Null
  /\ timers' = IF firing.last THEN timers
               ELSE With(firing.id, firing.timeout, firing.repeat)
  /\ UNCHANGED inTick

\* The call ends when everything due in it has run; all others come closer.
EndTick ==
  /\ inTick
  /\ firing = Null
  /\ \A id \in DOMAIN timers : timers[id].left > 0
  /\ timers' = [id \in DOMAIN timers |->
                  [timers[id] EXCEPT !.left = @ - 1]]
  /\ inTick' = FALSE
  /\ UNCHANGED firing

Next ==
  \/ \E id \in Ids, t \in Timeouts, r \in Repeats : Arm(id, t, r)
  \/ \E id \in DOMAIN timers : Cancel(id) \/ Fire(id)
  \/ CancelFiring \/ BeginTick \/ Return \/ EndTick

Spec == Init /\ [][Next]_vars
==============================================================================
