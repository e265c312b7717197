------------------------------ MODULE EnvTimers ------------------------------
(***************************************************************************)
(* The timers of an env end to end: env:timeout of lualib/env.lua picks a  *)
(* session, gt.c arms a one-shot timer for it, the timer thread posts the  *)
(* session to the env, c_onTimer looks the session up and arms it again    *)
(* while runs are left.                                                    *)
(*                                                                         *)
(* The env handles one message at a time (Dispatch.tla), so its steps are  *)
(* whole Lua functions; the timeouts a callback asks for are steps after   *)
(* it.  The wheel (TimerWheel.tla) gives its timers back in any order.     *)
(***************************************************************************)
EXTENDS Integers, Sequences, FiniteSets

CONSTANTS
  MaxSession,  \* 0xffffffff in the code
  Repeats      \* repeatn of env:timeout

ASSUME EnvTimersAssumption == MaxSession \in Nat /\ Repeats \subseteq Nat

Sessions == 0 .. MaxSession

VARIABLES
  mTimerCbs,     \* session -> runs left to its callback; 0 without an entry
  mTimerSession, \* the session handed out last
  armed,         \* timers in the wheel: session -> how many
  mailbox        \* MTYPE_TIMER messages for the env

vars == <<mTimerCbs, mTimerSession, armed, mailbox>>

Init ==
  /\ mTimerCbs = [s \in Sessions |-> 0]
  /\ mTimerSession = 0
  /\ armed = [s \in Sessions |-> 0]
  /\ mailbox = <<>>

FreeSessions == {s \in Sessions : mTimerCbs[s] = 0}

\* Mutant: a session that is in use may be handed out again.
NextSessionUnchecked == (mTimerSession + 1) % (MaxSession + 1)

\* The first free one behind the last, from 0 again beyond the limit.
NextSession ==
  LET Behind(d) == (mTimerSession + d) % (MaxSession + 1)
      steps == {d \in 1 .. MaxSession + 1 : Behind(d) \in FreeSessions}
  IN  Behind(CHOOSE d \in steps : \A e \in steps : d <= e)

\* c_timeoutRaw and gt_add.
TimeoutRaw(s) == armed' = [armed EXCEPT ![s] = @ + 1]

\* env:timeout; it would search for ever if every session was taken.
Timeout(repeatn) ==
  LET sess == NextSession IN
  /\ FreeSessions # {}
  /\ mTimerSession' = sess
  /\ mTimerCbs' = [mTimerCbs EXCEPT ![sess] = IF repeatn <= 1 THEN 1 ELSE repeatn]
  /\ TimeoutRaw(sess)
  /\ UNCHANGED mailbox

\* gt_update: a timer is due and _cb posts its session.
Due(s) ==
  /\ armed[s] > 0
  /\ armed' = [armed EXCEPT ![s] = @ - 1]
  /\ mailbox' = Append(mailbox, s)
  /\ UNCHANGED <<mTimerCbs, mTimerSession>>

\* Mutant: a callback that has runs left is not armed again.
OnTimerOnce ==
  LET s == Head(mailbox) IN
  /\ mailbox # <<>>
  /\ mailbox' = Tail(mailbox)
  /\ mTimerCbs' = [mTimerCbs EXCEPT ![s] = IF @ > 0 THEN @ - 1 ELSE 0]
  /\ UNCHANGED <<mTimerSession, armed>>

\* c_onTimer; a session without an entry would only raise an error.
OnTimer ==
  LET s == Head(mailbox) IN
  /\ mailbox # <<>>
  /\ mailbox' = Tail(mailbox)
  /\ mTimerCbs' = [mTimerCbs EXCEPT ![s] = IF @ > 0 THEN @ - 1 ELSE 0]
  /\ IF mTimerCbs[s] > 1 THEN TimeoutRaw(s) ELSE UNCHANGED armed
  /\ UNCHANGED mTimerSession

Next ==
  \/ \E n \in Repeats : Timeout(n)
  \/ \E s \in Sessions : Due(s)
  \/ OnTimer

Spec == Init /\ [][Next]_vars

\* The timer thread ticks, and what is posted to an env is handled.
FairSpec == Spec /\ WF_vars(OnTimer) /\ \A s \in Sessions : WF_vars(Due(s))

-----------------------------------------------------------------------------
TypeOK ==
  /\ mTimerCbs \in [Sessions -> Nat]
  /\ mTimerSession \in Sessions
  /\ armed \in [Sessions -> Nat]
  /\ mailbox \in Seq(Sessions)

\* Beside TypeOK, a session stands for one timeout at a time, across wrap-around and reuse:
\* one that has runs left has exactly one timer or message under way, any other
\* session has none.  Hence c_onTimer finds the callback that was meant (the
\* assertion at line 76 of env.lua) and no other.
OneUnderWay ==
  TypeOK /\ \A s \in Sessions :
    armed[s] + Cardinality({i \in DOMAIN mailbox : mailbox[i] = s})
      = IF mTimerCbs[s] > 0 THEN 1 ELSE 0

\* Every timeout comes to its end, and its session can be handed out again.
TimeoutEnds == \A s \in Sessions : mTimerCbs[s] > 0 ~> mTimerCbs[s] = 0
==============================================================================
