------------------------------- MODULE Mailbox -------------------------------
(***************************************************************************)
(* What the dispatcher promises every env: a first-in first-out mailbox    *)
(* whose messages are handled one at a time.  Nothing is said about locks, *)
(* the global queue or the threads; Dispatch.tla is shown to implement     *)
(* this module.                                                            *)
(***************************************************************************)
EXTENDS Sequences

CONSTANTS
  Envs,    \* the actors
  Msgs,    \* what messages are made of: as many can be under way at once
  None

VARIABLES
  unused,  \* those that are no message now
  mailbox, \* env -> sequence of messages waiting for it
  running  \* env -> the message its Lua VM is handling, or None

vars == <<unused, mailbox, running>>

Init ==
  /\ unused = Msgs
  /\ mailbox = [e \in Envs |-> <<>>]
  /\ running = [e \in Envs |-> None]

\* Some thread hands m to env e.
Post(e, m) ==
  /\ m \in unused
  /\ unused' = unused \ {m}
  /\ mailbox' = [mailbox EXCEPT ![e] = Append(@, m)]
  /\ UNCHANGED running

\* The oldest message of an env that is not running any starts.
Start(e) ==
  /\ running[e] = None
  /\ mailbox[e] # <<>>
  /\ running' = [running EXCEPT ![e] = Head(mailbox[e])]
  /\ mailbox' = [mailbox EXCEPT ![e] = Tail(@)]
  /\ UNCHANGED unused

\* The handler returns and its message is freed.
Finish(e) ==
  /\ running[e] # None
  /\ unused' = unused \cup {running[e]}
  /\ running' = [running EXCEPT ![e] = None]
  /\ UNCHANGED mailbox

Next ==
  \E e \in Envs :
    \/ \E m \in Msgs : Post(e, m)
    \/ Start(e)
    \/ Finish(e)

Spec == Init /\ [][Next]_vars
==============================================================================
