--------------------------- MODULE EnvSocketsProofs ---------------------------
(***************************************************************************)
(* That messages about sockets find their callback, and that those about   *)
(* sockets that still exist reach the env that has them, for any number of *)
(* envs, sockets, connections and calls.                                   *)
(***************************************************************************)
EXTENDS EnvSockets, FiniteSetTheorems, WellFoundedInduction, TLAPS

Message == [type : {"posed", "acceptable", "readable"}, sid : Slots, life : Nat]

-----------------------------------------------------------------------------
(* The inductive invariant.                                                *)

\* A slot with a descriptor is in use; one without may have been given up by an event
\* that came too late.  Who listens on or has added a socket keeps the callback, unless
\* the assertion of socketListen has failed.
SlotOK(s) ==
  /\ mState[s] = "free" => s \notin mFd
  /\ mState[s] \in {"listening", "established", "rw"} => s \in mFd
  /\ failed = "none" /\ mState[s] = "listening" =>
       mEnv[s] \in Envs /\ mSockets[mEnv[s]][s] = "accept"
  /\ failed = "none" /\ mState[s] = "rw" =>
       mEnv[s] \in Envs /\ mSockets[mEnv[s]][s] = "read"

\* The locals a handler uses are set, and an idle env has none.
HandlerOK(e) ==
  /\ pc[e] = "idle" => sid[e] = NoSlot
  /\ pc[e] = "accept" => sid[e] \in Slots
  /\ pc[e] = "script" /\ sid[e] # NoSlot => nid[e] \in Slots

\* A message of _notifyEv: it is about a socket the slot has, or has had.  What it finds
\* in mSockets was put there by that socket or a later one.  A socket that is still to be
\* added, and so may come to another env, has caused none.
LetterOK(e, m) ==
  m.type # "posed" =>
    /\ m.life <= used[m.sid]
    /\ mSockets[e][m.sid] # "nil"
    /\ m.life = used[m.sid] /\ m.sid \in mFd =>
         /\ mState[m.sid] # "established"
         /\ mEnv[m.sid] = e
         /\ mSockets[e][m.sid] = IF m.type = "acceptable" THEN "accept" ELSE "read"

LettersOK == \A e \in Envs : \A k \in DOMAIN mailbox[e] : LetterOK(e, mailbox[e][k])

MailInv ==
  /\ TypeOK
  /\ \A s \in Slots : SlotOK(s)
  /\ \A e \in Envs : HandlerOK(e)
  /\ LettersOK
  /\ CallbackFound

-----------------------------------------------------------------------------
(* What the proofs need of queues.                                         *)

\* What is left of a queue was in it.
LEMMA TailOfQueue ==
  ASSUME NEW S, NEW q \in Seq(S), q # <<>>
  PROVE  /\ Head(q) \in S /\ Tail(q) \in Seq(S)
         /\ Head(q) = q[1] /\ 1 \in DOMAIN q
         /\ \A k \in DOMAIN Tail(q) : k + 1 \in DOMAIN q /\ Tail(q)[k] = q[k + 1]
OBVIOUS

\* A queue with one more message holds the others and that one.
LEMMA LongerQueue ==
  ASSUME NEW S, NEW q \in Seq(S), NEW x \in S
  PROVE  /\ Append(q, x) \in Seq(S)
         /\ \A k \in DOMAIN Append(q, x) :
              \/ Append(q, x)[k] = x
              \/ k \in DOMAIN q /\ Append(q, x)[k] = q[k]
OBVIOUS

\* What a step may do to the messages.
Taken(e) == mailbox[e] # <<>> /\ mailbox' = [mailbox EXCEPT ![e] = Tail(@)]
Sent(e, m) == mailbox' = [mailbox EXCEPT ![e] = Append(@, m)]

\* Whoever takes or sends a message leaves the queues of messages.
LEMMA QueuesHoldMessages ==
  ASSUME mailbox \in [Envs -> Seq(Message)],
         \/ mailbox' = mailbox
         \/ \E e \in Envs : Taken(e)
         \/ \E e \in Envs, m \in Message : Sent(e, m)
  PROVE  mailbox' \in [Envs -> Seq(Message)]
<1>1. CASE mailbox' = mailbox
  BY <1>1
<1>2. ASSUME NEW e \in Envs, Taken(e)
      PROVE  mailbox' \in [Envs -> Seq(Message)]
  <2>1. Tail(mailbox[e]) \in Seq(Message)
    BY <1>2, TailOfQueue DEF Taken
  <2> QED  BY <1>2, <2>1 DEF Taken
<1>3. ASSUME NEW e \in Envs, NEW m \in Message, Sent(e, m)
      PROVE  mailbox' \in [Envs -> Seq(Message)]
  <2>1. Append(mailbox[e], m) \in Seq(Message)
    BY LongerQueue
  <2> QED  BY <1>3, <2>1 DEF Sent
<1> QED  BY <1>1, <1>2, <1>3

\* If the messages that are about stay what they must be, and a new one is, all are.
LEMMA LettersStay ==
  ASSUME mailbox \in [Envs -> Seq(Message)],
         LettersOK,
         \A e \in Envs, m \in Message : LetterOK(e, m) => LetterOK(e, m)',
         \/ mailbox' = mailbox
         \/ \E e \in Envs : Taken(e)
         \/ \E e \in Envs, m \in Message : Sent(e, m) /\ LetterOK(e, m)'
  PROVE  LettersOK'
<1> SUFFICES ASSUME NEW d \in Envs, NEW k \in DOMAIN mailbox'[d]
             PROVE  \E m \in Message : m = mailbox'[d][k] /\ LetterOK(d, m)'
  BY DEF LettersOK, LetterOK
<1>0. \A j \in DOMAIN mailbox[d] : \E m \in Message : m = mailbox[d][j] /\ LetterOK(d, m)'
  BY DEF LettersOK
<1>1. CASE mailbox' = mailbox
  BY <1>0, <1>1
<1>2. ASSUME NEW e \in Envs, Taken(e)
      PROVE  \E n \in Message : n = mailbox'[d][k] /\ LetterOK(d, n)'
  <2>1. CASE d = e
    <3>1. mailbox'[d] = Tail(mailbox[d])
      BY <1>2, <2>1 DEF Taken
    <3>2. k + 1 \in DOMAIN mailbox[d] /\ mailbox'[d][k] = mailbox[d][k + 1]
      BY <1>2, <2>1, <3>1, TailOfQueue DEF Taken
    <3> QED  BY <1>0, <3>2
  <2>2. CASE d # e
    BY <1>0, <1>2, <2>2 DEF Taken
  <2> QED  BY <2>1, <2>2
<1>3. ASSUME NEW e \in Envs, NEW m \in Message, Sent(e, m), LetterOK(e, m)'
      PROVE  \E n \in Message : n = mailbox'[d][k] /\ LetterOK(d, n)'
  <2>1. CASE d = e
    <3>1. mailbox'[d] = Append(mailbox[d], m)
      BY <1>3, <2>1 DEF Sent
    <3>2. \/ mailbox'[d][k] = m
          \/ k \in DOMAIN mailbox[d] /\ mailbox'[d][k] = mailbox[d][k]
      BY <3>1, LongerQueue
    <3> QED  BY <1>0, <1>3, <2>1, <3>2
  <2>2. CASE d # e
    BY <1>0, <1>3, <2>2 DEF Sent
  <2> QED  BY <2>1, <2>2
<1> QED  BY <1>1, <1>2, <1>3
\* A set of natural numbers has a least element.
LEMMA LeastNatural ==
  ASSUME NEW S \in SUBSET Nat, S # {}
  PROVE  \E x \in S : \A y \in S : x <= y
<1> DEFINE T == {0 .. x : x \in S}
<1>1. T \subseteq FiniteSubsetsOf(Nat) /\ T # {}
  <2>1. ASSUME NEW x \in S PROVE IsFiniteSet(0 .. x) /\ 0 .. x \subseteq Nat
    BY FS_Interval
  <2> QED
    BY <2>1 DEF FiniteSubsetsOf
<1>2. PICK X \in T : \A Y \in T : <<Y, X>> \notin StrictSubsetOrdering(Nat)
  <2> HIDE DEF T
  <2> QED
    BY <1>1, WFMin, FS_StrictSubsetOrderingWellFounded
<1>3. PICK x \in S : X = 0 .. x
  OBVIOUS
<1>4. ASSUME NEW y \in S, y < x PROVE FALSE
  <2>1. 0 .. y \subseteq 0 .. x /\ x \in 0 .. x /\ x \notin 0 .. y
    BY <1>4
  <2>2. <<0 .. y, X>> \in StrictSubsetOrdering(Nat)
    BY <2>1, <1>3 DEF StrictSubsetOrdering
  <2> QED
    BY <2>2, <1>2
<1> QED
  BY <1>4

\* The slot so_accept chooses is a free one.
LEMMA LowestFree ==
  ASSUME Free # {}
  PROVE  (CHOOSE i \in Free : \A j \in Free : i <= j) \in Free
<1>1. Free \in SUBSET Nat
  BY SocketsAssumption DEF Free, Slots
<1> QED
  BY <1>1, LeastNatural

-----------------------------------------------------------------------------
(* The steps.  In each proof <1>m says what becomes of the messages, <1>a  *)
(* and <1>t are about the types, <1>s the slots, <1>h the handlers, <1>l   *)
(* the messages there are, <1>c the callback of the one in hand.           *)

\* What every step has to show for MailInv to go on.
Keeps ==
  /\ TypeOK'
  /\ \A s \in Slots : SlotOK(s)'
  /\ \A e \in Envs : HandlerOK(e)'
  /\ \A e \in Envs, m \in Message : LetterOK(e, m) => LetterOK(e, m)'
  /\ \/ mailbox' = mailbox
     \/ \E e \in Envs : Taken(e)
     \/ \E e \in Envs, m \in Message : Sent(e, m) /\ LetterOK(e, m)'
  /\ CallbackFound'

\* The message an env handles is one, and finds its callback.
LEMMA HeadHasCallback ==
  ASSUME MailInv, NEW e \in Envs, Taken(e)
  PROVE  /\ Head(mailbox[e]) \in Message
         /\ Head(mailbox[e]).type # "posed" => mSockets[e][Head(mailbox[e]).sid] # "nil"
<1>1. mailbox[e] \in Seq(Message)
  BY DEF MailInv, TypeOK, Message
<1>2. Head(mailbox[e]) \in Message /\ Head(mailbox[e]) = mailbox[e][1] /\ 1 \in DOMAIN mailbox[e]
  BY <1>1, TailOfQueue DEF Taken
<1>3. LetterOK(e, mailbox[e][1])
  BY <1>2 DEF MailInv, LettersOK
<1> QED  BY <1>2, <1>3 DEF LetterOK

\* An env learns a sid: nothing changes but its queue and what it knows.
LEMMA PosedStep ==
  ASSUME MailInv, NEW e \in Envs, OnPosed(e)
  PROVE  Keeps
<1>m. Taken(e)
  BY DEF OnPosed, Receive, Taken
<1>1. /\ Head(mailbox[e]) \in Message
      /\ Head(mailbox[e]).type # "posed" => mSockets[e][Head(mailbox[e]).sid] # "nil"
  BY <1>m, HeadHasCallback
<1>a. mailbox' \in [Envs -> Seq(Message)]
  BY <1>m, QueuesHoldMessages DEF MailInv, TypeOK, Message
<1>t. TypeOK'
  BY <1>1, <1>a, SocketsAssumption DEF MailInv, TypeOK, Message, OnPosed, Receive, soVars,
     kernelVars, bounds, At, Goto
<1>s. \A s \in Slots : SlotOK(s)'
  BY <1>1 DEF MailInv, TypeOK, SlotOK, OnPosed, Receive, soVars, kernelVars, bounds, At, Goto
<1>h. \A d \in Envs : HandlerOK(d)'
  BY <1>1 DEF MailInv, TypeOK, HandlerOK, NoSlot, OnPosed, Receive, soVars, kernelVars, bounds,
     At, Goto
<1>l. \A d \in Envs, m \in Message : LetterOK(d, m) => LetterOK(d, m)'
  BY <1>1 DEF MailInv, TypeOK, SlotOK, LetterOK, Message, OnPosed, Receive, soVars, kernelVars,
     bounds, At, Goto
<1>c. CallbackFound'
  BY <1>1 DEF MailInv, CallbackFound, OnPosed, Receive, soVars, kernelVars, bounds, At, Goto
<1> QED  BY <1>m, <1>t, <1>s, <1>h, <1>l, <1>c DEF Keeps

\* An env starts to accept: the message finds its callback.
LEMMA AcceptableStep ==
  ASSUME MailInv, NEW e \in Envs, OnAcceptable(e)
  PROVE  Keeps
<1>m. Taken(e)
  BY DEF OnAcceptable, Receive, Taken
<1>1. /\ Head(mailbox[e]) \in Message
      /\ Head(mailbox[e]).type # "posed" => mSockets[e][Head(mailbox[e]).sid] # "nil"
  BY <1>m, HeadHasCallback
<1>a. mailbox' \in [Envs -> Seq(Message)]
  BY <1>m, QueuesHoldMessages DEF MailInv, TypeOK, Message
<1>t. TypeOK'
  BY <1>1, <1>a, SocketsAssumption DEF MailInv, TypeOK, Message, OnAcceptable, Receive, soVars,
     kernelVars, bounds, At, Goto
<1>s. \A s \in Slots : SlotOK(s)'
  BY <1>1 DEF MailInv, TypeOK, SlotOK, OnAcceptable, Receive, soVars, kernelVars, bounds, At, Goto
<1>h. \A d \in Envs : HandlerOK(d)'
  <2>1. /\ sid' = [sid EXCEPT ![e] = Head(mailbox[e]).sid]
        /\ pc' = [pc EXCEPT ![e] = "accept"]
        /\ nid' = nid
    BY DEF OnAcceptable, Receive, Goto
  <2>2. Head(mailbox[e]).sid \in Slots
    BY <1>1 DEF Message
  <2>3. sid \in [Envs -> Slots \cup {NoSlot}] /\ pc \in [Envs -> {"idle", "accept", "script"}]
    BY DEF MailInv, TypeOK
  <2> QED  BY <2>1, <2>2, <2>3 DEF MailInv, HandlerOK
<1>l. \A d \in Envs, m \in Message : LetterOK(d, m) => LetterOK(d, m)'
  BY <1>1 DEF MailInv, TypeOK, SlotOK, LetterOK, Message, OnAcceptable, Receive, soVars,
     kernelVars, bounds, At, Goto
<1>c. CallbackFound'
  BY <1>1 DEF MailInv, CallbackFound, OnAcceptable, Receive, soVars, kernelVars, bounds, At, Goto
<1> QED  BY <1>m, <1>t, <1>s, <1>h, <1>l, <1>c DEF Keeps

\* An env reads: the message finds its callback, whatever has become of the slot.
LEMMA ReadableStep ==
  ASSUME MailInv, NEW e \in Envs, OnReadable(e)
  PROVE  Keeps
<1>m. Taken(e)
  BY DEF OnReadable, Receive, Taken
<1>1. /\ Head(mailbox[e]) \in Message
      /\ Head(mailbox[e]).type # "posed" => mSockets[e][Head(mailbox[e]).sid] # "nil"
  BY <1>m, HeadHasCallback
<1>2. \/ UNCHANGED <<soVars, kernelVars>>
      \/ \E i \in Slots :
           /\ queue' = [queue EXCEPT ![i] = 0] /\ UNCHANGED <<mEnv, mFd, used, peer>>
           /\ \/ mState' = mState /\ edge' = edge
              \/ mState' = [mState EXCEPT ![i] = "errored"] /\ edge' = edge \ {i}
           /\ mState[i] = "rw"
  BY <1>1 DEF OnReadable, SoRead, Message, soVars, kernelVars
<1>3. UNCHANGED mSockets /\ (failed' = "none" => failed = "none")
  BY DEF OnReadable, Receive, At
<1>a. mailbox' \in [Envs -> Seq(Message)]
  BY <1>m, QueuesHoldMessages DEF MailInv, TypeOK, Message
<1>t. TypeOK'
  <2>1. /\ mState' \in [Slots -> {"free", "errored", "listening", "established", "rw"}]
        /\ mEnv' \in [Slots -> Envs \cup {NoEnv}]
    BY <1>1 DEF MailInv, TypeOK, OnReadable, Receive, SoRead, soVars, kernelVars, bounds, At, Goto
  <2>2. mFd' \subseteq Slots /\ used' \in [Slots -> Nat]
    BY <1>1 DEF MailInv, TypeOK, OnReadable, Receive, SoRead, soVars, kernelVars, bounds, At, Goto
  <2>3. edge' \subseteq mFd' /\ batch' \subseteq [so : Slots, hup : BOOLEAN]
    BY <1>1 DEF MailInv, TypeOK, SlotOK, OnReadable, Receive, SoRead, soVars, kernelVars,
       bounds, At, Goto
  <2>4. queue' \in [Slots -> Nat] /\ peer' \in [Slots -> {"up", "fin", "rst"}]
    <3>1. queue \in [Slots -> Nat] /\ peer \in [Slots -> {"up", "fin", "rst"}]
      BY DEF MailInv, TypeOK
    <3>2. (queue' = queue \/ \E i \in Slots : queue' = [queue EXCEPT ![i] = 0]) /\ peer' = peer
      BY <1>2 DEF kernelVars
    <3> QED  BY <3>1, <3>2
  <2>5. /\ mSockets' \in [Envs -> [Slots -> {"nil", "accept", "read"}]]
        /\ known' \in [Envs -> SUBSET Slots]
    BY <1>1 DEF MailInv, TypeOK, OnReadable, Receive, SoRead, soVars, kernelVars, bounds, At, Goto
  <2>6. /\ pc' \in [Envs -> {"idle", "accept", "script"}]
        /\ sid' \in [Envs -> Slots \cup {NoSlot}]
        /\ nid' \in [Envs -> Slots \cup {NoSlot}]
    BY <1>1 DEF MailInv, TypeOK, OnReadable, Receive, SoRead, soVars, kernelVars, bounds, At, Goto
  <2>7. failed' \in {"none", "listen", "acb", "readcb", "event"}
    BY <1>1 DEF MailInv, TypeOK, OnReadable, Receive, SoRead, soVars, kernelVars, bounds, At, Goto
  <2>8. nConns' \in 0 .. MaxConns /\ nCalls' \in 0 .. MaxCalls /\ nTraffic' \in 0 .. MaxTraffic
    BY <1>1, SocketsAssumption DEF MailInv, TypeOK, OnReadable, Receive, SoRead, soVars,
       kernelVars, bounds, At, Goto
  <2> QED  BY <1>a, <2>1, <2>2, <2>3, <2>4, <2>5, <2>6, <2>7, <2>8 DEF TypeOK, Message
<1>s. \A s \in Slots : SlotOK(s)'
  <2>1. /\ mState \in [Slots -> {"free", "errored", "listening", "established", "rw"}]
        /\ \A s \in Slots : SlotOK(s)
    BY DEF MailInv, TypeOK
  <2> QED  BY <1>2, <1>3, <2>1 DEF SlotOK, soVars
<1>h. \A d \in Envs : HandlerOK(d)'
  BY <1>1 DEF MailInv, TypeOK, HandlerOK, NoSlot, OnReadable, Receive, SoRead, soVars,
     kernelVars, bounds, At, Goto
<1>l. \A d \in Envs, m \in Message : LetterOK(d, m) => LetterOK(d, m)'
  BY <1>1 DEF MailInv, TypeOK, SlotOK, LetterOK, Message, OnReadable, Receive, SoRead, soVars,
     kernelVars, bounds, At, Goto
<1>c. CallbackFound'
  BY <1>1 DEF MailInv, CallbackFound, OnReadable, Receive, SoRead, soVars, kernelVars, bounds,
     At, Goto
<1> QED  BY <1>m, <1>t, <1>s, <1>h, <1>l, <1>c DEF Keeps

\* There is nothing left to accept, or no listener.
LEMMA AcceptEndsStep ==
  ASSUME MailInv, NEW e \in Envs, AcceptEnds(e)
  PROVE  Keeps
<1>m. mailbox' = mailbox
  BY DEF AcceptEnds
<1>a. mailbox' \in [Envs -> Seq(Message)]
  BY <1>m, QueuesHoldMessages DEF MailInv, TypeOK, Message
<1>t. TypeOK'
  BY <1>a, SocketsAssumption DEF MailInv, TypeOK, Message, AcceptEnds, soVars, kernelVars,
     bounds, At, Goto, Done
<1>s. \A s \in Slots : SlotOK(s)'
  BY DEF MailInv, TypeOK, SlotOK, AcceptEnds, soVars, kernelVars, bounds, At, Goto, Done
<1>h. \A d \in Envs : HandlerOK(d)'
  BY DEF MailInv, TypeOK, HandlerOK, NoSlot, AcceptEnds, soVars, kernelVars, bounds, At, Goto,
     Done
<1>l. \A d \in Envs, m \in Message : LetterOK(d, m) => LetterOK(d, m)'
  BY DEF MailInv, TypeOK, SlotOK, LetterOK, Message, AcceptEnds, soVars, kernelVars, bounds,
     At, Goto, Done
<1>c. CallbackFound'
  BY DEF MailInv, CallbackFound, AcceptEnds, soVars, kernelVars, bounds, At, Goto, Done
<1> QED  BY <1>m, <1>t, <1>s, <1>h, <1>l, <1>c DEF Keeps

\* The listener is given up.
LEMMA AcceptFailsStep ==
  ASSUME MailInv, NEW e \in Envs, AcceptFails(e)
  PROVE  Keeps
<1>m. mailbox' = mailbox
  BY DEF AcceptFails
<1>a. mailbox' \in [Envs -> Seq(Message)]
  BY <1>m, QueuesHoldMessages DEF MailInv, TypeOK, Message
<1>t. TypeOK'
  BY <1>a, SocketsAssumption DEF MailInv, TypeOK, Message, AcceptFails, bounds, At, Goto, Done
<1>s. \A s \in Slots : SlotOK(s)'
  BY DEF MailInv, TypeOK, SlotOK, AcceptFails, bounds, At, Goto, Done
<1>h. \A d \in Envs : HandlerOK(d)'
  BY DEF MailInv, TypeOK, HandlerOK, NoSlot, AcceptFails, bounds, At, Goto, Done
<1>l. \A d \in Envs, m \in Message : LetterOK(d, m) => LetterOK(d, m)'
  BY DEF MailInv, TypeOK, SlotOK, LetterOK, Message, AcceptFails, bounds, At, Goto, Done
<1>c. CallbackFound'
  BY DEF MailInv, CallbackFound, AcceptFails, bounds, At, Goto, Done
<1> QED  BY <1>m, <1>t, <1>s, <1>h, <1>l, <1>c DEF Keeps

\* A slot that is closed has no messages to be right about.
LEMMA AcceptErrorStep ==
  ASSUME MailInv, NEW e \in Envs, AcceptError(e)
  PROVE  Keeps
<1>m. mailbox' = mailbox
  BY DEF AcceptError
<1>a. mailbox' \in [Envs -> Seq(Message)]
  BY <1>m, QueuesHoldMessages DEF MailInv, TypeOK, Message
<1>t. TypeOK'
  BY <1>a, SocketsAssumption DEF MailInv, TypeOK, Message, AcceptError, SoClose, bounds, At, Goto
<1>s. \A s \in Slots : SlotOK(s)'
  BY DEF MailInv, TypeOK, SlotOK, AcceptError, SoClose, bounds, At, Goto
<1>h. \A d \in Envs : HandlerOK(d)'
  BY DEF MailInv, TypeOK, HandlerOK, NoSlot, AcceptError, SoClose, bounds, At, Goto
<1>l. \A d \in Envs, m \in Message : LetterOK(d, m) => LetterOK(d, m)'
  BY DEF MailInv, TypeOK, SlotOK, LetterOK, Message, AcceptError, SoClose, bounds, At, Goto
<1>c. CallbackFound'
  BY DEF MailInv, CallbackFound, AcceptError, SoClose, bounds, At, Goto
<1> QED  BY <1>m, <1>t, <1>s, <1>h, <1>l, <1>c DEF Keeps

\* A handler ends, or goes back to accept.
LEMMA ReturnStep ==
  ASSUME MailInv, NEW e \in Envs, Return(e)
  PROVE  Keeps
<1>m. mailbox' = mailbox
  BY DEF Return
<1>a. mailbox' \in [Envs -> Seq(Message)]
  BY <1>m, QueuesHoldMessages DEF MailInv, TypeOK, Message
<1>t. TypeOK'
  BY <1>a, SocketsAssumption DEF MailInv, TypeOK, Message, Return, soVars, kernelVars, bounds,
     At, Goto, Done
<1>s. \A s \in Slots : SlotOK(s)'
  BY DEF MailInv, TypeOK, SlotOK, Return, soVars, kernelVars, bounds, At, Goto, Done
<1>h. \A d \in Envs : HandlerOK(d)'
  BY DEF MailInv, TypeOK, HandlerOK, NoSlot, Return, soVars, kernelVars, bounds, At, Goto, Done
<1>l. \A d \in Envs, m \in Message : LetterOK(d, m) => LetterOK(d, m)'
  BY DEF MailInv, TypeOK, SlotOK, LetterOK, Message, Return, soVars, kernelVars, bounds, At,
     Goto, Done
<1>c. CallbackFound'
  BY DEF MailInv, CallbackFound, Return, soVars, kernelVars, bounds, At, Goto, Done
<1> QED  BY <1>m, <1>t, <1>s, <1>h, <1>l, <1>c DEF Keeps

\* The new socket is a later one of its slot than any message in a queue is about.
LEMMA AcceptStep ==
  ASSUME MailInv, NEW e \in Envs, Accept(e)
  PROVE  Keeps
<1>m. mailbox' = mailbox
  BY DEF Accept
<1>n. PICK n \in Free : n = (CHOOSE i \in Free : \A j \in Free : i <= j)
  BY LowestFree DEF Accept
<1>f. n \in Slots /\ n \notin mFd /\ sid[e] \in Slots /\ sid[e] # n
  BY <1>n DEF Accept, At, Free, MailInv, HandlerOK, SlotOK
<1>a. mailbox' \in [Envs -> Seq(Message)]
  BY <1>m, QueuesHoldMessages DEF MailInv, TypeOK, Message
<1>t. TypeOK'
  <2>1. /\ mState' \in [Slots -> {"free", "errored", "listening", "established", "rw"}]
        /\ mEnv' \in [Slots -> Envs \cup {NoEnv}]
    BY <1>n, <1>f DEF MailInv, TypeOK, Accept, Free, bounds, At, Goto
  <2>2. mFd' \subseteq Slots /\ used' \in [Slots -> Nat]
    <3>1. mFd' = mFd \cup {n} /\ used' = [used EXCEPT ![n] = @ + 1]
      BY <1>n DEF Accept
    <3> QED  BY <1>f, <3>1 DEF MailInv, TypeOK
  <2>3. edge' \subseteq mFd' /\ batch' \subseteq [so : Slots, hup : BOOLEAN]
    BY <1>n, <1>f DEF MailInv, TypeOK, SlotOK, Accept, Free, bounds, At, Goto
  <2>4. queue' \in [Slots -> Nat] /\ peer' \in [Slots -> {"up", "fin", "rst"}]
    <3>1. queue' = [queue EXCEPT ![sid[e]] = @ - 1] /\ peer' = peer /\ queue[sid[e]] > 0
      BY DEF Accept
    <3> QED  BY <1>f, <3>1 DEF MailInv, TypeOK
  <2>5. /\ mSockets' \in [Envs -> [Slots -> {"nil", "accept", "read"}]]
        /\ known' \in [Envs -> SUBSET Slots]
    BY <1>n, <1>f DEF MailInv, TypeOK, Accept, Free, bounds, At, Goto
  <2>6. /\ pc' \in [Envs -> {"idle", "accept", "script"}]
        /\ sid' \in [Envs -> Slots \cup {NoSlot}]
        /\ nid' \in [Envs -> Slots \cup {NoSlot}]
    BY <1>n, <1>f DEF MailInv, TypeOK, Accept, Free, bounds, At, Goto
  <2>7. failed' \in {"none", "listen", "acb", "readcb", "event"}
    BY <1>n, <1>f DEF MailInv, TypeOK, Accept, Free, bounds, At, Goto
  <2>8. nConns' \in 0 .. MaxConns /\ nCalls' \in 0 .. MaxCalls /\ nTraffic' \in 0 .. MaxTraffic
    BY <1>n, <1>f, SocketsAssumption DEF MailInv, TypeOK, Accept, Free, bounds, At, Goto
  <2> QED  BY <1>a, <2>1, <2>2, <2>3, <2>4, <2>5, <2>6, <2>7, <2>8 DEF TypeOK, Message
<1>s. \A s \in Slots : SlotOK(s)'
  BY ZenonT(60), <1>n, <1>f DEF MailInv, TypeOK, SlotOK, Accept, Free, bounds, At, Goto
<1>h. \A d \in Envs : HandlerOK(d)'
  BY <1>n, <1>f DEF MailInv, TypeOK, HandlerOK, NoSlot, Accept, Free, bounds, At, Goto
<1>l. \A d \in Envs, m \in Message : LetterOK(d, m) => LetterOK(d, m)'
  <2>1. /\ mState' = [mState EXCEPT ![n] = "established"] /\ mEnv' = [mEnv EXCEPT ![n] = e]
        /\ mFd' = mFd \cup {n} /\ used' = [used EXCEPT ![n] = @ + 1] /\ mSockets' = mSockets
    BY <1>n DEF Accept
  <2>2. /\ mState \in [Slots -> {"free", "errored", "listening", "established", "rw"}]
        /\ mEnv \in [Slots -> Envs \cup {NoEnv}] /\ used \in [Slots -> Nat]
    BY DEF MailInv, TypeOK
  <2> QED  BY <1>f, <2>1, <2>2 DEF LetterOK, Message
<1>c. CallbackFound'
  BY <1>n, <1>f DEF MailInv, CallbackFound, Accept, Free, bounds, At, Goto
<1> QED  BY <1>m, <1>t, <1>s, <1>h, <1>l, <1>c DEF Keeps

\* So is a new listener, and mSockets is changed only where it was nil.
LEMMA ListenStep ==
  ASSUME MailInv, NEW e \in Envs, NEW s \in Slots, SocketListen(e, s)
  PROVE  Keeps
<1>m. mailbox' = mailbox
  BY DEF SocketListen
<1>1. /\ s \in Slots /\ s \notin mFd /\ mFd' = mFd \cup {s}
      /\ mState' = [mState EXCEPT ![s] = "listening"] /\ mEnv' = [mEnv EXCEPT ![s] = e]
      /\ used' = [used EXCEPT ![s] = @ + 1]
  BY DEF SocketListen, Free
<1>2. \/ /\ failed' = failed
         /\ mSockets' = [mSockets EXCEPT ![e][s] = "accept"]
         /\ known' = [known EXCEPT ![e] = @ \cup {s}]
         /\ mSockets[e][s] = "nil"
      \/ failed' = "listen" /\ mSockets' = mSockets /\ known' = known
  BY DEF SocketListen
<1>3. /\ mState \in [Slots -> {"free", "errored", "listening", "established", "rw"}]
      /\ mEnv \in [Slots -> Envs \cup {NoEnv}] /\ used \in [Slots -> Nat]
      /\ mSockets \in [Envs -> [Slots -> {"nil", "accept", "read"}]]
      /\ known \in [Envs -> SUBSET Slots]
  BY DEF MailInv, TypeOK
<1>a. mailbox' \in [Envs -> Seq(Message)]
  BY <1>m, QueuesHoldMessages DEF MailInv, TypeOK, Message
<1>t. TypeOK'
  <2>1. /\ mState' \in [Slots -> {"free", "errored", "listening", "established", "rw"}]
        /\ mEnv' \in [Slots -> Envs \cup {NoEnv}]
    BY DEF MailInv, TypeOK, SocketListen, Call, Free, kernelVars, At
  <2>2. mFd' \subseteq Slots /\ used' \in [Slots -> Nat]
    BY DEF MailInv, TypeOK, SocketListen, Call, Free, kernelVars, At
  <2>3. edge' \subseteq mFd' /\ batch' \subseteq [so : Slots, hup : BOOLEAN]
    BY DEF MailInv, TypeOK, SlotOK, SocketListen, Call, Free, kernelVars, At
  <2>4. queue' \in [Slots -> Nat] /\ peer' \in [Slots -> {"up", "fin", "rst"}]
    BY DEF MailInv, TypeOK, SocketListen, Call, Free, kernelVars, At
  <2>5. /\ mSockets' \in [Envs -> [Slots -> {"nil", "accept", "read"}]]
        /\ known' \in [Envs -> SUBSET Slots]
    <3>1. [mSockets EXCEPT ![e][s] = "accept"] \in [Envs -> [Slots -> {"nil", "accept", "read"}]]
      BY <1>3
    <3>2. [known EXCEPT ![e] = @ \cup {s}] \in [Envs -> SUBSET Slots]
      BY <1>3
    <3> QED  BY <1>2, <1>3, <3>1, <3>2
  <2>6. /\ pc' \in [Envs -> {"idle", "accept", "script"}]
        /\ sid' \in [Envs -> Slots \cup {NoSlot}]
        /\ nid' \in [Envs -> Slots \cup {NoSlot}]
    BY DEF MailInv, TypeOK, SocketListen, Call, Free, kernelVars, At
  <2>7. failed' \in {"none", "listen", "acb", "readcb", "event"}
    BY DEF MailInv, TypeOK, SocketListen, Call, Free, kernelVars, At
  <2>8. nConns' \in 0 .. MaxConns /\ nCalls' \in 0 .. MaxCalls /\ nTraffic' \in 0 .. MaxTraffic
    BY SocketsAssumption DEF MailInv, TypeOK, SocketListen, Call, Free, kernelVars, At
  <2> QED  BY <1>a, <2>1, <2>2, <2>3, <2>4, <2>5, <2>6, <2>7, <2>8 DEF TypeOK, Message
<1>s. \A i \in Slots : SlotOK(i)'
  <2>1. \A i \in Slots : SlotOK(i)
    BY DEF MailInv
  <2> QED  BY <1>1, <1>2, <1>3, <2>1 DEF SlotOK
<1>h. \A d \in Envs : HandlerOK(d)'
  BY DEF MailInv, TypeOK, HandlerOK, NoSlot, SocketListen, Call, Free, kernelVars, At
<1>l. \A d \in Envs, m \in Message : LetterOK(d, m) => LetterOK(d, m)'
  BY <1>1, <1>2, <1>3 DEF LetterOK, Message
<1>c. CallbackFound'
  BY DEF MailInv, CallbackFound, SocketListen, Call, Free, kernelVars, At
<1> QED  BY <1>m, <1>t, <1>s, <1>h, <1>l, <1>c DEF Keeps

\* A socket that is still to be added has caused no messages, so it may change hands.
LEMMA AddStep ==
  ASSUME MailInv, NEW e \in Envs, NEW s \in Slots, SocketAdd(e, s)
  PROVE  Keeps
<1>m. mailbox' = mailbox
  BY DEF SocketAdd
<1>1. /\ mState[s] = "established" /\ failed' = failed
      /\ mFd' = mFd /\ used' = used /\ queue' = queue /\ peer' = peer
  BY DEF SocketAdd
<1>2. \/ /\ mState' = [mState EXCEPT ![s] = "rw"] /\ mEnv' = [mEnv EXCEPT ![s] = e]
         /\ mSockets' = [mSockets EXCEPT ![e][s] = "read"]
      \/ mState' = [mState EXCEPT ![s] = "errored"] /\ mEnv' = mEnv /\ mSockets' = mSockets
  BY DEF SocketAdd
<1>3. /\ mState \in [Slots -> {"free", "errored", "listening", "established", "rw"}]
      /\ mEnv \in [Slots -> Envs \cup {NoEnv}] /\ used \in [Slots -> Nat]
      /\ mSockets \in [Envs -> [Slots -> {"nil", "accept", "read"}]]
      /\ known \in [Envs -> SUBSET Slots]
  BY DEF MailInv, TypeOK
<1>4. s \in mFd /\ \A i \in Slots : SlotOK(i)
  BY <1>1 DEF MailInv, SlotOK
<1>a. mailbox' \in [Envs -> Seq(Message)]
  BY <1>m, QueuesHoldMessages DEF MailInv, TypeOK, Message
<1>t. TypeOK'
  <2>1. /\ mState' \in [Slots -> {"free", "errored", "listening", "established", "rw"}]
        /\ mEnv' \in [Slots -> Envs \cup {NoEnv}]
    BY <1>2, <1>3
  <2>2. mFd' \subseteq Slots /\ used' \in [Slots -> Nat]
    BY DEF MailInv, TypeOK, SocketAdd, Call, At
  <2>3. edge' \subseteq mFd' /\ batch' \subseteq [so : Slots, hup : BOOLEAN]
    BY DEF MailInv, TypeOK, SlotOK, SocketAdd, Call, At
  <2>4. queue' \in [Slots -> Nat] /\ peer' \in [Slots -> {"up", "fin", "rst"}]
    BY DEF MailInv, TypeOK, SocketAdd, Call, At
  <2>5. /\ mSockets' \in [Envs -> [Slots -> {"nil", "accept", "read"}]]
        /\ known' \in [Envs -> SUBSET Slots]
    BY <1>2, <1>3 DEF SocketAdd
  <2>6. /\ pc' \in [Envs -> {"idle", "accept", "script"}]
        /\ sid' \in [Envs -> Slots \cup {NoSlot}]
        /\ nid' \in [Envs -> Slots \cup {NoSlot}]
    BY DEF MailInv, TypeOK, SocketAdd, Call, At
  <2>7. failed' \in {"none", "listen", "acb", "readcb", "event"}
    BY DEF MailInv, TypeOK, SocketAdd, Call, At
  <2>8. nConns' \in 0 .. MaxConns /\ nCalls' \in 0 .. MaxCalls /\ nTraffic' \in 0 .. MaxTraffic
    BY SocketsAssumption DEF MailInv, TypeOK, SocketAdd, Call, At
  <2> QED  BY <1>a, <2>1, <2>2, <2>3, <2>4, <2>5, <2>6, <2>7, <2>8 DEF TypeOK, Message
<1>s. \A i \in Slots : SlotOK(i)'
  BY <1>1, <1>2, <1>3, <1>4 DEF SlotOK
<1>h. \A d \in Envs : HandlerOK(d)'
  BY DEF MailInv, TypeOK, HandlerOK, NoSlot, SocketAdd, Call, At
<1>l. \A d \in Envs, m \in Message : LetterOK(d, m) => LetterOK(d, m)'
  BY <1>1, <1>2, <1>3, <1>4 DEF LetterOK, Message
<1>c. CallbackFound'
  BY DEF MailInv, CallbackFound, SocketAdd, Call, At
<1> QED  BY <1>m, <1>t, <1>s, <1>h, <1>l, <1>c DEF Keeps

\* A slot that is closed has no messages to be right about; the callback stays.
LEMMA CloseStep ==
  ASSUME MailInv, NEW e \in Envs, NEW s \in Slots, SocketClose(e, s)
  PROVE  Keeps
<1>m. mailbox' = mailbox
  BY DEF SocketClose
<1>a. mailbox' \in [Envs -> Seq(Message)]
  BY <1>m, QueuesHoldMessages DEF MailInv, TypeOK, Message
<1>t. TypeOK'
  BY SMTT(60), <1>a, SocketsAssumption DEF MailInv, TypeOK, Message, SocketClose, Call, SoClose, At
<1>s. \A i \in Slots : SlotOK(i)'
  BY DEF MailInv, TypeOK, SlotOK, SocketClose, Call, SoClose, At
<1>h. \A d \in Envs : HandlerOK(d)'
  BY DEF MailInv, TypeOK, HandlerOK, NoSlot, SocketClose, Call, SoClose, At
<1>l. \A d \in Envs, m \in Message : LetterOK(d, m) => LetterOK(d, m)'
  BY DEF MailInv, TypeOK, SlotOK, LetterOK, Message, SocketClose, Call, SoClose, At
<1>c. CallbackFound'
  BY DEF MailInv, CallbackFound, SocketClose, Call, SoClose, At
<1> QED  BY <1>m, <1>t, <1>s, <1>h, <1>l, <1>c DEF Keeps

\* The message that passes a sid on is not one of _notifyEv.
LEMMA PassOnStep ==
  ASSUME MailInv, NEW e \in Envs, NEW s \in Slots, NEW to \in Envs, PassOn(e, s, to)
  PROVE  Keeps
<1>m. \E m \in Message : Sent(to, m) /\ LetterOK(to, m)'
  <2> DEFINE m == [type |-> "posed", sid |-> s, life |-> 0]
  <2>1. m \in Message /\ m.type = "posed"
    BY DEF Message
  <2>2. mailbox' = [mailbox EXCEPT ![to] = Append(@, m)]
    BY DEF PassOn
  <2> QED  BY <2>1, <2>2 DEF Sent, LetterOK
<1>a. mailbox' \in [Envs -> Seq(Message)]
  BY <1>m, QueuesHoldMessages DEF MailInv, TypeOK, Message
<1>t. TypeOK'
  <2>1. /\ mState' \in [Slots -> {"free", "errored", "listening", "established", "rw"}]
        /\ mEnv' \in [Slots -> Envs \cup {NoEnv}]
    BY DEF MailInv, TypeOK, PassOn, Call, soVars, kernelVars, At
  <2>2. mFd' \subseteq Slots /\ used' \in [Slots -> Nat]
    BY DEF MailInv, TypeOK, PassOn, Call, soVars, kernelVars, At
  <2>3. edge' \subseteq mFd' /\ batch' \subseteq [so : Slots, hup : BOOLEAN]
    BY DEF MailInv, TypeOK, SlotOK, PassOn, Call, soVars, kernelVars, At
  <2>4. queue' \in [Slots -> Nat] /\ peer' \in [Slots -> {"up", "fin", "rst"}]
    BY DEF MailInv, TypeOK, PassOn, Call, soVars, kernelVars, At
  <2>5. /\ mSockets' \in [Envs -> [Slots -> {"nil", "accept", "read"}]]
        /\ known' \in [Envs -> SUBSET Slots]
    BY DEF MailInv, TypeOK, PassOn, Call, soVars, kernelVars, At
  <2>6. /\ pc' \in [Envs -> {"idle", "accept", "script"}]
        /\ sid' \in [Envs -> Slots \cup {NoSlot}]
        /\ nid' \in [Envs -> Slots \cup {NoSlot}]
    BY DEF MailInv, TypeOK, PassOn, Call, soVars, kernelVars, At
  <2>7. failed' \in {"none", "listen", "acb", "readcb", "event"}
    BY DEF MailInv, TypeOK, PassOn, Call, soVars, kernelVars, At
  <2>8. nConns' \in 0 .. MaxConns /\ nCalls' \in 0 .. MaxCalls /\ nTraffic' \in 0 .. MaxTraffic
    BY SocketsAssumption DEF MailInv, TypeOK, PassOn, Call, soVars, kernelVars, At
  <2> QED  BY <1>a, <2>1, <2>2, <2>3, <2>4, <2>5, <2>6, <2>7, <2>8 DEF TypeOK, Message
<1>s. \A i \in Slots : SlotOK(i)'
  BY DEF MailInv, TypeOK, SlotOK, PassOn, Call, soVars, kernelVars, At
<1>h. \A d \in Envs : HandlerOK(d)'
  BY DEF MailInv, TypeOK, HandlerOK, NoSlot, PassOn, Call, soVars, kernelVars, At
<1>l. \A d \in Envs, m \in Message : LetterOK(d, m) => LetterOK(d, m)'
  BY DEF MailInv, TypeOK, SlotOK, LetterOK, Message, PassOn, Call, soVars, kernelVars, At
<1>c. CallbackFound'
  BY DEF MailInv, CallbackFound, PassOn, Call, soVars, kernelVars, At
<1> QED  BY <1>m, <1>t, <1>s, <1>h, <1>l, <1>c DEF Keeps

\* The batch holds slots.
LEMMA EpollWaitStep ==
  ASSUME MailInv, EpollWait
  PROVE  Keeps
<1>m. mailbox' = mailbox
  BY DEF EpollWait
<1>a. mailbox' \in [Envs -> Seq(Message)]
  BY <1>m, QueuesHoldMessages DEF MailInv, TypeOK, Message
<1>t. TypeOK'
  <2>1. /\ mState' \in [Slots -> {"free", "errored", "listening", "established", "rw"}]
        /\ mEnv' \in [Slots -> Envs \cup {NoEnv}]
    BY DEF MailInv, TypeOK, EpollWait, soVars, luaVars, bounds
  <2>2. mFd' \subseteq Slots /\ used' \in [Slots -> Nat]
    BY DEF MailInv, TypeOK, EpollWait, soVars, luaVars, bounds
  <2>3. edge' \subseteq mFd' /\ batch' \subseteq [so : Slots, hup : BOOLEAN]
    <3>1. /\ batch' = {[so |-> s, hup |-> peer[s] = "rst"] : s \in {i \in edge : Ready(i)}}
          /\ edge' = {}
      BY DEF EpollWait
    <3>2. edge \subseteq Slots
      BY DEF MailInv, TypeOK
    <3>3. \A s \in Slots : [so |-> s, hup |-> peer[s] = "rst"] \in [so : Slots, hup : BOOLEAN]
      OBVIOUS
    <3> QED  BY <3>1, <3>2, <3>3
  <2>4. queue' \in [Slots -> Nat] /\ peer' \in [Slots -> {"up", "fin", "rst"}]
    BY DEF MailInv, TypeOK, EpollWait, soVars, luaVars, bounds
  <2>5. /\ mSockets' \in [Envs -> [Slots -> {"nil", "accept", "read"}]]
        /\ known' \in [Envs -> SUBSET Slots]
    BY DEF MailInv, TypeOK, EpollWait, soVars, luaVars, bounds
  <2>6. /\ pc' \in [Envs -> {"idle", "accept", "script"}]
        /\ sid' \in [Envs -> Slots \cup {NoSlot}]
        /\ nid' \in [Envs -> Slots \cup {NoSlot}]
    BY DEF MailInv, TypeOK, EpollWait, soVars, luaVars, bounds
  <2>7. failed' \in {"none", "listen", "acb", "readcb", "event"}
    BY DEF MailInv, TypeOK, EpollWait, soVars, luaVars, bounds
  <2>8. nConns' \in 0 .. MaxConns /\ nCalls' \in 0 .. MaxCalls /\ nTraffic' \in 0 .. MaxTraffic
    BY SocketsAssumption DEF MailInv, TypeOK, EpollWait, soVars, luaVars, bounds
  <2> QED  BY <1>a, <2>1, <2>2, <2>3, <2>4, <2>5, <2>6, <2>7, <2>8 DEF TypeOK, Message
<1>s. \A s \in Slots : SlotOK(s)'
  BY DEF MailInv, TypeOK, SlotOK, EpollWait, soVars, luaVars, bounds
<1>h. \A e \in Envs : HandlerOK(e)'
  BY DEF MailInv, TypeOK, HandlerOK, NoSlot, EpollWait, soVars, luaVars, bounds
<1>l. \A e \in Envs, m \in Message : LetterOK(e, m) => LetterOK(e, m)'
  BY DEF MailInv, TypeOK, SlotOK, LetterOK, Message, EpollWait, soVars, luaVars, bounds
<1>c. CallbackFound'
  BY DEF MailInv, CallbackFound, EpollWait, soVars, luaVars, bounds
<1> QED  BY <1>m, <1>t, <1>s, <1>h, <1>l, <1>c DEF Keeps

\* _notifyEv posts to the env that has the socket now, which has a callback for it.
LEMMA EventStep ==
  ASSUME MailInv, NEW ev \in batch, Event(ev)
  PROVE  Keeps
<1>1. ev \in [so : Slots, hup : BOOLEAN]
  BY DEF MailInv, TypeOK
<1>2. ev.so \in Slots
  BY <1>1
<1>m. \/ mailbox' = mailbox
      \/ \E e \in Envs, m \in Message : Sent(e, m) /\ LetterOK(e, m)'
  <2>1. CASE mailbox' = mailbox
    BY <2>1
  <2>2. ASSUME NEW type \in {"acceptable", "readable"}, NotifyEv(ev.so, type),
               mState[ev.so] = IF type = "acceptable" THEN "listening" ELSE "rw",
               UNCHANGED <<mState, mEnv, mFd, used, mSockets>>
        PROVE  \E e \in Envs, m \in Message : Sent(e, m) /\ LetterOK(e, m)'
    <3> DEFINE s == ev.so
               m == [type |-> type, sid |-> s, life |-> used[s]]
    <3>1. m \in Message /\ m.type = type /\ m.sid = s /\ m.life = used[s]
      BY <1>2 DEF MailInv, TypeOK, Message
    <3>2. /\ mEnv[s] \in Envs
          /\ mSockets[mEnv[s]][s] = IF type = "acceptable" THEN "accept" ELSE "read"
      BY <1>2, <2>2 DEF MailInv, SlotOK, Event
    <3>3. mailbox' = [mailbox EXCEPT ![mEnv[s]] = Append(@, m)]
      BY <2>2 DEF NotifyEv
    <3>4. \A e \in Envs, n \in Message : e = mEnv[s] /\ n = m => LetterOK(e, n)'
      BY <2>2, <3>1, <3>2 DEF LetterOK, MailInv, TypeOK
    <3>5. \A e \in Envs, n \in Message : e = mEnv[s] /\ n = m => Sent(e, n)
      BY <3>3 DEF Sent
    <3> QED  BY <3>1, <3>2, <3>4, <3>5
  <2>3. CASE /\ mState[ev.so] = "listening"
             /\ NotifyEv(ev.so, "acceptable")
             /\ UNCHANGED <<mState, mEnv, mFd, used, mSockets>>
    BY <2>2, <2>3
  <2>4. CASE /\ mState[ev.so] = "rw"
             /\ NotifyEv(ev.so, "readable")
             /\ UNCHANGED <<mState, mEnv, mFd, used, mSockets>>
    BY <2>2, <2>4
  <2> QED  BY <2>1, <2>3, <2>4 DEF Event, luaVars
<1>a. mailbox' \in [Envs -> Seq(Message)]
  BY <1>m, QueuesHoldMessages DEF MailInv, TypeOK, Message
<1>t. TypeOK'
  BY <1>1, <1>a, SocketsAssumption DEF MailInv, TypeOK, Message, Event, NotifyEv, luaVars, bounds
<1>s. \A s \in Slots : SlotOK(s)'
  BY <1>1, <1>m DEF MailInv, TypeOK, SlotOK, Event, NotifyEv, luaVars, bounds
<1>h. \A e \in Envs : HandlerOK(e)'
  BY <1>1, <1>m DEF MailInv, TypeOK, HandlerOK, NoSlot, Event, NotifyEv, luaVars, bounds
<1>l. \A e \in Envs, m \in Message : LetterOK(e, m) => LetterOK(e, m)'
  BY <1>1, <1>m DEF MailInv, TypeOK, SlotOK, LetterOK, Message, Event, NotifyEv, luaVars, bounds
<1>c. CallbackFound'
  BY <1>1, <1>m DEF MailInv, CallbackFound, Event, NotifyEv, luaVars, bounds
<1> QED  BY <1>m, <1>t, <1>s, <1>h, <1>l, <1>c DEF Keeps

\* Only the kernel changes, and it reports sockets that exist.
LEMMA ClientConnectsStep ==
  ASSUME MailInv, NEW s \in Slots, ClientConnects(s)
  PROVE  Keeps
<1>m. mailbox' = mailbox
  BY DEF ClientConnects
<1>a. mailbox' \in [Envs -> Seq(Message)]
  BY <1>m, QueuesHoldMessages DEF MailInv, TypeOK, Message
<1>t. TypeOK'
  <2>1. /\ mState' \in [Slots -> {"free", "errored", "listening", "established", "rw"}]
        /\ mEnv' \in [Slots -> Envs \cup {NoEnv}]
    BY DEF MailInv, TypeOK, ClientConnects, Edge, soVars, luaVars
  <2>2. mFd' \subseteq Slots /\ used' \in [Slots -> Nat]
    BY DEF MailInv, TypeOK, ClientConnects, Edge, soVars, luaVars
  <2>3. edge' \subseteq mFd' /\ batch' \subseteq [so : Slots, hup : BOOLEAN]
    BY DEF MailInv, TypeOK, SlotOK, ClientConnects, Edge, soVars, luaVars
  <2>4. queue' \in [Slots -> Nat] /\ peer' \in [Slots -> {"up", "fin", "rst"}]
    BY DEF MailInv, TypeOK, ClientConnects, Edge, soVars, luaVars
  <2>5. /\ mSockets' \in [Envs -> [Slots -> {"nil", "accept", "read"}]]
        /\ known' \in [Envs -> SUBSET Slots]
    BY DEF MailInv, TypeOK, ClientConnects, Edge, soVars, luaVars
  <2>6. /\ pc' \in [Envs -> {"idle", "accept", "script"}]
        /\ sid' \in [Envs -> Slots \cup {NoSlot}]
        /\ nid' \in [Envs -> Slots \cup {NoSlot}]
    BY DEF MailInv, TypeOK, ClientConnects, Edge, soVars, luaVars
  <2>7. failed' \in {"none", "listen", "acb", "readcb", "event"}
    BY DEF MailInv, TypeOK, ClientConnects, Edge, soVars, luaVars
  <2>8. nConns' \in 0 .. MaxConns /\ nCalls' \in 0 .. MaxCalls /\ nTraffic' \in 0 .. MaxTraffic
    BY SocketsAssumption DEF MailInv, TypeOK, ClientConnects, Edge, soVars, luaVars
  <2> QED  BY <1>a, <2>1, <2>2, <2>3, <2>4, <2>5, <2>6, <2>7, <2>8 DEF TypeOK, Message
<1>s. \A i \in Slots : SlotOK(i)'
  BY DEF MailInv, TypeOK, SlotOK, ClientConnects, Edge, soVars, luaVars
<1>h. \A e \in Envs : HandlerOK(e)'
  BY DEF MailInv, TypeOK, HandlerOK, NoSlot, ClientConnects, Edge, soVars, luaVars
<1>l. \A e \in Envs, m \in Message : LetterOK(e, m) => LetterOK(e, m)'
  BY DEF MailInv, TypeOK, SlotOK, LetterOK, Message, ClientConnects, Edge, soVars, luaVars
<1>c. CallbackFound'
  BY DEF MailInv, CallbackFound, ClientConnects, Edge, soVars, luaVars
<1> QED  BY <1>m, <1>t, <1>s, <1>h, <1>l, <1>c DEF Keeps

\* Only the kernel changes, and it reports sockets that exist.
LEMMA ClientSendsStep ==
  ASSUME MailInv, NEW s \in Slots, ClientSends(s)
  PROVE  Keeps
<1>m. mailbox' = mailbox
  BY DEF ClientSends
<1>a. mailbox' \in [Envs -> Seq(Message)]
  BY <1>m, QueuesHoldMessages DEF MailInv, TypeOK, Message
<1>t. TypeOK'
  <2>1. /\ mState' \in [Slots -> {"free", "errored", "listening", "established", "rw"}]
        /\ mEnv' \in [Slots -> Envs \cup {NoEnv}]
    BY DEF MailInv, TypeOK, ClientSends, Edge, Connected, soVars, luaVars
  <2>2. mFd' \subseteq Slots /\ used' \in [Slots -> Nat]
    BY DEF MailInv, TypeOK, ClientSends, Edge, Connected, soVars, luaVars
  <2>3. edge' \subseteq mFd' /\ batch' \subseteq [so : Slots, hup : BOOLEAN]
    BY DEF MailInv, TypeOK, SlotOK, ClientSends, Edge, Connected, soVars, luaVars
  <2>4. queue' \in [Slots -> Nat] /\ peer' \in [Slots -> {"up", "fin", "rst"}]
    BY DEF MailInv, TypeOK, ClientSends, Edge, Connected, soVars, luaVars
  <2>5. /\ mSockets' \in [Envs -> [Slots -> {"nil", "accept", "read"}]]
        /\ known' \in [Envs -> SUBSET Slots]
    BY DEF MailInv, TypeOK, ClientSends, Edge, Connected, soVars, luaVars
  <2>6. /\ pc' \in [Envs -> {"idle", "accept", "script"}]
        /\ sid' \in [Envs -> Slots \cup {NoSlot}]
        /\ nid' \in [Envs -> Slots \cup {NoSlot}]
    BY DEF MailInv, TypeOK, ClientSends, Edge, Connected, soVars, luaVars
  <2>7. failed' \in {"none", "listen", "acb", "readcb", "event"}
    BY DEF MailInv, TypeOK, ClientSends, Edge, Connected, soVars, luaVars
  <2>8. nConns' \in 0 .. MaxConns /\ nCalls' \in 0 .. MaxCalls /\ nTraffic' \in 0 .. MaxTraffic
    BY SocketsAssumption DEF MailInv, TypeOK, ClientSends, Edge, Connected, soVars, luaVars
  <2> QED  BY <1>a, <2>1, <2>2, <2>3, <2>4, <2>5, <2>6, <2>7, <2>8 DEF TypeOK, Message
<1>s. \A i \in Slots : SlotOK(i)'
  BY DEF MailInv, TypeOK, SlotOK, ClientSends, Edge, Connected, soVars, luaVars
<1>h. \A e \in Envs : HandlerOK(e)'
  BY DEF MailInv, TypeOK, HandlerOK, NoSlot, ClientSends, Edge, Connected, soVars, luaVars
<1>l. \A e \in Envs, m \in Message : LetterOK(e, m) => LetterOK(e, m)'
  BY DEF MailInv, TypeOK, SlotOK, LetterOK, Message, ClientSends, Edge, Connected, soVars, luaVars
<1>c. CallbackFound'
  BY DEF MailInv, CallbackFound, ClientSends, Edge, Connected, soVars, luaVars
<1> QED  BY <1>m, <1>t, <1>s, <1>h, <1>l, <1>c DEF Keeps

\* Only the kernel changes, and it reports sockets that exist.
LEMMA ClientLeavesStep ==
  ASSUME MailInv, NEW s \in Slots, NEW how \in {"fin", "rst"}, ClientLeaves(s, how)
  PROVE  Keeps
<1>m. mailbox' = mailbox
  BY DEF ClientLeaves
<1>a. mailbox' \in [Envs -> Seq(Message)]
  BY <1>m, QueuesHoldMessages DEF MailInv, TypeOK, Message
<1>t. TypeOK'
  <2>1. /\ mState' \in [Slots -> {"free", "errored", "listening", "established", "rw"}]
        /\ mEnv' \in [Slots -> Envs \cup {NoEnv}]
    BY DEF MailInv, TypeOK, ClientLeaves, Edge, Connected, soVars, luaVars
  <2>2. mFd' \subseteq Slots /\ used' \in [Slots -> Nat]
    BY DEF MailInv, TypeOK, ClientLeaves, Edge, Connected, soVars, luaVars
  <2>3. edge' \subseteq mFd' /\ batch' \subseteq [so : Slots, hup : BOOLEAN]
    BY DEF MailInv, TypeOK, SlotOK, ClientLeaves, Edge, Connected, soVars, luaVars
  <2>4. queue' \in [Slots -> Nat] /\ peer' \in [Slots -> {"up", "fin", "rst"}]
    BY DEF MailInv, TypeOK, ClientLeaves, Edge, Connected, soVars, luaVars
  <2>5. /\ mSockets' \in [Envs -> [Slots -> {"nil", "accept", "read"}]]
        /\ known' \in [Envs -> SUBSET Slots]
    BY DEF MailInv, TypeOK, ClientLeaves, Edge, Connected, soVars, luaVars
  <2>6. /\ pc' \in [Envs -> {"idle", "accept", "script"}]
        /\ sid' \in [Envs -> Slots \cup {NoSlot}]
        /\ nid' \in [Envs -> Slots \cup {NoSlot}]
    BY DEF MailInv, TypeOK, ClientLeaves, Edge, Connected, soVars, luaVars
  <2>7. failed' \in {"none", "listen", "acb", "readcb", "event"}
    BY DEF MailInv, TypeOK, ClientLeaves, Edge, Connected, soVars, luaVars
  <2>8. nConns' \in 0 .. MaxConns /\ nCalls' \in 0 .. MaxCalls /\ nTraffic' \in 0 .. MaxTraffic
    BY SocketsAssumption DEF MailInv, TypeOK, ClientLeaves, Edge, Connected, soVars, luaVars
  <2> QED  BY <1>a, <2>1, <2>2, <2>3, <2>4, <2>5, <2>6, <2>7, <2>8 DEF TypeOK, Message
<1>s. \A i \in Slots : SlotOK(i)'
  BY DEF MailInv, TypeOK, SlotOK, ClientLeaves, Edge, Connected, soVars, luaVars
<1>h. \A e \in Envs : HandlerOK(e)'
  BY DEF MailInv, TypeOK, HandlerOK, NoSlot, ClientLeaves, Edge, Connected, soVars, luaVars
<1>l. \A e \in Envs, m \in Message : LetterOK(e, m) => LetterOK(e, m)'
  BY DEF MailInv, TypeOK, SlotOK, LetterOK, Message, ClientLeaves, Edge, Connected, soVars,
     luaVars
<1>c. CallbackFound'
  BY DEF MailInv, CallbackFound, ClientLeaves, Edge, Connected, soVars, luaVars
<1> QED  BY <1>m, <1>t, <1>s, <1>h, <1>l, <1>c DEF Keeps

-----------------------------------------------------------------------------
\* A message about a socket always finds its callback, and one about a socket that still
\* exists is with the env that has the socket: the slots may be closed and used again
\* between the event and its handler, and the sockets passed from env to env.

\* The invariant holds when the acceptor listens.
LEMMA MailInit == Init => MailInv
<1> SUFFICES ASSUME Init PROVE MailInv
  OBVIOUS
<1>1. 1 \in Slots /\ NoSlot \notin Slots /\ Acceptor \in Envs
  BY SocketsAssumption DEF Slots, NoSlot
<1>2. mailbox \in [Envs -> Seq(Message)] /\ \A e \in Envs : DOMAIN mailbox[e] = {}
  BY DEF Init
<1>3. TypeOK
  <2>1. /\ mSockets \in [Envs -> [Slots -> {"nil", "accept", "read"}]]
        /\ known \in [Envs -> SUBSET Slots]
    BY <1>1 DEF Init
  <2>2. 0 \in 0 .. MaxConns /\ 0 \in 0 .. MaxCalls /\ 0 \in 0 .. MaxTraffic
    BY SocketsAssumption
  <2> QED  BY <1>1, <1>2, <2>1, <2>2 DEF Init, TypeOK, Message
<1>4. \A s \in Slots : SlotOK(s)
  BY <1>1 DEF Init, SlotOK
<1>5. \A e \in Envs : HandlerOK(e)
  BY DEF Init, HandlerOK
<1> QED  BY <1>2, <1>3, <1>4, <1>5 DEF Init, MailInv, LettersOK, CallbackFound

\* Every step of an env, of the socket thread and of a client keeps it.
LEMMA MailStep == MailInv /\ [Next]_vars => MailInv'
<1> SUFFICES ASSUME MailInv, [Next]_vars PROVE MailInv'
  OBVIOUS
<1>1. CASE UNCHANGED vars
  BY <1>1 DEF MailInv, TypeOK, SlotOK, HandlerOK, LettersOK, LetterOK, CallbackFound,
              vars, soVars, kernelVars, luaVars, bounds
<1>2. CASE Keeps
  <2>1. mailbox \in [Envs -> Seq(Message)] /\ LettersOK
    BY DEF MailInv, TypeOK, Message
  <2>2. LettersOK'
    BY <1>2, <2>1, LettersStay DEF Keeps
  <2> QED  BY <1>2, <2>2 DEF Keeps, MailInv
<1>3. ASSUME NEW e \in Envs, Framework(e) PROVE Keeps
  BY <1>3, PosedStep, AcceptableStep, AcceptEndsStep, AcceptFailsStep, AcceptStep,
     ReadableStep, ReturnStep
  DEF Framework
<1>4. ASSUME NEW e \in Envs, Script(e) PROVE Keeps
  <2>1. known[e] \subseteq Slots
    BY DEF MailInv, TypeOK
  <2> QED
    BY <1>4, <2>1, AcceptErrorStep, ListenStep, AddStep, CloseStep, PassOnStep DEF Script
<1>5. CASE SocketThread
  BY <1>2, <1>5, EpollWaitStep, EventStep DEF SocketThread
<1>6. CASE Client
  BY <1>2, <1>6, ClientConnectsStep, ClientSendsStep, ClientLeavesStep DEF Client
<1> QED  BY <1>1, <1>2, <1>3, <1>4, <1>5, <1>6 DEF Next

\* No handler of a message fails for want of a callback (assert(readcb) and the call of
\* acb in env.lua), with any number of envs, sockets and calls.
THEOREM CallbacksAreFound == Spec => []CallbackFound
<1>1. MailInv => CallbackFound
  BY DEF MailInv
<1> QED  BY <1>1, MailInit, MailStep, PTL DEF Spec

\* A message about a socket that still exists is with the env that has the socket, which
\* has a callback of the right kind for it.
THEOREM MessagesReachOwners == Spec => []ToItsOwner
<1>1. MailInv => ToItsOwner
  <2> SUFFICES ASSUME MailInv, NEW e \in Envs, NEW k \in DOMAIN mailbox[e]
               PROVE  LET m == mailbox[e][k] IN
                      m.type # "posed" /\ m.life = used[m.sid] /\ m.sid \in mFd =>
                        /\ mEnv[m.sid] = e
                        /\ mSockets[e][m.sid] = IF m.type = "acceptable" THEN "accept" ELSE "read"
    BY DEF MailInv, ToItsOwner
  <2>1. LetterOK(e, mailbox[e][k])
    BY DEF MailInv, LettersOK
  <2> QED  BY <2>1 DEF LetterOK
<1> QED  BY <1>1, MailInit, MailStep, PTL DEF Spec
===============================================================================
