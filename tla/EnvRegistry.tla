----------------------------- MODULE EnvRegistry -----------------------------
(***************************************************************************)
(* The envs of env.c: env_create puts an env into mList under mLock and    *)
(* boots it on the calling thread, env_post looks an id up without a lock, *)
(* and workers handle what was posted.  The behaviours begin where main    *)
(* starts the threads, with the envs its boot script has created.          *)
(*                                                                         *)
(* A step is what a thread does between two points where another thread    *)
(* could tell the difference: the lock, the publication of the env, its    *)
(* queue, the two reads of env_post.  That an env is handled by one worker *)
(* at a time is shown in Dispatch.tla.                                     *)
(***************************************************************************)
EXTENDS Integers, Sequences, FiniteSets

CONSTANTS
  Threads,   \* the workers
  MaxEnvs,   \* bound: envs ever created
  Grow,      \* mList grows by it, 1024 in the code
  Payloads,  \* what is posted
  Exposed,   \* can an env be posted to before env_create returns?
  MaxPosts   \* bound: calls of env_post

ASSUME RegistryAssumption ==
  /\ 0 \notin Threads
  /\ Grow \in Nat /\ Grow > 2 /\ MaxEnvs \in Nat /\ MaxEnvs >= 2
  /\ Exposed \in BOOLEAN /\ MaxPosts \in Nat

Envs == 1 .. MaxEnvs
NoEnv == 0

VARIABLES
  mList,    \* id -> env, NoEnv where NULL
  moves,    \* how often REALLOC has moved mList
  mLock,    \* the thread that holds it, or 0
  envs,     \* env_t: its mId, whether it has a mMq, and its life
  queue,    \* env -> payloads in its queue
  known,    \* ids that scripts have
  pc,
  creating, \* thread -> the envs it is creating, innermost last
  handling, \* thread -> the env whose message it handles, and the payload
  posting,  \* thread -> the call of env_post it is in
  fault,    \* memory that was used and should not have been, or "none"
  nPosts

listVars == <<mList, moves, mLock>>
callVars == <<pc, creating, handling, posting>>
vars == <<listVars, envs, queue, known, callVars, fault, nPosts>>

Unborn == [mId |-> 0, mMq |-> FALSE, life |-> "unborn"]
Idle == [env |-> NoEnv, payload |-> <<>>]
NoPost == [to |-> 0, payload |-> <<>>, moves |-> 0]

\* main: "test" has created another env, and both have a message.
InitWith(payload) ==
  /\ mList = [i \in 0 .. Grow - 1 |-> IF i \in 1 .. 2 THEN i ELSE NoEnv]
  /\ moves = 0 /\ mLock = 0
  /\ envs = [e \in Envs |-> IF e <= 2 THEN [mId |-> e, mMq |-> TRUE, life |-> "up"] ELSE Unborn]
  /\ queue = [e \in Envs |-> IF e <= 2 THEN <<payload>> ELSE <<>>]
  /\ known = 1 .. 2
  /\ pc = [t \in Threads |-> "run"]
  /\ creating = [t \in Threads |-> <<>>]
  /\ handling = [t \in Threads |-> Idle]
  /\ posting = [t \in Threads |-> NoPost]
  /\ fault = "none" /\ nPosts = 0

Init == \E payload \in Payloads : InitWith(payload)

mListLen == Cardinality(DOMAIN mList)

Stands(t, where) == fault = "none" /\ pc[t] = where
Goto(t, where) == pc' = [pc EXCEPT ![t] = where]

\* The thread runs a script.
Script(t) == Stands(t, "run") /\ (handling[t].env # NoEnv \/ creating[t] # <<>>)

-----------------------------------------------------------------------------
(* env_create                                                              *)

\* Mutant: the lock is not taken.
CreateUnlocked(t) ==
  /\ Script(t)
  /\ mLock' = t
  /\ Goto(t, "find")
  /\ UNCHANGED <<mList, moves, envs, queue, known, creating, handling, posting, fault, nPosts>>

CreateLock(t) ==
  /\ Script(t)
  /\ mLock = 0
  /\ mLock' = t
  /\ Goto(t, "find")
  /\ UNCHANGED <<mList, moves, envs, queue, known, creating, handling, posting, fault, nPosts>>

\* The first NULL behind entry 0, or none.
FreeIds == {i \in 1 .. mListLen - 1 : mList[i] = NoEnv}

NewId == IF FreeIds = {} THEN mListLen ELSE CHOOSE i \in FreeIds : \A j \in FreeIds : i <= j

NewEnv == CHOOSE e \in Envs : envs[e] = Unborn

CreateFind(t) ==
  /\ Stands(t, "find")
  /\ \E e \in Envs : envs[e] = Unborn
  /\ creating' = [creating EXCEPT ![t] = Append(@, NewEnv)]
  /\ envs' = [envs EXCEPT ![NewEnv] = [mId |-> NewId, mMq |-> FALSE, life |-> "creating"]]
  /\ Goto(t, "publish")
  /\ UNCHANGED <<listVars, queue, known, handling, posting, fault, nPosts>>

\* Mutant: what REALLOC added is not set to NULL.
NewEntryRaw == MaxEnvs + 1

\* The entries that REALLOC adds.
NewEntry == NoEnv

Innermost(t) == creating[t][Len(creating[t])]

\* The list may move; the env is in it before it has a queue.
CreatePublish(t) ==
  LET e == Innermost(t)
      id == envs[e].mId
      grows == id >= mListLen
      ids == 0 .. (IF grows THEN mListLen + Grow ELSE mListLen) - 1
  IN  /\ Stands(t, "publish")
      /\ mList' = [i \in ids |-> IF i = id THEN e ELSE IF i \in DOMAIN mList THEN mList[i] ELSE NewEntry]
      /\ moves' = IF grows THEN moves + 1 ELSE moves
      /\ mLock' = 0
      /\ Goto(t, "init")
      /\ UNCHANGED <<envs, queue, known, creating, handling, posting, fault, nPosts>>

\* Mutant: the id is given to the creator when the boot begins.
CreateInitTells(t) ==
  LET e == Innermost(t) IN
  /\ Stands(t, "init")
  /\ envs' = [envs EXCEPT ![e].mMq = TRUE, ![e].life = "boot"]
  /\ known' = known \cup {envs[e].mId}
  /\ Goto(t, "run")
  /\ UNCHANGED <<listVars, queue, creating, handling, posting, fault, nPosts>>

\* mq_create, the Lua VM and its functions, and the begin of the boot script, which
\* can tell others the id (env.id) or cause messages to it (timers, sockets).
CreateInit(t) ==
  LET e == Innermost(t) IN
  /\ Stands(t, "init")
  /\ envs' = [envs EXCEPT ![e].mMq = TRUE, ![e].life = "boot"]
  /\ known' = IF Exposed THEN known \cup {envs[e].mId} ELSE known
  /\ Goto(t, "run")
  /\ UNCHANGED <<listVars, queue, creating, handling, posting, fault, nPosts>>

Created(t, life, mq) ==
  /\ Script(t)
  /\ creating[t] # <<>>
  /\ envs' = [envs EXCEPT ![Innermost(t)].life = life, ![Innermost(t)].mMq = mq]
  /\ creating' = [creating EXCEPT ![t] = SubSeq(@, 1, Len(@) - 1)]
  /\ UNCHANGED <<listVars, queue, pc, handling, posting, fault, nPosts>>

\* c_newEnv gives its caller the id.
Booted(t) ==
  /\ Created(t, "up", TRUE)
  /\ known' = known \cup {envs[Innermost(t)].mId}

\* Mutant: the id is given whether the boot succeeded or not.
BootFailsTold(t) ==
  /\ Created(t, "freed", FALSE)
  /\ known' = known \cup {envs[Innermost(t)].mId}

\* The env is freed; its entry in mList stays.
BootFails(t) ==
  /\ Created(t, "freed", FALSE)
  /\ UNCHANGED known

-----------------------------------------------------------------------------
(* env_post, and the handling of what was posted                           *)

\* mListLen and mList are read here ...
PostBegin(t, to, payload) ==
  /\ Script(t)
  /\ nPosts < MaxPosts
  /\ nPosts' = nPosts + 1
  /\ IF to > mListLen THEN UNCHANGED <<pc, posting>>
     ELSE /\ Goto(t, "post")
          /\ posting' = [posting EXCEPT ![t] = [to |-> to, payload |-> payload, moves |-> moves]]
  /\ UNCHANGED <<listVars, envs, queue, known, creating, handling, fault>>

\* What is wrong with the memory that a call p uses to find e and its queue.
Damage(p, e) ==
  CASE p.moves # moves             -> "moved"
    [] p.to \notin DOMAIN mList    -> "beyond"
    [] e = NoEnv                   -> "none"
    [] envs[e].life = "freed"      -> "freed"
    [] ~envs[e].mMq                -> "no queue"
    [] OTHER                       -> "none"

\* ... and the entry here, maybe from where the list was before.
PostEnd(t) ==
  LET p == posting[t]
      e == IF p.to \in DOMAIN mList THEN mList[p.to] ELSE NoEnv
  IN  /\ Stands(t, "post")
      /\ Goto(t, "run")
      /\ posting' = [posting EXCEPT ![t] = NoPost]
      /\ fault' = Damage(p, e)
      /\ queue' = IF fault' = "none" /\ e # NoEnv
                  THEN [queue EXCEPT ![e] = Append(@, p.payload)] ELSE queue
      /\ UNCHANGED <<listVars, envs, known, creating, handling, nPosts>>

\* A worker takes a message of an env no other worker handles; whether the env has
\* been booted, or freed, is not looked at.
Handle(t, e) ==
  /\ Stands(t, "run") /\ ~Script(t)
  /\ queue[e] # <<>>
  /\ \A u \in Threads : handling[u].env # e
  /\ handling' = [handling EXCEPT ![t] = [env |-> e, payload |-> Head(queue[e])]]
  /\ queue' = [queue EXCEPT ![e] = Tail(@)]
  /\ fault' = IF envs[e].life = "freed" THEN "freed" ELSE fault
  /\ UNCHANGED <<listVars, envs, known, pc, creating, posting, nPosts>>

Return(t) ==
  /\ Stands(t, "run")
  /\ handling[t] # Idle /\ creating[t] = <<>>
  /\ handling' = [handling EXCEPT ![t] = Idle]
  /\ UNCHANGED <<listVars, envs, queue, known, pc, creating, posting, fault, nPosts>>

NextWith(payloads) ==
  \E t \in Threads :
    \/ CreateLock(t) \/ CreateFind(t) \/ CreatePublish(t) \/ CreateInit(t)
    \/ Booted(t) \/ BootFails(t)
    \/ \E to \in known, p \in payloads : PostBegin(t, to, p)
    \/ PostEnd(t)
    \/ \E e \in Envs : Handle(t, e)
    \/ Return(t)

Next == NextWith(Payloads)

Spec == Init /\ [][Next]_vars

-----------------------------------------------------------------------------
TypeOK ==
  /\ DOMAIN mList = 0 .. mListLen - 1
  /\ \A i \in DOMAIN mList : mList[i] \in Envs \cup {NoEnv}
  /\ moves \in Nat /\ mLock \in Threads \cup {0}
  /\ envs \in [Envs -> [mId: Nat, mMq: BOOLEAN,
                        life: {"unborn", "creating", "boot", "up", "freed"}]]
  /\ known \subseteq Nat
  /\ pc \in [Threads -> {"run", "find", "publish", "init", "post"}]
  /\ \A t \in Threads : creating[t] \in Seq(Envs) /\ handling[t].env \in Envs \cup {NoEnv}
  /\ fault \in {"none", "moved", "beyond", "freed", "no queue"}
  /\ nPosts \in 0 .. MaxPosts

\* An id names one env for ever, however many threads create envs at once: no two
\* envs get the same, and mList leads from the id of an env to that env.
IdNamesOneEnv ==
  /\ \A e, f \in Envs : e # f /\ envs[e].mId = envs[f].mId => envs[e] = Unborn
  /\ \A e \in Envs : envs[e].life \in {"boot", "up"} => mList[envs[e].mId] = e

\* All ids of the list as main left it have been given out.
ListWasFull == \A id \in 1 .. Grow - 1 : id \in DOMAIN mList /\ mList[id] # NoEnv

\* Who has an id posts to an env that lives and has a queue, and no env is handled
\* after it was freed, with one exception, and only that: if REALLOC (env.c:281) moves
\* the list while env_post is between its two reads, the entry is read from memory
\* that was given back (env.c:48), and nothing can be said about what follows.  It
\* takes Grow - 1 envs, 1023 in the code, before that can happen; then it does, in the
\* run that checks this too.
PostsFindQueue == fault = "none" \/ (fault = "moved" /\ ListWasFull)

\* Different envs run in parallel (README.md of the repository), an env does not:
\* no two threads are in the Lua VM of an env, one that boots it among them.
VmRunByOne ==
  \A e \in Envs :
    Cardinality({t \in Threads : \/ handling[t].env = e
                                 \/ \E k \in DOMAIN creating[t] : creating[t][k] = e}) <= 1
==============================================================================
