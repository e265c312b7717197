------------------------------- MODULE EnvPost -------------------------------
(***************************************************************************)
(* A message from env to env: env:post of lualib/env.lua packs the name of *)
(* the function and the arguments, env_post puts the bytes into the queue  *)
(* of the env, the worker that handles the message calls c_onPosed, which  *)
(* unpacks them.  EnvRegistry.tla has the way of the bytes, MsgPack.tla    *)
(* what they are made of.                                                  *)
(***************************************************************************)
EXTENDS EnvRegistry, MsgPack

CONSTANT Inputs \* the argument lists that scripts pass to env:post

ASSUME PostAssumption == Inputs \subseteq Seq(Values) \ {<<>>} /\ Payloads = {Pack(a) : a \in Inputs}

VARIABLE args   \* the one of this behaviour

postVars == <<vars, args>>

PostInit == args \in Inputs /\ InitWith(Pack(args))

PostNext == NextWith({Pack(args)}) /\ UNCHANGED args

PostSpec == PostInit /\ [][PostNext]_postVars

\* What is being handled, and what it was made of.
Handled == {[sent |-> args, bytes |-> handling[t].payload] : t \in {u \in Threads : handling[u] # Idle}}

\* The receiver has the values that were posted, in number, order and content, save
\* what the format has no place for: functions and tables nested too deep, which
\* arrive as nil.  A table with such a key cannot be built and the message is an
\* error in the receiver.
DeliveredAsSent ==
  \A m \in Handled :
    IF \E i \in DOMAIN m.sent : LosesKey(m.sent[i], 0)
    THEN Unpack(m.bytes).err = "index is nil"
    ELSE Unpack(m.bytes) = [vals |-> KeptArgs(m.sent), err |-> "none", next |-> -1]

\* A call of unpack_one or unpack_limit, limit values at a time, with the offset the
\* call before returned: what has been read, and the offset to go on from.
CallOn(payload, limit, before) ==
  LET r == IF limit = 1 THEN UnpackOne(payload, before.next)
                        ELSE UnpackLimit(payload, limit, before.next)
  IN  IF before.err # "none" \/ before.next = -1 THEN before
      ELSE [r EXCEPT !.vals = before.vals \o @]

\* The same after as many calls as times says.
Calls(payload, limit, times) ==
  LET read[n \in 0 .. times] ==
        IF n = 0 THEN [vals |-> <<>>, err |-> "none", next |-> 0]
        ELSE CallOn(payload, limit, read[n - 1])
  IN  read[times]

\* A stream read one by one, two by two or at once is the same stream, after no more
\* calls than it has values: no offset that unpack_one and unpack_limit return skips
\* or repeats a value.
StreamsAgree ==
  \A m \in Handled :
    Unpack(m.bytes).err = "none" =>
      \A limit \in 1 .. 2 :
        Calls(m.bytes, limit, Len(Unpack(m.bytes).vals)) = Unpack(m.bytes)

\* A payload that lost its end is an error or fewer whole values, never other ones,
\* and nothing behind the end is read.
CutIsRefused ==
  \A m \in Handled :
    Unpack(m.bytes).err = "none" =>
      \A n \in 0 .. Len(m.bytes) - 1 :
        LET r == Unpack(SubSeq(m.bytes, 1, n)) IN
        \/ r.err = "missing bytes"
        \/ r.err = "none" /\ IsStrictPrefix(r.vals, Unpack(m.bytes).vals)

\* What mp_buf_append counts as free was allocated, across the reuse of the buffer
\* for the next argument too.
BuffersHold ==
  \A writes \in {Writes(m.sent) : m \in Handled} :
    \A b \in Buffers(writes) : b.len + b.free <= b.cap
==============================================================================
