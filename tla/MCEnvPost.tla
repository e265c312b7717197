----------------------------- MODULE MCEnvPost -----------------------------
(***************************************************************************)
(* EnvPost.tla with argument lists at the borders of every encoding.       *)
(***************************************************************************)
EXTENDS EnvPost

Text(n) == Str([d \in 1 .. n |-> <<"byte", d % Base>>])
List(n) == Table([j \in 1 .. n |-> <<Number(j), Bool(j = n)>>])
Map(n) == Table([j \in 1 .. n |-> <<Number(2 * j), Bool(j = n)>>])

\* Numbers on both sides of each border, and the first and the last int64.
Borders ==
  {0, FixPos, -FixNeg} \cup UNION {{Pow(w), -Pow(w), Pow(w) \div 2, -(Pow(w) \div 2)} : w \in {1, 2, 4}}

Numbers == {<<Number(n - 1), Number(n), Number(n + 1)>> : n \in Borders}
             \cup {<<Number(Pow(8) \div 2 - 1), Number(-(Pow(8) \div 2))>>}

Others == {<<Text(0), Text(1), Text(2), Text(3)>>, <<Text(4), Text(15)>>, <<Text(16), Text(17)>>,
           <<Nil, Bool(TRUE), Function, Bool(FALSE)>>, <<Float(4), Float(8)>>}

RECURSIVE Nested(_)
Nested(n) == IF n = 0 THEN Number(1) ELSE Table(<<<<Number(1), Nested(n - 1)>>>>)

\* Lists, maps, and tables that are nearly lists; nesting; keys and values that are lost.
Tables ==
  {List(n) : n \in {0, 1, 2, 15, 16}} \cup {Map(n) : n \in {1, 2, 16}}
  \cup {Nested(n) : n \in 1 .. MaxNesting + 1}
  \cup {Table(kv) : kv \in {
          <<<<Number(2), Text(1)>>, <<Number(1), Text(2)>>>>,
          <<<<Number(0), Text(1)>>, <<Number(2), Text(2)>>>>,
          <<<<Number(1), Text(1)>>, <<Number(3), Text(2)>>>>,
          <<<<Number(-1), Text(1)>>>>, <<<<Float(4), Text(1)>>>>,
          <<<<Number(1), Function>>, <<Number(2), Bool(FALSE)>>>>,
          <<<<Text(1), Function>>, <<Text(2), List(1)>>>>,
          <<<<Function, Text(1)>>>>, <<<<List(1), Map(1)>>>>,
          <<<<Number(1), Map(1)>>, <<Number(2), Table(<<<<Nested(1), Function>>>>)>>>> }}

Posted ==
  {<<Text(1)>> \o vs : vs \in Numbers \cup Others \cup {<<v>> : v \in Tables}}
  \cup {<<Nil>>, <<Text(2)>>, <<Text(1), Nil, Text(3)>>, <<Text(1), List(2), Nil, Map(1), Number(-9)>>,
        <<Text(16), Text(1), Text(15), Float(8), Text(17)>>}

Packs == {Pack(a) : a \in Posted}

\* The values in the argument lists, and those in the tables among them.
RECURSIVE PartsOf(_)
PartsOf(v) ==
  {v} \cup IF v.t = "table" THEN UNION {PartsOf(v.kv[j][1]) \cup PartsOf(v.kv[j][2]) : j \in DOMAIN v.kv}
          ELSE {}

Parts == {Nil} \cup UNION {UNION {PartsOf(a[i]) : i \in DOMAIN a} : a \in Posted}

\* One message, for the run about the boot of an env.
OnePosted == {<<Text(1), Number(2)>>}
OnePack == {Pack(a) : a \in OnePosted}

AnyWorker == Permutations(Threads)
=============================================================================
