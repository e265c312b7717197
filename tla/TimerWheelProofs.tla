--------------------------- MODULE TimerWheelProofs ---------------------------
(***************************************************************************)
(* Proofs about TimerWheel for wheels of any size, any number of timers,   *)
(* waiting times and repeats, where timer_del is called on the first of a  *)
(* list at most (~DelAnywhere; in mul nobody calls it): no object is lost, *)
(* timer_nearest skips no timer, and the wheel implements DeadlineTimers.  *)
(***************************************************************************)
EXTENDS TimerWheel, FiniteSetTheorems, SequenceTheorems, WellFoundedInduction, TLAPS

-----------------------------------------------------------------------------
(* The inductive invariant: every tid of the pool is in one place, which   *)
(* is a slot of the wheel or one of these.                                 *)

Long == -1
Unused == -2
InHand == -3
Places == Slots \cup {Long, Unused, InHand}

\* A list has the tids whose place it is, each once.
Distinct(list) == \A i, j \in DOMAIN list : list[i] = list[j] => i = j
Elements(list) == {list[i] : i \in DOMAIN list}
Holds(list, place, k) ==
  Distinct(list) /\ Elements(list) = {id \in DOMAIN place : place[id] = k}

Placing(place) ==
  /\ place \in [1 .. objpooln -> Places]
  /\ \A s \in Slots : Holds(ticklist[s], place, s)
  /\ Holds(longlist, place, Long)
  /\ Holds(freelist, place, Unused)
  /\ \A id \in 1 .. objpooln : place[id] = InHand <=> phase = "callback" /\ ticking = id

\* timer_tick looks at no fewer objects than there are in its slot.
TickOK ==
  /\ phase = "idle" => ticking = 0
  /\ phase = "callback" => ticking # 0
  /\ phase # "idle" => Len(ticklist[current]) <= num

WheelInv == TypeOK /\ TickOK /\ \E place \in [1 .. objpooln -> Places] : Placing(place)

-----------------------------------------------------------------------------
(* Lists and places.                                                       *)

\* uq_addtail: an object from elsewhere gets this place.
LEMMA HoldsAdded ==
  ASSUME NEW list \in Seq(Ids), NEW place, NEW k, NEW x \in DOMAIN place,
         Holds(list, place, k), place[x] # k, DOMAIN place \subseteq Ids
  PROVE  Holds(Append(list, x), [place EXCEPT ![x] = k], k)
<1> DEFINE more == Append(list, x)
           at == [place EXCEPT ![x] = k]
<1>1. /\ more \in Seq(Ids) /\ Len(more) = Len(list) + 1
      /\ DOMAIN more = 1 .. Len(list) + 1 /\ DOMAIN list = 1 .. Len(list)
      /\ \A i \in 1 .. Len(list) : more[i] = list[i]
      /\ more[Len(list) + 1] = x /\ Len(list) \in Nat
  OBVIOUS
<1>2. x \notin Elements(list)
  BY DEF Holds
<1> HIDE DEF more
<1>3. Distinct(more)
  BY <1>1, <1>2 DEF Distinct, Holds, Elements
<1>4. Elements(more) = Elements(list) \cup {x}
  BY <1>1 DEF Elements
<1>5. {id \in DOMAIN at : at[id] = k} = {id \in DOMAIN place : place[id] = k} \cup {x}
  OBVIOUS
<1> QED  BY <1>3, <1>4, <1>5 DEF Holds, more

\* uq_pophead: the first object goes elsewhere.
LEMMA HoldsPopped ==
  ASSUME NEW list \in Seq(Ids), list # <<>>, NEW place, NEW k, NEW j, j # k,
         Holds(list, place, k)
  PROVE  /\ Head(list) \in DOMAIN place /\ place[Head(list)] = k
         /\ Holds(Tail(list), [place EXCEPT ![Head(list)] = j], k)
<1> DEFINE rest == Tail(list)
<1>1. PICK x : x = Head(list)
  OBVIOUS
<1>2. /\ rest \in Seq(Ids) /\ Len(list) \in Nat \ {0} /\ DOMAIN list = 1 .. Len(list)
      /\ DOMAIN rest = 1 .. Len(list) - 1
      /\ \A i \in 1 .. Len(list) - 1 : rest[i] = list[i + 1]
      /\ list[1] = x
  BY <1>1
<1> HIDE DEF rest
<1>3. x \in Elements(list)
  BY <1>2 DEF Elements
<1>4. x \in DOMAIN place /\ place[x] = k
  BY <1>3 DEF Holds
<1>5. Distinct(rest)
  <2>1. ASSUME NEW i \in DOMAIN rest, NEW n \in DOMAIN rest, rest[i] = rest[n] PROVE i = n
    <3>1. i + 1 \in DOMAIN list /\ n + 1 \in DOMAIN list /\ list[i + 1] = list[n + 1]
      BY <1>2, <2>1
    <3>2. i + 1 = n + 1
      BY <3>1 DEF Holds, Distinct
    <3> QED  BY <3>2, <1>2
  <2> QED  BY <2>1 DEF Distinct
<1>6. Elements(rest) = Elements(list) \ {x}
  <2>1. ASSUME NEW y \in Elements(rest) PROVE y \in Elements(list) /\ y # x
    <3>1. PICK i \in DOMAIN rest : y = rest[i]
      BY <2>1 DEF Elements
    <3>2. i + 1 \in DOMAIN list /\ 1 \in DOMAIN list /\ y = list[i + 1] /\ i + 1 # 1
      BY <1>2, <3>1
    <3> QED  BY <1>2, <3>2 DEF Elements, Holds, Distinct
  <2>2. ASSUME NEW y \in Elements(list), y # x PROVE y \in Elements(rest)
    <3>1. PICK i \in DOMAIN list : y = list[i]
      BY <2>2 DEF Elements
    <3>2. i - 1 \in DOMAIN rest /\ rest[i - 1] = list[i]
      BY <1>2, <2>2, <3>1
    <3> QED  BY <3>1, <3>2 DEF Elements
  <2> QED  BY <2>1, <2>2
<1>7. Holds(rest, [place EXCEPT ![x] = j], k)
  BY <1>4, <1>5, <1>6 DEF Holds
<1>8. Tail(list) = rest
  BY DEF rest
<1> QED  BY <1>1, <1>4, <1>7, <1>8, Zenon

\* A list an object neither leaves nor joins.
LEMMA HoldsStill ==
  ASSUME NEW list, NEW place, NEW k, NEW j, NEW x,
         Holds(list, place, k), j # k, x \in DOMAIN place => place[x] # k
  PROVE  Holds(list, [place EXCEPT ![x] = j], k)
<1>1. {id \in DOMAIN place : place[id] = k}
      = {id \in DOMAIN [place EXCEPT ![x] = j] : [place EXCEPT ![x] = j][id] = k}
  OBVIOUS
<1> QED  BY <1>1 DEF Holds

\* uq_erase of the first object is uq_pophead.
LEMMA ErasedIsTail ==
  ASSUME ~DelAnywhere, NEW list \in Seq(Ids), NEW id, MayErase(list, id), Distinct(list)
  PROVE  list # <<>> /\ Head(list) = id /\ Erased(list, id) = Tail(list)
<1>1. /\ 1 \in DOMAIN list /\ list[1] = id
  BY DEF MayErase
<1>2. list # <<>> /\ Head(list) = id
  BY <1>1
<1>3. \A i \in DOMAIN list : list[i] = id => i = 1
  BY <1>1 DEF Distinct
<1>4. (CHOOSE i \in DOMAIN list : list[i] = id) = 1
  BY <1>1, <1>3
<1>5. Erased(list, id) = SubSeq(list, 1 + 1, Len(list))
  BY <1>4, Zenon DEF Erased
<1>6. SubSeq(list, 1 + 1, Len(list)) = Tail(list)
  BY <1>2
<1> QED  BY <1>2, <1>5, <1>6

-----------------------------------------------------------------------------
(* What the recursive function in Those comes to.  Induction is by the     *)
(* least number for which something fails.                                 *)

\* Every non-empty set of naturals has a least element.
LEMMA LeastNatural ==
  ASSUME NEW S \in SUBSET Nat, S # {}
  PROVE  \E x \in S : \A y \in S : x <= y
<1> DEFINE T == {0 .. x : x \in S}
<1>1. T \subseteq FiniteSubsetsOf(Nat) /\ T # {}
  <2>1. ASSUME NEW x \in S PROVE IsFiniteSet(0 .. x) /\ 0 .. x \subseteq Nat
    BY FS_Interval
  <2> QED
    BY <2>1 DEF FiniteSubsetsOf
<1>2. PICK X \in T : \A Y \in T : <<Y, X>> \notin StrictSubsetOrdering(Nat)
  <2> HIDE DEF T
  <2> QED
    BY <1>1, WFMin, FS_StrictSubsetOrderingWellFounded
<1>3. PICK x \in S : X = 0 .. x
  OBVIOUS
<1>4. ASSUME NEW y \in S, y < x PROVE FALSE
  <2>1. 0 .. y \subseteq 0 .. x /\ x \in 0 .. x /\ x \notin 0 .. y
    BY <1>4
  <2>2. <<0 .. y, X>> \in StrictSubsetOrdering(Nat)
    BY <2>1, <1>3 DEF StrictSubsetOrdering
  <2> QED
    BY <2>2, <1>2
<1> QED
  BY <1>4

\* One step of Those, in which found stands for the function.
Found(list, S, found, n) ==
  IF n = 0 THEN <<>>
  ELSE IF list[n] \in S THEN Append(found[n - 1], list[n])
  ELSE found[n - 1]

\* The function exists up to any place.
LEMMA ThoseAreFound ==
  ASSUME NEW list, NEW S, NEW m \in Nat
  PROVE  \E found : found = [n \in 0 .. m |-> Found(list, S, found, n)]
<1> DEFINE Fails == {k \in Nat : ~\E found : found = [n \in 0 .. k |-> Found(list, S, found, n)]}
<1>1. SUFFICES ASSUME Fails # {} PROVE FALSE
  OBVIOUS
<1>2. PICK k \in Fails : \A y \in Fails : k <= y
  BY <1>1, LeastNatural
<1>3. CASE k = 0
  <2>1. PICK f : f = [n \in 0 .. 0 |-> <<>>]
    OBVIOUS
  <2>2. [n \in 0 .. 0 |-> <<>>] = [n \in 0 .. 0 |-> Found(list, S, f, n)]
    BY DEF Found
  <2>3. f = [n \in 0 .. k |-> Found(list, S, f, n)]
    BY <1>3, <2>1, <2>2
  <2> QED  BY <1>2, <2>3
<1>4. CASE k # 0
  <2>1. k - 1 \in Nat /\ k - 1 \notin Fails /\ k \in Nat
    BY <1>2, <1>4
  <2>2. PICK f : f = [n \in 0 .. k - 1 |-> Found(list, S, f, n)]
    BY <2>1
  <2>3. PICK g : g = [n \in 0 .. k |-> IF n = k THEN Found(list, S, f, k) ELSE f[n]]
    OBVIOUS
  <2>4. ASSUME NEW n \in 0 .. k PROVE g[n] = Found(list, S, g, n)
    <3>1. n # 0 => n - 1 \in 0 .. k /\ g[n - 1] = f[n - 1]
      BY <2>1, <2>3, <2>4
    <3>2. Found(list, S, g, n) = Found(list, S, f, n)
      BY <3>1, Zenon DEF Found
    <3>3. CASE n = k
      BY <2>3, <3>2, <3>3
    <3>4. CASE n # k
      <4>1. n \in 0 .. k - 1
        BY <2>1, <2>4, <3>4
      <4>2. f[n] = Found(list, S, f, n)
        BY <2>2, <4>1, Zenon
      <4>3. g[n] = f[n]
        BY <2>3, <3>4
      <4> QED  BY <3>2, <4>2, <4>3
    <3> QED  BY <3>3, <3>4
  <2>5. g = [n \in 0 .. k |-> g[n]]
    BY <2>3
  <2>6. [n \in 0 .. k |-> g[n]] = [n \in 0 .. k |-> Found(list, S, g, n)]
    BY <2>4
  <2> QED  BY <1>2, <2>5, <2>6
<1> QED  BY <1>3, <1>4

\* Those has each element of the list that is in S once, and no other.
LEMMA ThoseAreThose ==
  ASSUME NEW list \in Seq(Ids), Distinct(list), NEW S
  PROVE  /\ Those(list, S) \in Seq(Ids)
         /\ Distinct(Those(list, S))
         /\ Elements(Those(list, S)) = Elements(list) \cap S
<1>0. Len(list) \in Nat /\ DOMAIN list = 1 .. Len(list) /\ \A i \in 1 .. Len(list) : list[i] \in Ids
  OBVIOUS
<1>1. \E found : found = [n \in 0 .. Len(list) |-> Found(list, S, found, n)]
  BY <1>0, ThoseAreFound
<1>2. PICK f : /\ f = [n \in 0 .. Len(list) |-> Found(list, S, f, n)]
               /\ Those(list, S) = f[Len(list)]
  BY <1>1 DEF Those, Found
<1>3. \A n \in 0 .. Len(list) : f[n] = Found(list, S, f, n)
  BY <1>2, Zenon
<1> DEFINE Good(n) == /\ f[n] \in Seq(Ids)
                      /\ Distinct(f[n])
                      /\ Elements(f[n]) = {list[i] : i \in 1 .. n} \cap S
           Bad == {n \in 0 .. Len(list) : ~Good(n)}
<1>4. Bad = {}
  <2>1. SUFFICES ASSUME Bad # {} PROVE FALSE
    OBVIOUS
  <2>2. PICK n \in Bad : \A y \in Bad : n <= y
    <3>1. Bad \in SUBSET Nat
      BY <1>0
    <3> HIDE DEF Bad
    <3> QED  BY <2>1, <3>1, LeastNatural
  <2>3. CASE n = 0
    <3>1. f[0] = <<>>
      BY <1>0, <1>3 DEF Found
    <3>2. Distinct(<<>>) /\ Elements(<<>>) = {} /\ <<>> \in Seq(Ids)
      BY DEF Distinct, Elements
    <3>3. {list[i] : i \in 1 .. 0} \cap S = {}
      OBVIOUS
    <3>4. Good(0)
      BY <3>1, <3>2, <3>3
    <3> HIDE DEF Good
    <3> QED  BY <2>2, <2>3, <3>4
  <2>4. CASE n # 0
    <3>1. n \in 1 .. Len(list) /\ n - 1 \in 0 .. Len(list) /\ n - 1 \notin Bad
      <4> HIDE DEF Good
      <4> QED  BY <1>0, <2>2, <2>4
    <3>2. Good(n - 1)
      <4> HIDE DEF Good
      <4> QED  BY <3>1
    <3> HIDE DEF Bad
    <3>3. PICK q : q = f[n - 1]
      OBVIOUS
    <3>4. q \in Seq(Ids) /\ Distinct(q) /\ Elements(q) = {list[i] : i \in 1 .. n - 1} \cap S
      BY <3>2, <3>3
    <3>5. {list[i] : i \in 1 .. n} = {list[i] : i \in 1 .. n - 1} \cup {list[n]}
      BY <3>1
    <3>6. f[n] = IF list[n] \in S THEN Append(q, list[n]) ELSE q
      <4>1. f[n] = Found(list, S, f, n)
        BY <1>3, <3>1
      <4> QED  BY <3>1, <3>3, <4>1 DEF Found
    <3>7. CASE list[n] \notin S
      <4>1. f[n] = q
        BY <3>6, <3>7
      <4>2. Good(n)
        BY <3>4, <3>5, <3>7, <4>1
      <4> QED  BY <2>2, <4>2 DEF Bad
    <3>8. CASE list[n] \in S
      <4>1. PICK p : p = Append(q, list[n])
        OBVIOUS
      <4>2. /\ p \in Seq(Ids) /\ Len(q) \in Nat /\ DOMAIN q = 1 .. Len(q)
            /\ DOMAIN p = 1 .. Len(q) + 1 /\ p[Len(q) + 1] = list[n]
            /\ \A i \in 1 .. Len(q) : p[i] = q[i]
        BY <1>0, <3>1, <3>4, <4>1
      <4>3. list[n] \notin Elements(q)
        <5>1. \A i \in 1 .. n - 1 : list[i] # list[n]
          BY <1>0, <3>1 DEF Distinct
        <5> QED  BY <3>4, <5>1
      <4>4. Distinct(p)
        BY <3>4, <4>2, <4>3 DEF Distinct, Elements
      <4>5. Elements(p) = Elements(q) \cup {list[n]}
        BY <4>2 DEF Elements
      <4>6. f[n] = p
        BY <3>6, <3>8, <4>1
      <4>7. Good(n)
        BY <3>4, <3>5, <3>8, <4>2, <4>4, <4>5, <4>6
      <4> QED  BY <2>2, <4>7 DEF Bad
    <3> QED  BY <3>7, <3>8
  <2> QED  BY <2>3, <2>4
<1>5. Good(Len(list))
  <2> HIDE DEF Good
  <2> QED  BY <1>0, <1>4
<1>6. {list[i] : i \in 1 .. Len(list)} = Elements(list)
  BY <1>0 DEF Elements
<1> QED  BY <1>2, <1>5, <1>6

-----------------------------------------------------------------------------
(* What a step does to the timers that wait.                               *)

Waiting(place) == {id \in DOMAIN place : place[id] \notin {Unused, InHand}}

\* Calls of timer_tick before the one id is due in, and what is known of id.
LeftOf(place, id) ==
  IF place[id] = Long THEN obj[id].timeleft + (ticklistn - current)
  ELSE (place[id] - current) % ticklistn
Row(place, id) ==
  [left |-> LeftOf(place, id), timeout |-> obj[id].timeout, repeat |-> obj[id].repeat]

Stays(p, q) ==
  /\ Waiting(q) = Waiting(p)
  /\ \A id \in Waiting(p) : Row(q, id)' = Row(p, id)
Joins(p, q, id, t, r) ==
  /\ id \notin Waiting(p) /\ Waiting(q) = Waiting(p) \cup {id}
  /\ \A i \in Waiting(p) : Row(q, i)' = Row(p, i)
  /\ Row(q, id)' = [left |-> IF ticking # 0 /\ t = 0 THEN 1 ELSE t, timeout |-> t, repeat |-> r]
Leaves(p, q, id) ==
  /\ id \in Waiting(p) /\ Waiting(q) = Waiting(p) \ {id}
  /\ \A i \in Waiting(q) : Row(q, i)' = Row(p, i)
Nears(p, q) ==
  /\ Waiting(q) = Waiting(p)
  /\ \A id \in Waiting(p) :
       /\ LeftOf(p, id) \in Nat \ {0}
       /\ Row(q, id)' = [Row(p, id) EXCEPT !.left = LeftOf(p, id) - 1]

-----------------------------------------------------------------------------
(* add_obj_raw.                                                            *)

\* It puts id in place p, from where it is due in t calls.
Placed(id, t, r, p) ==
  /\ ticklist' \in [Slots -> Seq(Ids)]
  /\ \A s \in Slots : ticklist'[s] = IF s = p THEN Append(ticklist[s], id) ELSE ticklist[s]
  /\ longlist' = IF p = Long THEN Append(longlist, id) ELSE longlist
  /\ \E left \in Nat :
       /\ obj' = [obj EXCEPT ![id] = [timeout |-> t, timeleft |-> left, repeat |-> r]]
       /\ (IF p = Long THEN left + (ticklistn - current) ELSE (p - current) % ticklistn)
          = IF ticking # 0 /\ t = 0 THEN 1 ELSE t
  /\ ticking # 0 => p # current

\* The wheel has a slot at least, and current is one of them.
LEMMA WheelSize ==
  ASSUME TypeOK
  PROVE  /\ ticklistn \in Nat \ {0} /\ current \in 0 .. ticklistn - 1
         /\ Slots = 0 .. ticklistn - 1
  BY TimerAssumption DEF TypeOK, Slots

\* Around the wheel once at most, forth and back.
LEMMA Forth ==
  ASSUME NEW N \in Nat \ {0}, NEW c \in 0 .. N - 1, NEW d \in 0 .. N - 1
  PROVE  (c + d) % N = IF c + d < N THEN c + d ELSE c + d - N
  OBVIOUS

\* How far ahead of current a slot is, around the wheel once at most.
LEMMA Back ==
  ASSUME NEW N \in Nat \ {0}, NEW c \in 0 .. N - 1, NEW s \in 0 .. N - 1
  PROVE  (s - c) % N = IF s >= c THEN s - c ELSE s - c + N
  OBVIOUS

\* add_obj_raw puts the object in one place, of a slot or of the long list.
LEMMA AddObjPlaces ==
  ASSUME TypeOK, NEW id \in Ids, NEW t \in Nat, NEW r \in Nat, AddObj(id, t, r)
  PROVE  \E p \in Slots \cup {Long} : Placed(id, t, r, p)
<1> DEFINE left == IF ticking # 0 /\ t = 0 THEN 1 ELSE t
<1>1. left \in Nat /\ (ticking # 0 => left # 0)
  OBVIOUS
<1>2. CASE left >= ticklistn
  <2>1. /\ longlist' = Append(longlist, id) /\ ticklist' = ticklist
        /\ obj' = [obj EXCEPT ![id] = [timeout |-> t, repeat |-> r,
                                       timeleft |-> left - (ticklistn - current)]]
    BY <1>2 DEF AddObj, AddTail
  <2>2. PICK n : n = left - (ticklistn - current)
    OBVIOUS
  <2>3. n \in Nat /\ n + (ticklistn - current) = left
    BY <1>1, <1>2, <2>2, WheelSize
  <2>4. obj' = [obj EXCEPT ![id] = [timeout |-> t, timeleft |-> n, repeat |-> r]]
    BY <2>1, <2>2
  <2>5. \A s \in Slots : s # Long
    BY WheelSize DEF Long
  <2>6. ticklist \in [Slots -> Seq(Ids)] /\ current # Long
    BY WheelSize DEF TypeOK, Long
  <2>7. Placed(id, t, r, Long)
    BY <2>1, <2>3, <2>4, <2>5, <2>6 DEF Placed
  <2> QED  BY <2>7
<1>3. CASE ~(left >= ticklistn)
  <2>1. PICK p : p = (current + left) % ticklistn
    OBVIOUS
  <2>2. /\ ticklist' = [ticklist EXCEPT ![p] = Append(@, id)] /\ longlist' = longlist
        /\ obj' = [obj EXCEPT ![id] = [timeout |-> t, repeat |-> r, timeleft |-> left]]
    BY <1>3, <2>1 DEF AddObj, AddTail
  <2>3. p \in Slots /\ (p - current) % ticklistn = left /\ (left # 0 => p # current)
    <3>1. PICK N, c, d :
            /\ N = ticklistn /\ c = current /\ d = left
            /\ N \in Nat \ {0} /\ c \in 0 .. N - 1 /\ d \in 0 .. N - 1
      BY <1>1, <1>3, WheelSize
    <3>2. p = IF c + d < N THEN c + d ELSE c + d - N
      BY <2>1, <3>1, Forth, Zenon
    <3>3. p \in 0 .. N - 1 /\ (d # 0 => p # c)
      BY <3>1, <3>2
    <3>4. (p - c) % N = IF p >= c THEN p - c ELSE p - c + N
      BY <3>1, <3>3, Back
    <3>5. (p - c) % N = d
      BY <3>1, <3>2, <3>3, <3>4
    <3> HIDE DEF left
    <3>6. (p - current) % ticklistn = left
      BY <3>1, <3>5, Zenon
    <3>7. p \in Slots /\ (left # 0 => p # current)
      BY <3>1, <3>3, WheelSize
    <3> QED  BY <3>6, <3>7
  <2>4. p # Long
    BY <2>3, WheelSize DEF Long
  <2>5. ticklist \in [Slots -> Seq(Ids)]
    BY DEF TypeOK
  <2>6. ticklist' \in [Slots -> Seq(Ids)]
    <3>1. Append(ticklist[p], id) \in Seq(Ids)
      BY <2>3, <2>5
    <3> QED  BY <2>2, <2>5, <3>1
  <2>7. \A s \in Slots : ticklist'[s] = IF s = p THEN Append(ticklist[s], id) ELSE ticklist[s]
    BY <2>2, <2>5
  <2>8. obj' = [obj EXCEPT ![id] = [timeout |-> t, timeleft |-> left, repeat |-> r]]
    BY <2>2
  <2>9. Placed(id, t, r, p)
    BY <1>1, <2>2, <2>3, <2>4, <2>6, <2>7, <2>8 DEF Placed
  <2> QED  BY <2>3, <2>9
<1> QED  BY <1>2, <1>3

\* The lists of the wheel hold what they should again.
LEMMA PlacedHeld ==
  ASSUME TypeOK, NEW h, DOMAIN h \subseteq Ids, NEW id \in DOMAIN h, h[id] \in {Unused, InHand},
         \A s \in Slots : Holds(ticklist[s], h, s), Holds(longlist, h, Long),
         NEW t, NEW r, NEW p \in Slots \cup {Long}, Placed(id, t, r, p)
  PROVE  /\ \A s \in Slots : Holds(ticklist'[s], [h EXCEPT ![id] = p], s)
         /\ Holds(longlist', [h EXCEPT ![id] = p], Long)
<1>1. ticklist \in [Slots -> Seq(Ids)] /\ longlist \in Seq(Ids)
  BY DEF TypeOK
<1>2. \A s \in Slots : h[id] # s /\ s # Long
  BY WheelSize DEF Unused, InHand, Long
<1>3. h[id] # Long
  BY DEF Unused, InHand, Long
<1>4. ASSUME NEW s \in Slots PROVE Holds(ticklist'[s], [h EXCEPT ![id] = p], s)
  <2>1. CASE s = p
    <3>1. Holds(Append(ticklist[s], id), [h EXCEPT ![id] = s], s)
      BY <1>1, <1>2, HoldsAdded
    <3>2. ticklist'[s] = Append(ticklist[s], id)
      BY <2>1 DEF Placed
    <3> QED  BY <2>1, <3>1, <3>2
  <2>2. CASE s # p
    <3>1. ticklist'[s] = ticklist[s]
      BY <2>2 DEF Placed
    <3>2. Holds(ticklist[s], [h EXCEPT ![id] = p], s)
      BY <1>2, <2>2, HoldsStill
    <3> QED  BY <3>1, <3>2
  <2> QED  BY <2>1, <2>2
<1>5. CASE p = Long
  <2>1. Holds(Append(longlist, id), [h EXCEPT ![id] = Long], Long)
    BY <1>1, <1>3, HoldsAdded
  <2> QED  BY <1>4, <1>5, <2>1 DEF Placed
<1>6. CASE p # Long
  <2>1. Holds(longlist, [h EXCEPT ![id] = p], Long)
    BY <1>3, <1>6, HoldsStill
  <2> QED  BY <1>4, <1>6, <2>1 DEF Placed
<1> QED  BY <1>5, <1>6

\* And the timer waits.
LEMMA PlacedJoins ==
  ASSUME TypeOK, NEW h, DOMAIN h \subseteq Ids, NEW id \in DOMAIN h, h[id] \in {Unused, InHand},
         NEW t, NEW r, NEW p \in Slots \cup {Long}, Placed(id, t, r, p),
         UNCHANGED <<ticklistn, current>>
  PROVE  Joins(h, [h EXCEPT ![id] = p], id, t, r)
<1>1. PICK q : q = [h EXCEPT ![id] = p]
  OBVIOUS
<1>2. p \notin {Unused, InHand}
  BY WheelSize DEF Unused, InHand, Long
<1>3. Waiting(q) = Waiting(h) \cup {id} /\ id \notin Waiting(h)
  BY <1>1, <1>2 DEF Waiting
<1>4. PICK left \in Nat :
        /\ obj' = [obj EXCEPT ![id] = [timeout |-> t, timeleft |-> left, repeat |-> r]]
        /\ (IF p = Long THEN left + (ticklistn - current) ELSE (p - current) % ticklistn)
           = IF ticking # 0 /\ t = 0 THEN 1 ELSE t
  BY DEF Placed
<1>5. DOMAIN obj = Ids
  BY DEF TypeOK
<1>6. ASSUME NEW i \in Waiting(h) PROVE Row(q, i)' = Row(h, i)
  <2>1. i \in DOMAIN h /\ i # id /\ q[i] = h[i] /\ obj'[i] = obj[i]
    BY <1>1, <1>3, <1>4, <1>5, <1>6 DEF Waiting
  <2> QED  BY <2>1 DEF Row, LeftOf
<1>7. Row(q, id)' = [left |-> IF ticking # 0 /\ t = 0 THEN 1 ELSE t, timeout |-> t, repeat |-> r]
  <2>1. q[id] = p /\ obj'[id] = [timeout |-> t, timeleft |-> left, repeat |-> r]
    BY <1>1, <1>4, <1>5
  <2> QED  BY <1>4, <2>1 DEF Row, LeftOf
<1>8. Joins(h, q, id, t, r)
  BY <1>3, <1>6, <1>7 DEF Joins
<1> QED  BY <1>1, <1>8, Zenon

-----------------------------------------------------------------------------
(* timer_add and timer_del.                                                *)

\* What the types say after add_obj_raw.
LEMMA PlacedTypes ==
  ASSUME TypeOK, NEW id \in Ids, NEW t \in Nat, NEW r \in Nat,
         NEW p \in Slots \cup {Long}, Placed(id, t, r, p)
  PROVE  /\ ticklist' \in [Slots -> Seq(Ids)] /\ longlist' \in Seq(Ids)
         /\ obj' \in [Ids -> [timeout : Nat, timeleft : Nat, repeat : Nat]]
<1>1. longlist' \in Seq(Ids)
  BY DEF Placed, TypeOK
<1>2. obj' \in [Ids -> [timeout : Nat, timeleft : Nat, repeat : Nat]]
  <2>1. obj \in [Ids -> [timeout : Nat, timeleft : Nat, repeat : Nat]]
    BY DEF TypeOK
  <2>2. PICK left \in Nat :
          obj' = [obj EXCEPT ![id] = [timeout |-> t, timeleft |-> left, repeat |-> r]]
    BY DEF Placed
  <2>3. [timeout |-> t, timeleft |-> left, repeat |-> r]
        \in [timeout : Nat, timeleft : Nat, repeat : Nat]
    OBVIOUS
  <2> QED  BY <2>1, <2>2, <2>3
<1> QED  BY <1>1, <1>2 DEF Placed

\* Nothing is put into the slot timer_tick works on.
LEMMA PlacedElsewhere ==
  ASSUME TypeOK, NEW id, NEW t, NEW r, NEW p, Placed(id, t, r, p), ticking # 0
  PROVE  ticklist'[current] = ticklist[current]
  BY DEF Placed, TypeOK

\* expand_objpool, if it is called: the new objects are unused, the others where they were.
LEMMA Growing ==
  ASSUME TypeOK, NEW h, Placing(h), NEW t, NEW r, TimerAdd(t, r)
  PROVE  \E g, free :
           /\ free = IF freelist = <<>> THEN Grown ELSE freelist
           /\ free \in Seq(Ids) /\ free # <<>>
           /\ objpooln' \in 0 .. MaxPool /\ objpooln' >= objpooln
           /\ g \in [1 .. objpooln' -> Places]
           /\ \A s \in Slots : Holds(ticklist[s], g, s)
           /\ Holds(longlist, g, Long)
           /\ Holds(free, g, Unused)
           /\ \A id \in 1 .. objpooln' : g[id] = InHand <=> phase = "callback" /\ ticking = id
           /\ Waiting(g) = Waiting(h)
           /\ \A i \in Waiting(h) : g[i] = h[i]
<1>0. h \in [1 .. objpooln -> Places] /\ objpooln \in 0 .. MaxPool /\ ticking \in 0 .. objpooln
      /\ MaxPool \in Nat /\ freelist \in Seq(Ids)
  BY TimerAssumption DEF Placing, TypeOK
<1>1. CASE freelist # <<>>
  <2>1. objpooln' = objpooln
    BY <1>1 DEF TimerAdd
  <2> QED  BY <1>0, <1>1, <2>1 DEF Placing
<1>2. CASE freelist = <<>>
  <2>1. PICK n, m : n = objpooln /\ m = objpooln'
    OBVIOUS
  <2>2. m = PoolAfterGrowth /\ n \in Nat /\ m \in 0 .. MaxPool /\ m > n
    BY <1>0, <1>2, <2>1, TimerAssumption DEF TimerAdd, PoolAfterGrowth
  <2>3. PICK free : free = [i \in 1 .. m - n |-> n + i]
    OBVIOUS
  <2>4. free = Grown
    BY <2>1, <2>2, <2>3 DEF Grown
  <2>5. free \in Seq(Ids) /\ free # <<>> /\ DOMAIN free = 1 .. m - n
    <3>1. m - n \in Nat /\ 1 \in 1 .. m - n /\ DOMAIN free = 1 .. m - n
      BY <2>2, <2>3
    <3>2. free \in [1 .. m - n -> Ids]
      BY <1>0, <2>2, <2>3 DEF Ids
    <3>3. free \in Seq(Ids)
      BY <3>1, <3>2
    <3> QED  BY <3>1, <3>3
  <2>6. PICK g : g = [i \in 1 .. m |-> IF i <= n THEN h[i] ELSE Unused]
    OBVIOUS
  <2>7. g \in [1 .. m -> Places]
    BY <1>0, <2>1, <2>2, <2>6 DEF Places
  <2>8. ASSUME NEW k, k # Unused PROVE {i \in DOMAIN g : g[i] = k} = {i \in DOMAIN h : h[i] = k}
    BY <1>0, <2>1, <2>2, <2>6, <2>8
  <2>9. \A s \in Slots : s # Unused
    BY WheelSize DEF Unused
  <2>10. /\ \A s \in Slots : Holds(ticklist[s], g, s)
         /\ Holds(longlist, g, Long)
    BY <2>8, <2>9 DEF Placing, Holds, Long, Unused
  <2>11. Holds(free, g, Unused)
    <3>1. {i \in DOMAIN h : h[i] = Unused} = {}
      BY <1>2 DEF Placing, Holds, Elements
    <3>2. {i \in DOMAIN g : g[i] = Unused} = n + 1 .. m
      BY <1>0, <2>1, <2>2, <2>6, <3>1
    <3>3. Distinct(free)
      BY <2>2, <2>3 DEF Distinct
    <3>4. Elements(free) = n + 1 .. m
      <4>1. \A i \in n + 1 .. m : i - n \in DOMAIN free /\ free[i - n] = i
        BY <2>2, <2>3
      <4>2. \A i \in DOMAIN free : free[i] \in n + 1 .. m
        BY <2>2, <2>3
      <4> QED  BY <4>1, <4>2 DEF Elements
    <3> QED  BY <3>2, <3>3, <3>4 DEF Holds
  <2>12. \A id \in 1 .. m : g[id] = InHand <=> phase = "callback" /\ ticking = id
    BY <1>0, <2>1, <2>2, <2>6 DEF Placing, InHand, Unused
  <2>13. Waiting(g) = Waiting(h) /\ \A i \in Waiting(h) : g[i] = h[i]
    BY <1>0, <2>1, <2>2, <2>6 DEF Waiting
  <2> QED  BY <1>0, <1>2, <2>1, <2>2, <2>4, <2>5, <2>7, <2>10, <2>11, <2>12, <2>13
<1> QED  BY <1>1, <1>2

\* timer_add: an unused object, perhaps a new one, joins the timers.
LEMMA TimerAddStep ==
  ASSUME TypeOK, TickOK, NEW h, Placing(h), NEW t \in Timeouts, NEW r \in Repeats, TimerAdd(t, r)
  PROVE  /\ TypeOK' /\ TickOK'
         /\ \E q, id :
              /\ id \in Ids /\ ~(phase = "callback" /\ ticking = id)
              /\ \A i \in Ids \ {id} : obj'[i] = obj[i]
              /\ Placing(q)' /\ Joins(h, q, id, t, r)
<1>1. PICK g, free :
        /\ free = IF freelist = <<>> THEN Grown ELSE freelist
        /\ free \in Seq(Ids) /\ free # <<>>
        /\ objpooln' \in 0 .. MaxPool /\ objpooln' >= objpooln
        /\ g \in [1 .. objpooln' -> Places]
        /\ \A s \in Slots : Holds(ticklist[s], g, s)
        /\ Holds(longlist, g, Long)
        /\ Holds(free, g, Unused)
        /\ \A id \in 1 .. objpooln' : g[id] = InHand <=> phase = "callback" /\ ticking = id
        /\ Waiting(g) = Waiting(h)
        /\ \A i \in Waiting(h) : g[i] = h[i]
  BY Growing
<1>2. PICK id : id = Head(free)
  OBVIOUS
<1>3. /\ phase \in {"idle", "callback"} /\ freelist' = Tail(free)
      /\ AddObj(id, t, r)
      /\ UNCHANGED <<ticklistn, current, ticking, phase, num, erased>>
  BY <1>1, <1>2 DEF TimerAdd, PopHead, tickVars, TypeOK
<1>4. t \in Nat /\ r \in Nat
  BY TimerAssumption
<1>5. id \in Ids /\ id \in DOMAIN g /\ DOMAIN g \subseteq Ids /\ g[id] = Unused
  <2>1. id \in DOMAIN g /\ g[id] = Unused
    <3>1. InHand # Unused
      BY DEF Unused, InHand
    <3>2. Head(free) \in DOMAIN g /\ g[Head(free)] = Unused
      BY <1>1, <3>1, HoldsPopped, Zenon
    <3> QED  BY <1>2, <3>2
  <2> QED  BY <1>1, <2>1, TimerAssumption DEF Ids
<1>6. PICK p \in Slots \cup {Long} : Placed(id, t, r, p)
  BY <1>3, <1>4, <1>5, AddObjPlaces
<1>7. PICK q : q = [g EXCEPT ![id] = p]
  OBVIOUS
<1>8. p # Unused /\ p # InHand /\ p \in Places
  BY WheelSize DEF Places, Long, Unused, InHand
<1>9. TypeOK'
  <2>1. Slots' = Slots
    BY <1>3 DEF Slots
  <2>2. freelist' \in Seq(Ids)
    BY <1>1, <1>3
  <2>3. ticking' \in 0 .. objpooln'
    BY <1>1, <1>3 DEF TypeOK
  <2> QED  BY <1>1, <1>3, <1>4, <1>5, <1>6, <2>1, <2>2, <2>3, PlacedTypes DEF TypeOK
<1>10. TickOK'
  <2>1. phase = "callback" => ticklist'[current] = ticklist[current]
    BY <1>6, PlacedElsewhere DEF TickOK
  <2> QED  BY <1>3, <2>1 DEF TickOK
<1>11. Placing(q)'
  <2>1. /\ \A s \in Slots : Holds(ticklist'[s], q, s)
        /\ Holds(longlist', q, Long)
    BY <1>1, <1>5, <1>6, <1>7, PlacedHeld
  <2>2. Holds(freelist', q, Unused)
    BY <1>1, <1>2, <1>3, <1>7, <1>8, HoldsPopped
  <2>3. q \in [1 .. objpooln' -> Places]
    BY <1>1, <1>5, <1>7, <1>8
  <2>4. \A i \in 1 .. objpooln' : q[i] = InHand <=> phase = "callback" /\ ticking = i
    <3>1. g[id] # InHand
      BY <1>5 DEF Unused, InHand
    <3> QED  BY <1>1, <1>5, <1>7, <1>8, <3>1
  <2>5. Slots' = Slots /\ Places' = Places
    BY <1>3 DEF Slots, Places
  <2> QED  BY <1>3, <2>1, <2>2, <2>3, <2>4, <2>5 DEF Placing
<1>12. Joins(h, q, id, t, r)
  <2>1. Joins(g, q, id, t, r)
    BY <1>3, <1>5, <1>6, <1>7, PlacedJoins
  <2>2. \A i \in Waiting(h) : Row(g, i) = Row(h, i)
    BY <1>1 DEF Row, LeftOf
  <2> QED  BY <1>1, <2>1, <2>2 DEF Joins
<1>13. ~(phase = "callback" /\ ticking = id)
  BY <1>1, <1>5 DEF Unused, InHand
<1>14. \A i \in Ids \ {id} : obj'[i] = obj[i]
  BY <1>6 DEF Placed, TypeOK
<1> QED  BY <1>5, <1>9, <1>10, <1>11, <1>12, <1>13, <1>14

\* The rest of the invariant when one object goes to or from a place that is no slot.
LEMMA MovedHeld ==
  ASSUME NEW h, NEW id \in DOMAIN h, NEW k, NEW j, h[id] = k,
         \A s \in Slots : Holds(ticklist[s], h, s),
         \A s \in Slots : s # j
  PROVE  \A s \in Slots : s # k => Holds(ticklist[s], [h EXCEPT ![id] = j], s)
  BY HoldsStill

\* Timers other than id are as far away as before.
LEMMA MovedRows ==
  ASSUME TypeOK, NEW h, NEW id, NEW j, NEW rec, obj' = [obj EXCEPT ![id] = rec],
         UNCHANGED <<ticklistn, current>>
  PROVE  \A i \in Waiting(h) : i \in Ids /\ i # id => Row([h EXCEPT ![id] = j], i)' = Row(h, i)
<1>1. PICK q : q = [h EXCEPT ![id] = j]
  OBVIOUS
<1>2. ASSUME NEW i \in Waiting(h), i \in Ids, i # id PROVE Row(q, i)' = Row(h, i)
  <2>1. q[i] = h[i] /\ obj'[i] = obj[i]
    BY <1>1, <1>2 DEF Waiting, TypeOK
  <2> QED  BY <2>1 DEF Row, LeftOf
<1> QED  BY <1>1, <1>2, Zenon

\* An object that waited is deleted, called back or, in between, taken in hand.
LEMMA MovedLeaves ==
  ASSUME TypeOK, NEW h, DOMAIN h \subseteq Ids, NEW id \in Waiting(h), NEW j \in {Unused, InHand},
         NEW rec, obj' = [obj EXCEPT ![id] = rec], UNCHANGED <<ticklistn, current>>
  PROVE  Leaves(h, [h EXCEPT ![id] = j], id)
<1>1. PICK q : q = [h EXCEPT ![id] = j]
  OBVIOUS
<1>2. Waiting(q) = Waiting(h) \ {id}
  BY <1>1 DEF Waiting
<1>3. \A i \in Waiting(h) : i \in Ids /\ i # id => Row([h EXCEPT ![id] = j], i)' = Row(h, i)
  BY MovedRows
<1>4. \A i \in Waiting(q) : i \in Waiting(h) /\ i \in Ids /\ i # id
  BY <1>2 DEF Waiting
<1>5. \A i \in Waiting(q) : Row(q, i)' = Row(h, i)
  BY <1>1, <1>3, <1>4, Zenon
<1>6. Leaves(h, q, id)
  BY <1>2, <1>5 DEF Leaves
<1> QED  BY <1>1, <1>6, Zenon

\* What is deleted is the first of a list, and waits in no other.
LEMMA DelFrom ==
  ASSUME ~DelAnywhere, NEW list \in Seq(Ids), NEW h, NEW k, Holds(list, h, k),
         NEW id, MayErase(list, id), NEW j, j # k
  PROVE  /\ id \in DOMAIN h /\ h[id] = k /\ list # <<>>
         /\ Erased(list, id) = Tail(list)
         /\ Holds(Erased(list, id), [h EXCEPT ![id] = j], k)
<1>1. Distinct(list)
  BY DEF Holds
<1>2. list # <<>> /\ Head(list) = id /\ Erased(list, id) = Tail(list)
  BY <1>1, ErasedIsTail
<1>3. /\ Head(list) \in DOMAIN h /\ h[Head(list)] = k
      /\ Holds(Tail(list), [h EXCEPT ![Head(list)] = j], k)
  BY <1>2, HoldsPopped
<1> QED  BY <1>2, <1>3, Zenon

\* timer_del of an object that does not run its callback.
LEMMA TimerDelStep ==
  ASSUME ~DelAnywhere, TypeOK, TickOK, NEW h, Placing(h), NEW id \in Ids, TimerDel(id)
  PROVE  /\ TypeOK' /\ TickOK'
         /\ ~(phase = "callback" /\ ticking = id)
         /\ obj' = [obj EXCEPT ![id] = Blank]
         /\ \E q : Placing(q)' /\ (Leaves(h, q, id) \/ Stays(h, q))
<1>1. /\ phase # "loop" /\ obj' = [obj EXCEPT ![id] = Blank]
      /\ UNCHANGED <<ticklistn, objpooln, current, ticking, phase, num, erased>>
  BY DEF TimerDel, tickVars
<1>2. /\ ticklist \in [Slots -> Seq(Ids)] /\ longlist \in Seq(Ids) /\ freelist \in Seq(Ids)
      /\ h \in [1 .. objpooln -> Places] /\ DOMAIN h \subseteq Ids /\ DOMAIN h = 1 .. objpooln
      /\ \A s \in Slots : Holds(ticklist[s], h, s)
      /\ Holds(longlist, h, Long) /\ Holds(freelist, h, Unused)
      /\ \A i \in 1 .. objpooln : h[i] = InHand <=> phase = "callback" /\ ticking = i
  BY TimerAssumption DEF TypeOK, Placing, Ids
<1>3. Slots' = Slots /\ Places' = Places
  BY <1>1 DEF Slots, Places
<1>4. /\ Long # Unused /\ Long # InHand /\ Unused # InHand /\ Unused \in Places
      /\ \A s \in Slots : s # Unused /\ s # InHand /\ s # Long
  BY WheelSize DEF Long, Unused, InHand, Places
<1>5. obj' \in [Ids -> [timeout : Nat, timeleft : Nat, repeat : Nat]]
  BY <1>1 DEF TypeOK, Blank
<1>6. PICK q : q = [h EXCEPT ![id] = Unused]
  OBVIOUS
<1>7. ASSUME id \in DOMAIN h, h[id] # InHand
      PROVE  /\ q \in [1 .. objpooln -> Places]
             /\ \A i \in 1 .. objpooln : q[i] = InHand <=> phase = "callback" /\ ticking = i
             /\ ~(phase = "callback" /\ ticking = id)
  BY <1>2, <1>4, <1>6, <1>7
<1>8. ASSUME NEW s \in Slots, MayErase(ticklist[s], id),
             ticklist' = [ticklist EXCEPT ![s] = Erased(@, id)],
             freelist' = AddTail(freelist, id), UNCHANGED longlist
      PROVE  /\ TypeOK' /\ TickOK' /\ ~(phase = "callback" /\ ticking = id)
             /\ Placing(q)' /\ Leaves(h, q, id)
  <2>1. /\ id \in DOMAIN h /\ h[id] = s /\ ticklist[s] # <<>>
        /\ Erased(ticklist[s], id) = Tail(ticklist[s])
        /\ Holds(Erased(ticklist[s], id), [h EXCEPT ![id] = Unused], s)
    <3>1. ticklist[s] \in Seq(Ids) /\ Holds(ticklist[s], h, s) /\ Unused # s
      BY <1>2, <1>4
    <3> QED  BY <1>8, <3>1, DelFrom
  <2>2. ticklist'[s] = Tail(ticklist[s]) /\ \A u \in Slots : u # s => ticklist'[u] = ticklist[u]
    BY <1>2, <1>8, <2>1
  <2>3. Tail(ticklist[s]) \in Seq(Ids) /\ Len(Tail(ticklist[s])) = Len(ticklist[s]) - 1
        /\ Len(ticklist[s]) \in Nat
    BY <1>2, <2>1
  <2>4. ticklist' \in [Slots -> Seq(Ids)]
    BY <1>2, <1>8, <2>1, <2>3
  <2>5. freelist' = Append(freelist, id) /\ freelist' \in Seq(Ids)
    BY <1>2, <1>8 DEF AddTail
  <2>6. TypeOK'
    BY <1>1, <1>3, <1>5, <1>8, <2>4, <2>5 DEF TypeOK
  <2>7. TickOK'
    <3>1. current \in Slots /\ num \in Nat
      BY DEF TypeOK
    <3>2. CASE current = s
      <4>1. ticklist'[current] = Tail(ticklist[s]) /\ ticklist[current] = ticklist[s]
        BY <2>2, <3>2
      <4>2. Len(ticklist'[current]) = Len(ticklist[current]) - 1 /\ Len(ticklist[current]) \in Nat
        BY <2>3, <4>1, Zenon
      <4> QED  BY <1>1, <3>1, <4>2 DEF TickOK
    <3>3. CASE current # s
      <4>1. ticklist'[current] = ticklist[current]
        BY <2>2, <3>1, <3>3
      <4> QED  BY <1>1, <4>1 DEF TickOK
    <3> QED  BY <3>2, <3>3
  <2>8. \A u \in Slots : Holds(ticklist'[u], q, u)
    <3>1. \A u \in Slots : u # s => Holds(ticklist[u], q, u)
      BY <1>2, <1>4, <1>6, <2>1, MovedHeld
    <3>2. Holds(ticklist'[s], q, s)
      BY <1>6, <2>1, <2>2, Zenon
    <3>3. ASSUME NEW u \in Slots PROVE Holds(ticklist'[u], q, u)
      <4>1. CASE u = s
        BY <3>2, <4>1
      <4>2. CASE u # s
        BY <2>2, <3>1, <4>2
      <4> QED  BY <4>1, <4>2
    <3> QED  BY <3>3
  <2>9. Holds(longlist', q, Long)
    BY <1>2, <1>4, <1>6, <1>8, <2>1, HoldsStill
  <2>10. Holds(freelist', q, Unused)
    BY <1>2, <1>4, <1>6, <2>1, <2>5, HoldsAdded
  <2>11. h[id] # InHand /\ id \in Waiting(h)
    BY <1>4, <2>1 DEF Waiting
  <2>12. Placing(q)'
    BY <1>1, <1>3, <1>7, <2>1, <2>8, <2>9, <2>10, <2>11 DEF Placing
  <2>13. Leaves(h, q, id)
    BY <1>1, <1>2, <1>6, <2>11, MovedLeaves
  <2> QED  BY <1>7, <2>1, <2>6, <2>7, <2>11, <2>12, <2>13
<1>9. ASSUME MayErase(longlist, id), longlist' = Erased(longlist, id),
             freelist' = AddTail(freelist, id), UNCHANGED ticklist
      PROVE  /\ TypeOK' /\ TickOK' /\ ~(phase = "callback" /\ ticking = id)
             /\ Placing(q)' /\ Leaves(h, q, id)
  <2>1. /\ id \in DOMAIN h /\ h[id] = Long /\ longlist # <<>>
        /\ Erased(longlist, id) = Tail(longlist)
        /\ Holds(Erased(longlist, id), [h EXCEPT ![id] = Unused], Long)
    BY <1>2, <1>4, <1>9, DelFrom
  <2>2. longlist' \in Seq(Ids)
    BY <1>2, <1>9, <2>1
  <2>3. freelist' = Append(freelist, id) /\ freelist' \in Seq(Ids)
    BY <1>2, <1>9 DEF AddTail
  <2>4. TypeOK'
    BY <1>1, <1>3, <1>5, <1>9, <2>2, <2>3 DEF TypeOK
  <2>5. TickOK'
    BY <1>1, <1>9 DEF TickOK
  <2>6. \A u \in Slots : Holds(ticklist'[u], q, u)
    BY <1>2, <1>4, <1>6, <1>9, <2>1, MovedHeld
  <2>7. Holds(longlist', q, Long)
    BY <1>6, <1>9, <2>1, Zenon
  <2>8. Holds(freelist', q, Unused)
    BY <1>2, <1>4, <1>6, <2>1, <2>3, HoldsAdded
  <2>9. h[id] # InHand /\ id \in Waiting(h)
    BY <1>4, <2>1 DEF Waiting
  <2>10. Placing(q)'
    BY <1>1, <1>3, <1>7, <2>1, <2>6, <2>7, <2>8, <2>9 DEF Placing
  <2>11. Leaves(h, q, id)
    BY <1>1, <1>2, <1>6, <2>9, MovedLeaves
  <2> QED  BY <1>7, <2>1, <2>4, <2>5, <2>9, <2>10, <2>11
<1>10. ASSUME MayErase(freelist, id), freelist' = AddTail(Erased(freelist, id), id),
              UNCHANGED <<ticklist, longlist>>
       PROVE  /\ TypeOK' /\ TickOK' /\ ~(phase = "callback" /\ ticking = id)
              /\ Placing(h)' /\ Stays(h, h)
  <2>1. /\ id \in DOMAIN h /\ h[id] = Unused
        /\ Erased(freelist, id) = Tail(freelist) /\ freelist # <<>>
        /\ Holds(Erased(freelist, id), [h EXCEPT ![id] = InHand], Unused)
    <3>1. freelist \in Seq(Ids) /\ Holds(freelist, h, Unused) /\ InHand # Unused
      BY <1>2, <1>4
    <3>2. MayErase(freelist, id)
      BY <1>10
    <3>3. \A k, j : Holds(freelist, h, k) /\ j # k =>
            /\ id \in DOMAIN h /\ h[id] = k /\ freelist # <<>>
            /\ Erased(freelist, id) = Tail(freelist)
            /\ Holds(Erased(freelist, id), [h EXCEPT ![id] = j], k)
      BY <3>1, <3>2, DelFrom
    <3> QED  BY <3>1, <3>3, Zenon
  <2>2. PICK g, rest : g = [h EXCEPT ![id] = InHand] /\ rest = Tail(freelist)
    OBVIOUS
  <2>3. rest \in Seq(Ids) /\ Holds(rest, g, Unused) /\ freelist' = Append(rest, id)
    <3>1. Tail(freelist) \in Seq(Ids)
      BY <1>2, <2>1
    <3>2. freelist' = Append(rest, id)
      BY <1>10, <2>1, <2>2, Zenon DEF AddTail
    <3> QED  BY <2>1, <2>2, <3>1, <3>2, Zenon
  <2>4. id \in DOMAIN g /\ g[id] # Unused /\ DOMAIN g \subseteq Ids /\ [g EXCEPT ![id] = Unused] = h
    BY <1>2, <1>4, <2>1, <2>2
  <2>5. Holds(Append(rest, id), [g EXCEPT ![id] = Unused], Unused)
    BY <2>3, <2>4, HoldsAdded
  <2>6. Holds(freelist', h, Unused)
    BY <2>3, <2>4, <2>5, Zenon
  <2>7. freelist' \in Seq(Ids)
    BY <2>3
  <2>8. TypeOK'
    BY <1>1, <1>3, <1>5, <1>10, <2>7 DEF TypeOK
  <2>9. TickOK'
    BY <1>1, <1>10 DEF TickOK
  <2>10. Placing(h)'
    BY <1>1, <1>2, <1>3, <1>10, <2>6 DEF Placing
  <2>11. Stays(h, h)
    <3>1. \A i \in Waiting(h) : i # id /\ obj'[i] = obj[i]
      BY <1>1, <1>2, <2>1 DEF Waiting, TypeOK
    <3> QED  BY <1>1, <3>1 DEF Stays, Row, LeftOf
  <2>12. ~(phase = "callback" /\ ticking = id)
    BY <1>2, <1>4, <2>1
  <2> QED  BY <2>8, <2>9, <2>10, <2>11, <2>12
<1> QED
  <2>1. \/ \E s \in Slots : /\ MayErase(ticklist[s], id)
                            /\ ticklist' = [ticklist EXCEPT ![s] = Erased(@, id)]
                            /\ freelist' = AddTail(freelist, id) /\ UNCHANGED longlist
        \/ /\ MayErase(longlist, id) /\ longlist' = Erased(longlist, id)
           /\ freelist' = AddTail(freelist, id) /\ UNCHANGED ticklist
        \/ /\ MayErase(freelist, id) /\ freelist' = AddTail(Erased(freelist, id), id)
           /\ UNCHANGED <<ticklist, longlist>>
    BY DEF TimerDel
  <2> QED  BY <1>1, <1>8, <1>9, <1>10, <2>1

-----------------------------------------------------------------------------
(* timer_tick.                                                             *)

\* timer_del of the timer that runs its callback, and the begin of a call, move nothing.
LEMMA TimerDelTickingStep ==
  ASSUME TypeOK, TickOK, NEW h, Placing(h), TimerDelTicking
  PROVE  TypeOK' /\ TickOK' /\ Placing(h)' /\ Stays(h, h)
<1>1. /\ phase = "callback" /\ obj' = [obj EXCEPT ![ticking].repeat = 1]
      /\ UNCHANGED <<ticklistn, ticklist, longlist, freelist, objpooln, current, ticking, phase,
                     num, erased>>
  BY DEF TimerDelTicking, lists, tickVars
<1>2. Slots' = Slots /\ Places' = Places
  BY <1>1 DEF Slots, Places
<1>3. obj \in [Ids -> [timeout : Nat, timeleft : Nat, repeat : Nat]]
  BY DEF TypeOK
<1>4. obj' \in [Ids -> [timeout : Nat, timeleft : Nat, repeat : Nat]]
  BY <1>1, <1>3
<1>5. TypeOK'
  BY <1>1, <1>2, <1>4 DEF TypeOK
<1>6. TickOK'
  BY <1>1 DEF TickOK
<1>7. Placing(h)'
  BY <1>1, <1>2 DEF Placing
<1>8. Stays(h, h)
  <2>1. \A i \in Waiting(h) : i # ticking /\ i \in Ids
    BY <1>1, TimerAssumption DEF Placing, Waiting, Ids, TypeOK
  <2>2. \A i \in Ids : i # ticking => obj'[i] = obj[i]
    BY <1>1, <1>3
  <2> QED  BY <1>1, <2>1, <2>2 DEF Stays, Row, LeftOf
<1> QED  BY <1>5, <1>6, <1>7, <1>8

\* timer_tick counts the objects of its slot.
LEMMA TickBeginStep ==
  ASSUME TypeOK, TickOK, NEW h, Placing(h), TickBegin
  PROVE  TypeOK' /\ TickOK' /\ Placing(h)' /\ Stays(h, h)
<1>1. /\ phase = "idle" /\ phase' = "loop" /\ num' = Len(ticklist[current])
      /\ UNCHANGED <<ticklistn, ticklist, longlist, freelist, objpooln, obj, current, ticking,
                     erased>>
  BY DEF TickBegin, lists
<1>2. Slots' = Slots /\ Places' = Places
  BY <1>1 DEF Slots, Places
<1>3. num' \in Nat /\ Len(ticklist'[current']) <= num'
  <2>1. ticklist[current] \in Seq(Ids)
    BY DEF TypeOK
  <2>2. Len(ticklist[current]) \in Nat
    BY <2>1
  <2> QED  BY <1>1, <2>2
<1>4. TypeOK'
  BY <1>1, <1>2, <1>3 DEF TypeOK
<1>5. TickOK'
  BY <1>1, <1>3 DEF TickOK
<1>6. Placing(h)'
  BY <1>1, <1>2 DEF Placing
<1>7. Stays(h, h)
  BY <1>1 DEF Stays, Row, LeftOf
<1> QED  BY <1>4, <1>5, <1>6, <1>7

\* The first object of the slot is due now, and in hand.
LEMMA TickCallStep ==
  ASSUME TypeOK, TickOK, NEW h, Placing(h), TickCall
  PROVE  /\ TypeOK' /\ TickOK'
         /\ \E q : /\ Placing(q)' /\ Leaves(h, q, ticking')
                   /\ LeftOf(h, ticking') = 0 /\ ticking' \in Ids
<1>1. PICK id, list : id = Head(list) /\ list = ticklist[current]
  OBVIOUS
<1>2. /\ phase = "loop" /\ num > 0 /\ list # <<>> /\ num' = num - 1
      /\ ticklist' = [ticklist EXCEPT ![current] = Tail(list)]
      /\ ticking' = id
      /\ obj' = [obj EXCEPT ![id].repeat = IF obj[id].repeat > 0 THEN obj[id].repeat - 1 ELSE 0]
      /\ erased' \in BOOLEAN /\ phase' = "callback"
      /\ UNCHANGED <<ticklistn, longlist, freelist, objpooln, current>>
  BY <1>1 DEF TickCall, PopHead
<1>3. /\ ticklist \in [Slots -> Seq(Ids)] /\ current \in Slots
      /\ h \in [1 .. objpooln -> Places] /\ DOMAIN h \subseteq Ids
      /\ \A s \in Slots : Holds(ticklist[s], h, s)
      /\ Holds(longlist, h, Long) /\ Holds(freelist, h, Unused)
      /\ \A i \in 1 .. objpooln : h[i] # InHand
      /\ list \in Seq(Ids)
  <2>1. ticklist \in [Slots -> Seq(Ids)] /\ current \in Slots
    BY DEF TypeOK
  <2>2. /\ h \in [1 .. objpooln -> Places] /\ DOMAIN h \subseteq Ids
        /\ \A i \in 1 .. objpooln : h[i] # InHand
    BY <1>2, TimerAssumption DEF TypeOK, Placing, Ids
  <2>3. /\ \A s \in Slots : Holds(ticklist[s], h, s)
        /\ Holds(longlist, h, Long) /\ Holds(freelist, h, Unused)
    BY DEF Placing
  <2> QED  BY <1>1, <2>1, <2>2, <2>3
<1>4. /\ Long # InHand /\ Unused # InHand /\ InHand \in Places /\ current # InHand
      /\ \A s \in Slots : s # Unused /\ s # InHand /\ s # Long
  BY <1>3, WheelSize DEF Long, Unused, InHand, Places
<1>5. PICK q : q = [h EXCEPT ![id] = InHand]
  OBVIOUS
<1>6. id \in DOMAIN h /\ h[id] = current /\ Holds(Tail(list), q, current)
  <2>1. Holds(list, h, current)
    BY <1>1, <1>3
  <2>2. /\ Head(list) \in DOMAIN h /\ h[Head(list)] = current
        /\ Holds(Tail(list), [h EXCEPT ![Head(list)] = InHand], current)
    BY <1>2, <1>3, <1>4, <2>1, HoldsPopped, Zenon
  <2> QED  BY <1>1, <1>5, <2>2, Zenon
<1>7. id \in Ids /\ id \in 1 .. objpooln /\ id \in Waiting(h)
  BY <1>3, <1>4, <1>6 DEF Waiting
<1>8. Tail(list) \in Seq(Ids) /\ Len(Tail(list)) = Len(list) - 1 /\ Len(list) \in Nat
  BY <1>2, <1>3
<1>9. PICK rec : rec = [obj[id] EXCEPT !.repeat = IF obj[id].repeat > 0 THEN obj[id].repeat - 1 ELSE 0]
  OBVIOUS
<1>10. obj' = [obj EXCEPT ![id] = rec] /\ rec \in [timeout : Nat, timeleft : Nat, repeat : Nat]
  <2>1. obj[id] \in [timeout : Nat, timeleft : Nat, repeat : Nat]
    BY <1>7 DEF TypeOK
  <2>2. (IF obj[id].repeat > 0 THEN obj[id].repeat - 1 ELSE 0) \in Nat
    BY <2>1
  <2>3. obj' = [obj EXCEPT ![id] = rec]
    BY <1>2, <1>9
  <2> QED  BY <1>9, <2>1, <2>2, <2>3
<1>11. Slots' = Slots /\ Places' = Places
  BY <1>2 DEF Slots, Places
<1>12. TypeOK'
  <2>1. ticklist' \in [Slots -> Seq(Ids)]
    BY <1>2, <1>3, <1>8
  <2>2. obj' \in [Ids -> [timeout : Nat, timeleft : Nat, repeat : Nat]]
    BY <1>7, <1>10 DEF TypeOK
  <2>3. num' \in Nat /\ ticking' \in 0 .. objpooln
    <3>1. num \in Nat /\ objpooln \in Nat
      BY TimerAssumption DEF TypeOK
    <3>2. num' \in Nat
      BY <1>2, <3>1
    <3>3. id \in 0 .. objpooln
      BY <1>7, <3>1
    <3> QED  BY <1>2, <3>2, <3>3
  <2>4. /\ ticklistn' \in TickCounts /\ longlist' \in Seq(Ids) /\ freelist' \in Seq(Ids)
        /\ objpooln' = objpooln /\ objpooln \in 0 .. MaxPool /\ current' \in Slots
    BY <1>2 DEF TypeOK
  <2>5. erased' \in BOOLEAN /\ phase' \in {"idle", "loop", "callback"}
    BY <1>2
  <2> QED  BY <1>11, <2>1, <2>2, <2>3, <2>4, <2>5 DEF TypeOK
<1>13. TickOK'
  <2>1. ticklist'[current] = Tail(list)
    BY <1>2, <1>3
  <2>2. Len(ticklist'[current]) = Len(list) - 1
    BY <1>8, <2>1, Zenon
  <2>3. Len(list) <= num /\ num \in Nat
    <3>1. Len(ticklist[current]) <= num
      BY <1>2 DEF TickOK
    <3> QED  BY <1>1, <3>1 DEF TypeOK
  <2>4. Len(ticklist'[current]) <= num'
    <3>1. PICK n : n = Len(list)
      OBVIOUS
    <3>2. n - 1 <= num - 1
      BY <1>8, <2>3, <3>1
    <3> QED  BY <1>2, <2>2, <3>1, <3>2, Zenon
  <2> QED  BY <1>2, <1>7, <2>4 DEF TickOK
<1>14. Placing(q)'
  <2>1. ASSUME NEW s \in Slots PROVE Holds(ticklist'[s], q, s)
    <3>1. CASE s = current
      BY <1>2, <1>3, <1>6, <3>1
    <3>2. CASE s # current
      <4>1. Holds(ticklist[s], q, s)
        BY <1>3, <1>4, <1>5, <1>6, <3>2, HoldsStill
      <4> QED  BY <1>2, <1>3, <3>2, <4>1
    <3> QED  BY <3>1, <3>2
  <2>2. Holds(longlist, q, Long) /\ Holds(freelist, q, Unused)
    BY <1>3, <1>4, <1>5, <1>6, HoldsStill
  <2>3. q \in [1 .. objpooln -> Places]
    BY <1>3, <1>4, <1>5
  <2>4. \A i \in 1 .. objpooln : q[i] = InHand <=> i = id
    BY <1>3, <1>5, <1>6
  <2> QED  BY <1>2, <1>11, <2>1, <2>2, <2>3, <2>4 DEF Placing
<1>15. Leaves(h, q, id)
  BY <1>2, <1>3, <1>5, <1>7, <1>10, MovedLeaves
<1>16. LeftOf(h, id) = 0
  <2>1. (current - current) % ticklistn = 0
    BY WheelSize
  <2> QED  BY <1>3, <1>4, <1>6, <2>1 DEF LeftOf
<1> QED  BY <1>2, <1>7, <1>12, <1>13, <1>14, <1>15, <1>16

\* The callback returns: the object is unused, or joins the timers again.
LEMMA TickReturnStep ==
  ASSUME TypeOK, TickOK, NEW h, Placing(h), TickReturn
  PROVE  /\ TypeOK' /\ TickOK' /\ ticking \in Ids
         /\ \E q : /\ Placing(q)'
                   /\ IF erased THEN Stays(h, q)
                      ELSE Joins(h, q, ticking, obj[ticking].timeout, obj[ticking].repeat)
<1>1. /\ phase = "callback" /\ phase' = "loop" /\ ticking # 0
      /\ UNCHANGED <<ticklistn, objpooln, current, ticking, num, erased>>
  BY DEF TickReturn, TickOK
<1>2. /\ ticklist \in [Slots -> Seq(Ids)] /\ longlist \in Seq(Ids) /\ freelist \in Seq(Ids)
      /\ h \in [1 .. objpooln -> Places] /\ DOMAIN h \subseteq Ids /\ DOMAIN h = 1 .. objpooln
      /\ \A s \in Slots : Holds(ticklist[s], h, s)
      /\ Holds(longlist, h, Long) /\ Holds(freelist, h, Unused)
      /\ \A i \in 1 .. objpooln : h[i] = InHand <=> ticking = i
  BY <1>1, TimerAssumption DEF TypeOK, Placing, Ids
<1>3. ticking \in 1 .. objpooln /\ ticking \in DOMAIN h /\ ticking \in Ids /\ h[ticking] = InHand
  BY <1>1, <1>2 DEF TypeOK
<1>4. /\ Long # InHand /\ Unused # InHand /\ Long \in Places /\ Unused \in Places
      /\ Long # Unused /\ \A s \in Slots : s # Unused /\ s # InHand /\ s # Long /\ s \in Places
  BY WheelSize DEF Long, Unused, InHand, Places
<1>5. Slots' = Slots /\ Places' = Places
  BY <1>1 DEF Slots, Places
<1>6. CASE erased
  <2>1. /\ freelist' = Append(freelist, ticking) /\ obj' = [obj EXCEPT ![ticking] = Blank]
        /\ UNCHANGED <<ticklist, longlist>>
    BY <1>6 DEF TickReturn, AddTail
  <2>2. PICK id, q : id = ticking /\ q = [h EXCEPT ![id] = Unused]
    OBVIOUS
  <2>3. TypeOK'
    <3>1. obj' \in [Ids -> [timeout : Nat, timeleft : Nat, repeat : Nat]]
      BY <2>1 DEF TypeOK, Blank
    <3>2. freelist' \in Seq(Ids)
      BY <1>2, <1>3, <2>1
    <3> QED  BY <1>1, <1>5, <2>1, <3>1, <3>2 DEF TypeOK
  <2>4. TickOK'
    BY <1>1, <2>1 DEF TickOK
  <2>5. Placing(q)'
    <3>1. \A s \in Slots : Holds(ticklist[s], q, s)
      BY <1>2, <1>3, <1>4, <2>2, HoldsStill
    <3>2. Holds(longlist, q, Long)
      BY <1>2, <1>3, <1>4, <2>2, HoldsStill
    <3>3. Holds(freelist', q, Unused)
      <4>1. Holds(Append(freelist, id), [h EXCEPT ![id] = Unused], Unused)
        BY <1>2, <1>3, <1>4, <2>2, HoldsAdded
      <4> QED  BY <2>1, <2>2, <4>1, Zenon
    <3>4. q \in [1 .. objpooln -> Places] /\ \A i \in 1 .. objpooln : q[i] # InHand
      BY <1>2, <1>3, <1>4, <2>2
    <3> QED  BY <1>1, <1>5, <2>1, <3>1, <3>2, <3>3, <3>4 DEF Placing
  <2>6. Stays(h, q)
    <3>1. Waiting(q) = Waiting(h) /\ id \notin Waiting(h)
      BY <1>2, <1>3, <2>2 DEF Waiting
    <3>2. ASSUME NEW i \in Waiting(h) PROVE Row(q, i)' = Row(h, i)
      <4>1. i \in Ids /\ i # id /\ q[i] = h[i] /\ obj'[i] = obj[i]
        BY <1>2, <2>1, <2>2, <3>1 DEF Waiting, TypeOK
      <4> QED  BY <1>1, <4>1 DEF Row, LeftOf
    <3> QED  BY <3>1, <3>2 DEF Stays
  <2> QED  BY <1>3, <1>6, <2>3, <2>4, <2>5, <2>6
<1>7. CASE ~erased
  <2>1. PICK id, t, r : id = ticking /\ t = obj[ticking].timeout /\ r = obj[ticking].repeat
    OBVIOUS
  <2>2. AddObj(id, t, r) /\ freelist' = freelist
    BY <1>7, <2>1 DEF TickReturn
  <2>3. t \in Nat /\ r \in Nat /\ id \in Ids /\ id \in DOMAIN h /\ h[id] = InHand
    BY <1>3, <2>1 DEF TypeOK
  <2>4. PICK p \in Slots \cup {Long} : Placed(id, t, r, p)
    BY <2>2, <2>3, AddObjPlaces
  <2>5. PICK q : q = [h EXCEPT ![id] = p]
    OBVIOUS
  <2>6. p # Unused /\ p # InHand /\ p \in Places
    BY <1>4
  <2>7. TypeOK'
    BY <1>1, <1>5, <2>2, <2>3, <2>4, PlacedTypes DEF TypeOK
  <2>8. TickOK'
    <3>1. ticklist'[current] = ticklist[current]
      BY <1>1, <2>4, PlacedElsewhere
    <3> QED  BY <1>1, <3>1 DEF TickOK
  <2>9. Placing(q)'
    <3>1. /\ \A s \in Slots : Holds(ticklist'[s], q, s)
          /\ Holds(longlist', q, Long)
      BY <1>2, <2>3, <2>4, <2>5, PlacedHeld
    <3>2. Holds(freelist', q, Unused)
      BY <1>2, <1>4, <2>2, <2>3, <2>5, <2>6, HoldsStill
    <3>3. q \in [1 .. objpooln -> Places] /\ \A i \in 1 .. objpooln : q[i] # InHand
      BY <1>2, <1>3, <2>1, <2>5, <2>6
    <3> QED  BY <1>1, <1>5, <3>1, <3>2, <3>3 DEF Placing
  <2>10. Joins(h, q, id, t, r)
    BY <1>1, <1>2, <2>3, <2>4, <2>5, PlacedJoins
  <2>11. Joins(h, q, ticking, obj[ticking].timeout, obj[ticking].repeat)
    BY <2>1, <2>10, Zenon
  <2> QED  BY <1>3, <1>7, <2>7, <2>8, <2>9, <2>11
<1> QED  BY <1>6, <1>7

-----------------------------------------------------------------------------
(* The end of timer_tick, and the turn of the wheel.                       *)

\* One list behind another with none in common.
LEMMA DistinctJoined ==
  ASSUME NEW a \in Seq(Ids), NEW b \in Seq(Ids), Distinct(a), Distinct(b),
         Elements(a) \cap Elements(b) = {}
  PROVE  /\ a \o b \in Seq(Ids)
         /\ Distinct(a \o b)
         /\ Elements(a \o b) = Elements(a) \cup Elements(b)
<1>1. PICK c : c = a \o b
  OBVIOUS
<1>2. PICK m, n : m = Len(a) /\ n = Len(b)
  OBVIOUS
<1>3. /\ c \in Seq(Ids) /\ m \in Nat /\ n \in Nat
      /\ DOMAIN a = 1 .. m /\ DOMAIN b = 1 .. n /\ DOMAIN c = 1 .. m + n
      /\ \A i \in 1 .. m : c[i] = a[i]
      /\ \A i \in m + 1 .. m + n : c[i] = b[i - m]
  BY <1>1, <1>2
<1>4. ASSUME NEW i \in DOMAIN c, NEW j \in DOMAIN c, c[i] = c[j] PROVE i = j
  <2>1. CASE i <= m /\ j <= m
    <3>1. i \in DOMAIN a /\ j \in DOMAIN a /\ a[i] = a[j]
      BY <1>3, <1>4, <2>1
    <3> QED  BY <3>1 DEF Distinct
  <2>2. CASE i > m /\ j > m
    <3>1. i - m \in DOMAIN b /\ j - m \in DOMAIN b /\ b[i - m] = b[j - m]
      BY <1>3, <1>4, <2>2
    <3>2. i - m = j - m
      BY <3>1 DEF Distinct
    <3> QED  BY <1>3, <3>2
  <2>3. CASE (i <= m /\ j > m) \/ (i > m /\ j <= m)
    <3>1. CASE i <= m /\ j > m
      <4>1. i \in DOMAIN a /\ j - m \in DOMAIN b /\ a[i] = b[j - m]
        BY <1>3, <1>4, <3>1
      <4> QED  BY <4>1 DEF Elements
    <3>2. CASE i > m /\ j <= m
      <4>1. j \in DOMAIN a /\ i - m \in DOMAIN b /\ a[j] = b[i - m]
        BY <1>3, <1>4, <3>2
      <4> QED  BY <4>1 DEF Elements
    <3> QED  BY <2>3, <3>1, <3>2
  <2> QED  BY <1>3, <2>1, <2>2, <2>3
<1>5. ASSUME NEW x \in Elements(c) PROVE x \in Elements(a) \cup Elements(b)
  <2>1. PICK i \in DOMAIN c : x = c[i]
    BY <1>5 DEF Elements
  <2>2. CASE i <= m
    BY <1>3, <2>1, <2>2 DEF Elements
  <2>3. CASE i > m
    <3>1. i - m \in DOMAIN b /\ b[i - m] = x
      BY <1>3, <2>1, <2>3
    <3> QED  BY <3>1 DEF Elements
  <2> QED  BY <1>3, <2>2, <2>3
<1>6. ASSUME NEW x \in Elements(a) \cup Elements(b) PROVE x \in Elements(c)
  <2>1. CASE x \in Elements(a)
    <3>1. PICK i \in DOMAIN a : x = a[i]
      BY <2>1 DEF Elements
    <3> QED  BY <1>3, <3>1 DEF Elements
  <2>2. CASE x \in Elements(b)
    <3>1. PICK i \in DOMAIN b : x = b[i]
      BY <2>2 DEF Elements
    <3>2. i + m \in DOMAIN c /\ c[i + m] = b[i + m - m] /\ i + m - m = i
      BY <1>3, <3>1
    <3> QED  BY <3>1, <3>2 DEF Elements
  <2> QED  BY <2>1, <2>2
<1> QED  BY <1>1, <1>3, <1>4, <1>5, <1>6 DEF Distinct

\* The slot after this one, and how far the others are from it.
LEMMA NextSlot ==
  ASSUME NEW N \in Nat \ {0}, NEW c \in 0 .. N - 1
  PROVE  (c + 1) % N = IF c + 1 = N THEN 0 ELSE c + 1
  OBVIOUS

\* When current moves on, every other slot comes one tick nearer.
LEMMA NearerSlot ==
  ASSUME NEW N \in Nat \ {0}, NEW c \in 0 .. N - 1, NEW s \in 0 .. N - 1, s # c
  PROVE  (s - c) % N \in Nat \ {0} /\ (s - ((c + 1) % N)) % N = ((s - c) % N) - 1
<1>1. PICK d : d = (c + 1) % N
  OBVIOUS
<1>2. d = (IF c + 1 = N THEN 0 ELSE c + 1) /\ d \in 0 .. N - 1
  BY <1>1, NextSlot
<1>3. (s - c) % N = IF s >= c THEN s - c ELSE s - c + N
  BY Back
<1>4. (s - d) % N = IF s >= d THEN s - d ELSE s - d + N
  BY <1>2, Back
<1>5. (s - d) % N = ((s - c) % N) - 1
  BY <1>2, <1>3, <1>4
<1> QED  BY <1>1, <1>3, <1>5

\* When the slot is empty the call ends, and all timers that wait are one call nearer.
LEMMA TickEndStep ==
  ASSUME TypeOK, TickOK, NEW h, Placing(h), TickEnd
  PROVE  TypeOK' /\ TickOK' /\ \E q : Placing(q)' /\ Nears(h, q)
<1>1. /\ phase = "loop" /\ phase' = "idle" /\ num' = 0 /\ ticking' = 0 /\ erased' = FALSE
      /\ current' = (current + 1) % ticklistn
      /\ UNCHANGED <<ticklistn, freelist, objpooln>>
  BY DEF TickEnd
<1>2. PICK N, c : /\ N = ticklistn /\ c = current
                  /\ N \in Nat \ {0} /\ c \in 0 .. N - 1 /\ Slots = 0 .. N - 1
  BY WheelSize
<1>3. /\ ticklist \in [Slots -> Seq(Ids)] /\ longlist \in Seq(Ids) /\ freelist \in Seq(Ids)
      /\ obj \in [Ids -> [timeout : Nat, timeleft : Nat, repeat : Nat]]
  BY DEF TypeOK
<1>4. /\ h \in [1 .. objpooln -> Places] /\ DOMAIN h \subseteq Ids
      /\ \A i \in DOMAIN h : h[i] # InHand
  BY <1>1, TimerAssumption DEF TypeOK, Placing, Ids
<1>5. /\ \A s \in Slots : Holds(ticklist[s], h, s)
      /\ Holds(longlist, h, Long) /\ Holds(freelist, h, Unused)
  BY DEF Placing
<1>6. /\ Long # Unused /\ Long # InHand /\ Unused # InHand
      /\ \A s \in Slots : s # Unused /\ s # InHand /\ s # Long
  BY WheelSize DEF Long, Unused, InHand
<1>7. \A i \in DOMAIN h : h[i] # c
  <2>1. ticklist[current] \in Seq(Ids) /\ current \in Slots
    BY DEF TypeOK
  <2>2. ticklist[current] = <<>>
    <3>1. Len(ticklist[current]) <= num /\ num \in Nat
      BY <1>1 DEF TickOK, TypeOK
    <3>2. num = 0 \/ ticklist[current] = <<>>
      BY DEF TickEnd
    <3> QED  BY <2>1, <3>1, <3>2
  <2>3. Elements(ticklist[current]) = {}
    BY <2>2 DEF Elements
  <2> QED  BY <1>2, <1>5, <2>1, <2>3 DEF Holds
<1>8. current' \in 0 .. N - 1 /\ Slots' = Slots /\ Places' = Places
  <2>1. (c + 1) % N = IF c + 1 = N THEN 0 ELSE c + 1
    BY <1>2, NextSlot
  <2> QED  BY <1>1, <1>2, <2>1 DEF Slots, Places
<1>9. TickOK'
  BY <1>1 DEF TickOK
<1>10. ASSUME NEW i \in Waiting(h)
       PROVE  /\ i \in DOMAIN h /\ i \in Ids /\ obj[i].timeleft \in Nat
              /\ h[i] = Long \/ (h[i] \in Slots /\ h[i] # c)
              /\ LeftOf(h, i) \in Nat \ {0}
  <2>1. i \in DOMAIN h /\ i \in Ids /\ obj[i].timeleft \in Nat /\ h[i] \in Slots \cup {Long}
    BY <1>3, <1>4 DEF Waiting, Places
  <2>2. CASE h[i] = Long
    BY <1>2, <2>1, <2>2 DEF LeftOf
  <2>3. CASE h[i] # Long
    <3>1. h[i] \in 0 .. N - 1 /\ h[i] # c
      BY <1>2, <1>7, <2>1, <2>3
    <3>2. (h[i] - c) % N \in Nat \ {0}
      BY <1>2, <3>1, NearerSlot
    <3>3. LeftOf(h, i) = (h[i] - c) % N
      BY <1>2, <2>3, Zenon DEF LeftOf
    <3> QED  BY <1>2, <2>1, <3>1, <3>2, <3>3
  <2> QED  BY <2>1, <2>2, <2>3
<1>11. ASSUME NEW i \in Waiting(h), h[i] \in Slots
       PROVE  (h[i] - current') % ticklistn = LeftOf(h, i) - 1
  <2>1. h[i] \in 0 .. N - 1 /\ h[i] # c /\ h[i] # Long
    BY <1>2, <1>6, <1>10, <1>11
  <2>2. (h[i] - ((c + 1) % N)) % N = ((h[i] - c) % N) - 1
    BY <1>2, <2>1, NearerSlot
  <2>3. LeftOf(h, i) = (h[i] - c) % N
    BY <1>2, <2>1, Zenon DEF LeftOf
  <2>4. (h[i] - current') % ticklistn = (h[i] - ((c + 1) % N)) % N
    <3>1. N = ticklistn /\ c = current
      BY <1>2
    <3>2. (current + 1) % ticklistn = IF current + 1 = ticklistn THEN 0 ELSE current + 1
      BY WheelSize, NextSlot
    <3>3. (c + 1) % N = IF c + 1 = N THEN 0 ELSE c + 1
      BY <1>2, NextSlot
    <3>4. current' = (c + 1) % N
      BY <1>1, <3>1, <3>2, <3>3
    <3> QED  BY <3>1, <3>4, Zenon
  <2>5. LeftOf(h, i) - 1 = ((h[i] - c) % N) - 1
    BY <2>3, Zenon
  <2> QED  BY <2>2, <2>4, <2>5, Zenon
<1>12. /\ ticklistn' \in TickCounts /\ objpooln' \in 0 .. MaxPool
       /\ ticking' \in 0 .. objpooln' /\ phase' \in {"idle", "loop", "callback"}
       /\ num' \in Nat /\ erased' \in BOOLEAN /\ freelist' \in Seq(Ids)
  <2>1. ticklistn \in TickCounts /\ objpooln \in 0 .. MaxPool /\ 0 \in 0 .. objpooln
    BY TimerAssumption DEF TypeOK
  <2> QED  BY <1>1, <1>3, <2>1
<1>13. CASE current' # 0 /\ UNCHANGED <<ticklist, longlist, obj>>
  <2>1. TypeOK'
    <3>1. /\ ticklistn' \in TickCounts /\ objpooln' \in 0 .. MaxPool
          /\ ticking' \in 0 .. objpooln' /\ phase' \in {"idle", "loop", "callback"}
          /\ num' \in Nat /\ erased' \in BOOLEAN /\ freelist' \in Seq(Ids)
      BY <1>12
    <3>2. current' \in Slots'
      BY <1>2, <1>8
    <3>3. /\ ticklist' \in [Slots' -> Seq(Ids)] /\ longlist' \in Seq(Ids)
          /\ obj' \in [Ids -> [timeout : Nat, timeleft : Nat, repeat : Nat]]
      BY <1>3, <1>8, <1>13
    <3> QED  BY <3>1, <3>2, <3>3 DEF TypeOK
  <2>2. Placing(h)'
    BY <1>1, <1>4, <1>5, <1>8, <1>13 DEF Placing
  <2>3. current' = c + 1
    <3>1. (c + 1) % N = IF c + 1 = N THEN 0 ELSE c + 1
      BY <1>2, NextSlot
    <3> QED  BY <1>1, <1>2, <1>13, <3>1
  <2>4. ASSUME NEW i \in Waiting(h) PROVE Row(h, i)' = [Row(h, i) EXCEPT !.left = LeftOf(h, i) - 1]
    <3>1. LeftOf(h, i)' = LeftOf(h, i) - 1
      <4>1. CASE h[i] = Long
        <5>1. LeftOf(h, i) = obj[i].timeleft + (N - c)
          BY <1>2, <4>1, Zenon DEF LeftOf
        <5>2. LeftOf(h, i)' = obj[i].timeleft + (N - (c + 1))
          BY <1>1, <1>2, <1>13, <2>3, <4>1, Zenon DEF LeftOf
        <5> QED  BY <1>2, <1>10, <5>1, <5>2
      <4>2. CASE h[i] \in Slots
        BY <1>1, <1>6, <1>11, <4>2 DEF LeftOf
      <4> QED  BY <1>10, <4>1, <4>2
    <3> QED  BY <1>13, <3>1 DEF Row
  <2> QED  BY <1>9, <1>10, <2>1, <2>2, <2>4 DEF Nears
<1>14. CASE current' = 0 /\ Turn
  <2> DEFINE At(s) == {id \in Ids : obj[id].timeleft = s}
             Rest == {id \in Ids : ~DueInTurn(id)}
  <2>1. /\ \A s \in Slots : ticklist'[s] = ticklist[s] \o Those(longlist, At(s))
        /\ ticklist' = [s \in Slots |-> ticklist'[s]]
        /\ longlist' = Those(longlist, Rest)
        /\ obj' = [id \in Ids |->
                     IF (\E i \in DOMAIN longlist : longlist[i] = id) /\ ~DueInTurn(id)
                     THEN [obj[id] EXCEPT !.timeleft = @ - ticklistn]
                     ELSE obj[id]]
    BY <1>14 DEF Turn
  <2>2. c = N - 1
    <3>1. (c + 1) % N = IF c + 1 = N THEN 0 ELSE c + 1
      BY <1>2, NextSlot
    <3> QED  BY <1>1, <1>2, <1>14, <3>1
  <2>3. Distinct(longlist) /\ Elements(longlist) = {id \in DOMAIN h : h[id] = Long}
    BY <1>5 DEF Holds
  <2>4. \A S : /\ Those(longlist, S) \in Seq(Ids) /\ Distinct(Those(longlist, S))
               /\ Elements(Those(longlist, S)) = {id \in DOMAIN h : h[id] = Long} \cap S
    BY <1>3, <2>3, ThoseAreThose
  <2>5. PICK q : q = [id \in DOMAIN h |-> IF h[id] = Long /\ obj[id].timeleft < N
                                          THEN obj[id].timeleft ELSE h[id]]
    OBVIOUS
  <2>6. \A id \in DOMAIN h : obj[id].timeleft \in Nat /\ id \in Ids
    BY <1>3, <1>4
  <2>7. \A id \in Ids : (\E i \in DOMAIN longlist : longlist[i] = id) <=> id \in DOMAIN h /\ h[id] = Long
    BY <2>3 DEF Elements
  <2>8. \A id \in Ids : obj'[id] = IF (id \in DOMAIN h /\ h[id] = Long) /\ ~(obj[id].timeleft < N)
                                   THEN [obj[id] EXCEPT !.timeleft = @ - N] ELSE obj[id]
    BY <1>2, <2>1, <2>7 DEF DueInTurn
  <2>9. ASSUME NEW s \in Slots
        PROVE  ticklist'[s] \in Seq(Ids) /\ Holds(ticklist'[s], q, s)
    <3>1. PICK a, b : a = ticklist[s] /\ b = Those(longlist, At(s))
      OBVIOUS
    <3>2. a \in Seq(Ids) /\ Distinct(a) /\ Elements(a) = {id \in DOMAIN h : h[id] = s}
      BY <1>3, <1>5, <3>1 DEF Holds
    <3>3. b \in Seq(Ids) /\ Distinct(b)
          /\ Elements(b) = {id \in DOMAIN h : h[id] = Long} \cap At(s)
      <4> HIDE DEF At
      <4> QED  BY <2>4, <3>1, Zenon
    <3>4. Elements(a) \cap Elements(b) = {}
      BY <1>6, <3>2, <3>3
    <3>5. /\ a \o b \in Seq(Ids) /\ Distinct(a \o b)
          /\ Elements(a \o b) = Elements(a) \cup Elements(b)
      BY <3>2, <3>3, <3>4, DistinctJoined
    <3>6. {id \in DOMAIN q : q[id] = s} = Elements(a) \cup Elements(b)
      BY <1>2, <1>6, <2>5, <2>6, <3>2, <3>3
    <3>7. ticklist'[s] = a \o b
      BY <2>1, <3>1
    <3> QED  BY <3>5, <3>6, <3>7, Zenon DEF Holds
  <2>10. longlist' \in Seq(Ids) /\ Holds(longlist', q, Long)
    <3>1. /\ longlist' \in Seq(Ids) /\ Distinct(longlist')
          /\ Elements(longlist') = {id \in DOMAIN h : h[id] = Long} \cap Rest
      <4> HIDE DEF Rest
      <4> QED  BY <2>1, <2>4, Zenon
    <3>2. {id \in DOMAIN q : q[id] = Long} = {id \in DOMAIN h : h[id] = Long} \cap Rest
      BY <1>2, <2>5, <2>6 DEF DueInTurn, Long
    <3> QED  BY <3>1, <3>2 DEF Holds
  <2>11. Holds(freelist, q, Unused)
    <3>1. {id \in DOMAIN q : q[id] = Unused} = {id \in DOMAIN h : h[id] = Unused}
      BY <1>6, <2>5, <2>6 DEF Unused
    <3> QED  BY <1>5, <3>1 DEF Holds
  <2>12. /\ q \in [1 .. objpooln -> Places] /\ \A i \in 1 .. objpooln : q[i] # InHand
         /\ \A i \in DOMAIN h : h[i] = Long /\ obj[i].timeleft < N => q[i] \in Slots
    <3>1. \A i \in DOMAIN h : obj[i].timeleft < N => obj[i].timeleft \in Slots
      BY <1>2, <2>6
    <3> QED  BY <1>4, <1>6, <2>5, <3>1 DEF Places
  <2>13. TypeOK'
    <3>1. obj' \in [Ids -> [timeout : Nat, timeleft : Nat, repeat : Nat]]
      <4>1. ASSUME NEW id \in Ids
            PROVE  obj'[id] \in [timeout : Nat, timeleft : Nat, repeat : Nat]
        <5>1. obj[id] \in [timeout : Nat, timeleft : Nat, repeat : Nat]
          BY <1>3
        <5>2. CASE (id \in DOMAIN h /\ h[id] = Long) /\ ~(obj[id].timeleft < N)
          <6>1. obj'[id] = [obj[id] EXCEPT !.timeleft = @ - N]
            BY <2>8, <5>2
          <6>2. obj[id].timeleft - N \in Nat
            BY <1>2, <5>1, <5>2
          <6> QED  BY <5>1, <6>1, <6>2
        <5>3. CASE ~((id \in DOMAIN h /\ h[id] = Long) /\ ~(obj[id].timeleft < N))
          <6>1. obj'[id] = obj[id]
            BY <2>8, <5>3
          <6> QED  BY <5>1, <6>1
        <5> QED  BY <5>2, <5>3
      <4> QED  BY <2>1, <4>1
    <3>2. ticklist' \in [Slots -> Seq(Ids)]
      <4> HIDE DEF At
      <4> QED  BY <2>1, <2>9
    <3>3. /\ ticklistn' \in TickCounts /\ objpooln' \in 0 .. MaxPool
          /\ ticking' \in 0 .. objpooln' /\ phase' \in {"idle", "loop", "callback"}
          /\ num' \in Nat /\ erased' \in BOOLEAN /\ freelist' \in Seq(Ids)
      BY <1>12
    <3>4. current' \in Slots' /\ ticklist' \in [Slots' -> Seq(Ids)]
      BY <1>2, <1>8, <3>2
    <3> QED  BY <2>10, <3>1, <3>3, <3>4 DEF TypeOK
  <2>14. Placing(q)'
    BY <1>1, <1>8, <2>9, <2>10, <2>11, <2>12 DEF Placing
  <2>15. Waiting(q) = Waiting(h)
    BY <1>6, <2>5, <2>12 DEF Waiting
  <2>16. ASSUME NEW i \in Waiting(h)
         PROVE  Row(q, i)' = [Row(h, i) EXCEPT !.left = LeftOf(h, i) - 1]
    <3>1. i \in DOMAIN h /\ i \in Ids /\ obj[i].timeleft \in Nat
          /\ obj[i] \in [timeout : Nat, timeleft : Nat, repeat : Nat]
      BY <1>3, <1>10
    <3>2. obj'[i].timeout = obj[i].timeout /\ obj'[i].repeat = obj[i].repeat
      BY <2>8, <3>1
    <3>3. LeftOf(q, i)' = LeftOf(h, i) - 1
      <4>1. CASE h[i] = Long /\ obj[i].timeleft < N
        <5>1. q[i] = obj[i].timeleft /\ q[i] # Long /\ LeftOf(h, i) = obj[i].timeleft + 1
          <6>1. LeftOf(h, i) = obj[i].timeleft + (N - c)
            BY <1>2, <4>1, Zenon DEF LeftOf
          <6>2. q[i] = obj[i].timeleft
            BY <2>5, <3>1, <4>1
          <6>3. q[i] # Long
            BY <3>1, <6>2 DEF Long
          <6> QED  BY <1>2, <2>2, <3>1, <6>1, <6>2, <6>3
        <5>2. LeftOf(q, i)' = (q[i] - 0) % N
          BY <1>1, <1>2, <1>14, <5>1, Zenon DEF LeftOf
        <5>3. q[i] \in 0 .. N - 1
          BY <1>2, <3>1, <4>1, <5>1
        <5>4. 0 \in 0 .. N - 1 /\ q[i] >= 0 /\ q[i] - 0 = q[i]
          BY <1>2, <5>3
        <5>5. (q[i] - 0) % N = q[i]
          <6>1. (q[i] - 0) % N = IF q[i] >= 0 THEN q[i] - 0 ELSE q[i] - 0 + N
            BY <1>2, <5>3, <5>4, Back
          <6> QED  BY <5>4, <6>1, Zenon
        <5>6. LeftOf(q, i)' = q[i]
          BY <5>2, <5>5, Zenon
        <5>7. LeftOf(h, i) - 1 = q[i]
          BY <3>1, <5>1
        <5> QED  BY <5>6, <5>7, Zenon
      <4>2. CASE h[i] = Long /\ ~(obj[i].timeleft < N)
        <5>1. q[i] = Long /\ LeftOf(h, i) = obj[i].timeleft + 1
          BY <1>2, <2>2, <2>5, <3>1, <4>2 DEF LeftOf
        <5>2. obj'[i].timeleft = obj[i].timeleft - N
          BY <2>8, <3>1, <4>2
        <5>3. LeftOf(q, i)' = obj'[i].timeleft + (N - 0)
          BY <1>1, <1>2, <1>14, <5>1 DEF LeftOf
        <5> QED  BY <1>2, <3>1, <5>1, <5>2, <5>3
      <4>3. CASE h[i] \in Slots
        <5>1. q[i] = h[i] /\ q[i] # Long
          BY <1>6, <2>5, <3>1, <4>3
        <5>2. LeftOf(q, i)' = (h[i] - current') % ticklistn
          BY <1>1, <5>1, Zenon DEF LeftOf
        <5> QED  BY <1>11, <4>3, <5>2
      <4> QED  BY <1>10, <4>1, <4>2, <4>3
    <3> QED  BY <3>2, <3>3 DEF Row
  <2> QED  BY <1>9, <1>10, <2>13, <2>14, <2>15, <2>16 DEF Nears
<1> QED  BY <1>13, <1>14 DEF TickEnd
-----------------------------------------------------------------------------
(* The invariant.                                                          *)

\* timer_new makes an empty wheel.
LEMMA InitStep ==
  ASSUME Init
  PROVE  WheelInv /\ \E h : Placing(h) /\ Waiting(h) = {}
<1>1. PICK h : h = [id \in 1 .. 0 |-> Unused]
  OBVIOUS
<1>2. /\ ticklistn \in TickCounts /\ objpooln = 0 /\ current = 0 /\ ticking = 0
      /\ phase = "idle" /\ num = 0 /\ erased = FALSE
      /\ ticklist = [s \in Slots |-> <<>>] /\ longlist = <<>> /\ freelist = <<>>
      /\ obj = [id \in Ids |-> Blank]
  BY DEF Init
<1>3. DOMAIN h = {} /\ h \in [1 .. objpooln -> Places]
  BY <1>1, <1>2
<1>4. \A k : Holds(<<>>, h, k)
  BY <1>3 DEF Holds, Distinct, Elements
<1>5. Placing(h)
  BY <1>2, <1>3, <1>4 DEF Placing
<1>6. TypeOK
  <2>1. 0 \in Slots /\ 0 \in 0 .. MaxPool /\ 0 \in 0 .. 0
    BY <1>2, TimerAssumption DEF Slots
  <2>2. obj \in [Ids -> [timeout : Nat, timeleft : Nat, repeat : Nat]]
    BY <1>2 DEF Blank
  <2>3. ticklist \in [Slots -> Seq(Ids)] /\ longlist \in Seq(Ids) /\ freelist \in Seq(Ids)
    <3>1. <<>> \in Seq(Ids)
      OBVIOUS
    <3> QED  BY <1>2, <3>1
  <2> QED  BY <1>2, <2>1, <2>2, <2>3 DEF TypeOK
<1>7. TickOK
  BY <1>2 DEF TickOK
<1>8. Waiting(h) = {}
  BY <1>3 DEF Waiting
<1> QED  BY <1>3, <1>5, <1>6, <1>7, <1>8 DEF WheelInv

\* Nothing changes when nothing changes.
LEMMA StillStep ==
  ASSUME TypeOK, TickOK, NEW h, Placing(h), UNCHANGED vars
  PROVE  TypeOK' /\ TickOK' /\ Placing(h)' /\ Stays(h, h)
<1>1. UNCHANGED <<ticklistn, ticklist, longlist, freelist, objpooln, obj, current, ticking, phase,
                  num, erased>>
  BY DEF vars, lists, tickVars
<1>2. Slots' = Slots /\ Places' = Places
  BY <1>1 DEF Slots, Places
<1>3. TypeOK'
  BY <1>1, <1>2 DEF TypeOK
<1>4. TickOK'
  BY <1>1 DEF TickOK
<1>5. Placing(h)'
  BY <1>1, <1>2 DEF Placing
<1>6. Stays(h, h)
  BY <1>1 DEF Stays, Row, LeftOf
<1> QED  BY <1>3, <1>4, <1>5, <1>6

\* Every operation of the timer wheel keeps it.
LEMMA WheelStep ==
  ASSUME ~DelAnywhere, WheelInv, [Next]_vars
  PROVE  WheelInv'
<1>1. TypeOK /\ TickOK
  BY DEF WheelInv
<1>2. PICK h : Placing(h)
  BY DEF WheelInv
<1>3. SUFFICES TypeOK' /\ TickOK' /\ \E q : Placing(q)'
  BY DEF WheelInv, Placing
<1>4. CASE \E t \in Timeouts, r \in Repeats : TimerAdd(t, r)
  BY <1>1, <1>2, <1>4, TimerAddStep
<1>5. CASE \E id \in Ids : TimerDel(id)
  BY <1>1, <1>2, <1>5, TimerDelStep
<1>6. CASE TimerDelTicking
  BY <1>1, <1>2, <1>6, TimerDelTickingStep
<1>7. CASE TickBegin
  BY <1>1, <1>2, <1>7, TickBeginStep
<1>8. CASE TickCall
  BY <1>1, <1>2, <1>8, TickCallStep
<1>9. CASE TickReturn
  BY <1>1, <1>2, <1>9, TickReturnStep
<1>10. CASE TickEnd
  BY <1>1, <1>2, <1>10, TickEndStep
<1>11. CASE UNCHANGED vars
  BY <1>1, <1>2, <1>11, StillStep
<1> QED  BY <1>4, <1>5, <1>6, <1>7, <1>8, <1>9, <1>10, <1>11 DEF Next, Tick

\* The wheel keeps its invariant where timer_del is called as ~DelAnywhere says.
LEMMA Invariance ==
  ASSUME ~DelAnywhere
  PROVE  Spec => []WheelInv
<1>1. Init => WheelInv
  BY InitStep
<1>2. WheelInv /\ [Next]_vars => WheelInv'
  BY WheelStep
<1> QED  BY <1>1, <1>2, PTL DEF Spec

-----------------------------------------------------------------------------
(* No object is lost.                                                      *)

\* Where in a list a tid stands: nowhere, or in one place.
Spots(list, id) == {i \in DOMAIN list : list[i] = id}

\* A list that holds the objects placed in it has each of them in one spot.
LEMMA SpotsOfHeld ==
  ASSUME NEW list, NEW h, NEW k, NEW id, Holds(list, h, k)
  PROVE  /\ (id \notin DOMAIN h \/ h[id] # k) => Spots(list, id) = {}
         /\ (id \in DOMAIN h /\ h[id] = k) => \E n : Spots(list, id) = {n}
<1>1. CASE id \in DOMAIN h /\ h[id] = k
  <2>1. PICK n \in DOMAIN list : list[n] = id
    BY <1>1 DEF Holds, Elements
  <2>2. Spots(list, id) = {n}
    BY <2>1 DEF Spots, Holds, Distinct
  <2> QED  BY <1>1, <2>2
<1>2. CASE id \notin DOMAIN h \/ h[id] # k
  <2>1. \A n \in DOMAIN list : list[n] # id
    BY <1>2 DEF Holds, Elements
  <2> QED  BY <1>2, <2>1 DEF Spots
<1> QED  BY <1>1, <1>2

\* Homes gathers the spots of a tid in all the lists.
LEMMA InHomes ==
  ASSUME NEW id, NEW x
  PROVE  x \in Homes(id) <=>
           \/ \E s \in Slots : \E i \in Spots(ticklist[s], id) : x = <<s, i>>
           \/ \E i \in Spots(longlist, id) : x = <<-1, i>>
           \/ \E i \in Spots(freelist, id) : x = <<-2, i>>
           \/ phase = "callback" /\ ticking = id /\ x = <<-3, 0>>
<1> DEFINE A == UNION {{<<s, i>> : i \in Spots(ticklist[s], id)} : s \in Slots}
           B == {<<-1, i>> : i \in Spots(longlist, id)}
           C == {<<-2, i>> : i \in Spots(freelist, id)}
           D == IF phase = "callback" /\ ticking = id THEN {<<-3, 0>>} ELSE {}
<1>1. Homes(id) = A \cup B \cup C \cup D
  BY DEF Homes, Spots
<1>2. x \in A <=> \E s \in Slots : \E i \in Spots(ticklist[s], id) : x = <<s, i>>
  OBVIOUS
<1>3. x \in B <=> \E i \in Spots(longlist, id) : x = <<-1, i>>
  OBVIOUS
<1>4. x \in C <=> \E i \in Spots(freelist, id) : x = <<-2, i>>
  OBVIOUS
<1>5. x \in D <=> phase = "callback" /\ ticking = id /\ x = <<-3, 0>>
  OBVIOUS
<1> HIDE DEF A, B, C, D
<1> QED  BY <1>1, <1>2, <1>3, <1>4, <1>5

\* An object of the pool has one home, and no other tid has any.
LEMMA HomesCounted ==
  ASSUME TypeOK, TickOK, NEW h, Placing(h), NEW id \in Ids
  PROVE  Cardinality(Homes(id)) = IF id <= objpooln THEN 1 ELSE 0
<1>1. /\ \A s \in Slots : Holds(ticklist[s], h, s)
      /\ Holds(longlist, h, Long) /\ Holds(freelist, h, Unused)
      /\ h \in [1 .. objpooln -> Places] /\ objpooln \in Nat /\ id \in 1 .. MaxPool
      /\ \A i \in 1 .. objpooln : h[i] = InHand <=> phase = "callback" /\ ticking = i
  BY TimerAssumption DEF Placing, TypeOK, Ids
<1>2. /\ Long # Unused /\ Long # InHand /\ Unused # InHand
      /\ \A s \in Slots : s # Unused /\ s # InHand /\ s # Long
  BY WheelSize DEF Long, Unused, InHand
<1>3. CASE id <= objpooln
  <2>1. id \in DOMAIN h /\ h[id] \in Places
    BY <1>1, <1>3
  <2>2. CASE h[id] \in Slots
    <3>1. PICK n : Spots(ticklist[h[id]], id) = {n}
      BY <1>1, <2>1, <2>2, SpotsOfHeld
    <3>2. \A s \in Slots : s # h[id] => Spots(ticklist[s], id) = {}
      BY <1>1, <2>1, SpotsOfHeld
    <3>3. Spots(longlist, id) = {} /\ Spots(freelist, id) = {}
      BY <1>1, <1>2, <2>1, <2>2, SpotsOfHeld
    <3>4. ~(phase = "callback" /\ ticking = id)
      BY <1>1, <1>2, <2>1, <2>2
    <3>5. Homes(id) = {<<h[id], n>>}
      BY <2>2, <3>1, <3>2, <3>3, <3>4, InHomes
    <3> QED  BY <1>3, <3>5, FS_Singleton
  <2>3. CASE h[id] = Long
    <3>1. PICK n : Spots(longlist, id) = {n}
      BY <1>1, <2>1, <2>3, SpotsOfHeld
    <3>2. \A s \in Slots : Spots(ticklist[s], id) = {}
      BY <1>1, <1>2, <2>1, <2>3, SpotsOfHeld
    <3>3. Spots(freelist, id) = {}
      BY <1>1, <1>2, <2>1, <2>3, SpotsOfHeld
    <3>4. ~(phase = "callback" /\ ticking = id)
      BY <1>1, <1>2, <2>1, <2>3
    <3>5. Homes(id) = {<<-1, n>>}
      BY <3>1, <3>2, <3>3, <3>4, InHomes
    <3> QED  BY <1>3, <3>5, FS_Singleton
  <2>4. CASE h[id] = Unused
    <3>1. PICK n : Spots(freelist, id) = {n}
      BY <1>1, <2>1, <2>4, SpotsOfHeld
    <3>2. \A s \in Slots : Spots(ticklist[s], id) = {}
      BY <1>1, <1>2, <2>1, <2>4, SpotsOfHeld
    <3>3. Spots(longlist, id) = {}
      BY <1>1, <1>2, <2>1, <2>4, SpotsOfHeld
    <3>4. ~(phase = "callback" /\ ticking = id)
      BY <1>1, <1>2, <2>1, <2>4
    <3>5. Homes(id) = {<<-2, n>>}
      BY <3>1, <3>2, <3>3, <3>4, InHomes
    <3> QED  BY <1>3, <3>5, FS_Singleton
  <2>5. CASE h[id] = InHand
    <3>1. \A s \in Slots : Spots(ticklist[s], id) = {}
      BY <1>1, <1>2, <2>1, <2>5, SpotsOfHeld
    <3>2. Spots(longlist, id) = {} /\ Spots(freelist, id) = {}
      BY <1>1, <1>2, <2>1, <2>5, SpotsOfHeld
    <3>3. phase = "callback" /\ ticking = id
      BY <1>1, <2>1, <2>5
    <3>4. Homes(id) = {<<-3, 0>>}
      BY <3>1, <3>2, <3>3, InHomes
    <3> QED  BY <1>3, <3>4, FS_Singleton
  <2> QED  BY <2>1, <2>2, <2>3, <2>4, <2>5 DEF Places
<1>4. CASE ~(id <= objpooln)
  <2>1. id \notin DOMAIN h
    BY <1>1, <1>4
  <2>2. \A s \in Slots : Spots(ticklist[s], id) = {}
    BY <1>1, <2>1, SpotsOfHeld
  <2>3. Spots(longlist, id) = {} /\ Spots(freelist, id) = {}
    BY <1>1, <2>1, SpotsOfHeld
  <2>4. ~(phase = "callback" /\ ticking = id)
    BY <1>1, <1>4 DEF TypeOK
  <2>5. Homes(id) = {}
    BY <2>2, <2>3, <2>4, InHomes
  <2> QED  BY <1>4, <2>5, FS_EmptySet
<1> QED  BY <1>3, <1>4

\* No timer object is lost or is in two lists.
THEOREM TimersHaveOneHome ==
  ASSUME ~DelAnywhere
  PROVE  Spec => []OneHome
<1>1. WheelInv => OneHome
  BY HomesCounted DEF WheelInv, OneHome
<1> QED  BY <1>1, Invariance, PTL
-----------------------------------------------------------------------------
(* timer_nearest, and what the timers look like without a wheel.           *)

\* A timer that waits is in one list, and LeftOf counts the calls as Left does.
LEMMA ArmedWait ==
  \A h : TypeOK /\ Placing(h) =>
           Armed = Waiting(h) /\ \A id \in Waiting(h) : Left(id) = LeftOf(h, id)
<1> SUFFICES ASSUME NEW h, TypeOK, Placing(h)
             PROVE  Armed = Waiting(h) /\ \A id \in Waiting(h) : Left(id) = LeftOf(h, id)
  OBVIOUS
<1>1. /\ \A s \in Slots : Holds(ticklist[s], h, s)
      /\ Holds(longlist, h, Long)
      /\ h \in [1 .. objpooln -> Places] /\ DOMAIN h \subseteq Ids
  BY TimerAssumption DEF Placing, TypeOK, Ids
<1>2. /\ Long # Unused /\ Long # InHand
      /\ \A s \in Slots : s # Unused /\ s # InHand /\ s # Long
  BY WheelSize DEF Long, Unused, InHand
<1>3. \A list, k, id : Holds(list, h, k) => (In(list, id) <=> id \in DOMAIN h /\ h[id] = k)
  BY DEF Holds, Elements, In
<1>4. \A id : In(longlist, id) <=> id \in DOMAIN h /\ h[id] = Long
  BY <1>1, <1>3
<1>5. \A id : \A s \in Slots : In(ticklist[s], id) <=> id \in DOMAIN h /\ h[id] = s
  BY <1>1, <1>3
<1>6. Armed = Waiting(h)
  BY <1>1, <1>2, <1>4, <1>5 DEF Armed, Waiting, Places
<1>7. ASSUME NEW id \in Waiting(h) PROVE Left(id) = LeftOf(h, id)
  <2>1. id \in DOMAIN h /\ h[id] \in Slots \cup {Long}
    BY <1>1, <1>7 DEF Waiting, Places
  <2>2. CASE h[id] = Long
    BY <1>4, <2>1, <2>2, Zenon DEF Left, LeftOf
  <2>3. CASE h[id] \in Slots
    <3>1. ~In(longlist, id)
      BY <1>2, <1>4, <2>3
    <3>2. PICK d : d = CHOOSE s \in Slots : In(ticklist[s], id)
      OBVIOUS
    <3>3. d = h[id] /\ h[id] # Long
      BY <1>2, <1>5, <2>1, <2>3, <3>2
    <3>4. Left(id) = (d - current) % ticklistn
      BY <3>1, <3>2, Zenon DEF Left
    <3>5. LeftOf(h, id) = (h[id] - current) % ticklistn
      BY <3>3, Zenon DEF LeftOf
    <3> QED  BY <3>3, <3>4, <3>5, Zenon
  <2> QED  BY <2>1, <2>2, <2>3
<1> QED  BY <1>6, <1>7

\* A poller that sleeps for timer_nearest calls wakes up in time for every timer.
THEOREM NearestIsInTime ==
  ASSUME ~DelAnywhere
  PROVE  Spec => []NearestMissesNone
<1>1. ASSUME WheelInv PROVE NearestMissesNone
  <2>1. SUFFICES ASSUME NEW id \in Armed PROVE Nearest <= Left(id)
    BY DEF NearestMissesNone
  <2>2. PICK h : Placing(h)
    BY <1>1 DEF WheelInv
  <2>3. TypeOK
    BY <1>1 DEF WheelInv
  <2>4. PICK N, c : /\ N = ticklistn /\ c = current
                    /\ N \in Nat \ {0} /\ c \in 0 .. N - 1 /\ Slots = 0 .. N - 1
    BY <2>3, WheelSize
  <2>5. PICK busy : busy = {s \in current .. ticklistn - 1 : ticklist[s] # <<>>}
    OBVIOUS
  <2>6. busy \subseteq c .. N - 1
    BY <2>4, <2>5
  <2>7. PICK b : /\ busy # {} => b \in busy /\ \A u \in busy : b <= u
                 /\ Nearest = IF busy = {} THEN N - c ELSE b - c
    <3>1. CASE busy = {}
      BY <2>4, <2>5, <3>1 DEF Nearest
    <3>2. CASE busy # {}
      <4>1. busy \in SUBSET Nat
        BY <2>4, <2>6
      <4>2. PICK x \in busy : \A y \in busy : x <= y
        BY <3>2, <4>1, LeastNatural
      <4>3. PICK b : b = CHOOSE s \in busy : \A u \in busy : s <= u
        OBVIOUS
      <4>4. b \in busy /\ \A u \in busy : b <= u
        BY <4>2, <4>3
      <4>5. Nearest = b - current
        BY <2>5, <3>2, <4>3, Zenon DEF Nearest
      <4> QED  BY <2>4, <3>2, <4>4, <4>5
    <3> QED  BY <3>1, <3>2
  <2>8. Nearest <= N - c /\ Nearest \in Int
    <3>1. CASE busy = {}
      BY <2>4, <2>7, <3>1
    <3>2. CASE busy # {}
      <4>1. b \in c .. N - 1
        BY <2>6, <2>7, <3>2
      <4> QED  BY <2>4, <2>7, <3>2, <4>1
    <3> QED  BY <3>1, <3>2
  <2>9. id \in Waiting(h) /\ Left(id) = LeftOf(h, id)
    BY <2>1, <2>2, <2>3, ArmedWait
  <2>10. /\ id \in DOMAIN h /\ id \in Ids /\ h[id] \in Slots \cup {Long}
         /\ obj[id].timeleft \in Nat
    BY <2>2, <2>3, <2>9, TimerAssumption DEF Waiting, Placing, Places, TypeOK, Ids
  <2>11. CASE h[id] = Long
    <3>1. Left(id) = obj[id].timeleft + (N - c)
      BY <2>4, <2>9, <2>11, Zenon DEF LeftOf
    <3> QED  BY <2>4, <2>6, <2>7, <2>8, <2>10, <3>1
  <2>12. CASE h[id] \in Slots
    <3>1. h[id] \in 0 .. N - 1 /\ h[id] # Long
      BY <2>4, <2>12 DEF Long
    <3>2. Left(id) = (h[id] - c) % N
      BY <2>4, <2>9, <3>1, Zenon DEF LeftOf
    <3>3. (h[id] - c) % N = IF h[id] >= c THEN h[id] - c ELSE h[id] - c + N
      BY <2>4, <3>1, Back
    <3>4. h[id] >= c => h[id] \in busy
      <4>1. Holds(ticklist[h[id]], h, h[id])
        BY <2>2, <2>12 DEF Placing
      <4>2. ticklist[h[id]] # <<>>
        BY <2>10, <4>1 DEF Holds, Elements
      <4> QED  BY <2>4, <2>5, <3>1, <4>2
    <3>5. CASE h[id] >= c
      <4>1. b \in c .. N - 1 /\ b <= h[id] /\ Nearest = b - c
        BY <2>6, <2>7, <3>4, <3>5
      <4> QED  BY <2>4, <3>1, <3>2, <3>3, <3>5, <4>1
    <3>6. CASE ~(h[id] >= c)
      BY <2>4, <2>8, <3>1, <3>2, <3>3, <3>6
    <3> QED  BY <3>5, <3>6
  <2> QED  BY <2>10, <2>11, <2>12
<1> QED  BY <1>1, Invariance, PTL

\* The timers DeadlineTimers sees, in terms of places; and after a step.
LEMMA BarIs ==
  \A h : TypeOK /\ Placing(h) => timersBar = [id \in Waiting(h) |-> Row(h, id)]
  BY ArmedWait, Zenon DEF timersBar, Row

\* The mapped timers of the next state, from the placing of the next state.
LEMMA BarNext ==
  ASSUME TypeOK', NEW q, Placing(q)'
  PROVE  timersBar' = [id \in Waiting(q) |-> Row(q, id)']
<1>1. (\A h : TypeOK /\ Placing(h) => timersBar = [id \in Waiting(h) |-> Row(h, id)])'
  BY BarIs, PTL
<1> QED  BY <1>1
-----------------------------------------------------------------------------
(* The wheel implements DeadlineTimers: what each step of it is there.     *)

\* A timer whose callback runs is firing, and nothing else is.
LEMMA FiringIs ==
  ASSUME TypeOK, TickOK
  PROVE  /\ phase = "callback" =>
              /\ ticking \in Ids
              /\ firingBar # Null
              /\ firingBar = [id |-> ticking, timeout |-> obj[ticking].timeout,
                              last |-> erased, repeat |-> obj[ticking].repeat]
         /\ phase # "callback" => firingBar = Null
<1>1. CASE phase = "callback"
  <2>1. ticking \in Ids
    BY <1>1, TimerAssumption DEF TypeOK, TickOK, Ids
  <2>2. firingBar = [id |-> ticking, timeout |-> obj[ticking].timeout,
                     last |-> erased, repeat |-> obj[ticking].repeat]
    BY <1>1 DEF firingBar
  <2>3. firingBar \in [id : Nat, timeout : Nat, last : BOOLEAN, repeat : Nat]
    <3>1. obj[ticking] \in [timeout : Nat, timeleft : Nat, repeat : Nat]
      BY <2>1 DEF TypeOK
    <3>2. ticking \in Nat /\ erased \in BOOLEAN
      BY <2>1, TimerAssumption DEF TypeOK, Ids
    <3> QED  BY <2>2, <3>1, <3>2
  <2> QED  BY <1>1, <2>1, <2>2, <2>3, TimerAssumption
<1>2. CASE phase # "callback"
  BY <1>2 DEF firingBar
<1> QED  BY <1>1, <1>2

\* Timers that stay, one that joins, one that leaves, and all coming nearer.
LEMMA StaysBar ==
  ASSUME TypeOK, NEW h, Placing(h), TypeOK', NEW q, Placing(q)', Stays(h, q)
  PROVE  timersBar' = timersBar
<1>1. timersBar = [i \in Waiting(h) |-> Row(h, i)]
  BY BarIs
<1>2. timersBar' = [i \in Waiting(q) |-> Row(q, i)']
  BY BarNext
<1> QED  BY <1>1, <1>2 DEF Stays

\* A timer that joins the wheel joins the mapped timers with its time.
LEMMA JoinsBar ==
  ASSUME TypeOK, NEW h, Placing(h), TypeOK', NEW q, Placing(q)',
         NEW id, NEW t, NEW r, Joins(h, q, id, t, r), phase # "idle" <=> ticking # 0
  PROVE  timersBar' = DT!With(id, t, r) /\ id \notin DOMAIN timersBar
<1>1. timersBar = [i \in Waiting(h) |-> Row(h, i)]
  BY BarIs
<1>2. timersBar' = [i \in Waiting(q) |-> Row(q, i)']
  BY BarNext
<1>3. /\ id \notin Waiting(h) /\ Waiting(q) = Waiting(h) \cup {id}
      /\ \A i \in Waiting(h) : Row(q, i)' = Row(h, i)
      /\ Row(q, id)' = [left |-> DT!Soon(t), timeout |-> t, repeat |-> r]
  BY DEF Joins, DT!Soon
<1>4. DT!With(id, t, r) =
        [i \in DOMAIN timersBar \cup {id} |->
           IF i = id THEN [left |-> DT!Soon(t), timeout |-> t, repeat |-> r] ELSE timersBar[i]]
  BY DEF DT!With
<1>5. DOMAIN timersBar = Waiting(h) /\ \A i \in Waiting(h) : timersBar[i] = Row(h, i)
  BY <1>1
<1>6. ASSUME NEW i \in Waiting(q)
      PROVE  Row(q, i)' = IF i = id THEN [left |-> DT!Soon(t), timeout |-> t, repeat |-> r]
                          ELSE timersBar[i]
  BY <1>3, <1>5, <1>6
<1>7. timersBar' = [i \in Waiting(q) |->
                      IF i = id THEN [left |-> DT!Soon(t), timeout |-> t, repeat |-> r]
                      ELSE timersBar[i]]
  BY <1>2, <1>6, Zenon
<1> QED  BY <1>3, <1>4, <1>5, <1>7, Zenon

\* A timer that leaves the wheel leaves the mapped timers.
LEMMA LeavesBar ==
  ASSUME TypeOK, NEW h, Placing(h), TypeOK', NEW q, Placing(q)', NEW id, Leaves(h, q, id)
  PROVE  /\ timersBar' = DT!Without(id) /\ id \in DOMAIN timersBar
         /\ timersBar[id] = Row(h, id)
<1>1. timersBar = [i \in Waiting(h) |-> Row(h, i)]
  BY BarIs
<1>2. timersBar' = [i \in Waiting(q) |-> Row(q, i)']
  BY BarNext
<1>3. id \in Waiting(h) /\ Waiting(q) = Waiting(h) \ {id}
      /\ \A i \in Waiting(q) : Row(q, i)' = Row(h, i)
  BY DEF Leaves
<1>4. DOMAIN timersBar = Waiting(h) /\ \A i \in Waiting(h) : timersBar[i] = Row(h, i)
  BY <1>1
<1>5. DT!Without(id) = [i \in Waiting(q) |-> timersBar[i]]
  BY <1>3, <1>4 DEF DT!Without
<1> QED  BY <1>2, <1>3, <1>4, <1>5

\* A tick brings every mapped timer one tick nearer; none of them was due.
LEMMA NearsBar ==
  ASSUME TypeOK, NEW h, Placing(h), TypeOK', NEW q, Placing(q)', Nears(h, q)
  PROVE  /\ timersBar' = [i \in DOMAIN timersBar |-> [timersBar[i] EXCEPT !.left = @ - 1]]
         /\ \A i \in DOMAIN timersBar : timersBar[i].left > 0
<1>1. timersBar = [i \in Waiting(h) |-> Row(h, i)]
  BY BarIs
<1>2. timersBar' = [i \in Waiting(q) |-> Row(q, i)']
  BY BarNext
<1>3. DOMAIN timersBar = Waiting(h) /\ \A i \in Waiting(h) : timersBar[i] = Row(h, i)
  BY <1>1
<1>4. ASSUME NEW i \in Waiting(h)
      PROVE  /\ Row(q, i)' = [timersBar[i] EXCEPT !.left = @ - 1]
             /\ timersBar[i].left > 0
  <2>1. Row(h, i).left = LeftOf(h, i)
    BY DEF Row
  <2>2. LeftOf(h, i) \in Nat \ {0} /\ Row(q, i)' = [Row(h, i) EXCEPT !.left = LeftOf(h, i) - 1]
    BY <1>4 DEF Nears
  <2>3. [timersBar[i] EXCEPT !.left = @ - 1] = [Row(h, i) EXCEPT !.left = LeftOf(h, i) - 1]
    BY <1>3, <2>1
  <2>4. timersBar[i].left = LeftOf(h, i)
    BY <1>3, <2>1
  <2> QED  BY <2>2, <2>3, <2>4
<1>5. Waiting(q) = Waiting(h)
  BY DEF Nears
<1> QED  BY <1>2, <1>3, <1>4, <1>5, Zenon

\* The wheel begins as the timers do, with none.
LEMMA InitImplements ==
  ASSUME Init
  PROVE  DT!Init
<1>1. TypeOK /\ phase = "idle" /\ \E h : Placing(h) /\ Waiting(h) = {}
  BY InitStep DEF WheelInv, Init
<1>2. PICK h : Placing(h) /\ Waiting(h) = {}
  BY <1>1
<1>3. timersBar = [i \in Waiting(h) |-> Row(h, i)]
  BY <1>1, <1>2, BarIs
<1>4. timersBar = [id \in {} |-> Null]
  BY <1>2, <1>3
<1> QED  BY <1>1, <1>4 DEF DT!Init, firingBar
\* Each operation of the wheel is the operation of the same purpose there, or none.
LEMMA StepImplements ==
  ASSUME ~DelAnywhere, WheelInv, [Next]_vars
  PROVE  [DT!Next]_(DT!vars)
<1>1. TypeOK /\ TickOK
  BY DEF WheelInv
<1>2. PICK h : Placing(h)
  BY DEF WheelInv
<1>3. phase # "loop" => (phase # "idle" <=> ticking # 0)
  BY <1>1 DEF TypeOK, TickOK
<1>4. ASSUME NEW t \in Timeouts, NEW r \in Repeats, TimerAdd(t, r)
      PROVE  \E id \in Ids : DT!Arm(id, t, r)
  <2>1. PICK q, id :
          /\ TypeOK' /\ TickOK'
          /\ id \in Ids /\ ~(phase = "callback" /\ ticking = id)
          /\ \A i \in Ids \ {id} : obj'[i] = obj[i]
          /\ Placing(q)' /\ Joins(h, q, id, t, r)
    BY <1>1, <1>2, <1>4, TimerAddStep
  <2>2. phase # "loop" /\ UNCHANGED <<ticking, phase, erased>>
    BY <1>4 DEF TimerAdd, tickVars
  <2>3. timersBar' = DT!With(id, t, r) /\ id \notin DOMAIN timersBar
    BY <1>1, <1>2, <1>3, <2>1, <2>2, JoinsBar
  <2>4. firingBar' = firingBar
    <3>1. phase = "callback" => obj'[ticking] = obj[ticking]
      BY <1>1, <2>1, FiringIs
    <3> QED  BY <2>2, <3>1 DEF firingBar
  <2>5. ~(firingBar # Null /\ firingBar.id = id)
    BY <1>1, <2>1, FiringIs
  <2> QED  BY <2>1, <2>2, <2>3, <2>4, <2>5 DEF DT!Arm, DT!Busy
<1>5. ASSUME NEW id \in Ids, TimerDel(id)
      PROVE  (id \in DOMAIN timersBar /\ DT!Cancel(id)) \/ UNCHANGED DT!vars
  <2>1. PICK q :
          /\ TypeOK' /\ TickOK'
          /\ ~(phase = "callback" /\ ticking = id)
          /\ obj' = [obj EXCEPT ![id] = Blank]
          /\ Placing(q)' /\ (Leaves(h, q, id) \/ Stays(h, q))
    BY <1>1, <1>2, <1>5, TimerDelStep
  <2>2. UNCHANGED <<ticking, phase, erased>>
    BY <1>5 DEF TimerDel, tickVars
  <2>3. firingBar' = firingBar
    <3>1. phase = "callback" => ticking \in Ids /\ ticking # id
      BY <1>1, <2>1, FiringIs
    <3>2. phase = "callback" => obj'[ticking] = obj[ticking]
      BY <1>1, <2>1, <3>1 DEF TypeOK
    <3> QED  BY <2>2, <3>2 DEF firingBar
  <2>4. CASE Leaves(h, q, id)
    <3>1. timersBar' = DT!Without(id) /\ id \in DOMAIN timersBar
      BY <1>1, <1>2, <2>1, <2>4, LeavesBar
    <3> QED  BY <2>2, <2>3, <3>1 DEF DT!Cancel
  <2>5. CASE Stays(h, q)
    <3>1. timersBar' = timersBar
      BY <1>1, <1>2, <2>1, <2>5, StaysBar
    <3> QED  BY <2>2, <2>3, <3>1 DEF DT!vars
  <2> QED  BY <2>1, <2>4, <2>5
<1>6. ASSUME TimerDelTicking PROVE DT!CancelFiring
  <2>1. TypeOK' /\ TickOK' /\ Placing(h)' /\ Stays(h, h)
    BY <1>1, <1>2, <1>6, TimerDelTickingStep
  <2>2. timersBar' = timersBar
    BY <1>1, <1>2, <2>1, StaysBar
  <2>3. /\ phase = "callback" /\ obj' = [obj EXCEPT ![ticking].repeat = 1]
        /\ UNCHANGED <<ticking, phase, erased>>
    BY <1>6 DEF TimerDelTicking, tickVars
  <2>4. /\ ticking \in Ids /\ firingBar # Null
        /\ firingBar = [id |-> ticking, timeout |-> obj[ticking].timeout,
                        last |-> erased, repeat |-> obj[ticking].repeat]
    BY <1>1, <2>3, FiringIs
  <2>5. firingBar' = [id |-> ticking, timeout |-> obj'[ticking].timeout,
                      last |-> erased, repeat |-> obj'[ticking].repeat]
    BY <2>3 DEF firingBar
  <2>6. obj'[ticking].timeout = obj[ticking].timeout /\ obj'[ticking].repeat = 1
    <3>1. obj[ticking] \in [timeout : Nat, timeleft : Nat, repeat : Nat]
      BY <1>1, <2>4 DEF TypeOK
    <3>2. obj'[ticking] = [obj[ticking] EXCEPT !.repeat = 1]
      BY <1>1, <2>3, <2>4 DEF TypeOK
    <3> QED  BY <3>1, <3>2
  <2>7. firingBar' = [firingBar EXCEPT !.repeat = 1]
    BY <2>4, <2>5, <2>6
  <2> QED  BY <2>2, <2>3, <2>4, <2>7 DEF DT!CancelFiring
<1>7. ASSUME TickBegin PROVE DT!BeginTick
  <2>1. TypeOK' /\ TickOK' /\ Placing(h)' /\ Stays(h, h)
    BY <1>1, <1>2, <1>7, TickBeginStep
  <2>2. timersBar' = timersBar
    BY <1>1, <1>2, <2>1, StaysBar
  <2>3. phase = "idle" /\ phase' = "loop"
    BY <1>7 DEF TickBegin
  <2> QED  BY <2>2, <2>3 DEF DT!BeginTick, firingBar
<1>8. ASSUME TickCall PROVE \E id \in DOMAIN timersBar : DT!Fire(id)
  <2>1. PICK q :
          /\ TypeOK' /\ TickOK'
          /\ Placing(q)' /\ Leaves(h, q, ticking')
          /\ LeftOf(h, ticking') = 0 /\ ticking' \in Ids
    BY <1>1, <1>2, <1>8, TickCallStep
  <2>2. PICK id, rep : id = ticking' /\ rep = obj[id].repeat
    OBVIOUS
  <2>3. /\ timersBar' = DT!Without(id) /\ id \in DOMAIN timersBar
        /\ timersBar[id] = Row(h, id)
    BY <1>1, <1>2, <2>1, <2>2, LeavesBar
  <2>4. /\ phase = "loop" /\ phase' = "callback" /\ erased' = (rep = 1)
        /\ obj' = [obj EXCEPT ![id].repeat = IF rep > 0 THEN rep - 1 ELSE 0]
    BY <1>8, <2>2 DEF TickCall
  <2>5. obj[id] \in [timeout : Nat, timeleft : Nat, repeat : Nat] /\ rep \in Nat
    BY <1>1, <2>1, <2>2 DEF TypeOK
  <2>6. /\ obj'[id].timeout = obj[id].timeout
        /\ obj'[id].repeat = IF rep = 0 THEN 0 ELSE rep - 1
    <3>1. obj'[id] = [obj[id] EXCEPT !.repeat = IF rep > 0 THEN rep - 1 ELSE 0]
      BY <1>1, <2>1, <2>2, <2>4 DEF TypeOK
    <3> QED  BY <2>5, <3>1
  <2>7. /\ timersBar[id].left = 0 /\ timersBar[id].timeout = obj[id].timeout
        /\ timersBar[id].repeat = rep
    BY <2>1, <2>2, <2>3 DEF Row
  <2>8. firingBar = Null
    BY <1>1, <2>4, FiringIs
  <2>9. firingBar' = [id |-> id, timeout |-> timersBar[id].timeout, last |-> rep = 1,
                      repeat |-> IF rep = 0 THEN 0 ELSE rep - 1]
    <3>1. firingBar' = [id |-> id, timeout |-> obj'[id].timeout, last |-> erased',
                        repeat |-> obj'[id].repeat]
      BY <2>2, <2>4 DEF firingBar
    <3> QED  BY <2>4, <2>6, <2>7, <3>1
  <2>10. DT!Fire(id)
    BY <2>3, <2>4, <2>7, <2>8, <2>9 DEF DT!Fire
  <2> QED  BY <2>3, <2>10
<1>9. ASSUME TickReturn PROVE DT!Return
  <2>1. PICK q :
          /\ TypeOK' /\ TickOK' /\ ticking \in Ids /\ Placing(q)'
          /\ IF erased THEN Stays(h, q)
             ELSE Joins(h, q, ticking, obj[ticking].timeout, obj[ticking].repeat)
    BY <1>1, <1>2, <1>9, TickReturnStep
  <2>2. phase = "callback" /\ phase' = "loop"
    BY <1>9 DEF TickReturn
  <2>3. /\ firingBar # Null
        /\ firingBar = [id |-> ticking, timeout |-> obj[ticking].timeout,
                        last |-> erased, repeat |-> obj[ticking].repeat]
    BY <1>1, <2>2, FiringIs
  <2>4. firingBar' = Null
    BY <2>2 DEF firingBar
  <2>5. timersBar' = IF firingBar.last THEN timersBar
                     ELSE DT!With(firingBar.id, firingBar.timeout, firingBar.repeat)
    <3>1. CASE erased
      <4>1. timersBar' = timersBar
        BY <1>1, <1>2, <2>1, <3>1, StaysBar
      <4> QED  BY <2>3, <3>1, <4>1
    <3>2. CASE ~erased
      <4>1. timersBar' = DT!With(ticking, obj[ticking].timeout, obj[ticking].repeat)
        BY <1>1, <1>2, <1>3, <2>1, <2>2, <3>2, JoinsBar
      <4>2. /\ firingBar.id = ticking /\ firingBar.timeout = obj[ticking].timeout
            /\ firingBar.repeat = obj[ticking].repeat /\ firingBar.last = erased
        BY <2>3
      <4> QED  BY <3>2, <4>1, <4>2, Zenon
    <3> QED  BY <3>1, <3>2
  <2> QED  BY <2>2, <2>3, <2>4, <2>5 DEF DT!Return
<1>10. ASSUME TickEnd PROVE DT!EndTick
  <2>1. PICK q : TypeOK' /\ TickOK' /\ Placing(q)' /\ Nears(h, q)
    BY <1>1, <1>2, <1>10, TickEndStep
  <2>2. /\ timersBar' = [i \in DOMAIN timersBar |-> [timersBar[i] EXCEPT !.left = @ - 1]]
        /\ \A i \in DOMAIN timersBar : timersBar[i].left > 0
    BY <1>1, <1>2, <2>1, NearsBar
  <2>3. phase = "loop" /\ phase' = "idle"
    BY <1>10 DEF TickEnd
  <2>4. firingBar = Null /\ firingBar' = Null
    BY <2>3 DEF firingBar
  <2> QED  BY <2>2, <2>3, <2>4 DEF DT!EndTick
<1>11. ASSUME UNCHANGED vars PROVE UNCHANGED DT!vars
  <2>1. TypeOK' /\ Placing(h)' /\ Stays(h, h)
    BY <1>1, <1>2, <1>11, StillStep
  <2>2. timersBar' = timersBar
    BY <1>1, <1>2, <2>1, StaysBar
  <2>3. firingBar' = firingBar /\ phase' = phase
    BY <1>11 DEF vars, tickVars, firingBar
  <2> QED  BY <2>2, <2>3 DEF DT!vars
<1> QED
  <2>1. CASE Next
    BY <1>4, <1>5, <1>6, <1>7, <1>8, <1>9, <1>10, <2>1 DEF Next, Tick, DT!Next
  <2> QED  BY <1>11, <2>1

\* The wheel implements the timers of timer.h: every callback comes in the very
\* call of timer_tick it is due in.
THEOREM WheelIsExact ==
  ASSUME ~DelAnywhere
  PROVE  Spec => ImplementsDeadlines
<1>1. Init => DT!Init
  BY InitImplements
<1>2. WheelInv /\ [Next]_vars => [DT!Next]_(DT!vars)
  BY StepImplements
<1>3. Spec => []WheelInv
  BY Invariance
<1> QED  BY <1>1, <1>2, <1>3, PTL DEF Spec, ImplementsDeadlines, DT!Spec

===============================================================================
