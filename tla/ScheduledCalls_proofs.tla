----------------------- MODULE ScheduledCalls_proofs -----------------------
(***************************************************************************)
(* What the functions that schedule calls do, for every set of remotes and *)
(* every number of failures and steps: the delay of a reconnection, the    *)
(* list of calls, the transitions of brightness, and what a remote that    *)
(* fails or is reconnected leaves on the list.                             *)
(***************************************************************************)
EXTENDS TimedCalls, WellFoundedInduction, TLAPS

Cap == MaxInterval \div Unit

\* The shift count is a position in the word, and what it gives is a number.
LEMMA Shift ==
  ASSUME NEW n \in Nat \ {0}
  PROVE  /\ Least(n - 1, WordBits - 1) \in 0..WordBits - 1
         /\ 2^Least(n - 1, WordBits - 1) \in Nat
<1>1. Least(n - 1, WordBits - 1) \in 0..WordBits - 1
  BY BackoffAssumption DEF Least
<1> QED  BY Zenon, <1>1, BackoffAssumption

\* The largest delay is a number of units, and fits the interval and the word.
LEMMA CapFits ==
  /\ Cap \in Nat /\ Unit \in Nat \ {0} /\ MaxInterval \in Nat
  /\ Cap * Unit <= MaxInterval /\ MaxInterval < 2^WordBits
  /\ 2^WordBits \in Nat \ {0}
<1>1. WordBits - 1 \in 0..WordBits - 1 /\ WordBits - 1 + 1 = WordBits
  BY BackoffAssumption
<1>2. 2^(WordBits - 1) \in Nat /\ 2^(WordBits - 1 + 1) = 2 * 2^(WordBits - 1)
  BY Zenon, <1>1, BackoffAssumption
<1>3. 2^WordBits \in Nat
  BY <1>1, <1>2
<1>4. /\ Unit \in Nat \ {0} /\ MaxInterval \in Nat /\ MaxInterval < 2^WordBits
      /\ 2^WordBits # 0
  BY <1>3, BackoffAssumption DEF Word
<1>5. \A a \in Nat, b \in Nat \ {0} : a \div b \in Nat /\ (a \div b) * b <= a
  OBVIOUS
<1> QED  BY Zenon, <1>3, <1>4, <1>5 DEF Cap

\* What fail_remote computes, without the word: the product does not wrap.
LEMMA DelayValue ==
  ASSUME NEW n \in Nat \ {0}
  PROVE  ReconnectDelay(n) = Least(2^Least(n - 1, WordBits - 1), Cap) * Unit
<1> DEFINE t == Least(2^Least(n - 1, WordBits - 1), Cap)
<1>1. t \in Nat /\ t <= Cap
  BY Shift, CapFits DEF Least
<1> HIDE DEF t
<1>2. \A a, b, c \in Nat : a <= b => a * c <= b * c
  OBVIOUS
<1>3. t * Unit \in Nat /\ t * Unit <= Cap * Unit
  BY <1>1, <1>2, CapFits
<1>4. t * Unit < 2^WordBits
  BY <1>3, CapFits
<1>5. (t * Unit) % 2^WordBits = t * Unit
  BY <1>3, <1>4, CapFits
<1> QED  BY Zenon, <1>5 DEF ReconnectDelay, t, Cap

\* No delay exceeds max_interval, however often the remote has failed
\* (fail_remote).
THEOREM DelayCapped ==
  \A n \in Nat \ {0} : ReconnectDelay(n) \in Nat /\ ReconnectDelay(n) <= MaxInterval
<1> TAKE n \in Nat \ {0}
<1> DEFINE t == Least(2^Least(n - 1, WordBits - 1), Cap)
<1>1. t \in Nat /\ t <= Cap
  BY Shift, CapFits DEF Least
<1>2. ReconnectDelay(n) = t * Unit
  BY Zenon, DelayValue
<1> HIDE DEF t
<1>3. \A a, b, c \in Nat : a <= b => a * c <= b * c
  OBVIOUS
<1>4. t * Unit \in Nat /\ t * Unit <= Cap * Unit
  BY <1>1, <1>3, CapFits
<1> QED  BY <1>2, <1>4, CapFits

\* The delay is a unit after the first failure and doubles with each further
\* one until it reaches the cap, where it stays: limiting the shift count to
\* the word never makes a delay shorter (fail_remote).
THEOREM DelayDoubles ==
  /\ ReconnectDelay(1) = Least(1, Cap) * Unit
  /\ \A n \in Nat \ {0} :
       ReconnectDelay(n + 1) = Least(2 * ReconnectDelay(n), Cap * Unit)
<1>1. ReconnectDelay(1) = Least(1, Cap) * Unit
  <2>1. Least(1 - 1, WordBits - 1) = 0
    BY BackoffAssumption DEF Least
  <2>2. ReconnectDelay(1) = Least(2^Least(1 - 1, WordBits - 1), Cap) * Unit
    BY DelayValue
  <2>3. 2^0 = 1
    BY Zenon, BackoffAssumption
  <2> QED  BY <2>1, <2>2, <2>3, Zenon
<1>2. ASSUME NEW n \in Nat \ {0}
      PROVE  ReconnectDelay(n + 1) = Least(2 * ReconnectDelay(n), Cap * Unit)
  <2> DEFINE a == 2^Least(n - 1, WordBits - 1)
             b == 2^Least(n + 1 - 1, WordBits - 1)
  <2>1. a \in Nat /\ b \in Nat /\ Cap \in Nat /\ Unit \in Nat
    BY Shift, CapFits
  <2>2. b = 2 * a \/ (b = a /\ a >= Cap)
    <3>1. CASE n <= WordBits - 1
      <4>1. /\ Least(n - 1, WordBits - 1) = n - 1 /\ Least(n + 1 - 1, WordBits - 1) = n
            /\ n - 1 \in 0..WordBits - 1 /\ n - 1 + 1 = n
        BY <3>1, BackoffAssumption DEF Least
      <4> QED  BY Zenon, <4>1, BackoffAssumption
    <3>2. CASE ~(n <= WordBits - 1)
      <4>1. /\ Least(n - 1, WordBits - 1) = WordBits - 1
            /\ Least(n + 1 - 1, WordBits - 1) = WordBits - 1
        BY <3>2, BackoffAssumption DEF Least
      <4>2. Cap <= 2^(WordBits - 1)
        BY Zenon, BackoffAssumption DEF Cap
      <4> QED  BY Zenon, <2>1, <4>1, <4>2
    <3> QED  BY Zenon, <3>1, <3>2
  <2>3. /\ ReconnectDelay(n) = Least(a, Cap) * Unit
        /\ ReconnectDelay(n + 1) = Least(b, Cap) * Unit
    BY DelayValue
  <2> HIDE DEF a, b
  <2>4. Least(b, Cap) = Least(2 * Least(a, Cap), Cap)
    BY <2>1, <2>2 DEF Least
  <2>5. \A u, v, w \in Nat : Least(u, v) * w = Least(u * w, v * w)
    <3>1. \A u, v, w \in Nat : u <= v => u * w <= v * w
      OBVIOUS
    <3>2. \A u, v, w \in Nat : u * w <= v * w /\ ~(u <= v) => u * w = v * w
      OBVIOUS
    <3> QED  BY <3>1, <3>2 DEF Least
  <2>6. Least(a, Cap) \in Nat /\ 2 * Least(a, Cap) \in Nat
    BY <2>1 DEF Least
  <2>7. Least(2 * Least(a, Cap), Cap) * Unit = Least(2 * Least(a, Cap) * Unit, Cap * Unit)
    BY SMTT(30), <2>1, <2>5, <2>6
  <2>8. 2 * Least(a, Cap) * Unit = 2 * (Least(a, Cap) * Unit)
    BY <2>1, <2>6
  <2> QED  BY Zenon, <2>3, <2>4, <2>7, <2>8
<1> QED  BY Zenon, <1>1, <1>2

-----------------------------------------------------------------------------
\* A set of numbers has a least one: the induction used below.
LEMMA LeastOf ==
  ASSUME NEW T \in SUBSET Nat, T # {}
  PROVE  \E x \in T : \A y \in T : x <= y
<1> DEFINE R == OpToRel(<, Nat)
<1>1. R = {ss \in Nat \X Nat : ss[1] < ss[2]}
  BY Zenon DEF OpToRel
<1>2. IsWellFoundedOn(R, Nat)
  BY NatLessThanWellFounded, Zenon
<1> HIDE DEF R
<1>3. PICK x \in T : \A y \in T : ~ (<<y, x>> \in R)
  BY <1>2, WFMin, Zenon
<1>4. ASSUME NEW y \in T, y < x PROVE FALSE
  <2>1. <<y, x>> \in R
    BY Zenon, <1>1, <1>4
  <2> QED BY <1>3, <2>1, Zenon
<1> QED BY <1>3, <1>4

\* A set of numbers up to N has a greatest one.
LEMMA GreatestOf ==
  ASSUME NEW N \in Nat, NEW T \in SUBSET (1..N), T # {}
  PROVE  \E x \in T : \A y \in T : y <= x
<1> DEFINE U == {N - t : t \in T}
<1>1. U \in SUBSET Nat /\ U # {}
  <2>1. ASSUME NEW u \in U PROVE u \in Nat
    <3>1. PICK t \in T : u = N - t
      BY Zenon
    <3>2. t \in 1..N
      BY Zenon
    <3> QED BY <3>1, <3>2
  <2>2. U # {}
    BY Zenon
  <2> QED BY Zenon, <2>1, <2>2
<1>2. PICK u \in U : \A v \in U : u <= v
  <2> HIDE DEF U
  <2> QED BY Zenon, <1>1, LeastOf
<1>3. PICK x \in T : u = N - x
  OBVIOUS
<1>4. ASSUME NEW y \in T PROVE y <= x
  <2>1. N - y \in U
    BY Zenon
  <2>2. N - x <= N - y
    BY Zenon, <1>2, <1>3, <2>1
  <2>3. x \in Int /\ y \in Int
    OBVIOUS
  <2> HIDE DEF U
  <2> QED BY <2>2, <2>3
<1> QED BY Zenon, <1>4

\* The least and the greatest number are the ones that Min and Max choose.
LEMMA MinIs ==
  ASSUME NEW N \in Nat, NEW T \in SUBSET (1..N), T # {}
  PROVE  Min(T) \in T /\ \A y \in T : Min(T) <= y
<1>1. T \in SUBSET Nat
  OBVIOUS
<1>2. \E x \in T : \A y \in T : x <= y
  BY Zenon, <1>1, LeastOf
<1> QED BY Zenon, <1>2 DEF Min

LEMMA MaxIs ==
  ASSUME NEW N \in Nat, NEW T \in SUBSET (1..N), NEW x \in T, \A y \in T : y <= x
  PROVE  Max(T) = x
<1>1. x \in T /\ \A y \in T : x >= y
  BY Zenon
<1>2. Max(T) \in T /\ \A y \in T : Max(T) >= y
  BY Zenon, <1>1 DEF Max
<1>3. Max(T) >= x /\ x >= Max(T)
  BY Zenon, <1>1, <1>2
<1>4. Max(T) \in 1..N /\ x \in 1..N
  BY Zenon, <1>2
<1> HIDE DEF Max
<1> QED BY <1>3, <1>4

-----------------------------------------------------------------------------
\* The list l with c inserted at k.
Inserted(new, l, k, c) ==
  /\ k \in 1..Len(l) + 1
  /\ Len(new) = Len(l) + 1
  /\ new[k] = c
  /\ \A i \in 1..Len(l) : IF i < k THEN new[i] = l[i] ELSE new[i + 1] = l[i]

\* The list l with the k-th element removed.
Dropped(new, l, k) ==
  /\ k \in 1..Len(l)
  /\ Len(new) = Len(l) - 1
  /\ \A i \in 1..Len(l) - 1 : new[i] = IF i < k THEN l[i] ELSE l[i + 1]

\* What SubSeq, \\o and Append are, in the form in which it is used below.
LEMMA SubSeqIs ==
  ASSUME NEW S, NEW l \in Seq(S), NEW m \in 1..Len(l) + 1, NEW n \in 0..Len(l)
  PROVE  /\ SubSeq(l, m, n) \in Seq(S)
         /\ Len(SubSeq(l, m, n)) = IF m <= n THEN n - m + 1 ELSE 0
         /\ \A i \in 1..n - m + 1 : SubSeq(l, m, n)[i] = l[m + i - 1]
  OBVIOUS

LEMMA ConcatIs ==
  ASSUME NEW S, NEW a \in Seq(S), NEW b \in Seq(S)
  PROVE  /\ a \o b \in Seq(S) /\ Len(a \o b) = Len(a) + Len(b)
         /\ \A i \in 1..Len(a) + Len(b) :
              (a \o b)[i] = IF i <= Len(a) THEN a[i] ELSE b[i - Len(a)]
  OBVIOUS

LEMMA AppendIs ==
  ASSUME NEW S, NEW l \in Seq(S), NEW c \in S
  PROVE  /\ Append(l, c) \in Seq(S) /\ Len(Append(l, c)) = Len(l) + 1
         /\ Append(l, c)[Len(l) + 1] = c
         /\ \A i \in 1..Len(l) : Append(l, c)[i] = l[i]
  OBVIOUS

LEMMA LinkAtIs ==
  ASSUME NEW S, NEW l \in Seq(S), NEW c \in S, NEW k \in 1..Len(l)
  PROVE  LinkAt(l, k, c) \in Seq(S) /\ Inserted(LinkAt(l, k, c), l, k, c)
<1> DEFINE a == SubSeq(l, 1, k - 1)
           e == <<c>>
           b == SubSeq(l, k, Len(l))
           d == a \o e
           new == d \o b
<1>1. Len(l) \in Nat /\ k \in Int /\ k - 1 \in Int /\ \A i \in 1..Len(l) : l[i] \in S
  OBVIOUS
<1>2. /\ a \in Seq(S) /\ Len(a) = k - 1
      /\ \A i \in 1..k - 1 : a[i] = l[i]
  <2>1. /\ a \in Seq(S)
        /\ Len(a) = IF 1 <= k - 1 THEN k - 1 - 1 + 1 ELSE 0
        /\ \A i \in 1..k - 1 - 1 + 1 : a[i] = l[1 + i - 1]
    <3>1. 1 \in 1..Len(l) + 1 /\ k - 1 \in 0..Len(l)
      BY <1>1
    <3> QED BY Zenon, <3>1, SubSeqIs
  <2> HIDE DEF a
  <2>2. Len(a) = k - 1
    BY <1>1, <2>1
  <2>3. ASSUME NEW i \in 1..k - 1 PROVE a[i] = l[i]
    <3>1. i \in 1..k - 1 - 1 + 1 /\ 1 + i - 1 = i
      BY <1>1
    <3> QED BY Zenon, <2>1, <3>1
  <2> QED BY Zenon, <2>1, <2>2, <2>3
<1>3. /\ b \in Seq(S) /\ Len(b) = Len(l) - k + 1
      /\ \A i \in 1..Len(l) - k + 1 : b[i] = l[k + i - 1]
  <2>1. k \in 1..Len(l) + 1 /\ Len(l) \in 0..Len(l)
    BY <1>1
  <2>2. /\ b \in Seq(S)
        /\ Len(b) = IF k <= Len(l) THEN Len(l) - k + 1 ELSE 0
        /\ \A i \in 1..Len(l) - k + 1 : b[i] = l[k + i - 1]
    BY Zenon, <2>1, SubSeqIs
  <2> QED BY SMTT(30), <1>1, <2>2
<1>4. e \in Seq(S) /\ Len(e) = 1 /\ e[1] = c
  OBVIOUS
<1>5. LinkAt(l, k, c) = new
  BY Zenon DEF LinkAt
<1> HIDE DEF a, b, e
<1>6. /\ d \in Seq(S) /\ Len(d) = Len(a) + Len(e)
      /\ \A i \in 1..Len(a) + Len(e) : d[i] = IF i <= Len(a) THEN a[i] ELSE e[i - Len(a)]
  BY Zenon, <1>2, <1>3, <1>4, ConcatIs
<1>7. Len(d) = k
  BY <1>1, <1>2, <1>4, <1>6
<1>8. d[k] = c
  <2>1. k \in 1..Len(a) + Len(e) /\ ~(k <= Len(a)) /\ k - Len(a) = 1
    BY <1>1, <1>2, <1>4
  <2> QED BY Zenon, <1>4, <1>6, <2>1
<1>9. \A i \in 1..k - 1 : d[i] = l[i]
  <2> SUFFICES ASSUME NEW i \in 1..k - 1 PROVE d[i] = l[i]
    BY Zenon
  <2>1. i \in 1..Len(a) + Len(e) /\ i <= Len(a)
    BY <1>1, <1>2, <1>4
  <2> QED BY Zenon, <1>2, <1>6, <2>1
<1> HIDE DEF d
<1>q. d \in Seq(S) /\ b \in Seq(S)
  BY Zenon, <1>3, <1>6
<1>10. /\ new \in Seq(S) /\ Len(new) = Len(d) + Len(b)
       /\ \A i \in 1..Len(d) + Len(b) : new[i] = IF i <= Len(d) THEN d[i] ELSE b[i - Len(d)]
  BY Zenon, <1>q, ConcatIs
<1> HIDE DEF new
<1>11. Len(new) = Len(l) + 1
  BY <1>1, <1>3, <1>7, <1>10
<1>12. new[k] = c
  <2>1. k \in 1..Len(d) + Len(b) /\ k <= Len(d)
    BY <1>1, <1>3, <1>7
  <2> QED BY Zenon, <1>8, <1>10, <2>1
<1>13. ASSUME NEW i \in 1..Len(l), i < k PROVE new[i] = l[i]
  <2>1. i \in 1..Len(d) + Len(b) /\ i <= Len(d) /\ i \in 1..k - 1
    BY <1>1, <1>3, <1>7, <1>13
  <2> QED BY Zenon, <1>9, <1>10, <2>1
<1>14. ASSUME NEW i \in 1..Len(l), ~(i < k) PROVE new[i + 1] = l[i]
  <2>1. /\ i + 1 \in 1..Len(d) + Len(b) /\ ~(i + 1 <= Len(d)) /\ i + 1 - Len(d) = i - k + 1
        /\ i - k + 1 \in 1..Len(l) - k + 1 /\ k + (i - k + 1) - 1 = i
    BY <1>1, <1>3, <1>7, <1>14
  <2>2. new[i + 1] = b[i - k + 1]
    BY <1>10, <2>1
  <2>3. b[i - k + 1] = l[i]
    BY Zenon, <1>3, <2>1
  <2> QED BY Zenon, <2>2, <2>3
<1> QED BY <1>5, <1>10, <1>11, <1>12, <1>13, <1>14 DEF Inserted

LEMMA UnlinkAtIs ==
  ASSUME NEW S, NEW l \in Seq(S), NEW k \in 1..Len(l)
  PROVE  UnlinkAt(l, k) \in Seq(S) /\ Dropped(UnlinkAt(l, k), l, k)
<1> DEFINE a == SubSeq(l, 1, k - 1)
           b == SubSeq(l, k + 1, Len(l))
           new == a \o b
<1>1. Len(l) \in Nat /\ k \in Int /\ k - 1 \in Int /\ k + 1 \in Int /\ 1 <= k /\ k <= Len(l)
  OBVIOUS
<1>2. \A i \in 1..Len(l) : l[i] \in S
  OBVIOUS
<1>3. /\ a \in Seq(S)
      /\ Len(a) = IF 1 <= k - 1 THEN k - 1 - 1 + 1 ELSE 0
      /\ \A i \in 1..k - 1 - 1 + 1 : a[i] = l[1 + i - 1]
  <2>1. 1 \in 1..Len(l) + 1 /\ k - 1 \in 0..Len(l)
    BY <1>1
  <2> QED BY Zenon, <2>1, SubSeqIs
<1>4. /\ b \in Seq(S)
      /\ Len(b) = IF k + 1 <= Len(l) THEN Len(l) - (k + 1) + 1 ELSE 0
      /\ \A i \in 1..Len(l) - (k + 1) + 1 : b[i] = l[k + 1 + i - 1]
  <2>1. k + 1 \in 1..Len(l) + 1 /\ Len(l) \in 0..Len(l)
    BY <1>1
  <2> QED BY Zenon, <2>1, SubSeqIs
<1>5. UnlinkAt(l, k) = new
  BY Zenon DEF UnlinkAt
<1> HIDE DEF a, b
<1>6. Len(a) = k - 1 /\ Len(b) = Len(l) - k
  BY <1>1, <1>3, <1>4
<1>7. a \in Seq(S) /\ b \in Seq(S)
  BY Zenon, <1>3, <1>4
<1>8. /\ new \in Seq(S) /\ Len(new) = Len(a) + Len(b)
      /\ \A i \in 1..Len(a) + Len(b) : new[i] = IF i <= Len(a) THEN a[i] ELSE b[i - Len(a)]
  BY Zenon, <1>7, ConcatIs
<1> HIDE DEF new
<1>9. Len(new) = Len(l) - 1
  BY <1>1, <1>6, <1>8
<1>10. ASSUME NEW i \in 1..Len(l) - 1, i < k PROVE new[i] = l[i]
  <2>1. i \in 1..Len(a) + Len(b) /\ i <= Len(a) /\ i \in 1..k - 1 - 1 + 1 /\ 1 + i - 1 = i
    BY <1>1, <1>6, <1>10
  <2> QED BY Zenon, <1>3, <1>8, <2>1
<1>11. ASSUME NEW i \in 1..Len(l) - 1, ~(i < k) PROVE new[i] = l[i + 1]
  <2>1. /\ i \in 1..Len(a) + Len(b) /\ ~(i <= Len(a))
        /\ i - Len(a) \in 1..Len(l) - (k + 1) + 1 /\ k + 1 + (i - Len(a)) - 1 = i + 1
    BY <1>1, <1>6, <1>11
  <2>2. new[i] = b[i - Len(a)]
    BY Zenon, <1>8, <2>1
  <2>3. b[i - Len(a)] = l[i + 1]
    BY Zenon, <1>4, <2>1
  <2> QED BY Zenon, <2>2, <2>3
<1> QED BY Zenon, <1>5, <1>8, <1>9, <1>10, <1>11 DEF Dropped

LEMMA TailIs ==
  ASSUME NEW S, NEW l \in Seq(S), l # <<>>
  PROVE  Tail(l) \in Seq(S) /\ Dropped(Tail(l), l, 1) /\ Head(l) = l[1] /\ l[1] \in S
<1>1. Len(l) \in Nat \ {0} /\ Len(Tail(l)) = Len(l) - 1
  OBVIOUS
<1>2. Tail(l) \in Seq(S) /\ \A i \in 1..Len(Tail(l)) : Tail(l)[i] = l[i + 1]
  OBVIOUS
<1>3. Head(l) = l[1] /\ l[1] \in S
  BY <1>1
<1> QED BY <1>1, <1>2, <1>3 DEF Dropped

-----------------------------------------------------------------------------
\* c is a step of a transition of node n.
IsStep(c, n) == c.fn = "brightness" /\ c.arg.node = n

\* The list is sorted by calltime, and by age where the times are equal.
Ordered(list) ==
  \A i, j \in 1..Len(list) : i < j => Before(list[i], list[j]) /\ list[i].id # list[j].id

\* What scheduled_calls always is: the serial numbers are below the next one,
\* and no step of a transition is due after the limit.
Listed(list, serial, limit) ==
  /\ list \in Seq(Scheduled)
  /\ Ordered(list)
  /\ \A i \in 1..Len(list) :
       /\ list[i].id < serial
       /\ list[i].fn = "brightness" => list[i].time <= limit

\* The level that the pending steps of n lead to, from rest.
Final(list, n, rest) ==
  LET steps == {i \in 1..Len(list) : IsStep(list[i], n)}
  IN IF steps # {} THEN list[Max(steps)].arg.level ELSE rest

LEMMA CallType ==
  ASSUME NEW c \in Scheduled
  PROVE  /\ c.id \in Nat /\ c.time \in Int /\ c.fn \in {"brightness", "reconnect"}
         /\ c.fn = "brightness" => c.arg.node \in Nodes /\ c.arg.level \in Int
         /\ c.fn = "reconnect" => c.arg.node \in Remotes
BY Zenon DEF Scheduled

\* The last pending step decides.
LEMMA FinalIs ==
  ASSUME NEW l, Len(l) \in Nat, NEW n, NEW rest, NEW k \in 1..Len(l), IsStep(l[k], n),
         \A i \in 1..Len(l) : k < i => ~IsStep(l[i], n)
  PROVE  Final(l, n, rest) = l[k].arg.level
<1> DEFINE T == {i \in 1..Len(l) : IsStep(l[i], n)}
<1>1. T \in SUBSET (1..Len(l)) /\ k \in T /\ T # {}
  BY Zenon
<1>2. \A y \in T : y <= k
  OBVIOUS
<1>3. Final(l, n, rest) = l[Max(T)].arg.level
  BY Zenon, <1>1 DEF Final
<1> HIDE DEF T
<1>4. Max(T) = k
  BY Zenon, <1>1, <1>2, MaxIs
<1> QED BY Zenon, <1>3, <1>4

LEMMA FinalNone ==
  ASSUME NEW l, NEW n, NEW rest, \A i \in 1..Len(l) : ~IsStep(l[i], n)
  PROVE  Final(l, n, rest) = rest
BY Zenon DEF Final

LEMMA LastStep ==
  ASSUME NEW l, Len(l) \in Nat, NEW n, NEW j \in 1..Len(l), IsStep(l[j], n)
  PROVE  \E k \in 1..Len(l) : IsStep(l[k], n) /\ \A i \in 1..Len(l) : k < i => ~IsStep(l[i], n)
<1> DEFINE T == {i \in 1..Len(l) : IsStep(l[i], n)}
<1>1. T \in SUBSET (1..Len(l)) /\ T # {}
  BY Zenon
<1>2. PICK k \in T : \A y \in T : y <= k
  <2> HIDE DEF T
  <2> QED BY Zenon, <1>1, GreatestOf
<1>3. k \in 1..Len(l) /\ IsStep(l[k], n)
  BY Zenon
<1>4. ASSUME NEW i \in 1..Len(l), k < i, IsStep(l[i], n) PROVE FALSE
  <2>1. i \in T
    BY Zenon, <1>4
  <2>2. i <= k
    BY Zenon, <1>2, <2>1
  <2> QED BY <1>3, <1>4, <2>2
<1> QED BY Zenon, <1>3, <1>4

\* An insertion that is no step of n leaves its final level alone.
LEMMA InsertedOther ==
  ASSUME NEW l, Len(l) \in Nat, NEW new, NEW k, NEW c, Inserted(new, l, k, c),
         NEW n, ~IsStep(c, n), NEW rest
  PROVE  Final(new, n, rest) = Final(l, n, rest)
<1> DEFINE up(i) == IF i < k THEN i ELSE i + 1
<1>1. /\ k \in 1..Len(l) + 1 /\ Len(new) = Len(l) + 1 /\ Len(new) \in Nat /\ new[k] = c
      /\ \A i \in 1..Len(l) : up(i) \in 1..Len(new) /\ new[up(i)] = l[i]
  BY DEF Inserted
<1>2. ASSUME NEW j \in 1..Len(new), IsStep(new[j], n)
      PROVE  \E i \in 1..Len(l) : j = up(i)
  <2>1. j # k
    BY Zenon, <1>1, <1>2
  <2>2. CASE j < k
    BY <1>1, <2>2
  <2>3. CASE j > k
    <3>1. j - 1 \in 1..Len(l) /\ up(j - 1) = j
      BY <1>1, <2>3
    <3> QED BY Zenon, <3>1
  <2> QED BY <1>1, <2>1, <2>2, <2>3
<1>3. CASE \A i \in 1..Len(l) : ~IsStep(l[i], n)
  <2>1. ASSUME NEW j \in 1..Len(new), IsStep(new[j], n) PROVE FALSE
    <3>1. PICK i \in 1..Len(l) : j = up(i)
      BY Zenon, <1>2, <2>1
    <3>2. new[j] = l[i]
      BY Zenon, <1>1, <3>1
    <3> QED BY Zenon, <1>3, <2>1, <3>2
  <2> QED BY Zenon, <1>3, <2>1, FinalNone
<1>4. CASE \E i \in 1..Len(l) : IsStep(l[i], n)
  <2>1. PICK m \in 1..Len(l) : IsStep(l[m], n) /\ \A i \in 1..Len(l) : m < i => ~IsStep(l[i], n)
    BY Zenon, <1>4, LastStep
  <2>2. up(m) \in 1..Len(new) /\ new[up(m)] = l[m]
    BY Zenon, <1>1
  <2>3. ASSUME NEW j \in 1..Len(new), up(m) < j, IsStep(new[j], n) PROVE FALSE
    <3>1. PICK i \in 1..Len(l) : j = up(i)
      BY Zenon, <1>2, <2>3
    <3>2. new[j] = l[i]
      BY Zenon, <1>1, <3>1
    <3>3. m < i
      BY <1>1, <2>3, <3>1
    <3> QED BY Zenon, <2>1, <2>3, <3>2, <3>3
  <2>q. /\ Len(new) \in Nat /\ up(m) \in 1..Len(new) /\ IsStep(new[up(m)], n)
        /\ \A j \in 1..Len(new) : up(m) < j => ~IsStep(new[j], n)
    BY Zenon, <1>1, <2>1, <2>2, <2>3
  <2> HIDE DEF up
  <2>4. Final(new, n, rest) = new[up(m)].arg.level
    BY Zenon, <2>q, FinalIs
  <2>5. Final(l, n, rest) = l[m].arg.level
    BY Zenon, <2>1, FinalIs
  <2> QED BY Zenon, <2>2, <2>4, <2>5
<1> QED BY Zenon, <1>3, <1>4

\* A step that is inserted behind the others of its node decides.
LEMMA InsertedLast ==
  ASSUME NEW l, Len(l) \in Nat, NEW new, NEW k, NEW c, Inserted(new, l, k, c),
         NEW n, IsStep(c, n), NEW rest, \A i \in 1..Len(l) : i >= k => ~IsStep(l[i], n)
  PROVE  Final(new, n, rest) = c.arg.level
<1>1. /\ k \in 1..Len(l) + 1 /\ Len(new) = Len(l) + 1 /\ Len(new) \in Nat /\ new[k] = c
      /\ \A i \in 1..Len(l) : i >= k => new[i + 1] = l[i]
  BY DEF Inserted
<1>2. ASSUME NEW j \in 1..Len(new), k < j, IsStep(new[j], n) PROVE FALSE
  <2>1. j - 1 \in 1..Len(l) /\ j - 1 >= k /\ j - 1 + 1 = j
    BY <1>1, <1>2
  <2>2. new[j] = l[j - 1]
    BY Zenon, <1>1, <2>1
  <2> QED BY Zenon, <1>2, <2>1, <2>2
<1>3. k \in 1..Len(new) /\ Len(new) \in Nat /\ IsStep(new[k], n)
  BY Zenon, <1>1
<1>4. \A j \in 1..Len(new) : k < j => ~IsStep(new[j], n)
  BY Zenon, <1>2
<1>5. Final(new, n, rest) = new[k].arg.level
  BY Zenon, <1>3, <1>4, FinalIs
<1> QED BY Zenon, <1>1, <1>5

\* So does the removal of a call that is no step of n.
LEMMA DroppedOther ==
  ASSUME NEW l, Len(l) \in Nat, NEW new, NEW k, Dropped(new, l, k),
         NEW n, ~IsStep(l[k], n), NEW rest
  PROVE  Final(new, n, rest) = Final(l, n, rest)
<1> DEFINE up(i) == IF i < k THEN i ELSE i + 1
<1>1. /\ k \in 1..Len(l) /\ Len(new) = Len(l) - 1 /\ Len(new) \in Nat
      /\ \A i \in 1..Len(new) : up(i) \in 1..Len(l) /\ new[i] = l[up(i)]
  BY DEF Dropped
<1>2. ASSUME NEW j \in 1..Len(l), j # k PROVE \E i \in 1..Len(new) : j = up(i)
  <2>1. CASE j < k
    <3>1. j \in 1..Len(new) /\ up(j) = j
      BY <1>1, <2>1
    <3> QED BY Zenon, <3>1
  <2>2. CASE j > k
    <3>1. j - 1 \in 1..Len(new) /\ up(j - 1) = j
      BY <1>1, <2>2
    <3> QED BY Zenon, <3>1
  <2> QED BY <1>1, <1>2, <2>1, <2>2
<1>3. CASE \A i \in 1..Len(l) : ~IsStep(l[i], n)
  <2>1. \A i \in 1..Len(new) : ~IsStep(new[i], n)
    BY Zenon, <1>1, <1>3
  <2> QED BY Zenon, <1>3, <2>1, FinalNone
<1>4. CASE \E i \in 1..Len(l) : IsStep(l[i], n)
  <2>1. PICK m \in 1..Len(l) : IsStep(l[m], n) /\ \A i \in 1..Len(l) : m < i => ~IsStep(l[i], n)
    BY Zenon, <1>4, LastStep
  <2>2. m # k
    BY Zenon, <2>1
  <2>3. PICK i \in 1..Len(new) : m = up(i)
    BY Zenon, <1>2, <2>2
  <2>4. new[i] = l[m]
    BY Zenon, <1>1, <2>3
  <2>5. ASSUME NEW j \in 1..Len(new), i < j, IsStep(new[j], n) PROVE FALSE
    <3>1. up(j) \in 1..Len(l) /\ new[j] = l[up(j)]
      BY Zenon, <1>1
    <3>2. m < up(j)
      BY <1>1, <2>3, <2>5
    <3> HIDE DEF up
    <3> QED BY Zenon, <2>1, <2>5, <3>1, <3>2
  <2>6. /\ Len(new) \in Nat /\ IsStep(new[i], n)
        /\ \A j \in 1..Len(new) : i < j => ~IsStep(new[j], n)
    BY Zenon, <1>1, <2>1, <2>4, <2>5
  <2> HIDE DEF up
  <2>7. Final(new, n, rest) = new[i].arg.level
    BY Zenon, <2>6, FinalIs
  <2>8. Final(l, n, rest) = l[m].arg.level
    BY Zenon, <2>1, FinalIs
  <2> QED BY Zenon, <2>4, <2>7, <2>8
<1> QED BY Zenon, <1>3, <1>4

\* The first call is taken off and runs: what it shows is where the others of
\* its node go on from.
LEMMA DroppedFirst ==
  ASSUME NEW l, Len(l) \in Nat, NEW new, Dropped(new, l, 1),
         NEW n, IsStep(l[1], n), NEW rest
  PROVE  Final(new, n, l[1].arg.level) = Final(l, n, rest)
<1>1. /\ 1 \in 1..Len(l) /\ Len(new) = Len(l) - 1 /\ Len(new) \in Nat
      /\ \A i \in 1..Len(new) : i + 1 \in 1..Len(l) /\ new[i] = l[i + 1]
  BY DEF Dropped
<1>2. PICK m \in 1..Len(l) : IsStep(l[m], n) /\ \A i \in 1..Len(l) : m < i => ~IsStep(l[i], n)
  BY Zenon, <1>1, LastStep
<1>3. Final(l, n, rest) = l[m].arg.level
  BY Zenon, <1>2, FinalIs
<1>4. CASE m = 1
  <2>1. ASSUME NEW i \in 1..Len(new) PROVE ~IsStep(new[i], n)
    BY SMTT(30), <1>1, <1>2, <1>4
  <2> QED BY Zenon, <1>3, <1>4, <2>1, FinalNone
<1>5. CASE m # 1
  <2>1. m - 1 \in 1..Len(new) /\ m - 1 + 1 = m
    BY <1>1, <1>5
  <2>2. new[m - 1] = l[m]
    BY Zenon, <1>1, <2>1
  <2>3. ASSUME NEW j \in 1..Len(new), m - 1 < j PROVE ~IsStep(new[j], n)
    <3>1. m < j + 1 /\ j + 1 \in 1..Len(l) /\ new[j] = l[j + 1]
      BY <1>1, <2>3
    <3> QED BY Zenon, <1>2, <3>1
  <2>4. Len(new) \in Nat /\ IsStep(new[m - 1], n)
    BY Zenon, <1>1, <1>2, <2>2
  <2>5. Final(new, n, l[1].arg.level) = new[m - 1].arg.level
    BY Zenon, <2>1, <2>3, <2>4, FinalIs
  <2> QED BY Zenon, <1>3, <2>2, <2>5
<1> QED BY Zenon, <1>4, <1>5

-----------------------------------------------------------------------------
\* Where schedule_call puts a call.
LEMMA InsertIs ==
  ASSUME NEW l \in Seq(Scheduled), Ordered(l), NEW c \in Scheduled
  PROVE  /\ Insert(l, c) \in Seq(Scheduled)
         /\ \E k : /\ Inserted(Insert(l, c), l, k, c)
                  /\ \A i \in 1..Len(l) : IF i < k THEN l[i].time <= c.time
                                                   ELSE c.time < l[i].time
<1> DEFINE later == {i \in DOMAIN l : c.time < l[i].time}
<1>1. /\ Len(l) \in Nat /\ DOMAIN l = 1..Len(l) /\ \A i \in 1..Len(l) : l[i] \in Scheduled
  OBVIOUS
<1>2. c.time \in Int /\ \A i \in 1..Len(l) : l[i].time \in Int
  BY Zenon, <1>1, CallType
<1>3. CASE later = {}
  <2>1. Insert(l, c) = Append(l, c)
    BY Zenon, <1>3 DEF Insert
  <2> DEFINE new == Append(l, c)
  <2>2. /\ new \in Seq(Scheduled) /\ Len(new) = Len(l) + 1 /\ new[Len(l) + 1] = c
        /\ \A i \in 1..Len(l) : new[i] = l[i]
    BY AppendIs
  <2>3. Inserted(new, l, Len(l) + 1, c)
    <3> HIDE DEF new, later
    <3> QED BY <1>1, <2>2 DEF Inserted
  <2>4. \A i \in 1..Len(l) : i < Len(l) + 1 /\ l[i].time <= c.time
    BY <1>1, <1>2, <1>3
  <2> HIDE DEF new, later
  <2> QED BY Zenon, <2>1, <2>2, <2>3, <2>4 DEF new
<1>4. CASE later # {}
  <2> DEFINE k == Min(later)
             new == LinkAt(l, k, c)
  <2>1. Insert(l, c) = new
    BY Zenon, <1>4 DEF Insert
  <2>2. later \in SUBSET (1..Len(l))
    BY Zenon, <1>1
  <2>3. k \in later /\ \A y \in later : k <= y
    <3> HIDE DEF later
    <3> QED BY Zenon, <1>1, <1>4, <2>2, MinIs
  <2>4. k \in 1..Len(l) /\ c.time < l[k].time
    BY Zenon, <2>2, <2>3
  <2>5. \A i \in 1..Len(l) : i < k => l[i].time <= c.time
    <3>1. \A i \in 1..Len(l) : i < k => i \notin later
      <4> HIDE DEF later
      <4> QED BY <2>3, <2>4
    <3> HIDE DEF k
    <3> QED BY <1>1, <1>2, <3>1
  <2> HIDE DEF k, later
  <2>6. new \in Seq(Scheduled) /\ Inserted(new, l, k, c)
    BY Zenon, <2>4, LinkAtIs
  <2>7. ASSUME NEW i \in 1..Len(l), ~(i < k) PROVE c.time < l[i].time
    <3>1. CASE i = k
      BY Zenon, <2>4, <3>1
    <3>2. CASE k < i
      <4>1. Before(l[k], l[i])
        BY Zenon, <2>4, <3>2 DEF Ordered
      <4> QED BY <1>2, <2>4, <4>1 DEF Before
    <3> QED BY <2>4, <2>7, <3>1, <3>2
  <2> HIDE DEF new
  <2> QED BY Zenon, <2>1, <2>5, <2>6, <2>7
<1> QED BY Zenon, <1>3, <1>4

\* schedule_call keeps the list in order.
LEMMA InsertListed ==
  ASSUME NEW l, NEW serial \in Nat, NEW limit \in Int, Listed(l, serial, limit),
         NEW c \in Scheduled, c.id = serial, c.fn = "brightness" => c.time <= limit
  PROVE  Listed(Insert(l, c), serial + 1, limit)
<1> DEFINE new == Insert(l, c)
<1>1. l \in Seq(Scheduled) /\ Ordered(l)
  BY Zenon DEF Listed
<1>2. new \in Seq(Scheduled)
  BY Zenon, <1>1, InsertIs
<1>3. PICK k : /\ Inserted(new, l, k, c)
               /\ \A i \in 1..Len(l) : IF i < k THEN l[i].time <= c.time ELSE c.time < l[i].time
  BY Zenon, <1>1, InsertIs
<1> HIDE DEF new
<1>4. /\ Len(l) \in Nat /\ c.time \in Int /\ c.id \in Nat
      /\ \A i \in 1..Len(l) : l[i].time \in Int /\ l[i].id \in Nat /\ l[i].id < serial
  <2>1. \A i \in 1..Len(l) : l[i] \in Scheduled
    BY <1>1
  <2> QED BY <1>1, <2>1, CallType DEF Listed
<1> DEFINE down(j) == IF j < k THEN j ELSE j - 1
<1>5. /\ k \in 1..Len(l) + 1 /\ Len(new) = Len(l) + 1 /\ new[k] = c
      /\ \A i \in 1..Len(l) : IF i < k THEN new[i] = l[i] ELSE new[i + 1] = l[i]
  BY Zenon, <1>3 DEF Inserted
<1>6. ASSUME NEW j \in 1..Len(new), j # k PROVE down(j) \in 1..Len(l) /\ new[j] = l[down(j)]
  <2>1. CASE j < k
    BY <1>4, <1>5, <2>1
  <2>2. CASE j > k
    <3>1. j - 1 \in 1..Len(l) /\ ~(j - 1 < k) /\ j - 1 + 1 = j
      BY <1>4, <1>5, <2>2
    <3> QED BY <1>5, <2>2, <3>1
  <2> QED BY <1>4, <1>5, <1>6, <2>1, <2>2
<1>7. ASSUME NEW i \in 1..Len(new), NEW j \in 1..Len(new), i < j
      PROVE  Before(new[i], new[j]) /\ new[i].id # new[j].id
  <2>1. CASE i # k /\ j # k
    <3>1. down(i) < down(j) /\ down(i) \in 1..Len(l) /\ down(j) \in 1..Len(l)
      BY <1>5, <1>6, <1>7, <2>1
    <3>2. new[i] = l[down(i)] /\ new[j] = l[down(j)]
      BY Zenon, <1>6, <2>1
    <3> HIDE DEF down
    <3> QED BY Zenon, <1>1, <3>1, <3>2 DEF Ordered
  <2>2. CASE i = k
    <3>1. j # k /\ ~(j < k) /\ down(j) \in 1..Len(l) /\ new[j] = l[down(j)] /\ ~(down(j) < k)
      BY <1>5, <1>6, <1>7, <2>2
    <3> HIDE DEF down
    <3>2. c.time < l[down(j)].time /\ l[down(j)].id < serial
      BY Zenon, <1>3, <1>4, <3>1
    <3> QED BY <1>4, <1>5, <2>2, <3>1, <3>2 DEF Before
  <2>3. CASE j = k
    <3>1. i # k /\ i < k /\ down(i) \in 1..Len(l) /\ new[i] = l[down(i)] /\ down(i) < k
      BY <1>5, <1>6, <1>7, <2>3
    <3> HIDE DEF down
    <3>2. /\ l[down(i)].time <= c.time /\ l[down(i)].id < serial
          /\ l[down(i)].time \in Int /\ l[down(i)].id \in Nat
      BY Zenon, <1>3, <1>4, <3>1
    <3> QED BY SMTT(30), <1>4, <1>5, <2>3, <3>1, <3>2 DEF Before
  <2> QED BY Zenon, <2>1, <2>2, <2>3
<1>8. ASSUME NEW j \in 1..Len(new)
      PROVE  new[j].id < serial + 1 /\ (new[j].fn = "brightness" => new[j].time <= limit)
  <2>1. CASE j = k
    BY <1>5, <2>1
  <2>2. CASE j # k
    <3>1. down(j) \in 1..Len(l) /\ new[j] = l[down(j)]
      BY Zenon, <1>6, <2>2
    <3> HIDE DEF down
    <3>2. l[down(j)].id \in Nat /\ l[down(j)].id < serial
      BY Zenon, <1>4, <3>1
    <3>3. l[down(j)].fn = "brightness" => l[down(j)].time <= limit
      BY Zenon, <3>1 DEF Listed
    <3> QED BY <3>1, <3>2, <3>3
  <2> QED BY Zenon, <2>1, <2>2
<1> QED BY Zenon, <1>2, <1>7, <1>8 DEF Listed, Ordered, new

\* So does taking a call off it.
LEMMA DroppedListed ==
  ASSUME NEW l, NEW serial, NEW limit, Listed(l, serial, limit),
         NEW new \in Seq(Scheduled), NEW k, Dropped(new, l, k)
  PROVE  Listed(new, serial, limit)
<1> DEFINE up(i) == IF i < k THEN i ELSE i + 1
<1>1. Len(l) \in Nat
  BY DEF Listed
<1>2. /\ k \in 1..Len(l) /\ Len(new) = Len(l) - 1
      /\ \A i \in 1..Len(new) : up(i) \in 1..Len(l) /\ new[i] = l[up(i)]
  BY <1>1 DEF Dropped
<1>3. ASSUME NEW i \in 1..Len(new), NEW j \in 1..Len(new), i < j PROVE up(i) < up(j)
  BY <1>1, <1>2, <1>3
<1> HIDE DEF up
<1>4. Ordered(new)
  BY <1>2, <1>3 DEF Listed, Ordered
<1> QED BY Zenon, <1>2, <1>4 DEF Listed

-----------------------------------------------------------------------------
Proc == [focused   : Nodes,
         waiting   : Seq(Nodes),
         conn      : [Remotes -> {"SETTINGUP", "CONNECTED", "FAILED", "PERMFAILED"}],
         failcount : [Remotes -> Nat],
         timer     : [Remotes -> Nat \cup {NULL}],
         shown     : [Nodes -> Int],
         serial    : Nat]

States == [p : Proc, calls : Seq(Scheduled)]

\* A pending reconnection is that of a failed remote, and the one that the
\* remote knows; what a remote knows is no step of a transition.
TimersOK(list, q) ==
  /\ \A r \in Remotes : q.timer[r] # NULL => q.timer[r] < q.serial
  /\ \A i \in 1..Len(list) : list[i].fn = "reconnect" =>
       q.conn[list[i].arg.node] = "FAILED" /\ q.timer[list[i].arg.node] = list[i].id
  /\ \A i \in 1..Len(list), r \in Remotes : list[i].id = q.timer[r] => list[i].fn = "reconnect"

Good(s, limit) ==
  s \in States /\ Listed(s.calls, s.p.serial, limit) /\ TimersOK(s.calls, s.p)

\* All but the levels and the serial number is the same.
SameNodes(s, z) ==
  /\ z.p.focused = s.p.focused /\ z.p.waiting = s.p.waiting /\ z.p.conn = s.p.conn
  /\ z.p.failcount = s.p.failcount /\ z.p.timer = s.p.timer

\* Node m looks, and will look, the same.
SameLevel(s, z, m) ==
  /\ z.p.shown[m] = s.p.shown[m]
  /\ \A rest \in Int : Final(z.calls, m, rest) = Final(s.calls, m, rest)

\* From s to z, only the transitions of node n have changed.
Faded(s, z, n, limit) ==
  /\ Good(z, limit)
  /\ SameNodes(s, z)
  /\ \A m \in Nodes \ {n} : SameLevel(s, z, m)

LEMMA ProcFields ==
  ASSUME NEW q \in Proc
  PROVE  /\ q.focused \in Nodes /\ q.waiting \in Seq(Nodes)
         /\ q.conn \in [Remotes -> {"SETTINGUP", "CONNECTED", "FAILED", "PERMFAILED"}]
         /\ q.failcount \in [Remotes -> Nat] /\ q.timer \in [Remotes -> Nat \cup {NULL}]
         /\ q.shown \in [Nodes -> Int] /\ q.serial \in Nat
BY Zenon DEF Proc

LEMMA ProcSerial ==
  ASSUME NEW q \in Proc, NEW v \in Nat
  PROVE  [q EXCEPT !.serial = v] \in Proc /\ [q EXCEPT !.serial = v].serial = v
BY Zenon DEF Proc

LEMMA FadedAgain ==
  ASSUME NEW s, NEW y, NEW z, NEW n, NEW limit, Faded(s, y, n, limit), Faded(y, z, n, limit)
  PROVE  Faded(s, z, n, limit)
<1>1. SameNodes(s, z)
  BY Zenon DEF Faded, SameNodes
<1>2. ASSUME NEW m \in Nodes \ {n} PROVE SameLevel(s, z, m)
  <2>1. SameLevel(s, y, m) /\ SameLevel(y, z, m)
    BY Zenon DEF Faded
  <2> QED BY Zenon, <2>1 DEF SameLevel
<1> QED BY Zenon, <1>1, <1>2 DEF Faded

\* The elements of a list with an insertion.
LEMMA InsertedElements ==
  ASSUME NEW l \in Seq(Scheduled), NEW new, NEW k, NEW c, Inserted(new, l, k, c),
         NEW j \in 1..Len(new)
  PROVE  new[j] = c \/ \E i \in 1..Len(l) : new[j] = l[i]
<1>1. /\ Len(l) \in Nat /\ k \in 1..Len(l) + 1 /\ Len(new) = Len(l) + 1 /\ new[k] = c
      /\ \A i \in 1..Len(l) : IF i < k THEN new[i] = l[i] ELSE new[i + 1] = l[i]
  BY DEF Inserted
<1>2. CASE j < k
  <2>1. j \in 1..Len(l)
    BY <1>1, <1>2
  <2> QED BY Zenon, <1>1, <1>2, <2>1
<1>3. CASE j > k
  <2>1. j - 1 \in 1..Len(l) /\ ~(j - 1 < k) /\ j - 1 + 1 = j
    BY <1>1, <1>3
  <2>2. new[j] = l[j - 1]
    BY Zenon, <1>1, <2>1
  <2> QED BY Zenon, <2>1, <2>2
<1> QED BY <1>1, <1>2, <1>3

\* Scheduling a step of a transition keeps what is known of reconnections.
LEMMA InsertTimers ==
  ASSUME NEW q \in Proc, NEW l \in Seq(Scheduled), TimersOK(l, q),
         NEW new \in Seq(Scheduled), NEW k, NEW c \in Scheduled, Inserted(new, l, k, c),
         c.fn = "brightness", c.id = q.serial
  PROVE  TimersOK(new, [q EXCEPT !.serial = @ + 1])
<1> DEFINE z == [q EXCEPT !.serial = @ + 1]
<1>1. z.timer = q.timer /\ z.conn = q.conn /\ z.serial = q.serial + 1
  BY Zenon DEF Proc
<1>2. q.serial \in Nat /\ q.timer \in [Remotes -> Nat \cup {NULL}]
  BY Zenon, ProcFields
<1> HIDE DEF z
<1>3. \A r \in Remotes : z.timer[r] # NULL => z.timer[r] < z.serial
  BY <1>1, <1>2 DEF TimersOK
<1>4. \A j \in 1..Len(new) : new[j] = c \/ \E i \in 1..Len(l) : new[j] = l[i]
  BY InsertedElements
<1>5. ASSUME NEW j \in 1..Len(new), new[j].fn = "reconnect"
      PROVE  z.conn[new[j].arg.node] = "FAILED" /\ z.timer[new[j].arg.node] = new[j].id
  <2>1. new[j] # c
    BY Zenon, <1>5
  <2>2. PICK i \in 1..Len(l) : new[j] = l[i]
    BY Zenon, <1>4, <2>1
  <2> QED BY Zenon, <1>1, <1>5, <2>2 DEF TimersOK
<1>6. ASSUME NEW j \in 1..Len(new), NEW r \in Remotes, new[j].id = z.timer[r]
      PROVE  new[j].fn = "reconnect"
  <2>1. new[j] # c
    <3>1. c.id \in Nat /\ NULL \notin Int
      BY Zenon, CallType, TimersAssumption
    <3> QED BY <1>1, <1>2, <1>6, <3>1 DEF TimersOK
  <2>2. PICK i \in 1..Len(l) : new[j] = l[i]
    BY Zenon, <1>4, <2>1
  <2> QED BY Zenon, <1>1, <1>6, <2>2 DEF TimersOK
<1> QED BY Zenon, <1>3, <1>5, <1>6 DEF TimersOK, z

\* schedule_brightness_change; the step that is due last decides.
LEMMA StepScheduled ==
  ASSUME clock \in Nat, NEW d \in Nat, NEW s, Good(s, clock + d),
         NEW n \in Nodes, NEW level \in Int, NEW delay \in 0..d
  PROVE  /\ Faded(s, ScheduleBrightnessChange(s, n, level, delay), n, clock + d)
         /\ delay = d => \A rest \in Int :
              Final(ScheduleBrightnessChange(s, n, level, delay).calls, n, rest) = level
<1> DEFINE q == s.p
           l == s.calls
           c == [fn |-> "brightness", arg |-> [node |-> n, level |-> level],
                 id |-> q.serial, time |-> clock + delay]
           new == Insert(l, c)
           w == [q EXCEPT !.serial = @ + 1]
           z == ScheduleBrightnessChange(s, n, level, delay)
           limit == clock + d
<1>1. /\ q \in Proc /\ l \in Seq(Scheduled) /\ Listed(l, q.serial, limit) /\ TimersOK(l, q)
      /\ Ordered(l) /\ Len(l) \in Nat
  BY DEF Good, States, Listed
<1>2. z = [p |-> w, calls |-> new]
  BY Zenon DEF ScheduleBrightnessChange, Schedule, ScheduleCall
<1>3. q.serial \in Nat
  BY Zenon, <1>1, ProcFields
<1>4. clock + delay \in Int /\ clock + delay <= limit /\ limit \in Int
  OBVIOUS
<1> HIDE DEF q, l
<1>5. c \in Scheduled /\ c.id = q.serial /\ c.fn = "brightness" /\ c.time = clock + delay
  BY Zenon, <1>3, <1>4 DEF Scheduled
<1>6. w \in Proc /\ w.serial = q.serial + 1
  <2>1. q.serial + 1 \in Nat
    BY <1>3
  <2> QED BY Zenon, <1>1, <2>1, ProcSerial
<1>7. /\ w.focused = q.focused /\ w.waiting = q.waiting /\ w.conn = q.conn
      /\ w.failcount = q.failcount /\ w.timer = q.timer /\ w.shown = q.shown
  BY Zenon, <1>1 DEF Proc
<1>8. IsStep(c, n) /\ c.arg.level = level /\ \A m \in Nodes \ {n} : ~IsStep(c, m)
  BY Zenon DEF IsStep
<1> HIDE DEF c, limit
<1>9. new \in Seq(Scheduled)
  BY Zenon, <1>1, <1>5, InsertIs
<1>10. PICK k : /\ Inserted(new, l, k, c)
                /\ \A i \in 1..Len(l) : IF i < k THEN l[i].time <= c.time ELSE c.time < l[i].time
  BY Zenon, <1>1, <1>5, InsertIs
<1>11. Listed(new, q.serial + 1, limit)
  BY Zenon, <1>1, <1>3, <1>4, <1>5, InsertListed
<1> HIDE DEF new
<1>12. TimersOK(new, w)
  BY Zenon, <1>1, <1>5, <1>9, <1>10, InsertTimers
<1> HIDE DEF w
<1>13. z.p = w /\ z.calls = new /\ z \in States
  BY <1>2, <1>6, <1>9 DEF States
<1> HIDE DEF z
<1>14. Good(z, limit)
  BY Zenon, <1>6, <1>11, <1>12, <1>13 DEF Good
<1>15. SameNodes(s, z)
  BY Zenon, <1>7, <1>13 DEF SameNodes, q
<1>16. ASSUME NEW m \in Nodes \ {n} PROVE SameLevel(s, z, m)
  <2>1. ~IsStep(c, m)
    BY Zenon, <1>8
  <2>2. \A rest \in Int : Final(new, m, rest) = Final(l, m, rest)
    BY SMTT(30), <1>1, <1>10, <2>1, InsertedOther
  <2> QED BY Zenon, <1>7, <1>13, <2>2 DEF SameLevel, q, l
<1>17. ASSUME delay = d, NEW rest \in Int PROVE Final(z.calls, n, rest) = level
  <2>1. ASSUME NEW i \in 1..Len(l), i >= k PROVE ~IsStep(l[i], n)
    <3>1. k \in Int /\ l[i] \in Scheduled
      BY <1>1, <1>10 DEF Inserted
    <3>2. c.time < l[i].time /\ l[i].time \in Int
      BY <1>10, <2>1, <3>1, CallType
    <3>3. l[i].fn = "brightness" => l[i].time <= limit
      BY Zenon, <1>1 DEF Listed
    <3> QED BY <1>4, <1>5, <1>17, <3>2, <3>3 DEF IsStep, limit
  <2> QED BY <1>1, <1>8, <1>10, <1>13, <2>1, InsertedLast
<1> QED BY Zenon, <1>14, <1>15, <1>16, <1>17 DEF Faded, limit, z

\* set_node_display_brightness.
LEMMA LevelSet ==
  ASSUME NEW s, NEW limit, Good(s, limit), NEW n \in Nodes, NEW level \in Int
  PROVE  /\ Faded(s, SetNodeDisplayBrightness(s, n, level), n, limit)
         /\ SetNodeDisplayBrightness(s, n, level).p.shown[n] = level
         /\ SetNodeDisplayBrightness(s, n, level).calls = s.calls
<1> DEFINE z == SetNodeDisplayBrightness(s, n, level)
           w == [s.p EXCEPT !.shown = [@ EXCEPT ![n] = level]]
<1>1. s \in States /\ s.p \in Proc
  BY Zenon DEF Good, States
<1>2. z \in States /\ z.p = w /\ z.calls = s.calls
  <2>1. s.p.shown \in [Nodes -> Int]
    BY Zenon, <1>1, ProcFields
  <2>2. [s.p.shown EXCEPT ![n] = level] \in [Nodes -> Int]
    BY Zenon, <2>1
  <2>3. w \in Proc
    BY Zenon, <1>1, <2>2 DEF Proc
  <2>4. z = [s EXCEPT !.p = w]
    BY Zenon, <1>1 DEF SetNodeDisplayBrightness, States, Proc
  <2> HIDE DEF w, z
  <2> QED BY Zenon, <1>1, <2>3, <2>4 DEF States
<1>3. /\ w.focused = s.p.focused /\ w.waiting = s.p.waiting /\ w.conn = s.p.conn
      /\ w.failcount = s.p.failcount /\ w.timer = s.p.timer /\ w.serial = s.p.serial
  BY Zenon, <1>1 DEF Proc
<1>4. w.shown[n] = level /\ \A m \in Nodes \ {n} : w.shown[m] = s.p.shown[m]
  BY Zenon, <1>1 DEF Proc
<1> HIDE DEF w, z
<1>5. Good(z, limit)
  BY <1>2, <1>3 DEF Good, TimersOK
<1>6. SameNodes(s, z)
  BY Zenon, <1>2, <1>3 DEF SameNodes
<1>7. \A m \in Nodes \ {n} : SameLevel(s, z, m)
  BY Zenon, <1>2, <1>4 DEF SameLevel
<1> QED BY Zenon, <1>2, <1>4, <1>5, <1>6, <1>7 DEF Faded, z

\* The steps of a transition are spread over its duration.
LEMMA StepDelay ==
  ASSUME NEW F \in Nat \ {0}, NEW i \in 0..F - 1, NEW d \in Nat, NEW a \in Int
  PROVE  (i * d) \div F \in 0..d /\ (i * a) \div F \in Int
<1>1. i * d \in Nat /\ i * a \in Int
  OBVIOUS
<1>2. \A x \in Int, y \in Nat \ {0} : x \div y \in Int
  OBVIOUS
<1>3. \A x \in Nat, y \in Nat \ {0} : x \div y \in Nat /\ (x \div y) * y <= x
  OBVIOUS
<1> DEFINE v == (i * d) \div F
<1>4. v \in Nat /\ v * F <= i * d
  BY Zenon, <1>1, <1>3
<1>5. (i * a) \div F \in Int
  BY Zenon, <1>1, <1>2
<1> HIDE DEF v
<1>6. ASSUME v > d PROVE FALSE
  <2>1. \A x, y, u \in Nat : x >= y => x * u >= y * u
    OBVIOUS
  <2>2. v >= d + 1 /\ d + 1 \in Nat /\ F \in Nat /\ F >= i /\ i \in Nat
    BY <1>4, <1>6
  <2>3. v * F >= (d + 1) * F
    BY Zenon, <1>4, <2>1, <2>2
  <2>4. F * d >= i * d
    BY Zenon, <2>1, <2>2
  <2>5. (d + 1) * F = F * d + F
    BY <2>2
  <2> QED BY <1>1, <1>4, <2>2, <2>3, <2>4, <2>5
<1> QED BY <1>4, <1>5, <1>6 DEF v

\* transition_brightness leads its node to the level it is given, and changes
\* nothing else.  The recursive function has a fixed point, by induction over
\* its domain, and so has the values that it is defined to have.
LEMMA Transition ==
  ASSUME clock \in Nat, hint \in Hints, NEW s, Good(s, clock + hint.duration),
         NEW n \in Nodes, NEW from \in Int, NEW to \in Int
  PROVE  /\ Faded(s, TransitionBrightness(s, n, from, to), n, clock + hint.duration)
         /\ \A rest \in Int : Final(TransitionBrightness(s, n, from, to).calls, n, rest) = to
<1> DEFINE N == FadeSteps - 1
           d == hint.duration
           a == SetNodeDisplayBrightness(s, n, from)
           St(y, i) == ScheduleBrightnessChange(y, n, from + (i * (to - from)) \div FadeSteps,
                                                (i * d) \div FadeSteps)
           F(h) == [i \in 0..N |-> IF i = 0 THEN a ELSE St(h[i - 1], i)]
           fade == CHOOSE h : h = F(h)
           T == TransitionBrightness(s, n, from, to)
           Fixed(k, g) == /\ g = [i \in 0..k |-> g[i]] /\ g[0] = a
                          /\ \A i \in 1..k : g[i] = St(g[i - 1], i)
<1>1. N \in Nat /\ d \in Nat /\ FadeSteps \in Nat \ {0}
  BY TimedCallsAssumption
<1>2. T = ScheduleBrightnessChange(fade[N], n, to, d)
  BY Zenon DEF TransitionBrightness
<1> HIDE DEF N, a, St, d, T
<1>3. \E g : Fixed(N, g)
  <2> SUFFICES ASSUME ~\E g : Fixed(N, g) PROVE FALSE
    BY Zenon
  <2> DEFINE U == {k \in 0..N : ~\E g : Fixed(k, g)}
  <2>1. U \in SUBSET Nat /\ U # {}
    <3> HIDE DEF Fixed
    <3>1. N \in U
      BY <1>1
    <3> QED BY <3>1
  <2>2. PICK k \in U : \A y \in U : k <= y
    <3> HIDE DEF U
    <3> QED BY Zenon, <2>1, LeastOf
  <2>3. Fixed(0, [i \in 0..0 |-> a])
    OBVIOUS
  <2>4. k # 0
    BY Zenon, <2>2, <2>3
  <2>5. k - 1 \in 0..N /\ k - 1 \notin U /\ k \in 1..N
    <3>1. k \in 0..N
      BY Zenon
    <3> HIDE DEF U
    <3> QED BY <1>1, <2>2, <2>4, <3>1
  <2>6. PICK g : Fixed(k - 1, g)
    BY Zenon, <2>5
  <2> DEFINE e == [i \in 0..k |-> IF i = k THEN St(g[k - 1], k) ELSE g[i]]
  <2>7. Fixed(k, e)
    <3>1. e = [i \in 0..k |-> e[i]] /\ e[0] = a
      BY <2>5, <2>6
    <3>2. ASSUME NEW i \in 1..k PROVE e[i] = St(e[i - 1], i)
      <4>1. e[i - 1] = g[i - 1]
        BY <2>5
      <4>2. CASE i = k
        <5>1. e[i] = St(g[k - 1], k)
          BY <2>5, <4>2
        <5> QED BY Zenon, <4>1, <4>2, <5>1
      <4>3. CASE i # k
        <5>1. e[i] = g[i] /\ i \in 1..k - 1
          BY <2>5, <4>3
        <5>2. g[i] = St(g[i - 1], i)
          BY Zenon, <2>6, <5>1
        <5> HIDE DEF e
        <5> QED BY Zenon, <4>1, <5>1, <5>2
      <4> QED BY Zenon, <4>2, <4>3
    <3> QED BY Zenon, <3>1, <3>2
  <2> QED BY Zenon, <2>2, <2>7
<1>4. PICK g : Fixed(N, g)
  BY Zenon, <1>3
<1>5. g = F(g)
  <2>1. ASSUME NEW i \in 0..N PROVE g[i] = F(g)[i]
    <3>1. CASE i = 0
      BY Zenon, <3>1, <1>4
    <3>2. CASE i # 0
      <4>1. i \in 1..N
        BY <3>2, <1>1
      <4> QED BY Zenon, <3>2, <4>1, <1>4
    <3> QED BY Zenon, <3>1, <3>2
  <2> QED BY Zenon, <1>4, <2>1
<1>6. fade = F(fade)
  BY Zenon, <1>5
<1> HIDE DEF fade
<1>7. ASSUME NEW i \in 0..N PROVE fade[i] = IF i = 0 THEN a ELSE St(fade[i - 1], i)
  BY Zenon, <1>6
<1> HIDE DEF F, Fixed
<1>8. \A i \in 0..N : Faded(s, fade[i], n, clock + d)
  <2> DEFINE U == {i \in 0..N : ~Faded(s, fade[i], n, clock + d)}
  <2> SUFFICES ASSUME U # {} PROVE FALSE
    BY Zenon
  <2>1. PICK i \in U : \A y \in U : i <= y
    <3>1. U \in SUBSET Nat
      OBVIOUS
    <3> HIDE DEF U
    <3> QED BY Zenon, <3>1, LeastOf
  <2>2. i \in 0..N /\ ~Faded(s, fade[i], n, clock + d)
    BY Zenon
  <2>3. i # 0
    <3>1. Faded(s, a, n, clock + d)
      BY Zenon, LevelSet DEF a, d
    <3> QED BY Zenon, <1>1, <1>7, <2>2, <3>1
  <2>4. i - 1 \in 0..N /\ i - 1 \notin U
    <3> HIDE DEF U
    <3> QED BY <1>1, <2>1, <2>2, <2>3
  <2>5. Faded(s, fade[i - 1], n, clock + d)
    BY Zenon, <2>4
  <2>6. fade[i] = St(fade[i - 1], i)
    BY Zenon, <1>7, <2>2, <2>3
  <2>7. /\ (i * d) \div FadeSteps \in 0..d
        /\ from + (i * (to - from)) \div FadeSteps \in Int
    <3>1. i \in 0..FadeSteps - 1 /\ to - from \in Int
      BY <2>2 DEF N
    <3>2. (i * d) \div FadeSteps \in 0..d /\ (i * (to - from)) \div FadeSteps \in Int
      BY Zenon, <1>1, <3>1, StepDelay
    <3> QED BY <3>2
  <2>8. Good(fade[i - 1], clock + d)
    BY <2>5 DEF Faded
  <2>9. Faded(fade[i - 1], St(fade[i - 1], i), n, clock + d)
    BY Zenon, <1>1, <2>7, <2>8, StepScheduled DEF St
  <2> QED BY <2>2, <2>5, <2>6, <2>9, FadedAgain
<1>9. Faded(s, fade[N], n, clock + d) /\ Good(fade[N], clock + d)
  BY <1>1, <1>8 DEF Faded
<1>10. d \in 0..d
  BY <1>1
<1>11. /\ Faded(fade[N], T, n, clock + d)
       /\ \A rest \in Int : Final(T.calls, n, rest) = to
  BY <1>1, <1>2, <1>9, <1>10, StepScheduled
<1> QED BY Zenon, <1>9, <1>11, FadedAgain DEF T, d

\* What indicate_switch does to the nodes.
Indicated(s, z, from, to, limit) ==
  /\ Good(z, limit)
  /\ SameNodes(s, z)
  /\ \A rest \in Int : Final(z.calls, to, rest) = Full
  /\ \A m \in Nodes \ {to} :
       IF hint.type = "dim_inactive" /\ m = from
       THEN \A rest \in Int : Final(z.calls, m, rest) = Dim
       ELSE SameLevel(s, z, m)

LEMMA IndicateSwitchIs ==
  ASSUME clock \in Nat, hint \in Hints, NEW s, Good(s, clock + hint.duration),
         NEW from \in Nodes \cup {NULL}, NEW to \in Nodes
  PROVE  Indicated(s, IndicateSwitch(s, from, to), from, to, clock + hint.duration)
<1> DEFINE dims == hint.type = "dim_inactive" /\ from \notin {NULL, to}
           y == IF dims THEN TransitionBrightness(s, from, Full, Dim) ELSE s
           z == TransitionBrightness(y, to, Dim, Full)
           limit == clock + hint.duration
<1>1. Full \in Int /\ Dim \in Int /\ NULL \notin Nodes
  BY TimedCallsAssumption
<1>2. IndicateSwitch(s, from, to) = z
  BY Zenon DEF IndicateSwitch
<1>3. dims => Faded(s, y, from, limit) /\ \A rest \in Int : Final(y.calls, from, rest) = Dim
  <2> SUFFICES ASSUME dims
               PROVE  Faded(s, y, from, limit) /\ \A rest \in Int : Final(y.calls, from, rest) = Dim
    BY Zenon
  <2>1. from \in Nodes /\ y = TransitionBrightness(s, from, Full, Dim)
    BY Zenon
  <2> HIDE DEF y
  <2> QED BY <1>1, <2>1, Transition
<1>4. ~dims => y = s
  BY Zenon
<1> HIDE DEF y
<1>5. Good(y, limit) /\ SameNodes(s, y)
  BY Zenon, <1>3, <1>4 DEF Faded, SameNodes
<1>6. Faded(y, z, to, limit) /\ \A rest \in Int : Final(z.calls, to, rest) = Full
  BY <1>1, <1>5, Transition
<1> HIDE DEF z
<1>7. Good(z, limit) /\ SameNodes(s, z)
  BY Zenon, <1>5, <1>6 DEF Faded, SameNodes
<1>8. ASSUME NEW m \in Nodes \ {to}, hint.type = "dim_inactive", m = from
      PROVE  \A rest \in Int : Final(z.calls, m, rest) = Dim
  <2>1. dims
    BY Zenon, <1>1, <1>8
  <2>2. SameLevel(y, z, m)
    BY Zenon, <1>6 DEF Faded
  <2> QED BY Zenon, <1>3, <1>8, <2>1, <2>2 DEF SameLevel
<1>9. ASSUME NEW m \in Nodes \ {to}, ~(hint.type = "dim_inactive" /\ m = from)
      PROVE  SameLevel(s, z, m)
  <2>1. SameLevel(y, z, m)
    BY Zenon, <1>6 DEF Faded
  <2>2. CASE dims
    <3>1. SameLevel(s, y, m)
      BY Zenon, <1>3, <1>9, <2>2 DEF Faded
    <3> QED BY Zenon, <2>1, <3>1 DEF SameLevel
  <2>3. CASE ~dims
    BY Zenon, <1>4, <2>1, <2>3
  <2> QED BY Zenon, <2>2, <2>3
<1> QED BY Zenon, <1>2, <1>6, <1>7, <1>8, <1>9 DEF Indicated

\* cancel_call of a reconnection leaves the transitions alone.
LEMMA Cancelled ==
  ASSUME NEW l, NEW serial, NEW limit, Listed(l, serial, limit), NEW id,
         \A i \in 1..Len(l) : l[i].id = id => l[i].fn = "reconnect"
  PROVE  /\ Listed(CancelCall(l, id), serial, limit)
         /\ \A j \in 1..Len(CancelCall(l, id)) :
              /\ CancelCall(l, id)[j].id # id
              /\ \E i \in 1..Len(l) : CancelCall(l, id)[j] = l[i]
         /\ \A m, rest : Final(CancelCall(l, id), m, rest) = Final(l, m, rest)
<1> DEFINE found == {i \in DOMAIN l : l[i].id = id}
           k == Min(found)
           new == CancelCall(l, id)
<1>1. l \in Seq(Scheduled) /\ Len(l) \in Nat /\ DOMAIN l = 1..Len(l)
  BY DEF Listed
<1>2. CASE found = {}
  <2>1. new = l
    BY Zenon, <1>2 DEF CancelCall
  <2>2. \A j \in 1..Len(l) : l[j].id # id
    BY Zenon, <1>1, <1>2
  <2> QED BY Zenon, <2>1, <2>2
<1>3. CASE found # {}
  <2>1. new = UnlinkAt(l, k)
    BY Zenon, <1>3 DEF CancelCall
  <2>2. found \in SUBSET (1..Len(l))
    BY Zenon, <1>1
  <2>3. k \in found
    <3> HIDE DEF found
    <3> QED BY Zenon, <1>1, <1>3, <2>2, MinIs
  <2>4. k \in 1..Len(l) /\ l[k].id = id
    BY Zenon, <2>2, <2>3
  <2> HIDE DEF k, found
  <2>5. new \in Seq(Scheduled) /\ Dropped(new, l, k)
    BY <1>1, <2>1, <2>4, UnlinkAtIs
  <2> HIDE DEF new
  <2>6. Listed(new, serial, limit)
    BY Zenon, <2>5, DroppedListed
  <2>7. ASSUME NEW j \in 1..Len(new)
        PROVE  new[j].id # id /\ \E i \in 1..Len(l) : new[j] = l[i]
    <3> DEFINE i == IF j < k THEN j ELSE j + 1
    <3>1. i \in 1..Len(l) /\ new[j] = l[i] /\ (i < k \/ k < i)
      BY <1>1, <2>4, <2>5 DEF Dropped
    <3> HIDE DEF i
    <3>2. l[i].id # l[k].id
      BY Zenon, <2>4, <3>1 DEF Listed, Ordered
    <3> QED BY Zenon, <2>4, <3>1, <3>2
  <2>8. ASSUME NEW m, NEW rest PROVE Final(new, m, rest) = Final(l, m, rest)
    <3>1. ~IsStep(l[k], m)
      BY Zenon, <2>4 DEF IsStep
    <3> QED BY <1>1, <2>5, <3>1, DroppedOther
  <2> QED BY Zenon, <2>6, <2>7, <2>8 DEF new
<1> QED BY Zenon, <1>2, <1>3

-----------------------------------------------------------------------------
Live(q, n) == n = MasterNode \/ q.conn[n] = "CONNECTED"

\* The focus is, and switches that wait are, on nodes that are connected.
Lively(q) ==
  Live(q, q.focused) /\ \A i \in 1..Len(q.waiting) : Live(q, q.waiting[i])

\* reconnect_remote of a remote that is not connected touches only that remote.
LEMMA Reconnected ==
  ASSUME NEW s, NEW limit, Good(s, limit), Lively(s.p), NEW n \in Remotes,
         s.p.conn[n] # "CONNECTED"
  PROVE  /\ Good(ReconnectRemote(s, n), limit)
         /\ ReconnectRemote(s, n).p.focused = s.p.focused
         /\ ReconnectRemote(s, n).p.waiting = s.p.waiting
         /\ \A m \in Nodes : /\ SameLevel(s, ReconnectRemote(s, n), m)
                             /\ Live(ReconnectRemote(s, n).p, m) <=> Live(s.p, m)
<1> DEFINE y == IF s.p.timer[n] = NULL THEN s
                ELSE [s EXCEPT !.calls = CancelCall(@, s.p.timer[n])]
           w == [s.p EXCEPT !.failcount = [@ EXCEPT ![n] = 0],
                            !.conn = [@ EXCEPT ![n] = "SETTINGUP"]]
           z == ReconnectRemote(s, n)
           l == s.calls
<1>1. /\ s \in States /\ s.p \in Proc /\ l \in Seq(Scheduled)
      /\ Listed(l, s.p.serial, limit) /\ TimersOK(l, s.p)
  BY Zenon DEF Good, States
<1>2. n # MasterNode /\ n \in Nodes /\ s.p.focused # n
  BY Zenon, TimedCallsAssumption DEF Lively, Live, Nodes
<1>3. /\ y \in States /\ y.p = s.p /\ Listed(y.calls, s.p.serial, limit)
      /\ \A m \in Nodes, rest \in Int : Final(y.calls, m, rest) = Final(l, m, rest)
      /\ \A j \in 1..Len(y.calls) :
           /\ \E i \in 1..Len(l) : y.calls[j] = l[i]
           /\ y.calls[j].fn = "reconnect" => y.calls[j].arg.node # n
  <2>1. CASE s.p.timer[n] = NULL
    <3>1. \A j \in 1..Len(l) : l[j].fn = "reconnect" => l[j].arg.node # n
      <4>1. \A j \in 1..Len(l) : l[j] \in Scheduled /\ l[j].id \in Nat
        BY SMTT(30), <1>1, CallType
      <4> QED BY SMTT(30), <1>1, <2>1, <4>1, TimersAssumption DEF TimersOK
    <3> QED BY Zenon, <1>1, <2>1, <3>1
  <2>2. CASE s.p.timer[n] # NULL
    <3> DEFINE id == s.p.timer[n]
               new == CancelCall(l, id)
    <3>1. \A i \in 1..Len(l) : l[i].id = id => l[i].fn = "reconnect"
      BY ZenonT(20), <1>1 DEF TimersOK
    <3>2. /\ Listed(new, s.p.serial, limit)
          /\ \A j \in 1..Len(new) : new[j].id # id /\ \E i \in 1..Len(l) : new[j] = l[i]
          /\ \A m, rest : Final(new, m, rest) = Final(l, m, rest)
      <4> HIDE DEF l, id
      <4> QED BY <1>1, <3>1, Cancelled
    <3>3. y = [s EXCEPT !.calls = new]
      BY Zenon, <2>2
    <3> HIDE DEF new, y
    <3>4. new \in Seq(Scheduled)
      BY Zenon, <3>2 DEF Listed
    <3>5. y \in States /\ y.p = s.p /\ y.calls = new
      BY Zenon, <1>1, <3>3, <3>4 DEF States
    <3>6. ASSUME NEW j \in 1..Len(new), new[j].fn = "reconnect" PROVE new[j].arg.node # n
      <4>1. PICK i \in 1..Len(l) : new[j] = l[i]
        BY Zenon, <3>2
      <4>2. l[i].arg.node = n => l[i].id = id
        BY Zenon, <1>1, <3>6, <4>1 DEF TimersOK
      <4> QED BY Zenon, <3>2, <4>1, <4>2
    <3> QED BY Zenon, <3>2, <3>5, <3>6
  <2> QED BY Zenon, <2>1, <2>2
<1>4. w \in Proc
  <2>1. s.p.failcount \in [Remotes -> Nat]
    BY Zenon, <1>1, ProcFields
  <2>2. [s.p.failcount EXCEPT ![n] = 0] \in [Remotes -> Nat]
    BY Zenon, <2>1
  <2>3. s.p.conn \in [Remotes -> {"SETTINGUP", "CONNECTED", "FAILED", "PERMFAILED"}]
    BY Zenon, <1>1, ProcFields
  <2>4. [s.p.conn EXCEPT ![n] = "SETTINGUP"]
          \in [Remotes -> {"SETTINGUP", "CONNECTED", "FAILED", "PERMFAILED"}]
    BY Zenon, <2>3
  <2> QED BY Zenon, <1>1, <2>2, <2>4 DEF Proc
<1>5. /\ w.focused = s.p.focused /\ w.waiting = s.p.waiting /\ w.timer = s.p.timer
      /\ w.shown = s.p.shown /\ w.serial = s.p.serial
      /\ w.conn = [s.p.conn EXCEPT ![n] = "SETTINGUP"]
  BY Zenon, <1>1 DEF Proc
<1>6. z = [p |-> w, calls |-> y.calls]
  <2>1. z = SetupRemote([y EXCEPT !.p.failcount[n] = 0], n)
    BY Zenon, <1>2, <1>3 DEF ReconnectRemote, DisconnectRemote
  <2> HIDE DEF z, y
  <2> QED BY Zenon, <1>3, <2>1 DEF SetupRemote, States, Proc
<1> HIDE DEF y, w, z
<1>7. z \in States /\ z.p = w /\ z.calls = y.calls
  BY Zenon, <1>3, <1>4, <1>6 DEF States
<1>8. /\ w.conn[n] = "SETTINGUP"
      /\ \A r \in Remotes : r # n => w.conn[r] = s.p.conn[r]
  <2>1. s.p.conn \in [Remotes -> {"SETTINGUP", "CONNECTED", "FAILED", "PERMFAILED"}]
    BY SMTT(30), <1>1, ProcFields
  <2> QED BY Zenon, <1>5, <2>1
<1>9. TimersOK(y.calls, w)
  <2>1. \A r \in Remotes : w.timer[r] # NULL => w.timer[r] < w.serial
    BY Zenon, <1>1, <1>5 DEF TimersOK
  <2>2. ASSUME NEW j \in 1..Len(y.calls), y.calls[j].fn = "reconnect"
        PROVE  /\ w.conn[y.calls[j].arg.node] = "FAILED"
               /\ w.timer[y.calls[j].arg.node] = y.calls[j].id
    <3>1. PICK i \in 1..Len(l) : y.calls[j] = l[i]
      BY Zenon, <1>3
    <3>2. l[i].arg.node \in Remotes
      BY <1>1, <2>2, <3>1, CallType
    <3> QED BY ZenonT(30), <1>1, <1>3, <1>5, <1>8, <2>2, <3>1, <3>2 DEF TimersOK
  <2>3. ASSUME NEW j \in 1..Len(y.calls), NEW r \in Remotes, y.calls[j].id = w.timer[r]
        PROVE  y.calls[j].fn = "reconnect"
    <3>1. PICK i \in 1..Len(l) : y.calls[j] = l[i]
      BY Zenon, <1>3
    <3> QED BY SMTT(30), <1>1, <1>5, <2>3, <3>1 DEF TimersOK
  <2> QED BY SMTT(30), <2>1, <2>2, <2>3 DEF TimersOK
<1>10. Good(z, limit)
  BY Zenon, <1>3, <1>5, <1>7, <1>9 DEF Good
<1>11. ASSUME NEW m \in Nodes PROVE SameLevel(s, z, m) /\ (Live(z.p, m) <=> Live(s.p, m))
  <2>1. SameLevel(s, z, m)
    BY SMTT(30), <1>3, <1>5, <1>7 DEF SameLevel
  <2>2. Live(z.p, m) <=> Live(s.p, m)
    <3>1. CASE m = MasterNode
      BY Zenon, <3>1 DEF Live
    <3>2. CASE m # MasterNode
      <4>1. m \in Remotes
        BY Zenon, <3>2 DEF Nodes
      <4> QED BY Zenon, <1>7, <1>8, <3>2, <4>1 DEF Live
    <3> QED BY Zenon, <3>1, <3>2
  <2> QED BY Zenon, <2>1, <2>2
<1> QED BY Zenon, <1>5, <1>7, <1>10, <1>11 DEF z

\* disconnect_remote, with focus_master when the remote has the focus.
LEMMA Disconnected ==
  ASSUME clock \in Nat, hint \in Hints, NEW s, Good(s, clock + hint.duration),
         NEW r \in Remotes
  PROVE  LET y == DisconnectRemote(s, r)
         IN /\ Good(y, clock + hint.duration)
            /\ y.p.waiting = s.p.waiting /\ y.p.conn = s.p.conn
            /\ y.p.focused = IF r = s.p.focused THEN MasterNode ELSE s.p.focused
            /\ \A m \in Nodes : IF r = s.p.focused /\ m = MasterNode
                              THEN \A rest \in Int : Final(y.calls, m, rest) = Full
                              ELSE SameLevel(s, y, m)
<1> DEFINE y == DisconnectRemote(s, r)
           limit == clock + hint.duration
<1>1. CASE r # s.p.focused
  <2>1. y = s
    BY SMTT(30), <1>1 DEF DisconnectRemote
  <2> QED BY Zenon, <1>1, <2>1 DEF SameLevel
<1>2. CASE r = s.p.focused
  <2> DEFINE w == [s.p EXCEPT !.focused = MasterNode]
             x == [s EXCEPT !.p.focused = MasterNode]
  <2>1. s \in States /\ s.p \in Proc /\ MasterNode \in Nodes
    BY Zenon DEF Good, States, Nodes
  <2>2. y = IndicateSwitch(x, NULL, MasterNode)
    BY Zenon, <1>2 DEF DisconnectRemote
  <2>3. /\ w \in Proc /\ w.focused = MasterNode /\ w.waiting = s.p.waiting
        /\ w.conn = s.p.conn /\ w.timer = s.p.timer
        /\ w.shown = s.p.shown /\ w.serial = s.p.serial
    BY Zenon, <2>1 DEF Proc
  <2>4. x = [s EXCEPT !.p = w]
    BY Zenon, <2>1 DEF States, Proc
  <2> HIDE DEF w, x, y
  <2>5. x \in States /\ x.p = w /\ x.calls = s.calls
    BY SMTT(30), <2>1, <2>3, <2>4 DEF States
  <2>6. Good(x, limit)
    BY <2>3, <2>5 DEF Good, TimersOK
  <2>7. Indicated(x, y, NULL, MasterNode, limit)
    <3> HIDE DEF limit
    <3> QED BY Zenon, <2>1, <2>2, <2>6, IndicateSwitchIs DEF limit
  <2>8. Good(y, limit) /\ SameNodes(x, y)
    BY Zenon, <2>7 DEF Indicated
  <2>9. ASSUME NEW m \in Nodes
        PROVE  IF m = MasterNode THEN \A rest \in Int : Final(y.calls, m, rest) = Full
               ELSE SameLevel(s, y, m)
    <3>1. CASE m = MasterNode
      BY Zenon, <2>7, <3>1 DEF Indicated
    <3>2. CASE m # MasterNode
      <4>1. m # NULL
        BY Zenon, TimedCallsAssumption
      <4>2. SameLevel(x, y, m)
        BY Zenon, <2>7, <3>2, <4>1 DEF Indicated
      <4> QED BY Zenon, <2>3, <2>5, <3>2, <4>2 DEF SameLevel
    <3> QED BY Zenon, <3>1, <3>2
  <2> QED BY Zenon, <1>2, <2>3, <2>5, <2>8, <2>9 DEF SameNodes, y
<1> QED BY Zenon, <1>1, <1>2

\* c is the reconnection of r, and w knows it.
Retries(q, w, r, c) ==
  /\ q \in Proc /\ q.conn[r] # "FAILED"
  /\ w.serial = q.serial + 1
  /\ w.timer = [q.timer EXCEPT ![r] = q.serial]
  /\ w.conn = [q.conn EXCEPT ![r] = "FAILED"]
  /\ c \in Scheduled /\ c.fn = "reconnect" /\ c.arg.node = r /\ c.id = q.serial

\* A reconnection is scheduled for a remote that has none pending.
LEMMA RetryTimers ==
  ASSUME NEW q, NEW w, NEW r \in Remotes, NEW c, Retries(q, w, r, c),
         NEW limit, NEW l, Listed(l, q.serial, limit), TimersOK(l, q),
         NEW new, NEW k, Inserted(new, l, k, c)
  PROVE  TimersOK(new, w)
<1> USE DEF Retries
<1>1. /\ q.serial \in Nat /\ q.timer \in [Remotes -> Nat \cup {NULL}] /\ l \in Seq(Scheduled)
      /\ q.conn \in [Remotes -> {"SETTINGUP", "CONNECTED", "FAILED", "PERMFAILED"}]
  BY Zenon, ProcFields DEF Listed
<1>2. /\ w.timer[r] = q.serial /\ w.conn[r] = "FAILED"
      /\ \A o \in Remotes : o # r => w.timer[o] = q.timer[o] /\ w.conn[o] = q.conn[o]
  BY Zenon, <1>1
<1>3. ASSUME NEW o \in Remotes, w.timer[o] # NULL PROVE w.timer[o] < w.serial
  <2>1. CASE o = r
    BY SMTT(30), <1>1, <1>2, <2>1
  <2>2. CASE o # r
    <3>1. q.timer[o] \in Nat /\ q.timer[o] < q.serial /\ w.timer[o] = q.timer[o]
      BY SMTT(30), <1>1, <1>2, <1>3, <2>2 DEF TimersOK
    <3> QED BY SMTT(30), <1>1, <3>1
  <2> QED BY Zenon, <2>1, <2>2
<1>4. \A j \in 1..Len(new) : new[j] = c \/ \E i \in 1..Len(l) : new[j] = l[i]
  BY SMTT(30), <1>1, InsertedElements
<1>5. ASSUME NEW j \in 1..Len(new), new[j].fn = "reconnect"
      PROVE  w.conn[new[j].arg.node] = "FAILED" /\ w.timer[new[j].arg.node] = new[j].id
  <2>1. CASE new[j] = c
    BY Zenon, <1>2, <2>1
  <2>2. CASE \E i \in 1..Len(l) : new[j] = l[i]
    <3>1. PICK i \in 1..Len(l) : new[j] = l[i]
      BY ZenonT(20), <2>2
    <3>2. /\ q.conn[l[i].arg.node] = "FAILED" /\ q.timer[l[i].arg.node] = l[i].id
      BY Zenon, <1>5, <3>1 DEF TimersOK
    <3>3. l[i].arg.node \in Remotes
      BY SMTT(30), <1>1, <1>5, <3>1, CallType
    <3> QED BY SMTT(30), <1>2, <3>1, <3>2, <3>3
  <2> QED BY Zenon, <1>4, <2>1, <2>2
<1>6. ASSUME NEW j \in 1..Len(new), NEW o \in Remotes, new[j].id = w.timer[o]
      PROVE  new[j].fn = "reconnect"
  <2>1. CASE new[j] = c
    BY Zenon, <2>1
  <2>2. CASE \E i \in 1..Len(l) : new[j] = l[i]
    <3>1. PICK i \in 1..Len(l) : new[j] = l[i]
      BY Zenon, <2>2
    <3>2. l[i].id < q.serial /\ l[i].id \in Nat
      BY SMTT(30), <1>1, CallType DEF Listed
    <3>3. o # r
      BY SMTT(30), <1>1, <1>2, <1>6, <3>1, <3>2
    <3> QED BY SMTT(30), <1>2, <1>6, <3>1, <3>3 DEF TimersOK
  <2> QED BY Zenon, <1>4, <2>1, <2>2
<1> QED BY Zenon, <1>3, <1>5, <1>6 DEF TimersOK

\* What fail_remote does to a remote that is being set up or is connected.
LEMMA Failed ==
  ASSUME clock \in Nat, hint \in Hints, NEW s, Good(s, clock + hint.duration),
         NEW r \in Remotes, s.p.conn[r] \in {"SETTINGUP", "CONNECTED"}
  PROVE  LET z == FailRemote(s, r)
         IN /\ Good(z, clock + hint.duration)
            /\ z.p.waiting = s.p.waiting
            /\ z.p.focused = IF r = s.p.focused THEN MasterNode ELSE s.p.focused
            /\ \A m \in Nodes : Live(z.p, m) <=> Live(s.p, m) /\ m # r
            /\ \A m \in Nodes : IF r = s.p.focused /\ m = MasterNode
                              THEN \A rest \in Int : Final(z.calls, m, rest) = Full
                              ELSE SameLevel(s, z, m)
<1> DEFINE y == DisconnectRemote(s, r)
           n == s.p.failcount[r] + 1
           x == [y EXCEPT !.p.failcount[r] = n]
           z == FailRemote(s, r)
           limit == clock + hint.duration
<1>1. s \in States /\ s.p \in Proc
  BY Zenon DEF Good, States
<1>2. n \in Nat \ {0}
  BY SMTT(30), <1>1, ProcFields
<1>3. /\ Good(y, limit) /\ y.p.waiting = s.p.waiting /\ y.p.conn = s.p.conn
      /\ y.p.focused = IF r = s.p.focused THEN MasterNode ELSE s.p.focused
      /\ \A m \in Nodes : IF r = s.p.focused /\ m = MasterNode
                        THEN \A rest \in Int : Final(y.calls, m, rest) = Full
                        ELSE SameLevel(s, y, m)
  BY Zenon, Disconnected
<1>4. z = IF n > MaxTries THEN [x EXCEPT !.p.conn[r] = "PERMFAILED"]
          ELSE [Schedule(x, "reconnect", [node |-> r], ReconnectDelay(n))
                  EXCEPT !.p.conn[r] = "FAILED", !.p.timer[r] = x.p.serial]
  BY Zenon, SMTT(30) DEF FailRemote
<1> HIDE DEF y, n, z
<1>5. y \in States /\ y.p \in Proc /\ y.calls \in Seq(Scheduled)
  BY Zenon, <1>3 DEF Good, States
<1>6. /\ y.p.failcount \in [Remotes -> Nat] /\ y.p.timer \in [Remotes -> Nat \cup {NULL}]
      /\ y.p.conn \in [Remotes -> {"SETTINGUP", "CONNECTED", "FAILED", "PERMFAILED"}]
      /\ y.p.serial \in Nat
  BY Zenon, <1>5, ProcFields
<1> DEFINE u == [y.p.failcount EXCEPT ![r] = n]
           g == [y.p EXCEPT !.failcount = u]
<1>7. u \in [Remotes -> Nat]
  BY Zenon, <1>2, <1>6
<1>8. x = [y EXCEPT !.p = g]
  BY Zenon, <1>5 DEF States, Proc
<1>9. /\ g \in Proc /\ g.focused = y.p.focused /\ g.waiting = y.p.waiting
      /\ g.conn = y.p.conn /\ g.timer = y.p.timer /\ g.shown = y.p.shown
      /\ g.serial = y.p.serial
  <2> HIDE DEF u
  <2> QED BY ZenonT(30), <1>5, <1>7 DEF Proc
<1> HIDE DEF u, g, x
<1>10. x \in States /\ x.p = g /\ x.calls = y.calls
  BY Zenon, <1>5, <1>8, <1>9 DEF States
\* What remains to be shown in both cases: the rest follows from it.
<1>11. SUFFICES
         /\ Good(z, limit)
         /\ z.p.focused = g.focused /\ z.p.waiting = g.waiting /\ z.p.shown = g.shown
         /\ z.p.conn[r] # "CONNECTED"
         /\ \A o \in Remotes : o # r => z.p.conn[o] = g.conn[o]
         /\ \A m \in Nodes, rest \in Int : Final(z.calls, m, rest) = Final(y.calls, m, rest)
  <2>1. z.p.waiting = s.p.waiting /\ z.p.focused = y.p.focused
    BY Zenon, <1>3, <1>9, <1>11
  <2>2. ASSUME NEW m \in Nodes PROVE Live(z.p, m) <=> Live(s.p, m) /\ m # r
    <3>1. CASE m = MasterNode
      BY Zenon, <3>1, TimedCallsAssumption DEF Live
    <3>2. CASE m # MasterNode
      <4>1. m \in Remotes
        BY Zenon, <3>2 DEF Nodes
      <4> QED BY Zenon, <1>3, <1>9, <1>11, <3>2, <4>1 DEF Live
    <3> QED BY Zenon, <3>1, <3>2
  <2>3. ASSUME NEW m \in Nodes
        PROVE  IF r = s.p.focused /\ m = MasterNode
               THEN \A rest \in Int : Final(z.calls, m, rest) = Full
               ELSE SameLevel(s, z, m)
    <3>1. CASE r = s.p.focused /\ m = MasterNode
      BY Zenon, <1>3, <1>11, <3>1
    <3>2. CASE ~(r = s.p.focused /\ m = MasterNode)
      <4>1. y.p.shown[m] = s.p.shown[m]
            /\ \A rest \in Int : Final(y.calls, m, rest) = Final(s.calls, m, rest)
        BY Zenon, <1>3, <3>2 DEF SameLevel
      <4>2. z.p.shown[m] = y.p.shown[m]
        BY Zenon, <1>9, <1>11
      <4>3. \A rest \in Int : Final(z.calls, m, rest) = Final(y.calls, m, rest)
        BY Zenon, <1>11
      <4> QED BY Zenon, <3>2, <4>1, <4>2, <4>3 DEF SameLevel
    <3> QED BY Zenon, <3>1, <3>2
  <2> QED BY ZenonT(30), <1>3, <1>11, <2>1, <2>2, <2>3 DEF z
<1>12. /\ Listed(y.calls, g.serial, limit) /\ TimersOK(y.calls, g)
  BY Zenon, <1>3, <1>9 DEF Good, TimersOK
<1>13. CASE n > MaxTries
  <2> DEFINE c == [g.conn EXCEPT ![r] = "PERMFAILED"]
             w == [g EXCEPT !.conn = c]
  <2>1. c \in [Remotes -> {"SETTINGUP", "CONNECTED", "FAILED", "PERMFAILED"}]
    BY Zenon, <1>6, <1>9
  <2>2. /\ c[r] = "PERMFAILED" /\ \A o \in Remotes : o # r => c[o] = g.conn[o]
    BY Zenon, <1>6, <1>9
  <2>3. z = [x EXCEPT !.p = w]
    BY Zenon, <1>4, <1>9, <1>10, <1>13 DEF States, Proc
  <2> HIDE DEF c
  <2>4. /\ w \in Proc /\ w.focused = g.focused /\ w.waiting = g.waiting /\ w.conn = c
        /\ w.timer = g.timer /\ w.shown = g.shown /\ w.serial = g.serial
    BY Zenon, <1>9, <2>1 DEF Proc
  <2> HIDE DEF w
  <2>5. z \in States /\ z.p = w /\ z.calls = y.calls
    BY ZenonT(30), <1>10, <2>3, <2>4 DEF States
  <2>6. TimersOK(y.calls, w)
    <3>1. ASSUME NEW j \in 1..Len(y.calls), y.calls[j].fn = "reconnect"
          PROVE  w.conn[y.calls[j].arg.node] = "FAILED"
      <4>1. g.conn[y.calls[j].arg.node] = "FAILED" /\ g.conn[r] # "FAILED"
        BY Zenon, <1>3, <1>9, <1>12, <3>1 DEF TimersOK
      <4>2. y.calls[j].arg.node \in Remotes
        BY SMTT(30), <1>5, <3>1, CallType
      <4> QED BY Zenon, <2>2, <2>4, <4>1, <4>2
    <3> QED BY SMTT(30), <1>12, <2>4, <3>1 DEF TimersOK
  <2>7. Good(z, limit)
    BY SMTT(30), <1>12, <2>4, <2>5, <2>6 DEF Good
  <2> QED BY ZenonT(20), <2>2, <2>4, <2>5, <2>7
<1>14. CASE ~(n > MaxTries)
  <2> DEFINE delay == ReconnectDelay(n)
             b == [fn |-> "reconnect", arg |-> [node |-> r], id |-> g.serial,
                   time |-> clock + delay]
             new == Insert(y.calls, b)
             c == [g.conn EXCEPT ![r] = "FAILED"]
             t == [g.timer EXCEPT ![r] = g.serial]
             w == [g EXCEPT !.serial = @ + 1, !.conn = c, !.timer = t]
  <2>1. delay \in Nat
    BY Zenon, <1>2, DelayCapped
  <2>2. z = [p |-> w, calls |-> new]
    <3>1. z = [Schedule(x, "reconnect", [node |-> r], delay)
                 EXCEPT !.p.conn[r] = "FAILED", !.p.timer[r] = x.p.serial]
      BY Zenon, <1>4, <1>14
    <3>2. Schedule(x, "reconnect", [node |-> r], delay)
            = [p |-> [g EXCEPT !.serial = @ + 1], calls |-> new]
      BY Zenon, <1>10 DEF Schedule, ScheduleCall
    <3> HIDE DEF new, delay
    <3> DEFINE A == [g EXCEPT !.serial = @ + 1]
    <3>3. z = [p |-> [A EXCEPT !.conn[r] = "FAILED", !.timer[r] = g.serial], calls |-> new]
      <4> HIDE DEF A
      <4>1. z = [[p |-> A, calls |-> new]
                   EXCEPT !.p.conn[r] = "FAILED", !.p.timer[r] = g.serial]
        BY Zenon, <1>10, <3>1, <3>2 DEF A
      <4> QED BY Zenon, <4>1
    <3>4. [A EXCEPT !.conn[r] = "FAILED", !.timer[r] = g.serial] = w
      BY Zenon, <1>9 DEF Proc
    <3> QED BY Zenon, <3>3, <3>4
  <2> HIDE DEF delay
  <2>3. /\ c \in [Remotes -> {"SETTINGUP", "CONNECTED", "FAILED", "PERMFAILED"}]
        /\ c[r] = "FAILED" /\ \A o \in Remotes : o # r => c[o] = g.conn[o]
    BY Zenon, <1>6, <1>9
  <2>4. t \in [Remotes -> Nat \cup {NULL}] /\ g.serial \in Nat /\ g.serial + 1 \in Nat
    BY SMTT(30), <1>6, <1>9
  <2>5. /\ b \in Scheduled /\ b.fn = "reconnect" /\ b.arg.node = r /\ b.id = g.serial
    <3>1. clock + delay \in Int
      BY <2>1
    <3> QED BY Zenon, <2>4, <3>1 DEF Scheduled
  <2> HIDE DEF b
  <2>6. /\ w \in Proc /\ w.focused = g.focused /\ w.waiting = g.waiting /\ w.conn = c
        /\ w.timer = t /\ w.shown = g.shown /\ w.serial = g.serial + 1
    <3> HIDE DEF c, t
    <3> QED BY Zenon, <1>9, <2>3, <2>4 DEF Proc
  <2> HIDE DEF w
  <2>7. y.calls \in Seq(Scheduled) /\ Ordered(y.calls) /\ Len(y.calls) \in Nat
    BY SMTT(30), <1>5, <1>12 DEF Listed
  <2>8. PICK k : Inserted(new, y.calls, k, b)
    BY Zenon, <2>5, <2>7, InsertIs
  <2>9. Listed(new, g.serial + 1, limit)
    <3>1. limit \in Int
      BY SMTT(30), TimedCallsAssumption
    <3> HIDE DEF limit
    <3> QED BY Zenon, <1>12, <2>4, <2>5, <3>1, InsertListed
  <2> HIDE DEF new
  <2>10. TimersOK(new, w)
    <3>1. g.conn[r] # "FAILED"
      BY Zenon, <1>3, <1>9
    <3>2. /\ w.timer = [g.timer EXCEPT ![r] = g.serial]
          /\ w.conn = [g.conn EXCEPT ![r] = "FAILED"]
      BY Zenon, <2>6
    <3>3. g \in Proc /\ w \in Proc /\ w.serial = g.serial + 1
      BY Zenon, <1>9, <2>6
    <3>4. Retries(g, w, r, b)
      BY Zenon, <2>5, <3>1, <3>2, <3>3 DEF Retries
    <3> HIDE DEF c, t, limit
    <3> QED BY Zenon, <1>12, <2>8, <3>4, RetryTimers
  <2>11. z \in States /\ z.p = w /\ z.calls = new
    <3>1. new \in Seq(Scheduled)
      BY Zenon, <2>9 DEF Listed
    <3> QED BY Zenon, <2>2, <2>6, <3>1 DEF States
  <2>12. Good(z, limit)
    BY SMTT(30), <2>6, <2>9, <2>10, <2>11 DEF Good
  <2>13. ASSUME NEW m \in Nodes, NEW rest \in Int
         PROVE  Final(z.calls, m, rest) = Final(y.calls, m, rest)
    <3>1. ~IsStep(b, m)
      BY Zenon, <2>5 DEF IsStep
    <3> QED BY SMTT(30), <2>7, <2>8, <2>11, <3>1, InsertedOther
  <2> QED BY ZenonT(20), <2>3, <2>6, <2>11, <2>12, <2>13
<1> QED BY Zenon, <1>13, <1>14
=============================================================================
