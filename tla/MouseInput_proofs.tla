-------------------------- MODULE MouseInput_proofs --------------------------
(***************************************************************************)
(* Proofs about the mouse of the master.  For every length of the ring and *)
(* every multi-tap setting, the test on the ring is the one on the whole   *)
(* history; the mask of edges and the rings agree; and on a screen of any  *)
(* width the motion sent to a remote is the motion made.                   *)
(***************************************************************************)
EXTENDS MouseInput, FiniteSetTheorems, TLAPS

\* The remainder of a number below twice the modulus.
LEMMA Remainder ==
  ASSUME NEW h \in Nat \ {0}, NEW x \in 0..2 * h - 1
  PROVE  x % h = IF x < h THEN x ELSE x - h
<1>1. ASSUME NEW y \in Nat, y < h PROVE y % h = y /\ (y + h) % h = y
  BY <1>1
<1>2. CASE x < h
  BY <1>1, <1>2
<1>3. CASE ~(x < h)
  <2>1. x - h \in Nat /\ x - h < h /\ (x - h) + h = x
    BY <1>3
  <2>2. ((x - h) + h) % h = x - h
    BY Zenon, <1>1, <2>1
  <2> QED BY Zenon, <1>3, <2>1, <2>2
<1> QED BY Zenon, <1>2, <1>3

\* get_edgehist_entry looks rel places back in the ring, around its end.
LEMMA EntryIs ==
  ASSUME NEW es, es.idx \in 0..HISTLEN - 1, NEW rel \in 0..HISTLEN - 1
  PROVE  Entry(es, rel) = es.times[IF rel <= es.idx THEN es.idx - rel
                                   ELSE es.idx - rel + HISTLEN]
<1> DEFINE x == es.idx - rel + HISTLEN
<1>1. HISTLEN \in Nat \ {0}
  BY Zenon, EdgeSwitchAssumption
<1>2. x \in 0..2 * HISTLEN - 1 /\ (x < HISTLEN <=> ~(rel <= es.idx))
  BY <1>1
<1>3. x % HISTLEN = IF x < HISTLEN THEN x ELSE x - HISTLEN
  <2> HIDE DEF x
  <2> QED BY Zenon, <1>1, <1>2, Remainder
<1>4. x - HISTLEN = es.idx - rel
  BY <1>1
<1> QED BY Zenon, <1>2, <1>3, <1>4 DEF Entry

-----------------------------------------------------------------------------
Kinds == {"ARRIVE", "DEPART"}
Edge == [times : [0..HISTLEN - 1 -> Nat], idx : 0..HISTLEN - 1, last : Kinds]
Event == [type : Kinds, time : Nat]

\* Arrivals and departures alternate, and the first event is an arrival.
Kind(i) == IF i % 2 = 1 THEN "ARRIVE" ELSE "DEPART"

\* What the ring of an edge remembers: the times of the last HISTLEN events,
\* with 0 for those that have not happened.
Kept(es, events, now) ==
  /\ es \in Edge /\ events \in Seq(Event)
  /\ es.last = Kind(Len(events))
  /\ \A i \in 1..Len(events) : events[i].type = Kind(i) /\ events[i].time <= now
  /\ \A i, j \in 1..Len(events) : i <= j => events[i].time <= events[j].time
  /\ \A rel \in 0..HISTLEN - 1 :
       Entry(es, rel) = IF rel < Len(events) THEN events[Len(events) - rel].time ELSE 0

\* record_edgeevent moves the ring on by one event.
LEMMA RecordKept ==
  ASSUME NEW es, NEW events, NEW now \in Nat, Kept(es, events, now),
         NEW kind \in Kinds, kind # es.last
  PROVE  Kept(Record(es, kind, now), Append(events, [type |-> kind, time |-> now]), now)
<1> DEFINE x == es.idx + 1
           i == x % HISTLEN
           new == Record(es, kind, now)
           e == [type |-> kind, time |-> now]
           list == Append(events, e)
           n == Len(events)
<1> SUFFICES Kept(new, list, now)
  BY Zenon
<1>1. HISTLEN \in Nat \ {0} /\ es.idx \in 0..HISTLEN - 1 /\ es.times \in [0..HISTLEN - 1 -> Nat]
      /\ n \in Nat /\ events \in Seq(Event)
  BY EdgeSwitchAssumption DEF Kept, Edge
<1>2. i = IF es.idx + 1 < HISTLEN THEN es.idx + 1 ELSE 0
  <2>1. x \in 0..2 * HISTLEN - 1
    BY <1>1
  <2>2. i = IF x < HISTLEN THEN x ELSE x - HISTLEN
    <3> HIDE DEF x
    <3> QED BY Zenon, <1>1, <2>1, Remainder
  <2> HIDE DEF i
  <2> QED BY <1>1, <2>2
<1>3. new = [times |-> [es.times EXCEPT ![i] = now], idx |-> i, last |-> kind]
  BY Zenon DEF Record
<1> HIDE DEF i
<1>4. i \in 0..HISTLEN - 1
  BY SMTT(30), <1>1, <1>2
<1>5. new \in Edge /\ new.idx = i /\ new.last = kind
      /\ new.times = [es.times EXCEPT ![i] = now]
  BY <1>1, <1>3, <1>4 DEF Edge
<1>6. /\ list \in Seq(Event) /\ Len(list) = n + 1 /\ list[n + 1] = e
      /\ \A j \in 1..n : list[j] = events[j]
  <2>1. e \in Event
    BY Zenon DEF Event
  <2> HIDE DEF e
  <2> QED BY <1>1, <2>1
<1>7. kind = Kind(n + 1)
  <2>1. es.last = Kind(n)
    BY Zenon DEF Kept
  <2> HIDE DEF n
  <2> QED BY SMTT(30), <1>1, <2>1 DEF Kind, Kinds
<1> HIDE DEF new, list
<1>8. e.type = kind /\ e.time = now
  BY Zenon
<1> HIDE DEF e
<1>9. ASSUME NEW j \in 1..n + 1
      PROVE  list[j].type = Kind(j) /\ list[j].time <= now
  <2>1. CASE j = n + 1
    BY <1>6, <1>7, <1>8, <2>1
  <2>2. CASE j # n + 1
    <3>1. j \in 1..n
      BY <1>1, <2>2
    <3> QED BY Zenon, <1>6, <3>1 DEF Kept
  <2> QED BY Zenon, <2>1, <2>2
<1>10. ASSUME NEW j \in 1..n + 1, NEW k \in 1..n + 1, j <= k
       PROVE  list[j].time <= list[k].time
  <2>1. CASE k = n + 1
    BY Zenon, <1>6, <1>8, <1>9, <2>1
  <2>2. CASE k # n + 1
    <3>1. j \in 1..n /\ k \in 1..n
      BY <1>1, <1>10, <2>2
    <3> QED BY Zenon, <1>6, <1>10, <3>1 DEF Kept
  <2> QED BY Zenon, <2>1, <2>2
<1>11. ASSUME NEW rel \in 0..HISTLEN - 1
       PROVE  Entry(new, rel) = IF rel < n + 1 THEN list[n + 1 - rel].time ELSE 0
  <2>1. Entry(new, rel) = new.times[IF rel <= i THEN i - rel ELSE i - rel + HISTLEN]
    BY Zenon, <1>4, <1>5, EntryIs
  <2>2. CASE rel = 0
    BY <1>1, <1>4, <1>5, <1>6, <1>8, <2>1, <2>2
  <2>3. CASE rel # 0
    <3> DEFINE old == rel - 1
               k == IF rel <= i THEN i - rel ELSE i - rel + HISTLEN
    <3>1. old \in 0..HISTLEN - 1
      BY <1>1, <2>3
    <3>2. k = (IF old <= es.idx THEN es.idx - old ELSE es.idx - old + HISTLEN)
          /\ k # i /\ k \in 0..HISTLEN - 1
      <4>1. CASE es.idx + 1 < HISTLEN
        <5>i. i = es.idx + 1
          BY Zenon, <1>2, <4>1
        <5>e. es.idx \in Int /\ rel \in Int
          BY <1>1
        <5>1. i = es.idx + 1 /\ (rel <= i <=> old <= es.idx) /\ i - rel = es.idx - old
          BY SMTT(30), <5>i, <5>e
        <5>2. rel <= i => i - rel \in 0..HISTLEN - 1 /\ i - rel # i
          BY <1>1, <1>4, <2>3
        <5>3. ~(rel <= i) => i - rel + HISTLEN \in 0..HISTLEN - 1 /\ i - rel + HISTLEN # i
          BY <1>1, <1>4, <2>3
        <5> HIDE DEF old
        <5> QED BY Zenon, <5>1, <5>2, <5>3
      <4>2. CASE ~(es.idx + 1 < HISTLEN)
        <5>1. i = 0 /\ es.idx = HISTLEN - 1
          BY <1>1, <1>2, <4>2
        <5>2. k = HISTLEN - rel /\ HISTLEN - rel \in 1..HISTLEN - 1
          BY <1>1, <2>3, <5>1
        <5>3. old <= es.idx /\ es.idx - old = HISTLEN - rel
          BY <1>1, <5>1
        <5> HIDE DEF k, old
        <5> QED BY <1>1, <5>1, <5>2, <5>3
      <4> QED BY Zenon, <4>1, <4>2
    <3>3. Entry(es, old) = es.times[k]
      BY Zenon, <1>1, <3>1, <3>2, EntryIs
    <3>4. new.times[k] = es.times[k]
      BY Zenon, <1>1, <1>5, <3>2
    <3>5. Entry(es, old) = IF old < n THEN events[n - old].time ELSE 0
      BY Zenon, <3>1 DEF Kept
    <3>6. n - old = n + 1 - rel /\ (old < n <=> rel < n + 1)
      BY <1>1
    <3>7. rel < n + 1 => list[n + 1 - rel] = events[n + 1 - rel]
      <4>1. rel < n + 1 => n + 1 - rel \in 1..n
        BY <1>1, <2>3
      <4> QED BY Zenon, <1>6, <4>1
    <3> HIDE DEF k, old
    <3> QED BY Zenon, <2>1, <3>3, <3>4, <3>5, <3>6, <3>7 DEF k
  <2> QED BY Zenon, <2>2, <2>3
<1> HIDE DEF n
<1>12. QED
  <2> DEFINE m == n + 1
  <2>1. Len(list) = m /\ m \in Nat
    BY <1>1, <1>6
  <2>2. \A j \in 1..m : list[j].type = Kind(j) /\ list[j].time <= now
    BY Zenon, <1>9
  <2>3. \A j, k \in 1..m : j <= k => list[j].time <= list[k].time
    BY Zenon, <1>10
  <2>4. \A rel \in 0..HISTLEN - 1 : Entry(new, rel) = IF rel < m THEN list[m - rel].time ELSE 0
    BY <1>1, <1>11
  <2>5. new.last = Kind(m)
    BY Zenon, <1>5, <1>7
  <2> HIDE DEF m
  <2> QED BY Zenon, <1>5, <1>6, <2>1, <2>2, <2>3, <2>4, <2>5 DEF Kept

\* There are m arrivals among the last 2 * m - 1 events up to an arrival.
Lately(n, m) == {n - 2 * (j - 1) : j \in 1..m}

LEMMA LatelyCount ==
  ASSUME NEW n \in Nat, NEW m \in Nat
  PROVE  IsFiniteSet(Lately(n, m)) /\ Cardinality(Lately(n, m)) = m
<1> DEFINE B == Lately(n, m)
           f == [j \in 1..m |-> n - 2 * (j - 1)]
<1>1. f \in [1..m -> B] /\ \A b \in B : \E j \in 1..m : f[j] = b
  BY Zenon DEF Lately
<1>2. ASSUME NEW j \in 1..m, NEW k \in 1..m, f[j] = f[k] PROVE j = k
  BY <1>2
<1>3. f \in Bijection(1..m, B)
  <2> HIDE DEF f, B
  <2> QED BY Zenon, <1>1, <1>2 DEF Bijection, Injection, Surjection, IsInjective
<1>4. IsFiniteSet(1..m) /\ Cardinality(1..m) = m
  BY FS_Interval
<1> HIDE DEF f, B
<1>5. IsFiniteSet(B) /\ Cardinality(B) = m
  BY Zenon, <1>3, <1>4, FS_Bijection DEF ExistsBijection
<1> QED BY Zenon, <1>5 DEF B

\* The arrivals among the events that are at most Window old.
Taps(events, now) ==
  {i \in DOMAIN events : events[i].type = "ARRIVE" /\ now - events[i].time <= Window}

\* The test of trigger_edgeevent, on the one entry it looks up, counts them.
LEMMA TapCount ==
  ASSUME NEW es, NEW events, NEW now \in Nat, now >= StartTime, Kept(es, events, now),
         es.last = "ARRIVE"
  PROVE  now - Entry(es, TapStart) <= Window <=> Cardinality(Taps(events, now)) >= Num
<1> DEFINE n == Len(events)
           start == TapStart
           W == Taps(events, now)
<1>1. /\ events \in Seq(Event) /\ n \in Nat /\ DOMAIN events = 1..n
      /\ \A i \in 1..n : events[i].time \in Nat
  <2>1. events \in Seq(Event)
    BY Zenon DEF Kept
  <2>2. n \in Nat /\ DOMAIN events = 1..n /\ \A i \in 1..n : events[i] \in Event
    BY <2>1
  <2> QED BY Zenon, <2>1, <2>2 DEF Event
<1>2. /\ Num \in Nat /\ Num >= 1 /\ Window \in Nat /\ StartTime \in Nat /\ StartTime > Window
      /\ HISTLEN \in Nat
  BY EdgeSwitchAssumption
<1>3. start = 2 * (Num - 1) /\ start \in 0..HISTLEN - 1
  BY EdgeSwitchAssumption DEF TapStart
<1>4. n % 2 = 1
  BY Zenon DEF Kept, Kind
<1>5. \A i \in 1..n : events[i].type = "ARRIVE" <=> i % 2 = 1
  BY Zenon DEF Kept, Kind
<1>6. \A i, j \in 1..n : i <= j => events[i].time <= events[j].time
  BY Zenon DEF Kept
<1>7. Entry(es, start) = IF start < n THEN events[n - start].time ELSE 0
  BY Zenon, <1>3 DEF Kept
<1> HIDE DEF start, n
<1>8. \A i : i \in W <=> i \in 1..n /\ i % 2 = 1 /\ now - events[i].time <= Window
  BY Zenon, <1>1, <1>5 DEF Taps
<1> HIDE DEF W
<1>9. IsFiniteSet(W) /\ Cardinality(W) \in Nat
  <2>n. n \in Int /\ 1 \in Int
    BY <1>1
  <2>1. W \in SUBSET (1..n) /\ IsFiniteSet(1..n)
    BY Zenon, <1>8, <2>n, FS_Interval
  <2> QED BY Zenon, <2>1, FS_Subset, FS_CardinalityType
<1>10. ASSUME now - Entry(es, start) <= Window PROVE Cardinality(W) >= Num
  <2>1. start < n /\ now - events[n - start].time <= Window
    BY <1>2, <1>7, <1>10
  <2>2. ASSUME NEW b \in Lately(n, Num) PROVE b \in W
    <3>1. PICK j \in 1..Num : b = n - 2 * (j - 1)
      BY Zenon DEF Lately
    <3>2. b \in 1..n /\ n - start \in 1..n /\ n - start <= b
      BY <1>1, <1>2, <1>3, <2>1, <3>1
    <3>3. b % 2 = 1
      BY <1>1, <1>2, <1>4, <3>1
    <3>4. events[n - start].time <= events[b].time
      BY Zenon, <1>6, <3>2
    <3>5. events[b].time \in Nat /\ events[n - start].time \in Nat
      BY Zenon, <1>1, <3>2
    <3>6. now - events[b].time <= Window
      BY <1>2, <2>1, <3>4, <3>5
    <3> QED BY Zenon, <1>8, <3>2, <3>3, <3>6
  <2>3. Cardinality(Lately(n, Num)) <= Cardinality(W)
    BY Zenon, <1>9, <2>2, FS_Subset
  <2>4. Cardinality(Lately(n, Num)) = Num
    BY Zenon, <1>1, <1>2, LatelyCount
  <2> QED BY Zenon, <1>2, <1>9, <2>3, <2>4
<1>11. ASSUME ~(now - Entry(es, start) <= Window) PROVE Cardinality(W) < Num
  <2> DEFINE m == Num - 1
  <2>1. m \in Nat
    BY <1>2
  <2>2. ASSUME NEW b \in W PROVE b \in Lately(n, m)
    <3>1. b \in 1..n /\ b % 2 = 1 /\ now - events[b].time <= Window
      BY Zenon, <1>8
    <3>2. PICK k \in Nat : n - b = 2 * k
      <4>1. ASSUME NEW z \in Nat, z % 2 = 1
            PROVE  z = 2 * (z \div 2) + 1 /\ z \div 2 \in Nat
        BY <4>1
      <4>2. PICK x \in Nat : n = 2 * x + 1
        BY Zenon, <1>1, <1>4, <4>1
      <4>3. PICK y \in Nat : b = 2 * y + 1
        BY <3>1, <4>1
      <4>4. x - y \in Nat /\ n - b = 2 * (x - y)
        BY <3>1, <4>2, <4>3
      <4> QED BY Zenon, <4>4
    <3>3. k < m
      <4> SUFFICES ASSUME k >= m PROVE FALSE
        BY <2>1
      <4>1. n - start \in 1..n /\ b <= n - start /\ start < n
        BY <1>1, <1>2, <1>3, <3>1, <3>2
      <4>2. events[b].time <= events[n - start].time
        BY Zenon, <1>6, <3>1, <4>1
      <4>3. events[b].time \in Nat /\ events[n - start].time \in Nat
        BY Zenon, <1>1, <3>1, <4>1
      <4>4. ~(now - events[n - start].time <= Window)
        BY Zenon, <1>7, <1>11, <4>1
      <4> QED BY <1>2, <3>1, <4>2, <4>3, <4>4
    <3>4. k + 1 \in 1..m /\ b = n - 2 * ((k + 1) - 1)
      BY <1>1, <2>1, <3>1, <3>2, <3>3
    <3> HIDE DEF m
    <3> QED BY Zenon, <3>4 DEF Lately
  <2>3. IsFiniteSet(Lately(n, m)) /\ Cardinality(Lately(n, m)) = m
    <3> HIDE DEF m
    <3> QED BY Zenon, <1>1, <2>1, LatelyCount
  <2>4. Cardinality(W) <= m
    <3> HIDE DEF m
    <3> QED BY Zenon, <2>2, <2>3, FS_Subset
  <2> QED BY <1>2, <1>9, <2>4
<1> QED BY <1>2, <1>9, <1>10, <1>11 DEF start, W

-----------------------------------------------------------------------------
\* A call of check_edgeevents that is under way: it has directions left to do,
\* unless it waits in the last one.
Turn == [todo : SUBSET Directions, mask : SUBSET Directions, waiting : BOOLEAN]
Underway(x) == x \in Turn /\ (x.todo # {} \/ x.waiting)
LoopsOK(l) == l \in Seq(Turn) /\ \A i \in 1..Len(l) : Underway(l[i])

LEMMA FirstIs ==
  ASSUME NEW D \in SUBSET Directions, D # {}
  PROVE  First(D) \in D
<1>1. \A d \in D : d \in {"LEFT", "RIGHT", "UP", "DOWN"}
  BY Zenon, EdgeSwitchAssumption
<1>2. \E d \in D : \A x \in D \ {d} : \/ d = "LEFT"
                                      \/ d = "RIGHT" /\ x # "LEFT"
                                      \/ d = "UP" /\ x = "DOWN"
  <2>1. CASE "LEFT" \in D
    BY Zenon, <2>1
  <2>2. CASE "LEFT" \notin D /\ "RIGHT" \in D
    BY Zenon, <2>2
  <2>3. CASE "LEFT" \notin D /\ "RIGHT" \notin D /\ "UP" \in D
    BY Zenon, <1>1, <2>3
  <2>4. CASE "LEFT" \notin D /\ "RIGHT" \notin D /\ "UP" \notin D
    <3>1. \A d \in D : d = "DOWN"
      BY Zenon, <1>1, <2>4
    <3> QED BY Zenon, <3>1
  <2> QED BY Zenon, <2>1, <2>2, <2>3, <2>4
<1> QED BY Zenon, <1>2 DEF First

\* What happens to the loops: a call begins, one ends, the innermost goes on.
LEMMA PushLoop ==
  ASSUME NEW l, LoopsOK(l), NEW x, Underway(x)
  PROVE  /\ LoopsOK(<<x>> \o l) /\ <<x>> \o l # <<>>
         /\ Len(<<x>> \o l) = Len(l) + 1 /\ (<<x>> \o l)[1] = x
<1> DEFINE new == <<x>> \o l
<1>1. l \in Seq(Turn) /\ x \in Turn /\ Len(l) \in Nat
  BY DEF LoopsOK, Underway
<1>2. /\ new \in Seq(Turn) /\ Len(new) = Len(l) + 1 /\ new[1] = x /\ new # <<>>
      /\ \A i \in 2..Len(l) + 1 : new[i] = l[i - 1]
  BY <1>1
<1> HIDE DEF new
<1>3. ASSUME NEW i \in 1..Len(new) PROVE Underway(new[i])
  <2>1. CASE i = 1
    BY Zenon, <1>2, <2>1
  <2>2. CASE i # 1
    <3>1. i \in 2..Len(l) + 1 /\ i - 1 \in 1..Len(l)
      BY <1>1, <1>2, <2>2
    <3> QED BY Zenon, <1>2, <3>1 DEF LoopsOK
  <2> QED BY Zenon, <2>1, <2>2
<1>4. LoopsOK(new)
  BY Zenon, <1>2, <1>3 DEF LoopsOK
<1> QED BY Zenon, <1>2, <1>4 DEF new

LEMMA PopLoop ==
  ASSUME NEW l, LoopsOK(l), l # <<>>
  PROVE  LoopsOK(Tail(l)) /\ Len(Tail(l)) = Len(l) - 1 /\ Underway(l[1])
<1>1. l \in Seq(Turn) /\ Len(l) \in Nat /\ Len(l) >= 1
  BY DEF LoopsOK
<1> DEFINE new == Tail(l)
<1>2. new \in Seq(Turn) /\ Len(new) = Len(l) - 1 /\ \A i \in 1..Len(l) - 1 : new[i] = l[i + 1]
  BY <1>1
<1> HIDE DEF new
<1>3. ASSUME NEW i \in 1..Len(new) PROVE Underway(new[i])
  <2>1. i \in 1..Len(l) - 1 /\ i + 1 \in 1..Len(l)
    BY <1>1, <1>2
  <2> QED BY Zenon, <1>2, <2>1 DEF LoopsOK
<1>4. Underway(l[1])
  BY <1>1 DEF LoopsOK
<1>5. LoopsOK(new)
  BY Zenon, <1>2, <1>3 DEF LoopsOK
<1> QED BY Zenon, <1>2, <1>4, <1>5 DEF new

LEMMA SetLoop ==
  ASSUME NEW l, LoopsOK(l), l # <<>>, NEW x, Underway(x)
  PROVE  /\ LoopsOK([l EXCEPT ![1] = x]) /\ [l EXCEPT ![1] = x] # <<>>
         /\ Len([l EXCEPT ![1] = x]) = Len(l) /\ [l EXCEPT ![1] = x][1] = x
<1>1. l \in Seq(Turn) /\ Len(l) \in Nat /\ Len(l) >= 1 /\ x \in Turn
  BY DEF LoopsOK, Underway
<1> DEFINE new == [l EXCEPT ![1] = x]
<1>2. /\ new \in Seq(Turn) /\ Len(new) = Len(l) /\ new[1] = x /\ new # <<>>
      /\ \A i \in 2..Len(l) : new[i] = l[i]
  BY <1>1
<1> HIDE DEF new
<1>3. ASSUME NEW i \in 1..Len(new) PROVE Underway(new[i])
  <2>1. CASE i = 1
    BY Zenon, <1>2, <2>1
  <2>2. CASE i # 1
    <3>1. i \in 2..Len(l) /\ i \in 1..Len(l)
      BY <1>1, <1>2, <2>2
    <3> QED BY Zenon, <1>2, <3>1 DEF LoopsOK
  <2> QED BY Zenon, <2>1, <2>2
<1>4. LoopsOK(new)
  BY Zenon, <1>2, <1>3 DEF LoopsOK
<1> QED BY Zenon, <1>2, <1>4 DEF new

-----------------------------------------------------------------------------
\* Unless a call of check_edgeevents came during the wait of another, there is
\* one at most, it has the mask of the node, and the directions it still has to
\* do are those in which the mask and the ring disagree.
Synced(l, mask, edges) ==
  /\ Len(l) <= 1
  /\ l # <<>> => l[1].mask = mask
  /\ \A d \in Directions :
       (d \in mask <=> edges[d].last = "ARRIVE") <=> ~(l # <<>> /\ d \in l[1].todo)

EdgeTypes ==
  /\ clock \in Nat /\ clock >= StartTime
  /\ edgemask \in SUBSET Directions /\ reentered \in BOOLEAN
  /\ ring \in [Directions -> Edge] /\ log \in [Directions -> Seq(Event)]

EInv ==
  /\ EdgeTypes
  /\ \A d \in Directions : Kept(ring[d], log[d], clock)
  /\ LoopsOK(loops)
  /\ ~reentered => Synced(loops, edgemask, ring)
  /\ MultiTap

LEMMA EdgesInitial == Init => EInv
<1> SUFFICES ASSUME Init PROVE EInv
  BY Zenon
<1> DEFINE zero == [times |-> [i \in 0..HISTLEN - 1 |-> 0], idx |-> 0, last |-> "DEPART"]
<1>1. HISTLEN \in Nat \ {0} /\ StartTime \in Nat
  BY Zenon, EdgeSwitchAssumption
<1>2. zero \in Edge /\ zero.idx = 0 /\ zero.last = "DEPART"
      /\ \A i \in 0..HISTLEN - 1 : zero.times[i] = 0
  BY <1>1 DEF Edge, Kinds
<1>3. /\ clock = StartTime /\ edgemask = {} /\ loops = <<>> /\ tried = <<>> /\ reentered = FALSE
      /\ ring = [d \in Directions |-> zero] /\ log = [d \in Directions |-> <<>>]
  BY Zenon DEF Init
<1> HIDE DEF zero
<1>4. ASSUME NEW rel \in 0..HISTLEN - 1 PROVE Entry(zero, rel) = 0
  <2>1. zero.idx \in 0..HISTLEN - 1
    BY <1>1, <1>2
  <2>2. Entry(zero, rel) = zero.times[IF rel <= zero.idx THEN zero.idx - rel
                                      ELSE zero.idx - rel + HISTLEN]
    BY Zenon, <2>1, EntryIs
  <2>3. (IF rel <= 0 THEN 0 - rel ELSE 0 - rel + HISTLEN) \in 0..HISTLEN - 1
    BY <1>1
  <2> QED BY Zenon, <1>2, <2>2, <2>3
<1>5. Kept(zero, <<>>, clock)
  <2>1. <<>> \in Seq(Event) /\ Len(<<>>) = 0
    OBVIOUS
  <2>2. zero.last = Kind(0)
    BY <1>2 DEF Kind
  <2> QED BY <1>1, <1>2, <1>4, <2>1, <2>2 DEF Kept
<1>6. EdgeTypes
  <2> DEFINE none == <<>>
  <2>1. none \in Seq(Event)
    OBVIOUS
  <2>2. log = [d \in Directions |-> none]
    BY Zenon, <1>3
  <2> HIDE DEF none
  <2>3. ring \in [Directions -> Edge] /\ log \in [Directions -> Seq(Event)]
    BY Zenon, <1>2, <1>3, <2>1, <2>2
  <2>4. clock = StartTime /\ edgemask = {} /\ reentered = FALSE
    BY Zenon, <1>3
  <2>5. clock \in Nat /\ clock >= StartTime
    BY <1>1, <2>4
  <2>6. edgemask \in SUBSET Directions /\ reentered \in BOOLEAN
    BY <2>4, Zenon
  <2> QED BY <2>3, <2>5, <2>6, Zenon DEF EdgeTypes
<1>7. LoopsOK(loops)
  BY <1>3 DEF LoopsOK
<1>8. Synced(loops, edgemask, ring)
  BY <1>2, <1>3 DEF Synced
<1>9. MultiTap
  BY Zenon, <1>3 DEF MultiTap
<1> QED BY Zenon, <1>3, <1>5, <1>6, <1>7, <1>8, <1>9 DEF EInv

\* check_edgeevents begins.
LEMMA PointerAtStep ==
  ASSUME EInv, NEW mask \in Masks, PointerAt(mask)
  PROVE  EInv'
<1> DEFINE todo == (edgemask \ mask) \cup (mask \ edgemask)
           x == [todo |-> todo, mask |-> mask, waiting |-> FALSE]
<1>1. /\ todo # {} /\ edgemask' = mask /\ loops' = <<x>> \o loops
      /\ reentered' = (reentered \/ loops # <<>>)
      /\ UNCHANGED <<clock, ring, log, tried>>
  BY Zenon DEF PointerAt
<1>2. EdgeTypes /\ mask \in SUBSET Directions
  BY Zenon DEF EInv, Masks
<1>3. Underway(x) /\ x.todo = todo /\ x.mask = mask
  BY Zenon, <1>1, <1>2 DEF Underway, Turn, EdgeTypes
<1>4. LoopsOK(loops') /\ loops' # <<>> /\ Len(loops') = Len(loops) + 1 /\ loops'[1] = x
  <2> HIDE DEF x
  <2> QED BY Zenon, <1>1, <1>3, PushLoop DEF EInv
<1>5. ASSUME ~reentered' PROVE Synced(loops', edgemask', ring')
  <2>1. ~reentered /\ loops = <<>> /\ Len(loops) = 0
    BY Zenon, <1>1, <1>5
  <2>2. \A d \in Directions : d \in edgemask <=> ring[d].last = "ARRIVE"
    BY Zenon, <2>1 DEF EInv, Synced
  <2>3. \A d \in Directions :
          (d \in mask <=> ring[d].last = "ARRIVE") <=> ~(d \in todo)
    BY Zenon, <2>2
  <2> HIDE DEF x
  <2> QED BY <1>1, <1>3, <1>4, <2>1, <2>3 DEF Synced
<1>6. EdgeTypes'
  BY Zenon, <1>1, <1>2 DEF EdgeTypes
<1>7. MultiTap'
  <2>1. MultiTap /\ UNCHANGED <<tried, log>>
    BY Zenon, <1>1 DEF EInv
  <2> QED BY Zenon, <2>1 DEF MultiTap
<1>8. \A d \in Directions : Kept(ring[d], log[d], clock)'
  BY Zenon, <1>1 DEF EInv
<1> HIDE DEF todo, x
<1> QED BY Zenon, <1>4, <1>5, <1>6, <1>7, <1>8 DEF EInv

\* focus_node returns from its wait.
LEMMA ResumeStep ==
  ASSUME EInv, Resume
  PROVE  EInv'
<1>1. /\ loops # <<>> /\ loops[1].waiting
      /\ loops' = IF loops[1].todo = {} THEN Tail(loops) ELSE [loops EXCEPT ![1].waiting = FALSE]
      /\ UNCHANGED <<clock, edgemask, ring, log, tried, reentered>>
  BY Zenon DEF Resume
<1>2. LoopsOK(loops) /\ LoopsOK(Tail(loops)) /\ Len(Tail(loops)) = Len(loops) - 1
      /\ Underway(loops[1]) /\ loops \in Seq(Turn) /\ Len(loops) \in Nat
  BY <1>1, PopLoop DEF EInv, LoopsOK
<1> DEFINE x == [loops[1] EXCEPT !.waiting = FALSE]
<1>3. ASSUME loops[1].todo # {}
      PROVE  /\ LoopsOK(loops') /\ loops' # <<>> /\ Len(loops') = Len(loops)
             /\ loops'[1].todo = loops[1].todo /\ loops'[1].mask = loops[1].mask
  <2>1. Underway(x) /\ x.todo = loops[1].todo /\ x.mask = loops[1].mask
    BY Zenon, <1>2, <1>3 DEF Underway, Turn
  <2>2. loops' = [loops EXCEPT ![1] = x]
    <3>1. 1 \in DOMAIN loops
      BY <1>1, <1>2
    <3> QED BY Zenon, <1>1, <1>3, <3>1
  <2> DEFINE new == [loops EXCEPT ![1] = x]
  <2>3. LoopsOK(new) /\ new # <<>> /\ Len(new) = Len(loops) /\ new[1] = x
    <3> HIDE DEF x
    <3> QED BY Zenon, <1>1, <1>2, <2>1, SetLoop
  <2>4. loops' = new
    BY Zenon, <2>2
  <2> HIDE DEF x, new
  <2> QED BY Zenon, <2>1, <2>3, <2>4
<1>4. LoopsOK(loops')
  BY Zenon, <1>1, <1>2, <1>3
<1>5. ASSUME ~reentered' PROVE Synced(loops', edgemask', ring')
  <2>1. Synced(loops, edgemask, ring)
    BY Zenon, <1>1, <1>5 DEF EInv
  <2>2. CASE loops[1].todo = {}
    <3>1. loops' = <<>> /\ Len(loops') = 0
      BY <1>1, <1>2, <2>1, <2>2 DEF Synced, LoopsOK
    <3> QED BY <1>1, <2>1, <2>2, <3>1 DEF Synced
  <2>3. CASE loops[1].todo # {}
    BY Zenon, <1>1, <1>3, <2>1, <2>3 DEF Synced
  <2> QED BY Zenon, <2>2, <2>3
<1>6. EdgeTypes'
  BY Zenon, <1>1 DEF EInv, EdgeTypes
<1>7. MultiTap'
  <2>1. MultiTap /\ UNCHANGED <<tried, log>>
    BY Zenon, <1>1 DEF EInv
  <2> QED BY Zenon, <2>1 DEF MultiTap
<1>8. \A d \in Directions : Kept(ring[d], log[d], clock)'
  BY Zenon, <1>1 DEF EInv
<1> QED BY Zenon, <1>4, <1>5, <1>6, <1>7, <1>8 DEF EInv

LEMMA TickStep ==
  ASSUME EInv, Tick
  PROVE  EInv'
<1>1. clock' = clock + 1 /\ tried' = <<>> /\ UNCHANGED <<edgemask, ring, loops, log, reentered>>
  BY Zenon DEF Tick
<1>2. EdgeTypes /\ EdgeTypes'
  BY <1>1, EdgeSwitchAssumption DEF EInv, EdgeTypes
<1>3. ASSUME NEW d \in Directions PROVE Kept(ring[d], log[d], clock)'
  <2>1. Kept(ring[d], log[d], clock) /\ clock \in Nat
    BY Zenon, <1>2 DEF EInv, EdgeTypes
  <2>2. \A i \in 1..Len(log[d]) : log[d][i].time \in Int
    <3>1. log[d] \in Seq(Event)
      BY Zenon, <2>1 DEF Kept
    <3>2. \A i \in 1..Len(log[d]) : log[d][i] \in Event
      BY <3>1
    <3> QED BY <3>2 DEF Event
  <2>3. \A i \in 1..Len(log[d]) : log[d][i].time <= clock + 1
    BY <2>1, <2>2 DEF Kept
  <2> QED BY Zenon, <1>1, <2>1, <2>3 DEF Kept
<1>4. MultiTap'
  BY Zenon, <1>1 DEF MultiTap
<1>5. LoopsOK(loops') /\ (~reentered' => Synced(loops', edgemask', ring'))
  BY Zenon, <1>1 DEF EInv
<1> QED BY Zenon, <1>2, <1>3, <1>4, <1>5 DEF EInv

\* One turn of the loop: trigger_edgeevent records the event and tests for taps.
LEMMA EdgeEventStep ==
  ASSUME EInv, NEW wait \in BOOLEAN, EdgeEvent(wait)
  PROVE  EInv'
<1> DEFINE loop == loops[1]
           d == First(loop.todo)
           kind == IF d \in loop.mask THEN "ARRIVE" ELSE "DEPART"
           es == Record(ring[d], kind, clock)
           fresh == kind # ring[d].last
           fires == fresh /\ kind = "ARRIVE" /\ clock - Entry(es, TapStart) <= Window
           e == [type |-> kind, time |-> clock]
           rest == loop.todo \ {d}
           x == [loop EXCEPT !.todo = rest, !.waiting = wait]
<1>1. loops # <<>> /\ ~loop.waiting /\ ring' = [ring EXCEPT ![d] = es]
      /\ UNCHANGED <<clock, edgemask, reentered>>
  BY Zenon, SMTT(30) DEF EdgeEvent
<1>2. log' = IF fresh THEN [log EXCEPT ![d] = Append(@, e)] ELSE log
  BY Zenon, SMTT(30) DEF EdgeEvent
<1>3. tried' = IF kind = "DEPART" THEN <<>>
               ELSE <<[dir |-> d, time |-> clock,
                       outcome |-> CASE ~fresh -> "ignored"
                                     [] fresh /\ fires -> "switch"
                                     [] fresh /\ ~fires -> "recorded"]>>
  BY Zenon, SMTT(30) DEF EdgeEvent
<1>4. loops' = IF rest = {} /\ ~wait THEN Tail(loops)
               ELSE [loops EXCEPT ![1].todo = rest, ![1].waiting = wait]
  BY Zenon DEF EdgeEvent
<1>5. EdgeTypes /\ LoopsOK(loops) /\ loops \in Seq(Turn) /\ Len(loops) \in Nat
  BY DEF EInv, LoopsOK
<1>6. LoopsOK(Tail(loops)) /\ Len(Tail(loops)) = Len(loops) - 1 /\ Underway(loop)
  BY Zenon, <1>1, <1>5, PopLoop
<1>7. loop \in Turn /\ loop.todo # {} /\ loop.todo \in SUBSET Directions
  BY Zenon, <1>1, <1>6 DEF Underway, Turn
<1>8. d \in loop.todo /\ d \in Directions
  <2> HIDE DEF d, loop
  <2> QED BY Zenon, <1>7, FirstIs DEF d
<1>9. kind \in Kinds /\ e \in Event /\ e.type = kind /\ e.time = clock
  BY Zenon, <1>5 DEF Kinds, Event, EdgeTypes
<1>10. Kept(ring[d], log[d], clock) /\ clock \in Nat /\ clock >= StartTime
  BY Zenon, <1>5, <1>8 DEF EInv, EdgeTypes
<1>11. (rest # {} \/ wait) => Underway(x)
  BY Zenon, <1>7 DEF Underway, Turn
<1>12. x.todo = rest /\ x.mask = loop.mask
  BY Zenon, <1>7 DEF Turn
<1>13. ASSUME rest # {} \/ wait
       PROVE  LoopsOK(loops') /\ loops' # <<>> /\ Len(loops') = Len(loops) /\ loops'[1] = x
  <2> DEFINE new == [loops EXCEPT ![1] = x]
  <2>1. LoopsOK(new) /\ new # <<>> /\ Len(new) = Len(loops) /\ new[1] = x
    <3> HIDE DEF x, rest, loop
    <3> QED BY Zenon, <1>1, <1>5, <1>11, <1>13, SetLoop
  <2>2. loops' = new
    <3>1. 1 \in DOMAIN loops
      BY <1>1, <1>5
    <3> HIDE DEF rest
    <3> QED BY Zenon, <1>4, <1>13, <3>1
  <2> HIDE DEF x, new
  <2> QED BY Zenon, <2>1, <2>2
<1>14. ~(rest # {} \/ wait) => loops' = Tail(loops)
  BY Zenon, <1>4
<1>15. LoopsOK(loops')
  BY ZenonT(30), <1>6, <1>13, <1>14
<1>16. Kept(es, IF fresh THEN Append(log[d], e) ELSE log[d], clock) /\ es.last = kind
  <2>1. CASE fresh
    <3>1. Kept(es, Append(log[d], e), clock)
      <4> HIDE DEF d, kind
      <4> QED BY Zenon, <1>9, <1>10, <2>1, RecordKept
    <3>2. es.last = kind
      BY Zenon, <2>1 DEF Record
    <3> HIDE DEF es, e
    <3> QED BY Zenon, <2>1, <3>1, <3>2
  <2>2. CASE ~fresh
    <3>1. es = ring[d]
      BY Zenon, <2>2 DEF Record
    <3> HIDE DEF es, e, d
    <3> QED BY Zenon, <1>10, <2>2, <3>1 DEF fresh
  <2> QED BY Zenon, <2>1, <2>2
<1>h. loop = loops[1] /\ loops # <<>>
  BY Zenon, <1>1
<1> HIDE DEF loop, d, es, e, x
<1>17. log'[d] = (IF fresh THEN Append(log[d], e) ELSE log[d]) /\ ring'[d] = es
       /\ \A f \in Directions : f # d => log'[f] = log[f] /\ ring'[f] = ring[f]
  <2>1. d \in Directions
    BY Zenon, <1>8
  <2>2. DOMAIN log = Directions /\ DOMAIN ring = Directions
    BY Zenon, <1>5 DEF EdgeTypes
  <2>3. ring' = [ring EXCEPT ![d] = es]
    BY Zenon, <1>1
  <2> HIDE DEF fresh
  <2>4. ring'[d] = es /\ \A f \in Directions : f # d => ring'[f] = ring[f]
    BY <2>1, <2>2, <2>3
  <2>5. /\ log'[d] = IF fresh THEN Append(log[d], e) ELSE log[d]
        /\ \A f \in Directions : f # d => log'[f] = log[f]
    BY Zenon, <1>2, <2>1, <2>2
  <2> QED BY Zenon, <2>4, <2>5
<1>18. EdgeTypes'
  <2>1. es \in Edge /\ (fresh => Append(log[d], e) \in Seq(Event))
    <3> HIDE DEF fresh
    <3> QED BY Zenon, <1>16 DEF Kept
  <2> HIDE DEF fresh
  <2> QED BY Zenon, <1>1, <1>2, <1>5, <1>8, <2>1 DEF EdgeTypes
<1>19. ASSUME NEW f \in Directions PROVE Kept(ring[f], log[f], clock)'
  <2>1. CASE f = d
    <3> HIDE DEF fresh
    <3> QED BY Zenon, <1>1, <1>16, <1>17, <2>1
  <2>2. CASE f # d
    BY Zenon, <1>1, <1>17, <2>2 DEF EInv
  <2> QED BY Zenon, <2>1, <2>2
<1>20. ASSUME ~reentered' PROVE Synced(loops', edgemask', ring')
  <2>1. Synced(loops, edgemask, ring)
    BY Zenon, <1>1, <1>20 DEF EInv
  <2>2. loop.mask = edgemask /\ Len(loops) = 1
    <3>1. Len(loops) <= 1 /\ (loops # <<>> => loops[1].mask = edgemask)
      BY <2>1, Zenon DEF Synced
    <3>2. Len(loops) >= 1
      BY <1>5, <1>h
    <3>3. Len(loops) \in Nat
      BY <1>5, Zenon
    <3>4. ASSUME NEW n \in Nat, n <= 1, n >= 1 PROVE n = 1
      BY <3>4
    <3>5. Len(loops) = 1
      BY <3>1, <3>2, <3>3, <3>4, Zenon
    <3> QED BY <1>h, <3>1, <3>5, Zenon
  <2>3. \A f \in Directions : (f \in edgemask <=> ring[f].last = "ARRIVE") <=> f \notin loop.todo
    BY Zenon, <1>h, <2>1 DEF Synced
  <2>4. ASSUME NEW f \in Directions
        PROVE  (f \in edgemask <=> ring'[f].last = "ARRIVE") <=> f \notin rest
    <3>1. CASE f = d
      BY Zenon, <1>16, <1>17, <2>2, <3>1
    <3>2. CASE f # d
      BY Zenon, <1>17, <2>3, <3>2
    <3> QED BY Zenon, <3>1, <3>2
  <2> HIDE DEF rest
  <2>5. CASE rest # {} \/ wait
    BY <1>1, <1>12, <1>13, <2>2, <2>4, <2>5 DEF Synced
  <2>6. CASE ~(rest # {} \/ wait)
    <3>1. Len(loops') = 0 /\ loops' = <<>>
      BY <1>6, <1>14, <1>15, <2>2, <2>6 DEF LoopsOK
    <3>2. \A f \in Directions : f \in edgemask' <=> ring'[f].last = "ARRIVE"
      <4>1. edgemask' = edgemask /\ rest = {}
        BY Zenon, <1>1, <2>6
      <4> QED BY Zenon, <2>4, <4>1
    <3> QED BY <3>1, <3>2 DEF Synced
  <2> QED BY Zenon, <2>5, <2>6
<1>21. MultiTap'
  <2>1. CASE kind = "DEPART"
    BY Zenon, <1>3, <2>1 DEF MultiTap
  <2>2. CASE kind = "ARRIVE" /\ ~fresh
    <3>1. tried'[1].outcome = "ignored"
      BY Zenon, <1>3, <2>2
    <3> QED BY Zenon, <3>1 DEF MultiTap
  <2>3. CASE kind = "ARRIVE" /\ fresh
    <3>1. tried'[1].dir = d /\ tried'[1].time = clock
          /\ tried'[1].outcome = IF fires THEN "switch" ELSE "recorded"
      BY Zenon, <1>3, <2>3
    <3>2. fires <=> Cardinality(Taps(log'[d], clock)) >= Num
      <4>1. Kept(es, log'[d], clock) /\ es.last = "ARRIVE"
        BY Zenon, <1>16, <1>17, <2>3
      <4>2. clock - Entry(es, TapStart) <= Window <=> Cardinality(Taps(log'[d], clock)) >= Num
        BY Zenon, <1>10, <4>1, TapCount
      <4>3. fires <=> clock - Entry(es, TapStart) <= Window
        <5> HIDE DEF fresh, kind
        <5> QED BY Zenon, <2>3
      <4> QED BY <4>2, <4>3, Zenon
    <3> HIDE DEF fires, fresh
    <3> QED BY Zenon, <3>1, <3>2 DEF MultiTap, Taps
  <2> QED BY Zenon, <2>1, <2>2, <2>3
<1> QED BY Zenon, <1>15, <1>18, <1>19, <1>20, <1>21 DEF EInv

\* Every call of check_edgeevents and every turn of its loop keeps the invariant.
LEMMA EdgesInvariance == EInv /\ [Next]_vars => EInv'
<1> SUFFICES ASSUME EInv, [Next]_vars PROVE EInv'
  BY Zenon, SMTT(30)
<1>1. CASE UNCHANGED vars
  BY Zenon, <1>1 DEF vars, EInv, EdgeTypes, MultiTap
<1>2. CASE Next
  BY Zenon, <1>2, PointerAtStep, EdgeEventStep, ResumeStep, TickStep DEF Next
<1> QED BY Zenon, <1>1, <1>2

\* Whatever the length of the ring, the number of taps and the window, the one
\* entry that trigger_edgeevent looks up tells whether the edge was tapped often
\* enough, also when the ring has wrapped or is not yet full.
THEOREM TapsCounted == Spec => []MultiTap
<1>1. Init => EInv
  BY Zenon, EdgesInitial
<1>2. EInv => MultiTap
  BY Zenon DEF EInv
<1> QED BY <1>1, <1>2, EdgesInvariance, PTL DEF Spec

\* Between calls of check_edgeevents, none of which came during the wait of
\* another, edgemask and the rings agree on the edges the pointer is at.
THEOREM EdgesInSync == Spec => []InSync
<1>1. Init => EInv
  BY EdgesInitial
<1>2. EInv => InSync
  BY Zenon DEF EInv, Synced, InSync
<1> QED BY <1>1, <1>2, EdgesInvariance, PTL DEF Spec

-----------------------------------------------------------------------------
Types ==
  /\ pos \in Int /\ last_seen_mousepos \in Int
  /\ saved_mousepos \in Int /\ drift \in Int
  /\ motion \in Seq(Int)
  /\ phase \in {"local", "waiting", "remote"}

\* The pointer is where the last queued event saw it; between events it is near
\* the centre, and all of its motion has been sent.
Placed ==
  grabbed => /\ motion # <<>> => motion[Len(motion)] = pos
             /\ phase = "remote" /\ seen /\ motion = <<>> =>
                  /\ ~Far(pos)
                  /\ pos \in {screen_center, last_seen_mousepos}

\* The motion that has not been sent yet is that from the event handled last.
Accounted ==
  phase = "remote" /\ grabbed /\ exact => drift = last_seen_mousepos - pos

PInv == Types /\ Placed /\ Accounted

\* Nothing is queued at the start, and nothing is grabbed.
LEMMA PointerInitial == PointerInit => PInv
<1> SUFFICES ASSUME PointerInit PROVE PInv
  OBVIOUS
<1>1. motion \in Seq(Int) /\ pos \in Int
  BY PointerAssumption DEF PointerInit
<1> QED
  BY <1>1 DEF PointerInit, PInv, Types, Placed, Accounted

\* The centre is a position.
LEMMA CentreInt == screen_center \in Int
  BY PointerAssumption DEF screen_center

\* Appending an event makes it the last one.
LEMMA AppendLast ==
  ASSUME NEW s \in Seq(Int), NEW x \in Int
  PROVE  /\ Append(s, x) \in Seq(Int) /\ Append(s, x) # <<>>
         /\ Append(s, x)[Len(Append(s, x))] = x
  OBVIOUS

\* Taking the first event off leaves the last one in its place.
LEMMA TailLast ==
  ASSUME NEW s \in Seq(Int), s # <<>>
  PROVE  /\ Head(s) \in Int /\ Tail(s) \in Seq(Int)
         /\ Tail(s) # <<>> => Tail(s)[Len(Tail(s))] = s[Len(s)]
         /\ Tail(s) = <<>> => Len(s) = 1 /\ Head(s) = s[Len(s)]
         /\ Len(s) = 1 => Head(s) = s[Len(s)]
<1>1. Len(s) \in Nat /\ Len(s) > 0 /\ Head(s) = s[1] /\ s[1] \in Int
  OBVIOUS
<1>2. Tail(s) \in Seq(Int) /\ Len(Tail(s)) = Len(s) - 1
  OBVIOUS
<1>3. \A i \in 1..Len(s) - 1 : Tail(s)[i] = s[i + 1]
  OBVIOUS
<1>4. Tail(s) = <<>> <=> Len(Tail(s)) = 0
  <2>1. \A q \in Seq(Int) : q = <<>> <=> Len(q) = 0
    OBVIOUS
  <2> QED BY <1>2, <2>1, Zenon
<1>5. ASSUME Tail(s) # <<>> PROVE Tail(s)[Len(Tail(s))] = s[Len(s)]
  <2>1. Len(s) - 1 \in 1..Len(s) - 1
    BY <1>1, <1>2, <1>4, <1>5
  <2> QED
    BY <1>1, <1>2, <1>3, <2>1
<1> QED
  BY SMTT(30), <1>1, <1>2, <1>4, <1>5

\* Every motion of the user and every step of the program keeps the invariant.
LEMMA PointerStep ==
  ASSUME PInv, [PointerNext]_pointervars
  PROVE  PInv'
<1> USE CentreInt, PointerAssumption DEF PInv, Types
<1>1. ASSUME NEW d \in -MaxStep..MaxStep, UserMoves(d) PROVE PInv'
  <2> DEFINE p == IF pos + d < 0 THEN 0 ELSE IF pos + d > Width THEN Width ELSE pos + d
  <2>1. p \in Int /\ pos' = p
    BY <1>1 DEF UserMoves
  <2>2. motion' = IF grabbed THEN Append(motion, p) ELSE motion
    BY Zenon, <1>1 DEF UserMoves
  <2>3. drift' = IF phase = "remote" /\ exact THEN drift - (p - pos) ELSE drift
    BY Zenon, <1>1 DEF UserMoves
  <2>4. UNCHANGED <<phase, grabbed, last_seen_mousepos, saved_mousepos, exact, seen>>
    BY Zenon, <1>1 DEF UserMoves
  <2>5. Append(motion, p) \in Seq(Int) /\ Append(motion, p) # <<>>
        /\ Append(motion, p)[Len(Append(motion, p))] = p
    BY Zenon, <2>1, AppendLast
  <2> HIDE DEF p
  <2>6. Types'
    BY <2>1, <2>2, <2>3, <2>4, <2>5
  <2>7. Placed'
    BY Zenon, <2>1, <2>2, <2>4, <2>5 DEF Placed
  <2>8. Accounted'
    BY <2>1, <2>3, <2>4 DEF Accounted
  <2> QED
    BY Zenon, <2>6, <2>7, <2>8
<1>2. ASSUME NEW ok \in BOOLEAN, GrabInputs(ok) PROVE PInv'
  <2>1. Append(motion, screen_center) \in Seq(Int)
        /\ Append(motion, screen_center) # <<>>
        /\ Append(motion, screen_center)[Len(Append(motion, screen_center))] = screen_center
    BY Zenon, AppendLast
  <2>2. phase' = "waiting" /\ grabbed' = ok /\ drift' = 0 /\ saved_mousepos' = pos
        /\ UNCHANGED last_seen_mousepos
    BY Zenon, <1>2 DEF GrabInputs
  <2>3. /\ pos' = IF ok THEN screen_center ELSE pos
        /\ motion' = IF ok THEN Append(motion, screen_center) ELSE motion
    BY Zenon, <1>2 DEF GrabInputs
  <2>4. Types'
    BY <2>1, <2>2, <2>3
  <2>5. Placed'
    BY Zenon, <2>1, <2>2, <2>3 DEF Placed
  <2>6. Accounted'
    BY Zenon, <2>2 DEF Accounted
  <2> QED
    BY Zenon, <2>4, <2>5, <2>6
<1>3. CASE Focus
  <2>1. Types'
    BY <1>3 DEF Focus
  <2>2. Placed'
    BY Zenon, <1>3 DEF Focus, Placed
  <2>3. Accounted'
    BY Zenon, <1>3 DEF Focus, Accounted
  <2> QED
    BY Zenon, <2>1, <2>2, <2>3
<1>4. ASSUME NEW restore \in BOOLEAN, UngrabInputs(restore) PROVE PInv'
  <2>0. phase' = "local" /\ grabbed' = FALSE /\ exact' = FALSE /\ seen' = FALSE
        /\ drift' = 0 /\ pos' \in {saved_mousepos, pos}
        /\ UNCHANGED <<motion, last_seen_mousepos, saved_mousepos>>
    BY Zenon, <1>4 DEF UngrabInputs
  <2>1. Types'
    BY <2>0
  <2> QED
    BY Zenon, <1>4, <2>1 DEF UngrabInputs, Placed, Accounted
<1>5. CASE LocalMousemove
  <2>1. Head(motion) \in Int /\ Tail(motion) \in Seq(Int)
        /\ (Tail(motion) # <<>> => Tail(motion)[Len(Tail(motion))] = motion[Len(motion)])
    BY Zenon, <1>5, TailLast DEF LocalMousemove
  <2>2. Types'
    BY Zenon, <1>5, <2>1 DEF LocalMousemove
  <2>3. Placed'
    BY Zenon, <1>5, <2>1 DEF LocalMousemove, Placed
  <2>4. Accounted'
    BY Zenon, <1>5 DEF LocalMousemove, Accounted
  <2> QED
    BY <2>2, <2>3, <2>4
<1>6. CASE GrabbedMousemove
  <2> DEFINE x == Head(motion)
             t == Tail(motion)
  <2>1. /\ x \in Int /\ t \in Seq(Int)
        /\ t # <<>> => t[Len(t)] = motion[Len(motion)]
        /\ t = <<>> => x = motion[Len(motion)]
        /\ Len(motion) = 1 => x = motion[Len(motion)]
    BY Zenon, <1>6, TailLast DEF GrabbedMousemove
  <2>2. phase = "remote" /\ motion # <<>> /\ seen' = TRUE
        /\ UNCHANGED <<phase, grabbed, saved_mousepos>>
    BY Zenon, <1>6 DEF GrabbedMousemove
  <2>3. grabbed => motion[Len(motion)] = pos
    BY Zenon, <2>2 DEF Placed
  <2>4. CASE x = screen_center
    <3>1. motion' = t /\ UNCHANGED <<pos, last_seen_mousepos, drift, exact>>
      BY Zenon, <1>6, <2>4 DEF GrabbedMousemove
    <3>2. ~Far(screen_center)
      BY DEF Far, Abs
    <3>3. Placed'
      <4> HIDE DEF x, t
      <4> QED BY Zenon, <2>1, <2>2, <2>3, <2>4, <3>1, <3>2 DEF Placed, Far
    <3>4. Types' /\ Accounted'
      BY Zenon, <2>1, <2>2, <3>1 DEF Accounted
    <3> QED
      BY Zenon, <3>3, <3>4
  <2>5. CASE x # screen_center /\ ~Far(x)
    <3>1. motion' = t /\ last_seen_mousepos' = x /\ pos' = pos /\ (exact' <=> exact)
      BY Zenon, <1>6, <2>5 DEF GrabbedMousemove, NextLastSeen
    <3>2. drift' = IF exact THEN drift + (x - last_seen_mousepos) ELSE 0
      BY Zenon, <1>6, <2>5 DEF GrabbedMousemove
    <3> HIDE DEF x, t
    <3>3. Placed'
      BY Zenon, <2>1, <2>2, <2>3, <2>5, <3>1 DEF Placed, Far
    <3>4. Types'
      BY <2>1, <2>2, <3>1, <3>2
    <3>5. Accounted'
      BY <2>1, <2>2, <3>1, <3>2 DEF Accounted
    <3> QED
      BY Zenon, <3>3, <3>4, <3>5
  <2>6. CASE x # screen_center /\ Far(x)
    <3>1. /\ last_seen_mousepos' = screen_center /\ pos' = screen_center
          /\ exact' = (exact /\ Len(motion) = 1)
          /\ motion' = IF grabbed THEN Append(t, screen_center) ELSE t
      BY Zenon, <1>6, <2>6 DEF GrabbedMousemove, NextLastSeen
    <3>2. drift' = IF exact /\ Len(motion) = 1 THEN drift + (x - last_seen_mousepos) ELSE 0
      BY Zenon, <1>6, <2>6 DEF GrabbedMousemove
    <3>3. Append(t, screen_center) \in Seq(Int) /\ Append(t, screen_center) # <<>>
          /\ Append(t, screen_center)[Len(Append(t, screen_center))] = screen_center
      BY Zenon, <2>1, AppendLast
    <3> HIDE DEF x, t
    <3>4. Placed'
      BY Zenon, <2>2, <3>1, <3>3 DEF Placed
    <3>5. Types'
      BY <2>1, <2>2, <3>1, <3>2, <3>3
    <3>6. ASSUME phase' = "remote", grabbed', exact'
          PROVE  drift' = last_seen_mousepos' - pos'
      <4>1. exact /\ Len(motion) = 1 /\ grabbed /\ phase = "remote"
        BY Zenon, <2>2, <3>1, <3>6
      <4>2. x = pos /\ drift = last_seen_mousepos - pos
        BY Zenon, <2>1, <2>3, <4>1 DEF Accounted
      <4>3. drift' = 0
        BY <2>1, <3>2, <4>1, <4>2
      <4> QED
        BY <3>1, <4>3
    <3> QED
      BY Zenon, <3>4, <3>5, <3>6 DEF Accounted
  <2> QED
    BY Zenon, <2>4, <2>5, <2>6
<1>7. CASE UNCHANGED pointervars
  BY Zenon, <1>7 DEF pointervars, Placed, Accounted, Far
<1> QED
  BY Zenon, <1>1, <1>2, <1>3, <1>4, <1>5, <1>6, <1>7 DEF PointerNext

\* On any screen, however far and fast the mouse moves, handle_grabbed_mousemove
\* keeps the pointer near the centre and sends its motion (PointerFollows).
THEOREM Follows == PointerSpec => []PointerFollows
<1>1. PointerInit => PInv
  BY PointerInitial
<1>2. PInv /\ [PointerNext]_pointervars => PInv'
  BY PointerStep
<1>3. PInv => PointerFollows
  BY CentreInt DEF PInv, Types, Placed, Accounted, PointerFollows
<1> QED
  BY <1>1, <1>2, <1>3, PTL DEF PointerSpec
=============================================================================
