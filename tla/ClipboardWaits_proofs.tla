----------------------- MODULE ClipboardWaits_proofs -----------------------
(***************************************************************************)
(* The waits of get_clipboard_text.  The inductive invariant, CleanInv,    *)
(* says that for each of them an answer is to come, and that a call that   *)
(* was alone when it began and still is has one conversion under way,      *)
(* which ends with a text that PRIMARY had since, or with none.            *)
(***************************************************************************)
EXTENDS Clipboard_proofs, FiniteSetTheorems

\* The one conversion under way ends with a text of s, or with none.
Current(y, s) ==
  \/ Len(y.asks) = 1 /\ None(y.queue, Pending) /\ y.theirs \in s
  \/ /\ y.asks = <<>>
     /\ \E e \in Pending :
          /\ Lone(y.queue, e, Pending)
          /\ e.type = "Request" => y.cache \in s \cup {NULL, ""}
          /\ e.type = "Notify" /\ e.ok => y.prop \in s \cup {NULL, ""}

\* The answers to come.
ToCome(y) == Len(y.asks) + Cardinality(Answers(y.queue))

\* Waits w: there is an answer for each, and one that is alone is the only one
\* and its conversion is current.
Clean(w, y) ==
  /\ w \in Seq(Wait) /\ Len(w) <= ToCome(y)
  /\ \A i \in DOMAIN w : w[i].clean => Len(w) = 1 /\ Current(y, w[i].seen)

CleanInv == Clean(waits, x) /\ GetIsCurrent

-----------------------------------------------------------------------------
(***************************************************************************)
(* How many answers are to come.                                           *)
(***************************************************************************)
LEMMA AnswersFinite ==
  ASSUME NEW q \in Seq(Event)
  PROVE  IsFiniteSet(Answers(q)) /\ Cardinality(Answers(q)) \in Nat
<1>1. Answers(q) \in SUBSET (1..Len(q)) /\ Len(q) \in Int /\ 1 \in Int
  BY DEF Answers
<1>2. IsFiniteSet(1..Len(q))
  BY Zenon, <1>1, FS_Interval
<1> QED  BY Zenon, <1>1, <1>2, FS_Subset, FS_CardinalityType

\* An event adds one if it belongs to a conversion.
LEMMA AppendAnswers ==
  ASSUME NEW q \in Seq(Event), NEW ev \in Event
  PROVE  Cardinality(Answers(Append(q, ev)))
           = IF ev \in Pending THEN Cardinality(Answers(q)) + 1 ELSE Cardinality(Answers(q))
<1> DEFINE r == Append(q, ev)
           n == Len(q) + 1
           A == Answers(q)
<1>1. /\ DOMAIN q = 1..Len(q) /\ DOMAIN r = 1..n /\ Len(q) \in Nat /\ n \in DOMAIN r
      /\ r[n] = ev /\ n \notin DOMAIN q
  OBVIOUS
<1>2. \A i \in DOMAIN q : i \in DOMAIN r /\ r[i] = q[i]
  OBVIOUS
<1>3. \A i \in DOMAIN r : i = n \/ i \in DOMAIN q
  BY <1>1
<1>4. n \notin A /\ IsFiniteSet(A)
  BY Zenon, <1>1, AnswersFinite DEF Answers
<1> HIDE DEF r, n
<1>5. CASE ev \in Pending
  <2>1. ev.type = "Notify" \/ (ev.type = "Request" /\ ev.from = "us")
    BY Zenon, <1>5 DEF Pending
  <2>2. Answers(r) = A \cup {n}
    BY Zenon, <1>1, <1>2, <1>3, <2>1 DEF Answers
  <2>3. Cardinality(A \cup {n}) = Cardinality(A) + 1
    BY Zenon, <1>4, FS_AddElement
  <2> QED  BY Zenon, <1>5, <2>2, <2>3 DEF r
<1>6. CASE ev \notin Pending
  <2>1. ~(ev.type = "Notify" \/ (ev.type = "Request" /\ ev.from = "us"))
    BY Zenon, <1>6 DEF Pending
  <2>2. Answers(r) = A
    BY Zenon, <1>1, <1>2, <1>3, <2>1 DEF Answers
  <2> QED  BY Zenon, <1>6, <2>2 DEF r
<1> QED  BY Zenon, <1>5, <1>6

\* Its head taken off, a queue has one less if that belongs to a conversion.
LEMMA TailAnswers ==
  ASSUME NEW q \in Seq(Event), q # <<>>
  PROVE  Cardinality(Answers(Tail(q)))
           = IF Head(q) \in Pending THEN Cardinality(Answers(q)) - 1 ELSE Cardinality(Answers(q))
<1> DEFINE r == Tail(q)
           A == Answers(q)
           B == A \ {1}
           f == [i \in Answers(r) |-> i + 1]
<1>1. /\ DOMAIN q = 1..Len(q) /\ DOMAIN r = 1..Len(q) - 1 /\ Len(q) \in Nat \ {0}
      /\ 1 \in DOMAIN q /\ Head(q) = q[1] /\ r \in Seq(Event) /\ Head(q) \in Event
  OBVIOUS
<1>2. \A i \in DOMAIN r : i + 1 \in DOMAIN q /\ r[i] = q[i + 1] /\ i + 1 # 1 /\ i \in Int
  BY <1>1
<1>3. \A j \in DOMAIN q : j # 1 => j - 1 \in DOMAIN r /\ r[j - 1] = q[j] /\ (j - 1) + 1 = j
  BY <1>1
<1>4. IsFiniteSet(A) /\ IsFiniteSet(Answers(r))
  BY Zenon, <1>1, AnswersFinite
<1>5. 1 \in A <=> Head(q) \in Pending
  BY Zenon, <1>1 DEF Answers, Pending
<1>6. Cardinality(B) = IF 1 \in A THEN Cardinality(A) - 1 ELSE Cardinality(A)
  BY Zenon, <1>4, FS_RemoveElement
<1> HIDE DEF r
<1>7. ExistsBijection(Answers(r), B)
  <2>1. \A i \in Answers(r) : i + 1 \in B /\ i \in Int
    BY Zenon, <1>2 DEF Answers
  <2>2. \A j \in B : j - 1 \in Answers(r) /\ (j - 1) + 1 = j
    BY Zenon, <1>3 DEF Answers
  <2>3. \A i, j \in Answers(r) : i + 1 = j + 1 => i = j
    BY <2>1
  <2> HIDE DEF B
  <2>4. f \in Bijection(Answers(r), B)
    BY Zenon, <2>1, <2>2, <2>3 DEF Bijection, Injection, Surjection, IsInjective
  <2> QED  BY Zenon, <2>4 DEF ExistsBijection
<1>8. Cardinality(B) = Cardinality(Answers(r))
  BY Zenon, <1>4, <1>7, FS_Bijection
<1> QED  BY Zenon, <1>5, <1>6, <1>8 DEF r

-----------------------------------------------------------------------------
(***************************************************************************)
(* What the operators of Selection leave of a conversion that is under     *)
(* way.                                                                    *)
(***************************************************************************)
\* z has the conversions of y.
Undisturbed(y, z) ==
  /\ z.asks = y.asks /\ z.prop = y.prop /\ ToCome(z) = ToCome(y)
  /\ Keeps(y.queue, z.queue, Pending)

\* An event that belongs to no conversion joins the queue.
LEMMA JoinQuiet ==
  ASSUME NEW y \in SelectionState, NEW z, NEW ev \in Event, ev \notin Pending,
         z.asks = y.asks, z.prop = y.prop, z.queue \in {y.queue, Append(y.queue, ev)}
  PROVE  Undisturbed(y, z)
<1>1. y.queue \in Seq(Event)
  BY Zenon, Fields
<1>2. Keeps(y.queue, z.queue, Pending)
  BY ZenonT(30), <1>1, AppendKeeps, KeepsTrans
<1>3. Cardinality(Answers(z.queue)) = Cardinality(Answers(y.queue))
  BY Zenon, <1>1, AppendAnswers
<1> QED  BY Zenon, <1>2, <1>3 DEF Undisturbed, ToCome

LEMMA UndisturbedTrans ==
  \A y, z, u : Undisturbed(y, z) /\ Undisturbed(z, u) => Undisturbed(y, u)
BY Zenon, KeepsTrans DEF Undisturbed

\* A SelectionClear joins the queue, or nothing.
LEMMA ClearQuiet ==
  ASSUME NEW y \in SelectionState, NEW z, z.asks = y.asks, z.prop = y.prop,
         \E ev \in Event : ev.type = "Clear" /\ z.queue \in {y.queue, Append(y.queue, ev)}
  PROVE  Undisturbed(y, z)
<1>1. PICK ev \in Event : ev.type = "Clear" /\ z.queue \in {y.queue, Append(y.queue, ev)}
  BY Zenon
<1>2. ev \notin Pending
  BY Zenon, <1>1 DEF Pending
<1> QED  BY Zenon, <1>1, <1>2, JoinQuiet

\* get_xevent.
LEMMA NextCount ==
  ASSUME NEW y \in SelectionState, y.queue # <<>>, NEW z, z = GetXevent(y)
  PROVE  /\ Head(y.queue) \notin Pending => Undisturbed(y, z)
         /\ Head(y.queue) \in Pending => ToCome(z) = ToCome(y) - 1
<1> DEFINE q == y.queue
<1>1. q \in Seq(Event) /\ y.asks \in Seq(Nat) /\ q # <<>>
  BY Zenon, Fields
<1>2. z.queue = Tail(q) /\ z.asks = y.asks /\ z.prop = y.prop
  BY Zenon, NextFields
<1> HIDE DEF q
<1>3. /\ Cardinality(Answers(Tail(q))) = IF Head(q) \in Pending
                                         THEN Cardinality(Answers(q)) - 1
                                         ELSE Cardinality(Answers(q))
      /\ Cardinality(Answers(q)) \in Nat
  BY Zenon, <1>1, TailAnswers, AnswersFinite
<1>4. Head(q) \notin Pending => Keeps(q, Tail(q), Pending)
  BY Zenon, <1>1, TailKeeps
<1>5. Head(q) \notin Pending => Undisturbed(y, z)
  BY Zenon, <1>2, <1>3, <1>4 DEF Undisturbed, ToCome, q
<1>6. Head(q) \in Pending => ToCome(z) = ToCome(y) - 1
  <2>1. Len(y.asks) \in Nat
    BY <1>1
  <2> QED  BY <1>2, <1>3, <2>1 DEF ToCome, q
<1> QED  BY Zenon, <1>5, <1>6 DEF q

\* An event of a conversion joins the queue.
LEMMA JoinPending ==
  ASSUME NEW y \in SelectionState, NEW z, NEW ev \in Event, ev \in Pending,
         z.asks = y.asks, z.queue = Append(y.queue, ev)
  PROVE  ToCome(z) = ToCome(y) + 1
<1>1. y.queue \in Seq(Event) /\ y.asks \in Seq(Nat)
  BY Zenon, Fields
<1>2. /\ Cardinality(Answers(z.queue)) = Cardinality(Answers(y.queue)) + 1
      /\ Cardinality(Answers(y.queue)) \in Nat
  BY Zenon, <1>1, AppendAnswers, AnswersFinite
<1>3. Len(y.asks) \in Nat
  BY <1>1
<1> QED  BY SMTT(30), <1>2, <1>3 DEF ToCome

\* XConvertSelection: one more answer is to come.
LEMMA ConvertCount ==
  ASSUME NEW y \in SelectionState, NEW z, z = ConvertSelection(y)
  PROVE  ToCome(z) = ToCome(y) + 1
<1>1. \/ /\ y.owner["PRIMARY"] \in {"none", "us"} /\ z.asks = y.asks
         /\ \E e \in Event : /\ z.queue = Append(y.queue, e)
                            /\ Asks(y.owner["PRIMARY"], e)
      \/ /\ y.owner["PRIMARY"] = "them" /\ z.queue = y.queue
         /\ z.asks = Append(y.asks, y.lastev)
  BY Zenon, ConvertFields
<1>2. y.queue \in Seq(Event) /\ y.asks \in Seq(Nat) /\ y.lastev \in Nat
  BY Zenon, Fields
<1>3. ASSUME NEW e \in Event, Asks(y.owner["PRIMARY"], e), z.asks = y.asks,
             z.queue = Append(y.queue, e)
      PROVE  ToCome(z) = ToCome(y) + 1
  <2>1. e \in Pending
    BY Zenon, <1>3 DEF Asks, Pending
  <2> QED  BY Zenon, <1>3, <2>1, JoinPending
<1>4. CASE z.queue = y.queue /\ z.asks = Append(y.asks, y.lastev)
  <2>1. Len(z.asks) = Len(y.asks) + 1 /\ Len(y.asks) \in Nat
    BY <1>2, <1>4
  <2>2. Cardinality(Answers(y.queue)) \in Nat
    BY Zenon, <1>2, AnswersFinite
  <2> QED  BY <1>4, <2>1, <2>2 DEF ToCome
<1> QED  BY Zenon, <1>1, <1>3, <1>4

\* A SelectionNotify joins the queue: for a request of the process's own that
\* it serves, or for one that the other client owed it an answer to.
LEMMA NotifyCount ==
  ASSUME NEW y \in SelectionState, NEW z,
         \E n \in Event : n.type = "Notify" /\ z.queue = Append(y.queue, n)
  PROVE  /\ z.asks = y.asks => ToCome(z) = ToCome(y) + 1
         /\ y.asks # <<>> /\ z.asks = Tail(y.asks) => ToCome(z) = ToCome(y)
<1>1. PICK n \in Event : n.type = "Notify" /\ z.queue = Append(y.queue, n)
  BY Zenon
<1>2. n \in Pending
  BY Zenon, <1>1 DEF Pending
<1>3. y.queue \in Seq(Event) /\ y.asks \in Seq(Nat)
  BY Fields
<1>4. z.asks = y.asks => ToCome(z) = ToCome(y) + 1
  BY Zenon, <1>1, <1>2, JoinPending
<1>5. /\ Cardinality(Answers(z.queue)) = Cardinality(Answers(y.queue)) + 1
      /\ Cardinality(Answers(y.queue)) \in Nat
  BY Zenon, <1>1, <1>2, <1>3, AppendAnswers, AnswersFinite
<1>6. y.asks # <<>> => Len(Tail(y.asks)) = Len(y.asks) - 1 /\ Len(y.asks) \in Nat
  BY <1>3
<1>7. y.asks # <<>> /\ z.asks = Tail(y.asks) => ToCome(z) = ToCome(y)
  BY <1>5, <1>6 DEF ToCome
<1> QED  BY Zenon, <1>4, <1>7

\* A conversion that is not disturbed stays current.
LEMMA CurrentKept ==
  ASSUME NEW y, NEW z, NEW s, NEW r, s \subseteq r, Current(y, s), Undisturbed(y, z),
         z.theirs = y.theirs \/ z.theirs \in r,
         z.cache = y.cache \/ z.cache \in r \cup {NULL, ""}
  PROVE  Current(z, r)
<1>1. CASE Len(y.asks) = 1 /\ None(y.queue, Pending) /\ y.theirs \in s
  BY Zenon, <1>1 DEF Current, Undisturbed, Keeps
<1>2. CASE /\ y.asks = <<>>
           /\ \E e \in Pending :
                /\ Lone(y.queue, e, Pending)
                /\ e.type = "Request" => y.cache \in s \cup {NULL, ""}
                /\ e.type = "Notify" /\ e.ok => y.prop \in s \cup {NULL, ""}
  <2>1. PICK e \in Pending :
                /\ Lone(y.queue, e, Pending)
                /\ e.type = "Request" => y.cache \in s \cup {NULL, ""}
                /\ e.type = "Notify" /\ e.ok => y.prop \in s \cup {NULL, ""}
    BY Zenon, <1>2
  <2>2. Lone(z.queue, e, Pending) /\ z.asks = <<>> /\ z.prop = y.prop
    BY Zenon, <1>2, <2>1 DEF Undisturbed, Keeps
  <2> QED  BY Zenon, <2>1, <2>2 DEF Current
<1> QED  BY Zenon, <1>1, <1>2 DEF Current

LEMMA SameDomain == \A S : \A v, w \in Seq(S) : Len(v) = Len(w) => DOMAIN v = DOMAIN w
OBVIOUS

\* So do the waits, with what they see meanwhile.
LEMMA CleanKept ==
  ASSUME NEW y, NEW z, NEW w, NEW v \in Seq(Wait), Clean(w, y), Undisturbed(y, z),
         Len(v) = Len(w),
         \A i \in DOMAIN w : v[i].clean =>
           /\ w[i].clean /\ w[i].seen \subseteq v[i].seen
           /\ z.theirs = y.theirs \/ z.theirs \in v[i].seen
           /\ z.cache = y.cache \/ z.cache \in v[i].seen \cup {NULL, ""}
  PROVE  Clean(v, z)
<1>0. w \in Seq(Wait)
  BY Zenon DEF Clean
<1>1. DOMAIN v = DOMAIN w
  BY Zenon, <1>0, SameDomain
<1>2. ASSUME NEW i \in DOMAIN v, v[i].clean
      PROVE  Len(v) = 1 /\ Current(z, v[i].seen)
  BY Zenon, <1>1, <1>2, CurrentKept DEF Clean
<1> QED  BY Zenon, <1>2 DEF Clean, Undisturbed

\* Waits and texts as they are.
LEMMA CleanSame ==
  ASSUME NEW y, NEW z, NEW w, Clean(w, y), Undisturbed(y, z),
         z.theirs = y.theirs, z.cache = y.cache \/ z.cache = NULL
  PROVE  Clean(w, z)
<1>1. w \in Seq(Wait)
  BY Zenon DEF Clean
<1> QED  BY Zenon, <1>1, CleanKept

LEMMA ComeType == \A y \in SelectionState : ToCome(y) \in Nat
<1> SUFFICES ASSUME NEW y \in SelectionState PROVE ToCome(y) \in Nat
  BY Zenon
<1>1. y.queue \in Seq(Event) /\ y.asks \in Seq(Nat)
  BY Zenon, Fields
<1>2. Cardinality(Answers(y.queue)) \in Nat /\ Len(y.asks) \in Nat
  BY <1>1, AnswersFinite
<1> QED  BY <1>2 DEF ToCome

\* No wait, nothing to keep.
LEMMA CleanEmpty ==
  ASSUME NEW y \in SelectionState
  PROVE  Clean(<<>>, y)
BY ComeType DEF Clean

\* A conversion that the process asks for when no other is under way.
LEMMA ConvertCurrent ==
  ASSUME NEW y \in SelectionState, y.asks = <<>>, None(y.queue, Pending),
         NEW z, z = ConvertSelection(y)
  PROVE  Current(z, {PrimaryText(y)})
<1>1. /\ z.theirs = y.theirs /\ z.cache = y.cache
      /\ \/ /\ y.owner["PRIMARY"] \in {"none", "us"} /\ z.asks = y.asks
            /\ \E e \in Event : /\ z.queue = Append(y.queue, e)
                               /\ Asks(y.owner["PRIMARY"], e)
         \/ /\ y.owner["PRIMARY"] = "them" /\ z.queue = y.queue
            /\ z.asks = Append(y.asks, y.lastev)
  BY Zenon, ConvertFields
<1>2. y.queue \in Seq(Event) /\ y.lastev \in Nat
  BY Zenon, Fields
<1>3. CASE y.owner["PRIMARY"] = "them"
  <2>1. Len(z.asks) = 1
    <3>1. z.asks = Append(<<>>, y.lastev)
      BY Zenon, <1>1, <1>3
    <3> QED  BY <1>2, <3>1
  <2>2. z.theirs \in {PrimaryText(y)}
    BY Zenon, <1>1, <1>3 DEF PrimaryText
  <2> QED  BY Zenon, <1>1, <1>3, <2>1, <2>2 DEF Current
<1>4. CASE y.owner["PRIMARY"] # "them"
  <2>1. PICK e \in Event : z.queue = Append(y.queue, e) /\ Asks(y.owner["PRIMARY"], e)
    BY Zenon, <1>1, <1>4
  <2>2. /\ e \in Pending /\ z.asks = <<>>
        /\ e.type = "Request" => y.owner["PRIMARY"] = "us"
        /\ e.type = "Notify" => e.ok = FALSE
    BY Zenon, <1>1, <1>4, <2>1 DEF Pending, Asks
  <2>3. Lone(z.queue, e, Pending)
    BY Zenon, <1>2, <2>1, <2>2, AppendKeeps
  <2>4. e.type = "Request" => z.cache = NULL \/ z.cache = PrimaryText(y)
    BY Zenon, <1>1, <2>2 DEF PrimaryText
  <2> QED  BY Zenon, <2>2, <2>3, <2>4 DEF Current
<1> QED  BY Zenon, <1>3, <1>4

\* get_clipboard_text begins to wait.
LEMMA CleanAsked ==
  ASSUME NEW y \in SelectionState, NEW w, Clean(w, y), NEW first \in Wait,
         first.clean => /\ w = <<>> /\ y.asks = <<>> /\ None(y.queue, Pending)
                        /\ first.seen = {PrimaryText(y)},
         NEW z, z = ConvertSelection(y)
  PROVE  Clean(<<first>> \o [i \in DOMAIN w |-> [w[i] EXCEPT !.clean = FALSE]], z)
<1> DEFINE rest == [i \in DOMAIN w |-> [w[i] EXCEPT !.clean = FALSE]]
           v == <<first>> \o rest
<1>1. w \in Seq(Wait) /\ Len(w) \in Nat /\ DOMAIN w = 1..Len(w) /\ Len(w) <= ToCome(y)
  BY DEF Clean
<1>2. ASSUME NEW i \in DOMAIN w
      PROVE  [w[i] EXCEPT !.clean = FALSE] \in Wait /\ [w[i] EXCEPT !.clean = FALSE].clean = FALSE
  <2>1. w[i] \in Wait
    BY Zenon, <1>1, WaitFields
  <2> QED  BY Zenon, <2>1 DEF Wait
<1>3. /\ rest \in Seq(Wait) /\ Len(rest) = Len(w) /\ DOMAIN rest = 1..Len(w)
      /\ \A i \in 1..Len(w) : rest[i].clean = FALSE
  <2> DEFINE r(i) == [w[i] EXCEPT !.clean = FALSE]
  <2>1. \A i \in 1..Len(w) : r(i) \in Wait /\ r(i).clean = FALSE
    BY Zenon, <1>1, <1>2
  <2>2. rest = [i \in 1..Len(w) |-> r(i)]
    BY Zenon, <1>1
  <2> HIDE DEF r, rest
  <2> QED  BY SMTT(30), <1>1, <2>1, <2>2
<1> HIDE DEF rest
<1>4. /\ v \in Seq(Wait) /\ Len(v) = Len(w) + 1 /\ v[1] = first
      /\ \A i \in DOMAIN v : i = 1 \/ v[i].clean = FALSE
  <2>1. v \in Seq(Wait) /\ Len(v) = Len(w) + 1 /\ v[1] = first
    BY <1>1, <1>3
  <2>2. ASSUME NEW i \in DOMAIN v, i # 1
        PROVE  v[i].clean = FALSE
    <3>1. i - 1 \in 1..Len(w) /\ v[i] = rest[i - 1]
      BY SMTT(30), <1>1, <1>3, <2>1, <2>2
    <3> QED  BY Zenon, <1>3, <3>1
  <2> QED  BY Zenon, <2>1, <2>2
<1>5. ToCome(z) = ToCome(y) + 1
  BY Zenon, ConvertCount
<1>6. ToCome(y) \in Nat
  BY Zenon, ComeType
<1>7. Len(v) <= ToCome(z)
  BY SMTT(30), <1>1, <1>4, <1>5, <1>6
<1> HIDE DEF v
<1>8. ASSUME NEW i \in DOMAIN v, v[i].clean
      PROVE  Len(v) = 1 /\ Current(z, v[i].seen)
  <2>1. i = 1 /\ v[i] = first
    BY Zenon, <1>4, <1>8
  <2>2. w = <<>> /\ y.asks = <<>> /\ None(y.queue, Pending) /\ first.seen = {PrimaryText(y)}
    BY Zenon, <1>8, <2>1
  <2>3. Current(z, {PrimaryText(y)})
    BY Zenon, <2>2, ConvertCurrent
  <2>4. Len(w) = 0
    BY Zenon, <2>2
  <2>5. Len(v) = 1
    BY SMTT(30), <1>4, <2>4
  <2> QED  BY Zenon, <2>1, <2>2, <2>3, <2>5
<1> QED  BY Zenon, <1>4, <1>7, <1>8 DEF Clean, v, rest

-----------------------------------------------------------------------------
(***************************************************************************)
(* CleanInv is kept by every step.                                         *)
(***************************************************************************)
LEMMA InitClean == ASSUME Init, IInv PROVE CleanInv
<1>1. x \in SelectionState /\ waits = <<>> /\ got.text = ""
  BY Zenon DEF Init, IInv, Good, Timely
<1> QED  BY Zenon, <1>1, CleanEmpty DEF CleanInv, GetIsCurrent

\* get_clipboard_text, called in state y.
LEMMA GetClean ==
  ASSUME NEW y, NEW old, NEW set, Good(y, old, set), Clean(waits, y), GetIsCurrent,
         NEW kind \in {"switch", "forward"}, GetClipboardText(y, kind)
  PROVE  CleanInv'
<1>1. y \in SelectionState
  BY Zenon DEF Good, Timely
<1>2. CASE UsesCache(y)
  <2>1. /\ x' = y /\ waits' = waits
        /\ got' = [text |-> y.cache, seen |-> {PrimaryText(y)},
                   clean |-> y.since = 0 \/ ~HasEvent(y, "Clear")]
    BY Zenon, <1>2 DEF GetClipboardText
  <2>2. ASSUME got'.clean
        PROVE  got'.text \in got'.seen
    <3>1. ~HasEvent(y, "Clear") /\ y.cache # NULL
      BY Zenon, <1>2, <2>1, <2>2 DEF UsesCache
    <3>2. y.owner["PRIMARY"] = "us"
      BY Zenon, <3>1 DEF Good, OwnsAll, Atoms
    <3>3. PrimaryText(y) = y.cache
      BY Zenon, <3>1, <3>2 DEF PrimaryText
    <3> QED  BY Zenon, <2>1, <3>3
  <2>3. GetIsCurrent'
    BY Zenon, <2>2 DEF GetIsCurrent
  <2> QED  BY Zenon, <2>1, <2>3 DEF CleanInv
<1>3. CASE ~UsesCache(y)
  <2> DEFINE first == [kind |-> kind, expired |-> FALSE, seen |-> {PrimaryText(y)},
                       clean |-> Alone(y)]
             rest == [i \in DOMAIN waits |-> [waits[i] EXCEPT !.clean = FALSE]]
  <2>1. x' = ConvertSelection(y) /\ waits' = <<first>> \o rest /\ got' = got
    BY Zenon, <1>3 DEF GetClipboardText
  <2>2. first \in Wait
    <3>1. {PrimaryText(y)} \in SUBSET AllTexts /\ Alone(y) \in BOOLEAN
      BY Zenon, <1>1, PrimaryType DEF Alone
    <3> QED  BY Zenon, <3>1 DEF Wait
  <2>3. first.clean => /\ waits = <<>> /\ y.asks = <<>> /\ None(y.queue, Pending)
                       /\ first.seen = {PrimaryText(y)}
    <3>1. ASSUME Alone(y)
          PROVE  waits = <<>> /\ y.asks = <<>> /\ None(y.queue, Pending)
      BY Zenon, <3>1 DEF Alone, None, Pending, HasEvent
    <3> QED  BY Zenon, <3>1
  <2> HIDE DEF first
  <2>4. Clean(<<first>> \o rest, x')
    BY Zenon, <1>1, <2>1, <2>2, <2>3, CleanAsked
  <2> QED  BY Zenon, <2>1, <2>4 DEF CleanInv, GetIsCurrent
<1> QED  BY Zenon, <1>2, <1>3

\* The other client takes a selection, or answers.
LEMMA TheirsClean ==
  ASSUME IInv, CleanInv,
         \/ \E a \in Atoms, t \in Texts : TheirCopy(a, t)
         \/ \E ok \in BOOLEAN : TheirAnswer(ok)
  PROVE  CleanInv'
<1>0. x \in SelectionState /\ Clean(waits, x) /\ GetIsCurrent /\ waits \in Seq(Wait)
  BY Zenon DEF IInv, Good, Timely, CleanInv, Clean
<1>1. ASSUME NEW a \in Atoms, NEW t \in Texts, TheirCopy(a, t)
      PROVE  CleanInv'
  <2>1. x' = Take(x, a, t) /\ waits' = Noted(x') /\ got' = got /\ t \in AllTexts
    BY Zenon, <1>1 DEF TheirCopy, AllTexts
  <2>0. /\ x'.cache = x.cache /\ x' \in SelectionState /\ x'.asks = x.asks /\ x'.prop = x.prop
        /\ a = "PRIMARY" => x'.owner["PRIMARY"] = "them" /\ x'.theirs = t
        /\ a # "PRIMARY" => x'.theirs = x.theirs
        /\ \E ev \in Event : ev.type = "Clear" /\ x'.queue \in {x.queue, Append(x.queue, ev)}
    BY SMTT(30), <1>0, <2>1, TakeFields
  <2>2. /\ Undisturbed(x, x') /\ x'.cache = x.cache /\ x' \in SelectionState
        /\ a = "PRIMARY" => x'.owner["PRIMARY"] = "them" /\ x'.theirs = t
        /\ a # "PRIMARY" => x'.theirs = x.theirs
    BY Zenon, <1>0, <2>0, ClearQuiet
  <2>3. x'.theirs = x.theirs \/ x'.theirs = PrimaryText(x')
    BY Zenon, <2>2 DEF PrimaryText
  <2>4. /\ waits' \in Seq(Wait) /\ Len(waits') = Len(waits)
        /\ \A i \in DOMAIN waits : /\ waits'[i].clean = waits[i].clean
                                   /\ waits'[i].seen = waits[i].seen \cup {PrimaryText(x')}
    BY Zenon, <1>0, <2>1, <2>2, NotedFields
  <2>5. \A i \in DOMAIN waits : waits'[i].clean =>
          /\ waits[i].clean /\ waits[i].seen \subseteq waits'[i].seen
          /\ x'.theirs = x.theirs \/ x'.theirs \in waits'[i].seen
          /\ x'.cache = x.cache \/ x'.cache \in waits'[i].seen \cup {NULL, ""}
    BY Zenon, <2>2, <2>3, <2>4
  <2>6. Clean(waits', x')
    BY Zenon, <1>0, <2>2, <2>4, <2>5, CleanKept
  <2> QED  BY Zenon, <1>0, <2>1, <2>6 DEF CleanInv, GetIsCurrent
<1>2. ASSUME NEW ok \in BOOLEAN, TheirAnswer(ok)
      PROVE  CleanInv'
  <2>1. x.asks # <<>> /\ x' = Answer(x, ok) /\ waits' = waits /\ got' = got
    BY Zenon, <1>2 DEF TheirAnswer
  <2>a. /\ x'.asks = Tail(x.asks)
        /\ \E n \in Event : /\ n.type = "Notify" /\ n.ok = ok
                            /\ x'.queue = Append(x.queue, n)
                            /\ x'.prop = (IF ok THEN x.theirs ELSE x.prop)
    BY <1>0, <2>1, AnswerFields
  <2>2. ToCome(x') = ToCome(x) /\ x'.asks = Tail(x.asks)
    BY Zenon, <1>0, <2>1, <2>a, NotifyCount
  <2>3. PICK n \in Event : /\ n.type = "Notify" /\ n.ok = ok
                           /\ x'.queue = Append(x.queue, n)
                           /\ x'.prop = (IF ok THEN x.theirs ELSE x.prop)
    BY Zenon, <2>a
  <2>4. n \in Pending /\ n.type # "Request"
    BY Zenon, <2>3 DEF Pending
  <2>5. ASSUME NEW i \in DOMAIN waits, waits[i].clean
        PROVE  Len(waits) = 1 /\ Current(x', waits[i].seen)
    <3>1. Len(waits) = 1 /\ Current(x, waits[i].seen)
      BY Zenon, <1>0, <2>5 DEF Clean
    <3>2. Len(x.asks) = 1 /\ None(x.queue, Pending) /\ x.theirs \in waits[i].seen
      BY Zenon, <2>1, <3>1 DEF Current
    <3>3. x'.asks = <<>>
      <4>1. x.asks \in Seq(Nat)
        BY Zenon, <1>0, Fields
      <4> QED  BY Zenon, <2>2, <3>2, <4>1, TailOne
    <3>4. x.queue \in Seq(Event)
      BY Zenon, <1>0, Fields
    <3>5. Lone(x'.queue, n, Pending)
      BY Zenon, <2>3, <2>4, <3>2, <3>4, AppendKeeps
    <3>6. n.ok => x'.prop \in waits[i].seen
      BY Zenon, <2>3, <3>2
    <3> QED  BY Zenon, <2>4, <3>1, <3>3, <3>5, <3>6 DEF Current
  <2>6. Clean(waits', x')
    BY Zenon, <1>0, <2>1, <2>2, <2>5 DEF Clean
  <2> QED  BY Zenon, <1>0, <2>1, <2>6 DEF CleanInv, GetIsCurrent
<1> QED  BY Zenon, <1>1, <1>2

\* Steps that leave the waits, the owners and the texts alone.
LEMMA QuietClean ==
  ASSUME IInv, CleanInv,
         \/ \E a \in Atoms, time \in 0..x.clock : TheirPaste(a, time)
         \/ \E action \in {"remote", "master", "clear"} : PressHotkey(action)
         \/ \E t \in Texts : RemoteCopy(t)
         \/ TimeOut \/ RemoteReceive
  PROVE  CleanInv'
<1>0. /\ x \in SelectionState /\ x.clock \in Nat /\ Clean(waits, x) /\ GetIsCurrent
      /\ waits \in Seq(Wait)
  BY Zenon, Fields DEF IInv, Good, Timely, CleanInv, Clean
<1>1. ASSUME NEW ev \in Event, ev \notin Pending, x'.queue \in {x.queue, Append(x.queue, ev)},
             x'.asks = x.asks, x'.prop = x.prop, x'.theirs = x.theirs, x'.cache = x.cache,
             waits' = waits, got' = got
      PROVE  CleanInv'
  <2>1. Undisturbed(x, x')
    BY Zenon, <1>0, <1>1, JoinQuiet
  <2>2. Clean(waits, x')
    BY Zenon, <1>0, <1>1, <2>1, CleanSame
  <2> QED  BY Zenon, <1>0, <1>1, <2>2 DEF CleanInv, GetIsCurrent
<1>2. ASSUME NEW a \in Atoms, NEW time \in 0..x.clock, TheirPaste(a, time)
      PROVE  CleanInv'
  <2> DEFINE ev == [type |-> "Request", from |-> "them", atom |-> a, time |-> time]
  <2>1. x' = [x EXCEPT !.queue = Append(x.queue, ev)] /\ waits' = waits /\ got' = got
    BY <1>2 DEF TheirPaste, Paste, history
  <2>2. time \in Nat
    BY <1>0
  <2>3. ev \in Event /\ ev \notin Pending
    BY Zenon, <2>2, OtherEvents
  <2> HIDE DEF ev
  <2>4. /\ x'.queue = Append(x.queue, ev) /\ x'.asks = x.asks /\ x'.prop = x.prop
        /\ x'.theirs = x.theirs /\ x'.cache = x.cache
    BY Zenon, <1>0, <2>1 DEF SelectionState
  <2> QED  BY Zenon, <1>1, <2>1, <2>3, <2>4
<1>3. ASSUME NEW action \in {"remote", "master", "clear"}, PressHotkey(action)
      PROVE  CleanInv'
  <2> DEFINE c == x.clock + 1
             ev == [type |-> "Key", action |-> action, time |-> c]
  <2>1. /\ x' = [x EXCEPT !.clock = c, !.queue = Append(x.queue, ev)]
        /\ waits' = waits /\ got' = got
    BY Zenon, <1>3 DEF PressHotkey
  <2>2. c \in Nat
    BY <1>0
  <2> HIDE DEF c
  <2>3. ev \in Event /\ ev \notin Pending
    BY Zenon, <2>2, OtherEvents
  <2> HIDE DEF ev
  <2>4. /\ x'.queue = Append(x.queue, ev) /\ x'.asks = x.asks /\ x'.prop = x.prop
        /\ x'.theirs = x.theirs /\ x'.cache = x.cache
    BY Zenon, <1>0, <2>1 DEF SelectionState
  <2> QED  BY Zenon, <1>1, <2>1, <2>3, <2>4
<1>4. ASSUME NEW t \in Texts, RemoteCopy(t)
      PROVE  CleanInv'
  <2>1. x' = [x EXCEPT !.clock = x.clock + 1] /\ waits' = waits /\ got' = got
    BY Zenon, <1>4 DEF RemoteCopy
  <2>2. /\ x'.queue = x.queue /\ x'.asks = x.asks /\ x'.prop = x.prop
        /\ x'.theirs = x.theirs /\ x'.cache = x.cache
    BY SMTT(30), <1>0, <2>1 DEF SelectionState
  <2>3. \E ev \in Event : ev \notin Pending
    <3>1. "remote" \in {"remote", "master", "clear"} /\ 0 \in Nat
      BY Zenon
    <3> QED  BY Zenon, <3>1, OtherEvents
  <2> QED  BY Zenon, <1>1, <2>1, <2>2, <2>3
<1>5. CASE TimeOut
  <2>1. PICK i \in DOMAIN waits : waits' = [waits EXCEPT ![i].expired = TRUE]
    BY Zenon, <1>5 DEF TimeOut
  <2>2. x' = x /\ got' = got
    BY Zenon, <1>5 DEF TimeOut, history
  <2> DEFINE w == [waits[i] EXCEPT !.expired = TRUE]
  <2>3. waits[i] \in Wait
    BY Zenon, <1>0, WaitFields
  <2>4. w \in Wait /\ w.clean = waits[i].clean /\ w.seen = waits[i].seen
    BY Zenon, <2>3 DEF Wait
  <2>5. waits' = [waits EXCEPT ![i] = w]
    BY Zenon, <2>1
  <2> HIDE DEF w
  <2>6. waits' \in Seq(Wait) /\ Len(waits') = Len(waits)
    BY SMTT(30), <1>0, <2>4, <2>5
  <2>7. \A j \in DOMAIN waits : waits'[j].clean = waits[j].clean /\ waits'[j].seen = waits[j].seen
    BY Zenon, <1>0, <2>4, <2>5
  <2>8. Undisturbed(x, x)
    BY Zenon, KeepsTrans DEF Undisturbed
  <2>9. \A j \in DOMAIN waits : waits'[j].clean =>
          /\ waits[j].clean /\ waits[j].seen \subseteq waits'[j].seen
          /\ x.theirs = x.theirs \/ x.theirs \in waits'[j].seen
          /\ x.cache = x.cache \/ x.cache \in waits'[j].seen \cup {NULL, ""}
    BY Zenon, <2>7
  <2>10. Clean(waits', x)
    BY Zenon, <1>0, <2>6, <2>8, <2>9, CleanKept
  <2> QED  BY Zenon, <1>0, <2>2, <2>10 DEF CleanInv, GetIsCurrent
<1>6. CASE RemoteReceive
  BY Zenon, <1>0, <1>6 DEF RemoteReceive, history, CleanInv, GetIsCurrent
<1> QED  BY ZenonT(30), <1>2, <1>3, <1>4, <1>5, <1>6

\* The process handles an event that nobody waits for.
LEMMA DispatchClean ==
  ASSUME IInv, CleanInv, NEW lost \in Atoms \cup {"none"}, NEW t \in Texts, Dispatch(lost, t)
  PROVE  CleanInv'
<1> DEFINE ev == Head(x.queue)
           y == GetXevent(x)
<1>0. /\ x \in SelectionState /\ Clean(waits, x) /\ GetIsCurrent /\ waits \in Seq(Wait)
      /\ Good(x, stale, settime) /\ settime \in Nat /\ stale \in BOOLEAN
  BY DEF IInv, Good, Timely, CleanInv, Clean
<1>1. /\ x.queue # <<>> /\ HandleEvent(y, ev, lost, t)
      /\ ev.type = "Notify" => waits = <<>>
  BY Zenon DEF Dispatch
<1>a. /\ ev \notin Pending => Undisturbed(x, y)
      /\ ev \in Pending => ToCome(y) = ToCome(x) - 1
  BY Zenon, <1>0, <1>1, NextCount
<1>2. /\ y \in SelectionState /\ y.queue = Tail(x.queue) /\ y.asks = x.asks
      /\ y.prop = x.prop /\ y.owner = x.owner /\ y.theirs = x.theirs
      /\ y.cache = x.cache /\ y.since = x.since /\ ev \in Event
  BY Zenon, <1>0, <1>1, NextFields
<1>3. ev.type # "Clear" => Good(y, stale, settime)
  BY Zenon, <1>0, <1>1, NextEventGood
<1> HIDE DEF ev, y
<1>4. ev \notin Pending => Clean(waits, y)
  BY Zenon, <1>0, <1>2, <1>a, CleanSame
<1>5. CASE ev.type = "Clear"
  <2>1. x' = HandleSelectionClear(y, ev) /\ waits' = waits /\ got' = got
    BY Zenon, <1>1, <1>5 DEF HandleEvent, Only
  <2>2. ev \notin Pending
    BY Zenon, <1>5 DEF Pending
  <2>3. /\ x'.asks = y.asks /\ x'.prop = y.prop /\ x'.queue = y.queue
        /\ x'.theirs = y.theirs /\ x'.cache = NULL
    BY Zenon, <1>2, <2>1 DEF HandleSelectionClear, ClearClipboardCache, SelectionState
  <2>4. Undisturbed(y, x')
    BY Zenon, <2>3, KeepsTrans DEF Undisturbed, ToCome
  <2>5. Clean(waits, x')
    BY Zenon, <1>4, <2>2, <2>3, <2>4, CleanSame
  <2> QED  BY Zenon, <1>0, <2>1, <2>5 DEF CleanInv, GetIsCurrent
<1>6. CASE ev.type = "Request" /\ ev.from = "them"
  <2>1. x' = y /\ waits' = waits /\ got' = got
    BY Zenon, <1>1, <1>6 DEF HandleEvent, Only, HandleSelectionRequest
  <2>2. ev \notin Pending
    BY Zenon, <1>6 DEF Pending
  <2> QED  BY Zenon, <1>0, <1>4, <2>1, <2>2 DEF CleanInv, GetIsCurrent
<1>7. CASE ev.type = "Request" /\ ev.from = "us"
  <2>1. x' = HandleSelectionRequest(y, ev) /\ waits' = waits /\ got' = got
    BY Zenon, <1>1, <1>7 DEF HandleEvent, Only
  <2>2. ev \in Pending
    BY Zenon, <1>2, <1>7 DEF Pending
  <2>3. /\ x'.asks = y.asks
        /\ \E n \in Event : /\ n.type = "Notify" /\ n.ok = ~Refuses(y, ev)
                            /\ x'.queue = Append(y.queue, n)
                            /\ x'.prop = (IF n.ok THEN y.cache ELSE y.prop)
    <3>1. y \in SelectionState /\ ev \in Event /\ ev.from = "us"
      BY Zenon, <1>2, <1>7
    <3>2. x' = HandleSelectionRequest(y, ev)
      BY Zenon, <2>1
    <3> QED  BY SMTT(30), <3>1, <3>2, ServeFields
  <2>a. ToCome(x') = ToCome(y) + 1
    BY Zenon, <1>2, <2>3, NotifyCount
  <2>4. PICK n \in Event : /\ n.type = "Notify" /\ x'.queue = Append(y.queue, n)
                           /\ n.ok => x'.prop = x.cache
    BY Zenon, <1>2, <2>3
  <2>5. n \in Pending /\ n.type # "Request"
    BY Zenon, <2>4 DEF Pending
  <2>6. ASSUME NEW i \in DOMAIN waits, waits[i].clean
        PROVE  Len(waits) = 1 /\ Current(x', waits[i].seen)
    <3>1. Len(waits) = 1 /\ Current(x, waits[i].seen)
      BY Zenon, <1>0, <2>6 DEF Clean
    <3>2. x.queue \in Seq(Event) /\ y.queue \in Seq(Event)
      BY Zenon, <1>0, <1>2, Fields
    <3>3. ~None(x.queue, Pending)
      BY Zenon, <1>1, <2>2, <3>2, TailKeeps DEF ev
    <3>4. PICK e \in Pending :
                 /\ Lone(x.queue, e, Pending)
                 /\ e.type = "Request" => x.cache \in waits[i].seen \cup {NULL, ""}
      BY Zenon, <3>1, <3>3 DEF Current
    <3>5. x.asks = <<>>
      BY Zenon, <3>1, <3>3 DEF Current
    <3>6. ev = e /\ None(y.queue, Pending)
      BY ZenonT(30), <1>1, <1>2, <2>2, <3>2, <3>4, TailKeeps DEF ev
    <3>7. Lone(x'.queue, n, Pending)
      BY Zenon, <2>4, <2>5, <3>2, <3>6, AppendKeeps
    <3>8. n.ok => x'.prop \in waits[i].seen \cup {NULL, ""}
      BY Zenon, <1>7, <2>4, <3>4, <3>6
    <3> QED  BY Zenon, <1>2, <2>3, <2>5, <3>1, <3>5, <3>7, <3>8 DEF Current
  <2>7. ToCome(x') = ToCome(x)
    <3>1. ToCome(x) \in Nat
      BY Zenon, <1>0, ComeType
    <3> QED  BY SMTT(30), <1>a, <2>2, <2>a, <3>1
  <2>8. Clean(waits', x')
    BY Zenon, <1>0, <2>1, <2>6, <2>7 DEF Clean
  <2> QED  BY Zenon, <1>0, <2>1, <2>8 DEF CleanInv, GetIsCurrent
<1>8. CASE ev.type = "Notify"
  <2>1. x' = y /\ waits' = waits /\ got' = got
    BY Zenon, <1>1, <1>8 DEF HandleEvent, Only
  <2> QED  BY Zenon, <1>0, <1>1, <1>2, <1>8, <2>1, CleanEmpty DEF CleanInv, GetIsCurrent
<1>9. CASE ev.type = "Key"
  <2>1. ActionCb(y, ev.action, lost, t)
    BY Zenon, <1>1, <1>9 DEF HandleEvent
  <2>2. ev \notin Pending
    BY Zenon, <1>9 DEF Pending
  <2>3. Clean(waits, y) /\ Good(y, stale, settime)
    BY Zenon, <1>3, <1>4, <1>9, <2>2
  <2>4. \/ ClearClipboards(y, lost, t) \/ FocusMaster(y)
        \/ GetClipboardText(y, "switch") \/ Only(y)
    BY <2>1 DEF ActionCb
  <2>5. CASE FocusMaster(y) \/ Only(y)
    <3>1. x' = y /\ waits' = waits /\ got' = got
      BY Zenon, <2>5 DEF FocusMaster, Only
    <3> QED  BY Zenon, <1>0, <2>3, <3>1 DEF CleanInv, GetIsCurrent
  <2>6. CASE GetClipboardText(y, "switch")
    <3>1. "switch" \in {"switch", "forward"}
      BY Zenon
    <3> QED  BY Zenon, <1>0, <2>3, <2>6, <3>1, GetClean
  <2>7. CASE ClearClipboards(y, lost, t)
    <3>1. x' = SetClipboardText(y, "", lost, t) /\ waits' = Noted(x') /\ got' = got
      BY Zenon, <2>7 DEF ClearClipboards
    <3>2. t \in AllTexts /\ y \in SelectionState
      BY Zenon, <1>2 DEF AllTexts
    <3>3. /\ x' \in SelectionState /\ Undisturbed(y, x') /\ x'.cache = ""
          /\ x'.theirs = y.theirs \/ x'.theirs = PrimaryText(x')
      <4> DEFINE empty == ""
                 z == x'
      <4>1. z = SetClipboardText(y, empty, lost, t) /\ empty \in AllTexts
        BY Zenon, <3>1 DEF AllTexts
      <4> HIDE DEF empty, z
      <4>2. Reset(y, z, empty)
        BY Zenon, <3>2, <4>1, SetFields
      <4>3. /\ z \in SelectionState /\ Undisturbed(y, z) /\ z.cache = empty
            /\ z.theirs = y.theirs \/ z.theirs = PrimaryText(z)
        BY Zenon, <3>2, <4>2, ClearQuiet DEF Reset
      <4> QED  BY Zenon, <4>3 DEF empty, z
    <3>4. /\ waits' \in Seq(Wait) /\ Len(waits') = Len(waits)
          /\ \A i \in DOMAIN waits : /\ waits'[i].clean = waits[i].clean
                                     /\ waits'[i].seen = waits[i].seen \cup {PrimaryText(x')}
      BY ZenonT(30), <1>0, <3>1, <3>3, NotedFields
    <3>5. \A i \in DOMAIN waits : waits'[i].clean =>
            /\ waits[i].clean /\ waits[i].seen \subseteq waits'[i].seen
            /\ x'.theirs = y.theirs \/ x'.theirs \in waits'[i].seen
            /\ x'.cache = y.cache \/ x'.cache \in waits'[i].seen \cup {NULL, ""}
      BY Zenon, <3>3, <3>4
    <3>6. Clean(waits', x')
      BY Zenon, <2>3, <3>3, <3>4, <3>5, CleanKept
    <3> QED  BY Zenon, <1>0, <3>1, <3>6 DEF CleanInv, GetIsCurrent
  <2> QED  BY Zenon, <2>4, <2>5, <2>6, <2>7
<1>10. \/ ev.type \in {"Clear", "Notify", "Key"}
       \/ ev.type = "Request" /\ ev.from \in {"us", "them"}
  BY Zenon, <1>2 DEF Event
<1> QED  BY ZenonT(30), <1>5, <1>6, <1>7, <1>8, <1>9, <1>10

\* get_clipboard_text returns, or is called for a message.
LEMMA ReceiveClean ==
  ASSUME IInv, CleanInv, WaitInv,
         \/ \E lost \in Atoms \cup {"none"}, t \in Texts : ReceiveSet(lost, t)
         \/ \E early \in BOOLEAN : Notified(early) \/ GiveUp(early)
  PROVE  CleanInv'
<1>0. /\ x \in SelectionState /\ Clean(waits, x) /\ GetIsCurrent /\ waits \in Seq(Wait)
      /\ Good(x, stale, settime) /\ settime \in Nat /\ stale \in BOOLEAN
      /\ toMaster \in Seq([type : {"SET"}, text : AllTexts])
  BY Zenon DEF IInv, Good, Timely, CleanInv, Clean
<1>1. ASSUME NEW lost \in Atoms \cup {"none"}, NEW t \in Texts, ReceiveSet(lost, t)
      PROVE  CleanInv'
  <2> DEFINE text == Head(toMaster).text
             y == SetClipboardText(x, text, lost, t)
  <2>1. /\ toMaster # <<>> /\ waits = <<>>
        /\ GetClipboardText(y, "forward") \/ Only(y)
    BY Zenon, <1>1 DEF ReceiveSet
  <2>2. text \in AllTexts
    <3>1. Head(toMaster) \in [type : {"SET"}, text : AllTexts]
      BY Zenon, <1>0, <2>1, QueueType
    <3> QED  BY Zenon, <3>1
  <2>3. Good(y, HasEvent(x, "Clear"), x.clock)
    BY Zenon, <1>0, <2>2, SetGood
  <2> HIDE DEF y
  <2>4. Clean(waits, y)
    BY Zenon, <2>1, <2>3, CleanEmpty DEF Good, Timely
  <2>5. CASE Only(y)
    BY Zenon, <1>0, <2>4, <2>5 DEF Only, CleanInv, GetIsCurrent
  <2>6. CASE GetClipboardText(y, "forward")
    <3>1. "forward" \in {"switch", "forward"}
      BY Zenon
    <3> QED  BY Zenon, <1>0, <2>3, <2>4, <2>6, <3>1, GetClean
  <2> QED  BY Zenon, <2>1, <2>5, <2>6
<1>2. ASSUME NEW z, Len(waits) - 1 <= ToCome(z), waits # <<>>, x' = z,
             waits' = Tail(waits)
      PROVE  Clean(waits', x')
  <2>1. Tail(waits) \in Seq(Wait) /\ Len(Tail(waits)) = Len(waits) - 1
    BY SMTT(30), <1>0, <1>2
  <2>2. ASSUME NEW i \in DOMAIN waits', waits'[i].clean
        PROVE  FALSE
    <3>1. i + 1 \in DOMAIN waits /\ waits'[i] = waits[i + 1] /\ Len(waits) # 1
      BY SMTT(30), <1>0, <1>2, <2>2
    <3> QED  BY Zenon, <1>0, <2>2, <3>1 DEF Clean
  <2> QED  BY Zenon, <1>2, <2>1, <2>2 DEF Clean
<1>3. ASSUME NEW early \in BOOLEAN, Notified(early)
      PROVE  CleanInv'
  <2> DEFINE ev == Head(x.queue)
             y == GetXevent(x)
             z == ReadProperty(y, ev)
  <2>1. /\ x.queue # <<>> /\ ev.type = "Notify" /\ waits # <<>>
        /\ x' = z /\ waits' = Tail(waits)
        /\ got' = [text |-> NotifiedText(y, ev), seen |-> Head(waits).seen,
                   clean |-> Head(waits).clean]
    BY Zenon, <1>3 DEF Notified, Return
  <2>2. /\ y \in SelectionState /\ y.queue = Tail(x.queue) /\ y.asks = x.asks
        /\ y.prop = x.prop /\ ev \in Event
    BY SMTT(30), <1>0, <2>1, NextFields
  <2>a. ev \in Pending => ToCome(y) = ToCome(x) - 1
    BY Zenon, <1>0, <2>1, NextCount
  <2> HIDE DEF ev, y
  <2>3. ev \in Pending
    BY Zenon, <2>1, <2>2 DEF Pending
  <2>4. ToCome(z) = ToCome(y)
    <3>1. z.asks = y.asks /\ z.queue = y.queue
      BY Zenon, <2>2 DEF ReadProperty, SelectionState
    <3> QED  BY Zenon, <3>1 DEF ToCome
  <2>5. Len(waits) - 1 <= ToCome(z)
    <3>1. Len(waits) <= ToCome(x) /\ Len(waits) \in Nat
      BY <1>0 DEF Clean
    <3>2. ToCome(x) \in Nat
      BY Zenon, <1>0, ComeType
    <3> QED  BY SMTT(30), <2>a, <2>3, <2>4, <3>1, <3>2
  <2> HIDE DEF z
  <2>6. Clean(waits', x')
    BY Zenon, <1>2, <2>1, <2>5
  <2>7. ASSUME got'.clean, got'.text # ""
        PROVE  got'.text \in got'.seen
    <3>1. 1 \in DOMAIN waits /\ Head(waits) = waits[1]
      BY <1>0, <2>1
    <3>2. waits[1].clean /\ got'.seen = waits[1].seen /\ got'.text = NotifiedText(y, ev)
      BY Zenon, <2>1, <2>7, <3>1
    <3>3. Current(x, waits[1].seen)
      BY Zenon, <1>0, <3>1, <3>2 DEF Clean
    <3>4. x.queue \in Seq(Event)
      BY Zenon, <1>0, Fields
    <3>5. ~None(x.queue, Pending)
      BY Zenon, <2>1, <2>3, <3>4, TailKeeps DEF ev
    <3>6. PICK e \in Pending :
                 /\ Lone(x.queue, e, Pending)
                 /\ e.type = "Notify" /\ e.ok => x.prop \in waits[1].seen \cup {NULL, ""}
      BY Zenon, <3>3, <3>5 DEF Current
    <3>7. ev = e
      BY Zenon, <2>1, <2>3, <3>4, <3>6, TailKeeps DEF ev
    <3> QED  BY Zenon, <2>1, <2>2, <2>7, <3>2, <3>6, <3>7 DEF NotifiedText
  <2> QED  BY Zenon, <2>6, <2>7 DEF CleanInv, GetIsCurrent
<1>4. ASSUME NEW early \in BOOLEAN, GiveUp(early)
      PROVE  CleanInv'
  <2>1. x' = x /\ waits' = Tail(waits) /\ got'.text = "" /\ waits # <<>>
    BY Zenon, <1>4 DEF GiveUp, Return, WaitInv
  <2>2. Len(waits) <= ToCome(x) /\ Len(waits) \in Nat
    BY <1>0 DEF Clean
  <2>3. ToCome(x) \in Nat
    BY <1>0, ComeType
  <2>4. Len(waits) - 1 <= ToCome(x)
    BY <2>2, <2>3
  <2>5. Clean(waits', x')
    BY Zenon, <1>2, <2>1, <2>4
  <2> QED  BY Zenon, <2>1, <2>5 DEF CleanInv, GetIsCurrent
<1> QED  BY Zenon, <1>1, <1>3, <1>4

-----------------------------------------------------------------------------
\* Spec => []CleanInv, from the invariant of the waits.
LEMMA CleanInvariance == Spec => []CleanInv
<1>1. Init => CleanInv
  BY InitInv, InitClean
<1>2. FullInv /\ CleanInv /\ [Next]_vars => CleanInv'
  <2> SUFFICES ASSUME FullInv, CleanInv, [Next]_vars PROVE CleanInv'
    BY Zenon
  <2>1. IInv /\ WaitInv
    BY Zenon DEF FullInv
  <2>2. CASE UNCHANGED vars
    <3>1. x' = x /\ waits' = waits /\ got' = got
      BY Zenon, <2>2 DEF vars, history
    <3> QED  BY Zenon, <3>1 DEF CleanInv, GetIsCurrent
  <2>3. CASE Next
    BY Zenon, <2>1, <2>3, TheirsClean, QuietClean, DispatchClean, ReceiveClean DEF Next
  <2> QED  BY Zenon, <2>2, <2>3
<1> QED  BY <1>1, <1>2, FullInvariance, PTL DEF Spec

\* What get_clipboard_text returns is a text that the owner of PRIMARY had
\* during the call, with the exceptions of GetIsCurrent: the cache is only used
\* while it stands for the ownership of PRIMARY or the loss is still unread,
\* and a call that is alone meets no answer but its own.
THEOREM TextCurrent == Spec => []GetIsCurrent
<1>1. CleanInv => GetIsCurrent
  BY Zenon DEF CleanInv
<1> QED  BY <1>1, CleanInvariance, PTL

\* For every call of get_clipboard_text that waits an answer is owed or in the
\* queue, however calls nest inside XNextEvent's loop and take each other's
\* answers: the blocking XNextEvent of the innermost one has an event to come.
THEOREM NoWaitInVain == Spec => []WaitAnswered
<1>1. CleanInv => WaitAnswered
  BY Zenon DEF CleanInv, Clean, ToCome, WaitAnswered
<1> QED  BY <1>1, CleanInvariance, PTL
=============================================================================
