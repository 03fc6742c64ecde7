------------------------- MODULE EventLoops_proofs -------------------------
(***************************************************************************)
(* The monitors of the two event loops, for any number of contexts and     *)
(* descriptors.                                                            *)
(*                                                                         *)
(* X11: there is a sequence q of the contexts in use that the links of the *)
(* list spell in both directions (Linked), and a position j in it where    *)
(* the walk of handle_fds is (Position): what was registered since         *)
(* select() lies before j, what the walk still has to call lies at j or    *)
(* after it.  Registering puts a context before q; dropping the last       *)
(* reference takes one out of q.                                           *)
(*                                                                         *)
(* OS X: the reference count of a context is known exactly, one for its    *)
(* owner and one for fdmon_callback while that works on it.                *)
(***************************************************************************)
EXTENDS EventLoops, FiniteSetTheorems, TLAPS

One(b) == IF b THEN 1 ELSE 0

-----------------------------------------------------------------------------
\* Where handle_fds holds a reference on mfd.
Body == {"read", "readcb", "write", "writecb", "step"}

Types ==
  /\ pc \in Body \cup {"idle", "enter"} /\ mfd \in Ctx \cup {NULL}
  /\ next \in [Ctx -> Ctx \cup {NULL}] /\ prev \in [Ctx -> Ctx \cup {NULL}]
  /\ refcount \in [Ctx -> Nat] /\ fd \in [Ctx -> Fds \cup {NULL}]
  /\ flags \in [Ctx -> SUBSET Flags]
  /\ held \subseteq Ctx /\ due \subseteq Ctx \X Flags

\* The links spell q, forwards from head and backwards from tail.
Linked(n, q) ==
  /\ \A i, k \in 1..n : q[i] = q[k] => i = k
  /\ \A c \in Ctx : refcount[c] > 0 <=> \E i \in 1..n : q[i] = c
  /\ head = IF n = 0 THEN NULL ELSE q[1]
  /\ tail = IF n = 0 THEN NULL ELSE q[n]
  /\ \A i \in 1..n : /\ next[q[i]] = IF i = n THEN NULL ELSE q[i + 1]
                     /\ prev[q[i]] = IF i = 1 THEN NULL ELSE q[i - 1]

\* The walk is at the j-th of q, or past the last one.
Position(n, q, j) ==
  /\ mfd = IF j = n + 1 THEN NULL ELSE q[j]
  /\ \A i \in j..n : q[i] \notin fresh
  /\ \A p \in due : \E i \in j..n : q[i] = p[1]

\* Who holds references, and what is due.
Counted ==
  /\ \A c \in Ctx : refcount[c] = One(c \in held) + One(c = mfd /\ pc \in Body)
  /\ pc \in Body => mfd # NULL
  /\ pc = "idle" => mfd = NULL /\ fresh = {}

Owed ==
  \A p \in due :
    /\ p[1] \in held /\ p[2] \in flags[p[1]] /\ fd[p[1]] \in fdset[p[2]]
    /\ p[1] = mfd /\ p[2] = "READ" => pc \in {"enter", "read"}
    /\ p[1] = mfd /\ p[2] = "WRITE" => pc \in {"enter", "read", "readcb", "write"}

Chain == \E n \in Nat : \E q \in [1..n -> Ctx] : \E j \in 1..n + 1 :
           Linked(n, q) /\ Position(n, q, j)

WalkInv == Types /\ Counted /\ Owed /\ Chain

\* q with c in front of it, and q without its k-th context.
Prepended(n, q, c) == [i \in 1..n + 1 |-> IF i = 1 THEN c ELSE q[i - 1]]
Removed(n, q, k) == [i \in 1..n - 1 |-> IF i < k THEN q[i] ELSE q[i + 1]]

-----------------------------------------------------------------------------
\* fdmon_register_fd puts the new context in front of the list.
LEMMA RegisterLinked ==
  ASSUME Types, NEW n \in Nat, NEW q \in [1..n -> Ctx], Linked(n, q),
         NEW c \in Ctx, NEW f \in Fds, Register(c, f)
  PROVE  Linked(n + 1, Prepended(n, q, c))'
<1> DEFINE r == Prepended(n, q, c)
<1>1. /\ \A i \in 1..n : q[i] # c
      /\ r[1] = c /\ \A i \in 2..n + 1 : r[i] = q[i - 1] /\ r[i] \in Ctx /\ i - 1 \in 1..n
      /\ \A i \in 1..n : r[i + 1] = q[i] /\ i + 1 \in 1..n + 1
  BY DEF Register, Linked, Prepended
<1>2. n > 0 => head = q[1] /\ tail = q[n] /\ head \in Ctx /\ tail \in Ctx
  BY DEF Linked
<1>3. n = 0 => head = NULL /\ tail = NULL
  BY Zenon DEF Linked
<1> HIDE DEF r
<1>4. \A i, k \in 1..n + 1 : r[i] = r[k] => i = k
  BY SMTT(30), <1>1 DEF Linked
<1>5. ASSUME NEW x \in Ctx
      PROVE  refcount'[x] > 0 <=> \E i \in 1..n + 1 : r[i] = x
  <2>1. CASE x = c
    BY <2>1, <1>1 DEF Register, Types
  <2>2. ASSUME x # c, NEW i \in 1..n + 1, r[i] = x PROVE \E k \in 1..n : q[k] = x
    BY <2>2, <1>1
  <2>3. CASE x # c
    <3>1. refcount'[x] = refcount[x]
      BY Zenon, <2>3 DEF Register, Types
    <3>2. refcount[x] > 0 <=> \E i \in 1..n : q[i] = x
      BY Zenon DEF Linked
    <3> QED BY SMTT(30), <3>1, <3>2, <2>2, <2>3, <1>1
  <2> QED BY Zenon, <2>1, <2>3
<1>6. head' = r[1] /\ tail' = r[n + 1]
  BY <1>1, <1>2, <1>3, FdMonAssumption DEF Register
<1>7. ASSUME NEW i \in 1..n + 1
      PROVE  next'[r[i]] = IF i = n + 1 THEN NULL ELSE r[i + 1]
  <2>1. CASE i = 1
    BY <2>1, <1>1, <1>2, <1>3 DEF Register, Types
  <2>2. CASE i # 1
    BY SMTT(30), <2>2, <1>1 DEF Register, Types, Linked
  <2> QED BY Zenon, <2>1, <2>2
<1>8. ASSUME NEW i \in 1..n + 1
      PROVE  prev'[r[i]] = IF i = 1 THEN NULL ELSE r[i - 1]
  <2>1. CASE i = 1
    BY <2>1, <1>1, <1>2, <1>3, FdMonAssumption DEF Register, Types
  <2>2. CASE i = 2
    BY <2>2, <1>1, <1>2 DEF Register, Types
  <2>3. CASE i > 2
    BY SMTT(30), <2>3, <1>1, <1>2 DEF Register, Types, Linked
  <2> QED BY <2>1, <2>2, <2>3
<1> QED
  BY <1>4, <1>5, <1>6, <1>7, <1>8 DEF Linked, r

\* fdmon_unref of the last reference takes the context out of the list,
\* wherever it stands.
LEMMA RemoveLinked ==
  ASSUME Types, NEW n \in Nat, NEW q \in [1..n -> Ctx], Linked(n, q),
         NEW k \in 1..n, refcount[q[k]] = 1, Unref(q[k])
  PROVE  Linked(n - 1, Removed(n, q, k))'
<1> DEFINE r == Removed(n, q, k)
           c == q[k]
<1>1. /\ \A i \in 1..n - 1 : r[i] = IF i < k THEN q[i] ELSE q[i + 1]
      /\ \A i \in 1..n - 1 : r[i] \in Ctx /\ r[i] # c
      /\ c \in Ctx
  BY DEF Removed, Linked
<1>2. /\ next[c] = IF k = n THEN NULL ELSE q[k + 1]
      /\ prev[c] = IF k = 1 THEN NULL ELSE q[k - 1]
  BY Zenon DEF Linked
<1>3. /\ head' = IF prev[c] = NULL THEN next[c] ELSE head
      /\ tail' = IF next[c] = NULL THEN prev[c] ELSE tail
      /\ refcount' = [refcount EXCEPT ![c] = 0]
      /\ prev' = [x \in Ctx |-> IF x = c THEN NULL
                                 ELSE IF x = next[c] THEN prev[c] ELSE prev[x]]
      /\ next' = [x \in Ctx |-> IF x = c THEN NULL
                                 ELSE IF x = prev[c] THEN next[c] ELSE next[x]]
  BY <1>1 DEF Unref, Types
<1> HIDE DEF r
<1>4. \A i, m \in 1..n - 1 : r[i] = r[m] => i = m
  BY SMTT(30), <1>1 DEF Linked
<1>5. ASSUME NEW x \in Ctx
      PROVE  refcount'[x] > 0 <=> \E i \in 1..n - 1 : r[i] = x
  <2>1. CASE x = c
    BY <2>1, <1>1, <1>3 DEF Types
  <2>2. ASSUME x # c, NEW i \in 1..n, q[i] = x PROVE \E m \in 1..n - 1 : r[m] = x
    <3>1. CASE i < k
      BY <3>1, <2>2, <1>1
    <3>2. CASE i > k
      BY <3>2, <2>2, <1>1, i - 1 \in 1..n - 1
    <3> QED BY <3>1, <3>2, <2>2
  <2>3. ASSUME NEW i \in 1..n - 1, r[i] = x PROVE \E m \in 1..n : q[m] = x
    <3>1. r[i] = q[i] \/ r[i] = q[i + 1]
      BY Zenon, <1>1
    <3>2. i \in 1..n /\ i + 1 \in 1..n
      OBVIOUS
    <3> QED BY Zenon, <3>1, <3>2, <2>3
  <2>4. CASE x # c
    <3>1. refcount'[x] = refcount[x]
      BY Zenon, <2>4, <1>3 DEF Types
    <3>2. refcount[x] > 0 <=> \E i \in 1..n : q[i] = x
      BY Zenon DEF Linked
    <3> QED BY Zenon, <3>1, <3>2, <2>2, <2>3, <2>4
  <2> QED BY Zenon, <2>1, <2>4
<1>6. head' = IF n - 1 = 0 THEN NULL ELSE r[1]
  BY <1>1, <1>2, <1>3, FdMonAssumption DEF Linked
<1>7. tail' = IF n - 1 = 0 THEN NULL ELSE r[n - 1]
  BY <1>1, <1>2, <1>3, FdMonAssumption DEF Linked
<1>8. ASSUME NEW i \in 1..n - 1
      PROVE  next'[r[i]] = IF i = n - 1 THEN NULL ELSE r[i + 1]
  <2>1. CASE i = k - 1
    <3>1. r[i] = prev[c] /\ next'[r[i]] = next[c]
      BY <2>1, <1>1, <1>2, <1>3
    <3> QED BY <3>1, <2>1, <1>1, <1>2
  <2>2. CASE i # k - 1
    <3>1. r[i] # prev[c]
      BY <2>2, <1>1, <1>2, FdMonAssumption DEF Linked
    <3>2. next'[r[i]] = next[r[i]]
      BY Zenon, <3>1, <1>1, <1>3
    <3>3. CASE i < k
      <4>1. r[i] = q[i] /\ next[q[i]] = q[i + 1] /\ i + 1 < k
        BY <3>3, <2>2, <1>1 DEF Linked
      <4> QED BY <4>1, <3>2, <1>1
    <3>4. CASE i >= k
      <4>1. r[i] = q[i + 1] /\ i + 1 \in 1..n
        BY <3>4, <1>1
      <4>2. next[q[i + 1]] = IF i + 1 = n THEN NULL ELSE q[i + 2]
        BY <4>1 DEF Linked
      <4> QED BY SMTT(30), <4>1, <4>2, <3>2, <3>4, <1>1
    <3> QED BY <3>3, <3>4
  <2> QED BY Zenon, <2>1, <2>2
<1>9. ASSUME NEW i \in 1..n - 1
      PROVE  prev'[r[i]] = IF i = 1 THEN NULL ELSE r[i - 1]
  <2>1. CASE i = k
    <3>1. r[i] = next[c] /\ prev'[r[i]] = prev[c]
      BY <2>1, <1>1, <1>2, <1>3
    <3> QED BY <3>1, <2>1, <1>1, <1>2
  <2>2. CASE i # k
    <3>1. r[i] # next[c]
      BY <2>2, <1>1, <1>2, FdMonAssumption DEF Linked
    <3>2. prev'[r[i]] = prev[r[i]]
      BY Zenon, <3>1, <1>1, <1>3
    <3>3. CASE i < k
      <4>1. /\ r[i] = q[i] /\ prev[q[i]] = IF i = 1 THEN NULL ELSE q[i - 1]
            /\ i # 1 => r[i - 1] = q[i - 1]
        BY <3>3, <1>1 DEF Linked
      <4> QED BY Zenon, <4>1, <3>2
    <3>4. CASE i > k
      <4>1. r[i] = q[i + 1] /\ i + 1 \in 1..n /\ i # 1 /\ i + 1 # 1
            /\ r[i - 1] = q[i] /\ (i + 1) - 1 = i
        BY <3>4, <1>1
      <4>2. prev[q[i + 1]] = IF i + 1 = 1 THEN NULL ELSE q[(i + 1) - 1]
        BY Zenon, <4>1 DEF Linked
      <4> QED BY Zenon, <4>1, <4>2, <3>2
    <3>5. k \in Int /\ i \in Int
      BY <1>1
    <3>6. i < k \/ i > k
      BY <2>2, <3>5
    <3> QED BY Zenon, <3>3, <3>4, <3>6
  <2> QED BY Zenon, <2>1, <2>2
<1> QED
  BY Zenon, <1>4, <1>5, <1>6, <1>7, <1>8, <1>9 DEF Linked, r

\* Where the contexts from the j-th on are when the k-th is gone.
Shifted(n, q, k, j, d) ==
  /\ Removed(n, q, k) \in [1..n - 1 -> Ctx] /\ d \in 1..n
  /\ \A i \in j..n : i # k => \E m \in d..n - 1 : Removed(n, q, k)[m] = q[i]
  /\ \A m \in d..n - 1 : \E i \in j..n : Removed(n, q, k)[m] = q[i]
  /\ j # k => (d = n <=> j = n + 1)
  /\ j # k /\ j # n + 1 => Removed(n, q, k)[d] = q[j]
  /\ j = k /\ j # n => Removed(n, q, k)[d] = q[j + 1]

\* The position moves with the contexts before which it stood.
LEMMA RemovePosition ==
  ASSUME NEW n \in Nat, NEW q \in [1..n -> Ctx], NEW k \in 1..n, NEW j \in 1..n + 1,
         NEW d \in Int, d = IF k < j THEN j - 1 ELSE j
  PROVE  Shifted(n, q, k, j, d)
<1> DEFINE r == Removed(n, q, k)
<1>1. r \in [1..n - 1 -> Ctx] /\ d \in 1..n
  BY DEF Removed
<1>2. \A m \in 1..n - 1 : r[m] = IF m < k THEN q[m] ELSE q[m + 1]
  BY Zenon DEF Removed
<1> HIDE DEF r
<1>3. ASSUME NEW i \in j..n, i # k PROVE \E m \in d..n - 1 : r[m] = q[i]
  <2>1. CASE i < k
    <3>1. i \in d..n - 1 /\ r[i] = q[i]
      BY <2>1, <1>2
    <3> QED BY Zenon, <3>1
  <2>2. CASE i > k
    <3>1. i - 1 \in d..n - 1 /\ r[i - 1] = q[i]
      BY <2>2, <1>2
    <3> QED BY Zenon, <3>1
  <2> QED BY <2>1, <2>2, <1>3
<1>4. ASSUME NEW m \in d..n - 1 PROVE \E i \in j..n : r[m] = q[i]
  <2>1. CASE m < k
    <3>1. m \in j..n /\ r[m] = q[m]
      BY <2>1, <1>1, <1>2
    <3> QED BY Zenon, <3>1
  <2>2. CASE m >= k
    <3>1. m + 1 \in j..n /\ r[m + 1 - 1] = q[m + 1]
      BY <2>2, <1>1, <1>2
    <3> QED BY <3>1
  <2> QED BY <2>1, <2>2
<1>5. /\ j # k => (d = n <=> j = n + 1)
      /\ j # k /\ j # n + 1 => r[d] = q[j]
      /\ j = k /\ j # n => r[d] = q[j + 1]
  BY <1>1, <1>2
<1> QED
  BY Zenon, <1>1, <1>3, <1>4, <1>5 DEF r, Shifted

-----------------------------------------------------------------------------
\* At the start the list is empty.
LEMMA WalkStart == Init => WalkInv
<1> SUFFICES ASSUME Init PROVE WalkInv
  BY Zenon
<1>1. Types
  BY Zenon DEF Init, Types
<1>2. Counted /\ Owed
  BY FdMonAssumption DEF Init, Counted, Owed, One, Body
<1>3. Chain
  <2> DEFINE q == [i \in 1..0 |-> NULL]
  <2>1. q \in [1..0 -> Ctx]
    OBVIOUS
  <2>2. Linked(0, q) /\ Position(0, q, 1)
    BY DEF Init, Linked, Position
  <2>3. 0 \in Nat /\ 1 \in 1..0 + 1
    OBVIOUS
  <2> HIDE DEF q
  <2> QED BY Zenon, <2>1, <2>2, <2>3 DEF Chain
<1> QED BY Zenon, <1>1, <1>2, <1>3 DEF WalkInv

\* fdmon_register_fd, also from a callback of the walk.
LEMMA RegisterWalk ==
  ASSUME WalkInv, NEW c \in Ctx, NEW f \in Fds, Register(c, f)
  PROVE  WalkInv'
<1>1. Types /\ Counted /\ Owed
  BY Zenon DEF WalkInv
<1>2. PICK n \in Nat : \E q \in [1..n -> Ctx] : \E j \in 1..n + 1 :
        Linked(n, q) /\ Position(n, q, j)
  BY Zenon DEF WalkInv, Chain
<1>3. PICK q \in [1..n -> Ctx], j \in 1..n + 1 : Linked(n, q) /\ Position(n, q, j)
  BY Zenon, <1>2
<1>4. c \notin held /\ ~(c = mfd /\ pc \in Body) /\ \A i \in 1..n : q[i] # c
  <2>1. refcount[c] = 0
    BY Zenon DEF Register
  <2>2. refcount[c] = One(c \in held) + One(c = mfd /\ pc \in Body)
    BY Zenon, <1>1 DEF Counted
  <2>3. c \notin held /\ ~(c = mfd /\ pc \in Body)
    BY <2>1, <2>2 DEF One
  <2>4. refcount[c] > 0 <=> \E i \in 1..n : q[i] = c
    BY Zenon, <1>3 DEF Linked
  <2> QED BY <2>1, <2>3, <2>4
<1>5. Types'
  BY <1>1, <1>3 DEF Types, Register, walk, Linked
<1>6. Counted'
  <2>1. UNCHANGED <<pc, mfd>> /\ refcount' = [refcount EXCEPT ![c] = 1] /\ held' = held \cup {c}
    BY Zenon DEF Register, walk
  <2>2. pc' = "idle" => fresh' = {}
    BY Zenon, <2>1 DEF Register
  <2> QED BY <1>1, <1>4, <2>1, <2>2 DEF Counted, One, Types
<1>7. Owed'
  <2>1. ASSUME NEW p \in due PROVE flags'[p[1]] = flags[p[1]] /\ fd'[p[1]] = fd[p[1]]
    BY Zenon, <1>1, <1>4 DEF Owed, Register, Types
  <2> QED BY Zenon, <1>1, <2>1 DEF Owed, Register, walk
<1>8. Chain'
  <2> DEFINE r == Prepended(n, q, c)
  <2>1. r \in [1..n + 1 -> Ctx] /\ \A i \in 1..n : r[i + 1] = q[i]
    BY DEF Prepended
  <2>2. Linked(n + 1, r)'
    BY Zenon, <1>1, <1>3, RegisterLinked
  <2> HIDE DEF r
  <2>3. mfd' = IF j + 1 = n + 1 + 1 THEN NULL ELSE r[j + 1]
    BY <1>3, <2>1 DEF Position, Register, walk
  <2>4. \A i \in j + 1..n + 1 : r[i] \notin fresh'
    <3> SUFFICES ASSUME NEW i \in j + 1..n + 1 PROVE r[i] \notin fresh'
      BY Zenon
    <3>1. i - 1 \in j..n /\ r[i] = q[i - 1] /\ q[i - 1] \notin fresh /\ q[i - 1] # c
      BY <1>3, <1>4, <2>1 DEF Position
    <3> QED BY Zenon, <3>1 DEF Register
  <2>5. \A p \in due' : \E i \in j + 1..n + 1 : r[i] = p[1]
    <3> SUFFICES ASSUME NEW p \in due PROVE \E i \in j + 1..n + 1 : r[i] = p[1]
      BY Zenon DEF Register
    <3>1. PICK i \in j..n : q[i] = p[1]
      BY Zenon, <1>3 DEF Position
    <3>2. i + 1 \in j + 1..n + 1 /\ r[i + 1] = p[1]
      BY <3>1, <2>1
    <3> QED BY Zenon, <3>2
  <2>6. Position(n + 1, r, j + 1)'
    BY Zenon, <2>3, <2>4, <2>5 DEF Position
  <2> QED BY <2>1, <2>2, <2>6, n + 1 \in Nat, j + 1 \in 1..n + 1 + 1 DEF Chain
<1> QED BY Zenon, <1>5, <1>6, <1>7, <1>8 DEF WalkInv

\* The chain without the k-th context, whose last reference is dropped.
LEMMA ChainRemove ==
  ASSUME Types, NEW n \in Nat, NEW q \in [1..n -> Ctx], NEW j \in 1..n + 1,
         Linked(n, q), Position(n, q, j), NEW k \in 1..n,
         refcount[q[k]] = 1, Unref(q[k]), fresh' = fresh, due' \subseteq due,
         \A p \in due' : p[1] # q[k],
         IF j = k THEN mfd' = next[mfd] ELSE mfd' = mfd
  PROVE  Chain'
<1> DEFINE r == Removed(n, q, k)
<1>1. PICK d \in Int : d = IF k < j THEN j - 1 ELSE j
  OBVIOUS
<1>2. Shifted(n, q, k, j, d)
  BY Zenon, <1>1, RemovePosition
<1>3. /\ r \in [1..n - 1 -> Ctx] /\ d \in 1..n
      /\ \A i \in j..n : i # k => \E m \in d..n - 1 : r[m] = q[i]
      /\ \A m \in d..n - 1 : \E i \in j..n : r[m] = q[i]
      /\ j # k => (d = n <=> j = n + 1)
      /\ j # k /\ j # n + 1 => r[d] = q[j]
      /\ j = k /\ j # n => r[d] = q[j + 1]
  BY Zenon, <1>2 DEF Shifted
<1>4. Linked(n - 1, r)'
  BY Zenon, RemoveLinked
<1> HIDE DEF r
<1>5. mfd' = IF d = n - 1 + 1 THEN NULL ELSE r[d]
  <2>1. CASE j = k
    <3>1. mfd = q[j] /\ next[q[j]] = IF j = n THEN NULL ELSE q[j + 1]
      BY <2>1 DEF Position, Linked
    <3> QED BY <3>1, <2>1, <1>1, <1>3
  <2>2. CASE j # k
    BY <2>2, <1>3 DEF Position
  <2> QED BY Zenon, <2>1, <2>2
<1>6. \A m \in d..n - 1 : r[m] \notin fresh'
  BY Zenon, <1>3 DEF Position
<1>7. ASSUME NEW p \in due' PROVE \E m \in d..n - 1 : r[m] = p[1]
  <2>1. PICK i \in j..n : q[i] = p[1]
    BY Zenon DEF Position
  <2>2. i # k
    BY Zenon, <2>1
  <2> QED BY <2>1, <2>2, <1>3
<1>8. Position(n - 1, r, d)'
  BY Zenon, <1>5, <1>6, <1>7 DEF Position
<1>9. n - 1 \in Nat /\ d \in 1..n - 1 + 1
  BY <1>3
<1> QED BY Zenon, <1>3, <1>4, <1>8, <1>9 DEF Chain

\* fdmon_unref keeps the types.
LEMMA UnrefTypes ==
  ASSUME Types, NEW c \in Ctx, Unref(c), refcount[c] > 0
  PROVE  /\ next' \in [Ctx -> Ctx \cup {NULL}] /\ prev' \in [Ctx -> Ctx \cup {NULL}]
         /\ refcount' \in [Ctx -> Nat] /\ fd' \in [Ctx -> Fds \cup {NULL}]
<1>1. refcount' \in [Ctx -> Nat]
  BY DEF Unref, Types
<1>2. next[c] \in Ctx \cup {NULL} /\ prev[c] \in Ctx \cup {NULL}
  BY Zenon DEF Types
<1>3. next' \in [Ctx -> Ctx \cup {NULL}]
  BY <1>2 DEF Unref, Types
<1>4. prev' \in [Ctx -> Ctx \cup {NULL}]
  BY <1>2 DEF Unref, Types
<1>5. fd' \in [Ctx -> Fds \cup {NULL}]
  BY Zenon DEF Unref, Types
<1> QED BY Zenon, <1>1, <1>3, <1>4, <1>5

\* fdmon_unregister, of the context the walk is at or of any other.
LEMMA UnregisterWalk ==
  ASSUME WalkInv, NEW c \in Ctx, Unregister(c)
  PROVE  WalkInv'
<1>1. Types /\ Counted /\ Owed
  BY Zenon DEF WalkInv
<1>2. PICK n \in Nat : \E q \in [1..n -> Ctx] : \E j \in 1..n + 1 :
        Linked(n, q) /\ Position(n, q, j)
  BY Zenon DEF WalkInv, Chain
<1>3. PICK q \in [1..n -> Ctx], j \in 1..n + 1 : Linked(n, q) /\ Position(n, q, j)
  BY Zenon, <1>2
<1>4. /\ c \in held /\ Unref(c) /\ held' = held \ {c} /\ due' = due \ ({c} \X Flags)
      /\ flags' = [flags EXCEPT ![c] = {}] /\ UNCHANGED <<pc, mfd, fdset, fresh>>
  BY Zenon DEF Unregister, walk
<1>5. refcount' = [refcount EXCEPT ![c] = @ - 1]
      /\ refcount[c] = 1 + One(c = mfd /\ pc \in Body)
  BY Zenon, <1>1, <1>4 DEF Unref, Counted, One
<1>6. PICK k \in 1..n : q[k] = c
  <2>1. refcount[c] > 0
    BY <1>5 DEF One
  <2> QED BY Zenon, <2>1, <1>3 DEF Linked
<1>7. \A p \in due' : p \in due /\ p[1] # c
  BY Zenon, <1>1, <1>4 DEF Types
<1>8. Types'
  <2>1. refcount[c] > 0
    BY <1>5 DEF One
  <2>2. /\ next' \in [Ctx -> Ctx \cup {NULL}] /\ prev' \in [Ctx -> Ctx \cup {NULL}]
        /\ refcount' \in [Ctx -> Nat] /\ fd' \in [Ctx -> Fds \cup {NULL}]
    BY Zenon, <1>1, <1>4, <2>1, UnrefTypes
  <2> QED BY Zenon, <1>1, <1>4, <2>2 DEF Types
<1>9. Counted'
  BY <1>1, <1>4, <1>5 DEF Counted, One, Types
<1>10. Owed'
  <2>1. ASSUME NEW p \in due'
        PROVE  flags'[p[1]] = flags[p[1]] /\ fd'[p[1]] = fd[p[1]] /\ p[1] \in held'
    BY Zenon, <1>1, <1>4, <1>7 DEF Owed, Types, Unref
  <2> QED BY Zenon, <1>1, <1>4, <1>7, <2>1 DEF Owed
<1>11. CASE refcount[c] = 1
  <2>1. ~(c = mfd /\ pc \in Body)
    BY <1>5, <1>11 DEF One
  <2>2. j # k
    BY SMTT(30), <2>1, <1>1, <1>3, <1>6, FdMonAssumption
    DEF Unregister, InCallback, Body, Counted, Position
  <2>3. Chain'
    BY <1>1, <1>3, <1>4, <1>6, <1>7, <1>11, <2>2, ChainRemove
  <2> QED BY Zenon, <1>8, <1>9, <1>10, <2>3 DEF WalkInv
<1>12. CASE refcount[c] # 1
  <2>1. refcount[c] > 1 /\ UNCHANGED <<head, tail, next, prev>>
    BY <1>4, <1>5, <1>12 DEF Unref, One
  <2>2. \A x \in Ctx : refcount'[x] > 0 <=> refcount[x] > 0
    BY SMTT(30), <1>1, <1>5, <2>1 DEF Types
  <2>3. Linked(n, q)'
    BY Zenon, <1>3, <2>1, <2>2 DEF Linked
  <2>4. Position(n, q, j)'
    BY Zenon, <1>3, <1>4, <1>7 DEF Position
  <2> QED BY Zenon, <1>8, <1>9, <1>10, <2>3, <2>4 DEF WalkInv, Chain
<1> QED BY Zenon, <1>11, <1>12

\* A step that leaves the list and the position of the walk alone.
LEMMA ChainSame ==
  ASSUME WalkInv, UNCHANGED <<head, tail, next, prev, mfd, fresh>>, due' \subseteq due,
         \A x \in Ctx : refcount'[x] > 0 <=> refcount[x] > 0
  PROVE  Chain'
<1>1. PICK n \in Nat : \E q \in [1..n -> Ctx] : \E j \in 1..n + 1 :
        Linked(n, q) /\ Position(n, q, j)
  BY Zenon DEF WalkInv, Chain
<1>2. PICK q \in [1..n -> Ctx], j \in 1..n + 1 : Linked(n, q) /\ Position(n, q, j)
  BY Zenon, <1>1
<1>3. Linked(n, q)'
  BY Zenon, <1>2 DEF Linked
<1>4. Position(n, q, j)'
  BY Zenon, <1>2 DEF Position
<1> QED BY Zenon, <1>3, <1>4 DEF Chain

\* fdmon_monitor and fdmon_unmonitor.
LEMMA MonitorWalk ==
  ASSUME WalkInv, NEW c \in Ctx, NEW f \in Flags, Monitor(c, f) \/ Unmonitor(c, f)
  PROVE  WalkInv'
<1>1. Types /\ Counted /\ Owed
  BY Zenon DEF WalkInv
<1>2. /\ UNCHANGED <<head, tail, next, prev, refcount, fd, pc, mfd, fdset, held, fresh>>
      /\ due' \subseteq due
  BY Zenon DEF Monitor, Unmonitor, list, walk, history
<1>3. ASSUME NEW p \in due' PROVE p[2] \in flags'[p[1]]
  <2>1. p \in Ctx \X Flags /\ p[2] \in flags[p[1]]
    BY Zenon, <1>1, <1>2 DEF Types, Owed
  <2>2. CASE Monitor(c, f)
    BY Zenon, <2>1, <2>2, <1>1 DEF Monitor, Types
  <2>3. CASE Unmonitor(c, f)
    <3>1. p # <<c, f>> /\ flags' = [flags EXCEPT ![c] = @ \ {f}]
      BY Zenon, <2>3 DEF Unmonitor
    <3>2. p[1] # c \/ p[2] # f
      BY <3>1, <2>1
    <3> QED BY Zenon, <3>1, <3>2, <2>1, <1>1 DEF Types
  <2> QED BY Zenon, <2>2, <2>3
<1>4. Types'
  <2>1. flags' \in [Ctx -> SUBSET Flags]
    BY <1>1 DEF Types, Monitor, Unmonitor
  <2> QED BY Zenon, <1>1, <1>2, <2>1 DEF Types
<1>5. Counted'
  BY Zenon, <1>1, <1>2 DEF Counted
<1>6. Owed'
  BY Zenon, <1>1, <1>2, <1>3 DEF Owed
<1>7. Chain'
  BY Zenon, <1>2, ChainSame
<1> QED BY Zenon, <1>4, <1>5, <1>6, <1>7 DEF WalkInv

\* select(): everything that is due lies at the head of the list or after it.
LEMMA SelectWalk ==
  ASSUME WalkInv, NEW ready, Select(ready)
  PROVE  WalkInv'
<1>1. Types /\ Counted
  BY Zenon DEF WalkInv
<1>2. PICK n \in Nat : \E q \in [1..n -> Ctx] : \E j \in 1..n + 1 :
        Linked(n, q) /\ Position(n, q, j)
  BY Zenon DEF WalkInv, Chain
<1>3. PICK q \in [1..n -> Ctx] : Linked(n, q)
  BY Zenon, <1>2
<1>4. /\ pc = "idle" /\ pc' = "enter" /\ mfd' = head /\ fresh' = {} /\ fdset' = ready
      /\ UNCHANGED <<head, tail, next, prev, refcount, fd, flags, held>>
      /\ due' = {p \in held \X Flags : p[2] \in flags[p[1]] /\ fd[p[1]] \in ready[p[2]]}
  BY Zenon, SMTT(30) DEF Select, list
<1>5. Types'
  BY SMTT(30), <1>1, <1>3, <1>4 DEF Types, Linked
<1>6. Counted'
  BY Zenon, <1>1, <1>4 DEF Counted, Body
<1>7. Owed'
  BY Zenon, <1>4 DEF Owed
<1>8. Linked(n, q)'
  BY Zenon, <1>3, <1>4 DEF Linked
<1>9. ASSUME NEW p \in due' PROVE \E i \in 1..n : q[i] = p[1]
  <2>1. p[1] \in Ctx /\ p[1] \in held
    BY Zenon, <1>1, <1>4 DEF Types
  <2>2. refcount[p[1]] > 0
    BY <2>1, <1>1 DEF Counted, One
  <2> QED BY Zenon, <2>1, <2>2, <1>3 DEF Linked
<1>10. Position(n, q, 1)'
  <2>1. mfd' = IF 1 = n + 1 THEN NULL ELSE q[1]
    BY <1>3, <1>4 DEF Linked
  <2> QED BY Zenon, <2>1, <1>4, <1>9 DEF Position
<1>11. 1 \in 1..n + 1
  OBVIOUS
<1> QED BY Zenon, <1>5, <1>6, <1>7, <1>8, <1>10, <1>11 DEF WalkInv, Chain

\* The loop of handle_fds takes its reference.
LEMMA EnterWalk ==
  ASSUME WalkInv, Enter
  PROVE  WalkInv'
<1>1. Types /\ Counted /\ Owed
  BY Zenon DEF WalkInv
<1>2. /\ pc = "enter" /\ pc' = "read" /\ mfd \in Ctx /\ mfd # NULL
      /\ refcount' = [refcount EXCEPT ![mfd] = @ + 1]
      /\ UNCHANGED <<head, tail, next, prev, fd, flags, mfd, fdset, held, due, fresh>>
  BY Zenon, <1>1 DEF Enter, history, Types
<1>3. Types'
  BY <1>1, <1>2 DEF Types, Body
<1>4. Counted'
  BY <1>1, <1>2 DEF Counted, One, Body, Types
<1>5. Owed'
  BY Zenon, <1>1, <1>2 DEF Owed
<1>6. refcount[mfd] > 0
  <2>1. PICK n \in Nat : \E q \in [1..n -> Ctx] : \E j \in 1..n + 1 :
          Linked(n, q) /\ Position(n, q, j)
    BY Zenon DEF WalkInv, Chain
  <2>2. PICK q \in [1..n -> Ctx], j \in 1..n + 1 : Linked(n, q) /\ Position(n, q, j)
    BY Zenon, <2>1
  <2>3. j \in 1..n /\ mfd = q[j]
    BY <2>2, <1>2 DEF Position
  <2> QED BY Zenon, <2>2, <2>3 DEF Linked
<1>7. \A x \in Ctx : refcount'[x] > 0 <=> refcount[x] > 0
  BY <1>1, <1>2, <1>6 DEF Types
<1>8. Chain'
  BY Zenon, <1>2, <1>7, ChainSame
<1> QED BY Zenon, <1>3, <1>4, <1>5, <1>8 DEF WalkInv

\* A callback is called for what is due, and what is not due is passed by.
LEMMA CallWalk ==
  ASSUME WalkInv, CallRead \/ CallWrite
  PROVE  WalkInv'
<1>1. Types /\ Counted /\ Owed
  BY Zenon DEF WalkInv
<1>2. /\ UNCHANGED <<head, tail, next, prev, refcount, fd, flags, mfd, fdset, held, fresh>>
      /\ due' \subseteq due /\ pc \in {"read", "write"} /\ pc' \in Body
  BY Zenon DEF CallRead, CallWrite, Call, list, Body
<1>3. Types'
  BY Zenon, <1>1, <1>2 DEF Types
<1>4. Counted'
  BY Zenon, <1>1, <1>2 DEF Counted, Body
<1>5. ASSUME NEW p \in due'
      PROVE  /\ p[1] = mfd /\ p[2] = "READ" => pc' \in {"enter", "read"}
             /\ p[1] = mfd /\ p[2] = "WRITE" => pc' \in {"enter", "read", "readcb", "write"}
  <2>1. /\ p \in Ctx \X Flags /\ p[2] \in flags[p[1]] /\ fd[p[1]] \in fdset[p[2]]
        /\ p[1] = mfd /\ p[2] = "READ" => pc = "read"
    BY Zenon, <1>1, <1>2 DEF Types, Owed
  <2>2. p = <<p[1], p[2]>>
    BY <2>1
  <2>3. CASE CallRead
    <3>1. ~(p[1] = mfd /\ p[2] = "READ")
      <4> SUFFICES ASSUME p[1] = mfd, p[2] = "READ" PROVE FALSE
        BY Zenon
      <4>1. "READ" \in flags[mfd] /\ fd[mfd] \in fdset["READ"] /\ p = <<mfd, "READ">>
        BY Zenon, <2>1, <2>2
      <4> QED BY Zenon, <4>1, <2>3 DEF CallRead, Call
    <3>2. pc' \in {"readcb", "write"}
      BY Zenon, <2>3 DEF CallRead, Call
    <3> QED BY Zenon, <3>1, <3>2
  <2>4. CASE CallWrite
    <3>1. ~(p[1] = mfd /\ p[2] = "WRITE")
      <4> SUFFICES ASSUME p[1] = mfd, p[2] = "WRITE" PROVE FALSE
        BY Zenon
      <4>1. "WRITE" \in flags[mfd] /\ fd[mfd] \in fdset["WRITE"] /\ p = <<mfd, "WRITE">>
        BY Zenon, <2>1, <2>2
      <4> QED BY Zenon, <4>1, <2>4 DEF CallWrite, Call
    <3>2. pc = "write"
      BY Zenon, <2>4 DEF CallWrite, Call
    <3> QED BY Zenon, <3>1, <3>2, <2>1
  <2> QED BY Zenon, <2>3, <2>4
<1>6. Owed'
  BY Zenon, <1>1, <1>2, <1>5 DEF Owed
<1>7. Chain'
  BY Zenon, <1>2, ChainSame
<1> QED BY Zenon, <1>3, <1>4, <1>6, <1>7 DEF WalkInv

\* A callback returns to the walk.
LEMMA ReturnWalk ==
  ASSUME WalkInv, Return
  PROVE  WalkInv'
<1>1. Types /\ Counted /\ Owed
  BY DEF WalkInv
<1>2. /\ pc \in {"readcb", "writecb"} /\ pc' = IF pc = "readcb" THEN "write" ELSE "step"
      /\ UNCHANGED <<head, tail, next, prev, refcount, fd, flags, mfd, fdset, held, due, fresh>>
  BY Zenon DEF Return, list, history
<1>3. Types'
  BY Zenon, <1>1, <1>2 DEF Types, Body
<1>4. Counted'
  BY Zenon, <1>1, <1>2 DEF Counted, Body
<1>5. Owed'
  BY Zenon, <1>1, <1>2 DEF Owed
<1>6. Chain'
  BY Zenon, <1>2, ChainSame
<1> QED BY <1>3, <1>4, <1>5, <1>6 DEF WalkInv

\* The walk goes on to the next context and drops its reference, the last one
\* when a callback unregistered the context.
LEMMA StepWalk ==
  ASSUME WalkInv, Step
  PROVE  WalkInv'
<1>1. Types /\ Counted /\ Owed
  BY DEF WalkInv
<1>2. PICK n \in Nat : \E q \in [1..n -> Ctx] : \E j \in 1..n + 1 :
        Linked(n, q) /\ Position(n, q, j)
  BY DEF WalkInv, Chain
<1>3. PICK q \in [1..n -> Ctx], j \in 1..n + 1 : Linked(n, q) /\ Position(n, q, j)
  BY <1>2
<1>4. /\ pc = "step" /\ pc' = "enter" /\ mfd \in Ctx /\ mfd # NULL
      /\ mfd' = next[mfd] /\ Unref(mfd) /\ UNCHANGED <<flags, fdset, held, due, fresh>>
  BY Zenon, <1>1 DEF Step, history, Types, Counted, Body
<1>5. j \in 1..n /\ mfd = q[j] /\ next[mfd] = IF j = n THEN NULL ELSE q[j + 1]
  BY SMTT(30), <1>3, <1>4 DEF Position, Linked
<1>6. refcount' = [refcount EXCEPT ![mfd] = @ - 1]
      /\ refcount[mfd] = One(mfd \in held) + 1
  BY Zenon, <1>1, <1>4 DEF Unref, Counted, One, Body
<1>7. \A p \in due : p[1] # mfd
  BY Zenon, <1>1, <1>4 DEF Owed, Types, Flags
<1>8. Types'
  <2>1. refcount[mfd] > 0
    BY <1>6 DEF One
  <2>2. /\ next' \in [Ctx -> Ctx \cup {NULL}] /\ prev' \in [Ctx -> Ctx \cup {NULL}]
        /\ refcount' \in [Ctx -> Nat] /\ fd' \in [Ctx -> Fds \cup {NULL}]
    BY Zenon, <1>1, <1>4, <2>1, UnrefTypes
  <2> QED BY Zenon, <1>1, <1>4, <2>2 DEF Types
<1>9. Counted'
  BY SMTT(30), <1>1, <1>4, <1>6 DEF Counted, One, Types, Body
<1>10. Owed'
  <2>1. ASSUME NEW p \in due PROVE fd'[p[1]] = fd[p[1]]
    BY Zenon, <1>1, <1>4, <1>7 DEF Owed, Types, Unref
  <2> QED BY Zenon, <1>1, <1>4, <1>7, <2>1 DEF Owed
<1>11. CASE refcount[mfd] = 1
  <2>1. Chain'
    BY <1>1, <1>3, <1>4, <1>5, <1>7, <1>11, ChainRemove
  <2> QED BY Zenon, <1>8, <1>9, <1>10, <2>1 DEF WalkInv
<1>12. CASE refcount[mfd] # 1
  <2>1. refcount[mfd] > 1 /\ UNCHANGED <<head, tail, next, prev>>
    BY <1>4, <1>6, <1>12 DEF Unref, One
  <2>2. \A x \in Ctx : refcount'[x] > 0 <=> refcount[x] > 0
    BY SMTT(30), <1>1, <1>4, <1>6, <2>1 DEF Types
  <2>3. Linked(n, q)'
    BY Zenon, <1>3, <2>1, <2>2 DEF Linked
  <2>4. ASSUME NEW p \in due PROVE \E i \in j + 1..n : q[i] = p[1]
    <3>1. PICK i \in j..n : q[i] = p[1]
      BY Zenon, <1>3 DEF Position
    <3>2. i # j
      BY Zenon, <3>1, <1>5, <1>7
    <3> QED BY <3>1, <3>2
  <2>5. mfd' = IF j + 1 = n + 1 THEN NULL ELSE q[j + 1]
    BY SMTT(30), <1>4, <1>5
  <2>6. Position(n, q, j + 1)'
    BY <1>3, <1>4, <2>4, <2>5 DEF Position
  <2>7. j + 1 \in 1..n + 1
    BY <1>5
  <2> QED BY Zenon, <1>8, <1>9, <1>10, <2>3, <2>6, <2>7 DEF WalkInv, Chain
<1> QED BY Zenon, <1>11, <1>12

\* The walk is over: the position is past the last context, and nothing is due.
LEMMA DoneWalk ==
  ASSUME WalkInv, Done
  PROVE  WalkInv' /\ due = {}
<1>1. Types /\ Counted /\ Owed
  BY DEF WalkInv
<1>2. PICK n \in Nat : \E q \in [1..n -> Ctx] : \E j \in 1..n + 1 :
        Linked(n, q) /\ Position(n, q, j)
  BY DEF WalkInv, Chain
<1>3. PICK q \in [1..n -> Ctx], j \in 1..n + 1 : Linked(n, q) /\ Position(n, q, j)
  BY <1>2
<1>4. /\ pc = "enter" /\ pc' = "idle" /\ mfd = NULL /\ fresh' = {}
      /\ UNCHANGED <<head, tail, next, prev, refcount, fd, flags, mfd, held, due>>
  BY Zenon DEF Done, list
<1>5. j = n + 1
  BY <1>3, <1>4, FdMonAssumption DEF Position
<1>6. due = {}
  BY SMTT(30), <1>3, <1>5 DEF Position
<1>7. Types' /\ Counted' /\ Owed'
  BY Zenon, <1>1, <1>4, <1>6 DEF Types, Counted, Owed, Body, One
<1>8. Linked(n, q)' /\ Position(n, q, j)'
  BY Zenon, <1>3, <1>4, <1>6 DEF Linked, Position
<1> QED BY Zenon, <1>6, <1>7, <1>8 DEF WalkInv, Chain

\* Every step of the X11 loop keeps the invariant.
LEMMA WalkStep ==
  ASSUME WalkInv, [Next]_vars
  PROVE  WalkInv'
<1>1. CASE UNCHANGED vars
  <2>1. Chain'
    BY Zenon, <1>1, ChainSame DEF vars
  <2>2. Types' /\ Counted' /\ Owed'
    BY Zenon, <1>1 DEF vars, WalkInv, Types, Counted, Owed
  <2> QED BY Zenon, <2>1, <2>2 DEF WalkInv
<1>2. CASE Next
  BY Zenon, <1>2, RegisterWalk, UnregisterWalk, MonitorWalk, SelectWalk, EnterWalk, CallWalk,
     ReturnWalk, StepWalk, DoneWalk DEF Next, Walk
<1> QED BY Zenon, <1>1, <1>2

-----------------------------------------------------------------------------
\* A set of numbers up to N has a least one: the induction used below.
LEMMA Least ==
  ASSUME NEW N \in Nat, NEW T \in SUBSET (0..N), T # {}
  PROVE  \E x \in T : \A y \in T : x <= y
<1> DEFINE S == 0..N
           D == {0..t : t \in T}
           R == StrictSubsetOrdering(S)
<1>1. IsWellFoundedOn(R, FiniteSubsetsOf(S))
  BY Zenon, FS_StrictSubsetOrderingWellFounded
<1>2. D \subseteq FiniteSubsetsOf(S)
  <2>1. ASSUME NEW t \in T PROVE 0..t \in SUBSET S /\ IsFiniteSet(0..t)
    BY FS_Interval
  <2> QED BY Zenon, <2>1 DEF FiniteSubsetsOf
<1>3. D # {}
  BY Zenon
<1>4. \E d \in D : \A e \in D : ~ (<<e, d>> \in R)
  <2> HIDE DEF D, R, S
  <2> QED BY Zenon, <1>1, <1>2, <1>3, WFMin
<1>5. PICK x \in T : \A y \in T : ~ (<<0..y, 0..x>> \in R)
  BY Zenon, <1>4
<1>6. ASSUME NEW y \in T, y < x PROVE FALSE
  <2>1. 0..y \subseteq 0..x /\ 0..y # 0..x /\ 0..y \in SUBSET S /\ 0..x \in SUBSET S
    BY <1>6
  <2> QED BY Zenon, <1>5, <2>1 DEF StrictSubsetOrdering
<1> QED BY <1>5, <1>6

\* The sequence has one place for each context in use.
LEMMA LinkedCount ==
  ASSUME NEW n \in Nat, NEW q \in [1..n -> Ctx], Linked(n, q)
  PROVE  Cardinality(Live) = n /\ n <= Cardinality(Ctx) /\ Cardinality(Ctx) \in Nat
<1>1. \A c \in Ctx : c \in Live <=> \E i \in 1..n : q[i] = c
  BY Zenon DEF Linked, Live
<1>2. q \in [1..n -> Live]
  BY Zenon, <1>1
<1>3. q \in Bijection(1..n, Live)
  BY <1>1, <1>2 DEF Bijection, Injection, Surjection, IsInjective, Linked, Live
<1>4. IsFiniteSet(1..n) /\ Cardinality(1..n) = n
  BY FS_Interval
<1>5. IsFiniteSet(Live) /\ Cardinality(Live) = n
  BY Zenon, <1>3, <1>4, FS_Bijection DEF ExistsBijection
<1>6. Cardinality(Live) <= Cardinality(Ctx) /\ Cardinality(Ctx) \in Nat
  <2>1. Live \in SUBSET Ctx
    BY Zenon DEF Live
  <2> QED BY Zenon, <2>1, FdMonAssumption, FS_Subset, FS_CardinalityType
<1> QED BY Zenon, <1>5, <1>6

\* Following the links from head on gives q.
LEMMA LinkedReached ==
  ASSUME NEW n \in Nat, NEW q \in [1..n -> Ctx], Linked(n, q)
  PROVE  \A i \in 0..n : Reached[i] = IF i < n THEN q[i + 1] ELSE NULL
<1> DEFINE N == Cardinality(Ctx)
           g == [i \in 0..N |-> IF i < n THEN q[i + 1] ELSE NULL]
           F(h) == [i \in 0..N |-> IF i = 0 THEN head
                                    ELSE IF h[i - 1] = NULL THEN NULL ELSE next[h[i - 1]]]
<1>1. N \in Nat /\ n <= N
  BY Zenon, LinkedCount
<1>2. Reached = CHOOSE h : h = F(h)
  BY Zenon, SMTT(30) DEF Reached
<1>3. g = F(g)
  <2>1. ASSUME NEW i \in 0..N PROVE g[i] = F(g)[i]
    <3>1. CASE i = 0
      BY SMTT(30), <3>1, <1>1 DEF Linked
    <3>2. CASE i # 0
      <4>1. i - 1 \in 0..N /\ g[i - 1] = IF i - 1 < n THEN q[i] ELSE NULL
        BY SMTT(30), <3>2, <1>1
      <4>2. i - 1 < n => q[i] # NULL /\ next[q[i]] = IF i = n THEN NULL ELSE q[i + 1]
        BY <3>2, FdMonAssumption DEF Linked
      <4> QED BY <3>2, <4>1, <4>2, <1>1
    <3> QED BY Zenon, <3>1, <3>2
  <2> QED BY Zenon, <2>1
<1>4. Reached = F(Reached)
  <2> HIDE DEF g, F
  <2> QED BY Zenon, <1>2, <1>3
<1>5. \A i \in 0..N : Reached[i] = g[i]
  <2> SUFFICES ASSUME NEW k \in 0..N, Reached[k] # g[k] PROVE FALSE
    BY Zenon
  <2> DEFINE T == {i \in 0..N : Reached[i] # g[i]}
  <2>1. T \in SUBSET (0..N) /\ T # {}
    BY Zenon
  <2> HIDE DEF N
  <2>2. PICK i \in T : \A y \in T : i <= y
    BY Zenon, <1>1, <2>1, Least
  <2>3. F(Reached)[i] # F(g)[i]
    BY Zenon, <2>2, <1>3, <1>4
  <2>4. i # 0 /\ Reached[i - 1] # g[i - 1] /\ i - 1 \in 0..N
    BY <2>3, <1>1
  <2> QED BY <2>2, <2>4, <1>1
<1> QED BY <1>1, <1>5

\* The list is intact when its links spell a sequence.
LEMMA LinkedIntact ==
  ASSUME NEW n \in Nat, NEW q \in [1..n -> Ctx], Linked(n, q)
  PROVE  ListIntact
<1>1. Cardinality(Live) = n
  BY Zenon, LinkedCount
<1>2. \A i \in 0..n : Reached[i] = IF i < n THEN q[i + 1] ELSE NULL
  BY Zenon, LinkedReached
<1>3. {Reached[i] : i \in 0..n - 1} = Live
  <2>1. ASSUME NEW i \in 0..n - 1 PROVE Reached[i] \in Live
    <3>1. i + 1 \in 1..n /\ Reached[i] = q[i + 1]
      BY <1>2
    <3> QED BY <3>1 DEF Linked, Live
  <2>2. ASSUME NEW c \in Live PROVE \E i \in 0..n - 1 : Reached[i] = c
    <3>1. PICK k \in 1..n : q[k] = c
      BY Zenon DEF Linked, Live
    <3>2. k - 1 \in 0..n - 1 /\ Reached[k - 1] = c
      BY <3>1, <1>2
    <3> QED BY Zenon, <3>2
  <2> QED BY Zenon, <2>1, <2>2
<1>4. Reached[n] = NULL
  BY <1>2
<1>5. ASSUME NEW i \in 1..n - 1 PROVE prev[Reached[i]] = Reached[i - 1]
  <2>1. Reached[i] = q[i + 1] /\ Reached[i - 1] = q[i] /\ i + 1 \in 1..n
    BY <1>2
  <2> QED BY <2>1 DEF Linked
<1>6. head # NULL => prev[head] = NULL
  BY DEF Linked
<1>7. tail = (IF n = 0 THEN NULL ELSE Reached[n - 1])
  BY <1>2 DEF Linked
<1> QED BY Zenon, <1>1, <1>3, <1>4, <1>5, <1>6, <1>7 DEF ListIntact

\* The invariant says all that the runs check.
LEMMA WalkImplies ==
  ASSUME WalkInv
  PROVE  /\ ListIntact /\ WalkOnLive /\ AllReadyCalled
         /\ pc # "idle" /\ mfd # NULL => mfd \notin fresh
<1>1. PICK n \in Nat : \E q \in [1..n -> Ctx] : \E j \in 1..n + 1 :
        Linked(n, q) /\ Position(n, q, j)
  BY Zenon DEF WalkInv, Chain
<1>2. PICK q \in [1..n -> Ctx], j \in 1..n + 1 : Linked(n, q) /\ Position(n, q, j)
  BY Zenon, <1>1
<1>3. ListIntact
  BY Zenon, <1>2, LinkedIntact
<1>4. mfd # NULL => mfd \in Live /\ mfd \notin fresh
  <2> SUFFICES ASSUME mfd # NULL PROVE mfd \in Live /\ mfd \notin fresh
    BY Zenon
  <2>1. j \in 1..n /\ mfd = q[j]
    BY <1>2 DEF Position
  <2> QED BY <2>1, <1>2 DEF Position, Linked, Live
<1>5. pc = "idle" => due = {}
  <2> SUFFICES ASSUME pc = "idle", due # {} PROVE FALSE
    BY Zenon
  <2>1. mfd = NULL
    BY Zenon DEF WalkInv, Counted
  <2>2. j = n + 1
    BY <2>1, <1>2, FdMonAssumption DEF Position
  <2> QED BY <2>2, <1>2 DEF Position
<1> QED BY Zenon, <1>3, <1>4, <1>5 DEF WalkOnLive, AllReadyCalled

-----------------------------------------------------------------------------
\* What the references of each context are, beside CallbacksArmed.
CallInv ==
  /\ cflags \in [Contexts -> SUBSET AllFlags] /\ enabled \in [Contexts -> SUBSET AllFlags]
  /\ crefs \in [Contexts -> Nat]
  /\ cheld \subseteq Contexts /\ ctx \in Contexts \cup {NoCtx}
  /\ \A c \in Contexts : crefs[c] = One(c \in cheld) + One(c = ctx)
  /\ cpc = "idle" <=> ctx = NoCtx
  /\ \A c \in Contexts : c \in cheld /\ c # ctx => enabled[c] = cflags[c]
  /\ \A c \in Contexts : c \notin cheld /\ c # ctx => enabled[c] = {}

\* The invariant holds at the start, when no context is registered.
LEMMA CallStart == OsxInit => CallInv
  BY SMTT(30), OsxLoopAssumption DEF OsxInit, CallInv, One

\* The callbacks of the program, and fdmon_callback, keep the invariant.
LEMMA CallStep ==
  ASSUME CallInv, [OsxNext]_osxvars
  PROVE  CallInv'
<1> USE OsxLoopAssumption DEF CallInv, One
<1>1. ASSUME NEW c \in Contexts, OsxRegister(c) PROVE CallInv'
  <2>1. c \notin cheld /\ c # ctx
    BY SMTT(30), <1>1 DEF OsxRegister
  <2> QED
    BY <1>1, <2>1 DEF OsxRegister, call
<1>2. ASSUME NEW c \in Contexts, OsxUnregister(c) PROVE CallInv'
  <2>1. c \in cheld /\ crefs[c] = 1 + One(c = ctx)
    BY Zenon, <1>2 DEF OsxUnregister
  <2>2. crefs' = [crefs EXCEPT ![c] = @ - 1] /\ crefs'[c] = One(c = ctx)
    BY SMTT(30), <1>2, <2>1 DEF OsxUnregister, SetEnabledCallbacks
  <2>3. enabled' = [enabled EXCEPT ![c] = IF crefs'[c] = 0 THEN {} ELSE cflags'[c]]
    BY Zenon, <1>2 DEF OsxUnregister, SetEnabledCallbacks
  <2>4. cflags' = [cflags EXCEPT ![c] = {}] /\ cheld' = cheld \ {c}
        /\ UNCHANGED <<cpc, ctx, types>>
    BY Zenon, <1>2 DEF OsxUnregister, call
  <2> QED
    BY SMTT(30), <2>1, <2>2, <2>3, <2>4
<1>3. ASSUME NEW c \in Contexts, NEW wanted \in SUBSET AllFlags, OsxMonitor(c, wanted)
      PROVE  CallInv'
  <2>1. crefs'[c] = crefs[c] /\ crefs[c] # 0
    BY SMTT(30), <1>3 DEF OsxMonitor, SetEnabledCallbacks
  <2>2. crefs' = crefs
    BY Zenon, <1>3 DEF OsxMonitor, SetEnabledCallbacks
  <2>3. enabled' = [enabled EXCEPT ![c] = cflags'[c]]
    BY Zenon, <1>3, <2>1 DEF OsxMonitor, SetEnabledCallbacks
  <2> QED
    BY Zenon, <1>3, <2>2, <2>3 DEF OsxMonitor, call
<1>4. ASSUME NEW c \in Contexts, NEW ready \in SUBSET AllFlags, OsxFire(c, ready)
      PROVE  CallInv'
  <2>1. c \in cheld /\ ctx = NoCtx
    BY Zenon, <1>4 DEF OsxFire
  <2> QED
    BY <1>4, <2>1 DEF OsxFire
<1>5. CASE OsxCall
  BY Zenon, <1>5 DEF OsxCall
<1>6. CASE OsxReturn
  BY Zenon, <1>6 DEF OsxReturn
<1>7. CASE OsxFinish
  <2>1. ctx \in Contexts /\ crefs[ctx] = One(ctx \in cheld) + 1
    BY Zenon, <1>7 DEF OsxFinish
  <2>2. crefs' = [crefs EXCEPT ![ctx] = @ - 1] /\ crefs'[ctx] = One(ctx \in cheld)
    BY SMTT(30), <1>7, <2>1 DEF OsxFinish, SetEnabledCallbacks
  <2>3. enabled' = [enabled EXCEPT ![ctx] = IF crefs'[ctx] = 0 THEN {} ELSE cflags'[ctx]]
    BY Zenon, <1>7 DEF OsxFinish, SetEnabledCallbacks
  <2>4. UNCHANGED <<cflags, cheld>> /\ cpc' = "idle" /\ ctx' = NoCtx
    BY Zenon, <1>7 DEF OsxFinish
  <2> QED
    BY <2>1, <2>2, <2>3, <2>4
<1>8. CASE UNCHANGED osxvars
  BY Zenon, <1>8 DEF osxvars, call
<1> QED
  BY Zenon, <1>1, <1>2, <1>3, <1>4, <1>5, <1>6, <1>7, <1>8 DEF OsxNext

-----------------------------------------------------------------------------
\* Both invariants hold throughout, whichever platform the program is built for.
LEMMA LoopInvariance == LoopSpec => [](WalkInv /\ CallInv)
<1>1. LoopInit => WalkInv /\ CallInv
  BY Zenon, WalkStart, CallStart DEF LoopInit
<1>2. WalkInv /\ CallInv /\ [LoopNext]_loopvars => WalkInv' /\ CallInv'
  <2> SUFFICES ASSUME WalkInv, CallInv, [LoopNext]_loopvars PROVE WalkInv' /\ CallInv'
    BY Zenon
  <2>1. [Next]_vars /\ [OsxNext]_osxvars
    BY Zenon DEF LoopNext, loopvars
  <2> QED BY Zenon, <2>1, WalkStep, CallStep
<1> QED
  BY <1>1, <1>2, PTL DEF LoopSpec

\* For any number of contexts, the list of monitors holds exactly the contexts
\* in use, linked both ways and without a cycle, whatever fdmon_register_fd and
\* fdmon_unref did in the middle of a walk (ListIntact).
THEOREM ListStaysIntact == LoopSpec => []ListIntact
<1>1. WalkInv => ListIntact
  BY Zenon, WalkImplies
<1> QED
  BY <1>1, LoopInvariance, PTL

\* The walk of handle_fds never stands on freed memory (WalkOnLive).
THEOREM WalkStaysLive == LoopSpec => []WalkOnLive
<1>1. WalkInv => WalkOnLive
  BY Zenon, WalkImplies
<1> QED
  BY <1>1, LoopInvariance, PTL

\* No ready context is skipped by a walk, whatever the callbacks unregister
\* (AllReadyCalled).
THEOREM NoneSkipped == LoopSpec => []AllReadyCalled
<1>1. WalkInv => AllReadyCalled
  BY Zenon, WalkImplies
<1> QED
  BY <1>1, LoopInvariance, PTL

\* No callback runs on the strength of a select() that did not include its
\* context, also when its address is a reused one (OnlySelected).
THEOREM NoneUnselected == LoopSpec => OnlySelected
<1>1. ASSUME WalkInv, [LoopNext]_loopvars
      PROVE  [pc' # pc /\ pc' \in {"readcb", "writecb"} => mfd \notin fresh]_vars
  <2>1. [Next]_vars
    BY Zenon, <1>1 DEF LoopNext, loopvars
  <2>2. ASSUME pc' # pc, pc' \in {"readcb", "writecb"} PROVE CallRead \/ CallWrite
    BY Zenon, <2>1, <2>2 DEF Next, Walk, Register, Unregister, Monitor, Unmonitor, Select, Enter,
       Return, Step, Done, walk, vars
  <2>3. ASSUME CallRead \/ CallWrite PROVE pc \in Body
    BY Zenon, <2>3 DEF CallRead, CallWrite, Call, Body
  <2>4. pc \in Body => pc # "idle" /\ mfd # NULL
    BY Zenon, <1>1 DEF WalkInv, Counted, Body
  <2>5. pc # "idle" /\ mfd # NULL => mfd \notin fresh
    BY Zenon, <1>1, WalkImplies
  <2> QED BY <2>2, <2>3, <2>4, <2>5
<1> QED
  BY <1>1, LoopInvariance, PTL DEF LoopSpec, OnlySelected

\* For any number of contexts and any order of registrations, changes of flags
\* and calls of fdmon_callback, a context has its monitored events enabled and
\* no freed context is worked on (CallbacksArmed).
THEOREM Armed == LoopSpec => []CallbacksArmed
<1>1. CallInv => CallbacksArmed
  BY OsxLoopAssumption DEF CallInv, CallbacksArmed, One
<1> QED
  BY <1>1, LoopInvariance, PTL
=============================================================================
