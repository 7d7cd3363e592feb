------------------------ MODULE HandleStorageProofs -------------------------
(***************************************************************************)
(* Machine-checked proofs about the handle table of mtask_handle.c, for    *)
(* any number of contexts, launching threads, names and handles: the table *)
(* and the array of names are always as the searches in them expect,       *)
(* mtask_handle_retireall misses nobody, and both together implement the   *)
(* directory HandleMap, while contexts that are being launched have no     *)
(* handle yet and the table grows.                                         *)
(***************************************************************************)
EXTENDS HandleStorage, SequenceTheorems, FiniteSetTheorems, WellFoundedInduction, TLAPS

(* Arithmetic of slots.                                                    *)

\* a % s is the only number below s from which a is reached in steps of s.
LEMMA ModIs ==
  ASSUME NEW a \in Int, NEW s \in Nat \ {0}
  PROVE  a % s \in 0 .. s - 1 /\ a = (s * (a \div s)) + (a % s)
OBVIOUS

LEMMA ModUnique ==
  ASSUME NEW a \in Int, NEW s \in Nat \ {0}, NEW q \in Int, NEW r \in 0 .. s - 1,
         a = (s * q) + r
  PROVE  a % s = r
<1> DEFINE p == a \div s
           z == a % s
<1>1. p \in Int /\ z \in 0 .. s - 1 /\ a = (s * p) + z
  BY ModIs
<1> HIDE DEF p, z
<1>2. s * (q - p) = z - r
  BY <1>1
<1>3. CASE q - p >= 1
  <2>1. s * (q - p) >= s
    BY <1>3, <1>1
  <2> QED
    BY <2>1, <1>2, <1>1
<1>4. CASE q - p <= -1
  <2>1. s * (q - p) <= -s
    BY <1>4, <1>1
  <2> QED
    BY <2>1, <1>2, <1>1
<1>5. q = p => z = r
  BY <1>2, <1>1
<1> QED
  BY <1>1, <1>3, <1>4, <1>5 DEF z

LEMMA ModShift ==
  ASSUME NEW a \in Int, NEW s \in Nat \ {0}, NEW b \in Int, b % s = 0
  PROVE  (a + b) % s = a % s
<1> DEFINE p == a \div s
           z == a % s
           x == b \div s
<1>1. p \in Int /\ z \in 0 .. s - 1 /\ a = (s * p) + z /\ x \in Int /\ b = s * x
  BY ModIs
<1> HIDE DEF p, z, x
<1> DEFINE c == a + b
           q == p + x
<1>2. c \in Int /\ q \in Int /\ c = (s * q) + z
  BY <1>1
<1> HIDE DEF c, q
<1>3. c % s = z
  BY <1>1, <1>2, ModUnique
<1> QED
  BY <1>3 DEF c, z

LEMMA ModMod ==
  ASSUME NEW a \in Int, NEW s \in Nat \ {0}, NEW m \in Nat \ {0}, m % s = 0
  PROVE  (a % m) % s = a % s
<1> DEFINE q == a \div m
           r == a % m
           x == m \div s
           p == r \div s
           z == r % s
<1>1. q \in Int /\ r \in Nat /\ a = (m * q) + r /\ x \in Int /\ m = s * x
  BY ModIs
<1> HIDE DEF q, r, x
<1>2. p \in Int /\ z \in 0 .. s - 1 /\ r = (s * p) + z
  BY <1>1, ModIs
<1> DEFINE y == (x * q) + p
<1> HIDE DEF p, z
<1>3. y \in Int /\ a = (s * y) + z
  BY <1>1, <1>2
<1> HIDE DEF y
<1>4. a % s = z
  BY <1>2, <1>3, ModUnique
<1> QED
  BY <1>4 DEF z, r

LEMMA ModDouble ==
  ASSUME NEW a \in Int, NEW s \in Nat \ {0}, NEW d \in Nat \ {0}
  PROVE  d = 2 * s => a % d \in {a % s, (a % s) + s}
<1> DEFINE q == a \div d
           r == a % d
<1>1. q \in Int /\ r \in 0 .. d - 1 /\ a = (d * q) + r
  BY ModIs
<1> HIDE DEF q, r
<1> HAVE d = 2 * s
<1>4. d * q = s * (2 * q)
  BY <1>1
<1>2. CASE r < s
  <2> DEFINE p == 2 * q
  <2>1. p \in Int /\ a = (s * p) + r /\ r \in 0 .. s - 1
    BY <1>1, <1>2, <1>4
  <2> HIDE DEF p
  <2>2. a % s = r
    BY <1>1, <1>2, <2>1, ModUnique
  <2> QED
    BY <2>2 DEF r
<1>3. CASE r >= s
  <2> DEFINE p == (2 * q) + 1
             z == r - s
  <2>1. p \in Int /\ a = (s * p) + z /\ z \in 0 .. s - 1 /\ r = z + s
    BY <1>1, <1>3, <1>4
  <2> HIDE DEF p, z
  <2>2. a % s = z
    BY <1>1, <2>1, ModUnique
  <2> QED
    BY <2>1, <2>2 DEF r
<1> QED
  BY <1>1, <1>2, <1>3

LEMMA ProbeAll ==
  ASSUME NEW s \in Nat \ {0}, NEW b \in Nat, NEW k \in 0 .. s - 1
  PROVE  \E i \in 0 .. s - 1 : (i + b) % s = k
<1> DEFINE i == (k - b) % s
           q == (k - b) \div s
<1>1. i \in 0 .. s - 1 /\ q \in Int /\ k - b = (s * q) + i
  BY ModIs
<1> HIDE DEF i, q
<1> DEFINE c == i + b
           p == -q
<1>2. c \in Int /\ p \in Int /\ c = (s * p) + k
  BY <1>1
<1> HIDE DEF c, p
<1>4. c % s = k
  BY <1>1, <1>2, ModUnique
<1>3. (i + b) % s = k
  BY <1>4 DEF c
<1> QED
  BY <1>1, <1>3

LEMMA Induction ==
  ASSUME NEW S, 0 \in S, \A k \in Nat : k \in S => k + 1 \in S
  PROVE  Nat \subseteq S
<1> SUFFICES ASSUME Nat \ S # {} PROVE FALSE
  OBVIOUS
<1>1. PICK x \in Nat \ S : \A y \in Nat \ S : ~ (<<y, x>> \in OpToRel(<, Nat))
  BY NatLessThanWellFounded, WFMin
<1>2. x # 0 /\ x - 1 \in Nat /\ x - 1 < x
  OBVIOUS
<1>3. x - 1 \in S
  <2>1. \A y \in Nat : y < x => <<y, x>> \in OpToRel(<, Nat)
    BY DEF OpToRel
  <2> QED
    BY <1>1, <1>2, <2>1
<1> QED
  BY <1>2, <1>3
-----------------------------------------------------------------------------
(* Names. *)

Entry == [name : Name, handle : Address]

Sorted(s) == \A i, j \in 1 .. Len(s) : i < j => s[i].name < s[j].name

Named == name \in Seq(Entry) /\ Sorted(name)

\* The recursion of Kept, on the first m names.
Keeping(h, m, f) ==
  f = [i \in 0 .. m |->
         IF i = 0 THEN <<>>
         ELSE IF name[i].handle = h THEN f[i - 1] ELSE Append(f[i - 1], name[i])]

LEMMA KeepingExists ==
  ASSUME NEW h, name \in Seq(Entry)
  PROVE  \E f : Keeping(h, Len(name), f)
<1> DEFINE S == {m \in Nat : \E f : Keeping(h, m, f)}
<1>1. 0 \in S
  <2> DEFINE f == [i \in 0 .. 0 |-> <<>>]
  <2>1. Keeping(h, 0, f)
    BY DEF Keeping
  <2> QED
    BY <2>1
<1>2. ASSUME NEW m \in Nat, m \in S
      PROVE  m + 1 \in S
  <2>1. PICK f : Keeping(h, m, f)
    BY <1>2
  <2> DEFINE g == [i \in 0 .. m + 1 |->
                     IF i <= m THEN f[i]
                     ELSE IF name[i].handle = h THEN f[i - 1] ELSE Append(f[i - 1], name[i])]
  <2>2. ASSUME NEW i \in 0 .. m
        PROVE  f[i] = IF i = 0 THEN <<>>
                      ELSE IF name[i].handle = h THEN f[i - 1] ELSE Append(f[i - 1], name[i])
    BY <2>1 DEF Keeping
  <2>3. ASSUME NEW i \in 0 .. m + 1
        PROVE  g[i] = IF i = 0 THEN <<>>
                      ELSE IF name[i].handle = h THEN g[i - 1] ELSE Append(g[i - 1], name[i])
    <3>1. CASE i = 0
      BY <2>2, <3>1
    <3>2. CASE i # 0
      <4>1. i - 1 \in 0 .. m /\ g[i - 1] = f[i - 1]
        BY <3>2
      <4> QED
        BY <2>2, <3>2, <4>1
    <3> QED
      BY <3>1, <3>2
  <2>4. Keeping(h, m + 1, g)
    <3> HIDE DEF g
    <3>1. g = [i \in 0 .. m + 1 |-> g[i]]
      BY DEF g
    <3> QED
      BY <2>3, <3>1 DEF Keeping
  <2> HIDE DEF g
  <2> QED
    BY <2>4
<1> HIDE DEF S
<1>3. Nat \subseteq S
  BY <1>1, <1>2, Induction
<1> QED
  BY <1>3, LenProperties DEF S

\* Retiring a handle takes its names away and leaves the others in order.
LEMMA KeptIs ==
  ASSUME NEW h, Named
  PROVE  /\ Kept(h) \in Seq(Entry) /\ Sorted(Kept(h))
         /\ \A e : (\E i \in 1 .. Len(Kept(h)) : Kept(h)[i] = e)
                     <=> \E i \in 1 .. Len(name) : name[i] = e /\ e.handle # h
<1> DEFINE f == CHOOSE g : Keeping(h, Len(name), g)
<1>0. Len(name) \in Nat /\ \A i \in 1 .. Len(name) : name[i] \in Entry
  BY LenProperties DEF Named
<1>1. Keeping(h, Len(name), f)
  BY KeepingExists DEF Named
<1>2. Kept(h) = f[Len(name)]
  BY DEF Kept, Keeping
<1> HIDE DEF f
<1>3. /\ f[0] = <<>>
      /\ \A i \in 1 .. Len(name) :
           f[i] = IF name[i].handle = h THEN f[i - 1] ELSE Append(f[i - 1], name[i])
  <2>1. ASSUME NEW i \in 0 .. Len(name)
        PROVE  f[i] = IF i = 0 THEN <<>>
                      ELSE IF name[i].handle = h THEN f[i - 1] ELSE Append(f[i - 1], name[i])
    BY <1>1 DEF Keeping
  <2> QED
    BY <1>0, <2>1
<1>8. \A i, j \in 1 .. Len(name) : i < j => name[i].name < name[j].name
  BY DEF Named, Sorted
<1> DEFINE Good(m, s) ==
             /\ s \in Seq(Entry) /\ Sorted(s)
             /\ \A i \in 1 .. Len(s) : \E j \in 1 .. m : s[i] = name[j] /\ name[j].handle # h
             /\ \A j \in 1 .. m : name[j].handle # h => \E i \in 1 .. Len(s) : s[i] = name[j]
           S == {m \in Nat : m <= Len(name) => Good(m, f[m])}
<1>4. 0 \in S
  <2>1. Good(0, <<>>)
    BY EmptySeq DEF Sorted
  <2>2. Good(0, f[0])
    BY <1>3, <2>1
  <2> QED
    BY <2>2
<1>5. ASSUME NEW m \in Nat, m \in S
      PROVE  m + 1 \in S
  <2> SUFFICES ASSUME m + 1 <= Len(name)
               PROVE  Good(m + 1, f[m + 1])
    OBVIOUS
  <2> DEFINE s == f[m]
             e == name[m + 1]
  <2>1. Good(m, s) /\ m + 1 \in 1 .. Len(name) /\ e \in Entry
    BY <1>0, <1>5
  <2>2. f[m + 1] = IF e.handle = h THEN s ELSE Append(s, e)
    BY <1>3, <2>1
  <2>3. CASE e.handle = h
    <3>1. f[m + 1] = s
      BY <2>2, <2>3
    <3> HIDE DEF s, e
    <3>2. Good(m + 1, s)
      <4>1. \A i \in 1 .. Len(s) : \E j \in 1 .. m + 1 : s[i] = name[j] /\ name[j].handle # h
        BY <2>1
      <4>2. \A j \in 1 .. m + 1 : name[j].handle # h => j \in 1 .. m
        BY <2>3 DEF e
      <4> QED
        BY <2>1, <4>1, <4>2
    <3> QED
      BY <3>1, <3>2
  <2>4. CASE e.handle # h
    <3> DEFINE u == Append(s, e)
    <3>1. f[m + 1] = u
      BY <2>2, <2>4
    <3>2. /\ u \in Seq(Entry) /\ Len(s) \in Nat /\ Len(u) = Len(s) + 1
          /\ \A i \in 1 .. Len(s) : u[i] = s[i]
          /\ u[Len(s) + 1] = e
      BY <2>1, AppendProperties, LenProperties
    <3> HIDE DEF u, s
    <3>3. ASSUME NEW i \in 1 .. Len(s)
          PROVE  s[i].name < e.name
      <4>1. PICK j \in 1 .. m : s[i] = name[j]
        BY <2>1
      <4> QED
        BY <1>8, <2>1, <4>1
    <3>4. Sorted(u)
      <4> SUFFICES ASSUME NEW i \in 1 .. Len(u), NEW j \in 1 .. Len(u), i < j
                   PROVE  u[i].name < u[j].name
        BY DEF Sorted
      <4>1. CASE j = Len(s) + 1
        BY <3>2, <3>3, <4>1
      <4>2. CASE j # Len(s) + 1
        <5>1. i \in 1 .. Len(s) /\ j \in 1 .. Len(s)
          BY <3>2, <4>2
        <5> QED
          BY <2>1, <3>2, <5>1 DEF Sorted
      <4> QED
        BY <4>1, <4>2
    <3>5. ASSUME NEW i \in 1 .. Len(u)
          PROVE  \E j \in 1 .. m + 1 : u[i] = name[j] /\ name[j].handle # h
      <4>1. CASE i = Len(s) + 1
        BY <2>4, <3>2, <4>1
      <4>2. CASE i # Len(s) + 1
        <5>1. i \in 1 .. Len(s)
          BY <3>2, <4>2
        <5>2. PICK j \in 1 .. m : s[i] = name[j] /\ name[j].handle # h
          BY <2>1, <5>1
        <5>3. j \in 1 .. m + 1 /\ u[i] = name[j]
          BY <3>2, <5>1, <5>2
        <5> QED
          BY <5>2, <5>3
      <4> QED
        BY <4>1, <4>2
    <3>6. ASSUME NEW j \in 1 .. m + 1, name[j].handle # h
          PROVE  \E i \in 1 .. Len(u) : u[i] = name[j]
      <4>1. CASE j = m + 1
        BY <3>2, <4>1
      <4>2. CASE j # m + 1
        <5>1. PICK i \in 1 .. Len(s) : s[i] = name[j]
          BY <2>1, <3>6, <4>2
        <5> QED
          BY <3>2, <5>1
      <4> QED
        BY <4>1, <4>2
    <3>7. Good(m + 1, u)
      BY <3>2, <3>4, <3>5, <3>6
    <3> QED
      BY <3>1, <3>7
  <2> QED
    BY <2>3, <2>4
<1>6. Nat \subseteq S
  <2> HIDE DEF S
  <2> QED
    BY <1>4, <1>5, Induction
<1>7. Good(Len(name), f[Len(name)])
  <2> HIDE DEF Good
  <2> QED
    BY <1>0, <1>6
<1> HIDE DEF S
<1> QED
  <2> DEFINE k == Kept(h)
  <2> HIDE DEF k
  <2>1. Good(Len(name), k)
    BY <1>2, <1>7 DEF k
  <2>2. \A e : (\E i \in 1 .. Len(k) : k[i] = e)
                 <=> \E i \in 1 .. Len(name) : name[i] = e /\ e.handle # h
    BY <2>1
  <2> QED
    BY <2>1, <2>2 DEF k
-----------------------------------------------------------------------------
(* The binary search. *)

Spans == (0 .. Len(name)) \X (-1 .. Len(name) - 1)

\* A turn of the loop, with f for the turns after it.
Turn(n, f, p) ==
  LET mid == (p[1] + p[2]) \div 2
  IN IF p[1] > p[2] THEN [found |-> FALSE, at |-> p[1]]
     ELSE IF name[mid + 1].name = n THEN [found |-> TRUE, at |-> mid]
     ELSE IF name[mid + 1].name < n THEN f[<<mid + 1, p[2]>>]
     ELSE f[<<p[1], mid - 1>>]

Short(m) == {p \in Spans : p[2] - p[1] < m}

Searching(n, m, f) == f = [p \in Short(m) |-> Turn(n, f, p)]

LEMMA Middle ==
  ASSUME NEW b \in Int, NEW e \in Int, b <= e
  PROVE  (b + e) \div 2 \in b .. e
OBVIOUS

\* What a turn leaves to search is shorter.
LEMMA TurnsEnd ==
  ASSUME name \in Seq(Entry), NEW n, NEW m \in Nat, NEW f, NEW g,
         \A p \in Short(m) : f[p] = g[p], NEW p \in Short(m + 1)
  PROVE  Turn(n, f, p) = Turn(n, g, p)
<1> DEFINE mid == (p[1] + p[2]) \div 2
<1>0. Len(name) \in Nat
  BY LenProperties
<1>1. p \in Spans /\ p[1] \in 0 .. Len(name) /\ p[2] \in -1 .. Len(name) - 1 /\ p[2] - p[1] < m + 1
  BY DEF Short, Spans
<1>2. CASE p[1] > p[2]
  BY <1>2 DEF Turn
<1>3. CASE ~ (p[1] > p[2])
  <2>1. mid \in p[1] .. p[2]
    BY <1>0, <1>1, <1>3, Middle
  <2> HIDE DEF mid
  <2>2. <<mid + 1, p[2]>> \in Short(m) /\ <<p[1], mid - 1>> \in Short(m)
    BY <1>0, <1>1, <2>1 DEF Short, Spans
  <2>3. /\ f[<<mid + 1, p[2]>>] = g[<<mid + 1, p[2]>>]
        /\ f[<<p[1], mid - 1>>] = g[<<p[1], mid - 1>>]
    BY <2>2
  <2> QED
    BY <2>3 DEF Turn, mid
<1> QED
  BY <1>2, <1>3

LEMMA SearchingExists ==
  ASSUME NEW n, name \in Seq(Entry)
  PROVE  \E f : f = [p \in Spans |-> Turn(n, f, p)]
<1> DEFINE S == {m \in Nat : \E f : Searching(n, m, f)}
<1>0. Len(name) \in Nat
  BY LenProperties
<1>1. 0 \in S
  <2> DEFINE f == [p \in Short(0) |-> Turn(n, <<>>, p)]
  <2>1. ASSUME NEW p \in Short(0)
        PROVE  Turn(n, <<>>, p) = Turn(n, f, p)
    BY <1>0 DEF Short, Spans, Turn
  <2>2. Searching(n, 0, f)
    BY <2>1 DEF Searching
  <2> HIDE DEF f
  <2> QED
    BY <2>2
<1>2. ASSUME NEW m \in Nat, m \in S
      PROVE  m + 1 \in S
  <2>1. PICK f : Searching(n, m, f)
    BY <1>2
  <2> DEFINE g == [p \in Short(m + 1) |-> Turn(n, f, p)]
  <2>2. ASSUME NEW p \in Short(m)
        PROVE  p \in Short(m + 1) /\ f[p] = g[p]
    <3>1. p \in Short(m + 1)
      BY <1>0 DEF Short, Spans
    <3>2. f[p] = Turn(n, f, p)
      BY <2>1 DEF Searching
    <3> QED
      BY <3>1, <3>2
  <2>3. ASSUME NEW p \in Short(m + 1)
        PROVE  Turn(n, f, p) = Turn(n, g, p)
    <3> HIDE DEF g
    <3> QED
      BY <2>2, TurnsEnd
  <2>4. Searching(n, m + 1, g)
    BY <2>3 DEF Searching
  <2> HIDE DEF g
  <2> QED
    BY <2>4
<1>3. Len(name) \in S
  <2> HIDE DEF S
  <2> QED
    BY <1>0, <1>1, <1>2, Induction
<1>4. Short(Len(name)) = Spans
  BY <1>0 DEF Short, Spans
<1> QED
  BY <1>3, <1>4 DEF Searching

\* What the search of p says of the names in it.
Answers(n, p, r) ==
  /\ r = [found |-> r.found, at |-> r.at] /\ r.found \in BOOLEAN
  /\ r.found => r.at \in p[1] .. p[2] /\ name[r.at + 1].name = n
  /\ ~ r.found => /\ r.at \in p[1] .. p[2] + 1
                  /\ \A i \in p[1] .. r.at - 1 : name[i + 1].name < n
                  /\ \A i \in r.at .. p[2] : n < name[i + 1].name

LEMMA SearchIs ==
  ASSUME NEW n \in Name, Named
  PROVE  Answers(n, <<0, Len(name) - 1>>, Search(n))
<1> DEFINE f == CHOOSE g : g = [p \in Spans |-> Turn(n, g, p)]
           Asked == {p \in Spans : p[1] <= p[2] + 1}
<1>0. /\ Len(name) \in Nat /\ \A i \in 1 .. Len(name) : name[i].name \in Nat
      /\ \A i, j \in 1 .. Len(name) : i < j => name[i].name < name[j].name
      /\ n \in Nat
  <2>1. Len(name) \in Nat /\ \A i \in 1 .. Len(name) : name[i] \in Entry
    BY LenProperties DEF Named
  <2>2. \A i \in 1 .. Len(name) : name[i].name \in Nat
    BY <2>1, HandleAssumption DEF Entry
  <2> QED
    BY <2>1, <2>2, HandleAssumption DEF Named, Sorted
<1>1. f = [p \in Spans |-> Turn(n, f, p)]
  BY SearchingExists DEF Named
<1>2. Search(n) = f[<<0, Len(name) - 1>>]
  BY DEF Search, Turn, Spans
<1> HIDE DEF f
<1> DEFINE S == {m \in Nat : \A p \in Asked : p[2] - p[1] < m => Answers(n, p, f[p])}
<1>3. ASSUME NEW p \in Spans
      PROVE  f[p] = Turn(n, f, p)
  BY <1>1
<1>4. ASSUME NEW m \in Nat, NEW p \in Asked, p[2] - p[1] < m,
             \A q \in Asked : q[2] - q[1] < m - 1 => Answers(n, q, f[q])
      PROVE  Answers(n, p, f[p])
  <2> DEFINE b == p[1]
             e == p[2]
             mid == (b + e) \div 2
  <2>1. /\ p \in Spans /\ p = <<b, e>> /\ b \in 0 .. Len(name) /\ e \in -1 .. Len(name) - 1
        /\ b <= e + 1 /\ e - b < m
    BY <1>4 DEF Spans
  <2>2. f[p] = Turn(n, f, p)
    BY <1>3, <2>1
  <2>3. CASE b > e
    <3>1. f[p] = [found |-> FALSE, at |-> b]
      BY <2>2, <2>3 DEF Turn
    <3> QED
      BY <1>0, <2>1, <2>3, <3>1 DEF Answers
  <2>4. CASE b <= e
    <3>1. mid \in b .. e
      BY <1>0, <2>1, <2>4, Middle
    <3>2. f[p] = IF name[mid + 1].name = n THEN [found |-> TRUE, at |-> mid]
                 ELSE IF name[mid + 1].name < n THEN f[<<mid + 1, e>>]
                 ELSE f[<<b, mid - 1>>]
      BY <1>0, <2>1, <2>2, <2>4 DEF Turn
    <3> HIDE DEF mid
    <3>3. mid + 1 \in 1 .. Len(name) /\ name[mid + 1].name \in Nat
      BY <1>0, <2>1, <3>1
    <3>4. CASE name[mid + 1].name = n
      <4>1. f[p] = [found |-> TRUE, at |-> mid]
        BY <3>2, <3>4
      <4> QED
        BY <3>1, <3>4, <4>1 DEF Answers
    <3>5. CASE name[mid + 1].name < n
      <4> DEFINE q == <<mid + 1, e>>
                 r == f[q]
      <4>1. f[p] = r
        BY <1>0, <3>2, <3>3, <3>5
      <4>2. q \in Asked /\ q[2] - q[1] < m - 1
        BY <1>0, <2>1, <3>1 DEF Spans
      <4>3. Answers(n, q, r)
        BY <1>4, <4>2
      <4>4. ASSUME NEW i \in b .. mid
            PROVE  name[i + 1].name < n
        <5>0. i \in Int /\ mid \in Int /\ 0 <= i /\ i <= mid /\ mid <= Len(name) - 1
          BY <1>0, <2>1, <3>1
        <5>1. i + 1 \in 1 .. Len(name) /\ (i = mid \/ i + 1 < mid + 1)
          BY <1>0, <5>0
        <5>2. i = mid \/ name[i + 1].name < name[mid + 1].name
          BY <1>0, <3>3, <5>1
        <5> QED
          BY <1>0, <3>3, <3>5, <5>1, <5>2
      <4> HIDE DEF r
      <4> QED
        BY <1>0, <2>1, <3>1, <4>1, <4>3, <4>4 DEF Answers
    <3>6. CASE n < name[mid + 1].name
      <4> DEFINE q == <<b, mid - 1>>
                 r == f[q]
      <4>1. f[p] = r
        BY <1>0, <3>2, <3>3, <3>6
      <4>2. q \in Asked /\ q[2] - q[1] < m - 1
        <5>1. mid - 1 \in -1 .. Len(name) - 1 /\ b <= (mid - 1) + 1 /\ (mid - 1) - b < m - 1
          BY <1>0, <2>1, <3>1
        <5>2. q \in Spans /\ q[1] = b /\ q[2] = mid - 1
          BY <2>1, <5>1 DEF Spans
        <5> QED
          BY <5>1, <5>2
      <4>3. Answers(n, q, r)
        BY <1>4, <4>2
      <4>4. ASSUME NEW i \in mid .. e
            PROVE  n < name[i + 1].name
        <5>0. i \in Int /\ mid \in Int /\ e \in Int /\ mid <= i /\ i <= e /\ 0 <= mid /\ e <= Len(name) - 1
          BY <2>1, <3>1
        <5>1. i + 1 \in 1 .. Len(name) /\ (i = mid \/ mid + 1 < i + 1)
          BY <1>0, <5>0
        <5>2. i = mid \/ name[mid + 1].name < name[i + 1].name
          BY <1>0, <3>3, <5>1
        <5> QED
          BY <1>0, <3>3, <3>6, <5>1, <5>2
      <4> HIDE DEF r
      <4> QED
        <5>1. /\ r = [found |-> r.found, at |-> r.at] /\ r.found \in BOOLEAN
              /\ r.found => r.at \in b .. mid - 1 /\ name[r.at + 1].name = n
              /\ ~ r.found => /\ r.at \in b .. (mid - 1) + 1
                              /\ \A i \in b .. r.at - 1 : name[i + 1].name < n
                              /\ \A i \in r.at .. mid - 1 : n < name[i + 1].name
          BY <4>3 DEF Answers
        <5>2. b \in Int /\ e \in Int /\ mid \in b .. e
          BY <2>1, <3>1
        <5>3. r.found => r.at \in b .. e
          BY <5>1, <5>2
        <5>4. ~ r.found => r.at \in b .. e + 1 /\ r.at <= mid
          BY <5>1, <5>2
        <5>5. ASSUME ~ r.found, NEW i \in r.at .. e
              PROVE  n < name[i + 1].name
          <6>1. i \in r.at .. mid - 1 \/ i \in mid .. e
            BY <5>2, <5>4, <5>5
          <6> QED
            BY <4>4, <5>1, <5>5, <6>1
        <5> QED
          BY <4>1, <5>1, <5>3, <5>4, <5>5 DEF Answers
    <3> QED
      BY <1>0, <3>3, <3>4, <3>5, <3>6
  <2> QED
    BY <2>1, <2>3, <2>4
<1>5. 0 \in S
  <2> SUFFICES ASSUME NEW p \in Asked, p[2] - p[1] < 0
               PROVE  Answers(n, p, f[p])
    OBVIOUS
  <2>1. p[1] > p[2] /\ p \in Spans /\ p[1] \in 0 .. Len(name) /\ p[2] \in -1 .. Len(name) - 1
    BY <1>0 DEF Spans
  <2>2. f[p] = [found |-> FALSE, at |-> p[1]]
    BY <1>3, <2>1 DEF Turn
  <2> QED
    BY <1>0, <2>1, <2>2 DEF Answers
<1>6. ASSUME NEW m \in Nat, m \in S
      PROVE  m + 1 \in S
  <2>1. \A q \in Asked : q[2] - q[1] < (m + 1) - 1 => Answers(n, q, f[q])
    BY <1>6
  <2> HIDE DEF Asked
  <2> QED
    BY <1>4, <2>1
<1>7. Len(name) \in S
  <2> HIDE DEF S
  <2> QED
    BY <1>0, <1>5, <1>6, Induction
<1> DEFINE p == <<0, Len(name) - 1>>
<1>8. p \in Asked /\ p[2] - p[1] < Len(name)
  BY <1>0 DEF Spans
<1> QED
  BY <1>2, <1>7, <1>8

\* n is found where it is, or there is no n.
Finds(n, r) ==
  /\ r.found => r.at + 1 \in 1 .. Len(name) /\ name[r.at + 1].name = n
  /\ ~ r.found => /\ r.at \in 0 .. Len(name)
                  /\ \A i \in 1 .. r.at : name[i].name < n
                  /\ \A i \in r.at + 1 .. Len(name) : n < name[i].name

LEMMA SearchFinds ==
  ASSUME NEW n \in Name, Named
  PROVE  Finds(n, Search(n))
<1> DEFINE r == Search(n)
<1>0. Len(name) \in Nat
  BY LenProperties DEF Named
<1>1. Answers(n, <<0, Len(name) - 1>>, r)
  BY SearchIs
<1> SUFFICES Finds(n, r)
  OBVIOUS
<1> HIDE DEF r
<1>2. CASE r.found
  <2>1. r.at \in 0 .. Len(name) - 1 /\ name[r.at + 1].name = n
    BY <1>0, <1>1, <1>2 DEF Answers
  <2> QED
    BY <1>0, <1>2, <2>1 DEF Finds
<1>3. CASE ~ r.found
  <2>1. /\ r.at \in 0 .. Len(name)
        /\ \A i \in 0 .. r.at - 1 : name[i + 1].name < n
        /\ \A i \in r.at .. Len(name) - 1 : n < name[i + 1].name
    BY <1>0, <1>1, <1>3 DEF Answers
  <2>2. ASSUME NEW i \in 1 .. r.at
        PROVE  name[i].name < n
    <3>1. i - 1 \in 0 .. r.at - 1 /\ (i - 1) + 1 = i
      BY <2>1
    <3> QED
      BY <2>1, <3>1
  <2>3. ASSUME NEW i \in r.at + 1 .. Len(name)
        PROVE  n < name[i].name
    <3>1. i - 1 \in r.at .. Len(name) - 1 /\ (i - 1) + 1 = i
      BY <1>0, <2>1
    <3> QED
      BY <2>1, <3>1
  <2> QED
    BY <1>3, <2>1, <2>2, <2>3 DEF Finds
<1> QED
  BY <1>2, <1>3

\* The array has the entry [n, h].
Has(n, h) == \E i \in 1 .. Len(name) : name[i] = [name |-> n, handle |-> h]

\* A lookup finds the handle of a name, and 0 for no other.
LookupsRight ==
  \A n \in Name : /\ FindName(n) \in Address \cup {0}
                   /\ \A h \in Address : FindName(n) = h <=> Has(n, h)

LEMMA NamesFound ==
  Named => LookupsRight
<1> SUFFICES ASSUME Named, NEW n \in Name
             PROVE  /\ FindName(n) \in Address \cup {0}
                    /\ \A h \in Address : FindName(n) = h <=> Has(n, h)
  BY DEF LookupsRight
<1> DEFINE r == Search(n)
<1>0. /\ Len(name) \in Nat /\ \A i \in 1 .. Len(name) : name[i] \in Entry
      /\ \A i, j \in 1 .. Len(name) : i < j => name[i].name < name[j].name
      /\ n \in Nat
  BY LenProperties, HandleAssumption DEF Named, Sorted
<1>1. /\ r.found => r.at + 1 \in 1 .. Len(name) /\ name[r.at + 1].name = n
      /\ ~ r.found => /\ r.at \in 0 .. Len(name)
                      /\ \A i \in 1 .. r.at : name[i].name < n
                      /\ \A i \in r.at + 1 .. Len(name) : n < name[i].name
  BY SearchFinds DEF Finds
<1>2. FindName(n) = IF r.found THEN name[r.at + 1].handle ELSE 0
  BY DEF FindName
<1> HIDE DEF r
<1>3. \A i \in 1 .. Len(name) : name[i].name \in Nat /\ name[i].handle \in Address
  BY <1>0, HandleAssumption DEF Entry
<1>4. CASE r.found
  <2> DEFINE k == r.at + 1
  <2>1. /\ k \in 1 .. Len(name) /\ name[k] = [name |-> n, handle |-> FindName(n)]
        /\ FindName(n) \in Address
    BY <1>0, <1>1, <1>2, <1>3, <1>4 DEF Entry
  <2> HIDE DEF k
  <2>2. ASSUME NEW h \in Address, NEW i \in 1 .. Len(name), name[i] = [name |-> n, handle |-> h]
        PROVE  FindName(n) = h
    <3>1. name[i].name = name[k].name
      BY <2>1, <2>2
    <3>2. i = k
      BY <1>0, <1>3, <2>1, <3>1
    <3> QED
      BY <2>1, <2>2, <3>2
  <2> QED
    BY <2>1, <2>2 DEF Has
<1>5. CASE ~ r.found
  <2>1. \A i \in 1 .. Len(name) : name[i].name # n
    BY <1>0, <1>1, <1>3, <1>5
  <2>2. FindName(n) = 0
    BY <1>2, <1>5
  <2> QED
    BY <2>1, <2>2 DEF Has, Address
<1> QED
  BY <1>4, <1>5

LEMMA NamesFoundPrime ==
  (Named => LookupsRight)'
BY NamesFound, PTL

\* An insertion where the search ended keeps the array sorted, with one name more.
LEMMA InsertedIs ==
  ASSUME NEW i \in 0 .. Len(name), NEW e \in Entry, Named,
         \A j \in 1 .. i : name[j].name < e.name,
         \A j \in i + 1 .. Len(name) : e.name < name[j].name
  PROVE  /\ InsertAt(i, e) \in Seq(Entry) /\ Sorted(InsertAt(i, e))
         /\ \A x : (\E k \in 1 .. Len(InsertAt(i, e)) : InsertAt(i, e)[k] = x)
                     <=> x = e \/ \E k \in 1 .. Len(name) : name[k] = x
<1> DEFINE N == Len(name)
           a == SubSeq(name, 1, i)
           b == SubSeq(name, i + 1, N)
           c == a \o <<e>>
           s == InsertAt(i, e)
<1>0. /\ N \in Nat /\ \A j \in 1 .. N : name[j] \in Entry /\ name[j].name \in Nat
      /\ \A j, k \in 1 .. N : j < k => name[j].name < name[k].name
      /\ e.name \in Nat /\ i \in 0 .. N
  <2>1. N \in Nat /\ \A j \in 1 .. N : name[j] \in Entry
    BY LenProperties DEF Named
  <2>2. \A x \in Entry : x.name \in Nat
    BY HandleAssumption DEF Entry
  <2> QED
    BY <2>1, <2>2 DEF Named, Sorted
<1> HIDE DEF N
<1>1. /\ a \in Seq(Entry) /\ Len(a) = i /\ \A j \in 1 .. i : a[j] = name[j]
  <2>1. \A j \in 1 .. i : name[j] \in Entry
    BY <1>0 DEF N
  <2>2. /\ a \in Seq(Entry) /\ Len(a) = IF 1 <= i THEN i - 1 + 1 ELSE 0
        /\ \A j \in 1 .. i - 1 + 1 : a[j] = name[1 + j - 1]
    BY <1>0, <2>1, SubSeqProperties
  <2> HIDE DEF a
  <2>3. Len(a) = i
    BY <1>0, <2>2
  <2>4. ASSUME NEW j \in 1 .. i
        PROVE  a[j] = name[j]
    <3>1. j \in 1 .. i - 1 + 1 /\ 1 + j - 1 = j
      BY <1>0
    <3> QED
      BY <2>2, <3>1
  <2> QED
    BY <2>2, <2>3, <2>4
<1>2. /\ b \in Seq(Entry) /\ Len(b) = N - i /\ \A j \in 1 .. N - i : b[j] = name[i + j]
  <2>1. \A j \in i + 1 .. N : name[j] \in Entry
    BY <1>0 DEF N
  <2>2. /\ b \in Seq(Entry) /\ Len(b) = IF i + 1 <= N THEN N - (i + 1) + 1 ELSE 0
        /\ \A j \in 1 .. N - (i + 1) + 1 : b[j] = name[(i + 1) + j - 1]
    BY <1>0, <2>1, SubSeqProperties DEF N
  <2> HIDE DEF b
  <2>3. (N - (i + 1)) + 1 = N - i /\ (i + 1 > N => N - i = 0)
    BY <1>0
  <2>4. ASSUME NEW j \in 1 .. N - i
        PROVE  b[j] = name[i + j]
    <3>1. ((i + 1) + j) - 1 = i + j
      BY <1>0
    <3> QED
      BY <2>2, <2>3, <3>1
  <2> QED
    BY <1>0, <2>2, <2>3, <2>4
<1> HIDE DEF a, b
<1>3. /\ c \in Seq(Entry) /\ Len(c) = i + 1
      /\ \A j \in 1 .. i + 1 : c[j] = IF j <= i THEN name[j] ELSE e
  <2>1. <<e>> \in Seq(Entry) /\ Len(<<e>>) = 1 /\ <<e>>[1] = e
    OBVIOUS
  <2> DEFINE d == <<e>>
  <2> HIDE DEF d
  <2>2. /\ a \o d \in Seq(Entry) /\ Len(a \o d) = i + 1
        /\ \A j \in 1 .. i + 1 : (a \o d)[j] = IF j <= i THEN a[j] ELSE d[j - i]
    <3>1. d \in Seq(Entry) /\ Len(d) = 1
      BY <2>1 DEF d
    <3>2. /\ a \o d \in Seq(Entry) /\ Len(a \o d) = Len(a) + Len(d)
          /\ \A j \in 1 .. Len(a) + Len(d) :
               (a \o d)[j] = IF j <= Len(a) THEN a[j] ELSE d[j - Len(a)]
      BY <1>1, <3>1, ConcatProperties
    <3> QED
      BY <1>1, <3>1, <3>2
  <2>3. d[1] = e
    BY <2>1 DEF d
  <2> QED
    BY <1>1, <2>2, <2>3 DEF d
<1> HIDE DEF c
<1>4. /\ s \in Seq(Entry) /\ Len(s) = N + 1
      /\ \A j \in 1 .. N + 1 : s[j] = IF j <= i THEN name[j]
                                      ELSE IF j = i + 1 THEN e ELSE name[j - 1]
  <2>1. s = c \o b
    BY DEF InsertAt, a, b, c, N
  <2>2. /\ c \o b \in Seq(Entry) /\ Len(c \o b) = (i + 1) + (N - i)
        /\ \A j \in 1 .. (i + 1) + (N - i) :
             (c \o b)[j] = IF j <= i + 1 THEN c[j] ELSE b[j - (i + 1)]
    <3>1. /\ c \o b \in Seq(Entry) /\ Len(c \o b) = Len(c) + Len(b)
          /\ \A j \in 1 .. Len(c) + Len(b) :
               (c \o b)[j] = IF j <= Len(c) THEN c[j] ELSE b[j - Len(c)]
      BY <1>2, <1>3, ConcatProperties
    <3> QED
      BY <1>2, <1>3, <3>1
  <2> HIDE DEF s
  <2>4. (i + 1) + (N - i) = N + 1
    BY <1>0
  <2>3. ASSUME NEW j \in 1 .. N + 1
        PROVE  s[j] = IF j <= i THEN name[j] ELSE IF j = i + 1 THEN e ELSE name[j - 1]
    <3>1. s[j] = IF j <= i + 1 THEN c[j] ELSE b[j - (i + 1)]
      BY <2>1, <2>2, <2>4
    <3>2. CASE j <= i + 1
      BY <1>0, <1>3, <3>1, <3>2
    <3>3. CASE j > i + 1
      <4>1. j - (i + 1) \in 1 .. N - i /\ i + (j - (i + 1)) = j - 1
        BY <1>0, <3>3
      <4> QED
        BY <1>0, <1>2, <3>1, <3>3, <4>1
    <3> QED
      BY <1>0, <3>2, <3>3
  <2> QED
    BY <2>1, <2>2, <2>3, <2>4
<1> SUFFICES /\ Sorted(s)
             /\ \A x : (\E k \in 1 .. Len(s) : s[k] = x)
                         <=> x = e \/ \E k \in 1 .. N : name[k] = x
  BY <1>4 DEF N
<1> HIDE DEF s
<1>5. Sorted(s)
  <2> SUFFICES ASSUME NEW j \in 1 .. N + 1, NEW k \in 1 .. N + 1, j < k
               PROVE  s[j].name < s[k].name
    BY <1>4 DEF Sorted
  <2>1. CASE k <= i
    <3>1. s[j] = name[j] /\ s[k] = name[k] /\ j \in 1 .. N /\ k \in 1 .. N
      BY <1>0, <1>4, <2>1
    <3> QED
      BY <1>0, <3>1
  <2>2. CASE k = i + 1
    BY <1>0, <1>4, <2>2
  <2>3. CASE k > i + 1
    <3>1. s[k] = name[k - 1] /\ k - 1 \in i + 1 .. N
      BY <1>0, <1>4, <2>3
    <3>2. CASE j <= i
      <4>1. s[j] = name[j] /\ j < k - 1 /\ j \in 1 .. N
        BY <1>0, <1>4, <3>1, <3>2
      <4> QED
        BY <1>0, <3>1, <4>1
    <3>3. CASE j = i + 1
      <4>1. s[j] = e
        BY <1>0, <1>4, <3>3
      <4> QED
        BY <3>1, <4>1 DEF N
    <3>4. CASE j > i + 1
      <4>1. s[j] = name[j - 1] /\ j - 1 \in 1 .. N /\ j - 1 < k - 1
        BY <1>0, <1>4, <3>4
      <4> QED
        BY <1>0, <3>1, <4>1
    <3> QED
      BY <1>0, <3>2, <3>3, <3>4
  <2> QED
    BY <1>0, <2>1, <2>2, <2>3
<1>6. ASSUME NEW k \in 1 .. N
      PROVE  \E j \in 1 .. N + 1 : s[j] = name[k]
  <2>1. CASE k <= i
    BY <1>0, <1>4, <2>1
  <2>2. CASE k > i
    <3>1. k + 1 \in 1 .. N + 1 /\ s[k + 1] = name[k]
      BY <1>0, <1>4, <2>2
    <3> QED
      BY <3>1
  <2>3. k <= i \/ k > i
    BY <1>0
  <2> QED
    BY <2>1, <2>2, <2>3
<1>7. s[i + 1] = e /\ i + 1 \in 1 .. N + 1
  BY <1>0, <1>4 DEF N
<1>8. ASSUME NEW j \in 1 .. N + 1
      PROVE  s[j] = e \/ \E k \in 1 .. N : s[j] = name[k]
  <2>1. CASE j <= i
    BY <1>0, <1>4, <2>1 DEF N
  <2>2. CASE j > i + 1
    <3>1. j - 1 \in 1 .. N /\ s[j] = name[j - 1]
      BY <1>0, <1>4, <2>2
    <3> QED
      BY <3>1
  <2>3. CASE j = i + 1
    BY <1>7, <2>3
  <2> QED
    BY <1>0, <2>1, <2>2, <2>3
<1>9. Len(s) = N + 1
  BY <1>4
<1>10. ASSUME NEW x, \E k \in 1 .. N + 1 : s[k] = x
       PROVE  x = e \/ \E k \in 1 .. N : name[k] = x
  BY <1>8, <1>10
<1>11. ASSUME NEW x, x = e \/ \E k \in 1 .. N : name[k] = x
       PROVE  \E k \in 1 .. N + 1 : s[k] = x
  BY <1>6, <1>7, <1>11
<1> QED
  BY <1>5, <1>9, <1>10, <1>11
-----------------------------------------------------------------------------
(* The table.                                                              *)

Slot(size) == 0 .. size - 1
Tables(size) == [Slot(size) -> Ctx \cup {NULL}]

\* A size of the table divides the number of handles.
Fits(size) == size \in Nat \ {0} /\ (HANDLE_MASK + 1) % size = 0

\* The numbers a handle has before the harbor is added.
Raw == 0 .. HANDLE_MASK

LEMMA AddressesAreNumbers ==
  /\ (\A h \in Handle : h \in Nat) /\ Address \subseteq Handle /\ 0 \notin Address
  /\ \A i \in Raw : i + Harbor \in Handle
<1>1. \A i \in Raw : i \in Nat
  BY HandleAssumption DEF Raw
<1> QED
  BY <1>1, HandleAssumption DEF Handle, Address, Raw

\* The search for a free slot looks into all of them.
LEMMA FreeHandleIs ==
  ASSUME NEW size, Fits(size), NEW table \in Tables(size), handle_index \in Nat,
         \E k \in Slot(size) : table[k] = NULL
  PROVE  /\ FreeHandle(size, table) \in Raw
         /\ FreeHandle(size, table) % size \in Slot(size)
         /\ table[FreeHandle(size, table) % size] = NULL
<1> DEFINE M == HANDLE_MASK + 1
           Probe(i) == (i + handle_index) % M
           Empty(i) == table[Probe(i) % size] = NULL
           S == {i \in Slot(size) : Empty(i)}
           Is(i) == Empty(i) /\ \A j \in 0 .. i - 1 : ~ Empty(j)
           first == CHOOSE i \in Slot(size) : Is(i)
<1>0. M \in Nat \ {0} /\ size \in Nat \ {0} /\ M % size = 0 /\ Slot(size) \subseteq Nat
  BY HandleAssumption DEF Fits, Slot
<1> HIDE DEF M
<1>1. PICK k \in Slot(size) : table[k] = NULL
  OBVIOUS
<1>2. PICK i \in 0 .. size - 1 : (i + handle_index) % size = k
  <2>1. k \in 0 .. size - 1
    BY <1>1 DEF Slot
  <2>2. size \in Nat \ {0} /\ handle_index \in Nat
    BY <1>0
  <2>3. \E i \in 0 .. size - 1 : (i + handle_index) % size = k
    BY <2>1, <2>2, ProbeAll
  <2> QED
    BY <2>3
<1>3. ((i + handle_index) % M) % size = (i + handle_index) % size
  <2> DEFINE a == i + handle_index
  <2>1. a \in Int
    BY <1>0
  <2> HIDE DEF a
  <2>2. (a % M) % size = a % size
    BY <1>0, <2>1, ModMod
  <2> QED
    BY <2>2 DEF a
<1>4. i \in S
  BY <1>1, <1>2, <1>3 DEF Slot
<1>5. \E j \in S : \A u \in S : ~ (u < j)
  <2>1. S \subseteq Nat /\ S # {}
    BY <1>0, <1>4
  <2> HIDE DEF S
  <2>2. PICK j \in S : \A u \in S : ~ (<<u, j>> \in OpToRel(<, Nat))
    BY <2>1, NatLessThanWellFounded, WFMin
  <2> QED
    BY <2>1, <2>2 DEF OpToRel
<1>6. \E j \in Slot(size) : Is(j)
  <2>1. PICK j \in S : \A u \in S : ~ (u < j)
    BY <1>5
  <2>2. ASSUME NEW u \in 0 .. j - 1
        PROVE  ~ Empty(u)
    BY <1>0, <2>1 DEF Slot
  <2> HIDE DEF Empty
  <2> QED
    BY <2>1, <2>2
<1>7. first \in Slot(size) /\ Is(first)
  <2> HIDE DEF Is
  <2> QED
    BY <1>6
<1> HIDE DEF first
<1>8. Probe(first) \in 0 .. M - 1
  BY <1>0, <1>7, ModIs DEF Slot
<1>9. FreeHandle(size, table) = Probe(first)
  BY DEF FreeHandle, first, Slot, M
<1> HIDE DEF Probe
<1>10. Probe(first) % size \in 0 .. size - 1
  <2> DEFINE a == Probe(first)
  <2>1. a \in Int
    BY <1>0, <1>8
  <2> HIDE DEF a
  <2>2. a % size \in 0 .. size - 1
    BY <1>0, <2>1, ModIs
  <2> QED
    BY <2>2 DEF a
<1> QED
  BY <1>7, <1>8, <1>9, <1>10, HandleAssumption DEF Slot, Raw, M

\* Assertions of the growth that hold make it a table with every context at the slot of
\* its handle and a free slot.
LEMMA RehashedIs ==
  ASSUME slot_size \in Nat \ {0}, slot \in Tables(slot_size),
         handle \in [Ctx -> Handle \cup {0}], Full, RehashFits,
         NEW size \in Nat \ {0}
  PROVE  size = 2 * slot_size =>
         /\ Rehashed \in Tables(size)
         /\ \A j \in Slot(slot_size) :
              /\ slot[j] \in Ctx /\ handle[slot[j]] % size \in Slot(size)
              /\ Rehashed[handle[slot[j]] % size] = slot[j]
         /\ \A k \in Slot(size) : Rehashed[k] # NULL =>
              \E j \in Slot(slot_size) : handle[slot[j]] % size = k /\ Rehashed[k] = slot[j]
         /\ \E k \in Slot(size) : Rehashed[k] = NULL
<1> DEFINE old == Slot(slot_size)
           new == Slot(size)
           H(j) == handle[slot[j]] % size
           S(k) == {j \in old : H(j) = k}
<1>1. /\ DOMAIN slot = old /\ \A j \in old : slot[j] \in Ctx
      /\ \A j \in old : handle[slot[j]] \in Nat
  <2>1. DOMAIN slot = old /\ \A j \in old : slot[j] \in Ctx
    BY HandleAssumption DEF Full, Tables
  <2>2. \A c \in Ctx : handle[c] \in Nat
    <3> TAKE c \in Ctx
    <3>1. handle[c] \in Handle \/ handle[c] = 0
      OBVIOUS
    <3>2. handle[c] \in Handle => handle[c] \in Nat
      BY AddressesAreNumbers
    <3> QED
      BY <3>1, <3>2
  <2> QED
    BY <2>1, <2>2
<1>2. \A j \in old : H(j) \in new
  <2> TAKE j \in old
  <2> DEFINE a == handle[slot[j]]
  <2>1. a \in Int
    BY <1>1
  <2> HIDE DEF a
  <2>2. a % size \in 0 .. size - 1
    BY <2>1, ModIs
  <2> QED
    BY <2>2 DEF a, Slot
<1> HAVE size = 2 * slot_size
<1>3. \A j, k \in old : H(j) = H(k) => j = k
  BY <1>1 DEF RehashFits, NewHash
<1>4. Rehashed = [k \in new |-> IF \E j \in old : H(j) = k
                                THEN slot[CHOOSE j \in old : H(j) = k] ELSE NULL]
  BY <1>1 DEF Rehashed, NewHash, Slot
<1> HIDE DEF H, old, new
<1>5. ASSUME NEW j \in old
      PROVE  Rehashed[H(j)] = slot[j]
  <2> DEFINE u == CHOOSE i \in old : H(i) = H(j)
  <2>1. u \in old /\ H(u) = H(j)
    OBVIOUS
  <2>2. u = j
    BY <1>3, <2>1
  <2> QED
    BY <1>2, <1>4, <2>2
<1>6. ASSUME NEW k \in new, Rehashed[k] # NULL
      PROVE  \E j \in old : H(j) = k /\ Rehashed[k] = slot[j]
  <2>1. \E j \in old : H(j) = k
    BY <1>4, <1>6
  <2> QED
    BY <1>5, <2>1
<1>7. Rehashed \in [new -> Ctx \cup {NULL}]
  <2>1. ASSUME NEW k \in new
        PROVE  Rehashed[k] \in Ctx \cup {NULL}
    BY <1>1, <1>6
  <2>2. Rehashed = [k \in new |-> Rehashed[k]]
    BY <1>4
  <2> QED
    BY <2>1, <2>2
<1>8. \E k \in new : Rehashed[k] = NULL
  <2> SUFFICES ASSUME \A k \in new : Rehashed[k] # NULL
               PROVE  FALSE
    OBVIOUS
  <2> DEFINE f == [k \in new |-> CHOOSE j \in old : H(j) = k]
  <2>1. ASSUME NEW k \in new
        PROVE  f[k] \in old /\ H(f[k]) = k
    BY <1>6
  <2>2. f \in [new -> old]
    BY <2>1
  <2>3. /\ IsFiniteSet(new) /\ Cardinality(new) = size
        /\ IsFiniteSet(old) /\ Cardinality(old) = slot_size
    BY FS_Interval DEF new, old, Slot
  <2>4. Cardinality(old) < Cardinality(new)
    BY <2>3
  <2> HIDE DEF f
  <2>5. PICK x, y \in new : x # y /\ f[x] = f[y]
    BY <2>2, <2>3, <2>4, FS_PigeonHole
  <2> QED
    BY <2>1, <2>5
<1> QED
  BY <1>1, <1>2, <1>5, <1>6, <1>7, <1>8 DEF H, old, new, Tables
-----------------------------------------------------------------------------
(* The inductive invariant.                                                *)

\* No context is in two slots or was freed, and only slot 0 may have one whose handle
\* belongs into another: it had no handle yet when the table grew.
Slots ==
  /\ \A j, k \in Slot(slot_size) : slot[j] = slot[k] /\ slot[j] # NULL => j = k
  /\ \A k \in Slot(slot_size) : slot[k] # NULL => st[slot[k]] = "known"
  /\ \A k \in Slot(slot_size) : slot[k] # NULL =>
       handle[slot[k]] = 0 \/ k = 0 \/ k = handle[slot[k]] % slot_size

\* A context that is being launched has one launcher and no handle.
Launches ==
  /\ \A c \in Ctx : st[c] = "none" => handle[c] = 0
  /\ \A t \in Launcher : pc[t] = "idle" <=> ctx[t] = NULL
  /\ \A t \in Launcher : ctx[t] # NULL => handle[ctx[t]] = 0 /\ st[ctx[t]] # "none"
  /\ \A t, u \in Launcher : ctx[t] = ctx[u] /\ ctx[t] # NULL => t = u
  /\ \A t \in Launcher : pc[t] = "register" =>
       st[ctx[t]] = "known" /\ \A k \in Slot(slot_size) : slot[k] # ctx[t]
  /\ \A t \in Launcher : pc[t] = "assign" =>
       /\ got[t] \in Handle
       /\ \A k \in Slot(slot_size) : slot[k] = ctx[t] => k = 0 \/ k = got[t] % slot_size

\* What is there since mtask_handle_retireall began is still found, and is in none of
\* the slots that a pass which has retired nothing has gone through.
Sweep ==
  /\ ra_i <= slot_size
  /\ ra = "retire" => ra_i < slot_size
  /\ ra_todo \subseteq Address
  /\ \A h \in ra_todo : GrabOf(h) # NULL
  /\ ra # "idle" /\ ~ ra_any => \A h \in ra_todo : ra_i <= h % slot_size
  /\ ra = "retire" /\ ~ ra_any => \A h \in ra_todo : h % slot_size = ra_i => h = ra_h

IInv == TypeOK /\ Fits(slot_size) /\ Named /\ Slots /\ Launches /\ Sweep

LEMMA TableTyped ==
  ASSUME TypeOK, Fits(slot_size)
  PROVE  /\ slot_size \in Nat \ {0} /\ slot \in Tables(slot_size)
         /\ \A h \in Handle : h \in Nat /\ h % slot_size \in Slot(slot_size)
         /\ \A c \in Ctx : handle[c] \in Nat /\ handle[c] \in Handle \cup {0}
         /\ \A c \in Ctx : handle[c] # 0 => handle[c] \in Address
<1>1. slot_size \in Nat \ {0} /\ slot \in Tables(slot_size)
  BY DEF Fits, TypeOK, Tables, Slot
<1>2. ASSUME NEW h \in Handle
      PROVE  h \in Nat /\ h % slot_size \in Slot(slot_size)
  <2>1. h \in Nat /\ slot_size \in Nat \ {0}
    BY <1>1, AddressesAreNumbers
  <2> QED
    BY <2>1, ModIs DEF Slot
<1>3. ASSUME NEW c \in Ctx
      PROVE  /\ handle[c] \in Nat /\ handle[c] \in Handle \cup {0}
             /\ handle[c] # 0 => handle[c] \in Address
  <2>1. handle[c] \in Handle \cup {0}
    BY DEF TypeOK
  <2> QED
    BY <2>1, AddressesAreNumbers DEF Address
<1> QED
  BY <1>1, <1>2, <1>3

LEMMA InitKeeps ==
  Init => IInv
<1> SUFFICES ASSUME Init
             PROVE  IInv
  OBVIOUS
<1> USE DEF Init
<1>1. DEFAULT_SLOT_SIZE \in Nat \ {0} /\ HANDLE_MASK \in Nat /\ (HANDLE_MASK + 1) % DEFAULT_SLOT_SIZE = 0
  BY HandleAssumption
<1>2. DEFAULT_SLOT_SIZE <= HANDLE_MASK + 1
  <2> DEFINE m == HANDLE_MASK + 1
             s == DEFAULT_SLOT_SIZE
  <2>1. m \in Nat \ {0} /\ s \in Nat \ {0} /\ m % s = 0
    BY <1>1
  <2> HIDE DEF m, s
  <2>2. m \div s \in Int /\ m = (s * (m \div s)) + (m % s)
    BY <2>1, ModIs
  <2> DEFINE q == m \div s
  <2> HIDE DEF q
  <2>3. q \in Int /\ m = s * q
    BY <2>1, <2>2 DEF q
  <2>4. q >= 1
    BY <2>1, <2>3
  <2>5. s <= m
    BY <2>1, <2>3, <2>4
  <2> QED
    BY <2>5 DEF m, s
<1>3. TypeOK
  <2>1. name \in Seq([name : Name, handle : Handle])
    BY EmptySeq
  <2>2. handle_index \in 1 .. HANDLE_MASK + 1 /\ slot_size \in 1 .. HANDLE_MASK + 1
        /\ ra_i \in 0 .. HANDLE_MASK + 1
    BY <1>1, <1>2
  <2>3. slot \in [0 .. slot_size - 1 -> Ctx \cup {NULL}]
    OBVIOUS
  <2> QED
    BY <2>1, <2>2, <2>3 DEF TypeOK
<1>4. Named
  BY EmptySeq DEF Named, Sorted
<1> QED
  BY <1>1, <1>3, <1>4, HandleAssumption DEF IInv, Fits, Slots, Launches, Sweep, Slot

-----------------------------------------------------------------------------
(* Every step keeps the invariant.                                         *)

\* A step beside mtask_handle_retireall: the table does not shrink and what is still to
\* be retired is still found.
LEMMA SweepKept ==
  ASSUME TypeOK, TypeOK', Fits(slot_size), Fits(slot_size'), Sweep, UNCHANGED raVars,
         slot_size <= slot_size', ra_todo' \subseteq ra_todo,
         \A h \in ra_todo' : GrabOf(h)' # NULL /\ h % slot_size <= h % slot_size'
  PROVE  Sweep'
<1>1. /\ \A h \in ra_todo' : h \in ra_todo /\ h % slot_size \in Int /\ h % slot_size' \in Int
      /\ ra_i \in Int /\ slot_size \in Int /\ slot_size' \in Int
  <2>1. ra_todo' \subseteq Handle /\ slot_size \in Nat \ {0} /\ slot_size' \in Nat \ {0} /\ ra_i \in Int
    BY HandleAssumption DEF TypeOK, Fits
  <2>2. ASSUME NEW h \in ra_todo'
        PROVE  h % slot_size \in Int /\ h % slot_size' \in Int
    <3>1. h \in Handle /\ h \in Int
      BY <2>1, AddressesAreNumbers
    <3>2. h % slot_size \in Int
      BY <2>1, <3>1, ModIs
    <3>3. h % slot_size' \in Int
      BY <2>1, <3>1, ModIs
    <3> QED
      BY <3>2, <3>3
  <2> QED
    BY <2>1, <2>2
<1> USE DEF Sweep, raVars
<1>2. ra_i' <= slot_size' /\ (ra' = "retire" => ra_i' < slot_size')
  BY <1>1
<1>3. ra' # "idle" /\ ~ ra_any' => \A h \in ra_todo' : ra_i' <= h % slot_size'
  BY <1>1
<1>4. ra' = "retire" /\ ~ ra_any' =>
        \A h \in ra_todo' : h % slot_size' = ra_i' => h = ra_h'
  BY <1>1
<1>5. ra_todo' \subseteq Address /\ \A h \in ra_todo' : GrabOf(h)' # NULL
  OBVIOUS
<1> QED
  BY <1>2, <1>3, <1>4, <1>5

LEMMA CreateKeeps ==
  ASSUME IInv, NEW t \in Launcher, Create(t)
  PROVE  IInv'
<1> USE DEF IInv
<1>0. UNCHANGED <<slot_size, slot, handle_index, name, handle, got, ra, ra_i, ra_h, ra_any, ra_todo>>
  BY DEF Create, tableVars, raVars
<1>1. PICK c \in Ctx : /\ st[c] = "none" /\ st' = [st EXCEPT ![c] = "known"]
                       /\ ctx' = [ctx EXCEPT ![t] = c] /\ pc' = [pc EXCEPT ![t] = "register"]
                       /\ pc[t] = "idle"
  BY DEF Create
<1>2. TypeOK'
  BY <1>0, <1>1 DEF TypeOK
<1>3. Fits(slot_size)' /\ Named'
  BY <1>0 DEF Fits, Named, Sorted
<1>4. Slots'
  BY <1>0, <1>1, TableTyped DEF Slots, TypeOK, Slot, Tables
<1>5. Launches'
  <2>1. \A k \in Slot(slot_size) : slot[k] # c
    BY <1>1, HandleAssumption DEF Slots
  <2>2. \A u \in Launcher : ctx[u] # c
    BY <1>1, HandleAssumption DEF Launches
  <2>3. handle[c] = 0
    BY <1>1 DEF Launches
  <2> QED
    BY <1>0, <1>1, <2>1, <2>2, <2>3, HandleAssumption DEF Launches, TypeOK
<1>6. Sweep'
  BY <1>0 DEF Sweep, GrabOf
<1> QED
  BY <1>2, <1>3, <1>4, <1>5, <1>6

LEMMA FreeKeeps ==
  ASSUME IInv, NEW c \in Ctx, Free(c)
  PROVE  IInv'
<1> USE DEF IInv
<1>0. UNCHANGED <<slot_size, slot, handle_index, name, pc, ctx, got, ra, ra_i, ra_h, ra_any, ra_todo>>
  BY DEF Free, tableVars, raVars, launchVars
<1>1. /\ st[c] = "retired" /\ st' = [st EXCEPT ![c] = "none"]
      /\ handle' = [handle EXCEPT ![c] = 0] /\ \A t \in Launcher : ctx[t] # c
  BY DEF Free
<1>2. TypeOK'
  BY <1>0, <1>1 DEF TypeOK
<1>3. Fits(slot_size)' /\ Named'
  BY <1>0 DEF Fits, Named, Sorted
<1>4. \A k \in Slot(slot_size) : slot[k] # c
  BY <1>1, HandleAssumption DEF Slots
<1>5. Slots'
  BY <1>0, <1>1, <1>4, TableTyped DEF Slots, TypeOK, Slot, Tables
<1>6. Launches'
  BY <1>0, <1>1, HandleAssumption DEF Launches, TypeOK
<1>7. Sweep'
  <2>1. ASSUME NEW h \in ra_todo
        PROVE  GrabOf(h)' # NULL
    <3>1. h \in Handle /\ h % slot_size \in Slot(slot_size) /\ GrabOf(h) # NULL
      BY TableTyped DEF Sweep, TypeOK
    <3>2. slot[h % slot_size] \in Ctx /\ slot[h % slot_size] # c
      BY <1>4, <3>1, TableTyped DEF GrabOf, Tables
    <3> QED
      BY <1>0, <1>1, <3>1, <3>2 DEF GrabOf, TypeOK
  <2> QED
    BY <1>0, <2>1 DEF Sweep
<1> QED
  BY <1>2, <1>3, <1>5, <1>6, <1>7

\* ctx->handle is assigned: nobody else has a use for that context.
LEMMA AssignKeeps ==
  ASSUME IInv, NEW t \in Launcher, Assign(t)
  PROVE  IInv'
<1> USE DEF IInv
<1> DEFINE c == ctx[t]
<1>0. UNCHANGED <<slot_size, slot, handle_index, name, st, ra, ra_i, ra_h, ra_any, ra_todo>>
  BY DEF Assign, tableVars, raVars
<1>1. /\ pc[t] = "assign" /\ handle' = [handle EXCEPT ![c] = got[t]]
      /\ pc' = [pc EXCEPT ![t] = "idle"] /\ ctx' = [ctx EXCEPT ![t] = NULL]
      /\ got' = [got EXCEPT ![t] = 0]
  BY DEF Assign
<1>2. /\ c \in Ctx /\ handle[c] = 0 /\ st[c] # "none" /\ got[t] \in Handle
      /\ \A k \in Slot(slot_size) : slot[k] = c => k = 0 \/ k = got[t] % slot_size
      /\ \A u \in Launcher : u # t => ctx[u] # c
  BY <1>1 DEF Launches, TypeOK
<1> HIDE DEF c
<1>3. TypeOK'
  BY <1>0, <1>1, <1>2 DEF TypeOK
<1>4. Fits(slot_size)' /\ Named'
  BY <1>0 DEF Fits, Named, Sorted
<1>5. Slots'
  <2>1. ASSUME NEW k \in Slot(slot_size), slot[k] # NULL
        PROVE  handle'[slot[k]] = 0 \/ k = 0 \/ k = handle'[slot[k]] % slot_size
    <3>1. slot[k] \in Ctx
      BY <2>1, TableTyped DEF Tables
    <3>2. CASE slot[k] = c
      BY <1>1, <1>2, <3>2 DEF TypeOK
    <3>3. CASE slot[k] # c
      BY <1>1, <2>1, <3>1, <3>3 DEF TypeOK, Slots
    <3> QED
      BY <3>2, <3>3
  <2> QED
    BY <1>0, <2>1 DEF Slots
<1>6. Launches'
  BY <1>0, <1>1, <1>2, HandleAssumption DEF Launches, TypeOK
<1>7. Sweep'
  <2>1. ASSUME NEW h \in ra_todo
        PROVE  GrabOf(h)' # NULL
    <3>1. h \in Handle /\ h # 0 /\ h % slot_size \in Slot(slot_size) /\ GrabOf(h) # NULL
      BY TableTyped, AddressesAreNumbers DEF Sweep, TypeOK
    <3>2. slot[h % slot_size] \in Ctx /\ handle[slot[h % slot_size]] = h
      BY <3>1, TableTyped DEF GrabOf, Tables
    <3> QED
      BY <1>0, <1>1, <1>2, <3>1, <3>2 DEF GrabOf, TypeOK
  <2> QED
    BY <1>0, <2>1 DEF Sweep
<1> QED
  BY <1>3, <1>4, <1>5, <1>6, <1>7

LEMMA NameHandleKeeps ==
  ASSUME IInv, NEW n \in Name, NEW c \in Ctx, NameHandle(n, c)
  PROVE  /\ IInv'
         /\ \A x : (\E k \in 1 .. Len(name') : name'[k] = x)
                     <=> \/ x = [name |-> n, handle |-> handle[c]]
                         \/ \E k \in 1 .. Len(name) : name[k] = x
         /\ \A k \in 1 .. Len(name) : name[k].name # n
<1> USE DEF IInv
<1> DEFINE e == [name |-> n, handle |-> handle[c]]
           r == Search(n)
<1>0. /\ UNCHANGED <<slot_size, slot, handle_index, handle, st, pc, ctx, got, ra, ra_i, ra_h, ra_any, ra_todo>>
      /\ handle[c] # 0 /\ ~ r.found /\ name' = InsertAt(r.at, e)
  BY DEF NameHandle, tableVars, launchVars, raVars
<1>1. e \in Entry
  BY <1>0, TableTyped DEF Entry
<1>2. Finds(n, r)
  BY SearchFinds
<1> HIDE DEF r, e
<1>3. /\ r.at \in 0 .. Len(name) /\ e.name = n
      /\ \A i \in 1 .. r.at : name[i].name < e.name
      /\ \A i \in r.at + 1 .. Len(name) : e.name < name[i].name
  BY <1>0, <1>2 DEF Finds, e
<1>4. /\ name' \in Seq(Entry) /\ Sorted(name')
      /\ \A x : (\E k \in 1 .. Len(name') : name'[k] = x)
                  <=> x = e \/ \E k \in 1 .. Len(name) : name[k] = x
  <2> DEFINE i == r.at
             new == InsertAt(i, e)
  <2>1. /\ i \in 0 .. Len(name) /\ \A j \in 1 .. i : name[j].name < e.name
        /\ \A j \in i + 1 .. Len(name) : e.name < name[j].name
    BY <1>3
  <2> HIDE DEF i
  <2>2. /\ new \in Seq(Entry) /\ Sorted(new)
        /\ \A x : (\E k \in 1 .. Len(new) : new[k] = x)
                    <=> x = e \/ \E k \in 1 .. Len(name) : name[k] = x
    BY <1>1, <2>1, InsertedIs
  <2>3. name' = new
    BY <1>0 DEF i
  <2> HIDE DEF new
  <2> QED
    BY <2>2, <2>3
<1>5. Named'
  BY <1>4 DEF Named, Sorted
<1>6. name' \in Seq([name : Name, handle : Handle])
  <2>1. Entry \subseteq [name : Name, handle : Handle]
    BY AddressesAreNumbers DEF Entry
  <2> QED
    BY <1>4, <2>1, SeqMonotonic
<1>7. TypeOK'
  BY <1>0, <1>6 DEF TypeOK
<1>8. Fits(slot_size)' /\ Slots' /\ Launches' /\ Sweep'
  BY <1>0 DEF Fits, Slots, Launches, Sweep, GrabOf, Slot
<1>9. \A k \in 1 .. Len(name) : name[k].name # n
  <2> TAKE k \in 1 .. Len(name)
  <2>1. Len(name) \in Nat /\ name[k] \in Entry
    BY LenProperties DEF Named
  <2>2. name[k].name \in Nat /\ n \in Nat
    BY <2>1, HandleAssumption DEF Entry
  <2>3. k \in 1 .. r.at \/ k \in r.at + 1 .. Len(name)
    BY <1>3, <2>1
  <2> QED
    BY <1>3, <2>2, <2>3
<1> QED
  BY <1>4, <1>5, <1>7, <1>8, <1>9 DEF e
-----------------------------------------------------------------------------
(* The table that a registration finds a slot in: grown, or as it was.      *)

NewSize == IF Full THEN 2 * slot_size ELSE slot_size
NewTable == IF Full THEN Rehashed ELSE slot

\* No assertion of mtask_handle_register fails.
Registers == Full => RehashFits /\ 2 * slot_size - 1 <= HANDLE_MASK

LEMMA NewSizeIs ==
  ASSUME TypeOK, Fits(slot_size), Registers
  PROVE  /\ Fits(NewSize) /\ NewSize \in 1 .. HANDLE_MASK + 1 /\ slot_size <= NewSize
         /\ \A h \in Nat : h % slot_size <= h % NewSize
<1>0. slot_size \in Nat \ {0} /\ HANDLE_MASK \in Nat /\ slot_size \in 1 .. HANDLE_MASK + 1
  BY HandleAssumption DEF TypeOK, Fits
<1>1. CASE ~ Full
  <2>1. NewSize = slot_size
    BY <1>1 DEF NewSize
  <2>2. \A h \in Nat : h % slot_size \in Int
    BY <1>0, ModIs
  <2> QED
    BY <1>0, <2>1, <2>2 DEF Fits
<1>2. CASE Full
  <2> DEFINE d == 2 * slot_size
  <2>0. NewSize = d /\ d \in Nat \ {0} /\ d - 1 <= HANDLE_MASK /\ d = 2 * slot_size
    BY <1>0, <1>2 DEF NewSize, Registers
  <2>1. slot_size \in 1 .. HANDLE_MASK /\ slot_size <= d
    BY <1>0, <2>0
  <2>2. (HANDLE_MASK + 1) % d = 0
    BY <2>1, HandleAssumption DEF Fits
  <2> HIDE DEF d
  <2>3. ASSUME NEW h \in Nat
        PROVE  h % slot_size <= h % d
    <3>0. h \in Int
      OBVIOUS
    <3>1. h % d \in {h % slot_size, (h % slot_size) + slot_size}
      <4>1. d = 2 * slot_size => h % d \in {h % slot_size, (h % slot_size) + slot_size}
        BY <1>0, <2>0, <3>0, ModDouble
      <4> QED
        BY <2>0, <4>1
    <3>2. h % slot_size \in Int
      BY <1>0, ModIs
    <3> QED
      BY <1>0, <3>1, <3>2
  <2>4. d \in 1 .. HANDLE_MASK + 1
    BY <1>0, <2>0
  <2> QED
    BY <2>0, <2>1, <2>2, <2>3, <2>4 DEF Fits
<1> QED
  BY <1>1, <1>2

LEMMA NewTableIs ==
  ASSUME TypeOK, Fits(slot_size), Slots, Registers
  PROVE  /\ NewTable \in Tables(NewSize)
         /\ \E k \in Slot(NewSize) : NewTable[k] = NULL
         /\ \A k \in Slot(NewSize) : NewTable[k] # NULL =>
              /\ \E j \in Slot(slot_size) : NewTable[k] = slot[j]
              /\ \/ k = handle[NewTable[k]] % NewSize
                 \/ ~ Full /\ (handle[NewTable[k]] = 0 \/ k = 0)
         /\ \A j, k \in Slot(NewSize) : NewTable[j] = NewTable[k] /\ NewTable[j] # NULL => j = k
         /\ \A h \in Handle : GrabOf(h) # NULL => NewTable[h % NewSize] = GrabOf(h)
<1>0. slot_size \in Nat \ {0} /\ slot \in Tables(slot_size) /\ DOMAIN slot = Slot(slot_size)
  BY TableTyped DEF Tables
<1>1. CASE ~ Full
  <2>1. NewSize = slot_size /\ NewTable = slot
    BY <1>1 DEF NewSize, NewTable
  <2>2. \E k \in Slot(slot_size) : slot[k] = NULL
    BY <1>0, <1>1 DEF Full
  <2>3. \A h \in Handle : GrabOf(h) # NULL => slot[h % slot_size] = GrabOf(h)
    BY DEF GrabOf
  <2> QED
    BY <1>0, <1>1, <2>1, <2>2, <2>3 DEF Slots
<1>2. CASE Full
  <2>0. NewSize = 2 * slot_size /\ NewTable = Rehashed /\ NewSize \in Nat \ {0} /\ RehashFits
    BY <1>0, <1>2 DEF NewSize, NewTable, Registers
  <2>1. /\ Rehashed \in Tables(NewSize)
        /\ \A j \in Slot(slot_size) :
             /\ slot[j] \in Ctx /\ handle[slot[j]] % NewSize \in Slot(NewSize)
             /\ Rehashed[handle[slot[j]] % NewSize] = slot[j]
        /\ \A k \in Slot(NewSize) : Rehashed[k] # NULL =>
             \E j \in Slot(slot_size) : handle[slot[j]] % NewSize = k /\ Rehashed[k] = slot[j]
        /\ \E k \in Slot(NewSize) : Rehashed[k] = NULL
    <3> DEFINE size == NewSize
    <3>1. size \in Nat \ {0} /\ size = 2 * slot_size
      BY <2>0
    <3>2. handle \in [Ctx -> Handle \cup {0}]
      BY DEF TypeOK
    <3> HIDE DEF size
    <3>3. /\ Rehashed \in Tables(size)
          /\ \A j \in Slot(slot_size) :
               /\ slot[j] \in Ctx /\ handle[slot[j]] % size \in Slot(size)
               /\ Rehashed[handle[slot[j]] % size] = slot[j]
          /\ \A k \in Slot(size) : Rehashed[k] # NULL =>
               \E j \in Slot(slot_size) : handle[slot[j]] % size = k /\ Rehashed[k] = slot[j]
          /\ \E k \in Slot(size) : Rehashed[k] = NULL
      BY <1>0, <1>2, <2>0, <3>1, <3>2, RehashedIs
    <3> QED
      BY <3>3 DEF size
  <2>2. ASSUME NEW h \in Handle, GrabOf(h) # NULL
        PROVE  Rehashed[h % NewSize] = GrabOf(h)
    <3>1. h % slot_size \in Slot(slot_size)
      BY TableTyped
    <3>2. GrabOf(h) = slot[h % slot_size] /\ handle[slot[h % slot_size]] = h
      BY <2>2 DEF GrabOf
    <3> QED
      BY <2>1, <3>1, <3>2
  <2>3. ASSUME NEW j \in Slot(NewSize), NEW k \in Slot(NewSize),
               Rehashed[j] = Rehashed[k], Rehashed[j] # NULL
        PROVE  j = k
    BY <2>1, <2>3
  <2>4. ASSUME NEW k \in Slot(NewSize), Rehashed[k] # NULL
        PROVE  k = handle[Rehashed[k]] % NewSize /\ \E j \in Slot(slot_size) : Rehashed[k] = slot[j]
    BY <2>1, <2>4
  <2> HIDE DEF NewSize, NewTable
  <2> QED
    BY <2>0, <2>1, <2>2, <2>3, <2>4
<1> QED
  BY <1>1, <1>2

LEMMA RegisterIs ==
  ASSUME IInv, NEW t \in Launcher, Register(t)
  PROVE  \E h \in Raw, k \in Slot(NewSize) :
           /\ NewTable[k] = NULL /\ k = (h + Harbor) % NewSize /\ h + Harbor \in Handle
           /\ slot_size' = NewSize /\ slot' = [NewTable EXCEPT ![k] = ctx[t]]
           /\ handle_index' = h + 1 /\ got' = [got EXCEPT ![t] = h + Harbor]
<1> DEFINE h == FreeHandle(NewSize, NewTable)
<1>0. IInv /\ TypeOK /\ Fits(slot_size) /\ Slots
  BY DEF IInv
<1>1. Registers
  BY DEF Register, Registers
<1>2. /\ slot_size' = NewSize /\ slot' = [NewTable EXCEPT ![h % NewSize] = ctx[t]]
      /\ handle_index' = h + 1 /\ got' = [got EXCEPT ![t] = h + Harbor]
  BY DEF Register, NewSize, NewTable
<1>3. Fits(NewSize) /\ NewTable \in Tables(NewSize) /\ \E k \in Slot(NewSize) : NewTable[k] = NULL
  BY <1>0, <1>1, NewSizeIs, NewTableIs
<1>4. handle_index \in Nat
  BY <1>0, HandleAssumption DEF TypeOK
<1>5. h \in Raw /\ h % NewSize \in Slot(NewSize) /\ NewTable[h % NewSize] = NULL
  BY <1>3, <1>4, FreeHandleIs
<1> HIDE DEF h
<1>6. (h + Harbor) % NewSize = h % NewSize
  <2> DEFINE size == NewSize
             M == HANDLE_MASK + 1
  <2>1. size \in Nat \ {0} /\ M \in Nat \ {0} /\ M % size = 0 /\ Harbor \in Int /\ Harbor % M = 0
        /\ h \in Int
    BY <1>3, <1>5, HandleAssumption DEF Fits, Raw
  <2> HIDE DEF size, M
  <2>2. (Harbor % M) % size = Harbor % size
    BY <2>1, ModMod
  <2>3. Harbor % size = 0
    BY <2>1, <2>2
  <2>4. (h + Harbor) % size = h % size
    BY <2>1, <2>3, ModShift
  <2> QED
    BY <2>4 DEF size
<1>7. h + Harbor \in Handle
  BY <1>5, AddressesAreNumbers
<1> QED
  BY <1>2, <1>5, <1>6, <1>7

LEMMA RegisterKeeps ==
  ASSUME IInv, NEW t \in Launcher, Register(t)
  PROVE  IInv'
<1> DEFINE c == ctx[t]
<1>0. /\ TypeOK /\ Fits(slot_size) /\ Named /\ Slots /\ Launches /\ Sweep
      /\ UNCHANGED <<name, handle, st, ctx, raVars, ra_todo>>
      /\ pc[t] = "register" /\ pc' = [pc EXCEPT ![t] = "assign"] /\ Registers
  BY DEF Register, IInv, Registers
<1>1. PICK h \in Raw, k \in Slot(NewSize) :
        /\ NewTable[k] = NULL /\ k = (h + Harbor) % NewSize /\ h + Harbor \in Handle
        /\ slot_size' = NewSize /\ slot' = [NewTable EXCEPT ![k] = c]
        /\ handle_index' = h + 1 /\ got' = [got EXCEPT ![t] = h + Harbor]
  BY RegisterIs
<1>2. /\ Fits(NewSize) /\ NewSize \in 1 .. HANDLE_MASK + 1 /\ slot_size <= NewSize
      /\ \A x \in Nat : x % slot_size <= x % NewSize
  BY <1>0, NewSizeIs
<1>3. /\ NewTable \in Tables(NewSize)
      /\ \A i \in Slot(NewSize) : NewTable[i] # NULL =>
           /\ \E j \in Slot(slot_size) : NewTable[i] = slot[j]
           /\ \/ i = handle[NewTable[i]] % NewSize
              \/ ~ Full /\ (handle[NewTable[i]] = 0 \/ i = 0)
      /\ \A i, j \in Slot(NewSize) : NewTable[i] = NewTable[j] /\ NewTable[i] # NULL => i = j
      /\ \A x \in Handle : GrabOf(x) # NULL => NewTable[x % NewSize] = GrabOf(x)
  BY <1>0, NewTableIs
<1>4. /\ c \in Ctx /\ handle[c] = 0 /\ st[c] = "known"
      /\ \A j \in Slot(slot_size) : slot[j] # c
  BY <1>0, HandleAssumption DEF Launches, TypeOK
<1>5. \A i \in Slot(NewSize) : NewTable[i] # c
  BY <1>3, <1>4, HandleAssumption
<1>6. TypeOK'
  <2>1. slot' \in [0 .. slot_size' - 1 -> Ctx \cup {NULL}]
    BY <1>1, <1>3, <1>4 DEF Tables, Slot
  <2>2. handle_index' \in 1 .. HANDLE_MASK + 1
    BY <1>1, HandleAssumption DEF Raw
  <2>3. got' \in [Launcher -> Handle \cup {0}] /\ pc' \in [Launcher -> {"idle", "register", "assign"}]
    BY <1>0, <1>1 DEF TypeOK
  <2> QED
    BY <1>0, <1>1, <1>2, <2>1, <2>2, <2>3 DEF TypeOK, raVars
<1>7. Fits(slot_size)' /\ Named'
  BY <1>0, <1>1, <1>2 DEF Fits, Named, Sorted
<1>8. DOMAIN NewTable = Slot(NewSize) /\ Slot(slot_size)' = Slot(NewSize)
  BY <1>1, <1>3 DEF Tables, Slot
<1>9. Slots'
  <2>1. \A i, j \in Slot(NewSize) : slot'[i] = slot'[j] /\ slot'[i] # NULL => i = j
    BY <1>1, <1>3, <1>5, <1>8
  <2>2. \A i \in Slot(NewSize) : slot'[i] # NULL => st[slot'[i]] = "known"
    BY <1>0, <1>1, <1>3, <1>4, <1>8 DEF Slots
  <2>3. ASSUME NEW i \in Slot(NewSize), slot'[i] # NULL
        PROVE  handle[slot'[i]] = 0 \/ i = 0 \/ i = handle[slot'[i]] % NewSize
    BY <1>1, <1>3, <1>4, <1>8, <2>3
  <2> QED
    BY <1>0, <1>1, <1>8, <2>1, <2>2, <2>3 DEF Slots
<1>10. Launches'
  <2>1. ASSUME NEW u \in Launcher, pc'[u] = "register"
        PROVE  \A i \in Slot(NewSize) : slot'[i] # ctx[u]
    <3>1. u # t /\ pc[u] = "register"
      BY <1>0, <2>1 DEF TypeOK
    <3>2. ctx[u] # NULL /\ ctx[u] # c /\ \A j \in Slot(slot_size) : slot[j] # ctx[u]
      BY <1>0, <3>1 DEF Launches
    <3> QED
      BY <1>1, <1>3, <1>8, <3>2
  <2>2. ASSUME NEW u \in Launcher, pc'[u] = "assign"
        PROVE  /\ got'[u] \in Handle
               /\ \A i \in Slot(NewSize) : slot'[i] = ctx[u] => i = 0 \/ i = got'[u] % NewSize
    <3>1. CASE u = t
      BY <1>0, <1>1, <1>5, <1>8, <3>1 DEF TypeOK
    <3>2. CASE u # t
      <4>1. pc[u] = "assign" /\ got'[u] = got[u]
        BY <1>0, <1>1, <2>2, <3>2 DEF TypeOK
      <4>2. /\ got[u] \in Handle /\ ctx[u] # c /\ ctx[u] # NULL /\ handle[ctx[u]] = 0
            /\ \A i \in Slot(slot_size) : slot[i] = ctx[u] => i = 0 \/ i = got[u] % slot_size
        BY <1>0, <3>2, <4>1 DEF Launches
      <4>3. ASSUME NEW i \in Slot(NewSize), slot'[i] = ctx[u]
            PROVE  i = 0 \/ i = got[u] % NewSize
        <5>1. NewTable[i] = ctx[u]
          BY <1>1, <1>8, <4>2, <4>3
        <5>2. CASE ~ Full
          BY <4>2, <5>1, <5>2 DEF NewSize, NewTable
        <5>3. CASE Full
          <6>1. i = 0 % NewSize
            BY <1>3, <4>2, <5>1, <5>3
          <6>2. NewSize \in Nat \ {0}
            BY <1>2 DEF Fits
          <6> QED
            BY <6>1, <6>2
        <5> QED
          BY <5>2, <5>3
      <4> QED
        BY <4>1, <4>2, <4>3
    <3> QED
      BY <3>1, <3>2
  <2>3. \A u \in Launcher : pc'[u] # "idle" <=> pc[u] # "idle"
    BY <1>0 DEF TypeOK
  <2>4. \A u \in Launcher : pc'[u] = "register" => pc[u] = "register"
    BY <1>0 DEF TypeOK
  <2>5. /\ \A x \in Ctx : st'[x] = "none" => handle'[x] = 0
        /\ \A u \in Launcher : pc'[u] = "idle" <=> ctx'[u] = NULL
        /\ \A u \in Launcher : ctx'[u] # NULL => handle'[ctx'[u]] = 0 /\ st'[ctx'[u]] # "none"
        /\ \A u, v \in Launcher : ctx'[u] = ctx'[v] /\ ctx'[u] # NULL => u = v
    BY <1>0, <2>3 DEF Launches
  <2>6. \A u \in Launcher : pc'[u] = "register" =>
          st'[ctx'[u]] = "known" /\ \A i \in Slot(NewSize) : slot'[i] # ctx'[u]
    BY <1>0, <2>1, <2>4 DEF Launches
  <2>7. \A u \in Launcher : pc'[u] = "assign" =>
          /\ got'[u] \in Handle
          /\ \A i \in Slot(NewSize) : slot'[i] = ctx'[u] => i = 0 \/ i = got'[u] % slot_size'
    BY <1>0, <1>1, <2>2
  <2> QED
    BY <1>8, <2>5, <2>6, <2>7 DEF Launches
<1>11. Sweep'
  <2>1. ASSUME NEW x \in ra_todo
        PROVE  GrabOf(x)' # NULL /\ x % slot_size <= x % slot_size'
    <3>1. /\ x \in Handle /\ x \in Nat /\ GrabOf(x) # NULL
          /\ slot[x % slot_size] = GrabOf(x) /\ handle[GrabOf(x)] = x
      BY <1>0, TableTyped DEF Sweep, GrabOf, TypeOK
    <3>2. NewTable[x % NewSize] = GrabOf(x)
      BY <1>3, <3>1
    <3>3. x % NewSize \in Slot(NewSize)
      <4>1. NewSize \in Nat \ {0}
        BY <1>2 DEF Fits
      <4> QED
        BY <3>1, <4>1, ModIs DEF Slot
    <3>4. slot'[x % NewSize] = GrabOf(x)
      BY <1>1, <1>8, <3>1, <3>2, <3>3
    <3>5. GrabOf(x)' = GrabOf(x)
      BY <1>0, <1>1, <3>1, <3>4 DEF GrabOf
    <3> QED
      BY <1>1, <1>2, <3>1, <3>5
  <2>2. Fits(slot_size')
    BY <1>1, <1>2
  <2>3. UNCHANGED raVars /\ ra_todo' \subseteq ra_todo /\ slot_size <= slot_size'
    BY <1>0, <1>1, <1>2
  <2>4. \A x \in ra_todo' : GrabOf(x)' # NULL /\ x % slot_size <= x % slot_size'
    BY <1>0, <2>1
  <2> QED
    BY <1>0, <1>6, <2>2, <2>3, <2>4, SweepKept
<1> QED
  BY <1>6, <1>7, <1>9, <1>10, <1>11 DEF IInv

\* What the critical section of mtask_handle_retire does to a sound table: h is found no
\* more, every other handle as before, and the names that go are those of h.
LEMMA RetireHandleKeeps ==
  ASSUME IInv, NEW h \in Handle \cup {0}, RetireHandle(h), UNCHANGED <<handle, launchVars>>
  PROVE  /\ slot_size' = slot_size /\ slot' \in [0 .. slot_size - 1 -> Ctx \cup {NULL}]
         /\ handle_index' = handle_index
         /\ st' \in [Ctx -> {"none", "known", "retired"}]
         /\ name' \in Seq([name : Name, handle : Handle])
         /\ Named' /\ Slots' /\ Launches'
         /\ \A x \in Handle \cup {0} : GrabOf(x)' = IF x = h THEN NULL ELSE GrabOf(x)
         /\ ra_todo' = ra_todo \ {h}
         /\ GrabOf(h) # NULL => \A n, x : Has(n, x)' <=> Has(n, x) /\ x # h
<1> DEFINE c == GrabOf(h)
           k == h % slot_size
<1>0. /\ TypeOK /\ Fits(slot_size) /\ Named /\ Slots /\ Launches /\ Sweep
      /\ UNCHANGED <<slot_size, handle_index, handle, pc, ctx, got>>
  BY DEF IInv, RetireHandle, launchVars
<1>1. /\ slot_size \in Nat \ {0} /\ slot \in Tables(slot_size)
      /\ \A x \in Handle \cup {0} : x \in Nat /\ x % slot_size \in Slot(slot_size)
  <2>1. /\ slot_size \in Nat \ {0} /\ slot \in Tables(slot_size)
        /\ \A x \in Handle : x \in Nat /\ x % slot_size \in Slot(slot_size)
    BY <1>0, TableTyped
  <2>2. 0 % slot_size \in Slot(slot_size)
    BY <2>1, ModIs DEF Slot
  <2> QED
    BY <2>1, <2>2
<1>2. name' = name \/ name' = Kept(h)
  BY DEF RetireHandle
<1>3. Named'
  BY <1>0, <1>2, KeptIs DEF Named, Sorted
<1>4. name' \in Seq([name : Name, handle : Handle])
  <2>1. Entry \subseteq [name : Name, handle : Handle]
    BY AddressesAreNumbers DEF Entry
  <2> QED
    BY <1>3, <2>1, SeqMonotonic DEF Named
<1>5. CASE c = NULL
  <2>1. UNCHANGED <<slot, st, name, ra_todo>>
    BY <1>5 DEF RetireHandle
  <2>2. h \notin ra_todo
    BY <1>0, <1>5 DEF Sweep
  <2>3. \A x \in Handle \cup {0} : GrabOf(x)' = IF x = h THEN NULL ELSE GrabOf(x)
    BY <1>0, <1>5, <2>1 DEF GrabOf
  <2>4. Slots' /\ Launches'
    BY <1>0, <2>1 DEF Slots, Launches
  <2> QED
    BY <1>0, <1>1, <1>3, <1>4, <1>5, <2>1, <2>2, <2>3, <2>4 DEF TypeOK
<1>6. CASE c # NULL
  <2>1. /\ slot' = [slot EXCEPT ![k] = NULL] /\ st' = [st EXCEPT ![c] = "retired"]
        /\ name' = Kept(h) /\ ra_todo' = ra_todo \ {h}
    BY <1>6 DEF RetireHandle
  <2>2. k \in Slot(slot_size) /\ c = slot[k] /\ c \in Ctx /\ handle[c] = h
    BY <1>1, <1>6 DEF GrabOf, Tables
  <2>3. \A x \in Handle \cup {0} : GrabOf(x)' = IF x = h THEN NULL ELSE GrabOf(x)
    <3> TAKE x \in Handle \cup {0}
    <3>1. GrabOf(x)' = IF slot'[x % slot_size] # NULL /\ handle[slot'[x % slot_size]] = x
                       THEN slot'[x % slot_size] ELSE NULL
      BY <1>0 DEF GrabOf
    <3>2. x % slot_size \in Slot(slot_size) /\ DOMAIN slot = Slot(slot_size)
      BY <1>1 DEF Tables
    <3>3. CASE x % slot_size = k
      BY <2>1, <2>2, <3>1, <3>2, <3>3 DEF GrabOf
    <3>4. CASE x % slot_size # k
      <4>1. slot'[x % slot_size] = slot[x % slot_size] /\ x # h
        BY <2>1, <3>2, <3>4
      <4> QED
        BY <3>1, <4>1 DEF GrabOf
    <3> QED
      BY <3>3, <3>4
  <2> HIDE DEF c, k
  <2>4. /\ slot' \in [0 .. slot_size - 1 -> Ctx \cup {NULL}]
        /\ st' \in [Ctx -> {"none", "known", "retired"}]
    BY <1>0, <1>1, <2>1, <2>2 DEF TypeOK, Tables, Slot
  <2>5. \A j \in Slot(slot_size) : slot'[j] # NULL => slot'[j] = slot[j] /\ slot[j] # c
    BY <1>0, <1>1, <1>6, <2>1, <2>2 DEF Slots, Tables
  <2>6. Slots'
    <3>1. \A j \in Slot(slot_size) : slot'[j] # NULL => st'[slot'[j]] = "known"
      BY <1>0, <1>1, <2>1, <2>2, <2>5 DEF Slots, TypeOK, Tables
    <3>2. \A i, j \in Slot(slot_size) : slot'[i] = slot'[j] /\ slot'[i] # NULL => i = j
      BY <1>0, <2>5 DEF Slots
    <3>3. \A j \in Slot(slot_size) : slot'[j] # NULL =>
            handle[slot'[j]] = 0 \/ j = 0 \/ j = handle[slot'[j]] % slot_size
      BY <1>0, <2>5 DEF Slots
    <3> QED
      BY <1>0, <3>1, <3>2, <3>3 DEF Slots
  <2>7. Launches'
    <3>1. \A x \in Ctx : st'[x] = "none" <=> st[x] = "none"
      BY <1>0, <1>6, <2>1, <2>2 DEF TypeOK, Slots
    <3>2. ASSUME NEW t \in Launcher, ctx[t] # NULL
          PROVE  st'[ctx[t]] # "none"
      BY <1>0, <3>1, <3>2 DEF Launches, TypeOK
    <3>3. ASSUME NEW t \in Launcher, pc[t] = "register"
          PROVE  st'[ctx[t]] = "known" /\ \A j \in Slot(slot_size) : slot'[j] # ctx[t]
      <4>1. /\ ctx[t] # NULL /\ st[ctx[t]] = "known"
            /\ \A j \in Slot(slot_size) : slot[j] # ctx[t]
        BY <1>0, <3>3 DEF Launches
      <4>2. ctx[t] \in Ctx /\ ctx[t] # c
        BY <1>0, <2>2, <4>1 DEF TypeOK
      <4> QED
        BY <1>0, <2>1, <2>5, <4>1, <4>2 DEF TypeOK
    <3>4. ASSUME NEW t \in Launcher, pc[t] = "assign"
          PROVE  /\ got[t] \in Handle
                 /\ \A j \in Slot(slot_size) : slot'[j] = ctx[t] => j = 0 \/ j = got[t] % slot_size
      <4>1. /\ ctx[t] # NULL /\ got[t] \in Handle
            /\ \A j \in Slot(slot_size) : slot[j] = ctx[t] => j = 0 \/ j = got[t] % slot_size
        BY <1>0, <3>4 DEF Launches
      <4> QED
        BY <2>5, <4>1
    <3>5. \A x \in Ctx : st'[x] = "none" => handle[x] = 0
      BY <1>0, <3>1 DEF Launches
    <3> QED
      BY <1>0, <3>2, <3>3, <3>4, <3>5 DEF Launches
  <2>8. \A n, x : Has(n, x)' <=> Has(n, x) /\ x # h
    BY <1>0, <2>1, KeptIs DEF Has
  <2> QED
    BY <1>0, <1>3, <1>4, <2>1, <2>3, <2>4, <2>6, <2>7, <2>8
<1> QED
  BY <1>5, <1>6

LEMMA RetireKeeps ==
  ASSUME IInv, Retire
  PROVE  IInv'
<1>0. /\ TypeOK /\ Fits(slot_size) /\ Sweep /\ UNCHANGED <<handle, launchVars, raVars>>
      /\ \E h \in Handle : RetireHandle(h)
  BY DEF IInv, Retire
<1>1. PICK h \in Handle : RetireHandle(h)
  BY <1>0
<1>2. /\ slot_size' = slot_size /\ slot' \in [0 .. slot_size - 1 -> Ctx \cup {NULL}]
      /\ handle_index' = handle_index
      /\ st' \in [Ctx -> {"none", "known", "retired"}]
      /\ name' \in Seq([name : Name, handle : Handle])
      /\ Named' /\ Slots' /\ Launches'
      /\ \A x \in Handle \cup {0} : GrabOf(x)' = IF x = h THEN NULL ELSE GrabOf(x)
      /\ ra_todo' = ra_todo \ {h}
  BY <1>0, <1>1, RetireHandleKeeps
<1>3. TypeOK'
  BY <1>0, <1>2 DEF TypeOK, launchVars, raVars
<1>4. Fits(slot_size') /\ Fits(slot_size)'
  BY <1>0, <1>2 DEF Fits
<1>5. \A x \in ra_todo' : GrabOf(x)' # NULL /\ x % slot_size <= x % slot_size'
  <2> TAKE x \in ra_todo'
  <2>1. x \in Handle /\ x # h /\ GrabOf(x) # NULL
    BY <1>0, <1>2 DEF Sweep, TypeOK
  <2>2. x % slot_size \in Int
    BY <1>0, <2>1, TableTyped DEF Slot
  <2> QED
    BY <1>2, <2>1, <2>2
<1>6. slot_size <= slot_size' /\ ra_todo' \subseteq ra_todo
  BY <1>0, <1>2 DEF Fits
<1>7. Sweep'
  BY <1>0, <1>3, <1>4, <1>5, <1>6, SweepKept
<1> QED
  BY <1>2, <1>3, <1>4, <1>7 DEF IInv

\* mtask_handle_retireall retires the handle that it read from slot ra_i: in a pass which
\* has retired nothing yet, the only one of ra_todo that this slot can hold.
LEMMA RaRetireKeeps ==
  ASSUME IInv, RaRetire
  PROVE  IInv'
<1>0. /\ TypeOK /\ Fits(slot_size) /\ Sweep /\ UNCHANGED <<handle, launchVars>>
      /\ RetireHandle(ra_h) /\ ra_h \in Handle \cup {0}
      /\ ra = "retire" /\ ra' = "read" /\ ra_i' = ra_i + 1 /\ ra_h' = 0
      /\ ra_any' = (ra_any \/ GrabOf(ra_h) # NULL)
  BY DEF IInv, RaRetire, TypeOK
<1>1. /\ slot_size' = slot_size /\ slot' \in [0 .. slot_size - 1 -> Ctx \cup {NULL}]
      /\ handle_index' = handle_index
      /\ st' \in [Ctx -> {"none", "known", "retired"}]
      /\ name' \in Seq([name : Name, handle : Handle])
      /\ Named' /\ Slots' /\ Launches'
      /\ \A x \in Handle \cup {0} : GrabOf(x)' = IF x = ra_h THEN NULL ELSE GrabOf(x)
      /\ ra_todo' = ra_todo \ {ra_h}
  BY <1>0, RetireHandleKeeps
<1>2. ra_i \in Nat /\ ra_i < slot_size /\ slot_size <= HANDLE_MASK + 1 /\ slot_size \in Nat
      /\ HANDLE_MASK \in Nat
  BY <1>0, HandleAssumption DEF Sweep, TypeOK
<1>3. TypeOK'
  <2>1. ra_i' \in 0 .. HANDLE_MASK + 1
    BY <1>0, <1>2
  <2>2. ra_any' \in BOOLEAN
    BY <1>0 DEF TypeOK
  <2>3. ra_todo' \subseteq Handle
    BY <1>0, <1>1 DEF TypeOK
  <2> QED
    BY <1>0, <1>1, <2>1, <2>2, <2>3 DEF TypeOK, launchVars
<1>4. Fits(slot_size)'
  BY <1>0, <1>1 DEF Fits
<1>5. \A x \in ra_todo' : x \in Handle \cup {0} /\ x # ra_h /\ x \in ra_todo /\ GrabOf(x)' # NULL
  BY <1>0, <1>1 DEF Sweep, TypeOK
<1>6. ASSUME ~ ra_any', NEW x \in ra_todo'
      PROVE  ra_i' <= x % slot_size'
  <2>1. x % slot_size \in Int
    BY <1>0, <1>5, TableTyped DEF Slot, TypeOK
  <2>2. ra_i <= x % slot_size /\ x % slot_size # ra_i
    BY <1>0, <1>5, <1>6 DEF Sweep
  <2> QED
    BY <1>0, <1>1, <1>2, <2>1, <2>2
<1>7. ra_i' <= slot_size' /\ ra_todo' \subseteq Address
  BY <1>0, <1>1, <1>2 DEF Sweep
<1>8. Sweep'
  BY <1>0, <1>5, <1>6, <1>7 DEF Sweep
<1> QED
  BY <1>1, <1>3, <1>4, <1>8 DEF IInv

LEMMA RaStartKeeps ==
  ASSUME IInv, RaStart
  PROVE  IInv'
<1>0. /\ TypeOK /\ Fits(slot_size) /\ Named /\ Slots /\ Launches
      /\ UNCHANGED <<slot_size, slot, handle_index, name, handle, st, pc, ctx, got, ra_h>>
      /\ ra' = "read" /\ ra_i' = 0 /\ ra_any' = FALSE
      /\ ra_todo' = {h \in Address : GrabOf(h) # NULL}
  BY DEF IInv, RaStart, tableVars, launchVars
<1>1. TypeOK'
  <2>1. 0 \in 0 .. HANDLE_MASK + 1
    BY HandleAssumption
  <2>2. ra_todo' \subseteq Handle
    BY <1>0 DEF Address
  <2> QED
    BY <1>0, <2>1, <2>2 DEF TypeOK
<1>2. Fits(slot_size)' /\ Named' /\ Slots' /\ Launches'
  BY <1>0 DEF Fits, Named, Sorted, Slots, Launches
<1>3. \A h \in ra_todo' : GrabOf(h)' # NULL /\ 0 <= h % slot_size'
  <2> TAKE h \in ra_todo'
  <2>1. h \in Handle /\ GrabOf(h) # NULL
    BY <1>0 DEF Address
  <2>2. h % slot_size \in Nat
    BY <1>0, <2>1, TableTyped DEF Slot
  <2> QED
    BY <1>0, <2>1, <2>2 DEF GrabOf
<1>4. Sweep'
  <2>1. 0 <= slot_size' /\ ra_todo' \subseteq Address
    BY <1>0 DEF Fits
  <2> QED
    BY <1>0, <1>3, <2>1 DEF Sweep
<1> QED
  BY <1>1, <1>2, <1>4 DEF IInv

\* A slot is passed over only when it has none of ra_todo.
LEMMA RaReadKeeps ==
  ASSUME IInv, RaRead
  PROVE  IInv'
<1> DEFINE c == slot[ra_i]
           Taken == c # NULL /\ handle[c] # 0
<1>0. /\ TypeOK /\ Fits(slot_size) /\ Named /\ Slots /\ Launches /\ Sweep
      /\ UNCHANGED <<slot_size, slot, handle_index, name, handle, st, pc, ctx, got, ra_any, ra_todo>>
      /\ ra = "read" /\ ra_i < slot_size
      /\ IF Taken THEN ra' = "retire" /\ ra_h' = handle[c] /\ UNCHANGED ra_i
                  ELSE ra_i' = ra_i + 1 /\ UNCHANGED <<ra, ra_h>>
  BY DEF IInv, RaRead, tableVars, launchVars
<1>1. /\ ra_i \in Nat /\ slot_size \in Nat /\ slot_size <= HANDLE_MASK + 1 /\ HANDLE_MASK \in Nat
      /\ ra_i \in Slot(slot_size) /\ c \in Ctx \cup {NULL}
      /\ c \in Ctx => handle[c] \in Handle \cup {0}
  BY <1>0, TableTyped, HandleAssumption DEF TypeOK, Slot, Tables
<1>2. \A h \in ra_todo : /\ h # 0 /\ h % slot_size \in Nat /\ GrabOf(h) # NULL
                         /\ h % slot_size = ra_i => Taken /\ handle[c] = h
  <2> TAKE h \in ra_todo
  <2>1. h \in Handle /\ h # 0 /\ GrabOf(h) # NULL
    BY <1>0, AddressesAreNumbers DEF Sweep, TypeOK
  <2>2. h % slot_size \in Nat
    BY <1>0, <2>1, TableTyped DEF Slot
  <2> QED
    BY <2>1, <2>2 DEF GrabOf
<1> HIDE DEF c, Taken
<1>3. TypeOK'
  <2>1. ra_i' \in 0 .. HANDLE_MASK + 1
    BY <1>0, <1>1 DEF TypeOK
  <2>2. ra' \in {"idle", "read", "retire"} /\ ra_h' \in Handle \cup {0}
    BY <1>0, <1>1 DEF TypeOK, Taken
  <2> QED
    BY <1>0, <2>1, <2>2 DEF TypeOK
<1>4. Fits(slot_size)' /\ Named' /\ Slots' /\ Launches'
  BY <1>0 DEF Fits, Named, Sorted, Slots, Launches
<1>5. \A h \in ra_todo' : GrabOf(h)' # NULL
  BY <1>0 DEF Sweep, GrabOf
<1>6. CASE Taken
  BY <1>0, <1>1, <1>2, <1>3, <1>4, <1>5, <1>6 DEF IInv, Sweep
<1>7. CASE ~ Taken
  <2>1. ra_i' = ra_i + 1 /\ ra' = "read" /\ ra_i' <= slot_size
    BY <1>0, <1>1, <1>7
  <2>2. ~ ra_any => \A h \in ra_todo : ra_i' <= h % slot_size
    <3> SUFFICES ASSUME ~ ra_any, NEW h \in ra_todo
                 PROVE  ra_i' <= h % slot_size
      OBVIOUS
    <3>1. ra_i <= h % slot_size /\ h % slot_size # ra_i /\ h % slot_size \in Nat
      BY <1>0, <1>2, <1>7 DEF Sweep
    <3> QED
      BY <1>1, <2>1, <3>1
  <2>3. Sweep'
    BY <1>0, <1>5, <2>1, <2>2 DEF Sweep
  <2> QED
    BY <1>3, <1>4, <2>3 DEF IInv
<1> QED
  BY <1>6, <1>7

\* A pass that has retired nothing leaves nothing to be retired.
LEMMA RaPassEndsKeeps ==
  ASSUME IInv, RaPassEnds
  PROVE  IInv' /\ (ra' = "idle" => ra_todo' = {})
<1>0. /\ TypeOK /\ Fits(slot_size) /\ Named /\ Slots /\ Launches /\ Sweep
      /\ UNCHANGED <<slot_size, slot, handle_index, name, handle, st, pc, ctx, got, ra_h, ra_todo>>
      /\ ra = "read" /\ ra_i >= slot_size /\ ra' = (IF ra_any THEN "read" ELSE "idle")
      /\ ra_i' = 0 /\ ra_any' = FALSE
  BY DEF IInv, RaPassEnds, tableVars, launchVars
<1>1. TypeOK'
  <2>1. 0 \in 0 .. HANDLE_MASK + 1
    BY HandleAssumption
  <2> QED
    BY <1>0, <2>1 DEF TypeOK
<1>2. Fits(slot_size)' /\ Named' /\ Slots' /\ Launches'
  BY <1>0 DEF Fits, Named, Sorted, Slots, Launches
<1>3. \A h \in ra_todo : h % slot_size \in Slot(slot_size)
  BY <1>0, TableTyped DEF TypeOK
<1>4. /\ slot_size \in Nat /\ \A h \in ra_todo : 0 <= h % slot_size
      /\ \A h \in ra_todo : h % slot_size < slot_size /\ h % slot_size \in Int
  BY <1>0, <1>3 DEF Fits, Slot
<1>5. Sweep'
  <2>1. \A h \in ra_todo' : GrabOf(h)' # NULL
    BY <1>0 DEF Sweep, GrabOf
  <2> QED
    BY <1>0, <1>4, <2>1 DEF Sweep
<1>6. ~ ra_any => ra_todo = {}
  <2> SUFFICES ASSUME ~ ra_any, NEW h \in ra_todo
               PROVE  FALSE
    OBVIOUS
  <2>1. ra_i <= h % slot_size /\ ra_i \in Int
    BY <1>0 DEF Sweep, TypeOK
  <2> QED
    BY <1>0, <1>4, <2>1
<1> QED
  BY <1>0, <1>1, <1>2, <1>5, <1>6 DEF IInv
-----------------------------------------------------------------------------
(* The invariant, and what it says of the table and of ABORT.              *)

LEMMA StepKeeps ==
  ASSUME IInv, [Next]_vars
  PROVE  IInv' /\ (ra # "idle" /\ ra' = "idle" => ra_todo' = {})
<1>1. ASSUME NEW t \in Launcher, LaunchStep(t)
      PROVE  IInv' /\ ra' = ra
  <2>1. IInv'
    BY <1>1, CreateKeeps, RegisterKeeps, AssignKeeps DEF LaunchStep
  <2> QED
    BY <1>1, <2>1 DEF LaunchStep, Create, Register, Assign, raVars
<1>2. CASE Retire
  BY <1>2, RetireKeeps DEF Retire, raVars
<1>3. ASSUME NEW c \in Ctx, Free(c)
      PROVE  IInv' /\ ra' = ra
  BY <1>3, FreeKeeps DEF Free, raVars
<1>4. ASSUME NEW n \in Name, NEW c \in Ctx, NameHandle(n, c)
      PROVE  IInv' /\ ra' = ra
  BY <1>4, NameHandleKeeps DEF NameHandle, raVars
<1>5. CASE RaStep
  <2>1. CASE RaStart
    BY <2>1, RaStartKeeps DEF RaStart
  <2>2. CASE RaRead
    BY <2>2, RaReadKeeps DEF RaRead
  <2>3. CASE RaRetire
    BY <2>3, RaRetireKeeps DEF RaRetire
  <2>4. CASE RaPassEnds
    BY <2>4, RaPassEndsKeeps
  <2> QED
    BY <1>5, <2>1, <2>2, <2>3, <2>4 DEF RaStep
<1>6. CASE UNCHANGED vars
  <2>1. UNCHANGED <<slot_size, slot, handle_index, name, handle, st, pc, ctx, got,
                    ra, ra_i, ra_h, ra_any, ra_todo>>
    BY <1>6 DEF vars, tableVars, launchVars, raVars
  <2>2. IInv'
    BY <2>1 DEF IInv, TypeOK, Fits, Named, Sorted, Slots, Launches, Sweep, GrabOf
  <2> QED
    BY <2>1, <2>2
<1> QED
  BY <1>1, <1>2, <1>3, <1>4, <1>5, <1>6 DEF Next

THEOREM Invariance == Spec => []IInv
<1>1. Init => IInv
  BY InitKeeps
<1>2. IInv /\ [Next]_vars => IInv'
  BY StepKeeps
<1> QED
  BY <1>1, <1>2, PTL DEF Spec

\* Whatever registers, retires, names itself or aborts, and in whatever order, slots, handles
\* and names are as the searches in them expect, and the array of names stays sorted and
\* free of duplicates (mtask_handle_register, _retire, _retireall, _namehandle).
THEOREM TableIsSound == Spec => []TableSound
<1>1. IInv => TableSound
  <2> SUFFICES ASSUME IInv
               PROVE  TypeOK /\ NamesSorted
    BY DEF TableSound
  <2>1. name \in Seq(Entry) /\ Sorted(name) /\ DOMAIN name = 1 .. Len(name)
    BY LenProperties DEF IInv, Named
  <2>2. NamesSorted
    BY <2>1 DEF NamesSorted, Sorted
  <2> QED
    BY <2>2 DEF IInv
<1> QED
  BY <1>1, Invariance, PTL

\* mtask_handle_retireall ends when a pass over the slots has retired nothing.  Nothing that
\* was there when it began is left then, although others register meanwhile, so that the
\* table grows under it, and the slots behind it are filled again.
THEOREM AbortMissesNobody == Spec => AbortRetiresAll
<1>1. IInv /\ [Next]_vars => [ra # "idle" /\ ra' = "idle" => ra_todo' = {}]_vars
  BY StepKeeps
<1> QED
  BY <1>1, Invariance, PTL DEF Spec, AbortRetiresAll
-----------------------------------------------------------------------------
(* The directory.                                                          *)

\* Its variables, here.
OwnerOf == [h \in Address |-> GrabOf(h)]
NamedAs == [n \in Name |-> IF FindName(n) = 0 THEN NULL ELSE FindName(n)]

Bound(h, c) == /\ OwnerOf[h] = NULL /\ OwnerOf'[h] = c
               /\ \A g \in Address : OwnerOf[g] # c
               /\ OwnerOf' = [OwnerOf EXCEPT ![h] = c]
               /\ UNCHANGED NamedAs

Unbound(h) == /\ OwnerOf[h] # NULL /\ OwnerOf'[h] = NULL
              /\ OwnerOf' = [OwnerOf EXCEPT ![h] = NULL]
              /\ NamedAs' = [n \in Name |-> IF NamedAs[n] = h THEN NULL ELSE NamedAs[n]]

Given(n, h) == /\ NamedAs[n] = NULL /\ NamedAs'[n] = h
               /\ NamedAs' = [NamedAs EXCEPT ![n] = h]
               /\ UNCHANGED OwnerOf

DirectoryStep ==
  \/ \E h \in Address : \/ \E c \in Ctx : Bound(h, c)
                        \/ Unbound(h)
                        \/ \E n \in Name : Given(n, h)
  \/ UNCHANGED <<OwnerOf, NamedAs>>

LEMMA StepsAreTheDirectorys ==
  DirectoryStep => [D!Next]_(D!vars)
BY DEF DirectoryStep, Bound, Unbound, Given, OwnerOf, NamedAs,
       D!Next, D!Bind, D!Unbind, D!GiveName, D!vars

\* Lookups depend on the array of names alone.
LEMMA NamesUnchanged ==
  ASSUME name' = name
  PROVE  UNCHANGED NamedAs
<1>1. \A n \in Name : FindName(n)' = FindName(n)
  BY DEF FindName, Search
<1> QED
  BY <1>1 DEF NamedAs

\* ... and on the entries it has, not on where they are.
LEMMA SameEntries ==
  ASSUME Named, Named', NEW n \in Name, \A h \in Address : Has(n, h)' <=> Has(n, h)
  PROVE  FindName(n)' = FindName(n)
<1>1. /\ FindName(n) \in Address \cup {0}
      /\ \A h \in Address : FindName(n) = h <=> Has(n, h)
  BY NamesFound DEF LookupsRight
<1>2. /\ FindName(n)' \in Address \cup {0}
      /\ \A h \in Address : FindName(n)' = h <=> Has(n, h)'
  BY NamesFoundPrime DEF LookupsRight
<1> QED
  BY <1>1, <1>2

LEMMA SameOwners ==
  ASSUME \A h \in Address : GrabOf(h)' = GrabOf(h)
  PROVE  UNCHANGED OwnerOf
BY DEF OwnerOf

\* A context becomes known by its handle when that is assigned, unless it was retired
\* meanwhile.
LEMMA AssignBinds ==
  ASSUME IInv, NEW t \in Launcher, Assign(t)
  PROVE  DirectoryStep
<1> DEFINE c == ctx[t]
<1>0. /\ TypeOK /\ Fits(slot_size) /\ Launches
      /\ pc[t] = "assign" /\ handle' = [handle EXCEPT ![c] = got[t]]
      /\ UNCHANGED <<slot_size, slot, name>>
  BY DEF IInv, Assign, tableVars
<1>1. c \in Ctx /\ handle[c] = 0 /\ got[t] \in Handle
  BY <1>0 DEF Launches, TypeOK
<1>2. PICK h \in Handle : h = got[t]
  BY <1>1
<1> HIDE DEF c
<1>3. \A x \in Address : x \in Handle /\ x # 0 /\ x % slot_size \in Slot(slot_size)
                         /\ slot[x % slot_size] \in Ctx \cup {NULL}
  BY <1>0, AddressesAreNumbers, TableTyped DEF Tables
<1>4. \A x \in Address : GrabOf(x) # c
  BY <1>1, <1>3, HandleAssumption DEF GrabOf
<1>5. ASSUME NEW x \in Address, slot[x % slot_size] # c \/ x # h
      PROVE  GrabOf(x)' = GrabOf(x)
  BY <1>0, <1>1, <1>3, <1>2, <1>5 DEF GrabOf, TypeOK
<1>6. UNCHANGED NamedAs
  BY <1>0, NamesUnchanged
<1>7. CASE h \in Address /\ slot[h % slot_size] = c
  <2>0. h # 0 /\ c # NULL /\ handle'[c] = h /\ slot'[h % slot_size'] = c
    BY <1>0, <1>1, <1>2, <1>3, <1>7, HandleAssumption DEF TypeOK
  <2>1. GrabOf(h) = NULL
    BY <1>1, <1>7, <2>0 DEF GrabOf
  <2>2. GrabOf(h)' = c
    BY <2>0 DEF GrabOf
  <2>3. \A x \in Address : x # h => GrabOf(x)' = GrabOf(x)
    BY <1>5
  <2>4. Bound(h, c)
    BY <1>4, <1>6, <1>7, <2>1, <2>2, <2>3 DEF Bound, OwnerOf
  <2> QED
    BY <1>1, <1>7, <2>4 DEF DirectoryStep
<1>8. CASE ~ (h \in Address /\ slot[h % slot_size] = c)
  BY <1>5, <1>6, <1>8, SameOwners DEF DirectoryStep
<1> QED
  BY <1>7, <1>8

\* A registration makes nobody known: its context has no handle yet, and a growth keeps
\* what was found.  It may make known the context of slot 0, which had its handle
\* assigned after an earlier growth had put it there.
LEMMA RegisterBinds ==
  ASSUME IInv, NEW t \in Launcher, Register(t)
  PROVE  DirectoryStep
<1> DEFINE c == ctx[t]
<1>0. /\ TypeOK /\ Fits(slot_size) /\ Slots /\ Launches
      /\ UNCHANGED <<name, handle>> /\ pc[t] = "register" /\ Registers
  BY DEF Register, IInv, Registers
<1>1. PICK k \in Slot(NewSize) :
        /\ NewTable[k] = NULL /\ slot_size' = NewSize /\ slot' = [NewTable EXCEPT ![k] = c]
  BY RegisterIs
<1>2. Fits(NewSize) /\ NewSize \in Nat \ {0}
  BY <1>0, NewSizeIs DEF Fits
<1>3. /\ NewTable \in Tables(NewSize)
      /\ \A i \in Slot(NewSize) : NewTable[i] # NULL => \E j \in Slot(slot_size) : NewTable[i] = slot[j]
      /\ \A x \in Handle : GrabOf(x) # NULL => NewTable[x % NewSize] = GrabOf(x)
  BY <1>0, NewTableIs
<1>4. c \in Ctx /\ handle[c] = 0
  BY <1>0 DEF Launches, TypeOK
<1> HIDE DEF c
<1>5. UNCHANGED NamedAs
  BY <1>0, NamesUnchanged
<1>6. \A x \in Address : /\ x \in Handle /\ x # 0 /\ x % NewSize \in Slot(NewSize)
                         /\ x % slot_size \in Slot(slot_size)
  <2> TAKE x \in Address
  <2>1. x \in Handle /\ x # 0 /\ x \in Int
    BY AddressesAreNumbers
  <2>2. x % NewSize \in Slot(NewSize)
    BY <1>2, <2>1, ModIs DEF Slot
  <2> QED
    BY <1>0, <2>1, <2>2, TableTyped
<1>7. ASSUME NEW x \in Address
      PROVE  GrabOf(x)' = IF NewTable[x % NewSize] # NULL /\ handle[NewTable[x % NewSize]] = x
                          THEN NewTable[x % NewSize] ELSE NULL
  <2>1. GrabOf(x)' = IF slot'[x % NewSize] # NULL /\ handle[slot'[x % NewSize]] = x
                     THEN slot'[x % NewSize] ELSE NULL
    BY <1>0, <1>1 DEF GrabOf
  <2>2. CASE x % NewSize = k
    BY <1>1, <1>3, <1>4, <1>6, <2>1, <2>2 DEF Tables
  <2>3. CASE x % NewSize # k
    BY <1>1, <1>3, <1>6, <2>1, <2>3 DEF Tables
  <2> QED
    BY <2>2, <2>3
<1>8. ASSUME NEW x \in Address, GrabOf(x) # NULL
      PROVE  GrabOf(x)' = GrabOf(x)
  <2>1. NewTable[x % NewSize] = GrabOf(x) /\ handle[GrabOf(x)] = x
    BY <1>3, <1>6, <1>8 DEF GrabOf
  <2> QED
    BY <1>7, <1>8, <2>1
<1>9. ASSUME NEW x \in Address, GrabOf(x) = NULL, GrabOf(x)' # NULL
      PROVE  /\ GrabOf(x)' = slot[0] /\ slot[0] \in Ctx /\ x = handle[slot[0]]
             /\ \A g \in Address : GrabOf(g) # slot[0]
  <2> DEFINE d == NewTable[x % NewSize]
  <2>1. d # NULL /\ GrabOf(x)' = d /\ handle[d] = x
    BY <1>7, <1>9
  <2>2. PICK j \in Slot(slot_size) : d = slot[j]
    BY <1>3, <1>6, <2>1
  <2> HIDE DEF d
  <2>3. j # x % slot_size
    BY <1>9, <2>1, <2>2 DEF GrabOf
  <2>4. handle[slot[j]] # 0
    BY <1>6, <2>1, <2>2
  <2>5. j = 0
    BY <1>0, <2>1, <2>2, <2>3, <2>4 DEF Slots
  <2>6. slot[j] \in Ctx
    BY <1>0, <2>1, <2>2, TableTyped DEF Tables
  <2>7. ASSUME NEW g \in Address, GrabOf(g) = d
        PROVE  FALSE
    <3>1. handle[d] = g
      BY <2>1, <2>7 DEF GrabOf
    <3> QED
      BY <1>9, <2>1, <2>7, <3>1
  <2> QED
    BY <2>1, <2>2, <2>5, <2>6, <2>7
<1>10. CASE \E x \in Address : GrabOf(x) = NULL /\ GrabOf(x)' # NULL
  <2>1. PICK x \in Address : GrabOf(x) = NULL /\ GrabOf(x)' # NULL
    BY <1>10
  <2>2. \A g \in Address : g # x => GrabOf(g)' = GrabOf(g)
    BY <1>8, <1>9, <2>1
  <2>3. Bound(x, slot[0])
    BY <1>5, <1>9, <2>1, <2>2 DEF Bound, OwnerOf
  <2> QED
    BY <1>9, <2>1, <2>3 DEF DirectoryStep
<1>11. CASE ~ \E x \in Address : GrabOf(x) = NULL /\ GrabOf(x)' # NULL
  <2>1. \A x \in Address : GrabOf(x)' = GrabOf(x)
    BY <1>8, <1>11
  <2> QED
    BY <1>5, <2>1, SameOwners DEF DirectoryStep
<1> QED
  BY <1>10, <1>11

\* Retiring a handle unbinds it and takes its names away, if it has an owner.
LEMMA RetireUnbinds ==
  ASSUME IInv, NEW h \in Handle \cup {0}, RetireHandle(h), UNCHANGED <<handle, launchVars>>
  PROVE  DirectoryStep
<1>0. Named /\ Named'
  BY RetireHandleKeeps DEF IInv
<1>1. /\ \A x \in Address : GrabOf(x)' = IF x = h THEN NULL ELSE GrabOf(x)
      /\ GrabOf(h) # NULL => \A n, x : Has(n, x)' <=> Has(n, x) /\ x # h
  BY RetireHandleKeeps, AddressesAreNumbers
<1>2. CASE GrabOf(h) = NULL
  <2>1. name' = name
    BY <1>2 DEF RetireHandle
  <2> QED
    BY <1>1, <1>2, <2>1, NamesUnchanged, SameOwners DEF DirectoryStep
<1>3. CASE GrabOf(h) # NULL /\ h \notin Address
  <2>1. \A n \in Name : FindName(n)' = FindName(n)
    BY <1>0, <1>1, <1>3, SameEntries
  <2>2. UNCHANGED NamedAs
    BY <2>1 DEF NamedAs
  <2> QED
    BY <1>1, <1>3, <2>2, SameOwners DEF DirectoryStep
<1>4. CASE GrabOf(h) # NULL /\ h \in Address
  <2>1. ASSUME NEW n \in Name
        PROVE  FindName(n)' = IF FindName(n) = h THEN 0 ELSE FindName(n)
    <3>1. /\ FindName(n) \in Address \cup {0}
          /\ \A x \in Address : FindName(n) = x <=> Has(n, x)
      BY <1>0, NamesFound DEF LookupsRight
    <3>2. /\ FindName(n)' \in Address \cup {0}
          /\ \A x \in Address : FindName(n)' = x <=> Has(n, x)'
      BY <1>0, NamesFoundPrime DEF LookupsRight
    <3>3. 0 \notin Address
      BY AddressesAreNumbers
    <3> QED
      BY <1>1, <1>4, <3>1, <3>2, <3>3
  <2>2. h # 0
    BY <1>4, AddressesAreNumbers
  <2>3. NamedAs' = [n \in Name |-> IF NamedAs[n] = h THEN NULL ELSE NamedAs[n]]
    BY <2>1, <2>2 DEF NamedAs
  <2>4. Unbound(h)
    BY <1>1, <1>4, <2>3 DEF Unbound, OwnerOf
  <2> QED
    BY <1>4, <2>4 DEF DirectoryStep
<1> QED
  BY <1>2, <1>3, <1>4

\* A name that no lookup finds is given to the handle of a context.
LEMMA NameHandleGives ==
  ASSUME IInv, NEW n \in Name, NEW c \in Ctx, NameHandle(n, c)
  PROVE  DirectoryStep
<1> DEFINE h == handle[c]
<1>0. /\ Named /\ Named' /\ TypeOK /\ Fits(slot_size)
      /\ UNCHANGED <<slot_size, slot, handle>> /\ h # 0
  BY NameHandleKeeps DEF IInv, NameHandle, tableVars
<1>1. /\ \A x : (\E k \in 1 .. Len(name') : name'[k] = x)
                  <=> \/ x = [name |-> n, handle |-> h]
                      \/ \E k \in 1 .. Len(name) : name[k] = x
      /\ \A k \in 1 .. Len(name) : name[k].name # n
  BY NameHandleKeeps
<1>2. h \in Address
  BY <1>0, TableTyped
<1> HIDE DEF h
<1>3. UNCHANGED OwnerOf
  BY <1>0 DEF OwnerOf, GrabOf
<1>4. \A m \in Name, x \in Address : Has(m, x)' <=> Has(m, x) \/ (m = n /\ x = h)
  BY <1>1 DEF Has
<1>5. \A x \in Address : ~ Has(n, x)
  BY <1>1 DEF Has
<1>6. \A m \in Name : m # n => FindName(m)' = FindName(m)
  BY <1>0, <1>4, SameEntries
<1>7. FindName(n) = 0 /\ FindName(n)' = h
  BY <1>0, <1>2, <1>4, <1>5, NamesFound, NamesFoundPrime DEF LookupsRight
<1>8. Given(n, h)
  <2>1. NamedAs[n] = NULL
    BY <1>7 DEF NamedAs
  <2>2. \A m \in Name : NamedAs'[m] = IF m = n THEN h ELSE NamedAs[m]
    BY <1>0, <1>6, <1>7 DEF NamedAs
  <2>3. NamedAs' = [m \in Name |-> NamedAs'[m]] /\ NamedAs = [m \in Name |-> NamedAs[m]]
    BY DEF NamedAs
  <2>4. NamedAs' = [NamedAs EXCEPT ![n] = h]
    <3> HIDE DEF NamedAs
    <3> QED
      BY <2>2, <2>3
  <2> QED
    BY <1>3, <2>1, <2>2, <2>4 DEF Given
<1> QED
  BY <1>2, <1>8 DEF DirectoryStep

LEMMA StepIsTheDirectorys ==
  ASSUME IInv, [Next]_vars
  PROVE  DirectoryStep
<1>1. ASSUME NEW t \in Launcher, LaunchStep(t)
      PROVE  DirectoryStep
  <2>1. CASE Create(t)
    <3>1. UNCHANGED <<slot_size, slot, handle, name>>
      BY <2>1 DEF Create, tableVars
    <3> QED
      BY <3>1, NamesUnchanged, SameOwners DEF DirectoryStep, GrabOf
  <2> QED
    BY <1>1, <2>1, RegisterBinds, AssignBinds DEF LaunchStep
<1>2. CASE Retire
  BY <1>2, RetireUnbinds DEF Retire
<1>3. ASSUME NEW c \in Ctx, Free(c)
      PROVE  DirectoryStep
  <2>0. /\ TypeOK /\ Fits(slot_size) /\ Slots /\ st[c] = "retired"
        /\ handle' = [handle EXCEPT ![c] = 0] /\ UNCHANGED <<slot_size, slot, name>>
    BY <1>3 DEF IInv, Free, tableVars
  <2>1. \A x \in Address : GrabOf(x)' = GrabOf(x)
    <3> TAKE x \in Address
    <3>1. x % slot_size \in Slot(slot_size) /\ slot[x % slot_size] \in Ctx \cup {NULL}
      BY <2>0, AddressesAreNumbers, TableTyped DEF Tables
    <3>2. slot[x % slot_size] # c
      BY <2>0, <3>1, HandleAssumption DEF Slots
    <3> QED
      BY <2>0, <3>1, <3>2 DEF GrabOf, TypeOK
  <2> QED
    BY <2>0, <2>1, NamesUnchanged, SameOwners DEF DirectoryStep
<1>4. ASSUME NEW n \in Name, NEW c \in Ctx, NameHandle(n, c)
      PROVE  DirectoryStep
  BY <1>4, NameHandleGives
<1>5. CASE RaRetire
  <2>1. ra_h \in Handle \cup {0}
    BY DEF IInv, TypeOK
  <2> QED
    BY <1>5, <2>1, RetireUnbinds DEF RaRetire
<1>6. CASE RaStart \/ RaRead \/ RaPassEnds \/ UNCHANGED vars
  <2>1. UNCHANGED <<slot_size, slot, handle, name>>
    BY <1>6 DEF RaStart, RaRead, RaPassEnds, vars, tableVars
  <2> QED
    BY <2>1, NamesUnchanged, SameOwners DEF DirectoryStep, GrabOf
<1> QED
  BY <1>1, <1>2, <1>3, <1>4, <1>5, <1>6 DEF Next, RaStep

\* The hashed table and the sorted array implement the directory HandleMap: a handle belongs
\* to one service at a time and stays its own while the table grows and handles wrap, a
\* name is given once, and retiring a handle takes its names away, and nothing else.
THEOREM DirectoryImplemented == Spec => ImplementsHandleMap
<1>1. Init => D!Init
  <2> SUFFICES ASSUME Init
               PROVE  D!Init
    OBVIOUS
  <2>1. TypeOK /\ Fits(slot_size) /\ Named
    BY InitKeeps DEF IInv
  <2>2. \A h \in Address : GrabOf(h) = NULL
    <3> TAKE h \in Address
    <3>1. h % slot_size \in 0 .. slot_size - 1
      BY <2>1, AddressesAreNumbers, TableTyped DEF Slot
    <3> QED
      BY <3>1 DEF Init, GrabOf
  <2>3. \A n \in Name : FindName(n) = 0
    <3> TAKE n \in Name
    <3>1. \A h \in Address : ~ Has(n, h)
      BY DEF Has, Init
    <3> QED
      BY <2>1, <3>1, NamesFound DEF LookupsRight
  <2> QED
    BY <2>2, <2>3 DEF D!Init
<1>2. IInv /\ [Next]_vars => [D!Next]_(D!vars)
  BY StepIsTheDirectorys, StepsAreTheDirectorys
<1> QED
  BY <1>1, <1>2, Invariance, PTL DEF Spec, ImplementsHandleMap, D!Spec
=============================================================================
