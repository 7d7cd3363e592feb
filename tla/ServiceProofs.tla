----------------------------- MODULE ServiceProofs -----------------------------
(***************************************************************************)
(* Machine-checked proofs about shared data, multicast and the harbor.     *)
(***************************************************************************)
EXTENDS ShareData, Multicast, Harbor, FiniteSetTheorems, TLAPS

At == {"none", "query", "found", "confirm", "monitor", "watched", "told", "over"}

ShareTypeOK ==
  /\ made \in 0 .. MaxObj /\ pool \in {0, made} /\ deletes \in Nat
  /\ ref \in [Obj -> Int]
  /\ dirty \subseteq 1 .. made /\ old \subseteq 1 .. made /\ deleted \subseteq 1 .. made
  /\ watch \subseteq Client /\ client_at \in [Client -> At]
  /\ known \in [Client -> 0 .. made] /\ ptr \in [Client -> 0 .. made]
  /\ root \in [Client -> 0 .. made] /\ next \in [Client -> 0 .. made]
  /\ garbage \in [Client -> SUBSET (1 .. made)]
  /\ undef \subseteq Client /\ failed \in BOOLEAN

\* An object is in the pool, old, or deleted, and has no count before it was made.
ObjectsApart ==
  /\ \A o \in old \cup deleted : o # pool
  /\ old \cap deleted = {}
  /\ \A o \in Obj : o > made => ref[o] = 0

\* A client counts for an object with each box, and from the response to query until the
\* confirmation is handled.
Counts(c, o) ==
  \/ root[c] = o \/ next[c] = o \/ o \in garbage[c]
  \/ client_at[c] = "found" /\ ptr[c] = o
  \/ client_at[c] = "confirm" /\ known[c] = o

DeletedIsLeft == \A c \in Client, o \in deleted : ~Counts(c, o)

\* The boxes of a client are of different objects, of which the last is what its monitor
\* has heard of; what it is told is later.
Latest(c) == IF next[c] # 0 THEN next[c] ELSE root[c]
BoxesApart(c) ==
  /\ root[c] \notin garbage[c] /\ next[c] \notin garbage[c]
  /\ next[c] # 0 => root[c] < next[c]
  /\ client_at[c] \in {"none", "query", "found"} =>
       root[c] = 0 /\ next[c] = 0 /\ garbage[c] = {}
  /\ client_at[c] = "found" => ptr[c] # 0
  /\ client_at[c] \in {"confirm", "monitor", "watched", "told"} =>
       root[c] # 0 /\ known[c] = Latest(c) /\ \A o \in garbage[c] : o <= known[c]
  /\ client_at[c] = "told" => ptr[c] = 0 \/ ptr[c] > known[c]

\* Clients that wait are in the list of those that will be told, unless it was lost.
WatcherListed(c) ==
  /\ c \in watch => client_at[c] = "watched"
  /\ ~failed /\ client_at[c] = "watched" => c \in watch /\ known[c] = pool

ShareInv ==
  /\ ShareTypeOK /\ ObjectsApart /\ ObjectsCounted /\ DeletedIsLeft
  /\ \A c \in Client : BoxesApart(c) /\ WatcherListed(c)

One(p) == IF p THEN 1 ELSE 0

\* What a client adds to the count of an object.
Share(c, o) ==
  One(root[c] = o) + One(next[c] = o) + One(o \in garbage[c])
    + One(client_at[c] = "found" /\ ptr[c] = o) + One(client_at[c] = "confirm" /\ known[c] = o)

\* The clients that count for an object, by how they do.
Rooted(o)     == {c \in Client : root[c] = o}
Told(o)       == {c \in Client : next[c] = o}
Boxed(o)      == {c \in Client : o \in garbage[c]}
Found(o)      == {c \in Client : client_at[c] = "found" /\ ptr[c] = o}
Confirming(o) == {c \in Client : client_at[c] = "confirm" /\ known[c] = o}
Total(o) == Cardinality(Rooted(o)) + Cardinality(Told(o)) + Cardinality(Boxed(o))
              + Cardinality(Found(o)) + Cardinality(Confirming(o))
-----------------------------------------------------------------------------
(* Counting.                                                               *)

\* Two sets of clients that agree but for one client.
LEMMA CountOne ==
  ASSUME NEW c \in Client, NEW S \in SUBSET Client, NEW T \in SUBSET Client,
         \A d \in Client : d # c => (d \in S <=> d \in T)
  PROVE  /\ Cardinality(S) \in Nat /\ Cardinality(T) \in Nat
         /\ Cardinality(T) = Cardinality(S) + One(c \in T) - One(c \in S)
<1>1. IsFiniteSet(S) /\ IsFiniteSet(T)
  BY ShareAssumption, FS_Subset
<1>2. Cardinality(S) \in Nat /\ Cardinality(T) \in Nat
  BY <1>1, FS_CardinalityType
<1>3. CASE c \in S <=> c \in T
  <2>1. S = T
    BY <1>3
  <2> QED
    BY <1>2, <2>1 DEF One
<1>4. CASE c \in T /\ c \notin S
  <2>1. T = S \cup {c}
    BY <1>4
  <2>2. Cardinality(T) = Cardinality(S) + 1
    BY <1>1, <1>4, <2>1, FS_AddElement
  <2> QED
    BY <1>2, <1>4, <2>2 DEF One
<1>5. CASE c \in S /\ c \notin T
  <2>1. S = T \cup {c}
    BY <1>5
  <2>2. Cardinality(S) = Cardinality(T) + 1
    BY <1>1, <1>5, <2>1, FS_AddElement
  <2> QED
    BY <1>2, <1>5, <2>2 DEF One
<1> QED
  BY <1>3, <1>4, <1>5

LEMMA TotalType == \A o : Total(o) \in Nat
<1> TAKE o
<1>1. /\ IsFiniteSet(Rooted(o)) /\ IsFiniteSet(Told(o)) /\ IsFiniteSet(Boxed(o))
      /\ IsFiniteSet(Found(o)) /\ IsFiniteSet(Confirming(o))
  BY ShareAssumption, FS_Subset DEF Rooted, Told, Boxed, Found, Confirming
<1> QED
  BY <1>1, FS_CardinalityType DEF Total

\* The count of an object in words.
LEMMA CountedAs ==
  ObjectsCounted <=> \A o \in 1 .. made : ref[o] = One(pool = o) + Total(o)
<1> DEFINE Sum(o) ==
             (IF pool = o THEN 1 ELSE 0)
               + Cardinality({c \in Client : root[c] = o})
               + Cardinality({c \in Client : next[c] = o})
               + Cardinality({c \in Client : o \in garbage[c]})
               + Cardinality({c \in Client : client_at[c] = "found" /\ ptr[c] = o})
               + Cardinality({c \in Client : client_at[c] = "confirm" /\ known[c] = o})
<1>1. ASSUME NEW o
      PROVE  Sum(o) = One(pool = o) + Total(o)
  <2>1. /\ IsFiniteSet(Rooted(o)) /\ IsFiniteSet(Told(o)) /\ IsFiniteSet(Boxed(o))
        /\ IsFiniteSet(Found(o)) /\ IsFiniteSet(Confirming(o))
    BY ShareAssumption, FS_Subset DEF Rooted, Told, Boxed, Found, Confirming
  <2>2. /\ Cardinality(Rooted(o)) \in Nat /\ Cardinality(Told(o)) \in Nat
        /\ Cardinality(Boxed(o)) \in Nat
        /\ Cardinality(Found(o)) \in Nat /\ Cardinality(Confirming(o)) \in Nat
    BY <2>1, FS_CardinalityType
  <2> DEFINE a == Cardinality(Rooted(o))
             b == Cardinality(Told(o))
             e == Cardinality(Boxed(o))
             f == Cardinality(Found(o))
             g == Cardinality(Confirming(o))
             h == One(pool = o)
  <2>3. a \in Nat /\ b \in Nat /\ e \in Nat /\ f \in Nat /\ g \in Nat /\ h \in Nat
    BY <2>2 DEF One
  <2>4. Total(o) = a + b + e + f + g
    BY DEF Total
  <2>5. Sum(o) = h + a + b + e + f + g
    BY DEF Rooted, Told, Boxed, Found, Confirming, One
  <2> HIDE DEF a, b, e, f, g
  <2>6. h + a + b + e + f + g = h + (a + b + e + f + g)
    <3> HIDE DEF h
    <3> QED
      BY <2>3
  <2> QED
    BY <2>4, <2>5, <2>6
<1>2. ObjectsCounted <=> \A o \in 1 .. made : ref[o] = Sum(o)
  BY DEF ObjectsCounted
<1> HIDE DEF Sum
<1> QED
  BY <1>1, <1>2

LEMMA CountedAsPrime == (ObjectsCounted <=> \A o \in 1 .. made : ref[o] = One(pool = o) + Total(o))'
BY CountedAs, PTL

LEMMA TotalTypePrime == (\A o : Total(o) \in Nat)'
BY TotalType, PTL

\* When one client moves, the total of an object changes by its share.
LEMMA TotalMoves ==
  ASSUME NEW c \in Client, NEW o,
         \A d \in Client : d # c =>
           /\ client_at'[d] = client_at[d] /\ known'[d] = known[d] /\ ptr'[d] = ptr[d]
           /\ root'[d] = root[d] /\ next'[d] = next[d] /\ garbage'[d] = garbage[d]
  PROVE  /\ Total(o) \in Nat /\ Share(c, o) \in Nat /\ Share(c, o)' \in Nat
         /\ Total(o)' = Total(o) + Share(c, o)' - Share(c, o)
<1> DEFINE a == Cardinality(Rooted(o))
           b == Cardinality(Told(o))
           e == Cardinality(Boxed(o))
           f == Cardinality(Found(o))
           g == Cardinality(Confirming(o))
           x == Cardinality(Rooted(o)')
           y == Cardinality(Told(o)')
           z == Cardinality(Boxed(o)')
           u == Cardinality(Found(o)')
           w == Cardinality(Confirming(o)')
<1>1. a \in Nat /\ x \in Nat /\ x = a + One(root'[c] = o) - One(root[c] = o)
  <2> DEFINE S == Rooted(o)
             T == Rooted(o)'
  <2>1. /\ S \in SUBSET Client /\ T \in SUBSET Client
        /\ \A d \in Client : d \in S <=> root[d] = o
        /\ \A d \in Client : d \in T <=> root'[d] = o
    BY DEF Rooted
  <2> HIDE DEF S, T
  <2>2. \A d \in Client : d # c => (d \in S <=> d \in T)
    BY <2>1
  <2>3. /\ Cardinality(S) \in Nat /\ Cardinality(T) \in Nat
        /\ Cardinality(T) = Cardinality(S) + One(c \in T) - One(c \in S)
    BY <2>1, <2>2, CountOne
  <2>4. One(c \in T) = One(root'[c] = o) /\ One(c \in S) = One(root[c] = o)
    BY <2>1 DEF One
  <2> QED
    BY <2>3, <2>4 DEF S, T
<1>2. b \in Nat /\ y \in Nat /\ y = b + One(next'[c] = o) - One(next[c] = o)
  <2> DEFINE S == Told(o)
             T == Told(o)'
  <2>1. /\ S \in SUBSET Client /\ T \in SUBSET Client
        /\ \A d \in Client : d \in S <=> next[d] = o
        /\ \A d \in Client : d \in T <=> next'[d] = o
    BY DEF Told
  <2> HIDE DEF S, T
  <2>2. \A d \in Client : d # c => (d \in S <=> d \in T)
    BY <2>1
  <2>3. /\ Cardinality(S) \in Nat /\ Cardinality(T) \in Nat
        /\ Cardinality(T) = Cardinality(S) + One(c \in T) - One(c \in S)
    BY <2>1, <2>2, CountOne
  <2>4. One(c \in T) = One(next'[c] = o) /\ One(c \in S) = One(next[c] = o)
    BY <2>1 DEF One
  <2> QED
    BY <2>3, <2>4 DEF S, T
<1>3. e \in Nat /\ z \in Nat /\ z = e + One(o \in garbage'[c]) - One(o \in garbage[c])
  <2> DEFINE S == Boxed(o)
             T == Boxed(o)'
  <2>1. /\ S \in SUBSET Client /\ T \in SUBSET Client
        /\ \A d \in Client : d \in S <=> o \in garbage[d]
        /\ \A d \in Client : d \in T <=> o \in garbage'[d]
    BY DEF Boxed
  <2> HIDE DEF S, T
  <2>2. \A d \in Client : d # c => (d \in S <=> d \in T)
    BY <2>1
  <2>3. /\ Cardinality(S) \in Nat /\ Cardinality(T) \in Nat
        /\ Cardinality(T) = Cardinality(S) + One(c \in T) - One(c \in S)
    BY <2>1, <2>2, CountOne
  <2>4. One(c \in T) = One(o \in garbage'[c]) /\ One(c \in S) = One(o \in garbage[c])
    BY <2>1 DEF One
  <2> QED
    BY <2>3, <2>4 DEF S, T
<1>4. f \in Nat /\ u \in Nat
      /\ u = f + One(client_at'[c] = "found" /\ ptr'[c] = o)
               - One(client_at[c] = "found" /\ ptr[c] = o)
  <2> DEFINE S == Found(o)
             T == Found(o)'
  <2>1. /\ S \in SUBSET Client /\ T \in SUBSET Client
        /\ \A d \in Client : d \in S <=> client_at[d] = "found" /\ ptr[d] = o
        /\ \A d \in Client : d \in T <=> client_at'[d] = "found" /\ ptr'[d] = o
    BY DEF Found
  <2> HIDE DEF S, T
  <2>2. \A d \in Client : d # c => (d \in S <=> d \in T)
    BY <2>1
  <2>3. /\ Cardinality(S) \in Nat /\ Cardinality(T) \in Nat
        /\ Cardinality(T) = Cardinality(S) + One(c \in T) - One(c \in S)
    BY <2>1, <2>2, CountOne
  <2>4. /\ One(c \in T) = One(client_at'[c] = "found" /\ ptr'[c] = o)
        /\ One(c \in S) = One(client_at[c] = "found" /\ ptr[c] = o)
    BY <2>1 DEF One
  <2> QED
    BY <2>3, <2>4 DEF S, T
<1>5. g \in Nat /\ w \in Nat
      /\ w = g + One(client_at'[c] = "confirm" /\ known'[c] = o)
               - One(client_at[c] = "confirm" /\ known[c] = o)
  <2> DEFINE S == Confirming(o)
             T == Confirming(o)'
  <2>1. /\ S \in SUBSET Client /\ T \in SUBSET Client
        /\ \A d \in Client : d \in S <=> client_at[d] = "confirm" /\ known[d] = o
        /\ \A d \in Client : d \in T <=> client_at'[d] = "confirm" /\ known'[d] = o
    BY DEF Confirming
  <2> HIDE DEF S, T
  <2>2. \A d \in Client : d # c => (d \in S <=> d \in T)
    BY <2>1
  <2>3. /\ Cardinality(S) \in Nat /\ Cardinality(T) \in Nat
        /\ Cardinality(T) = Cardinality(S) + One(c \in T) - One(c \in S)
    BY <2>1, <2>2, CountOne
  <2>4. /\ One(c \in T) = One(client_at'[c] = "confirm" /\ known'[c] = o)
        /\ One(c \in S) = One(client_at[c] = "confirm" /\ known[c] = o)
    BY <2>1 DEF One
  <2> QED
    BY <2>3, <2>4 DEF S, T
<1>6. Total(o) = a + b + e + f + g /\ Total(o)' = x + y + z + u + w
  BY DEF Total
<1> HIDE DEF a, b, e, f, g, x, y, z, u, w
<1> QED
  BY <1>1, <1>2, <1>3, <1>4, <1>5, <1>6 DEF Share, One
-----------------------------------------------------------------------------
(* Steps of the clients, and of the service for one of them.               *)

\* Only what is of client c changes, and the counts by what it counts for.
ClientMoves(c) ==
  /\ UNCHANGED <<pool, objVars>>
  /\ watch' \in SUBSET Client /\ \A d \in Client : d # c => (d \in watch' <=> d \in watch)
  /\ client_at' \in [Client -> At] /\ known' \in [Client -> 0 .. made]
  /\ ptr' \in [Client -> 0 .. made] /\ root' \in [Client -> 0 .. made]
  /\ next' \in [Client -> 0 .. made] /\ garbage' \in [Client -> SUBSET (1 .. made)]
  /\ undef' \subseteq Client
  /\ \A d \in Client : d # c =>
       /\ client_at'[d] = client_at[d] /\ known'[d] = known[d] /\ ptr'[d] = ptr[d]
       /\ root'[d] = root[d] /\ next'[d] = next[d] /\ garbage'[d] = garbage[d]
  /\ ref' \in [Obj -> Int] /\ \A o \in Obj : o > made => ref'[o] = ref[o]
  /\ \A o \in 1 .. made : ref'[o] = ref[o] + Share(c, o)' - Share(c, o)
  /\ \A o \in deleted : ~Counts(c, o)'
  /\ BoxesApart(c)' /\ WatcherListed(c)'

LEMMA ClientMovesKeeps ==
  ASSUME ShareInv, NEW c \in Client, ClientMoves(c)
  PROVE  ShareInv'
<1> USE DEF ShareInv
<1>1. /\ pool' = pool /\ made' = made /\ deletes' = deletes /\ dirty' = dirty /\ old' = old
      /\ deleted' = deleted /\ failed' = failed
  BY DEF ClientMoves, objVars
<1>2. \A d \in Client : d # c =>
        /\ client_at'[d] = client_at[d] /\ known'[d] = known[d] /\ ptr'[d] = ptr[d]
        /\ root'[d] = root[d] /\ next'[d] = next[d] /\ garbage'[d] = garbage[d]
        /\ d \in watch' <=> d \in watch
  BY DEF ClientMoves
<1>3. ShareTypeOK'
  BY <1>1 DEF ShareTypeOK, ClientMoves, Obj
<1>4. ObjectsApart'
  BY <1>1 DEF ObjectsApart, ClientMoves
<1>5. ObjectsCounted'
  <2> SUFFICES ASSUME NEW o \in 1 .. made
               PROVE  ref'[o] = One(pool = o) + Total(o)'
    BY <1>1, CountedAsPrime
  <2>1. ref[o] = One(pool = o) + Total(o)
    BY CountedAs
  <2>2. ref'[o] = ref[o] + Share(c, o)' - Share(c, o)
    BY DEF ClientMoves
  <2>3. /\ Total(o) \in Nat /\ Share(c, o) \in Nat /\ Share(c, o)' \in Nat
        /\ Total(o)' = Total(o) + Share(c, o)' - Share(c, o)
    BY <1>2, TotalMoves
  <2>4. One(pool = o) \in Nat
    BY DEF One
  <2> DEFINE s == Share(c, o)
             t == Share(c, o)'
             m == Total(o)
             n == Total(o)'
             p == One(pool = o)
  <2> HIDE DEF s, t, m, n, p
  <2>5. ref[o] = p + m /\ ref'[o] = ref[o] + t - s /\ n = m + t - s
        /\ m \in Nat /\ s \in Nat /\ t \in Nat /\ p \in Nat
    BY <2>1, <2>2, <2>3, <2>4 DEF s, t, m, n, p
  <2>6. ref'[o] = p + n
    BY <2>5
  <2> QED
    BY <2>6 DEF p, n
<1>6. DeletedIsLeft'
  BY <1>1, <1>2 DEF DeletedIsLeft, Counts, ClientMoves
<1>7. ASSUME NEW d \in Client PROVE BoxesApart(d)' /\ WatcherListed(d)'
  <2>1. CASE d = c
    BY <2>1 DEF ClientMoves
  <2>2. CASE d # c
    BY <1>1, <1>2, <2>2 DEF BoxesApart, WatcherListed, Latest
  <2> QED
    BY <2>1, <2>2
<1> QED
  BY <1>3, <1>4, <1>5, <1>6, <1>7

\* What the types say of one client.
LEMMA ShareTyped ==
  ASSUME ShareTypeOK, NEW c \in Client
  PROVE  /\ client_at[c] \in At /\ garbage[c] \subseteq 1 .. made
         /\ known[c] \in 0 .. made /\ ptr[c] \in 0 .. made
         /\ root[c] \in 0 .. made /\ next[c] \in 0 .. made
         /\ made \in Nat /\ 1 .. made \subseteq Obj /\ Obj \subseteq Nat
BY ShareAssumption DEF ShareTypeOK, Obj

\* sharedata.query, and the service that reads it.
LEMMA QueryKeeps ==
  ASSUME ShareInv, NEW c \in Client, Query(c) \/ QueryRead(c)
  PROVE  ShareInv'
<1> USE DEF ShareInv
<1>1. /\ UNCHANGED <<pool, objVars>> /\ watch' = watch /\ known' = known
      /\ root' = root /\ next' = next /\ garbage' = garbage /\ undef' = undef
      /\ pool' = pool /\ made' = made /\ deleted' = deleted /\ failed' = failed
  BY DEF Query, QueryRead, hostVars, boxVars, objVars
<1>2. client_at[c] \in {"none", "query"}
  BY DEF Query, QueryRead
<1>3. root[c] = 0 /\ next[c] = 0 /\ garbage[c] = {} /\ c \notin watch
  BY <1>2 DEF BoxesApart, WatcherListed
<1>4. \A o : Share(c, o) = One(root[c] = o) + One(next[c] = o) + One(o \in garbage[c])
  BY <1>2 DEF Share, One
<1>5. CASE ref' = ref /\ ptr' = ptr
           /\ \E to \in {"query", "over"} : client_at' = [client_at EXCEPT ![c] = to]
  <2>1. PICK to \in {"query", "over"} : client_at' = [client_at EXCEPT ![c] = to]
    BY <1>5
  <2>2. client_at' \in [Client -> At] /\ client_at'[c] = to
        /\ \A d \in Client : d # c => client_at'[d] = client_at[d]
    BY <2>1 DEF ShareTypeOK, At
  <2>3. \A o : Share(c, o)' = One(root[c] = o) + One(next[c] = o) + One(o \in garbage[c])
    BY <1>1, <2>2 DEF Share, One
  <2>4. \A o \in 1 .. made : ref'[o] = ref[o] + Share(c, o)' - Share(c, o)
    <3> TAKE o \in 1 .. made
    <3>1. Share(c, o)' = Share(c, o) /\ Share(c, o) \in Nat
      BY <1>4, <2>3 DEF One
    <3>2. ref[o] \in Int
      BY ShareTyped DEF ShareTypeOK
    <3> QED
      BY <1>5, <3>1, <3>2
  <2>5. \A o \in deleted : ~Counts(c, o)'
    BY <1>1, <2>2 DEF DeletedIsLeft, Counts
  <2>6. BoxesApart(c)' /\ WatcherListed(c)'
    BY <1>1, <1>3, <2>2 DEF BoxesApart, WatcherListed
  <2>7. ClientMoves(c)
    BY <1>1, <1>5, <2>2, <2>4, <2>5, <2>6 DEF ClientMoves, ShareTypeOK
  <2> QED
    BY <2>7, ClientMovesKeeps
<1>6. CASE /\ pool # 0 /\ client_at' = [client_at EXCEPT ![c] = "found"]
           /\ ptr' = [ptr EXCEPT ![c] = pool] /\ ref' = [ref EXCEPT ![pool] = @ + 1]
  <2>1. /\ client_at' \in [Client -> At] /\ client_at'[c] = "found"
        /\ \A d \in Client : d # c => client_at'[d] = client_at[d]
    BY <1>6 DEF ShareTypeOK, At
  <2>2. /\ pool \in 1 .. made /\ pool \in Obj /\ 1 .. made \subseteq Obj /\ made \in Nat
    BY <1>6, ShareTyped DEF ShareTypeOK
  <2>3. /\ ptr' \in [Client -> 0 .. made] /\ ptr'[c] = pool
        /\ \A d \in Client : d # c => ptr'[d] = ptr[d]
    BY <1>6, <2>2 DEF ShareTypeOK
  <2>4. /\ ref' \in [Obj -> Int]
        /\ \A o \in Obj : ref[o] \in Int /\ ref'[o] = IF o = pool THEN ref[o] + 1 ELSE ref[o]
    BY <1>6, <2>2 DEF ShareTypeOK
  <2>5. \A o : Share(c, o)' = One(root[c] = o) + One(next[c] = o) + One(o \in garbage[c])
                                + One(pool = o)
    BY <1>1, <2>1, <2>3 DEF Share, One
  <2>6. \A o \in 1 .. made : ref'[o] = ref[o] + Share(c, o)' - Share(c, o)
    BY <1>4, <2>2, <2>4, <2>5 DEF One
  <2>7. \A o \in deleted : ~Counts(c, o)'
    BY <1>1, <2>1, <2>3 DEF DeletedIsLeft, Counts, ObjectsApart
  <2>8. BoxesApart(c)' /\ WatcherListed(c)'
    BY <1>1, <1>3, <1>6, <2>1, <2>3 DEF BoxesApart, WatcherListed
  <2>9. \A o \in Obj : o > made => ref'[o] = ref[o]
    BY <2>2, <2>4 DEF Obj
  <2>10. ClientMoves(c)
    BY <1>1, <2>1, <2>3, <2>4, <2>6, <2>7, <2>8, <2>9 DEF ClientMoves, ShareTypeOK
  <2> QED
    BY <2>10, ClientMovesKeeps
<1> QED
  BY <1>5, <1>6 DEF Query, QueryRead, RespondWith, Inc

\* CMD.confirm.
LEMMA ConfirmKeeps ==
  ASSUME ShareInv, NEW c \in Client, Confirm(c)
  PROVE  ShareInv'
<1> USE DEF ShareInv
<1> DEFINE k == known[c]
<1>1. /\ UNCHANGED <<pool, objVars>> /\ watch' = watch /\ known' = known /\ ptr' = ptr
      /\ root' = root /\ next' = next /\ garbage' = garbage /\ undef' = undef
      /\ pool' = pool /\ made' = made /\ deleted' = deleted /\ failed' = failed
      /\ client_at[c] = "confirm" /\ client_at' = [client_at EXCEPT ![c] = "monitor"]
  BY DEF Confirm, hostVars, boxVars, objVars
<1>2. k \notin deleted
  BY <1>1 DEF DeletedIsLeft, Counts
<1>3. ref' = [ref EXCEPT ![k] = @ - 1]
  BY <1>2 DEF Confirm, Dec
<1>4. /\ client_at' \in [Client -> At] /\ client_at'[c] = "monitor"
      /\ \A d \in Client : d # c => client_at'[d] = client_at[d]
  BY <1>1 DEF ShareTypeOK, At
<1>5. k \in 1 .. made /\ k \in Obj /\ 1 .. made \subseteq Obj /\ made \in Nat
  BY <1>1, ShareTyped DEF BoxesApart, Latest
<1>6. /\ ref' \in [Obj -> Int]
      /\ \A o \in Obj : ref[o] \in Int /\ ref'[o] = IF o = k THEN ref[o] - 1 ELSE ref[o]
  <2> HIDE DEF k
  <2> QED
    BY <1>3, <1>5 DEF ShareTypeOK
<1>7. \A o : /\ Share(c, o) = One(root[c] = o) + One(next[c] = o) + One(o \in garbage[c])
                                + One(k = o)
             /\ Share(c, o)' = One(root[c] = o) + One(next[c] = o) + One(o \in garbage[c])
  BY <1>1, <1>4 DEF Share, One
<1> HIDE DEF k
<1>8. \A o \in 1 .. made : ref'[o] = ref[o] + Share(c, o)' - Share(c, o)
  BY <1>5, <1>6, <1>7 DEF One
<1>9. \A o \in deleted : ~Counts(c, o)'
  BY <1>1, <1>4 DEF DeletedIsLeft, Counts
<1>10. BoxesApart(c)' /\ WatcherListed(c)'
  BY <1>1, <1>4 DEF BoxesApart, WatcherListed, Latest
<1>11. \A o \in Obj : o > made => ref'[o] = ref[o]
  BY <1>5, <1>6 DEF Obj
<1>12. ClientMoves(c)
  BY <1>1, <1>4, <1>6, <1>8, <1>9, <1>10, <1>11 DEF ClientMoves, ShareTypeOK
<1> QED
  BY <1>12, ClientMovesKeeps

\* Nothing of c that counts changes.
LEMMA SharesNothing ==
  ASSUME ShareTypeOK, NEW c \in Client, ref' = ref, root' = root, next' = next, garbage' = garbage,
         {client_at[c], client_at'[c]} \cap {"found", "confirm"} = {}
  PROVE  /\ \A o \in 1 .. made : ref'[o] = ref[o] + Share(c, o)' - Share(c, o)
         /\ \A o : Counts(c, o)' => Counts(c, o)
<1>1. /\ client_at[c] # "found" /\ client_at[c] # "confirm"
      /\ client_at'[c] # "found" /\ client_at'[c] # "confirm"
  OBVIOUS
<1>2. \A o : Counts(c, o)' => Counts(c, o)
  BY <1>1 DEF Counts
<1>3. ASSUME NEW o \in 1 .. made PROVE ref'[o] = ref[o] + Share(c, o)' - Share(c, o)
  <2>1. /\ One(client_at[c] = "found" /\ ptr[c] = o) = 0
        /\ One(client_at[c] = "confirm" /\ known[c] = o) = 0
        /\ One(client_at'[c] = "found" /\ ptr'[c] = o) = 0
        /\ One(client_at'[c] = "confirm" /\ known'[c] = o) = 0
    BY <1>1 DEF One
  <2>2. Share(c, o)' = Share(c, o) /\ Share(c, o) \in Nat
    BY <2>1 DEF Share, One
  <2>3. ref[o] \in Int
    BY ShareTyped DEF ShareTypeOK
  <2> QED
    BY <2>2, <2>3
<1> QED
  BY <1>2, <1>3

\* CMD.monitor.
LEMMA MonitorKeeps ==
  ASSUME ShareInv, NEW c \in Client, MonitorRead(c)
  PROVE  ShareInv'
<1> USE DEF ShareInv
<1>1. /\ UNCHANGED <<pool, objVars>> /\ known' = known /\ ref' = ref
      /\ root' = root /\ next' = next /\ garbage' = garbage /\ undef' = undef
      /\ pool' = pool /\ made' = made /\ deleted' = deleted /\ failed' = failed
      /\ client_at[c] = "monitor"
  BY DEF MonitorRead, boxVars, objVars
<1>2. /\ c \notin watch /\ root[c] # 0 /\ known[c] = Latest(c)
      /\ \A o \in garbage[c] : o <= known[c]
      /\ root[c] \notin garbage[c] /\ next[c] \notin garbage[c]
      /\ next[c] # 0 => root[c] < next[c]
  BY <1>1 DEF BoxesApart, WatcherListed
<1>3. PICK to \in {"over", "told", "watched"} :
        /\ client_at' = [client_at EXCEPT ![c] = to]
        /\ to = "over" => watch' = watch /\ ptr' = ptr
        /\ to = "told" => /\ pool # 0 /\ known[c] # pool
                          /\ ptr' = [ptr EXCEPT ![c] = pool] /\ watch' = watch
        /\ to = "watched" => known[c] = pool /\ watch' = watch \cup {c} /\ ptr' = ptr
  BY DEF MonitorRead, RespondWith
<1>4. /\ client_at' \in [Client -> At] /\ client_at'[c] = to
      /\ \A d \in Client : d # c => client_at'[d] = client_at[d]
  BY <1>3 DEF ShareTypeOK, At
<1>5. /\ ptr' \in [Client -> 0 .. made]
      /\ to = "told" => ptr'[c] = pool
      /\ \A d \in Client : d # c => ptr'[d] = ptr[d]
  <2>1. pool \in 0 .. made
    BY ShareTyped DEF ShareTypeOK
  <2> QED
    BY <1>3, <2>1 DEF ShareTypeOK
<1>6. /\ watch' \in SUBSET Client /\ \A d \in Client : d # c => (d \in watch' <=> d \in watch)
      /\ c \in watch' <=> to = "watched"
  BY <1>2, <1>3 DEF ShareTypeOK
<1>7. BoxesApart(c)'
  <2>1. to = "told" => pool > known[c]
    BY <1>3, ShareTyped DEF ShareTypeOK
  <2> QED
    BY <1>1, <1>2, <1>4, <1>5, <2>1 DEF BoxesApart, Latest
<1>8. WatcherListed(c)'
  BY <1>1, <1>3, <1>4, <1>6 DEF WatcherListed
<1>9. /\ \A o \in 1 .. made : ref'[o] = ref[o] + Share(c, o)' - Share(c, o)
      /\ \A o : Counts(c, o)' => Counts(c, o)
  BY <1>1, <1>4, SharesNothing
<1>10. ClientMoves(c)
  BY <1>1, <1>4, <1>5, <1>6, <1>7, <1>8, <1>9 DEF ClientMoves, ShareTypeOK, DeletedIsLeft
<1> QED
  BY <1>10, ClientMovesKeeps

\* The rest of sharedata.query.
LEMMA BoxKeeps ==
  ASSUME ShareInv, NEW c \in Client, Box(c)
  PROVE  ShareInv'
<1> USE DEF ShareInv
<1> DEFINE p == ptr[c]
<1>1. /\ UNCHANGED <<pool, objVars>> /\ watch' = watch
      /\ next' = next /\ garbage' = garbage /\ undef' = undef
      /\ pool' = pool /\ made' = made /\ deleted' = deleted /\ failed' = failed
      /\ client_at[c] = "found" /\ client_at' = [client_at EXCEPT ![c] = "confirm"]
      /\ root' = [root EXCEPT ![c] = p] /\ known' = [known EXCEPT ![c] = p]
      /\ ptr' = [ptr EXCEPT ![c] = 0] /\ ref' = [ref EXCEPT ![p] = @ + 1]
  BY DEF Box, Inc, hostVars, objVars
<1>2. /\ p \in 1 .. made /\ p \in Obj /\ 1 .. made \subseteq Obj /\ made \in Nat
      /\ root[c] = 0 /\ next[c] = 0 /\ garbage[c] = {} /\ c \notin watch
  BY <1>1, ShareTyped DEF BoxesApart, WatcherListed
<1>3. p \notin deleted
  BY <1>1 DEF DeletedIsLeft, Counts
<1> HIDE DEF p
<1>4. /\ client_at' \in [Client -> At] /\ client_at'[c] = "confirm"
      /\ \A d \in Client : d # c => client_at'[d] = client_at[d]
  BY <1>1 DEF ShareTypeOK, At
<1>5. /\ root' \in [Client -> 0 .. made] /\ root'[c] = p
      /\ known' \in [Client -> 0 .. made] /\ known'[c] = p
      /\ ptr' \in [Client -> 0 .. made]
      /\ \A d \in Client : d # c => root'[d] = root[d] /\ known'[d] = known[d] /\ ptr'[d] = ptr[d]
  BY <1>1, <1>2 DEF ShareTypeOK
<1>6. /\ ref' \in [Obj -> Int]
      /\ \A o \in Obj : ref[o] \in Int /\ ref'[o] = IF o = p THEN ref[o] + 1 ELSE ref[o]
  BY <1>1, <1>2 DEF ShareTypeOK
<1>7. \A o \in 1 .. made : /\ Share(c, o) = One(p = o)
                           /\ Share(c, o)' = One(p = o) + One(p = o)
  BY <1>1, <1>2, <1>4, <1>5 DEF Share, One, p
<1>8. \A o \in 1 .. made : ref'[o] = ref[o] + Share(c, o)' - Share(c, o)
  BY <1>2, <1>6, <1>7 DEF One
<1>9. \A o \in deleted : ~Counts(c, o)'
  <2>1. deleted \subseteq 1 .. made
    BY DEF ShareTypeOK
  <2> QED
    BY <1>1, <1>2, <1>3, <1>4, <1>5, <2>1 DEF Counts
<1>10. BoxesApart(c)' /\ WatcherListed(c)'
  BY <1>1, <1>2, <1>4, <1>5 DEF BoxesApart, WatcherListed, Latest
<1>11. \A o \in Obj : o > made => ref'[o] = ref[o]
  BY <1>2, <1>6 DEF Obj
<1>12. ClientMoves(c)
  BY <1>1, <1>4, <1>5, <1>6, <1>8, <1>9, <1>10, <1>11 DEF ClientMoves, ShareTypeOK
<1> QED
  BY <1>12, ClientMovesKeeps

\* The monitor of a client is told.
LEMMA ToldKeeps ==
  ASSUME ShareInv, NEW c \in Client, MonitorTold(c)
  PROVE  ShareInv'
<1> USE DEF ShareInv
<1> DEFINE p == ptr[c]
           n == next[c]
<1>1. /\ UNCHANGED <<pool, objVars>> /\ watch' = watch /\ root' = root
      /\ pool' = pool /\ made' = made /\ deleted' = deleted /\ failed' = failed
      /\ client_at[c] = "told"
      /\ known' = [known EXCEPT ![c] = p] /\ ptr' = [ptr EXCEPT ![c] = 0]
  BY DEF MonitorTold, boxVars, hostVars, objVars
<1>2. /\ c \notin watch /\ root[c] # 0 /\ known[c] = Latest(c)
      /\ \A o \in garbage[c] : o <= known[c]
      /\ root[c] \notin garbage[c] /\ n \notin garbage[c]
      /\ n # 0 => root[c] < n
      /\ p = 0 \/ p > known[c]
  BY <1>1 DEF BoxesApart, WatcherListed
<1>3. /\ made \in Nat /\ p \in 0 .. made /\ n \in 0 .. made /\ known[c] \in 0 .. made
      /\ root[c] \in 0 .. made /\ garbage[c] \subseteq 1 .. made
      /\ 1 .. made \subseteq Obj /\ Obj \subseteq Nat
  BY ShareTyped
<1>4. /\ known' \in [Client -> 0 .. made] /\ known'[c] = p
      /\ ptr' \in [Client -> 0 .. made] /\ ptr'[c] = 0
      /\ \A d \in Client : d # c => known'[d] = known[d] /\ ptr'[d] = ptr[d]
  <2> HIDE DEF p
  <2> QED
    BY <1>1, <1>3 DEF ShareTypeOK
<1>5. CASE /\ client_at' = [client_at EXCEPT ![c] = "over"] /\ ref' = ref
           /\ next' = next /\ garbage' = garbage /\ undef' \in {undef, undef \cup {c}}
  <2>1. /\ client_at' \in [Client -> At] /\ client_at'[c] = "over"
        /\ \A d \in Client : d # c => client_at'[d] = client_at[d]
    BY <1>5 DEF ShareTypeOK, At
  <2>2. /\ \A o \in 1 .. made : ref'[o] = ref[o] + Share(c, o)' - Share(c, o)
        /\ \A o : Counts(c, o)' => Counts(c, o)
    BY <1>1, <1>5, <2>1, SharesNothing
  <2>3. BoxesApart(c)' /\ WatcherListed(c)'
    BY <1>1, <1>2, <1>5, <2>1 DEF BoxesApart, WatcherListed
  <2>4. undef' \subseteq Client
    BY <1>5 DEF ShareTypeOK
  <2>5. ClientMoves(c)
    BY <1>1, <1>4, <1>5, <2>1, <2>2, <2>3, <2>4 DEF ClientMoves, ShareTypeOK, DeletedIsLeft
  <2> QED
    BY <2>5, ClientMovesKeeps
<1>6. CASE /\ p # 0 /\ p \notin deleted /\ undef' = undef
           /\ client_at' = [client_at EXCEPT ![c] = "monitor"]
           /\ next' = [next EXCEPT ![c] = p] /\ ref' = [ref EXCEPT ![p] = @ + 1]
           /\ garbage' = [garbage EXCEPT ![c] = IF n = 0 THEN @ ELSE @ \cup {n}]
  <2>1. /\ client_at' \in [Client -> At] /\ client_at'[c] = "monitor"
        /\ \A d \in Client : d # c => client_at'[d] = client_at[d]
    BY <1>6 DEF ShareTypeOK, At
  <2>2. p \in 1 .. made /\ p \in Obj /\ p > known[c]
    BY <1>2, <1>3, <1>6
  <2> HIDE DEF p, n
  <2>3. /\ next' \in [Client -> 0 .. made] /\ next'[c] = p
        /\ garbage' \in [Client -> SUBSET (1 .. made)]
        /\ garbage'[c] = IF n = 0 THEN garbage[c] ELSE garbage[c] \cup {n}
        /\ \A d \in Client : d # c => next'[d] = next[d] /\ garbage'[d] = garbage[d]
    BY <1>3, <1>6, <2>2 DEF ShareTypeOK
  <2>4. /\ ref' \in [Obj -> Int]
        /\ \A o \in Obj : ref[o] \in Int /\ ref'[o] = IF o = p THEN ref[o] + 1 ELSE ref[o]
    BY <1>6, <2>2 DEF ShareTypeOK
  <2>5. \A o : /\ Share(c, o) = One(root[c] = o) + One(n = o) + One(o \in garbage[c])
               /\ Share(c, o)' = One(root[c] = o) + One(p = o) + One(o \in garbage'[c])
    BY <1>1, <2>1, <2>3 DEF Share, One, n
  <2>6. \A o \in 1 .. made : One(o \in garbage'[c]) = One(n = o) + One(o \in garbage[c])
    BY <1>2, <2>3 DEF One
  <2>7. \A o \in 1 .. made : ref'[o] = ref[o] + Share(c, o)' - Share(c, o)
    <3> TAKE o \in 1 .. made
    <3>1. /\ One(root[c] = o) \in Nat /\ One(n = o) \in Nat /\ One(o \in garbage[c]) \in Nat
          /\ One(p = o) = IF o = p THEN 1 ELSE 0
      BY DEF One
    <3>2. Share(c, o)' - Share(c, o) = One(p = o)
      BY <2>5, <2>6, <3>1
    <3>3. Share(c, o) \in Nat /\ Share(c, o)' \in Nat
      BY <2>5, <2>6, <3>1
    <3> QED
      BY <1>3, <2>4, <3>1, <3>2, <3>3
  <2>8. \A o \in deleted : ~Counts(c, o)'
    <3>1. \A o \in deleted : o # 0 /\ o # root[c] /\ o # n /\ o \notin garbage[c] /\ o # p
      BY <1>6 DEF DeletedIsLeft, Counts, ShareTypeOK, n
    <3> QED
      BY <1>1, <2>1, <2>3, <3>1 DEF Counts
  <2>9. BoxesApart(c)' /\ WatcherListed(c)'
    <3>1. root[c] <= known[c] /\ n <= known[c] /\ known[c] < p
      BY <1>2, <1>3, <2>2 DEF Latest, n
    <3>2. Latest(c)' = p
      BY <2>2, <2>3 DEF Latest
    <3>3. \A o \in garbage'[c] : o <= known[c] /\ o <= p /\ o # root[c] /\ o # p
      BY <1>2, <1>3, <2>2, <2>3, <3>1
    <3>4. root'[c] \notin garbage'[c] /\ next'[c] \notin garbage'[c] /\ root'[c] < next'[c]
      BY <1>1, <1>3, <2>3, <3>1, <3>3
    <3> QED
      BY <1>1, <1>2, <1>4, <2>1, <3>2, <3>3, <3>4 DEF BoxesApart, WatcherListed
  <2>10. \A o \in Obj : o > made => ref'[o] = ref[o]
    BY <1>3, <2>2, <2>4
  <2>11. ClientMoves(c)
    BY <1>1, <1>4, <1>6, <2>1, <2>3, <2>4, <2>7, <2>8, <2>9, <2>10 DEF ClientMoves, ShareTypeOK
  <2> QED
    BY <2>11, ClientMovesKeeps
<1> QED
  BY <1>5, <1>6 DEF MonitorTold, Inc, boxVars

\* getcobj.
LEMMA UseKeeps ==
  ASSUME ShareInv, NEW c \in Client, Use(c)
  PROVE  ShareInv'
<1> USE DEF ShareInv
<1> DEFINE r == root[c]
           n == next[c]
<1>1. /\ UNCHANGED <<pool, objVars>> /\ watch' = watch /\ client_at' = client_at /\ ref' = ref
      /\ pool' = pool /\ made' = made /\ deleted' = deleted /\ failed' = failed
      /\ known' = known /\ ptr' = ptr /\ undef' = undef /\ r \in dirty /\ n # 0
      /\ root' = [root EXCEPT ![c] = n] /\ next' = [next EXCEPT ![c] = 0]
      /\ garbage' = [garbage EXCEPT ![c] = @ \cup {r}]
  BY DEF Use, hostVars, objVars
<1>2. /\ made \in Nat /\ n \in 1 .. made /\ r \in 1 .. made /\ garbage[c] \subseteq 1 .. made
      /\ known[c] \in 0 .. made /\ 1 .. made \subseteq Obj /\ Obj \subseteq Nat
  BY <1>1, ShareTyped DEF ShareTypeOK
<1>3. /\ r \notin garbage[c] /\ n \notin garbage[c] /\ r < n /\ Latest(c) = n
      /\ client_at[c] \notin {"none", "query", "found"}
      /\ client_at[c] \in {"confirm", "monitor", "watched", "told"} =>
           known[c] = n /\ \A o \in garbage[c] : o <= known[c]
      /\ client_at[c] = "told" => ptr[c] = 0 \/ ptr[c] > known[c]
  BY <1>1 DEF BoxesApart, Latest
<1> HIDE DEF r, n
<1>4. /\ root' \in [Client -> 0 .. made] /\ root'[c] = n
      /\ next' \in [Client -> 0 .. made] /\ next'[c] = 0
      /\ garbage' \in [Client -> SUBSET (1 .. made)] /\ garbage'[c] = garbage[c] \cup {r}
      /\ \A d \in Client : d # c =>
           root'[d] = root[d] /\ next'[d] = next[d] /\ garbage'[d] = garbage[d]
  BY <1>1, <1>2 DEF ShareTypeOK
<1>5. \A o \in 1 .. made :
        /\ Share(c, o) = One(r = o) + One(n = o) + One(o \in garbage[c])
                           + One(client_at[c] = "confirm" /\ known[c] = o)
        /\ Share(c, o)' = One(n = o) + One(o \in garbage'[c])
                           + One(client_at[c] = "confirm" /\ known[c] = o)
        /\ One(o \in garbage'[c]) = One(r = o) + One(o \in garbage[c])
  BY <1>1, <1>2, <1>3, <1>4 DEF Share, One, r, n
<1>6. \A o \in 1 .. made : ref'[o] = ref[o] + Share(c, o)' - Share(c, o)
  <2> TAKE o \in 1 .. made
  <2>1. /\ One(r = o) \in Nat /\ One(n = o) \in Nat /\ One(o \in garbage[c]) \in Nat
        /\ One(client_at[c] = "confirm" /\ known[c] = o) \in Nat
    BY DEF One
  <2>2. Share(c, o)' = Share(c, o) /\ Share(c, o) \in Nat
    BY <1>5, <2>1
  <2>3. ref[o] \in Int
    BY <1>2 DEF ShareTypeOK
  <2> QED
    BY <1>1, <2>2, <2>3
<1>7. \A o \in deleted : ~Counts(c, o)'
  <2>1. \A o \in deleted : /\ o # 0 /\ o # r /\ o # n /\ o \notin garbage[c]
                           /\ ~(client_at[c] = "confirm" /\ known[c] = o)
    BY DEF DeletedIsLeft, Counts, ShareTypeOK, r, n
  <2> QED
    BY <1>1, <1>3, <1>4, <2>1 DEF Counts
<1>8. BoxesApart(c)' /\ WatcherListed(c)'
  <2>1. Latest(c)' = n
    BY <1>4 DEF Latest
  <2>2. root'[c] \notin garbage'[c] /\ next'[c] \notin garbage'[c] /\ next'[c] = 0 /\ root'[c] # 0
    BY <1>2, <1>3, <1>4
  <2>3. known[c] = n => r <= known[c]
    BY <1>2, <1>3
  <2>4. BoxesApart(c)'
    BY <1>1, <1>3, <1>4, <2>1, <2>2, <2>3 DEF BoxesApart
  <2> QED
    BY <1>1, <2>4 DEF WatcherListed
<1>9. ClientMoves(c)
  BY <1>1, <1>4, <1>6, <1>7, <1>8 DEF ClientMoves, ShareTypeOK
<1> QED
  BY <1>9, ClientMovesKeeps

\* The collector of a client frees a box.
LEMMA FreeKeeps ==
  ASSUME ShareInv, NEW c \in Client, Free(c)
  PROVE  ShareInv'
<1> USE DEF ShareInv
<1>1. PICK g \in garbage[c] : /\ ref' = [ref EXCEPT ![g] = @ - 1]
                              /\ garbage' = [garbage EXCEPT ![c] = @ \ {g}]
  BY DEF Free, Dec
<1>2. /\ UNCHANGED <<pool, objVars>> /\ watch' = watch /\ client_at' = client_at
      /\ pool' = pool /\ made' = made /\ deleted' = deleted /\ failed' = failed
      /\ known' = known /\ ptr' = ptr /\ undef' = undef /\ root' = root /\ next' = next
  BY DEF Free, hostVars, objVars
<1>3. /\ made \in Nat /\ g \in 1 .. made /\ g \in Obj
      /\ 1 .. made \subseteq Obj /\ Obj \subseteq Nat
  BY ShareTyped
<1>4. /\ garbage' \in [Client -> SUBSET (1 .. made)] /\ garbage'[c] = garbage[c] \ {g}
      /\ \A d \in Client : d # c => garbage'[d] = garbage[d]
  BY <1>1, <1>3 DEF ShareTypeOK
<1>5. /\ ref' \in [Obj -> Int]
      /\ \A o \in Obj : ref[o] \in Int /\ ref'[o] = IF o = g THEN ref[o] - 1 ELSE ref[o]
  BY <1>1, <1>3 DEF ShareTypeOK
<1>6. \A o \in 1 .. made : ref'[o] = ref[o] + Share(c, o)' - Share(c, o)
  <2> TAKE o \in 1 .. made
  <2> DEFINE a == One(root[c] = o)
             b == One(next[c] = o)
             e == One(client_at[c] = "found" /\ ptr[c] = o)
             f == One(client_at[c] = "confirm" /\ known[c] = o)
             x == One(o \in garbage[c])
             y == One(o \in garbage'[c])
  <2>1. a \in Nat /\ b \in Nat /\ e \in Nat /\ f \in Nat /\ x \in Nat /\ y \in Nat
    BY DEF One
  <2>2. y = IF o = g THEN x - 1 ELSE x
    BY <1>1, <1>4 DEF One
  <2>3. Share(c, o) = a + b + x + e + f /\ Share(c, o)' = a + b + y + e + f
    BY <1>2 DEF Share
  <2> HIDE DEF a, b, e, f, x, y
  <2>4. ref'[o] = (IF o = g THEN ref[o] - 1 ELSE ref[o]) /\ ref[o] \in Int
    BY <1>3, <1>5
  <2> QED
    BY <2>1, <2>2, <2>3, <2>4
<1>7. \A o \in deleted : ~Counts(c, o)'
  BY <1>2, <1>4 DEF DeletedIsLeft, Counts
<1>8. BoxesApart(c)' /\ WatcherListed(c)'
  BY <1>2, <1>4 DEF BoxesApart, WatcherListed, Latest
<1>9. \A o \in Obj : o > made => ref'[o] = ref[o]
  BY <1>3, <1>5
<1>10. ClientMoves(c)
  BY <1>2, <1>4, <1>5, <1>6, <1>7, <1>8, <1>9 DEF ClientMoves, ShareTypeOK
<1> QED
  BY <1>10, ClientMovesKeeps
-----------------------------------------------------------------------------
(* Steps of the service alone.                                             *)

\* An object is counted for by some client or none.
LEMMA NoneCounts ==
  ASSUME NEW o PROVE Total(o) = 0 <=> \A c \in Client : ~Counts(c, o)
<1>1. /\ IsFiniteSet(Rooted(o)) /\ IsFiniteSet(Told(o)) /\ IsFiniteSet(Boxed(o))
      /\ IsFiniteSet(Found(o)) /\ IsFiniteSet(Confirming(o))
  BY ShareAssumption, FS_Subset DEF Rooted, Told, Boxed, Found, Confirming
<1>2. /\ Cardinality(Rooted(o)) \in Nat /\ Cardinality(Told(o)) \in Nat
      /\ Cardinality(Boxed(o)) \in Nat
      /\ Cardinality(Found(o)) \in Nat /\ Cardinality(Confirming(o)) \in Nat
  BY <1>1, FS_CardinalityType
<1>3. /\ Cardinality(Rooted(o)) = 0 <=> Rooted(o) = {}
      /\ Cardinality(Told(o)) = 0 <=> Told(o) = {}
      /\ Cardinality(Boxed(o)) = 0 <=> Boxed(o) = {}
      /\ Cardinality(Found(o)) = 0 <=> Found(o) = {}
      /\ Cardinality(Confirming(o)) = 0 <=> Confirming(o) = {}
  BY <1>1, FS_EmptySet
<1>4. Total(o) = 0 <=> /\ Rooted(o) = {} /\ Told(o) = {} /\ Boxed(o) = {}
                       /\ Found(o) = {} /\ Confirming(o) = {}
  <2> DEFINE a == Cardinality(Rooted(o))
             b == Cardinality(Told(o))
             e == Cardinality(Boxed(o))
             f == Cardinality(Found(o))
             g == Cardinality(Confirming(o))
  <2>1. /\ a \in Nat /\ b \in Nat /\ e \in Nat /\ f \in Nat /\ g \in Nat
        /\ Total(o) = a + b + e + f + g
    BY <1>2 DEF Total
  <2>2. Total(o) = 0 <=> a = 0 /\ b = 0 /\ e = 0 /\ f = 0 /\ g = 0
    <3> HIDE DEF a, b, e, f, g
    <3> QED
      BY <2>1
  <2> QED
    BY <1>3, <2>2
<1> QED
  BY <1>4 DEF Rooted, Told, Boxed, Found, Confirming, Counts

\* No client counts for an object otherwise than before.
LEMMA TotalStays ==
  ASSUME root' = root, next' = next, garbage' = garbage, known' = known,
         \A c \in Client :
           \/ client_at'[c] = client_at[c] /\ ptr'[c] = ptr[c]
           \/ client_at[c] = "watched" /\ client_at'[c] = "told"
  PROVE  /\ \A o : Total(o)' = Total(o)
         /\ \A c \in Client : \A o : Counts(c, o)' <=> Counts(c, o)
<1>1. ASSUME NEW o
      PROVE  /\ Rooted(o)' = Rooted(o) /\ Told(o)' = Told(o) /\ Boxed(o)' = Boxed(o)
             /\ Found(o)' = Found(o) /\ Confirming(o)' = Confirming(o)
  BY DEF Rooted, Told, Boxed, Found, Confirming
<1>2. \A o : Total(o)' = Total(o)
  BY <1>1 DEF Total
<1>3. \A c \in Client : \A o : Counts(c, o)' <=> Counts(c, o)
  BY DEF Counts
<1> QED
  BY <1>2, <1>3

\* An object comes into the pool or leaves it, old ones are collected, and those who wait
\* may be told.
ServiceMoves ==
  /\ UNCHANGED <<known, root, next, garbage, undef>>
  /\ made' \in {made, made + 1} \cap 0 .. MaxObj /\ pool' \in {0, made'}
  /\ deletes' \in Nat /\ failed' \in BOOLEAN
  /\ ref' \in [Obj -> Int] /\ \A o \in Obj : ref'[o] = ref[o] + One(pool' = o) - One(pool = o)
  /\ dirty' \subseteq 1 .. made' /\ old' \subseteq 1 .. made' /\ deleted' \subseteq 1 .. made'
  /\ client_at' \in [Client -> At] /\ ptr' \in [Client -> 0 .. made']
  /\ watch' \subseteq Client
  /\ \A o \in old' \cup deleted' : o # pool'
  /\ old' \cap deleted' = {}
  /\ \A c \in Client, o \in deleted' : ~Counts(c, o)
  /\ \A c \in Client :
       \/ client_at'[c] = client_at[c] /\ ptr'[c] = ptr[c]
       \/ /\ client_at[c] = "watched" /\ client_at'[c] = "told"
          /\ ptr'[c] = 0 \/ ptr'[c] > known[c]
  /\ \A c \in Client : WatcherListed(c)'

LEMMA ServiceMovesKeeps ==
  ASSUME ShareInv, ServiceMoves
  PROVE  ShareInv'
<1> USE DEF ShareInv
<1>1. /\ made \in Nat /\ made' \in {made, made + 1} /\ made' <= MaxObj /\ MaxObj \in Nat
      /\ 1 .. made' \subseteq Obj /\ Obj = 1 .. MaxObj /\ pool \in 0 .. made
  BY ShareAssumption DEF ServiceMoves, ShareTypeOK, Obj
<1>2. /\ known' = known /\ root' = root /\ next' = next /\ garbage' = garbage /\ undef' = undef
      /\ \A c \in Client :
           \/ client_at'[c] = client_at[c] /\ ptr'[c] = ptr[c]
           \/ /\ client_at[c] = "watched" /\ client_at'[c] = "told"
              /\ ptr'[c] = 0 \/ ptr'[c] > known[c]
  BY DEF ServiceMoves
<1>3. /\ \A o : Total(o)' = Total(o)
      /\ \A c \in Client : \A o : Counts(c, o)' <=> Counts(c, o)
  BY <1>2, TotalStays
<1>4. ShareTypeOK'
  <2>1. 0 .. made \subseteq 0 .. made' /\ 1 .. made \subseteq 1 .. made'
    BY <1>1
  <2>2. /\ known' \in [Client -> 0 .. made'] /\ root' \in [Client -> 0 .. made']
        /\ next' \in [Client -> 0 .. made'] /\ garbage' \in [Client -> SUBSET (1 .. made')]
    BY <1>2, <2>1 DEF ShareTypeOK
  <2>3. made' \in 0 .. MaxObj
    BY DEF ServiceMoves
  <2> QED
    BY <2>2, <2>3 DEF ShareTypeOK, ServiceMoves, Obj
<1>5. ObjectsApart'
  <2>1. ASSUME NEW o \in Obj, o > made' PROVE ref'[o] = 0
    <3>1. o > made /\ o # pool /\ o # pool' /\ ref[o] = 0
      BY <1>1, <2>1 DEF ObjectsApart, ServiceMoves
    <3> QED
      BY <3>1 DEF One, ServiceMoves
  <2> QED
    BY <2>1 DEF ObjectsApart, ServiceMoves, Obj
<1>6. ObjectsCounted'
  <2> SUFFICES ASSUME NEW o \in 1 .. made'
               PROVE  ref'[o] = One(pool' = o) + Total(o)
    BY <1>3, CountedAsPrime
  <2>1. ref[o] = One(pool = o) + Total(o)
    <3>1. CASE o <= made
      BY <1>1, <3>1, CountedAs
    <3>2. CASE o > made
      <4>1. \A c \in Client : ~Counts(c, o)
        <5> TAKE c \in Client
        <5>1. /\ garbage[c] \subseteq 1 .. made /\ known[c] <= made
              /\ ptr[c] <= made /\ root[c] <= made /\ next[c] <= made
          BY <1>1, ShareTyped
        <5> QED
          BY <1>1, <3>2, <5>1 DEF Counts
      <4>2. Total(o) = 0
        BY <4>1, NoneCounts
      <4>3. ref[o] = 0 /\ pool # o
        BY <1>1, <3>2 DEF ObjectsApart
      <4> QED
        BY <4>2, <4>3 DEF One
    <3> QED
      BY <1>1, <3>1, <3>2
  <2>2. ref'[o] = ref[o] + One(pool' = o) - One(pool = o)
    BY <1>1 DEF ServiceMoves
  <2>3. Total(o) \in Nat
    BY TotalType
  <2> QED
    BY <2>1, <2>2, <2>3 DEF One
<1>7. DeletedIsLeft'
  BY <1>3 DEF DeletedIsLeft, ServiceMoves
<1>8. ASSUME NEW c \in Client PROVE BoxesApart(c)' /\ WatcherListed(c)'
  <2>1. BoxesApart(c)'
    BY <1>2 DEF BoxesApart, Latest
  <2> QED
    BY <2>1 DEF ServiceMoves
<1> QED
  BY <1>4, <1>5, <1>6, <1>7, <1>8

\* The counts of the objects when one comes into the pool or leaves it.
LEMMA PoolCounts ==
  ASSUME ShareTypeOK, NEW p \in {0} \cup Obj, NEW q \in {0} \cup Obj, p = 0 \/ p # q
  PROVE  LET c == IF p = 0 THEN ref ELSE Dec(ref, p)
             d == IF q = 0 THEN c ELSE Inc(c, q)
         IN  d \in [Obj -> Int] /\ \A o \in Obj : d[o] = ref[o] + One(q = o) - One(p = o)
<1> DEFINE c == IF p = 0 THEN ref ELSE Dec(ref, p)
           d == IF q = 0 THEN c ELSE Inc(c, q)
<1>1. ref \in [Obj -> Int] /\ 0 \notin Obj
  BY DEF ShareTypeOK, Obj
<1>2. c \in [Obj -> Int] /\ \A o \in Obj : c[o] = ref[o] - One(p = o)
  BY <1>1 DEF Dec, One
<1> HIDE DEF c
<1>3. d \in [Obj -> Int] /\ \A o \in Obj : d[o] = c[o] + One(q = o)
  BY <1>1, <1>2 DEF Inc, One
<1>4. \A o \in Obj : ref[o] \in Int /\ One(p = o) \in Nat /\ One(q = o) \in Nat
  BY <1>1 DEF One
<1>5. \A o \in Obj : d[o] = ref[o] + One(q = o) - One(p = o)
  <2> HIDE DEF d
  <2> QED
    BY <1>2, <1>3, <1>4
<1> QED
  BY <1>3, <1>5 DEF c

\* CMD.new.
LEMMA NewKeeps ==
  ASSUME ShareInv, NewObject
  PROVE  ShareInv'
<1> USE DEF ShareInv
<1>1. /\ pool = 0 /\ made < MaxObj /\ made' = made + 1 /\ pool' = made' /\ ref' = Inc(ref, made')
      /\ deletes' = deletes /\ dirty' = dirty /\ old' = old /\ deleted' = deleted
      /\ failed' = failed /\ watch' = watch /\ client_at' = client_at /\ known' = known
      /\ ptr' = ptr /\ root' = root /\ next' = next /\ garbage' = garbage /\ undef' = undef
  BY DEF NewObject, boxVars
<1>2. made \in Nat /\ MaxObj \in Nat /\ made' \in Obj /\ made' # 0
  BY <1>1, ShareAssumption DEF ShareTypeOK, Obj
<1>3. /\ ref' \in [Obj -> Int] /\ \A o \in Obj : ref'[o] = ref[o] + One(pool' = o) - One(pool = o)
  <2>1. \A p \in {0} \cup Obj, q \in {0} \cup Obj : p = 0 /\ q # 0 =>
           Inc(ref, q) \in [Obj -> Int]
           /\ \A o \in Obj : Inc(ref, q)[o] = ref[o] + One(q = o) - One(p = o)
    BY PoolCounts
  <2> QED
    BY <1>1, <1>2, <2>1
<1>4. 0 .. made \subseteq 0 .. made' /\ 1 .. made \subseteq 1 .. made' /\ made' \notin 1 .. made
  BY <1>1, <1>2
<1>5. \A c \in Client : WatcherListed(c)'
  <2> TAKE c \in Client
  <2>1. ~failed => client_at[c] # "watched"
    BY <1>1, ShareTyped DEF WatcherListed, BoxesApart, Latest
  <2> QED
    BY <1>1, <2>1 DEF WatcherListed
<1>6. /\ dirty' \subseteq 1 .. made' /\ old' \subseteq 1 .. made' /\ deleted' \subseteq 1 .. made'
      /\ ptr' \in [Client -> 0 .. made']
      /\ \A o \in old' \cup deleted' : o # pool'
  BY <1>1, <1>4 DEF ShareTypeOK
<1>7. ServiceMoves
  BY <1>1, <1>2, <1>3, <1>5, <1>6
     DEF ServiceMoves, ShareTypeOK, ObjectsApart, DeletedIsLeft, Obj
<1> QED
  BY <1>7, ServiceMovesKeeps

\* What is told to those who wait, after which none does.
LEMMA AllAreTold ==
  ASSUME ShareInv, NEW n \in Nat, made <= n, NEW q \in 0 .. n, TellAll(q),
         q = 0 \/ q > made, failed' = failed, known' = known
  PROVE  /\ client_at' \in [Client -> At] /\ ptr' \in [Client -> 0 .. n] /\ watch' = {}
         /\ \A c \in Client :
              \/ client_at'[c] = client_at[c] /\ ptr'[c] = ptr[c]
              \/ /\ client_at[c] = "watched" /\ client_at'[c] = "told"
                 /\ ptr'[c] = 0 \/ ptr'[c] > known[c]
         /\ \A c \in Client : WatcherListed(c)'
<1> USE DEF ShareInv
<1>1. /\ client_at' = [c \in Client |-> IF c \in watch THEN "told" ELSE client_at[c]]
      /\ ptr' = [c \in Client |-> IF c \in watch THEN q ELSE ptr[c]] /\ watch' = {}
  BY DEF TellAll
<1>2. client_at' \in [Client -> At]
  BY <1>1 DEF ShareTypeOK, At
<1>3. \A c \in Client : ptr[c] \in 0 .. n /\ known[c] \in 0 .. made
  BY ShareTyped
<1>4. ptr' \in [Client -> 0 .. n]
  BY <1>1, <1>3
<1>5. \A c \in Client : c \in watch => client_at[c] = "watched"
  BY DEF WatcherListed
<1>6. ASSUME NEW c \in Client
      PROVE  \/ client_at'[c] = client_at[c] /\ ptr'[c] = ptr[c]
             \/ /\ client_at[c] = "watched" /\ client_at'[c] = "told"
                /\ ptr'[c] = 0 \/ ptr'[c] > known[c]
  <2>1. made \in Nat
    BY DEF ShareTypeOK
  <2> QED
    BY <1>1, <1>3, <1>5, <2>1
<1>7. ASSUME NEW c \in Client PROVE WatcherListed(c)'
  <2>1. ~failed /\ client_at'[c] = "watched" => FALSE
    BY <1>1 DEF WatcherListed
  <2> QED
    BY <1>1, <2>1 DEF WatcherListed
<1> QED
  BY <1>1, <1>2, <1>4, <1>6, <1>7

\* CMD.delete.
LEMMA DeleteKeeps ==
  ASSUME ShareInv, Delete
  PROVE  ShareInv'
<1> USE DEF ShareInv
<1>1. /\ pool # 0 /\ deletes' = deletes + 1 /\ pool' = 0 /\ old' = old \cup {pool}
      /\ ref' = Dec(ref, pool) /\ TellAll(0) /\ made' = made /\ dirty' = dirty
      /\ deleted' = deleted /\ failed' = failed /\ known' = known
      /\ root' = root /\ next' = next /\ garbage' = garbage /\ undef' = undef
  BY DEF Delete, boxVars
<1>2. /\ pool \in 1 .. made /\ made \in Nat /\ deletes \in Nat /\ 1 .. made \subseteq Obj
      /\ Obj = 1 .. MaxObj /\ MaxObj \in Nat
  BY <1>1, ShareAssumption DEF ShareTypeOK, Obj
<1>3. /\ ref' \in [Obj -> Int] /\ \A o \in Obj : ref'[o] = ref[o] + One(pool' = o) - One(pool = o)
  <2>1. \A p \in {0} \cup Obj, q \in {0} \cup Obj : p # 0 /\ q = 0 =>
           Dec(ref, p) \in [Obj -> Int]
           /\ \A o \in Obj : Dec(ref, p)[o] = ref[o] + One(q = o) - One(p = o)
    BY PoolCounts
  <2>2. pool \in {0} \cup Obj /\ pool' \in {0} \cup Obj
    BY <1>1, <1>2
  <2> QED
    BY <1>1, <2>1, <2>2
<1>4. /\ client_at' \in [Client -> At] /\ ptr' \in [Client -> 0 .. made] /\ watch' = {}
      /\ \A c \in Client :
           \/ client_at'[c] = client_at[c] /\ ptr'[c] = ptr[c]
           \/ /\ client_at[c] = "watched" /\ client_at'[c] = "told"
              /\ ptr'[c] = 0 \/ ptr'[c] > known[c]
      /\ \A c \in Client : WatcherListed(c)'
  <2>1. 0 \in 0 .. made /\ made <= made
    BY <1>2
  <2> QED
    BY <1>1, <1>2, <2>1, AllAreTold
<1>5. /\ dirty \subseteq 1 .. made /\ old' \subseteq 1 .. made /\ deleted \subseteq 1 .. made
      /\ \A o \in old' \cup deleted : o # 0
      /\ old' \cap deleted = {}
  BY <1>1, <1>2 DEF ShareTypeOK, ObjectsApart
<1>6. ServiceMoves
  BY <1>1, <1>2, <1>3, <1>4, <1>5 DEF ServiceMoves, ShareTypeOK, DeletedIsLeft
<1> QED
  BY <1>6, ServiceMovesKeeps

\* CMD.update.
LEMMA UpdateKeeps ==
  ASSUME ShareInv, Update
  PROVE  ShareInv'
<1> USE DEF ShareInv
<1>1. /\ pool # 0 /\ made < MaxObj /\ made' = made + 1 /\ pool' = made'
      /\ deletes' = deletes /\ old' = old \cup {pool} /\ ref' = Inc(Dec(ref, pool), made')
      /\ dirty' = dirty \cup {pool} /\ TellAll(made')
      /\ deleted' = deleted /\ failed' = failed /\ known' = known
      /\ root' = root /\ next' = next /\ garbage' = garbage /\ undef' = undef
  BY DEF Update, boxVars
<1>2. /\ pool \in 1 .. made /\ made \in Nat /\ 1 .. made \subseteq Obj /\ made' \in Nat
      /\ made' > made /\ made' # 0 /\ pool # made' /\ pool \in Obj /\ made' \in Obj
      /\ made' \in 0 .. MaxObj
  BY <1>1, ShareAssumption DEF ShareTypeOK, Obj
<1>3. /\ ref' \in [Obj -> Int] /\ \A o \in Obj : ref'[o] = ref[o] + One(pool' = o) - One(pool = o)
  <2>1. \A p \in {0} \cup Obj, q \in {0} \cup Obj : p # 0 /\ q # 0 /\ p # q =>
           Inc(Dec(ref, p), q) \in [Obj -> Int]
           /\ \A o \in Obj : Inc(Dec(ref, p), q)[o] = ref[o] + One(q = o) - One(p = o)
    BY PoolCounts
  <2> QED
    BY <1>1, <1>2, <2>1
<1>4. /\ client_at' \in [Client -> At] /\ ptr' \in [Client -> 0 .. made'] /\ watch' = {}
      /\ \A c \in Client :
           \/ client_at'[c] = client_at[c] /\ ptr'[c] = ptr[c]
           \/ /\ client_at[c] = "watched" /\ client_at'[c] = "told"
              /\ ptr'[c] = 0 \/ ptr'[c] > known[c]
      /\ \A c \in Client : WatcherListed(c)'
  <2>1. made' \in 0 .. made' /\ made <= made'
    BY <1>2
  <2> QED
    BY <1>1, <1>2, <2>1, AllAreTold
<1>5. /\ dirty' \subseteq 1 .. made' /\ old' \subseteq 1 .. made' /\ deleted \subseteq 1 .. made'
      /\ \A o \in old' \cup deleted : o # pool'
      /\ old' \cap deleted = {}
  <2>1. 1 .. made \subseteq 1 .. made' /\ made' \notin 1 .. made
    BY <1>2
  <2> QED
    BY <1>1, <1>2, <2>1 DEF ShareTypeOK, ObjectsApart
<1>6. ServiceMoves
  BY <1>1, <1>2, <1>3, <1>4, <1>5 DEF ServiceMoves, ShareTypeOK, DeletedIsLeft
<1> QED
  BY <1>6, ServiceMovesKeeps

\* CMD.update when the new value cannot be loaded.
LEMMA UpdateFailsKeeps ==
  ASSUME ShareInv, UpdateFails
  PROVE  ShareInv'
<1> USE DEF ShareInv
<1>1. /\ pool # 0 /\ deletes' = deletes + 1 /\ pool' = 0 /\ old' = old \cup {pool}
      /\ ref' = Dec(ref, pool) /\ watch' = {} /\ made' = made /\ dirty' = dirty
      /\ deleted' = deleted /\ failed' = TRUE /\ known' = known
      /\ client_at' = client_at /\ ptr' = ptr
      /\ root' = root /\ next' = next /\ garbage' = garbage /\ undef' = undef
  BY DEF UpdateFails, boxVars
<1>2. /\ pool \in 1 .. made /\ made \in Nat /\ deletes \in Nat /\ 1 .. made \subseteq Obj
      /\ Obj = 1 .. MaxObj /\ MaxObj \in Nat
  BY <1>1, ShareAssumption DEF ShareTypeOK, Obj
<1>3. /\ ref' \in [Obj -> Int] /\ \A o \in Obj : ref'[o] = ref[o] + One(pool' = o) - One(pool = o)
  <2>1. \A p \in {0} \cup Obj, q \in {0} \cup Obj : p # 0 /\ q = 0 =>
           Dec(ref, p) \in [Obj -> Int]
           /\ \A o \in Obj : Dec(ref, p)[o] = ref[o] + One(q = o) - One(p = o)
    BY PoolCounts
  <2>2. pool \in {0} \cup Obj /\ pool' \in {0} \cup Obj
    BY <1>1, <1>2
  <2> QED
    BY <1>1, <2>1, <2>2
<1>4. \A c \in Client : WatcherListed(c)'
  BY <1>1 DEF WatcherListed
<1>5. /\ dirty \subseteq 1 .. made /\ old' \subseteq 1 .. made /\ deleted \subseteq 1 .. made
      /\ \A o \in old' \cup deleted : o # 0
      /\ old' \cap deleted = {}
  BY <1>1, <1>2 DEF ShareTypeOK, ObjectsApart
<1>6. ServiceMoves
  BY <1>1, <1>2, <1>3, <1>4, <1>5 DEF ServiceMoves, ShareTypeOK, DeletedIsLeft
<1> QED
  BY <1>6, ServiceMovesKeeps

\* collectobj.
LEMMA CollectKeeps ==
  ASSUME ShareInv, Collect
  PROVE  ShareInv'
<1> USE DEF ShareInv
<1> DEFINE gone == {o \in old : ref[o] <= 0}
<1>1. /\ old' = old \ gone /\ deleted' = deleted \cup gone
      /\ pool' = pool /\ made' = made /\ deletes' = deletes /\ ref' = ref /\ dirty' = dirty
      /\ failed' = failed /\ watch' = watch /\ client_at' = client_at /\ known' = known
      /\ ptr' = ptr /\ root' = root /\ next' = next /\ garbage' = garbage /\ undef' = undef
  BY DEF Collect, boxVars
<1>2. \A c \in Client, o \in gone : ~Counts(c, o)
  <2> TAKE c \in Client, o \in gone
  <2>1. o \in 1 .. made /\ ref[o] <= 0
    BY DEF ShareTypeOK
  <2>2. ref[o] = One(pool = o) + Total(o) /\ Total(o) \in Nat
    BY <2>1, CountedAs, TotalType
  <2>3. Total(o) = 0
    BY <2>1, <2>2 DEF One
  <2> QED
    BY <2>3, NoneCounts
<1>3. gone \subseteq old
  OBVIOUS
<1> HIDE DEF gone
<1>4. \A c \in Client, o \in deleted' : ~Counts(c, o)
  BY <1>1, <1>2 DEF DeletedIsLeft
<1>5. \A o \in Obj : ref'[o] = ref[o] + One(pool' = o) - One(pool = o)
  BY <1>1 DEF ShareTypeOK, One
<1>6. \A c \in Client : WatcherListed(c)'
  BY <1>1 DEF WatcherListed
<1>7. ServiceMoves
  BY <1>1, <1>3, <1>4, <1>5, <1>6 DEF ServiceMoves, ShareTypeOK, ObjectsApart
<1> QED
  BY <1>7, ServiceMovesKeeps
-----------------------------------------------------------------------------
(* Shared data.                                                            *)

LEMMA ShareInitially == ShareInit => ShareInv
<1> SUFFICES ASSUME ShareInit PROVE ShareInv
  OBVIOUS
<1> USE DEF ShareInit
<1>1. ShareTypeOK
  <2>1. 0 \in 0 .. MaxObj /\ 0 .. 0 = {0} /\ 0 \in Int
    BY ShareAssumption
  <2>2. /\ Zero \in [Client -> 0 .. 0] /\ client_at \in [Client -> At]
        /\ garbage \in [Client -> SUBSET (1 .. 0)]
    BY <2>1 DEF Zero, At
  <2>3. ref \in [Obj -> Int]
    BY <2>1
  <2> QED
    BY <2>1, <2>2, <2>3 DEF ShareTypeOK
<1>2. ObjectsApart
  BY DEF ObjectsApart
<1>3. ObjectsCounted
  BY DEF ObjectsCounted
<1>4. DeletedIsLeft
  BY DEF DeletedIsLeft
<1>5. \A c \in Client : BoxesApart(c) /\ WatcherListed(c)
  BY DEF BoxesApart, WatcherListed, Zero
<1> QED
  BY <1>1, <1>2, <1>3, <1>4, <1>5 DEF ShareInv

LEMMA ShareStep == ShareInv /\ [ShareNext]_shareVars => ShareInv'
<1> SUFFICES ASSUME ShareInv, [ShareNext]_shareVars PROVE ShareInv'
  OBVIOUS
<1>1. ASSUME NEW c \in Client,
             \/ QueryRead(c) \/ Confirm(c) \/ MonitorRead(c)
             \/ Query(c) \/ Box(c) \/ MonitorTold(c) \/ Use(c) \/ Free(c)
      PROVE  ShareInv'
  BY <1>1, QueryKeeps, ConfirmKeeps, MonitorKeeps, BoxKeeps, ToldKeeps, UseKeeps, FreeKeeps
<1>2. CASE UNCHANGED shareVars
  <2> USE <1>2 DEF shareVars, ShareInv
  <2>1. ShareTypeOK'
    BY DEF ShareTypeOK
  <2>2. ObjectsApart'
    BY DEF ObjectsApart
  <2>3. ObjectsCounted'
    BY DEF ObjectsCounted
  <2>4. DeletedIsLeft'
    BY DEF DeletedIsLeft, Counts
  <2>5. \A c \in Client : BoxesApart(c)' /\ WatcherListed(c)'
    BY DEF BoxesApart, WatcherListed, Latest
  <2> QED
    BY <2>1, <2>2, <2>3, <2>4, <2>5
<1> QED
  BY <1>1, <1>2, NewKeeps, DeleteKeeps, UpdateKeeps, UpdateFailsKeeps, CollectKeeps DEF ShareNext

\* Of any number of clients that query, watch, use and let go of shared objects while the
\* service updates, deletes and collects them, none reaches an object that was deleted; the
\* count of an object is always what is left of those who have it; and a client that waits
\* has the last object, unless an update failed.
THEOREM SharedObjectsKept == ShareSpec => []ObjectsShared
<1>1. ShareInv => ObjectsShared
  <2> SUFFICES ASSUME ShareInv PROVE ObjectsShared
    OBVIOUS
  <2> USE DEF ShareInv
  <2>1. ObjectsKept
    BY DEF ObjectsKept, Has, DeletedIsLeft, Counts
  <2>2. UpToDate
    <3> SUFFICES ASSUME ~failed, NEW c \in Client, client_at[c] = "watched"
                 PROVE  known[c] = pool /\ pool = (IF next[c] # 0 THEN next[c] ELSE root[c])
      BY DEF UpToDate
    <3> QED
      BY DEF WatcherListed, BoxesApart, Latest
  <2> QED
    BY <2>1, <2>2 DEF ObjectsShared
<1>2. ShareSpec => []ShareInv
  BY ShareInitially, ShareStep, PTL DEF ShareSpec
<1> QED
  BY <1>1, <1>2, PTL

-----------------------------------------------------------------------------
(* Multicast.                                                              *)

-----------------------------------------------------------------------------
(* Multicast: the invariant.                                               *)

NearMsgs ==
  {M("SUBR", s) : s \in Far} \cup {M("USUBR", NULL)} \cup {M("PUB", p) : p \in 1 .. MaxPub}
FarMsgs ==
  {M("nil", s) : s \in Far} \cup {M("none", s) : s \in Far} \cup {M("DELR", NULL)}
    \cup {M("PUB", p) : p \in 1 .. MaxPub}
Packs == [state : {"none", "live", "freed"}, reference : Int, out : SUBSET (Near \cup Far)]
Answer == {"nil", "none"}

MembersTyped ==
  /\ group \in [Node -> {NULL} \cup SUBSET (Near \cup Far)]
  /\ group["near"] # NULL => group["near"] \subseteq Near
  /\ group["far"] # NULL => group["far"] \subseteq Far /\ group["far"] # {}
  /\ channel_n \in [Node -> Int] /\ channel_remote \in {"nil", "in", "out"}
  /\ sub \in [Near \cup Far -> {"no", "calls", "yes"}]
  /\ ops \in Nat /\ overtaken \in BOOLEAN

LinksTyped == toNear \in Seq(NearMsgs) /\ toFar \in Seq(FarMsgs)

PacksTyped ==
  /\ pack \in [Node -> [1 .. MaxPub -> Packs]]
  /\ loop \in [Node -> [p : 0 .. MaxPub, rest : SUBSET (Near \cup Far)]]
  /\ pubs \in 0 .. MaxPub

GroupTypeOK == MembersTyped /\ LinksTyped /\ PacksTyped

MembersCounted == \A d \in Node : group[d] # NULL => channel_n[d] = Cardinality(group[d])

\* The messages of a package q that were or will be sent and were not handled, when l is
\* what publish is at.
Unhandled(q, l, p) == q.out \cup (IF l.p = p THEN l.rest ELSE {})

PackCounted(q, l, p) ==
  /\ l.p = p => q.out \cap l.rest = {}
  /\ q.state = "live" => q.reference = Cardinality(Unhandled(q, l, p))
  /\ q.state # "live" => Unhandled(q, l, p) = {}

PacksCounted ==
  \A d \in Node : /\ loop[d].p = 0 => loop[d].rest = {}
                  /\ \A p \in 1 .. MaxPub : PackCounted(pack[d][p], loop[d], p)

\* A subscriber that asks is in one message, of the question or of its answer.
OneQuestion(qn, qf, sb) ==
  /\ \A i \in DOMAIN qn : qn[i].type = "SUBR" => sb[qn[i].of] = "calls"
  /\ \A i \in DOMAIN qf : qf[i].type \in Answer => sb[qf[i].of] = "calls"
  /\ \A i, j \in DOMAIN qn :
       qn[i].type = "SUBR" /\ qn[j].type = "SUBR" /\ qn[i].of = qn[j].of => i = j
  /\ \A i, j \in DOMAIN qf :
       qf[i].type \in Answer /\ qf[j].type \in Answer /\ qf[i].of = qf[j].of => i = j
  /\ \A i \in DOMAIN qn, j \in DOMAIN qf :
       qn[i].type = "SUBR" /\ qf[j].type \in Answer => qn[i].of # qf[j].of

Carries(q, t) == \E i \in DOMAIN q : q[i].type = t

\* The end of the other node's subscription is sent once all it asked was answered, is
\* one, and comes before what it asks next.
EndsFirst(gf, qn, qf) ==
  /\ Carries(qn, "USUBR") => gf = NULL /\ ~Carries(qf, "nil")
  /\ \A i, j \in DOMAIN qn : qn[i].type = "USUBR" /\ qn[j].type = "USUBR" => i = j
  /\ \A i, j \in DOMAIN qn : i < j => ~(qn[i].type = "SUBR" /\ qn[j].type = "USUBR")

\* The owner has the other node in its table as long as that one has subscribers, is sent
\* what makes it have some, or sends that it has none; and once the channel is deleted,
\* what says so is behind all that could make it have some.
RemoteKnown(gf, cr, qn, qf) ==
  /\ cr = "in" <=> gf # NULL \/ Carries(qf, "nil") \/ Carries(qn, "USUBR")
  /\ ~Carries(qf, "DELR")
DeleteBehind(q) ==
  \A i \in DOMAIN q : q[i].type = "nil" => \E j \in DOMAIN q : i < j /\ q[j].type = "DELR"
DeleteIsLast(gf, cr, qf) ==
  /\ cr = "nil"
  /\ gf # NULL => Carries(qf, "DELR")
  /\ DeleteBehind(qf)

NodesAgree(gn, gf, cr, qn, qf) ==
  /\ EndsFirst(gf, qn, qf)
  /\ gn # NULL => RemoteKnown(gf, cr, qn, qf)
  /\ gn = NULL => DeleteIsLast(gf, cr, qf)

GroupInv ==
  /\ GroupTypeOK /\ MembersCounted /\ PacksCounted
  /\ OneQuestion(toNear, toFar, sub)
  /\ ~overtaken => NodesAgree(group["near"], group["far"], channel_remote, toNear, toFar)
-----------------------------------------------------------------------------
(* Links between the nodes.                                                *)

LEMMA NearTyped ==
  ASSUME NEW m \in NearMsgs
  PROVE  /\ m.type \in {"SUBR", "USUBR", "PUB"}
         /\ m.type = "SUBR" => m.of \in Far /\ m = M("SUBR", m.of)
         /\ m.type = "PUB" => m.of \in 1 .. MaxPub
BY DEF NearMsgs, M

LEMMA FarTyped ==
  ASSUME NEW m \in FarMsgs
  PROVE  /\ m.type \in {"nil", "none", "DELR", "PUB"}
         /\ m.type \in Answer => m.of \in Far
         /\ m.type = "PUB" => m.of \in 1 .. MaxPub
BY DEF FarMsgs, M, Answer

LEMMA Appended ==
  ASSUME NEW S, NEW q \in Seq(S), NEW m \in S
  PROVE  /\ Append(q, m) \in Seq(S) /\ Len(q) \in Nat
         /\ DOMAIN q = 1 .. Len(q) /\ DOMAIN Append(q, m) = 1 .. Len(q) + 1
         /\ \A i \in DOMAIN q : Append(q, m)[i] = q[i]
         /\ Append(q, m)[Len(q) + 1] = m
OBVIOUS

LEMMA Shortened ==
  ASSUME NEW S, NEW q \in Seq(S), q # <<>>
  PROVE  /\ Tail(q) \in Seq(S) /\ Len(q) \in Nat
         /\ DOMAIN q = 1 .. Len(q) /\ DOMAIN Tail(q) = 1 .. Len(q) - 1
         /\ \A i \in DOMAIN Tail(q) : i + 1 \in DOMAIN q /\ Tail(q)[i] = q[i + 1]
         /\ \A j \in DOMAIN q : j # 1 => j - 1 \in DOMAIN Tail(q) /\ Tail(q)[j - 1] = q[j]
         /\ 1 \in DOMAIN q /\ Head(q) = q[1] /\ Head(q) \in S
OBVIOUS

LEMMA CarriesAppended ==
  ASSUME NEW S, NEW q \in Seq(S), NEW m \in S, NEW t
  PROVE  Carries(Append(q, m), t) <=> Carries(q, t) \/ m.type = t
<1> DEFINE r == Append(q, m)
<1>1. /\ Len(q) \in Nat /\ DOMAIN q = 1 .. Len(q) /\ DOMAIN r = 1 .. Len(q) + 1
      /\ \A i \in DOMAIN q : r[i] = q[i]
      /\ r[Len(q) + 1] = m
  BY Appended
<1> HIDE DEF r
<1>2. \A i \in DOMAIN r : i \in DOMAIN q \/ i = Len(q) + 1
  BY <1>1
<1>3. (\E i \in DOMAIN r : r[i].type = t) <=> (\E i \in DOMAIN q : q[i].type = t) \/ m.type = t
  BY <1>1, <1>2
<1> QED
  BY <1>3 DEF Carries, r

LEMMA CarriesShortened ==
  ASSUME NEW S, NEW q \in Seq(S), q # <<>>, NEW t
  PROVE  /\ Carries(Tail(q), t) => Carries(q, t)
         /\ Carries(q, t) => Carries(Tail(q), t) \/ Head(q).type = t
<1> DEFINE r == Tail(q)
           h == Head(q)
<1>1. /\ \A i \in DOMAIN r : i + 1 \in DOMAIN q /\ r[i] = q[i + 1]
      /\ \A j \in DOMAIN q : j # 1 => j - 1 \in DOMAIN r /\ r[j - 1] = q[j]
      /\ h = q[1]
  BY Shortened
<1> HIDE DEF r, h
<1>2. Carries(r, t) => Carries(q, t)
  BY <1>1 DEF Carries
<1>3. ASSUME NEW j \in DOMAIN q, q[j].type = t PROVE Carries(r, t) \/ h.type = t
  BY <1>1, <1>3 DEF Carries
<1> QED
  BY <1>2, <1>3 DEF r, h, Carries
-----------------------------------------------------------------------------
(* Questions and answers.                                                  *)

\* A message that is neither question nor answer is sent.
LEMMA QuestionNearSent ==
  ASSUME NEW qn \in Seq(NearMsgs), NEW qf \in Seq(FarMsgs), NEW sb, OneQuestion(qn, qf, sb),
         NEW m \in NearMsgs, m.type # "SUBR"
  PROVE  OneQuestion(Append(qn, m), qf, sb)
<1> DEFINE r == Append(qn, m)
<1>1. /\ Len(qn) \in Nat /\ DOMAIN qn = 1 .. Len(qn) /\ DOMAIN r = 1 .. Len(qn) + 1
      /\ \A i \in DOMAIN qn : r[i] = qn[i]
      /\ r[Len(qn) + 1] = m
  BY Appended
<1> HIDE DEF r
<1>2. \A i \in DOMAIN r : r[i].type = "SUBR" => i \in DOMAIN qn /\ r[i] = qn[i]
  BY <1>1
<1>3. OneQuestion(r, qf, sb)
  BY <1>2 DEF OneQuestion
<1> QED
  BY <1>3 DEF r

LEMMA QuestionFarSent ==
  ASSUME NEW qn \in Seq(NearMsgs), NEW qf \in Seq(FarMsgs), NEW sb, OneQuestion(qn, qf, sb),
         NEW m \in FarMsgs, m.type \notin Answer
  PROVE  OneQuestion(qn, Append(qf, m), sb)
<1> DEFINE r == Append(qf, m)
<1>1. /\ Len(qf) \in Nat /\ DOMAIN qf = 1 .. Len(qf) /\ DOMAIN r = 1 .. Len(qf) + 1
      /\ \A i \in DOMAIN qf : r[i] = qf[i]
      /\ r[Len(qf) + 1] = m
  BY Appended
<1> HIDE DEF r
<1>2. \A i \in DOMAIN r : r[i].type \in Answer => i \in DOMAIN qf /\ r[i] = qf[i]
  BY <1>1
<1>3. OneQuestion(qn, r, sb)
  BY <1>2 DEF OneQuestion
<1> QED
  BY <1>3 DEF r

\* A message is taken.
LEMMA QuestionNearTaken ==
  ASSUME NEW qn \in Seq(NearMsgs), NEW qf \in Seq(FarMsgs), NEW sb, OneQuestion(qn, qf, sb),
         qn # <<>>
  PROVE  OneQuestion(Tail(qn), qf, sb)
<1> DEFINE r == Tail(qn)
<1>1. /\ Len(qn) \in Nat /\ DOMAIN qn = 1 .. Len(qn) /\ DOMAIN r = 1 .. Len(qn) - 1
      /\ \A i \in DOMAIN r : i + 1 \in DOMAIN qn /\ r[i] = qn[i + 1]
  BY Shortened
<1> HIDE DEF r
<1>2. \A i, j \in DOMAIN r : i + 1 = j + 1 => i = j
  BY <1>1
<1>3. OneQuestion(r, qf, sb)
  BY <1>1, <1>2 DEF OneQuestion
<1> QED
  BY <1>3 DEF r

LEMMA QuestionFarTaken ==
  ASSUME NEW qn \in Seq(NearMsgs), NEW qf \in Seq(FarMsgs), NEW sb, OneQuestion(qn, qf, sb),
         qf # <<>>
  PROVE  OneQuestion(qn, Tail(qf), sb)
<1> DEFINE r == Tail(qf)
<1>1. /\ Len(qf) \in Nat /\ DOMAIN qf = 1 .. Len(qf) /\ DOMAIN r = 1 .. Len(qf) - 1
      /\ \A i \in DOMAIN r : i + 1 \in DOMAIN qf /\ r[i] = qf[i + 1]
  BY Shortened
<1> HIDE DEF r
<1>2. \A i, j \in DOMAIN r : i + 1 = j + 1 => i = j
  BY <1>1
<1>3. OneQuestion(qn, r, sb)
  BY <1>1, <1>2 DEF OneQuestion
<1> QED
  BY <1>3 DEF r

\* A service that does not ask does what it does.
LEMMA QuestionElsewhere ==
  ASSUME NEW qn \in Seq(NearMsgs), NEW qf \in Seq(FarMsgs), NEW sb, OneQuestion(qn, qf, sb),
         NEW sc, NEW s, sb[s] # "calls",
         \A t \in Far : t # s => sc[t] = sb[t]
  PROVE  OneQuestion(qn, qf, sc)
<1>1. \A i \in DOMAIN qn : qn[i].type = "SUBR" => qn[i].of \in Far
  BY NearTyped
<1>2. \A i \in DOMAIN qf : qf[i].type \in Answer => qf[i].of \in Far
  BY FarTyped
<1> QED
  BY <1>1, <1>2 DEF OneQuestion

\* A service asks.
LEMMA QuestionAsked ==
  ASSUME NEW qn \in Seq(NearMsgs), NEW qf \in Seq(FarMsgs), NEW sb, OneQuestion(qn, qf, sb),
         NEW s \in Far, sb[s] # "calls", NEW sc, sc[s] = "calls",
         \A t \in Far : t # s => sc[t] = sb[t]
  PROVE  OneQuestion(Append(qn, M("SUBR", s)), qf, sc)
<1> DEFINE m == M("SUBR", s)
           r == Append(qn, m)
<1>0. m \in NearMsgs /\ m.type = "SUBR" /\ m.of = s
  BY DEF NearMsgs, M
<1>1. /\ Len(qn) \in Nat /\ DOMAIN qn = 1 .. Len(qn) /\ DOMAIN r = 1 .. Len(qn) + 1
      /\ \A i \in DOMAIN qn : r[i] = qn[i]
      /\ r[Len(qn) + 1] = m
  BY <1>0, Appended
<1> HIDE DEF r, m
<1>2. \A i \in DOMAIN r : i \in DOMAIN qn \/ i = Len(qn) + 1
  BY <1>1
<1>3. \A i \in DOMAIN qn : qn[i].type = "SUBR" => qn[i].of \in Far /\ qn[i].of # s
  BY NearTyped DEF OneQuestion
<1>4. \A i \in DOMAIN qf : qf[i].type \in Answer => qf[i].of \in Far /\ qf[i].of # s
  BY FarTyped DEF OneQuestion
<1>5. OneQuestion(r, qf, sc)
  BY <1>0, <1>1, <1>2, <1>3, <1>4 DEF OneQuestion
<1> QED
  BY <1>5 DEF r, m

\* The owner answers.
LEMMA QuestionAnswered ==
  ASSUME NEW qn \in Seq(NearMsgs), NEW qf \in Seq(FarMsgs), NEW sb, OneQuestion(qn, qf, sb),
         qn # <<>>, Head(qn).type = "SUBR", NEW m \in FarMsgs, m.of = Head(qn).of
  PROVE  OneQuestion(Tail(qn), Append(qf, m), sb)
<1> DEFINE r == Tail(qn)
           w == Append(qf, m)
           h == Head(qn)
<1>1. /\ Len(qn) \in Nat /\ DOMAIN qn = 1 .. Len(qn) /\ DOMAIN r = 1 .. Len(qn) - 1
      /\ \A i \in DOMAIN r : i + 1 \in DOMAIN qn /\ r[i] = qn[i + 1]
      /\ 1 \in DOMAIN qn /\ h = qn[1]
  BY Shortened
<1>2. /\ Len(qf) \in Nat /\ DOMAIN qf = 1 .. Len(qf) /\ DOMAIN w = 1 .. Len(qf) + 1
      /\ \A i \in DOMAIN qf : w[i] = qf[i]
      /\ w[Len(qf) + 1] = m
  BY Appended
<1>3. OneQuestion(r, qf, sb)
  BY QuestionNearTaken
<1> HIDE DEF r, w, h
<1>4. \A i \in DOMAIN w : i \in DOMAIN qf \/ i = Len(qf) + 1
  BY <1>2
<1>5. qn[1].type = "SUBR" /\ m.of = qn[1].of /\ sb[m.of] = "calls"
  BY <1>1 DEF h, OneQuestion
<1>6. \A i \in DOMAIN qf : qf[i].type \in Answer => qf[i].of # m.of
  BY <1>1, <1>5 DEF OneQuestion
<1>7. \A i \in DOMAIN r : r[i].type = "SUBR" => r[i].of # m.of
  <2> SUFFICES ASSUME NEW i \in DOMAIN r, r[i].type = "SUBR", r[i].of = m.of PROVE FALSE
    OBVIOUS
  <2>1. i + 1 \in DOMAIN qn /\ qn[i + 1].type = "SUBR" /\ qn[i + 1].of = qn[1].of /\ i + 1 # 1
    BY <1>1, <1>5
  <2> QED
    BY <1>1, <1>5, <2>1 DEF OneQuestion
<1>8. OneQuestion(r, w, sb)
  BY <1>2, <1>3, <1>4, <1>5, <1>6, <1>7 DEF OneQuestion
<1> QED
  BY <1>8 DEF r, w

\* The answer is there.
LEMMA QuestionOver ==
  ASSUME NEW qn \in Seq(NearMsgs), NEW qf \in Seq(FarMsgs), NEW sb, OneQuestion(qn, qf, sb),
         qf # <<>>, Head(qf).type \in Answer, NEW sc,
         \A t \in Far : t # Head(qf).of => sc[t] = sb[t]
  PROVE  OneQuestion(qn, Tail(qf), sc)
<1> DEFINE r == Tail(qf)
           h == Head(qf)
<1>1. /\ Len(qf) \in Nat /\ DOMAIN qf = 1 .. Len(qf) /\ DOMAIN r = 1 .. Len(qf) - 1
      /\ \A i \in DOMAIN r : i + 1 \in DOMAIN qf /\ r[i] = qf[i + 1]
      /\ 1 \in DOMAIN qf /\ h = qf[1] /\ r \in Seq(FarMsgs)
  BY Shortened
<1>2. OneQuestion(qn, r, sb)
  BY QuestionFarTaken
<1>3. h.type \in Answer /\ \A t \in Far : t # h.of => sc[t] = sb[t]
  OBVIOUS
<1> HIDE DEF r, h
<1>4. \A i \in DOMAIN r : r[i].type \in Answer => r[i].of \in Far /\ r[i].of # h.of
  <2> SUFFICES ASSUME NEW i \in DOMAIN r, r[i].type \in Answer
               PROVE  r[i].of \in Far /\ r[i].of # h.of
    OBVIOUS
  <2>1. r[i].of \in Far
    BY <1>1, FarTyped
  <2>2. i + 1 \in DOMAIN qf /\ qf[i + 1] = r[i] /\ i + 1 # 1
    BY <1>1
  <2> QED
    BY <1>1, <1>3, <2>1, <2>2 DEF OneQuestion
<1>5. \A i \in DOMAIN qn : qn[i].type = "SUBR" => qn[i].of \in Far /\ qn[i].of # h.of
  BY <1>1, <1>3, NearTyped DEF OneQuestion
<1>6. OneQuestion(qn, r, sc)
  BY <1>2, <1>3, <1>4, <1>5 DEF OneQuestion
<1> QED
  BY <1>6 DEF r
-----------------------------------------------------------------------------
(* What the nodes know of each other.                                      *)

\* Something else than the end of a subscription is sent to the owner.
LEMMA AgreeNearSent ==
  ASSUME NEW qn \in Seq(NearMsgs), NEW qf \in Seq(FarMsgs), NEW gn, NEW gf, NEW cr,
         NodesAgree(gn, gf, cr, qn, qf), NEW m \in NearMsgs, m.type # "USUBR"
  PROVE  NodesAgree(gn, gf, cr, Append(qn, m), qf)
<1> DEFINE r == Append(qn, m)
<1>1. /\ Len(qn) \in Nat /\ DOMAIN qn = 1 .. Len(qn) /\ DOMAIN r = 1 .. Len(qn) + 1
      /\ \A i \in DOMAIN qn : r[i] = qn[i]
      /\ r[Len(qn) + 1] = m
  BY Appended
<1>2. Carries(r, "USUBR") <=> Carries(qn, "USUBR")
  BY CarriesAppended
<1> HIDE DEF r
<1>3. \A i \in DOMAIN r : r[i].type = "USUBR" => i \in DOMAIN qn /\ r[i] = qn[i]
  BY <1>1
<1>4. \A i, j \in DOMAIN r : i < j /\ j \in DOMAIN qn => i \in DOMAIN qn /\ r[i] = qn[i]
  BY <1>1
<1>5. EndsFirst(gf, r, qf)
  <2>1. \A i, j \in DOMAIN r : r[i].type = "USUBR" /\ r[j].type = "USUBR" => i = j
    BY <1>3 DEF NodesAgree, EndsFirst
  <2>2. \A i, j \in DOMAIN r : i < j => ~(r[i].type = "SUBR" /\ r[j].type = "USUBR")
    BY <1>3, <1>4 DEF NodesAgree, EndsFirst
  <2> QED
    BY <1>2, <2>1, <2>2 DEF NodesAgree, EndsFirst
<1>6. NodesAgree(gn, gf, cr, r, qf)
  BY <1>2, <1>5 DEF NodesAgree, RemoteKnown
<1> QED
  BY <1>6 DEF r

\* A message of a package is sent to the other node, or an answer that there is no channel.
LEMMA AgreeFarSent ==
  ASSUME NEW qn \in Seq(NearMsgs), NEW qf \in Seq(FarMsgs), NEW gn, NEW gf, NEW cr,
         NodesAgree(gn, gf, cr, qn, qf), NEW m \in FarMsgs, m.type # "nil", m.type # "DELR"
  PROVE  NodesAgree(gn, gf, cr, qn, Append(qf, m))
<1> DEFINE r == Append(qf, m)
<1>1. /\ Len(qf) \in Nat /\ DOMAIN qf = 1 .. Len(qf) /\ DOMAIN r = 1 .. Len(qf) + 1
      /\ \A i \in DOMAIN qf : r[i] = qf[i]
      /\ r[Len(qf) + 1] = m
  BY Appended
<1>2. /\ Carries(r, "nil") <=> Carries(qf, "nil")
      /\ Carries(r, "DELR") <=> Carries(qf, "DELR")
  BY CarriesAppended
<1> HIDE DEF r
<1>3. \A i \in DOMAIN r : r[i].type = "nil" => i \in DOMAIN qf /\ r[i] = qf[i]
  BY <1>1
<1>4. \A j \in DOMAIN qf : j \in DOMAIN r /\ r[j] = qf[j]
  BY <1>1
<1>5. gn = NULL => DeleteIsLast(gf, cr, r)
  <2> SUFFICES ASSUME gn = NULL, NEW i \in DOMAIN r, r[i].type = "nil"
               PROVE  \E j \in DOMAIN r : i < j /\ r[j].type = "DELR"
    BY <1>2 DEF NodesAgree, DeleteIsLast, DeleteBehind
  <2>1. PICK j \in DOMAIN qf : i < j /\ qf[j].type = "DELR"
    BY <1>3 DEF NodesAgree, DeleteIsLast, DeleteBehind
  <2> QED
    BY <1>4, <2>1
<1>6. NodesAgree(gn, gf, cr, qn, r)
  BY <1>2, <1>5 DEF NodesAgree, RemoteKnown, EndsFirst
<1> QED
  BY <1>6 DEF r

\* What is not in the way any more when a message is taken.
LEMMA EndsFirstTaken ==
  ASSUME NEW qn \in Seq(NearMsgs), NEW qf, NEW gf, EndsFirst(gf, qn, qf), qn # <<>>
  PROVE  /\ EndsFirst(gf, Tail(qn), qf)
         /\ Head(qn).type \in {"SUBR", "USUBR"} => ~Carries(Tail(qn), "USUBR")
<1> DEFINE r == Tail(qn)
           h == Head(qn)
<1>1. /\ Len(qn) \in Nat /\ DOMAIN qn = 1 .. Len(qn) /\ DOMAIN r = 1 .. Len(qn) - 1
      /\ \A i \in DOMAIN r : i + 1 \in DOMAIN qn /\ r[i] = qn[i + 1]
      /\ 1 \in DOMAIN qn /\ h = qn[1]
  BY Shortened
<1>2. Carries(r, "USUBR") => Carries(qn, "USUBR")
  BY CarriesShortened
<1> HIDE DEF r, h
<1>3. \A i, j \in DOMAIN r : (i + 1 = j + 1 => i = j) /\ (i < j => i + 1 < j + 1) /\ 1 < i + 1
  BY <1>1
<1>4. EndsFirst(gf, r, qf)
  <2>1. \A i, j \in DOMAIN r : r[i].type = "USUBR" /\ r[j].type = "USUBR" => i = j
    BY <1>1, <1>3 DEF EndsFirst
  <2>2. \A i, j \in DOMAIN r : i < j => ~(r[i].type = "SUBR" /\ r[j].type = "USUBR")
    BY <1>1, <1>3 DEF EndsFirst
  <2> QED
    BY <1>2, <2>1, <2>2 DEF EndsFirst
<1>5. ASSUME h.type \in {"SUBR", "USUBR"}, NEW i \in DOMAIN r, r[i].type = "USUBR" PROVE FALSE
  <2>1. i + 1 \in DOMAIN qn /\ qn[i + 1].type = "USUBR" /\ 1 < i + 1 /\ i + 1 # 1
    BY <1>1, <1>3, <1>5
  <2>2. CASE h.type = "SUBR"
    BY <1>1, <2>1, <2>2 DEF EndsFirst
  <2>3. CASE h.type = "USUBR"
    BY <1>1, <2>1, <2>3 DEF EndsFirst
  <2> QED
    BY <1>5, <2>2, <2>3
<1> QED
  BY <1>4, <1>5 DEF r, h, Carries

LEMMA AgreeNearTaken ==
  ASSUME NEW qn \in Seq(NearMsgs), NEW qf \in Seq(FarMsgs), NEW gn, NEW gf, NEW cr,
         NodesAgree(gn, gf, cr, qn, qf), qn # <<>>, Head(qn).type # "USUBR"
  PROVE  NodesAgree(gn, gf, cr, Tail(qn), qf)
<1>1. EndsFirst(gf, Tail(qn), qf)
  BY EndsFirstTaken DEF NodesAgree
<1>2. Carries(Tail(qn), "USUBR") <=> Carries(qn, "USUBR")
  BY CarriesShortened
<1> QED
  BY <1>1, <1>2 DEF NodesAgree, RemoteKnown

\* What was sent behind is still so.
LEMMA DeleteLastTaken ==
  ASSUME NEW qf \in Seq(FarMsgs), qf # <<>>, DeleteBehind(qf)
  PROVE  DeleteBehind(Tail(qf))
<1> DEFINE r == Tail(qf)
<1>1. /\ Len(qf) \in Nat /\ DOMAIN qf = 1 .. Len(qf) /\ DOMAIN r = 1 .. Len(qf) - 1
      /\ \A i \in DOMAIN r : i + 1 \in DOMAIN qf /\ r[i] = qf[i + 1]
      /\ \A j \in DOMAIN qf : j # 1 => j - 1 \in DOMAIN r /\ r[j - 1] = qf[j]
  BY Shortened
<1> HIDE DEF r
<1>2. ASSUME NEW i \in DOMAIN r, r[i].type = "nil"
      PROVE  \E j \in DOMAIN r : i < j /\ r[j].type = "DELR"
  <2>1. PICK j \in DOMAIN qf : i + 1 < j /\ qf[j].type = "DELR"
    BY <1>1, <1>2 DEF DeleteBehind
  <2>2. j - 1 \in DOMAIN r /\ r[j - 1].type = "DELR" /\ i < j - 1
    BY <1>1, <2>1
  <2> QED
    BY <2>2
<1> QED
  BY <1>2 DEF r, DeleteBehind

LEMMA AgreeFarTaken ==
  ASSUME NEW qn \in Seq(NearMsgs), NEW qf \in Seq(FarMsgs), NEW gn, NEW gf, NEW cr,
         NodesAgree(gn, gf, cr, qn, qf), qf # <<>>,
         Head(qf).type # "nil", Head(qf).type # "DELR"
  PROVE  NodesAgree(gn, gf, cr, qn, Tail(qf))
<1>1. /\ Carries(Tail(qf), "nil") <=> Carries(qf, "nil")
      /\ Carries(Tail(qf), "DELR") <=> Carries(qf, "DELR")
  BY CarriesShortened
<1>2. gn = NULL => DeleteIsLast(gf, cr, Tail(qf))
  BY <1>1, DeleteLastTaken DEF NodesAgree, DeleteIsLast
<1> QED
  BY <1>1, <1>2 DEF NodesAgree, RemoteKnown, EndsFirst

\* The owner subscribes the other node, and says so.
LEMMA AgreeAnswered ==
  ASSUME NEW qn \in Seq(NearMsgs), NEW qf \in Seq(FarMsgs), NEW gn, NEW gf, NEW cr,
         NodesAgree(gn, gf, cr, qn, qf), qn # <<>>, Head(qn).type = "SUBR",
         gn # NULL, NEW m \in FarMsgs, m.type = "nil"
  PROVE  NodesAgree(gn, gf, "in", Tail(qn), Append(qf, m))
<1>1. EndsFirst(gf, Tail(qn), qf) /\ ~Carries(Tail(qn), "USUBR")
  BY EndsFirstTaken DEF NodesAgree
<1>2. /\ Carries(Append(qf, m), "nil")
      /\ Carries(Append(qf, m), "DELR") <=> Carries(qf, "DELR")
  BY CarriesAppended
<1> QED
  BY <1>1, <1>2 DEF NodesAgree, RemoteKnown, EndsFirst

\* The other node goes on with the answer.
LEMMA AgreeJoined ==
  ASSUME NEW qn \in Seq(NearMsgs), NEW qf \in Seq(FarMsgs), NEW gn, NEW gf, NEW cr,
         NodesAgree(gn, gf, cr, qn, qf), qf # <<>>, Head(qf).type = "nil", NEW g, g # NULL
  PROVE  NodesAgree(gn, g, cr, qn, Tail(qf))
<1>1. Carries(qf, "nil") /\ ~Carries(qn, "USUBR")
  <2>1. Carries(qf, "nil")
    BY Shortened DEF Carries
  <2> QED
    BY <2>1 DEF NodesAgree, EndsFirst
<1>2. /\ Carries(Tail(qf), "nil") => Carries(qf, "nil")
      /\ Carries(Tail(qf), "DELR") <=> Carries(qf, "DELR")
  BY CarriesShortened
<1>3. ASSUME gn = NULL PROVE DeleteIsLast(g, cr, Tail(qf))
  <2>1. cr = "nil"
    BY <1>3 DEF NodesAgree, DeleteIsLast
  <2>2. Carries(qf, "DELR")
    BY <1>1, <1>3 DEF NodesAgree, DeleteIsLast, DeleteBehind, Carries
  <2>3. DeleteBehind(Tail(qf))
    BY <1>3, DeleteLastTaken DEF NodesAgree, DeleteIsLast
  <2> QED
    BY <1>2, <2>1, <2>2, <2>3 DEF DeleteIsLast
<1> QED
  BY <1>1, <1>2, <1>3 DEF NodesAgree, RemoteKnown, EndsFirst

\* Its last subscriber leaves when none asks.
LEMMA AgreeLeft ==
  ASSUME NEW qn \in Seq(NearMsgs), NEW qf \in Seq(FarMsgs), NEW gn, NEW gf, NEW cr,
         NodesAgree(gn, gf, cr, qn, qf), gf # NULL, ~Carries(qn, "SUBR"), ~Carries(qf, "nil")
  PROVE  NodesAgree(gn, NULL, cr, Append(qn, M("USUBR", NULL)), qf)
<1> DEFINE m == M("USUBR", NULL)
           r == Append(qn, m)
<1>0. m \in NearMsgs /\ m.type = "USUBR"
  BY DEF NearMsgs, M
<1>1. /\ Len(qn) \in Nat /\ DOMAIN qn = 1 .. Len(qn) /\ DOMAIN r = 1 .. Len(qn) + 1
      /\ \A i \in DOMAIN qn : r[i] = qn[i]
      /\ r[Len(qn) + 1] = m
  BY <1>0, Appended
<1>2. Carries(r, "USUBR") /\ (Carries(r, "SUBR") <=> Carries(qn, "SUBR"))
  BY <1>0, CarriesAppended
<1> HIDE DEF r, m
<1>3. ~Carries(qn, "USUBR")
  BY DEF NodesAgree, EndsFirst
<1>4. \A i \in DOMAIN r : r[i].type = "USUBR" => i = Len(qn) + 1
  BY <1>1, <1>3 DEF Carries
<1>5. EndsFirst(NULL, r, qf)
  <2>1. \A i \in DOMAIN r : r[i].type # "SUBR"
    BY <1>2 DEF Carries
  <2> QED
    BY <1>4, <2>1 DEF EndsFirst
<1>6. NodesAgree(gn, NULL, cr, r, qf)
  BY <1>2, <1>5 DEF NodesAgree, RemoteKnown, DeleteIsLast
<1> QED
  BY <1>6 DEF r, m

\* The owner is told.
LEMMA AgreeEnded ==
  ASSUME NEW qn \in Seq(NearMsgs), NEW qf \in Seq(FarMsgs), NEW gn, NEW gf, NEW cr,
         NodesAgree(gn, gf, cr, qn, qf), qn # <<>>, Head(qn).type = "USUBR"
  PROVE  NodesAgree(gn, gf, IF cr = "nil" THEN "nil" ELSE "out", Tail(qn), qf)
<1>1. EndsFirst(gf, Tail(qn), qf) /\ ~Carries(Tail(qn), "USUBR")
  BY EndsFirstTaken DEF NodesAgree
<1>2. Carries(qn, "USUBR")
  BY Shortened DEF Carries
<1>3. gf = NULL /\ ~Carries(qf, "nil")
  BY <1>2 DEF NodesAgree, EndsFirst
<1> QED
  BY <1>1, <1>3 DEF NodesAgree, RemoteKnown, DeleteIsLast

\* The channel is deleted.
LEMMA AgreeDeleted ==
  ASSUME NEW qn \in Seq(NearMsgs), NEW qf \in Seq(FarMsgs), NEW gn, NEW gf, NEW cr,
         NodesAgree(gn, gf, cr, qn, qf), gn # NULL
  PROVE  NodesAgree(NULL, gf, "nil", qn, IF cr = "in" THEN Append(qf, M("DELR", NULL)) ELSE qf)
<1> DEFINE m == M("DELR", NULL)
           r == Append(qf, m)
<1>0. m \in FarMsgs /\ m.type = "DELR"
  BY DEF FarMsgs, M
<1>1. /\ Len(qf) \in Nat /\ DOMAIN qf = 1 .. Len(qf) /\ DOMAIN r = 1 .. Len(qf) + 1
      /\ \A i \in DOMAIN qf : r[i] = qf[i]
      /\ r[Len(qf) + 1] = m
  BY <1>0, Appended
<1>2. (Carries(r, "nil") <=> Carries(qf, "nil")) /\ Carries(r, "DELR")
  BY <1>0, CarriesAppended
<1> HIDE DEF r, m
<1>3. CASE cr = "in"
  <2>1. ASSUME NEW i \in DOMAIN r, r[i].type = "nil"
        PROVE  \E j \in DOMAIN r : i < j /\ r[j].type = "DELR"
    <3>1. i \in DOMAIN qf /\ i < Len(qf) + 1 /\ Len(qf) + 1 \in DOMAIN r
      BY <1>0, <1>1, <2>1
    <3> QED
      BY <1>0, <1>1, <3>1
  <2>2. NodesAgree(NULL, gf, "nil", qn, r)
    BY <1>2, <2>1 DEF NodesAgree, EndsFirst, DeleteIsLast, DeleteBehind
  <2> QED
    BY <1>3, <2>2 DEF r, m
<1>4. CASE cr # "in"
  <2>1. gf = NULL /\ ~Carries(qf, "nil")
    BY <1>4 DEF NodesAgree, RemoteKnown
  <2> QED
    BY <1>4, <2>1 DEF NodesAgree, DeleteIsLast, DeleteBehind, Carries
<1> QED
  BY <1>3, <1>4

\* The other node is told.
LEMMA AgreeForgotten ==
  ASSUME NEW qn \in Seq(NearMsgs), NEW qf \in Seq(FarMsgs), NEW gn, NEW gf, NEW cr,
         NodesAgree(gn, gf, cr, qn, qf), qf # <<>>, Head(qf).type = "DELR"
  PROVE  NodesAgree(gn, NULL, cr, qn, Tail(qf))
<1>1. Carries(qf, "DELR")
  BY Shortened DEF Carries
<1>2. gn = NULL
  BY <1>1 DEF NodesAgree, RemoteKnown
<1>3. Carries(Tail(qf), "nil") => Carries(qf, "nil")
  BY CarriesShortened
<1>4. DeleteIsLast(NULL, cr, Tail(qf))
  BY <1>2, DeleteLastTaken DEF NodesAgree, DeleteIsLast
<1> QED
  BY <1>2, <1>3, <1>4 DEF NodesAgree, EndsFirst

\* Subscribers come and go, and some are left.
LEMMA AgreeMembers ==
  ASSUME NEW qn, NEW qf, NEW gn, NEW gf, NEW cr, NodesAgree(gn, gf, cr, qn, qf),
         NEW g, NEW h, g = NULL <=> gn = NULL, h = NULL <=> gf = NULL
  PROVE  NodesAgree(g, h, cr, qn, qf)
BY DEF NodesAgree, EndsFirst, RemoteKnown, DeleteIsLast
-----------------------------------------------------------------------------
(* Packages and members.                                                   *)

LEMMA ServicesFinite ==
  ASSUME NEW S \in SUBSET (Near \cup Far)
  PROVE  IsFiniteSet(S) /\ Cardinality(S) \in Nat
<1>1. IsFiniteSet(Near \cup Far)
  BY GroupAssumption, FS_Union
<1>2. IsFiniteSet(S)
  BY <1>1, FS_Subset
<1> QED
  BY <1>2, FS_CardinalityType

LEMMA NodeOf == \A s \in Near \cup Far : Of(s) \in Node /\ (Of(s) = "far" <=> s \in Far)
BY GroupAssumption DEF Of, Node

\* SUB counts the member that joins.
LEMMA JoinedCounts ==
  ASSUME MembersTyped, MembersCounted, NEW d \in Node, NEW s \in Near \cup Far, Joined(d, s),
         s \in Far <=> d = "far"
  PROVE  /\ group' \in [Node -> {NULL} \cup SUBSET (Near \cup Far)]
         /\ group'["near"] # NULL => group'["near"] \subseteq Near
         /\ group'["far"] # NULL => group'["far"] \subseteq Far /\ group'["far"] # {}
         /\ channel_n' \in [Node -> Int] /\ MembersCounted'
         /\ group'[d] # NULL /\ \A e \in Node : e # d => group'[e] = group[e]
<1> DEFINE before == IF group[d] = NULL THEN {} ELSE group[d]
           g == before \cup {s}
           k == IF group[d] = NULL THEN 1
                ELSE IF s \in group[d] THEN channel_n[d] ELSE channel_n[d] + 1
<1>1. /\ group' = [group EXCEPT ![d] = g] /\ channel_n' = [channel_n EXCEPT ![d] = k]
  BY DEF Joined
<1>2. before \in SUBSET (Near \cup Far) /\ g \in SUBSET (Near \cup Far) /\ g # NULL
  BY GroupAssumption DEF MembersTyped
<1>3. k \in Int
  BY DEF MembersTyped
<1>4. k = Cardinality(g)
  <2>1. CASE group[d] = NULL
    <3>1. g = {s} /\ k = 1
      BY <2>1
    <3> QED
      BY <3>1, FS_Singleton
  <2>2. CASE group[d] # NULL /\ s \in group[d]
    <3>1. g = group[d] /\ k = channel_n[d]
      BY <2>2
    <3> QED
      BY <2>2, <3>1 DEF MembersCounted
  <2>3. CASE group[d] # NULL /\ s \notin group[d]
    <3>1. before = group[d] /\ k = channel_n[d] + 1 /\ s \notin before /\ channel_n[d] = Cardinality(before)
      BY <2>3 DEF MembersCounted
    <3> HIDE DEF before
    <3>2. Cardinality(before \cup {s}) = Cardinality(before) + 1
      BY <1>2, <3>1, ServicesFinite, FS_AddElement
    <3> QED
      BY <3>1, <3>2
  <2> QED
    BY <2>1, <2>2, <2>3
<1>5. /\ d = "near" => g \subseteq Near
      /\ d = "far" => g \subseteq Far
      /\ g # {}
  BY DEF MembersTyped, Node
<1> HIDE DEF g, k, before
<1>6. group' \in [Node -> {NULL} \cup SUBSET (Near \cup Far)] /\ channel_n' \in [Node -> Int]
  BY <1>1, <1>2, <1>3 DEF MembersTyped
<1>7. /\ group'[d] = g /\ channel_n'[d] = k
      /\ \A e \in Node : e # d => group'[e] = group[e] /\ channel_n'[e] = channel_n[e]
  BY <1>1 DEF MembersTyped
<1>8. MembersCounted'
  BY <1>4, <1>7 DEF MembersCounted
<1>9. /\ group'["near"] # NULL => group'["near"] \subseteq Near
      /\ group'["far"] # NULL => group'["far"] \subseteq Far /\ group'["far"] # {}
  BY <1>5, <1>7 DEF MembersTyped, Node
<1> QED
  BY <1>2, <1>6, <1>7, <1>8, <1>9

\* USUB counts the member that leaves; the last one of the other node takes the group away.
LEMMA LeftCounts ==
  ASSUME MembersTyped, MembersCounted, NEW d \in Node, group[d] # NULL, NEW s \in group[d],
         NEW g, g = group[d] \ {s} \/ g = NULL, d = "far" /\ g # NULL => g # {},
         group' = [group EXCEPT ![d] = g], channel_n' = [channel_n EXCEPT ![d] = @ - 1]
  PROVE  /\ group' \in [Node -> {NULL} \cup SUBSET (Near \cup Far)]
         /\ group'["near"] # NULL => group'["near"] \subseteq Near
         /\ group'["far"] # NULL => group'["far"] \subseteq Far /\ group'["far"] # {}
         /\ channel_n' \in [Node -> Int] /\ MembersCounted'
         /\ group'[d] = g /\ \A e \in Node : e # d => group'[e] = group[e]
<1>1. group[d] \in SUBSET (Near \cup Far)
  BY DEF MembersTyped
<1>2. Cardinality(group[d] \ {s}) = Cardinality(group[d]) - 1
  BY <1>1, ServicesFinite, FS_RemoveElement
<1>3. group' \in [Node -> {NULL} \cup SUBSET (Near \cup Far)] /\ channel_n' \in [Node -> Int]
  BY <1>1 DEF MembersTyped
<1>4. /\ group'[d] = g /\ channel_n'[d] = channel_n[d] - 1
      /\ \A e \in Node : e # d => group'[e] = group[e] /\ channel_n'[e] = channel_n[e]
  BY DEF MembersTyped
<1>5. MembersCounted'
  BY <1>2, <1>4 DEF MembersCounted
<1>6. /\ group'["near"] # NULL => group'["near"] \subseteq Near
      /\ group'["far"] # NULL => group'["far"] \subseteq Far /\ group'["far"] # {}
  BY <1>4 DEF MembersTyped, Node
<1> QED
  BY <1>3, <1>4, <1>5, <1>6

\* A package of a node is changed.
LEMMA PackSet ==
  ASSUME PacksTyped, NEW d \in Node, NEW p \in 1 .. MaxPub, NEW q \in Packs
  PROVE  LET k == [pack EXCEPT ![d][p] = q]
         IN  /\ k \in [Node -> [1 .. MaxPub -> Packs]]
             /\ \A e \in Node, r \in 1 .. MaxPub :
                  k[e][r] = IF e = d /\ r = p THEN q ELSE pack[e][r]
BY DEF PacksTyped

LEMMA PackTyped ==
  ASSUME PacksTyped, NEW d \in Node
  PROVE  /\ loop[d].p \in 0 .. MaxPub /\ loop[d].rest \in SUBSET (Near \cup Far)
         /\ loop[d] = [p |-> loop[d].p, rest |-> loop[d].rest]
         /\ \A p \in 1 .. MaxPub :
              /\ pack[d][p] \in Packs /\ pack[d][p].state \in {"none", "live", "freed"}
              /\ pack[d][p].reference \in Int /\ pack[d][p].out \in SUBSET (Near \cup Far)
         /\ MaxPub \in Nat
BY GroupAssumption DEF PacksTyped, Packs

LEMMA PackOut ==
  ASSUME NEW q \in Packs, NEW s \in Near \cup Far
  PROVE  LET m == [state |-> q.state, reference |-> q.reference, out |-> q.out \cup {s}]
         IN  m \in Packs /\ [q EXCEPT !.out = @ \cup {s}] = m
BY DEF Packs

LEMMA RestOut ==
  ASSUME NEW l \in [p : 0 .. MaxPub, rest : SUBSET (Near \cup Far)], NEW s
  PROVE  [l EXCEPT !.rest = @ \ {s}] = [p |-> l.p, rest |-> l.rest \ {s}]
OBVIOUS

\* Nothing is to be sent of a package before or after.
LEMMA PackAtRest ==
  ASSUME NEW q, NEW l, NEW m, NEW p, PackCounted(q, l, p), l.rest = {}, m.rest = {}
  PROVE  PackCounted(q, m, p)
<1>1. Unhandled(q, l, p) = q.out /\ Unhandled(q, m, p) = q.out
  BY DEF Unhandled
<1> QED
  BY <1>1 DEF PackCounted

\* publish begins.
LEMMA PublishKeeps ==
  ASSUME MembersTyped, MembersCounted, PacksTyped, PacksCounted,
         NEW d \in Node, AtRest(d), NEW p \in 1 .. MaxPub, Publish(d, p)
  PROVE  /\ pack' \in [Node -> [1 .. MaxPub -> Packs]]
         /\ loop' \in [Node -> [p : 0 .. MaxPub, rest : SUBSET (Near \cup Far)]]
         /\ PacksCounted'
<1>1. loop[d].p = 0 /\ loop[d].rest = {} /\ 0 \notin 1 .. MaxPub
  BY DEF AtRest, Idle
<1>2. CASE group[d] = NULL
  <2> DEFINE q == [None EXCEPT !.state = "freed"]
  <2>1. q = [state |-> "freed", reference |-> 0, out |-> {}]
    BY DEF None
  <2>2. q \in Packs /\ q.state = "freed" /\ q.out = {}
    BY <2>1 DEF Packs
  <2> HIDE DEF q
  <2>3. pack' = [pack EXCEPT ![d][p] = q] /\ loop' = loop
    BY <1>2 DEF Publish, q
  <2>4. /\ pack' \in [Node -> [1 .. MaxPub -> Packs]]
        /\ \A e \in Node, r \in 1 .. MaxPub :
             pack'[e][r] = IF e = d /\ r = p THEN q ELSE pack[e][r]
    BY <2>2, <2>3, PackSet
  <2>5. PackCounted(q, loop[d], p)
    BY <1>1, <2>2 DEF PackCounted, Unhandled
  <2>6. PacksCounted'
    BY <2>3, <2>4, <2>5 DEF PacksCounted
  <2> QED
    BY <2>3, <2>4, <2>6 DEF PacksTyped
<1>3. CASE group[d] # NULL
  <2> DEFINE q == [state |-> "live", reference |-> channel_n[d], out |-> {}]
             l == [p |-> p, rest |-> group[d]]
  <2>1. /\ group[d] \in SUBSET (Near \cup Far) /\ channel_n[d] \in Int
        /\ channel_n[d] = Cardinality(group[d])
    BY <1>3 DEF MembersTyped, MembersCounted
  <2>2. /\ q \in Packs /\ q.state = "live" /\ q.out = {} /\ q.reference = channel_n[d]
        /\ l \in [p : 0 .. MaxPub, rest : SUBSET (Near \cup Far)] /\ l.p = p /\ l.rest = group[d]
    BY <2>1 DEF Packs
  <2> HIDE DEF q, l
  <2>3. pack' = [pack EXCEPT ![d][p] = q] /\ loop' = [loop EXCEPT ![d] = l]
    BY <1>3 DEF Publish, q, l
  <2>4. /\ pack' \in [Node -> [1 .. MaxPub -> Packs]]
        /\ \A e \in Node, r \in 1 .. MaxPub :
             pack'[e][r] = IF e = d /\ r = p THEN q ELSE pack[e][r]
    BY <2>2, <2>3, PackSet
  <2>5. /\ loop' \in [Node -> [p : 0 .. MaxPub, rest : SUBSET (Near \cup Far)]]
        /\ \A e \in Node : loop'[e] = IF e = d THEN l ELSE loop[e]
    BY <2>2, <2>3 DEF PacksTyped
  <2>6. PackCounted(q, l, p)
    <3>1. Unhandled(q, l, p) = group[d]
      BY <2>2 DEF Unhandled
    <3> QED
      BY <2>1, <2>2, <3>1 DEF PackCounted
  <2>7. \A r \in 1 .. MaxPub : r # p => PackCounted(pack[d][r], l, r)
    BY <1>1, <2>2 DEF PacksCounted, PackCounted, Unhandled
  <2>8. ASSUME NEW e \in Node
        PROVE  /\ loop'[e].p = 0 => loop'[e].rest = {}
               /\ \A r \in 1 .. MaxPub : PackCounted(pack'[e][r], loop'[e], r)
    <3>1. CASE e = d
      BY <2>2, <2>4, <2>5, <2>6, <2>7, <3>1
    <3>2. CASE e # d
      <4>1. loop'[e] = loop[e] /\ \A r \in 1 .. MaxPub : pack'[e][r] = pack[e][r]
        BY <2>4, <2>5, <3>2
      <4> QED
        BY <4>1 DEF PacksCounted
    <3> QED
      BY <3>1, <3>2
  <2> QED
    BY <2>4, <2>5, <2>8 DEF PacksCounted
<1> QED
  BY <1>2, <1>3

\* The loop of publish: one more message is sent, and one less is to be sent.
LEMMA SendOnePacks ==
  ASSUME PacksTyped, PacksCounted, NEW d \in Node, SendOne(d)
  PROVE  PacksTyped' /\ PacksCounted'
<1> DEFINE p == loop[d].p
           k == loop[d].rest
           q == pack[d][p]
<1>1. PICK s \in k : /\ loop' = [loop EXCEPT ![d].rest = @ \ {s}]
                     /\ pack' = [pack EXCEPT ![d][p].out = @ \cup {s}]
  BY DEF SendOne
<1>2. p \in 1 .. MaxPub /\ k \in SUBSET (Near \cup Far) /\ loop[d] = [p |-> p, rest |-> k]
  BY <1>1, PackTyped DEF PacksCounted
<1>3. /\ q \in Packs /\ q.state \in {"none", "live", "freed"}
      /\ q.reference \in Int /\ q.out \in SUBSET (Near \cup Far)
  BY <1>2, PackTyped
<1> DEFINE m == [state |-> q.state, reference |-> q.reference, out |-> q.out \cup {s}]
           l == [p |-> p, rest |-> k \ {s}]
<1>4. /\ m \in Packs /\ m.state = q.state /\ m.reference = q.reference /\ m.out = q.out \cup {s}
      /\ l \in [p : 0 .. MaxPub, rest : SUBSET (Near \cup Far)] /\ l.p = p /\ l.rest = k \ {s}
  BY <1>2, <1>3 DEF Packs
<1>5. [q EXCEPT !.out = @ \cup {s}] = m
  <2> HIDE DEF q
  <2> QED
    BY <1>2, <1>3, PackOut
<1>6. pack' = [pack EXCEPT ![d][p] = m]
  BY <1>1, <1>2, <1>5 DEF PacksTyped
<1>7. loop' = [loop EXCEPT ![d] = l]
  <2>1. [loop[d] EXCEPT !.rest = @ \ {s}] = l
    <3>1. loop[d] \in [p : 0 .. MaxPub, rest : SUBSET (Near \cup Far)]
      BY <1>2
    <3> QED
      BY <3>1, RestOut
  <2> HIDE DEF l
  <2> QED
    BY <1>1, <2>1 DEF PacksTyped
<1>8. PackCounted(q, loop[d], p)
  BY <1>2 DEF PacksCounted
<1>9. \A r \in 1 .. MaxPub : r # p => PackCounted(pack[d][r], l, r)
  BY <1>4 DEF PacksCounted, PackCounted, Unhandled
<1> HIDE DEF m, l, q, p, k
<1>10. /\ pack' \in [Node -> [1 .. MaxPub -> Packs]]
       /\ \A e \in Node, r \in 1 .. MaxPub :
            pack'[e][r] = IF e = d /\ r = p THEN m ELSE pack[e][r]
  BY <1>2, <1>4, <1>6, PackSet
<1>11. /\ loop' \in [Node -> [p : 0 .. MaxPub, rest : SUBSET (Near \cup Far)]]
       /\ \A e \in Node : loop'[e] = IF e = d THEN l ELSE loop[e]
  BY <1>4, <1>7 DEF PacksTyped
<1>12. PackCounted(m, l, p)
  <2>1. loop[d].p = p /\ loop[d].rest = k
    BY DEF p, k
  <2>2. Unhandled(m, l, p) = Unhandled(q, loop[d], p)
    BY <1>1, <1>4, <2>1 DEF Unhandled
  <2> QED
    BY <1>4, <1>8, <2>1, <2>2 DEF PackCounted
<1>13. PacksCounted'
  <2> SUFFICES ASSUME NEW e \in Node
               PROVE  /\ loop'[e].p = 0 => loop'[e].rest = {}
                      /\ \A r \in 1 .. MaxPub : PackCounted(pack'[e][r], loop'[e], r)
    BY DEF PacksCounted
  <2>1. CASE e # d
    BY <1>10, <1>11, <2>1 DEF PacksCounted
  <2>2. CASE e = d
    <3>1. loop'[e] = l /\ l.p \in 1 .. MaxPub
      BY <1>2, <1>4, <1>11, <2>2
    <3>2. ASSUME NEW r \in 1 .. MaxPub PROVE PackCounted(pack'[e][r], l, r)
      <4>1. pack'[e][r] = IF r = p THEN m ELSE pack[d][r]
        BY <1>10, <2>2
      <4> QED
        BY <1>9, <1>12, <4>1
    <3> QED
      BY <3>1, <3>2
  <2> QED
    BY <2>1, <2>2
<1>14. pubs' = pubs
  BY DEF SendOne
<1> QED
  BY <1>10, <1>11, <1>13, <1>14 DEF PacksTyped

\* The end of publish.
LEMMA SendRemotePacks ==
  ASSUME PacksTyped, PacksCounted, NEW d \in Node, SendRemote(d)
  PROVE  PacksTyped' /\ PacksCounted' /\ loop[d].p \in 1 .. MaxPub
<1>1. /\ loop[d].rest = {} /\ loop' = [loop EXCEPT ![d] = Idle] /\ pack' = pack /\ pubs' = pubs
      /\ loop[d] # Idle
  BY DEF SendRemote, AtRest
<1>2. Idle \in [p : 0 .. MaxPub, rest : SUBSET (Near \cup Far)] /\ Idle.p = 0 /\ Idle.rest = {}
  BY GroupAssumption DEF Idle
<1>3. loop[d].p \in 1 .. MaxPub
  <2>1. loop[d] = [p |-> loop[d].p, rest |-> loop[d].rest] /\ loop[d].p \in 0 .. MaxPub
    BY PackTyped
  <2>2. loop[d].p # 0
    BY <1>1, <2>1 DEF Idle
  <2> QED
    BY <2>1, <2>2
<1>4. /\ loop' \in [Node -> [p : 0 .. MaxPub, rest : SUBSET (Near \cup Far)]]
      /\ \A e \in Node : loop'[e] = IF e = d THEN Idle ELSE loop[e]
  BY <1>1, <1>2 DEF PacksTyped
<1>5. \A r \in 1 .. MaxPub : PackCounted(pack[d][r], Idle, r)
  BY <1>1, <1>2, PackAtRest DEF PacksCounted
<1>6. PacksCounted'
  BY <1>1, <1>2, <1>4, <1>5 DEF PacksCounted
<1> QED
  BY <1>1, <1>3, <1>4, <1>6 DEF PacksTyped

\* mc_closelocal.
LEMMA ClosePacks ==
  ASSUME PacksTyped, PacksCounted, NEW d \in Node, NEW p \in 1 .. MaxPub, NEW s, Close(d, p, s)
  PROVE  PacksTyped' /\ PacksCounted'
<1> DEFINE q == pack[d][p]
           m == [state |-> IF LastReader(q.reference - 1) THEN "freed" ELSE q.state,
                 reference |-> q.reference - 1, out |-> q.out \ {s}]
<1>1. /\ s \in q.out /\ loop' = loop /\ pubs' = pubs
      /\ pack' = [pack EXCEPT ![d][p] = m]
  BY DEF Close, PacksTyped
<1>2. /\ q \in Packs /\ q.state \in {"none", "live", "freed"}
      /\ q.reference \in Int /\ q.out \in SUBSET (Near \cup Far)
  BY PackTyped
<1>3. /\ m \in Packs /\ m.reference = q.reference - 1 /\ m.out = q.out \ {s}
      /\ m.state = IF q.reference - 1 <= 0 THEN "freed" ELSE q.state
  BY <1>2 DEF Packs, LastReader
<1>4. PackCounted(q, loop[d], p)
  BY DEF PacksCounted
<1> HIDE DEF q, m
<1>5. PackCounted(m, loop[d], p)
  <2> DEFINE u == Unhandled(q, loop[d], p)
             v == Unhandled(m, loop[d], p)
  <2>1. u \in SUBSET (Near \cup Far) /\ s \in u /\ v = u \ {s}
    BY <1>1, <1>2, <1>3, <1>4, PackTyped DEF Unhandled, PackCounted
  <2>2. q.state = "live" /\ q.reference = Cardinality(u)
    BY <2>1, <1>4 DEF PackCounted
  <2> HIDE DEF u, v
  <2>3. Cardinality(v) = Cardinality(u) - 1 /\ Cardinality(u) \in Nat /\ IsFiniteSet(v)
        /\ Cardinality(v) \in Nat
    BY <2>1, ServicesFinite, FS_RemoveElement, FS_Subset
  <2>4. m.state = "live" => m.reference = Cardinality(v)
    BY <1>3, <2>2, <2>3
  <2>5. m.state # "live" => v = {}
    <3>1. m.state # "live" => Cardinality(v) = 0
      BY <1>3, <2>2, <2>3
    <3> QED
      BY <2>3, <3>1, FS_EmptySet
  <2>6. loop[d].p = p => m.out \cap loop[d].rest = {}
    BY <1>3, <1>4 DEF PackCounted
  <2> QED
    BY <2>4, <2>5, <2>6 DEF PackCounted, v
<1>6. /\ pack' \in [Node -> [1 .. MaxPub -> Packs]]
      /\ \A e \in Node, r \in 1 .. MaxPub :
           pack'[e][r] = IF e = d /\ r = p THEN m ELSE pack[e][r]
  BY <1>1, <1>3, PackSet
<1>7. PacksCounted'
  BY <1>1, <1>5, <1>6 DEF PacksCounted
<1> QED
  BY <1>1, <1>6, <1>7 DEF PacksTyped
-----------------------------------------------------------------------------
(* Steps of the nodes.                                                     *)

\* SUB on the node of the channel, and USUB of one of its subscribers.
LEMMA SubNearKeeps ==
  ASSUME GroupInv, NEW s \in Near \cup Far, SubNear(s)
  PROVE  GroupInv'
<1> USE DEF GroupInv, GroupTypeOK
<1>1. /\ s \in Near /\ s \notin Far /\ ops' = ops + 1 /\ sub' = [sub EXCEPT ![s] = "yes"]
      /\ channel_remote' = channel_remote /\ toNear' = toNear /\ toFar' = toFar
      /\ pack' = pack /\ loop' = loop /\ pubs' = pubs /\ overtaken' = overtaken
  BY GroupAssumption DEF SubNear, Op, packages
<1>2. /\ group' \in [Node -> {NULL} \cup SUBSET (Near \cup Far)]
      /\ group'["near"] # NULL => group'["near"] \subseteq Near
      /\ group'["far"] # NULL => group'["far"] \subseteq Far /\ group'["far"] # {}
      /\ channel_n' \in [Node -> Int] /\ MembersCounted'
      /\ group'["near"] = NULL <=> group["near"] = NULL
      /\ group'["far"] = group["far"]
  <2>1. CASE group["near"] = NULL
    BY <2>1 DEF SubNear, MembersTyped, MembersCounted
  <2>2. CASE group["near"] # NULL
    <3>1. Joined("near", s) /\ "near" \in Node /\ "far" \in Node
      BY <2>2 DEF SubNear, Node
    <3> QED
      BY <1>1, <2>2, <3>1, JoinedCounts
  <2> QED
    BY <2>1, <2>2
<1>3. MembersTyped'
  BY <1>1, <1>2 DEF MembersTyped
<1>4. PacksTyped' /\ PacksCounted' /\ LinksTyped'
  BY <1>1 DEF PacksTyped, PacksCounted, LinksTyped
<1>5. OneQuestion(toNear, toFar, sub)'
  <2>1. \A t \in Far : sub'[t] = sub[t]
    BY <1>1 DEF MembersTyped
  <2>2. /\ \A i \in DOMAIN toNear : toNear[i].type = "SUBR" => toNear[i].of \in Far
        /\ \A i \in DOMAIN toFar : toFar[i].type \in Answer => toFar[i].of \in Far
    BY NearTyped, FarTyped DEF LinksTyped
  <2> QED
    BY <1>1, <2>1, <2>2 DEF OneQuestion
<1>6. ~overtaken' => NodesAgree(group["near"], group["far"], channel_remote, toNear, toFar)'
  BY <1>1, <1>2, AgreeMembers
<1> QED
  BY <1>2, <1>3, <1>4, <1>5, <1>6

\* SUB on the other node.
LEMMA SubFarKeeps ==
  ASSUME GroupInv, NEW s \in Near \cup Far, SubFar(s)
  PROVE  GroupInv'
<1> USE DEF GroupInv, GroupTypeOK
<1>1. /\ s \in Far /\ sub[s] # "calls" /\ ops' = ops + 1
      /\ channel_remote' = channel_remote /\ toFar' = toFar
      /\ pack' = pack /\ loop' = loop /\ pubs' = pubs /\ overtaken' = overtaken
  BY DEF SubFar, Op, packages
<1>2. PacksTyped' /\ PacksCounted' /\ toNear \in Seq(NearMsgs) /\ toFar \in Seq(FarMsgs)
  BY <1>1 DEF PacksTyped, PacksCounted, LinksTyped
<1>3. CASE group["far"] = NULL
  <2> DEFINE m == M("SUBR", s)
  <2>1. m \in NearMsgs /\ m.type = "SUBR" /\ m.of = s
    BY <1>1 DEF NearMsgs, M
  <2>2. /\ sub' = [sub EXCEPT ![s] = "calls"] /\ toNear' = Append(toNear, m)
        /\ group' = group /\ channel_n' = channel_n
    BY <1>3 DEF SubFar
  <2> HIDE DEF m
  <2>3. MembersTyped' /\ MembersCounted'
    BY <1>1, <2>2 DEF MembersTyped, MembersCounted
  <2>4. LinksTyped'
    BY <1>1, <1>2, <2>1, <2>2, Appended DEF LinksTyped
  <2>5. sub'[s] = "calls" /\ \A t \in Far : t # s => sub'[t] = sub[t]
    BY <1>1, <2>2 DEF MembersTyped
  <2>6. OneQuestion(Append(toNear, m), toFar, sub')
    BY <1>1, <1>2, <2>5, QuestionAsked DEF m
  <2>7. ~overtaken =>
          NodesAgree(group["near"], group["far"], channel_remote, Append(toNear, m), toFar)
    BY <1>2, <2>1, AgreeNearSent
  <2> QED
    BY <1>1, <1>2, <2>2, <2>3, <2>4, <2>6, <2>7
<1>4. CASE group["far"] # NULL
  <2>1. sub' = [sub EXCEPT ![s] = "yes"] /\ Joined("far", s) /\ toNear' = toNear
    BY <1>4 DEF SubFar
  <2>2. /\ group' \in [Node -> {NULL} \cup SUBSET (Near \cup Far)]
        /\ group'["near"] # NULL => group'["near"] \subseteq Near
        /\ group'["far"] # NULL => group'["far"] \subseteq Far /\ group'["far"] # {}
        /\ channel_n' \in [Node -> Int] /\ MembersCounted'
        /\ group'["near"] = group["near"] /\ group'["far"] # NULL
    <3>1. "near" \in Node /\ "far" \in Node
      BY DEF Node
    <3> QED
      BY <1>1, <2>1, <3>1, JoinedCounts
  <2>3. MembersTyped'
    BY <1>1, <2>1, <2>2 DEF MembersTyped
  <2>4. \A t \in Far : t # s => sub'[t] = sub[t]
    BY <2>1 DEF MembersTyped
  <2>5. OneQuestion(toNear, toFar, sub')
    BY <1>1, <1>2, <2>4, QuestionElsewhere
  <2>6. ~overtaken' => NodesAgree(group["near"], group["far"], channel_remote, toNear, toFar)'
    BY <1>1, <1>4, <2>1, <2>2, AgreeMembers
  <2>7. LinksTyped'
    BY <1>1, <1>2, <2>1 DEF LinksTyped
  <2> QED
    BY <1>1, <1>2, <2>1, <2>2, <2>3, <2>5, <2>6, <2>7
<1> QED
  BY <1>3, <1>4

\* SUBR.
LEMMA SubrKeeps ==
  ASSUME GroupInv, Subr
  PROVE  GroupInv'
<1> USE DEF GroupInv, GroupTypeOK
<1> DEFINE h == Head(toNear)
           m == M(IF group["near"] = NULL THEN "none" ELSE "nil", h.of)
<1>1. /\ toNear # <<>> /\ h.type = "SUBR" /\ toNear' = Tail(toNear)
      /\ channel_remote' = IF group["near"] = NULL THEN channel_remote ELSE "in"
      /\ toFar' = Append(toFar, m)
      /\ group' = group /\ channel_n' = channel_n /\ sub' = sub /\ ops' = ops
      /\ pack' = pack /\ loop' = loop /\ pubs' = pubs /\ overtaken' = overtaken
  BY DEF Subr, ReadNear, packages
<1>2. PacksTyped' /\ PacksCounted' /\ toNear \in Seq(NearMsgs) /\ toFar \in Seq(FarMsgs)
  BY <1>1 DEF PacksTyped, PacksCounted, LinksTyped
<1>3. h.of \in Far
  BY <1>1, <1>2, Shortened, NearTyped
<1>4. m \in FarMsgs /\ m.of = h.of
      /\ m.type = IF group["near"] = NULL THEN "none" ELSE "nil"
  BY <1>3 DEF FarMsgs, M
<1> HIDE DEF m
<1>5. MembersTyped' /\ MembersCounted'
  BY <1>1 DEF MembersTyped, MembersCounted
<1>6. LinksTyped'
  BY <1>1, <1>2, <1>4, Appended, Shortened DEF LinksTyped
<1>7. OneQuestion(Tail(toNear), Append(toFar, m), sub)
  BY <1>1, <1>2, <1>4, QuestionAnswered
<1>8. ASSUME ~overtaken
      PROVE  NodesAgree(group["near"], group["far"], channel_remote',
                        Tail(toNear), Append(toFar, m))
  <2>1. NodesAgree(group["near"], group["far"], channel_remote, toNear, toFar)
    BY <1>8
  <2>2. CASE group["near"] # NULL
    BY <1>1, <1>2, <1>4, <2>1, <2>2, AgreeAnswered
  <2>3. CASE group["near"] = NULL
    <3>1. Tail(toNear) \in Seq(NearMsgs)
      BY <1>1, <1>2, Shortened
    <3>2. NodesAgree(group["near"], group["far"], channel_remote, Tail(toNear), toFar)
      BY <1>1, <1>2, <2>1, AgreeNearTaken
    <3> QED
      BY <1>1, <1>2, <1>4, <2>3, <3>1, <3>2, AgreeFarSent
  <2> QED
    BY <2>2, <2>3
<1> QED
  BY <1>1, <1>2, <1>5, <1>6, <1>7, <1>8

\* SUB goes on.
LEMMA SubGoesOnKeeps ==
  ASSUME GroupInv, SubGoesOn
  PROVE  GroupInv'
<1> USE DEF GroupInv, GroupTypeOK
<1> DEFINE h == Head(toFar)
           s == h.of
<1>1. /\ toFar # <<>> /\ h.type \in Answer /\ toFar' = Tail(toFar)
      /\ \/ h.type = "nil" /\ Joined("far", s)
         \/ h.type = "none" /\ group' = group /\ channel_n' = channel_n
      /\ sub' = [sub EXCEPT ![s] = "yes"]
      /\ channel_remote' = channel_remote /\ toNear' = toNear /\ ops' = ops
      /\ pack' = pack /\ loop' = loop /\ pubs' = pubs /\ overtaken' = overtaken
  BY DEF SubGoesOn, ReadFar, packages, Answer
<1>2. PacksTyped' /\ PacksCounted' /\ toNear \in Seq(NearMsgs) /\ toFar \in Seq(FarMsgs)
  BY <1>1 DEF PacksTyped, PacksCounted, LinksTyped
<1>3. s \in Far
  BY <1>1, <1>2, Shortened, FarTyped
<1>4. LinksTyped'
  BY <1>1, <1>2, Shortened DEF LinksTyped
<1>5. OneQuestion(toNear, Tail(toFar), sub')
  <2>1. \A t \in Far : t # s => sub'[t] = sub[t]
    BY <1>1 DEF MembersTyped
  <2> QED
    BY <1>1, <1>2, <2>1, QuestionOver
<1>6. CASE h.type = "nil" /\ Joined("far", s)
  <2>1. /\ group' \in [Node -> {NULL} \cup SUBSET (Near \cup Far)]
        /\ group'["near"] # NULL => group'["near"] \subseteq Near
        /\ group'["far"] # NULL => group'["far"] \subseteq Far /\ group'["far"] # {}
        /\ channel_n' \in [Node -> Int] /\ MembersCounted'
        /\ group'["near"] = group["near"] /\ group'["far"] # NULL
    <3>1. "near" \in Node /\ "far" \in Node
      BY DEF Node
    <3> HIDE DEF s
    <3> QED
      BY <1>3, <1>6, <3>1, JoinedCounts
  <2>2. MembersTyped'
    BY <1>1, <2>1 DEF MembersTyped
  <2>3. ~overtaken => NodesAgree(group'["near"], group'["far"], channel_remote, toNear, Tail(toFar))
    BY <1>1, <1>2, <1>6, <2>1, AgreeJoined
  <2> QED
    BY <1>1, <1>2, <1>4, <1>5, <2>1, <2>2, <2>3
<1>7. CASE h.type = "none" /\ group' = group /\ channel_n' = channel_n
  <2>1. MembersTyped' /\ MembersCounted'
    BY <1>1, <1>7 DEF MembersTyped, MembersCounted
  <2>2. ~overtaken => NodesAgree(group["near"], group["far"], channel_remote, toNear, Tail(toFar))
    BY <1>1, <1>2, <1>7, AgreeFarTaken
  <2> QED
    BY <1>1, <1>2, <1>4, <1>5, <1>7, <2>1, <2>2
<1> QED
  BY <1>1, <1>6, <1>7

\* USUB.
LEMMA UsubKeeps ==
  ASSUME GroupInv, NEW s \in Near \cup Far, Usub(s)
  PROVE  GroupInv'
<1> USE DEF GroupInv, GroupTypeOK
<1> DEFINE d == Of(s)
<1>1. /\ sub[s] = "yes" /\ ops' = ops + 1 /\ sub' = [sub EXCEPT ![s] = "no"]
      /\ channel_remote' = channel_remote /\ toFar' = toFar
      /\ pack' = pack /\ loop' = loop /\ pubs' = pubs
  BY DEF Usub, Op, packages
<1>2. PacksTyped' /\ PacksCounted' /\ toNear \in Seq(NearMsgs) /\ toFar \in Seq(FarMsgs)
  BY <1>1 DEF PacksTyped, PacksCounted, LinksTyped
<1>3. d \in Node /\ (d = "far" <=> s \in Far) /\ "near" \in Node /\ "far" \in Node
  BY NodeOf DEF Node
<1>4. \A t \in Far : t # s => sub'[t] = sub[t]
  BY <1>1 DEF MembersTyped
<1>5. OneQuestion(toNear, toFar, sub')
  BY <1>1, <1>2, <1>4, QuestionElsewhere
<1>6. CASE /\ group' = group /\ channel_n' = channel_n /\ toNear' = toNear /\ overtaken' = overtaken
  <2>1. MembersTyped' /\ MembersCounted' /\ LinksTyped'
    BY <1>1, <1>6 DEF MembersTyped, MembersCounted, LinksTyped
  <2> QED
    BY <1>1, <1>2, <1>5, <1>6, <2>1
<1>7. CASE /\ group[d] # NULL /\ s \in group[d]
           /\ group' = [group EXCEPT ![d] = @ \ {s}]
           /\ d = "far" => group[d] # {s}
           /\ channel_n' = [channel_n EXCEPT ![d] = @ - 1]
           /\ toNear' = toNear /\ overtaken' = overtaken
  <2> DEFINE g == group[d] \ {s}
  <2>1. g # NULL /\ (d = "far" => g # {}) /\ group' = [group EXCEPT ![d] = g]
    BY <1>3, <1>7, GroupAssumption DEF MembersTyped
  <2> HIDE DEF d
  <2>2. g = group[d] \ {s}
    OBVIOUS
  <2> HIDE DEF g
  <2>3. /\ group' \in [Node -> {NULL} \cup SUBSET (Near \cup Far)]
        /\ group'["near"] # NULL => group'["near"] \subseteq Near
        /\ group'["far"] # NULL => group'["far"] \subseteq Far /\ group'["far"] # {}
        /\ channel_n' \in [Node -> Int] /\ MembersCounted'
        /\ group'[d] = g /\ \A e \in Node : e # d => group'[e] = group[e]
    BY <1>3, <1>7, <2>1, <2>2, LeftCounts
  <2>4. MembersTyped' /\ LinksTyped'
    BY <1>1, <1>2, <1>7, <2>3 DEF MembersTyped, LinksTyped
  <2>5. ~overtaken' => NodesAgree(group["near"], group["far"], channel_remote, toNear, toFar)'
    <3>1. /\ group'["near"] = NULL <=> group["near"] = NULL
          /\ group'["far"] = NULL <=> group["far"] = NULL
      BY <1>3, <1>7, <2>1, <2>3
    <3> QED
      BY <1>1, <1>7, <3>1, AgreeMembers
  <2> QED
    BY <1>1, <1>2, <1>5, <1>7, <2>3, <2>4, <2>5
<1>8. CASE /\ s \in Far /\ group["far"] = {s}
           /\ group' = [group EXCEPT !["far"] = NULL]
           /\ channel_n' = [channel_n EXCEPT !["far"] = @ - 1]
           /\ toNear' = Append(toNear, M("USUBR", NULL))
           /\ overtaken' = (overtaken \/ Calls)
  <2> DEFINE m == M("USUBR", NULL)
  <2>1. m \in NearMsgs /\ m.type = "USUBR"
    BY DEF NearMsgs, M
  <2>2. /\ group' \in [Node -> {NULL} \cup SUBSET (Near \cup Far)]
        /\ group'["near"] # NULL => group'["near"] \subseteq Near
        /\ group'["far"] # NULL => group'["far"] \subseteq Far /\ group'["far"] # {}
        /\ channel_n' \in [Node -> Int] /\ MembersCounted'
        /\ group'["far"] = NULL /\ \A e \in Node : e # "far" => group'[e] = group[e]
    <3>1. group["far"] # NULL /\ s \in group["far"]
      BY <1>8, GroupAssumption
    <3> QED
      BY <1>3, <1>8, <3>1, LeftCounts
  <2>3. overtaken' \in BOOLEAN
    BY <1>8 DEF MembersTyped
  <2>4. MembersTyped'
    BY <1>1, <2>2, <2>3 DEF MembersTyped
  <2>5. OneQuestion(Append(toNear, m), toFar, sub')
    BY <1>2, <1>5, <2>1, QuestionNearSent
  <2>6. LinksTyped'
    <3> HIDE DEF m
    <3>1. toNear' = Append(toNear, m)
      BY <1>8 DEF m
    <3> QED
      BY <1>1, <1>2, <2>1, <3>1, Appended DEF LinksTyped
  <2>7. ASSUME ~overtaken'
        PROVE  NodesAgree(group["near"], NULL, channel_remote, Append(toNear, m), toFar)
    <3>1. ~overtaken /\ ~Calls
      BY <1>8, <2>7
    <3>2. ~Carries(toNear, "SUBR")
      BY <1>2, <3>1, NearTyped DEF Carries, OneQuestion, Calls
    <3>3. ~Carries(toFar, "nil")
      BY <1>2, <3>1, FarTyped DEF Carries, OneQuestion, Calls, Answer
    <3>4. group["far"] # NULL
      BY <1>8, GroupAssumption
    <3> QED
      BY <1>2, <3>1, <3>2, <3>3, <3>4, AgreeLeft
  <2>8. group'["near"] = group["near"]
    BY <1>3, <2>2
  <2> QED
    BY <1>1, <1>2, <1>8, <2>2, <2>4, <2>5, <2>6, <2>7, <2>8
<1> QED
  <2>1. CASE group[d] = NULL \/ s \notin group[d]
    BY <1>6, <2>1 DEF Usub
  <2>2. CASE group[d] # NULL /\ s \in group[d] /\ s \in Far
    <3>1. LeavesFar(s) /\ d = "far"
      BY <1>3, <2>2 DEF Usub
    <3>2. CASE group["far"] = {s}
      BY <1>8, <2>2, <3>1, <3>2 DEF LeavesFar
    <3>3. CASE group["far"] # {s}
      <4>1. [group EXCEPT !["far"] = IF @ = {s} THEN NULL ELSE @ \ {s}]
              = [group EXCEPT !["far"] = @ \ {s}]
        BY <1>3, <3>3 DEF MembersTyped
      <4> QED
        BY <1>7, <2>2, <3>1, <3>3, <4>1 DEF LeavesFar
    <3> QED
      BY <3>2, <3>3
  <2>3. CASE group[d] # NULL /\ s \in group[d] /\ s \notin Far
    <3>1. d = "near"
      BY <1>3, <2>3 DEF Node
    <3> QED
      BY <1>7, <2>3, <3>1 DEF Usub
  <2> QED
    BY <2>1, <2>2, <2>3

\* USUBR.
LEMMA UsubrKeeps ==
  ASSUME GroupInv, Usubr
  PROVE  GroupInv'
<1> USE DEF GroupInv, GroupTypeOK
<1>1. /\ toNear # <<>> /\ Head(toNear).type = "USUBR" /\ toNear' = Tail(toNear)
      /\ channel_remote' = IF channel_remote = "nil" THEN "nil" ELSE "out"
      /\ toFar' = toFar /\ group' = group /\ channel_n' = channel_n /\ sub' = sub /\ ops' = ops
      /\ pack' = pack /\ loop' = loop /\ pubs' = pubs /\ overtaken' = overtaken
  BY DEF Usubr, ReadNear, packages
<1>2. PacksTyped' /\ PacksCounted' /\ toNear \in Seq(NearMsgs) /\ toFar \in Seq(FarMsgs)
  BY <1>1 DEF PacksTyped, PacksCounted, LinksTyped
<1>3. MembersTyped' /\ MembersCounted'
  BY <1>1 DEF MembersTyped, MembersCounted
<1>4. LinksTyped'
  BY <1>1, <1>2, Shortened DEF LinksTyped
<1>5. OneQuestion(Tail(toNear), toFar, sub)
  BY <1>1, <1>2, QuestionNearTaken
<1>6. ~overtaken =>
        NodesAgree(group["near"], group["far"], IF channel_remote = "nil" THEN "nil" ELSE "out",
                   Tail(toNear), toFar)
  BY <1>1, <1>2, AgreeEnded
<1> QED
  BY <1>1, <1>2, <1>3, <1>4, <1>5, <1>6

\* DEL.
LEMMA DelKeeps ==
  ASSUME GroupInv, Del
  PROVE  GroupInv'
<1> USE DEF GroupInv, GroupTypeOK
<1> DEFINE m == M("DELR", NULL)
           w == IF channel_remote = "in" THEN Append(toFar, m) ELSE toFar
<1>1. /\ group["near"] # NULL /\ group' = [group EXCEPT !["near"] = NULL]
      /\ channel_n' = [channel_n EXCEPT !["near"] = 0] /\ channel_remote' = "nil"
      /\ toFar' = w /\ toNear' = toNear /\ sub' = sub /\ ops' = ops
      /\ pack' = pack /\ loop' = loop /\ pubs' = pubs /\ overtaken' = overtaken
  BY DEF Del, packages
<1>2. PacksTyped' /\ PacksCounted' /\ toNear \in Seq(NearMsgs) /\ toFar \in Seq(FarMsgs)
  BY <1>1 DEF PacksTyped, PacksCounted, LinksTyped
<1>3. /\ group' \in [Node -> {NULL} \cup SUBSET (Near \cup Far)]
      /\ group'["near"] = NULL /\ group'["far"] = group["far"]
      /\ channel_n' \in [Node -> Int] /\ channel_n'["far"] = channel_n["far"]
  BY <1>1 DEF MembersTyped, Node
<1>4. MembersTyped' /\ MembersCounted'
  BY <1>1, <1>3 DEF MembersTyped, MembersCounted, Node
<1>5. m \in FarMsgs /\ m.type \notin Answer
  BY DEF FarMsgs, M, Answer
<1>6. w \in Seq(FarMsgs)
  BY <1>2, <1>5, Appended
<1>7. OneQuestion(toNear, w, sub)
  BY <1>2, <1>5, QuestionFarSent
<1>8. ~overtaken => NodesAgree(NULL, group["far"], "nil", toNear, w)
  BY <1>1, <1>2, AgreeDeleted
<1> HIDE DEF w
<1>9. LinksTyped'
  BY <1>1, <1>2, <1>6 DEF LinksTyped
<1> QED
  BY <1>1, <1>2, <1>3, <1>4, <1>7, <1>8, <1>9

\* DELR.
LEMMA DelrKeeps ==
  ASSUME GroupInv, Delr
  PROVE  GroupInv'
<1> USE DEF GroupInv, GroupTypeOK
<1>1. /\ toFar # <<>> /\ Head(toFar).type = "DELR" /\ toFar' = Tail(toFar)
      /\ group' = [group EXCEPT !["far"] = NULL] /\ channel_n' = [channel_n EXCEPT !["far"] = 0]
      /\ channel_remote' = channel_remote /\ toNear' = toNear /\ sub' = sub /\ ops' = ops
      /\ pack' = pack /\ loop' = loop /\ pubs' = pubs /\ overtaken' = overtaken
  BY DEF Delr, ReadFar, packages
<1>2. PacksTyped' /\ PacksCounted' /\ toNear \in Seq(NearMsgs) /\ toFar \in Seq(FarMsgs)
  BY <1>1 DEF PacksTyped, PacksCounted, LinksTyped
<1>3. /\ group' \in [Node -> {NULL} \cup SUBSET (Near \cup Far)]
      /\ group'["far"] = NULL /\ group'["near"] = group["near"]
      /\ channel_n' \in [Node -> Int] /\ channel_n'["near"] = channel_n["near"]
  BY <1>1 DEF MembersTyped, Node
<1>4. MembersTyped' /\ MembersCounted'
  BY <1>1, <1>3 DEF MembersTyped, MembersCounted, Node
<1>5. LinksTyped'
  BY <1>1, <1>2, Shortened DEF LinksTyped
<1>6. OneQuestion(toNear, Tail(toFar), sub)
  BY <1>1, <1>2, QuestionFarTaken
<1>7. ~overtaken => NodesAgree(group["near"], NULL, channel_remote, toNear, Tail(toFar))
  BY <1>1, <1>2, AgreeForgotten
<1> QED
  BY <1>1, <1>2, <1>3, <1>4, <1>5, <1>6, <1>7

\* PUB, and the messages of packages between the nodes.
LEMMA PubKeeps ==
  ASSUME GroupInv, PubNear \/ PubFar \/ PubRemote
  PROVE  GroupInv'
<1> USE DEF GroupInv, GroupTypeOK
<1>1. /\ group' = group /\ channel_n' = channel_n /\ channel_remote' = channel_remote
      /\ sub' = sub /\ ops' = ops /\ overtaken' = overtaken
      /\ toNear \in Seq(NearMsgs) /\ toFar \in Seq(FarMsgs) /\ "near" \in Node /\ "far" \in Node
  BY DEF PubNear, PubFar, PubRemote, LinksTyped, Node
<1>2. MembersTyped' /\ MembersCounted'
  BY <1>1 DEF MembersTyped, MembersCounted
<1>3. CASE PubNear
  <2>1. /\ AtRest("near") /\ pubs < MaxPub /\ pubs' = pubs + 1 /\ Publish("near", pubs + 1)
        /\ toNear' = toNear /\ toFar' = toFar
    BY <1>3 DEF PubNear
  <2>2. pubs + 1 \in 1 .. MaxPub /\ pubs' \in 0 .. MaxPub
    BY <2>1, GroupAssumption DEF PacksTyped
  <2>3. PacksTyped' /\ PacksCounted'
    BY <1>1, <2>1, <2>2, PublishKeeps DEF PacksTyped
  <2> QED
    BY <1>1, <1>2, <2>1, <2>3 DEF LinksTyped
<1>4. CASE PubFar
  <2> DEFINE m == M("PUB", pubs + 1)
  <2>1. /\ pubs < MaxPub /\ pubs' = pubs + 1 /\ toNear' = Append(toNear, m)
        /\ toFar' = toFar /\ pack' = pack /\ loop' = loop
    BY <1>4 DEF PubFar
  <2>2. pubs + 1 \in 1 .. MaxPub /\ pubs' \in 0 .. MaxPub
    BY <2>1, GroupAssumption DEF PacksTyped
  <2>3. PacksTyped' /\ PacksCounted'
    BY <2>1, <2>2 DEF PacksTyped, PacksCounted
  <2>4. m \in NearMsgs /\ m.type = "PUB"
    BY <2>2 DEF NearMsgs, M
  <2> HIDE DEF m
  <2>5. LinksTyped'
    BY <1>1, <2>1, <2>4, Appended DEF LinksTyped
  <2>6. OneQuestion(Append(toNear, m), toFar, sub)
    BY <1>1, <2>4, QuestionNearSent
  <2>7. ~overtaken =>
          NodesAgree(group["near"], group["far"], channel_remote, Append(toNear, m), toFar)
    BY <1>1, <2>4, AgreeNearSent
  <2> QED
    BY <1>1, <1>2, <2>1, <2>3, <2>5, <2>6, <2>7
<1>5. CASE /\ ReadNear("PUB") /\ Publish("near", Head(toNear).of)
           /\ toNear' = Tail(toNear) /\ toFar' = toFar /\ pubs' = pubs
  <2>1. /\ AtRest("near") /\ toNear # <<>> /\ Head(toNear).type = "PUB"
        /\ Head(toNear).of \in 1 .. MaxPub
    BY <1>1, <1>5, Shortened, NearTyped DEF ReadNear
  <2>2. PacksTyped' /\ PacksCounted'
    BY <1>1, <1>5, <2>1, PublishKeeps DEF PacksTyped
  <2>3. LinksTyped'
    BY <1>1, <1>5, <2>1, Shortened DEF LinksTyped
  <2>4. OneQuestion(Tail(toNear), toFar, sub)
    BY <1>1, <2>1, QuestionNearTaken
  <2>5. ~overtaken =>
          NodesAgree(group["near"], group["far"], channel_remote, Tail(toNear), toFar)
    BY <1>1, <2>1, AgreeNearTaken
  <2> QED
    BY <1>1, <1>2, <1>5, <2>2, <2>3, <2>4, <2>5
<1>6. CASE /\ ReadFar("PUB") /\ Publish("far", Head(toFar).of)
           /\ toFar' = Tail(toFar) /\ toNear' = toNear /\ pubs' = pubs
  <2>1. /\ AtRest("far") /\ toFar # <<>> /\ Head(toFar).type = "PUB"
        /\ Head(toFar).of \in 1 .. MaxPub
    BY <1>1, <1>6, Shortened, FarTyped DEF ReadFar
  <2>2. PacksTyped' /\ PacksCounted'
    BY <1>1, <1>6, <2>1, PublishKeeps DEF PacksTyped
  <2>3. LinksTyped'
    BY <1>1, <1>6, <2>1, Shortened DEF LinksTyped
  <2>4. OneQuestion(toNear, Tail(toFar), sub)
    BY <1>1, <2>1, QuestionFarTaken
  <2>5. ~overtaken =>
          NodesAgree(group["near"], group["far"], channel_remote, toNear, Tail(toFar))
    BY <1>1, <2>1, AgreeFarTaken
  <2> QED
    BY <1>1, <1>2, <1>6, <2>2, <2>3, <2>4, <2>5
<1> QED
  BY <1>3, <1>4, <1>5, <1>6 DEF PubRemote

\* The loop of publish and its end, and the subscribers that handle what they were sent.
LEMMA SendKeeps ==
  ASSUME GroupInv, NEW d \in Node,
         \/ SendOne(d) \/ SendRemote(d)
         \/ \E p \in 1 .. MaxPub, s \in Near \cup Far : Close(d, p, s)
  PROVE  GroupInv'
<1> USE DEF GroupInv, GroupTypeOK
<1>1. /\ group' = group /\ channel_n' = channel_n /\ channel_remote' = channel_remote
      /\ sub' = sub /\ ops' = ops /\ overtaken' = overtaken /\ toNear' = toNear
      /\ toNear \in Seq(NearMsgs) /\ toFar \in Seq(FarMsgs)
  BY DEF SendOne, SendRemote, Close, LinksTyped
<1>2. MembersTyped' /\ MembersCounted'
  BY <1>1 DEF MembersTyped, MembersCounted
<1>3. PacksTyped' /\ PacksCounted'
  BY SendOnePacks, SendRemotePacks, ClosePacks
<1>4. CASE toFar' = toFar
  BY <1>1, <1>2, <1>3, <1>4 DEF LinksTyped
<1>5. CASE SendRemote(d) /\ toFar' = Append(toFar, M("PUB", loop[d].p))
  <2> DEFINE m == M("PUB", loop[d].p)
  <2>1. loop[d].p \in 1 .. MaxPub
    BY <1>5, SendRemotePacks
  <2>2. m \in FarMsgs /\ m.type = "PUB" /\ m.type \notin Answer
    BY <2>1 DEF FarMsgs, M, Answer
  <2> HIDE DEF m
  <2>3. toFar' = Append(toFar, m)
    BY <1>5 DEF m
  <2>4. LinksTyped'
    BY <1>1, <2>2, <2>3, Appended DEF LinksTyped
  <2>5. OneQuestion(toNear, Append(toFar, m), sub)
    BY <1>1, <2>2, QuestionFarSent
  <2>6. ~overtaken =>
          NodesAgree(group["near"], group["far"], channel_remote, toNear, Append(toFar, m))
    BY <1>1, <2>2, AgreeFarSent
  <2> QED
    BY <1>1, <1>2, <1>3, <2>3, <2>4, <2>5, <2>6
<1> QED
  BY <1>4, <1>5 DEF SendOne, SendRemote, Close
-----------------------------------------------------------------------------
(* Multicast.                                                              *)

LEMMA GroupInitially == GroupInit => GroupInv
<1> SUFFICES ASSUME GroupInit PROVE GroupInv
  OBVIOUS
<1> USE DEF GroupInit
<1>1. /\ group["near"] = {} /\ group["far"] = NULL /\ {} # NULL
  BY GroupAssumption DEF Node
<1>2. MembersTyped
  <2>1. group \in [Node -> {NULL} \cup SUBSET (Near \cup Far)]
    OBVIOUS
  <2>2. channel_n \in [Node -> Int] /\ sub \in [Near \cup Far -> {"no", "calls", "yes"}]
    OBVIOUS
  <2> QED
    BY <1>1, <2>1, <2>2 DEF MembersTyped
<1>3. LinksTyped
  BY DEF LinksTyped
<1>4. None \in Packs /\ None.state = "none" /\ None.out = {}
  BY DEF None, Packs
<1>5. Idle \in [p : 0 .. MaxPub, rest : SUBSET (Near \cup Far)] /\ Idle.p = 0 /\ Idle.rest = {}
  BY GroupAssumption DEF Idle
<1>6. PacksTyped
  BY <1>4, <1>5, GroupAssumption DEF PacksTyped
<1>7. MembersCounted
  <2>1. Cardinality({}) = 0
    BY FS_EmptySet
  <2> QED
    BY <1>1, <2>1 DEF MembersCounted, Node
<1>8. PacksCounted
  BY <1>4, <1>5 DEF PacksCounted, PackCounted, Unhandled
<1>9. OneQuestion(toNear, toFar, sub)
  BY DEF OneQuestion
<1>10. NodesAgree(group["near"], group["far"], channel_remote, toNear, toFar)
  BY <1>1 DEF NodesAgree, EndsFirst, RemoteKnown, Carries
<1> QED
  BY <1>2, <1>3, <1>6, <1>7, <1>8, <1>9, <1>10 DEF GroupInv, GroupTypeOK

LEMMA GroupStep == GroupInv /\ [GroupNext]_mcVars => GroupInv'
<1> SUFFICES ASSUME GroupInv, [GroupNext]_mcVars PROVE GroupInv'
  OBVIOUS
<1>1. CASE UNCHANGED mcVars
  BY <1>1 DEF mcVars, GroupInv, GroupTypeOK, MembersTyped, LinksTyped, PacksTyped,
              MembersCounted, PacksCounted
<1>2. CASE GroupNext
  BY <1>2, SubNearKeeps, SubFarKeeps, UsubKeeps, SubrKeeps, SubGoesOnKeeps, UsubrKeeps,
     DelKeeps, DelrKeeps, PubKeeps, SendKeeps DEF GroupNext
<1> QED
  BY <1>1, <1>2

\* Through any number of subscriptions, ends, messages and a deletion, the count of a
\* package is that of the messages which lead to it and will be sent; and with nothing on
\* the way the two nodes agree on whether the other one has subscribers, unless it was
\* unsubscribed between a question and its answer.
THEOREM NodesAgreeOnGroups == GroupSpec => []GroupsAgree
<1>1. GroupInv => GroupsAgree
  <2> SUFFICES ASSUME GroupInv PROVE GroupsAgree
    OBVIOUS
  <2> USE DEF GroupInv, GroupTypeOK
  <2>1. ReferenceExact
    <3>1. ASSUME NEW d \in Node, NEW p \in 1 .. MaxPub, NEW q, q = pack[d][p], NEW all,
                 all = q.out \cup (IF loop[d].p = p THEN loop[d].rest ELSE {})
          PROVE  /\ q.state = "live" => q.reference = Cardinality(all)
                 /\ q.state = "freed" => all = {}
      BY <3>1 DEF PacksCounted, PackCounted, Unhandled
    <3> QED
      BY <3>1 DEF ReferenceExact
  <2>2. Quiet /\ ~overtaken =>
          ~Carries(toFar, "nil") /\ ~Carries(toNear, "USUBR") /\ ~Carries(toFar, "DELR")
    BY DEF Quiet, Carries
  <2>3. SubscribersReached
    BY <2>2 DEF SubscribersReached, NodesAgree, RemoteKnown
  <2>4. DeletedForgotten
    BY <2>2 DEF DeletedForgotten, NodesAgree, DeleteIsLast
  <2> QED
    BY <2>1, <2>3, <2>4 DEF GroupsAgree
<1>2. GroupSpec => []GroupInv
  BY GroupInitially, GroupStep, PTL DEF GroupSpec
<1> QED
  BY <1>1, <1>2, PTL

-----------------------------------------------------------------------------
(* The harbor.                                                             *)

HarborTypeOK ==
  /\ fd \in [Harbor -> BOOLEAN]
  /\ status \in [Harbor -> {"WAIT", "HANDSHAKE", "HEADER", "DOWN"}]
  /\ queue \in [Harbor -> Seq(Nat)] /\ wire \in [Harbor -> Seq(Nat)]
  /\ value \in [Name -> BOOLEAN] /\ nameq \in [Name -> Seq(Nat)]
  /\ sent \in Seq(Address) /\ here \in Seq(Nat)

\* What each place holds when the lists and sets are these.
Held(w, q, nq, own, gone, told) ==
  [p \in Place |-> CASE p[1] = "wire"    -> Range(w[p[2]])
                     [] p[1] = "queue"   -> Range(q[p[2]])
                     [] p[1] = "name"    -> Range(nq[p[2]])
                     [] p[1] = "here"    -> Range(own)
                     [] p[1] = "dropped" -> gone
                     [] p[1] = "errors"  -> told]

\* Each of n messages is in one place.
OneHolder(H, n) ==
  /\ \A p \in Place : H[p] \subseteq 1 .. n
  /\ \A k \in 1 .. n : \E p \in Place : \A q \in Place : k \in H[q] <=> q = p

\* From H to G, place p gets a message k, or t gets all that p had.
Gains(G, H, p, k) == \A r \in Place : G[r] = IF r = p THEN H[p] \cup {k} ELSE H[r]
Shifts(G, H, p, t) ==
  \A r \in Place : G[r] = IF r = p THEN {} ELSE IF r = t THEN H[t] \cup H[p] ELSE H[r]

\* Messages of one address are in the order they came; those in s came before those in r.
Ordered(s, of) == \A i, j \in DOMAIN s : i < j /\ of[s[i]] = of[s[j]] => s[i] < s[j]
Behind(s, r, of) == \A i \in DOMAIN s, j \in DOMAIN r : of[s[i]] = of[r[j]] => s[i] < r[j]

ListsOrdered(w, q, nq, of) ==
  /\ \A h \in Harbor : Ordered(w[h], of) /\ Ordered(q[h], of) /\ Behind(w[h], q[h], of)
  /\ \A n \in Name : Ordered(nq[n], of)

\* What waits for a name is for that name, and nothing for it went further.
NamesFirst(w, q, nq, v, of) ==
  \A n \in Name :
    /\ \A i \in DOMAIN nq[n] : of[nq[n][i]] = ByName(n)
    /\ ~v[n] => \A h \in Harbor : /\ \A i \in DOMAIN w[h] : of[w[h][i]] # ByName(n)
                                  /\ \A i \in DOMAIN q[h] : of[q[h][i]] # ByName(n)

\* Once connected, a harbor is no more waited for.
Connected == \A h \in Harbor : fd[h] <=> status[h] # "WAIT"

HarborInv ==
  /\ HarborTypeOK /\ Connected /\ NothingStranded
  /\ OneHolder(Held(wire, queue, nameq, here, dropped, errors), Len(sent))
  /\ ListsOrdered(wire, queue, nameq, sent)
  /\ NamesFirst(wire, queue, nameq, value, sent)
  /\ IsInjective(here)

-----------------------------------------------------------------------------
(* Places.                                                                 *)

LEMMA Places ==
  /\ \A h \in Harbor : <<"wire", h>> \in Place /\ <<"queue", h>> \in Place
  /\ \A n \in Name : <<"name", n>> \in Place
  /\ <<"here", Self>> \in Place /\ <<"dropped", Self>> \in Place /\ <<"errors", Self>> \in Place
BY DEF Place

LEMMA PlaceCases ==
  ASSUME NEW p \in Place
  PROVE  \/ \E h \in Harbor : p = <<"wire", h>>
         \/ \E h \in Harbor : p = <<"queue", h>>
         \/ \E n \in Name : p = <<"name", n>>
         \/ p \in {<<"here", Self>>, <<"dropped", Self>>, <<"errors", Self>>}
BY DEF Place

LEMMA HeldAt ==
  ASSUME NEW w, NEW q, NEW nq, NEW own, NEW gone, NEW told
  PROVE  LET H == Held(w, q, nq, own, gone, told)
         IN  /\ \A h \in Harbor : H[<<"wire", h>>] = Range(w[h])
             /\ \A h \in Harbor : H[<<"queue", h>>] = Range(q[h])
             /\ \A n \in Name : H[<<"name", n>>] = Range(nq[n])
             /\ H[<<"here", Self>>] = Range(own)
             /\ H[<<"dropped", Self>>] = gone /\ H[<<"errors", Self>>] = told
BY Places DEF Held

LEMMA Placed ==
  ASSUME NEW H, NEW G, NEW n \in Nat, NEW p \in Place, OneHolder(H, n),
         NEW k, k = n + 1, Gains(G, H, p, k)
  PROVE  OneHolder(G, k)
<1> USE DEF Gains
<1>1. ASSUME NEW r \in Place PROVE G[r] \subseteq 1 .. k
  <2>1. H[r] \subseteq 1 .. n /\ 1 .. n \subseteq 1 .. k /\ k \in 1 .. k
    BY DEF OneHolder
  <2> QED
    BY <2>1
<1>2. ASSUME NEW m \in 1 .. k PROVE \E t \in Place : \A r \in Place : m \in G[r] <=> r = t
  <2>1. CASE m = k
    <3>1. \A r \in Place : m \notin H[r]
      BY <2>1 DEF OneHolder
    <3> QED
      BY <2>1, <3>1
  <2>2. CASE m # k
    <3>1. m \in 1 .. n
      BY <2>2
    <3>2. PICK t \in Place : \A r \in Place : m \in H[r] <=> r = t
      BY <3>1 DEF OneHolder
    <3>3. \A r \in Place : m \in G[r] <=> m \in H[r]
      BY <2>2
    <3> QED
      BY <3>2, <3>3
  <2> QED
    BY <2>1, <2>2
<1> QED
  BY <1>1, <1>2 DEF OneHolder

LEMMA Moved ==
  ASSUME NEW H, NEW G, NEW n \in Nat, NEW p \in Place, NEW t \in Place, p # t, OneHolder(H, n),
         Shifts(G, H, p, t)
  PROVE  OneHolder(G, n)
<1> USE DEF Shifts
<1>1. \A r \in Place : G[r] \subseteq 1 .. n
  BY DEF OneHolder
<1>2. ASSUME NEW k \in 1 .. n PROVE \E u \in Place : \A r \in Place : k \in G[r] <=> r = u
  <2>1. PICK u \in Place : \A r \in Place : k \in H[r] <=> r = u
    BY DEF OneHolder
  <2>2. CASE u = p
    <3>1. \A r \in Place : k \in G[r] <=> r = t
      BY <2>1, <2>2
    <3> QED
      BY <3>1
  <2>3. CASE u # p
    <3>1. \A r \in Place : k \in G[r] <=> r = u
      BY <2>1, <2>3
    <3> QED
      BY <3>1
  <2> QED
    BY <2>2, <2>3
<1> QED
  BY <1>1, <1>2 DEF OneHolder

-----------------------------------------------------------------------------
(* Lists.                                                                  *)

LEMMA Concatenated ==
  ASSUME NEW S, NEW s \in Seq(S), NEW r \in Seq(S)
  PROVE  /\ s \o r \in Seq(S) /\ Range(s \o r) = Range(s) \cup Range(r)
         /\ \A i \in DOMAIN (s \o r) :
              \/ i \in DOMAIN s /\ (s \o r)[i] = s[i]
              \/ i \notin DOMAIN s /\ i - Len(s) \in DOMAIN r /\ (s \o r)[i] = r[i - Len(s)]
<1> DEFINE t == s \o r
<1>1. /\ t \in Seq(S) /\ Len(t) = Len(s) + Len(r) /\ Len(s) \in Nat /\ Len(r) \in Nat
      /\ DOMAIN s = 1 .. Len(s) /\ DOMAIN r = 1 .. Len(r) /\ DOMAIN t = 1 .. Len(t)
      /\ \A i \in 1 .. Len(t) : t[i] = IF i <= Len(s) THEN s[i] ELSE r[i - Len(s)]
  OBVIOUS
<1> HIDE DEF t
<1>2. ASSUME NEW i \in DOMAIN t
      PROVE  \/ i \in DOMAIN s /\ t[i] = s[i]
             \/ i \notin DOMAIN s /\ i - Len(s) \in DOMAIN r /\ t[i] = r[i - Len(s)]
  BY <1>1
<1>3. Range(t) = Range(s) \cup Range(r)
  <2>1. ASSUME NEW x \in Range(t) PROVE x \in Range(s) \cup Range(r)
    BY <1>2 DEF Range
  <2>2. ASSUME NEW x \in Range(s) PROVE x \in Range(t)
    <3>1. PICK i \in DOMAIN s : x = s[i]
      BY DEF Range
    <3>2. i \in DOMAIN t /\ t[i] = x
      BY <1>1, <3>1
    <3> QED
      BY <3>2 DEF Range
  <2>3. ASSUME NEW x \in Range(r) PROVE x \in Range(t)
    <3>1. PICK i \in DOMAIN r : x = r[i]
      BY DEF Range
    <3>2. i + Len(s) \in DOMAIN t /\ t[i + Len(s)] = x
      BY <1>1, <3>1
    <3> QED
      BY <3>2 DEF Range
  <2> QED
    BY <2>1, <2>2, <2>3
<1> QED
  BY <1>1, <1>2, <1>3 DEF t

LEMMA EmptyList == ASSUME NEW S PROVE <<>> \in Seq(S) /\ DOMAIN <<>> = {} /\ Range(<<>>) = {}
<1>1. <<>> \in Seq(S) /\ DOMAIN <<>> = {}
  OBVIOUS
<1> QED
  BY <1>1 DEF Range

LEMMA AppendedList ==
  ASSUME NEW S, NEW s \in Seq(S), NEW k \in S
  PROVE  /\ Append(s, k) = s \o <<k>> /\ <<k>> \in Seq(S) /\ Range(<<k>>) = {k}
         /\ DOMAIN <<k>> = {1} /\ <<k>>[1] = k
<1>1. <<k>> \in Seq(S) /\ DOMAIN <<k>> = {1} /\ <<k>>[1] = k
  OBVIOUS
<1>2. Append(s, k) = s \o <<k>>
  OBVIOUS
<1> QED
  BY <1>1, <1>2 DEF Range

LEMMA OrderedJoined ==
  ASSUME NEW s \in Seq(Nat), NEW r \in Seq(Nat), NEW of,
         Ordered(s, of), Ordered(r, of), Behind(s, r, of)
  PROVE  Ordered(s \o r, of)
<1> DEFINE t == s \o r
<1>1. \A i \in DOMAIN t :
        \/ i \in DOMAIN s /\ t[i] = s[i]
        \/ i \notin DOMAIN s /\ i - Len(s) \in DOMAIN r /\ t[i] = r[i - Len(s)]
  BY Concatenated
<1>2. DOMAIN s = 1 .. Len(s) /\ DOMAIN r = 1 .. Len(r) /\ DOMAIN t \subseteq Nat \ {0} /\ Len(s) \in Nat
  <2>1. t \in Seq(Nat)
    BY Concatenated
  <2> HIDE DEF t
  <2> QED
    BY <2>1
<1> HIDE DEF t
<1>3. ASSUME NEW i \in DOMAIN t, NEW j \in DOMAIN t, i < j, of[t[i]] = of[t[j]]
      PROVE  t[i] < t[j]
  <2>1. CASE i \in DOMAIN s /\ j \in DOMAIN s
    BY <1>1, <1>2, <1>3, <2>1 DEF Ordered
  <2>2. CASE i \in DOMAIN s /\ j \notin DOMAIN s
    BY <1>1, <1>2, <1>3, <2>2 DEF Behind
  <2>3. CASE i \notin DOMAIN s /\ j \notin DOMAIN s
    <3>1. /\ i - Len(s) \in DOMAIN r /\ t[i] = r[i - Len(s)]
          /\ j - Len(s) \in DOMAIN r /\ t[j] = r[j - Len(s)]
      BY <1>1, <2>3
    <3>2. i - Len(s) < j - Len(s)
      BY <1>2, <1>3
    <3> QED
      BY <1>3, <3>1, <3>2 DEF Ordered
  <2>4. ~(i \notin DOMAIN s /\ j \in DOMAIN s)
    BY <1>2, <1>3
  <2> QED
    BY <2>1, <2>2, <2>3, <2>4
<1> QED
  BY <1>3 DEF t, Ordered

LEMMA BehindJoined ==
  ASSUME NEW s \in Seq(Nat), NEW r \in Seq(Nat), NEW u, NEW of
  PROVE  /\ Behind(s, u, of) /\ Behind(r, u, of) => Behind(s \o r, u, of)
         /\ Behind(u, s, of) /\ Behind(u, r, of) => Behind(u, s \o r, of)
<1> DEFINE t == s \o r
<1>1. \A i \in DOMAIN t :
        \/ i \in DOMAIN s /\ t[i] = s[i]
        \/ i \notin DOMAIN s /\ i - Len(s) \in DOMAIN r /\ t[i] = r[i - Len(s)]
  BY Concatenated
<1> HIDE DEF t
<1>2. Behind(s, u, of) /\ Behind(r, u, of) => Behind(t, u, of)
  BY <1>1 DEF Behind
<1>3. Behind(u, s, of) /\ Behind(u, r, of) => Behind(u, t, of)
  BY <1>1 DEF Behind
<1> QED
  BY <1>2, <1>3 DEF t

\* What is true of the messages of two lists is true of those of both.
LEMMA OthersJoined ==
  ASSUME NEW s \in Seq(Nat), NEW r \in Seq(Nat), NEW of, NEW a
  PROVE  /\ (\A i \in DOMAIN s : of[s[i]] # a) /\ (\A i \in DOMAIN r : of[r[i]] # a)
              => \A i \in DOMAIN (s \o r) : of[(s \o r)[i]] # a
         /\ (\A i \in DOMAIN s : of[s[i]] = a) /\ (\A i \in DOMAIN r : of[r[i]] = a)
              => \A i \in DOMAIN (s \o r) : of[(s \o r)[i]] = a
<1> DEFINE t == s \o r
<1>1. \A i \in DOMAIN t :
        \/ i \in DOMAIN s /\ t[i] = s[i]
        \/ i \notin DOMAIN s /\ i - Len(s) \in DOMAIN r /\ t[i] = r[i - Len(s)]
  BY Concatenated
<1> HIDE DEF t
<1>2. (\A i \in DOMAIN s : of[s[i]] # a) /\ (\A i \in DOMAIN r : of[r[i]] # a)
        => \A i \in DOMAIN t : of[t[i]] # a
  BY <1>1
<1>3. (\A i \in DOMAIN s : of[s[i]] = a) /\ (\A i \in DOMAIN r : of[r[i]] = a)
        => \A i \in DOMAIN t : of[t[i]] = a
  BY <1>1
<1> QED
  BY <1>2, <1>3 DEF t

-----------------------------------------------------------------------------
(* What messages that are appended to a list, and lists that are emptied, do.*)

LEMMA WireJoined ==
  ASSUME NEW w \in [Harbor -> Seq(Nat)], NEW q \in [Harbor -> Seq(Nat)], NEW nq, NEW v, NEW of,
         ListsOrdered(w, q, nq, of), NamesFirst(w, q, nq, v, of),
         NEW h \in Harbor, NEW s \in Seq(Nat), Ordered(s, of),
         Behind(w[h], s, of), Behind(s, q[h], of),
         \A n \in Name : v[n] \/ \A i \in DOMAIN s : of[s[i]] # ByName(n)
  PROVE  LET x == [w EXCEPT ![h] = @ \o s]
         IN  /\ x \in [Harbor -> Seq(Nat)]
             /\ ListsOrdered(x, q, nq, of) /\ NamesFirst(x, q, nq, v, of)
<1> DEFINE t == w[h] \o s
           x == [w EXCEPT ![h] = t]
<1>1. w[h] \in Seq(Nat) /\ q[h] \in Seq(Nat)
  OBVIOUS
<1>2. t \in Seq(Nat)
  BY <1>1, Concatenated
<1>3. Ordered(t, of)
  BY <1>1, OrderedJoined DEF ListsOrdered
<1>4. Behind(t, q[h], of)
  BY <1>1, BehindJoined DEF ListsOrdered
<1>5. ASSUME NEW n \in Name, ~v[n] PROVE \A i \in DOMAIN t : of[t[i]] # ByName(n)
  <2>1. \A i \in DOMAIN w[h] : of[w[h][i]] # ByName(n)
    BY <1>5 DEF NamesFirst
  <2>2. \A i \in DOMAIN s : of[s[i]] # ByName(n)
    BY <1>5
  <2> QED
    BY <1>1, <2>1, <2>2, OthersJoined
<1> HIDE DEF t
<1>6. x \in [Harbor -> Seq(Nat)] /\ \A g \in Harbor : x[g] = IF g = h THEN t ELSE w[g]
  BY <1>2
<1> HIDE DEF x
<1>7. ASSUME NEW g \in Harbor PROVE Ordered(x[g], of) /\ Ordered(q[g], of) /\ Behind(x[g], q[g], of)
  BY <1>3, <1>4, <1>6 DEF ListsOrdered
<1>8. ListsOrdered(x, q, nq, of)
  BY <1>7 DEF ListsOrdered
<1>9. ASSUME NEW n \in Name, ~v[n], NEW g \in Harbor
      PROVE  \A i \in DOMAIN x[g] : of[x[g][i]] # ByName(n)
  <2>1. \A i \in DOMAIN w[g] : of[w[g][i]] # ByName(n)
    BY <1>9 DEF NamesFirst
  <2>2. CASE g = h
    <3>1. x[g] = t /\ \A i \in DOMAIN t : of[t[i]] # ByName(n)
      BY <1>5, <1>6, <1>9, <2>2
    <3> QED
      BY <3>1
  <2>3. CASE g # h
    <3>1. x[g] = w[g]
      BY <1>6, <2>3
    <3> QED
      BY <2>1, <3>1
  <2> QED
    BY <2>2, <2>3
<1>10. NamesFirst(x, q, nq, v, of)
  BY <1>9 DEF NamesFirst
<1> QED
  BY <1>6, <1>8, <1>10 DEF t, x

LEMMA QueueJoined ==
  ASSUME NEW w \in [Harbor -> Seq(Nat)], NEW q \in [Harbor -> Seq(Nat)], NEW nq, NEW v, NEW of,
         ListsOrdered(w, q, nq, of), NamesFirst(w, q, nq, v, of),
         NEW h \in Harbor, NEW s \in Seq(Nat), Ordered(s, of),
         Behind(q[h], s, of), Behind(w[h], s, of),
         \A n \in Name : v[n] \/ \A i \in DOMAIN s : of[s[i]] # ByName(n)
  PROVE  LET x == [q EXCEPT ![h] = @ \o s]
         IN  /\ x \in [Harbor -> Seq(Nat)]
             /\ ListsOrdered(w, x, nq, of) /\ NamesFirst(w, x, nq, v, of)
<1> DEFINE t == q[h] \o s
           x == [q EXCEPT ![h] = t]
<1>1. w[h] \in Seq(Nat) /\ q[h] \in Seq(Nat)
  OBVIOUS
<1>2. t \in Seq(Nat)
  BY <1>1, Concatenated
<1>3. Ordered(t, of)
  BY <1>1, OrderedJoined DEF ListsOrdered
<1>4. Behind(w[h], t, of)
  BY <1>1, BehindJoined DEF ListsOrdered
<1>5. ASSUME NEW n \in Name, ~v[n] PROVE \A i \in DOMAIN t : of[t[i]] # ByName(n)
  <2>1. \A i \in DOMAIN q[h] : of[q[h][i]] # ByName(n)
    BY <1>5 DEF NamesFirst
  <2>2. \A i \in DOMAIN s : of[s[i]] # ByName(n)
    BY <1>5
  <2> QED
    BY <1>1, <2>1, <2>2, OthersJoined
<1> HIDE DEF t
<1>6. x \in [Harbor -> Seq(Nat)] /\ \A g \in Harbor : x[g] = IF g = h THEN t ELSE q[g]
  BY <1>2
<1> HIDE DEF x
<1>7. ASSUME NEW g \in Harbor PROVE Ordered(x[g], of) /\ Ordered(w[g], of) /\ Behind(w[g], x[g], of)
  BY <1>3, <1>4, <1>6 DEF ListsOrdered
<1>8. ListsOrdered(w, x, nq, of)
  BY <1>7 DEF ListsOrdered
<1>9. ASSUME NEW n \in Name, ~v[n], NEW g \in Harbor
      PROVE  \A i \in DOMAIN x[g] : of[x[g][i]] # ByName(n)
  <2>1. \A i \in DOMAIN q[g] : of[q[g][i]] # ByName(n)
    BY <1>9 DEF NamesFirst
  <2>2. CASE g = h
    <3>1. x[g] = t /\ \A i \in DOMAIN t : of[t[i]] # ByName(n)
      BY <1>5, <1>6, <1>9, <2>2
    <3> QED
      BY <3>1
  <2>3. CASE g # h
    <3>1. x[g] = q[g]
      BY <1>6, <2>3
    <3> QED
      BY <2>1, <3>1
  <2> QED
    BY <2>2, <2>3
<1>10. NamesFirst(w, x, nq, v, of)
  BY <1>9 DEF NamesFirst
<1> QED
  BY <1>6, <1>8, <1>10 DEF t, x

LEMMA QueueCut ==
  ASSUME NEW w \in [Harbor -> Seq(Nat)], NEW q \in [Harbor -> Seq(Nat)], NEW nq, NEW v, NEW of,
         ListsOrdered(w, q, nq, of), NamesFirst(w, q, nq, v, of), NEW h \in Harbor
  PROVE  LET x == [q EXCEPT ![h] = <<>>]
         IN  /\ x \in [Harbor -> Seq(Nat)] /\ x[h] = <<>>
             /\ ListsOrdered(w, x, nq, of) /\ NamesFirst(w, x, nq, v, of)
<1> DEFINE x == [q EXCEPT ![h] = <<>>]
<1>1. /\ x \in [Harbor -> Seq(Nat)] /\ x[h] = <<>> /\ DOMAIN <<>> = {}
      /\ \A g \in Harbor : x[g] = IF g = h THEN <<>> ELSE q[g]
  BY EmptyList
<1> HIDE DEF x
<1>2. ASSUME NEW g \in Harbor PROVE Ordered(x[g], of) /\ Behind(w[g], x[g], of)
  BY <1>1 DEF ListsOrdered, Ordered, Behind
<1>3. ListsOrdered(w, x, nq, of)
  BY <1>2 DEF ListsOrdered
<1>4. ASSUME NEW n \in Name, ~v[n], NEW g \in Harbor
      PROVE  \A i \in DOMAIN x[g] : of[x[g][i]] # ByName(n)
  BY <1>1, <1>4 DEF NamesFirst
<1>5. NamesFirst(w, x, nq, v, of)
  BY <1>4 DEF NamesFirst
<1> QED
  BY <1>1, <1>3, <1>5 DEF x

LEMMA NameCut ==
  ASSUME NEW w, NEW q, NEW nq \in [Name -> Seq(Nat)], NEW v, NEW of,
         ListsOrdered(w, q, nq, of), NamesFirst(w, q, nq, v, of), NEW n \in Name
  PROVE  LET x == [nq EXCEPT ![n] = <<>>]
         IN  /\ x \in [Name -> Seq(Nat)] /\ x[n] = <<>>
             /\ ListsOrdered(w, q, x, of) /\ NamesFirst(w, q, x, v, of)
<1> DEFINE x == [nq EXCEPT ![n] = <<>>]
<1>1. /\ x \in [Name -> Seq(Nat)] /\ x[n] = <<>> /\ DOMAIN <<>> = {}
      /\ \A m \in Name : x[m] = IF m = n THEN <<>> ELSE nq[m]
  BY EmptyList
<1> HIDE DEF x
<1>2. ASSUME NEW m \in Name PROVE Ordered(x[m], of) /\ \A i \in DOMAIN x[m] : of[x[m][i]] = ByName(m)
  BY <1>1 DEF ListsOrdered, NamesFirst, Ordered
<1> QED
  BY <1>1, <1>2 DEF x, ListsOrdered, NamesFirst

LEMMA NameJoined ==
  ASSUME NEW w, NEW q, NEW nq \in [Name -> Seq(Nat)], NEW v, NEW of,
         ListsOrdered(w, q, nq, of), NamesFirst(w, q, nq, v, of),
         NEW n \in Name, NEW s \in Seq(Nat), Ordered(s, of), Behind(nq[n], s, of),
         \A i \in DOMAIN s : of[s[i]] = ByName(n)
  PROVE  LET x == [nq EXCEPT ![n] = @ \o s]
         IN  /\ x \in [Name -> Seq(Nat)]
             /\ ListsOrdered(w, q, x, of) /\ NamesFirst(w, q, x, v, of)
<1> DEFINE t == nq[n] \o s
           x == [nq EXCEPT ![n] = t]
<1>1. nq[n] \in Seq(Nat) /\ t \in Seq(Nat)
  BY Concatenated
<1>2. Ordered(t, of)
  BY <1>1, OrderedJoined DEF ListsOrdered
<1>3. \A i \in DOMAIN t : of[t[i]] = ByName(n)
  <2>1. \A i \in DOMAIN nq[n] : of[nq[n][i]] = ByName(n)
    BY DEF NamesFirst
  <2> QED
    BY <1>1, <2>1, OthersJoined
<1> HIDE DEF t
<1>4. x \in [Name -> Seq(Nat)] /\ \A m \in Name : x[m] = IF m = n THEN t ELSE nq[m]
  BY <1>1
<1> HIDE DEF x
<1>5. ASSUME NEW m \in Name PROVE Ordered(x[m], of) /\ \A i \in DOMAIN x[m] : of[x[m][i]] = ByName(m)
  BY <1>2, <1>3, <1>4 DEF ListsOrdered, NamesFirst
<1> QED
  BY <1>4, <1>5 DEF t, x, ListsOrdered, NamesFirst

-----------------------------------------------------------------------------
(* What a change of a list is to what the places hold.                     *)

LEMMA HeldWire ==
  ASSUME NEW w, NEW q, NEW nq, NEW own, NEW gone, NEW told,
         NEW h \in Harbor, NEW s, NEW x,
         \A m \in Harbor : x[m] = IF m = h THEN s ELSE w[m]
  PROVE  \A p \in Place : Held(x, q, nq, own, gone, told)[p] =
           IF p = <<"wire", h>> THEN Range(s) ELSE Held(w, q, nq, own, gone, told)[p]
<1> DEFINE H == Held(w, q, nq, own, gone, told)
           G == Held(x, q, nq, own, gone, told)
<1>1. /\ \A g \in Harbor : H[<<"wire", g>>] = Range(w[g]) /\ H[<<"queue", g>>] = Range(q[g])
      /\ \A m \in Name : H[<<"name", m>>] = Range(nq[m])
      /\ H[<<"here", Self>>] = Range(own)
      /\ H[<<"dropped", Self>>] = gone /\ H[<<"errors", Self>>] = told
  BY HeldAt
<1> HIDE DEF H
<1>2. /\ \A g \in Harbor : G[<<"wire", g>>] = Range(x[g]) /\ G[<<"queue", g>>] = Range(q[g])
      /\ \A m \in Name : G[<<"name", m>>] = Range(nq[m])
      /\ G[<<"here", Self>>] = Range(own)
      /\ G[<<"dropped", Self>>] = gone /\ G[<<"errors", Self>>] = told
  BY HeldAt
<1> HIDE DEF G
<1>3. ASSUME NEW p \in Place PROVE G[p] = IF p = <<"wire", h>> THEN Range(s) ELSE H[p]
  <2>1. ASSUME NEW m \in Harbor, p = <<"wire", m>> PROVE G[p] = IF m = h THEN Range(s) ELSE H[p]
    <3>1. G[p] = Range(x[m]) /\ H[p] = Range(w[m])
      BY <1>1, <1>2, <2>1
    <3>2. x[m] = IF m = h THEN s ELSE w[m]
      OBVIOUS
    <3> QED
      BY <3>1, <3>2
  <2>2. ASSUME NEW m \in Harbor, p = <<"queue", m>> PROVE G[p] = H[p] /\ p # <<"wire", h>>
    BY <1>1, <1>2, <2>2
  <2>3. ASSUME NEW m \in Name, p = <<"name", m>> PROVE G[p] = H[p] /\ p # <<"wire", h>>
    BY <1>1, <1>2, <2>3
  <2>4. ASSUME p \in {<<"here", Self>>, <<"dropped", Self>>, <<"errors", Self>>}
        PROVE  G[p] = H[p] /\ p # <<"wire", h>>
    BY <1>1, <1>2, <2>4
  <2> QED
    BY <2>1, <2>2, <2>3, <2>4, PlaceCases
<1> QED
  BY <1>3 DEF G, H

LEMMA HeldQueue ==
  ASSUME NEW w, NEW q, NEW nq, NEW own, NEW gone, NEW told,
         NEW h \in Harbor, NEW s, NEW x,
         \A m \in Harbor : x[m] = IF m = h THEN s ELSE q[m]
  PROVE  \A p \in Place : Held(w, x, nq, own, gone, told)[p] =
           IF p = <<"queue", h>> THEN Range(s) ELSE Held(w, q, nq, own, gone, told)[p]
<1> DEFINE H == Held(w, q, nq, own, gone, told)
           G == Held(w, x, nq, own, gone, told)
<1>1. /\ \A g \in Harbor : H[<<"wire", g>>] = Range(w[g]) /\ H[<<"queue", g>>] = Range(q[g])
      /\ \A m \in Name : H[<<"name", m>>] = Range(nq[m])
      /\ H[<<"here", Self>>] = Range(own)
      /\ H[<<"dropped", Self>>] = gone /\ H[<<"errors", Self>>] = told
  BY HeldAt
<1> HIDE DEF H
<1>2. /\ \A g \in Harbor : G[<<"wire", g>>] = Range(w[g]) /\ G[<<"queue", g>>] = Range(x[g])
      /\ \A m \in Name : G[<<"name", m>>] = Range(nq[m])
      /\ G[<<"here", Self>>] = Range(own)
      /\ G[<<"dropped", Self>>] = gone /\ G[<<"errors", Self>>] = told
  BY HeldAt
<1> HIDE DEF G
<1>3. ASSUME NEW p \in Place PROVE G[p] = IF p = <<"queue", h>> THEN Range(s) ELSE H[p]
  <2>1. ASSUME NEW m \in Harbor, p = <<"wire", m>> PROVE G[p] = H[p] /\ p # <<"queue", h>>
    BY <1>1, <1>2, <2>1
  <2>2. ASSUME NEW m \in Harbor, p = <<"queue", m>> PROVE G[p] = IF m = h THEN Range(s) ELSE H[p]
    <3>1. G[p] = Range(x[m]) /\ H[p] = Range(q[m])
      BY <1>1, <1>2, <2>2
    <3>2. x[m] = IF m = h THEN s ELSE q[m]
      OBVIOUS
    <3> QED
      BY <3>1, <3>2
  <2>3. ASSUME NEW m \in Name, p = <<"name", m>> PROVE G[p] = H[p] /\ p # <<"queue", h>>
    BY <1>1, <1>2, <2>3
  <2>4. ASSUME p \in {<<"here", Self>>, <<"dropped", Self>>, <<"errors", Self>>}
        PROVE  G[p] = H[p] /\ p # <<"queue", h>>
    BY <1>1, <1>2, <2>4
  <2> QED
    BY <2>1, <2>2, <2>3, <2>4, PlaceCases
<1> QED
  BY <1>3 DEF G, H

LEMMA HeldName ==
  ASSUME NEW w, NEW q, NEW nq, NEW own, NEW gone, NEW told,
         NEW n \in Name, NEW s, NEW x,
         \A m \in Name : x[m] = IF m = n THEN s ELSE nq[m]
  PROVE  \A p \in Place : Held(w, q, x, own, gone, told)[p] =
           IF p = <<"name", n>> THEN Range(s) ELSE Held(w, q, nq, own, gone, told)[p]
<1> DEFINE H == Held(w, q, nq, own, gone, told)
           G == Held(w, q, x, own, gone, told)
<1>1. /\ \A g \in Harbor : H[<<"wire", g>>] = Range(w[g]) /\ H[<<"queue", g>>] = Range(q[g])
      /\ \A m \in Name : H[<<"name", m>>] = Range(nq[m])
      /\ H[<<"here", Self>>] = Range(own)
      /\ H[<<"dropped", Self>>] = gone /\ H[<<"errors", Self>>] = told
  BY HeldAt
<1> HIDE DEF H
<1>2. /\ \A g \in Harbor : G[<<"wire", g>>] = Range(w[g]) /\ G[<<"queue", g>>] = Range(q[g])
      /\ \A m \in Name : G[<<"name", m>>] = Range(x[m])
      /\ G[<<"here", Self>>] = Range(own)
      /\ G[<<"dropped", Self>>] = gone /\ G[<<"errors", Self>>] = told
  BY HeldAt
<1> HIDE DEF G
<1>3. ASSUME NEW p \in Place PROVE G[p] = IF p = <<"name", n>> THEN Range(s) ELSE H[p]
  <2>1. ASSUME NEW m \in Harbor, p = <<"wire", m>> PROVE G[p] = H[p] /\ p # <<"name", n>>
    BY <1>1, <1>2, <2>1
  <2>2. ASSUME NEW m \in Harbor, p = <<"queue", m>> PROVE G[p] = H[p] /\ p # <<"name", n>>
    BY <1>1, <1>2, <2>2
  <2>3. ASSUME NEW m \in Name, p = <<"name", m>> PROVE G[p] = IF m = n THEN Range(s) ELSE H[p]
    BY <1>1, <1>2, <2>3
  <2>4. ASSUME p \in {<<"here", Self>>, <<"dropped", Self>>, <<"errors", Self>>}
        PROVE  G[p] = H[p] /\ p # <<"name", n>>
    BY <1>1, <1>2, <2>4
  <2> QED
    BY <2>1, <2>2, <2>3, <2>4, PlaceCases
<1> QED
  BY <1>3 DEF G, H

LEMMA HeldHere ==
  ASSUME NEW w, NEW q, NEW nq, NEW own, NEW gone, NEW told, NEW x
  PROVE  \A p \in Place : Held(w, q, nq, x, gone, told)[p] =
           IF p = <<"here", Self>> THEN Range(x) ELSE Held(w, q, nq, own, gone, told)[p]
<1> DEFINE H == Held(w, q, nq, own, gone, told)
           G == Held(w, q, nq, x, gone, told)
<1>1. /\ \A g \in Harbor : H[<<"wire", g>>] = Range(w[g]) /\ H[<<"queue", g>>] = Range(q[g])
      /\ \A m \in Name : H[<<"name", m>>] = Range(nq[m])
      /\ H[<<"here", Self>>] = Range(own)
      /\ H[<<"dropped", Self>>] = gone /\ H[<<"errors", Self>>] = told
  BY HeldAt
<1> HIDE DEF H
<1>2. /\ \A g \in Harbor : G[<<"wire", g>>] = Range(w[g]) /\ G[<<"queue", g>>] = Range(q[g])
      /\ \A m \in Name : G[<<"name", m>>] = Range(nq[m])
      /\ G[<<"here", Self>>] = Range(x)
      /\ G[<<"dropped", Self>>] = gone /\ G[<<"errors", Self>>] = told
  BY HeldAt
<1> HIDE DEF G
<1>3. ASSUME NEW p \in Place PROVE G[p] = IF p = <<"here", Self>> THEN Range(x) ELSE H[p]
  <2>1. ASSUME NEW m \in Harbor, p = <<"wire", m>> PROVE G[p] = H[p] /\ p # <<"here", Self>>
    BY <1>1, <1>2, <2>1
  <2>2. ASSUME NEW m \in Harbor, p = <<"queue", m>> PROVE G[p] = H[p] /\ p # <<"here", Self>>
    BY <1>1, <1>2, <2>2
  <2>3. ASSUME NEW m \in Name, p = <<"name", m>> PROVE G[p] = H[p] /\ p # <<"here", Self>>
    BY <1>1, <1>2, <2>3
  <2>4. ASSUME p \in {<<"here", Self>>, <<"dropped", Self>>, <<"errors", Self>>}
        PROVE  G[p] = IF p = <<"here", Self>> THEN Range(x) ELSE H[p]
    BY <1>1, <1>2, <2>4
  <2> QED
    BY <2>1, <2>2, <2>3, <2>4, PlaceCases
<1> QED
  BY <1>3 DEF G, H

LEMMA HeldDropped ==
  ASSUME NEW w, NEW q, NEW nq, NEW own, NEW gone, NEW told, NEW x
  PROVE  \A p \in Place : Held(w, q, nq, own, x, told)[p] =
           IF p = <<"dropped", Self>> THEN x ELSE Held(w, q, nq, own, gone, told)[p]
<1> DEFINE H == Held(w, q, nq, own, gone, told)
           G == Held(w, q, nq, own, x, told)
<1>1. /\ \A g \in Harbor : H[<<"wire", g>>] = Range(w[g]) /\ H[<<"queue", g>>] = Range(q[g])
      /\ \A m \in Name : H[<<"name", m>>] = Range(nq[m])
      /\ H[<<"here", Self>>] = Range(own)
      /\ H[<<"dropped", Self>>] = gone /\ H[<<"errors", Self>>] = told
  BY HeldAt
<1> HIDE DEF H
<1>2. /\ \A g \in Harbor : G[<<"wire", g>>] = Range(w[g]) /\ G[<<"queue", g>>] = Range(q[g])
      /\ \A m \in Name : G[<<"name", m>>] = Range(nq[m])
      /\ G[<<"here", Self>>] = Range(own)
      /\ G[<<"dropped", Self>>] = x /\ G[<<"errors", Self>>] = told
  BY HeldAt
<1> HIDE DEF G
<1>3. ASSUME NEW p \in Place PROVE G[p] = IF p = <<"dropped", Self>> THEN x ELSE H[p]
  <2>1. ASSUME NEW m \in Harbor, p = <<"wire", m>> PROVE G[p] = H[p] /\ p # <<"dropped", Self>>
    BY <1>1, <1>2, <2>1
  <2>2. ASSUME NEW m \in Harbor, p = <<"queue", m>> PROVE G[p] = H[p] /\ p # <<"dropped", Self>>
    BY <1>1, <1>2, <2>2
  <2>3. ASSUME NEW m \in Name, p = <<"name", m>> PROVE G[p] = H[p] /\ p # <<"dropped", Self>>
    BY <1>1, <1>2, <2>3
  <2>4. ASSUME p \in {<<"here", Self>>, <<"dropped", Self>>, <<"errors", Self>>}
        PROVE  G[p] = IF p = <<"dropped", Self>> THEN x ELSE H[p]
    BY <1>1, <1>2, <2>4
  <2> QED
    BY <2>1, <2>2, <2>3, <2>4, PlaceCases
<1> QED
  BY <1>3 DEF G, H

LEMMA HeldErrors ==
  ASSUME NEW w, NEW q, NEW nq, NEW own, NEW gone, NEW told, NEW x
  PROVE  \A p \in Place : Held(w, q, nq, own, gone, x)[p] =
           IF p = <<"errors", Self>> THEN x ELSE Held(w, q, nq, own, gone, told)[p]
<1> DEFINE H == Held(w, q, nq, own, gone, told)
           G == Held(w, q, nq, own, gone, x)
<1>1. /\ \A g \in Harbor : H[<<"wire", g>>] = Range(w[g]) /\ H[<<"queue", g>>] = Range(q[g])
      /\ \A m \in Name : H[<<"name", m>>] = Range(nq[m])
      /\ H[<<"here", Self>>] = Range(own)
      /\ H[<<"dropped", Self>>] = gone /\ H[<<"errors", Self>>] = told
  BY HeldAt
<1> HIDE DEF H
<1>2. /\ \A g \in Harbor : G[<<"wire", g>>] = Range(w[g]) /\ G[<<"queue", g>>] = Range(q[g])
      /\ \A m \in Name : G[<<"name", m>>] = Range(nq[m])
      /\ G[<<"here", Self>>] = Range(own)
      /\ G[<<"dropped", Self>>] = gone /\ G[<<"errors", Self>>] = x
  BY HeldAt
<1> HIDE DEF G
<1>3. ASSUME NEW p \in Place PROVE G[p] = IF p = <<"errors", Self>> THEN x ELSE H[p]
  <2>1. ASSUME NEW m \in Harbor, p = <<"wire", m>> PROVE G[p] = H[p] /\ p # <<"errors", Self>>
    BY <1>1, <1>2, <2>1
  <2>2. ASSUME NEW m \in Harbor, p = <<"queue", m>> PROVE G[p] = H[p] /\ p # <<"errors", Self>>
    BY <1>1, <1>2, <2>2
  <2>3. ASSUME NEW m \in Name, p = <<"name", m>> PROVE G[p] = H[p] /\ p # <<"errors", Self>>
    BY <1>1, <1>2, <2>3
  <2>4. ASSUME p \in {<<"here", Self>>, <<"dropped", Self>>, <<"errors", Self>>}
        PROVE  G[p] = IF p = <<"errors", Self>> THEN x ELSE H[p]
    BY <1>1, <1>2, <2>4
  <2> QED
    BY <2>1, <2>2, <2>3, <2>4, PlaceCases
<1> QED
  BY <1>3 DEF G, H

-----------------------------------------------------------------------------
(* A place more or another place for a message.                            *)

LEMMA PlacedOnWire ==
  ASSUME NEW h \in Harbor, NEW s, \A m \in Harbor : wire'[m] = IF m = h THEN s ELSE wire[m]
  PROVE  (/\ OneHolder(Held(wire, queue, nameq, here, dropped, errors), Len(sent)) /\ Len(sent) \in Nat
          /\ Range(s) = Range(wire[h]) \cup {Len(sent) + 1}
          /\ UNCHANGED <<queue, nameq, here, dropped, errors>>)
         => OneHolder(Held(wire, queue, nameq, here, dropped, errors)', Len(sent) + 1)
<1> DEFINE H == Held(wire, queue, nameq, here, dropped, errors)
           G == Held(wire', queue, nameq, here, dropped, errors)
<1>1. \A p \in Place : G[p] = IF p = <<"wire", h>> THEN Range(s) ELSE H[p]
  BY HeldWire
<1>2. H[<<"wire", h>>] = Range(wire[h]) /\ <<"wire", h>> \in Place
  <2>1. H[<<"wire", h>>] = Range(wire[h])
    BY HeldAt
  <2>2. <<"wire", h>> \in Place
    BY Places
  <2> QED
    BY <2>1, <2>2
<1> SUFFICES ASSUME OneHolder(H, Len(sent)), Len(sent) \in Nat,
                    Range(s) = Range(wire[h]) \cup {Len(sent) + 1},
                    UNCHANGED <<queue, nameq, here, dropped, errors>>
             PROVE  OneHolder(Held(wire, queue, nameq, here, dropped, errors)', Len(sent) + 1)
  OBVIOUS
<1>3. Held(wire, queue, nameq, here, dropped, errors)' = G
  OBVIOUS
<1> HIDE DEF G, H
<1>4. Gains(G, H, <<"wire", h>>, Len(sent) + 1)
  BY <1>1, <1>2 DEF Gains
<1>5. OneHolder(G, Len(sent) + 1)
  BY <1>2, <1>4, Placed
<1> QED
  BY <1>3, <1>5

LEMMA PlacedOnQueue ==
  ASSUME NEW h \in Harbor, NEW s, \A m \in Harbor : queue'[m] = IF m = h THEN s ELSE queue[m]
  PROVE  (/\ OneHolder(Held(wire, queue, nameq, here, dropped, errors), Len(sent)) /\ Len(sent) \in Nat
          /\ Range(s) = Range(queue[h]) \cup {Len(sent) + 1}
          /\ UNCHANGED <<wire, nameq, here, dropped, errors>>)
         => OneHolder(Held(wire, queue, nameq, here, dropped, errors)', Len(sent) + 1)
<1> DEFINE H == Held(wire, queue, nameq, here, dropped, errors)
           G == Held(wire, queue', nameq, here, dropped, errors)
<1>1. \A p \in Place : G[p] = IF p = <<"queue", h>> THEN Range(s) ELSE H[p]
  BY HeldQueue
<1>2. H[<<"queue", h>>] = Range(queue[h]) /\ <<"queue", h>> \in Place
  <2>1. H[<<"queue", h>>] = Range(queue[h])
    BY HeldAt
  <2>2. <<"queue", h>> \in Place
    BY Places
  <2> QED
    BY <2>1, <2>2
<1> SUFFICES ASSUME OneHolder(H, Len(sent)), Len(sent) \in Nat,
                    Range(s) = Range(queue[h]) \cup {Len(sent) + 1},
                    UNCHANGED <<wire, nameq, here, dropped, errors>>
             PROVE  OneHolder(Held(wire, queue, nameq, here, dropped, errors)', Len(sent) + 1)
  OBVIOUS
<1>3. Held(wire, queue, nameq, here, dropped, errors)' = G
  OBVIOUS
<1> HIDE DEF G, H
<1>4. Gains(G, H, <<"queue", h>>, Len(sent) + 1)
  BY <1>1, <1>2 DEF Gains
<1>5. OneHolder(G, Len(sent) + 1)
  BY <1>2, <1>4, Placed
<1> QED
  BY <1>3, <1>5

LEMMA PlacedOnName ==
  ASSUME NEW n \in Name, NEW s, \A m \in Name : nameq'[m] = IF m = n THEN s ELSE nameq[m]
  PROVE  (/\ OneHolder(Held(wire, queue, nameq, here, dropped, errors), Len(sent)) /\ Len(sent) \in Nat
          /\ Range(s) = Range(nameq[n]) \cup {Len(sent) + 1}
          /\ UNCHANGED <<wire, queue, here, dropped, errors>>)
         => OneHolder(Held(wire, queue, nameq, here, dropped, errors)', Len(sent) + 1)
<1> DEFINE H == Held(wire, queue, nameq, here, dropped, errors)
           G == Held(wire, queue, nameq', here, dropped, errors)
<1>1. \A p \in Place : G[p] = IF p = <<"name", n>> THEN Range(s) ELSE H[p]
  BY HeldName
<1>2. H[<<"name", n>>] = Range(nameq[n]) /\ <<"name", n>> \in Place
  <2>1. H[<<"name", n>>] = Range(nameq[n])
    BY HeldAt
  <2>2. <<"name", n>> \in Place
    BY Places
  <2> QED
    BY <2>1, <2>2
<1> SUFFICES ASSUME OneHolder(H, Len(sent)), Len(sent) \in Nat,
                    Range(s) = Range(nameq[n]) \cup {Len(sent) + 1},
                    UNCHANGED <<wire, queue, here, dropped, errors>>
             PROVE  OneHolder(Held(wire, queue, nameq, here, dropped, errors)', Len(sent) + 1)
  OBVIOUS
<1>3. Held(wire, queue, nameq, here, dropped, errors)' = G
  OBVIOUS
<1> HIDE DEF G, H
<1>4. Gains(G, H, <<"name", n>>, Len(sent) + 1)
  BY <1>1, <1>2 DEF Gains
<1>5. OneHolder(G, Len(sent) + 1)
  BY <1>2, <1>4, Placed
<1> QED
  BY <1>3, <1>5

LEMMA PlacedOnHere ==
  (/\ OneHolder(Held(wire, queue, nameq, here, dropped, errors), Len(sent)) /\ Len(sent) \in Nat
   /\ Range(here') = Range(here) \cup {Len(sent) + 1}
   /\ UNCHANGED <<wire, queue, nameq, dropped, errors>>)
  => OneHolder(Held(wire, queue, nameq, here, dropped, errors)', Len(sent) + 1)
<1> DEFINE H == Held(wire, queue, nameq, here, dropped, errors)
           G == Held(wire, queue, nameq, here', dropped, errors)
<1>1. \A p \in Place : G[p] = IF p = <<"here", Self>> THEN Range(here') ELSE H[p]
  BY HeldHere
<1>2. H[<<"here", Self>>] = Range(here) /\ <<"here", Self>> \in Place
  <2>1. H[<<"here", Self>>] = Range(here)
    BY HeldAt
  <2>2. <<"here", Self>> \in Place
    BY Places
  <2> QED
    BY <2>1, <2>2
<1> SUFFICES ASSUME OneHolder(H, Len(sent)), Len(sent) \in Nat,
                    Range(here') = Range(here) \cup {Len(sent) + 1},
                    UNCHANGED <<wire, queue, nameq, dropped, errors>>
             PROVE  OneHolder(Held(wire, queue, nameq, here, dropped, errors)', Len(sent) + 1)
  OBVIOUS
<1>3. Held(wire, queue, nameq, here, dropped, errors)' = G
  OBVIOUS
<1> HIDE DEF G, H
<1>4. Gains(G, H, <<"here", Self>>, Len(sent) + 1)
  BY <1>1, <1>2 DEF Gains
<1>5. OneHolder(G, Len(sent) + 1)
  BY <1>2, <1>4, Placed
<1> QED
  BY <1>3, <1>5

LEMMA PlacedOnErrors ==
  (/\ OneHolder(Held(wire, queue, nameq, here, dropped, errors), Len(sent)) /\ Len(sent) \in Nat
   /\ errors' = errors \cup {Len(sent) + 1}
   /\ UNCHANGED <<wire, queue, nameq, here, dropped>>)
  => OneHolder(Held(wire, queue, nameq, here, dropped, errors)', Len(sent) + 1)
<1> DEFINE H == Held(wire, queue, nameq, here, dropped, errors)
           G == Held(wire, queue, nameq, here, dropped, errors')
<1>1. \A p \in Place : G[p] = IF p = <<"errors", Self>> THEN errors' ELSE H[p]
  BY HeldErrors
<1>2. H[<<"errors", Self>>] = errors /\ <<"errors", Self>> \in Place
  <2>1. H[<<"errors", Self>>] = errors
    BY HeldAt
  <2>2. <<"errors", Self>> \in Place
    BY Places
  <2> QED
    BY <2>1, <2>2
<1> SUFFICES ASSUME OneHolder(H, Len(sent)), Len(sent) \in Nat,
                    errors' = errors \cup {Len(sent) + 1},
                    UNCHANGED <<wire, queue, nameq, here, dropped>>
             PROVE  OneHolder(Held(wire, queue, nameq, here, dropped, errors)', Len(sent) + 1)
  OBVIOUS
<1>3. Held(wire, queue, nameq, here, dropped, errors)' = G
  OBVIOUS
<1> HIDE DEF G, H
<1>4. Gains(G, H, <<"errors", Self>>, Len(sent) + 1)
  BY <1>1, <1>2 DEF Gains
<1>5. OneHolder(G, Len(sent) + 1)
  BY <1>2, <1>4, Placed
<1> QED
  BY <1>3, <1>5

LEMMA QueueEmptied ==
  ASSUME NEW h \in Harbor, \A m \in Harbor : queue'[m] = IF m = h THEN <<>> ELSE queue[m]
  PROVE  \A p \in Place : Held(wire, queue', nameq, here, dropped, errors)[p] =
           IF p = <<"queue", h>> THEN Range(<<>>) ELSE Held(wire, queue, nameq, here, dropped, errors)[p]
BY HeldQueue

LEMMA QueueFilled ==
  ASSUME NEW h \in Harbor, NEW s, \A m \in Harbor : queue'[m] = IF m = h THEN s ELSE queue[m]
  PROVE  \A p \in Place : Held(wire, queue', nameq', here, dropped, errors)[p] =
           IF p = <<"queue", h>> THEN Range(s) ELSE Held(wire, queue, nameq', here, dropped, errors)[p]
BY HeldQueue

LEMMA MovedQueueWire ==
  ASSUME NEW h \in Harbor, \A m \in Harbor : queue'[m] = IF m = h THEN <<>> ELSE queue[m],
         NEW s, \A m \in Harbor : wire'[m] = IF m = h THEN s ELSE wire[m]
  PROVE  (/\ OneHolder(Held(wire, queue, nameq, here, dropped, errors), Len(sent)) /\ Len(sent) \in Nat
          /\ Range(s) = Range(wire[h]) \cup Range(queue[h])
          /\ UNCHANGED <<nameq, here, dropped, errors>>)
         => OneHolder(Held(wire, queue, nameq, here, dropped, errors)', Len(sent))
<1> DEFINE H == Held(wire, queue, nameq, here, dropped, errors)
           F == Held(wire, queue', nameq, here, dropped, errors)
<1>1. \A p \in Place : F[p] = IF p = <<"queue", h>> THEN Range(<<>>) ELSE H[p]
  BY QueueEmptied
<1> DEFINE G == Held(wire', queue', nameq, here, dropped, errors)
<1>2. \A p \in Place : G[p] = IF p = <<"wire", h>> THEN Range(s) ELSE F[p]
  BY HeldWire
<1>3. H[<<"wire", h>>] = Range(wire[h]) /\ H[<<"queue", h>>] = Range(queue[h])
  BY HeldAt
<1>4. <<"queue", h>> \in Place /\ <<"wire", h>> \in Place /\ <<"queue", h>> # <<"wire", h>>
  BY Places
<1> SUFFICES ASSUME OneHolder(H, Len(sent)), Len(sent) \in Nat,
                    Range(s) = Range(wire[h]) \cup Range(queue[h]),
                    UNCHANGED <<nameq, here, dropped, errors>>
             PROVE  OneHolder(Held(wire, queue, nameq, here, dropped, errors)', Len(sent))
  OBVIOUS
<1>5. Held(wire, queue, nameq, here, dropped, errors)' = G
  OBVIOUS
<1> HIDE DEF F, G, H
<1>6. \A p \in Place : G[p] = IF p = <<"queue", h>> THEN {}
                             ELSE IF p = <<"wire", h>> THEN H[<<"wire", h>>] \cup H[<<"queue", h>>] ELSE H[p]
  <2>1. Range(<<>>) = {}
    BY EmptyList
  <2> QED
    BY <1>1, <1>2, <1>3, <2>1
<1>7. Shifts(G, H, <<"queue", h>>, <<"wire", h>>)
  BY <1>4, <1>6 DEF Shifts
<1>8. OneHolder(G, Len(sent))
  BY <1>4, <1>7, Moved
<1> QED
  BY <1>5, <1>8

LEMMA MovedQueueDropped ==
  ASSUME NEW h \in Harbor, \A m \in Harbor : queue'[m] = IF m = h THEN <<>> ELSE queue[m]
  PROVE  (/\ OneHolder(Held(wire, queue, nameq, here, dropped, errors), Len(sent)) /\ Len(sent) \in Nat
          /\ dropped' = dropped \cup Range(queue[h])
          /\ UNCHANGED <<wire, nameq, here, errors>>)
         => OneHolder(Held(wire, queue, nameq, here, dropped, errors)', Len(sent))
<1> DEFINE H == Held(wire, queue, nameq, here, dropped, errors)
           F == Held(wire, queue', nameq, here, dropped, errors)
<1>1. \A p \in Place : F[p] = IF p = <<"queue", h>> THEN Range(<<>>) ELSE H[p]
  BY QueueEmptied
<1> DEFINE G == Held(wire, queue', nameq, here, dropped', errors)
<1>2. \A p \in Place : G[p] = IF p = <<"dropped", Self>> THEN dropped' ELSE F[p]
  BY HeldDropped
<1>3. H[<<"dropped", Self>>] = dropped /\ H[<<"queue", h>>] = Range(queue[h])
  BY HeldAt
<1>4. <<"queue", h>> \in Place /\ <<"dropped", Self>> \in Place /\ <<"queue", h>> # <<"dropped", Self>>
  BY Places
<1> SUFFICES ASSUME OneHolder(H, Len(sent)), Len(sent) \in Nat,
                    dropped' = dropped \cup Range(queue[h]),
                    UNCHANGED <<wire, nameq, here, errors>>
             PROVE  OneHolder(Held(wire, queue, nameq, here, dropped, errors)', Len(sent))
  OBVIOUS
<1>5. Held(wire, queue, nameq, here, dropped, errors)' = G
  OBVIOUS
<1> HIDE DEF F, G, H
<1>6. \A p \in Place : G[p] = IF p = <<"queue", h>> THEN {}
                             ELSE IF p = <<"dropped", Self>> THEN H[<<"dropped", Self>>] \cup H[<<"queue", h>>] ELSE H[p]
  <2>1. Range(<<>>) = {}
    BY EmptyList
  <2> QED
    BY <1>1, <1>2, <1>3, <2>1
<1>7. Shifts(G, H, <<"queue", h>>, <<"dropped", Self>>)
  BY <1>4, <1>6 DEF Shifts
<1>8. OneHolder(G, Len(sent))
  BY <1>4, <1>7, Moved
<1> QED
  BY <1>5, <1>8

LEMMA NameEmptied ==
  ASSUME NEW n \in Name, \A m \in Name : nameq'[m] = IF m = n THEN <<>> ELSE nameq[m]
  PROVE  \A p \in Place : Held(wire, queue, nameq', here, dropped, errors)[p] =
           IF p = <<"name", n>> THEN Range(<<>>) ELSE Held(wire, queue, nameq, here, dropped, errors)[p]
BY HeldName

LEMMA MovedNameWire ==
  ASSUME NEW h \in Harbor, NEW n \in Name, \A m \in Name : nameq'[m] = IF m = n THEN <<>> ELSE nameq[m],
         NEW s, \A m \in Harbor : wire'[m] = IF m = h THEN s ELSE wire[m]
  PROVE  (/\ OneHolder(Held(wire, queue, nameq, here, dropped, errors), Len(sent)) /\ Len(sent) \in Nat
          /\ Range(s) = Range(wire[h]) \cup Range(nameq[n])
          /\ UNCHANGED <<queue, here, dropped, errors>>)
         => OneHolder(Held(wire, queue, nameq, here, dropped, errors)', Len(sent))
<1> DEFINE H == Held(wire, queue, nameq, here, dropped, errors)
           F == Held(wire, queue, nameq', here, dropped, errors)
<1>1. \A p \in Place : F[p] = IF p = <<"name", n>> THEN Range(<<>>) ELSE H[p]
  BY NameEmptied
<1> DEFINE G == Held(wire', queue, nameq', here, dropped, errors)
<1>2. \A p \in Place : G[p] = IF p = <<"wire", h>> THEN Range(s) ELSE F[p]
  BY HeldWire
<1>3. H[<<"wire", h>>] = Range(wire[h]) /\ H[<<"name", n>>] = Range(nameq[n])
  BY HeldAt
<1>4. <<"name", n>> \in Place /\ <<"wire", h>> \in Place /\ <<"name", n>> # <<"wire", h>>
  BY Places
<1> SUFFICES ASSUME OneHolder(H, Len(sent)), Len(sent) \in Nat,
                    Range(s) = Range(wire[h]) \cup Range(nameq[n]),
                    UNCHANGED <<queue, here, dropped, errors>>
             PROVE  OneHolder(Held(wire, queue, nameq, here, dropped, errors)', Len(sent))
  OBVIOUS
<1>5. Held(wire, queue, nameq, here, dropped, errors)' = G
  OBVIOUS
<1> HIDE DEF F, G, H
<1>6. \A p \in Place : G[p] = IF p = <<"name", n>> THEN {}
                             ELSE IF p = <<"wire", h>> THEN H[<<"wire", h>>] \cup H[<<"name", n>>] ELSE H[p]
  <2>1. Range(<<>>) = {}
    BY EmptyList
  <2> QED
    BY <1>1, <1>2, <1>3, <2>1
<1>7. Shifts(G, H, <<"name", n>>, <<"wire", h>>)
  BY <1>4, <1>6 DEF Shifts
<1>8. OneHolder(G, Len(sent))
  BY <1>4, <1>7, Moved
<1> QED
  BY <1>5, <1>8

LEMMA MovedNameQueue ==
  ASSUME NEW h \in Harbor, NEW n \in Name, \A m \in Name : nameq'[m] = IF m = n THEN <<>> ELSE nameq[m],
         NEW s, \A m \in Harbor : queue'[m] = IF m = h THEN s ELSE queue[m]
  PROVE  (/\ OneHolder(Held(wire, queue, nameq, here, dropped, errors), Len(sent)) /\ Len(sent) \in Nat
          /\ Range(s) = Range(queue[h]) \cup Range(nameq[n])
          /\ UNCHANGED <<wire, here, dropped, errors>>)
         => OneHolder(Held(wire, queue, nameq, here, dropped, errors)', Len(sent))
<1> DEFINE H == Held(wire, queue, nameq, here, dropped, errors)
           F == Held(wire, queue, nameq', here, dropped, errors)
<1>1. \A p \in Place : F[p] = IF p = <<"name", n>> THEN Range(<<>>) ELSE H[p]
  BY NameEmptied
<1> DEFINE G == Held(wire, queue', nameq', here, dropped, errors)
<1>2. \A p \in Place : G[p] = IF p = <<"queue", h>> THEN Range(s) ELSE F[p]
  BY QueueFilled
<1>3. H[<<"queue", h>>] = Range(queue[h]) /\ H[<<"name", n>>] = Range(nameq[n])
  BY HeldAt
<1>4. <<"name", n>> \in Place /\ <<"queue", h>> \in Place /\ <<"name", n>> # <<"queue", h>>
  BY Places
<1> SUFFICES ASSUME OneHolder(H, Len(sent)), Len(sent) \in Nat,
                    Range(s) = Range(queue[h]) \cup Range(nameq[n]),
                    UNCHANGED <<wire, here, dropped, errors>>
             PROVE  OneHolder(Held(wire, queue, nameq, here, dropped, errors)', Len(sent))
  OBVIOUS
<1>5. Held(wire, queue, nameq, here, dropped, errors)' = G
  OBVIOUS
<1> HIDE DEF F, G, H
<1>6. \A p \in Place : G[p] = IF p = <<"name", n>> THEN {}
                             ELSE IF p = <<"queue", h>> THEN H[<<"queue", h>>] \cup H[<<"name", n>>] ELSE H[p]
  <2>1. Range(<<>>) = {}
    BY EmptyList
  <2> QED
    BY <1>1, <1>2, <1>3, <2>1
<1>7. Shifts(G, H, <<"name", n>>, <<"queue", h>>)
  BY <1>4, <1>6 DEF Shifts
<1>8. OneHolder(G, Len(sent))
  BY <1>4, <1>7, Moved
<1> QED
  BY <1>5, <1>8

LEMMA WireGrows ==
  ASSUME wire \in [Harbor -> Seq(Nat)], queue' \in [Harbor -> Seq(Nat)],
         NEW h \in Harbor, NEW s \in Seq(Nat), wire' = [wire EXCEPT ![h] = @ \o s],
         ListsOrdered(wire, queue', nameq', sent'), NamesFirst(wire, queue', nameq', value', sent'),
         Ordered(s, sent'), Behind(wire[h], s, sent'), Behind(s, queue'[h], sent'),
         \A n \in Name : value'[n] \/ \A i \in DOMAIN s : sent'[s[i]] # ByName(n)
  PROVE  /\ wire' \in [Harbor -> Seq(Nat)]
         /\ ListsOrdered(wire, queue, nameq, sent)' /\ NamesFirst(wire, queue, nameq, value, sent)'
         /\ \A m \in Harbor : wire'[m] = IF m = h THEN wire[h] \o s ELSE wire[m]
         /\ Range(wire[h] \o s) = Range(wire[h]) \cup Range(s)
<1>1. LET x == [wire EXCEPT ![h] = @ \o s]
      IN  /\ x \in [Harbor -> Seq(Nat)]
          /\ ListsOrdered(x, queue', nameq', sent') /\ NamesFirst(x, queue', nameq', value', sent')
  BY WireJoined
<1>2. wire[h] \in Seq(Nat)
  OBVIOUS
<1>3. Range(wire[h] \o s) = Range(wire[h]) \cup Range(s)
  BY <1>2, Concatenated
<1> QED
  BY <1>1, <1>3

LEMMA QueueGrows ==
  ASSUME queue \in [Harbor -> Seq(Nat)], wire' \in [Harbor -> Seq(Nat)],
         NEW h \in Harbor, NEW s \in Seq(Nat), queue' = [queue EXCEPT ![h] = @ \o s],
         ListsOrdered(wire', queue, nameq', sent'), NamesFirst(wire', queue, nameq', value', sent'),
         Ordered(s, sent'), Behind(queue[h], s, sent'), Behind(wire'[h], s, sent'),
         \A n \in Name : value'[n] \/ \A i \in DOMAIN s : sent'[s[i]] # ByName(n)
  PROVE  /\ queue' \in [Harbor -> Seq(Nat)]
         /\ ListsOrdered(wire, queue, nameq, sent)' /\ NamesFirst(wire, queue, nameq, value, sent)'
         /\ \A m \in Harbor : queue'[m] = IF m = h THEN queue[h] \o s ELSE queue[m]
         /\ Range(queue[h] \o s) = Range(queue[h]) \cup Range(s)
<1>1. LET x == [queue EXCEPT ![h] = @ \o s]
      IN  /\ x \in [Harbor -> Seq(Nat)]
          /\ ListsOrdered(wire', x, nameq', sent') /\ NamesFirst(wire', x, nameq', value', sent')
  BY QueueJoined
<1>2. queue[h] \in Seq(Nat)
  OBVIOUS
<1>3. Range(queue[h] \o s) = Range(queue[h]) \cup Range(s)
  BY <1>2, Concatenated
<1> QED
  BY <1>1, <1>3

-----------------------------------------------------------------------------
(* A message comes.                                                        *)

LEMMA Contained ==
  ASSUME HarborInv
  PROVE  /\ \A h \in Harbor : Range(wire[h]) \subseteq 1 .. Len(sent) /\ Range(queue[h]) \subseteq 1 .. Len(sent)
         /\ \A n \in Name : Range(nameq[n]) \subseteq 1 .. Len(sent)
         /\ Range(here) \subseteq 1 .. Len(sent)
<1> DEFINE H == Held(wire, queue, nameq, here, dropped, errors)
<1>1. \A p \in Place : H[p] \subseteq 1 .. Len(sent)
  BY DEF HarborInv, OneHolder
<1>2. /\ \A h \in Harbor : H[<<"wire", h>>] = Range(wire[h]) /\ H[<<"queue", h>>] = Range(queue[h])
      /\ \A n \in Name : H[<<"name", n>>] = Range(nameq[n])
      /\ H[<<"here", Self>>] = Range(here)
  BY HeldAt
<1> HIDE DEF H
<1> QED
  BY <1>1, <1>2, Places

LEMMA SentLists ==
  ASSUME HarborInv, NEW a \in Address, NEW to, to = Append(sent, a), NEW k, k = Len(sent) + 1
  PROVE  /\ to \in Seq(Address) /\ Len(to) = k /\ k \in Nat
         /\ <<k>> \in Seq(Nat) /\ Range(<<k>>) = {k} /\ Ordered(<<k>>, to)
         /\ \A i \in DOMAIN <<k>> : to[<<k>>[i]] = a
         /\ ListsOrdered(wire, queue, nameq, to) /\ NamesFirst(wire, queue, nameq, value, to)
         /\ \A h \in Harbor : Behind(wire[h], <<k>>, to) /\ Behind(queue[h], <<k>>, to)
         /\ \A n \in Name : Behind(nameq[n], <<k>>, to)
         /\ k \notin Range(here)
<1>1. sent \in Seq(Address) /\ Len(sent) \in Nat /\ to \in Seq(Address)
  BY DEF HarborInv, HarborTypeOK
<1>2. /\ \A h \in Harbor : wire[h] \in Seq(Nat) /\ queue[h] \in Seq(Nat)
      /\ \A n \in Name : nameq[n] \in Seq(Nat)
  BY DEF HarborInv, HarborTypeOK
<1>3. Len(to) = k /\ k \in Nat /\ to[k] = a /\ \A x \in 1 .. Len(sent) : to[x] = sent[x]
  BY <1>1
<1>4. <<k>> \in Seq(Nat) /\ Range(<<k>>) = {k} /\ DOMAIN <<k>> = {1} /\ <<k>>[1] = k
  BY <1>3, EmptyList, AppendedList
<1>5. ASSUME NEW h \in Harbor
      PROVE  /\ Ordered(wire[h], to) /\ Ordered(queue[h], to) /\ Behind(wire[h], queue[h], to)
             /\ Behind(wire[h], <<k>>, to) /\ Behind(queue[h], <<k>>, to)
             /\ \A i \in DOMAIN wire[h] : to[wire[h][i]] = sent[wire[h][i]]
             /\ \A i \in DOMAIN queue[h] : to[queue[h][i]] = sent[queue[h][i]]
  <2>1. /\ wire[h] \in Seq(Nat) /\ Range(wire[h]) \subseteq 1 .. Len(sent)
        /\ queue[h] \in Seq(Nat) /\ Range(queue[h]) \subseteq 1 .. Len(sent)
    BY <1>2, Contained
  <2>2. Ordered(wire[h], sent) /\ Ordered(queue[h], sent) /\ Behind(wire[h], queue[h], sent)
    BY DEF HarborInv, ListsOrdered
  <2>3. \A i \in DOMAIN wire[h] : wire[h][i] < k /\ to[wire[h][i]] = sent[wire[h][i]]
    <3>1. \A i \in DOMAIN wire[h] : wire[h][i] \in 1 .. Len(sent)
      BY <2>1 DEF Range
    <3>2. \A x \in 1 .. Len(sent) : x < k /\ to[x] = sent[x]
      BY <1>1, <1>3
    <3> QED
      BY <3>1, <3>2
  <2>4. \A i \in DOMAIN queue[h] : queue[h][i] < k /\ to[queue[h][i]] = sent[queue[h][i]]
    <3>1. \A i \in DOMAIN queue[h] : queue[h][i] \in 1 .. Len(sent)
      BY <2>1 DEF Range
    <3>2. \A x \in 1 .. Len(sent) : x < k /\ to[x] = sent[x]
      BY <1>1, <1>3
    <3> QED
      BY <3>1, <3>2
  <2>5. Ordered(wire[h], to) /\ Ordered(queue[h], to)
    BY <2>2, <2>3, <2>4 DEF Ordered
  <2>6. Behind(wire[h], queue[h], to)
    BY <2>2, <2>3, <2>4 DEF Behind
  <2>7. Behind(wire[h], <<k>>, to) /\ Behind(queue[h], <<k>>, to)
    BY <1>4, <2>3, <2>4 DEF Behind
  <2> QED
    BY <2>3, <2>4, <2>5, <2>6, <2>7
<1>6. ASSUME NEW n \in Name
      PROVE  /\ Ordered(nameq[n], to) /\ Behind(nameq[n], <<k>>, to)
             /\ \A i \in DOMAIN nameq[n] : to[nameq[n][i]] = sent[nameq[n][i]]
  <2>1. Ordered(nameq[n], sent) /\ nameq[n] \in Seq(Nat) /\ Range(nameq[n]) \subseteq 1 .. Len(sent)
    BY <1>2, Contained DEF HarborInv, ListsOrdered
  <2>2. \A i \in DOMAIN nameq[n] : nameq[n][i] < k /\ to[nameq[n][i]] = sent[nameq[n][i]]
    <3>1. \A i \in DOMAIN nameq[n] : nameq[n][i] \in 1 .. Len(sent)
      BY <2>1 DEF Range
    <3>2. \A x \in 1 .. Len(sent) : x < k /\ to[x] = sent[x]
      BY <1>1, <1>3
    <3> QED
      BY <3>1, <3>2
  <2> QED
    BY <1>4, <2>1, <2>2 DEF Ordered, Behind
<1>7. ListsOrdered(wire, queue, nameq, to)
  BY <1>5, <1>6 DEF ListsOrdered
<1>8. NamesFirst(wire, queue, nameq, value, to)
  <2>1. NamesFirst(wire, queue, nameq, value, sent)
    BY DEF HarborInv
  <2>2. ASSUME NEW n \in Name PROVE \A i \in DOMAIN nameq[n] : to[nameq[n][i]] = ByName(n)
    BY <1>6, <2>1 DEF NamesFirst
  <2>3. ASSUME NEW n \in Name, ~value[n], NEW h \in Harbor
        PROVE  /\ \A i \in DOMAIN wire[h] : to[wire[h][i]] # ByName(n)
               /\ \A i \in DOMAIN queue[h] : to[queue[h][i]] # ByName(n)
    <3>1. /\ \A i \in DOMAIN wire[h] : sent[wire[h][i]] # ByName(n)
          /\ \A i \in DOMAIN queue[h] : sent[queue[h][i]] # ByName(n)
      BY <2>1, <2>3 DEF NamesFirst
    <3> QED
      BY <1>5, <3>1
  <2> QED
    BY <2>2, <2>3 DEF NamesFirst
<1>9. Ordered(<<k>>, to)
  BY <1>4 DEF Ordered
<1>10. k \notin Range(here)
  BY <1>1, Contained
<1> QED
  BY <1>1, <1>3, <1>4, <1>5, <1>6, <1>7, <1>8, <1>9, <1>10

LEMMA HereJoined ==
  ASSUME NEW s \in Seq(Nat), IsInjective(s), NEW k \in Nat, k \notin Range(s)
  PROVE  IsInjective(Append(s, k)) /\ Append(s, k) \in Seq(Nat) /\ Range(Append(s, k)) = Range(s) \cup {k}
<1> DEFINE t == s \o <<k>>
<1>1. Append(s, k) = t /\ <<k>> \in Seq(Nat) /\ Range(<<k>>) = {k} /\ DOMAIN <<k>> = {1} /\ <<k>>[1] = k
  BY AppendedList
<1>2. /\ t \in Seq(Nat) /\ Range(t) = Range(s) \cup {k}
      /\ \A i \in DOMAIN t :
           \/ i \in DOMAIN s /\ t[i] = s[i]
           \/ i \notin DOMAIN s /\ i - Len(s) \in DOMAIN <<k>> /\ t[i] = <<k>>[i - Len(s)]
  BY <1>1, Concatenated
<1> HIDE DEF t
<1>3. DOMAIN t \subseteq Nat /\ Len(s) \in Nat
  BY <1>2
<1>4. ASSUME NEW i \in DOMAIN t
      PROVE  \/ i \in DOMAIN s /\ t[i] = s[i] /\ t[i] # k
             \/ i = Len(s) + 1 /\ t[i] = k
  <2>1. CASE i \in DOMAIN s /\ t[i] = s[i]
    <3>1. s[i] \in Range(s)
      BY <2>1 DEF Range
    <3> QED
      BY <2>1, <3>1
  <2>2. CASE i - Len(s) \in DOMAIN <<k>> /\ t[i] = <<k>>[i - Len(s)]
    <3>1. i - Len(s) = 1
      BY <1>1, <2>2
    <3> QED
      BY <1>1, <1>3, <2>2, <3>1
  <2> QED
    BY <1>2, <2>1, <2>2
<1>5. IsInjective(t)
  BY <1>4 DEF IsInjective
<1> QED
  BY <1>1, <1>2, <1>5

LEMMA RemoteSendKeeps ==
  ASSUME HarborInv, NEW h \in Harbor, NEW a \in Address, sent' = Append(sent, a),
         RemoteSendHandle(h, Number), UNCHANGED <<fd, status, nameVars>>,
         \A n \in Name : value[n] \/ a # ByName(n)
  PROVE  HarborInv'
<1> DEFINE k == Len(sent) + 1
           s == <<k>>
<1>1. /\ sent' \in Seq(Address) /\ Len(sent') = k /\ k \in Nat
      /\ s \in Seq(Nat) /\ Range(s) = {k} /\ Ordered(s, sent')
      /\ \A i \in DOMAIN s : sent'[s[i]] = a
      /\ ListsOrdered(wire, queue, nameq, sent') /\ NamesFirst(wire, queue, nameq, value, sent')
      /\ Behind(wire[h], s, sent') /\ Behind(queue[h], s, sent')
      /\ k \notin Range(here)
  BY SentLists
<1>2. /\ OneHolder(Held(wire, queue, nameq, here, dropped, errors), Len(sent))
      /\ Len(sent) \in Nat
  BY DEF HarborInv, HarborTypeOK
<1>3. /\ HarborTypeOK /\ Connected /\ NothingStranded /\ IsInjective(here)
      /\ fd' = fd /\ status' = status /\ value' = value /\ nameq' = nameq /\ dropped' = dropped
      /\ wire \in [Harbor -> Seq(Nat)] /\ queue \in [Harbor -> Seq(Nat)] /\ here \in Seq(Nat)
  BY DEF HarborInv, HarborTypeOK, RemoteSendHandle, nameVars
<1>4. k = Number
  BY DEF Number
<1>5. \A n \in Name : value'[n] \/ \A i \in DOMAIN s : sent'[s[i]] # ByName(n)
  BY <1>1, <1>3
<1>6. Append(queue[h], k) = queue[h] \o s /\ Append(wire[h], k) = wire[h] \o s
  <2>1. k \in Nat
    BY <1>1
  <2>2. \A q \in Seq(Nat) : Append(q, k) = q \o s
    <3> HIDE DEF k
    <3> QED
      BY <2>1, AppendedList
  <2>3. queue[h] \in Seq(Nat) /\ wire[h] \in Seq(Nat)
    BY <1>3
  <2> QED
    BY <2>2, <2>3
<1> HIDE DEF s
<1>7. CASE here' = Append(here, k) /\ UNCHANGED <<queue, wire, errors>>
  <2>1. IsInjective(here') /\ here' \in Seq(Nat) /\ Range(here') = Range(here) \cup {Len(sent) + 1}
    BY <1>1, <1>3, <1>7, HereJoined
  <2>2. OneHolder(Held(wire, queue, nameq, here, dropped, errors)', k)
    BY <1>2, <1>3, <1>7, <2>1, PlacedOnHere
  <2> HIDE DEF k
  <2> QED
    BY <1>1, <1>3, <1>7, <2>1, <2>2
    DEF HarborInv, HarborTypeOK, Connected, NothingStranded
<1>8. CASE errors' = errors \cup {k} /\ UNCHANGED <<queue, wire, here>>
  <2>1. OneHolder(Held(wire, queue, nameq, here, dropped, errors)', k)
    BY <1>2, <1>3, <1>8, PlacedOnErrors
  <2> HIDE DEF k
  <2> QED
    BY <1>1, <1>3, <1>8, <2>1
    DEF HarborInv, HarborTypeOK, Connected, NothingStranded
<1>9. CASE /\ Waits(h) /\ status[h] # "DOWN"
           /\ queue' = [queue EXCEPT ![h] = Append(@, k)] /\ UNCHANGED <<wire, here, errors>>
  <2>1. /\ wire' = wire /\ queue' = [queue EXCEPT ![h] = @ \o s]
        /\ ListsOrdered(wire', queue, nameq', sent') /\ NamesFirst(wire', queue, nameq', value', sent')
        /\ Behind(wire'[h], s, sent')
    BY <1>1, <1>3, <1>6, <1>9
  <2>2. /\ queue' \in [Harbor -> Seq(Nat)]
        /\ ListsOrdered(wire, queue, nameq, sent)' /\ NamesFirst(wire, queue, nameq, value, sent)'
        /\ \A m \in Harbor : queue'[m] = IF m = h THEN queue[h] \o s ELSE queue[m]
        /\ Range(queue[h] \o s) = Range(queue[h]) \cup Range(s)
    BY <1>1, <1>3, <1>5, <2>1, QueueGrows
  <2>3. OneHolder(Held(wire, queue, nameq, here, dropped, errors)', k)
    <3>1. Range(queue[h] \o s) = Range(queue[h]) \cup {Len(sent) + 1}
      BY <1>1, <2>2
    <3> QED
      BY <1>2, <1>3, <1>9, <2>2, <3>1, PlacedOnQueue
  <2>4. NothingStranded'
    <3>1. status[h] \notin {"HEADER", "DOWN"}
      BY <1>3, <1>9 DEF Waits, Connected
    <3> QED
      BY <1>3, <2>2, <3>1 DEF NothingStranded
  <2> HIDE DEF k
  <2> QED
    BY <1>1, <1>3, <1>9, <2>2, <2>3, <2>4
    DEF HarborInv, HarborTypeOK, Connected
<1>10. CASE /\ ~Waits(h)
            /\ wire' = [wire EXCEPT ![h] = Append(@, k)] /\ UNCHANGED <<queue, here, errors>>
  <2>1. queue[h] = <<>>
    <3>1. status[h] \in {"HEADER", "DOWN"}
      BY <1>3, <1>10 DEF Waits, Connected, HarborTypeOK
    <3> QED
      BY <1>3, <3>1 DEF NothingStranded
  <2>2. /\ queue' = queue /\ wire' = [wire EXCEPT ![h] = @ \o s]
        /\ ListsOrdered(wire, queue', nameq', sent') /\ NamesFirst(wire, queue', nameq', value', sent')
        /\ Behind(s, queue'[h], sent')
    <3>1. Behind(s, queue[h], sent')
      BY <2>1, EmptyList DEF Behind
    <3> QED
      BY <1>1, <1>3, <1>6, <1>10, <3>1
  <2>3. /\ wire' \in [Harbor -> Seq(Nat)]
        /\ ListsOrdered(wire, queue, nameq, sent)' /\ NamesFirst(wire, queue, nameq, value, sent)'
        /\ \A m \in Harbor : wire'[m] = IF m = h THEN wire[h] \o s ELSE wire[m]
        /\ Range(wire[h] \o s) = Range(wire[h]) \cup Range(s)
    BY <1>1, <1>3, <1>5, <2>2, WireGrows
  <2>4. OneHolder(Held(wire, queue, nameq, here, dropped, errors)', k)
    <3>1. Range(wire[h] \o s) = Range(wire[h]) \cup {Len(sent) + 1}
      BY <1>1, <2>3
    <3> QED
      BY <1>2, <1>3, <1>10, <2>3, <3>1, PlacedOnWire
  <2> HIDE DEF k
  <2> QED
    BY <1>1, <1>3, <1>10, <2>3, <2>4
    DEF HarborInv, HarborTypeOK, Connected, NothingStranded
<1> QED
  BY <1>4, <1>7, <1>8, <1>9, <1>10 DEF RemoteSendHandle

LEMMA Addresses ==
  /\ \A h \in Peer : ByHandle(h) \in Address /\ \A n \in Name : ByHandle(h) # ByName(n)
  /\ \A n \in Name : ByName(n) \in Address
  /\ \A n, m \in Name : ByName(n) = ByName(m) => n = m
BY DEF Address, ByHandle, ByName

LEMMA SendHandleKeeps == ASSUME HarborInv, NEW h \in Peer, SendHandle(h) PROVE HarborInv'
<1>1. h \in Harbor /\ sent' = Append(sent, ByHandle(h)) /\ RemoteSendHandle(h, Number)
  BY DEF SendHandle, New, Peer
<1>2. UNCHANGED <<fd, status, nameVars>>
  BY DEF SendHandle, nameVars
<1> QED
  BY <1>1, <1>2, Addresses, RemoteSendKeeps

LEMMA SendNameKeeps == ASSUME HarborInv, NEW n \in Name, SendName(n) PROVE HarborInv'
<1> DEFINE a == ByName(n)
           k == Len(sent) + 1
           s == <<k>>
<1>1. sent' = Append(sent, a) /\ a \in Address /\ UNCHANGED <<fd, status, value>>
  BY Addresses DEF SendName, New
<1>2. CASE value[n]
  <2>1. RemoteSendHandle(Home[n], Number) /\ UNCHANGED <<fd, status, nameVars>> /\ Home[n] \in Harbor
    BY <1>1, <1>2, HarborAssumption DEF SendName, nameVars
  <2>2. \A m \in Name : value[m] \/ a # ByName(m)
    BY <1>2, Addresses
  <2> HIDE DEF a
  <2> QED
    BY <1>1, <2>1, <2>2, RemoteSendKeeps
<1>3. CASE ~value[n]
  <2>1. nameq' = [nameq EXCEPT ![n] = Append(@, k)] /\ UNCHANGED <<queue, wire, endVars>>
    BY <1>3 DEF SendName, Number
  <2>2. /\ sent' \in Seq(Address) /\ Len(sent') = k /\ k \in Nat
        /\ s \in Seq(Nat) /\ Range(s) = {k} /\ Ordered(s, sent')
        /\ \A i \in DOMAIN s : sent'[s[i]] = a
        /\ ListsOrdered(wire, queue, nameq, sent') /\ NamesFirst(wire, queue, nameq, value, sent')
        /\ Behind(nameq[n], s, sent')
    <3>1. ASSUME NEW b \in Address, sent' = Append(sent, b)
          PROVE  /\ sent' \in Seq(Address) /\ Len(sent') = k /\ k \in Nat
                 /\ s \in Seq(Nat) /\ Range(s) = {k} /\ Ordered(s, sent')
                 /\ \A i \in DOMAIN s : sent'[s[i]] = b
                 /\ ListsOrdered(wire, queue, nameq, sent') /\ NamesFirst(wire, queue, nameq, value, sent')
                 /\ Behind(nameq[n], s, sent')
      <4>1. sent' \in Seq(Address) /\ Len(sent') = k /\ k \in Nat
        BY <3>1, SentLists
      <4>2. s \in Seq(Nat) /\ Range(s) = {k} /\ Ordered(s, sent')
        BY <3>1, SentLists
      <4>3. \A i \in DOMAIN s : sent'[s[i]] = b
        BY <3>1, SentLists
      <4>4. ListsOrdered(wire, queue, nameq, sent') /\ NamesFirst(wire, queue, nameq, value, sent')
        BY <3>1, SentLists
      <4>5. Behind(nameq[n], s, sent')
        BY <3>1, SentLists
      <4> QED
        BY <4>1, <4>2, <4>3, <4>4, <4>5
    <3> HIDE DEF a, s, k
    <3> QED
      BY <1>1, <3>1
  <2>3. nameq \in [Name -> Seq(Nat)] /\ nameq[n] \in Seq(Nat)
    BY DEF HarborInv, HarborTypeOK
  <2>4. Append(nameq[n], k) = nameq[n] \o s
    BY <2>2, <2>3, AppendedList
  <2> HIDE DEF s
  <2>5. /\ nameq' = [nameq EXCEPT ![n] = @ \o s]
        /\ wire' = wire /\ queue' = queue /\ value' = value
    BY <1>1, <2>1, <2>4
  <2>6. /\ nameq' \in [Name -> Seq(Nat)]
        /\ ListsOrdered(wire, queue, nameq', sent') /\ NamesFirst(wire, queue, nameq', value, sent')
    <3>1. LET x == [nameq EXCEPT ![n] = @ \o s]
          IN  /\ x \in [Name -> Seq(Nat)]
              /\ ListsOrdered(wire, queue, x, sent') /\ NamesFirst(wire, queue, x, value, sent')
      BY <2>2, <2>3, NameJoined
    <3> QED
      BY <2>5, <3>1
  <2>7. \A m \in Name : nameq'[m] = IF m = n THEN nameq[n] \o s ELSE nameq[m]
    BY <2>3, <2>5
  <2>8. Range(nameq[n] \o s) = Range(nameq[n]) \cup {Len(sent) + 1}
    <3>1. Range(nameq[n] \o s) = Range(nameq[n]) \cup Range(s)
      BY <2>2, <2>3, Concatenated
    <3> QED
      BY <2>2, <3>1
  <2>9. OneHolder(Held(wire, queue, nameq, here, dropped, errors)', k)
    <3>1. OneHolder(Held(wire, queue, nameq, here, dropped, errors), Len(sent)) /\ Len(sent) \in Nat
      BY DEF HarborInv, HarborTypeOK
    <3>2. UNCHANGED <<wire, queue, here, dropped, errors>>
      BY <2>1 DEF endVars
    <3> QED
      BY <2>7, <2>8, <3>1, <3>2, PlacedOnName
  <2>10. /\ HarborTypeOK /\ Connected /\ NothingStranded /\ IsInjective(here)
         /\ UNCHANGED <<fd, status, value, wire, queue, here>>
    BY <1>1, <2>1 DEF HarborInv, endVars
  <2>11. NothingStranded'
    BY <1>3, <2>7, <2>10 DEF NothingStranded
  <2> HIDE DEF k
  <2> QED
    BY <2>2, <2>6, <2>9, <2>10, <2>11 DEF HarborInv, HarborTypeOK, Connected
<1> QED
  BY <1>2, <1>3

-----------------------------------------------------------------------------
(* What waits goes on.                                                     *)

LEMMA UpdateNameKeeps == ASSUME HarborInv, NEW n \in Name, UpdateName(n) PROVE HarborInv'
<1> DEFINE h == Home[n]
           s == nameq[n]
<1>1. /\ HarborTypeOK /\ Connected /\ NothingStranded /\ IsInjective(here) /\ Len(sent) \in Nat
      /\ OneHolder(Held(wire, queue, nameq, here, dropped, errors), Len(sent))
      /\ ListsOrdered(wire, queue, nameq, sent) /\ NamesFirst(wire, queue, nameq, value, sent)
  BY DEF HarborInv, HarborTypeOK
<1>2. /\ wire \in [Harbor -> Seq(Nat)] /\ queue \in [Harbor -> Seq(Nat)] /\ nameq \in [Name -> Seq(Nat)]
      /\ value \in [Name -> BOOLEAN] /\ s \in Seq(Nat) /\ h \in Harbor
  BY <1>1, HarborAssumption DEF HarborTypeOK
<1>3. /\ ~value[n] /\ value' = [value EXCEPT ![n] = TRUE]
      /\ nameq' = [nameq EXCEPT ![n] = <<>>]
      /\ UNCHANGED <<fd, status, sent, here, errors>>
  BY DEF UpdateName, DispatchNameQueue
<1>4. /\ nameq' \in [Name -> Seq(Nat)] /\ ListsOrdered(wire, queue, nameq', sent)
      /\ NamesFirst(wire, queue, nameq', value, sent)
  <2>1. LET x == [nameq EXCEPT ![n] = <<>>]
        IN  /\ x \in [Name -> Seq(Nat)] /\ x[n] = <<>>
            /\ ListsOrdered(wire, queue, x, sent) /\ NamesFirst(wire, queue, x, value, sent)
    BY <1>1, <1>2, NameCut
  <2> QED
    BY <1>3, <2>1
<1>5. \A m \in Name : /\ nameq'[m] = IF m = n THEN <<>> ELSE nameq[m]
                      /\ value'[m] = (m = n \/ value[m])
  BY <1>2, <1>3
<1>6. NamesFirst(wire, queue, nameq', value', sent')
  BY <1>3, <1>4, <1>5 DEF NamesFirst
<1>7. /\ \A i \in DOMAIN s : sent'[s[i]] = ByName(n)
      /\ \A i \in DOMAIN wire[h] : sent'[wire[h][i]] # ByName(n)
      /\ \A i \in DOMAIN queue[h] : sent'[queue[h][i]] # ByName(n)
  BY <1>1, <1>2, <1>3 DEF NamesFirst
<1>8. /\ Ordered(s, sent') /\ Behind(wire[h], s, sent') /\ Behind(queue[h], s, sent')
      /\ Behind(s, queue[h], sent')
  <2>1. Ordered(s, sent')
    BY <1>1, <1>3 DEF ListsOrdered
  <2> QED
    BY <1>7, <2>1 DEF Behind
<1>9. \A m \in Name : value'[m] \/ \A i \in DOMAIN s : sent'[s[i]] # ByName(m)
  BY <1>5, <1>7, Addresses
<1>10. \A m \in Name : value'[m] => nameq'[m] = <<>>
  BY <1>1, <1>5 DEF NothingStranded
<1>11. value' \in [Name -> BOOLEAN]
  BY <1>2, <1>3
<1>12. CASE ~fd[h]
  <2>1. status[h] = "WAIT"
    BY <1>1, <1>2, <1>12 DEF Connected
  <2>2. queue' = [queue EXCEPT ![h] = @ \o s] /\ UNCHANGED <<wire, dropped>>
    BY <1>12, <2>1 DEF UpdateName, DispatchNameQueue
  <2> HIDE DEF h, s
  <2>3. /\ wire' \in [Harbor -> Seq(Nat)] /\ Behind(wire'[h], s, sent')
        /\ ListsOrdered(wire', queue, nameq', sent') /\ NamesFirst(wire', queue, nameq', value', sent')
    BY <1>2, <1>3, <1>4, <1>6, <1>8, <2>2
  <2>4. /\ queue' \in [Harbor -> Seq(Nat)]
        /\ ListsOrdered(wire, queue, nameq, sent)' /\ NamesFirst(wire, queue, nameq, value, sent)'
        /\ \A m \in Harbor : queue'[m] = IF m = h THEN queue[h] \o s ELSE queue[m]
        /\ Range(queue[h] \o s) = Range(queue[h]) \cup Range(s)
    BY <1>2, <1>8, <1>9, <2>2, <2>3, QueueGrows
  <2>5. OneHolder(Held(wire, queue, nameq, here, dropped, errors)', Len(sent))
    BY <1>1, <1>2, <1>3, <1>5, <2>2, <2>4, MovedNameQueue DEF s
  <2>6. NothingStranded'
    BY <1>1, <1>3, <1>10, <2>1, <2>4 DEF NothingStranded
  <2> QED
    BY <1>1, <1>3, <1>4, <1>11, <2>2, <2>4, <2>5, <2>6 DEF HarborInv, HarborTypeOK, Connected
<1>13. CASE fd[h]
  <2>1. wire' = [wire EXCEPT ![h] = @ \o s] /\ UNCHANGED <<queue, dropped>>
    BY <1>13 DEF UpdateName, DispatchNameQueue
  <2> HIDE DEF h, s
  <2>2. /\ queue' \in [Harbor -> Seq(Nat)] /\ Behind(s, queue'[h], sent')
        /\ ListsOrdered(wire, queue', nameq', sent') /\ NamesFirst(wire, queue', nameq', value', sent')
    BY <1>2, <1>3, <1>4, <1>6, <1>8, <2>1
  <2>3. /\ wire' \in [Harbor -> Seq(Nat)]
        /\ ListsOrdered(wire, queue, nameq, sent)' /\ NamesFirst(wire, queue, nameq, value, sent)'
        /\ \A m \in Harbor : wire'[m] = IF m = h THEN wire[h] \o s ELSE wire[m]
        /\ Range(wire[h] \o s) = Range(wire[h]) \cup Range(s)
    BY <1>2, <1>8, <1>9, <2>1, <2>2, WireGrows
  <2>4. OneHolder(Held(wire, queue, nameq, here, dropped, errors)', Len(sent))
    BY <1>1, <1>2, <1>3, <1>5, <2>1, <2>3, MovedNameWire DEF s
  <2>5. NothingStranded'
    BY <1>1, <1>3, <1>10, <2>1 DEF NothingStranded
  <2> QED
    BY <1>1, <1>3, <1>4, <1>11, <2>1, <2>3, <2>4, <2>5 DEF HarborInv, HarborTypeOK, Connected
<1> QED
  BY <1>12, <1>13

\* DispatchQueue, when a connection is ready.
LEMMA DispatchQueueKeeps ==
  ASSUME HarborInv, NEW h \in Harbor, DispatchQueue(h), UNCHANGED <<nameVars, sent, endVars>>,
         fd' \in [Harbor -> BOOLEAN],
         status' = [status EXCEPT ![h] = "HEADER"], Connected'
  PROVE  HarborInv'
<1> DEFINE s == queue[h]
<1>1. /\ HarborTypeOK /\ NothingStranded /\ IsInjective(here) /\ Len(sent) \in Nat
      /\ OneHolder(Held(wire, queue, nameq, here, dropped, errors), Len(sent))
      /\ ListsOrdered(wire, queue, nameq, sent) /\ NamesFirst(wire, queue, nameq, value, sent)
      /\ wire \in [Harbor -> Seq(Nat)] /\ queue \in [Harbor -> Seq(Nat)] /\ s \in Seq(Nat)
  BY DEF HarborInv, HarborTypeOK
<1>2. /\ wire' = [wire EXCEPT ![h] = @ \o s] /\ queue' = [queue EXCEPT ![h] = <<>>]
      /\ UNCHANGED <<value, nameq, sent, here, dropped, errors>>
  BY DEF DispatchQueue, nameVars, endVars
<1>3. /\ queue' \in [Harbor -> Seq(Nat)] /\ queue'[h] = <<>>
      /\ ListsOrdered(wire, queue', nameq, sent) /\ NamesFirst(wire, queue', nameq, value, sent)
  <2>1. LET x == [queue EXCEPT ![h] = <<>>]
        IN  /\ x \in [Harbor -> Seq(Nat)] /\ x[h] = <<>>
            /\ ListsOrdered(wire, x, nameq, sent) /\ NamesFirst(wire, x, nameq, value, sent)
    BY <1>1, QueueCut
  <2> QED
    BY <1>2, <2>1
<1>4. \A m \in Harbor : queue'[m] = IF m = h THEN <<>> ELSE queue[m]
  BY <1>1, <1>2
<1>5. Ordered(s, sent') /\ Behind(wire[h], s, sent') /\ Behind(s, queue'[h], sent')
  <2>1. Ordered(s, sent') /\ Behind(wire[h], s, sent')
    BY <1>1, <1>2 DEF ListsOrdered
  <2> QED
    BY <1>3, <2>1, EmptyList DEF Behind
<1>6. \A n \in Name : value'[n] \/ \A i \in DOMAIN s : sent'[s[i]] # ByName(n)
  BY <1>1, <1>2 DEF NamesFirst
<1>7. ListsOrdered(wire, queue', nameq', sent') /\ NamesFirst(wire, queue', nameq', value', sent')
  BY <1>2, <1>3
<1> HIDE DEF s
<1>8. /\ wire' \in [Harbor -> Seq(Nat)]
      /\ ListsOrdered(wire, queue, nameq, sent)' /\ NamesFirst(wire, queue, nameq, value, sent)'
      /\ \A m \in Harbor : wire'[m] = IF m = h THEN wire[h] \o s ELSE wire[m]
      /\ Range(wire[h] \o s) = Range(wire[h]) \cup Range(s)
  BY <1>1, <1>2, <1>3, <1>5, <1>6, <1>7, WireGrows
<1>9. OneHolder(Held(wire, queue, nameq, here, dropped, errors)', Len(sent))
  BY <1>1, <1>2, <1>4, <1>8, MovedQueueWire DEF s
<1>10. status' \in [Harbor -> {"WAIT", "HANDSHAKE", "HEADER", "DOWN"}]
  BY <1>1 DEF HarborTypeOK
<1>11. NothingStranded'
  BY <1>1, <1>2, <1>4 DEF NothingStranded, HarborTypeOK
<1> QED
  BY <1>1, <1>2, <1>3, <1>8, <1>9, <1>10, <1>11 DEF HarborInv, HarborTypeOK

LEMMA AcceptKeeps == ASSUME HarborInv, NEW h \in Peer, Accept(h) PROVE HarborInv'
<1>1. /\ h \in Harbor /\ DispatchQueue(h) /\ UNCHANGED <<nameVars, sent, endVars>>
      /\ fd' = [fd EXCEPT ![h] = TRUE] /\ status' = [status EXCEPT ![h] = "HEADER"]
  BY DEF Accept, Peer
<1>2. HarborTypeOK /\ Connected
  BY DEF HarborInv
<1>3. fd' \in [Harbor -> BOOLEAN] /\ Connected'
  BY <1>1, <1>2 DEF HarborTypeOK, Connected
<1> QED
  BY <1>1, <1>3, DispatchQueueKeeps

LEMMA HandshakeKeeps == ASSUME HarborInv, NEW h \in Peer, Handshake(h) PROVE HarborInv'
<1>1. /\ h \in Harbor /\ DispatchQueue(h) /\ UNCHANGED <<nameVars, sent, endVars>>
      /\ fd' = fd /\ status[h] = "HANDSHAKE" /\ status' = [status EXCEPT ![h] = "HEADER"]
  BY DEF Handshake, Peer
<1>2. HarborTypeOK /\ Connected
  BY DEF HarborInv
<1>3. fd' \in [Harbor -> BOOLEAN] /\ Connected'
  BY <1>1, <1>2 DEF HarborTypeOK, Connected
<1> QED
  BY <1>1, <1>3, DispatchQueueKeeps

LEMMA ConnectKeeps == ASSUME HarborInv, NEW h \in Peer, Connect(h) PROVE HarborInv'
<1>1. /\ h \in Harbor /\ fd' = [fd EXCEPT ![h] = TRUE] /\ status' = [status EXCEPT ![h] = "HANDSHAKE"]
      /\ UNCHANGED <<queue, wire, sent, value, nameq, here, dropped, errors>>
  BY DEF Connect, Peer, nameVars, endVars
<1>2. HarborTypeOK /\ Connected /\ NothingStranded
  BY DEF HarborInv
<1>3. HarborTypeOK' /\ Connected'
  BY <1>1, <1>2 DEF HarborTypeOK, Connected
<1>4. NothingStranded'
  BY <1>1, <1>2 DEF NothingStranded, HarborTypeOK
<1> QED
  BY <1>1, <1>3, <1>4 DEF HarborInv

\* What waits for a connection is freed with it.
LEMMA BadDataKeeps == ASSUME HarborInv, NEW h \in Peer, BadData(h) PROVE HarborInv'
<1>1. /\ HarborTypeOK /\ Connected /\ NothingStranded /\ IsInjective(here) /\ Len(sent) \in Nat
      /\ OneHolder(Held(wire, queue, nameq, here, dropped, errors), Len(sent))
      /\ ListsOrdered(wire, queue, nameq, sent) /\ NamesFirst(wire, queue, nameq, value, sent)
      /\ wire \in [Harbor -> Seq(Nat)] /\ queue \in [Harbor -> Seq(Nat)]
  BY DEF HarborInv, HarborTypeOK
<1>2. /\ h \in Harbor /\ status[h] \in {"HANDSHAKE", "HEADER"}
      /\ status' = [status EXCEPT ![h] = "DOWN"]
      /\ dropped' = dropped \cup Range(queue[h]) /\ queue' = [queue EXCEPT ![h] = <<>>]
      /\ UNCHANGED <<fd, value, nameq, sent, wire, here, errors>>
  BY DEF BadData, CloseHarbor, Peer, nameVars
<1>3. /\ queue' \in [Harbor -> Seq(Nat)] /\ queue'[h] = <<>>
      /\ ListsOrdered(wire, queue', nameq, sent) /\ NamesFirst(wire, queue', nameq, value, sent)
  <2>1. LET x == [queue EXCEPT ![h] = <<>>]
        IN  /\ x \in [Harbor -> Seq(Nat)] /\ x[h] = <<>>
            /\ ListsOrdered(wire, x, nameq, sent) /\ NamesFirst(wire, x, nameq, value, sent)
    BY <1>1, <1>2, QueueCut
  <2> QED
    BY <1>2, <2>1
<1>4. \A m \in Harbor : queue'[m] = IF m = h THEN <<>> ELSE queue[m]
  BY <1>1, <1>2
<1>5. OneHolder(Held(wire, queue, nameq, here, dropped, errors)', Len(sent))
  BY <1>1, <1>2, <1>4, MovedQueueDropped
<1>6. /\ status' \in [Harbor -> {"WAIT", "HANDSHAKE", "HEADER", "DOWN"}]
      /\ \A m \in Harbor : status'[m] = IF m = h THEN "DOWN" ELSE status[m]
  BY <1>1, <1>2 DEF HarborTypeOK
<1>7. Connected' /\ NothingStranded'
  BY <1>1, <1>2, <1>4, <1>6 DEF Connected, NothingStranded
<1> QED
  BY <1>1, <1>2, <1>3, <1>5, <1>6, <1>7 DEF HarborInv, HarborTypeOK

-----------------------------------------------------------------------------
(* The theorem.                                                            *)

LEMMA HarborInitially == HarborInit => HarborInv
<1> SUFFICES ASSUME HarborInit PROVE HarborInv
  OBVIOUS
<1>1. <<>> \in Seq(Nat) /\ <<>> \in Seq(Address) /\ DOMAIN <<>> = {} /\ Range(<<>>) = {} /\ Len(<<>>) = 0
  BY EmptyList
<1>2. /\ \A h \in Harbor : wire[h] = <<>> /\ queue[h] = <<>> /\ status[h] = "WAIT" /\ ~fd[h]
      /\ \A n \in Name : nameq[n] = <<>> /\ ~value[n]
      /\ sent = <<>> /\ here = <<>> /\ dropped = {} /\ errors = {}
  BY DEF HarborInit
<1>3. HarborTypeOK
  BY <1>1 DEF HarborInit, HarborTypeOK
<1>4. Connected /\ NothingStranded /\ IsInjective(here)
  BY <1>1, <1>2 DEF Connected, NothingStranded, IsInjective
<1>5. ListsOrdered(wire, queue, nameq, sent)
  BY <1>1, <1>2 DEF ListsOrdered, Ordered, Behind
<1>6. NamesFirst(wire, queue, nameq, value, sent)
  BY <1>1, <1>2 DEF NamesFirst
<1>7. OneHolder(Held(wire, queue, nameq, here, dropped, errors), Len(sent))
  <2> DEFINE H == Held(wire, queue, nameq, here, dropped, errors)
  <2>1. /\ \A h \in Harbor : H[<<"wire", h>>] = Range(wire[h]) /\ H[<<"queue", h>>] = Range(queue[h])
        /\ \A n \in Name : H[<<"name", n>>] = Range(nameq[n])
        /\ H[<<"here", Self>>] = Range(here)
        /\ H[<<"dropped", Self>>] = dropped /\ H[<<"errors", Self>>] = errors
    BY HeldAt
  <2> HIDE DEF H
  <2>2. ASSUME NEW p \in Place PROVE H[p] = {}
    <3>1. /\ \A h \in Harbor : H[<<"wire", h>>] = {} /\ H[<<"queue", h>>] = {}
          /\ \A n \in Name : H[<<"name", n>>] = {}
          /\ H[<<"here", Self>>] = {} /\ H[<<"dropped", Self>>] = {} /\ H[<<"errors", Self>>] = {}
      BY <1>1, <1>2, <2>1
    <3> QED
      BY <3>1, PlaceCases
  <2>3. Len(sent) = 0
    BY <1>1, <1>2
  <2> QED
    BY <2>2, <2>3 DEF OneHolder, H
<1> QED
  BY <1>3, <1>4, <1>5, <1>6, <1>7 DEF HarborInv

LEMMA HarborStep == HarborInv /\ [HarborNext]_harborVars => HarborInv'
<1> SUFFICES ASSUME HarborInv, [HarborNext]_harborVars PROVE HarborInv'
  OBVIOUS
<1>1. ASSUME NEW h \in Peer, SendHandle(h) \/ Connect(h) \/ Accept(h) \/ Handshake(h) \/ BadData(h)
      PROVE  HarborInv'
  BY <1>1, SendHandleKeeps, ConnectKeeps, AcceptKeeps, HandshakeKeeps, BadDataKeeps
<1>2. ASSUME NEW n \in Name, SendName(n) \/ UpdateName(n) PROVE HarborInv'
  BY <1>2, SendNameKeeps, UpdateNameKeeps
<1>3. CASE UNCHANGED harborVars
  BY <1>3 DEF HarborInv, HarborTypeOK, Connected, NothingStranded, harborVars, nameVars, endVars
<1> QED
  BY <1>1, <1>2, <1>3 DEF HarborNext

LEMMA IncreasingInjective ==
  ASSUME NEW s \in Seq(Nat), NEW of, Ordered(s, of) PROVE IsInjective(s)
<1>1. DOMAIN s \subseteq Nat /\ \A i \in DOMAIN s : s[i] \in Nat
  OBVIOUS
<1>2. ASSUME NEW i \in DOMAIN s, NEW j \in DOMAIN s, s[i] = s[j] PROVE i = j
  <2>1. ~(i < j) /\ ~(j < i)
    BY <1>1, <1>2 DEF Ordered
  <2> QED
    BY <1>1, <2>1
<1> QED
  BY <1>2 DEF IsInjective

\* What the invariant says of messages.
LEMMA HarborInvForwards == HarborInv => MessagesForwarded
<1> SUFFICES ASSUME HarborInv PROVE MessagesForwarded
  OBVIOUS
<1>1. /\ NothingStranded /\ IsInjective(here) /\ ListsOrdered(wire, queue, nameq, sent)
      /\ \A h \in Harbor : wire[h] \in Seq(Nat) /\ queue[h] \in Seq(Nat)
      /\ \A n \in Name : nameq[n] \in Seq(Nat)
      /\ DOMAIN sent = 1 .. Len(sent)
  BY DEF HarborInv, HarborTypeOK
<1>2. \A h \in Harbor : IsInjective(wire[h]) /\ IsInjective(queue[h])
  BY <1>1, IncreasingInjective DEF ListsOrdered
<1>3. \A n \in Name : IsInjective(nameq[n])
  BY <1>1, IncreasingInjective DEF ListsOrdered
<1>4. \A k \in DOMAIN sent : \E p \in Place : \A q \in Place : k \in Holds(q) <=> q = p
  <2> DEFINE H == Held(wire, queue, nameq, here, dropped, errors)
  <2>1. \A p \in Place : H[p] = Holds(p)
    BY DEF Held, Holds
  <2>2. OneHolder(H, Len(sent))
    BY DEF HarborInv
  <2> HIDE DEF H
  <2> QED
    BY <1>1, <2>1, <2>2 DEF OneHolder
<1>5. EachInOnePlace
  BY <1>1, <1>2, <1>3, <1>4 DEF EachInOnePlace
<1>6. InOrder
  <2>1. ASSUME NEW h \in Harbor PROVE Ordered(wire[h] \o queue[h], sent)
    BY <1>1, OrderedJoined DEF ListsOrdered
  <2> QED
    BY <2>1 DEF InOrder, OnTheWay, Ordered
<1> QED
  BY <1>1, <1>5, <1>6 DEF MessagesForwarded

\* The harbor forwards every message for another node once, and those of one address in
\* the order in which they came, whatever they waited for; nothing is left in a queue that
\* nobody will look at again.
THEOREM HarborForwards == HarborSpec => []MessagesForwarded
<1>1. HarborInit => HarborInv
  BY HarborInitially
<1>2. HarborInv /\ [HarborNext]_harborVars => HarborInv'
  BY HarborStep
<1>3. HarborInv => MessagesForwarded
  BY HarborInvForwards
<1> QED
  BY <1>1, <1>2, <1>3, PTL DEF HarborSpec
=============================================================================
