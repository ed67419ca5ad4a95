------------------------------ MODULE WireProofs ------------------------------
(***************************************************************************)
(* Proofs about Wire and the modules it is made of, for every headset,     *)
(* chunk and fault that its assumptions allow: a message that is encoded   *)
(* is decoded as itself, a write changes its own setting only, what the    *)
(* session keeps of the bytes it has read is bounded, the last frame on    *)
(* its way gets through whatever came before it, and when nothing disturbs *)
(* them all that a headset says is read.                                   *)
(*                                                                         *)
(* The recursive functions of the model are taken apart here: that the one *)
(* a definition names exists is itself proved by induction.                *)
(***************************************************************************)
EXTENDS Wire, SequenceTheorems, WellFoundedInduction, TLAPS

-----------------------------------------------------------------------------
(* Induction and recursion.  A set takes the place of the predicate that is  *)
(* proved by induction, and functions that of the operators a recursion is   *)
(* made of.                                                                  *)

\* A nonempty set of numbers has a least one.
LEMMA Least ==
  ASSUME NEW T \in SUBSET Nat, T # {}
  PROVE  \E n \in T : \A m \in T : n <= m
<1> DEFINE R == {ss \in Nat \X Nat : ss[1] < ss[2]}
<1>1. IsWellFoundedOn(R, Nat)
  BY NatLessThanWellFounded DEF OpToRel
<1>2. \E x \in T : \A y \in T : <<y, x>> \notin R
  <2> HIDE DEF R
  <2> QED BY <1>1, WFMin
<1>3. PICK x \in T : \A y \in T : <<y, x>> \notin R
  BY <1>2
<1>4. \A y \in T : ~(y < x)
  BY <1>3
<1> QED BY <1>4

\* Induction on numbers.
LEMMA NatSet ==
  ASSUME NEW T, 0 \in T, \A n \in Nat : n \in T => n + 1 \in T
  PROVE  Nat \subseteq T
<1> DEFINE U == {n \in Nat : n \notin T}
<1> SUFFICES ASSUME U # {} PROVE FALSE
  OBVIOUS
<1>1. PICK n \in U : \A m \in U : n <= m
  <2>1. U \in SUBSET Nat
    OBVIOUS
  <2> HIDE DEF U
  <2> QED BY <2>1, Least
<1>2. n # 0 /\ n - 1 \in Nat /\ n - 1 \in T
  BY <1>1
<1>3. (n - 1) + 1 \in T
  BY <1>2
<1> QED BY <1>3, <1>1

\* A step from the members of D that are not in `stop` lowers their rank.
Falls(D, n, rank, stop, nxt) ==
  /\ n \in Nat /\ rank \in [D -> 0..n] /\ nxt \in [D -> D]
  /\ \A p \in D \ stop : rank[nxt[p]] < rank[p]

\* What is true where the steps end and, one step on, before it.
Carries(T, D, stop, nxt) == \A p \in D : p \in stop \/ nxt[p] \in T => p \in T

\* Induction along a step that lowers the rank.
LEMMA ByRank ==
  ASSUME NEW D, NEW n, NEW rank, NEW stop, NEW nxt, NEW T,
         Falls(D, n, rank, stop, nxt), Carries(T, D, stop, nxt)
  PROVE  D \subseteq T
<1> USE DEF Falls, Carries
<1> DEFINE U == {k \in Nat : \A p \in D : rank[p] < k => p \in T}
<1>1. 0 \in U
  OBVIOUS
<1>2. \A k \in Nat : k \in U => k + 1 \in U
  OBVIOUS
<1>3. Nat \subseteq U
  <2> HIDE DEF U
  <2> QED BY <1>1, <1>2, NatSet
<1>4. n + 1 \in U
  BY <1>3
<1> QED BY <1>4

\* f is given by its values where the recursion stops and, elsewhere, by G and
\* the value one step on.
RecEq(f, D, stop, base, nxt, G) ==
  \A p \in D : f[p] = IF p \in stop THEN base[p] ELSE G[<<p, f[nxt[p]]>>]

\* A recursion along a step that lowers the rank defines a function.
LEMMA Recursion ==
  ASSUME NEW D, NEW S, NEW n, NEW rank, NEW stop, NEW nxt,
         Falls(D, n, rank, stop, nxt),
         NEW base \in [D -> S], NEW G \in [D \X S -> S]
  PROVE  \E f \in [D -> S] : RecEq(f, D, stop, base, nxt, G)
<1> USE DEF Falls
<1> DEFINE Part(k) == {p \in D : rank[p] < k}
           Good(f, k) == \A p \in Part(k) :
                           f[p] = IF p \in stop THEN base[p] ELSE G[<<p, f[nxt[p]]>>]
           T == {k \in Nat : \E f \in [D -> S] : Good(f, k)}
<1>1. 0 \in T
  <2>1. Part(0) = {} OBVIOUS
  <2>2. Good(base, 0) BY <2>1
  <2> QED BY <2>2
<1>2. ASSUME NEW k \in Nat, k \in T PROVE k + 1 \in T
  <2>1. PICK f \in [D -> S] : Good(f, k)
    BY <1>2
  <2> DEFINE g == [p \in D |-> IF p \in stop THEN base[p] ELSE G[<<p, f[nxt[p]]>>]]
  <2>2. g \in [D -> S]
    OBVIOUS
  <2>3. \A p \in Part(k) : g[p] = f[p]
    BY <2>1
  <2>4. ASSUME NEW p \in Part(k + 1), p \notin stop PROVE g[p] = G[<<p, g[nxt[p]]>>]
    <3>1. nxt[p] \in Part(k)
      BY <2>4
    <3>2. g[nxt[p]] = f[nxt[p]]
      BY <3>1, <2>3
    <3> QED BY <2>4, <3>2
  <2>5. Good(g, k + 1)
    BY <2>4
  <2> HIDE DEF Good, g
  <2> QED BY <2>2, <2>5
<1>3. n + 1 \in T
  <2> HIDE DEF T
  <2> QED BY <1>1, <1>2, NatSet
<1>4. PICK f \in [D -> S] : Good(f, n + 1)
  BY <1>3
<1>5. Part(n + 1) = D
  OBVIOUS
<1> QED BY <1>4, <1>5 DEF RecEq

\* The largest number of an interval, and what is left without it.
LEMMA MaxOfInterval ==
  ASSUME NEW k \in Nat \ {0}
  PROVE  Max(1..k) = k /\ (1..k) \ {k} = 1..(k - 1) /\ 1..k # {}
BY DEF Max

\* The largest number of a nonempty set of 1..n.
LEMMA MaxIn ==
  ASSUME NEW n \in Nat, NEW s \in SUBSET (1..n), s # {}
  PROVE  Max(s) \in s /\ \A x \in s : x <= Max(s)
<1> DEFINE T == {m \in Nat : \A x \in s : x <= m}
<1>1. n \in T
  OBVIOUS
<1>2. PICK m \in T : \A k \in T : m <= k
  <2>1. T \in SUBSET Nat /\ T # {} BY <1>1
  <2> HIDE DEF T
  <2> QED BY <2>1, Least
<1>3. m \in s
  <2> SUFFICES ASSUME m \notin s PROVE FALSE
    OBVIOUS
  <2>1. \A x \in s : x <= m - 1
    BY <1>2
  <2>2. m - 1 \in Nat
    <3>1. PICK x \in s : TRUE
      OBVIOUS
    <3> QED BY <3>1, <2>1, <1>2
  <2> QED BY <2>1, <2>2, <1>2
<1> QED BY <1>2, <1>3 DEF Max

\* f is what a fold over 1..n makes of each set of places.
FoldEq(f, n, start, step) ==
  \A s \in SUBSET (1..n) : f[s] = IF s = {} THEN start ELSE step[<<Max(s), f[s \ {Max(s)}]>>]

\* r is what the fold comes to at each place, h being what it makes of a set.
RunEq(r, n, start, step, h) ==
  r[0] = start /\ r[n] = h[1..n] /\ \A k \in 1..n : r[k] = step[<<k, r[k - 1]>>]

\* The function that a fold over 1..n goes through exists.
LEMMA FoldExists ==
  ASSUME NEW n \in Nat, NEW S, NEW start \in S, NEW step \in [(1..n) \X S -> S]
  PROVE  \E f \in [SUBSET (1..n) -> S] : FoldEq(f, n, start, step)
<1> DEFINE D == SUBSET (1..n)
           rank == [s \in D |-> IF s = {} THEN 0 ELSE Max(s)]
           nxt == [s \in D |-> IF s = {} THEN {} ELSE s \ {Max(s)}]
           base == [s \in D |-> start]
           G == [q \in D \X S |-> IF q[1] = {} THEN start ELSE step[<<Max(q[1]), q[2]>>]]
<1>1. \A s \in D : s # {} => Max(s) \in s /\ Max(s) \in 1..n /\ \A x \in s : x <= Max(s)
  BY MaxIn
<1>2. rank \in [D -> 0..n] /\ nxt \in [D -> D] /\ base \in [D -> S]
  <2>1. \A s \in D : rank[s] \in 0..n
    BY <1>1
  <2>2. \A s \in D : nxt[s] \in D
    OBVIOUS
  <2> QED BY <2>1, <2>2
<1>3. G \in [D \X S -> S]
  <2>1. ASSUME NEW q \in D \X S, q[1] # {} PROVE step[<<Max(q[1]), q[2]>>] \in S
    <3>1. q[1] \in D /\ q[2] \in S
      OBVIOUS
    <3>2. Max(q[1]) \in 1..n
      BY <1>1, <2>1, <3>1
    <3> QED BY <3>1, <3>2
  <2> QED BY <2>1
<1>4. \A s \in D \ {{}} : rank[nxt[s]] < rank[s]
  <2> SUFFICES ASSUME NEW s \in D, s # {} PROVE rank[nxt[s]] < rank[s]
    OBVIOUS
  <2>1. nxt[s] = s \ {Max(s)} /\ nxt[s] \in D /\ rank[s] = Max(s) /\ Max(s) \in 1..n
    BY <1>1
  <2>2. CASE nxt[s] = {}
    BY <2>1, <2>2
  <2>3. CASE nxt[s] # {}
    <3>1. Max(nxt[s]) \in nxt[s]
      BY <2>1, <2>3, <1>1
    <3>2. Max(nxt[s]) \in s /\ Max(nxt[s]) # Max(s) /\ Max(nxt[s]) <= Max(s)
      BY <3>1, <2>1, <1>1
    <3>3. rank[nxt[s]] = Max(nxt[s])
      BY <2>1, <2>3
    <3>4. Max(nxt[s]) \in 1..n
      BY <3>2
    <3> HIDE DEF rank, nxt
    <3> QED BY <3>2, <3>3, <3>4, <2>1
  <2> QED BY <2>2, <2>3
<1>5. \E f \in [D -> S] : RecEq(f, D, {{}}, base, nxt, G)
  <2> HIDE DEF D, rank, nxt, base, G
  <2>1. Falls(D, n, rank, {{}}, nxt)
    BY <1>2, <1>4 DEF Falls
  <2> QED BY <1>2, <1>3, <2>1, Recursion
<1>6. PICK f \in [D -> S] : RecEq(f, D, {{}}, base, nxt, G)
  BY <1>5
<1>7. ASSUME NEW s \in D
      PROVE  f[s] = IF s = {} THEN start ELSE step[<<Max(s), f[s \ {Max(s)}]>>]
  <2>1. CASE s = {} BY <1>6, <2>1 DEF RecEq
  <2>2. CASE s # {}
    <3>1. f[s] = G[<<s, f[nxt[s]]>>]
      BY <1>6, <2>2 DEF RecEq
    <3>2. nxt[s] = s \ {Max(s)} /\ f[nxt[s]] \in S
      BY <2>2, <1>2
    <3>3. G[<<s, f[nxt[s]]>>] = step[<<Max(s), f[nxt[s]]>>]
      BY <3>2, <2>2
    <3> QED BY <3>1, <3>2, <3>3, <2>2
  <2> QED BY <2>1, <2>2
<1> QED BY <1>7 DEF FoldEq

\* A fold goes through the values of its prefixes.
LEMMA FoldIs ==
  ASSUME NEW n \in Nat, NEW S, NEW start \in S, NEW step \in [(1..n) \X S -> S],
         NEW h, h[{}] = start,
         \A k \in 1..n : h[1..(k - 1)] \in S => h[1..k] = step[<<k, h[1..(k - 1)]>>]
  PROVE  \E r \in [0..n -> S] : RunEq(r, n, start, step, h)
<1> DEFINE r == [k \in 0..n |-> h[1..k]]
           T == {k \in Nat : k <= n => h[1..k] \in S}
<1>1. 1..0 = {}
  OBVIOUS
<1>2. 0 \in T
  BY <1>1
<1>3. ASSUME NEW k \in Nat, k \in T PROVE k + 1 \in T
  <2> SUFFICES ASSUME k + 1 <= n PROVE h[1..(k + 1)] \in S
    OBVIOUS
  <2>1. k + 1 \in 1..n /\ (k + 1) - 1 = k /\ h[1..k] \in S
    BY <1>3
  <2>2. h[1..(k + 1)] = step[<<k + 1, h[1..k]>>]
    BY <2>1
  <2> QED BY <2>1, <2>2
<1>4. Nat \subseteq T
  <2> HIDE DEF T
  <2> QED BY <1>2, <1>3, NatSet
<1>5. r \in [0..n -> S]
  BY <1>4
<1>6. r[0] = start /\ r[n] = h[1..n]
  BY <1>1
<1>7. ASSUME NEW k \in 1..n PROVE r[k] = step[<<k, r[k - 1]>>]
  <2>1. k - 1 \in 0..n /\ k \in 0..n
    OBVIOUS
  <2>2. r[k - 1] = h[1..(k - 1)] /\ r[k] = h[1..k] /\ r[k - 1] \in S
    BY <2>1, <1>5
  <2> HIDE DEF r
  <2> QED BY <2>2
<1> HIDE DEF r
<1> QED BY <1>5, <1>6, <1>7 DEF RunEq

\* Induction on sequences.
LEMMA SeqSet ==
  ASSUME NEW A, NEW T, <<>> \in T,
         \A s \in Seq(A) : \A a \in A : s \in T => Append(s, a) \in T
  PROVE  Seq(A) \subseteq T
<1> DEFINE U == {n \in Nat : \A s \in Seq(A) : Len(s) = n => s \in T}
<1>1. 0 \in U
  <2>1. \A s \in Seq(A) : Len(s) = 0 => s = <<>>
    OBVIOUS
  <2> QED BY <2>1
<1>2. ASSUME NEW n \in Nat, n \in U PROVE n + 1 \in U
  <2>1. SUFFICES ASSUME NEW s \in Seq(A), Len(s) = n + 1 PROVE s \in T
    OBVIOUS
  <2>2. SubSeq(s, 1, n) \in Seq(A) /\ Len(SubSeq(s, 1, n)) = n /\ s[n + 1] \in A
    BY <2>1
  <2>3. s = Append(SubSeq(s, 1, n), s[n + 1])
    BY <2>1, <2>2
  <2> QED BY <1>2, <2>2, <2>3
<1>3. Nat \subseteq U
  <2> HIDE DEF U
  <2> QED BY <1>1, <1>2, NatSet
<1> QED BY <1>3

-----------------------------------------------------------------------------
(* Escaping *)

\* What unescaping has come to.
Taken == [out : Seq(Byte), escaping : BOOLEAN]
Start0 == [out |-> <<>>, escaping |-> FALSE]

\* One byte more keeps what has been read a sequence of bytes.
LEMMA TakeType ==
  ASSUME NEW r \in Taken, NEW byte \in Byte
  PROVE  Take(r, byte) \in Taken
<1>1. r.out \in Seq(Byte) /\ r.escaping \in BOOLEAN
  BY DEF Taken
<1>2. WithBit(byte) \in Int
  BY DEF WithBit, Byte
<1>3. WithBit(byte) \in Byte
  <2>1. CASE (byte \div 16) % 2 = 1
    BY <2>1 DEF WithBit
  <2>2. CASE (byte \div 16) % 2 # 1
    <3>1. byte < 240
      BY <2>2 DEF Byte
    <3> QED BY <2>2, <3>1 DEF WithBit, Byte
  <2> QED BY <2>1, <2>2
<1> DEFINE b == IF r.escaping THEN WithBit(byte) ELSE byte
<1>4. b \in Byte /\ Append(r.out, b) \in Seq(Byte)
  BY <1>1, <1>3
<1>5. CASE r.escaping \/ byte # ESCAPE
  <2> HIDE DEF b
  <2> QED BY <1>4, <1>5 DEF Take, Taken, b
<1>6. CASE ~(r.escaping \/ byte # ESCAPE)
  BY <1>1, <1>6 DEF Take, Taken
<1> QED BY <1>5, <1>6

\* Unescaping goes byte by byte.
LEMMA UnescapeRun ==
  ASSUME NEW data \in Seq(Byte)
  PROVE  \E r \in [0..Len(data) -> Taken] :
            /\ r[0] = Start0
            /\ \A k \in 1..Len(data) : r[k] = Take(r[k - 1], data[k])
            /\ r[Len(data)] = Unescape(data)
<1> DEFINE n == Len(data)
           step == [q \in (1..n) \X Taken |-> Take(q[2], data[q[1]])]
           iter[s \in SUBSET DOMAIN data] ==
             IF s = {} THEN Start0
             ELSE LET x == Max(s) IN Take(iter[s \ {x}], data[x])
<1>1. n \in Nat /\ DOMAIN data = 1..n /\ \A k \in 1..n : data[k] \in Byte
  OBVIOUS
<1>2. Start0 \in Taken
  BY DEF Start0, Taken
<1>3. step \in [(1..n) \X Taken -> Taken]
  BY <1>1, TakeType
<1>4. \E f \in [SUBSET (1..n) -> Taken] : FoldEq(f, n, Start0, step)
  <2> HIDE DEF n, step, iter
  <2>1. n \in Nat
    BY <1>1
  <2> QED BY <2>1, <1>2, <1>3, FoldExists
<1>5. \E f : f = [s \in SUBSET DOMAIN data |->
                    IF s = {} THEN Start0
                    ELSE LET x == Max(s) IN Take(f[s \ {x}], data[x])]
  <2>1. PICK f \in [SUBSET (1..n) -> Taken] : FoldEq(f, n, Start0, step)
    BY <1>4
  <2>2. ASSUME NEW s \in SUBSET (1..n), s # {}
        PROVE  f[s] = Take(f[s \ {Max(s)}], data[Max(s)])
    <3>1. Max(s) \in 1..n /\ f[s \ {Max(s)}] \in Taken
      BY <1>1, <2>2, MaxIn
    <3> QED BY <2>1, <2>2, <3>1 DEF FoldEq
  <2>3. \A s \in SUBSET DOMAIN data :
           f[s] = IF s = {} THEN Start0
                  ELSE LET x == Max(s) IN Take(f[s \ {x}], data[x])
    BY <1>1, <2>1, <2>2 DEF FoldEq
  <2> QED BY <1>1, <2>1, <2>3
<1>6. iter = [s \in SUBSET DOMAIN data |->
                IF s = {} THEN Start0
                ELSE LET x == Max(s) IN Take(iter[s \ {x}], data[x])]
  BY <1>5
<1>7. Unescape(data) = iter[DOMAIN data]
  BY DEF Unescape, FoldLeft, MapThenFoldSet, Start0
<1>8. iter[{}] = Start0
  <2> HIDE DEF iter
  <2> QED BY <1>6
<1>9. ASSUME NEW k \in 1..n, iter[1..(k - 1)] \in Taken
      PROVE  iter[1..k] = step[<<k, iter[1..(k - 1)]>>]
  <2>1. Max(1..k) = k /\ (1..k) \ {k} = 1..(k - 1) /\ 1..k # {} /\ 1..k \in SUBSET DOMAIN data
    BY <1>1, MaxOfInterval
  <2> HIDE DEF iter
  <2>2. iter[1..k] = Take(iter[1..(k - 1)], data[k])
    BY <1>6, <2>1
  <2> QED BY <2>2, <1>9
<1>10. \E r \in [0..n -> Taken] : RunEq(r, n, Start0, step, iter)
  <2> HIDE DEF n, step, iter
  <2>1. n \in Nat
    BY <1>1
  <2> QED BY <2>1, <1>2, <1>3, <1>8, <1>9, FoldIs
<1>11. PICK r \in [0..n -> Taken] : RunEq(r, n, Start0, step, iter)
  BY <1>10
<1>12. ASSUME NEW k \in 1..n PROVE r[k] = Take(r[k - 1], data[k])
  <2>1. k - 1 \in 0..n
    BY <1>1
  <2>2. r[k - 1] \in Taken
    BY <2>1
  <2> QED BY <2>2, <1>11 DEF RunEq
<1> HIDE DEF iter
<1> QED BY <1>1, <1>7, <1>11, <1>12 DEF RunEq

\* What unescape reads is a sequence of bytes, whatever it is given.
LEMMA UnescapeType ==
  ASSUME NEW data \in Seq(Byte)
  PROVE  Unescape(data) \in Taken
<1>1. Len(data) \in 0..Len(data)
  OBVIOUS
<1> QED BY <1>1, UnescapeRun

\* Nothing is taken of nothing.
LEMMA UnescapeEmpty == Unescape(<<>>) = Start0
<1>1. <<>> \in Seq(Byte) /\ Len(<<>>) = 0
  OBVIOUS
<1> QED BY <1>1, UnescapeRun

\* One byte more.
LEMMA UnescapeAppend ==
  ASSUME NEW data \in Seq(Byte), NEW byte \in Byte
  PROVE  Unescape(Append(data, byte)) = Take(Unescape(data), byte)
<1> DEFINE more == Append(data, byte)
           n == Len(data)
<1>1. more \in Seq(Byte) /\ Len(more) = n + 1 /\ n \in Nat
  OBVIOUS
<1>2. \A k \in 1..n : more[k] = data[k]
  OBVIOUS
<1>3. more[n + 1] = byte
  OBVIOUS
<1>4. PICK r \in [0..n -> Taken] :
         /\ r[0] = Start0
         /\ \A k \in 1..n : r[k] = Take(r[k - 1], data[k])
         /\ r[n] = Unescape(data)
  BY UnescapeRun
<1> HIDE DEF more
<1>5. PICK q \in [0..(n + 1) -> Taken] :
         /\ q[0] = Start0
         /\ \A k \in 1..(n + 1) : q[k] = Take(q[k - 1], more[k])
         /\ q[n + 1] = Unescape(more)
  BY <1>1, UnescapeRun
<1> DEFINE T == {k \in Nat : k <= n => q[k] = r[k]}
<1>6. 0 \in T
  BY <1>4, <1>5
<1>7. ASSUME NEW k \in Nat, k \in T PROVE k + 1 \in T
  <2> SUFFICES ASSUME k + 1 <= n PROVE q[k + 1] = r[k + 1]
    OBVIOUS
  <2>1. k + 1 \in 1..n /\ k + 1 \in 1..(n + 1) /\ (k + 1) - 1 = k
    BY <1>1
  <2>2. q[k + 1] = Take(q[k], more[k + 1]) /\ r[k + 1] = Take(r[k], data[k + 1])
    BY <2>1, <1>4, <1>5
  <2> QED BY <2>1, <2>2, <1>2, <1>7
<1>8. Nat \subseteq T
  <2> HIDE DEF T
  <2> QED BY <1>6, <1>7, NatSet
<1>9. q[n] = r[n]
  BY <1>1, <1>8
<1>10. q[n + 1] = Take(q[n], more[n + 1])
  <2>1. n + 1 \in 1..(n + 1) /\ (n + 1) - 1 = n
    BY <1>1
  <2> QED BY <2>1, <1>5
<1> QED BY <1>3, <1>4, <1>5, <1>9, <1>10 DEF more

\* What flattening has come to at each place.
FlatEq(f, ss) ==
  \A i \in 1..Len(ss) : f[i] = IF i = 1 THEN ss[i] ELSE f[i - 1] \o ss[i]

\* FlattenSeq is the last value of a run along its sequences.
LEMMA FlattenRun ==
  ASSUME NEW A, NEW ss \in Seq(Seq(A)), Len(ss) > 0
  PROVE  \E f \in [1..Len(ss) -> Seq(A)] : FlatEq(f, ss) /\ FlattenSeq(ss) = f[Len(ss)]
<1> DEFINE D == 1..Len(ss)
           flat[i \in 1..Len(ss)] == IF i = 1 THEN ss[i] ELSE flat[i - 1] \o ss[i]
           nxt == [i \in D |-> IF i = 1 THEN 1 ELSE i - 1]
           rank == [i \in D |-> i]
           G == [q \in D \X Seq(A) |-> q[2] \o ss[q[1]]]
<1>0. ss \in [D -> Seq(A)] /\ Len(ss) \in Nat
  OBVIOUS
<1>f. Falls(D, Len(ss), rank, {1}, nxt)
  <2>1. rank \in [D -> 0..Len(ss)] /\ nxt \in [D -> D]
    OBVIOUS
  <2>2. \A p \in D \ {1} : rank[nxt[p]] < rank[p]
    OBVIOUS
  <2> QED BY <1>0, <2>1, <2>2 DEF Falls
<1>1. \E f \in [D -> Seq(A)] : RecEq(f, D, {1}, ss, nxt, G)
  <2>1. G \in [D \X Seq(A) -> Seq(A)]
    OBVIOUS
  <2> HIDE DEF D, rank, nxt, G, flat
  <2> QED BY <1>0, <1>f, <2>1, Recursion
<1>2. PICK f \in [D -> Seq(A)] : RecEq(f, D, {1}, ss, nxt, G)
  BY <1>1
<1>3. FlatEq(f, ss)
  <2> SUFFICES ASSUME NEW i \in D, i # 1 PROVE f[i] = f[i - 1] \o ss[i]
    <3> HIDE DEF flat
    <3> QED BY <1>2 DEF RecEq, FlatEq
  <2>1. nxt[i] = i - 1 /\ i - 1 \in D
    OBVIOUS
  <2>2. f[i] = G[<<i, f[i - 1]>>]
    <3> HIDE DEF D, nxt, G, flat
    <3> QED BY <1>2, <2>1 DEF RecEq
  <2>3. f[i - 1] \in Seq(A)
    BY <2>1
  <2> QED BY <2>2, <2>3
<1>4. f = [i \in 1..Len(ss) |-> IF i = 1 THEN ss[i] ELSE f[i - 1] \o ss[i]]
  <2> HIDE DEF flat
  <2> QED BY <1>3 DEF FlatEq
<1>5. flat = [i \in 1..Len(ss) |-> IF i = 1 THEN ss[i] ELSE flat[i - 1] \o ss[i]]
  BY <1>4
<1>6. FlattenSeq(ss) = flat[Len(ss)]
  BY DEF FlattenSeq
<1>7. \A i \in D : flat[i] = f[i]
  <2> DEFINE T == {i \in D : flat[i] = f[i]}
  <2>3. ASSUME NEW p \in D, p \in {1} \/ nxt[p] \in T PROVE p \in T
    <3>1. CASE p = 1
      <4> HIDE DEF flat
      <4> QED BY <1>3, <1>5, <3>1 DEF FlatEq
    <3>2. CASE p # 1
      <4>1. nxt[p] = p - 1 /\ flat[p - 1] = f[p - 1]
        BY <2>3, <3>2
      <4>2. f[p] = f[p - 1] \o ss[p]
        BY <1>3, <3>2 DEF FlatEq
      <4> HIDE DEF flat
      <4>3. flat[p] = flat[p - 1] \o ss[p]
        BY <1>5, <3>2
      <4> QED BY <4>1, <4>2, <4>3
    <3> QED BY <3>1, <3>2
  <2>4. D \subseteq T
    <3> HIDE DEF D, T, rank, nxt, flat, G
    <3>1. Carries(T, D, {1}, nxt)
      BY <2>3 DEF Carries
    <3> QED BY <1>f, <3>1, ByRank
  <2> HIDE DEF flat
  <2> QED BY <2>4
<1>8. FlattenSeq(ss) = f[Len(ss)]
  <2> HIDE DEF flat
  <2> QED BY <1>0, <1>6, <1>7
<1> HIDE DEF flat
<1> QED BY <1>3, <1>8

\* Sequences put end to end are a sequence of the same elements.
LEMMA FlattenType ==
  ASSUME NEW A, NEW ss \in Seq(Seq(A))
  PROVE  FlattenSeq(ss) \in Seq(A)
<1>1. CASE Len(ss) = 0
  BY <1>1 DEF FlattenSeq
<1>2. CASE Len(ss) > 0
  <2>1. PICK f \in [1..Len(ss) -> Seq(A)] : FlatEq(f, ss) /\ FlattenSeq(ss) = f[Len(ss)]
    BY <1>2, FlattenRun
  <2>2. Len(ss) \in 1..Len(ss)
    BY <1>2
  <2> QED BY <2>1, <2>2
<1> QED BY <1>1, <1>2

\* One sequence more.
LEMMA FlattenAppend ==
  ASSUME NEW A, NEW ss \in Seq(Seq(A)), NEW s \in Seq(A)
  PROVE  FlattenSeq(Append(ss, s)) = FlattenSeq(ss) \o s
<1> DEFINE more == Append(ss, s)
           n == Len(ss)
<1>1. more \in Seq(Seq(A)) /\ Len(more) = n + 1 /\ n \in Nat
  OBVIOUS
<1>2. \A k \in 1..n : more[k] = ss[k]
  OBVIOUS
<1>3. more[n + 1] = s
  OBVIOUS
<1> HIDE DEF more
<1>4. PICK g \in [1..(n + 1) -> Seq(A)] : FlatEq(g, more) /\ FlattenSeq(more) = g[n + 1]
  BY <1>1, FlattenRun
<1>5. CASE n = 0
  <2>1. FlattenSeq(ss) = <<>>
    BY <1>5 DEF FlattenSeq
  <2>2. g[n + 1] = s
    BY <1>1, <1>3, <1>4, <1>5 DEF FlatEq
  <2> QED BY <2>1, <2>2, <1>4 DEF more
<1>6. CASE n > 0
  <2>1. PICK f \in [1..n -> Seq(A)] : FlatEq(f, ss) /\ FlattenSeq(ss) = f[n]
    BY <1>6, FlattenRun
  <2> DEFINE T == {k \in Nat : k \in 1..n => g[k] = f[k]}
  <2>2. 0 \in T
    OBVIOUS
  <2>3. ASSUME NEW k \in Nat, k \in T PROVE k + 1 \in T
    <3> SUFFICES ASSUME k + 1 \in 1..n PROVE g[k + 1] = f[k + 1]
      OBVIOUS
    <3>1. k + 1 \in 1..(n + 1) /\ (k + 1) - 1 = k /\ more[k + 1] = ss[k + 1]
      BY <1>1, <1>2
    <3>2. k + 1 # 1 => g[k] = f[k]
      BY <2>3
    <3>3. f[k + 1] = IF k + 1 = 1 THEN ss[k + 1] ELSE f[k] \o ss[k + 1]
      BY <3>1, <2>1 DEF FlatEq
    <3>4. g[k + 1] = IF k + 1 = 1 THEN more[k + 1] ELSE g[k] \o more[k + 1]
      BY <3>1, <1>1, <1>4 DEF FlatEq
    <3> QED BY <3>1, <3>2, <3>3, <3>4
  <2>4. Nat \subseteq T
    <3> HIDE DEF T
    <3> QED BY <2>2, <2>3, NatSet
  <2>5. g[n] = f[n]
    <3>1. n \in T
      <4> HIDE DEF T, n
      <4> QED BY <1>1, <2>4
    <3> QED BY <3>1, <1>6
  <2>6. g[n + 1] = g[n] \o s
    <3>1. n + 1 \in 1..Len(more) /\ n + 1 # 1 /\ (n + 1) - 1 = n
      BY <1>1, <1>6
    <3> QED BY <3>1, <1>3, <1>4 DEF FlatEq
  <2> QED BY <2>1, <2>5, <2>6, <1>4 DEF more
<1> QED BY <1>1, <1>5, <1>6

\* Of a byte: one or two, neither a header nor a trailer.
LEMMA EscapedByte ==
  ASSUME NEW byte \in Byte
  PROVE  /\ Escaped(byte) \in Seq(Byte)
         /\ Len(Escaped(byte)) \in 1..2
         /\ \A i \in 1..Len(Escaped(byte)) : Escaped(byte)[i] \notin {HEADER, TRAILER}
<1>1. CASE byte \notin Special
  BY <1>1 DEF Escaped, Special
<1>2. CASE byte \in Special
  <2>1. byte - 16 \in Byte /\ byte - 16 \notin {HEADER, TRAILER}
           /\ ESCAPE \in Byte /\ ESCAPE \notin {HEADER, TRAILER}
    BY <1>2 DEF Special, HEADER, TRAILER, ESCAPE, Byte
  <2> HIDE DEF Byte
  <2>2. Escaped(byte) = <<ESCAPE, byte - 16>>
    BY <1>2 DEF Escaped
  <2> QED BY <2>1, <2>2
<1> QED BY <1>1, <1>2

\* An escaped sequence is a sequence of bytes.
LEMMA EscapeType ==
  ASSUME NEW data \in Seq(Byte)
  PROVE  /\ [i \in DOMAIN data |-> Escaped(data[i])] \in Seq(Seq(Byte))
         /\ Escape(data) \in Seq(Byte)
<1>1. \A i \in DOMAIN data : Escaped(data[i]) \in Seq(Byte)
  BY EscapedByte
<1>2. DOMAIN data = 1..Len(data) /\ Len(data) \in Nat
  OBVIOUS
<1>3. [i \in DOMAIN data |-> Escaped(data[i])] \in Seq(Seq(Byte))
  BY <1>1, <1>2
<1> HIDE DEF Byte
<1> QED BY <1>3, FlattenType DEF Escape

\* Nothing escaped is nothing.
LEMMA EscapeEmpty == Escape(<<>>) = <<>>
<1>1. [i \in DOMAIN <<>> |-> Escaped(<<>>[i])] = <<>>
  OBVIOUS
<1> QED BY <1>1 DEF Escape, FlattenSeq

\* A byte is escaped on its own: it comes after those before it.
LEMMA EscapeAppend ==
  ASSUME NEW data \in Seq(Byte), NEW byte \in Byte
  PROVE  Escape(Append(data, byte)) = Escape(data) \o Escaped(byte)
<1> DEFINE ss == [i \in DOMAIN data |-> Escaped(data[i])]
           more == Append(data, byte)
<1>1. ss \in Seq(Seq(Byte)) /\ Escaped(byte) \in Seq(Byte) /\ Len(ss) = Len(data)
  BY EscapeType, EscapedByte
<1>2. [i \in DOMAIN more |-> Escaped(more[i])] = Append(ss, Escaped(byte))
  <2>1. DOMAIN more = 1..(Len(data) + 1) /\ Len(data) \in Nat
    OBVIOUS
  <2>2. Append(ss, Escaped(byte)) \in Seq(Seq(Byte))
           /\ Len(Append(ss, Escaped(byte))) = Len(data) + 1
    BY <1>1
  <2>3. [i \in DOMAIN more |-> Escaped(more[i])] \in Seq(Seq(Byte))
           /\ Len([i \in DOMAIN more |-> Escaped(more[i])]) = Len(data) + 1
    <3>1. more \in Seq(Byte)
      OBVIOUS
    <3> HIDE DEF more
    <3>2. [i \in DOMAIN more |-> Escaped(more[i])] \in Seq(Seq(Byte))
      BY <3>1, EscapeType
    <3> QED BY <2>1, <3>2
  <2>4. ASSUME NEW i \in 1..(Len(data) + 1)
        PROVE  Escaped(more[i]) = Append(ss, Escaped(byte))[i]
    <3>1. CASE i = Len(data) + 1
      BY <3>1, <1>1
    <3>2. CASE i # Len(data) + 1
      <4>1. i \in 1..Len(data) /\ more[i] = data[i]
        BY <2>1, <3>2
      <4> QED BY <4>1, <1>1
    <3> QED BY <3>1, <3>2
  <2> QED BY <2>1, <2>2, <2>3, <2>4
<1> HIDE DEF ss
<1>3. FlattenSeq(Append(ss, Escaped(byte))) = FlattenSeq(ss) \o Escaped(byte)
  BY <1>1, FlattenAppend
<1> QED BY <1>2, <1>3 DEF Escape, ss

\* Two sequences are escaped one behind the other.
LEMMA EscapeConcat ==
  ASSUME NEW a \in Seq(Byte), NEW b \in Seq(Byte)
  PROVE  Escape(a \o b) = Escape(a) \o Escape(b)
<1> DEFINE T == {s \in Seq(Byte) : Escape(a \o s) = Escape(a) \o Escape(s)}
<1>1. <<>> \in T
  <2>1. Escape(a) \in Seq(Byte)
    BY EscapeType
  <2>2. a \o <<>> = a /\ Escape(a) \o <<>> = Escape(a)
    BY <2>1
  <2>3. Escape(a \o <<>>) = Escape(a) \o Escape(<<>>)
    BY <2>2, EscapeEmpty
  <2> QED BY <2>3
<1>2. ASSUME NEW s \in Seq(Byte), NEW byte \in Byte, s \in T PROVE Append(s, byte) \in T
  <2>1. a \o Append(s, byte) = Append(a \o s, byte) /\ a \o s \in Seq(Byte)
    OBVIOUS
  <2>2. Escape(Append(a \o s, byte)) = Escape(a \o s) \o Escaped(byte)
    BY <2>1, EscapeAppend
  <2>3. Escape(Append(s, byte)) = Escape(s) \o Escaped(byte)
    BY EscapeAppend
  <2>4. Escape(a) \in Seq(Byte) /\ Escape(s) \in Seq(Byte) /\ Escaped(byte) \in Seq(Byte)
    BY EscapeType, EscapedByte
  <2>5. (Escape(a) \o Escape(s)) \o Escaped(byte) = Escape(a) \o (Escape(s) \o Escaped(byte))
    BY <2>4
  <2>6. Escape(a \o s) = Escape(a) \o Escape(s) /\ Append(s, byte) \in Seq(Byte)
    BY <1>2
  <2>7. Escape(a \o Append(s, byte)) = Escape(a) \o Escape(Append(s, byte))
    BY <2>1, <2>2, <2>3, <2>5, <2>6
  <2> QED BY <2>6, <2>7
<1>3. Seq(Byte) \subseteq T
  <2> HIDE DEF T
  <2> QED BY <1>1, <1>2, SeqSet
<1> QED BY <1>3

\* What is escaped holds neither a header nor a trailer, and is at most twice as
\* long.
LEMMA EscapeHides ==
  ASSUME NEW data \in Seq(Byte)
  PROVE  /\ \A i \in 1..Len(Escape(data)) : Escape(data)[i] \notin {HEADER, TRAILER}
         /\ Len(data) <= Len(Escape(data)) /\ Len(Escape(data)) <= Len(data) + Len(data)
<1> DEFINE Hidden(s) == /\ \A i \in 1..Len(Escape(s)) : Escape(s)[i] \notin {HEADER, TRAILER}
                        /\ Len(s) <= Len(Escape(s)) /\ Len(Escape(s)) <= Len(s) + Len(s)
           T == {s \in Seq(Byte) : Hidden(s)}
<1>1. <<>> \in T
  BY EscapeEmpty
<1>2. ASSUME NEW s \in Seq(Byte), NEW byte \in Byte, s \in T PROVE Append(s, byte) \in T
  <2> DEFINE e == Escape(s)
             x == Escaped(byte)
  <2>1. Escape(Append(s, byte)) = e \o x
    BY EscapeAppend
  <2>2. e \in Seq(Byte) /\ x \in Seq(Byte) /\ Len(x) \in 1..2
           /\ \A i \in 1..Len(x) : x[i] \notin {HEADER, TRAILER}
    BY EscapeType, EscapedByte
  <2>3. /\ \A i \in 1..Len(e) : e[i] \notin {HEADER, TRAILER}
        /\ Len(s) <= Len(e) /\ Len(e) <= Len(s) + Len(s)
    BY <1>2
  <2>4. Append(s, byte) \in Seq(Byte) /\ Len(Append(s, byte)) = Len(s) + 1 /\ Len(s) \in Nat
    OBVIOUS
  <2> HIDE DEF e, x
  <2>5. Len(e \o x) = Len(e) + Len(x)
    BY <2>2
  <2>6. ASSUME NEW i \in 1..Len(e \o x) PROVE (e \o x)[i] \notin {HEADER, TRAILER}
    <3>1. (e \o x)[i] = IF i <= Len(e) THEN e[i] ELSE x[i - Len(e)]
      BY <2>2
    <3>2. i > Len(e) => i - Len(e) \in 1..Len(x)
      BY <2>2, <2>5
    <3>3. i <= Len(e) => i \in 1..Len(e)
      BY <2>2
    <3> QED BY <3>1, <3>2, <3>3, <2>2, <2>3
  <2>7. Len(s) + 1 <= Len(e \o x) /\ Len(e \o x) <= (Len(s) + 1) + (Len(s) + 1)
    <3> DEFINE l == Len(s)
               m == Len(e)
               k == Len(x)
               c == Len(e \o x)
    <3>1. l \in Nat /\ m \in Nat /\ k \in 1..2 /\ c = m + k /\ l <= m /\ m <= l + l
      BY <2>2, <2>3, <2>5
    <3> HIDE DEF l, m, k, c
    <3>2. l + 1 <= c /\ c <= (l + 1) + (l + 1)
      BY <3>1
    <3> QED BY <3>2 DEF l, c
  <2> QED BY <2>1, <2>4, <2>6, <2>7
<1>3. Seq(Byte) \subseteq T
  <2> HIDE DEF T
  <2> QED BY <1>1, <1>2, SeqSet
<1> QED BY <1>3

\* Unescaping undoes escaping.
LEMMA UnescapeEscape ==
  ASSUME NEW data \in Seq(Byte)
  PROVE  Unescape(Escape(data)) = [out |-> data, escaping |-> FALSE]
<1> DEFINE T == {s \in Seq(Byte) : Unescape(Escape(s)) = [out |-> s, escaping |-> FALSE]}
<1>1. <<>> \in T
  BY EscapeEmpty, UnescapeEmpty DEF Start0
<1>2. ASSUME NEW s \in Seq(Byte), NEW byte \in Byte, s \in T PROVE Append(s, byte) \in T
  <2> DEFINE e == Escape(s)
  <2>1. e \in Seq(Byte) /\ Unescape(e) = [out |-> s, escaping |-> FALSE]
    BY <1>2, EscapeType
  <2>2. Escape(Append(s, byte)) = e \o Escaped(byte)
    BY EscapeAppend
  <2> HIDE DEF e
  <2>3. CASE byte \notin Special
    <3>1. e \o Escaped(byte) = Append(e, byte)
      BY <2>1, <2>3 DEF Escaped
    <3>2. Unescape(Append(e, byte)) = Take(Unescape(e), byte)
      BY <2>1, UnescapeAppend
    <3>3. byte # ESCAPE
      BY <2>3 DEF Special
    <3>4. Take([out |-> s, escaping |-> FALSE], byte)
            = [out |-> Append(s, byte), escaping |-> FALSE]
      BY <3>3 DEF Take
    <3>5. Unescape(Escape(Append(s, byte))) = [out |-> Append(s, byte), escaping |-> FALSE]
      BY <2>1, <2>2, <3>1, <3>2, <3>4
    <3> QED BY <3>5
  <2>4. CASE byte \in Special
    <3>1. byte - 16 \in Byte /\ ESCAPE \in Byte /\ WithBit(byte - 16) = byte
      <4>1. byte \in {60, 61, 62}
        BY <2>4 DEF Special, HEADER, TRAILER, ESCAPE
      <4>2. ((byte - 16) \div 16) % 2 # 1
        BY <4>1
      <4> QED BY <4>1, <4>2 DEF ESCAPE, Byte, WithBit
    <3>2. e \o Escaped(byte) = Append(Append(e, ESCAPE), byte - 16)
      BY <2>1, <2>4, <3>1 DEF Escaped
    <3>3. Unescape(Append(e, ESCAPE)) = Take(Unescape(e), ESCAPE)
      BY <2>1, <3>1, UnescapeAppend
    <3>4. Append(e, ESCAPE) \in Seq(Byte)
      BY <2>1, <3>1
    <3>5. Unescape(Append(Append(e, ESCAPE), byte - 16))
             = Take(Unescape(Append(e, ESCAPE)), byte - 16)
      BY <3>1, <3>4, UnescapeAppend
    <3>6. Take([out |-> s, escaping |-> FALSE], ESCAPE) = [out |-> s, escaping |-> TRUE]
      BY DEF Take
    <3>7. Take([out |-> s, escaping |-> TRUE], byte - 16)
             = [out |-> Append(s, byte), escaping |-> FALSE]
      BY <3>1 DEF Take
    <3>8. Unescape(Escape(Append(s, byte))) = [out |-> Append(s, byte), escaping |-> FALSE]
      BY <2>1, <2>2, <3>2, <3>3, <3>5, <3>6, <3>7
    <3> QED BY <3>8
  <2> QED BY <2>3, <2>4
<1>3. Seq(Byte) \subseteq T
  <2> HIDE DEF T
  <2> QED BY <1>1, <1>2, SeqSet
<1> QED BY <1>3

-----------------------------------------------------------------------------
(* Messages *)

\* A checksum is a byte.
LEMMA ChecksumType ==
  ASSUME NEW data \in Seq(Byte)
  PROVE  Checksum(data) \in Byte
<1> DEFINE n == Len(data)
           step == [q \in (1..n) \X Nat |-> q[2] + data[q[1]]]
           iter[s \in SUBSET DOMAIN data] ==
             IF s = {} THEN 0 ELSE LET x == Max(s) IN iter[s \ {x}] + data[x]
<1>1. n \in Nat /\ DOMAIN data = 1..n /\ \A k \in 1..n : data[k] \in Nat
  <2>1. Byte \subseteq Nat
    BY DEF Byte
  <2>2. data \in [1..n -> Byte] /\ n \in Nat
    OBVIOUS
  <2> HIDE DEF Byte, n
  <2> QED BY <2>1, <2>2
<1>2. step \in [(1..n) \X Nat -> Nat]
  BY <1>1
<1>3. \E f \in [SUBSET (1..n) -> Nat] : FoldEq(f, n, 0, step)
  <2> HIDE DEF n, step, iter
  <2> QED BY <1>1, <1>2, FoldExists
<1>4. \E f : f = [s \in SUBSET DOMAIN data |->
                    IF s = {} THEN 0 ELSE LET x == Max(s) IN f[s \ {x}] + data[x]]
  <2>1. PICK f \in [SUBSET (1..n) -> Nat] : FoldEq(f, n, 0, step)
    BY <1>3
  <2>2. ASSUME NEW s \in SUBSET (1..n), s # {} PROVE f[s] = f[s \ {Max(s)}] + data[Max(s)]
    <3>1. Max(s) \in 1..n /\ f[s \ {Max(s)}] \in Nat
      BY <1>1, <2>2, MaxIn
    <3> QED BY <2>1, <2>2, <3>1 DEF FoldEq
  <2>3. \A s \in SUBSET DOMAIN data :
           f[s] = IF s = {} THEN 0 ELSE LET x == Max(s) IN f[s \ {x}] + data[x]
    BY <1>1, <2>1, <2>2 DEF FoldEq
  <2> QED BY <1>1, <2>1, <2>3
<1>5. iter = [s \in SUBSET DOMAIN data |->
                IF s = {} THEN 0 ELSE LET x == Max(s) IN iter[s \ {x}] + data[x]]
  BY <1>4
<1>6. Checksum(data) = iter[DOMAIN data] % 256
  BY DEF Checksum, FoldLeft, MapThenFoldSet
<1>7. iter[{}] = 0
  <2> HIDE DEF iter
  <2> QED BY <1>5
<1>8. ASSUME NEW k \in 1..n, iter[1..(k - 1)] \in Nat
      PROVE  iter[1..k] = step[<<k, iter[1..(k - 1)]>>]
  <2>1. Max(1..k) = k /\ (1..k) \ {k} = 1..(k - 1) /\ 1..k # {} /\ 1..k \in SUBSET DOMAIN data
    BY <1>1, MaxOfInterval
  <2> HIDE DEF iter
  <2>2. iter[1..k] = iter[1..(k - 1)] + data[k]
    BY <1>5, <2>1
  <2> QED BY <2>2, <1>8
<1>9. \E r \in [0..n -> Nat] : RunEq(r, n, 0, step, iter)
  <2> DEFINE S == Nat
             zero == 0
  <2>1. zero \in S /\ step \in [(1..n) \X S -> S] /\ iter[{}] = zero
    BY <1>2, <1>7
  <2>2. \A k \in 1..n : iter[1..(k - 1)] \in S => iter[1..k] = step[<<k, iter[1..(k - 1)]>>]
    BY <1>8
  <2>3. \E r \in [0..n -> S] : RunEq(r, n, zero, step, iter)
    <3> HIDE DEF n, step, iter, S, zero
    <3> QED BY <1>1, <2>1, <2>2, FoldIs
  <2> QED BY <2>3
<1>10. iter[DOMAIN data] \in Nat
  <2> HIDE DEF iter
  <2> QED BY <1>1, <1>9 DEF RunEq
<1> HIDE DEF iter
<1>11. \A x \in Nat : x % 256 \in Byte
  BY DEF Byte
<1> QED BY <1>6, <1>10, <1>11

\* The two parts of a concatenation.
LEMMA PartsOfConcat ==
  ASSUME NEW S, NEW a \in Seq(S), NEW b \in Seq(S)
  PROVE  /\ SubSeq(a \o b, 1, Len(a)) = a
         /\ SubSeq(a \o b, Len(a) + 1, Len(a \o b)) = b
<1>1. /\ Len(a) \in Nat /\ Len(b) \in Nat /\ a \o b \in Seq(S)
      /\ Len(a \o b) = Len(a) + Len(b)
  BY LenProperties, ConcatProperties
<1>2. SubSeq(a \o b, 1, Len(a)) = a
  <2>1. CASE Len(a) = 0
    <3>1. a = <<>>
      BY <2>1
    <3> QED BY <2>1, <3>1, SubSeqEmpty
  <2>2. CASE Len(a) # 0
    <3>1. SubSeq(a \o b, 1, Len(a)) = SubSeq(a, 1, Len(a))
      BY <1>1, <2>2, SubSeqOfConcat1
    <3> QED BY <3>1, SubSeqFull
  <2> QED BY <2>1, <2>2
<1>3. SubSeq(a \o b, Len(a) + 1, Len(a) + Len(b)) = b
  <2>1. CASE Len(b) = 0
    <3>1. b = <<>>
      BY <2>1
    <3> QED BY <1>1, <2>1, <3>1, SubSeqEmpty
  <2>2. CASE Len(b) # 0
    <3>1. SubSeq(a \o b, Len(a) + 1, Len(a) + Len(b))
             = SubSeq(b, (Len(a) + 1) - Len(a), (Len(a) + Len(b)) - Len(a))
      BY <1>1, <2>2, SubSeqOfConcat2
    <3>2. (Len(a) + 1) - Len(a) = 1 /\ (Len(a) + Len(b)) - Len(a) = Len(b)
      BY <1>1
    <3> QED BY <3>1, <3>2, SubSeqFull
  <2> QED BY <2>1, <2>2
<1> QED BY <1>1, <1>2, <1>3

\* What a message can be.
Messages == [type : Byte, seq : Byte, payload : {p \in Seq(Byte) : Len(p) < 256 * 256}]

\* What the checksum is of.
BodyOf(m) == <<m.type, m.seq>> \o LengthField(Len(m.payload)) \o m.payload

\* Where the fields of a message are in its body.
LEMMA BodyShape ==
  ASSUME NEW m \in Messages
  PROVE  /\ BodyOf(m) \in Seq(Byte)
         /\ Len(BodyOf(m)) = HEADER_LEN + Len(m.payload)
         /\ BodyOf(m)[1] = m.type /\ BodyOf(m)[2] = m.seq
         /\ SubSeq(BodyOf(m), 3, HEADER_LEN) = LengthField(Len(m.payload))
         /\ SubSeq(BodyOf(m), HEADER_LEN + 1, Len(BodyOf(m))) = m.payload
<1> DEFINE p == m.payload
           n == Len(p)
           front == <<m.type, m.seq>>
           field == LengthField(n)
           head == front \o field
<1>1. p \in Seq(Byte) /\ n \in Nat /\ n < 256 * 256 /\ m.type \in Byte /\ m.seq \in Byte
  BY DEF Messages
<1> HIDE DEF p, n
<1>2. n \div 256 \in Byte /\ n % 256 \in Byte /\ 0 \in Byte
  BY <1>1 DEF Byte
<1> HIDE DEF Byte
<1>3. field \in Seq(Byte) /\ Len(field) = 4
  BY <1>2 DEF LengthField
<1>4. front \in Seq(Byte) /\ Len(front) = 2 /\ front[1] = m.type /\ front[2] = m.seq
  BY <1>1
<1> HIDE DEF front, field
<1>5. /\ head \in Seq(Byte) /\ Len(head) = 6
      /\ head[1] = m.type /\ head[2] = m.seq /\ SubSeq(head, 3, 6) = field
  <2>1. head \in Seq(Byte) /\ Len(head) = Len(front) + Len(field)
    BY <1>3, <1>4, ConcatProperties
  <2>4. Len(head) = 6
    BY <1>3, <1>4, <2>1
  <2>2. head[1] = front[1] /\ head[2] = front[2]
    BY <1>3, <1>4, ConcatProperties
  <2>3. SubSeq(head, Len(front) + 1, Len(head)) = field
    BY <1>3, <1>4, PartsOfConcat
  <2>5. Len(front) + 1 = 3
    BY <1>4
  <2> QED BY <1>4, <2>1, <2>2, <2>3, <2>4, <2>5
<1> HIDE DEF head
<1>6. BodyOf(m) = head \o p
  BY DEF BodyOf, head, front, field, n, p
<1>7. /\ head \o p \in Seq(Byte) /\ Len(head \o p) = 6 + Len(p)
      /\ (head \o p)[1] = head[1] /\ (head \o p)[2] = head[2]
  <2>1. head \o p \in Seq(Byte) /\ Len(head \o p) = Len(head) + Len(p) /\ Len(p) \in Nat
    BY <1>1, <1>5, ConcatProperties, LenProperties
  <2>2. \A i \in 1..(Len(head) + Len(p)) : i <= Len(head) => (head \o p)[i] = head[i]
    BY <1>1, <1>5, ConcatProperties
  <2>3. 1 \in 1..(Len(head) + Len(p)) /\ 2 \in 1..(Len(head) + Len(p))
           /\ 1 <= Len(head) /\ 2 <= Len(head)
    BY <1>5, <2>1
  <2> QED BY <1>5, <2>1, <2>2, <2>3
<1>8. SubSeq(head \o p, 3, 6) = SubSeq(head, 3, 6)
  <2>1. 3 \in 1..Len(head) /\ 6 \in 1..Len(head)
    BY <1>5
  <2> QED BY <1>1, <1>5, <2>1, SubSeqOfConcat1
<1>9. SubSeq(head \o p, 7, Len(head \o p)) = p
  <2>1. SubSeq(head \o p, Len(head) + 1, Len(head \o p)) = p
    BY <1>1, <1>5, PartsOfConcat
  <2>2. Len(head) + 1 = 7
    BY <1>5
  <2> QED BY <2>1, <2>2
<1> QED BY <1>5, <1>6, <1>7, <1>8, <1>9 DEF HEADER_LEN, p, n, field

\* What is escaped in a frame.
FullOf(m) == Append(BodyOf(m), Checksum(BodyOf(m)))

\* An encoded message is a header, an escaped body and sum, and a trailer.
LEMMA EncodeShape ==
  ASSUME NEW m \in Messages
  PROVE  /\ FullOf(m) \in Seq(Byte) /\ Len(FullOf(m)) = Len(m.payload) + 7
         /\ Encode(m) = (<<HEADER>> \o Escape(FullOf(m))) \o <<TRAILER>>
         /\ Encode(m) \in Seq(Byte)
         /\ Len(Encode(m)) = Len(Escape(FullOf(m))) + 2
<1> DEFINE b == BodyOf(m)
           c == Checksum(b)
<1>1. b \in Seq(Byte) /\ Len(b) = 6 + Len(m.payload) /\ Len(m.payload) \in Nat
  BY BodyShape DEF HEADER_LEN, Messages
<1>2. c \in Byte
  BY <1>1, ChecksumType
<1>3. Encode(m) = <<HEADER>> \o Escape(b) \o Escape(<<c>>) \o <<TRAILER>>
  BY DEF Encode, BodyOf
<1> HIDE DEF b, c
<1>4. Escape(b) \in Seq(Byte) /\ Escape(<<c>>) \in Seq(Byte)
  <2>1. <<c>> \in Seq(Byte)
    BY <1>2
  <2> QED BY <1>1, <2>1, EscapeType
<1>5. Append(b, c) = b \o <<c>> /\ Append(b, c) \in Seq(Byte) /\ <<c>> \in Seq(Byte)
        /\ Len(Append(b, c)) = Len(b) + 1
  BY <1>1, <1>2
<1>6. Escape(Append(b, c)) = Escape(b) \o Escape(<<c>>) /\ Escape(Append(b, c)) \in Seq(Byte)
  BY <1>1, <1>5, EscapeConcat, EscapeType
<1>7. HEADER \in Byte /\ TRAILER \in Byte
  BY DEF HEADER, TRAILER, Byte
<1>8. (<<HEADER>> \o Escape(b)) \o Escape(<<c>>) = <<HEADER>> \o (Escape(b) \o Escape(<<c>>))
  BY <1>4, <1>7
<1>9. Encode(m) = (<<HEADER>> \o Escape(Append(b, c))) \o <<TRAILER>>
  BY <1>3, <1>6, <1>8
<1>10. FullOf(m) = Append(b, c)
  BY DEF FullOf, b, c
<1>11. \A e \in Seq(Byte) : /\ (<<HEADER>> \o e) \o <<TRAILER>> \in Seq(Byte)
                             /\ Len((<<HEADER>> \o e) \o <<TRAILER>>) = Len(e) + 2
  BY <1>7
<1>12. Len(b) + 1 = Len(m.payload) + 7
  BY <1>1
<1> QED BY <1>5, <1>6, <1>9, <1>10, <1>11, <1>12

\* Whatever a message says is read back: any type, sequence number and payload,
\* whichever of its bytes are special (framing.py encode and decode).
THEOREM RoundTrip ==
  ASSUME NEW m \in Messages
  PROVE  Decode(Encode(m)) = m
<1> DEFINE b == BodyOf(m)
           p == m.payload
           full == FullOf(m)
           e == Escape(full)
           frame == Encode(m)
<1>1. /\ b \in Seq(Byte) /\ Len(b) = 6 + Len(p) /\ Len(p) \in Nat
      /\ b[1] = m.type /\ b[2] = m.seq
      /\ SubSeq(b, 3, 6) = LengthField(Len(p)) /\ SubSeq(b, 7, Len(b)) = p
  BY BodyShape DEF HEADER_LEN, Messages
<1>2. /\ full \in Seq(Byte) /\ Len(full) = Len(p) + 7
      /\ frame = (<<HEADER>> \o e) \o <<TRAILER>> /\ Len(frame) = Len(e) + 2
  BY EncodeShape
<1>3. e \in Seq(Byte) /\ Len(full) <= Len(e)
  BY <1>2, EscapeType, EscapeHides
<1>4. Unescape(e) = [out |-> full, escaping |-> FALSE]
  BY <1>2, UnescapeEscape
<1>5. full = Append(b, Checksum(b))
  BY DEF FullOf
<1>6. m = [type |-> m.type, seq |-> m.seq, payload |-> p]
  BY DEF Messages
<1>c. Checksum(b) \in Byte
  BY <1>1, ChecksumType
<1> HIDE DEF b, p, full, e, frame
<1>7. /\ frame[1] = HEADER /\ frame[Len(frame)] = TRAILER
      /\ SubSeq(frame, 2, Len(frame) - 1) = e
  <2>1. HEADER \in Byte /\ TRAILER \in Byte
    BY DEF HEADER, TRAILER, Byte
  <2>2. SubSeq((<<HEADER>> \o e) \o <<TRAILER>>, 2, Len(e) + 1) = e
    BY <1>3, <2>1
  <2> QED BY <1>2, <1>3, <2>1, <2>2
<1>8. Last(full) = Checksum(b) /\ Front(full) = b
  BY <1>1, <1>2, <1>5, <1>c DEF Last, Front
<1>9. /\ full[1] = m.type /\ full[2] = m.seq
      /\ SubSeq(full, 3, 6) = LengthField(Len(p))
      /\ SubSeq(full, 7, Len(full) - 1) = p
  <2>1. full[1] = b[1] /\ full[2] = b[2]
    BY <1>1, <1>5, <1>c
  <2>2. SubSeq(full, 3, 6) = SubSeq(b, 3, 6)
    BY <1>1, <1>5, <1>c
  <2>3. SubSeq(full, 7, Len(full) - 1) = SubSeq(b, 7, Len(b))
    BY <1>1, <1>2, <1>5, <1>c
  <2> QED BY <1>1, <2>1, <2>2, <2>3
<1>10. Len(frame) >= MIN_FRAME /\ Len(full) >= HEADER_LEN + 1
  BY <1>1, <1>2, <1>3 DEF MIN_FRAME, HEADER_LEN
<1>11. Decode(frame) = [type |-> m.type, seq |-> m.seq, payload |-> p]
  <2>1. Unescape(SubSeq(frame, 2, Len(frame) - 1)) = [out |-> full, escaping |-> FALSE]
    BY <1>4, <1>7
  <2>2. Intact(full)
    BY <1>8 DEF Intact
  <2>3. Last(frame) = TRAILER
    BY <1>7 DEF Last
  <2>4. SubSeq(full, HEADER_LEN + 1, Len(full) - 1) = p
        /\ SubSeq(full, 3, HEADER_LEN) = LengthField(Len(p))
    BY <1>9 DEF HEADER_LEN
  <2> DEFINE u == Unescape(SubSeq(frame, 2, Len(frame) - 1))
             r == SubSeq(u.out, HEADER_LEN + 1, Len(u.out) - 1)
  <2>5. Decode(frame) = IF /\ Len(frame) >= MIN_FRAME /\ frame[1] = HEADER
                           /\ Last(frame) = TRAILER /\ ~u.escaping
                           /\ Len(u.out) >= HEADER_LEN + 1 /\ Intact(u.out)
                           /\ SubSeq(u.out, 3, HEADER_LEN) = LengthField(Len(r))
                        THEN [type |-> u.out[1], seq |-> u.out[2], payload |-> r]
                        ELSE Nothing
    BY DEF Decode
  <2>6. u.out = full /\ u.escaping = FALSE
    BY <2>1
  <2>7. r = p
    BY <2>4, <2>6
  <2> HIDE DEF u, r
  <2> QED BY <1>7, <1>9, <1>10, <2>2, <2>3, <2>4, <2>5, <2>6, <2>7
<1> QED BY <1>6, <1>11 DEF frame

-----------------------------------------------------------------------------
(* Cutting Sony frames *)

\* The least of a nonempty set of numbers is one of them.
LEMMA MinIn ==
  ASSUME NEW s \in SUBSET Nat, s # {}
  PROVE  Min(s) \in s /\ \A x \in s : Min(s) <= x
BY Least DEF Min

\* Where a byte is found first.
LEMMA NextByteIs ==
  ASSUME NEW bytes \in Seq(Byte), NEW at \in Nat \ {0}, NEW byte
  PROVE  /\ NextByte(bytes, at, byte) \in {0} \cup at..Len(bytes)
         /\ NextByte(bytes, at, byte) = 0 => \A i \in at..Len(bytes) : bytes[i] # byte
         /\ NextByte(bytes, at, byte) # 0 => bytes[NextByte(bytes, at, byte)] = byte
         /\ NextByte(bytes, at, byte) # 0 =>
              \A i \in at..(NextByte(bytes, at, byte) - 1) : bytes[i] # byte
<1> DEFINE I == {i \in at..Len(bytes) : bytes[i] = byte}
<1>1. NextByte(bytes, at, byte) = IF I # {} THEN Min(I) ELSE 0
  BY DEF NextByte, SelectInSubSeq
<1>2. I \in SUBSET Nat /\ 0 \notin I
  OBVIOUS
<1>3. CASE I = {}
  BY <1>1, <1>3
<1>4. CASE I # {}
  <2>1. Min(I) \in I /\ \A x \in I : Min(I) <= x
    <3> HIDE DEF I
    <3> QED BY <1>2, <1>4, MinIn
  <2> DEFINE m == Min(I)
  <2>2. NextByte(bytes, at, byte) = m
    BY <1>1, <1>4
  <2>3. m \in at..Len(bytes) /\ bytes[m] = byte /\ \A i \in I : m <= i
    BY <2>1
  <2> HIDE DEF m
  <2>4. \A i \in at..(m - 1) : i \in at..Len(bytes) /\ ~(m <= i)
    BY <2>3
  <2>5. \A i \in at..(m - 1) : bytes[i] # byte
    BY <2>3, <2>4
  <2> QED BY <2>2, <2>3, <2>5
<1> QED BY <1>3, <1>4

\* Where the shortest span that ends at a trailer starts.
LEMMA StartIs ==
  ASSUME NEW bytes \in Seq(Byte), NEW first \in 1..Len(bytes), NEW end \in 1..Len(bytes),
         first < end, bytes[first] = HEADER
  PROVE  /\ Start(bytes, first, end) \in first..(end - 1)
         /\ bytes[Start(bytes, first, end)] = HEADER
         /\ \A i \in (Start(bytes, first, end) + 1)..(end - 1) : bytes[i] # HEADER
<1> DEFINE I == {i \in first..(end - 1) : bytes[i] = HEADER}
<1>1. I \in SUBSET (1..Len(bytes)) /\ first \in I /\ Len(bytes) \in Nat
  OBVIOUS
<1>2. Start(bytes, first, end) = Max(I)
  BY <1>1 DEF Start, SelectLastInSubSeq
<1>3. Max(I) \in I /\ \A x \in I : x <= Max(I)
  <2> HIDE DEF I
  <2> QED BY <1>1, MaxIn
<1>4. \A i \in (Max(I) + 1)..(end - 1) : i \in first..(end - 1) /\ ~(i <= Max(I))
  BY <1>3
<1> QED BY <1>2, <1>3, <1>4

\* The next frame: where its first header and its trailer are, and its bytes.
FirstAt(bytes, at) == NextByte(bytes, at, HEADER)
EndAt(bytes, at)   == NextByte(bytes, FirstAt(bytes, at) + 1, TRAILER)
FrameAt(bytes, at) ==
    SubSeq(bytes, Start(bytes, FirstAt(bytes, at), EndAt(bytes, at)), EndAt(bytes, at))

\* There is none from here on.
NoFrame(bytes, at) == FirstAt(bytes, at) = 0 \/ EndAt(bytes, at) = 0

\* What is kept there.
Kept(bytes, at, maxFrame) ==
    IF FirstAt(bytes, at) = 0 THEN <<>>
    ELSE Unfinished(From(bytes, FirstAt(bytes, at)), maxFrame)

\* What is cut from each place on.
Begun(maxFrame) ==
    {rest \in Seq(Byte) : /\ Len(rest) <= maxFrame
                          /\ ~Contains(rest, TRAILER)
                          /\ rest # <<>> => Head(rest) = HEADER}
Cuts(maxFrame) == [frames : Seq(Seq(Byte)), rest : Begun(maxFrame)]
Cutting(f, bytes, maxFrame) ==
    \A at \in 1..(Len(bytes) + 1) :
        f[at] = IF NoFrame(bytes, at)
                THEN [frames |-> <<>>, rest |-> Kept(bytes, at, maxFrame)]
                ELSE [frames |-> <<FrameAt(bytes, at)>>
                                   \o f[EndAt(bytes, at) + 1].frames,
                      rest |-> f[EndAt(bytes, at) + 1].rest]

\* Where a frame is found, it starts at a header and ends at a trailer after it.
LEMMA FrameFound ==
  ASSUME NEW bytes \in Seq(Byte), NEW at \in 1..(Len(bytes) + 1), ~NoFrame(bytes, at)
  PROVE  /\ FirstAt(bytes, at) \in at..Len(bytes)
         /\ EndAt(bytes, at) \in (FirstAt(bytes, at) + 1)..Len(bytes)
         /\ EndAt(bytes, at) + 1 \in (at + 2)..(Len(bytes) + 1)
         /\ FrameAt(bytes, at) \in Seq(Byte)
         /\ bytes[FirstAt(bytes, at)] = HEADER /\ bytes[EndAt(bytes, at)] = TRAILER
<1> DEFINE first == FirstAt(bytes, at)
           end == EndAt(bytes, at)
<1>1. first \in at..Len(bytes) /\ bytes[first] = HEADER /\ first # 0 /\ end # 0
  BY NextByteIs DEF FirstAt, NoFrame
<1>2. first + 1 \in Nat \ {0}
  BY <1>1
<1>3. end \in (first + 1)..Len(bytes) /\ bytes[end] = TRAILER
  BY <1>1, <1>2, NextByteIs DEF EndAt
<1> HIDE DEF first, end
<1>4. Start(bytes, first, end) \in first..(end - 1)
  BY <1>1, <1>3, StartIs
<1>5. SubSeq(bytes, Start(bytes, first, end), end) \in Seq(Byte)
  BY <1>1, <1>3, <1>4
<1> QED BY <1>1, <1>3, <1>5 DEF first, end, FrameAt

\* The rest of a sequence, from one of its places on.
LEMMA FromType ==
  ASSUME NEW S, NEW bytes \in Seq(S), NEW i \in 1..(Len(bytes) + 1)
  PROVE  /\ From(bytes, i) \in Seq(S) /\ Len(From(bytes, i)) = Len(bytes) - i + 1
         /\ \A j \in 1..(Len(bytes) - i + 1) : From(bytes, i)[j] = bytes[i + j - 1]
BY DEF From

\* What is kept is what comes last, or nothing, and is not too long.
LEMMA UnfinishedIs ==
  ASSUME NEW rest \in Seq(Byte), NEW maxFrame \in Nat, rest # <<>>, rest[1] = HEADER
  PROVE  /\ Unfinished(rest, maxFrame) \in Seq(Byte)
         /\ Len(Unfinished(rest, maxFrame)) <= maxFrame
         /\ Unfinished(rest, maxFrame) # <<>> =>
              /\ Unfinished(rest, maxFrame)[1] = HEADER
              /\ \E i \in 1..Len(rest) : Unfinished(rest, maxFrame) = From(rest, i)
<1>1. CASE Len(rest) <= maxFrame
  <2>1. From(rest, 1) = rest /\ 1 \in 1..Len(rest)
    BY DEF From
  <2> QED BY <1>1, <2>1 DEF Unfinished
<1>2. CASE Len(rest) > maxFrame
  <2> DEFINE at == Len(rest) - maxFrame + 1
             window == From(rest, at)
             resync == NextByte(window, 1, HEADER)
  <2>1. at \in 1..(Len(rest) + 1) /\ Len(rest) \in Nat /\ Len(rest) - at + 1 = maxFrame
    BY <1>2
  <2>2. Unfinished(rest, maxFrame) = IF resync > 0 THEN From(window, resync) ELSE <<>>
    BY <1>2 DEF Unfinished
  <2> HIDE DEF at
  <2>3. window \in Seq(Byte) /\ Len(window) = maxFrame
           /\ \A j \in 1..maxFrame : window[j] = rest[at + j - 1]
    BY <2>1, FromType
  <2> HIDE DEF window
  <2>4. resync \in {0} \cup 1..maxFrame /\ (resync # 0 => window[resync] = HEADER)
    BY <2>3, NextByteIs
  <2> HIDE DEF resync
  <2>5. CASE resync = 0
    BY <2>2, <2>5
  <2>6. CASE resync # 0
    <3>1. resync \in 1..maxFrame /\ resync \in 1..(Len(window) + 1)
      BY <2>3, <2>4, <2>6
    <3>5. maxFrame - resync + 1 \in Nat \ {0} /\ resync + 1 - 1 = resync
      BY <3>1
    <3>2. From(window, resync) \in Seq(Byte)
             /\ Len(From(window, resync)) = maxFrame - resync + 1
             /\ From(window, resync)[1] = window[resync]
      <4>1. From(window, resync) \in Seq(Byte)
             /\ Len(From(window, resync)) = Len(window) - resync + 1
             /\ \A j \in 1..(Len(window) - resync + 1) :
                  From(window, resync)[j] = window[resync + j - 1]
        BY <2>3, <3>1, FromType
      <4>2. 1 \in 1..(Len(window) - resync + 1) /\ Len(window) = maxFrame
        BY <2>3, <3>5
      <4> QED BY <3>5, <4>1, <4>2
    <3>3. at + resync - 1 \in 1..Len(rest)
      BY <2>1, <3>1
    <3>4. From(window, resync) = From(rest, at + resync - 1)
      BY <2>1, <2>3, <3>1, <3>3 DEF From, window
    <3> QED BY <2>2, <2>4, <2>6, <3>1, <3>2, <3>3, <3>4
  <2> QED BY <2>5, <2>6
<1> QED BY <1>1, <1>2

\* Where no frame is left, the bytes kept are the beginning of one.
LEMMA KeptIs ==
  ASSUME NEW bytes \in Seq(Byte), NEW at \in 1..(Len(bytes) + 1), NEW maxFrame \in Nat,
         NoFrame(bytes, at)
  PROVE  Kept(bytes, at, maxFrame) \in Begun(maxFrame)
<1> USE DEF Begun
<1> DEFINE first == FirstAt(bytes, at)
           kept == Kept(bytes, at, maxFrame)
<1>1. CASE first = 0
  BY <1>1 DEF Kept, Contains
<1>2. CASE first # 0
  <2>1. first \in at..Len(bytes) /\ bytes[first] = HEADER
    BY <1>2, NextByteIs DEF FirstAt
  <2>2. EndAt(bytes, at) = 0
    BY <1>2 DEF NoFrame
  <2> HIDE DEF first
  <2>3. first + 1 \in Nat \ {0}
    BY <2>1
  <2>4. \A i \in (first + 1)..Len(bytes) : bytes[i] # TRAILER
    BY <2>2, <2>3, NextByteIs DEF EndAt, first
  <2>5. \A i \in first..Len(bytes) : bytes[i] # TRAILER
    BY <2>1, <2>4 DEF HEADER, TRAILER
  <2> DEFINE rest == From(bytes, first)
  <2>6. first \in 1..(Len(bytes) + 1)
    BY <2>1
  <2>7. rest \in Seq(Byte) /\ Len(rest) = Len(bytes) - first + 1
          /\ \A j \in 1..(Len(bytes) - first + 1) : rest[j] = bytes[first + j - 1]
    BY <2>6, FromType
  <2>8. rest # <<>> /\ rest[1] = HEADER
    BY <2>1, <2>7
  <2>9. \A j \in 1..Len(rest) : rest[j] # TRAILER
    BY <2>1, <2>5, <2>7
  <2>10. kept = Unfinished(rest, maxFrame)
    BY <1>2 DEF Kept, first
  <2> HIDE DEF rest, kept
  <2>11. /\ kept \in Seq(Byte) /\ Len(kept) <= maxFrame
         /\ kept # <<>> => kept[1] = HEADER
         /\ kept # <<>> => \E i \in 1..Len(rest) : kept = From(rest, i)
    BY <2>7, <2>8, <2>10, UnfinishedIs
  <2>12. ASSUME NEW j \in 1..Len(kept) PROVE kept[j] # TRAILER
    <3>1. PICK i \in 1..Len(rest) : kept = From(rest, i)
      BY <2>11, <2>12
    <3>2. i \in 1..(Len(rest) + 1) /\ Len(rest) \in Nat
      BY <2>7
    <3>3. Len(kept) = Len(rest) - i + 1 /\ kept[j] = rest[i + j - 1]
      BY <2>7, <2>12, <3>1, <3>2, FromType
    <3>4. i + j - 1 \in 1..Len(rest)
      BY <3>2, <3>3
    <3> QED BY <2>9, <3>3, <3>4
  <2> QED BY <2>11, <2>12 DEF kept, Contains
<1> QED BY <1>1, <1>2

\* Split is the first value of a run from the last byte to the first.
LEMMA SplitRun ==
  ASSUME NEW bytes \in Seq(Byte), NEW maxFrame \in Nat
  PROVE  \E f \in [1..(Len(bytes) + 1) -> Cuts(maxFrame)] :
            Cutting(f, bytes, maxFrame) /\ Split(bytes, maxFrame) = f[1]
<1> DEFINE n == Len(bytes) + 1
           C == Cuts(maxFrame)
           D == 1..n
           stop == {at \in D : NoFrame(bytes, at)}
           rank == [at \in D |-> n - at]
           nxt == [at \in D |-> IF at \in stop THEN at ELSE EndAt(bytes, at) + 1]
           base == [at \in D |-> [frames |-> <<>>, rest |-> IF at \in stop
                                    THEN Kept(bytes, at, maxFrame) ELSE <<>>]]
           G == [q \in D \X C |->
                   [frames |-> IF q[1] \in stop THEN <<>>
                               ELSE <<FrameAt(bytes, q[1])>> \o q[2].frames,
                    rest |-> q[2].rest]]
           behind[at \in 1..(Len(bytes) + 1)] ==
             LET first == NextByte(bytes, at, HEADER)
                 end == NextByte(bytes, first + 1, TRAILER)
                 frame == SubSeq(bytes, Start(bytes, first, end), end)
             IN CASE first = 0 -> [frames |-> <<>>, rest |-> <<>>]
                  [] first > 0 /\ end = 0 ->
                       [frames |-> <<>>, rest |-> Unfinished(From(bytes, first), maxFrame)]
                  [] OTHER -> [frames |-> <<frame>> \o behind[end + 1].frames,
                               rest |-> behind[end + 1].rest]
<1>1. n \in Nat /\ 1 \in D
  OBVIOUS
<1>2. \A at \in D \ stop : /\ EndAt(bytes, at) + 1 \in D /\ EndAt(bytes, at) + 1 > at
                            /\ FrameAt(bytes, at) \in Seq(Byte)
  BY FrameFound
<1>3. Falls(D, n, rank, stop, nxt)
  BY <1>1, <1>2 DEF Falls
<1>4. base \in [D -> C]
  <2>1. \A at \in D :
          (IF at \in stop THEN Kept(bytes, at, maxFrame) ELSE <<>>) \in Begun(maxFrame)
    <3>1. <<>> \in Begun(maxFrame)
      BY DEF Begun, Contains
    <3> QED BY <3>1, KeptIs
  <2> QED BY <2>1 DEF Cuts
<1>5. G \in [D \X C -> C]
  <2>1. ASSUME NEW at \in D, NEW r \in C
        PROVE  (IF at \in stop THEN <<>> ELSE <<FrameAt(bytes, at)>> \o r.frames)
                 \in Seq(Seq(Byte)) /\ r.rest \in Begun(maxFrame)
    <3>1. r.frames \in Seq(Seq(Byte)) /\ r.rest \in Begun(maxFrame)
      BY DEF Cuts
    <3>2. CASE at \in stop
      BY <3>1, <3>2
    <3>3. CASE at \notin stop
      <4>1. <<FrameAt(bytes, at)>> \in Seq(Seq(Byte))
        BY <1>2, <3>3
      <4>2. <<FrameAt(bytes, at)>> \o r.frames \in Seq(Seq(Byte))
        BY <3>1, <4>1, ConcatProperties
      <4> QED BY <3>1, <3>3, <4>2
    <3> QED BY <3>2, <3>3
  <2> HIDE DEF stop, D
  <2> QED BY <2>1 DEF Cuts
<1>6. \E f \in [D -> C] : RecEq(f, D, stop, base, nxt, G)
  <2> HIDE DEF D, stop, rank, nxt, base, G, n, behind
  <2> QED BY <1>1, <1>3, <1>4, <1>5, Recursion
<1>7. PICK f \in [D -> C] : RecEq(f, D, stop, base, nxt, G)
  BY <1>6
<1>8. ASSUME NEW at \in D
      PROVE  f[at] = IF NoFrame(bytes, at)
                     THEN [frames |-> <<>>, rest |-> Kept(bytes, at, maxFrame)]
                     ELSE [frames |-> <<FrameAt(bytes, at)>> \o f[EndAt(bytes, at) + 1].frames,
                           rest |-> f[EndAt(bytes, at) + 1].rest]
  <2>1. f[at] = IF at \in stop THEN base[at] ELSE G[<<at, f[nxt[at]]>>]
    <3> HIDE DEF D, stop, base, nxt, G, behind
    <3> QED BY <1>7 DEF RecEq
  <2>2. CASE at \in stop
    BY <2>1, <2>2
  <2>3. CASE at \notin stop
    <3>1. nxt[at] = EndAt(bytes, at) + 1 /\ nxt[at] \in D
      BY <1>2, <2>3
    <3>2. f[nxt[at]] \in C
      BY <3>1
    <3>3. G[<<at, f[nxt[at]]>>] = [frames |-> <<FrameAt(bytes, at)>> \o f[nxt[at]].frames,
                                   rest |-> f[nxt[at]].rest]
      BY <2>3, <3>2
    <3> HIDE DEF G, nxt, behind
    <3> QED BY <2>1, <2>3, <3>1, <3>3
  <2> QED BY <2>2, <2>3
<1>9. Cutting(f, bytes, maxFrame)
  <2> HIDE DEF behind
  <2> QED BY <1>8 DEF Cutting
<1>10. ASSUME NEW at \in D, NEW h
       PROVE  (LET first == NextByte(bytes, at, HEADER)
                   end == NextByte(bytes, first + 1, TRAILER)
                   frame == SubSeq(bytes, Start(bytes, first, end), end)
               IN CASE first = 0 -> [frames |-> <<>>, rest |-> <<>>]
                    [] first > 0 /\ end = 0 ->
                         [frames |-> <<>>, rest |-> Unfinished(From(bytes, first), maxFrame)]
                    [] OTHER -> [frames |-> <<frame>> \o h[end + 1].frames,
                                 rest |-> h[end + 1].rest])
              = IF NoFrame(bytes, at)
                THEN [frames |-> <<>>, rest |-> Kept(bytes, at, maxFrame)]
                ELSE [frames |-> <<FrameAt(bytes, at)>> \o h[EndAt(bytes, at) + 1].frames,
                      rest |-> h[EndAt(bytes, at) + 1].rest]
  <2>1. FirstAt(bytes, at) \in Nat
    BY NextByteIs DEF FirstAt
  <2> HIDE DEF behind
  <2>2. CASE FirstAt(bytes, at) = 0
    BY <2>2 DEF FirstAt, NoFrame, Kept
  <2>3. CASE FirstAt(bytes, at) # 0 /\ EndAt(bytes, at) = 0
    BY <2>1, <2>3 DEF FirstAt, EndAt, NoFrame, Kept
  <2>4. CASE FirstAt(bytes, at) # 0 /\ EndAt(bytes, at) # 0
    BY <2>1, <2>4 DEF FirstAt, EndAt, NoFrame, FrameAt
  <2> QED BY <2>2, <2>3, <2>4
<1> DEFINE Step(h, at) ==
             LET first == NextByte(bytes, at, HEADER)
                 end == NextByte(bytes, first + 1, TRAILER)
                 frame == SubSeq(bytes, Start(bytes, first, end), end)
             IN CASE first = 0 -> [frames |-> <<>>, rest |-> <<>>]
                  [] first > 0 /\ end = 0 ->
                       [frames |-> <<>>, rest |-> Unfinished(From(bytes, first), maxFrame)]
                  [] OTHER -> [frames |-> <<frame>> \o h[end + 1].frames,
                               rest |-> h[end + 1].rest]
<1>11. f = [at \in D |-> Step(f, at)]
  <2>1. \A at \in D : f[at] = Step(f, at)
    <3> HIDE DEF behind
    <3> QED BY <1>8, <1>10
  <2> HIDE DEF Step, behind
  <2> QED BY <2>1
<1>12. behind = [at \in D |-> Step(behind, at)]
  BY <1>11
<1>13. Split(bytes, maxFrame) = behind[1]
  BY DEF Split
<1>14. \A at \in D : behind[at] = f[at]
  <2> DEFINE T == {at \in D : behind[at] = f[at]}
  <2>1. ASSUME NEW at \in D, at \in stop \/ nxt[at] \in T PROVE behind[at] = f[at]
    <3>1. behind[at] = Step(behind, at)
      <4> HIDE DEF behind, Step
      <4> QED BY <1>12
    <3> HIDE DEF behind
    <3>2. behind[at] = IF NoFrame(bytes, at)
                THEN [frames |-> <<>>, rest |-> Kept(bytes, at, maxFrame)]
                ELSE [frames |-> <<FrameAt(bytes, at)>> \o behind[EndAt(bytes, at) + 1].frames,
                      rest |-> behind[EndAt(bytes, at) + 1].rest]
      BY <3>1, <1>10
    <3>3. ~NoFrame(bytes, at) => behind[EndAt(bytes, at) + 1] = f[EndAt(bytes, at) + 1]
      BY <2>1
    <3> QED BY <3>2, <3>3, <1>8
  <2>2. D \subseteq T
    <3> HIDE DEF behind
    <3>1. Carries(T, D, stop, nxt)
      BY <2>1 DEF Carries
    <3> HIDE DEF D, T, stop, rank, nxt
    <3> QED BY <1>3, <3>1, ByRank
  <2> HIDE DEF behind
  <2> QED BY <2>2
<1> HIDE DEF behind
<1> QED BY <1>1, <1>7, <1>9, <1>13, <1>14

-----------------------------------------------------------------------------
(* Cutting Fast Pair frames *)

Packet == [group : Byte, code : Byte, payload : Seq(Byte)]

\* What is kept: nothing that is a whole frame, or that can never be one.
LengthIn(bytes, at) == bytes[at + 2] * 256 + bytes[at + 3]
Short(maxData) ==
    {rest \in Seq(Byte) : Len(rest) < 4 \/ /\ LengthIn(rest, 1) <= maxData
                                           /\ Len(rest) < 4 + LengthIn(rest, 1)}
Packets(maxData) == [frames : Seq(Packet), rest : Short(maxData)]

\* A frame is waited for, or its length cannot be one.
LeftAt(bytes, at) == Len(bytes) - at + 1
Lost(bytes, at, maxData) == LeftAt(bytes, at) >= 4 /\ LengthIn(bytes, at) > maxData
Waits(bytes, at, maxData) ==
    LeftAt(bytes, at) < 4 \/ /\ LengthIn(bytes, at) <= maxData
                              /\ LeftAt(bytes, at) < 4 + LengthIn(bytes, at)
PacketAt(bytes, at) ==
    [group |-> bytes[at], code |-> bytes[at + 1],
     payload |-> SubSeq(bytes, at + 4, (at + 4 + LengthIn(bytes, at)) - 1)]

\* What is cut from each place on.
Packing(f, bytes, maxData) ==
    \A at \in 1..(Len(bytes) + 1) :
        f[at] = IF Waits(bytes, at, maxData)
                THEN [frames |-> <<>>, rest |-> SubSeq(bytes, at, Len(bytes))]
                ELSE IF Lost(bytes, at, maxData) THEN f[at + 1]
                ELSE [frames |-> <<PacketAt(bytes, at)>>
                                   \o f[at + 4 + LengthIn(bytes, at)].frames,
                      rest |-> f[at + 4 + LengthIn(bytes, at)].rest]

\* A packet that is read lies within the bytes read, and one waited for is short.
LEMMA PacketFound ==
  ASSUME NEW bytes \in Seq(Byte), NEW at \in 1..(Len(bytes) + 1), NEW maxData \in Nat
  PROVE  /\ LeftAt(bytes, at) >= 4 => LengthIn(bytes, at) \in Nat
         /\ ~Waits(bytes, at, maxData) => LeftAt(bytes, at) >= 4
         /\ ~Waits(bytes, at, maxData) => at + 1 \in 1..(Len(bytes) + 1)
         /\ ~Waits(bytes, at, maxData) /\ ~Lost(bytes, at, maxData) =>
              /\ at + 4 + LengthIn(bytes, at) \in (at + 4)..(Len(bytes) + 1)
              /\ PacketAt(bytes, at) \in Packet
         /\ Waits(bytes, at, maxData) =>
              SubSeq(bytes, at, Len(bytes)) \in Short(maxData)
<1> DEFINE n == Len(bytes)
           l == LengthIn(bytes, at)
           left == LeftAt(bytes, at)
<1>1. n \in Nat /\ at \in 1..(n + 1) /\ left = n - at + 1
  BY DEF LeftAt
<1>2. left >= 4 => /\ at + 3 \in 1..n /\ bytes[at] \in Byte /\ bytes[at + 1] \in Byte
                   /\ bytes[at + 2] \in Byte /\ bytes[at + 3] \in Byte
  BY <1>1
<1>3. left >= 4 => l \in Nat
  <2>1. \A x, y \in Byte : x * 256 + y \in Nat
    BY DEF Byte
  <2> QED BY <1>2, <2>1 DEF LengthIn
<1>4. Waits(bytes, at, maxData) <=> (left < 4 \/ (l <= maxData /\ left < 4 + l))
  BY DEF Waits
<1>5. Lost(bytes, at, maxData) <=> left >= 4 /\ l > maxData
  BY DEF Lost
<1>6. PacketAt(bytes, at) = [group |-> bytes[at], code |-> bytes[at + 1],
                              payload |-> SubSeq(bytes, at + 4, (at + 4 + l) - 1)]
  BY DEF PacketAt
<1>7. ASSUME left >= 4, left >= 4 + l
      PROVE  SubSeq(bytes, at + 4, (at + 4 + l) - 1) \in Seq(Byte)
  <2> HIDE DEF l, left
  <2>1. at + 4 \in 1..(n + 1) /\ (at + 4 + l) - 1 \in 0..n
    BY <1>1, <1>3, <1>7
  <2>2. \A i \in (at + 4)..((at + 4 + l) - 1) : bytes[i] \in Byte
    <3>1. \A i \in (at + 4)..((at + 4 + l) - 1) : i \in 1..n
      BY <2>1
    <3>2. \A i \in 1..n : bytes[i] \in Byte
      OBVIOUS
    <3> HIDE DEF n
    <3> QED BY <3>1, <3>2
  <2> HIDE DEF n
  <2> QED BY <2>1, <2>2, SubSeqProperties
<1>8. ASSUME Waits(bytes, at, maxData)
      PROVE  SubSeq(bytes, at, n) \in Short(maxData)
  <2> DEFINE rest == SubSeq(bytes, at, n)
  <2>1. rest \in Seq(Byte) /\ Len(rest) = left /\ \A j \in 1..left : rest[j] = bytes[at + j - 1]
    BY <1>1
  <2> HIDE DEF rest
  <2>2. left >= 4 => LengthIn(rest, 1) = l
    <3>1. left >= 4 => /\ rest[1 + 2] = bytes[at + (1 + 2) - 1]
                       /\ rest[1 + 3] = bytes[at + (1 + 3) - 1]
      BY <1>1, <2>1
    <3>2. at + (1 + 2) - 1 = at + 2 /\ at + (1 + 3) - 1 = at + 3
      BY <1>1
    <3> QED BY <3>1, <3>2 DEF LengthIn
  <2> HIDE DEF l, left
  <2>3. Len(rest) < 4 \/ /\ LengthIn(rest, 1) <= maxData /\ Len(rest) < 4 + LengthIn(rest, 1)
    BY <1>1, <1>4, <1>8, <2>1, <2>2
  <2> QED BY <2>1, <2>3 DEF Short, rest
<1> HIDE DEF l, left
<1>9. ~Waits(bytes, at, maxData) => left >= 4
  BY <1>1, <1>4
<1>10. ~Waits(bytes, at, maxData) /\ ~Lost(bytes, at, maxData) => left >= 4 /\ left >= 4 + l
  BY <1>1, <1>3, <1>4, <1>5
<1>11. ~Waits(bytes, at, maxData) /\ ~Lost(bytes, at, maxData) =>
          PacketAt(bytes, at) \in Packet
  BY <1>2, <1>6, <1>7, <1>10 DEF Packet
<1>12. left >= 4 => at + 1 \in 1..(n + 1)
  BY <1>1
<1>13. left >= 4 /\ left >= 4 + l => at + 4 + l \in (at + 4)..(n + 1)
  BY <1>1, <1>3
<1> QED BY <1>3, <1>8, <1>9, <1>10, <1>11, <1>12, <1>13 DEF l, left

\* Frames is the first value of a run from the last byte to the first.
LEMMA FramesRun ==
  ASSUME NEW bytes \in Seq(Byte), NEW maxData \in Nat
  PROVE  \E f \in [1..(Len(bytes) + 1) -> Packets(maxData)] :
            Packing(f, bytes, maxData) /\ FP!Frames(bytes, maxData) = f[1]
<1> DEFINE n == Len(bytes) + 1
           C == Packets(maxData)
           D == 1..n
           stop == {at \in D : Waits(bytes, at, maxData)}
           lost == {at \in D : Lost(bytes, at, maxData)}
           past(at) == at + 4 + LengthIn(bytes, at)
           rank == [at \in D |-> n - at]
           nxt == [at \in D |-> IF at \in stop THEN at
                                ELSE IF at \in lost THEN at + 1 ELSE past(at)]
           base == [at \in D |-> [frames |-> <<>>, rest |-> IF at \in stop
                                    THEN SubSeq(bytes, at, Len(bytes)) ELSE <<>>]]
           G == [q \in D \X C |->
                   IF q[1] \in lost THEN q[2]
                   ELSE [frames |-> IF q[1] \in stop THEN <<>>
                                    ELSE <<PacketAt(bytes, q[1])>> \o q[2].frames,
                         rest |-> q[2].rest]]
           Step(h, at) ==
             LET left == Len(bytes) - at + 1
                 length == bytes[at + 2] * 256 + bytes[at + 3]
                 next == at + 4 + length
                 frame == [group |-> bytes[at], code |-> bytes[at + 1],
                           payload |-> SubSeq(bytes, at + 4, next - 1)]
                 waits == [frames |-> <<>>, rest |-> SubSeq(bytes, at, Len(bytes))]
             IN CASE left < 4 -> waits
                  [] left >= 4 /\ length > maxData -> h[at + 1]
                  [] left >= 4 /\ length <= maxData /\ left < 4 + length -> waits
                  [] OTHER -> [frames |-> <<frame>> \o h[next].frames,
                               rest |-> h[next].rest]
           behind[at \in 1..(Len(bytes) + 1)] ==
             LET left == Len(bytes) - at + 1
                 length == bytes[at + 2] * 256 + bytes[at + 3]
                 next == at + 4 + length
                 frame == [group |-> bytes[at], code |-> bytes[at + 1],
                           payload |-> SubSeq(bytes, at + 4, next - 1)]
                 waits == [frames |-> <<>>, rest |-> SubSeq(bytes, at, Len(bytes))]
             IN CASE left < 4 -> waits
                  [] left >= 4 /\ length > maxData -> behind[at + 1]
                  [] left >= 4 /\ length <= maxData /\ left < 4 + length -> waits
                  [] OTHER -> [frames |-> <<frame>> \o behind[next].frames,
                               rest |-> behind[next].rest]
           Case(h, at) ==
             IF at \in stop
             THEN [frames |-> <<>>, rest |-> SubSeq(bytes, at, Len(bytes))]
             ELSE IF at \in lost THEN h[at + 1]
             ELSE [frames |-> <<PacketAt(bytes, at)>> \o h[past(at)].frames,
                   rest |-> h[past(at)].rest]
<1>1. n \in Nat /\ 1 \in D /\ Len(bytes) \in Nat
  OBVIOUS
<1>2. /\ \A at \in D \ stop : at + 1 \in D
      /\ \A at \in (D \ stop) \ lost : past(at) \in D /\ past(at) > at
                                       /\ PacketAt(bytes, at) \in Packet
      /\ \A at \in stop : SubSeq(bytes, at, Len(bytes)) \in Short(maxData)
  <2>1. \A at \in D : past(at) \in (at + 4)..n => past(at) \in D /\ past(at) > at
    BY <1>1
  <2> HIDE DEF behind, Step, past
  <2>2. \A at \in (D \ stop) \ lost : past(at) \in (at + 4)..n /\ PacketAt(bytes, at) \in Packet
    BY PacketFound DEF past
  <2> QED BY <2>1, <2>2, PacketFound
<1>3. Falls(D, n, rank, stop, nxt)
  <2> HIDE DEF behind, Step, past, lost
  <2>1. \A at \in D : nxt[at] \in D /\ (at \notin stop => nxt[at] > at)
    BY <1>1, <1>2
  <2>2. \A at \in D : rank[at] = n - at /\ rank[at] \in 0..n
    BY <1>1
  <2> HIDE DEF stop, D
  <2>3. rank \in [D -> 0..n] /\ nxt \in [D -> D]
    BY <2>1, <2>2
  <2> HIDE DEF rank, nxt
  <2>4. \A p \in D \ stop : rank[nxt[p]] < rank[p]
    BY <1>1, <2>1, <2>2 DEF D
  <2> QED BY <1>1, <2>3, <2>4 DEF Falls
<1>4. base \in [D -> C]
  <2>0. <<>> \in Short(maxData)
    BY DEF Short
  <2>1. \A at \in D : (IF at \in stop THEN SubSeq(bytes, at, Len(bytes)) ELSE <<>>)
                        \in Short(maxData)
    BY <1>2, <2>0
  <2> HIDE DEF D, stop, behind, Step
  <2> QED BY <2>1 DEF Packets
<1>5. G \in [D \X C -> C]
  <2>1. ASSUME NEW at \in D, NEW r \in C, at \notin lost
        PROVE  (IF at \in stop THEN <<>> ELSE <<PacketAt(bytes, at)>> \o r.frames)
                 \in Seq(Packet) /\ r.rest \in Short(maxData)
    <3>1. r.frames \in Seq(Packet) /\ r.rest \in Short(maxData)
      BY DEF Packets
    <3> HIDE DEF D, stop, lost, behind, Step
    <3>2. CASE at \in stop
      BY <3>1, <3>2
    <3>3. CASE at \notin stop
      <4>1. <<PacketAt(bytes, at)>> \in Seq(Packet)
        BY <1>2, <2>1, <3>3
      <4>2. <<PacketAt(bytes, at)>> \o r.frames \in Seq(Packet)
        BY <3>1, <4>1, ConcatProperties
      <4> QED BY <3>1, <3>3, <4>2
    <3> QED BY <3>2, <3>3
  <2> HIDE DEF stop, D, lost, behind, Step
  <2> QED BY <2>1 DEF Packets
<1>6. \E f \in [D -> C] : RecEq(f, D, stop, base, nxt, G)
  <2> HIDE DEF D, C, stop, lost, past, rank, nxt, base, G, n, behind, Step
  <2> QED BY <1>1, <1>3, <1>4, <1>5, Recursion
<1>7. PICK f \in [D -> C] : RecEq(f, D, stop, base, nxt, G)
  BY <1>6
<1>8. ASSUME NEW at \in D PROVE f[at] = Case(f, at)
  <2> HIDE DEF behind, Step
  <2>1. f[at] = IF at \in stop THEN base[at] ELSE G[<<at, f[nxt[at]]>>]
    <3> HIDE DEF D, stop, base, nxt, G, lost
    <3> QED BY <1>7 DEF RecEq
  <2>2. CASE at \in stop
    <3> HIDE DEF D, stop, nxt, G, lost
    <3> QED BY <2>1, <2>2
  <2>3. CASE at \notin stop
    <3>1. nxt[at] = (IF at \in lost THEN at + 1 ELSE past(at)) /\ nxt[at] \in D
      <4> HIDE DEF D, stop, base, G, lost, past
      <4> QED BY <1>2, <2>3
    <3> HIDE DEF nxt, D, stop, lost, past
    <3>2. f[nxt[at]] \in C
      BY <3>1
    <3>3. G[<<at, f[nxt[at]]>>] = IF at \in lost THEN f[nxt[at]]
                                  ELSE [frames |-> <<PacketAt(bytes, at)>> \o f[nxt[at]].frames,
                                        rest |-> f[nxt[at]].rest]
      BY <2>3, <3>2
    <3> HIDE DEF G
    <3> QED BY <2>1, <2>3, <3>1, <3>3
  <2> QED BY <2>2, <2>3
<1>9. Packing(f, bytes, maxData)
  <2> HIDE DEF behind, Step
  <2> QED BY <1>8 DEF Packing
<1>10. \A h : \A at \in D : Step(h, at) = Case(h, at)
  <2> HIDE DEF behind
  <2> SUFFICES ASSUME NEW h, NEW at \in D PROVE Step(h, at) = Case(h, at)
    OBVIOUS
  <2> DEFINE left == LeftAt(bytes, at)
             l == LengthIn(bytes, at)
             r == [frames |-> <<PacketAt(bytes, at)>> \o h[past(at)].frames,
                   rest |-> h[past(at)].rest]
             waits == [frames |-> <<>>, rest |-> SubSeq(bytes, at, Len(bytes))]
  <2>1. left \in Int /\ (left >= 4 => l \in Nat)
    BY <1>1, PacketFound DEF LeftAt
  <2>2. /\ at \in stop <=> (left < 4 \/ (l <= maxData /\ left < 4 + l))
        /\ at \in lost <=> (left >= 4 /\ l > maxData)
    <3> HIDE DEF Step, Case
    <3> QED BY DEF Waits, Lost
  <2>3. Case(h, at) = IF at \in stop THEN waits ELSE IF at \in lost THEN h[at + 1] ELSE r
    <3> HIDE DEF Step, stop, lost
    <3> QED OBVIOUS
  <2> HIDE DEF Case, stop, lost
  <2>5. CASE left < 4
    <3>1. Step(h, at) = waits
      BY <2>5 DEF LeftAt
    <3> HIDE DEF Step, left, l, r, waits
    <3> QED BY <2>1, <2>2, <2>3, <2>5, <3>1
  <2>6. CASE left >= 4 /\ l > maxData
    <3>1. Step(h, at) = h[at + 1]
      BY <2>1, <2>6 DEF LeftAt, LengthIn
    <3> HIDE DEF Step, left, l, r, waits
    <3> QED BY <2>1, <2>2, <2>3, <2>6, <3>1
  <2>7. CASE left >= 4 /\ l <= maxData /\ left < 4 + l
    <3>1. Step(h, at) = waits
      BY <2>1, <2>7 DEF LeftAt, LengthIn
    <3> HIDE DEF Step, left, l, r, waits
    <3> QED BY <2>1, <2>2, <2>3, <2>7, <3>1
  <2>8. CASE left >= 4 /\ l <= maxData /\ ~(left < 4 + l)
    <3> DEFINE next == at + 4 + l
               frame == [group |-> bytes[at], code |-> bytes[at + 1],
                         payload |-> SubSeq(bytes, at + 4, next - 1)]
               more == [frames |-> <<frame>> \o h[next].frames, rest |-> h[next].rest]
    <3>2. ~(left < 4) /\ ~(left >= 4 /\ l > maxData)
          /\ ~(left >= 4 /\ l <= maxData /\ left < 4 + l)
      <4> HIDE DEF left, l, Step
      <4> QED BY <2>1, <2>8
    <3>3. Step(h, at) = CASE left < 4 -> waits
                          [] left >= 4 /\ l > maxData -> h[at + 1]
                          [] left >= 4 /\ l <= maxData /\ left < 4 + l -> waits
                          [] OTHER -> more
      BY Zenon DEF LeftAt, LengthIn
    <3>4. more = r
      <4> HIDE DEF Step
      <4>1. frame = PacketAt(bytes, at)
        BY DEF PacketAt
      <4> HIDE DEF frame
      <4> QED BY <4>1
    <3>1. Step(h, at) = r
      <4> HIDE DEF Step, left, l, r, more, waits
      <4> QED BY <3>2, <3>3, <3>4
    <3> HIDE DEF Step, left, l, r, waits
    <3> QED BY <2>1, <2>2, <2>3, <2>8, <3>1
  <2> HIDE DEF Step, left, l, r, waits
  <2> QED BY <2>1, <2>5, <2>6, <2>7, <2>8
<1>11. f = [at \in D |-> Step(f, at)]
  <2>1. \A at \in D : f[at] = Step(f, at)
    <3> HIDE DEF behind, Step, Case
    <3> QED BY <1>8, <1>10
  <2> HIDE DEF Step, behind
  <2> QED BY <2>1
<1>12. behind = [at \in D |-> Step(behind, at)]
  <2>1. \E g : g = [at \in D |-> Step(g, at)]
    <3> HIDE DEF behind, Step, Case
    <3> QED BY <1>11
  <2> HIDE DEF Case
  <2> QED BY <2>1, Zenon
<1>13. FP!Frames(bytes, maxData) = behind[1]
  BY DEF FP!Frames
<1>14. \A at \in D : behind[at] = f[at]
  <2> DEFINE T == {at \in D : behind[at] = f[at]}
  <2>1. ASSUME NEW at \in D, at \in stop \/ nxt[at] \in T PROVE behind[at] = f[at]
    <3>1. behind[at] = Case(behind, at)
      <4> HIDE DEF behind, Step, Case
      <4> QED BY <1>10, <1>12
    <3>2. f[at] = Case(f, at)
      BY <1>8
    <3> HIDE DEF behind, Step
    <3>3. at \notin stop => behind[nxt[at]] = f[nxt[at]]
      BY <2>1
    <3>4. at \notin stop => nxt[at] = IF at \in lost THEN at + 1 ELSE past(at)
      OBVIOUS
    <3> HIDE DEF stop, lost, nxt, past
    <3> QED BY <3>1, <3>2, <3>3, <3>4
  <2>2. D \subseteq T
    <3> HIDE DEF behind, Step
    <3>1. Carries(T, D, stop, nxt)
      BY <2>1 DEF Carries
    <3> HIDE DEF D, T, stop, rank, nxt
    <3> QED BY <1>3, <3>1, ByRank
  <2> HIDE DEF behind
  <2> QED BY <2>2
<1> HIDE DEF behind, Step
<1> QED BY <1>1, <1>7, <1>9, <1>13, <1>14

-----------------------------------------------------------------------------
(* What a session makes of the bytes it has *)

\* What may be kept between two reads.
Waiting(d) == IF d = "fast-pair" THEN Short(MaxData) ELSE Begun(MaxFrame)

\* What a driver leaves of the bytes is no more than it may wait for.
LEMMA CutIs ==
  ASSUME NEW bytes \in Seq(Byte), WireAssumption
  PROVE  /\ Cut(bytes).rest \in Waiting(driver)
         /\ \E n \in Nat : DOMAIN Cut(bytes).frames = 1..n
<1>0. MaxFrame \in Nat /\ MaxData \in Nat /\ 1 \in 1..(Len(bytes) + 1)
  BY DEF WireAssumption
<1>1. CASE driver = "fast-pair"
  <2>1. FP!Frames(bytes, MaxData) \in Packets(MaxData)
    <3>1. PICK f \in [1..(Len(bytes) + 1) -> Packets(MaxData)] : FP!Frames(bytes, MaxData) = f[1]
      BY <1>0, FramesRun
    <3> QED BY <1>0, <3>1
  <2>2. Cut(bytes) = FP!Frames(bytes, MaxData)
    BY <1>1 DEF Cut
  <2>3. Cut(bytes).rest \in Short(MaxData) /\ Cut(bytes).frames \in Seq(Packet)
    BY <2>1, <2>2 DEF Packets
  <2> QED BY <1>1, <2>3 DEF Waiting
<1>2. CASE driver # "fast-pair"
  <2> DEFINE cut == Split(bytes, MaxFrame)
  <2>1. cut \in Cuts(MaxFrame)
    <3>1. PICK f \in [1..(Len(bytes) + 1) -> Cuts(MaxFrame)] : cut = f[1]
      BY <1>0, SplitRun
    <3> QED BY <1>0, <3>1
  <2>2. Cut(bytes) = [cut EXCEPT !.frames = [i \in DOMAIN cut.frames |-> Decode(cut.frames[i])]]
    BY <1>2 DEF Cut
  <2> HIDE DEF cut
  <2>3. cut.rest \in Begun(MaxFrame) /\ cut.frames \in Seq(Seq(Byte))
           /\ DOMAIN cut = {"frames", "rest"}
    BY <2>1 DEF Cuts
  <2>4. Cut(bytes).rest = cut.rest /\ DOMAIN Cut(bytes).frames = DOMAIN cut.frames
    BY <2>2, <2>3
  <2> QED BY <1>2, <2>3, <2>4 DEF Waiting
<1> QED BY <1>1, <1>2

\* A report gives no feature to the state and takes none away.
LEMMA AbsorbDomain ==
  ASSUME NEW old, NEW message
  PROVE  DOMAIN Absorb(old, message) = DOMAIN old
BY DEF Absorb, Applied, Over

\* r is what a reading goes through: what each message makes of the one before.
Absorbed(r, n, messages) == \A k \in 1..n : r[k] = Absorb(r[k - 1], messages[k])

\* A reading goes through what each message makes of it.
LEMMA AbsorbRun ==
  ASSUME NEW n \in Nat, NEW messages, DOMAIN messages = 1..n, NEW old
  PROVE  \E r : /\ r[0] = old /\ r[n] = FoldLeft(Absorb, old, messages)
                /\ Absorbed(r, n, messages)
<1> DEFINE Goes(g, k) == \A s \in SUBSET (1..k) :
                           g[s] = IF s = {} THEN old
                                  ELSE Absorb(g[s \ {Max(s)}], messages[Max(s)])
           T == {k \in Nat : \E g : Goes(g, k)}
           iter[s \in SUBSET DOMAIN messages] ==
             IF s = {} THEN old
             ELSE LET x == Max(s) IN Absorb(iter[s \ {x}], messages[x])
<1>1. 0 \in T
  <2> DEFINE g == [s \in {{}} |-> old]
  <2>1. Goes(g, 0)
    <3>1. 1..0 = {}
      OBVIOUS
    <3> QED BY <3>1
  <2> HIDE DEF Goes, g, iter
  <2> QED BY <2>1
<1>2. ASSUME NEW k \in Nat, k \in T PROVE k + 1 \in T
  <2> HIDE DEF iter
  <2>1. PICK g : Goes(g, k)
    BY <1>2
  <2> DEFINE h == [s \in SUBSET (1..(k + 1)) |->
                     IF k + 1 \in s THEN Absorb(g[s \ {k + 1}], messages[k + 1]) ELSE g[s]]
  <2>2. ASSUME NEW s \in SUBSET (1..(k + 1))
        PROVE  h[s] = IF s = {} THEN old ELSE Absorb(h[s \ {Max(s)}], messages[Max(s)])
    <3>1. CASE k + 1 \in s
      <4>1. Max(s) \in s /\ \A x \in s : x <= Max(s)
        <5>1. k + 1 \in Nat /\ s # {}
          BY <3>1
        <5> HIDE DEF h
        <5> QED BY <5>1, MaxIn
      <4>2. Max(s) = k + 1
        <5> DEFINE m == Max(s)
        <5>1. m \in 1..(k + 1) /\ k + 1 <= m
          BY <3>1, <4>1
        <5> HIDE DEF m, h
        <5>2. m = k + 1
          BY <5>1
        <5> QED BY <5>2 DEF m
      <4>3. k + 1 \notin s \ {k + 1} /\ s \ {k + 1} \in SUBSET (1..(k + 1))
        OBVIOUS
      <4>4. h[s] = Absorb(g[s \ {k + 1}], messages[k + 1]) /\ h[s \ {k + 1}] = g[s \ {k + 1}]
        BY <3>1, <4>3
      <4> HIDE DEF h
      <4> QED BY <3>1, <4>2, <4>4
    <3>2. CASE k + 1 \notin s /\ s # {}
      <4>1. s \in SUBSET (1..k)
        BY <3>2
      <4>2. s \ {Max(s)} \in SUBSET (1..(k + 1)) /\ k + 1 \notin s \ {Max(s)}
        BY <3>2
      <4>3. h[s] = g[s] /\ h[s \ {Max(s)}] = g[s \ {Max(s)}]
        BY <3>2, <4>2
      <4> HIDE DEF h
      <4> QED BY <2>1, <3>2, <4>1, <4>3
    <3>3. CASE s = {}
      <4>1. h[s] = g[s] /\ s \in SUBSET (1..k)
        BY <3>3
      <4> HIDE DEF h
      <4> QED BY <2>1, <3>3, <4>1
    <3> HIDE DEF h
    <3> QED BY <3>1, <3>2, <3>3
  <2>3. Goes(h, k + 1)
    BY <2>2
  <2> HIDE DEF Goes, h
  <2> QED BY <2>3
<1>3. n \in T
  <2> HIDE DEF T, iter
  <2> QED BY <1>1, <1>2, NatSet
<1>4. PICK g : Goes(g, n)
  <2> HIDE DEF iter, Goes
  <2> QED BY <1>3
<1>5. iter = [s \in SUBSET DOMAIN messages |->
                IF s = {} THEN old
                ELSE LET x == Max(s) IN Absorb(iter[s \ {x}], messages[x])]
  <2> DEFINE f == [s \in SUBSET DOMAIN messages |-> g[s]]
  <2>1. ASSUME NEW s \in SUBSET DOMAIN messages
        PROVE  f[s] = IF s = {} THEN old
                      ELSE LET x == Max(s) IN Absorb(f[s \ {x}], messages[x])
    <3>1. f[s] = g[s] /\ f[s \ {Max(s)}] = g[s \ {Max(s)}]
      OBVIOUS
    <3> HIDE DEF f, iter
    <3> QED BY <1>4, <3>1
  <2>2. \E h : h = [s \in SUBSET DOMAIN messages |->
                      IF s = {} THEN old
                      ELSE LET x == Max(s) IN Absorb(h[s \ {x}], messages[x])]
    <3>1. f = [s \in SUBSET DOMAIN messages |->
                 IF s = {} THEN old
                 ELSE LET x == Max(s) IN Absorb(f[s \ {x}], messages[x])]
      <4> DEFINE Step(s) == IF s = {} THEN old
                            ELSE LET x == Max(s) IN Absorb(f[s \ {x}], messages[x])
      <4>1. \A s \in SUBSET DOMAIN messages : f[s] = Step(s)
        BY <2>1
      <4>2. f = [s \in SUBSET DOMAIN messages |-> f[s]]
        OBVIOUS
      <4> HIDE DEF f, Step, iter
      <4>3. f = [s \in SUBSET DOMAIN messages |-> Step(s)]
        BY <4>1, <4>2
      <4> QED BY <4>3 DEF Step
    <3> HIDE DEF f, iter
    <3> QED BY <3>1
  <2> QED BY <2>2
<1>6. FoldLeft(Absorb, old, messages) = iter[DOMAIN messages]
  BY DEF FoldLeft, MapThenFoldSet
<1> DEFINE r == [k \in 0..n |-> iter[1..k]]
<1>7. r[0] = old
  <2>1. 1..0 = {} /\ 0 \in 0..n
    OBVIOUS
  <2> HIDE DEF iter
  <2> QED BY <1>5, <2>1
<1>8. r[n] = FoldLeft(Absorb, old, messages)
  <2> HIDE DEF iter
  <2> QED BY <1>6
<1>9. ASSUME NEW k \in 1..n PROVE r[k] = Absorb(r[k - 1], messages[k])
  <2>1. /\ Max(1..k) = k /\ (1..k) \ {k} = 1..(k - 1) /\ 1..k # {}
        /\ k \in 0..n /\ k - 1 \in 0..n /\ 1..k \in SUBSET DOMAIN messages
    <3> HIDE DEF iter
    <3>1. k \in Nat \ {0} /\ k - 1 \in 0..n /\ k \in 0..n
      OBVIOUS
    <3>2. Max(1..k) = k /\ (1..k) \ {k} = 1..(k - 1)
      BY <3>1, MaxOfInterval
    <3>3. 1..k # {}
      BY <3>1
    <3>4. \A j \in 1..k : j \in 1..n
      OBVIOUS
    <3> QED BY <3>1, <3>2, <3>3, <3>4
  <2>2. iter[1..k] = Absorb(iter[1..(k - 1)], messages[k])
    <3> HIDE DEF iter
    <3> QED BY <1>5, <2>1
  <2> HIDE DEF iter
  <2> QED BY <2>1, <2>2
<1> HIDE DEF iter, r
<1> QED BY <1>7, <1>8, <1>9 DEF Absorbed

\* Whatever messages are absorbed, a reading keeps its features.
LEMMA FoldDomain ==
  ASSUME NEW n \in Nat, NEW messages, DOMAIN messages = 1..n, NEW old
  PROVE  DOMAIN FoldLeft(Absorb, old, messages) = DOMAIN old
<1>1. PICK r : /\ r[0] = old /\ r[n] = FoldLeft(Absorb, old, messages)
               /\ Absorbed(r, n, messages)
  BY AbsorbRun
<1> DEFINE U == {k \in Nat : k <= n => DOMAIN r[k] = DOMAIN old}
<1>2. 0 \in U
  BY <1>1
<1>3. ASSUME NEW k \in Nat, k \in U PROVE k + 1 \in U
  <2> SUFFICES ASSUME k + 1 <= n PROVE DOMAIN r[k + 1] = DOMAIN old
    OBVIOUS
  <2>1. k + 1 \in 1..n /\ (k + 1) - 1 = k
    OBVIOUS
  <2>2. r[k + 1] = Absorb(r[k], messages[k + 1])
    BY <1>1, <2>1 DEF Absorbed
  <2>3. DOMAIN r[k] = DOMAIN old
    BY <1>3
  <2> QED BY <2>2, <2>3, AbsorbDomain
<1>4. n \in U
  <2> HIDE DEF U
  <2> QED BY <1>2, <1>3, NatSet
<1> QED BY <1>1, <1>4

-----------------------------------------------------------------------------
(* What a headset has and what it says *)

\* A headset of driver d has t.
Has(t, d) == DOMAIN t = FeaturesOf(d) /\ Within(t, d)

\* The features that each driver reads.
LEMMA SonyFeatures ==
  /\ FeaturesOf("sony-mdr") =
       {"firmware", "battery", "charging", "codec", "noise", "focus_on_voice",
        "ambient_level", "noise_variant", "eq_preset", "eq_clear_bass", "eq_bands",
        "speak_to_chat", "speak_to_chat_sensitivity", "speak_to_chat_timeout",
        "pause_on_removal", "voice_guidance", "dsee", "touch_sensor"}
  /\ FeaturesOf("fast-pair") =
       {"battery_parts", "battery", "charging", "model_id", "noise", "noise_modes",
        "noise_settable"}
BY DEF FeaturesOf, Features

\* The values of a Sony headset.
SonyValues(t) ==
  /\ t.firmware \in Seq(1..127) /\ Len(t.firmware) \in 1..127
  /\ t.battery \in 0..100 /\ t.codec \in Names(CODECS)
  /\ t.noise \in {"off", "anc", "ambient"} /\ t.focus_on_voice \in BOOLEAN
  /\ t.ambient_level \in 0..20 /\ t.noise_variant = NOISE_VARIANT
  /\ t.eq_preset \in Names(EQ_PRESETS)
  /\ t.eq_clear_bass \in [1..1 -> -10..10] /\ t.eq_bands \in [1..BAND_COUNT -> -10..10]
  /\ t.speak_to_chat_sensitivity \in Names(SENSITIVITIES)
  /\ t.speak_to_chat_timeout \in Names(TIMEOUTS)

\* What each feature of a Sony headset may be.
LEMMA SonyHas ==
  ASSUME NEW t, Has(t, "sony-mdr")
  PROVE  SonyValues(t)
<1>1. PICK known : \A f \in FeaturesOf("sony-mdr") : t[f] \in Features("sony-mdr", known)[f]
  BY DEF Has, Within
<1> DEFINE F == Features("sony-mdr", known)
<1>2. /\ F.firmware = {text \in Seq(1..127) : Len(text) \in 1..127}
      /\ F.battery = 0..100 /\ F.codec = Names(CODECS)
      /\ F.noise = {"off", "anc", "ambient"} /\ F.focus_on_voice = BOOLEAN
      /\ F.ambient_level = 0..20 /\ F.noise_variant = {NOISE_VARIANT}
      /\ F.eq_preset = Names(EQ_PRESETS) /\ F.eq_clear_bass = [1..1 -> -10..10]
      /\ F.eq_bands = [1..BAND_COUNT -> -10..10]
      /\ F.speak_to_chat_sensitivity = Names(SENSITIVITIES)
      /\ F.speak_to_chat_timeout = Names(TIMEOUTS)
  BY DEF Features
<1> HIDE DEF F
<1>3. \A f \in FeaturesOf("sony-mdr") : t[f] \in F[f]
  BY <1>1 DEF F
<1>4. /\ t.firmware \in F.firmware /\ t.battery \in F.battery /\ t.codec \in F.codec
      /\ t.noise \in F.noise /\ t.focus_on_voice \in F.focus_on_voice
      /\ t.ambient_level \in F.ambient_level /\ t.noise_variant \in F.noise_variant
      /\ t.eq_preset \in F.eq_preset /\ t.eq_clear_bass \in F.eq_clear_bass
      /\ t.eq_bands \in F.eq_bands
      /\ t.speak_to_chat_sensitivity \in F.speak_to_chat_sensitivity
      /\ t.speak_to_chat_timeout \in F.speak_to_chat_timeout
  BY <1>3, SonyFeatures
<1> QED BY <1>2, <1>4 DEF SonyValues

\* A name of a table has a code.
LEMMA CodeIs ==
  ASSUME NEW table, NEW name \in Names(table)
  PROVE  Code(table, name) \in DOMAIN table /\ table[Code(table, name)] = name
BY DEF Names, Code

\* The codes are bytes, and `manual` is the one of a curve.
LEMMA Tables ==
  /\ DOMAIN CODECS \subseteq Byte /\ DOMAIN EQ_PRESETS \subseteq Byte
  /\ DOMAIN SENSITIVITIES \subseteq Byte /\ DOMAIN TIMEOUTS \subseteq Byte
  /\ EQ_MANUAL_PRESET \in DOMAIN EQ_PRESETS /\ EQ_PRESETS[EQ_MANUAL_PRESET] = "manual"
<1>1. DOMAIN CODECS \subseteq Byte
  <2> DEFINE hd == "aptX HD"
             items == {<<0, "unknown">>, <<1, "SBC">>, <<2, "AAC">>, <<16, "LDAC">>,
                       <<32, "aptX">>, <<33, hd>>}
  <2>1. CODECS = Table(items)
    BY DEF CODECS
  <2> HIDE DEF hd
  <2>2. \A item \in items : item[1] \in {0, 1, 2, 16, 32, 33}
    OBVIOUS
  <2> HIDE DEF items
  <2>3. DOMAIN CODECS \subseteq {0, 1, 2, 16, 32, 33}
    BY <2>1, <2>2 DEF Table
  <2> QED BY <2>3 DEF Byte
<1>2. DOMAIN SENSITIVITIES \subseteq Byte
  BY DEF SENSITIVITIES, Table, Byte
<1>3. DOMAIN TIMEOUTS \subseteq Byte
  BY DEF TIMEOUTS, Table, Byte
<1>4. DOMAIN EQ_PRESETS \subseteq Byte
  <2> DEFINE custom1 == "custom 1"
             custom2 == "custom 2"
             items == {<<0, "off">>, <<16, "bright">>, <<17, "excited">>,
                     <<18, "mellow">>, <<19, "relaxed">>, <<20, "vocal">>,
                     <<21, "treble">>, <<22, "bass">>, <<23, "speech">>,
                     <<160, "manual">>, <<161, custom1>>, <<162, custom2>>}
  <2>1. EQ_PRESETS = Table(items)
    BY DEF EQ_PRESETS
  <2> HIDE DEF custom1, custom2
  <2>2. \A item \in items : item[1] \in 0..255
    OBVIOUS
  <2> HIDE DEF items
  <2> QED BY <2>1, <2>2 DEF Table, Byte
<1>5. EQ_MANUAL_PRESET \in DOMAIN EQ_PRESETS
  BY DEF EQ_PRESETS, Table, EQ_MANUAL_PRESET
<1>6. EQ_PRESETS[EQ_MANUAL_PRESET] = "manual"
  <2> DEFINE custom1 == "custom 1"
             custom2 == "custom 2"
             items == {<<0, "off">>, <<16, "bright">>, <<17, "excited">>,
                     <<18, "mellow">>, <<19, "relaxed">>, <<20, "vocal">>,
                     <<21, "treble">>, <<22, "bass">>, <<23, "speech">>,
                     <<160, "manual">>, <<161, custom1>>, <<162, custom2>>}
  <2>1. EQ_PRESETS = Table(items)
    BY DEF EQ_PRESETS
  <2> HIDE DEF custom1, custom2
  <2>2. <<160, "manual">> \in items /\ \A item \in items : item[1] = 160 => item[2] = "manual"
    OBVIOUS
  <2> HIDE DEF items
  <2>3. (CHOOSE item \in items : item[1] = 160) \in items
           /\ (CHOOSE item \in items : item[1] = 160)[1] = 160
    BY <2>2
  <2>4. Table(items)[160] = (CHOOSE item \in items : item[1] = 160)[2]
    BY <2>2 DEF Table
  <2> QED BY <2>1, <2>2, <2>3, <2>4 DEF EQ_MANUAL_PRESET
<1> QED BY <1>1, <1>2, <1>3, <1>4, <1>5, <1>6

\* What the records ask for and answer with are bytes.
LEMMA SonyRecords ==
  ASSUME NEW record \in ToSet(RECORDS)
  PROVE  /\ record.type \in Byte /\ record.request[1] \in Byte
         /\ record.id \in {"firmware", "battery", "codec", "noise", "equalizer",
                           "speak_to_chat", "speak_to_chat_config", "pause_on_removal",
                           "voice_guidance", "dsee", "touch_sensor"}
<1>1. PICK i \in 1..11 : record = RECORDS[i]
  BY DEF ToSet, RECORDS
<1> DEFINE ids == {"firmware", "battery", "codec", "noise", "equalizer",
                   "speak_to_chat", "speak_to_chat_config", "pause_on_removal",
                   "voice_guidance", "dsee", "touch_sensor"}
<1>2. \A j \in 1..11 : /\ RECORDS[j].type \in {12, 14}
                        /\ RECORDS[j].request[1] \in {4, 34, 18, 102, 86, 246, 250, 70, 230, 214}
                        /\ RECORDS[j].id \in ids
  BY DEF RECORDS, COMMAND_1, COMMAND_2
<1> QED BY <1>1, <1>2 DEF Byte

\* A function on the first n numbers is a sequence of n elements.
LEMMA RowIs ==
  ASSUME NEW n, n \in Nat, NEW S, NEW f, f \in [1..n -> S]
  PROVE  f \in Seq(S) /\ Len(f) = n
OBVIOUS

\* What a headset says is a payload, and a short one.
LEMMA PayloadType ==
  ASSUME NEW id \in {"firmware", "battery", "codec", "noise", "equalizer",
                     "speak_to_chat", "speak_to_chat_config", "pause_on_removal",
                     "voice_guidance", "dsee", "touch_sensor"},
         NEW t, NEW kind \in Byte, SonyValues(t)
  PROVE  Payload(id, t, kind) \in Seq(Byte) /\ Len(Payload(id, t, kind)) <= 130
<1>0. /\ \A n \in 0..255 : n \in Byte
      /\ \A table, name : name \in Names(table) /\ DOMAIN table \subseteq Byte =>
           Code(table, name) \in Byte
  BY CodeIs DEF Byte
<1>1. /\ Code(CODECS, t.codec) \in Byte /\ Code(EQ_PRESETS, t.eq_preset) \in Byte
      /\ Code(SENSITIVITIES, t.speak_to_chat_sensitivity) \in Byte
      /\ Code(TIMEOUTS, t.speak_to_chat_timeout) \in Byte
  BY <1>0, Tables DEF SonyValues
<1>2. t.battery \in Byte /\ t.ambient_level \in Byte /\ t.noise_variant \in Byte
  BY DEF SonyValues, Byte, NOISE_VARIANT
<1>3. 0 \in Byte /\ 1 \in Byte /\ 2 \in Byte /\ 6 \in Byte /\ 12 \in Byte /\ 210 \in Byte
  BY <1>0
<1> DEFINE flag(on) == IF on THEN 1 ELSE 0
           off(on) == IF on THEN 0 ELSE 1
<1>4. \A on : flag(on) \in Byte /\ off(on) \in Byte
  BY <1>3
<1>5. CASE id = "firmware"
  <2>1. Payload(id, t, kind) = <<kind, 2, Len(t.firmware)>> \o t.firmware
    BY <1>5 DEF Payload
  <2>2. t.firmware \in Seq(Byte) /\ Len(t.firmware) \in 1..127
    BY DEF SonyValues, Byte
  <2>3. Len(t.firmware) \in Byte
    BY <2>2 DEF Byte
  <2> DEFINE head == <<kind, 2, Len(t.firmware)>>
  <2>4. head \in Seq(Byte) /\ Len(head) = 3
    BY <1>3, <2>3
  <2> HIDE DEF head, Byte
  <2>5. head \o t.firmware \in Seq(Byte)
          /\ Len(head \o t.firmware) = Len(head) + Len(t.firmware)
    BY <2>2, <2>4, ConcatProperties
  <2>6. Len(head) + Len(t.firmware) <= 130
    <3>1. \A n \in 1..127 : 3 + n <= 130
      OBVIOUS
    <3> QED BY <2>2, <2>4, <3>1
  <2> QED BY <2>1, <2>5, <2>6 DEF head
<1>6. CASE id = "equalizer"
  <2> DEFINE head == <<kind, 0, Code(EQ_PRESETS, t.eq_preset), 6>>
             gains == t.eq_clear_bass \o t.eq_bands
             values == [i \in 1..6 |-> 10 + gains[i]]
  <2>1. Payload(id, t, kind) = head \o values
    BY <1>6 DEF Payload
  <2>2. head \in Seq(Byte) /\ Len(head) = 4
    BY <1>1, <1>3
  <2>3. \A i \in 1..6 : gains[i] \in -10..10
    <3> DEFINE G == -10..10
               a == t.eq_clear_bass
               b == t.eq_bands
    <3>1. a \in [1..1 -> G] /\ b \in [1..5 -> G]
      BY DEF SonyValues, BAND_COUNT
    <3> HIDE DEF G, a, b
    <3>2. a \in Seq(G) /\ Len(a) = 1 /\ b \in Seq(G) /\ Len(b) = 5
      <4> DEFINE one == 1
                 five == 5
      <4>1. one \in Nat /\ five \in Nat /\ a \in [1..one -> G] /\ b \in [1..five -> G]
        BY <3>1
      <4>2. one = 1 /\ five = 5
        OBVIOUS
      <4> HIDE DEF one, five
      <4>3. a \in Seq(G) /\ Len(a) = one /\ b \in Seq(G) /\ Len(b) = five
        BY <4>1, RowIs
      <4> QED BY <4>2, <4>3
    <3>3. a \o b \in Seq(G) /\ Len(a \o b) = 6
      <4>1. a \o b \in Seq(G) /\ Len(a \o b) = Len(a) + Len(b)
        BY <3>2, ConcatProperties
      <4> QED BY <3>2, <4>1
    <3>4. \A i \in 1..6 : (a \o b)[i] \in G
      BY <3>3, ElementOfSeq
    <3> QED BY <3>4 DEF a, b, G
  <2>4. values \in Seq(Byte) /\ Len(values) = 6
    <3>1. \A i \in 1..6 : 10 + gains[i] \in Byte
      <4> HIDE DEF gains
      <4> QED BY <2>3 DEF Byte
    <3> HIDE DEF gains, Byte
    <3>2. values \in [1..6 -> Byte]
      BY <3>1
    <3> HIDE DEF values
    <3> DEFINE n == 6
    <3>3. n \in Nat /\ values \in [1..n -> Byte]
      BY <3>2
    <3>4. n = 6
      OBVIOUS
    <3> HIDE DEF n
    <3>5. values \in Seq(Byte) /\ Len(values) = n
      BY <3>3, RowIs
    <3> QED BY <3>4, <3>5
  <2> HIDE DEF head, values, Byte
  <2>5. head \o values \in Seq(Byte) /\ Len(head \o values) = Len(head) + Len(values)
    BY <2>2, <2>4, ConcatProperties
  <2>6. Len(head) + Len(values) <= 130
    BY <2>2, <2>4
  <2> QED BY <2>1, <2>5, <2>6
<1> HIDE DEF Byte
<1>7. CASE id = "battery"
  <2>1. Payload(id, t, kind) = <<kind, 0, t.battery, flag(t.charging)>>
    BY <1>7 DEF Payload
  <2> HIDE DEF flag
  <2> QED BY <1>2, <1>3, <1>4, <2>1
<1>8. CASE id = "codec"
  <2>1. Payload(id, t, kind) = <<kind, 2, Code(CODECS, t.codec)>>
    BY <1>8 DEF Payload
  <2> QED BY <1>1, <1>3, <2>1
<1>9. CASE id = "noise"
  <2>1. Payload(id, t, kind) = <<kind, t.noise_variant, 1, off(t.noise = "off"),
                                 flag(t.noise = "ambient"), flag(t.focus_on_voice),
                                 t.ambient_level>>
    BY <1>9 DEF Payload
  <2> HIDE DEF flag, off
  <2> QED BY <1>2, <1>3, <1>4, <2>1
<1>10. CASE id = "speak_to_chat"
  <2>1. Payload(id, t, kind) = <<kind, 12, off(t.speak_to_chat), 1>>
    BY <1>10 DEF Payload
  <2> HIDE DEF off
  <2> QED BY <1>3, <1>4, <2>1
<1>11. CASE id = "speak_to_chat_config"
  <2>1. Payload(id, t, kind) = <<kind, 12, Code(SENSITIVITIES, t.speak_to_chat_sensitivity),
                                 Code(TIMEOUTS, t.speak_to_chat_timeout)>>
    BY <1>11 DEF Payload
  <2> QED BY <1>1, <1>3, <2>1
<1>12. CASE id = "pause_on_removal"
  <2>1. Payload(id, t, kind) = <<kind, 1, off(t.pause_on_removal)>>
    BY <1>12 DEF Payload
  <2> HIDE DEF off
  <2> QED BY <1>3, <1>4, <2>1
<1>13. CASE id = "voice_guidance"
  <2>1. Payload(id, t, kind) = <<kind, 1, off(t.voice_guidance), 1>>
    BY <1>13 DEF Payload
  <2> HIDE DEF off
  <2> QED BY <1>3, <1>4, <2>1
<1>14. CASE id = "dsee"
  <2>1. Payload(id, t, kind) = <<kind, 2, flag(t.dsee)>>
    BY <1>14 DEF Payload
  <2> HIDE DEF flag
  <2> QED BY <1>3, <1>4, <2>1
<1>15. CASE id = "touch_sensor"
  <2>1. Payload(id, t, kind) = <<kind, 210, 0, off(t.touch_sensor)>>
    BY <1>15 DEF Payload
  <2> HIDE DEF off
  <2> QED BY <1>3, <1>4, <2>1
<1> QED BY <1>5, <1>6, <1>7, <1>8, <1>9, <1>10, <1>11, <1>12, <1>13, <1>14, <1>15

\* The values of earbuds that what they say is made of.
BudValues(t) ==
  /\ \/ t.battery_parts = <<>>
     \/ \E known : t.battery_parts \in [1..1 -> [known -> [level : 0..100, charging : BOOLEAN]]]
  /\ t.model_id \in [1..3 -> Byte]

\* What each feature of a Fast Pair headset may be.
LEMMA BudHas ==
  ASSUME NEW t, Has(t, "fast-pair")
  PROVE  BudValues(t)
<1>1. PICK known : \A f \in FeaturesOf("fast-pair") : t[f] \in Features("fast-pair", known)[f]
  BY DEF Has, Within
<1>2. t["battery_parts"] \in Features("fast-pair", known)["battery_parts"]
         /\ t["model_id"] \in Features("fast-pair", known)["model_id"]
  BY <1>1, SonyFeatures
<1>3. /\ Features("fast-pair", known)["battery_parts"]
           = Optional([known -> [level : 0..100, charging : BOOLEAN]])
      /\ Features("fast-pair", known)["model_id"] = [1..3 -> Byte]
  BY DEF Features
<1> QED BY <1>2, <1>3 DEF BudValues, Optional

\* A function on the first three numbers is a short sequence.
LEMMA TripleIs ==
  ASSUME NEW S, NEW f \in [1..3 -> S]
  PROVE  f \in Seq(S) /\ Len(f) \in {3, 4}
<1> DEFINE n == 3
<1>1. n \in Nat /\ f \in [1..n -> S] /\ n \in {3, 4}
  OBVIOUS
<1> HIDE DEF n
<1>2. f \in Seq(S) /\ Len(f) = n
  BY <1>1, RowIs
<1> QED BY <1>1, <1>2

\* What a Fast Pair headset says is the data of a packet.
LEMMA DataType ==
  ASSUME NEW id \in {"battery", "model", "noise"}, NEW t, BudValues(t)
  PROVE  Data(id, t) \in Seq(Byte) /\ Len(Data(id, t)) \in {3, 4}
<1>1. ASSUME NEW name PROVE PartByte(t, name) \in Byte
  <2>1. CASE t.battery_parts = <<>>
    BY <2>1 DEF PartByte, Byte
  <2>2. CASE t.battery_parts # <<>>
    <3>1. PICK known : t.battery_parts
                         \in [1..1 -> [known -> [level : 0..100, charging : BOOLEAN]]]
      BY <2>2 DEF BudValues
    <3> DEFINE parts == t.battery_parts[1]
    <3>2. parts \in [known -> [level : 0..100, charging : BOOLEAN]]
      BY <3>1
    <3>3. PartByte(t, name) = IF name \notin DOMAIN parts THEN 255
                              ELSE parts[name].level + (IF parts[name].charging THEN 128 ELSE 0)
      BY <2>2 DEF PartByte
    <3> HIDE DEF parts
    <3>4. CASE name \notin DOMAIN parts
      BY <3>3, <3>4 DEF Byte
    <3>5. CASE name \in DOMAIN parts
      <4>1. parts[name].level \in 0..100
        BY <3>2, <3>5
      <4>2. PartByte(t, name) = parts[name].level + (IF parts[name].charging THEN 128 ELSE 0)
        BY <3>3, <3>5
      <4> HIDE DEF parts
      <4> QED BY <4>1, <4>2 DEF Byte
    <3> QED BY <3>4, <3>5
  <2> QED BY <2>1, <2>2
<1>2. ASSUME NEW names PROVE ModeBits(names) \in Byte
  <2> DEFINE bit(i) == IF Contains(names, FP!NOISE_BITS[i][1]) THEN FP!NOISE_BITS[i][2] ELSE 0
  <2>1. bit(1) \in {0, 32} /\ bit(2) \in {0, 128} /\ bit(3) \in {0, 64} /\ bit(4) \in {0, 8}
    BY DEF FP!NOISE_BITS
  <2>2. ModeBits(names) = bit(1) + bit(2) + bit(3) + bit(4)
    BY DEF ModeBits
  <2> HIDE DEF bit
  <2> QED BY <2>1, <2>2 DEF Byte
<1>3. 1 \in Byte
  BY DEF Byte
<1> HIDE DEF Byte
<1>4. CASE id = "battery"
  <2>1. Data(id, t) = [i \in 1..3 |-> PartByte(t, FP!Parts[i])]
    BY <1>4 DEF Data
  <2>2. Data(id, t) \in [1..3 -> Byte]
    BY <1>1, <2>1
  <2> QED BY <2>2, TripleIs
<1>5. CASE id = "model"
  <2>1. Data(id, t) = t.model_id
    BY <1>5 DEF Data
  <2>2. Data(id, t) \in [1..3 -> Byte]
    BY <2>1 DEF BudValues
  <2> QED BY <2>2, TripleIs
<1>6. CASE id = "noise"
  <2>1. Data(id, t) = <<1, ModeBits(t.noise_modes), ModeBits(t.noise_settable),
                        ModeBits(t.noise)>>
    BY <1>6 DEF Data
  <2> QED BY <1>2, <1>3, <2>1
<1> QED BY <1>4, <1>5, <1>6

\* What the volunteered packets are told by are bytes.
LEMMA BudRecords ==
  ASSUME NEW record \in ToSet(FP!VOLUNTEERED)
  PROVE  /\ record.group \in Byte /\ record.code \in Byte
         /\ record.id \in {"battery", "model", "noise"}
<1>1. PICK i \in 1..3 : record = FP!VOLUNTEERED[i]
  BY DEF ToSet, FP!VOLUNTEERED
<1>2. \A j \in 1..3 : /\ FP!VOLUNTEERED[j].group \in {3, 8}
                       /\ FP!VOLUNTEERED[j].code \in {3, 1, 19}
                       /\ FP!VOLUNTEERED[j].id \in {"battery", "model", "noise"}
  BY DEF FP!VOLUNTEERED
<1> QED BY <1>1, <1>2 DEF Byte

\* A report is bytes, damaged or not.
LEMMA FrameOfType ==
  ASSUME NEW t, Has(t, driver), driver \in {"sony-mdr", "fast-pair"}, reports \in Nat,
         NEW record \in Records
  PROVE  FrameOf(record, t) \in Seq(Byte) /\ FrameOf(record, t) # <<>>
<1> DEFINE kind == IF reports = 0 THEN Reply(record) ELSE Notification(record)
<1>1. CASE driver = "fast-pair"
  <2> DEFINE data == Data(record.id, t)
  <2>1. record \in ToSet(FP!VOLUNTEERED)
    BY <1>1 DEF Records, Known
  <2>2. FrameOf(record, t) = FP!EncodeFrame(record.group, record.code, data)
    BY <1>1 DEF FrameOf
  <2>3. data \in Seq(Byte) /\ Len(data) \in {3, 4} /\ record.group \in Byte
          /\ record.code \in Byte
    BY <1>1, <2>1, BudHas, BudRecords, DataType
  <2> HIDE DEF data
  <2>4. Len(data) \div 256 \in Byte /\ Len(data) % 256 \in Byte
    <3>1. \A n \in {3, 4} : n \div 256 \in Byte /\ n % 256 \in Byte
      BY DEF Byte
    <3> QED BY <2>3, <3>1
  <2> DEFINE head == <<record.group, record.code, Len(data) \div 256, Len(data) % 256>>
  <2> HIDE DEF Byte
  <2>5. head \in Seq(Byte) /\ Len(head) = 4
    BY <2>3, <2>4
  <2>6. FrameOf(record, t) = head \o data
    BY <2>2 DEF FP!EncodeFrame
  <2> HIDE DEF head
  <2>7. head \o data \in Seq(Byte) /\ Len(head \o data) = Len(head) + Len(data)
    BY <2>3, <2>5, ConcatProperties
  <2>8. Len(head \o data) # 0
    BY <2>3, <2>5, <2>7
  <2> QED BY <2>6, <2>7, <2>8
<1>2. CASE driver = "sony-mdr"
  <2>1. record \in ToSet(RECORDS)
    BY <1>2 DEF Records, Known
  <2>2. kind \in Byte
    <3>1. record.request[1] \in Int
      BY <2>1, SonyRecords DEF Byte
    <3>2. \A n \in Int : n % 256 \in Byte
      BY DEF Byte
    <3> QED BY <3>1, <3>2 DEF Reply, Notification
  <2>3. reports % 2 \in Byte
    BY DEF Byte
  <2> DEFINE m == [type |-> record.type, seq |-> reports % 2,
                   payload |-> Payload(record.id, t, kind)]
  <2>4. FrameOf(record, t) = Encode(m)
    BY <1>2 DEF FrameOf
  <2> HIDE DEF kind
  <2>5. SonyValues(t)
    BY <1>2, SonyHas
  <2>6. Payload(record.id, t, kind) \in {p \in Seq(Byte) : Len(p) < 256 * 256}
    <3> DEFINE id == record.id
    <3>1. id \in {"firmware", "battery", "codec", "noise", "equalizer",
                 "speak_to_chat", "speak_to_chat_config", "pause_on_removal",
                 "voice_guidance", "dsee", "touch_sensor"}
      BY <2>1, SonyRecords
    <3> HIDE DEF id, Byte
    <3>2. Payload(id, t, kind) \in Seq(Byte) /\ Len(Payload(id, t, kind)) <= 130
      BY <2>2, <2>5, <3>1, PayloadType, SMTT(30)
    <3> QED BY <3>2 DEF id
  <2>7. m \in Messages
    BY <2>1, <2>3, <2>6, SonyRecords DEF Messages
  <2> HIDE DEF m
  <2>8. Encode(m) \in Seq(Byte) /\ Len(Encode(m)) = Len(Escape(FullOf(m))) + 2
          /\ FullOf(m) \in Seq(Byte)
    BY <2>7, EncodeShape
  <2>9. Escape(FullOf(m)) \in Seq(Byte)
    BY <2>8, EscapeType
  <2>10. Len(Encode(m)) # 0
    BY <2>8, <2>9
  <2> QED BY <2>4, <2>8, <2>10
<1> QED BY <1>1, <1>2

\* A frame that a fault has changed is still a sequence of bytes.
LEMMA MangledType ==
  ASSUME NEW frame \in Seq(Byte), frame # <<>>, NEW bytes \in Mangled(frame),
         DamagedTo \subseteq Byte
  PROVE  bytes \in Seq(Byte)
<1>1. \/ \E i \in DOMAIN frame, byte \in DamagedTo : bytes = [frame EXCEPT ![i] = byte]
      \/ \E n \in 1..(Len(frame) - 1) : bytes = SubSeq(frame, 1, n)
      \/ bytes = Tail(frame)
  BY DEF Mangled
<1> HIDE DEF Byte
<1>2. CASE \E i \in DOMAIN frame, byte \in DamagedTo : bytes = [frame EXCEPT ![i] = byte]
  BY <1>2
<1>3. CASE \E n \in 1..(Len(frame) - 1) : bytes = SubSeq(frame, 1, n)
  BY <1>3
<1>4. CASE bytes = Tail(frame)
  BY <1>4
<1> QED BY <1>1, <1>2, <1>3, <1>4

-----------------------------------------------------------------------------
(* What a write does *)

\* A value within its limits is kept as it is.
LEMMA Clamped ==
  ASSUME NEW low \in Int, NEW high \in Int, NEW n \in low..high
  PROVE  Clamp(n, low, high) = n
BY DEF Clamp

\* s was read from a headset that has t as far as the noise record goes.
NoiseRead(s, t) ==
  DOMAIN s = FeaturesOf("sony-mdr") /\ \A f \in NoiseControls : s[f] = t[f]

\* A headset that is told a noise setting changes that setting and no other.
LEMMA NoiseObeyed ==
  ASSUME NEW t, Has(t, "sony-mdr"), NEW s, NoiseRead(s, t),
         NEW control \in NoiseControls, NEW value \in Askable[control],
         ~Refused(control, value, s), control # "noise" => s.noise = "ambient"
  PROVE  Obeyed(EncodeNoise(control, value, s), t) = Meant(control, value, t)
<1>1. SonyValues(t)
  BY SonyHas
<1>2. /\ t.noise \in {"off", "anc", "ambient"} /\ t.focus_on_voice \in BOOLEAN
      /\ t.ambient_level \in 0..20
  BY <1>1 DEF SonyValues
<1>3. /\ s.noise = t.noise /\ s.focus_on_voice = t.focus_on_voice
      /\ s.ambient_level = t.ambient_level
  BY DEF NoiseRead, NoiseControls
<1>4. /\ "noise" \in DOMAIN s /\ "focus_on_voice" \in DOMAIN s
      /\ "ambient_level" \in DOMAIN s /\ DOMAIN t = DOMAIN s
  BY SonyFeatures DEF NoiseRead, Has
<1> DEFINE w == [s EXCEPT ![control] = value]
           p == EncodeNoise(control, value, s)
<1>5. w.noise \in {"off", "anc", "ambient"}
  BY DEF Refused
<1>6. /\ p[1] = 104
      /\ p[4] = Flag(w.noise # "off") /\ p[5] = Flag(w.noise = "ambient")
      /\ p[6] = Flag(w.focus_on_voice) /\ p[7] = Clamp(w.ambient_level, 0, 20)
  BY DEF EncodeNoise
<1>7. /\ p[4] = 0 <=> w.noise = "off"
      /\ p[4] = 1 <=> w.noise # "off"
      /\ p[5] = 1 <=> w.noise = "ambient"
  BY <1>6 DEF Flag
<1>8. Obeyed(p, t) =
        [t EXCEPT !.noise = IF p[4] = 0 THEN "off" ELSE IF p[5] = 1 THEN "ambient" ELSE "anc",
                  !.focus_on_voice = IF p[4] = 1 /\ p[5] = 1 THEN p[6] = 1 ELSE @,
                  !.ambient_level = IF p[4] = 1 /\ p[5] = 1 THEN p[7] ELSE @]
  BY <1>6 DEF Obeyed
<1> DEFINE new == IF p[4] = 0 THEN "off" ELSE IF p[5] = 1 THEN "ambient" ELSE "anc"
           focus == IF p[4] = 1 /\ p[5] = 1 THEN p[6] = 1 ELSE t.focus_on_voice
           level == IF p[4] = 1 /\ p[5] = 1 THEN p[7] ELSE t.ambient_level
<1> HIDE DEF p
<1>12. Obeyed(p, t) = [t EXCEPT !.noise = new, !.focus_on_voice = focus, !.ambient_level = level]
  <2>1. /\ [t EXCEPT !.noise = new].focus_on_voice = t.focus_on_voice
        /\ [t EXCEPT !.noise = new, !.focus_on_voice = focus].ambient_level = t.ambient_level
    <3> HIDE DEF new, focus
    <3> QED BY <1>4
  <2> QED BY <1>8, <2>1
<1>9. ASSUME control = "noise" PROVE Obeyed(p, t) = Meant(control, value, t)
  <2>1. w.noise = value /\ w.focus_on_voice = t.focus_on_voice
           /\ w.ambient_level = t.ambient_level
    BY <1>3, <1>4, <1>9
  <2>2. Clamp(t.ambient_level, 0, 20) = t.ambient_level
    BY <1>2, Clamped
  <2> HIDE DEF w
  <2>3. p[7] = t.ambient_level /\ (p[6] = 1) = t.focus_on_voice
    BY <1>2, <1>6, <2>1, <2>2 DEF Flag
  <2>4. (IF p[4] = 0 THEN "off" ELSE IF p[5] = 1 THEN "ambient" ELSE "anc") = value
    BY <1>5, <1>7, <2>1
  <2>5. Meant(control, value, t) = [t EXCEPT !.noise = value]
    BY <1>9 DEF Meant
  <2>6. new = value /\ focus = t.focus_on_voice /\ level = t.ambient_level
    BY <2>3, <2>4
  <2> HIDE DEF new, focus, level
  <2> QED BY <1>4, <1>12, <2>5, <2>6
<1>10. ASSUME control = "ambient_level" PROVE Obeyed(p, t) = Meant(control, value, t)
  <2>1. w.noise = "ambient" /\ w.focus_on_voice = t.focus_on_voice
           /\ w.ambient_level = value /\ t.noise = "ambient"
    BY <1>3, <1>4, <1>10
  <2> HIDE DEF w
  <2>2. p[4] # 0 /\ p[4] = 1 /\ p[5] = 1 /\ p[7] = Clamp(value, 0, 20)
          /\ (p[6] = 1) = t.focus_on_voice
    BY <1>2, <1>6, <1>7, <2>1 DEF Flag
  <2>3. Meant(control, value, t) = [t EXCEPT !.ambient_level = Clamp(value, 0, 20)]
    BY <1>10 DEF Meant
  <2>4. new = t.noise /\ focus = t.focus_on_voice /\ level = Clamp(value, 0, 20)
    BY <2>1, <2>2
  <2> HIDE DEF new, focus, level
  <2> QED BY <1>4, <1>12, <2>3, <2>4
<1>11. ASSUME control = "focus_on_voice" PROVE Obeyed(p, t) = Meant(control, value, t)
  <2>1. w.noise = "ambient" /\ w.focus_on_voice = value
           /\ w.ambient_level = t.ambient_level /\ t.noise = "ambient"
    BY <1>3, <1>4, <1>11
  <2>2. Clamp(t.ambient_level, 0, 20) = t.ambient_level
    BY <1>2, Clamped
  <2>3. value \in BOOLEAN
    BY <1>11 DEF Askable
  <2> HIDE DEF w
  <2>4. p[4] # 0 /\ p[4] = 1 /\ p[5] = 1 /\ p[7] = t.ambient_level /\ (p[6] = 1) = value
    BY <1>6, <1>7, <2>1, <2>2, <2>3 DEF Flag
  <2>5. Meant(control, value, t) = [t EXCEPT !.focus_on_voice = value]
    BY <1>11 DEF Meant
  <2>6. new = t.noise /\ focus = value /\ level = t.ambient_level
    BY <2>1, <2>4
  <2> HIDE DEF new, focus, level
  <2> QED BY <1>4, <1>12, <2>5, <2>6
<1> QED BY <1>9, <1>10, <1>11 DEF NoiseControls, p

\* And as far as the equaliser record goes.
CurveRead(s, t) ==
  DOMAIN s = FeaturesOf("sony-mdr") /\ s.eq_bands = t.eq_bands
                                    /\ s.eq_clear_bass = t.eq_clear_bass

\* A headset that is told a curve setting changes that setting and no other.
LEMMA CurveObeyed ==
  ASSUME NEW t, Has(t, "sony-mdr"), NEW s, CurveRead(s, t),
         NEW control \in CurveControls, NEW value \in Askable[control],
         ~Refused(control, value, s)
  PROVE  Obeyed(EncodeEqualizer(control, value, s), t) = Meant(control, value, t)
<1>1. SonyValues(t)
  BY SonyHas
<1>2. t.eq_clear_bass \in [1..1 -> -10..10] /\ t.eq_bands \in [1..5 -> -10..10]
  BY <1>1 DEF SonyValues, BAND_COUNT
<1>3. /\ "eq_bands" \in DOMAIN s /\ "eq_clear_bass" \in DOMAIN s
      /\ "eq_preset" \in DOMAIN s /\ DOMAIN t = DOMAIN s
  BY SonyFeatures DEF CurveRead, Has
<1> DEFINE w == [s EXCEPT ![control] = value]
           bass == w.eq_clear_bass[1]
           bands == w.eq_bands
           p == EncodeEqualizer(control, value, s)
<1>4. /\ w.eq_clear_bass \in [1..1 -> Int] /\ bands \in [1..5 -> Int]
      /\ control = "eq_bands" => bands = value /\ w.eq_clear_bass = t.eq_clear_bass
      /\ control = "eq_clear_bass" => bands = t.eq_bands /\ w.eq_clear_bass = value
  <2>1. CASE control = "eq_bands"
    <3>1. bands = value /\ w.eq_clear_bass = t.eq_clear_bass
      BY <1>3, <2>1 DEF CurveRead
    <3>2. value \in Seq(Int) /\ Len(value) = 5
      BY <2>1 DEF Askable, Refused, BAND_COUNT
    <3>3. value \in [1..5 -> Int]
      <4> DEFINE five == 5
      <4>1. Len(value) = five /\ five = 5
        BY <3>2
      <4> HIDE DEF five
      <4>2. value \in [1..five -> Int]
        BY <3>2, <4>1, LenProperties
      <4> QED BY <4>1, <4>2
    <3> QED BY <1>2, <2>1, <3>1, <3>3
  <2>2. CASE control = "eq_clear_bass"
    <3>1. bands = t.eq_bands /\ w.eq_clear_bass = value
      BY <1>3, <2>2 DEF CurveRead
    <3>2. value \in [1..1 -> Int]
      BY <2>2 DEF Askable
    <3> QED BY <1>2, <2>2, <3>1, <3>2
  <2> QED BY <2>1, <2>2 DEF CurveControls
<1> DEFINE values == <<bass>> \o bands
           gains == [i \in DOMAIN values |-> Clamp(values[i], -10, 10) + 10]
           head == <<88, 0, EQ_MANUAL_PRESET, Len(values)>>
<1>5. p = head \o gains
  <2>1. w.eq_clear_bass # <<>>
    <3> DEFINE c == w.eq_clear_bass
    <3>1. c \in [1..1 -> Int]
      BY <1>4
    <3> HIDE DEF c
    <3>2. 1 \in DOMAIN c
      BY <3>1
    <3>3. 1 \notin DOMAIN <<>>
      OBVIOUS
    <3> QED BY <3>2, <3>3 DEF c
  <2> HIDE DEF bands
  <2>2. p = << 88, 0, EQ_MANUAL_PRESET,
               Len(<<IF w.eq_clear_bass = <<>> THEN 0 ELSE bass>> \o bands) >>
         \o [i \in DOMAIN (<<IF w.eq_clear_bass = <<>> THEN 0 ELSE bass>> \o bands) |->
               Clamp((<<IF w.eq_clear_bass = <<>> THEN 0 ELSE bass>> \o bands)[i], -10, 10)
                 + 10]
    BY DEF EncodeEqualizer, bands
  <2>3. (IF w.eq_clear_bass = <<>> THEN 0 ELSE bass) = bass
    BY <2>1
  <2> HIDE DEF w, bass, p
  <2> QED BY <2>2, <2>3
<1> HIDE DEF p, w
<1>6. bass \in Int /\ bands \in Seq(Int) /\ Len(bands) = 5
  <2> HIDE DEF bands
  <2> DEFINE five == 5
  <2>1. five \in Nat /\ five = 5 /\ bands \in [1..five -> Int]
    <3>1. bands \in [1..5 -> Int]
      BY <1>4
    <3> QED BY <3>1
  <2> HIDE DEF five
  <2>2. bands \in Seq(Int) /\ Len(bands) = five
    BY <2>1, RowIs
  <2> QED BY <1>4, <2>1, <2>2
<1> HIDE DEF bass, bands
<1>7. /\ values \in Seq(Int) /\ Len(values) = 6 /\ values[1] = bass
      /\ \A i \in 1..5 : values[1 + i] = bands[i]
  <2>1. <<bass>> \in Seq(Int) /\ Len(<<bass>>) = 1 /\ <<bass>>[1] = bass
    BY <1>6
  <2> DEFINE first == <<bass>>
  <2> HIDE DEF first
  <2>2. /\ first \o bands \in Seq(Int) /\ Len(first \o bands) = Len(first) + Len(bands)
        /\ \A i \in 1..(Len(first) + Len(bands)) :
             (first \o bands)[i] = IF i <= Len(first) THEN first[i] ELSE bands[i - Len(first)]
    BY <1>6, <2>1, ConcatProperties DEF first
  <2>3. Len(first) = 1 /\ Len(bands) = 5 /\ first[1] = bass
    BY <1>6, <2>1 DEF first
  <2>4. \A i \in 1..5 : 1 + i \in 1..(1 + 5) /\ ~(1 + i <= 1) /\ (1 + i) - 1 = i
    OBVIOUS
  <2>5. 1 \in 1..(1 + 5) /\ 1 <= 1 /\ 1 + 5 = 6
    OBVIOUS
  <2>6. values = first \o bands
    BY DEF first
  <2> QED BY <2>2, <2>3, <2>4, <2>5, <2>6
<1> HIDE DEF values
<1>8. /\ DOMAIN gains = 1..6 /\ \A i \in 1..6 : gains[i] = Clamp(values[i], -10, 10) + 10
      /\ gains \in Seq(Int) /\ Len(gains) = 6
  <2>1. DOMAIN gains = 1..6 /\ \A i \in 1..6 : gains[i] = Clamp(values[i], -10, 10) + 10
    BY <1>7
  <2>2. \A i \in 1..6 : Clamp(values[i], -10, 10) + 10 \in Int
    <3>1. \A i \in 1..6 : values[i] \in Int
      BY <1>7, ElementOfSeq
    <3>2. \A n \in Int : Clamp(n, -10, 10) + 10 \in Int
      BY DEF Clamp
    <3> QED BY <3>1, <3>2
  <2> DEFINE six == 6
  <2>3. six \in Nat /\ six = 6 /\ gains \in [1..six -> Int]
    BY <1>7, <2>2
  <2> HIDE DEF six, gains
  <2>4. gains \in Seq(Int) /\ Len(gains) = six
    BY <2>3, RowIs
  <2> QED BY <2>1, <2>3, <2>4
<1>9. head \in Seq(Int) /\ Len(head) = 4 /\ head[1] = 88 /\ head[3] = 160 /\ head[4] = 6
  BY <1>7 DEF EQ_MANUAL_PRESET
<1> HIDE DEF head, gains
<1>10. /\ p[1] = 88 /\ p[3] = 160 /\ p[4] = 6
       /\ \A i \in 1..6 : p[4 + i] = gains[i]
  <2>1. \A i \in 1..(Len(head) + Len(gains)) :
           p[i] = IF i <= Len(head) THEN head[i] ELSE gains[i - Len(head)]
    <3>1. \A i \in 1..(Len(head) + Len(gains)) :
           (head \o gains)[i] = IF i <= Len(head) THEN head[i] ELSE gains[i - Len(head)]
      <4>1. head \in Seq(Int) /\ gains \in Seq(Int)
        BY <1>8, <1>9
      <4> QED BY <4>1, ConcatProperties
    <3> QED BY <1>5, <3>1
  <2>2. \A i \in 1..(4 + 6) : p[i] = IF i <= 4 THEN head[i] ELSE gains[i - 4]
    BY <1>8, <1>9, <2>1
  <2>3. \A i \in 1..6 : 4 + i \in 1..(4 + 6) /\ ~(4 + i <= 4) /\ (4 + i) - 4 = i
    OBVIOUS
  <2>4. 1 \in 1..(4 + 6) /\ 3 \in 1..(4 + 6) /\ 4 \in 1..(4 + 6)
    OBVIOUS
  <2> QED BY <1>9, <2>2, <2>3, <2>4
<1>11. /\ p[5] - 10 = Clamp(bass, -10, 10)
       /\ \A i \in 1..5 : p[5 + i] - 10 = Clamp(bands[i], -10, 10)
  <2>1. p[5] = gains[1] /\ \A i \in 1..5 : p[5 + i] = gains[1 + i]
    <3>1. \A i \in 1..5 : 1 + i \in 1..6 /\ 4 + (1 + i) = 5 + i
      OBVIOUS
    <3>2. 1 \in 1..6 /\ 4 + 1 = 5
      OBVIOUS
    <3> QED BY <1>10, <3>1, <3>2
  <2>2. gains[1] = Clamp(bass, -10, 10) + 10
           /\ \A i \in 1..5 : gains[1 + i] = Clamp(bands[i], -10, 10) + 10
    BY <1>7, <1>8
  <2>3. Clamp(bass, -10, 10) \in Int /\ \A i \in 1..5 : Clamp(bands[i], -10, 10) \in Int
    <3>1. \A i \in 1..5 : bands[i] \in Int
      BY <1>6, ElementOfSeq
    <3>2. \A n \in Int : Clamp(n, -10, 10) \in Int
      BY DEF Clamp
    <3> QED BY <1>6, <3>1, <3>2
  <2> QED BY <2>1, <2>2, <2>3
<1>12. Obeyed(p, t) =
         [t EXCEPT !.eq_preset = EQ_PRESETS[p[3]], !.eq_clear_bass = <<p[5] - 10>>,
                   !.eq_bands = [i \in 1..5 |-> p[5 + i] - 10]]
  BY <1>10 DEF Obeyed
<1>13. EQ_PRESETS[p[3]] = "manual"
  BY <1>10, Tables DEF EQ_MANUAL_PRESET
<1>14. [i \in 1..5 |-> p[5 + i] - 10] = [i \in 1..5 |-> Clamp(bands[i], -10, 10)]
  BY <1>11
<1>15. CASE control = "eq_bands"
  <2>1. Meant(control, value, t) =
          [t EXCEPT !.eq_bands = [i \in DOMAIN value |-> Clamp(value[i], -10, 10)],
                    !.eq_preset = "manual"]
    BY <1>15 DEF Meant
  <2>2. bands = value /\ bass = t.eq_clear_bass[1]
    BY <1>4, <1>15 DEF bands, bass
  <2>3. DOMAIN value = 1..5
    BY <1>6, <2>2
  <2>4. <<p[5] - 10>> = t.eq_clear_bass
    <3>1. bass \in -10..10
      BY <1>2, <2>2
    <3>2. Clamp(bass, -10, 10) = bass
      BY <3>1 DEF Clamp
    <3>3. <<bass>> = t.eq_clear_bass
      BY <1>2, <2>2
    <3> QED BY <1>11, <3>2, <3>3
  <2> DEFINE curve == [i \in 1..5 |-> Clamp(bands[i], -10, 10)]
  <2>5. Meant(control, value, t) = [t EXCEPT !.eq_bands = curve, !.eq_preset = "manual"]
    BY <2>1, <2>2, <2>3
  <2>6. Obeyed(p, t) = [t EXCEPT !.eq_preset = "manual", !.eq_clear_bass = t.eq_clear_bass,
                                 !.eq_bands = curve]
    BY <1>12, <1>13, <1>14, <2>4
  <2> HIDE DEF curve
  <2> QED BY <1>3, <2>5, <2>6 DEF p
<1>16. CASE control = "eq_clear_bass"
  <2>1. Meant(control, value, t) =
          [t EXCEPT !.eq_clear_bass = <<Clamp(value[1], -10, 10)>>, !.eq_preset = "manual"]
    BY <1>16 DEF Meant
  <2>2. bands = t.eq_bands /\ bass = value[1]
    BY <1>4, <1>16 DEF bands, bass
  <2>3. [i \in 1..5 |-> Clamp(bands[i], -10, 10)] = t.eq_bands
    <3>1. \A i \in 1..5 : bands[i] \in -10..10
      BY <1>2, <2>2
    <3>2. \A i \in 1..5 : Clamp(bands[i], -10, 10) = bands[i]
      BY <3>1 DEF Clamp
    <3> QED BY <1>2, <2>2, <3>2
  <2> DEFINE new == Clamp(value[1], -10, 10)
  <2>4. Obeyed(p, t) = [t EXCEPT !.eq_preset = "manual", !.eq_clear_bass = <<new>>,
                                 !.eq_bands = t.eq_bands]
    BY <1>11, <1>12, <1>13, <1>14, <2>2, <2>3
  <2> HIDE DEF new
  <2> QED BY <1>3, <2>1, <2>4 DEF p, new
<1> QED BY <1>15, <1>16 DEF CurveControls

\* A record that provides one setting of a group provides the others too.
LEMMA ProvidesIs ==
  ASSUME NEW record \in ToSet(RECORDS), NEW control \in record.provides
  PROVE  /\ control \in NoiseControls => NoiseControls \subseteq record.provides
         /\ control \in CurveControls =>
              CurveControls \cup {"eq_preset"} \subseteq record.provides
         /\ control \in TalkControls => TalkControls \subseteq record.provides
<1>1. PICK i \in 1..11 : record = RECORDS[i]
  BY DEF ToSet, RECORDS
<1>2. record.provides \in
        {{"firmware"}, {"battery", "charging"}, {"codec"},
         {"noise", "focus_on_voice", "ambient_level"},
         {"eq_preset", "eq_bands", "eq_clear_bass"}, {"speak_to_chat"},
         {"speak_to_chat_sensitivity", "speak_to_chat_timeout"},
         {"pause_on_removal"}, {"voice_guidance"}, {"dsee"}, {"touch_sensor"}}
  <2>1. /\ RECORDS[1].provides = {"firmware"}
        /\ RECORDS[2].provides = {"battery", "charging"}
        /\ RECORDS[3].provides = {"codec"}
        /\ RECORDS[4].provides = {"noise", "focus_on_voice", "ambient_level"}
        /\ RECORDS[5].provides = {"eq_preset", "eq_bands", "eq_clear_bass"}
        /\ RECORDS[6].provides = {"speak_to_chat"}
        /\ RECORDS[7].provides = {"speak_to_chat_sensitivity", "speak_to_chat_timeout"}
        /\ RECORDS[8].provides = {"pause_on_removal"}
        /\ RECORDS[9].provides = {"voice_guidance"}
        /\ RECORDS[10].provides = {"dsee"}
        /\ RECORDS[11].provides = {"touch_sensor"}
    BY DEF RECORDS
  <2>2. \/ i = 1 \/ i = 2 \/ i = 3 \/ i = 4 \/ i = 5 \/ i = 6 \/ i = 7 \/ i = 8
        \/ i = 9 \/ i = 10 \/ i = 11
    OBVIOUS
  <2> QED BY <1>1, <2>1, <2>2
<1> QED BY <1>2 DEF NoiseControls, CurveControls, TalkControls

\* A write that the encoder takes changes its own setting and no other: the
\* bytes of the encoder, read as the headset reads them, are what was meant.
LEMMA WriteObeyed ==
  ASSUME NEW t, Has(t, "sony-mdr"), NEW s, DOMAIN s = FeaturesOf("sony-mdr"),
         NEW control \in DOMAIN Askable, NEW value \in Askable[control],
         ~Refused(control, value, s),
         control \in {"ambient_level", "focus_on_voice"} => s.noise = "ambient",
         NEW record \in ToSet(RECORDS), control \in record.provides,
         \A f \in record.provides : s[f] = t[f]
  PROVE  Obeyed(EncodeControl(control, value, s), t) = Meant(control, value, t)
<1> DEFINE p == EncodeControl(control, value, s)
<1>0. DOMAIN t = FeaturesOf("sony-mdr") /\ SonyValues(t)
  BY SonyHas DEF Has
<1>c. control \in {"noise", "ambient_level", "focus_on_voice", "eq_bands", "eq_clear_bass",
                   "eq_preset", "speak_to_chat", "speak_to_chat_sensitivity",
                   "speak_to_chat_timeout", "pause_on_removal", "voice_guidance", "dsee"}
  BY DEF Askable
<1>1. CASE control \in NoiseControls
  <2>1. p = EncodeNoise(control, value, s)
    BY <1>1 DEF EncodeControl, NoiseControls, CurveControls, TalkControls
  <2>2. NoiseRead(s, t)
    BY <1>1, ProvidesIs DEF NoiseRead
  <2>3. control # "noise" => s.noise = "ambient"
    BY <1>1 DEF NoiseControls
  <2> HIDE DEF p
  <2> QED BY <1>1, <2>1, <2>2, <2>3, NoiseObeyed DEF p
<1>2. CASE control \in CurveControls
  <2>1. p = EncodeEqualizer(control, value, s)
    BY <1>2 DEF EncodeControl, NoiseControls, CurveControls, TalkControls
  <2>2. CurveRead(s, t)
    <3>1. CurveControls \subseteq record.provides
      BY <1>2, ProvidesIs
    <3> QED BY <3>1 DEF CurveRead, CurveControls
  <2> HIDE DEF p
  <2> QED BY <1>2, <2>1, <2>2, CurveObeyed DEF p
<1>3. CASE control \in TalkControls
  <2> DEFINE w == [s EXCEPT ![control] = value]
             a == Code(SENSITIVITIES, w.speak_to_chat_sensitivity)
             b == Code(TIMEOUTS, w.speak_to_chat_timeout)
  <2>1. p = <<252, 12, a, b>>
    BY <1>3 DEF EncodeControl, EncodeSpeakToChatConfig, CurveControls, NoiseControls, TalkControls
  <2>2. TalkControls \subseteq record.provides
    BY <1>3, ProvidesIs
  <2>3. /\ s.speak_to_chat_sensitivity = t.speak_to_chat_sensitivity
        /\ s.speak_to_chat_timeout = t.speak_to_chat_timeout
    BY <2>2 DEF TalkControls
  <2>4. "speak_to_chat_sensitivity" \in DOMAIN s /\ "speak_to_chat_timeout" \in DOMAIN s
    BY SonyFeatures
  <2>5. /\ w.speak_to_chat_sensitivity \in Names(SENSITIVITIES)
        /\ w.speak_to_chat_timeout \in Names(TIMEOUTS)
    <3>1. CASE control = "speak_to_chat_sensitivity"
      BY <1>0, <2>3, <2>4, <3>1 DEF Refused, Names, SonyValues
    <3>2. CASE control = "speak_to_chat_timeout"
      BY <1>0, <2>3, <2>4, <3>2 DEF Refused, Names, SonyValues
    <3> QED BY <1>3, <3>1, <3>2 DEF TalkControls
  <2>6. /\ SENSITIVITIES[a] = w.speak_to_chat_sensitivity
        /\ TIMEOUTS[b] = w.speak_to_chat_timeout
    <3> HIDE DEF w
    <3> QED BY <2>5, CodeIs
  <2>7. Obeyed(p, t) = [t EXCEPT !.speak_to_chat_sensitivity = SENSITIVITIES[p[3]],
                                 !.speak_to_chat_timeout = TIMEOUTS[p[4]]]
    <3> HIDE DEF a, b, p
    <3> QED BY <2>1 DEF Obeyed
  <2>8. Obeyed(p, t) = [t EXCEPT !.speak_to_chat_sensitivity = w.speak_to_chat_sensitivity,
                                 !.speak_to_chat_timeout = w.speak_to_chat_timeout]
    <3> HIDE DEF a, b, p, w
    <3> QED BY <2>1, <2>6, <2>7
  <2>9. Meant(control, value, t) = [t EXCEPT ![control] = value]
    BY <1>3 DEF Meant, TalkControls
  <2>12. "speak_to_chat_sensitivity" \in DOMAIN t /\ "speak_to_chat_timeout" \in DOMAIN t
    BY <1>0, <2>4
  <2>10. CASE control = "speak_to_chat_sensitivity"
    <3>1. w.speak_to_chat_sensitivity = value
             /\ w.speak_to_chat_timeout = t.speak_to_chat_timeout
      BY <2>3, <2>4, <2>10
    <3> HIDE DEF w, p
    <3>2. Meant(control, value, t) = [t EXCEPT !.speak_to_chat_sensitivity = value]
      BY <2>9, <2>10
    <3>3. Obeyed(p, t) = [t EXCEPT !.speak_to_chat_sensitivity = value,
                                   !.speak_to_chat_timeout = t.speak_to_chat_timeout]
      BY <2>8, <3>1
    <3> QED BY <2>12, <3>2, <3>3 DEF p
  <2>11. CASE control = "speak_to_chat_timeout"
    <3>1. w.speak_to_chat_timeout = value
             /\ w.speak_to_chat_sensitivity = t.speak_to_chat_sensitivity
      BY <2>3, <2>4, <2>11
    <3> HIDE DEF w, p
    <3>2. Meant(control, value, t) = [t EXCEPT !.speak_to_chat_timeout = value]
      BY <2>9, <2>11
    <3>3. Obeyed(p, t) = [t EXCEPT !.speak_to_chat_sensitivity = t.speak_to_chat_sensitivity,
                                   !.speak_to_chat_timeout = value]
      BY <2>8, <3>1
    <3> QED BY <2>12, <3>2, <3>3 DEF p
  <2> QED BY <1>3, <2>10, <2>11 DEF TalkControls
<1> USE DEF NoiseControls, CurveControls, TalkControls
<1>4. CASE control = "eq_preset"
  <2>1. p = <<88, 0, Code(EQ_PRESETS, value), 0>>
    BY <1>4 DEF EncodeControl
  <2>2. value \in Names(EQ_PRESETS)
    BY <1>4 DEF Refused, Names
  <2>3. EQ_PRESETS[p[3]] = value
    BY <2>1, <2>2, CodeIs
  <2>4. Obeyed(p, t) = [t EXCEPT !.eq_preset = EQ_PRESETS[p[3]]]
    <3> HIDE DEF p
    <3> QED BY <2>1 DEF Obeyed
  <2>5. Meant(control, value, t) = [t EXCEPT !.eq_preset = value]
    BY <1>4 DEF Meant
  <2> QED BY <2>3, <2>4, <2>5
<1>5. CASE control = "speak_to_chat"
  <2>1. p = <<248, 12, SwitchByte(value), 1>> /\ value \in BOOLEAN
    BY <1>5 DEF EncodeControl, Askable
  <2>2. Obeyed(p, t) = [t EXCEPT !.speak_to_chat = p[3] = 0]
    BY <2>1 DEF Obeyed
  <2>3. Meant(control, value, t) = [t EXCEPT !.speak_to_chat = value]
    BY <1>5 DEF Meant
  <2> QED BY <2>1, <2>2, <2>3 DEF SwitchByte
<1>6. CASE control = "pause_on_removal"
  <2>1. p = <<248, 1, SwitchByte(value)>> /\ value \in BOOLEAN
    BY <1>6 DEF EncodeControl, Askable
  <2>2. Obeyed(p, t) = [t EXCEPT !.pause_on_removal = p[3] = 0]
    BY <2>1 DEF Obeyed
  <2>3. Meant(control, value, t) = [t EXCEPT !.pause_on_removal = value]
    BY <1>6 DEF Meant
  <2> QED BY <2>1, <2>2, <2>3 DEF SwitchByte
<1>7. CASE control = "voice_guidance"
  <2>1. p = <<72, 1, SwitchByte(value)>> /\ value \in BOOLEAN
    BY <1>7 DEF EncodeControl, Askable
  <2>2. Obeyed(p, t) = [t EXCEPT !.voice_guidance = p[3] = 0]
    BY <2>1 DEF Obeyed
  <2>3. Meant(control, value, t) = [t EXCEPT !.voice_guidance = value]
    BY <1>7 DEF Meant
  <2> QED BY <2>1, <2>2, <2>3 DEF SwitchByte
<1>8. CASE control = "dsee"
  <2>1. p = <<232, 2, Flag(value)>> /\ value \in BOOLEAN
    BY <1>8 DEF EncodeControl, Askable
  <2>2. Obeyed(p, t) = [t EXCEPT !.dsee = p[3] = 1]
    BY <2>1 DEF Obeyed
  <2>3. Meant(control, value, t) = [t EXCEPT !.dsee = value]
    BY <1>8 DEF Meant
  <2> QED BY <2>1, <2>2, <2>3 DEF Flag
<1> HIDE DEF p
<1> QED BY <1>c, <1>1, <1>2, <1>3, <1>4, <1>5, <1>6, <1>7, <1>8 DEF p

\* A value that changes stays one of its feature.
LEMMA StillHas ==
  ASSUME NEW t, Has(t, "sony-mdr"), NEW u, DOMAIN u = DOMAIN t,
         \A f \in DOMAIN t : u[f] = t[f] \/ u[f] \in Features("sony-mdr", {})[f]
  PROVE  Has(u, "sony-mdr")
<1>1. PICK known \in SUBSET ToSet(FP!Parts) :
         \A f \in DOMAIN t : t[f] \in Features("sony-mdr", known)[f]
  BY DEF Has, Within
<1>2. Features("sony-mdr", known) = Features("sony-mdr", {})
  BY DEF Features
<1>3. \A f \in DOMAIN u : u[f] \in Features("sony-mdr", known)[f]
  BY <1>1, <1>2
<1> QED BY <1>3 DEF Has, Within

\* A setting that is written leaves the headset in a state it can be in.
LEMMA MeantHas ==
  ASSUME NEW t, Has(t, "sony-mdr"), NEW s, DOMAIN s = FeaturesOf("sony-mdr"),
         NEW control \in DOMAIN Askable, NEW value \in Askable[control],
         ~Refused(control, value, s)
  PROVE  Has(Meant(control, value, t), "sony-mdr")
<1> DEFINE u == Meant(control, value, t)
           F == Features("sony-mdr", {})
<1>0. control \in {"noise", "ambient_level", "focus_on_voice", "eq_bands", "eq_clear_bass",
                   "eq_preset", "speak_to_chat", "speak_to_chat_sensitivity",
                   "speak_to_chat_timeout", "pause_on_removal", "voice_guidance", "dsee"}
  BY DEF Askable
<1>1. DOMAIN u = DOMAIN t
  <2>1. CASE control \in {"ambient_level", "eq_bands", "eq_clear_bass"}
    BY <2>1 DEF Meant
  <2>2. CASE control \notin {"ambient_level", "eq_bands", "eq_clear_bass"}
    BY <2>2 DEF Meant
  <2> QED BY <2>1, <2>2
<1>2. /\ F.noise = {"off", "anc", "ambient"} /\ F.focus_on_voice = BOOLEAN
      /\ F.ambient_level = 0..20 /\ F.eq_preset = Names(EQ_PRESETS)
      /\ F.eq_clear_bass = [1..1 -> -10..10] /\ F.eq_bands = [1..BAND_COUNT -> -10..10]
      /\ F.speak_to_chat = BOOLEAN
      /\ F.speak_to_chat_sensitivity = Names(SENSITIVITIES)
      /\ F.speak_to_chat_timeout = Names(TIMEOUTS) /\ F.pause_on_removal = BOOLEAN
      /\ F.voice_guidance = BOOLEAN /\ F.dsee = BOOLEAN
  BY DEF Features
<1> HIDE DEF F
<1>3. \A n \in Int : Clamp(n, -10, 10) \in -10..10 /\ Clamp(n, 0, 20) \in 0..20
  BY DEF Clamp
<1>4. "manual" \in Names(EQ_PRESETS)
  BY Tables DEF Names
<1>5. ASSUME NEW f \in DOMAIN t PROVE u[f] = t[f] \/ u[f] \in F[f]
  <2>1. CASE control = "ambient_level"
    <3>1. u = [t EXCEPT !.ambient_level = Clamp(value, 0, 20)] /\ value \in Int
      BY <2>1 DEF Meant, Askable
    <3> HIDE DEF u
    <3> QED BY <1>2, <1>3, <3>1
  <2>2. CASE control = "eq_bands"
    <3> DEFINE curve == [i \in DOMAIN value |-> Clamp(value[i], -10, 10)]
    <3>1. u = [t EXCEPT !.eq_bands = curve, !.eq_preset = "manual"]
      BY <2>2 DEF Meant
    <3>2. value \in Seq(Int) /\ Len(value) = 5
      BY <2>2 DEF Askable, Refused, BAND_COUNT
    <3>3. curve \in [1..5 -> -10..10]
      <4>1. DOMAIN value = 1..5 /\ \A i \in 1..5 : value[i] \in Int
        BY <3>2, ElementOfSeq, LenProperties
      <4> QED BY <1>3, <4>1
    <3> HIDE DEF u, curve
    <3> QED BY <1>2, <1>4, <3>1, <3>3 DEF BAND_COUNT
  <2>3. CASE control = "eq_clear_bass"
    <3> DEFINE new == <<Clamp(value[1], -10, 10)>>
    <3>1. u = [t EXCEPT !.eq_clear_bass = new, !.eq_preset = "manual"]
      BY <2>3 DEF Meant
    <3>2. value[1] \in Int
      BY <2>3 DEF Askable
    <3>3. new \in [1..1 -> -10..10]
      BY <1>3, <3>2
    <3> HIDE DEF u, new
    <3> QED BY <1>2, <1>4, <3>1, <3>3
  <2>4. CASE control \notin {"ambient_level", "eq_bands", "eq_clear_bass"}
    <3>1. u = [t EXCEPT ![control] = value]
      BY <2>4 DEF Meant
    <3> HIDE DEF u
    <3>2. value \in F[control]
      <4>1. CASE control = "noise"
        <5>1. "noise" \in DOMAIN s
          BY SonyFeatures
        <5> QED BY <1>2, <4>1, <5>1 DEF Refused, NoiseControls
      <4>2. CASE control \in {"focus_on_voice", "speak_to_chat", "pause_on_removal",
                              "voice_guidance", "dsee"}
        BY <1>2, <4>2 DEF Askable
      <4>3. CASE control \in {"eq_preset", "speak_to_chat_sensitivity",
                              "speak_to_chat_timeout"}
        BY <1>2, <4>3 DEF Refused, Names
      <4> QED BY <1>0, <2>4, <4>1, <4>2, <4>3
    <3> QED BY <3>1, <3>2
  <2> QED BY <2>1, <2>2, <2>3, <2>4
<1> HIDE DEF u
<1> QED BY <1>1, <1>5, StillHas DEF F, u

\* Values that a headset may have, put over its own, are values it may have.
LEMMA OverHas ==
  ASSUME NEW d \in {"sony-mdr", "fast-pair"}, NEW t, Has(t, d), NEW values, Within(values, d)
  PROVE  Has(Over(values, t), d)
<1>1. PICK k1 \in SUBSET ToSet(FP!Parts) :
        \A f \in DOMAIN values : values[f] \in Features(d, k1)[f]
  BY DEF Within
<1>2. PICK k2 \in SUBSET ToSet(FP!Parts) : \A f \in DOMAIN t : t[f] \in Features(d, k2)[f]
  BY DEF Has, Within
<1> DEFINE k == IF "battery_parts" \in DOMAIN values THEN k1 ELSE k2
<1>3. \A f \in FeaturesOf(d) : \/ f = "battery_parts"
                               \/ /\ Features(d, k1)[f] = Features(d, k)[f]
                                  /\ Features(d, k2)[f] = Features(d, k)[f]
  <2>1. CASE d = "sony-mdr"
    <3>1. \A a : Features("sony-mdr", a) = Features("sony-mdr", {})
      BY DEF Features
    <3> HIDE DEF k
    <3> QED BY <2>1, <3>1
  <2>2. CASE d = "fast-pair"
    <3>1. \A a : \A f \in FeaturesOf("fast-pair") \ {"battery_parts"} :
             Features("fast-pair", a)[f] = Features("fast-pair", {})[f]
      <4> SUFFICES ASSUME NEW a, NEW f \in FeaturesOf("fast-pair") \ {"battery_parts"}
                   PROVE  Features("fast-pair", a)[f] = Features("fast-pair", {})[f]
        OBVIOUS
      <4>1. f \in {"battery", "charging", "model_id", "noise", "noise_modes", "noise_settable"}
        BY SonyFeatures
      <4> DEFINE F(known) == Features("fast-pair", known)
      <4>2. /\ F(a).battery = F({}).battery /\ F(a).charging = F({}).charging
            /\ F(a).model_id = F({}).model_id /\ F(a).noise = F({}).noise
            /\ F(a).noise_modes = F({}).noise_modes
            /\ F(a).noise_settable = F({}).noise_settable
        BY DEF Features
      <4> HIDE DEF F
      <4>3. F(a)[f] = F({})[f]
        BY <4>1, <4>2
      <4> QED BY <4>3 DEF F
    <3> HIDE DEF k
    <3> QED BY <2>2, <3>1
  <2> QED BY <2>1, <2>2
<1>4. DOMAIN t = FeaturesOf(d) /\ DOMAIN Over(values, t) = DOMAIN t
  BY DEF Has, Over
<1>5. ASSUME NEW f \in DOMAIN t PROVE Over(values, t)[f] \in Features(d, k)[f]
  <2>1. Over(values, t)[f] = IF f \in DOMAIN values THEN values[f] ELSE t[f]
    BY DEF Over
  <2>2. CASE f \in DOMAIN values
    <3>1. f = "battery_parts" => k = k1
      BY <2>2
    <3> HIDE DEF k
    <3> QED BY <1>1, <1>3, <1>4, <2>1, <2>2, <3>1
  <2>3. CASE f \notin DOMAIN values
    <3>1. f = "battery_parts" => k = k2
      BY <2>3
    <3> HIDE DEF k
    <3> QED BY <1>2, <1>3, <1>4, <2>1, <2>3, <3>1
  <2> QED BY <2>2, <2>3
<1>6. k \in SUBSET ToSet(FP!Parts)
  OBVIOUS
<1> HIDE DEF k
<1> QED BY <1>4, <1>5, <1>6 DEF Has, Within

-----------------------------------------------------------------------------
(* The wire *)

\* The inductive invariant: what the headset has is of its features and is what
\* the writes meant, what is under way is bytes, and what is kept of them is no
\* more than may be kept.
Inductive ==
  /\ driver \in DOMAIN Truths
  /\ Has(truth, driver)
  /\ aim = truth
  /\ DOMAIN state = FeaturesOf(driver)
  /\ line \in Seq(Byte)
  /\ buffer \in Waiting(driver)
  /\ reports \in Nat

\* The invariant holds at first.
LEMMA InductiveInit == Init /\ WireAssumption => Inductive
<1> SUFFICES ASSUME Init, WireAssumption PROVE Inductive
  OBVIOUS
<1>1. driver \in DOMAIN Truths /\ Has(truth, driver) /\ aim = truth /\ reports \in Nat
      /\ DOMAIN state = FeaturesOf(driver)
  BY DEF Init, WireAssumption, Has
<1>2. line \in Seq(Byte)
  BY DEF Init
<1>3. <<>> \in Waiting(driver)
  <2>1. Len(<<>>) < 4 /\ ~Contains(<<>>, TRAILER) /\ <<>> \in Seq(Byte)
    BY DEF Contains
  <2>2. Len(<<>>) <= MaxFrame
    BY DEF WireAssumption
  <2> QED BY <2>1, <2>2 DEF Waiting, Short, Begun
<1>4. buffer = <<>>
  BY DEF Init
<1> QED BY <1>1, <1>2, <1>3, <1>4 DEF Inductive

\* A report is bytes on the line.
LEMMA ReportLine ==
  ASSUME Inductive, WireAssumption, NEW record \in Records, NEW t, Has(t, driver),
         Report(record, t)
  PROVE  line' \in Seq(Byte) /\ reports' \in Nat /\ truth' = t
<1>1. driver \in {"sony-mdr", "fast-pair"} /\ DamagedTo \subseteq Byte /\ reports \in Nat
      /\ line \in Seq(Byte)
  BY DEF Inductive, WireAssumption
<1>2. FrameOf(record, t) \in Seq(Byte) /\ FrameOf(record, t) # <<>>
  BY <1>1, FrameOfType
<1>3. PICK bytes : line' = line \o bytes
                   /\ (bytes = FrameOf(record, t) \/ bytes \in Mangled(FrameOf(record, t)))
  BY DEF Report
<1> HIDE DEF Byte
<1>4. bytes \in Seq(Byte)
  BY <1>1, <1>2, <1>3, MangledType
<1>5. line' \in Seq(Byte)
  BY <1>1, <1>3, <1>4, ConcatProperties
<1>6. reports' = reports + 1 /\ truth' = t
  BY DEF Report
<1> QED BY <1>1, <1>5, <1>6

\* Every step keeps the invariant: one case for each action.
LEMMA InductiveStep ==
  ASSUME Inductive, WireAssumption, [Next]_vars
  PROVE  Inductive'
<1> USE DEF Inductive
<1>0. /\ driver \in {"sony-mdr", "fast-pair"} /\ Garbage \subseteq Seq(Byte)
      /\ MaxFrame \in Nat /\ MaxData \in Nat
  BY DEF WireAssumption
<1>1. ASSUME NEW n \in {1, Len(line)}, Receive(n) PROVE Inductive'
  <2> DEFINE more == buffer \o SubSeq(line, 1, n)
             cut == Cut(more)
  <2>1. n \in 1..Len(line) /\ n \in Nat /\ Len(line) \in Nat /\ n + 1 \in 1..(Len(line) + 1)
    BY <1>1 DEF Receive
  <2>2. buffer \in Seq(Byte)
    BY DEF Waiting, Short, Begun
  <2>3. SubSeq(line, 1, n) \in Seq(Byte)
    BY <2>1
  <2>4. more \in Seq(Byte)
    BY <2>2, <2>3, ConcatProperties
  <2> HIDE DEF more
  <2>5. cut.rest \in Waiting(driver)
    BY <2>4, CutIs
  <2>6. PICK k \in Nat : DOMAIN cut.frames = 1..k
    BY <2>4, CutIs
  <2>7. line' \in Seq(Byte)
    BY <1>1, <2>1, FromType DEF Receive
  <2>8. buffer' = cut.rest /\ state' = FoldLeft(Absorb, state, cut.frames)
           /\ UNCHANGED <<driver, truth, reports, aim>>
    BY <1>1 DEF Receive, more
  <2> HIDE DEF cut
  <2>9. DOMAIN state' = DOMAIN state
    BY <2>6, <2>8, FoldDomain
  <2>10. Waiting(driver)' = Waiting(driver) /\ FeaturesOf(driver)' = FeaturesOf(driver)
           /\ Has(truth, driver)' = Has(truth, driver)
    BY <2>8 DEF Waiting
  <2> QED BY <2>5, <2>7, <2>8, <2>9, <2>10
<1>2. ASSUME NEW news \in News[driver], Change(news) PROVE Inductive'
  <2>1. Within(news.set, driver)
    BY DEF WireAssumption
  <2>2. Has(Over(news.set, truth), driver)
    BY <1>0, <2>1, OverHas
  <2>3. PICK record \in Records : Report(record, Over(news.set, truth))
    BY <1>2 DEF Change
  <2>4. line' \in Seq(Byte) /\ reports' \in Nat /\ truth' = Over(news.set, truth)
    BY <2>2, <2>3, ReportLine
  <2>5. aim' = Over(news.set, aim) /\ UNCHANGED <<driver, buffer, state>>
    BY <1>2 DEF Change
  <2>6. Waiting(driver)' = Waiting(driver) /\ FeaturesOf(driver)' = FeaturesOf(driver)
    BY <2>5 DEF Waiting
  <2>7. Has(truth', driver')
    BY <2>2, <2>4, <2>5
  <2> QED BY <2>4, <2>5, <2>6, <2>7 DEF Has, Within
<1>3. ASSUME NEW control \in DOMAIN Wishes, NEW value \in Wishes[control],
             Write(control, value)
      PROVE  Inductive'
  <2> DEFINE t == Meant(control, value, truth)
  <2>1. /\ driver = "sony-mdr" /\ ~Refused(control, value, state)
        /\ control \in {"ambient_level", "focus_on_voice"} => state.noise = "ambient"
    <3>1. driver = "sony-mdr" /\ ~Refused(control, value, state) /\ Available(control)
      BY <1>3 DEF Write
    <3>2. ASSUME control \in {"ambient_level", "focus_on_voice"} PROVE state.noise = "ambient"
      BY <3>1, <3>2 DEF Available, TalkControls
    <3> QED BY <3>1, <3>2
  <2>2. control \in DOMAIN Askable /\ value \in Askable[control]
    BY DEF WireAssumption
  <2>3. PICK record \in Records :
           /\ control \in record.provides
           /\ \A f \in record.provides : state[f] = truth[f]
           /\ Report(record, Obeyed(EncodeControl(control, value, state), truth))
    BY <1>3 DEF Write
  <2>4. Obeyed(EncodeControl(control, value, state), truth) = t
    <3>1. record \in ToSet(RECORDS)
      BY <2>1 DEF Records, Known
    <3> QED BY <2>1, <2>2, <2>3, <3>1, WriteObeyed
  <2>5. Has(t, driver)
    BY <2>1, <2>2, MeantHas
  <2>6. line' \in Seq(Byte) /\ reports' \in Nat /\ truth' = t
    BY <2>3, <2>4, <2>5, ReportLine
  <2>7. aim' = t /\ UNCHANGED <<driver, buffer, state>>
    BY <1>3 DEF Write
  <2>8. Waiting(driver)' = Waiting(driver) /\ FeaturesOf(driver)' = FeaturesOf(driver)
    BY <2>7 DEF Waiting
  <2> HIDE DEF t
  <2>9. Has(truth', driver')
    BY <2>5, <2>6, <2>7
  <2> QED BY <2>6, <2>7, <2>8, <2>9 DEF Has, Within
<1>4. ASSUME Noise PROVE Inductive'
  <2>1. PICK bytes \in Garbage : line' = line \o bytes
    BY <1>4 DEF Noise
  <2>2. line' \in Seq(Byte)
    BY <1>0, <2>1, ConcatProperties
  <2>3. UNCHANGED <<driver, truth, buffer, state, reports, aim>>
    BY <1>4 DEF Noise
  <2>4. Waiting(driver)' = Waiting(driver) /\ FeaturesOf(driver)' = FeaturesOf(driver)
           /\ Has(truth, driver)' = Has(truth, driver)
    BY <2>3 DEF Waiting
  <2> QED BY <2>2, <2>3, <2>4
<1>5. ASSUME UNCHANGED vars PROVE Inductive'
  <2>1. UNCHANGED <<driver, truth, line, buffer, state, reports, aim>>
    BY <1>5 DEF vars
  <2>2. Waiting(driver)' = Waiting(driver) /\ FeaturesOf(driver)' = FeaturesOf(driver)
           /\ Has(truth, driver)' = Has(truth, driver)
    BY <2>1 DEF Waiting
  <2> QED BY <2>1, <2>2
<1> QED BY <1>1, <1>2, <1>3, <1>4, <1>5 DEF Next

\* Along every execution.
THEOREM Invariance == Spec => []Inductive
<1>1. Init => Inductive
  BY InductiveInit, WireAssumption
<1>2. Inductive /\ [Next]_vars => Inductive'
  BY InductiveStep, WireAssumption
<1> QED BY <1>1, <1>2, PTL DEF Spec

\* A write changes its own setting to the value asked for and no other of the
\* settings that travel in the same message (drivers/sony_mdr.py encoders).
THEOREM WritesOnlyTheirOwn == Spec => []WritesChangeTheirOwn
<1>1. Inductive => WritesChangeTheirOwn
  BY DEF Inductive, WritesChangeTheirOwn
<1> QED BY <1>1, Invariance, PTL

\* What is kept between two reads is bounded and holds nothing that could be
\* read already, whatever arrives (framing.py split, fastpair.py frames).
THEOREM BufferIsBounded == Spec => []BufferBounded
<1>1. Inductive => BufferBounded
  <2> SUFFICES ASSUME Inductive PROVE BufferBounded
    OBVIOUS
  <2>1. CASE driver = "fast-pair"
    <3>1. buffer \in Short(MaxData)
      BY <2>1 DEF Inductive, Waiting
    <3>2. buffer \in Seq(Byte) /\ Len(buffer) \in Nat /\ MaxData \in Nat
      BY <3>1, WireAssumption DEF Short, WireAssumption
    <3>3. LengthIn(buffer, 1) = buffer[3] * 256 + buffer[4]
      BY DEF LengthIn
    <3> DEFINE l == LengthIn(buffer, 1)
    <3>4. Len(buffer) < 4 \/ (l <= MaxData /\ Len(buffer) < 4 + l)
      BY <3>1 DEF Short
    <3>5. Len(buffer) >= 4 => l \in Nat
      <4>1. \A x, y \in Byte : x * 256 + y \in Nat
        BY DEF Byte
      <4>2. Len(buffer) >= 4 => buffer[3] \in Byte /\ buffer[4] \in Byte
        BY <3>2
      <4> QED BY <3>3, <4>1, <4>2
    <3> HIDE DEF l
    <3>6. Len(buffer) < 4 + MaxData /\ (Len(buffer) >= 4 => l <= MaxData /\ Len(buffer) < 4 + l)
      BY <3>2, <3>4, <3>5
    <3>7. /\ Len(buffer) < 4 + MaxData
          /\ Len(buffer) >= 4 => /\ buffer[3] * 256 + buffer[4] <= MaxData
                                 /\ Len(buffer) < 4 + (buffer[3] * 256 + buffer[4])
      BY <3>3, <3>6 DEF l
    <3>8. Len(buffer) >= 4 =>
             4 + (buffer[3] * 256 + buffer[4]) = 4 + buffer[3] * 256 + buffer[4]
      <4>1. \A x, y \in Byte : 4 + (x * 256 + y) = 4 + x * 256 + y
        BY DEF Byte
      <4>2. Len(buffer) >= 4 => buffer[3] \in Byte /\ buffer[4] \in Byte
        BY <3>2
      <4> QED BY <4>1, <4>2
    <3> QED BY <2>1, <3>7, <3>8 DEF BufferBounded
  <2>2. CASE driver # "fast-pair"
    BY <2>2 DEF Inductive, Waiting, Begun, BufferBounded
  <2> QED BY <2>1, <2>2
<1> QED BY <1>1, Invariance, PTL

-----------------------------------------------------------------------------
(* The last frame of what is cut *)

\* A header, a trailer, and neither between them.
Whole(frame) ==
  /\ frame \in Seq(Byte) /\ Len(frame) >= 2
  /\ frame[1] = HEADER /\ frame[Len(frame)] = TRAILER
  /\ \A i \in 2..(Len(frame) - 1) : frame[i] \notin {HEADER, TRAILER}

\* An encoded message is whole: what is special in it is escaped.
LEMMA EncodedWhole ==
  ASSUME NEW m \in Messages
  PROVE  Whole(Encode(m))
<1> DEFINE e == Escape(FullOf(m))
           f == Encode(m)
<1>1. /\ FullOf(m) \in Seq(Byte) /\ f = (<<HEADER>> \o e) \o <<TRAILER>>
      /\ f \in Seq(Byte) /\ Len(f) = Len(e) + 2
  BY EncodeShape
<1>2. e \in Seq(Byte) /\ \A i \in 1..Len(e) : e[i] \notin {HEADER, TRAILER}
  BY <1>1, EscapeType, EscapeHides
<1> HIDE DEF e, f
<1>3. f[1] = HEADER /\ f[Len(f)] = TRAILER
  BY <1>1, <1>2
<1>4. ASSUME NEW i \in 2..(Len(f) - 1) PROVE f[i] \notin {HEADER, TRAILER}
  <2>1. i - 1 \in 1..Len(e) /\ f[i] = e[i - 1]
    BY <1>1, <1>2
  <2> QED BY <1>2, <2>1
<1>5. Len(f) >= 2
  BY <1>1, <1>2
<1> QED BY <1>1, <1>3, <1>4, <1>5 DEF Whole, f

\* From wherever it looks, a frame that comes last is the last one cut, and
\* nothing is left: what begins before it does not take its bytes away.
LEMMA LastIsCut ==
  ASSUME NEW bytes \in Seq(Byte), NEW maxFrame \in Nat, NEW frame,
         Whole(frame), EndsIn(bytes, frame)
  PROVE  /\ Split(bytes, maxFrame).frames # <<>>
         /\ Last(Split(bytes, maxFrame).frames) = frame
         /\ Split(bytes, maxFrame).rest = <<>>
<1> DEFINE n == Len(bytes)
           k == n - Len(frame)
           D == 1..(k + 1)
<1>1. n \in Nat /\ Len(frame) \in Nat /\ k \in Nat /\ k + 2 <= n /\ 1 \in D /\ k = n - Len(frame)
  BY DEF Whole, EndsIn
<1>2. bytes[k + 1] = HEADER /\ bytes[n] = TRAILER
  <2>1. 1 \in 1..Len(frame) /\ Len(frame) \in 1..Len(frame) /\ k + Len(frame) = n
    BY <1>1
  <2>2. bytes[k + 1] = frame[1] /\ bytes[k + Len(frame)] = frame[Len(frame)]
    BY <2>1 DEF EndsIn
  <2> QED BY <2>1, <2>2 DEF Whole
<1>3. \A i \in (k + 2)..(n - 1) : bytes[i] \notin {HEADER, TRAILER}
  <2>1. ASSUME NEW i \in (k + 2)..(n - 1) PROVE bytes[i] \notin {HEADER, TRAILER}
    <3> DEFINE j == i - k
    <3>1. j \in 2..(Len(frame) - 1) /\ j \in 1..Len(frame) /\ k + j = i
      BY <1>1
    <3>2. bytes[k + j] = frame[j]
      BY <3>1 DEF EndsIn
    <3> QED BY <3>1, <3>2 DEF Whole
  <2> QED BY <2>1
<1>4. PICK f \in [1..(n + 1) -> Cuts(maxFrame)] :
        Cutting(f, bytes, maxFrame) /\ Split(bytes, maxFrame) = f[1]
  BY SplitRun
<1> DEFINE stop == {at \in D : EndAt(bytes, at) = n}
           nxt == [at \in D |-> IF at \in stop THEN at ELSE EndAt(bytes, at) + 1]
           rank == [at \in D |-> k + 1 - at]
           T == {at \in D : /\ f[at].frames # <<>> /\ Last(f[at].frames) = frame
                            /\ f[at].rest = <<>>}
<1> HIDE DEF n, k
<1>6. n = Len(bytes)
  BY DEF n
<1>5. ASSUME NEW at \in D
      PROVE  /\ FirstAt(bytes, at) \in at..(k + 1) /\ ~NoFrame(bytes, at)
             /\ bytes[FirstAt(bytes, at)] = HEADER
             /\ EndAt(bytes, at) \in (at + 1)..n
             /\ EndAt(bytes, at) # n => EndAt(bytes, at) <= k
             /\ FirstAt(bytes, at) < EndAt(bytes, at)
  <2> DEFINE first == FirstAt(bytes, at)
             end == EndAt(bytes, at)
  <2>1. at \in Nat \ {0} /\ k + 1 \in at..Len(bytes)
    BY <1>1, <1>6
  <2>2. first \in at..Len(bytes) /\ bytes[first] = HEADER
          /\ \A i \in at..(first - 1) : bytes[i] # HEADER
    BY <1>2, <2>1, NextByteIs DEF FirstAt
  <2> HIDE DEF first
  <2>3. first \in at..(k + 1)
    <3>1. ~(k + 1 \in at..(first - 1))
      BY <1>2, <2>2
    <3> QED BY <1>1, <2>1, <2>2, <3>1
  <2>4. first + 1 \in Nat \ {0} /\ n \in (first + 1)..Len(bytes)
    BY <1>1, <1>6, <2>1, <2>3
  <2>5. NextByte(bytes, first + 1, TRAILER) \in (first + 1)..Len(bytes)
          /\ bytes[NextByte(bytes, first + 1, TRAILER)] = TRAILER
    BY <1>2, <2>4, NextByteIs
  <2>6. end = NextByte(bytes, first + 1, TRAILER)
    BY DEF EndAt, first
  <2> HIDE DEF end
  <2>7. end \in (first + 1)..n /\ bytes[end] = TRAILER
    BY <1>6, <2>5, <2>6
  <2>8. end # n => end <= k
    <3>1. ~(end \in (k + 2)..(n - 1)) /\ end # k + 1
      BY <1>2, <1>3, <2>7 DEF HEADER, TRAILER
    <3> QED BY <1>1, <2>1, <2>3, <2>7, <3>1
  <2>9. first # 0 /\ end # 0 /\ end \in (at + 1)..n /\ first < end
    BY <1>1, <2>1, <2>3, <2>7
  <2> QED BY <2>2, <2>3, <2>8, <2>9 DEF NoFrame, first, end
<1>7. Falls(D, k + 1, rank, stop, nxt)
  <2>1. \A at \in D : /\ at \in Nat /\ k + 1 - at \in 0..(k + 1)
                      /\ EndAt(bytes, at) # n => EndAt(bytes, at) + 1 \in (at + 1)..(k + 1)
    BY <1>1, <1>5
  <2>2. \A at \in D : at \notin stop => nxt[at] \in (at + 1)..(k + 1) /\ nxt[at] \in D
    BY <1>1, <2>1
  <2>3. \A at \in D : nxt[at] \in D
    BY <2>2
  <2>4. \A at \in D \ stop : rank[nxt[at]] < rank[at]
    BY <1>1, <2>1, <2>2
  <2> QED BY <1>1, <2>1, <2>3, <2>4 DEF Falls
<1>8. \A at \in D : at \in 1..(n + 1) /\ at + 1 \in 1..(n + 1)
  BY <1>1
<1>9. ASSUME NEW at \in D, at \in stop PROVE at \in T
  <2> DEFINE first == FirstAt(bytes, at)
  <2>1. EndAt(bytes, at) = n /\ first \in 1..Len(bytes) /\ n \in 1..Len(bytes) /\ first < n
          /\ bytes[first] = HEADER /\ first <= k + 1
    BY <1>1, <1>5, <1>6, <1>9
  <2> HIDE DEF first
  <2> DEFINE s == Start(bytes, first, n)
  <2>2. s \in first..(n - 1) /\ bytes[s] = HEADER /\ \A i \in (s + 1)..(n - 1) : bytes[i] # HEADER
    BY <2>1, StartIs
  <2> HIDE DEF s
  <2>3. s = k + 1
    <3>1. ~(s \in (k + 2)..(n - 1)) /\ ~(k + 1 \in (s + 1)..(n - 1))
      BY <1>2, <1>3, <2>2
    <3> QED BY <1>1, <2>1, <2>2, <3>1
  <2>4. FrameAt(bytes, at) = SubSeq(bytes, k + 1, n)
    BY <2>1, <2>3 DEF FrameAt, first, s
  <2>5. SubSeq(bytes, k + 1, n) = frame
    <3>1. k + 1 \in 1..(n + 1) /\ n - (k + 1) + 1 = Len(frame) /\ n \in 0..n
      BY <1>1
    <3>2. SubSeq(bytes, k + 1, n) \in Seq(Byte) /\ Len(SubSeq(bytes, k + 1, n)) = Len(frame)
            /\ \A i \in 1..Len(frame) : SubSeq(bytes, k + 1, n)[i] = bytes[k + i]
      BY <1>1, <1>6, <3>1
    <3>3. \A i \in 1..Len(frame) : bytes[k + i] = frame[i]
      BY <1>1, <1>6 DEF EndsIn
    <3>4. frame \in Seq(Byte)
      BY DEF Whole
    <3> DEFINE last == SubSeq(bytes, k + 1, n)
    <3>5. last \in Seq(Byte) /\ Len(last) = Len(frame)
            /\ \A i \in 1..Len(frame) : last[i] = frame[i]
      BY <3>2, <3>3
    <3> HIDE DEF last
    <3>6. last = frame
      BY <3>4, <3>5, SeqEqual
    <3> QED BY <3>6 DEF last
  <2>6. FirstAt(bytes, n + 1) = 0
    BY <1>1, <1>6, NextByteIs DEF FirstAt
  <2>7. f[n + 1] = [frames |-> <<>>, rest |-> <<>>]
    <3>1. n + 1 \in 1..(Len(bytes) + 1)
      BY <1>1, <1>6
    <3> QED BY <1>4, <2>6, <3>1 DEF Cutting, NoFrame, Kept
  <2>8. f[at] = [frames |-> <<frame>> \o f[n + 1].frames, rest |-> f[n + 1].rest]
    <3>1. at \in 1..(Len(bytes) + 1) /\ ~NoFrame(bytes, at)
      BY <1>5, <1>6, <1>8
    <3> QED BY <1>4, <2>1, <2>4, <2>5, <3>1 DEF Cutting
  <2>9. <<frame>> \o <<>> = <<frame>> /\ <<frame>> # <<>> /\ Last(<<frame>>) = frame
    BY DEF Last
  <2>10. f[at] = [frames |-> <<frame>>, rest |-> <<>>]
    BY <2>7, <2>8, <2>9
  <2>11. f[at].frames # <<>> /\ Last(f[at].frames) = frame /\ f[at].rest = <<>>
    BY <2>9, <2>10
  <2> QED BY <2>11
<1>10. ASSUME NEW at \in D, at \notin stop, nxt[at] \in T PROVE at \in T
  <2> DEFINE q == EndAt(bytes, at) + 1
  <2>1. nxt[at] = q
    BY <1>10
  <2> HIDE DEF q
  <2>2. q \in T /\ q \in 1..(n + 1)
    BY <1>8, <1>10, <2>1
  <2>3. at \in 1..(Len(bytes) + 1) /\ ~NoFrame(bytes, at)
    BY <1>5, <1>6, <1>8
  <2>4. f[at] = [frames |-> <<FrameAt(bytes, at)>> \o f[q].frames, rest |-> f[q].rest]
    BY <1>4, <2>3 DEF Cutting, q
  <2>5. FrameAt(bytes, at) \in Seq(Byte)
    BY <2>3, FrameFound
  <2>6. f[q].frames \in Seq(Seq(Byte))
    BY <2>2 DEF Cuts
  <2>7. ASSUME NEW x \in Seq(Byte), NEW ss \in Seq(Seq(Byte)), ss # <<>>
        PROVE  <<x>> \o ss # <<>> /\ Last(<<x>> \o ss) = Last(ss)
    BY <2>7 DEF Last
  <2>8. f[q].frames # <<>> /\ Last(f[q].frames) = frame /\ f[q].rest = <<>>
    BY <2>2
  <2> DEFINE cut == <<FrameAt(bytes, at)>> \o f[q].frames
  <2>9. cut # <<>> /\ Last(cut) = frame
    BY <2>5, <2>6, <2>7, <2>8
  <2>10. f[at] = [frames |-> cut, rest |-> <<>>]
    BY <2>4, <2>8
  <2> HIDE DEF cut
  <2>11. f[at].frames # <<>> /\ Last(f[at].frames) = frame /\ f[at].rest = <<>>
    BY <2>9, <2>10
  <2> QED BY <2>11
<1>11. Carries(T, D, stop, nxt)
  <2>1. \A at \in D : at \in stop => at \in T
    BY <1>9
  <2>2. \A at \in D : at \notin stop /\ nxt[at] \in T => at \in T
    BY <1>10
  <2> HIDE DEF stop, nxt, T, D
  <2> QED BY <2>1, <2>2 DEF Carries
<1>12. D \subseteq T
  <2> HIDE DEF stop, nxt, T, D, rank
  <2> QED BY <1>7, <1>11, ByRank
<1> QED BY <1>1, <1>4, <1>12

\* What a frame begins with.
Begins(frame) == {SubSeq(frame, 1, i) : i \in 1..(Len(frame) - 1)}

\* The beginning of a whole frame: a header, and nothing special behind it.
LEMMA BeginsIs ==
  ASSUME NEW frame, Whole(frame), NEW begun \in Begins(frame)
  PROVE  /\ begun \in Seq(Byte) /\ Len(begun) \in 1..(Len(frame) - 1)
         /\ begun[1] = HEADER
         /\ \A i \in 2..Len(begun) : begun[i] \notin {HEADER, TRAILER}
         /\ \A i \in 1..Len(begun) : begun[i] = frame[i]
<1>1. PICK n \in 1..(Len(frame) - 1) : begun = SubSeq(frame, 1, n)
  BY DEF Begins
<1>2. frame \in Seq(Byte) /\ Len(frame) \in Nat
  BY DEF Whole
<1>3. begun \in Seq(Byte) /\ Len(begun) = n /\ \A i \in 1..n : begun[i] = frame[i]
  BY <1>1, <1>2
<1>4. 1 \in 1..n /\ \A i \in 2..n : i \in 1..n /\ i \in 2..(Len(frame) - 1)
  BY <1>2
<1> QED BY <1>2, <1>3, <1>4 DEF Whole

\* The end of what comes last is what it ends in.
LEMMA EndOfEnd ==
  ASSUME NEW S, NEW bytes \in Seq(S), NEW end \in Seq(S), EndsIn(bytes, end),
         NEW i \in 1..(Len(bytes) + 1), i <= Len(bytes) - Len(end) + 1
  PROVE  EndsIn(From(bytes, i), end)
<1> DEFINE z == From(bytes, i)
           n == Len(bytes)
           k == Len(end)
<1>1. z \in Seq(S) /\ Len(z) = n - i + 1 /\ \A j \in 1..(n - i + 1) : z[j] = bytes[i + j - 1]
  BY FromType
<1>2. n \in Nat /\ k \in Nat /\ k <= n /\ \A j \in 1..k : bytes[n - k + j] = end[j]
  BY DEF EndsIn
<1> HIDE DEF z, n, k
<1>3. i \in Nat /\ i <= n - k + 1
  BY DEF n, k
<1>4. k <= Len(z)
  BY <1>1, <1>2, <1>3
<1>5. ASSUME NEW j \in 1..k PROVE z[Len(z) - k + j] = end[j]
  <2> DEFINE p == (n - i + 1) - k + j
  <2>1. p \in 1..(n - i + 1) /\ i + p - 1 = n - k + j /\ p = Len(z) - k + j
    BY <1>1, <1>2, <1>3
  <2> HIDE DEF p
  <2>2. z[p] = bytes[n - k + j]
    BY <1>1, <2>1
  <2> QED BY <1>2, <2>1, <2>2
<1> QED BY <1>4, <1>5 DEF EndsIn, z, k

\* What is kept of a frame that has begun ends in what has come of it, unless
\* that alone is too long.
LEMMA UnfinishedEnds ==
  ASSUME NEW rest \in Seq(Byte), NEW maxFrame \in Nat, NEW frame, Whole(frame),
         NEW begun \in Begins(frame), EndsIn(rest, begun), Len(begun) <= maxFrame
  PROVE  EndsIn(Unfinished(rest, maxFrame), begun)
<1>1. begun \in Seq(Byte) /\ Len(begun) \in Nat \ {0} /\ begun[1] = HEADER /\ 1 \in 1..Len(begun)
  BY BeginsIs
<1>2. CASE Len(rest) <= maxFrame
  BY <1>2 DEF Unfinished
<1>3. CASE Len(rest) > maxFrame
  <2> DEFINE at == (Len(rest) - maxFrame) + 1
             window == From(rest, at)
             resync == NextByte(window, 1, HEADER)
             k == (maxFrame - Len(begun)) + 1
  <2>1. at \in 1..(Len(rest) + 1) /\ Len(rest) \in Nat /\ Len(rest) - at + 1 = maxFrame
          /\ at <= Len(rest) - Len(begun) + 1
    BY <1>1, <1>3
  <2>2. Unfinished(rest, maxFrame) = IF resync > 0 THEN From(window, resync) ELSE <<>>
    <3>1. Len(rest) - maxFrame + 1 = at
      BY <2>1
    <3> QED BY <1>3, <3>1 DEF Unfinished
  <2>3. window \in Seq(Byte) /\ Len(window) = maxFrame /\ EndsIn(window, begun)
    <3> HIDE DEF at
    <3> QED BY <1>1, <2>1, FromType, EndOfEnd
  <2> HIDE DEF window
  <2>4. k \in 1..maxFrame /\ maxFrame - Len(begun) + 1 = k
    BY <1>1
  <2>5. window[k] = HEADER
    BY <1>1, <2>3, <2>4 DEF EndsIn
  <2> HIDE DEF k
  <2>6. resync \in {0} \cup 1..Len(window)
         /\ (resync = 0 => \A i \in 1..Len(window) : window[i] # HEADER)
         /\ (resync # 0 => \A i \in 1..(resync - 1) : window[i] # HEADER)
    BY <2>3, NextByteIs
  <2> HIDE DEF resync
  <2>7. resync \in 1..k
    <3>1. k \in 1..Len(window) /\ k \in Nat
      BY <2>3, <2>4
    <3>2. resync # 0 /\ ~(k \in 1..(resync - 1))
      BY <2>5, <2>6, <3>1
    <3> QED BY <2>6, <3>1, <3>2
  <2>8. resync > 0 /\ resync \in 1..(Len(window) + 1) /\ resync <= Len(window) - Len(begun) + 1
    BY <2>3, <2>4, <2>7
  <2>9. EndsIn(From(window, resync), begun)
    BY <1>1, <2>3, <2>8, EndOfEnd
  <2> QED BY <2>2, <2>8, <2>9
<1> QED BY <1>2, <1>3

\* Bytes that end in the beginning of a frame leave it to be continued.
LEMMA BegunIsLeft ==
  ASSUME NEW bytes \in Seq(Byte), NEW maxFrame \in Nat, NEW frame, Whole(frame),
         NEW begun \in Begins(frame), EndsIn(bytes, begun), Len(begun) <= maxFrame
  PROVE  EndsIn(Split(bytes, maxFrame).rest, begun)
<1> DEFINE n == Len(bytes)
           k == n - Len(begun)
           D == 1..(k + 1)
<1>1. /\ begun \in Seq(Byte) /\ Len(begun) \in Nat \ {0} /\ begun[1] = HEADER
      /\ \A i \in 2..Len(begun) : begun[i] \notin {HEADER, TRAILER}
  BY BeginsIs
<1>2. n \in Nat /\ k \in Nat /\ k + 1 <= n /\ 1 \in D /\ k = n - Len(begun)
  BY <1>1 DEF EndsIn
<1>3. bytes[k + 1] = HEADER /\ \A i \in (k + 2)..n : bytes[i] # TRAILER
  <2>1. ASSUME NEW i \in (k + 1)..n PROVE i - k \in 1..Len(begun) /\ bytes[i] = begun[i - k]
    <3>1. i - k \in 1..Len(begun) /\ k + (i - k) = i
      BY <1>1, <1>2
    <3> QED BY <3>1 DEF EndsIn
  <2>2. ASSUME NEW i \in (k + 2)..n PROVE bytes[i] # TRAILER
    <3>1. i \in (k + 1)..n /\ i - k \in 2..Len(begun)
      BY <1>1, <1>2
    <3> QED BY <1>1, <2>1, <3>1
  <2>3. k + 1 \in (k + 1)..n /\ (k + 1) - k = 1
    BY <1>2
  <2>4. bytes[k + 1] = begun[1]
    BY <2>1, <2>3
  <2> QED BY <1>1, <2>2, <2>4
<1>4. PICK f \in [1..(n + 1) -> Cuts(maxFrame)] :
        Cutting(f, bytes, maxFrame) /\ Split(bytes, maxFrame) = f[1]
  BY SplitRun
<1> DEFINE stop == {at \in D : EndAt(bytes, at) = 0}
           nxt == [at \in D |-> IF at \in stop THEN at ELSE EndAt(bytes, at) + 1]
           rank == [at \in D |-> k + 1 - at]
           T == {at \in D : EndsIn(f[at].rest, begun)}
<1> HIDE DEF n, k
<1>5. n = Len(bytes)
  BY DEF n
<1>6. ASSUME NEW at \in D
      PROVE  /\ FirstAt(bytes, at) \in at..(k + 1) /\ FirstAt(bytes, at) # 0
             /\ EndAt(bytes, at) \in {0} \cup (at + 1)..k
  <2> DEFINE first == FirstAt(bytes, at)
             end == EndAt(bytes, at)
  <2>1. at \in Nat \ {0} /\ k + 1 \in at..Len(bytes)
    BY <1>2, <1>5
  <2>2. first \in at..Len(bytes) /\ \A i \in at..(first - 1) : bytes[i] # HEADER
    BY <1>3, <2>1, NextByteIs DEF FirstAt
  <2> HIDE DEF first
  <2>3. first \in at..(k + 1)
    <3>1. ~(k + 1 \in at..(first - 1))
      BY <1>3, <2>2
    <3> QED BY <1>2, <2>1, <2>2, <3>1
  <2>4. first + 1 \in Nat \ {0}
    BY <2>1, <2>3
  <2>5. end = NextByte(bytes, first + 1, TRAILER)
    BY DEF EndAt, first
  <2> HIDE DEF end
  <2>6. end \in {0} \cup (first + 1)..n /\ (end # 0 => bytes[end] = TRAILER)
    BY <1>5, <2>4, <2>5, NextByteIs
  <2>7. end # 0 => end \in (at + 1)..k
    <3> SUFFICES ASSUME end # 0 PROVE end \in (at + 1)..k
      OBVIOUS
    <3>1. bytes[end] = TRAILER /\ end \in (first + 1)..n
      BY <2>6
    <3>2. ~(end \in (k + 2)..n)
      BY <1>3, <3>1
    <3>3. end # k + 1
      BY <1>3, <3>1 DEF HEADER, TRAILER
    <3> QED BY <1>2, <2>1, <2>3, <3>1, <3>2, <3>3
  <2>8. first # 0
    BY <2>1, <2>3
  <2> QED BY <2>3, <2>6, <2>7, <2>8 DEF first, end
<1>7. Falls(D, k + 1, rank, stop, nxt)
  <2>1. \A at \in D : /\ at \in Nat /\ k + 1 - at \in 0..(k + 1)
                      /\ EndAt(bytes, at) # 0 => EndAt(bytes, at) + 1 \in (at + 1)..(k + 1)
    BY <1>2, <1>6
  <2>2. \A at \in D : at \notin stop => nxt[at] \in (at + 1)..(k + 1) /\ nxt[at] \in D
    BY <1>2, <2>1
  <2>3. \A at \in D : nxt[at] \in D
    BY <2>2
  <2>4. \A at \in D \ stop : rank[nxt[at]] < rank[at]
    BY <1>2, <2>1, <2>2
  <2> QED BY <1>2, <2>1, <2>3, <2>4 DEF Falls
<1>8. \A at \in D : at \in 1..(Len(bytes) + 1)
  BY <1>2, <1>5
<1>9. ASSUME NEW at \in D, at \in stop PROVE at \in T
  <2> DEFINE first == FirstAt(bytes, at)
  <2>1. first \in 1..(Len(bytes) + 1) /\ first <= Len(bytes) - Len(begun) + 1 /\ first # 0
    BY <1>2, <1>5, <1>6
  <2>2. f[at].rest = Unfinished(From(bytes, first), maxFrame)
    <3>1. /\ NoFrame(bytes, at)
          /\ Kept(bytes, at, maxFrame) = Unfinished(From(bytes, first), maxFrame)
      BY <1>9, <2>1 DEF NoFrame, Kept
    <3>2. f[at] = [frames |-> <<>>, rest |-> Kept(bytes, at, maxFrame)]
      BY <1>4, <1>8, <3>1 DEF Cutting
    <3> QED BY <3>1, <3>2
  <2> HIDE DEF first
  <2>3. From(bytes, first) \in Seq(Byte) /\ EndsIn(From(bytes, first), begun)
    BY <1>1, <2>1, FromType, EndOfEnd
  <2>4. EndsIn(Unfinished(From(bytes, first), maxFrame), begun)
    BY <2>3, UnfinishedEnds
  <2> QED BY <2>2, <2>4
<1>10. ASSUME NEW at \in D, at \notin stop, nxt[at] \in T PROVE at \in T
  <2>1. ~NoFrame(bytes, at) /\ nxt[at] = EndAt(bytes, at) + 1
    BY <1>6, <1>10 DEF NoFrame
  <2>2. f[at].rest = f[EndAt(bytes, at) + 1].rest
    <3>1. f[at] = [frames |-> <<FrameAt(bytes, at)>> \o f[EndAt(bytes, at) + 1].frames,
                   rest |-> f[EndAt(bytes, at) + 1].rest]
      BY <1>4, <1>8, <2>1 DEF Cutting
    <3> QED BY <3>1
  <2> QED BY <1>10, <2>1, <2>2
<1>11. Carries(T, D, stop, nxt)
  <2>1. \A at \in D : at \in stop => at \in T
    BY <1>9
  <2>2. \A at \in D : at \notin stop /\ nxt[at] \in T => at \in T
    BY <1>10
  <2> HIDE DEF stop, nxt, T, D
  <2> QED BY <2>1, <2>2 DEF Carries
<1>12. D \subseteq T
  <2> HIDE DEF stop, nxt, T, D, rank
  <2> QED BY <1>7, <1>11, ByRank
<1> QED BY <1>2, <1>4, <1>12

-----------------------------------------------------------------------------
(* What a headset says and what is read of it *)

\* The records, one by one.
LEMMA RecordsAre ==
  /\ RECORDS[1] = [id |-> "firmware", request |-> <<4, 2>>, type |-> 12,
                   provides |-> {"firmware"}]
  /\ RECORDS[2] = [id |-> "battery", request |-> <<34, 0>>, type |-> 12,
                   provides |-> {"battery", "charging"}]
  /\ RECORDS[3] = [id |-> "codec", request |-> <<18, 2>>, type |-> 12,
                   provides |-> {"codec"}]
  /\ RECORDS[4] = [id |-> "noise", request |-> <<102, 23>>, type |-> 12,
                   provides |-> {"noise", "focus_on_voice", "ambient_level"}]
  /\ RECORDS[5] = [id |-> "equalizer", request |-> <<86, 0>>, type |-> 12,
                   provides |-> {"eq_preset", "eq_bands", "eq_clear_bass"}]
  /\ RECORDS[6] = [id |-> "speak_to_chat", request |-> <<246, 12>>, type |-> 12,
                   provides |-> {"speak_to_chat"}]
  /\ RECORDS[7] = [id |-> "speak_to_chat_config", request |-> <<250, 12>>, type |-> 12,
                   provides |-> {"speak_to_chat_sensitivity", "speak_to_chat_timeout"}]
  /\ RECORDS[8] = [id |-> "pause_on_removal", request |-> <<246, 1>>, type |-> 12,
                   provides |-> {"pause_on_removal"}]
  /\ RECORDS[9] = [id |-> "voice_guidance", request |-> <<70, 1>>, type |-> 14,
                   provides |-> {"voice_guidance"}]
  /\ RECORDS[10] = [id |-> "dsee", request |-> <<230, 2>>, type |-> 12,
                    provides |-> {"dsee"}]
  /\ RECORDS[11] = [id |-> "touch_sensor", request |-> <<214, 210>>, type |-> 12,
                    provides |-> {"touch_sensor"}]
<1>1. RECORDS[1] = [id |-> "firmware", request |-> <<4, 2>>, type |-> 12,
                    provides |-> {"firmware"}]
  BY DEF RECORDS, COMMAND_1, COMMAND_2
<1>2. RECORDS[2] = [id |-> "battery", request |-> <<34, 0>>, type |-> 12,
                    provides |-> {"battery", "charging"}]
  BY DEF RECORDS, COMMAND_1, COMMAND_2
<1>3. RECORDS[3] = [id |-> "codec", request |-> <<18, 2>>, type |-> 12,
                    provides |-> {"codec"}]
  BY DEF RECORDS, COMMAND_1, COMMAND_2
<1>4. RECORDS[4] = [id |-> "noise", request |-> <<102, 23>>, type |-> 12,
                    provides |-> {"noise", "focus_on_voice", "ambient_level"}]
  BY DEF RECORDS, COMMAND_1, COMMAND_2
<1>5. RECORDS[5] = [id |-> "equalizer", request |-> <<86, 0>>, type |-> 12,
                    provides |-> {"eq_preset", "eq_bands", "eq_clear_bass"}]
  BY DEF RECORDS, COMMAND_1, COMMAND_2
<1>6. RECORDS[6] = [id |-> "speak_to_chat", request |-> <<246, 12>>, type |-> 12,
                    provides |-> {"speak_to_chat"}]
  BY DEF RECORDS, COMMAND_1, COMMAND_2
<1>7. RECORDS[7] = [id |-> "speak_to_chat_config", request |-> <<250, 12>>, type |-> 12,
                    provides |-> {"speak_to_chat_sensitivity", "speak_to_chat_timeout"}]
  BY DEF RECORDS, COMMAND_1, COMMAND_2
<1>8. RECORDS[8] = [id |-> "pause_on_removal", request |-> <<246, 1>>, type |-> 12,
                    provides |-> {"pause_on_removal"}]
  BY DEF RECORDS, COMMAND_1, COMMAND_2
<1>9. RECORDS[9] = [id |-> "voice_guidance", request |-> <<70, 1>>, type |-> 14,
                    provides |-> {"voice_guidance"}]
  BY DEF RECORDS, COMMAND_1, COMMAND_2
<1>10. RECORDS[10] = [id |-> "dsee", request |-> <<230, 2>>, type |-> 12,
                    provides |-> {"dsee"}]
  BY DEF RECORDS, COMMAND_1, COMMAND_2
<1>11. RECORDS[11] = [id |-> "touch_sensor", request |-> <<214, 210>>, type |-> 12,
                    provides |-> {"touch_sensor"}]
  BY DEF RECORDS, COMMAND_1, COMMAND_2
<1> QED BY <1>1, <1>2, <1>3, <1>4, <1>5, <1>6, <1>7, <1>8, <1>9, <1>10, <1>11

\* A message that belongs to one record belongs to no other.
LEMMA OneMatches ==
  ASSUME NEW i \in 1..11, NEW j \in 1..11, i # j, NEW message, Matches(RECORDS[i], message)
  PROVE  ~Matches(RECORDS[j], message)
<1> DEFINE base == <<4, 34, 18, 102, 86, 246, 250, 246, 70, 230, 214>>
           sub == <<2, 0, 2, 23, 0, 12, 12, 1, 1, 2, 210>>
<1>1. \A k \in 1..11 : RECORDS[k].request[1] = base[k] /\ RECORDS[k].request[2] = sub[k]
  BY RecordsAre
<1>2. base[i] \notin {base[j] - 2, base[j], base[j] + 2} \/ sub[i] # sub[j]
  OBVIOUS
<1>3. \A k \in 1..11 : base[k] \in 0..250
  OBVIOUS
<1>4. \A k \in 1..11 : Reply(RECORDS[k]) = base[k] + 1 /\ Notification(RECORDS[k]) = base[k] + 3
  <2> HIDE DEF base, sub
  <2>1. \A n \in 0..250 : (n + 1) % 256 = n + 1 /\ (n + 3) % 256 = n + 3
    OBVIOUS
  <2>2. ASSUME NEW k \in 1..11
        PROVE  Reply(RECORDS[k]) = base[k] + 1 /\ Notification(RECORDS[k]) = base[k] + 3
    <3>1. RECORDS[k].request[1] = base[k] /\ base[k] \in 0..250
      BY <1>1, <1>3
    <3>2. /\ Reply(RECORDS[k]) = (base[k] + 1) % 256
          /\ Notification(RECORDS[k]) = (base[k] + 3) % 256
      BY <3>1 DEF Reply, Notification
    <3> QED BY <2>1, <3>1, <3>2
  <2> QED BY <2>2
<1> HIDE DEF base, sub
<1> SUFFICES ASSUME Matches(RECORDS[j], message) PROVE FALSE
  OBVIOUS
<1>5. /\ message.payload[1] \in {base[i] + 1, base[i] + 3}
      /\ message.payload[1] \in {base[j] + 1, base[j] + 3}
      /\ message.payload[2] = sub[i] /\ message.payload[2] = sub[j]
  BY <1>1, <1>4 DEF Matches
<1> DEFINE x == message.payload[1]
           m == base[i]
           n == base[j]
<1>6. sub[i] = sub[j] /\ m \notin {n - 2, n, n + 2} /\ m \in 0..250 /\ n \in 0..250
  BY <1>2, <1>3, <1>5
<1>7. x \in {m + 1, m + 3} /\ x \in {n + 1, n + 3}
  BY <1>5
<1> HIDE DEF x, m, n
<1> QED BY <1>6, <1>7

\* The settings of a Sony headset that are on or off.
LEMMA SonySwitches ==
  ASSUME NEW t, Has(t, "sony-mdr")
  PROVE  /\ t.charging \in BOOLEAN /\ t.speak_to_chat \in BOOLEAN
         /\ t.pause_on_removal \in BOOLEAN /\ t.voice_guidance \in BOOLEAN
         /\ t.dsee \in BOOLEAN /\ t.touch_sensor \in BOOLEAN
<1>1. PICK known : \A f \in FeaturesOf("sony-mdr") : t[f] \in Features("sony-mdr", known)[f]
  BY DEF Has, Within
<1> DEFINE F == Features("sony-mdr", known)
<1>2. /\ F.charging = BOOLEAN /\ F.speak_to_chat = BOOLEAN /\ F.pause_on_removal = BOOLEAN
      /\ F.voice_guidance = BOOLEAN /\ F.dsee = BOOLEAN /\ F.touch_sensor = BOOLEAN
  BY DEF Features
<1> HIDE DEF F
<1>3. \A f \in FeaturesOf("sony-mdr") : t[f] \in F[f]
  BY <1>1 DEF F
<1>4. /\ t.charging \in F.charging /\ t.speak_to_chat \in F.speak_to_chat
      /\ t.pause_on_removal \in F.pause_on_removal
      /\ t.voice_guidance \in F.voice_guidance /\ t.dsee \in F.dsee
      /\ t.touch_sensor \in F.touch_sensor
  BY <1>3, SonyFeatures
<1> QED BY <1>2, <1>4

\* r says of the record's features what t has, and of no other but the variant.
Tells(r, record, t) ==
  /\ record.provides \subseteq DOMAIN r
  /\ DOMAIN r \subseteq record.provides \cup {"noise_variant"}
  /\ \A f \in DOMAIN r : r[f] = t[f]

\* What a headset says of its name is read as it is.
LEMMA FirmwareIsRead ==
  ASSUME NEW t, SonyValues(t), NEW kind
  PROVE  LET p == Payload("firmware", t, kind)
         IN  DecodeFirmware(p) = [firmware |-> t.firmware] /\ p[1] = kind /\ Fits(p, 4, {2})
<1> DEFINE w == t.firmware
           n == Len(w)
           head == <<kind, 2, n>>
           p == Payload("firmware", t, kind)
<1>1. w \in Seq(1..127) /\ n \in 1..127
  BY DEF SonyValues
<1>2. p = head \o w
  BY DEF Payload
<1>3. \A i \in 1..n : w[i] \in 1..127
  <2> DEFINE G == 1..127
  <2>1. w \in Seq(G) /\ n = Len(w)
    BY <1>1
  <2> HIDE DEF w, n, G
  <2>2. \A i \in 1..n : w[i] \in G
    BY <2>1, ElementOfSeq
  <2> QED BY <2>2 DEF G
<1>4. /\ Len(p) = 3 + n /\ p[1] = kind /\ p[2] = 2 /\ p[3] = n
      /\ \A i \in 1..n : p[3 + i] = w[i]
  <2> DEFINE A == {kind, 2, n} \cup 1..127
  <2>1. head \in Seq(A) /\ w \in Seq(A) /\ Len(head) = 3
          /\ head[1] = kind /\ head[2] = 2 /\ head[3] = n
    <3>1. kind \in A /\ 2 \in A /\ n \in A /\ \A x \in 1..127 : x \in A
      OBVIOUS
    <3> HIDE DEF A, n, w
    <3>2. head \in Seq(A) /\ Len(head) = 3
            /\ head[1] = kind /\ head[2] = 2 /\ head[3] = n
      BY <3>1
    <3> DEFINE G == 1..127
    <3>3. w \in Seq(G) /\ \A x \in G : x \in A
      BY <1>1, <3>1
    <3> HIDE DEF G
    <3>4. w \in Seq(A)
      BY <3>3
    <3> QED BY <3>2, <3>4
  <2> HIDE DEF head, w, n, A
  <2>2. /\ Len(head \o w) = Len(head) + Len(w)
        /\ \A i \in 1..(Len(head) + Len(w)) :
             (head \o w)[i] = IF i <= Len(head) THEN head[i] ELSE w[i - Len(head)]
    BY <2>1, ConcatProperties
  <2>3. n \in 1..127 /\ Len(w) = n
    BY <1>1 DEF n
  <2>4. /\ 1 \in 1..(3 + n) /\ 2 \in 1..(3 + n) /\ 3 \in 1..(3 + n)
        /\ \A i \in 1..n : 3 + i \in 1..(3 + n) /\ ~(3 + i <= 3) /\ (3 + i) - 3 = i
    BY <2>3
  <2> QED BY <1>2, <2>1, <2>2, <2>3, <2>4
<1> HIDE DEF p, w, n, head
<1> DEFINE ascii == Ascii(p)
           shown == Shown(ascii)
<1>5. Fits(p, 4, {2}) /\ p[3] # 0 /\ ~(Len(p) < 3 + p[3])
  BY <1>1, <1>4 DEF Fits
<1>6. shown # {} => DecodeFirmware(p) = [firmware |-> SubSeq(ascii, Min(shown), Max(shown))]
  BY <1>5 DEF DecodeFirmware
<1>7. ascii = w
  <2>1. ascii = [i \in 1..n |-> w[i]]
    <3>1. ASSUME NEW i \in 1..n
          PROVE  (IF p[3 + i] < 128 THEN p[3 + i] ELSE 65533) = w[i]
      <4>1. p[3 + i] = w[i] /\ w[i] \in 1..127
        BY <1>3, <1>4
      <4>2. w[i] < 128
        BY <4>1
      <4> QED BY <4>1, <4>2
    <3> QED BY <1>4, <3>1 DEF Ascii
  <2>2. w = [i \in 1..n |-> w[i]]
    BY <1>1 DEF n
  <2> QED BY <2>1, <2>2
<1>8. shown = 1..n
  <2> HIDE DEF ascii
  <2>1. DOMAIN w = 1..n
    BY <1>1 DEF n
  <2>2. \A i \in 1..n : w[i] # 0
    BY <1>3
  <2> QED BY <1>7, <2>1, <2>2 DEF Shown
<1> HIDE DEF ascii, shown
<1>9. Min(shown) = 1 /\ Max(shown) = n /\ shown # {}
  <2>1. n \in Nat \ {0} /\ 1..n \in SUBSET Nat /\ 1..n # {}
    <3>1. n \in 1..127
      BY <1>1
    <3>2. 1 \in 1..n
      BY <3>1
    <3> QED BY <3>1, <3>2
  <2>2. Max(1..n) = n
    BY <2>1, MaxOfInterval
  <2>3. Min(1..n) \in 1..n /\ \A x \in 1..n : Min(1..n) <= x
    BY <2>1, MinIn
  <2>4. 1 \in 1..n
    BY <2>1
  <2>5. Min(1..n) = 1
    <3> DEFINE least == Min(1..n)
    <3>1. least \in 1..n /\ least <= 1
      BY <2>3, <2>4
    <3> HIDE DEF least
    <3>2. least = 1
      BY <2>1, <3>1
    <3> QED BY <3>2 DEF least
  <2> QED BY <1>8, <2>1, <2>2, <2>5
<1>10. SubSeq(w, 1, n) = w
  <2> DEFINE G == 1..127
  <2>1. w \in Seq(G)
    BY <1>1
  <2> HIDE DEF G
  <2>2. SubSeq(w, 1, Len(w)) = w
    BY <2>1
  <2> QED BY <2>2 DEF n
<1>11. DecodeFirmware(p) = [firmware |-> w]
  BY <1>6, <1>7, <1>9, <1>10
<1> QED BY <1>4, <1>5, <1>11 DEF p, w

\* What a headset says of its curve is read as it is.
LEMMA CurveIsRead ==
  ASSUME NEW t, SonyValues(t), NEW kind
  PROVE  LET p == Payload("equalizer", t, kind)
         IN  /\ DecodeEqualizer(p) = [eq_preset |-> t.eq_preset,
                                      eq_clear_bass |-> t.eq_clear_bass,
                                      eq_bands |-> t.eq_bands]
             /\ p[1] = kind /\ Fits(p, 4, {0})
<1> DEFINE G == -10..10
           a == t.eq_clear_bass
           b == t.eq_bands
           code == Code(EQ_PRESETS, t.eq_preset)
           head == <<kind, 0, code, 6>>
           tail == [i \in 1..6 |-> 10 + (a \o b)[i]]
           p == Payload("equalizer", t, kind)
<1>1. a \in [1..1 -> G] /\ b \in [1..5 -> G]
  BY DEF SonyValues, BAND_COUNT
<1>2. code \in DOMAIN EQ_PRESETS /\ EQ_PRESETS[code] = t.eq_preset
  BY CodeIs DEF SonyValues
<1>3. p = head \o tail
  BY DEF Payload
<1> HIDE DEF p, code, a, b, G
<1>4. a \in Seq(G) /\ Len(a) = 1 /\ b \in Seq(G) /\ Len(b) = 5
  <2> DEFINE one == 1
             five == 5
  <2>1. one \in Nat /\ five \in Nat /\ a \in [1..one -> G] /\ b \in [1..five -> G]
    BY <1>1
  <2>2. one = 1 /\ five = 5
    OBVIOUS
  <2> HIDE DEF one, five
  <2>3. a \in Seq(G) /\ Len(a) = one /\ b \in Seq(G) /\ Len(b) = five
    BY <2>1, RowIs
  <2> QED BY <2>2, <2>3
<1>5. /\ a \o b \in Seq(G) /\ Len(a \o b) = 6 /\ (a \o b)[1] = a[1]
      /\ \A i \in 1..5 : (a \o b)[1 + i] = b[i]
  <2>1. /\ a \o b \in Seq(G) /\ Len(a \o b) = Len(a) + Len(b)
        /\ \A i \in 1..(Len(a) + Len(b)) :
             (a \o b)[i] = IF i <= Len(a) THEN a[i] ELSE b[i - Len(a)]
    BY <1>4, ConcatProperties
  <2>2. /\ 1 \in 1..(1 + 5) /\ 1 <= 1
        /\ \A i \in 1..5 : 1 + i \in 1..(1 + 5) /\ ~(1 + i <= 1) /\ (1 + i) - 1 = i
    OBVIOUS
  <2> QED BY <1>4, <2>1, <2>2
<1> DEFINE c == a \o b
<1> HIDE DEF c
<1>6. \A i \in 1..6 : c[i] \in G
  BY <1>5, ElementOfSeq DEF c
<1>7. tail = [i \in 1..6 |-> 10 + c[i]]
  BY DEF c
<1> HIDE DEF tail, head
<1>8. tail \in Seq(Byte) /\ Len(tail) = 6
  <2> DEFINE six == 6
  <2>1. tail \in [1..6 -> Byte]
    BY <1>6, <1>7 DEF G, Byte
  <2>2. six \in Nat /\ six = 6 /\ tail \in [1..six -> Byte]
    BY <2>1
  <2> HIDE DEF six
  <2>3. tail \in Seq(Byte) /\ Len(tail) = six
    BY <2>2, RowIs
  <2> QED BY <2>2, <2>3
<1>9. /\ Len(p) = 10 /\ p[1] = kind /\ p[2] = 0 /\ p[3] = code /\ p[4] = 6
      /\ \A i \in 1..6 : p[4 + i] = 10 + c[i]
      /\ \E A : p \in Seq(A)
  <2> DEFINE A == {kind, 0, code, 6} \cup Byte
  <2>1. head \in Seq(A) /\ Len(head) = 4 /\ head[1] = kind /\ head[2] = 0
          /\ head[3] = code /\ head[4] = 6
    <3>1. kind \in A /\ 0 \in A /\ code \in A /\ 6 \in A
      OBVIOUS
    <3> HIDE DEF A
    <3> QED BY <3>1 DEF head
  <2>2. tail \in Seq(A)
    <3>1. \A x \in Byte : x \in A
      OBVIOUS
    <3> HIDE DEF A
    <3> QED BY <1>8, <3>1
  <2> HIDE DEF A
  <2>3. /\ Len(head \o tail) = Len(head) + Len(tail)
        /\ \A i \in 1..(Len(head) + Len(tail)) :
             (head \o tail)[i] = IF i <= Len(head) THEN head[i] ELSE tail[i - Len(head)]
    BY <2>1, <2>2, ConcatProperties
  <2>4. /\ 1 \in 1..(4 + 6) /\ 2 \in 1..(4 + 6) /\ 3 \in 1..(4 + 6) /\ 4 \in 1..(4 + 6)
        /\ \A i \in 1..6 : 4 + i \in 1..(4 + 6) /\ ~(4 + i <= 4) /\ (4 + i) - 4 = i
        /\ 4 + 6 = 10
    OBVIOUS
  <2>5. \A i \in 1..6 : tail[i] = 10 + c[i]
    BY <1>7
  <2>6. p \in Seq(A)
    BY <1>3, <2>1, <2>2, ConcatProperties
  <2>7. \A i \in 1..(4 + 6) : p[i] = IF i <= 4 THEN head[i] ELSE tail[i - 4]
    BY <1>3, <1>8, <2>1, <2>3
  <2>8. p[1] = kind /\ p[2] = 0 /\ p[3] = code /\ p[4] = 6
    BY <2>1, <2>4, <2>7
  <2>9. \A i \in 1..6 : p[4 + i] = tail[i]
    BY <2>4, <2>7
  <2>10. Len(p) = 10
    BY <1>3, <1>8, <2>1, <2>3, <2>4
  <2> QED BY <2>5, <2>6, <2>8, <2>9, <2>10
<1>10. Fits(p, 4, {0}) /\ p[4] \in {6, 10} /\ ~(Len(p) < 4 + p[4]) /\ p[4] = 6
  BY <1>9 DEF Fits
<1> DEFINE gains == Gains(p)
<1>11. gains = c
  <2> DEFINE values == SubSeq(p, 5, 4 + p[4])
  <2>1. values = SubSeq(p, 5, 10)
    BY <1>9
  <2>2. Len(values) = 6 /\ (\A i \in 1..6 : values[i] = p[4 + i]) /\ DOMAIN values = 1..6
    <3>1. PICK A : p \in Seq(A)
      BY <1>9
    <3>2. Len(p) = 10
      BY <1>9
    <3> HIDE DEF values
    <3>3. 5 \in 1..(Len(p) + 1) /\ 10 \in 4..Len(p) /\ 10 - 5 + 1 = 6
      BY <3>2
    <3>4. Len(values) = 6 /\ DOMAIN values = 1..6
            /\ \A i \in 1..6 : values[i] = p[(5 + i) - 1]
      BY <2>1, <3>1, <3>2, <3>3
    <3>5. \A i \in 1..6 : (5 + i) - 1 = 4 + i
      OBVIOUS
    <3> QED BY <3>4, <3>5
  <2> HIDE DEF values
  <2>4. gains = [i \in DOMAIN values |-> values[i] - (IF p[4] = 6 THEN 10 ELSE 6)]
    BY DEF Gains, values
  <2>5. \A i \in 1..6 : values[i] - (IF p[4] = 6 THEN 10 ELSE 6) = c[i]
    <3>1. ASSUME NEW i \in 1..6 PROVE values[i] - (IF p[4] = 6 THEN 10 ELSE 6) = c[i]
      <4>1. values[i] = 10 + c[i] /\ c[i] \in -10..10
        BY <1>6, <1>9, <2>2 DEF G
      <4>2. (IF p[4] = 6 THEN 10 ELSE 6) = 10
        BY <1>10
      <4>3. \A x \in -10..10 : (10 + x) - 10 = x
        OBVIOUS
      <4> QED BY <4>1, <4>2, <4>3
    <3> QED BY <3>1
  <2>6. gains = [i \in 1..6 |-> c[i]]
    BY <2>2, <2>4, <2>5
  <2>7. c = [i \in 1..6 |-> c[i]]
    <3> DEFINE six == 6
    <3>1. c \in Seq(G) /\ Len(c) = six /\ six = 6
      BY <1>5 DEF c
    <3> HIDE DEF six
    <3>2. c = [i \in 1..six |-> c[i]]
      BY <3>1
    <3> QED BY <3>1, <3>2
  <2> QED BY <2>6, <2>7
<1> HIDE DEF gains
<1>12. ~\E i \in DOMAIN gains : gains[i] \notin -10..10
  <2>1. DOMAIN c = 1..6
    BY <1>5 DEF c
  <2> QED BY <1>6, <1>11, <2>1 DEF G
<1>13. DecodeEqualizer(p) = [eq_preset |-> Name(EQ_PRESETS, p[3]),
                             eq_clear_bass |-> <<Head(gains)>>, eq_bands |-> Tail(gains)]
  BY <1>10, <1>12 DEF DecodeEqualizer, gains
<1>14. Name(EQ_PRESETS, p[3]) = t.eq_preset
  BY <1>2, <1>9 DEF Name
<1>15. <<Head(gains)>> = a
  <2>1. Head(gains) = a[1]
    BY <1>5, <1>11 DEF c
  <2>2. a = <<a[1]>>
    BY <1>4
  <2> QED BY <2>1, <2>2
<1>16. Tail(gains) = b
  <2>1. Tail(c) \in Seq(G) /\ Len(Tail(c)) = 5 /\ \A i \in 1..5 : Tail(c)[i] = c[i + 1]
    <3>1. c \in Seq(G) /\ Len(c) = 6
      BY <1>5 DEF c
    <3>2. c # <<>> /\ Len(c) - 1 = 5
      BY <3>1
    <3> QED BY <3>1, <3>2, HeadTailProperties
  <2>2. \A i \in 1..5 : Tail(c)[i] = b[i]
    <3>1. \A i \in 1..5 : i + 1 = 1 + i
      OBVIOUS
    <3> QED BY <1>5, <2>1, <3>1 DEF c
  <2> DEFINE d == Tail(c)
  <2>3. d \in Seq(G) /\ Len(d) = Len(b) /\ \A i \in 1..Len(d) : d[i] = b[i]
    BY <1>4, <2>1, <2>2
  <2> HIDE DEF d
  <2>4. d = b
    BY <1>4, <2>3, SeqEqual
  <2> QED BY <1>11, <2>4 DEF d
<1> QED BY <1>9, <1>10, <1>13, <1>14, <1>15, <1>16 DEF p, a, b

\* What a headset says of its noise control is read as it is.
LEMMA NoiseIsRead ==
  ASSUME NEW t, SonyValues(t), NEW kind
  PROVE  LET p == Payload("noise", t, kind)
         IN  /\ DecodeNoise(p) = [noise |-> t.noise, focus_on_voice |-> t.focus_on_voice,
                                  ambient_level |-> t.ambient_level,
                                  noise_variant |-> t.noise_variant]
             /\ p[1] = kind /\ Fits(p, 4, {23})
<1> DEFINE on == IF t.noise = "off" THEN 0 ELSE 1
           ambient == IF t.noise = "ambient" THEN 1 ELSE 0
           focus == IF t.focus_on_voice THEN 1 ELSE 0
           p == Payload("noise", t, kind)
<1>1. /\ t.noise \in {"off", "anc", "ambient"} /\ t.focus_on_voice \in BOOLEAN
      /\ t.ambient_level \in 0..20 /\ t.noise_variant = 23
  BY DEF SonyValues, NOISE_VARIANT
<1>2. p = <<kind, t.noise_variant, 1, on, ambient, focus, t.ambient_level>>
  BY DEF Payload
<1>3. /\ on \in {0, 1} /\ (on = 0 <=> t.noise = "off")
      /\ (ambient = 1 <=> t.noise = "ambient") /\ (focus = 1 <=> t.focus_on_voice)
  OBVIOUS
<1> HIDE DEF on, ambient, focus, p
<1>4. /\ Len(p) = 7 /\ p[1] = kind /\ p[2] = 23 /\ p[4] = on /\ p[5] = ambient
      /\ p[6] = focus /\ p[7] = t.ambient_level /\ p[Len(p) - 1] = focus
      /\ Last(p) = t.ambient_level
  BY <1>1, <1>2 DEF Last
<1>5. Fits(p, 4, {23}) /\ Fits(p, 6, {21, 23, 34})
  BY <1>4 DEF Fits
<1>6. ~(p[2] = NOISE_VARIANT /\ Len(p) > 7 /\ p[6] \in {3, 5})
  BY <1>4
<1>7. /\ Fits(p, 6, {21, 23, 34}) /\ ~(Len(p) > 8)
      /\ ~(p[2] = NOISE_VARIANT /\ Len(p) < 7) /\ p[4] \in {0, 1} /\ ~(Last(p) > 20)
  BY <1>1, <1>3, <1>4, <1>5
<1>8. DecodeNoise(p) = [noise |-> IF p[4] = 0 THEN "off"
                                  ELSE IF p[5] = 1 THEN "ambient" ELSE "anc",
                        focus_on_voice |-> p[Len(p) - 1] = 1,
                        ambient_level |-> Last(p), noise_variant |-> p[2]]
  BY <1>6, <1>7 DEF DecodeNoise
<1>9. (IF p[4] = 0 THEN "off" ELSE IF p[5] = 1 THEN "ambient" ELSE "anc") = t.noise
  BY <1>1, <1>3, <1>4
<1>10. (p[Len(p) - 1] = 1) = t.focus_on_voice
  BY <1>1, <1>3, <1>4
<1>11. Last(p) = t.ambient_level /\ p[2] = t.noise_variant
  BY <1>1, <1>4
<1> QED BY <1>4, <1>5, <1>8, <1>9, <1>10, <1>11 DEF p

\* A payload begins with its kind and with what its record is told by, and is
\* read as what the headset has.
Read(i, t, kind) ==
  LET p == Payload(RECORDS[i].id, t, kind)
  IN  /\ Tells(DecodeRecord(RECORDS[i], p), RECORDS[i], t)
      /\ p[1] = kind /\ Len(p) > 1 /\ p[2] = RECORDS[i].request[2]

LEMMA SonyReads ==
  ASSUME NEW t, Has(t, "sony-mdr"), NEW kind, NEW i \in 1..11
  PROVE  Read(i, t, kind)
<1>1. SonyValues(t)
  BY SonyHas
<1>2. /\ t.charging \in BOOLEAN /\ t.speak_to_chat \in BOOLEAN
      /\ t.pause_on_removal \in BOOLEAN /\ t.voice_guidance \in BOOLEAN
      /\ t.dsee \in BOOLEAN /\ t.touch_sensor \in BOOLEAN
  BY SonySwitches
<1>3. CASE i = 1
  <2> DEFINE p == Payload("firmware", t, kind)
  <2>1. DecodeFirmware(p) = [firmware |-> t.firmware] /\ p[1] = kind /\ Fits(p, 4, {2})
    BY <1>1, FirmwareIsRead
  <2> HIDE DEF p
  <2>2. p[2] = 2 /\ Len(p) > 1
    BY <2>1 DEF Fits
  <2>3. DecodeRecord(RECORDS[1], p) = [firmware |-> t.firmware]
    BY <2>1, RecordsAre DEF DecodeRecord
  <2> DEFINE r == DecodeRecord(RECORDS[1], p)
  <2>4. DOMAIN r = {"firmware"} /\ r.firmware = t.firmware
    BY <2>3
  <2> HIDE DEF r
  <2>5. Tells(r, RECORDS[1], t)
    BY <2>4, RecordsAre DEF Tells
  <2> QED BY <1>3, <2>1, <2>2, <2>5, RecordsAre DEF Read, p, r
<1>4. CASE i = 2
  <2> DEFINE b == IF t.charging THEN 1 ELSE 0
             p == Payload("battery", t, kind)
  <2>1. p = <<kind, 0, t.battery, b>>
    BY DEF Payload
  <2>2. t.battery \in 0..100 /\ (b = 1) = t.charging
    BY <1>1, <1>2 DEF SonyValues
  <2> HIDE DEF p, b
  <2>3. Len(p) = 4 /\ p[1] = kind /\ p[2] = 0 /\ p[3] = t.battery /\ p[4] = b
    BY <2>1
  <2>4. Fits(p, 4, {0}) /\ ~(p[3] > 100)
    BY <2>2, <2>3 DEF Fits
  <2>5. DecodeRecord(RECORDS[2], p) = [battery |-> t.battery, charging |-> t.charging]
    <3>1. DecodeRecord(RECORDS[2], p) = DecodeBattery(p)
      BY RecordsAre DEF DecodeRecord
    <3> QED BY <2>2, <2>3, <2>4, <3>1 DEF DecodeBattery
  <2> DEFINE r == DecodeRecord(RECORDS[2], p)
  <2>6. DOMAIN r = {"battery", "charging"} /\ r.battery = t.battery /\ r.charging = t.charging
    BY <2>5
  <2> HIDE DEF r
  <2>7. Tells(r, RECORDS[2], t)
    BY <2>6, RecordsAre DEF Tells
  <2> QED BY <1>4, <2>3, <2>7, RecordsAre DEF Read, p, r
<1>5. CASE i = 3
  <2> DEFINE p == Payload("codec", t, kind)
             code == Code(CODECS, t.codec)
  <2>1. p = <<kind, 2, code>>
    BY DEF Payload
  <2>2. code \in DOMAIN CODECS /\ CODECS[code] = t.codec
    BY <1>1, CodeIs DEF SonyValues
  <2> HIDE DEF p, code
  <2>3. Len(p) = 3 /\ p[1] = kind /\ p[2] = 2 /\ p[3] = code
    BY <2>1
  <2>4. DecodeRecord(RECORDS[3], p) = [codec |-> t.codec]
    <3>1. DecodeRecord(RECORDS[3], p) = DecodeCodec(p)
      BY RecordsAre DEF DecodeRecord
    <3>2. Fits(p, 3, {2}) /\ Name(CODECS, p[3]) = t.codec
      BY <2>2, <2>3 DEF Fits, Name
    <3> QED BY <3>1, <3>2 DEF DecodeCodec
  <2> DEFINE r == DecodeRecord(RECORDS[3], p)
  <2>5. DOMAIN r = {"codec"} /\ r.codec = t.codec
    BY <2>4
  <2> HIDE DEF r
  <2>6. Tells(r, RECORDS[3], t)
    BY <2>5, RecordsAre DEF Tells
  <2> QED BY <1>5, <2>3, <2>6, RecordsAre DEF Read, p, r
<1>6. CASE i = 4
  <2> DEFINE p == Payload("noise", t, kind)
             r == DecodeNoise(p)
  <2>1. /\ r = [noise |-> t.noise, focus_on_voice |-> t.focus_on_voice,
                ambient_level |-> t.ambient_level, noise_variant |-> t.noise_variant]
        /\ p[1] = kind /\ Fits(p, 4, {23})
    BY <1>1, NoiseIsRead
  <2> HIDE DEF p, r
  <2>2. p[2] = 23 /\ Len(p) > 1
    BY <2>1 DEF Fits
  <2>3. DecodeRecord(RECORDS[4], p) = r
    BY RecordsAre DEF DecodeRecord, r
  <2>4. /\ DOMAIN r = {"noise", "focus_on_voice", "ambient_level", "noise_variant"}
        /\ r.noise = t.noise /\ r.focus_on_voice = t.focus_on_voice
        /\ r.ambient_level = t.ambient_level /\ r.noise_variant = t.noise_variant
    BY <2>1
  <2>5. Tells(r, RECORDS[4], t)
    BY <2>4, RecordsAre DEF Tells
  <2> QED BY <1>6, <2>1, <2>2, <2>3, <2>5, RecordsAre DEF Read, p
<1>7. CASE i = 5
  <2> DEFINE p == Payload("equalizer", t, kind)
             r == DecodeEqualizer(p)
  <2>1. /\ r = [eq_preset |-> t.eq_preset, eq_clear_bass |-> t.eq_clear_bass,
                eq_bands |-> t.eq_bands]
        /\ p[1] = kind /\ Fits(p, 4, {0})
    BY <1>1, CurveIsRead
  <2> HIDE DEF p, r
  <2>2. p[2] = 0 /\ Len(p) > 1
    BY <2>1 DEF Fits
  <2>3. DecodeRecord(RECORDS[5], p) = r
    BY RecordsAre DEF DecodeRecord, r
  <2>4. /\ DOMAIN r = {"eq_preset", "eq_clear_bass", "eq_bands"}
        /\ r.eq_preset = t.eq_preset /\ r.eq_clear_bass = t.eq_clear_bass
        /\ r.eq_bands = t.eq_bands
    BY <2>1
  <2>5. Tells(r, RECORDS[5], t)
    BY <2>4, RecordsAre DEF Tells
  <2> QED BY <1>7, <2>1, <2>2, <2>3, <2>5, RecordsAre DEF Read, p
<1>8. CASE i = 6
  <2> DEFINE p == Payload("speak_to_chat", t, kind)
             b == IF t.speak_to_chat THEN 0 ELSE 1
  <2>1. p = <<kind, 12, b, 1>>
    BY DEF Payload
  <2>2. (b = 0) = t.speak_to_chat
    BY <1>2
  <2> HIDE DEF p, b
  <2>3. Len(p) = 4 /\ p[1] = kind /\ p[2] = 12 /\ p[3] = b
    BY <2>1
  <2>4. DecodeRecord(RECORDS[6], p) = [speak_to_chat |-> t.speak_to_chat]
    <3>1. DecodeRecord(RECORDS[6], p) = DecodeSpeakToChat(p)
      BY RecordsAre DEF DecodeRecord
    <3>2. Fits(p, 4, {12}) /\ (p[3] = 0) = t.speak_to_chat
      BY <1>2, <2>2, <2>3 DEF Fits, SwitchOn
    <3> QED BY <2>3, <3>1, <3>2 DEF DecodeSpeakToChat, SwitchOn
  <2> DEFINE r == DecodeRecord(RECORDS[6], p)
  <2>5. DOMAIN r = {"speak_to_chat"} /\ r.speak_to_chat = t.speak_to_chat
    BY <2>4
  <2> HIDE DEF r
  <2>6. Tells(r, RECORDS[6], t)
    BY <2>5, RecordsAre DEF Tells
  <2> QED BY <1>8, <2>3, <2>6, RecordsAre DEF Read, p, r
<1>9. CASE i = 7
  <2> DEFINE p == Payload("speak_to_chat_config", t, kind)
             c == Code(SENSITIVITIES, t.speak_to_chat_sensitivity)
             d == Code(TIMEOUTS, t.speak_to_chat_timeout)
  <2>1. p = <<kind, 12, c, d>>
    BY DEF Payload
  <2>2. /\ c \in DOMAIN SENSITIVITIES /\ SENSITIVITIES[c] = t.speak_to_chat_sensitivity
        /\ d \in DOMAIN TIMEOUTS /\ TIMEOUTS[d] = t.speak_to_chat_timeout
    BY <1>1, CodeIs DEF SonyValues
  <2> HIDE DEF p, c, d
  <2>3. Len(p) = 4 /\ p[1] = kind /\ p[2] = 12 /\ p[3] = c /\ p[4] = d
    BY <2>1
  <2>4. DecodeRecord(RECORDS[7], p) =
          [speak_to_chat_sensitivity |-> t.speak_to_chat_sensitivity,
           speak_to_chat_timeout |-> t.speak_to_chat_timeout]
    <3>1. DecodeRecord(RECORDS[7], p) = DecodeSpeakToChatConfig(p)
      BY RecordsAre DEF DecodeRecord
    <3>2. Fits(p, 4, {12}) /\ p[3] \in DOMAIN SENSITIVITIES /\ p[4] \in DOMAIN TIMEOUTS
            /\ SENSITIVITIES[p[3]] = t.speak_to_chat_sensitivity
            /\ TIMEOUTS[p[4]] = t.speak_to_chat_timeout
      BY <1>2, <2>2, <2>3 DEF Fits, SwitchOn
    <3> QED BY <2>3, <3>1, <3>2 DEF DecodeSpeakToChatConfig, SwitchOn
  <2> DEFINE r == DecodeRecord(RECORDS[7], p)
  <2>5. /\ DOMAIN r = {"speak_to_chat_sensitivity", "speak_to_chat_timeout"}
        /\ r.speak_to_chat_sensitivity = t.speak_to_chat_sensitivity
        /\ r.speak_to_chat_timeout = t.speak_to_chat_timeout
    BY <2>4
  <2> HIDE DEF r
  <2>6. Tells(r, RECORDS[7], t)
    BY <2>5, RecordsAre DEF Tells
  <2> QED BY <1>9, <2>3, <2>6, RecordsAre DEF Read, p, r
<1>10. CASE i = 8
  <2> DEFINE p == Payload("pause_on_removal", t, kind)
             b == IF t.pause_on_removal THEN 0 ELSE 1
  <2>1. p = <<kind, 1, b>>
    BY DEF Payload
  <2>2. (b = 0) = t.pause_on_removal
    BY <1>2
  <2> HIDE DEF p, b
  <2>3. Len(p) = 3 /\ p[1] = kind /\ p[2] = 1 /\ p[3] = b
    BY <2>1
  <2>4. DecodeRecord(RECORDS[8], p) = [pause_on_removal |-> t.pause_on_removal]
    <3>1. DecodeRecord(RECORDS[8], p) = DecodePauseOnRemoval(p)
      BY RecordsAre DEF DecodeRecord
    <3>2. Fits(p, 3, {1}) /\ (p[3] = 0) = t.pause_on_removal
      BY <1>2, <2>2, <2>3 DEF Fits, SwitchOn
    <3> QED BY <2>3, <3>1, <3>2 DEF DecodePauseOnRemoval, SwitchOn
  <2> DEFINE r == DecodeRecord(RECORDS[8], p)
  <2>5. DOMAIN r = {"pause_on_removal"} /\ r.pause_on_removal = t.pause_on_removal
    BY <2>4
  <2> HIDE DEF r
  <2>6. Tells(r, RECORDS[8], t)
    BY <2>5, RecordsAre DEF Tells
  <2> QED BY <1>10, <2>3, <2>6, RecordsAre DEF Read, p, r
<1>11. CASE i = 9
  <2> DEFINE p == Payload("voice_guidance", t, kind)
             b == IF t.voice_guidance THEN 0 ELSE 1
  <2>1. p = <<kind, 1, b, 1>>
    BY DEF Payload
  <2>2. (b = 0) = t.voice_guidance
    BY <1>2
  <2> HIDE DEF p, b
  <2>3. Len(p) = 4 /\ p[1] = kind /\ p[2] = 1 /\ p[3] = b
    BY <2>1
  <2>4. DecodeRecord(RECORDS[9], p) = [voice_guidance |-> t.voice_guidance]
    <3>1. DecodeRecord(RECORDS[9], p) = DecodeVoiceGuidance(p)
      BY RecordsAre DEF DecodeRecord
    <3>2. Fits(p, 4, {1}) /\ (p[3] = 0) = t.voice_guidance
      BY <1>2, <2>2, <2>3 DEF Fits, SwitchOn
    <3> QED BY <2>3, <3>1, <3>2 DEF DecodeVoiceGuidance, SwitchOn
  <2> DEFINE r == DecodeRecord(RECORDS[9], p)
  <2>5. DOMAIN r = {"voice_guidance"} /\ r.voice_guidance = t.voice_guidance
    BY <2>4
  <2> HIDE DEF r
  <2>6. Tells(r, RECORDS[9], t)
    BY <2>5, RecordsAre DEF Tells
  <2> QED BY <1>11, <2>3, <2>6, RecordsAre DEF Read, p, r
<1>12. CASE i = 10
  <2> DEFINE p == Payload("dsee", t, kind)
             b == IF t.dsee THEN 1 ELSE 0
  <2>1. p = <<kind, 2, b>>
    BY DEF Payload
  <2>2. (b = 1) = t.dsee
    BY <1>2
  <2> HIDE DEF p, b
  <2>3. Len(p) = 3 /\ p[1] = kind /\ p[2] = 2 /\ p[3] = b
    BY <2>1
  <2>4. DecodeRecord(RECORDS[10], p) = [dsee |-> t.dsee]
    <3>1. DecodeRecord(RECORDS[10], p) = DecodeDsee(p)
      BY RecordsAre DEF DecodeRecord
    <3>2. Fits(p, 3, {2}) /\ (p[3] = 1) = t.dsee
      BY <1>2, <2>2, <2>3 DEF Fits, SwitchOn
    <3> QED BY <2>3, <3>1, <3>2 DEF DecodeDsee, SwitchOn
  <2> DEFINE r == DecodeRecord(RECORDS[10], p)
  <2>5. DOMAIN r = {"dsee"} /\ r.dsee = t.dsee
    BY <2>4
  <2> HIDE DEF r
  <2>6. Tells(r, RECORDS[10], t)
    BY <2>5, RecordsAre DEF Tells
  <2> QED BY <1>12, <2>3, <2>6, RecordsAre DEF Read, p, r
<1>13. CASE i = 11
  <2> DEFINE p == Payload("touch_sensor", t, kind)
             b == IF t.touch_sensor THEN 0 ELSE 1
  <2>1. p = <<kind, 210, 0, b>>
    BY DEF Payload
  <2>2. (b = 0) = t.touch_sensor
    BY <1>2
  <2> HIDE DEF p, b
  <2>3. Len(p) = 4 /\ p[1] = kind /\ p[2] = 210 /\ p[4] = b
    BY <2>1
  <2>4. DecodeRecord(RECORDS[11], p) = [touch_sensor |-> t.touch_sensor]
    <3>1. DecodeRecord(RECORDS[11], p) = DecodeTouchSensor(p)
      BY RecordsAre DEF DecodeRecord
    <3>2. Fits(p, 4, {210}) /\ (p[4] = 0) = t.touch_sensor
      BY <1>2, <2>2, <2>3 DEF Fits, SwitchOn
    <3> QED BY <2>3, <3>1, <3>2 DEF DecodeTouchSensor, SwitchOn
  <2> DEFINE r == DecodeRecord(RECORDS[11], p)
  <2>5. DOMAIN r = {"touch_sensor"} /\ r.touch_sensor = t.touch_sensor
    BY <2>4
  <2> HIDE DEF r
  <2>6. Tells(r, RECORDS[11], t)
    BY <2>5, RecordsAre DEF Tells
  <2> QED BY <1>13, <2>3, <2>6, RecordsAre DEF Read, p, r
<1> QED BY <1>3, <1>4, <1>5, <1>6, <1>7, <1>8, <1>9, <1>10, <1>11, <1>12, <1>13

\* What the headset says of record i when it has t.
Says(i, t, kind, seq) ==
  [type |-> RECORDS[i].type, seq |-> seq, payload |-> Payload(RECORDS[i].id, t, kind)]

\* How it begins: with the kind of an answer or of an announcement.
Kinds(i) == {Reply(RECORDS[i]), Notification(RECORDS[i])}

\* What it says is read by its own record, and by none before it: the state
\* takes what the record provides and keeps the rest.
LEMMA SaidIsAbsorbed ==
  ASSUME driver = "sony-mdr", NEW t, Has(t, "sony-mdr"), NEW i \in 1..11,
         NEW kind \in Kinds(i), NEW seq, NEW old
  PROVE  LET new == Absorb(old, Says(i, t, kind, seq))
         IN  /\ DOMAIN new = DOMAIN old
             /\ \A f \in RECORDS[i].provides \cap DOMAIN old :
                  new[f] = t[f] \/ (f = "battery" /\ t[f] = 0 /\ new[f] = old[f])
             /\ \A f \in DOMAIN old \ RECORDS[i].provides :
                  new[f] = old[f] \/ (f = "noise_variant" /\ new[f] = t[f])
<1> DEFINE m == Says(i, t, kind, seq)
           p == Payload(RECORDS[i].id, t, kind)
           r == DecodeRecord(RECORDS[i], p)
           heard == {j \in DOMAIN Known : Reading(Known[j], m) # Nothing}
           new == Absorb(old, m)
<1>1. /\ Tells(r, RECORDS[i], t)
      /\ p[1] = kind /\ Len(p) > 1 /\ p[2] = RECORDS[i].request[2]
  <2>1. Read(i, t, kind)
    BY SonyReads
  <2> QED BY <2>1 DEF Read
<1>2. m.type = RECORDS[i].type /\ m.payload = p /\ m # Nothing
  <2>1. DOMAIN m = {"type", "seq", "payload"} /\ DOMAIN Nothing = {}
    BY DEF Says, Nothing
  <2> QED BY <2>1 DEF Says
<1> HIDE DEF p, m
<1>3. Matches(RECORDS[i], m)
  BY <1>1, <1>2 DEF Matches, Kinds
<1>4. Known = RECORDS /\ DOMAIN RECORDS = 1..11
  <2>1. Known = RECORDS
    BY DEF Known
  <2>2. DOMAIN RECORDS = 1..11
    BY DEF RECORDS
  <2> QED BY <2>1, <2>2
<1>5. \A j \in 1..11 : Reading(RECORDS[j], m) =
        IF Matches(RECORDS[j], m) THEN DecodeRecord(RECORDS[j], m.payload) ELSE Nothing
  BY DEF Reading
<1>6. r # Nothing
  <2>1. RECORDS[i].provides # {}
    BY RecordsAre
  <2>2. DOMAIN r # {} /\ DOMAIN Nothing = {}
    BY <1>1, <2>1 DEF Tells, Nothing
  <2> QED BY <2>2
<1>7. heard = {i} /\ Reading(Known[i], m) = r
  <2>1. Reading(RECORDS[i], m) = r
    BY <1>2, <1>3, <1>5
  <2>2. \A j \in 1..11 : j # i => Reading(RECORDS[j], m) = Nothing
    BY <1>3, <1>5, OneMatches
  <2> HIDE DEF r
  <2> QED BY <1>4, <1>6, <2>1, <2>2
<1> HIDE DEF r, heard
<1>8. Min(heard) = i
  <2>1. heard \in SUBSET Nat /\ heard # {}
    BY <1>7
  <2>2. Min(heard) \in heard
    BY <2>1, MinIn
  <2> QED BY <1>7, <2>2
<1>9. new = Applied(r, old)
  <2>1. new = IF m = Nothing \/ heard = {} THEN old
              ELSE Applied(Reading(Known[Min(heard)], m), old)
    BY DEF Absorb, heard
  <2> QED BY <1>2, <1>7, <1>8, <2>1
<1> DEFINE zero == driver = "sony-mdr" /\ "battery" \in DOMAIN r /\ r.battery = 0
           D == DOMAIN r \ (IF zero THEN {"battery"} ELSE {})
<1>10. new = [f \in DOMAIN old |-> IF f \in D THEN r[f] ELSE old[f]]
  <2>1. new = Over([f \in D |-> r[f]], old)
    BY <1>9 DEF Applied
  <2> HIDE DEF D, new
  <2> QED BY <2>1 DEF Over
<1>11. D \subseteq DOMAIN r /\ \A f \in DOMAIN r : f \in D \/ (f = "battery" /\ r[f] = 0)
  OBVIOUS
<1>12. /\ RECORDS[i].provides \subseteq DOMAIN r
       /\ DOMAIN r \subseteq RECORDS[i].provides \cup {"noise_variant"}
       /\ \A f \in DOMAIN r : r[f] = t[f]
  BY <1>1 DEF Tells
<1> HIDE DEF D, new
<1>13. DOMAIN new = DOMAIN old
  BY <1>10
<1>14. ASSUME NEW f \in RECORDS[i].provides \cap DOMAIN old
       PROVE  new[f] = t[f] \/ (f = "battery" /\ t[f] = 0 /\ new[f] = old[f])
  BY <1>10, <1>11, <1>12
<1>15. ASSUME NEW f \in DOMAIN old \ RECORDS[i].provides
       PROVE  new[f] = old[f] \/ (f = "noise_variant" /\ new[f] = t[f])
  BY <1>10, <1>11, <1>12
<1> QED BY <1>13, <1>14, <1>15 DEF new, m

-----------------------------------------------------------------------------
(* The last frame on its way *)

\* What ends in a frame still does when bytes before its last ones are replaced,
\* by whatever ends in as much of the frame as they did.
LEMMA EndsApart ==
  ASSUME NEW S, NEW a \in Seq(S), NEW b \in Seq(S), NEW end \in Seq(S),
         EndsIn(a \o b, end)
  PROVE  LET begun == SubSeq(end, 1, Len(end) - Len(b))
         IN  /\ b = <<>> => EndsIn(a, end)
             /\ \A c \in Seq(S) : Len(end) <= Len(b) => EndsIn(c \o b, end)
             /\ Len(b) < Len(end) => EndsIn(a, begun)
             /\ \A c \in Seq(S) : Len(b) < Len(end) /\ EndsIn(c, begun) =>
                                    EndsIn(c \o b, end)
<1> DEFINE x == a \o b
           l == Len(a)
           m == Len(b)
           k == Len(end)
           begun == SubSeq(end, 1, k - m)
<1>1. /\ x \in Seq(S) /\ Len(x) = l + m
      /\ \A i \in 1..(l + m) : x[i] = IF i <= l THEN a[i] ELSE b[i - l]
  BY ConcatProperties
<1>2. l \in Nat /\ m \in Nat /\ k \in Nat
  OBVIOUS
<1>3. k <= Len(x) /\ \A i \in 1..k : x[Len(x) - k + i] = end[i]
  BY DEF EndsIn
<1> HIDE DEF x, l, m, k
<1>4. k <= l + m /\ \A i \in 1..k : x[(l + m) - k + i] = end[i]
  BY <1>1, <1>3
<1>5. ASSUME b = <<>> PROVE EndsIn(a, end)
  <2>1. m = 0
    BY <1>5 DEF m
  <2>2. \A i \in 1..k : (l + m) - k + i \in 1..(l + m) /\ (l + m) - k + i = l - k + i
          /\ l - k + i <= l
    BY <1>2, <1>4, <2>1
  <2>3. \A i \in 1..k : a[l - k + i] = end[i]
    BY <1>1, <1>4, <2>2
  <2> QED BY <1>2, <1>4, <2>1, <2>3 DEF EndsIn, k, l
<1>6. ASSUME NEW i \in 1..k, (l + m) - k + i > l PROVE b[m - k + i] = end[i]
  <2>1. (l + m) - k + i \in 1..(l + m) /\ ~((l + m) - k + i <= l)
          /\ ((l + m) - k + i) - l = m - k + i
    BY <1>2, <1>4, <1>6
  <2> QED BY <1>1, <1>4, <2>1
<1>7. ASSUME NEW c \in Seq(S), k <= m PROVE EndsIn(c \o b, end)
  <2> DEFINE y == c \o b
             h == Len(c)
  <2>1. Len(y) = h + m /\ h \in Nat
          /\ \A i \in 1..(h + m) : y[i] = IF i <= h THEN c[i] ELSE b[i - h]
    BY ConcatProperties DEF m
  <2> HIDE DEF y, h
  <2>2. ASSUME NEW i \in 1..k PROVE y[(h + m) - k + i] = end[i]
    <3>1. /\ (h + m) - k + i \in 1..(h + m) /\ ~((h + m) - k + i <= h)
          /\ ((h + m) - k + i) - h = m - k + i /\ (l + m) - k + i > l
      BY <1>2, <1>7, <2>1
    <3>2. y[(h + m) - k + i] = b[m - k + i]
      BY <2>1, <3>1
    <3> QED BY <1>6, <3>1, <3>2
  <2> QED BY <1>2, <1>7, <2>1, <2>2 DEF EndsIn, y, k
<1>8. ASSUME m < k
      PROVE  begun \in Seq(S) /\ Len(begun) = k - m /\ k - m <= l
             /\ (\A i \in 1..(k - m) : begun[i] = end[i]) /\ EndsIn(a, begun)
  <2>1. k - m \in 1..Len(end) /\ k - m <= l
    BY <1>2, <1>4, <1>8 DEF k
  <2>2. begun \in Seq(S) /\ Len(begun) = k - m /\ \A i \in 1..(k - m) : begun[i] = end[i]
    BY <2>1
  <2> HIDE DEF begun
  <2>3. ASSUME NEW i \in 1..(k - m) PROVE a[l - (k - m) + i] = begun[i]
    <3>1. /\ i \in 1..k /\ (l + m) - k + i \in 1..(l + m) /\ (l + m) - k + i <= l
          /\ l - (k - m) + i = (l + m) - k + i
      BY <1>2, <1>4, <1>8
    <3>2. a[(l + m) - k + i] = end[i]
      BY <1>1, <1>4, <3>1
    <3> QED BY <2>2, <3>1, <3>2
  <2> QED BY <2>1, <2>2, <2>3 DEF EndsIn, l
<1>9. ASSUME NEW c \in Seq(S), m < k, EndsIn(c, begun) PROVE EndsIn(c \o b, end)
  <2> DEFINE y == c \o b
             h == Len(c)
  <2>1. Len(y) = h + m /\ h \in Nat
          /\ \A i \in 1..(h + m) : y[i] = IF i <= h THEN c[i] ELSE b[i - h]
    BY ConcatProperties DEF m
  <2>2. Len(begun) = k - m /\ \A i \in 1..(k - m) : begun[i] = end[i]
    BY <1>8, <1>9
  <2> HIDE DEF begun
  <2>3. k - m <= h /\ \A i \in 1..(k - m) : c[h - (k - m) + i] = end[i]
    BY <1>9, <2>2 DEF EndsIn
  <2> HIDE DEF y, h
  <2>4. ASSUME NEW i \in 1..k PROVE y[(h + m) - k + i] = end[i]
    <3>1. CASE i <= k - m
      <4>1. /\ i \in 1..(k - m) /\ (h + m) - k + i \in 1..(h + m) /\ (h + m) - k + i <= h
            /\ h - (k - m) + i = (h + m) - k + i
        BY <1>2, <2>1, <2>3, <3>1
      <4> QED BY <2>1, <2>3, <4>1
    <3>2. CASE i > k - m
      <4>1. /\ (h + m) - k + i \in 1..(h + m) /\ ~((h + m) - k + i <= h)
            /\ ((h + m) - k + i) - h = m - k + i /\ (l + m) - k + i > l
        BY <1>2, <2>1, <2>3, <3>2
      <4> QED BY <1>6, <2>1, <4>1
    <3> QED BY <1>2, <3>1, <3>2
  <2>5. k <= h + m
    BY <1>2, <2>1, <2>3
  <2> QED BY <2>1, <2>4, <2>5 DEF EndsIn, y, k
<1> QED BY <1>5, <1>7, <1>8, <1>9 DEF k, m, begun

\* What a headset says is a message that frames carry, and a short one.
LEMMA SaidIsMessage ==
  ASSUME NEW t, Has(t, "sony-mdr"), NEW i \in 1..11, NEW kind \in Kinds(i), NEW seq \in Byte
  PROVE  /\ Says(i, t, kind, seq) \in Messages
         /\ Len(Encode(Says(i, t, kind, seq))) <= 276
<1>1. RECORDS[i] \in ToSet(RECORDS)
  <2>1. DOMAIN RECORDS = 1..11
    BY DEF RECORDS
  <2> QED BY <2>1 DEF ToSet
<1>2. kind \in Byte
  <2>1. RECORDS[i].request[1] \in Int
    BY <1>1, SonyRecords DEF Byte
  <2>2. \A n \in Int : n % 256 \in Byte
    BY DEF Byte
  <2> QED BY <2>1, <2>2 DEF Kinds, Reply, Notification
<1>3. SonyValues(t)
  BY SonyHas
<1> DEFINE id == RECORDS[i].id
<1>4. id \in {"firmware", "battery", "codec", "noise", "equalizer", "speak_to_chat",
              "speak_to_chat_config", "pause_on_removal", "voice_guidance", "dsee",
              "touch_sensor"}
  BY <1>1, SonyRecords
<1> HIDE DEF id, Byte
<1> DEFINE p == Payload(id, t, kind)
<1>5. p \in Seq(Byte) /\ Len(p) <= 130
  BY <1>2, <1>3, <1>4, PayloadType, SMTT(30)
<1>6. RECORDS[i].type \in Byte
  BY <1>1, SonyRecords
<1> DEFINE m == Says(i, t, kind, seq)
<1>7. m \in Messages /\ m.payload = p
  <2> HIDE DEF p
  <2> QED BY <1>5, <1>6 DEF Says, Messages, id, p
<1> HIDE DEF m, p
<1>8. Len(Encode(m)) <= 276
  <2> DEFINE full == FullOf(m)
  <2>1. full \in Seq(Byte) /\ Len(full) = Len(p) + 7 /\ Len(Encode(m)) = Len(Escape(full)) + 2
    BY <1>7, EncodeShape
  <2> HIDE DEF full
  <2>2. Len(Escape(full)) <= Len(full) + Len(full) /\ Len(Escape(full)) \in Nat
    BY <2>1, EscapeHides, EscapeType
  <2> QED BY <1>5, <2>1, <2>2
<1> QED BY <1>7, <1>8 DEF m

\* When all that is under way is read and a frame is the last of it, nothing is
\* left and the state says what the frame said.
LEMMA LastIsRead ==
  ASSUME WireAssumption, driver = "sony-mdr", NEW old, DOMAIN old = FeaturesOf(driver),
         NEW t, Has(t, "sony-mdr"), NEW i \in 1..11, NEW kind \in Kinds(i), NEW seq \in Byte,
         NEW bytes \in Seq(Byte), EndsIn(bytes, Encode(Says(i, t, kind, seq)))
  PROVE  /\ Cut(bytes).rest = <<>>
         /\ \A f \in RECORDS[i].provides :
              \/ FoldLeft(Absorb, old, Cut(bytes).frames)[f] = t[f]
              \/ f = "battery" /\ t[f] = 0
<1> DEFINE m == Says(i, t, kind, seq)
           frame == Encode(m)
           cut == Split(bytes, MaxFrame)
           messages == Cut(bytes).frames
           new == FoldLeft(Absorb, old, messages)
<1>0. MaxFrame \in Nat /\ 1 \in 1..(Len(bytes) + 1)
  BY DEF WireAssumption
<1>1. m \in Messages /\ EndsIn(bytes, frame)
  BY SaidIsMessage
<1> HIDE DEF m
<1>2. Whole(frame) /\ Decode(frame) = m
  BY <1>1, EncodedWhole, RoundTrip
<1> HIDE DEF frame
<1>3. cut.frames # <<>> /\ Last(cut.frames) = frame /\ cut.rest = <<>>
  BY <1>0, <1>1, <1>2, LastIsCut
<1>4. cut \in Cuts(MaxFrame)
  <2>1. PICK f \in [1..(Len(bytes) + 1) -> Cuts(MaxFrame)] : cut = f[1]
    BY <1>0, SplitRun
  <2> QED BY <1>0, <2>1
<1>5. Cut(bytes) = [cut EXCEPT !.frames = [k \in DOMAIN cut.frames |-> Decode(cut.frames[k])]]
  BY DEF Cut
<1> HIDE DEF cut
<1>6. cut.frames \in Seq(Seq(Byte)) /\ DOMAIN cut = {"frames", "rest"}
  BY <1>4 DEF Cuts
<1>7. Cut(bytes).rest = <<>> /\ messages = [k \in DOMAIN cut.frames |-> Decode(cut.frames[k])]
  BY <1>3, <1>5, <1>6
<1> HIDE DEF messages
<1> DEFINE n == Len(cut.frames)
<1>8. n \in Nat /\ n \in 1..n /\ DOMAIN cut.frames = 1..n /\ cut.frames[n] = frame
  BY <1>3, <1>6 DEF Last
<1> HIDE DEF n
<1>9. DOMAIN messages = 1..n /\ messages[n] = m
  BY <1>2, <1>7, <1>8
<1>10. PICK r : r[0] = old /\ r[n] = new /\ Absorbed(r, n, messages)
  BY <1>8, <1>9, AbsorbRun
<1>11. new = Absorb(r[n - 1], m)
  BY <1>8, <1>9, <1>10 DEF Absorbed
<1>12. DOMAIN new = FeaturesOf(driver)
  BY <1>8, <1>9, FoldDomain
<1> HIDE DEF new
<1>13. DOMAIN r[n - 1] = FeaturesOf(driver)
  BY <1>11, <1>12, AbsorbDomain
<1>14. RECORDS[i].provides \subseteq FeaturesOf(driver)
  BY RecordsAre, SonyFeatures
<1>15. \A f \in RECORDS[i].provides : new[f] = t[f] \/ (f = "battery" /\ t[f] = 0)
  BY <1>11, <1>13, <1>14, SaidIsAbsorbed DEF m
<1> QED BY <1>7, <1>15 DEF new, messages

\* What is read of a frame is left to be continued.
LEMMA BegunIsKept ==
  ASSUME WireAssumption, driver = "sony-mdr", NEW bytes \in Seq(Byte), NEW frame,
         Whole(frame), Len(frame) <= MaxFrame, NEW begun \in Begins(frame),
         EndsIn(bytes, begun)
  PROVE  EndsIn(Cut(bytes).rest, begun)
<1> DEFINE cut == Split(bytes, MaxFrame)
<1>1. MaxFrame \in Nat /\ 1 \in 1..(Len(bytes) + 1)
  BY DEF WireAssumption
<1>2. Len(begun) <= MaxFrame
  BY <1>1, BeginsIs DEF Whole
<1>3. EndsIn(cut.rest, begun)
  BY <1>1, <1>2, BegunIsLeft
<1>4. cut \in Cuts(MaxFrame)
  <2>1. PICK f \in [1..(Len(bytes) + 1) -> Cuts(MaxFrame)] : cut = f[1]
    BY <1>1, SplitRun
  <2> QED BY <1>1, <2>1
<1>5. Cut(bytes) = [cut EXCEPT !.frames = [k \in DOMAIN cut.frames |-> Decode(cut.frames[k])]]
  BY DEF Cut
<1> HIDE DEF cut
<1>6. Cut(bytes).rest = cut.rest
  BY <1>4, <1>5 DEF Cuts
<1> QED BY <1>3, <1>6

\* What a and b come to, one behind the other.
Joins(a, b, ab) == a \o b = ab

\* What is read, behind what was left, and what is not read yet.
LEMMA ReadApart ==
  ASSUME NEW S, NEW p \in Seq(S), NEW w \in Seq(S), NEW n \in 1..Len(w)
  PROVE  /\ p \o SubSeq(w, 1, n) \in Seq(S) /\ From(w, n + 1) \in Seq(S)
         /\ Len(From(w, n + 1)) = Len(w) - n
         /\ Joins(p \o SubSeq(w, 1, n), From(w, n + 1), p \o w)
<1> DEFINE c == SubSeq(w, 1, n)
           b == From(w, n + 1)
<1>1. n + 1 \in 1..(Len(w) + 1) /\ n \in Nat /\ Len(w) \in Nat
  OBVIOUS
<1>2. c \in Seq(S) /\ b \in Seq(S)
  BY <1>1, FromType
<1>3. c \o b = w
  BY <1>1 DEF From
<1>4. Len(b) = Len(w) - n
  <2>1. Len(b) = Len(w) - (n + 1) + 1
    BY <1>1, FromType
  <2> QED BY <1>1, <2>1
<1> HIDE DEF b, c
<1>5. p \o c \in Seq(S)
  BY <1>2, ConcatProperties
<1>6. (p \o c) \o b = p \o (c \o b)
  BY <1>2, ConcatAssociative
<1> QED BY <1>2, <1>3, <1>4, <1>5, <1>6 DEF b, c, Joins

\* A read takes part of the last frame or all of it.
LEMMA ReceiveKeepsLast ==
  ASSUME Inductive, WireAssumption, driver = "sony-mdr", NEW n, Receive(n)
  PROVE  LastFrameRead
<1> SUFFICES ASSUME NEW record \in Records, EndsIn(buffer \o line, LastSaid(record)),
                    Len(LastSaid(record)) <= MaxFrame
             PROVE  \/ EndsIn(buffer' \o line', LastSaid(record))
                    \/ line' = <<>> /\ Reads(record)'
  BY DEF LastFrameRead
<1>1. PICK i \in 1..11 : record = RECORDS[i]
  BY DEF Records, Known, ToSet, RECORDS
<1>2. PICK kind \in Kinds(i), seq \in Byte : LastSaid(record) = Encode(Says(i, truth, kind, seq))
  <2> DEFINE kind == IF reports = 1 THEN Reply(record) ELSE Notification(record)
             seq == (reports + 1) % 2
  <2>1. kind \in Kinds(i)
    BY <1>1 DEF Kinds
  <2>2. seq \in Byte
    BY DEF Byte, Inductive
  <2>3. LastSaid(record) = Encode(Says(i, truth, kind, seq))
    BY <1>1 DEF LastSaid, Says
  <2> QED BY <2>1, <2>2, <2>3
<1> DEFINE frame == LastSaid(record)
           a == buffer \o SubSeq(line, 1, n)
           b == From(line, n + 1)
<1>3. Has(truth, "sony-mdr") /\ DOMAIN state = FeaturesOf(driver)
  BY DEF Inductive
<1>4. Whole(frame)
  BY <1>2, <1>3, SaidIsMessage, EncodedWhole
<1>5. line \in Seq(Byte) /\ buffer \in Seq(Byte) /\ n \in 1..Len(line)
  BY DEF Inductive, Waiting, Begun, Receive
<1>6. /\ buffer' = Cut(a).rest /\ line' = b /\ state' = FoldLeft(Absorb, state, Cut(a).frames)
      /\ truth' = truth
  BY DEF Receive
<1>7. a \in Seq(Byte) /\ b \in Seq(Byte) /\ a \o b = buffer \o line
  <2>1. a \in Seq(Byte) /\ b \in Seq(Byte) /\ Joins(a, b, buffer \o line)
    BY <1>5, ReadApart
  <2> HIDE DEF a, b
  <2> QED BY <2>1 DEF Joins
<1> HIDE DEF a, b
<1>8. frame \in Seq(Byte) /\ EndsIn(a \o b, frame)
  BY <1>4, <1>7 DEF Whole
<1>9. Cut(a).rest \in Seq(Byte)
  BY <1>7, CutIs DEF Waiting, Begun
<1> HIDE DEF frame
<1>10. CASE b = <<>>
  <2>1. EndsIn(a, Encode(Says(i, truth, kind, seq)))
    BY <1>2, <1>7, <1>8, <1>10, EndsApart DEF frame
  <2>2. \A f \in RECORDS[i].provides :
          FoldLeft(Absorb, state, Cut(a).frames)[f] = truth[f]
            \/ (f = "battery" /\ truth[f] = 0)
    BY <1>3, <1>7, <2>1, LastIsRead
  <2>3. Reads(record)'
    BY <1>1, <1>6, <2>2 DEF Reads
  <2> QED BY <1>6, <1>10, <2>3
<1>11. CASE Len(frame) <= Len(b)
  <2>1. EndsIn(Cut(a).rest \o b, frame)
    BY <1>7, <1>8, <1>9, <1>11, EndsApart
  <2> QED BY <1>6, <2>1 DEF frame
<1>12. CASE b # <<>> /\ Len(b) < Len(frame)
  <2> DEFINE k == Len(frame) - Len(b)
             begun == SubSeq(frame, 1, k)
  <2>1. k \in 1..(Len(frame) - 1)
    BY <1>7, <1>8, <1>12
  <2>2. begun \in Begins(frame)
    BY <2>1 DEF Begins
  <2>3. EndsIn(a, begun)
    BY <1>7, <1>8, <1>12, EndsApart
  <2> HIDE DEF begun
  <2>4. EndsIn(Cut(a).rest, begun)
    BY <1>4, <1>7, <2>2, <2>3, BegunIsKept DEF frame
  <2>5. EndsIn(Cut(a).rest \o b, frame)
    BY <1>7, <1>8, <1>9, <1>12, <2>4, EndsApart DEF begun
  <2> QED BY <1>6, <2>5 DEF frame
<1>13. b = <<>> \/ Len(frame) <= Len(b) \/ (b # <<>> /\ Len(b) < Len(frame))
  BY <1>7, <1>8
<1> QED BY <1>10, <1>11, <1>12, <1>13

\* A change on the headset reports what the headset then has.
LEMMA ChangeReports ==
  ASSUME Inductive, WireAssumption, NEW news \in News[driver], Change(news)
  PROVE  /\ Has(Over(news.set, truth), driver)
         /\ \E record \in Records : record.id = news.id /\ Report(record, Over(news.set, truth))
<1>1. Within(news.set, driver) /\ driver \in {"sony-mdr", "fast-pair"}
  BY DEF WireAssumption, Inductive
<1>2. Has(Over(news.set, truth), driver)
  BY <1>1, OverHas DEF Inductive
<1> QED BY <1>2 DEF Change

\* A write makes the headset report what it was meant to do.
LEMMA WriteReports ==
  ASSUME Inductive, WireAssumption, NEW control \in DOMAIN Wishes,
         NEW value \in Wishes[control], Write(control, value)
  PROVE  LET t == Meant(control, value, truth)
         IN  /\ driver = "sony-mdr" /\ Has(t, driver)
             /\ control \in DOMAIN Askable /\ value \in Askable[control]
             /\ \E record \in Records : control \in record.provides /\ Report(record, t)
<1> DEFINE t == Meant(control, value, truth)
<1>1. Available(control) /\ ~Refused(control, value, state) /\ driver = "sony-mdr"
  BY DEF Write
<1>2. control \in {"ambient_level", "focus_on_voice"} => state.noise = "ambient"
  BY <1>1 DEF Available, TalkControls
<1>3. control \in DOMAIN Askable /\ value \in Askable[control]
  BY DEF WireAssumption
<1>4. PICK record \in Records :
         /\ control \in record.provides
         /\ \A f \in record.provides : state[f] = truth[f]
         /\ Report(record, Obeyed(EncodeControl(control, value, state), truth))
  BY DEF Write
<1>5. Has(truth, driver) /\ DOMAIN state = FeaturesOf(driver)
  BY DEF Inductive
<1>6. record \in ToSet(RECORDS)
  BY <1>1 DEF Records, Known
<1>7. Obeyed(EncodeControl(control, value, state), truth) = t
  BY <1>1, <1>2, <1>3, <1>4, <1>5, <1>6, WriteObeyed
<1>8. Has(t, driver)
  BY <1>1, <1>3, <1>5, MeantHas
<1> QED BY <1>1, <1>3, <1>4, <1>7, <1>8

\* Only a read makes what is under way less.
LEMMA OnlyReadsShorten ==
  ASSUME Inductive, WireAssumption, Next, Len(line') < Len(line)
  PROVE  \E n \in Nat : Receive(n)
<1>1. /\ line \in Seq(Byte) /\ Has(truth, driver) /\ driver \in {"sony-mdr", "fast-pair"}
      /\ Garbage \subseteq Seq(Byte) /\ DamagedTo \subseteq Byte /\ reports \in Nat
  BY DEF Inductive, WireAssumption
<1>2. ASSUME NEW bytes \in Seq(Byte), line' = line \o bytes PROVE FALSE
  <2>1. Len(line \o bytes) = Len(line) + Len(bytes) /\ Len(line) \in Nat /\ Len(bytes) \in Nat
    BY <1>1, ConcatProperties
  <2> QED BY <1>2, <2>1
<1>3. ASSUME NEW record \in Records, NEW t, Has(t, driver), Report(record, t) PROVE FALSE
  <2>1. FrameOf(record, t) \in Seq(Byte) /\ FrameOf(record, t) # <<>>
    BY <1>1, <1>3, FrameOfType
  <2>2. PICK bytes : line' = line \o bytes
                     /\ (bytes = FrameOf(record, t) \/ bytes \in Mangled(FrameOf(record, t)))
    BY <1>3 DEF Report
  <2> HIDE DEF Byte
  <2>3. bytes \in Seq(Byte)
    BY <1>1, <2>1, <2>2, MangledType
  <2> QED BY <1>2, <2>2, <2>3
<1>4. ASSUME NEW news \in News[driver], Change(news) PROVE FALSE
  <2>1. PICK record \in Records : Report(record, Over(news.set, truth))
    BY <1>4, ChangeReports
  <2> QED BY <1>3, <1>4, <2>1, ChangeReports
<1>5. ASSUME NEW control \in DOMAIN Wishes, NEW value \in Wishes[control],
             Write(control, value)
      PROVE  FALSE
  <2>1. PICK record \in Records : Report(record, Meant(control, value, truth))
    BY <1>5, WriteReports
  <2> QED BY <1>3, <1>5, <2>1, WriteReports
<1>6. ASSUME Noise PROVE FALSE
  BY <1>1, <1>2, <1>6 DEF Noise
<1>7. PICK n \in {1, Len(line)} : Receive(n)
  BY <1>4, <1>5, <1>6 DEF Next
<1>8. n \in Nat
  BY <1>1
<1> QED BY <1>7, <1>8

\* Whatever came before it, noise or damaged frames, and however the bytes are
\* cut into reads: the last frame under way is still to come or has been read,
\* and then the state says what the headset said (framing.py split and decode,
\* drivers/spec.py, device.py absorb).
THEOREM LastFrameGetsThrough == Spec => LastFramesRead
<1> DEFINE A == driver = "sony-mdr" /\ Len(line') < Len(line) => LastFrameRead
<1>1. Inductive /\ [Next]_vars => [A]_vars
  <2> SUFFICES ASSUME Inductive, Next, driver = "sony-mdr", Len(line') < Len(line)
               PROVE  LastFrameRead
    OBVIOUS
  <2>1. PICK n \in Nat : Receive(n)
    BY WireAssumption, OnlyReadsShorten
  <2> QED BY <2>1, WireAssumption, ReceiveKeepsLast
<1> QED BY <1>1, Invariance, PTL DEF Spec, LastFramesRead

-----------------------------------------------------------------------------
(* A headset that nothing disturbs *)

\* Places of the bytes, in order, the first before them all.
Places(e, n, bytes) ==
  /\ e \in [0..n -> 0..Len(bytes)] /\ e[0] = 0
  /\ \A j, k \in 0..n : j < k => e[j] < e[k]

\* The bytes between two of them.
Between(bytes, e, k) == SubSeq(bytes, e[k - 1] + 1, e[k])

\* They are a whole frame.
FrameAlone(bytes, e, k) ==
  /\ e[k - 1] + 2 <= e[k]
  /\ bytes[e[k - 1] + 1] = HEADER /\ bytes[e[k]] = TRAILER
  /\ \A i \in (e[k - 1] + 2)..(e[k] - 1) : bytes[i] \notin {HEADER, TRAILER}

\* Behind the last of them there is nothing, or a frame that has begun.
EndsOpen(bytes, at, maxFrame) ==
  /\ Len(bytes) - at <= maxFrame
  /\ at < Len(bytes) => /\ bytes[at + 1] = HEADER
                        /\ \A i \in (at + 2)..Len(bytes) : bytes[i] # TRAILER

\* A frame that begins where the cutting looks is the next one.
LEMMA NextIsCut ==
  ASSUME NEW bytes \in Seq(Byte), NEW n \in Nat, NEW e, Places(e, n, bytes),
         NEW k \in 1..n, FrameAlone(bytes, e, k)
  PROVE  LET at == e[k - 1] + 1
         IN  /\ at \in 1..(Len(bytes) + 1) /\ ~NoFrame(bytes, at)
             /\ EndAt(bytes, at) = e[k] /\ FrameAt(bytes, at) = Between(bytes, e, k)
<1> DEFINE a == e[k - 1]
           b == e[k]
           at == a + 1
           first == FirstAt(bytes, at)
           end == EndAt(bytes, at)
<1>1. a \in 0..Len(bytes) /\ b \in 0..Len(bytes) /\ Len(bytes) \in Nat
  <2>1. k - 1 \in 0..n /\ k \in 0..n
    OBVIOUS
  <2> QED BY <2>1 DEF Places
<1>2. /\ a + 2 <= b /\ bytes[a + 1] = HEADER /\ bytes[b] = TRAILER
      /\ \A i \in (a + 2)..(b - 1) : bytes[i] \notin {HEADER, TRAILER}
  BY DEF FrameAlone
<1> HIDE DEF a, b
<1>3. at \in Nat \ {0} /\ at \in 1..(Len(bytes) + 1) /\ at \in at..Len(bytes)
        /\ b \in (at + 1)..Len(bytes)
  BY <1>1, <1>2
<1>4. first = at
  <2>1. first \in {0} \cup at..Len(bytes)
          /\ (first = 0 => \A i \in at..Len(bytes) : bytes[i] # HEADER)
          /\ (first # 0 => \A i \in at..(first - 1) : bytes[i] # HEADER)
    BY <1>3, NextByteIs DEF FirstAt
  <2> HIDE DEF first
  <2>2. first # 0 /\ ~(at \in at..(first - 1))
    BY <1>2, <1>3, <2>1
  <2> QED BY <1>3, <2>1, <2>2
<1>5. end = b
  <2>1. end = NextByte(bytes, at + 1, TRAILER)
    BY <1>4 DEF EndAt
  <2>2. at + 1 \in Nat \ {0}
    BY <1>3
  <2>3. end \in {0} \cup (at + 1)..Len(bytes)
          /\ (end = 0 => \A i \in (at + 1)..Len(bytes) : bytes[i] # TRAILER)
          /\ (end # 0 => bytes[end] = TRAILER)
          /\ (end # 0 => \A i \in (at + 1)..(end - 1) : bytes[i] # TRAILER)
    BY <2>1, <2>2, NextByteIs
  <2> HIDE DEF end
  <2>4. end # 0 /\ ~(b \in (at + 1)..(end - 1)) /\ ~(end \in (a + 2)..(b - 1))
    BY <1>2, <1>3, <2>3
  <2> QED BY <1>1, <1>3, <2>3, <2>4
<1>6. Start(bytes, at, b) = at
  <2> DEFINE s == Start(bytes, at, b)
  <2>1. at \in 1..Len(bytes) /\ b \in 1..Len(bytes) /\ at < b
    BY <1>1, <1>2, <1>3
  <2>2. s \in at..(b - 1) /\ bytes[s] = HEADER
    BY <1>2, <2>1, StartIs
  <2> HIDE DEF s
  <2>3. ~(s \in (a + 2)..(b - 1))
    BY <1>2, <2>2
  <2>4. s = at
    BY <1>1, <2>1, <2>2, <2>3
  <2> QED BY <2>4 DEF s
<1>7. FrameAt(bytes, at) = SubSeq(bytes, at, b)
  <2>1. FrameAt(bytes, at) = SubSeq(bytes, Start(bytes, first, end), end)
    BY DEF FrameAt
  <2> QED BY <1>4, <1>5, <1>6, <2>1
<1>8. ~NoFrame(bytes, at)
  BY <1>3, <1>4, <1>5 DEF NoFrame
<1> QED BY <1>3, <1>5, <1>7, <1>8 DEF Between, a, b

\* Behind the last frame nothing is cut, and what has begun is kept.
LEMMA OpenIsKept ==
  ASSUME NEW bytes \in Seq(Byte), NEW maxFrame \in Nat, NEW a \in 0..Len(bytes),
         EndsOpen(bytes, a, maxFrame)
  PROVE  NoFrame(bytes, a + 1) /\ Kept(bytes, a + 1, maxFrame) = From(bytes, a + 1)
<1> DEFINE at == a + 1
           first == FirstAt(bytes, at)
           end == EndAt(bytes, at)
<1>1. at \in Nat \ {0} /\ at \in 1..(Len(bytes) + 1) /\ Len(bytes) \in Nat
  OBVIOUS
<1>2. first \in {0} \cup at..Len(bytes)
        /\ (first = 0 => \A i \in at..Len(bytes) : bytes[i] # HEADER)
        /\ (first # 0 => \A i \in at..(first - 1) : bytes[i] # HEADER)
  BY <1>1, NextByteIs DEF FirstAt
<1>3. CASE a = Len(bytes)
  <2>1. first = 0
    BY <1>1, <1>2, <1>3
  <2>2. From(bytes, at) = <<>>
    <3>1. From(bytes, at) \in Seq(Byte) /\ Len(From(bytes, at)) = Len(bytes) - at + 1
      BY <1>1, FromType
    <3>2. Len(From(bytes, at)) = 0
      BY <1>1, <1>3, <3>1
    <3> DEFINE z == From(bytes, at)
    <3> HIDE DEF z
    <3>3. z \in Seq(Byte) /\ Len(z) = 0
      BY <3>1, <3>2 DEF z
    <3>4. z = <<>>
      BY <3>3
    <3> QED BY <3>4 DEF z
  <2> QED BY <2>1, <2>2 DEF NoFrame, Kept
<1>4. CASE a < Len(bytes)
  <2>1. bytes[at] = HEADER /\ (\A i \in (at + 1)..Len(bytes) : bytes[i] # TRAILER)
          /\ Len(bytes) - at + 1 <= maxFrame
    <3>1. at + 1 = a + 2 /\ Len(bytes) - at + 1 = Len(bytes) - a
      BY <1>1
    <3> QED BY <1>4, <3>1 DEF EndsOpen
  <2>2. first = at
    <3> HIDE DEF first
    <3>1. at \in at..Len(bytes)
      BY <1>1, <1>4
    <3>2. first # 0 /\ ~(at \in at..(first - 1))
      BY <1>2, <2>1, <3>1
    <3> QED BY <1>1, <1>2, <3>2
  <2>3. end = 0
    <3>1. end = NextByte(bytes, at + 1, TRAILER) /\ at + 1 \in Nat \ {0}
      BY <1>1, <2>2 DEF EndAt
    <3>2. end \in {0} \cup (at + 1)..Len(bytes) /\ (end # 0 => bytes[end] = TRAILER)
      BY <3>1, NextByteIs
    <3> HIDE DEF end
    <3> QED BY <2>1, <3>2
  <2>4. Unfinished(From(bytes, at), maxFrame) = From(bytes, at)
    <3>1. Len(From(bytes, at)) = Len(bytes) - at + 1
      BY <1>1, FromType
    <3> QED BY <2>1, <3>1 DEF Unfinished
  <2>5. Kept(bytes, at, maxFrame) = From(bytes, at)
    <3>1. first # 0
      BY <1>1, <2>2
    <3> QED BY <2>2, <2>4, <3>1 DEF Kept
  <2>6. NoFrame(bytes, at)
    BY <2>3 DEF NoFrame
  <2> QED BY <2>5, <2>6
<1> QED BY <1>1, <1>3, <1>4

\* Frames one behind the other are cut one by one, and what has begun behind
\* them is kept.
LEMMA FramesAreCut ==
  ASSUME NEW bytes \in Seq(Byte), NEW maxFrame \in Nat, NEW n \in Nat, NEW e,
         Places(e, n, bytes), \A k \in 1..n : FrameAlone(bytes, e, k),
         EndsOpen(bytes, e[n], maxFrame)
  PROVE  /\ Split(bytes, maxFrame).frames = [k \in 1..n |-> Between(bytes, e, k)]
         /\ Split(bytes, maxFrame).rest = From(bytes, e[n] + 1)
<1>1. PICK f \in [1..(Len(bytes) + 1) -> Cuts(maxFrame)] :
        Cutting(f, bytes, maxFrame) /\ Split(bytes, maxFrame) = f[1]
  BY SplitRun
<1>2. \A k \in 0..n : e[k] \in 0..Len(bytes) /\ e[k] + 1 \in 1..(Len(bytes) + 1)
  BY DEF Places
<1> DEFINE fr(k) == Between(bytes, e, k)
           Good(i) == /\ f[e[n - i] + 1].frames = [x \in 1..i |-> fr(n - i + x)]
                      /\ f[e[n - i] + 1].rest = From(bytes, e[n] + 1)
           T == {i \in Nat : i <= n => Good(i)}
<1>3. 0 \in T
  <2>1. n - 0 = n /\ n \in 0..n /\ e[n] + 1 \in 1..(Len(bytes) + 1)
    BY <1>2
  <2>2. NoFrame(bytes, e[n] + 1) /\ Kept(bytes, e[n] + 1, maxFrame) = From(bytes, e[n] + 1)
    BY <1>2, <2>1, OpenIsKept
  <2>3. f[e[n] + 1] = [frames |-> <<>>, rest |-> From(bytes, e[n] + 1)]
    BY <1>1, <2>1, <2>2 DEF Cutting
  <2>4. [x \in 1..0 |-> fr(n - 0 + x)] = <<>>
    OBVIOUS
  <2> HIDE DEF fr
  <2> QED BY <2>1, <2>3, <2>4
<1>4. ASSUME NEW i \in Nat, i \in T PROVE i + 1 \in T
  <2> SUFFICES ASSUME i + 1 <= n PROVE Good(i + 1)
    OBVIOUS
  <2> DEFINE k == n - i
             at == e[k - 1] + 1
             next == e[k] + 1
  <2>1. /\ k \in 1..n /\ k - 1 = n - (i + 1) /\ k - 1 \in 0..n /\ k \in 0..n /\ i <= n
    OBVIOUS
  <2> HIDE DEF k
  <2>2. at \in 1..(Len(bytes) + 1) /\ ~NoFrame(bytes, at)
          /\ EndAt(bytes, at) = e[k] /\ FrameAt(bytes, at) = fr(k)
    BY <2>1, NextIsCut
  <2>3. f[at] = [frames |-> <<fr(k)>> \o f[next].frames, rest |-> f[next].rest]
    <3> HIDE DEF at, fr
    <3> QED BY <1>1, <2>2 DEF Cutting
  <2>4. f[next].frames = [x \in 1..i |-> fr(k + x)] /\ f[next].rest = From(bytes, e[n] + 1)
    BY <1>4, <2>1 DEF k
  <2>5. next \in 1..(Len(bytes) + 1) /\ f[next] \in Cuts(maxFrame)
    BY <1>1, <1>2, <2>1
  <2> DEFINE rest == f[next].frames
  <2>6. rest \in Seq(Seq(Byte)) /\ Len(rest) = i /\ \A x \in 1..i : rest[x] = fr(k + x)
    <3> HIDE DEF fr
    <3>1. rest \in Seq(Seq(Byte))
      BY <2>5 DEF Cuts
    <3>2. DOMAIN rest = 1..i /\ \A x \in 1..i : rest[x] = fr(k + x)
      BY <2>4
    <3> QED BY <3>1, <3>2
  <2>7. fr(k) \in Seq(Byte)
    BY <2>2, FrameFound
  <2> DEFINE all == <<fr(k)>> \o rest
             told == [x \in 1..(i + 1) |-> fr((k - 1) + x)]
  <2>8. all = told
    <3> DEFINE U == Seq(Byte)
    <3>1. fr(k) \in U /\ rest \in Seq(U)
      BY <2>6, <2>7
    <3> HIDE DEF U, rest, next
    <3>2. all \in Seq(U) /\ Len(all) = i + 1 /\ all[1] = fr(k)
            /\ \A x \in 1..i : all[x + 1] = rest[x]
      <4> HIDE DEF fr
      <4> QED BY <2>6, <3>1
    <3>3. ASSUME NEW x \in 1..(i + 1) PROVE all[x] = fr((k - 1) + x)
      <4>1. CASE x = 1
        <5>1. (k - 1) + x = k
          BY <2>1, <4>1
        <5> QED BY <3>2, <4>1, <5>1
      <4>2. CASE x # 1
        <5> DEFINE y == x - 1
        <5>1. y \in 1..i /\ y + 1 = x /\ k + y = (k - 1) + x
          BY <2>1, <4>2
        <5> HIDE DEF y, all, fr
        <5>2. all[y + 1] = rest[y] /\ rest[y] = fr(k + y)
          BY <2>6, <3>2, <5>1
        <5> QED BY <5>1, <5>2
      <4> QED BY <4>1, <4>2
    <3> HIDE DEF all, fr
    <3>4. DOMAIN all = 1..(i + 1)
      BY <3>2
    <3>5. all = [x \in 1..(i + 1) |-> all[x]]
      BY <3>2, <3>4
    <3> QED BY <3>3, <3>5
  <2>9. f[at].frames = told /\ f[at].rest = From(bytes, e[n] + 1)
    <3> HIDE DEF all, told, at, fr, next
    <3>1. f[at].frames = <<fr(k)>> \o rest /\ f[at].rest = f[next].rest
      BY <2>3
    <3> QED BY <2>4, <2>8, <3>1 DEF all
  <2> HIDE DEF fr
  <2> QED BY <2>1, <2>9
<1>5. n \in T
  <2> HIDE DEF T
  <2> QED BY <1>3, <1>4, NatSet
<1>6. n - n = 0 /\ e[0] = 0 /\ \A x \in 1..n : (n - n) + x = x
  BY DEF Places
<1>7. f[1].frames = [x \in 1..n |-> fr((n - n) + x)] /\ f[1].rest = From(bytes, e[n] + 1)
  <2>1. Good(n)
    BY <1>5
  <2>2. e[n - n] + 1 = 1
    BY <1>6
  <2> HIDE DEF fr
  <2> QED BY <2>1, <2>2
<1>8. [x \in 1..n |-> fr((n - n) + x)] = [x \in 1..n |-> fr(x)]
  <2> HIDE DEF fr
  <2> QED BY <1>6
<1> QED BY <1>1, <1>7, <1>8

\* A frame of x is in y, d bytes earlier.
Moved(x, e, k, y, g, l, d) ==
  /\ d \in Int
  /\ e[k - 1] \in 0..Len(x) /\ e[k] \in 0..Len(x) /\ FrameAlone(x, e, k)
  /\ g[l - 1] \in 0..Len(y) /\ g[l] \in 0..Len(y)
  /\ e[k - 1] = g[l - 1] + d /\ e[k] = g[l] + d
  /\ \A i \in (g[l - 1] + 1)..g[l] : y[i] = x[i + d]

\* A frame is the same wherever its bytes are.
LEMMA FrameMoves ==
  ASSUME NEW x \in Seq(Byte), NEW y \in Seq(Byte), NEW e, NEW k, NEW g, NEW l, NEW d,
         Moved(x, e, k, y, g, l, d)
  PROVE  FrameAlone(y, g, l) /\ Between(y, g, l) = Between(x, e, k)
<1> DEFINE a == g[l - 1]
           b == g[l]
           c == e[k - 1]
           h == e[k]
<1>1. /\ c \in 0..Len(x) /\ h \in 0..Len(x) /\ a \in 0..Len(y) /\ b \in 0..Len(y)
      /\ c = a + d /\ h = b + d /\ Len(x) \in Nat /\ Len(y) \in Nat
      /\ d \in Int /\ \A i \in (a + 1)..b : y[i] = x[i + d]
  BY DEF Moved
<1>2. /\ c + 2 <= h /\ x[c + 1] = HEADER /\ x[h] = TRAILER
      /\ \A i \in (c + 2)..(h - 1) : x[i] \notin {HEADER, TRAILER}
  BY DEF FrameAlone, Moved
<1> HIDE DEF a, b, c, h
<1>3. a + 2 <= b
  BY <1>1, <1>2
<1>4. y[a + 1] = HEADER /\ y[b] = TRAILER
  <2>1. a + 1 \in (a + 1)..b /\ b \in (a + 1)..b /\ (a + 1) + d = c + 1
    BY <1>1, <1>3
  <2> QED BY <1>1, <1>2, <2>1
<1>5. \A i \in (a + 2)..(b - 1) : y[i] \notin {HEADER, TRAILER}
  <2>1. a \in Int /\ b \in Int /\ d \in Int /\ c = a + d /\ h = b + d
    BY <1>1
  <2>2. ASSUME NEW i \in (a + 2)..(b - 1)
        PROVE  i \in (a + 1)..b /\ i + d \in (c + 2)..(h - 1)
    BY <2>1
  <2> QED BY <1>1, <1>2, <2>2
<1>6. SubSeq(y, a + 1, b) = SubSeq(x, c + 1, h)
  <2> DEFINE u == SubSeq(y, a + 1, b)
             v == SubSeq(x, c + 1, h)
             n == b - a
  <2>1. u \in Seq(Byte) /\ Len(u) = n /\ \A i \in 1..n : u[i] = y[a + i]
    BY <1>1, <1>3
  <2>2. v \in Seq(Byte) /\ Len(v) = n /\ \A i \in 1..n : v[i] = x[c + i]
    <3>1. n = h - c /\ c + 1 \in 1..Len(x) /\ h \in 1..Len(x) /\ c \in Nat /\ h \in Nat
      BY <1>1, <1>2
    <3> HIDE DEF n
    <3>2. v \in Seq(Byte) /\ Len(v) = h - c /\ \A i \in 1..(h - c) : v[i] = x[c + i]
      BY <1>2, <3>1
    <3> QED BY <3>1, <3>2
  <2> HIDE DEF u, v
  <2>3. \A i \in 1..n : a + i \in (a + 1)..b /\ (a + i) + d = c + i
    BY <1>1
  <2>4. \A i \in 1..Len(u) : u[i] = v[i]
    BY <1>1, <2>1, <2>2, <2>3
  <2>5. u = v
    BY <2>1, <2>2, <2>4, SeqEqual
  <2> QED BY <2>5 DEF u, v
<1> QED BY <1>3, <1>4, <1>5, <1>6 DEF FrameAlone, Between, a, b, c, h

\* The bytes are n whole frames, the places between them e, each with its message.
Framed(bytes, n, e, messages) ==
  /\ n \in Nat /\ Places(e, n, bytes) /\ e[n] = Len(bytes)
  /\ \A k \in 1..n : /\ FrameAlone(bytes, e, k) /\ e[k] - e[k - 1] <= MaxFrame
                     /\ Decode(Between(bytes, e, k)) = messages[k]

\* What is under way is n whole frames, and their messages take the reading s by
\* way of r to what the headset has, t, and on the way to nothing that it never
\* had.
Told(bytes, s, t, past, n, e, messages, r) ==
  /\ Framed(bytes, n, e, messages)
  /\ r[0] = s /\ Absorbed(r, n, messages)
  /\ \A k \in 0..n : /\ DOMAIN r[k] = FeaturesOf("sony-mdr")
                     /\ \A f \in FeaturesOf("sony-mdr") : r[k][f] \in past[f]
  /\ \A f \in FeaturesOf("sony-mdr") : r[n][f] = t[f] \/ (f = "battery" /\ t[f] = 0)

Undisturbed(bytes, s, t, past) ==
  \E n, e, messages, r : Told(bytes, s, t, past, n, e, messages, r)

\* A headset that had t has u and says so in a frame of the record that changed.
Announced(frame, t, u) ==
  \E i \in 1..11 : \E kind \in Kinds(i), seq \in Byte :
    /\ frame = Encode(Says(i, u, kind, seq)) /\ Len(frame) <= MaxFrame
    /\ \A f \in FeaturesOf("sony-mdr") \ RECORDS[i].provides : u[f] = t[f]

\* The values of u are among those that there have been.
Grown(now, past, u) == \A f \in FeaturesOf("sony-mdr") : now[f] = past[f] \cup {u[f]}

\* One report more is one frame more.
LEMMA ToldMore ==
  ASSUME driver = "sony-mdr", NEW bytes \in Seq(Byte), NEW s, NEW t, NEW past,
         Undisturbed(bytes, s, t, past),
         NEW u, Has(u, "sony-mdr"), NEW frame, Announced(frame, t, u),
         NEW now, Grown(now, past, u)
  PROVE  Undisturbed(bytes \o frame, s, u, now)
<1>a. PICK i \in 1..11 : \E kind \in Kinds(i), seq \in Byte :
        /\ frame = Encode(Says(i, u, kind, seq)) /\ Len(frame) <= MaxFrame
        /\ \A f \in FeaturesOf("sony-mdr") \ RECORDS[i].provides : u[f] = t[f]
  BY DEF Announced
<1>b. PICK kind \in Kinds(i), seq \in Byte :
        /\ frame = Encode(Says(i, u, kind, seq)) /\ Len(frame) <= MaxFrame
        /\ \A f \in FeaturesOf("sony-mdr") \ RECORDS[i].provides : u[f] = t[f]
  BY <1>a
<1>c. \A f \in FeaturesOf("sony-mdr") : now[f] = past[f] \cup {u[f]}
  BY DEF Grown
<1> DEFINE F == FeaturesOf("sony-mdr")
           m == Says(i, u, kind, seq)
           z == bytes \o frame
<1>1. PICK n, e, messages, r : Told(bytes, s, t, past, n, e, messages, r)
  BY DEF Undisturbed
<1> DEFINE g == [k \in 0..(n + 1) |-> IF k <= n THEN e[k] ELSE Len(z)]
           ms == [k \in 1..(n + 1) |-> IF k <= n THEN messages[k] ELSE m]
           q == [k \in 0..(n + 1) |-> IF k <= n THEN r[k] ELSE Absorb(r[n], m)]
<1>2. /\ n \in Nat /\ Places(e, n, bytes) /\ e[n] = Len(bytes)
      /\ \A k \in 1..n : /\ FrameAlone(bytes, e, k) /\ e[k] - e[k - 1] <= MaxFrame
                         /\ Decode(Between(bytes, e, k)) = messages[k]
      /\ r[0] = s /\ Absorbed(r, n, messages)
      /\ \A k \in 0..n : DOMAIN r[k] = F /\ \A f \in F : r[k][f] \in past[f]
      /\ \A f \in F : r[n][f] = t[f] \/ (f = "battery" /\ t[f] = 0)
  BY <1>1 DEF Told, Framed
<1>3. m \in Messages
  BY SaidIsMessage
<1>4. Whole(frame) /\ Decode(frame) = m
  BY <1>b, <1>3, EncodedWhole, RoundTrip
<1>5. frame \in Seq(Byte) /\ Len(frame) \in Nat /\ Len(frame) >= 2
  BY <1>4 DEF Whole
<1>6. /\ z \in Seq(Byte) /\ Len(z) = Len(bytes) + Len(frame) /\ Len(bytes) \in Nat
      /\ \A k \in 1..Len(bytes) : z[k] = bytes[k]
      /\ \A k \in 1..Len(frame) : z[Len(bytes) + k] = frame[k]
  <2>1. /\ z \in Seq(Byte) /\ Len(z) = Len(bytes) + Len(frame) /\ Len(bytes) \in Nat
        /\ \A k \in 1..(Len(bytes) + Len(frame)) :
             z[k] = IF k <= Len(bytes) THEN bytes[k] ELSE frame[k - Len(bytes)]
    BY <1>5, ConcatProperties
  <2> HIDE DEF z
  <2>2. ASSUME NEW k \in 1..Len(bytes) PROVE z[k] = bytes[k]
    BY <1>5, <2>1, <2>2
  <2>3. ASSUME NEW k \in 1..Len(frame) PROVE z[Len(bytes) + k] = frame[k]
    <3>1. /\ Len(bytes) + k \in 1..(Len(bytes) + Len(frame)) /\ ~(Len(bytes) + k <= Len(bytes))
          /\ (Len(bytes) + k) - Len(bytes) = k
      BY <1>5, <2>1
    <3> QED BY <2>1, <3>1
  <2> QED BY <2>1, <2>2, <2>3
<1> HIDE DEF z, m
<1>7. /\ \A k \in 0..n : g[k] = e[k] /\ q[k] = r[k]
      /\ g[n + 1] = Len(z) /\ q[n + 1] = Absorb(r[n], m)
      /\ \A k \in 1..n : ms[k] = messages[k]
      /\ ms[n + 1] = m
  <2>1. /\ \A k \in 0..n : k \in 0..(n + 1) /\ k <= n
        /\ n + 1 \in 0..(n + 1) /\ ~(n + 1 <= n) /\ n + 1 \in 1..(n + 1)
        /\ \A k \in 1..n : k \in 1..(n + 1) /\ k <= n
    BY <1>2
  <2> QED BY <2>1
<1> HIDE DEF ms, q
<1>8. \A k \in 0..n : e[k] \in 0..Len(bytes)
  BY <1>2 DEF Places
<1>9. Places(g, n + 1, z)
  <2>1. \A k \in 0..(n + 1) : k \in 0..n \/ k = n + 1
    BY <1>2
  <2>2. g \in [0..(n + 1) -> 0..Len(z)]
    <3>1. \A k \in 0..n : e[k] \in 0..Len(z)
      BY <1>5, <1>6, <1>8
    <3>2. Len(z) \in 0..Len(z)
      BY <1>6
    <3>3. \A k \in 0..(n + 1) : g[k] \in 0..Len(z)
      BY <1>7, <2>1, <3>1, <3>2
    <3> QED BY <3>3
  <2> HIDE DEF g
  <2>3. g[0] = 0
    BY <1>2, <1>7 DEF Places
  <2>4. ASSUME NEW j \in 0..(n + 1), NEW k \in 0..(n + 1), j < k PROVE g[j] < g[k]
    <3>1. j \in 0..n
      BY <1>2, <2>4
    <3>2. CASE k \in 0..n
      BY <1>2, <1>7, <2>4, <3>1, <3>2 DEF Places
    <3>3. CASE k = n + 1
      <4>1. e[j] \in 0..Len(bytes) /\ g[j] = e[j] /\ g[k] = Len(bytes) + Len(frame)
        BY <1>6, <1>7, <1>8, <3>1, <3>3
      <4> QED BY <1>5, <1>6, <4>1
    <3> QED BY <2>1, <3>2, <3>3
  <2> QED BY <2>2, <2>3, <2>4 DEF Places
<1>10. ASSUME NEW k \in 1..n
       PROVE  /\ FrameAlone(z, g, k) /\ g[k] - g[k - 1] <= MaxFrame
              /\ Decode(Between(z, g, k)) = ms[k]
  <2>1. k \in 0..n /\ k - 1 \in 0..n
    BY <1>2
  <2>2. g[k] = e[k] /\ g[k - 1] = e[k - 1] /\ e[k] \in 0..Len(bytes) /\ e[k - 1] \in 0..Len(bytes)
    BY <1>7, <1>8, <2>1
  <2> HIDE DEF g
  <2> DEFINE d == 0
  <2>3. /\ g[k - 1] \in 0..Len(z) /\ g[k] \in 0..Len(z)
        /\ e[k - 1] = g[k - 1] + d /\ e[k] = g[k] + d /\ d \in Int
    BY <1>5, <1>6, <2>2
  <2>4. \A x \in (g[k - 1] + 1)..g[k] : z[x] = bytes[x + d]
    <3>1. \A x \in (g[k - 1] + 1)..g[k] : x \in 1..Len(bytes) /\ x + d = x
      BY <1>6, <2>2
    <3> QED BY <1>6, <3>1
  <2>5. FrameAlone(bytes, e, k)
    BY <1>2
  <2> HIDE DEF d
  <2>6. Moved(bytes, e, k, z, g, k, d)
    BY <2>2, <2>3, <2>4, <2>5 DEF Moved
  <2>7. FrameAlone(z, g, k) /\ Between(z, g, k) = Between(bytes, e, k)
    BY <1>6, <2>6, FrameMoves
  <2> QED BY <1>2, <1>7, <2>2, <2>7
<1>11. /\ FrameAlone(z, g, n + 1) /\ g[n + 1] - g[(n + 1) - 1] <= MaxFrame
       /\ Decode(Between(z, g, n + 1)) = ms[n + 1]
  <2> DEFINE l == Len(bytes)
             w == Len(frame)
             d == l + w
  <2>1. g[n + 1] = d /\ g[(n + 1) - 1] = l
    <3>1. (n + 1) - 1 = n /\ n \in 0..n
      BY <1>2
    <3> HIDE DEF g
    <3> QED BY <1>2, <1>6, <1>7, <3>1
  <2> HIDE DEF g
  <2>2. l \in Nat /\ w \in Nat /\ w >= 2 /\ Len(z) = d
    BY <1>5, <1>6
  <2>3. /\ frame[1] = HEADER /\ frame[w] = TRAILER
        /\ \A x \in 2..(w - 1) : frame[x] \notin {HEADER, TRAILER}
    BY <1>4 DEF Whole
  <2>4. \A x \in 1..w : z[l + x] = frame[x]
    BY <1>6
  <2> HIDE DEF l, w
  <2>5. FrameAlone(z, g, n + 1)
    <3>1. 1 \in 1..w /\ w \in 1..w /\ l + 2 <= d
      BY <2>2
    <3>2. z[l + 1] = HEADER /\ z[d] = TRAILER
      BY <2>3, <2>4, <3>1
    <3>3. ASSUME NEW x \in (l + 2)..(d - 1) PROVE z[x] \notin {HEADER, TRAILER}
      <4> DEFINE y == x - l
      <4>1. y \in 2..(w - 1) /\ y \in 1..w /\ l + y = x
        BY <2>2
      <4> HIDE DEF y
      <4>2. z[l + y] = frame[y]
        BY <2>4, <4>1
      <4> QED BY <2>3, <4>1, <4>2
    <3> QED BY <2>1, <3>1, <3>2, <3>3 DEF FrameAlone
  <2>6. SubSeq(z, l + 1, d) = frame
    <3> DEFINE v == SubSeq(z, l + 1, d)
    <3>1. v \in Seq(Byte) /\ Len(v) = w /\ \A x \in 1..w : v[x] = z[l + x]
      BY <1>6, <2>2
    <3> HIDE DEF v
    <3>2. Len(v) = Len(frame) /\ \A x \in 1..Len(v) : v[x] = frame[x]
      BY <2>4, <3>1 DEF w
    <3>3. v = frame
      BY <1>5, <3>1, <3>2, SeqEqual
    <3> QED BY <3>3 DEF v
  <2>7. Between(z, g, n + 1) = frame
    BY <2>1, <2>6 DEF Between
  <2>8. d - l = Len(frame)
    BY <2>2 DEF w
  <2> QED BY <1>b, <1>4, <1>7, <2>1, <2>5, <2>7, <2>8
<1>12. \A k \in 1..(n + 1) : /\ FrameAlone(z, g, k) /\ g[k] - g[k - 1] <= MaxFrame
                             /\ Decode(Between(z, g, k)) = ms[k]
  <2> HIDE DEF g
  <2>1. \A k \in 1..(n + 1) : k \in 1..n \/ k = n + 1
    BY <1>2
  <2> QED BY <1>10, <1>11, <2>1
<1> HIDE DEF g
<1>13. q[0] = s
  <2>1. 0 \in 0..n
    BY <1>2
  <2> QED BY <1>2, <1>7, <2>1
<1>14. Absorbed(q, n + 1, ms)
  <2>1. ASSUME NEW k \in 1..(n + 1) PROVE q[k] = Absorb(q[k - 1], ms[k])
    <3>1. CASE k \in 1..n
      <4>1. k \in 0..n /\ k - 1 \in 0..n
        BY <1>2, <3>1
      <4> QED BY <1>2, <1>7, <3>1, <4>1 DEF Absorbed
    <3>2. CASE k = n + 1
      <4>1. k - 1 = n /\ n \in 0..n
        BY <1>2, <3>2
      <4> QED BY <1>7, <3>2, <4>1
    <3>3. k \in 1..n \/ k = n + 1
      BY <1>2
    <3> QED BY <3>1, <3>2, <3>3
  <2> QED BY <2>1 DEF Absorbed
<1> DEFINE last == Absorb(r[n], m)
<1>15. /\ DOMAIN last = F
       /\ \A f \in F : last[f] \in now[f]
       /\ \A f \in F : last[f] = u[f] \/ (f = "battery" /\ u[f] = 0)
  <2>1. n \in 0..n
    BY <1>2
  <2>2. DOMAIN r[n] = F /\ \A f \in F : r[n][f] \in past[f]
    BY <1>2, <2>1
  <2>3. /\ DOMAIN last = DOMAIN r[n]
        /\ \A f \in RECORDS[i].provides \cap DOMAIN r[n] :
             last[f] = u[f] \/ (f = "battery" /\ u[f] = 0 /\ last[f] = r[n][f])
        /\ \A f \in DOMAIN r[n] \ RECORDS[i].provides :
             last[f] = r[n][f] \/ (f = "noise_variant" /\ last[f] = u[f])
    BY SaidIsAbsorbed DEF m
  <2> HIDE DEF last, F
  <2>4. ASSUME NEW f \in F
        PROVE  last[f] \in now[f] /\ (last[f] = u[f] \/ (f = "battery" /\ u[f] = 0))
    <3>1. now[f] = past[f] \cup {u[f]}
      BY <1>c DEF F
    <3>2. CASE f \in RECORDS[i].provides
      BY <2>2, <2>3, <3>1, <3>2
    <3>3. CASE f \notin RECORDS[i].provides
      <4>1. u[f] = t[f]
        BY <1>b, <3>3 DEF F
      <4>2. r[n][f] = t[f] \/ (f = "battery" /\ t[f] = 0)
        BY <1>2 DEF F
      <4> QED BY <2>2, <2>3, <3>1, <3>3, <4>1, <4>2
    <3> QED BY <3>2, <3>3
  <2> QED BY <2>2, <2>3, <2>4
<1> HIDE DEF F
<1>16. \A k \in 0..(n + 1) : DOMAIN q[k] = F /\ \A f \in F : q[k][f] \in now[f]
  <2>1. \A k \in 0..(n + 1) : k \in 0..n \/ k = n + 1
    BY <1>2
  <2>2. \A f \in F : past[f] \subseteq now[f]
    BY <1>c DEF F
  <2> HIDE DEF last
  <2> QED BY <1>2, <1>7, <1>15, <2>1, <2>2 DEF last
<1>17. \A f \in F : q[n + 1][f] = u[f] \/ (f = "battery" /\ u[f] = 0)
  BY <1>7, <1>15
<1>18. Told(z, s, u, now, n + 1, g, ms, q)
  <2>1. n + 1 \in Nat
    BY <1>2
  <2> QED BY <1>7, <1>9, <1>12, <1>13, <1>14, <1>16, <1>17, <2>1 DEF Told, Framed, F
<1> QED BY <1>18 DEF Undisturbed, z

\* Where the last frame ends of which all is within the first p bytes.
LEMMA LastWithin ==
  ASSUME NEW bytes, NEW n \in Nat, NEW e, Places(e, n, bytes), NEW p \in Nat
  PROVE  \E j \in 0..n : e[j] <= p /\ (j = n \/ e[j + 1] > p)
<1> DEFINE s == {k \in 0..n : k = n \/ e[k + 1] > p}
           j == Min(s)
<1>1. e[0] = 0 /\ \A k \in 0..n : e[k] \in Int
  BY DEF Places
<1>2. s \in SUBSET Nat /\ n \in s
  OBVIOUS
<1>3. j \in s /\ \A x \in s : j <= x
  <2> HIDE DEF s
  <2> QED BY <1>2, MinIn
<1> HIDE DEF j
<1>4. e[j] <= p
  <2>1. CASE j = 0
    BY <1>1, <2>1
  <2>2. CASE j # 0
    <3>1. j - 1 \in 0..n /\ j - 1 \notin s /\ j - 1 # n /\ (j - 1) + 1 = j
      BY <1>3, <2>2
    <3>2. ~(e[(j - 1) + 1] > p)
      BY <3>1
    <3> QED BY <1>1, <1>3, <3>1, <3>2
  <2> QED BY <2>1, <2>2
<1> QED BY <1>3, <1>4

\* What is read of what is under way.
Prefix(a, b, bytes) ==
  /\ Len(a) <= Len(bytes) /\ Len(b) = Len(bytes) - Len(a)
  /\ \A i \in 1..Len(a) : a[i] = bytes[i]
  /\ \A i \in 1..Len(b) : b[i] = bytes[Len(a) + i]

\* The first j of them.
FirstOf(messages, j) == [k \in 1..j |-> messages[k]]

\* Of frames one behind the other, those that are read whole are cut, and the
\* rest is left.
LEMMA PrefixIsCut ==
  ASSUME driver = "sony-mdr", MaxFrame \in Nat,
         NEW a \in Seq(Byte), NEW b \in Seq(Byte), NEW bytes \in Seq(Byte), Prefix(a, b, bytes),
         NEW n \in Nat, NEW e, NEW messages, Framed(bytes, n, e, messages)
  PROVE  \E j \in 0..n : /\ e[j] <= Len(a)
                         /\ Cut(a).frames = FirstOf(messages, j)
                         /\ Cut(a).rest = From(a, e[j] + 1)
<1> DEFINE p == Len(a)
<1>0. /\ n \in Nat /\ Places(e, n, bytes) /\ e[n] = Len(bytes)
      /\ \A k \in 1..n : /\ FrameAlone(bytes, e, k) /\ e[k] - e[k - 1] <= MaxFrame
                         /\ Decode(Between(bytes, e, k)) = messages[k]
  BY DEF Framed
<1>1. p \in Nat /\ p <= Len(bytes) /\ Len(bytes) \in Nat /\ \A i \in 1..p : a[i] = bytes[i]
  BY DEF Prefix
<1>2. PICK j \in 0..n : e[j] <= p /\ (j = n \/ e[j + 1] > p)
  BY <1>0, <1>1, LastWithin
<1> HIDE DEF p
<1>3. /\ e \in [0..n -> 0..Len(bytes)] /\ e[0] = 0
      /\ \A x, y \in 0..n : x < y => e[x] < e[y]
  BY <1>0 DEF Places
<1> DEFINE g == [k \in 0..j |-> e[k]]
<1>4. /\ j \in Nat /\ \A k \in 0..j : k \in 0..n /\ g[k] = e[k] /\ e[k] \in 0..p
      /\ \A k \in 1..j : k \in 0..j /\ k - 1 \in 0..j /\ k \in 1..n
  <2>1. j \in Nat /\ \A k \in 0..j : k \in 0..n /\ k \in Int /\ (k < j \/ k = j)
    OBVIOUS
  <2>2. \A k \in 0..j : e[k] \in 0..Len(bytes) /\ (e[k] < e[j] \/ k = j)
    BY <1>3, <2>1
  <2>3. e[j] \in 0..Len(bytes)
    BY <1>3
  <2>4. ASSUME NEW k \in 0..j PROVE e[k] \in 0..p
    <3>1. e[k] \in Nat /\ e[j] \in Nat /\ (e[k] < e[j] \/ e[k] = e[j])
      BY <1>1, <2>2, <2>3
    <3>2. e[k] <= p
      BY <1>1, <1>2, <3>1
    <3> QED BY <1>1, <3>1, <3>2
  <2>5. \A k \in 1..j : k \in 0..j /\ k - 1 \in 0..j /\ k \in 1..n
    OBVIOUS
  <2> QED BY <2>1, <2>4, <2>5
<1>5. Places(g, j, a)
  <2>1. g \in [0..j -> 0..Len(a)] /\ g[0] = 0
    BY <1>3, <1>4 DEF p
  <2>2. \A x, y \in 0..j : x < y => g[x] < g[y]
    BY <1>3, <1>4
  <2> HIDE DEF g
  <2> QED BY <2>1, <2>2 DEF Places
<1> HIDE DEF g
<1>6. ASSUME NEW k \in 1..j
      PROVE  FrameAlone(a, g, k) /\ Between(a, g, k) = Between(bytes, e, k)
  <2> DEFINE d == 0
  <2>1. /\ g[k] = e[k] /\ g[k - 1] = e[k - 1] /\ e[k] \in 0..p /\ e[k - 1] \in 0..p
        /\ FrameAlone(bytes, e, k)
    BY <1>0, <1>4
  <2>2. /\ d \in Int /\ e[k] \in 0..Len(bytes) /\ e[k - 1] \in 0..Len(bytes)
        /\ g[k] \in 0..Len(a) /\ g[k - 1] \in 0..Len(a)
        /\ e[k - 1] = g[k - 1] + d /\ e[k] = g[k] + d
    BY <1>1, <2>1 DEF p
  <2>3. ASSUME NEW i \in (g[k - 1] + 1)..g[k] PROVE a[i] = bytes[i + d]
    <3>1. i \in 1..p /\ i + d = i
      BY <1>1, <2>1
    <3> QED BY <1>1, <3>1
  <2> HIDE DEF d
  <2>4. Moved(bytes, e, k, a, g, k, d)
    BY <2>1, <2>2, <2>3 DEF Moved
  <2> QED BY <2>4, FrameMoves
<1>7. EndsOpen(a, g[j], MaxFrame)
  <2>1. g[j] = e[j] /\ e[j] \in 0..p
    <3>1. j \in 0..j
      BY <1>4
    <3> QED BY <1>4, <3>1
  <2>2. CASE e[j] = p
    BY <1>1, <2>1, <2>2 DEF EndsOpen, p
  <2>3. CASE e[j] # p
    <3>1. e[j] < p /\ j + 1 \in 1..n /\ e[j + 1] > p /\ (j + 1) - 1 = j
      BY <1>0, <1>1, <1>2, <2>1, <2>3
    <3>2. FrameAlone(bytes, e, j + 1) /\ e[j + 1] - e[(j + 1) - 1] <= MaxFrame
      BY <1>0, <3>1
    <3> DEFINE c == e[j]
               h == e[j + 1]
    <3>3. /\ c + 2 <= h /\ bytes[c + 1] = HEADER /\ h - c <= MaxFrame
          /\ \A i \in (c + 2)..(h - 1) : bytes[i] \notin {HEADER, TRAILER}
      BY <3>1, <3>2 DEF FrameAlone
    <3>4. c \in 0..p /\ c < p /\ h > p /\ h \in Int
      <4>1. j + 1 \in 0..n
        BY <3>1
      <4> QED BY <1>3, <2>1, <3>1, <4>1
    <3> HIDE DEF c, h
    <3>5. p - c <= MaxFrame
      BY <1>1, <3>3, <3>4
    <3>6. a[c + 1] = HEADER
      <4>1. c + 1 \in 1..p
        BY <1>1, <3>4
      <4> QED BY <1>1, <3>3, <4>1
    <3>7. ASSUME NEW i \in (c + 2)..p PROVE a[i] # TRAILER
      <4>1. i \in 1..p /\ i \in (c + 2)..(h - 1)
        BY <1>1, <3>4
      <4> QED BY <1>1, <3>3, <4>1
    <3> QED BY <2>1, <3>5, <3>6, <3>7 DEF EndsOpen, p, c
  <2> QED BY <2>2, <2>3
<1>8. /\ Split(a, MaxFrame).frames = [k \in 1..j |-> Between(a, g, k)]
      /\ Split(a, MaxFrame).rest = From(a, g[j] + 1)
  <2>1. \A k \in 1..j : FrameAlone(a, g, k)
    BY <1>6
  <2>2. j \in Nat
    BY <1>4
  <2> QED BY <1>5, <1>7, <2>1, <2>2, FramesAreCut
<1> DEFINE cut == Split(a, MaxFrame)
<1>9. cut \in Cuts(MaxFrame)
  <2>1. 1 \in 1..(Len(a) + 1)
    BY <1>1 DEF p
  <2>2. PICK f \in [1..(Len(a) + 1) -> Cuts(MaxFrame)] : cut = f[1]
    BY SplitRun
  <2> QED BY <2>1, <2>2
<1>10. Cut(a) = [cut EXCEPT !.frames = [k \in DOMAIN cut.frames |-> Decode(cut.frames[k])]]
  BY DEF Cut
<1> HIDE DEF cut
<1>11. /\ Cut(a).rest = cut.rest
       /\ Cut(a).frames = [k \in DOMAIN cut.frames |-> Decode(cut.frames[k])]
  BY <1>9, <1>10 DEF Cuts
<1>12. cut.frames = [k \in 1..j |-> Between(a, g, k)] /\ cut.rest = From(a, g[j] + 1)
  BY <1>8 DEF cut
<1>13. DOMAIN cut.frames = 1..j /\ \A k \in 1..j : Decode(cut.frames[k]) = messages[k]
  BY <1>0, <1>4, <1>6, <1>12
<1>14. Cut(a).frames = [k \in 1..j |-> messages[k]]
  BY <1>11, <1>13
<1>15. g[j] = e[j]
  <2>1. j \in 0..j
    BY <1>4
  <2> QED BY <1>4, <2>1
<1> QED BY <1>2, <1>11, <1>12, <1>14, <1>15 DEF p, FirstOf

\* What is left behind the first c bytes, when part of it has been read.
LEMMA RestIs ==
  ASSUME NEW a \in Seq(Byte), NEW b \in Seq(Byte), NEW bytes \in Seq(Byte),
         Prefix(a, b, bytes), NEW c \in 0..Len(a)
  PROVE  LET z == From(a, c + 1) \o b
         IN  /\ z \in Seq(Byte) /\ Len(z) = Len(bytes) - c
             /\ \A i \in 1..(Len(bytes) - c) : z[i] = bytes[i + c]
<1> DEFINE w == From(a, c + 1)
           p == Len(a)
           l == Len(b)
           q == p - c
<1>1. /\ p \in Nat /\ l \in Nat /\ Len(bytes) = p + l /\ c \in 0..p
      /\ (\A i \in 1..p : a[i] = bytes[i]) /\ (\A i \in 1..l : b[i] = bytes[p + i])
  BY DEF Prefix
<1>2. w \in Seq(Byte) /\ Len(w) = q /\ \A i \in 1..q : w[i] = a[c + i]
  <2>1. c + 1 \in 1..(Len(a) + 1) /\ Len(a) - (c + 1) + 1 = q
    BY <1>1
  <2>2. w \in Seq(Byte) /\ Len(w) = q /\ \A i \in 1..q : w[i] = a[(c + 1) + i - 1]
    BY <2>1, FromType
  <2>3. \A i \in 1..q : (c + 1) + i - 1 = c + i
    BY <1>1
  <2> QED BY <2>2, <2>3
<1> DEFINE z == w \o b
<1>3. /\ z \in Seq(Byte) /\ Len(z) = q + l
      /\ \A i \in 1..(q + l) : z[i] = IF i <= q THEN w[i] ELSE b[i - q]
  <2>1. /\ z \in Seq(Byte) /\ Len(z) = Len(w) + Len(b)
        /\ \A i \in 1..(Len(w) + Len(b)) : z[i] = IF i <= Len(w) THEN w[i] ELSE b[i - Len(w)]
    BY <1>2, ConcatProperties
  <2> HIDE DEF z, w
  <2> QED BY <1>2, <2>1
<1> HIDE DEF z, w, p, l
<1>4. q + l = Len(bytes) - c /\ q \in Nat
  BY <1>1
<1>5. ASSUME NEW i \in 1..(q + l) PROVE z[i] = bytes[i + c]
  <2>1. CASE i <= q
    <3>1. i \in 1..q /\ c + i \in 1..p /\ c + i = i + c
      BY <1>1, <1>4, <2>1
    <3> QED BY <1>1, <1>2, <1>3, <2>1, <3>1
  <2>2. CASE ~(i <= q)
    <3>1. i - q \in 1..l /\ p + (i - q) = i + c
      BY <1>1, <1>4, <2>2
    <3> QED BY <1>1, <1>3, <2>2, <3>1
  <2> QED BY <2>1, <2>2
<1> QED BY <1>3, <1>4, <1>5 DEF z, w

\* What is read in two goes is what is read.
LEMMA RunIs ==
  ASSUME NEW j \in Nat, NEW messages, DOMAIN messages = 1..j, NEW r, Absorbed(r, j, messages)
  PROVE  FoldLeft(Absorb, r[0], messages) = r[j]
<1>1. PICK q : /\ q[0] = r[0] /\ q[j] = FoldLeft(Absorb, r[0], messages)
               /\ Absorbed(q, j, messages)
  BY AbsorbRun
<1> DEFINE T == {k \in Nat : k <= j => q[k] = r[k]}
<1>2. 0 \in T
  BY <1>1
<1>3. ASSUME NEW k \in Nat, k \in T PROVE k + 1 \in T
  <2> SUFFICES ASSUME k + 1 <= j PROVE q[k + 1] = r[k + 1]
    OBVIOUS
  <2>1. k + 1 \in 1..j /\ (k + 1) - 1 = k /\ q[k] = r[k]
    BY <1>3
  <2> QED BY <1>1, <2>1 DEF Absorbed
<1>4. j \in T
  <2> HIDE DEF T
  <2> QED BY <1>2, <1>3, NatSet
<1> QED BY <1>1, <1>4

\* A read takes what it has of the frames, and the rest is still to come.
LEMMA ToldRead ==
  ASSUME driver = "sony-mdr", MaxFrame \in Nat,
         NEW a \in Seq(Byte), NEW b \in Seq(Byte), NEW bytes \in Seq(Byte), Prefix(a, b, bytes),
         NEW s, NEW t, NEW past, Undisturbed(bytes, s, t, past)
  PROVE  Undisturbed(Cut(a).rest \o b, FoldLeft(Absorb, s, Cut(a).frames), t, past)
<1> DEFINE F == FeaturesOf("sony-mdr")
<1>1. PICK n, e, messages, r : Told(bytes, s, t, past, n, e, messages, r)
  BY DEF Undisturbed
<1>2. /\ n \in Nat /\ Places(e, n, bytes) /\ e[n] = Len(bytes)
      /\ \A k \in 1..n : /\ FrameAlone(bytes, e, k) /\ e[k] - e[k - 1] <= MaxFrame
                         /\ Decode(Between(bytes, e, k)) = messages[k]
      /\ r[0] = s /\ Absorbed(r, n, messages)
      /\ \A k \in 0..n : DOMAIN r[k] = F /\ \A f \in F : r[k][f] \in past[f]
      /\ \A f \in F : r[n][f] = t[f] \/ (f = "battery" /\ t[f] = 0)
  BY <1>1 DEF Told, Framed
<1> HIDE DEF F
<1>3. PICK j \in 0..n : /\ e[j] <= Len(a)
                        /\ Cut(a).frames = FirstOf(messages, j)
                        /\ Cut(a).rest = From(a, e[j] + 1)
  BY <1>1, <1>2, PrefixIsCut DEF Told
<1>4. /\ e \in [0..n -> 0..Len(bytes)] /\ e[0] = 0
      /\ \A x, y \in 0..n : x < y => e[x] < e[y]
  BY <1>2 DEF Places
<1>5. FoldLeft(Absorb, s, Cut(a).frames) = r[j]
  <2> DEFINE ms == [k \in 1..j |-> messages[k]]
  <2>1. j \in Nat /\ \A k \in 1..j : k \in 1..n
    BY <1>2
  <2>2. DOMAIN ms = 1..j /\ \A k \in 1..j : ms[k] = messages[k]
    OBVIOUS
  <2> HIDE DEF ms
  <2>3. Absorbed(r, j, ms)
    BY <1>2, <2>1, <2>2 DEF Absorbed
  <2>4. FoldLeft(Absorb, r[0], ms) = r[j]
    BY <2>1, <2>2, <2>3, RunIs
  <2> QED BY <1>2, <1>3, <2>4 DEF ms, FirstOf
<1> DEFINE c == e[j]
           z == From(a, c + 1) \o b
<1>6. c \in 0..Len(a) /\ c \in 0..Len(bytes) /\ Len(bytes) \in Nat /\ Len(a) \in Nat
  BY <1>3, <1>4
<1>7. z \in Seq(Byte) /\ Len(z) = Len(bytes) - c
        /\ \A i \in 1..(Len(bytes) - c) : z[i] = bytes[i + c]
  <2> HIDE DEF c
  <2> QED BY <1>6, RestIs
<1> HIDE DEF z
<1> DEFINE l == n - j
           g == [k \in 0..l |-> e[k + j] - c]
           ms == [k \in 1..l |-> messages[k + j]]
           q == [k \in 0..l |-> r[k + j]]
<1>8. /\ l \in Nat /\ j \in Nat /\ 0 \in 0..l /\ l \in 0..l /\ 0 + j = j /\ l + j = n
      /\ \A k \in 0..l : k \in Nat /\ k + j \in 0..n /\ (k = 0 \/ j < k + j)
      /\ \A k \in 1..l : /\ k + j \in 1..n /\ k \in 0..l /\ k - 1 \in 0..l
                         /\ (k - 1) + j = (k + j) - 1
  BY <1>2
<1>9. /\ \A k \in 0..l : g[k] = e[k + j] - c /\ q[k] = r[k + j]
      /\ \A k \in 1..l : ms[k] = messages[k + j]
  OBVIOUS
<1> HIDE DEF ms, q
<1>10. ASSUME NEW k \in 0..l PROVE e[k + j] \in 0..Len(bytes) /\ c <= e[k + j]
  <2>1. k + j \in 0..n /\ (k = 0 \/ j < k + j)
    BY <1>8
  <2>2. e[k + j] \in 0..Len(bytes)
    BY <1>4, <2>1
  <2>3. CASE k = 0
    BY <1>6, <1>8, <2>2, <2>3
  <2>4. CASE j < k + j
    <3>1. e[j] < e[k + j]
      BY <1>4, <2>1, <2>4
    <3> QED BY <1>6, <2>2, <3>1
  <2> QED BY <2>1, <2>2, <2>3, <2>4
<1>11. \A k \in 0..l : g[k] \in 0..Len(z) /\ e[k + j] = g[k] + c
  <2> SUFFICES ASSUME NEW k \in 0..l PROVE g[k] \in 0..Len(z) /\ e[k + j] = g[k] + c
    OBVIOUS
  <2>1. g[k] = e[k + j] - c
    BY <1>9
  <2> HIDE DEF g, c
  <2> QED BY <1>6, <1>7, <1>10, <2>1
<1>12. Places(g, l, z) /\ g[l] = Len(z)
  <2>1. g \in [0..l -> 0..Len(z)]
    BY <1>11
  <2>2. g[0] = 0
    BY <1>6, <1>8, <1>9
  <2>3. g[l] = Len(z)
    BY <1>2, <1>7, <1>8, <1>9
  <2> HIDE DEF g
  <2>4. ASSUME NEW x \in 0..l, NEW y \in 0..l, x < y PROVE g[x] < g[y]
    <3>1. x + j \in 0..n /\ y + j \in 0..n /\ x + j < y + j
      BY <1>8, <2>4
    <3>2. e[x + j] < e[y + j]
      BY <1>4, <3>1
    <3> HIDE DEF c
    <3> QED BY <1>6, <1>9, <1>10, <3>2
  <2> QED BY <2>1, <2>2, <2>3, <2>4 DEF Places
<1> HIDE DEF g
<1>13. ASSUME NEW k \in 1..l
       PROVE  /\ FrameAlone(z, g, k) /\ g[k] - g[k - 1] <= MaxFrame
              /\ Decode(Between(z, g, k)) = ms[k]
  <2> DEFINE i == k + j
  <2>1. i \in 1..n /\ k \in 0..l /\ k - 1 \in 0..l /\ (k - 1) + j = i - 1
    BY <1>8
  <2>2. /\ g[k] \in 0..Len(z) /\ e[i] = g[k] + c
        /\ g[k - 1] \in 0..Len(z) /\ e[i - 1] = g[k - 1] + c
    <3>1. g[k] \in 0..Len(z) /\ e[k + j] = g[k] + c
      BY <1>11, <2>1
    <3>2. g[k - 1] \in 0..Len(z) /\ e[(k - 1) + j] = g[k - 1] + c
      BY <1>11, <2>1
    <3> QED BY <2>1, <3>1, <3>2
  <2>3. e[i] \in 0..Len(bytes) /\ e[i - 1] \in 0..Len(bytes)
    <3>1. i \in 0..n /\ i - 1 \in 0..n
      BY <1>2, <2>1
    <3> QED BY <1>4, <3>1
  <2> HIDE DEF i
  <2>4. FrameAlone(bytes, e, i) /\ e[i] - e[i - 1] <= MaxFrame
          /\ Decode(Between(bytes, e, i)) = messages[i]
    BY <1>2, <2>1
  <2> HIDE DEF c
  <2>5. \A x \in (g[k - 1] + 1)..g[k] : z[x] = bytes[x + c]
    <3>1. g[k] \in Int /\ g[k - 1] \in Nat /\ g[k] <= Len(bytes) - c
      BY <1>7, <2>2
    <3>2. \A x \in (g[k - 1] + 1)..g[k] : x \in 1..(Len(bytes) - c)
      BY <1>6, <3>1
    <3> QED BY <1>7, <3>2
  <2>6. Moved(bytes, e, i, z, g, k, c)
    BY <1>6, <2>2, <2>3, <2>4, <2>5 DEF Moved
  <2>7. FrameAlone(z, g, k) /\ Between(z, g, k) = Between(bytes, e, i)
    BY <1>7, <2>6, FrameMoves
  <2>8. g[k] - g[k - 1] = e[i] - e[i - 1]
    BY <1>6, <2>2
  <2>9. ms[k] = messages[i]
    BY <1>9 DEF i
  <2> QED BY <2>4, <2>7, <2>8, <2>9
<1>14. q[0] = r[j]
  BY <1>8, <1>9
<1>15. Absorbed(q, l, ms)
  <2>1. ASSUME NEW k \in 1..l PROVE q[k] = Absorb(q[k - 1], ms[k])
    <3> DEFINE i == k + j
    <3>1. i \in 1..n /\ k \in 0..l /\ k - 1 \in 0..l /\ (k - 1) + j = i - 1
      BY <1>8
    <3>2. q[k] = r[i] /\ q[k - 1] = r[i - 1] /\ ms[k] = messages[i]
      <4>1. q[k - 1] = r[(k - 1) + j]
        BY <1>9, <3>1
      <4>2. q[k] = r[i] /\ ms[k] = messages[i]
        BY <1>9, <3>1
      <4> QED BY <3>1, <4>1, <4>2
    <3> HIDE DEF i
    <3> QED BY <1>2, <3>1, <3>2 DEF Absorbed
  <2> QED BY <2>1 DEF Absorbed
<1>16. \A k \in 0..l : DOMAIN q[k] = F /\ \A f \in F : q[k][f] \in past[f]
  <2> SUFFICES ASSUME NEW k \in 0..l
               PROVE  DOMAIN q[k] = F /\ \A f \in F : q[k][f] \in past[f]
    OBVIOUS
  <2>1. q[k] = r[k + j] /\ k + j \in 0..n
    BY <1>8, <1>9
  <2> QED BY <1>2, <2>1
<1>17. \A f \in F : q[l][f] = t[f] \/ (f = "battery" /\ t[f] = 0)
  <2>1. q[l] = r[n]
    BY <1>8, <1>9
  <2> QED BY <1>2, <2>1
<1>18. Told(z, r[j], t, past, l, g, ms, q)
  BY <1>8, <1>12, <1>13, <1>14, <1>15, <1>16, <1>17 DEF Told, Framed, F
<1>19. Undisturbed(z, r[j], t, past)
  BY <1>18 DEF Undisturbed
<1>20. z = Cut(a).rest \o b
  BY <1>3 DEF z
<1> QED BY <1>5, <1>19, <1>20

\* Of a sequence in two parts, the first is what has been read.
LEMMA JoinedIsRead ==
  ASSUME NEW a \in Seq(Byte), NEW b \in Seq(Byte), NEW bytes \in Seq(Byte), Joins(a, b, bytes)
  PROVE  Prefix(a, b, bytes)
<1> DEFINE ab == a \o b
<1>1. bytes = ab
  BY DEF Joins
<1>2. /\ Len(ab) = Len(a) + Len(b)
      /\ \A i \in 1..(Len(a) + Len(b)) : ab[i] = IF i <= Len(a) THEN a[i] ELSE b[i - Len(a)]
  BY ConcatProperties
<1> HIDE DEF ab
<1> DEFINE p == Len(a)
           l == Len(b)
<1>3. p \in Nat /\ l \in Nat /\ Len(bytes) = p + l
  BY <1>1, <1>2
<1>4. \A i \in 1..(p + l) : bytes[i] = IF i <= p THEN a[i] ELSE b[i - p]
  BY <1>1, <1>2
<1> HIDE DEF p, l
<1>5. \A i \in 1..p : a[i] = bytes[i]
  BY <1>3, <1>4
<1>6. \A i \in 1..l : b[i] = bytes[p + i]
  <2> SUFFICES ASSUME NEW i \in 1..l PROVE b[i] = bytes[p + i]
    OBVIOUS
  <2>1. p + i \in 1..(p + l) /\ ~(p + i <= p) /\ (p + i) - p = i
    BY <1>3
  <2> QED BY <1>4, <2>1
<1> QED BY <1>3, <1>5, <1>6 DEF Prefix, p, l

\* A write changes settings of one record only.
LEMMA MeantKeeps ==
  ASSUME NEW t, Has(t, "sony-mdr"), NEW control \in DOMAIN Askable,
         NEW value, NEW record \in ToSet(RECORDS), control \in record.provides
  PROVE  \A f \in FeaturesOf("sony-mdr") \ record.provides : Meant(control, value, t)[f] = t[f]
<1> SUFFICES ASSUME NEW f \in FeaturesOf("sony-mdr"), f \notin record.provides
             PROVE  Meant(control, value, t)[f] = t[f]
  OBVIOUS
<1> DEFINE u == Meant(control, value, t)
<1>0. f \in DOMAIN t /\ f # control
  BY DEF Has
<1>1. CASE control = "ambient_level"
  <2>1. u = [t EXCEPT !.ambient_level = Clamp(value, 0, 20)]
    BY <1>1 DEF Meant
  <2> QED BY <1>0, <1>1, <2>1
<1>2. CASE control \in {"eq_bands", "eq_clear_bass"}
  <2>1. f # "eq_preset"
    BY <1>2, ProvidesIs DEF CurveControls
  <2>2. CASE control = "eq_bands"
    <3> DEFINE curve == [i \in DOMAIN value |-> Clamp(value[i], -10, 10)]
    <3>1. u = [t EXCEPT !.eq_bands = curve, !.eq_preset = "manual"]
      BY <2>2 DEF Meant
    <3> HIDE DEF curve
    <3> QED BY <1>0, <2>1, <2>2, <3>1
  <2>3. CASE control = "eq_clear_bass"
    <3> DEFINE new == <<Clamp(value[1], -10, 10)>>
    <3>1. u = [t EXCEPT !.eq_clear_bass = new, !.eq_preset = "manual"]
      BY <2>3 DEF Meant
    <3> HIDE DEF new
    <3> QED BY <1>0, <2>1, <2>3, <3>1
  <2> QED BY <1>2, <2>2, <2>3
<1>3. CASE control \notin {"ambient_level", "eq_bands", "eq_clear_bass"}
  <2>1. u = [t EXCEPT ![control] = value]
    BY <1>3 DEF Meant
  <2> QED BY <1>0, <2>1
<1> QED BY <1>1, <1>2, <1>3

\* What nothing has disturbed so far goes on as the headset said it.
Faithful ==
  /\ Inductive /\ faults \in Nat /\ DOMAIN was = FeaturesOf(driver)
  /\ driver = "sony-mdr" /\ faults = 0 =>
       Undisturbed(buffer \o line, state, truth, was)

\* At first there is nothing under way.
LEMMA FaithfulInit == Init /\ WireAssumption => Faithful
<1> SUFFICES ASSUME Init, WireAssumption PROVE Faithful
  OBVIOUS
<1>1. Inductive
  BY InductiveInit
<1>2. /\ faults = 0 /\ line = <<>> /\ buffer = <<>> /\ state = truth
      /\ was = [f \in DOMAIN truth |-> {truth[f]}] /\ DOMAIN truth = FeaturesOf(driver)
  BY <1>1 DEF Init, Inductive, Has
<1>3. ASSUME driver = "sony-mdr" PROVE Undisturbed(buffer \o line, state, truth, was)
  <2> DEFINE F == FeaturesOf("sony-mdr")
             bytes == buffer \o line
             e == [k \in 0..0 |-> 0]
             r == [k \in 0..0 |-> state]
             n == 0
             messages == <<>>
  <2>1. bytes \in Seq(Byte) /\ Len(bytes) = 0
    BY <1>2
  <2>2. \A k \in 0..n : k = 0
    OBVIOUS
  <2>3. 0 \in 0..n /\ e[0] = 0 /\ r[0] = state /\ ~\E k : k \in 1..n
    OBVIOUS
  <2>4. e \in [0..n -> 0..Len(bytes)]
    BY <2>1
  <2>5. DOMAIN state = F /\ \A f \in F : state[f] = truth[f] /\ state[f] \in was[f]
    BY <1>2, <1>3
  <2> HIDE DEF F, bytes, e, r, n, messages
  <2>6. Places(e, n, bytes)
    <3>1. \A j, k \in 0..n : ~(j < k)
      BY <2>2
    <3> QED BY <2>3, <2>4, <3>1 DEF Places
  <2>7. Framed(bytes, n, e, messages)
    <3>1. n = 0
      BY DEF n
    <3> QED BY <2>1, <2>3, <2>6, <3>1 DEF Framed
  <2>8. Told(bytes, state, truth, was, n, e, messages, r)
    <3>1. n = 0
      BY DEF n
    <3>2. Absorbed(r, n, messages)
      BY <2>3 DEF Absorbed
    <3>3. \A k \in 0..n : DOMAIN r[k] = F /\ \A f \in F : r[k][f] \in was[f]
      BY <2>2, <2>3, <2>5
    <3>4. \A f \in F : r[n][f] = truth[f]
      BY <2>3, <2>5, <3>1
    <3> QED BY <2>3, <2>7, <3>2, <3>3, <3>4 DEF Told, F
  <2> QED BY <2>8 DEF Undisturbed, bytes
<1> QED BY <1>1, <1>2, <1>3 DEF Faithful

\* A report of a record is one frame more, and the rest stays as it was.
LEMMA FaithfulReport ==
  ASSUME Faithful, WireAssumption, MaxFrame >= 276, driver = "sony-mdr", faults = 0,
         NEW u, Has(u, "sony-mdr"), NEW record \in Records, Report(record, u), faults' = 0,
         \A f \in FeaturesOf("sony-mdr") \ record.provides : u[f] = truth[f],
         UNCHANGED <<buffer, state>>
  PROVE  Undisturbed(buffer' \o line', state', truth', was')
<1>1. PICK i \in 1..11 : record = RECORDS[i]
  BY DEF Records, Known, ToSet, RECORDS
<1> DEFINE kind == IF reports = 0 THEN Reply(record) ELSE Notification(record)
           seq == reports % 2
           frame == FrameOf(record, u)
<1>2. kind \in Kinds(i) /\ seq \in Byte
  <2>1. kind \in Kinds(i)
    BY <1>1 DEF Kinds
  <2>2. seq \in Byte
    BY DEF Byte, Faithful, Inductive
  <2> QED BY <2>1, <2>2
<1>3. frame = Encode(Says(i, u, kind, seq))
  BY <1>1 DEF FrameOf, Says
<1>4. /\ buffer = <<>> /\ line' = line \o frame /\ truth' = u
      /\ was' = [f \in DOMAIN was |-> was[f] \cup {u[f]}]
  BY DEF Report
<1> HIDE DEF kind, seq, frame
<1>5. /\ MaxFrame \in Nat /\ line \in Seq(Byte) /\ DOMAIN was = FeaturesOf("sony-mdr")
      /\ Undisturbed(buffer \o line, state, truth, was)
  BY DEF WireAssumption, Faithful, Inductive
<1>6. Len(frame) <= MaxFrame /\ frame \in Seq(Byte)
  <2>1. Says(i, u, kind, seq) \in Messages /\ Len(frame) <= 276
    BY <1>2, <1>3, SaidIsMessage
  <2>2. frame \in Seq(Byte)
    BY <1>3, <2>1, EncodeShape
  <2> QED BY <1>5, <2>1, <2>2, EncodeShape
<1>7. \A f \in FeaturesOf("sony-mdr") : was'[f] = was[f] \cup {u[f]}
  BY <1>4, <1>5
<1> DEFINE bytes == buffer \o line
           now == was'
           t == truth
<1>8. bytes \in Seq(Byte) /\ buffer' \o line' = bytes \o frame
  BY <1>4, <1>5, <1>6
<1>9. Undisturbed(bytes \o frame, state, u, now)
  <2> HIDE DEF bytes, now
  <2>1. Undisturbed(bytes, state, truth, was)
    BY <1>5 DEF bytes
  <2>2. Grown(now, was, u)
    BY <1>7 DEF now, Grown
  <2>3. Announced(frame, truth, u)
    BY <1>1, <1>2, <1>3, <1>6 DEF Announced
  <2> QED BY <1>8, <2>1, <2>2, <2>3, ToldMore
<1> QED BY <1>4, <1>8, <1>9

\* What a message makes of a reading depends on the driver alone.
LEMMA SameDriver ==
  ASSUME driver' = driver, Undisturbed(buffer' \o line', state', truth', was')
  PROVE  Undisturbed(buffer \o line, state, truth, was)'
<1>1. PICK n, e, messages, r :
        Told(buffer' \o line', state', truth', was', n, e, messages, r)
  BY DEF Undisturbed
<1>2. ASSUME NEW CONSTANT old, NEW CONSTANT message
      PROVE  Absorb(old, message)' = Absorb(old, message)
  <2>1. Known' = Known
    BY DEF Known
  <2>2. ASSUME NEW CONSTANT record PROVE Reading(record, message)' = Reading(record, message)
    BY DEF Reading
  <2>3. ASSUME NEW CONSTANT values PROVE Applied(values, old)' = Applied(values, old)
    BY DEF Applied
  <2> QED BY <2>1, <2>2, <2>3 DEF Absorb
<1>3. Absorbed(r, n, messages)'
  BY <1>1, <1>2 DEF Told, Absorbed
<1>4. Told(buffer \o line, state, truth, was, n, e, messages, r)'
  BY <1>1, <1>3 DEF Told
<1> QED BY <1>4 DEF Undisturbed

\* Every step keeps it: one case for each action.
LEMMA FaithfulStep ==
  ASSUME Faithful, WireAssumption, NewsAssumption, MaxFrame >= 276, [Next]_vars
  PROVE  Faithful'
<1>0. Inductive /\ faults \in Nat /\ DOMAIN was = FeaturesOf(driver) /\ MaxFrame \in Nat
  BY DEF Faithful, WireAssumption
<1>1. Inductive'
  BY <1>0, InductiveStep
<1>2. ASSUME NEW record, NEW t, Report(record, t), UNCHANGED driver
      PROVE  /\ faults' \in Nat /\ (DOMAIN was = FeaturesOf(driver))'
             /\ (faults' = 0 => faults = 0)
  <2>1. faults' \in {faults, faults + 1} /\ DOMAIN was' = DOMAIN was
    BY <1>2 DEF Report
  <2> QED BY <1>0, <1>2, <2>1
<1>3. ASSUME NEW n \in {1, Len(line)}, Receive(n)
      PROVE  /\ faults' \in Nat /\ (DOMAIN was = FeaturesOf(driver))'
             /\ driver' = "sony-mdr" /\ faults' = 0 =>
                  Undisturbed(buffer' \o line', state', truth', was')
  <2>1. /\ n \in 1..Len(line) /\ UNCHANGED <<driver, truth, faults, was>>
        /\ line' = From(line, n + 1) /\ buffer' = Cut(buffer \o SubSeq(line, 1, n)).rest
        /\ state' = FoldLeft(Absorb, state, Cut(buffer \o SubSeq(line, 1, n)).frames)
    BY <1>3 DEF Receive
  <2>2. ASSUME driver = "sony-mdr", faults = 0
        PROVE  Undisturbed(buffer' \o line', state', truth, was)
    <3> DEFINE a == buffer \o SubSeq(line, 1, n)
               b == From(line, n + 1)
               bytes == buffer \o line
    <3>1. line \in Seq(Byte) /\ buffer \in Seq(Byte)
      BY <1>0, <2>2 DEF Inductive, Waiting, Begun
    <3>2. a \in Seq(Byte) /\ b \in Seq(Byte) /\ Joins(a, b, bytes)
      BY <2>1, <3>1, ReadApart
    <3>3. bytes \in Seq(Byte)
      BY <3>1, ConcatProperties
    <3>4. Undisturbed(bytes, state, truth, was)
      BY <2>2 DEF Faithful
    <3> HIDE DEF a, b, bytes
    <3>5. Prefix(a, b, bytes)
      BY <3>2, <3>3, JoinedIsRead
    <3>6. Undisturbed(Cut(a).rest \o b, FoldLeft(Absorb, state, Cut(a).frames), truth, was)
      BY <1>0, <2>2, <3>2, <3>3, <3>4, <3>5, ToldRead
    <3>7. line' = b /\ buffer' = Cut(a).rest /\ state' = FoldLeft(Absorb, state, Cut(a).frames)
      BY <2>1 DEF a, b
    <3> QED BY <3>6, <3>7
  <2>3. (DOMAIN was = FeaturesOf(driver))'
    BY <1>0, <2>1
  <2> QED BY <1>0, <2>1, <2>2, <2>3
<1>4. ASSUME NEW news \in News[driver], Change(news)
      PROVE  /\ faults' \in Nat /\ (DOMAIN was = FeaturesOf(driver))'
             /\ driver' = "sony-mdr" /\ faults' = 0 =>
                  Undisturbed(buffer' \o line', state', truth', was')
  <2> DEFINE u == Over(news.set, truth)
  <2>1. PICK record \in Records : record.id = news.id /\ Report(record, u)
    BY <1>0, <1>4, ChangeReports
  <2>2. Has(u, driver) /\ UNCHANGED <<driver, buffer, state>>
    BY <1>0, <1>4, ChangeReports DEF Change
  <2>3. /\ faults' \in Nat /\ (DOMAIN was = FeaturesOf(driver))'
        /\ (faults' = 0 => faults = 0)
    BY <1>2, <2>1, <2>2
  <2>4. ASSUME driver = "sony-mdr", faults' = 0
        PROVE  Undisturbed(buffer' \o line', state', truth', was')
    <3>1. record \in ToSet(RECORDS) /\ driver \in DOMAIN Truths
      BY <1>0, <2>1, <2>4 DEF Records, Known, Inductive
    <3>2. DOMAIN news.set \subseteq record.provides
      BY <2>1, <2>4, <3>1 DEF NewsAssumption
    <3>3. \A f \in FeaturesOf("sony-mdr") \ record.provides : u[f] = truth[f]
      <4>1. DOMAIN truth = FeaturesOf("sony-mdr")
        BY <1>0, <2>4 DEF Inductive, Has
      <4> QED BY <3>2, <4>1 DEF Over
    <3> HIDE DEF u
    <3> QED BY <2>1, <2>2, <2>3, <2>4, <3>3, FaithfulReport
  <2> QED BY <2>2, <2>3, <2>4
<1>5. ASSUME NEW control \in DOMAIN Wishes, NEW value \in Wishes[control],
             Write(control, value)
      PROVE  /\ faults' \in Nat /\ (DOMAIN was = FeaturesOf(driver))'
             /\ driver' = "sony-mdr" /\ faults' = 0 =>
                  Undisturbed(buffer' \o line', state', truth', was')
  <2> DEFINE u == Meant(control, value, truth)
  <2>1. /\ driver = "sony-mdr" /\ Has(u, driver) /\ control \in DOMAIN Askable
        /\ \E record \in Records : control \in record.provides /\ Report(record, u)
    BY <1>0, <1>5, WriteReports
  <2>2. PICK record \in Records : control \in record.provides /\ Report(record, u)
    BY <2>1
  <2>3. UNCHANGED <<driver, buffer, state>>
    BY <1>5 DEF Write
  <2>4. /\ faults' \in Nat /\ (DOMAIN was = FeaturesOf(driver))'
        /\ (faults' = 0 => faults = 0)
    BY <1>2, <2>2, <2>3
  <2>5. ASSUME faults' = 0 PROVE Undisturbed(buffer' \o line', state', truth', was')
    <3>1. record \in ToSet(RECORDS) /\ Has(truth, "sony-mdr")
      BY <1>0, <2>1, <2>2 DEF Records, Known, Inductive
    <3>2. \A f \in FeaturesOf("sony-mdr") \ record.provides : u[f] = truth[f]
      BY <2>1, <2>2, <3>1, MeantKeeps
    <3> HIDE DEF u
    <3> QED BY <2>1, <2>2, <2>3, <2>4, <2>5, <3>2, FaithfulReport
  <2> QED BY <2>4, <2>5
<1>6. ASSUME Noise
      PROVE  /\ faults' \in Nat /\ (DOMAIN was = FeaturesOf(driver))'
             /\ driver' = "sony-mdr" /\ faults' = 0 =>
                  Undisturbed(buffer' \o line', state', truth', was')
  <2>1. faults' = faults + 1 /\ UNCHANGED <<driver, was>>
    BY <1>6 DEF Noise
  <2> QED BY <1>0, <2>1
<1>7. ASSUME UNCHANGED vars
      PROVE  /\ faults' \in Nat /\ (DOMAIN was = FeaturesOf(driver))'
             /\ driver' = "sony-mdr" /\ faults' = 0 =>
                  Undisturbed(buffer' \o line', state', truth', was')
  <2>1. UNCHANGED <<driver, truth, line, buffer, state, faults, was>>
    BY <1>7 DEF vars
  <2>2. driver = "sony-mdr" /\ faults = 0 => Undisturbed(buffer \o line, state, truth, was)
    BY DEF Faithful
  <2> QED BY <1>0, <2>1, <2>2
<1>8. /\ faults' \in Nat /\ (DOMAIN was = FeaturesOf(driver))'
      /\ driver' = "sony-mdr" /\ faults' = 0 =>
           Undisturbed(buffer' \o line', state', truth', was')
  BY <1>3, <1>4, <1>5, <1>6, <1>7 DEF Next
<1>9. driver' = driver
  BY DEF Next, Receive, Change, Write, Noise, vars
<1>10. ASSUME driver' = "sony-mdr", faults' = 0
       PROVE  Undisturbed(buffer \o line, state, truth, was)'
  BY <1>8, <1>9, <1>10, SameDriver
<1> QED BY <1>1, <1>8, <1>10 DEF Faithful

\* When all of it has been read, no frame is under way.
LEMMA AllIsRead ==
  ASSUME NEW bytes, bytes \in Seq(Byte), ~Contains(bytes, TRAILER),
         NEW s, NEW t, NEW past, Undisturbed(bytes, s, t, past)
  PROVE  \A f \in FeaturesOf("sony-mdr") : s[f] = t[f] \/ (f = "battery" /\ t[f] = 0)
<1>1. PICK n, e, messages, r : Told(bytes, s, t, past, n, e, messages, r)
  BY DEF Undisturbed
<1>2. /\ n \in Nat /\ Places(e, n, bytes) /\ e[n] = Len(bytes) /\ r[0] = s
      /\ \A k \in 1..n : FrameAlone(bytes, e, k)
      /\ \A f \in FeaturesOf("sony-mdr") : r[n][f] = t[f] \/ (f = "battery" /\ t[f] = 0)
  BY <1>1 DEF Told, Framed
<1>3. n = 0
  <2> SUFFICES ASSUME n # 0 PROVE FALSE
    OBVIOUS
  <2>1. n \in 1..n /\ n - 1 \in 0..n
    BY <1>2
  <2>2. bytes[e[n]] = TRAILER /\ e[n - 1] + 2 <= e[n] /\ e[n - 1] \in 0..Len(bytes)
    BY <1>2, <2>1 DEF FrameAlone, Places
  <2>3. Len(bytes) \in DOMAIN bytes /\ bytes[Len(bytes)] = TRAILER
    BY <1>2, <2>2
  <2> QED BY <2>3 DEF Contains
<1> QED BY <1>2, <1>3

\* Along every execution in which frames may be as long as what a headset says
\* (MAX_FRAME in framing.py is 4096): as long as nothing disturbs it, what the
\* headset says of any of its records is what the state reads, however the bytes
\* are cut into reads, however many frames are under way and whichever of their
\* bytes are special; and on the way the state says nothing that was never so
\* (drivers/sony_mdr.py decoders, framing.py, session.py receive, device.py
\* absorb).
THEOREM UndisturbedIsRead ==
  ASSUME MaxFrame >= 276
  PROVE  Spec => [](driver = "sony-mdr" /\ faults = 0 => GoodFramesRead /\ NothingInvented)
<1>1. Init => Faithful
  BY FaithfulInit, WireAssumption
<1>2. Faithful /\ [Next]_vars => Faithful'
  BY FaithfulStep, WireAssumption, NewsAssumption
<1>3. Faithful => (driver = "sony-mdr" /\ faults = 0 => GoodFramesRead /\ NothingInvented)
  <2> SUFFICES ASSUME Faithful, driver = "sony-mdr", faults = 0
               PROVE  GoodFramesRead /\ NothingInvented
    OBVIOUS
  <2>1. /\ DOMAIN truth = FeaturesOf("sony-mdr") /\ DOMAIN state = FeaturesOf("sony-mdr")
        /\ buffer \in Seq(Byte) /\ ~Contains(buffer, TRAILER)
    BY DEF Faithful, Inductive, Has, Waiting, Begun
  <2>2. Undisturbed(buffer \o line, state, truth, was)
    BY DEF Faithful
  <2>3. GoodFramesRead
    <3>1. ASSUME line = <<>>
          PROVE  \A f \in FeaturesOf("sony-mdr") :
                   state[f] = truth[f] \/ (f = "battery" /\ truth[f] = 0)
      <4>1. buffer \o line = buffer
        BY <2>1, <3>1
      <4>2. Undisturbed(buffer, state, truth, was)
        BY <2>2, <4>1
      <4> QED BY <2>1, <4>2, AllIsRead
    <3> QED BY <2>1, <3>1 DEF GoodFramesRead
  <2>4. NothingInvented
    <3>1. PICK n, e, messages, r : Told(buffer \o line, state, truth, was, n, e, messages, r)
      BY <2>2 DEF Undisturbed
    <3>2. 0 \in 0..n /\ r[0] = state
            /\ \A k \in 0..n : \A f \in FeaturesOf("sony-mdr") : r[k][f] \in was[f]
      BY <3>1 DEF Told, Framed
    <3> QED BY <2>1, <3>2 DEF NothingInvented
  <2> QED BY <2>3, <2>4
<1> QED BY <1>1, <1>2, <1>3, PTL DEF Spec
=============================================================================
