------------------------ MODULE GatewayRegistryProofs ------------------------
(***************************************************************************)
(* Proofs about GatewayRegistry, for every set of registries, routes and   *)
(* slices and every number of calls.                                       *)
(*                                                                         *)
(* The argument about slices: append writes in place, behind the window of *)
(* the slice it extends, or into an array of its own (AppendIs).  So the   *)
(* arrays only grow (Grows), every window stays one, and a window shows    *)
(* something else only if it reaches behind that slice (AppendKeeps).      *)
(* The argument about the two loops, Include and dedupeMiddlewares: what   *)
(* holds after n turns (IncludedSoFar, DedupedSoFar) holds after one more, *)
(* and so at the end (UpTo).                                               *)
(***************************************************************************)
EXTENDS GatewayRegistry, FiniteSetTheorems, SequenceTheorems,
        WellFoundedInduction, TLAPS

-----------------------------------------------------------------------------
(* Loops: induction up to the length of a list *)

\* A non-empty set of numbers has a least element.
LEMMA Least ==
  ASSUME NEW T \in SUBSET Nat, T # {}
  PROVE  \E n \in T : \A m \in T : n <= m
<1> DEFINE R == OpToRel(<, Nat)
<1>1. IsWellFoundedOn(R, Nat)
  BY NatLessThanWellFounded
<1>2. R = {x \in Nat \X Nat : x[1] < x[2]}
  BY DEF OpToRel
<1> HIDE DEF R
<1>3. PICK n \in T : \A m \in T : <<m, n>> \notin R
  BY <1>1, WFMin
<1>4. \A m \in T : <<m, n>> \in Nat \X Nat /\ <<m, n>>[1] = m /\ <<m, n>>[2] = n
  OBVIOUS
<1>5. \A m \in T : ~(m < n)
  BY <1>2, <1>3, <1>4
<1> QED
  BY <1>5

\* What holds before a loop and is kept by each turn holds after it.
LEMMA UpTo ==
  ASSUME NEW N \in Nat, NEW P, 0 \in P, \A n \in 1 .. N : n - 1 \in P => n \in P
  PROVE  \A n \in 0 .. N : n \in P
<1> SUFFICES ASSUME NEW k \in 0 .. N, k \notin P PROVE FALSE
  OBVIOUS
<1> DEFINE T == {n \in 0 .. N : n \notin P}
<1>1. T \in SUBSET Nat /\ T # {}
  OBVIOUS
<1> HIDE DEF T
<1>2. PICK n \in T : \A m \in T : n <= m
  BY <1>1, Least
<1>3. n \in 0 .. N /\ n \notin P /\ n # 0
  BY <1>2 DEF T
<1>4. n - 1 \notin T
  BY <1>1, <1>2
<1> QED
  BY <1>3, <1>4 DEF T

-----------------------------------------------------------------------------
(* Lists *)

LEMMA ListFacts ==
  ASSUME NEW x, IsList(x)
  PROVE  /\ Len(x) \in Nat /\ DOMAIN x = 1 .. Len(x)
         /\ x = [i \in 1 .. Len(x) |-> x[i]]
<1>1. x \in Seq(Range(x))
  BY DEF IsList
<1>2. Len(x) \in Nat /\ x \in [1 .. Len(x) -> Range(x)]
  BY <1>1, LenProperties
<1> QED
  BY <1>2

LEMMA MakeList ==
  ASSUME NEW n \in Nat, NEW x, x = [i \in 1 .. n |-> x[i]]
  PROVE  IsList(x) /\ Len(x) = n
<1>1. DOMAIN x = 1 .. n
  OBVIOUS
<1>2. \A i \in 1 .. n : x[i] \in Range(x)
  BY <1>1 DEF Range
<1>3. x \in [1 .. n -> Range(x)]
  BY <1>2
<1>4. x \in Seq(Range(x))
  BY <1>3
<1>5. Len(x) \in Nat /\ DOMAIN x = 1 .. Len(x)
  BY <1>4, LenProperties
<1>6. 1 .. Len(x) = 1 .. n
  BY <1>1, <1>5
<1>7. Len(x) = n
  BY <1>5, <1>6
<1> QED
  BY <1>4, <1>7 DEF IsList

LEMMA SeqIsList ==
  ASSUME NEW S, NEW x \in Seq(S)
  PROVE  IsList(x)
<1>1. Len(x) \in Nat /\ x \in [1 .. Len(x) -> S]
  BY LenProperties
<1>2. x = [i \in 1 .. Len(x) |-> x[i]]
  BY <1>1
<1> QED
  BY <1>1, <1>2, MakeList

LEMMA SameList ==
  ASSUME NEW x, NEW y, IsList(x), IsList(y), Len(x) = Len(y),
         \A i \in 1 .. Len(x) : x[i] = y[i]
  PROVE  x = y
<1>1. x = [i \in 1 .. Len(x) |-> x[i]] /\ y = [i \in 1 .. Len(y) |-> y[i]]
  BY ListFacts
<1> QED
  BY <1>1

LEMMA AppendList ==
  ASSUME NEW x, IsList(x), NEW e
  PROVE  /\ IsList(Append(x, e)) /\ Len(Append(x, e)) = Len(x) + 1
         /\ \A i \in 1 .. Len(x) : Append(x, e)[i] = x[i]
         /\ Append(x, e)[Len(x) + 1] = e
<1> DEFINE S == Range(x) \cup {e}
<1>1. x \in Seq(Range(x)) /\ Range(x) \subseteq S /\ e \in S
  BY DEF IsList
<1>2. x \in Seq(S)
  BY <1>1, SeqMonotonic
<1> HIDE DEF S
<1>3. /\ Append(x, e) \in Seq(S) /\ Len(Append(x, e)) = Len(x) + 1
      /\ \A i \in 1 .. Len(x) : Append(x, e)[i] = x[i]
      /\ Append(x, e)[Len(x) + 1] = e
  BY <1>1, <1>2, AppendProperties
<1> QED
  BY <1>3, SeqIsList

LEMMA ConcatList ==
  ASSUME NEW x, NEW y, IsList(x), IsList(y)
  PROVE  /\ IsList(x \o y) /\ Len(x \o y) = Len(x) + Len(y)
         /\ \A i \in 1 .. Len(x) : (x \o y)[i] = x[i]
         /\ \A i \in 1 .. Len(y) : (x \o y)[Len(x) + i] = y[i]
<1> DEFINE S == Range(x) \cup Range(y)
<1>1. /\ x \in Seq(Range(x)) /\ Range(x) \subseteq S
      /\ y \in Seq(Range(y)) /\ Range(y) \subseteq S
  BY DEF IsList
<1>2. x \in Seq(S) /\ y \in Seq(S)
  BY <1>1, SeqMonotonic
<1> HIDE DEF S
<1>3. /\ x \o y \in Seq(S) /\ Len(x \o y) = Len(x) + Len(y)
      /\ \A i \in 1 .. Len(x) + Len(y) :
           (x \o y)[i] = IF i <= Len(x) THEN x[i] ELSE y[i - Len(x)]
  BY <1>2, ConcatProperties
<1>4. Len(x) \in Nat /\ Len(y) \in Nat
  BY ListFacts
<1>5. ASSUME NEW i \in 1 .. Len(y) PROVE (x \o y)[Len(x) + i] = y[i]
  <2>1. Len(x) + i \in 1 .. Len(x) + Len(y) /\ ~(Len(x) + i <= Len(x))
        /\ Len(x) + i - Len(x) = i
    BY <1>4
  <2> QED
    BY <1>3, <2>1
<1>6. ASSUME NEW i \in 1 .. Len(x) PROVE (x \o y)[i] = x[i]
  BY <1>3, <1>4
<1>7. IsList(x \o y)
  BY <1>3, SeqIsList
<1> QED
  BY <1>3, <1>5, <1>6, <1>7

-----------------------------------------------------------------------------
(* Slices *)

Cells == Middlewares \cup {NilMiddleware}

LEMMA NilNotIn == \A m \in Middlewares : m # NilMiddleware
<1> DEFINE U == UNION {UNION {Range(h[a]) : a \in DOMAIN h} : h \in Heaps}
<1>1. Middlewares = U \ {NilMiddleware}
  BY DEF Middlewares
<1> HIDE DEF U
<1> QED
  BY <1>1

LEMMA ArraysFacts ==
  ASSUME NEW h \in Arrays
  PROVE  /\ IsList(h)
         /\ \A a \in DOMAIN h :
              /\ h[a] \in Seq(Cells) /\ IsList(h[a])
              /\ \A i \in DOMAIN h[a] :
                   h[a][i] # NilMiddleware => h[a][i] \in Middlewares
<1>1. h \in Seq(Seq(Cells))
  BY DEF Arrays, Cells
<1>2. IsList(h)
  BY <1>1, SeqIsList
<1>3. ASSUME NEW a \in DOMAIN h PROVE h[a] \in Seq(Cells)
  BY <1>1, LenProperties, ElementOfSeq
<1>4. ASSUME NEW a \in DOMAIN h
      PROVE  /\ IsList(h[a])
             /\ \A i \in DOMAIN h[a] :
                  h[a][i] # NilMiddleware => h[a][i] \in Middlewares
  <2>1. h[a] \in Seq(Cells)
    BY <1>3
  <2>2. IsList(h[a])
    BY <2>1, SeqIsList
  <2>3. \A i \in DOMAIN h[a] : h[a][i] \in Cells
    BY <2>1, LenProperties, ElementOfSeq
  <2> QED
    BY <2>2, <2>3 DEF Cells
<1> QED
  BY <1>2, <1>3, <1>4

LEMMA ViewIs ==
  ASSUME NEW h \in Arrays, NEW s, IsWindow(h, s)
  PROVE  /\ View(h, s) \in Seq(Middlewares) /\ IsList(View(h, s))
         /\ Len(View(h, s)) = s.len /\ s.len \in Nat
         /\ \A i \in 1 .. s.len : View(h, s)[i] = h[s.at][i]
<1>1. s.at \in DOMAIN h /\ s.len \in 0 .. Len(h[s.at])
  BY DEF IsWindow
<1>2. IsList(h[s.at]) /\ Len(h[s.at]) \in Nat /\ DOMAIN h[s.at] = 1 .. Len(h[s.at])
  BY <1>1, ArraysFacts, ListFacts
<1>3. 1 \in Int /\ s.len \in Int /\ s.len \in Nat
  BY <1>1, <1>2
<1>4. \A i \in 1 .. s.len : h[s.at][i] \in Middlewares
  BY <1>1, <1>2, <1>3, ArraysFacts DEF IsWindow
<1>5. /\ View(h, s) \in Seq(Middlewares)
      /\ Len(View(h, s)) = IF 1 <= s.len THEN s.len - 1 + 1 ELSE 0
      /\ \A i \in 1 .. s.len - 1 + 1 : View(h, s)[i] = h[s.at][1 + i - 1]
  BY <1>3, <1>4, SubSeqProperties DEF View
<1>6. Len(View(h, s)) = s.len
  BY <1>3, <1>5
<1>7. \A i \in 1 .. s.len : View(h, s)[i] = h[s.at][i]
  BY <1>3, <1>5
<1> QED
  BY <1>3, <1>5, <1>6, <1>7, SeqIsList

\* Two windows show the same when their cells are the same.
LEMMA SameView ==
  ASSUME NEW h \in Arrays, NEW k \in Arrays, NEW s, NEW t,
         IsWindow(h, s), IsWindow(k, t), s.len = t.len,
         \A i \in 1 .. s.len : h[s.at][i] = k[t.at][i]
  PROVE  View(h, s) = View(k, t)
BY ViewIs, SameList

\* The arrays keep their lengths and no cell is emptied.
Grows(h, k) ==
  /\ k \in Arrays /\ Len(k) >= Len(h)
  /\ \A a \in DOMAIN h :
       /\ Len(k[a]) = Len(h[a])
       /\ \A i \in DOMAIN h[a] : h[a][i] # NilMiddleware => k[a][i] # NilMiddleware

LEMMA GrowsKeeps ==
  ASSUME NEW h \in Arrays, NEW k, Grows(h, k)
  PROVE  /\ DOMAIN h \subseteq DOMAIN k
         /\ \A s : IsWindow(h, s) => IsWindow(k, s)
<1>1. k \in Arrays
  BY DEF Grows
<1>2. /\ Len(h) \in Nat /\ DOMAIN h = 1 .. Len(h)
      /\ Len(k) \in Nat /\ DOMAIN k = 1 .. Len(k)
  BY <1>1, ArraysFacts, ListFacts
<1>3. DOMAIN h \subseteq DOMAIN k
  BY <1>2 DEF Grows
<1>4. ASSUME NEW s, IsWindow(h, s) PROVE IsWindow(k, s)
  <2>1. s.at \in DOMAIN h /\ s.len \in 0 .. Len(h[s.at])
    BY <1>4 DEF IsWindow
  <2>2. Len(h[s.at]) \in Nat /\ DOMAIN h[s.at] = 1 .. Len(h[s.at])
    BY <2>1, ArraysFacts, ListFacts
  <2>3. \A i \in 1 .. s.len : i \in DOMAIN h[s.at] /\ h[s.at][i] # NilMiddleware
    BY <1>4, <2>1, <2>2 DEF IsWindow
  <2> QED
    BY <1>3, <2>1, <2>3 DEF Grows, IsWindow
<1> QED
  BY <1>3, <1>4

LEMMA GrowsOn ==
  ASSUME NEW h \in Arrays, NEW k, NEW l, Grows(h, k), Grows(k, l)
  PROVE  Grows(h, l)
<1>1. k \in Arrays /\ l \in Arrays
  BY DEF Grows
<1>2. /\ Len(h) \in Nat /\ Len(k) \in Nat /\ Len(l) \in Nat
  BY <1>1, ArraysFacts, ListFacts
<1>3. Len(l) >= Len(h)
  BY <1>2 DEF Grows
<1>4. ASSUME NEW a \in DOMAIN h
      PROVE /\ Len(l[a]) = Len(h[a])
            /\ \A i \in DOMAIN h[a] :
                 h[a][i] # NilMiddleware => l[a][i] # NilMiddleware
  <2>1. a \in DOMAIN k
    BY GrowsKeeps
  <2>2. Len(k[a]) = Len(h[a]) /\ Len(l[a]) = Len(k[a])
    BY <2>1 DEF Grows
  <2>3. DOMAIN h[a] = 1 .. Len(h[a]) /\ DOMAIN k[a] = 1 .. Len(k[a])
    BY <1>1, <2>1, ArraysFacts, ListFacts
  <2> QED
    BY <2>1, <2>2, <2>3 DEF Grows
<1> QED
  BY <1>1, <1>3, <1>4 DEF Grows

LEMMA GrowsNot ==
  ASSUME NEW h \in Arrays
  PROVE  Grows(h, h)
<1>1. Len(h) \in Nat
  BY ArraysFacts, ListFacts
<1> QED
  BY <1>1 DEF Grows

\* What append(s, xs...) does: it writes behind the window, into cells of the
\* same array when there is room, and into an array of its own otherwise.
InPlace(h, s, xs, res) ==
  /\ s.len + Len(xs) <= Len(h[s.at]) /\ res.slice.at = s.at
  /\ Len(res.heap) = Len(h)
  /\ \A a \in DOMAIN h : a # s.at => res.heap[a] = h[a]
  /\ Len(res.heap[s.at]) = Len(h[s.at])
  /\ \A i \in DOMAIN h[s.at] :
       res.heap[s.at][i] = IF i \in s.len + 1 .. s.len + Len(xs)
                             THEN xs[i - s.len] ELSE h[s.at][i]

Moved(h, s, xs, res) ==
  /\ s.len + Len(xs) > Len(h[s.at]) /\ res.slice.at = Len(h) + 1
  /\ Len(res.heap) = Len(h) + 1
  /\ \A a \in DOMAIN h : res.heap[a] = h[a]

Appended(h, s, xs, res) ==
  /\ InPlace(h, s, xs, res) \/ Moved(h, s, xs, res)
  /\ Grows(h, res.heap)
  /\ res.slice = [at |-> res.slice.at, len |-> s.len + Len(xs)]
  /\ IsWindow(res.heap, res.slice)
  /\ View(res.heap, res.slice) = View(h, s) \o xs

LEMMA FrontIs ==
  ASSUME NEW S, NEW x \in Seq(S), NEW n \in 0 .. Len(x)
  PROVE  /\ SubSeq(x, 1, n) \in Seq(S) /\ Len(SubSeq(x, 1, n)) = n
         /\ \A i \in 1 .. n : SubSeq(x, 1, n)[i] = x[i]
<1>1. Len(x) \in Nat /\ 1 \in Int /\ n \in Int
  BY LenProperties
<1>2. \A i \in 1 .. n : x[i] \in S
  BY <1>1, ElementOfSeq
<1>3. /\ SubSeq(x, 1, n) \in Seq(S)
      /\ Len(SubSeq(x, 1, n)) = IF 1 <= n THEN n - 1 + 1 ELSE 0
      /\ \A i \in 1 .. n - 1 + 1 : SubSeq(x, 1, n)[i] = x[1 + i - 1]
  BY <1>1, <1>2, SubSeqProperties
<1> QED
  BY <1>1, <1>3

LEMMA BackIs ==
  ASSUME NEW S, NEW x \in Seq(S), NEW n \in 0 .. Len(x)
  PROVE  /\ SubSeq(x, n + 1, Len(x)) \in Seq(S)
         /\ Len(SubSeq(x, n + 1, Len(x))) = Len(x) - n
         /\ \A i \in 1 .. Len(x) - n : SubSeq(x, n + 1, Len(x))[i] = x[n + i]
<1>1. Len(x) \in Nat
  BY LenProperties
<1>2. PICK a \in Int : a = n + 1
  BY <1>1
<1>3. PICK b \in Int : b = Len(x)
  BY <1>1
<1>4. \A i \in a .. b : x[i] \in S
  BY <1>1, <1>2, <1>3, ElementOfSeq
<1>5. /\ SubSeq(x, a, b) \in Seq(S)
      /\ Len(SubSeq(x, a, b)) = IF a <= b THEN b - a + 1 ELSE 0
      /\ \A i \in 1 .. b - a + 1 : SubSeq(x, a, b)[i] = x[a + i - 1]
  BY <1>4, SubSeqProperties
<1> QED
  BY <1>1, <1>2, <1>3, <1>5

LEMMA AppendInPlace ==
  ASSUME NEW h \in Arrays, NEW s, IsWindow(h, s), s = [at |-> s.at, len |-> s.len],
         NEW xs \in Seq(Middlewares), s.len + Len(xs) <= Len(h[s.at])
  PROVE  /\ GoAppend(h, s, xs).heap \in Arrays
         /\ InPlace(h, s, xs, GoAppend(h, s, xs))
         /\ GoAppend(h, s, xs).slice = [at |-> s.at, len |-> s.len + Len(xs)]
<1> DEFINE n == s.len + Len(xs)
           cap == Len(h[s.at])
           old == h[s.at]
           front == SubSeq(old, 1, s.len)
           back == SubSeq(old, n + 1, cap)
           new == front \o xs \o back
           k == [h EXCEPT ![s.at] = new]
<1>1. /\ s.at \in DOMAIN h /\ s.len \in 0 .. cap
      /\ old \in Seq(Cells) /\ cap \in Nat /\ DOMAIN old = 1 .. cap
  BY ArraysFacts, ListFacts DEF IsWindow
<1>2. Len(xs) \in Nat /\ xs \in Seq(Cells)
  BY LenProperties, SeqMonotonic DEF Cells
<1>3. n \in Nat /\ n <= cap /\ s.len \in Int /\ n + 1 \in Int /\ cap \in Int /\ 1 \in Int
  BY <1>1, <1>2
<1>4. GoAppend(h, s, xs) = [heap |-> k, slice |-> [s EXCEPT !.len = n]]
  BY <1>3 DEF GoAppend
<1>5. [s EXCEPT !.len = n] = [at |-> s.at, len |-> n]
  OBVIOUS
<1>6. \A i \in 1 .. cap : old[i] \in Cells
  BY <1>1, ElementOfSeq
<1>7. /\ front \in Seq(Cells) /\ Len(front) = s.len
      /\ \A i \in 1 .. s.len : front[i] = old[i]
  BY <1>1, FrontIs
<1>8. /\ back \in Seq(Cells) /\ Len(back) = cap - n
      /\ \A i \in 1 .. cap - n : back[i] = old[n + i]
  <2>1. n \in 0 .. Len(old)
    BY <1>3
  <2> HIDE DEF n
  <2> QED
    BY <1>1, <2>1, BackIs
<1> HIDE DEF front, back
<1>9. /\ front \o xs \in Seq(Cells) /\ Len(front \o xs) = n
      /\ \A i \in 1 .. s.len : (front \o xs)[i] = old[i]
      /\ \A i \in s.len + 1 .. n : (front \o xs)[i] = xs[i - s.len]
  <2>1. /\ front \o xs \in Seq(Cells) /\ Len(front \o xs) = Len(front) + Len(xs)
        /\ \A i \in 1 .. Len(front) + Len(xs) : (front \o xs)[i] =
             IF i <= Len(front) THEN front[i] ELSE xs[i - Len(front)]
    <3>1. PICK fr : fr = front
      OBVIOUS
    <3>2. /\ fr \o xs \in Seq(Cells) /\ Len(fr \o xs) = Len(fr) + Len(xs)
          /\ \A i \in 1 .. Len(fr) + Len(xs) : (fr \o xs)[i] =
               IF i <= Len(fr) THEN fr[i] ELSE xs[i - Len(fr)]
      BY <1>2, <1>7, <3>1, ConcatProperties
    <3> QED
      BY <3>1, <3>2
  <2> QED
    BY <1>1, <1>2, <1>7, <2>1
<1>10. /\ new \in Seq(Cells) /\ Len(new) = cap
       /\ \A i \in 1 .. n : new[i] = (front \o xs)[i]
       /\ \A i \in n + 1 .. cap : new[i] = old[i]
  <2> DEFINE fx == front \o xs
  <2>1. fx \in Seq(Cells) /\ Len(fx) = n /\ IsList(fx) /\ IsList(back)
    BY <1>8, <1>9, SeqIsList
  <2> HIDE DEF fx
  <2>2. /\ Len(fx \o back) = Len(fx) + Len(back)
        /\ \A i \in 1 .. Len(fx) : (fx \o back)[i] = fx[i]
        /\ \A i \in 1 .. Len(back) : (fx \o back)[Len(fx) + i] = back[i]
    BY <2>1, ConcatList
  <2>3. fx \o back \in Seq(Cells)
    BY <1>8, <2>1, ConcatProperties
  <2>4. new = fx \o back
    BY DEF fx
  <2> HIDE DEF new, n
  <2>5. Len(new) = cap
    BY <1>3, <1>8, <2>1, <2>2, <2>4
  <2>6. \A i \in 1 .. n : new[i] = (front \o xs)[i]
    BY <2>1, <2>2, <2>4 DEF fx
  <2>7. ASSUME NEW i \in n + 1 .. cap PROVE new[i] = old[i]
    <3>1. PICK j \in 1 .. cap - n : i = n + j
      <4>1. i - n \in 1 .. cap - n /\ i = n + (i - n)
        BY <1>3, <2>7
      <4> QED
        BY <4>1
    <3>2. new[i] = back[j]
      BY <1>8, <2>1, <2>2, <2>4, <3>1
    <3> QED
      BY <1>8, <3>1, <3>2
  <2> QED
    BY <2>3, <2>4, <2>5, <2>6, <2>7
<1>11. \A i \in 1 .. cap : new[i] = IF i \in s.len + 1 .. n THEN xs[i - s.len] ELSE old[i]
  <2>1. ASSUME NEW i \in 1 .. cap
        PROVE  new[i] = IF i \in s.len + 1 .. n THEN xs[i - s.len] ELSE old[i]
    <3>1. CASE i \in 1 .. s.len
      <4>1. i \in 1 .. n /\ i \notin s.len + 1 .. n
        BY <1>1, <1>2, <1>3, <3>1
      <4> QED
        BY <1>9, <1>10, <3>1, <4>1
    <3>2. CASE i \in s.len + 1 .. n
      <4>1. i \in 1 .. n
        BY <1>1, <1>2, <1>3, <3>2
      <4> QED
        BY <1>9, <1>10, <3>2, <4>1
    <3>3. CASE i \notin 1 .. s.len /\ i \notin s.len + 1 .. n
      <4>1. i \in n + 1 .. cap
        BY <1>1, <1>2, <1>3, <3>3
      <4> QED
        BY <1>10, <3>3, <4>1
    <3> QED
      BY <3>1, <3>2, <3>3
  <2> QED
    BY <2>1
<1> HIDE DEF new
<1>12. k \in Arrays /\ Len(k) = Len(h) /\ k[s.at] = new
       /\ \A a \in DOMAIN h : a # s.at => k[a] = h[a]
  <2>1. h \in Seq(Seq(Cells)) /\ s.at \in 1 .. Len(h) /\ DOMAIN h = 1 .. Len(h)
    BY <1>1, ArraysFacts, ListFacts DEF Arrays, Cells
  <2>2. k \in Seq(Seq(Cells)) /\ Len(k) = Len(h)
    BY <1>10, <2>1, ExceptSeq
  <2> QED
    BY <1>1, <2>2 DEF Arrays, Cells
<1> HIDE DEF k
<1>13. GoAppend(h, s, xs).heap = k /\ GoAppend(h, s, xs).slice = [at |-> s.at, len |-> n]
  BY <1>4, <1>5
<1>14. InPlace(h, s, xs, GoAppend(h, s, xs))
  BY <1>1, <1>10, <1>11, <1>12, <1>13 DEF InPlace
<1> QED
  BY <1>12, <1>13, <1>14

LEMMA AppendMoves ==
  ASSUME NEW h \in Arrays, NEW s, IsWindow(h, s),
         NEW xs \in Seq(Middlewares), s.len + Len(xs) > Len(h[s.at])
  PROVE  /\ GoAppend(h, s, xs).heap \in Arrays
         /\ Moved(h, s, xs, GoAppend(h, s, xs))
         /\ GoAppend(h, s, xs).slice = [at |-> Len(h) + 1, len |-> s.len + Len(xs)]
         /\ LET new == GoAppend(h, s, xs).heap[Len(h) + 1]
            IN  /\ Len(new) >= s.len + Len(xs)
                /\ \A i \in 1 .. s.len + Len(xs) : new[i] = (View(h, s) \o xs)[i]
<1> DEFINE n == s.len + Len(xs)
           cap == Len(h[s.at])
           more == IF 2 * cap > n THEN 2 * cap - n ELSE 0
           room == [i \in 1 .. more |-> NilMiddleware]
           body == View(h, s) \o xs
           new == body \o room
           k == Append(h, new)
<1>1. /\ s.at \in DOMAIN h /\ s.len \in 0 .. cap /\ cap \in Nat
  BY ArraysFacts, ListFacts DEF IsWindow
<1>2. Len(xs) \in Nat /\ xs \in Seq(Cells)
  BY LenProperties, SeqMonotonic DEF Cells
<1>3. n \in Nat /\ ~(n <= cap) /\ more \in Nat
  BY <1>1, <1>2
<1>4. GoAppend(h, s, xs) = [heap |-> k, slice |-> [at |-> Len(h) + 1, len |-> n]]
  BY <1>3 DEF GoAppend
<1>5. room \in Seq(Cells) /\ Len(room) = more
  BY <1>3 DEF Cells
<1> HIDE DEF room, more
<1>6. View(h, s) \in Seq(Cells) /\ Len(View(h, s)) = s.len
  BY ViewIs, SeqMonotonic DEF Cells
<1>7. body \in Seq(Cells) /\ Len(body) = n
  <2>1. PICK v : v = View(h, s)
    OBVIOUS
  <2>2. v \o xs \in Seq(Cells) /\ Len(v \o xs) = Len(v) + Len(xs)
    BY <1>2, <1>6, <2>1, ConcatProperties
  <2> QED
    BY <1>6, <2>1, <2>2
<1> HIDE DEF body
<1>8. /\ new \in Seq(Cells) /\ Len(new) = n + more
      /\ \A i \in 1 .. n : new[i] = body[i]
  <2>1. IsList(body) /\ IsList(room)
    BY <1>5, <1>7, SeqIsList
  <2>2. new \in Seq(Cells)
    BY <1>5, <1>7, ConcatProperties
  <2>3. /\ Len(body \o room) = Len(body) + Len(room)
        /\ \A i \in 1 .. Len(body) : (body \o room)[i] = body[i]
    BY <2>1, ConcatList
  <2> HIDE DEF n
  <2> QED
    BY <1>5, <1>7, <2>2, <2>3
<1> HIDE DEF new
<1>9. h \in Seq(Seq(Cells)) /\ DOMAIN h = 1 .. Len(h)
  BY ArraysFacts, ListFacts DEF Arrays, Cells
<1>10. /\ k \in Seq(Seq(Cells)) /\ Len(k) = Len(h) + 1 /\ k[Len(h) + 1] = new
       /\ \A a \in 1 .. Len(h) : k[a] = h[a]
  BY <1>8, <1>9, AppendProperties
<1> HIDE DEF k
<1>11. GoAppend(h, s, xs).heap = k
       /\ GoAppend(h, s, xs).slice = [at |-> Len(h) + 1, len |-> n]
  BY <1>4
<1>12. Moved(h, s, xs, GoAppend(h, s, xs))
  BY <1>9, <1>10, <1>11 DEF Moved
<1>13. k \in Arrays
  BY <1>10 DEF Arrays, Cells
<1>14. Len(new) >= n
  BY <1>3, <1>8
<1> QED
  BY <1>8, <1>10, <1>11, <1>12, <1>13, <1>14 DEF body

LEMMA AppendIs ==
  ASSUME NEW h \in Arrays, NEW s, IsWindow(h, s), s = [at |-> s.at, len |-> s.len],
         NEW xs \in Seq(Middlewares)
  PROVE  Appended(h, s, xs, GoAppend(h, s, xs))
<1> DEFINE n == s.len + Len(xs)
           res == GoAppend(h, s, xs)
           body == View(h, s) \o xs
<1>1. /\ s.at \in DOMAIN h /\ s.len \in 0 .. Len(h[s.at]) /\ Len(h[s.at]) \in Nat
      /\ DOMAIN h[s.at] = 1 .. Len(h[s.at])
      /\ DOMAIN h = 1 .. Len(h) /\ Len(h) \in Nat
      /\ \A i \in 1 .. s.len : h[s.at][i] # NilMiddleware
  BY ArraysFacts, ListFacts DEF IsWindow
<1>2. Len(xs) \in Nat /\ IsList(xs)
  BY LenProperties, SeqIsList
<1>3. \A i \in 1 .. Len(xs) : xs[i] # NilMiddleware
  BY NilNotIn, ElementOfSeq
<1>4. /\ IsList(View(h, s)) /\ Len(View(h, s)) = s.len
      /\ \A i \in 1 .. s.len : View(h, s)[i] = h[s.at][i]
  BY ViewIs
<1>5. /\ IsList(body) /\ Len(body) = n
      /\ \A i \in 1 .. s.len : body[i] = h[s.at][i]
      /\ \A i \in 1 .. Len(xs) : body[s.len + i] = xs[i]
  BY <1>2, <1>4, ConcatList
<1>6. \A i \in s.len + 1 .. n : i - s.len \in 1 .. Len(xs) /\ body[i] = xs[i - s.len]
  <2>1. ASSUME NEW i \in s.len + 1 .. n
        PROVE  i - s.len \in 1 .. Len(xs) /\ i = s.len + (i - s.len)
    BY <1>1, <1>2
  <2> QED
    BY <1>5, <2>1
<1>7. \A i \in 1 .. n : body[i] # NilMiddleware
  <2>1. \A i \in 1 .. n : i \in 1 .. s.len \/ i \in s.len + 1 .. n
    BY <1>1, <1>2
  <2>2. \A i \in s.len + 1 .. n : body[i] # NilMiddleware
    BY <1>3, <1>6
  <2> HIDE DEF n, body
  <2>3. \A i \in 1 .. s.len : body[i] # NilMiddleware
    BY <1>1, <1>5
  <2> QED
    BY <2>1, <2>2, <2>3
<1>8. n \in Nat
  BY <1>1, <1>2
<1> HIDE DEF body
<1>9. CASE n <= Len(h[s.at])
  <2>1. res.heap \in Arrays /\ InPlace(h, s, xs, res)
        /\ res.slice = [at |-> s.at, len |-> n]
    BY <1>9, AppendInPlace
  <2> HIDE DEF res
  <2>2. /\ Len(res.heap) = Len(h) /\ \A a \in DOMAIN h : a # s.at => res.heap[a] = h[a]
        /\ Len(res.heap[s.at]) = Len(h[s.at])
        /\ \A i \in 1 .. Len(h[s.at]) : res.heap[s.at][i] =
             IF i \in s.len + 1 .. n THEN xs[i - s.len] ELSE h[s.at][i]
    BY <1>1, <2>1 DEF InPlace
  <2>3. \A i \in 1 .. n : res.heap[s.at][i] = body[i]
    <3>1. 1 .. n \subseteq 1 .. Len(h[s.at])
      BY <1>1, <1>8, <1>9
    <3>2. \A i \in 1 .. n : i \in 1 .. s.len \/ i \in s.len + 1 .. n
      BY <1>1, <1>8
    <3>3. \A i \in 1 .. s.len : i \notin s.len + 1 .. n
      BY <1>1, <1>8
    <3> HIDE DEF n
    <3>4. \A i \in 1 .. n : i \in 1 .. s.len => res.heap[s.at][i] = body[i]
      BY <1>5, <2>2, <3>1, <3>3
    <3>5. \A i \in s.len + 1 .. n : i \in 1 .. n => res.heap[s.at][i] = body[i]
      BY <1>6, <2>2, <3>1
    <3> QED
      BY <3>2, <3>4, <3>5
  <2>4. Grows(h, res.heap)
    <3>1. ASSUME NEW a \in DOMAIN h, NEW i \in DOMAIN h[a], h[a][i] # NilMiddleware
          PROVE  res.heap[a][i] # NilMiddleware
      <4>1. CASE a # s.at
        BY <2>2, <3>1, <4>1
      <4>2. CASE a = s.at
        <5>1. i \in 1 .. Len(h[s.at])
          BY <1>1, <4>2
        <5>2. res.heap[a][i] = IF i \in s.len + 1 .. n THEN xs[i - s.len] ELSE h[a][i]
          BY <2>2, <4>2, <5>1
        <5> QED
          BY <1>3, <1>6, <3>1, <5>2
      <4> QED
        BY <4>1, <4>2
    <3> QED
      <4>1. \A a \in DOMAIN h : Len(res.heap[a]) = Len(h[a])
        BY <2>2
      <4>2. Len(res.heap) >= Len(h)
        BY <1>1, <2>2
      <4> QED
        BY <2>1, <3>1, <4>1, <4>2 DEF Grows
  <2>5. IsWindow(res.heap, res.slice)
    <3>1. s.at \in DOMAIN res.heap
      BY <1>1, <2>4, GrowsKeeps
    <3> QED
      <4>1. res.slice.at = s.at /\ res.slice.len = n /\ n \in 0 .. Len(h[s.at])
        BY <1>1, <1>8, <1>9, <2>1
      <4> HIDE DEF n
      <4> QED
        BY <1>7, <2>2, <2>3, <3>1, <4>1 DEF IsWindow
  <2>6. View(res.heap, res.slice) = body
    <3>1. /\ IsList(View(res.heap, res.slice)) /\ Len(View(res.heap, res.slice)) = n
          /\ \A i \in 1 .. n : View(res.heap, res.slice)[i] = res.heap[s.at][i]
      BY <2>1, <2>5, ViewIs
    <3> QED
      BY <1>5, <2>3, <3>1, SameList
  <2> QED
    <3>1. res.slice = [at |-> res.slice.at, len |-> n]
      BY <2>1
    <3> QED
      BY <2>1, <2>4, <2>5, <2>6, <3>1 DEF Appended, res, body
<1>10. CASE n > Len(h[s.at])
  <2> DEFINE new == res.heap[Len(h) + 1]
  <2>1. /\ res.heap \in Arrays /\ Moved(h, s, xs, res)
        /\ res.slice = [at |-> Len(h) + 1, len |-> n]
        /\ Len(new) >= n /\ \A i \in 1 .. n : new[i] = body[i]
    <3>1. /\ res.heap \in Arrays /\ Moved(h, s, xs, res)
          /\ res.slice = [at |-> Len(h) + 1, len |-> n]
          /\ Len(new) >= n
          /\ \A i \in 1 .. n : new[i] = (View(h, s) \o xs)[i]
      BY <1>10, AppendMoves, ZenonT(30)
    <3> QED
      BY <3>1 DEF body
  <2> HIDE DEF res
  <2>2. Len(res.heap) = Len(h) + 1 /\ \A a \in DOMAIN h : res.heap[a] = h[a]
    BY <2>1 DEF Moved
  <2>3. Grows(h, res.heap)
    <3>1. Len(res.heap) >= Len(h)
      BY <1>1, <2>2
    <3>2. \A a \in DOMAIN h :
            /\ Len(res.heap[a]) = Len(h[a])
            /\ \A i \in DOMAIN h[a] :
                 h[a][i] # NilMiddleware => res.heap[a][i] # NilMiddleware
      BY <2>2
    <3> QED
      BY <2>1, <3>1, <3>2 DEF Grows
  <2>4. Len(h) + 1 \in DOMAIN res.heap /\ Len(new) \in Nat
    BY <1>1, <2>1, <2>2, ArraysFacts, ListFacts
  <2>5. IsWindow(res.heap, res.slice)
    BY <1>7, <1>8, <2>1, <2>4 DEF IsWindow
  <2>6. View(res.heap, res.slice) = body
    <3>1. /\ IsList(View(res.heap, res.slice)) /\ Len(View(res.heap, res.slice)) = n
          /\ \A i \in 1 .. n : View(res.heap, res.slice)[i] = new[i]
      BY <2>1, <2>5, ViewIs
    <3> QED
      BY <1>5, <2>1, <3>1, SameList
  <2> QED
    BY <2>1, <2>3, <2>5, <2>6 DEF Appended, res, body
<1> QED
  BY <1>1, <1>2, <1>9, <1>10

\* append changes what a window shows only where it writes in place, behind
\* the window of the slice that it appends to.
LEMMA AppendKeeps ==
  ASSUME NEW h \in Arrays, NEW s, IsWindow(h, s), NEW xs \in Seq(Middlewares),
         NEW res, Appended(h, s, xs, res),
         NEW t, IsWindow(h, t), View(res.heap, t) # View(h, t)
  PROVE  t.at = s.at /\ s.len < t.len /\ s.len < Len(h[s.at]) /\ res.slice.at = s.at
<1>1. res.heap \in Arrays /\ IsWindow(res.heap, t)
  BY GrowsKeeps DEF Appended, Grows
<1>2. PICK i \in 1 .. t.len : h[t.at][i] # res.heap[t.at][i]
  BY <1>1, SameView
<1>3. /\ t.at \in DOMAIN h /\ t.len \in 0 .. Len(h[t.at]) /\ Len(h[t.at]) \in Nat
      /\ DOMAIN h[t.at] = 1 .. Len(h[t.at])
      /\ s.len \in Nat
  BY ArraysFacts, ListFacts, ViewIs DEF IsWindow
<1>4. i \in DOMAIN h[t.at]
  BY <1>3
<1>5. ~Moved(h, s, xs, res)
  BY <1>2, <1>3 DEF Moved
<1>6. InPlace(h, s, xs, res)
  BY <1>5 DEF Appended
<1>7. t.at = s.at /\ res.slice.at = s.at
  BY <1>2, <1>3, <1>6 DEF InPlace
<1>8. i \in s.len + 1 .. s.len + Len(xs)
  BY <1>2, <1>4, <1>6, <1>7 DEF InPlace
<1>9. s.len < t.len /\ s.len < Len(h[s.at])
  BY <1>3, <1>7, <1>8, LenProperties
<1> QED
  BY <1>7, <1>9

-----------------------------------------------------------------------------
(* Routes *)

IsSlice(s) == s = [at |-> s.at, len |-> s.len]

Rerouted(x, p, sc, po, w) ==
  [x EXCEPT !.pattern = p, !.scope = sc, !.policy = po, !.mws = w]

HasFields(y, p, ha, sc, po, w) ==
  /\ IsRoute(y) /\ y.pattern = p /\ y.handler = ha
  /\ y.scope = sc /\ y.policy = po /\ y.mws = w

LEMMA ReroutedIs ==
  ASSUME NEW x, IsRoute(x), NEW p, NEW sc, NEW po, NEW w, IsSlice(w)
  PROVE  HasFields(Rerouted(x, p, sc, po, w), p, x.handler, sc, po, w)
<1> SUFFICES ASSUME NEW y, y = Rerouted(x, p, sc, po, w)
             PROVE  HasFields(y, p, x.handler, sc, po, w)
  OBVIOUS
<1>1. x = [pattern |-> x.pattern, handler |-> x.handler, scope |-> x.scope,
           policy |-> x.policy, mws |-> [at |-> x.mws.at, len |-> x.mws.len]]
  BY DEF IsRoute
<1>2. y = [pattern |-> p, handler |-> x.handler, scope |-> sc, policy |-> po, mws |-> w]
  BY <1>1 DEF Rerouted
<1>3. /\ y.pattern = p /\ y.handler = x.handler
      /\ y.scope = sc /\ y.policy = po /\ y.mws = w
  BY <1>2
<1>4. IsRoute(y)
  BY <1>2, <1>3 DEF IsRoute, IsSlice
<1> QED
  BY <1>3, <1>4 DEF HasFields

\* The routes that Include and Sub.Add make of a route.
LEMMA RouteUnder ==
  ASSUME NEW x, IsRoute(x), NEW p, NEW w
  PROVE  [x EXCEPT !.pattern = p, !.mws = w] = Rerouted(x, p, x.scope, x.policy, w)
<1>1. x = [pattern |-> x.pattern, handler |-> x.handler, scope |-> x.scope,
           policy |-> x.policy, mws |-> [at |-> x.mws.at, len |-> x.mws.len]]
  BY DEF IsRoute
<1> QED
  BY <1>1 DEF Rerouted

\* A route with its middlewares by value.
Row(pa, ha, sc, po, m) ==
  [pattern |-> pa, handler |-> ha, scope |-> sc, policy |-> po, mws |-> m]

LEMMA RouteByValue ==
  ASSUME NEW x, IsRoute(x), NEW h
  PROVE  ByValue(h, x) = Row(x.pattern, x.handler, x.scope, x.policy, View(h, x.mws))
BY DEF IsRoute, ByValue, Row

-----------------------------------------------------------------------------
(* Include *)

LEMMA MergingIs ==
  ASSUME NEW own, NEW from, IsList(from), NEW args
  PROVE  /\ Merging(own, from, args)[0] = [heap |-> heap, routes |-> own]
         /\ \A n \in 1 .. Len(from) : Merging(own, from, args)[n] =
              Merged(Merging(own, from, args)[n - 1], from[n], args)
<1> DEFINE N == Len(from)
           Base == [heap |-> heap, routes |-> own]
           D(d, k) == d = [n \in 0 .. k |-> IF n = 0 THEN Base
                                            ELSE Merged(d[n - 1], from[n], args)]
           P == {k \in 0 .. N : \E d : D(d, k)}
           M == Merging(own, from, args)
<1>1. N \in Nat
  BY ListFacts
<1>2. \E d : D(d, 0)
  <2>1. D([n \in 0 .. 0 |-> Base], 0)
    OBVIOUS
  <2> QED
    BY <2>1, Zenon
<1>3. ASSUME NEW k \in 1 .. N, NEW d, D(d, k - 1) PROVE \E e : D(e, k)
  <2> DEFINE e == [n \in 0 .. k |-> IF n = k THEN Merged(d[k - 1], from[k], args)
                                    ELSE d[n]]
  <2>1. D(e, k)
    BY <1>1, <1>3
  <2> HIDE DEF D, e
  <2> QED
    BY <2>1
<1> HIDE DEF D
<1>4. N \in P
  <2>1. 0 \in P
    BY <1>1, <1>2
  <2>2. \A k \in 1 .. N : k - 1 \in P => k \in P
    BY <1>1, <1>3
  <2> HIDE DEF P, N
  <2>3. \A k \in 0 .. N : k \in P
    BY <1>1, <2>1, <2>2, UpTo
  <2> QED
    BY <1>1, <2>3
<1>5. \E d : D(d, N)
  BY <1>4
<1>6. M = CHOOSE d : D(d, N)
  BY DEF Merging, D
<1> HIDE DEF M
<1>7. D(M, N)
  BY <1>5, <1>6
<1>8. M = [n \in 0 .. N |-> IF n = 0 THEN Base ELSE Merged(M[n - 1], from[n], args)]
  BY <1>7 DEF D
<1> HIDE DEF N, Base
<1>9. M[0] = Base
  BY <1>1, <1>8
<1>10. \A n \in 1 .. N : M[n] = Merged(M[n - 1], from[n], args)
  BY <1>1, <1>8
<1> QED
  BY <1>9, <1>10 DEF M, N, Base

\* What has become of a route of the other registry.
Brought(route, args, h, x) ==
  /\ IsRoute(x) /\ IsWindow(h, x.mws)
  /\ x.pattern = args.prefix \o route.pattern /\ x.handler = route.handler
  /\ x.scope = route.scope /\ x.policy = route.policy
  /\ args.mws.len = Len(heap[args.mws.at]) =>
       View(h, x.mws) = View(heap, args.mws) \o View(heap, route.mws)

\* Include after n routes of the other registry.
IncludedSoFar(own, from, args, n, acc) ==
  /\ Grows(heap, acc.heap)
  /\ IsList(acc.routes) /\ Len(acc.routes) = Len(own) + n
  /\ \A i \in 1 .. Len(own) : acc.routes[i] = own[i]
  /\ \A i \in 1 .. n : Brought(from[i], args, acc.heap, acc.routes[Len(own) + i])
  /\ \A t : IsWindow(heap, t) /\ View(acc.heap, t) # View(heap, t) =>
       /\ t.at = args.mws.at /\ args.mws.len < t.len
       /\ args.mws.len < Len(heap[args.mws.at])
       /\ \E i \in 1 .. n : acc.routes[Len(own) + i].mws.at = t.at

LEMMA IncludeStep ==
  ASSUME heap \in Arrays, NEW args, IsInclude(args), IsWindow(heap, args.mws),
         NEW own, IsList(own), NEW from, NEW n \in Nat, n > 0,
         IsRoute(from[n]), IsWindow(heap, from[n].mws),
         NEW acc, IncludedSoFar(own, from, args, n - 1, acc)
  PROVE  IncludedSoFar(own, from, args, n, Merged(acc, from[n], args))
<1> DEFINE route == from[n]
           s == args.mws
           h == acc.heap
           xs == View(h, route.mws)
           res == GoAppend(h, s, xs)
           x == [route EXCEPT !.pattern = args.prefix \o @, !.mws = res.slice]
           new == Merged(acc, route, args)
           last == Len(own) + n
<1>1. /\ h \in Arrays /\ IsWindow(h, s) /\ IsWindow(h, route.mws)
      /\ s = [at |-> s.at, len |-> s.len]
  <2>1. s = [at |-> s.at, len |-> s.len]
    BY DEF IsInclude
  <2>2. Grows(heap, h)
    BY DEF IncludedSoFar
  <2>3. IsWindow(h, s) /\ IsWindow(h, route.mws)
    BY <2>2, GrowsKeeps
  <2> QED
    BY <2>1, <2>2, <2>3 DEF Grows
<1>2. xs \in Seq(Middlewares)
  BY <1>1, ViewIs
<1>3. Appended(h, s, xs, res)
  BY <1>1, <1>2, AppendIs
<1> HIDE DEF res
<1>4. new.heap = res.heap /\ new.routes = Append(acc.routes, x)
  BY DEF Merged, res
<1> HIDE DEF new
<1>5. Len(own) \in Nat /\ last \in Nat /\ last = Len(acc.routes) + 1
  BY ListFacts DEF IncludedSoFar
<1>6. /\ IsList(new.routes) /\ Len(new.routes) = last
      /\ \A i \in 1 .. last - 1 : new.routes[i] = acc.routes[i]
      /\ new.routes[last] = x
  <2>1. /\ IsList(new.routes) /\ Len(new.routes) = Len(acc.routes) + 1
        /\ \A i \in 1 .. Len(acc.routes) : new.routes[i] = acc.routes[i]
        /\ new.routes[Len(acc.routes) + 1] = x
    BY <1>4, AppendList DEF IncludedSoFar
  <2>2. Len(acc.routes) = last - 1
    BY <1>5, ListFacts DEF IncludedSoFar
  <2> HIDE DEF last, x
  <2> QED
    BY <1>5, <2>1, <2>2
<1>7. /\ IsRoute(x) /\ x.pattern = args.prefix \o route.pattern
      /\ x.handler = route.handler /\ x.scope = route.scope
      /\ x.policy = route.policy /\ x.mws = res.slice
  <2>1. IsSlice(res.slice)
    BY <1>3 DEF Appended, IsSlice
  <2>2. PICK p : p = args.prefix \o route.pattern
    OBVIOUS
  <2>3. x = [route EXCEPT !.pattern = p, !.mws = res.slice]
    BY <2>2 DEF IsRoute
  <2>4. IsRoute(route)
    OBVIOUS
  <2> HIDE DEF x, route
  <2>5. x = Rerouted(route, p, route.scope, route.policy, res.slice)
    BY <2>3, <2>4, RouteUnder, Zenon
  <2>6. HasFields(x, p, route.handler, route.scope, route.policy, res.slice)
    BY <2>1, <2>4, <2>5, ReroutedIs
  <2> QED
    BY <2>2, <2>6 DEF HasFields
<1> HIDE DEF x, last
<1>8. Grows(heap, res.heap)
  BY <1>3, GrowsOn DEF Appended, IncludedSoFar
\* A view that this step changes lies behind the prefix, as the new route does.
<1>9. ASSUME NEW t, IsWindow(h, t), View(res.heap, t) # View(h, t)
      PROVE  t.at = s.at /\ s.len < t.len /\ s.len < Len(h[s.at]) /\ x.mws.at = s.at
  BY <1>1, <1>2, <1>3, <1>7, <1>9, AppendKeeps
<1>10. s.at \in DOMAIN heap /\ Len(h[s.at]) = Len(heap[s.at]) /\ Len(heap[s.at]) \in Nat
       /\ s.len \in Nat
  BY ArraysFacts, ListFacts, ViewIs DEF IncludedSoFar, Grows, IsWindow
<1>11. View(h, s) = View(heap, s)
  BY <1>10 DEF IncludedSoFar
<1>12. ASSUME s.len = Len(heap[s.at]), NEW t, IsWindow(h, t)
       PROVE  View(res.heap, t) = View(h, t)
  BY <1>9, <1>10, <1>12
<1>13. ASSUME NEW i \in 1 .. n
       PROVE  Brought(from[i], args, new.heap, new.routes[Len(own) + i])
  <2>1. CASE i = n
    <3>1. new.routes[Len(own) + i] = x
      BY <1>6, <2>1 DEF last
    <3>2. IsWindow(new.heap, x.mws)
      BY <1>3, <1>4, <1>7 DEF Appended
    <3>3. ASSUME s.len = Len(heap[s.at])
          PROVE  View(new.heap, x.mws) = View(heap, s) \o View(heap, route.mws)
      <4>1. View(new.heap, x.mws) = View(h, s) \o xs
        BY <1>3, <1>4, <1>7 DEF Appended
      <4>2. xs = View(heap, route.mws)
        BY <1>10, <3>3 DEF IncludedSoFar
      <4> QED
        BY <1>11, <4>1, <4>2
    <3> QED
      BY <1>7, <2>1, <3>1, <3>2, <3>3 DEF Brought
  <2>2. CASE i \in 1 .. n - 1
    <3> DEFINE y == acc.routes[Len(own) + i]
    <3>1. new.routes[Len(own) + i] = y
      <4>1. Len(own) + i \in 1 .. last - 1
        BY <1>5, <2>2 DEF last
      <4> HIDE DEF new
      <4> QED
        BY <1>6, <4>1
    <3>2. Brought(from[i], args, h, y)
      BY <2>2 DEF IncludedSoFar
    <3> HIDE DEF y
    <3>3. IsWindow(h, y.mws) /\ IsWindow(new.heap, y.mws)
      BY <1>1, <1>3, <1>4, <3>2, GrowsKeeps DEF Appended, Brought
    <3>4. ASSUME s.len = Len(heap[s.at])
          PROVE  View(new.heap, y.mws) = View(heap, s) \o View(heap, from[i].mws)
      BY <1>4, <1>12, <3>2, <3>3, <3>4 DEF Brought
    <3> QED
      BY <3>1, <3>2, <3>3, <3>4 DEF Brought
  <2> QED
    BY <2>1, <2>2
<1>14. ASSUME NEW t, IsWindow(heap, t), View(new.heap, t) # View(heap, t)
       PROVE  /\ t.at = s.at /\ s.len < t.len /\ s.len < Len(heap[s.at])
              /\ \E i \in 1 .. n : new.routes[Len(own) + i].mws.at = t.at
  <2>1. CASE View(h, t) # View(heap, t)
    <3>1. PICK i \in 1 .. n - 1 : acc.routes[Len(own) + i].mws.at = t.at
      BY <1>14, <2>1 DEF IncludedSoFar
    <3>2. new.routes[Len(own) + i] = acc.routes[Len(own) + i] /\ i \in 1 .. n
      <4>1. Len(own) + i \in 1 .. last - 1 /\ i \in 1 .. n
        BY <1>5 DEF last
      <4> HIDE DEF new
      <4> QED
        BY <1>6, <4>1
    <3>3. t.at = s.at /\ s.len < t.len /\ s.len < Len(heap[s.at])
      BY <1>14, <2>1 DEF IncludedSoFar
    <3> QED
      BY <3>1, <3>2, <3>3
  <2>2. CASE View(h, t) = View(heap, t)
    <3>1. IsWindow(h, t) /\ View(res.heap, t) # View(h, t)
      BY <1>4, <1>14, <2>2, GrowsKeeps DEF IncludedSoFar
    <3>2. n \in 1 .. n /\ new.routes[Len(own) + n].mws.at = s.at
      BY <1>6, <1>9, <3>1 DEF last
    <3> QED
      BY <1>9, <1>10, <3>1, <3>2
  <2> QED
    BY <2>1, <2>2
<1>15. \A i \in 1 .. Len(own) : new.routes[i] = own[i]
  <2>1. \A i \in 1 .. Len(own) : i \in 1 .. last - 1
    BY <1>5 DEF last
  <2> QED
    BY <1>6, <2>1 DEF IncludedSoFar
<1>16. IncludedSoFar(own, from, args, n, new)
  <2>1. Len(new.routes) = Len(own) + n
    BY <1>6 DEF last
  <2> QED
    BY <1>4, <1>6, <1>8, <1>13, <1>14, <1>15, <2>1 DEF IncludedSoFar
<1> QED
  BY <1>16 DEF new

LEMMA IncludeLoop ==
  ASSUME heap \in Arrays, NEW args, IsInclude(args), IsWindow(heap, args.mws),
         NEW own, IsList(own), NEW from, IsList(from),
         \A i \in 1 .. Len(from) : IsRoute(from[i]) /\ IsWindow(heap, from[i].mws)
  PROVE  IncludedSoFar(own, from, args, Len(from), Merging(own, from, args)[Len(from)])
<1> DEFINE N == Len(from)
           M == Merging(own, from, args)
           P == {n \in 0 .. N : IncludedSoFar(own, from, args, n, M[n])}
<1>1. /\ M[0] = [heap |-> heap, routes |-> own]
      /\ \A n \in 1 .. N : M[n] = Merged(M[n - 1], from[n], args)
  BY MergingIs
<1>2. N \in Nat /\ Len(own) \in Nat
  BY ListFacts
<1> HIDE DEF M
<1>3. 0 \in P
  <2>1. M[0].heap = heap /\ M[0].routes = own /\ Grows(heap, heap)
    BY <1>1, GrowsNot
  <2> QED
    BY <1>2, <2>1 DEF IncludedSoFar
<1>4. ASSUME NEW n \in 1 .. N, n - 1 \in P PROVE n \in P
  <2>1. n \in Nat /\ n > 0 /\ IsRoute(from[n]) /\ IsWindow(heap, from[n].mws)
    BY <1>2
  <2>2. IncludedSoFar(own, from, args, n - 1, M[n - 1])
    BY <1>4
  <2>3. IncludedSoFar(own, from, args, n, Merged(M[n - 1], from[n], args))
    BY <2>1, <2>2, IncludeStep
  <2> QED
    BY <1>1, <1>2, <2>3
<1> HIDE DEF P
<1>5. \A n \in 0 .. N : n \in P
  BY <1>2, <1>3, <1>4, UpTo
<1> QED
  BY <1>2, <1>5 DEF M, P

-----------------------------------------------------------------------------
(* Type correctness *)

\* A registry's routes are routes whose slices lie in the arrays h.
RoutesOK(h, list) ==
  /\ IsList(list)
  /\ \A i \in DOMAIN list : IsRoute(list[i]) /\ IsWindow(h, list[i].mws)

LEMMA RoutesGrow ==
  ASSUME NEW h \in Arrays, NEW k, Grows(h, k), NEW list, RoutesOK(h, list)
  PROVE  RoutesOK(k, list)
BY GrowsKeeps DEF RoutesOK

LEMMA RoutesAppend ==
  ASSUME NEW h, NEW list, RoutesOK(h, list),
         NEW x, IsRoute(x), IsWindow(h, x.mws)
  PROVE  RoutesOK(h, Append(list, x))
<1>1. IsList(list) /\ Len(list) \in Nat /\ DOMAIN list = 1 .. Len(list)
  BY ListFacts DEF RoutesOK
<1> DEFINE new == Append(list, x)
<1>2. /\ IsList(new) /\ Len(new) = Len(list) + 1
      /\ \A i \in 1 .. Len(list) : new[i] = list[i]
      /\ new[Len(list) + 1] = x
  BY <1>1, AppendList
<1> HIDE DEF new
<1>3. DOMAIN new = 1 .. Len(list) + 1
  BY <1>2, ListFacts
<1>4. \A i \in DOMAIN new : i \in 1 .. Len(list) \/ i = Len(list) + 1
  BY <1>1, <1>3
<1>5. \A i \in DOMAIN new : IsRoute(new[i]) /\ IsWindow(h, new[i].mws)
  BY <1>1, <1>2, <1>4 DEF RoutesOK
<1> QED
  BY <1>2, <1>5 DEF RoutesOK, new

\* What SubRouter.Add makes of its route, and what it does.
Joined(s, route, slice) ==
  Rerouted(route, s.prefix \o route.pattern,
           OrDefault(route.scope, s.scope, NoScope),
           OrDefault(route.policy, s.policy, NoPolicy), slice)

LEMMA SubAddIs ==
  ASSUME TypeOK, NEW g \in Groups, NEW route \in Offers, SubAdd(g, route)
  PROVE  LET r == subs[g].registry
             s == subs[g].args
             res == GoAppend(heap, s.mws, View(heap, route.mws))
             x == Joined(s, route, res.slice)
         IN  /\ subs[g] # NoGroup /\ r \in Registries /\ s \in SubCalls
             /\ View(heap, route.mws) \in Seq(Middlewares)
             /\ Appended(heap, s.mws, View(heap, route.mws), res)
             /\ heap' = res.heap
             /\ IsRoute(x) /\ IsWindow(res.heap, x.mws) /\ x.mws = res.slice
             /\ routes' = [routes EXCEPT ![r] = Append(@, x)]
<1> DEFINE r == subs[g].registry
           s == subs[g].args
           xs == View(heap, route.mws)
           res == GoAppend(heap, s.mws, xs)
           x == Joined(s, route, res.slice)
<1>1. subs[g] # NoGroup
  BY DEF SubAdd
<1>2. subs[g] \in [registry : Registries, args : SubCalls]
  BY <1>1 DEF TypeOK
<1>3. r \in Registries /\ s \in SubCalls
  BY <1>2
<1>4. IsRoute(route) /\ IsGroup(s)
  BY <1>3, RegistryAssumption
<1>5. heap \in Arrays /\ IsWindow(heap, route.mws) /\ IsWindow(heap, s.mws)
  BY <1>3 DEF TypeOK
<1>6. xs \in Seq(Middlewares)
  BY <1>5, ViewIs
<1>7. s.mws = [at |-> s.mws.at, len |-> s.mws.len]
  BY <1>4 DEF IsGroup
<1>8. Appended(heap, s.mws, xs, res)
  BY <1>5, <1>6, <1>7, AppendIs
<1>9. IsSlice(res.slice) /\ IsWindow(res.heap, res.slice)
  BY <1>8 DEF Appended, IsSlice
<1>10. HasFields(x, s.prefix \o route.pattern, route.handler,
                 OrDefault(route.scope, s.scope, NoScope),
                 OrDefault(route.policy, s.policy, NoPolicy), res.slice)
  BY <1>4, <1>9, ReroutedIs DEF Joined
<1>11. /\ heap' = res.heap
       /\ routes' = [routes EXCEPT ![r] = Append(@,
             [route EXCEPT
                !.pattern = s.prefix \o @,
                !.scope   = OrDefault(@, s.scope, NoScope),
                !.policy  = OrDefault(@, s.policy, NoPolicy),
                !.mws     = res.slice])]
  BY DEF SubAdd
<1> HIDE DEF res
<1>12. x = [route EXCEPT
              !.pattern = s.prefix \o @,
              !.scope   = OrDefault(@, s.scope, NoScope),
              !.policy  = OrDefault(@, s.policy, NoPolicy),
              !.mws     = res.slice]
  BY <1>4 DEF Joined, Rerouted, IsRoute
<1> HIDE DEF x
<1>13. routes' = [routes EXCEPT ![r] = Append(@, x)]
  BY <1>11, <1>12
<1>14. IsRoute(x) /\ IsWindow(res.heap, x.mws) /\ x.mws = res.slice
  BY <1>9, <1>10 DEF HasFields
<1> QED
  BY <1>1, <1>3, <1>6, <1>8, <1>11, <1>13, <1>14 DEF res, x

LEMMA IncludeIs ==
  ASSUME TypeOK, NEW r \in Registries, NEW other \in Registries,
         NEW args \in IncludeCalls, Include(r, other, args)
  PROVE  \E acc :
           /\ IncludedSoFar(routes[r], routes[other], args, Len(routes[other]), acc)
           /\ heap' = acc.heap
           /\ routes' = [routes EXCEPT ![r] = acc.routes]
<1> DEFINE acc == Merging(routes[r], routes[other], args)[Len(routes[other])]
<1>1. heap' = acc.heap /\ routes' = [routes EXCEPT ![r] = acc.routes]
  BY DEF Include
<1>2. heap \in Arrays /\ IsWindow(heap, args.mws) /\ IsInclude(args)
  BY RegistryAssumption DEF TypeOK
<1>3. IsList(routes[r]) /\ IsList(routes[other])
  BY DEF TypeOK
<1>4. \A i \in 1 .. Len(routes[other]) :
        IsRoute(routes[other][i]) /\ IsWindow(heap, routes[other][i].mws)
  BY <1>3, ListFacts DEF TypeOK
<1>5. IncludedSoFar(routes[r], routes[other], args, Len(routes[other]), acc)
  BY <1>2, <1>3, <1>4, IncludeLoop
<1> HIDE DEF acc
<1> QED
  BY <1>1, <1>5

LEMMA IncludedOK ==
  ASSUME heap \in Arrays, NEW own, RoutesOK(heap, own),
         NEW from, IsList(from), NEW args,
         NEW acc, IncludedSoFar(own, from, args, Len(from), acc)
  PROVE  /\ Grows(heap, acc.heap) /\ RoutesOK(acc.heap, acc.routes)
         /\ Len(acc.routes) >= Len(own)
<1> DEFINE n == Len(from)
<1>1. /\ Len(own) \in Nat /\ DOMAIN own = 1 .. Len(own) /\ n \in Nat
  BY ListFacts DEF RoutesOK
<1>2. Grows(heap, acc.heap) /\ IsList(acc.routes) /\ Len(acc.routes) = Len(own) + n
  BY DEF IncludedSoFar
<1>3. RoutesOK(acc.heap, own)
  BY <1>2, RoutesGrow
<1>4. ASSUME NEW i \in 1 .. Len(own)
      PROVE  IsRoute(acc.routes[i]) /\ IsWindow(acc.heap, acc.routes[i].mws)
  BY <1>1, <1>3 DEF IncludedSoFar, RoutesOK
<1>5. ASSUME NEW i \in 1 .. n
      PROVE  /\ IsRoute(acc.routes[Len(own) + i])
             /\ IsWindow(acc.heap, acc.routes[Len(own) + i].mws)
  BY DEF IncludedSoFar, Brought
<1>6. ASSUME NEW j \in DOMAIN acc.routes
      PROVE  j \in 1 .. Len(own) \/ \E i \in 1 .. n : j = Len(own) + i
  <2>1. j \in 1 .. Len(own) + n
    BY <1>2, ListFacts
  <2>2. CASE j > Len(own)
    <3>1. j - Len(own) \in 1 .. n /\ j = Len(own) + (j - Len(own))
      BY <1>1, <2>1, <2>2
    <3> QED
      BY <3>1
  <2>3. CASE ~(j > Len(own))
    BY <1>1, <2>1, <2>3
  <2> QED
    BY <2>2, <2>3
<1>7. \A j \in DOMAIN acc.routes :
        IsRoute(acc.routes[j]) /\ IsWindow(acc.heap, acc.routes[j].mws)
  BY <1>4, <1>5, <1>6
<1> QED
  BY <1>1, <1>2, <1>7 DEF RoutesOK

LEMMA TypeOKIs ==
  TypeOK <=>
    /\ heap \in Arrays
    /\ routes = [r \in Registries |-> routes[r]]
    /\ \A r \in Registries : RoutesOK(heap, routes[r])
    /\ \A x \in Offers \cup SubCalls \cup IncludeCalls : IsWindow(heap, x.mws)
    /\ subs \in [Groups -> {NoGroup} \cup [registry : Registries, args : SubCalls]]
    /\ calls \in 0 .. MaxCalls
    /\ IsList(mux) /\ Len(mux) <= Len(routes[Root])
    /\ outcome \in {"building", "mounting", "ok", "error", "panic"}
BY DEF TypeOK, RoutesOK

\* A call that replaces the routes of one registry by at least as many.
LEMMA CallTypes ==
  ASSUME TypeOK, Call, Grows(heap, heap'),
         NEW r \in Registries, NEW list, RoutesOK(heap', list),
         Len(list) >= Len(routes[r]), routes' = [routes EXCEPT ![r] = list],
         UNCHANGED <<subs, mux, outcome>>
  PROVE  TypeOK'
<1>1. /\ heap \in Arrays /\ routes = [q \in Registries |-> routes[q]]
      /\ \A q \in Registries : RoutesOK(heap, routes[q])
  BY TypeOKIs
<1>2. /\ routes'[r] = list /\ routes' = [q \in Registries |-> routes'[q]]
      /\ \A q \in Registries : q # r => routes'[q] = routes[q]
  BY <1>1
<1>3. \A q \in Registries : RoutesOK(heap', routes'[q])
  BY <1>1, <1>2, RoutesGrow
<1>4. \A x \in Offers \cup SubCalls \cup IncludeCalls : IsWindow(heap', x.mws)
  BY <1>1, GrowsKeeps DEF TypeOK
<1>5. Len(mux) \in Nat /\ Len(routes[Root]) \in Nat /\ Len(list) \in Nat
  BY RegistryAssumption, ListFacts DEF TypeOK, RoutesOK
<1>6. Len(mux') <= Len(routes'[Root])
  BY <1>2, <1>5, RegistryAssumption DEF TypeOK
<1>7. calls' \in 0 .. MaxCalls
  BY RegistryAssumption DEF TypeOK, Call
<1>8. /\ subs' \in [Groups -> {NoGroup} \cup [registry : Registries, args : SubCalls]]
      /\ IsList(mux') /\ outcome' \in {"building", "mounting", "ok", "error", "panic"}
  BY DEF TypeOK
<1>9. heap' \in Arrays
  BY DEF Grows
<1> QED
  BY <1>2, <1>3, <1>4, <1>6, <1>7, <1>8, <1>9 DEF TypeOK, RoutesOK

LEMMA InitTypes == Init => TypeOK
<1> SUFFICES ASSUME Init PROVE TypeOK
  OBVIOUS
<1>1. /\ heap \in Arrays
      /\ \A x \in Offers \cup SubCalls \cup IncludeCalls : IsWindow(heap, x.mws)
  BY RegistryAssumption DEF Init
<1>2. IsList(<<>>) /\ Len(<<>>) = 0 /\ \A i \in DOMAIN <<>> : FALSE
  <2>1. <<>> \in Seq({}) /\ Len(<<>>) = 0
    BY EmptySeq
  <2>2. IsList(<<>>)
    BY <2>1, SeqIsList
  <2> QED
    BY <2>1, <2>2
<1>3. /\ routes = [q \in Registries |-> routes[q]]
      /\ \A q \in Registries : RoutesOK(heap, routes[q])
  <2>1. RoutesOK(heap, <<>>)
    BY <1>2 DEF RoutesOK
  <2> QED
    BY <2>1 DEF Init
<1>4. subs \in [Groups -> {NoGroup} \cup [registry : Registries, args : SubCalls]]
  BY DEF Init
<1>5. calls \in 0 .. MaxCalls
  BY RegistryAssumption DEF Init
<1>6. IsList(mux) /\ Len(mux) <= Len(routes[Root])
  BY <1>2, RegistryAssumption DEF Init
<1>7. outcome \in {"building", "mounting", "ok", "error", "panic"}
  BY DEF Init
<1> QED
  BY <1>1, <1>3, <1>4, <1>5, <1>6, <1>7, TypeOKIs

LEMMA AddTypes ==
  ASSUME TypeOK, NEW r \in Registries, NEW route \in Offers, Add(r, route)
  PROVE  TypeOK'
<1> DEFINE list == Append(routes[r], route)
<1>1. /\ Call /\ routes' = [routes EXCEPT ![r] = list] /\ heap' = heap
      /\ UNCHANGED <<subs, mux, outcome>>
  BY DEF Add
<1>2. heap \in Arrays /\ RoutesOK(heap, routes[r]) /\ IsWindow(heap, route.mws)
  BY TypeOKIs
<1>3. IsRoute(route)
  BY RegistryAssumption
<1>4. RoutesOK(heap, list)
  BY <1>2, <1>3, RoutesAppend
<1>5. Len(list) >= Len(routes[r])
  BY <1>2, AppendList, ListFacts DEF RoutesOK
<1>6. Grows(heap, heap') /\ RoutesOK(heap', list)
  BY <1>1, <1>2, <1>4, GrowsNot
<1> HIDE DEF list
<1> QED
  BY <1>1, <1>5, <1>6, CallTypes

LEMMA SubAddTypes ==
  ASSUME TypeOK, NEW g \in Groups, NEW route \in Offers, SubAdd(g, route)
  PROVE  TypeOK'
<1> DEFINE r == subs[g].registry
           res == GoAppend(heap, subs[g].args.mws, View(heap, route.mws))
           x == Joined(subs[g].args, route, res.slice)
           list == Append(routes[r], x)
<1>1. /\ r \in Registries
      /\ Appended(heap, subs[g].args.mws, View(heap, route.mws), res)
      /\ heap' = res.heap /\ IsRoute(x) /\ IsWindow(res.heap, x.mws)
      /\ routes' = [routes EXCEPT ![r] = Append(@, x)]
  BY SubAddIs
<1>2. Call /\ UNCHANGED <<subs, mux, outcome>>
  BY DEF SubAdd
<1> HIDE DEF r, res, x
<1>3. Grows(heap, heap')
  BY <1>1 DEF Appended
<1>4. heap \in Arrays /\ RoutesOK(heap, routes[r])
  BY <1>1, TypeOKIs
<1>5. RoutesOK(heap', list)
  BY <1>1, <1>3, <1>4, RoutesGrow, RoutesAppend
<1>6. Len(list) >= Len(routes[r])
  BY <1>4, AppendList, ListFacts DEF RoutesOK
<1>7. routes' = [routes EXCEPT ![r] = list]
  BY <1>1
<1> HIDE DEF list
<1> QED
  BY <1>1, <1>2, <1>3, <1>5, <1>6, <1>7, CallTypes

LEMMA IncludeTypes ==
  ASSUME TypeOK, NEW r \in Registries, NEW other \in Registries,
         NEW args \in IncludeCalls, Include(r, other, args)
  PROVE  TypeOK'
<1>1. Call /\ UNCHANGED <<subs, mux, outcome>>
  BY DEF Include
<1>2. PICK acc :
        /\ IncludedSoFar(routes[r], routes[other], args, Len(routes[other]), acc)
        /\ heap' = acc.heap
        /\ routes' = [routes EXCEPT ![r] = acc.routes]
  BY IncludeIs
<1>3. /\ heap \in Arrays /\ RoutesOK(heap, routes[r]) /\ IsList(routes[other])
  BY TypeOKIs DEF RoutesOK
<1>4. /\ Grows(heap, acc.heap) /\ RoutesOK(acc.heap, acc.routes)
      /\ Len(acc.routes) >= Len(routes[r])
  BY <1>2, <1>3, IncludedOK
<1> QED
  BY <1>1, <1>2, <1>4, CallTypes

\* Steps that leave the arrays and the registries alone.
LEMMA OtherTypes ==
  ASSUME TypeOK, UNCHANGED <<heap, routes>>,
         subs' \in [Groups -> {NoGroup} \cup [registry : Registries, args : SubCalls]],
         calls' \in 0 .. MaxCalls,
         IsList(mux'), Len(mux') <= Len(routes[Root]),
         outcome' \in {"building", "mounting", "ok", "error", "panic"}
  PROVE  TypeOK'
BY DEF TypeOK

LEMMA SubTypes ==
  ASSUME TypeOK, NEW g \in Groups, NEW r \in Registries, NEW args \in SubCalls,
         Sub(g, r, args)
  PROVE  TypeOK'
<1>1. /\ subs' = [subs EXCEPT ![g] = [registry |-> r, args |-> args]]
      /\ UNCHANGED <<heap, routes, mux, outcome>>
  BY DEF Sub
<1>2. subs' \in [Groups -> {NoGroup} \cup [registry : Registries, args : SubCalls]]
  BY <1>1 DEF TypeOK
<1>3. calls' \in 0 .. MaxCalls
  BY RegistryAssumption DEF Sub, Call, TypeOK
<1>4. /\ IsList(mux') /\ Len(mux') <= Len(routes[Root])
      /\ outcome' \in {"building", "mounting", "ok", "error", "panic"}
  BY <1>1 DEF TypeOK
<1> QED
  BY <1>1, <1>2, <1>3, <1>4, OtherTypes

LEMMA MountTypes ==
  ASSUME TypeOK, StartMount \/ Mount \/ EndMount
  PROVE  TypeOK'
<1>1. UNCHANGED <<heap, routes, subs, calls>>
  BY DEF StartMount, Mount, EndMount
<1>2. /\ subs' \in [Groups -> {NoGroup} \cup [registry : Registries, args : SubCalls]]
      /\ calls' \in 0 .. MaxCalls
  BY <1>1 DEF TypeOK
<1>3. outcome' \in {"building", "mounting", "ok", "error", "panic"}
  BY DEF TypeOK, StartMount, Mount, EndMount
<1>4. Len(mux) \in Nat /\ Len(routes[Root]) \in Nat
  BY RegistryAssumption, ListFacts DEF TypeOK
<1>5. IsList(mux') /\ Len(mux') <= Len(routes[Root])
  <2>1. CASE mux' = mux
    BY <2>1 DEF TypeOK
  <2>2. ASSUME NEW e, mux' = Append(mux, e), Len(mux) < Len(routes[Root])
        PROVE  IsList(mux') /\ Len(mux') <= Len(routes[Root])
    <3>1. IsList(mux') /\ Len(mux') = Len(mux) + 1
      BY <2>2, AppendList DEF TypeOK
    <3> QED
      BY <1>4, <2>2, <3>1
  <2> QED
    BY <2>1, <2>2 DEF StartMount, Mount, EndMount
<1> QED
  BY <1>1, <1>2, <1>3, <1>5, OtherTypes

LEMMA NextTypes == TypeOK /\ [Next]_vars => TypeOK'
<1> SUFFICES ASSUME TypeOK, [Next]_vars PROVE TypeOK'
  OBVIOUS
<1>1. ASSUME NEW r \in Registries, NEW route \in Offers, Add(r, route)
      PROVE  TypeOK'
  BY <1>1, AddTypes
<1>2. ASSUME NEW g \in Groups, NEW r \in Registries, NEW args \in SubCalls,
             Sub(g, r, args)
      PROVE  TypeOK'
  BY <1>2, SubTypes
<1>3. ASSUME NEW g \in Groups, NEW route \in Offers, SubAdd(g, route)
      PROVE  TypeOK'
  BY <1>3, SubAddTypes
<1>4. ASSUME NEW r \in Registries, NEW other \in Registries,
             NEW args \in IncludeCalls, Include(r, other, args)
      PROVE  TypeOK'
  BY <1>4, IncludeTypes
<1>5. CASE StartMount \/ Mount \/ EndMount
  BY <1>5, MountTypes
<1>6. CASE UNCHANGED vars
  BY <1>6 DEF vars, TypeOK
<1> QED
  BY <1>1, <1>2, <1>3, <1>4, <1>5, <1>6 DEF Next

(* append never shows a zero value that it left behind a slice, whatever   *)
(* arrays are shared, and every route's slice stays a slice of an array.   *)
THEOREM TypeCorrect == Spec => []TypeOK
<1>1. Init => TypeOK
  BY InitTypes
<1>2. TypeOK /\ [Next]_vars => TypeOK'
  BY NextTypes
<1> QED
  BY <1>1, <1>2, PTL DEF Spec

-----------------------------------------------------------------------------
(* Who rewrites a route *)

\* A slice passed as ms... through which a step rewrites what lies in array a.
RewritesThrough(base, a) ==
  /\ base.at = a /\ base.len < Len(heap[a])
  /\ View(heap', base) = View(heap, base)
  /\ \E q \in Registries : \E j \in DOMAIN routes'[q] :
       j > Len(routes[q]) /\ routes'[q][j].mws.at = a

LEMMA SubAddRewrites ==
  ASSUME TypeOK, NEW g \in Groups, NEW route \in Offers, SubAdd(g, route),
         NEW t, IsWindow(heap, t), View(heap', t) # View(heap, t)
  PROVE  \E base \in Bundles : RewritesThrough(base, t.at)
<1> DEFINE r == subs[g].registry
           s == subs[g].args
           xs == View(heap, route.mws)
           res == GoAppend(heap, s.mws, xs)
           x == Joined(s, route, res.slice)
           list == Append(routes[r], x)
<1>1. /\ r \in Registries /\ s \in SubCalls /\ xs \in Seq(Middlewares)
      /\ Appended(heap, s.mws, xs, res)
      /\ heap' = res.heap /\ x.mws = res.slice
      /\ routes' = [routes EXCEPT ![r] = list]
  BY SubAddIs
<1> HIDE DEF res, x
<1>2. heap \in Arrays /\ IsWindow(heap, s.mws) /\ s.mws \in Bundles
  BY <1>1 DEF TypeOK, Bundles
<1>3. /\ t.at = s.mws.at /\ s.mws.len < Len(heap[s.mws.at])
      /\ res.slice.at = s.mws.at
  BY <1>1, <1>2, AppendKeeps
<1>4. View(heap', s.mws) = View(heap, s.mws)
  <2>1. s.mws.len \in Nat
    BY <1>2, ViewIs
  <2>2. ~(s.mws.len < s.mws.len)
    BY <2>1
  <2> QED
    BY <1>1, <1>2, <2>2, AppendKeeps
<1>5. /\ IsList(list) /\ Len(routes[r]) \in Nat /\ Len(list) = Len(routes[r]) + 1
      /\ list[Len(routes[r]) + 1] = x
  BY <1>1, AppendList, ListFacts DEF TypeOK
<1>6. routes'[r] = list
  BY <1>1 DEF TypeOK
<1> HIDE DEF list
<1>7. /\ Len(routes[r]) + 1 \in DOMAIN routes'[r] /\ Len(routes[r]) + 1 > Len(routes[r])
      /\ routes'[r][Len(routes[r]) + 1].mws.at = t.at
  BY <1>1, <1>3, <1>5, <1>6, ListFacts
<1>8. \E q \in Registries : \E j \in DOMAIN routes'[q] :
        j > Len(routes[q]) /\ routes'[q][j].mws.at = t.at
  BY <1>1, <1>7
<1>9. RewritesThrough(s.mws, t.at)
  BY <1>3, <1>4, <1>8 DEF RewritesThrough
<1> QED
  BY <1>2, <1>9

LEMMA IncludeRewrites ==
  ASSUME TypeOK, NEW r \in Registries, NEW other \in Registries,
         NEW args \in IncludeCalls, Include(r, other, args),
         NEW t, IsWindow(heap, t), View(heap', t) # View(heap, t)
  PROVE  \E base \in Bundles : RewritesThrough(base, t.at)
<1> DEFINE n == Len(routes[other])
           s == args.mws
<1>1. PICK acc : /\ IncludedSoFar(routes[r], routes[other], args, n, acc)
                 /\ heap' = acc.heap
                 /\ routes' = [routes EXCEPT ![r] = acc.routes]
  BY IncludeIs
<1>2. s \in Bundles /\ heap \in Arrays /\ IsWindow(heap, s)
  BY DEF Bundles, TypeOK
<1>3. /\ t.at = s.at /\ s.len < t.len /\ s.len < Len(heap[s.at])
  BY <1>1 DEF IncludedSoFar
<1>4. View(heap', s) = View(heap, s)
  <2>1. s.len \in Nat
    BY <1>2, ViewIs
  <2>2. ~(s.len < s.len)
    BY <2>1
  <2> QED
    BY <1>1, <1>2, <2>2 DEF IncludedSoFar
<1>5. PICK i \in 1 .. n : acc.routes[Len(routes[r]) + i].mws.at = t.at
  BY <1>1 DEF IncludedSoFar
<1>6. Len(routes[r]) \in Nat /\ n \in Nat
  BY ListFacts DEF TypeOK
<1>7. routes'[r] = acc.routes
  BY <1>1 DEF TypeOK
<1>8. DOMAIN acc.routes = 1 .. Len(routes[r]) + n
  BY <1>1, ListFacts DEF IncludedSoFar
<1>9. Len(routes[r]) + i \in DOMAIN routes'[r] /\ Len(routes[r]) + i > Len(routes[r])
  <2>1. /\ Len(routes[r]) + i \in 1 .. Len(routes[r]) + n
        /\ Len(routes[r]) + i > Len(routes[r])
    <3>1. PICK a \in Nat : a = Len(routes[r])
      BY <1>6
    <3>2. PICK b \in Nat : b = n
      BY <1>6
    <3>3. i \in 1 .. b
      BY <1>5, <3>2
    <3>4. a + i \in 1 .. a + b /\ a + i > a
      BY <3>3
    <3> QED
      BY <3>1, <3>2, <3>4
  <2> QED
    BY <1>7, <1>8, <2>1
<1>10. \E q \in Registries : \E j \in DOMAIN routes'[q] :
         j > Len(routes[q]) /\ routes'[q][j].mws.at = t.at
  BY <1>5, <1>7, <1>9
<1>11. RewritesThrough(s, t.at)
  BY <1>3, <1>4, <1>10 DEF RewritesThrough
<1> QED
  BY <1>2, <1>11

LEMMA NextRewrites ==
  ASSUME TypeOK, [Next]_vars,
         NEW t, IsWindow(heap, t), View(heap', t) # View(heap, t)
  PROVE  \E base \in Bundles : RewritesThrough(base, t.at)
<1>1. heap' # heap
  OBVIOUS
<1>2. \/ \E g \in Groups, route \in Offers : SubAdd(g, route)
      \/ \E r, other \in Registries, args \in IncludeCalls : Include(r, other, args)
  BY <1>1 DEF Next, vars, Add, Sub, StartMount, Mount, EndMount
<1> QED
  BY <1>2, SubAddRewrites, IncludeRewrites

(* Whatever changes in the middlewares of a route that is there already    *)
(* changes behind a slice passed as ms... with spare capacity, and because *)
(* a route that is added lies in the same array.                           *)
THEOREM RewritesBehindPrefix == Spec => RewrittenOnlyBehindSharedPrefix
<1> DEFINE Kept ==
      \A r \in Registries : \A i \in DOMAIN routes[r] :
        LET s == routes[r][i].mws
        IN  View(heap', s) # View(heap, s) =>
              \E base \in Bundles :
                /\ base.at = s.at /\ base.len < Len(heap[s.at])
                /\ View(heap', base) = View(heap, base)
                /\ \E q \in Registries : \E j \in DOMAIN routes'[q] :
                     /\ j > Len(routes[q])
                     /\ routes'[q][j].mws.at = s.at
<1>1. ASSUME TypeOK, [Next]_vars PROVE Kept
  <2> SUFFICES ASSUME NEW r \in Registries, NEW i \in DOMAIN routes[r],
                      NEW s, s = routes[r][i].mws, View(heap', s) # View(heap, s)
               PROVE  \E base \in Bundles : RewritesThrough(base, s.at)
    BY DEF RewritesThrough
  <2>1. IsWindow(heap, s)
    BY <1>1 DEF TypeOK
  <2> QED
    BY <1>1, <2>1, NextRewrites
<1>2. TypeOK /\ [Next]_vars => [Kept]_vars
  BY <1>1
<1> HIDE DEF Kept
<1>3. Spec => [][Kept]_vars
  BY <1>2, TypeCorrect, PTL DEF Spec
<1> QED
  BY <1>3 DEF RewrittenOnlyBehindSharedPrefix, Kept

-----------------------------------------------------------------------------
(* Registries as lists of routes by value *)

ListByValue(h, list) == [i \in DOMAIN list |-> ByValue(h, list[i])]

LEMMA TableIs ==
  ASSUME TypeOK
  PROVE  table = [r \in Registries |-> ListByValue(heap, routes[r])]
BY DEF table, ListByValue

LEMMA ListByValueIs ==
  ASSUME NEW h, NEW list, IsList(list)
  PROVE  /\ IsList(ListByValue(h, list)) /\ Len(ListByValue(h, list)) = Len(list)
         /\ \A i \in 1 .. Len(list) : ListByValue(h, list)[i] = ByValue(h, list[i])
<1>1. Len(list) \in Nat /\ DOMAIN list = 1 .. Len(list)
  BY ListFacts
<1>2. ListByValue(h, list) = [i \in 1 .. Len(list) |-> ByValue(h, list[i])]
  BY <1>1 DEF ListByValue
<1>3. \A i \in 1 .. Len(list) : ListByValue(h, list)[i] = ByValue(h, list[i])
  BY <1>2
<1>4. ListByValue(h, list) = [i \in 1 .. Len(list) |-> ListByValue(h, list)[i]]
  BY <1>2
<1> QED
  BY <1>1, <1>3, <1>4, MakeList

LEMMA SameByValue ==
  ASSUME NEW h, NEW k, NEW x, View(k, x.mws) = View(h, x.mws)
  PROVE  ByValue(k, x) = ByValue(h, x)
BY DEF ByValue

LEMMA SameListByValue ==
  ASSUME NEW h, NEW k, NEW list, RoutesOK(h, list),
         \A t : IsWindow(h, t) => View(k, t) = View(h, t)
  PROVE  ListByValue(k, list) = ListByValue(h, list)
<1>1. \A i \in DOMAIN list : ByValue(k, list[i]) = ByValue(h, list[i])
  BY SameByValue DEF RoutesOK
<1> QED
  BY <1>1 DEF ListByValue

LEMMA AppendByValue ==
  ASSUME NEW h, NEW list, IsList(list), NEW x
  PROVE  ListByValue(h, Append(list, x)) = Append(ListByValue(h, list), ByValue(h, x))
<1> DEFINE new == Append(list, x)
           lhs == ListByValue(h, new)
           rhs == Append(ListByValue(h, list), ByValue(h, x))
           n == Len(list)
<1>1. /\ IsList(new) /\ Len(new) = n + 1 /\ n \in Nat
      /\ \A i \in 1 .. n : new[i] = list[i]
      /\ new[n + 1] = x
  BY AppendList, ListFacts
<1>2. /\ IsList(ListByValue(h, list)) /\ Len(ListByValue(h, list)) = n
      /\ \A i \in 1 .. n : ListByValue(h, list)[i] = ByValue(h, list[i])
  BY ListByValueIs
<1>3. /\ IsList(rhs) /\ Len(rhs) = n + 1
      /\ \A i \in 1 .. n : rhs[i] = ByValue(h, list[i])
      /\ rhs[n + 1] = ByValue(h, x)
  BY <1>2, AppendList
<1> HIDE DEF new, rhs
<1>4. /\ IsList(lhs) /\ Len(lhs) = n + 1
      /\ \A i \in 1 .. n + 1 : lhs[i] = ByValue(h, new[i])
  BY <1>1, ListByValueIs
<1> HIDE DEF lhs, n
<1>5. \A i \in 1 .. n + 1 : i \in 1 .. n \/ i = n + 1
  BY <1>1
<1>6. \A i \in 1 .. n + 1 : lhs[i] = rhs[i]
  BY <1>1, <1>3, <1>4, <1>5
<1>7. lhs = rhs
  BY <1>3, <1>4, <1>6, SameList
<1> QED
  BY <1>7 DEF lhs, rhs, new

LEMMA GroupIs ==
  ASSUME TypeOK, NEW g \in Groups
  PROVE  /\ subs[g] = NoGroup => group[g] = NoGroup
         /\ subs[g] # NoGroup =>
              /\ group[g] = [registry |-> subs[g].registry,
                             args |-> ByValue(heap, subs[g].args)]
              /\ group[g] # NoGroup
<1>1. group[g] = IF subs[g] = NoGroup THEN NoGroup
                 ELSE [subs[g] EXCEPT !.args = ByValue(heap, @)]
  BY DEF group
<1>2. CASE subs[g] = NoGroup
  BY <1>1, <1>2
<1>3. CASE subs[g] # NoGroup
  <2>1. subs[g] \in [registry : Registries, args : SubCalls]
    BY <1>3 DEF TypeOK
  <2>2. group[g] = [registry |-> subs[g].registry,
                    args |-> ByValue(heap, subs[g].args)]
    BY <1>1, <1>3, <2>1
  <2>3. PICK s \in SubCalls : s = subs[g].args
    BY <2>1
  <2>4. IsGroup(s) /\ heap \in Arrays /\ IsWindow(heap, s.mws)
    BY RegistryAssumption DEF TypeOK
  <2>5. ByValue(heap, s) = [prefix |-> s.prefix, scope |-> s.scope,
                            policy |-> s.policy, mws |-> View(heap, s.mws)]
    BY <2>4 DEF ByValue, IsGroup
  <2>6. View(heap, s.mws) \in Seq(Middlewares)
    BY <2>4, ViewIs
  <2>7. ByValue(heap, s) \in [prefix : {x.prefix : x \in SubCalls},
                              scope  : {x.scope : x \in SubCalls},
                              policy : {x.policy : x \in SubCalls},
                              mws    : Seq(Middlewares)]
    BY <2>5, <2>6
  <2>8. group[g] # NoGroup
    BY <2>1, <2>2, <2>3, <2>7, RegistryAssumption
  <2> QED
    BY <1>3, <2>2, <2>8
<1> QED
  BY <1>2, <1>3

\* Where no slice passed as ms... has room, no view ever changes.
LEMMA RoomlessKeeps ==
  ASSUME TypeOK, [Next]_vars, Roomless
  PROVE  \A t : IsWindow(heap, t) => View(heap', t) = View(heap, t)
<1> SUFFICES ASSUME NEW t, IsWindow(heap, t), View(heap', t) # View(heap, t)
             PROVE  FALSE
  OBVIOUS
<1>1. PICK base \in Bundles : RewritesThrough(base, t.at)
  BY NextRewrites
<1>2. base.len < Len(heap[base.at]) /\ base.len = Len(heap[base.at])
  BY <1>1 DEF RewritesThrough, Roomless
<1>3. t.at \in DOMAIN heap /\ base.at = t.at /\ heap \in Arrays
  BY <1>1 DEF RewritesThrough, IsWindow, TypeOK
<1>4. Len(heap[base.at]) \in Nat
  BY <1>3, ArraysFacts, ListFacts
<1> QED
  BY <1>2, <1>4

LEMMA GroupKept ==
  ASSUME TypeOK, UNCHANGED subs,
         \A t : IsWindow(heap, t) => View(heap', t) = View(heap, t)
  PROVE  group' = group
<1>1. ASSUME NEW g \in Groups, subs[g] # NoGroup
      PROVE  ByValue(heap', subs[g].args) = ByValue(heap, subs[g].args)
  <2>1. subs[g].args \in SubCalls
    BY <1>1 DEF TypeOK
  <2>2. IsWindow(heap, subs[g].args.mws)
    BY <2>1 DEF TypeOK
  <2> QED
    BY <2>2, SameByValue
<1>2. \A g \in Groups :
        (IF subs[g] = NoGroup THEN NoGroup
         ELSE [subs[g] EXCEPT !.args = ByValue(heap', @)])
        = (IF subs[g] = NoGroup THEN NoGroup
           ELSE [subs[g] EXCEPT !.args = ByValue(heap, @)])
  BY <1>1
<1> QED
  BY <1>2 DEF group

\* One registry's routes are replaced, the views of all others are kept.
LEMMA TableStepIs ==
  ASSUME TypeOK, NEW r \in Registries, NEW list,
         routes' = [routes EXCEPT ![r] = list],
         \A t : IsWindow(heap, t) => View(heap', t) = View(heap, t)
  PROVE  table' = [table EXCEPT ![r] = ListByValue(heap', list)]
<1>1. /\ routes'[r] = list /\ \A q \in Registries : q # r => routes'[q] = routes[q]
  BY DEF TypeOK
<1>2. \A q \in Registries : RoutesOK(heap, routes[q])
  BY TypeOKIs
<1>3. \A q \in Registries : q # r =>
        ListByValue(heap', routes'[q]) = ListByValue(heap, routes[q])
  BY <1>1, <1>2, SameListByValue
<1>4. table = [q \in Registries |-> ListByValue(heap, routes[q])]
  BY TableIs
<1>5. table' = [q \in Registries |-> ListByValue(heap', routes'[q])]
  BY DEF table, ListByValue
<1> QED
  BY <1>1, <1>3, <1>4, <1>5

LEMMA AddDeclares ==
  ASSUME TypeOK, NEW r \in Registries, NEW route \in Offers, Add(r, route)
  PROVE  Table!Declare(r, ByValue(heap, route))
<1> DEFINE list == Append(routes[r], route)
<1>1. routes' = [routes EXCEPT ![r] = list] /\ heap' = heap /\ UNCHANGED subs
  BY DEF Add
<1>2. \A t : IsWindow(heap, t) => View(heap', t) = View(heap, t)
  BY <1>1
<1> HIDE DEF list
<1>3. table' = [table EXCEPT ![r] = ListByValue(heap', list)]
  BY <1>1, <1>2, TableStepIs
<1>4. ListByValue(heap, list) = Append(ListByValue(heap, routes[r]), ByValue(heap, route))
  BY AppendByValue DEF TypeOK, list
<1>5. table[r] = ListByValue(heap, routes[r])
  BY TableIs
<1>6. group' = group
  BY <1>1, <1>2, GroupKept
<1>7. table' = [table EXCEPT ![r] = Append(table[r], ByValue(heap, route))]
  BY <1>1, <1>3, <1>4, <1>5
<1> QED
  BY <1>6, <1>7 DEF Table!Declare

LEMMA SubOpens ==
  ASSUME TypeOK, NEW g \in Groups, NEW r \in Registries, NEW args \in SubCalls,
         Sub(g, r, args)
  PROVE  Table!Open(g, r, ByValue(heap, args))
<1> DEFINE sub == [registry |-> r, args |-> args]
           val == [registry |-> r, args |-> ByValue(heap, args)]
<1>1. /\ subs[g] = NoGroup /\ subs' = [subs EXCEPT ![g] = sub]
      /\ heap' = heap /\ routes' = routes
  BY DEF Sub
<1>2. sub # NoGroup
  BY RegistryAssumption
<1>3. [sub EXCEPT !.args = ByValue(heap, @)] = val
  OBVIOUS
<1> HIDE DEF sub, val
<1>4. subs'[g] = sub /\ \A q \in Groups : q # g => subs'[q] = subs[q]
  BY <1>1 DEF TypeOK
<1>5. group' = [q \in Groups |-> IF subs'[q] = NoGroup THEN NoGroup
                                 ELSE [subs'[q] EXCEPT !.args = ByValue(heap, @)]]
  BY <1>1 DEF group
<1>6. group = [q \in Groups |-> IF subs[q] = NoGroup THEN NoGroup
                                ELSE [subs[q] EXCEPT !.args = ByValue(heap, @)]]
  BY DEF group
<1>7. group' = [group EXCEPT ![g] = val]
  <2>1. (IF subs'[g] = NoGroup THEN NoGroup
         ELSE [subs'[g] EXCEPT !.args = ByValue(heap, @)]) = val
    BY <1>2, <1>3, <1>4
  <2> QED
    BY <1>4, <1>5, <1>6, <2>1
<1>8. group[g] = NoGroup
  BY <1>1, GroupIs
<1>9. table' = table
  BY <1>1 DEF table
<1> QED
  BY <1>7, <1>8, <1>9 DEF Table!Open, val

LEMMA WithinIs ==
  ASSUME NEW g, NEW pa, NEW ha, NEW sc, NEW po, NEW m
  PROVE  Table!Within(g, Row(pa, ha, sc, po, m)) =
           Row(g.prefix \o pa, ha, OrDefault(sc, g.scope, NoScope),
               OrDefault(po, g.policy, NoPolicy), g.mws \o m)
<1> SUFFICES ASSUME NEW x, x = Row(pa, ha, sc, po, m)
             PROVE  Table!Within(g, x) =
                      Row(g.prefix \o pa, ha, OrDefault(sc, g.scope, NoScope),
                          OrDefault(po, g.policy, NoPolicy), g.mws \o m)
  OBVIOUS
<1>1. PICK p, s, q, w :
        /\ p = g.prefix \o x.pattern /\ w = g.mws \o x.mws
        /\ s = Table!Either(x.scope, g.scope, NoScope)
        /\ q = Table!Either(x.policy, g.policy, NoPolicy)
  OBVIOUS
<1>2. Table!Within(g, x) = [x EXCEPT !.pattern = p, !.scope = s, !.policy = q, !.mws = w]
  BY <1>1, Zenon DEF Table!Within
<1>3. Table!Within(g, x) = Row(p, ha, s, q, w)
  BY <1>2 DEF Row
<1>4. /\ p = g.prefix \o pa /\ w = g.mws \o m
      /\ s = OrDefault(sc, g.scope, NoScope) /\ q = OrDefault(po, g.policy, NoPolicy)
  BY <1>1 DEF Table!Either, OrDefault, Row
<1> QED
  BY <1>3, <1>4

LEMMA SubAddDeclares ==
  ASSUME TypeOK, Roomless, NEW g \in Groups, NEW route \in Offers, SubAdd(g, route)
  PROVE  Table!DeclareIn(g, ByValue(heap, route))
<1> DEFINE r == subs[g].registry
           s == subs[g].args
           xs == View(heap, route.mws)
           res == GoAppend(heap, s.mws, xs)
           x == Joined(s, route, res.slice)
           list == Append(routes[r], x)
           there == ByValue(heap, s)
           val == ByValue(heap, route)
<1>1. /\ subs[g] # NoGroup /\ r \in Registries /\ s \in SubCalls
      /\ Appended(heap, s.mws, xs, res)
      /\ heap' = res.heap /\ IsRoute(x) /\ x.mws = res.slice
      /\ routes' = [routes EXCEPT ![r] = list]
  BY SubAddIs
<1>2. \A t : IsWindow(heap, t) => View(heap', t) = View(heap, t)
  BY RoomlessKeeps DEF Next
<1>3. IsRoute(route) /\ IsGroup(s) /\ IsSlice(res.slice)
  BY <1>1, RegistryAssumption DEF Appended, IsSlice
<1>4. View(heap', x.mws) = View(heap, s.mws) \o xs
  BY <1>1 DEF Appended
<1>5. HasFields(x, s.prefix \o route.pattern, route.handler,
                OrDefault(route.scope, s.scope, NoScope),
                OrDefault(route.policy, s.policy, NoPolicy), res.slice)
  BY <1>3, ReroutedIs DEF Joined
<1> HIDE DEF res, x
<1>6. ByValue(heap', x) =
        Row(s.prefix \o route.pattern, route.handler,
            OrDefault(route.scope, s.scope, NoScope),
            OrDefault(route.policy, s.policy, NoPolicy), View(heap, s.mws) \o xs)
  BY <1>1, <1>4, <1>5, RouteByValue DEF HasFields
<1>7. there = [prefix |-> s.prefix, scope |-> s.scope, policy |-> s.policy,
               mws |-> View(heap, s.mws)]
  BY <1>3 DEF ByValue, IsGroup
<1>8. val = Row(route.pattern, route.handler, route.scope, route.policy, xs)
  BY <1>3, RouteByValue
<1> HIDE DEF there, val
<1>9. Table!Within(there, val) = ByValue(heap', x)
  <2>1. Table!Within(there, val) =
          Row(there.prefix \o route.pattern, route.handler,
              OrDefault(route.scope, there.scope, NoScope),
              OrDefault(route.policy, there.policy, NoPolicy), there.mws \o xs)
    BY <1>8, WithinIs
  <2>2. /\ there.prefix = s.prefix /\ there.scope = s.scope
        /\ there.policy = s.policy /\ there.mws = View(heap, s.mws)
    BY <1>7
  <2> QED
    BY <1>6, <2>1, <2>2
<1> HIDE DEF list
<1>10. table' = [table EXCEPT ![r] = ListByValue(heap', list)]
  BY <1>1, <1>2, TableStepIs
<1>11. ListByValue(heap', list) = Append(ListByValue(heap', routes[r]), ByValue(heap', x))
  BY <1>1, AppendByValue DEF TypeOK, list
<1>12. ListByValue(heap', routes[r]) = table[r]
  BY <1>1, <1>2, TypeOKIs, SameListByValue, TableIs
<1>13. group[g] # NoGroup /\ group[g].registry = r /\ group[g].args = there
  <2>1. group[g] # NoGroup /\ group[g] = [registry |-> r, args |-> there]
    BY <1>1, GroupIs DEF there
  <2> QED
    BY <2>1
<1>14. UNCHANGED subs
  BY DEF SubAdd
<1>15. group' = group
  BY <1>2, <1>14, GroupKept
<1>16. table' = [table EXCEPT ![r] = Append(table[r], Table!Within(there, val))]
  BY <1>9, <1>10, <1>11, <1>12
<1>17. Table!DeclareIn(g, val)
  BY <1>13, <1>15, <1>16 DEF Table!DeclareIn, Table!Declare
<1> QED
  BY <1>17 DEF val

LEMMA UnderIs ==
  ASSUME NEW args, NEW list, IsList(list)
  PROVE  /\ IsList(Table!Under(args, list)) /\ Len(Table!Under(args, list)) = Len(list)
         /\ \A i \in 1 .. Len(list) : \A pa, ha, sc, po, m :
              list[i] = Row(pa, ha, sc, po, m) =>
                Table!Under(args, list)[i] =
                  Row(args.prefix \o pa, ha, sc, po, args.mws \o m)
<1> DEFINE u == Table!Under(args, list)
<1>1. Len(list) \in Nat /\ DOMAIN list = 1 .. Len(list)
  BY ListFacts
<1>2. u = [i \in 1 .. Len(list) |->
            [list[i] EXCEPT !.pattern = args.prefix \o @, !.mws = args.mws \o @]]
  BY <1>1 DEF Table!Under
<1> HIDE DEF u
<1>3. u = [i \in 1 .. Len(list) |-> u[i]]
  BY <1>2
<1>4. IsList(u) /\ Len(u) = Len(list)
  BY <1>1, <1>3, MakeList
<1>5. ASSUME NEW i \in 1 .. Len(list), NEW pa, NEW ha, NEW sc, NEW po, NEW m,
             list[i] = Row(pa, ha, sc, po, m)
      PROVE  u[i] = Row(args.prefix \o pa, ha, sc, po, args.mws \o m)
  <2>1. u[i] = [list[i] EXCEPT !.pattern = args.prefix \o @, !.mws = args.mws \o @]
    BY <1>2
  <2>2. PICK x, p, w : x = list[i] /\ p = args.prefix \o x.pattern /\ w = args.mws \o x.mws
    OBVIOUS
  <2>3. u[i] = [x EXCEPT !.pattern = p, !.mws = w]
    BY <2>1, <2>2, Zenon
  <2>4. x = [pattern |-> pa, handler |-> ha, scope |-> sc, policy |-> po, mws |-> m]
    BY <1>5, <2>2 DEF Row
  <2>5. p = args.prefix \o pa /\ w = args.mws \o m
    BY <2>2, <2>4
  <2>6. u[i] = [pattern |-> p, handler |-> ha, scope |-> sc, policy |-> po, mws |-> w]
    BY <2>3, <2>4
  <2> QED
    BY <2>5, <2>6 DEF Row
<1> QED
  BY <1>4, <1>5 DEF u

LEMMA IncludeMerges ==
  ASSUME TypeOK, Roomless, NEW r \in Registries, NEW other \in Registries,
         NEW args \in IncludeCalls, Include(r, other, args)
  PROVE  Table!Merge(r, other, ByValue(heap, args))
<1> DEFINE own == routes[r]
           from == routes[other]
           n == Len(from)
           val == ByValue(heap, args)
           was == ListByValue(heap, own)
           rows == ListByValue(heap, from)
           under == Table!Under(val, rows)
<1>1. PICK acc : /\ IncludedSoFar(own, from, args, n, acc)
                 /\ heap' = acc.heap
                 /\ routes' = [routes EXCEPT ![r] = acc.routes]
  BY IncludeIs
<1>2. \A t : IsWindow(heap, t) => View(heap', t) = View(heap, t)
  BY RoomlessKeeps DEF Next
<1>3. /\ RoutesOK(heap, own) /\ RoutesOK(heap, from) /\ IsList(own) /\ IsList(from)
      /\ Len(own) \in Nat /\ n \in Nat
      /\ DOMAIN own = 1 .. Len(own) /\ DOMAIN from = 1 .. n
  BY TypeOKIs, ListFacts DEF RoutesOK
<1>4. IsInclude(args)
  BY RegistryAssumption
<1>5. val.prefix = args.prefix /\ val.mws = View(heap, args.mws)
  BY <1>4 DEF ByValue, IsInclude
<1>6. args.mws \in Bundles
  BY DEF Bundles
<1>7. args.mws.len = Len(heap[args.mws.at])
  BY <1>6 DEF Roomless
<1> HIDE DEF own, from, n, val
<1>8. /\ IsList(was) /\ Len(was) = Len(own)
      /\ \A i \in 1 .. Len(own) : was[i] = ByValue(heap, own[i])
      /\ IsList(rows) /\ Len(rows) = n
      /\ \A i \in 1 .. n : rows[i] = ByValue(heap, from[i])
  BY <1>3, ListByValueIs DEF n
<1> HIDE DEF was, rows
<1>9. /\ IsList(under) /\ Len(under) = n
      /\ \A i \in 1 .. n : \A pa, ha, sc, po, m :
           rows[i] = Row(pa, ha, sc, po, m) =>
             under[i] = Row(val.prefix \o pa, ha, sc, po, val.mws \o m)
  BY <1>8, UnderIs
<1> HIDE DEF under
<1>10. ASSUME NEW i \in 1 .. n
       PROVE  ByValue(heap', acc.routes[Len(own) + i]) = under[i]
  <2> DEFINE y == acc.routes[Len(own) + i]
  <2>1. Brought(from[i], args, heap', y)
    BY <1>1 DEF IncludedSoFar
  <2> HIDE DEF y
  <2>2. /\ IsRoute(y) /\ y.pattern = args.prefix \o from[i].pattern
        /\ y.handler = from[i].handler /\ y.scope = from[i].scope
        /\ y.policy = from[i].policy
        /\ View(heap', y.mws) = View(heap, args.mws) \o View(heap, from[i].mws)
    BY <1>7, <2>1 DEF Brought
  <2>3. ByValue(heap', y) =
          Row(args.prefix \o from[i].pattern, from[i].handler, from[i].scope,
              from[i].policy, View(heap, args.mws) \o View(heap, from[i].mws))
    BY <2>2, RouteByValue
  <2>4. rows[i] = Row(from[i].pattern, from[i].handler, from[i].scope,
                      from[i].policy, View(heap, from[i].mws))
    <3>1. IsRoute(from[i])
      BY <1>3 DEF RoutesOK
    <3> QED
      BY <1>8, <3>1, RouteByValue
  <2>5. under[i] =
          Row(val.prefix \o from[i].pattern, from[i].handler, from[i].scope,
              from[i].policy, val.mws \o View(heap, from[i].mws))
    BY <1>9, <2>4
  <2> QED
    BY <1>5, <2>3, <2>5 DEF y
<1>11. ASSUME NEW i \in 1 .. Len(own)
       PROVE  ByValue(heap', acc.routes[i]) = was[i]
  <2>1. acc.routes[i] = own[i]
    BY <1>1 DEF IncludedSoFar
  <2>2. IsWindow(heap, own[i].mws)
    BY <1>3 DEF RoutesOK
  <2>3. ByValue(heap', own[i]) = ByValue(heap, own[i])
    BY <1>2, <2>2, SameByValue
  <2> QED
    BY <1>8, <2>1, <2>3
<1> DEFINE new == ListByValue(heap', acc.routes)
<1>12. new = was \o under
  <2>1. IsList(acc.routes) /\ Len(acc.routes) = Len(own) + n
    BY <1>1 DEF IncludedSoFar
  <2>2. /\ IsList(new) /\ Len(new) = Len(own) + n
        /\ \A i \in 1 .. Len(own) + n : new[i] = ByValue(heap', acc.routes[i])
    BY <2>1, ListByValueIs
  <2>3. /\ IsList(was \o under) /\ Len(was \o under) = Len(own) + n
        /\ \A i \in 1 .. Len(own) : (was \o under)[i] = was[i]
        /\ \A i \in 1 .. n : (was \o under)[Len(own) + i] = under[i]
    <3>1. PICK w, u : w = was /\ u = under
      OBVIOUS
    <3>2. IsList(w) /\ IsList(u) /\ Len(w) = Len(own) /\ Len(u) = n
      BY <1>8, <1>9, <3>1
    <3>3. /\ IsList(w \o u) /\ Len(w \o u) = Len(w) + Len(u)
          /\ \A i \in 1 .. Len(w) : (w \o u)[i] = w[i]
          /\ \A i \in 1 .. Len(u) : (w \o u)[Len(w) + i] = u[i]
      BY <3>2, ConcatList
    <3> QED
      BY <3>1, <3>2, <3>3
  <2> HIDE DEF new
  <2>4. PICK a \in Nat, b \in Nat : a = Len(own) /\ b = n
    BY <1>3
  <2>5. ASSUME NEW j \in 1 .. a + b PROVE new[j] = (was \o under)[j]
    <3>1. CASE j \in 1 .. a
      BY <1>11, <2>2, <2>3, <2>4, <3>1
    <3>2. CASE j \notin 1 .. a
      <4>1. PICK i \in 1 .. b : j = a + i
        <5>1. j - a \in 1 .. b /\ j = a + (j - a)
          BY <3>2
        <5> QED
          BY <5>1
      <4>2. new[j] = ByValue(heap', acc.routes[j])
        BY <2>2, <2>4
      <4> QED
        BY <1>10, <2>3, <2>4, <4>1, <4>2
    <3> QED
      BY <3>1, <3>2
  <2> QED
    BY <2>2, <2>3, <2>4, <2>5, SameList
<1> HIDE DEF new
<1>13. table' = [table EXCEPT ![r] = new]
  BY <1>1, <1>2, TableStepIs DEF new
<1>14. was = table[r] /\ rows = table[other]
  BY TableIs DEF was, rows, own, from
<1>15. group' = group
  <2>1. UNCHANGED subs
    BY DEF Include
  <2> QED
    BY <1>2, <2>1, GroupKept
<1>16. table' = [table EXCEPT ![r] = table[r] \o Table!Under(val, table[other])]
  BY <1>12, <1>13, <1>14 DEF under
<1> QED
  BY <1>15, <1>16 DEF Table!Merge, val

LEMMA NextTables ==
  ASSUME TypeOK, Next, Roomless
  PROVE  TableStep \/ UNCHANGED <<table, group>>
<1>1. ASSUME NEW r \in Registries, NEW route \in Offers, Add(r, route)
      PROVE  TableStep
  BY <1>1, AddDeclares DEF TableStep
<1>2. ASSUME NEW g \in Groups, NEW r \in Registries, NEW args \in SubCalls,
             Sub(g, r, args)
      PROVE  TableStep
  BY <1>2, SubOpens DEF TableStep
<1>3. ASSUME NEW g \in Groups, NEW route \in Offers, SubAdd(g, route)
      PROVE  TableStep
  BY <1>3, SubAddDeclares DEF TableStep
<1>4. ASSUME NEW r \in Registries, NEW other \in Registries,
             NEW args \in IncludeCalls, Include(r, other, args)
      PROVE  TableStep
  BY <1>4, IncludeMerges DEF TableStep
<1>5. CASE StartMount \/ Mount \/ EndMount
  <2>1. heap' = heap /\ routes' = routes /\ subs' = subs
    BY <1>5 DEF StartMount, Mount, EndMount
  <2> QED
    BY <2>1 DEF table, group
<1> QED
  BY <1>1, <1>2, <1>3, <1>4, <1>5 DEF Next

LEMMA InitTable == Init => Table!Init
<1> SUFFICES ASSUME Init PROVE Table!Init
  OBVIOUS
<1>1. table = [r \in Registries |-> <<>>]
  <2>1. \A r \in Registries : routes[r] = <<>>
    BY DEF Init
  <2>2. \A f : [i \in DOMAIN <<>> |-> f[i]] = <<>>
    BY EmptySeq
  <2> QED
    BY <2>1 DEF table
<1>2. group = [g \in Groups |-> NoGroup]
  BY DEF Init, group
<1> QED
  BY <1>1, <1>2 DEF Table!Init

(* As long as no slice passed as ms... has spare capacity, the registries  *)
(* implement lists of routes that own their middlewares: every call is a   *)
(* call on RouteTable, and nothing else changes what a registry holds.     *)
THEOREM ImplementsTable == Spec => KeepsTable
<1> DEFINE Stays == Roomless => TableStep
<1>1. TypeOK /\ [Next]_vars => [Stays]_<<table, group>>
  <2>1. ASSUME TypeOK, Next, Roomless PROVE TableStep \/ UNCHANGED <<table, group>>
    BY <2>1, NextTables
  <2>2. ASSUME UNCHANGED vars PROVE UNCHANGED <<table, group>>
    BY <2>2 DEF vars, table, group
  <2> QED
    BY <2>1, <2>2
<1>2. Init => Table!Init
  BY InitTable
<1> HIDE DEF Stays
<1>3. Spec => Table!Init /\ [][Stays]_<<table, group>>
  BY <1>1, <1>2, TypeCorrect, PTL DEF Spec
<1> QED
  BY <1>3 DEF KeepsTable, Stays

-----------------------------------------------------------------------------
(* dedupeMiddlewares *)

LEMMA DedupingIs ==
  ASSUME NEW ms, IsList(ms)
  PROVE  /\ Deduping(ms)[0] = [out |-> <<>>, failed |-> FALSE]
         /\ \A n \in 1 .. Len(ms) :
              Deduping(ms)[n] = Consider(Deduping(ms)[n - 1], ms[n])
<1> DEFINE N == Len(ms)
           Base == [out |-> <<>>, failed |-> FALSE]
           D(d, k) == d = [n \in 0 .. k |-> IF n = 0 THEN Base
                                            ELSE Consider(d[n - 1], ms[n])]
           P == {k \in 0 .. N : \E d : D(d, k)}
           M == Deduping(ms)
<1>1. N \in Nat
  BY ListFacts
<1>2. \E d : D(d, 0)
  <2>1. D([n \in 0 .. 0 |-> Base], 0)
    OBVIOUS
  <2> QED
    BY <2>1, Zenon
<1>3. ASSUME NEW k \in 1 .. N, NEW d, D(d, k - 1) PROVE \E e : D(e, k)
  <2> DEFINE e == [n \in 0 .. k |-> IF n = k THEN Consider(d[k - 1], ms[k]) ELSE d[n]]
  <2>1. k \in Nat /\ k > 0
    BY <1>1
  <2>2. \A n \in 0 .. k - 1 : e[n] = d[n]
    BY <2>1
  <2>3. \A n \in 0 .. k : e[n] = IF n = 0 THEN Base ELSE Consider(e[n - 1], ms[n])
    <3>1. d = [n \in 0 .. k - 1 |-> IF n = 0 THEN Base ELSE Consider(d[n - 1], ms[n])]
      BY <1>3
    <3>2. e[k] = Consider(d[k - 1], ms[k]) /\ k - 1 \in 0 .. k - 1
      BY <2>1
    <3>3. \A n \in 0 .. k - 1 : d[n] = IF n = 0 THEN Base ELSE Consider(d[n - 1], ms[n])
      BY <3>1, Zenon
    <3> HIDE DEF e, Base, D
    <3>4. \A n \in 0 .. k - 1 : n # 0 => n - 1 \in 0 .. k - 1
      BY <2>1
    <3>5. \A n \in 0 .. k - 1 : e[n] = IF n = 0 THEN Base ELSE Consider(e[n - 1], ms[n])
      BY <2>2, <3>3, <3>4
    <3>6. e[k] = IF k = 0 THEN Base ELSE Consider(e[k - 1], ms[k])
      BY <2>1, <2>2, <3>2
    <3>7. \A n \in 0 .. k : n \in 0 .. k - 1 \/ n = k
      BY <2>1
    <3> QED
      BY <3>5, <3>6, <3>7
  <2>4. D(e, k)
    <3>1. e = [n \in 0 .. k |-> e[n]]
      OBVIOUS
    <3> HIDE DEF e, Base
    <3> QED
      BY <2>3, <3>1
  <2> HIDE DEF D, e
  <2> QED
    BY <2>4
<1> HIDE DEF D
<1>4. N \in P
  <2>1. 0 \in P
    BY <1>1, <1>2
  <2>2. \A k \in 1 .. N : k - 1 \in P => k \in P
    BY <1>1, <1>3
  <2> HIDE DEF P, N
  <2>3. \A k \in 0 .. N : k \in P
    BY <1>1, <2>1, <2>2, UpTo
  <2> QED
    BY <1>1, <2>3
<1>5. \E d : D(d, N)
  BY <1>4
<1>6. M = CHOOSE d : D(d, N)
  BY DEF Deduping, D
<1> HIDE DEF M
<1>7. D(M, N)
  BY <1>5, <1>6
<1>8. M = [n \in 0 .. N |-> IF n = 0 THEN Base ELSE Consider(M[n - 1], ms[n])]
  BY <1>7 DEF D
<1> HIDE DEF N, Base
<1>9. M[0] = Base
  BY <1>1, <1>8
<1>10. \A n \in 1 .. N : M[n] = Consider(M[n - 1], ms[n])
  BY <1>1, <1>8
<1> QED
  BY <1>9, <1>10 DEF M, N, Base

Seen(acc, m) == {k \in DOMAIN acc.out : Key(acc.out[k]) = Key(m)}

\* The loop body, case by case.
LEMMA ConsiderIs ==
  ASSUME NEW acc, NEW m
  PROVE  LET fail == [acc EXCEPT !.failed = TRUE]
             new == Consider(acc, m)
             twice == Seen(acc, m) # {}
         IN  /\ acc.failed = TRUE => new = acc
             /\ acc.failed = FALSE =>
                  /\ ~Validates(m) => new = fail
                  /\ Validates(m) /\ twice =>
                       /\ m.onConflict = "KeepFirst" => new = acc
                       /\ m.onConflict = "KeepLast" =>
                            new = [acc EXCEPT !.out = [k \in DOMAIN acc.out |->
                                     IF k \in Seen(acc, m) THEN m ELSE acc.out[k]]]
                       /\ m.onConflict \notin {"KeepFirst", "KeepLast"} => new = fail
                  /\ Validates(m) /\ ~twice =>
                       /\ m.apply = NilApply => new = fail
                       /\ m.apply # NilApply =>
                            new = [acc EXCEPT !.out = Append(acc.out, m)]
<1> DEFINE fail == [acc EXCEPT !.failed = TRUE]
           new == Consider(acc, m)
           seen == Seen(acc, m)
<1>1. ASSUME acc.failed = TRUE PROVE new = acc
  BY <1>1 DEF Consider
<1>2. ASSUME acc.failed = FALSE, ~Validates(m) PROVE new = fail
  BY <1>2 DEF Consider
<1>3. ASSUME acc.failed = FALSE, Validates(m), seen # {}
      PROVE  /\ m.onConflict = "KeepFirst" => new = acc
             /\ m.onConflict = "KeepLast" =>
                  new = [acc EXCEPT !.out = [k \in DOMAIN acc.out |->
                           IF k \in seen THEN m ELSE acc.out[k]]]
             /\ m.onConflict \notin {"KeepFirst", "KeepLast"} => new = fail
  <2>1. new = CASE m.onConflict = "KeepFirst" -> acc
                [] m.onConflict = "KeepLast" ->
                     [acc EXCEPT !.out = [k \in DOMAIN @ |->
                        IF k \in seen THEN m ELSE @[k]]]
                [] OTHER -> fail
    BY <1>3 DEF Consider, Seen
  <2> HIDE DEF new, seen, fail
  <2> QED
    BY <2>1
<1>4. ASSUME acc.failed = FALSE, Validates(m), seen = {}
      PROVE  /\ m.apply = NilApply => new = fail
             /\ m.apply # NilApply => new = [acc EXCEPT !.out = Append(acc.out, m)]
  <2>1. new = IF m.apply = NilApply THEN fail
              ELSE [acc EXCEPT !.out = Append(@, m)]
    BY <1>4 DEF Consider, Seen
  <2> HIDE DEF new, fail
  <2> QED
    BY <2>1
<1> QED
  BY <1>1, <1>2, <1>3, <1>4

\* Why a list is refused at position i.
Faulty(ms, i) ==
  \/ ~Validates(ms[i])
  \/ i \in Leaders(ms) /\ ms[i].apply = NilApply
  \/ i \notin Leaders(ms) /\ ms[i].onConflict \notin {"KeepFirst", "KeepLast"}

\* Of the middlewares up to n with the key of the leader i, x is the last one
\* that overrides, or the leader.
KeptAt(ms, i, n, x) ==
  \E j \in {i} \cup Overriders(ms, i) :
    /\ j <= n /\ x = ms[j]
    /\ \A o \in Overriders(ms, i) : o <= n => o <= j

\* out holds, for each leader up to n in their order, what is kept for it.
Chosen(ms, n, f, out) ==
  /\ \A k \in DOMAIN f : f[k] \in Leaders(ms) /\ KeptAt(ms, f[k], n, out[k])
  /\ \A k, l \in DOMAIN f : k < l => f[k] < f[l]
  /\ \A i \in Leaders(ms) : i <= n => \E k \in DOMAIN f : f[k] = i

\* The loop after n middlewares.
DedupedSoFar(ms, n, acc) ==
  /\ acc = [out |-> acc.out, failed |-> acc.failed]
  /\ acc.failed = TRUE \/ acc.failed = FALSE
  /\ acc.failed = TRUE => \E i \in 1 .. n : Faulty(ms, i)
  /\ acc.failed = FALSE =>
       /\ \A i \in 1 .. n : ~Faulty(ms, i)
       /\ IsList(acc.out) /\ Len(acc.out) <= n
       /\ \E f \in [1 .. Len(acc.out) -> 1 .. n] : Chosen(ms, n, f, acc.out)

LEMMA LeaderOf ==
  ASSUME NEW ms, IsList(ms), NEW i \in 1 .. Len(ms)
  PROVE  \E l \in Leaders(ms) : l <= i /\ Key(ms[l]) = Key(ms[i])
<1>1. Len(ms) \in Nat /\ DOMAIN ms = 1 .. Len(ms)
  BY ListFacts
<1> DEFINE T == {j \in 1 .. i : Key(ms[j]) = Key(ms[i])}
<1>2. T \in SUBSET Nat /\ i \in T
  BY <1>1
<1> HIDE DEF T
<1>3. PICK l \in T : \A j \in T : l <= j
  BY <1>2, Least
<1>4. l \in 1 .. i /\ Key(ms[l]) = Key(ms[i])
  BY DEF T
<1>5. ASSUME NEW j \in 1 .. l - 1 PROVE Key(ms[j]) # Key(ms[l])
  <2>1. j \in 1 .. i /\ ~(l <= j) /\ j \notin T
    BY <1>1, <1>3, <1>4
  <2> QED
    BY <1>4, <2>1 DEF T
<1>6. l \in Leaders(ms)
  BY <1>1, <1>4, <1>5 DEF Leaders
<1> QED
  BY <1>1, <1>4, <1>6

\* What is kept for a leader has its key, and the next one may replace it.
LEMMA KeptStep ==
  ASSUME NEW ms, IsList(ms), NEW n \in 1 .. Len(ms), NEW i \in 1 .. n - 1,
         NEW x, KeptAt(ms, i, n - 1, x)
  PROVE  /\ Key(x) = Key(ms[i])
         /\ n \in Overriders(ms, i) => KeptAt(ms, i, n, ms[n])
         /\ n \notin Overriders(ms, i) => KeptAt(ms, i, n, x)
<1>1. Len(ms) \in Nat /\ DOMAIN ms = 1 .. Len(ms)
  BY ListFacts
<1>2. PICK j \in {i} \cup Overriders(ms, i) :
        /\ j <= n - 1 /\ x = ms[j]
        /\ \A o \in Overriders(ms, i) : o <= n - 1 => o <= j
  BY DEF KeptAt
<1>3. Overriders(ms, i) \subseteq 1 .. Len(ms)
  BY <1>1 DEF Overriders
<1>4. Key(x) = Key(ms[i])
  BY <1>2 DEF Overriders
<1>5. ASSUME n \in Overriders(ms, i) PROVE KeptAt(ms, i, n, ms[n])
  BY <1>1, <1>3, <1>5 DEF KeptAt
<1>6. ASSUME n \notin Overriders(ms, i) PROVE KeptAt(ms, i, n, x)
  <2>1. j <= n
    BY <1>1, <1>2, <1>3
  <2>2. \A o \in Overriders(ms, i) : o <= n => o <= n - 1
    BY <1>1, <1>3, <1>6
  <2> QED
    BY <1>2, <2>1, <2>2 DEF KeptAt
<1> QED
  BY <1>4, <1>5, <1>6

\* The key of the next middleware is taken unless it is a leader.
LEMMA SeenIs ==
  ASSUME NEW ms, IsList(ms), NEW n \in 1 .. Len(ms), NEW acc, IsList(acc.out),
         NEW f \in [1 .. Len(acc.out) -> 1 .. n - 1], Chosen(ms, n - 1, f, acc.out)
  PROVE  /\ Seen(acc, ms[n]) = {k \in DOMAIN acc.out : Key(ms[f[k]]) = Key(ms[n])}
         /\ n \in Leaders(ms) <=> Seen(acc, ms[n]) = {}
<1>1. /\ Len(ms) \in Nat /\ DOMAIN ms = 1 .. Len(ms)
      /\ DOMAIN acc.out = 1 .. Len(acc.out) /\ DOMAIN f = 1 .. Len(acc.out)
  BY ListFacts
<1>2. \A k \in DOMAIN acc.out : Key(acc.out[k]) = Key(ms[f[k]])
  BY <1>1, KeptStep DEF Chosen
<1>3. Seen(acc, ms[n]) = {k \in DOMAIN acc.out : Key(ms[f[k]]) = Key(ms[n])}
  BY <1>2 DEF Seen
<1>4. ASSUME n \in Leaders(ms), NEW k \in Seen(acc, ms[n]) PROVE FALSE
  <2>1. f[k] \in 1 .. n - 1 /\ Key(ms[f[k]]) = Key(ms[n])
    BY <1>1, <1>3
  <2> QED
    BY <1>4, <2>1 DEF Leaders
<1>5. ASSUME n \notin Leaders(ms) PROVE Seen(acc, ms[n]) # {}
  <2>1. PICK l \in Leaders(ms) : l <= n /\ Key(ms[l]) = Key(ms[n])
    BY LeaderOf
  <2>2. l \in 1 .. Len(ms) /\ l # n
    BY <1>1, <1>5 DEF Leaders
  <2>3. l <= n - 1
    BY <1>1, <2>1, <2>2
  <2>4. PICK k \in DOMAIN f : f[k] = l
    BY <2>3 DEF Chosen
  <2> QED
    BY <1>1, <1>3, <2>1, <2>4
<1> QED
  BY <1>3, <1>4, <1>5

\* The three turns of the loop that go on.
LEMMA TurnKeepsFirst ==
  ASSUME NEW ms, IsList(ms), NEW n \in 1 .. Len(ms), NEW acc, IsList(acc.out),
         NEW f \in [1 .. Len(acc.out) -> 1 .. n - 1], Chosen(ms, n - 1, f, acc.out),
         n \notin Leaders(ms), ms[n].onConflict # "KeepLast"
  PROVE  f \in [1 .. Len(acc.out) -> 1 .. n] /\ Chosen(ms, n, f, acc.out)
<1>1. n \in Nat /\ DOMAIN f = 1 .. Len(acc.out)
  BY ListFacts
<1>2. f \in [1 .. Len(acc.out) -> 1 .. n]
  BY <1>1
<1>3. \A k \in DOMAIN f : f[k] \in Leaders(ms) /\ KeptAt(ms, f[k], n, acc.out[k])
  <2>1. \A i : n \notin Overriders(ms, i)
    BY DEF Overriders
  <2> QED
    BY <1>1, <2>1, KeptStep DEF Chosen
<1>4. \A i \in Leaders(ms) : i <= n => i <= n - 1
  <2>1. \A i \in Leaders(ms) : i \in Nat /\ i # n
    BY ListFacts DEF Leaders
  <2> QED
    BY <1>1, <2>1
<1>5. \A i \in Leaders(ms) : i <= n => \E k \in DOMAIN f : f[k] = i
  BY <1>4 DEF Chosen
<1> QED
  BY <1>2, <1>3, <1>5 DEF Chosen

LEMMA TurnKeepsLast ==
  ASSUME NEW ms, IsList(ms), NEW n \in 1 .. Len(ms), NEW acc, IsList(acc.out),
         NEW f \in [1 .. Len(acc.out) -> 1 .. n - 1], Chosen(ms, n - 1, f, acc.out),
         n \notin Leaders(ms), ms[n].onConflict = "KeepLast",
         NEW out, out = [k \in DOMAIN acc.out |->
                           IF k \in Seen(acc, ms[n]) THEN ms[n] ELSE acc.out[k]]
  PROVE  /\ IsList(out) /\ Len(out) = Len(acc.out)
         /\ f \in [1 .. Len(acc.out) -> 1 .. n] /\ Chosen(ms, n, f, out)
<1>1. /\ Len(ms) \in Nat /\ DOMAIN ms = 1 .. Len(ms)
      /\ n \in Nat /\ DOMAIN f = 1 .. Len(acc.out)
      /\ DOMAIN acc.out = 1 .. Len(acc.out) /\ Len(acc.out) \in Nat
  BY ListFacts
<1>2. f \in [1 .. Len(acc.out) -> 1 .. n]
  BY <1>1
<1>3. IsList(out) /\ Len(out) = Len(acc.out)
  <2>1. out = [k \in 1 .. Len(acc.out) |-> out[k]]
    BY <1>1
  <2> QED
    BY <1>1, <2>1, MakeList
<1>4. ASSUME NEW k \in DOMAIN f
      PROVE  f[k] \in Leaders(ms) /\ KeptAt(ms, f[k], n, out[k])
  <2>1. f[k] \in Leaders(ms) /\ f[k] \in 1 .. n - 1
        /\ KeptAt(ms, f[k], n - 1, acc.out[k])
    BY <1>1 DEF Chosen
  <2>2. k \in Seen(acc, ms[n]) <=> Key(ms[f[k]]) = Key(ms[n])
    <3>1. Seen(acc, ms[n]) = {j \in DOMAIN acc.out : Key(ms[f[j]]) = Key(ms[n])}
      BY SeenIs
    <3>2. k \in DOMAIN acc.out
      BY <1>1
    <3> QED
      BY <3>1, <3>2, Zenon
  <2>3. n \in Overriders(ms, f[k]) <=> Key(ms[f[k]]) = Key(ms[n])
    BY <1>1, <2>1 DEF Overriders
  <2>4. out[k] = IF k \in Seen(acc, ms[n]) THEN ms[n] ELSE acc.out[k]
    BY <1>1
  <2> QED
    BY <2>1, <2>2, <2>3, <2>4, KeptStep
<1>5. \A i \in Leaders(ms) : i <= n => i <= n - 1
  <2>1. \A i \in Leaders(ms) : i \in Nat /\ i # n
    BY <1>1 DEF Leaders
  <2> QED
    BY <1>1, <2>1
<1>6. \A i \in Leaders(ms) : i <= n => \E k \in DOMAIN f : f[k] = i
  BY <1>5 DEF Chosen
<1> QED
  BY <1>2, <1>3, <1>4, <1>6 DEF Chosen

LEMMA TurnAppends ==
  ASSUME NEW ms, IsList(ms), NEW n \in 1 .. Len(ms), NEW acc, IsList(acc.out),
         NEW f \in [1 .. Len(acc.out) -> 1 .. n - 1], Chosen(ms, n - 1, f, acc.out),
         n \in Leaders(ms),
         NEW out, out = Append(acc.out, ms[n])
  PROVE  /\ IsList(out) /\ Len(out) = Len(acc.out) + 1
         /\ \E g \in [1 .. Len(out) -> 1 .. n] : Chosen(ms, n, g, out)
<1> DEFINE a == Len(acc.out)
           g == [k \in 1 .. a + 1 |-> IF k = a + 1 THEN n ELSE f[k]]
<1>1. /\ Len(ms) \in Nat /\ DOMAIN ms = 1 .. Len(ms)
      /\ n \in Nat /\ n > 0 /\ DOMAIN f = 1 .. a /\ a \in Nat
  BY ListFacts
<1>2. /\ IsList(out) /\ Len(out) = a + 1 /\ out[a + 1] = ms[n]
      /\ \A k \in 1 .. a : out[k] = acc.out[k]
  BY AppendList
<1> HIDE DEF a
<1>3. /\ g[a + 1] = n /\ DOMAIN g = 1 .. a + 1
      /\ \A k \in 1 .. a : g[k] = f[k] /\ f[k] \in 1 .. n - 1
      /\ \A k \in 1 .. a + 1 : k \in 1 .. a \/ k = a + 1
  <2>1. a + 1 \in 1 .. a + 1 /\ \A k \in 1 .. a : k \in 1 .. a + 1 /\ k # a + 1
    BY <1>1
  <2>2. g[a + 1] = n /\ DOMAIN g = 1 .. a + 1 /\ \A k \in 1 .. a : g[k] = f[k]
    BY <2>1, Zenon
  <2>3. \A k \in 1 .. a : f[k] \in 1 .. n - 1
    BY DEF a
  <2>4. \A k \in 1 .. a + 1 : k \in 1 .. a \/ k = a + 1
    BY <1>1
  <2> QED
    BY <2>2, <2>3, <2>4
<1>4. g \in [1 .. a + 1 -> 1 .. n]
  <2>1. g = [k \in 1 .. a + 1 |-> g[k]]
    OBVIOUS
  <2> HIDE DEF g
  <2>2. \A k \in 1 .. a + 1 : g[k] \in 1 .. n
    BY <1>1, <1>3
  <2> QED
    BY <2>1, <2>2
<1> HIDE DEF g
<1>5. ASSUME NEW i \in 1 .. n - 1 PROVE n \notin Overriders(ms, i)
  BY <1>1 DEF Leaders, Overriders
<1>6. ASSUME NEW k \in DOMAIN g
      PROVE  g[k] \in Leaders(ms) /\ KeptAt(ms, g[k], n, out[k])
  <2>1. CASE k \in 1 .. a
    <3>1. f[k] \in Leaders(ms) /\ KeptAt(ms, f[k], n - 1, acc.out[k])
      BY <1>1, <2>1 DEF Chosen
    <3>2. KeptAt(ms, f[k], n, acc.out[k])
      BY <1>3, <1>5, <2>1, <3>1, KeptStep
    <3> QED
      BY <1>2, <1>3, <2>1, <3>1, <3>2
  <2>2. CASE k = a + 1
    <3>1. \A o \in Overriders(ms, n) : ~(o <= n)
      BY <1>1 DEF Overriders
    <3>2. KeptAt(ms, n, n, ms[n])
      BY <1>1, <3>1 DEF KeptAt
    <3> QED
      BY <1>2, <1>3, <2>2, <3>2
  <2> QED
    BY <1>3, <1>6, <2>1, <2>2
<1>7. ASSUME NEW k \in DOMAIN g, NEW l \in DOMAIN g, k < l PROVE g[k] < g[l]
  <2>1. k \in 1 .. a
    BY <1>1, <1>3, <1>7
  <2>2. CASE l \in 1 .. a
    BY <1>1, <1>3, <1>7, <2>1, <2>2 DEF Chosen
  <2>3. CASE l = a + 1
    BY <1>1, <1>3, <2>1, <2>3
  <2> QED
    BY <1>3, <2>2, <2>3
<1>8. ASSUME NEW i \in Leaders(ms), i <= n PROVE \E k \in DOMAIN g : g[k] = i
  <2>1. CASE i = n
    BY <1>1, <1>3, <2>1
  <2>2. CASE i # n
    <3>1. i <= n - 1
      BY <1>1, <1>8, <2>2 DEF Leaders
    <3>2. PICK k \in DOMAIN f : f[k] = i
      BY <3>1 DEF Chosen
    <3>3. k \in DOMAIN g /\ g[k] = i
      BY <1>1, <1>3, <3>2
    <3> QED
      BY <3>3
  <2> QED
    BY <2>1, <2>2
<1>9. Chosen(ms, n, g, out)
  BY <1>6, <1>7, <1>8 DEF Chosen
<1> QED
  BY <1>2, <1>4, <1>9 DEF a

LEMMA DedupeStep ==
  ASSUME NEW ms, IsList(ms), NEW n \in 1 .. Len(ms),
         NEW acc, DedupedSoFar(ms, n - 1, acc)
  PROVE  DedupedSoFar(ms, n, Consider(acc, ms[n]))
<1> DEFINE m == ms[n]
           new == Consider(acc, m)
           fail == [acc EXCEPT !.failed = TRUE]
           twice == Seen(acc, m) # {}
           later == [k \in DOMAIN acc.out |->
                       IF k \in Seen(acc, m) THEN m ELSE acc.out[k]]
<1>1. /\ n \in Nat /\ n \in 1 .. n /\ Len(ms) \in Nat
      /\ \A i \in 1 .. n : i \in 1 .. n - 1 \/ i = n
      /\ \A i \in 1 .. n - 1 : i \in 1 .. n
  BY ListFacts
<1>2. acc = [out |-> acc.out, failed |-> acc.failed]
      /\ (acc.failed = TRUE \/ acc.failed = FALSE)
  BY DEF DedupedSoFar
<1>3. /\ acc.failed = TRUE => new = acc
      /\ acc.failed = FALSE =>
           /\ ~Validates(m) => new = fail
           /\ Validates(m) /\ twice =>
                /\ m.onConflict = "KeepFirst" => new = acc
                /\ m.onConflict = "KeepLast" => new = [acc EXCEPT !.out = later]
                /\ m.onConflict \notin {"KeepFirst", "KeepLast"} => new = fail
           /\ Validates(m) /\ ~twice =>
                /\ m.apply = NilApply => new = fail
                /\ m.apply # NilApply => new = [acc EXCEPT !.out = Append(acc.out, m)]
  BY ConsiderIs, Zenon
<1>4. /\ fail.out = acc.out /\ fail.failed = TRUE
      /\ fail = [out |-> fail.out, failed |-> fail.failed]
  <2>1. PICK o, b : acc = [out |-> o, failed |-> b]
    BY <1>2
  <2>2. PICK t : t = TRUE
    OBVIOUS
  <2>3. fail = [acc EXCEPT !.failed = t]
    BY <2>2, Zenon
  <2> HIDE DEF fail
  <2>4. fail = [out |-> o, failed |-> t]
    BY <2>1, <2>3
  <2>5. acc.out = o /\ fail.out = o /\ fail.failed = t
        /\ fail = [out |-> fail.out, failed |-> fail.failed]
    BY <2>1, <2>4
  <2>6. fail.failed = TRUE
    BY <2>2, <2>5, Zenon
  <2> QED
    BY <2>5, <2>6
<1> SUFFICES DedupedSoFar(ms, n, new)
  OBVIOUS
<1> HIDE DEF new, fail
<1>5. ASSUME new = fail, Faulty(ms, n) PROVE DedupedSoFar(ms, n, new)
  <2>1. \E i \in 1 .. n : Faulty(ms, i)
    BY <1>1, <1>5
  <2> QED
    BY <1>4, <1>5, <2>1 DEF DedupedSoFar
<1>6. CASE acc.failed = TRUE
  <2>1. \E i \in 1 .. n : Faulty(ms, i)
    BY <1>1, <1>6 DEF DedupedSoFar
  <2> QED
    BY <1>2, <1>3, <1>6, <2>1 DEF DedupedSoFar
<1>7. CASE acc.failed = FALSE
  <2>1. PICK f \in [1 .. Len(acc.out) -> 1 .. n - 1] : Chosen(ms, n - 1, f, acc.out)
    BY <1>7 DEF DedupedSoFar
  <2>2. /\ IsList(acc.out) /\ Len(acc.out) <= n - 1 /\ Len(acc.out) \in Nat
        /\ \A i \in 1 .. n - 1 : ~Faulty(ms, i)
    BY <1>7, ListFacts DEF DedupedSoFar
  <2>3. n \in Leaders(ms) <=> ~twice
    BY <2>1, <2>2, SeenIs
  <2>4. ASSUME ~Faulty(ms, n), NEW out, IsList(out), Len(out) <= n,
               new = [out |-> out, failed |-> FALSE],
               \E g \in [1 .. Len(out) -> 1 .. n] : Chosen(ms, n, g, out)
        PROVE  DedupedSoFar(ms, n, new)
    <3>1. new.out = out /\ new.failed = FALSE
      BY <2>4
    <3>2. \A i \in 1 .. n : ~Faulty(ms, i)
      BY <1>1, <2>2, <2>4
    <3> QED
      BY <2>4, <3>1, <3>2 DEF DedupedSoFar
  <2>5. CASE ~Validates(m)
    <3>1. new = fail
      BY <1>3, <1>7, <2>5
    <3>2. Faulty(ms, n)
      BY <2>5 DEF Faulty
    <3> QED
      BY <1>5, <3>1, <3>2
  <2>6. CASE Validates(m) /\ twice /\ m.onConflict \notin {"KeepFirst", "KeepLast"}
    <3>1. new = fail
      BY <1>3, <1>7, <2>6
    <3>2. Faulty(ms, n)
      BY <2>3, <2>6 DEF Faulty
    <3> QED
      BY <1>5, <3>1, <3>2
  <2>7. CASE Validates(m) /\ ~twice /\ m.apply = NilApply
    <3>1. new = fail
      BY <1>3, <1>7, <2>7
    <3>2. Faulty(ms, n)
      BY <2>3, <2>7 DEF Faulty
    <3> QED
      BY <1>5, <3>1, <3>2
  <2>8. CASE Validates(m) /\ twice /\ m.onConflict = "KeepFirst"
    <3>1. new = acc
      BY <1>3, <1>7, <2>8
    <3>2. new = [out |-> acc.out, failed |-> FALSE]
      BY <1>2, <1>7, <3>1
    <3>3. ~Faulty(ms, n)
      BY <2>3, <2>8 DEF Faulty
    <3>4. n \notin Leaders(ms) /\ ms[n].onConflict # "KeepLast"
      BY <2>3, <2>8
    <3>5. f \in [1 .. Len(acc.out) -> 1 .. n] /\ Chosen(ms, n, f, acc.out)
      BY <2>1, <2>2, <3>4, TurnKeepsFirst
    <3>6. Len(acc.out) <= n
      BY <1>1, <2>2
    <3> QED
      BY <2>2, <2>4, <3>2, <3>3, <3>5, <3>6
  <2>9. CASE Validates(m) /\ twice /\ m.onConflict = "KeepLast"
    <3>1. new = [acc EXCEPT !.out = later]
      BY <1>3, <1>7, <2>9
    <3>2. PICK out : out = later
      OBVIOUS
    <3>3. new = [out |-> out, failed |-> FALSE]
      BY <1>2, <1>7, <3>1, <3>2
    <3>4. ~Faulty(ms, n)
      BY <2>3, <2>9 DEF Faulty
    <3>5. n \notin Leaders(ms) /\ ms[n].onConflict = "KeepLast"
      BY <2>3, <2>9
    <3>6. /\ IsList(out) /\ Len(out) = Len(acc.out)
          /\ f \in [1 .. Len(acc.out) -> 1 .. n] /\ Chosen(ms, n, f, out)
      BY <2>1, <2>2, <3>2, <3>5, TurnKeepsLast
    <3>7. Len(out) <= n
      BY <1>1, <2>2, <3>6
    <3>8. \E g \in [1 .. Len(out) -> 1 .. n] : Chosen(ms, n, g, out)
      BY <3>6
    <3> QED
      BY <2>4, <3>3, <3>4, <3>6, <3>7, <3>8
  <2>10. CASE Validates(m) /\ ~twice /\ m.apply # NilApply
    <3>1. new = [acc EXCEPT !.out = Append(acc.out, m)]
      BY <1>3, <1>7, <2>10
    <3>2. PICK out : out = Append(acc.out, m)
      OBVIOUS
    <3>3. new = [out |-> out, failed |-> FALSE]
      BY <1>2, <1>7, <3>1, <3>2
    <3>4. ~Faulty(ms, n)
      BY <2>3, <2>10 DEF Faulty
    <3>5. n \in Leaders(ms)
      BY <2>3, <2>10
    <3>6. /\ IsList(out) /\ Len(out) = Len(acc.out) + 1
          /\ \E g \in [1 .. Len(out) -> 1 .. n] : Chosen(ms, n, g, out)
      <4>1. /\ IsList(acc.out) /\ f \in [1 .. Len(acc.out) -> 1 .. n - 1]
            /\ out = Append(acc.out, ms[n])
        BY <2>1, <2>2, <3>2
      <4> HIDE DEF m, twice, later
      <4> QED
        BY <2>1, <3>5, <4>1, TurnAppends, ZenonT(30)
    <3>7. Len(out) <= n
      BY <1>1, <2>2, <3>6
    <3> QED
      BY <2>4, <3>3, <3>4, <3>6, <3>7
  <2> HIDE DEF twice, m
  <2> QED
    BY <2>5, <2>6, <2>7, <2>8, <2>9, <2>10
<1> QED
  BY <1>2, <1>6, <1>7

LEMMA DedupeLoop ==
  ASSUME NEW ms, IsList(ms)
  PROVE  DedupedSoFar(ms, Len(ms), Dedupe(ms))
<1> DEFINE N == Len(ms)
           M == Deduping(ms)
           P == {n \in 0 .. N : DedupedSoFar(ms, n, M[n])}
<1>1. /\ M[0] = [out |-> <<>>, failed |-> FALSE]
      /\ \A n \in 1 .. N : M[n] = Consider(M[n - 1], ms[n])
  BY DedupingIs
<1>2. N \in Nat
  BY ListFacts
<1> HIDE DEF M
<1>3. DedupedSoFar(ms, 0, M[0])
  <2>1. M[0].out = <<>> /\ M[0].failed = FALSE
        /\ M[0] = [out |-> M[0].out, failed |-> M[0].failed]
    BY <1>1
  <2>2. IsList(<<>>) /\ Len(<<>>) = 0
    BY EmptySeq, SeqIsList
  <2>3. \A i \in 1 .. 0 : FALSE
    OBVIOUS
  <2>4. \E f \in [1 .. 0 -> 1 .. 0] : Chosen(ms, 0, f, <<>>)
    <3>1. [k \in 1 .. 0 |-> k] \in [1 .. 0 -> 1 .. 0]
      OBVIOUS
    <3>2. \A i \in Leaders(ms) : ~(i <= 0)
      BY <1>2, ListFacts DEF Leaders
    <3>3. Chosen(ms, 0, [k \in 1 .. 0 |-> k], <<>>)
      BY <2>3, <3>2 DEF Chosen
    <3> QED
      BY <3>1, <3>3
  <2>5. PICK acc : acc = M[0]
    OBVIOUS
  <2>6. /\ acc.failed = FALSE /\ IsList(acc.out) /\ Len(acc.out) = 0
        /\ acc = [out |-> acc.out, failed |-> acc.failed]
        /\ \E f \in [1 .. 0 -> 1 .. 0] : Chosen(ms, 0, f, acc.out)
    BY <2>1, <2>2, <2>4, <2>5
  <2>7. /\ \E f \in [1 .. Len(acc.out) -> 1 .. 0] : Chosen(ms, 0, f, acc.out)
        /\ Len(acc.out) <= 0 /\ \A i \in 1 .. 0 : ~Faulty(ms, i)
    <3>1. \E f \in [1 .. Len(acc.out) -> 1 .. 0] : Chosen(ms, 0, f, acc.out)
      BY <2>6, Zenon
    <3>2. Len(acc.out) <= 0
      BY <2>6
    <3>3. \A i \in 1 .. 0 : ~Faulty(ms, i)
      BY <2>3, Zenon
    <3> QED
      BY <3>1, <3>2, <3>3
  <2>8. DedupedSoFar(ms, 0, acc)
    BY <2>6, <2>7, Zenon DEF DedupedSoFar
  <2> QED
    BY <2>5, <2>8
<1>4. ASSUME NEW n \in 1 .. N, n - 1 \in P PROVE n \in P
  <2>1. DedupedSoFar(ms, n, Consider(M[n - 1], ms[n]))
    BY <1>4, DedupeStep
  <2> QED
    BY <1>1, <1>2, <2>1
<1>5. 0 \in P
  BY <1>2, <1>3
<1> HIDE DEF P
<1>6. \A n \in 0 .. N : n \in P
  BY <1>2, <1>4, <1>5, UpTo
<1> QED
  BY <1>2, <1>6 DEF M, P, Dedupe

\* The last overrider, if any, is what the middlewares end up with.
LEMMA LastKept ==
  ASSUME NEW ms, IsList(ms), NEW i \in Leaders(ms), NEW x, KeptAt(ms, i, Len(ms), x)
  PROVE  x = ms[Max({i} \cup Overriders(ms, i))]
<1> DEFINE S == {i} \cup Overriders(ms, i)
<1>1. /\ Len(ms) \in Nat /\ DOMAIN ms = 1 .. Len(ms)
      /\ i \in 1 .. Len(ms) /\ S \in SUBSET (1 .. Len(ms))
      /\ \A o \in Overriders(ms, i) : o <= Len(ms) /\ i <= o
  BY ListFacts DEF Leaders, Overriders
<1>2. PICK j \in S : /\ x = ms[j]
                     /\ \A o \in Overriders(ms, i) : o <= Len(ms) => o <= j
  BY DEF KeptAt
<1>3. i <= j
  BY <1>1, <1>2
<1>4. \A o \in S : j >= o
  BY <1>1, <1>2, <1>3
<1> HIDE DEF S
<1>5. Max(S) \in S /\ \A o \in S : Max(S) >= o
  BY <1>2, <1>4 DEF Max
<1>6. PICK m : m = Max(S)
  OBVIOUS
<1>7. m \in S /\ \A o \in S : m >= o
  BY <1>5, <1>6
<1>8. m = j
  BY <1>1, <1>4, <1>7
<1> QED
  BY <1>2, <1>6, <1>8 DEF S

(* dedupeMiddlewares refuses the lists it is documented to refuse, and     *)
(* leaves of the others what it is documented to leave (registry.go:159).  *)
THEOREM DedupeIs ==
  ASSUME NEW ms, IsList(ms)
  PROVE  \/ Dedupe(ms).failed = TRUE /\ Refused(ms)
         \/ /\ Dedupe(ms).failed = FALSE /\ ~Refused(ms)
            /\ IsList(Dedupe(ms).out) /\ Dedupe(ms).out \in Survivors(ms)
<1>1. Len(ms) \in Nat /\ DOMAIN ms = 1 .. Len(ms)
  BY ListFacts
<1>2. PICK d : d = Dedupe(ms)
  OBVIOUS
<1>3. DedupedSoFar(ms, Len(ms), d)
  BY <1>2, DedupeLoop
<1>4. Refused(ms) <=> \E i \in 1 .. Len(ms) : Faulty(ms, i)
  BY <1>1 DEF Refused, Faulty
<1>5. CASE d.failed = TRUE
  BY <1>2, <1>3, <1>4, <1>5 DEF DedupedSoFar
<1>6. CASE d.failed = FALSE
  <2>1. IsList(d.out) /\ Len(d.out) <= Len(ms) /\ ~Refused(ms)
    BY <1>3, <1>4, <1>6 DEF DedupedSoFar
  <2>2. PICK f \in [1 .. Len(d.out) -> 1 .. Len(ms)] : Chosen(ms, Len(ms), f, d.out)
    BY <1>3, <1>6 DEF DedupedSoFar
  <2>3. /\ DOMAIN d.out = 1 .. Len(d.out) /\ DOMAIN f = 1 .. Len(d.out)
        /\ Len(d.out) \in 0 .. Len(ms)
        /\ d.out = [k \in 1 .. Len(d.out) |-> d.out[k]]
    <3>1. /\ DOMAIN d.out = 1 .. Len(d.out) /\ Len(d.out) \in Nat
          /\ d.out = [k \in 1 .. Len(d.out) |-> d.out[k]]
      BY <2>1, ListFacts
    <3>2. Len(d.out) \in 0 .. Len(ms)
      BY <1>1, <2>1, <3>1
    <3>3. DOMAIN f = 1 .. Len(d.out)
      BY <2>2
    <3> QED
      BY <3>1, <3>2, <3>3
  <2>4. \A k \in DOMAIN f :
          /\ f[k] \in Leaders(ms)
          /\ d.out[k] = ms[Max({f[k]} \cup Overriders(ms, f[k]))]
    BY <2>2, LastKept DEF Chosen
  <2>5. f \in [1 .. Len(d.out) -> Leaders(ms)]
    BY <2>2, <2>3, <2>4
  <2>6. Range(f) = Leaders(ms)
    <3>1. \A i \in Leaders(ms) : i <= Len(ms)
      BY <1>1 DEF Leaders
    <3> QED
      BY <2>2, <2>4, <3>1 DEF Chosen, Range
  <2>7. \A m, n \in DOMAIN f : m < n => f[m] < f[n]
    BY <2>2 DEF Chosen
  <2>8. f \in Orders(ms)
    BY <2>3, <2>5, <2>6, <2>7 DEF Orders
  <2>9. d.out = [n \in DOMAIN f |-> ms[Max({f[n]} \cup Overriders(ms, f[n]))]]
    <3> DEFINE kept == [n \in DOMAIN f |-> ms[Max({f[n]} \cup Overriders(ms, f[n]))]]
    <3>1. /\ kept = [n \in 1 .. Len(d.out) |-> kept[n]]
          /\ \A n \in 1 .. Len(d.out) : d.out[n] = kept[n]
      BY <2>3, <2>4
    <3> HIDE DEF kept
    <3>2. d.out = kept
      BY <2>3, <3>1
    <3> QED
      BY <3>2 DEF kept
  <2>10. d.out \in Survivors(ms)
    BY <2>8, <2>9 DEF Survivors
  <2> QED
    BY <1>2, <1>6, <2>1, <2>10
<1> QED
  BY <1>3, <1>5, <1>6 DEF DedupedSoFar

-----------------------------------------------------------------------------
(* Mount *)

LEMMA DeclaredIs ==
  ASSUME TypeOK, NEW i \in DOMAIN routes[Root]
  PROVE  IsList(Declared(i))
<1>1. IsWindow(heap, routes[Root][i].mws) /\ heap \in Arrays
  BY RegistryAssumption DEF TypeOK
<1> QED
  BY <1>1, ViewIs DEF Declared

LEMMA ServedStays ==
  ASSUME NEW i, UNCHANGED <<heap, routes>>, mux'[i] = mux[i], Served(i)
  PROVE  Served(i)'
BY DEF Served, Declared, Taken

\* A route the loop reaches: what its turn has found out about it.
LEMMA TurnFinds ==
  ASSUME TypeOK, \A i \in DOMAIN mux : Served(i), Len(mux) < Len(routes[Root]),
         NEW n, n = Len(mux) + 1, NEW d, d = Dedupe(Declared(n))
  PROVE  /\ DOMAIN mux = 1 .. n - 1 /\ n \in 1 .. Len(routes[Root])
         /\ (\E i \in DOMAIN mux : mux[i].pattern = routes[Root][n].pattern)
              <=> Taken(n)
         /\ d.failed = TRUE => Refused(Declared(n))
         /\ ~d.failed => ~Refused(Declared(n)) /\ d.out \in Survivors(Declared(n))
<1>1. /\ DOMAIN mux = 1 .. Len(mux) /\ Len(mux) \in Nat
      /\ DOMAIN routes[Root] = 1 .. Len(routes[Root]) /\ Len(routes[Root]) \in Nat
  BY RegistryAssumption, ListFacts DEF TypeOK
<1>2. DOMAIN mux = 1 .. n - 1 /\ n \in 1 .. Len(routes[Root])
  BY <1>1
<1>3. \A i \in 1 .. n - 1 : mux[i].pattern = routes[Root][i].pattern
  BY <1>2 DEF Served
<1>4. (\E i \in DOMAIN mux : mux[i].pattern = routes[Root][n].pattern) <=> Taken(n)
  BY <1>2, <1>3 DEF Taken
<1>5. IsList(Declared(n))
  BY <1>1, <1>2, DeclaredIs
<1> QED
  BY <1>2, <1>4, <1>5, DedupeIs

\* Nothing is served before the loop starts.
MountInv ==
  /\ MountStopsAtFirstFault
  /\ outcome = "building" => mux = <<>>

LEMMA NextMounts ==
  TypeOK /\ MountInv /\ [Next]_vars => MountInv'
<1> SUFFICES ASSUME TypeOK, MountInv, [Next]_vars PROVE MountInv'
  OBVIOUS
<1>1. ASSUME outcome = "building", UNCHANGED mux, outcome' \in {"building", "mounting"}
      PROVE  MountInv'
  <2>1. mux' = <<>> /\ DOMAIN mux' = {}
    BY <1>1 DEF MountInv
  <2> QED
    BY <1>1, <2>1 DEF MountInv, MountStopsAtFirstFault
<1>2. ASSUME UNCHANGED <<heap, routes, mux>>, outcome' # "building",
             LET n == Len(mux) + 1
             IN  /\ outcome' = "ok" => n > Len(routes[Root])
                 /\ outcome' \in {"error", "panic"} => n <= Len(routes[Root])
                 /\ outcome' = "error" => Refused(Declared(n))
                 /\ outcome' = "panic" =>
                      ~Refused(Declared(n)) /\ (Taken(n) \/ NilSurvives(n))
      PROVE  MountInv'
  <2>1. \A i \in DOMAIN mux' : Served(i)'
    BY <1>2, ServedStays DEF MountInv, MountStopsAtFirstFault
  <2> QED
    BY <1>2, <2>1
    DEF MountInv, MountStopsAtFirstFault, Declared, Taken, NilSurvives
<1>3. CASE (\E r \in Registries, route \in Offers : Add(r, route))
           \/ (\E g \in Groups, r \in Registries, args \in SubCalls : Sub(g, r, args))
           \/ (\E g \in Groups, route \in Offers : SubAdd(g, route))
           \/ (\E r, other \in Registries, args \in IncludeCalls :
                 Include(r, other, args))
           \/ StartMount
  <2>1. outcome = "building" /\ UNCHANGED mux /\ outcome' \in {"building", "mounting"}
    BY <1>3 DEF Add, Sub, SubAdd, Include, StartMount, Call
  <2> QED
    BY <1>1, <2>1
<1>4. CASE EndMount
  <2>1. Len(mux) \in Nat
    BY ListFacts DEF TypeOK
  <2>2. /\ UNCHANGED <<heap, routes, mux>> /\ outcome' = "ok"
        /\ Len(mux) + 1 > Len(routes[Root])
    BY <1>4, <2>1 DEF EndMount
  <2> QED
    BY <1>2, <2>2
<1>5. CASE Mount
  <2> PICK n : n = Len(mux) + 1
    OBVIOUS
  <2> DEFINE route == routes[Root][n]
             d == Dedupe(Declared(n))
             layers == <<"authenticate">> \o Layer(route.scope, NoScope)
                         \o Layer(route.policy, NoPolicy)
             served == [pattern |-> route.pattern, chain |-> Chain(route, d.out)]
  <2>1. /\ UNCHANGED <<heap, routes>>
        /\ outcome = "mounting" /\ Len(mux) < Len(routes[Root])
        /\ \/ d.failed /\ outcome' = "error" /\ UNCHANGED mux
           \/ /\ ~d.failed /\ outcome' = "panic" /\ UNCHANGED mux
              /\ \/ HasNil(d.out)
                 \/ \E i \in DOMAIN mux : mux[i].pattern = route.pattern
           \/ /\ ~d.failed /\ ~HasNil(d.out) /\ mux' = Append(mux, served)
              /\ UNCHANGED outcome
              /\ ~\E i \in DOMAIN mux : mux[i].pattern = route.pattern
    BY <1>5 DEF Mount, Declared, HasNil
  <2>2. /\ DOMAIN mux = 1 .. n - 1 /\ n \in 1 .. Len(routes[Root])
        /\ (\E i \in DOMAIN mux : mux[i].pattern = route.pattern) <=> Taken(n)
        /\ d.failed = TRUE => Refused(Declared(n))
        /\ ~d.failed => ~Refused(Declared(n)) /\ d.out \in Survivors(Declared(n))
    BY <2>1, TurnFinds DEF MountInv, MountStopsAtFirstFault
  <2>3. \A i \in DOMAIN mux : Served(i)
    BY DEF MountInv, MountStopsAtFirstFault
  <2>4. n <= Len(routes[Root])
    BY <2>2
  <2> HIDE DEF d
  <2>5. CASE d.failed /\ outcome' = "error" /\ UNCHANGED mux
    BY <1>2, <2>1, <2>2, <2>4, <2>5
  <2>6. CASE /\ ~d.failed /\ outcome' = "panic" /\ UNCHANGED mux
             /\ \/ HasNil(d.out)
                \/ \E i \in DOMAIN mux : mux[i].pattern = route.pattern
    <3>1. Taken(n) \/ NilSurvives(n)
      BY <2>2, <2>6 DEF NilSurvives
    <3> QED
      BY <1>2, <2>1, <2>2, <2>4, <2>6, <3>1
  <2>7. CASE /\ ~d.failed /\ ~HasNil(d.out) /\ mux' = Append(mux, served)
             /\ UNCHANGED outcome
             /\ ~\E i \in DOMAIN mux : mux[i].pattern = route.pattern
    <3> HIDE DEF served
    <3>1. /\ DOMAIN mux' = 1 .. n /\ mux'[n] = served
          /\ \A i \in DOMAIN mux : mux'[i] = mux[i]
      <4>1. IsList(mux) /\ Len(mux) \in Nat /\ DOMAIN mux = 1 .. Len(mux)
        BY ListFacts DEF TypeOK
      <4>2. /\ IsList(mux') /\ Len(mux') = n /\ mux'[n] = served
            /\ \A i \in 1 .. Len(mux) : mux'[i] = mux[i]
        BY <2>7, <4>1, AppendList
      <4>3. DOMAIN mux' = 1 .. n
        BY <4>2, ListFacts
      <4> QED
        BY <4>1, <4>2, <4>3
    <3>2. \A i \in DOMAIN mux : Served(i)'
      BY <2>1, <2>3, <3>1, ServedStays
    <3>3. Served(n)'
      <4>1. /\ mux'[n].pattern = route.pattern
            /\ mux'[n].chain = layers \o [k \in DOMAIN d.out |-> d.out[k].apply]
                                 \o <<route.handler>>
        <5>1. mux'[n].pattern = route.pattern /\ mux'[n].chain = Chain(route, d.out)
          BY <3>1 DEF served
        <5> QED
          BY <5>1 DEF Chain
      <4>2. routes' = routes /\ Declared(n)' = Declared(n) /\ ~Taken(n)'
        BY <2>1, <2>2, <2>7 DEF Declared, Taken
      <4>3. ~Refused(Declared(n)) /\ d.out \in Survivors(Declared(n))
        BY <2>2, <2>7
      <4> QED
        BY <2>7, <4>1, <4>2, <4>3 DEF Served
    <3>4. \A i \in DOMAIN mux' : i = n \/ i \in DOMAIN mux
      BY <2>2, <3>1
    <3>5. \A i \in DOMAIN mux' : Served(i)'
      BY <3>2, <3>3, <3>4
    <3> QED
      BY <2>1, <2>7, <3>5 DEF MountInv, MountStopsAtFirstFault
  <2> QED
    BY <2>1, <2>5, <2>6, <2>7
<1>6. CASE UNCHANGED vars
  BY <1>6 DEF vars, MountInv, MountStopsAtFirstFault, Served, Declared, Taken,
              NilSurvives
<1> QED
  BY <1>3, <1>4, <1>5, <1>6 DEF Next

LEMMA InitMounts == Init => TypeOK /\ MountInv
<1>1. Init => mux = <<>> /\ DOMAIN mux = {} /\ outcome = "building"
  BY DEF Init
<1> QED
  BY <1>1, InitTypes DEF MountInv, MountStopsAtFirstFault

(* Mount hands the routes to the mux in order, each with the chain its     *)
(* conflict policies leave, until the first one that cannot be served; and *)
(* what dedupeMiddlewares computes in its loop is the list documented.     *)
THEOREM MountsUpToFault == Spec => []MountStopsAtFirstFault
<1>1. Init => TypeOK /\ MountInv
  BY InitMounts
<1>2. TypeOK /\ MountInv /\ [Next]_vars => TypeOK' /\ MountInv'
  BY NextTypes, NextMounts
<1>3. MountInv => MountStopsAtFirstFault
  BY DEF MountInv
<1> QED
  BY <1>1, <1>2, <1>3, PTL DEF Spec

-----------------------------------------------------------------------------
(* Names *)

LEMMA Single ==
  ASSUME NEW e
  PROVE  IsList(<<e>>) /\ Len(<<e>>) = 1 /\ <<e>>[1] = e
<1>1. <<e>> \in Seq({e}) /\ Len(<<e>>) = 1 /\ <<e>>[1] = e
  OBVIOUS
<1> QED
  BY <1>1, SeqIsList

Qualify(p, n) == p \o <<":">> \o n

\* The colon after a provider is the first one: a provider has none.
Splits(k, p, n) ==
  /\ Len(k) = Len(p) + 1 + Len(n) /\ k[Len(p) + 1] = ":"
  /\ \A i \in 1 .. Len(p) : k[i] = p[i] /\ k[i] # ":"
  /\ \A i \in 1 .. Len(n) : k[Len(p) + 1 + i] = n[i]

LEMMA Qualified ==
  ASSUME NEW p, NEW n, IsList(p), IsList(n), Valid(p), NEW k, k = Qualify(p, n)
  PROVE  Splits(k, p, n)
<1>1. PICK c : c = <<":">>
  OBVIOUS
<1>2. IsList(c) /\ Len(c) = 1 /\ c[1] = ":"
  BY <1>1, Single
<1>3. PICK q : q = p \o c
  OBVIOUS
<1>4. /\ IsList(q) /\ Len(q) = Len(p) + Len(c)
      /\ \A i \in 1 .. Len(p) : q[i] = p[i]
      /\ \A i \in 1 .. Len(c) : q[Len(p) + i] = c[i]
  <2>1. /\ IsList(p \o c) /\ Len(p \o c) = Len(p) + Len(c)
        /\ \A i \in 1 .. Len(p) : (p \o c)[i] = p[i]
        /\ \A i \in 1 .. Len(c) : (p \o c)[Len(p) + i] = c[i]
    BY <1>2, ConcatList
  <2> QED
    BY <1>3, <2>1, Zenon
<1>5. k = q \o n
  BY <1>1, <1>3, Zenon DEF Qualify
<1>6. /\ Len(k) = Len(q) + Len(n)
      /\ \A i \in 1 .. Len(q) : k[i] = q[i]
      /\ \A i \in 1 .. Len(n) : k[Len(q) + i] = n[i]
  <2>1. /\ Len(q \o n) = Len(q) + Len(n)
        /\ \A i \in 1 .. Len(q) : (q \o n)[i] = q[i]
        /\ \A i \in 1 .. Len(n) : (q \o n)[Len(q) + i] = n[i]
    BY <1>4, ConcatList
  <2> QED
    BY <1>5, <2>1, Zenon
<1>7. /\ Len(p) \in Nat /\ DOMAIN p = 1 .. Len(p) /\ Len(n) \in Nat
      /\ Len(q) = Len(p) + 1
  BY <1>2, <1>4, ListFacts
<1>8. \A i \in 1 .. Len(p) : p[i] # ":"
  BY <1>7 DEF Valid
<1>9. \A i \in 1 .. Len(p) : i \in 1 .. Len(q)
  BY <1>7
<1>10. Len(p) + 1 \in 1 .. Len(q) /\ 1 \in 1 .. Len(c)
  BY <1>2, <1>7
<1> QED
  BY <1>2, <1>4, <1>6, <1>7, <1>8, <1>9, <1>10 DEF Splits

LEMMA SameQualified ==
  ASSUME NEW p, NEW n, IsList(p), IsList(n), Valid(p),
         NEW q, NEW m, IsList(q), IsList(m), Valid(q),
         NEW k, k = Qualify(p, n), k = Qualify(q, m)
  PROVE  p = q /\ n = m
<1>1. Splits(k, p, n) /\ Splits(k, q, m)
  BY Qualified
<1>2. Len(p) \in Nat /\ Len(q) \in Nat /\ Len(n) \in Nat /\ Len(m) \in Nat
  BY ListFacts
<1>3. ~(Len(p) < Len(q)) /\ ~(Len(q) < Len(p))
  <2>1. Len(p) < Len(q) => Len(p) + 1 \in 1 .. Len(q)
    BY <1>2
  <2>2. Len(q) < Len(p) => Len(q) + 1 \in 1 .. Len(p)
    BY <1>2
  <2> QED
    BY <1>1, <2>1, <2>2 DEF Splits
<1>4. Len(p) = Len(q) /\ Len(n) = Len(m)
  BY <1>1, <1>2, <1>3 DEF Splits
<1> QED
  <2>1. \A i \in 1 .. Len(p) : p[i] = q[i]
    BY <1>1, <1>4 DEF Splits
  <2>2. \A i \in 1 .. Len(n) : n[i] = m[i]
    BY <1>1, <1>4 DEF Splits
  <2> QED
    BY <1>4, <2>1, <2>2, SameList

\* Two middlewares of one key are namesakes, or a bare name looks qualified.
LEMMA SameKey ==
  ASSUME NEW m \in Middlewares, NEW x \in Middlewares,
         Validates(m), Validates(x), Key(m) = Key(x)
  PROVE  \/ x.provider = m.provider /\ x.name = m.name
         \/ /\ x.provider # m.provider
            /\ \/ x.provider = <<>> /\ Contains(x.name, ":")
               \/ m.provider = <<>> /\ Contains(m.name, ":")
<1>1. /\ IsList(m.name) /\ IsList(m.provider) /\ Valid(m.provider)
      /\ IsList(x.name) /\ IsList(x.provider) /\ Valid(x.provider)
  BY RegistryAssumption DEF Validates
<1>2. ASSUME NEW p, NEW n, IsList(p), IsList(n), Valid(p), NEW k, k = Qualify(p, n)
      PROVE  Contains(k, ":")
  <2>1. Len(k) = Len(p) + 1 + Len(n) /\ k[Len(p) + 1] = ":"
    BY <1>2, Qualified DEF Splits
  <2>2. PICK a, b : a = Len(p) /\ b = Len(n)
    OBVIOUS
  <2>3. a \in Nat /\ b \in Nat /\ Len(k) = a + 1 + b
    BY <1>2, <2>1, <2>2, ListFacts
  <2>4. a + 1 \in 1 .. Len(k) /\ k[a + 1] = ":"
    BY <2>1, <2>2, <2>3
  <2> QED
    BY <2>4 DEF Contains
<1>3. CASE m.provider = <<>> /\ x.provider = <<>>
  BY <1>3 DEF Key
<1>4. CASE m.provider = <<>> /\ x.provider # <<>>
  <2>1. m.name = Qualify(x.provider, x.name)
    BY <1>4 DEF Key, Qualify
  <2>2. Contains(m.name, ":")
    BY <1>1, <1>2, <2>1
  <2> QED
    BY <1>4, <2>2
<1>5. CASE m.provider # <<>> /\ x.provider = <<>>
  <2>1. x.name = Qualify(m.provider, m.name)
    BY <1>5 DEF Key, Qualify
  <2>2. Contains(x.name, ":")
    BY <1>1, <1>2, <2>1
  <2> QED
    BY <1>5, <2>2
<1>6. CASE m.provider # <<>> /\ x.provider # <<>>
  <2>1. PICK k : k = Key(m)
    OBVIOUS
  <2>2. k = Qualify(m.provider, m.name) /\ k = Qualify(x.provider, x.name)
    BY <1>6, <2>1 DEF Key, Qualify
  <2> QED
    <3>1. PICK p, n, q, o : /\ p = m.provider /\ n = m.name
                            /\ q = x.provider /\ o = x.name
      OBVIOUS
    <3>2. p = q /\ n = o
      <4>1. /\ IsList(p) /\ IsList(n) /\ Valid(p) /\ k = Qualify(p, n)
            /\ IsList(q) /\ IsList(o) /\ Valid(q) /\ k = Qualify(q, o)
        BY <1>1, <2>2, <3>1
      <4> QED
        BY <4>1, SameQualified
    <3> QED
      BY <3>1, <3>2
<1> QED
  BY <1>3, <1>4, <1>5, <1>6

-----------------------------------------------------------------------------
(* What displaces a middleware *)

\* A non-empty set of numbers up to N has a greatest one.
LEMMA Greatest ==
  ASSUME NEW N \in Nat, NEW S \in SUBSET (1 .. N), S # {}
  PROVE  Max(S) \in S
<1> DEFINE T == {m \in Nat : \A n \in S : n <= m}
<1>1. T \in SUBSET Nat /\ N \in T
  OBVIOUS
<1> HIDE DEF T
<1>2. PICK m \in T : \A l \in T : m <= l
  BY <1>1, Least
<1>3. m \in Nat /\ \A n \in S : n <= m
  BY <1>1, <1>2 DEF T
<1>4. m \in S
  <2>1. SUFFICES ASSUME m \notin S PROVE FALSE
    OBVIOUS
  <2>2. \A n \in S : n \in Nat /\ n > 0 /\ n <= m /\ n # m
    BY <1>3, <2>1
  <2>3. m > 0
    <3>1. PICK n : n \in S
      OBVIOUS
    <3> QED
      BY <1>3, <2>2, <3>1
  <2>4. \A n \in S : n <= m - 1
    BY <1>3, <2>2
  <2>5. m - 1 \in T
    BY <1>3, <2>3, <2>4 DEF T
  <2> QED
    BY <1>2, <1>3, <2>5
<1>5. \A n \in S : m >= n
  BY <1>3
<1> QED
  BY <1>4, <1>5 DEF Max

\* What a survivor list keeps for a middleware has its key.
LEMMA SurvivorOf ==
  ASSUME NEW ms, IsList(ms), NEW kept \in Survivors(ms), NEW k \in DOMAIN ms
  PROVE  /\ IsList(kept)
         /\ \E n \in DOMAIN kept, j \in DOMAIN ms :
              kept[n] = ms[j] /\ Key(ms[j]) = Key(ms[k])
<1>1. Len(ms) \in Nat /\ DOMAIN ms = 1 .. Len(ms)
  BY ListFacts
<1>2. PICK f \in Orders(ms) :
        kept = [n \in DOMAIN f |-> ms[Max({f[n]} \cup Overriders(ms, f[n]))]]
  BY DEF Survivors
<1>3. PICK a \in 0 .. Len(ms) : f \in [1 .. a -> Leaders(ms)]
  BY DEF Orders
<1>4. DOMAIN f = 1 .. a /\ a \in Nat
  BY <1>1, <1>3
<1>5. IsList(kept) /\ DOMAIN kept = DOMAIN f
  <2>1. kept = [n \in 1 .. a |-> kept[n]]
    BY <1>2, <1>4
  <2> QED
    BY <1>4, <2>1, MakeList
<1>6. PICK l \in Leaders(ms) : Key(ms[l]) = Key(ms[k])
  BY <1>1, LeaderOf
<1>7. PICK n \in DOMAIN f : f[n] = l
  BY DEF Orders, Range
<1>8. PICK S : S = {l} \cup Overriders(ms, l)
  OBVIOUS
<1>9. /\ S \in SUBSET (1 .. Len(ms)) /\ S # {}
      /\ \A j \in S : Key(ms[j]) = Key(ms[k])
  BY <1>1, <1>6, <1>8 DEF Overriders, Leaders
<1>10. Max(S) \in S
  BY <1>1, <1>9, Greatest
<1>11. kept[n] = ms[Max(S)]
  BY <1>2, <1>7, <1>8
<1> QED
  BY <1>1, <1>5, <1>7, <1>9, <1>10, <1>11

LEMMA LayerIs ==
  ASSUME NEW x, NEW none
  PROVE  IsList(Layer(x, none))
<1>1. IsList(<<>>) /\ IsList(<<x>>)
  BY EmptySeq, SeqIsList, Single
<1> QED
  BY <1>1, Zenon DEF Layer

LEMMA ContainsMiddle ==
  ASSUME NEW a, NEW b, NEW c, IsList(a), IsList(b), IsList(c), NEW n \in DOMAIN b
  PROVE  Contains(a \o b \o c, b[n])
<1>1. PICK ab : ab = a \o b
  OBVIOUS
<1>2. IsList(a \o b) /\ Len(a \o b) = Len(a) + Len(b) /\ (a \o b)[Len(a) + n] = b[n]
  <2>1. n \in 1 .. Len(b)
    BY ListFacts
  <2>2. /\ IsList(a \o b) /\ Len(a \o b) = Len(a) + Len(b)
        /\ \A i \in 1 .. Len(b) : (a \o b)[Len(a) + i] = b[i]
    BY ConcatList
  <2> QED
    BY <2>1, <2>2
<1>3. IsList(ab) /\ Len(ab) = Len(a) + Len(b) /\ ab[Len(a) + n] = b[n]
  BY <1>1, <1>2
<1>4. PICK abc : abc = ab \o c
  OBVIOUS
<1>5. Len(abc) = Len(ab) + Len(c) /\ \A i \in 1 .. Len(ab) : abc[i] = ab[i]
  <2>1. /\ Len(ab \o c) = Len(ab) + Len(c)
        /\ \A i \in 1 .. Len(ab) : (ab \o c)[i] = ab[i]
    BY <1>3, ConcatList
  <2> QED
    BY <1>4, <2>1
<1>6. PICK la, lb, lc : la = Len(a) /\ lb = Len(b) /\ lc = Len(c)
  OBVIOUS
<1>7. la \in Nat /\ lb \in Nat /\ lc \in Nat /\ n \in 1 .. lb
  BY <1>6, ListFacts
<1>8. la + n \in 1 .. Len(ab) /\ la + n \in 1 .. Len(abc)
  BY <1>3, <1>5, <1>6, <1>7
<1>9. abc[la + n] = b[n]
  BY <1>3, <1>5, <1>6, <1>8
<1> QED
  BY <1>1, <1>4, <1>8, <1>9 DEF Contains

LEMMA ServedRuns ==
  ASSUME NEW i, Served(i)
  PROVE  \E kept \in Survivors(Declared(i)) :
           IsList(kept) =>
             \A n \in DOMAIN kept : Contains(mux[i].chain, kept[n].apply)
<1>1. PICK kept \in Survivors(Declared(i)) :
        mux[i].chain =
          <<"authenticate">> \o Layer(routes[Root][i].scope, NoScope)
            \o Layer(routes[Root][i].policy, NoPolicy)
            \o [n \in DOMAIN kept |-> kept[n].apply] \o <<routes[Root][i].handler>>
  BY DEF Served
<1>2. ASSUME IsList(kept), NEW n \in DOMAIN kept
      PROVE  Contains(mux[i].chain, kept[n].apply)
  <2> DEFINE l == <<"authenticate">> \o Layer(routes[Root][i].scope, NoScope)
      m == l \o Layer(routes[Root][i].policy, NoPolicy)
      b == [k \in DOMAIN kept |-> kept[k].apply]
      c == <<routes[Root][i].handler>>
  <2>1. IsList(l)
    BY LayerIs, Single, ConcatList
  <2>2. IsList(m)
    <3> HIDE DEF l
    <3> QED
      BY <2>1, LayerIs, ConcatList
  <2>3. IsList(b) /\ n \in DOMAIN b /\ b[n] = kept[n].apply
    <3>1. Len(kept) \in Nat /\ DOMAIN kept = 1 .. Len(kept)
      BY <1>2, ListFacts
    <3>2. b = [k \in 1 .. Len(kept) |-> b[k]]
      BY <3>1
    <3>3. n \in DOMAIN b /\ b[n] = kept[n].apply
      OBVIOUS
    <3> HIDE DEF b
    <3> QED
      BY <3>1, <3>2, <3>3, MakeList
  <2>4. IsList(c)
    BY Single
  <2>5. mux[i].chain = m \o b \o c
    BY <1>1
  <2> HIDE DEF l, m, b, c
  <2>6. Contains(m \o b \o c, b[n])
    BY <2>2, <2>3, <2>4, ContainsMiddle
  <2> QED
    BY <2>3, <2>5, <2>6
<1> QED
  BY <1>2

LEMMA NamesakesOnly ==
  ASSUME TypeOK, MountInv
  PROVE  OnlyNamesakesDisplace
<1> SUFFICES ASSUME NEW i \in DOMAIN mux, NEW k \in DOMAIN Declared(i)
             PROVE  \/ Contains(mux[i].chain, Declared(i)[k].apply)
                    \/ \E j \in DOMAIN Declared(i) \ {k} :
                         LET m == Declared(i)[k]
                             x == Declared(i)[j]
                         IN  \/ x.provider = m.provider /\ x.name = m.name
                             \/ /\ \/ x.provider = <<>> /\ Contains(x.name, ":")
                                   \/ m.provider = <<>> /\ Contains(m.name, ":")
                                /\ x.provider # m.provider
  BY DEF OnlyNamesakesDisplace
<1>1. PICK ms : ms = Declared(i)
  OBVIOUS
<1>2. Served(i) /\ ~Refused(ms)
  BY <1>1 DEF MountInv, MountStopsAtFirstFault, Served
<1>3. ms \in Seq(Middlewares) /\ IsList(ms)
  <2>1. IsList(mux) /\ Len(mux) <= Len(routes[Root]) /\ IsList(routes[Root])
    BY RegistryAssumption DEF TypeOK
  <2>2. i \in DOMAIN routes[Root]
    BY <2>1, ListFacts
  <2>3. IsWindow(heap, routes[Root][i].mws) /\ heap \in Arrays
    BY <2>2, RegistryAssumption DEF TypeOK
  <2> QED
    BY <1>1, <2>3, ViewIs DEF Declared
<1>4. \A j \in DOMAIN ms : ms[j] \in Middlewares /\ Validates(ms[j])
  BY <1>2, <1>3, LenProperties, ElementOfSeq DEF Refused
<1>5. PICK kept \in Survivors(ms) :
        IsList(kept) => \A n \in DOMAIN kept : Contains(mux[i].chain, kept[n].apply)
  BY <1>1, <1>2, ServedRuns
<1>6. PICK n \in DOMAIN kept, j \in DOMAIN ms :
        kept[n] = ms[j] /\ Key(ms[j]) = Key(ms[k])
  BY <1>1, <1>3, SurvivorOf
<1>7. Contains(mux[i].chain, ms[j].apply)
  <2>1. IsList(kept)
    BY <1>1, <1>3, SurvivorOf
  <2> QED
    BY <1>5, <1>6, <2>1
<1>8. CASE j = k
  BY <1>1, <1>7, <1>8
<1>9. CASE j # k
  <2>1. PICK m, x : m = ms[k] /\ x = ms[j]
    OBVIOUS
  <2>2. \/ x.provider = m.provider /\ x.name = m.name
        \/ /\ x.provider # m.provider
           /\ \/ x.provider = <<>> /\ Contains(x.name, ":")
              \/ m.provider = <<>> /\ Contains(m.name, ":")
    BY <1>1, <1>4, <1>6, <2>1, SameKey
  <2> QED
    BY <1>1, <1>9, <2>1, <2>2
<1> QED
  BY <1>8, <1>9

(* A middleware declared on a served route runs, unless a namesake or a    *)
(* name with a colon shares its key: keys of different providers differ.   *)
THEOREM NamesakesDisplace == Spec => []OnlyNamesakesDisplace
<1>1. Init => TypeOK /\ MountInv
  BY InitMounts
<1>2. TypeOK /\ MountInv /\ [Next]_vars => TypeOK' /\ MountInv'
  BY NextTypes, NextMounts
<1>3. TypeOK /\ MountInv => OnlyNamesakesDisplace
  BY NamesakesOnly
<1> QED
  BY <1>1, <1>2, <1>3, PTL DEF Spec

=============================================================================
