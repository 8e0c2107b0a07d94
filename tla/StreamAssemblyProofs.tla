-------------------------- MODULE StreamAssemblyProofs --------------------------
(****************************************************************************)
(* The streamed answer, for any streams of the three formats and any faults *)
(* on the way: what the host has heard is what the final output says.       *)
(*                                                                          *)
(* The invariant says of each format how what was heard follows from the    *)
(* assembly's state; the last event turns that state into the output.       *)
(****************************************************************************)
EXTENDS StreamAssembly, SequenceTheorems, FiniteSetTheorems, WellFoundedInduction, TLAPS

-----------------------------------------------------------------------------
(* Numbers, folds and the flattening of sequences.                           *)

(* The least number of a set of numbers.                                     *)
LEMMA LeastElement ==
    ASSUME NEW S \in SUBSET Nat, S # {}
    PROVE  \E m \in S : \A k \in S : m <= k
<1> DEFINE R == OpToRel(<, Nat)
<1>1. IsWellFoundedOn(R, Nat)
    BY NatLessThanWellFounded
<1>2. \A x, y \in Nat : <<x, y>> \in R <=> x < y
    BY DEF OpToRel
<1> HIDE DEF R
<1>3. PICK m \in S : \A k \in S : ~(<<k, m>> \in R)
    BY <1>1, WFMin
<1>4. \A k \in S : ~(k < m)
    BY <1>2, <1>3
<1> QED BY <1>4

(* What holds of zero and of each number after one it holds of.              *)
LEMMA Upward ==
    ASSUME NEW n \in Nat, NEW S, 0 \in S, \A k \in 1..n : k - 1 \in S => k \in S
    PROVE  \A k \in 0..n : k \in S
<1> DEFINE Missing == {k \in 0..n : k \notin S}
<1> SUFFICES ASSUME Missing # {} PROVE FALSE
    OBVIOUS
<1>1. Missing \in SUBSET Nat
    OBVIOUS
<1>2. PICK m \in Missing : \A k \in Missing : m <= k
    BY <1>1, LeastElement
<1>3. m \in 1..n /\ m - 1 \in 0..n
    BY <1>2
<1>4. m - 1 \in S
    BY <1>2, <1>3
<1> QED BY <1>2, <1>3, <1>4

(* The greatest of some numbers up to n.                                     *)
LEMMA MaxIn ==
    ASSUME NEW n \in Nat, NEW s \in SUBSET (1..n), s # {}
    PROVE  Max(s) \in s /\ \A y \in s : Max(s) >= y
<1> DEFINE Below == {n - x : x \in s}
<1>1. Below \in SUBSET Nat /\ Below # {}
    <2>1. \A x \in s : n - x \in Nat
        OBVIOUS
    <2>2. PICK x \in s : TRUE
        OBVIOUS
    <2>3. n - x \in Below
        OBVIOUS
    <2> QED BY <2>1, <2>3
<1>2. PICK b \in Below : \A k \in Below : b <= k
    BY <1>1, LeastElement
<1>3. PICK x \in s : b = n - x
    BY <1>2
<1>4. \A y \in s : n - x <= n - y
    BY <1>2, <1>3
<1>5. \A y \in s : x >= y
    BY <1>4
<1> QED BY <1>5, Zenon DEF Max

(* The greatest number of an interval.                                       *)
LEMMA MaxUpTo ==
    ASSUME NEW n \in Nat, NEW k \in 1..n
    PROVE  Max(1..k) = k /\ (1..k) \ {k} = 1..(k - 1)
<1>1. 1..k \in SUBSET (1..n) /\ 1..k # {}
    OBVIOUS
<1>2. Max(1..k) \in 1..k /\ \A y \in 1..k : Max(1..k) >= y
    BY <1>1, MaxIn
<1> QED BY <1>2

(* The function a fold is defined by, if its steps stay in the set T.        *)
IsFold(f, T, base, n, step) ==
    /\ f \in [SUBSET (1..n) -> T]
    /\ \A s \in SUBSET (1..n) :
          f[s] = IF s = {} THEN base ELSE step[Max(s)][f[s \ {Max(s)}]]

(* There is one.                                                             *)
LEMMA FoldExists ==
    ASSUME NEW T, NEW base \in T, NEW n \in Nat, NEW step \in [1..n -> [T -> T]]
    PROVE  \E f : IsFold(f, T, base, n, step)
<1> DEFINE Folds(f, m) == IsFold(f, T, base, m, step)
           S == {m \in 0..n : \E f : Folds(f, m)}
<1>1. 0 \in S
    <2> DEFINE f == [s \in SUBSET (1..0) |-> base]
    <2>1. f \in [SUBSET (1..0) -> T]
        OBVIOUS
    <2>2. \A s \in SUBSET (1..0) : s = {} /\ f[s] = base
        OBVIOUS
    <2> HIDE DEF f
    <2>3. Folds(f, 0)
        BY <2>1, <2>2 DEF IsFold
    <2>4. 0 \in 0..n
        OBVIOUS
    <2> HIDE DEF Folds
    <2> QED BY <2>3, <2>4
<1>2. ASSUME NEW m \in 1..n, m - 1 \in S PROVE m \in S
    <2>1. PICK f : Folds(f, m - 1)
        BY <1>2
    <2> DEFINE h == [s \in SUBSET (1..m) |-> IF m \in s THEN step[m][f[s \ {m}]] ELSE f[s]]
    <2>2. \A s \in SUBSET (1..m) : s \ {m} \in SUBSET (1..(m - 1))
        OBVIOUS
    <2>3. \A s \in SUBSET (1..m) : m \notin s => s \in SUBSET (1..(m - 1))
        OBVIOUS
    <2>4. \A s \in SUBSET (1..m) : h[s] \in T
        BY <2>1, <2>2, <2>3 DEF IsFold
    <2>5. \A s \in SUBSET (1..m) : m \notin s => h[s] = f[s]
        OBVIOUS
    <2>6. h \in [SUBSET (1..m) -> T]
        BY <2>4
    <2>7. ASSUME NEW s \in SUBSET (1..m)
          PROVE  h[s] = IF s = {} THEN base ELSE step[Max(s)][h[s \ {Max(s)}]]
        <3>1. CASE m \in s
            <4>1. Max(s) = m
                <5>1. m \in Nat /\ s # {}
                    BY <3>1
                <5>2. Max(s) \in s /\ \A y \in s : Max(s) >= y
                    BY <5>1, MaxIn
                <5>3. Max(s) \in 1..m /\ Max(s) >= m
                    BY <3>1, <5>2
                <5> QED BY <5>3
            <4>2. h[s \ {m}] = f[s \ {m}]
                BY <2>5
            <4> QED BY <3>1, <4>1, <4>2
        <3>2. CASE m \notin s
            <4>1. s \in SUBSET (1..(m - 1)) /\ h[s] = f[s]
                BY <2>3, <2>5, <3>2
            <4>2. h[s \ {Max(s)}] = f[s \ {Max(s)}]
                BY <2>5, <3>2
            <4>3. f[s] = IF s = {} THEN base ELSE step[Max(s)][f[s \ {Max(s)}]]
                BY <2>1, <4>1 DEF IsFold
            <4> QED BY <4>1, <4>2, <4>3
        <3> QED BY <3>1, <3>2
    <2> HIDE DEF h
    <2>8. Folds(h, m)
        BY <2>6, <2>7 DEF IsFold
    <2>9. m \in 0..n
        OBVIOUS
    <2> HIDE DEF Folds
    <2> QED BY <2>8, <2>9
<1>3. \E f : Folds(f, n)
    <2> HIDE DEF S
    <2>1. \A k \in 0..n : k \in S
        BY <1>1, <1>2, Upward
    <2>2. n \in S
        BY <2>1
    <2> QED BY <2>2 DEF S
<1> QED BY <1>3

(* A chain: each link is what a step makes of the one before.                *)
IsChain(f, T, base, n, step) ==
    /\ f \in [0..n -> T]
    /\ f[0] = base
    /\ \A k \in 1..n : f[k] = step[k][f[k - 1]]

(* There is one, if the steps stay in the set T.                             *)
LEMMA ChainExists ==
    ASSUME NEW T, NEW base \in T, NEW n \in Nat, NEW step \in [1..n -> [T -> T]]
    PROVE  \E f : IsChain(f, T, base, n, step)
<1> DEFINE Chain(f, m) == IsChain(f, T, base, m, step)
           S == {m \in 0..n : \E f : Chain(f, m)}
<1>1. 0 \in S
    <2> DEFINE f == [k \in 0..0 |-> base]
    <2>1. f \in [0..0 -> T] /\ f[0] = base /\ 1..0 = {}
        OBVIOUS
    <2> HIDE DEF f
    <2>2. Chain(f, 0)
        BY <2>1 DEF IsChain
    <2> HIDE DEF Chain
    <2> QED BY <2>2
<1>2. ASSUME NEW m \in 1..n, m - 1 \in S PROVE m \in S
    <2>1. PICK f : Chain(f, m - 1)
        BY <1>2
    <2> DEFINE h == [k \in 0..m |-> IF k = m THEN step[m][f[m - 1]] ELSE f[k]]
    <2>2. f \in [0..(m - 1) -> T] /\ f[0] = base /\ \A k \in 1..(m - 1) : f[k] = step[k][f[k - 1]]
        BY <2>1 DEF IsChain
    <2>3. h \in [0..m -> T]
        BY <2>2
    <2>4. h[0] = base
        BY <2>2
    <2>5. \A k \in 1..m : h[k] = step[k][h[k - 1]]
        BY <2>2
    <2> HIDE DEF h
    <2>6. Chain(h, m)
        BY <2>3, <2>4, <2>5 DEF IsChain
    <2> HIDE DEF Chain
    <2> QED BY <2>6
<1>3. \A k \in 0..n : k \in S
    <2> HIDE DEF S
    <2> QED BY <1>1, <1>2, Upward
<1>4. n \in S
    <2> HIDE DEF S
    <2> QED BY <1>3
<1> QED BY <1>4

-----------------------------------------------------------------------------
(* Flattening the first pieces of a sequence.                                *)
Joined(F, p) == FlattenSeq([l \in 1..p |-> F[l]])

(* Flattening is a chain, whatever number of pieces is taken.                *)
LEMMA JoinedChain ==
    ASSUME NEW V, NEW n \in Nat, NEW F \in [1..n -> Seq(V)]
    PROVE  /\ Joined(F, 0) = <<>>
           /\ \A p \in 1..n : Joined(F, p) = Joined(F, p - 1) \o F[p]
           /\ \A p \in 0..n : Joined(F, p) \in Seq(V)
<1> DEFINE T == Seq(V)
           step == [i \in 1..n |-> [t \in T |-> t \o F[i]]]
<1>e. <<>> \in T
    OBVIOUS
<1>0. PICK m : IsChain(m, T, <<>>, n, step)
    <2>1. step \in [1..n -> [T -> T]]
        OBVIOUS
    <2> HIDE DEF step, T
    <2> QED BY <1>e, <2>1, ChainExists
<1>1. /\ m[0] = <<>> /\ \A k \in 0..n : m[k] \in T
      /\ \A k \in 1..n : m[k] = m[k - 1] \o F[k]
    <2>1. m \in [0..n -> T] /\ m[0] = <<>> /\ \A k \in 1..n : m[k] = step[k][m[k - 1]]
        <3> HIDE DEF step, T
        <3> QED BY <1>0 DEF IsChain
    <2>2. \A k \in 1..n : m[k - 1] \in T
        BY <2>1
    <2>3. \A k \in 1..n, t \in T : step[k][t] = t \o F[k]
        OBVIOUS
    <2> HIDE DEF step, T
    <2> QED BY <2>1, <2>2, <2>3
<1>2. ASSUME NEW p \in 0..n PROVE Joined(F, p) = m[p]
    <2> DEFINE pieces == [l \in 1..p |-> F[l]]
               IsFlat(f) == f = [i \in 1..Len(pieces) |-> IF i = 1 THEN pieces[i] ELSE f[i - 1] \o pieces[i]]
               flat == CHOOSE f : IsFlat(f)
    <2>0. \A i \in 1..p : i \in 1..n
        OBVIOUS
    <2>1. Len(pieces) = p /\ \A i \in 1..p : pieces[i] = F[i]
        <3>1. pieces \in [1..p -> Seq(V)]
            OBVIOUS
        <3> QED BY <3>1
    <2>2. CASE p = 0
        <3>1. pieces = <<>>
            BY <2>2
        <3>2. FlattenSeq(pieces) = pieces
            BY <2>1, <2>2, Zenon DEF FlattenSeq
        <3> QED BY <1>1, <2>2, <3>1, <3>2 DEF Joined
    <2>3. CASE p # 0
        <3>1. FlattenSeq(pieces) = flat[Len(pieces)]
            <4>1. Len(pieces) # 0
                BY <2>1, <2>3
            <4> QED BY <4>1, Zenon DEF FlattenSeq
        <3> HIDE DEF pieces
        <3>2. \E f : IsFlat(f)
            <4> DEFINE e == [i \in 1..p |-> m[i]]
            <4>1. \A i \in 1..p : e[i] = IF i = 1 THEN pieces[i] ELSE e[i - 1] \o pieces[i]
                <5>1. \A i \in 1..p : m[i] = m[i - 1] \o F[i]
                    BY <1>1, <2>0, Zenon
                <5>2. 1 \in 1..n /\ F[1] \in Seq(V)
                    BY <2>3
                <5>3. <<>> \o F[1] = F[1]
                    BY <5>2, ConcatEmptySeq
                <5>4. m[1] = F[1]
                    <6>1. m[1] = m[1 - 1] \o F[1]
                        BY <1>1, <5>2, Zenon
                    <6>2. 1 - 1 = 0
                        OBVIOUS
                    <6> QED BY <1>1, <5>3, <6>1, <6>2, Zenon
                <5>5. \A i \in 1..p : i # 1 => i - 1 \in 1..p
                    OBVIOUS
                <5> QED BY <2>1, <5>1, <5>4, <5>5
            <4>2. e = [i \in 1..p |-> e[i]]
                OBVIOUS
            <4> HIDE DEF e
            <4>3. IsFlat(e)
                BY <2>1, <4>1, <4>2
            <4> QED BY <4>3
        <3>3. IsFlat(flat)
            BY <3>2, Zenon
        <3> HIDE DEF flat
        <3>4. \A i \in 1..p : flat[i] = IF i = 1 THEN pieces[i] ELSE flat[i - 1] \o pieces[i]
            BY <2>1, <3>3
        <3> DEFINE S == {k \in 0..p : k # 0 => flat[k] = m[k]}
        <3>5. 0 \in S
            OBVIOUS
        <3>6. ASSUME NEW k \in 1..p, k - 1 \in S PROVE k \in S
            <4>0. k \in 1..n
                BY <2>0
            <4>1. m[k] = m[k - 1] \o F[k] /\ F[k] \in Seq(V)
                BY <1>1, <4>0, Zenon
            <4>2. CASE k = 1
                <5>0. k - 1 = 0
                    BY <4>2
                <5>1. m[k] = <<>> \o F[k]
                    BY <1>1, <4>1, <5>0, Zenon
                <5>2. <<>> \o F[k] = F[k]
                    BY <4>1, ConcatEmptySeq
                <5>3. flat[k] = F[k]
                    BY <2>1, <3>4, <4>2, Zenon
                <5> QED BY <5>1, <5>2, <5>3
            <4>3. CASE k # 1
                <5>1. flat[k] = flat[k - 1] \o F[k]
                    <6>1. flat[k] = flat[k - 1] \o pieces[k] /\ pieces[k] = F[k]
                        BY <2>1, <3>4, <4>3, Zenon
                    <6> QED BY <6>1, Zenon
                <5>2. k - 1 # 0 /\ flat[k - 1] = m[k - 1]
                    BY <3>6, <4>3
                <5>3. flat[k] = m[k]
                    BY <4>1, <5>1, <5>2, Zenon
                <5> QED BY <5>3
            <4> QED BY <4>2, <4>3
        <3>7. p \in S
            <4>1. p \in Nat
                OBVIOUS
            <4> HIDE DEF S
            <4>2. \A k \in 0..p : k \in S
                BY <3>5, <3>6, <4>1, Upward
            <4> QED BY <4>1, <4>2
        <3> QED BY <2>1, <2>3, <3>1, <3>7 DEF Joined, pieces
    <2> QED BY <2>2, <2>3
<1> HIDE DEF step
<1>3. 0 \in 0..n /\ \A p \in 1..n : p \in 0..n /\ p - 1 \in 0..n
    OBVIOUS
<1>4. \A p \in 1..n : Joined(F, p) = m[p] /\ Joined(F, p - 1) = m[p - 1]
    BY <1>2, <1>3
<1> QED BY <1>1, <1>2, <1>3, <1>4

(* Joining further pieces of the n changes nothing where they are empty.     *)
Skips(F, n) ==
    \A p \in 0..n : \A q \in p..n :
        (\A l \in (p + 1)..q : F[l] = <<>>) => Joined(F, q) = Joined(F, p)

(* Pieces that are empty add nothing.                                        *)
LEMMA JoinedSkip ==
    ASSUME NEW V, NEW n \in Nat, NEW F \in [1..n -> Seq(V)]
    PROVE  Skips(F, n)
<1> SUFFICES ASSUME NEW p \in 0..n, NEW q \in p..n, \A l \in (p + 1)..q : F[l] = <<>>
             PROVE  Joined(F, q) = Joined(F, p)
    BY DEF Skips
<1> DEFINE S == {d \in 0..(q - p) : Joined(F, p + d) = Joined(F, p)}
<1>0. /\ \A i \in 1..n : Joined(F, i) = Joined(F, i - 1) \o F[i]
      /\ \A i \in 0..n : Joined(F, i) \in Seq(V)
    BY JoinedChain
<1>1. 0 \in S
    OBVIOUS
<1>2. ASSUME NEW d \in 1..(q - p), d - 1 \in S PROVE d \in S
    <2>1. p + d \in 1..n /\ p + d \in (p + 1)..q /\ (p + d) - 1 = p + (d - 1)
        OBVIOUS
    <2>2. Joined(F, p + d) = Joined(F, p + (d - 1)) \o F[p + d]
        BY <1>0, <2>1, Zenon
    <2>3. F[p + d] = <<>> /\ Joined(F, p + (d - 1)) = Joined(F, p)
        BY <1>2, <2>1
    <2>4. Joined(F, p) \in Seq(V)
        BY <1>0
    <2>5. Joined(F, p) \o <<>> = Joined(F, p)
        BY <2>4, ConcatEmptySeq
    <2> QED BY <2>2, <2>3, <2>5
<1>3. \A d \in 0..(q - p) : d \in S
    <2>1. q - p \in Nat
        OBVIOUS
    <2> HIDE DEF S
    <2> QED BY <1>1, <1>2, <2>1, Upward
<1>4. q - p \in S /\ p + (q - p) = q
    <2> HIDE DEF S
    <2> QED BY <1>3
<1> QED BY <1>4

-----------------------------------------------------------------------------
(* What items give when each gives a sequence.                               *)
Spread(h, s) == FlattenSeq([i \in 1..Len(s) |-> h[s[i]]])

(* One more item adds what it gives.                                         *)
LEMMA SpreadGrows ==
    ASSUME NEW S, NEW V, NEW h \in [S -> Seq(V)], NEW s \in Seq(S), NEW x \in S
    PROVE  Spread(h, s \o <<x>>) = Spread(h, s) \o h[x]
<1> DEFINE n == Len(s)
           t == s \o <<x>>
           F == [i \in 1..(n + 1) |-> h[t[i]]]
<1>1. n \in Nat /\ <<x>> \in Seq(S) /\ Len(<<x>>) = 1 /\ <<x>>[1] = x
    OBVIOUS
<1>2. /\ t \in Seq(S) /\ Len(t) = n + 1
      /\ \A i \in 1..n : t[i] = s[i] /\ s[i] \in S
      /\ t[n + 1] = x
    BY <1>1, ConcatProperties
<1> HIDE DEF n, t
<1>3. \A i \in 1..(n + 1) : t[i] \in S
    BY <1>1, <1>2
<1>4. F \in [1..(n + 1) -> Seq(V)] /\ n + 1 \in Nat
    <2>1. \A i \in 1..(n + 1) : h[t[i]] \in Seq(V)
        BY <1>3
    <2> QED BY <1>1, <2>1
<1>5. F[n + 1] = h[x] /\ n + 1 \in 1..(n + 1) /\ (n + 1) - 1 = n
    <2>1. n + 1 \in 1..(n + 1) /\ (n + 1) - 1 = n
        BY <1>1
    <2>2. F[n + 1] = h[t[n + 1]]
        BY <2>1
    <2> QED BY <1>2, <2>1, <2>2
<1>6. [l \in 1..(n + 1) |-> F[l]] = F
    OBVIOUS
<1>7. [l \in 1..n |-> F[l]] = [i \in 1..n |-> h[s[i]]]
    BY <1>1, <1>2
<1> HIDE DEF F
<1>8. Joined(F, n + 1) = Joined(F, n) \o F[n + 1]
    BY <1>4, <1>5, JoinedChain
<1>9. Joined(F, n) = Spread(h, s)
    BY <1>7 DEF Joined, Spread, n
<1>10. Joined(F, n + 1) = FlattenSeq(F)
    BY <1>6 DEF Joined
<1>11. Spread(h, t) = FlattenSeq(F)
    BY <1>2 DEF Spread, F
<1> QED BY <1>5, <1>8, <1>9, <1>10, <1>11 DEF t

(* Nothing gives nothing.                                                    *)
LEMMA SpreadNothing ==
    ASSUME NEW h
    PROVE  Spread(h, <<>>) = <<>>
<1>1. [i \in 1..Len(<<>>) |-> h[<<>>[i]]] = <<>>
    OBVIOUS
<1>2. FlattenSeq(<<>>) = <<>>
    BY Zenon, EmptySeq DEF FlattenSeq
<1> QED BY <1>1, <1>2 DEF Spread

(* A sequence put together from pieces of at most one item.                  *)
Grows(G, P, n) ==
    /\ G[0] = <<>>
    /\ \A k \in 1..n : G[k] = G[k - 1] \o P[k] /\ (P[k] = <<>> \/ P[k] = <<P[k][1]>>)

(* What a piece gives.                                                       *)
Given(h, piece) == IF piece = <<>> THEN <<>> ELSE h[piece[1]]

(* Pieces P of items from S, put together in G, that each give Q.            *)
Gives(h, S, V, G, P, Q, n) ==
    /\ h \in [S -> Seq(V)] /\ n \in Nat
    /\ G \in [0..n -> Seq(S)] /\ P \in [1..n -> Seq(S)] /\ Grows(G, P, n)
    /\ Q \in [1..n -> Seq(V)] /\ \A k \in 1..n : Q[k] = Given(h, P[k])

(* What the items give is what the pieces give.                              *)
LEMMA SpreadChain ==
    ASSUME NEW S, NEW V, NEW h, NEW n, NEW G, NEW P, NEW Q, Gives(h, S, V, G, P, Q, n)
    PROVE  Spread(h, G[n]) = Joined(Q, n)
<1>g. /\ h \in [S -> Seq(V)] /\ n \in Nat
      /\ G \in [0..n -> Seq(S)] /\ P \in [1..n -> Seq(S)] /\ Grows(G, P, n)
      /\ Q \in [1..n -> Seq(V)] /\ \A k \in 1..n : Q[k] = Given(h, P[k])
    BY DEF Gives
<1> DEFINE T == {k \in 0..n : Spread(h, G[k]) = Joined(Q, k)}
<1>0. /\ Joined(Q, 0) = <<>>
      /\ \A p \in 1..n : Joined(Q, p) = Joined(Q, p - 1) \o Q[p]
      /\ \A p \in 0..n : Joined(Q, p) \in Seq(V)
    BY <1>g, JoinedChain
<1>s. \A s \in Seq(S) : \A x \in S : Spread(h, s \o <<x>>) = Spread(h, s) \o h[x]
    <2>1. h \in [S -> Seq(V)]
        BY <1>g
    <2> QED BY <2>1, SpreadGrows, Zenon
<1>1. 0 \in T
    <2>1. Spread(h, G[0]) = <<>>
        BY <1>g, SpreadNothing DEF Grows
    <2> QED BY <1>g, <1>0, <2>1
<1>2. ASSUME NEW k \in 1..n, k - 1 \in T PROVE k \in T
    <2>1. /\ G[k] = G[k - 1] \o P[k] /\ (P[k] = <<>> \/ P[k] = <<P[k][1]>>)
          /\ G[k - 1] \in Seq(S) /\ P[k] \in Seq(S)
        BY <1>g DEF Grows
    <2>2. /\ Joined(Q, k) = Joined(Q, k - 1) \o Q[k] /\ Spread(h, G[k - 1]) = Joined(Q, k - 1)
          /\ Q[k] = Given(h, P[k]) /\ Joined(Q, k - 1) \in Seq(V)
        BY <1>g, <1>0, <1>2
    <2>3. CASE P[k] = <<>>
        <3>1. G[k] = G[k - 1] /\ Q[k] = <<>>
            BY <2>1, <2>2, <2>3, ConcatEmptySeq DEF Given
        <3>2. Joined(Q, k) = Joined(Q, k - 1)
            BY <2>2, <3>1, ConcatEmptySeq
        <3> QED BY <2>2, <3>1, <3>2
    <2>4. CASE P[k] # <<>>
        <3>1. P[k][1] \in S /\ P[k] = <<P[k][1]>>
            <4>1. Len(P[k]) \in Nat /\ Len(P[k]) # 0
                BY <2>1, <2>4, EmptySeq
            <4>2. 1 \in 1..Len(P[k])
                BY <4>1
            <4> QED BY <2>1, <2>4, <4>2, ElementOfSeq
        <3> DEFINE x == P[k][1]
                   g == G[k - 1]
        <3>2. x \in S /\ g \in Seq(S) /\ G[k] = g \o <<x>> /\ Spread(h, g) = Joined(Q, k - 1)
            BY <2>1, <2>2, <3>1
        <3>3. Q[k] = h[x]
            BY <2>2, <2>4 DEF Given
        <3> HIDE DEF x, g
        <3>4. Spread(h, g \o <<x>>) = Spread(h, g) \o h[x]
            BY <1>s, <3>2, Zenon
        <3>5. Spread(h, G[k]) = Joined(Q, k)
            BY <2>2, <3>2, <3>3, <3>4, Zenon
        <3> QED BY <3>5
    <2> QED BY <2>3, <2>4
<1> HIDE DEF T
<1>3. \A k \in 0..n : k \in T
    BY <1>g, <1>1, <1>2, Upward
<1>4. n \in T
    BY <1>g, <1>3
<1> QED BY <1>4 DEF T

(* Pieces of at most one element, counted by u: where each element is.       *)
Placed(joined, Q, u, n) ==
    /\ Len(joined) = u[n]
    /\ \A k \in 1..n : Q[k] # <<>> => u[k - 1] + 1 \in 1..Len(joined) /\ joined[u[k - 1] + 1] = Q[k][1]
    /\ \A c \in 1..Len(joined) : \E k \in 1..n : Q[k] # <<>> /\ c = u[k - 1] + 1

(* The elements of joined pieces are where the count of pieces before says.  *)
LEMMA PiecesPlaced ==
    ASSUME NEW V, NEW n \in Nat, NEW Q \in [1..n -> Seq(V)],
           \A k \in 1..n : Q[k] = <<>> \/ Q[k] = <<Q[k][1]>>,
           NEW u \in [0..n -> Nat], u[0] = 0,
           \A k \in 1..n : u[k] = u[k - 1] + (IF Q[k] = <<>> THEN 0 ELSE 1)
    PROVE  Placed(Joined(Q, n), Q, u, n)
<1> DEFINE T == {k \in 0..n : Placed(Joined(Q, k), Q, u, k)}
<1>0. /\ Joined(Q, 0) = <<>>
      /\ \A p \in 1..n : Joined(Q, p) = Joined(Q, p - 1) \o Q[p]
      /\ \A p \in 0..n : Joined(Q, p) \in Seq(V)
    BY JoinedChain
<1>1. 0 \in T
    BY <1>0, EmptySeq DEF Placed
<1>2. ASSUME NEW k \in 1..n, k - 1 \in T PROVE k \in T
    <2> DEFINE a == Joined(Q, k - 1)
               b == Joined(Q, k)
    <2>1. /\ b = a \o Q[k] /\ a \in Seq(V) /\ Q[k] \in Seq(V) /\ b \in Seq(V)
          /\ u[k] = u[k - 1] + (IF Q[k] = <<>> THEN 0 ELSE 1) /\ u[k - 1] \in Nat
        BY <1>0
    <2>2. /\ Len(a) = u[k - 1] /\ Len(a) \in Nat
          /\ \A j \in 1..(k - 1) : Q[j] # <<>> =>
                 u[j - 1] + 1 \in 1..Len(a) /\ a[u[j - 1] + 1] = Q[j][1]
          /\ \A c \in 1..Len(a) : \E j \in 1..(k - 1) : Q[j] # <<>> /\ c = u[j - 1] + 1
        BY <1>2, <2>1 DEF Placed
    <2> HIDE DEF a, b
    <2>3. CASE Q[k] = <<>>
        <3>1. b = a /\ u[k] = u[k - 1]
            BY <2>1, <2>3, ConcatEmptySeq
        <3>2. Placed(b, Q, u, k)
            <4>1. \A j \in 1..k : Q[j] # <<>> => j \in 1..(k - 1)
                BY <2>3
            <4>2. \A j \in 1..(k - 1) : j \in 1..k
                OBVIOUS
            <4> QED BY <2>2, <3>1, <4>1, <4>2 DEF Placed
        <3> QED BY <3>2 DEF b
    <2>4. CASE Q[k] # <<>>
        <3>1. Q[k] = <<Q[k][1]>> /\ Len(Q[k]) = 1 /\ u[k] = u[k - 1] + 1
            <4>1. Q[k] = <<Q[k][1]>>
                BY <2>4
            <4> QED BY <2>1, <2>4, <4>1
        <3> DEFINE q == Q[k]
        <3>0. b = a \o q /\ q \in Seq(V) /\ Len(q) = 1 /\ q[1] = Q[k][1]
            BY <2>1, <3>1
        <3> HIDE DEF q
        <3>2. /\ Len(b) = Len(a) + 1 /\ \A i \in 1..Len(a) : b[i] = a[i]
              /\ b[Len(a) + 1] = Q[k][1]
            <4>1. /\ Len(b) = Len(a) + Len(q)
                  /\ \A i \in 1..Len(a) + Len(q) : b[i] = IF i <= Len(a) THEN a[i] ELSE q[i - Len(a)]
                <5>1. a \in Seq(V) /\ q \in Seq(V) /\ b = a \o q
                    BY <2>1, <3>0
                <5> QED BY <5>1, ConcatProperties
            <4>2. Len(a) + 1 \in 1..Len(a) + Len(q) /\ ~(Len(a) + 1 <= Len(a)) /\ (Len(a) + 1) - Len(a) = 1
                <5>1. Len(a) \in Nat /\ Len(q) = 1
                    BY <2>2, <3>0
                <5> QED BY <5>1
            <4>3. b[Len(a) + 1] = q[1]
                BY <4>1, <4>2
            <4>4. \A i \in 1..Len(a) : i \in 1..Len(a) + Len(q) /\ i <= Len(a)
                <5>1. Len(a) \in Nat /\ Len(q) = 1
                    BY <2>2, <3>0
                <5> QED BY <5>1
            <4>5. \A i \in 1..Len(a) : b[i] = a[i]
                BY <4>1, <4>4
            <4> QED BY <3>0, <4>1, <4>3, <4>5
        <3>3. \A j \in 1..k : Q[j] # <<>> => u[j - 1] + 1 \in 1..Len(b) /\ b[u[j - 1] + 1] = Q[j][1]
            <4> SUFFICES ASSUME NEW j \in 1..k, Q[j] # <<>>
                         PROVE  u[j - 1] + 1 \in 1..Len(b) /\ b[u[j - 1] + 1] = Q[j][1]
                OBVIOUS
            <4>1. CASE j = k
                <5>1. u[j - 1] + 1 = Len(a) + 1 /\ Len(a) + 1 \in 1..Len(b)
                    BY <2>2, <3>2, <4>1
                <5> QED BY <3>2, <4>1, <5>1
            <4>2. CASE j # k
                <5>1. j \in 1..(k - 1)
                    BY <4>2
                <5> DEFINE p == u[j - 1] + 1
                <5>2. p \in 1..Len(a) /\ a[p] = Q[j][1]
                    BY <2>2, <5>1
                <5> HIDE DEF p
                <5>3. p \in 1..Len(b) /\ b[p] = Q[j][1]
                    BY <2>2, <3>2, <5>2
                <5> QED BY <5>3 DEF p
            <4> QED BY <4>1, <4>2
        <3>4. \A c \in 1..Len(b) : \E j \in 1..k : Q[j] # <<>> /\ c = u[j - 1] + 1
            <4> SUFFICES ASSUME NEW c \in 1..Len(b) PROVE \E j \in 1..k : Q[j] # <<>> /\ c = u[j - 1] + 1
                OBVIOUS
            <4>1. CASE c \in 1..Len(a)
                BY <2>2, <4>1
            <4>2. CASE c \notin 1..Len(a)
                <5>1. c = u[k - 1] + 1 /\ k \in 1..k
                    BY <2>2, <3>2, <4>2
                <5> QED BY <2>4, <5>1
            <4> QED BY <4>1, <4>2
        <3>5. Placed(b, Q, u, k)
            BY <2>2, <3>1, <3>2, <3>3, <3>4 DEF Placed
        <3> QED BY <3>5 DEF b
    <2> QED BY <2>3, <2>4
<1> HIDE DEF T
<1>3. \A k \in 0..n : k \in T
    BY <1>1, <1>2, Upward
<1>4. n \in T
    BY <1>3
<1> QED BY <1>4 DEF T

-----------------------------------------------------------------------------
(* What a host hears.                                                        *)
CallHeard == [id : Seq(STRING), name : Text, arguments : Text]

(* The calls it has heard of, by their numbers.                              *)
CallMaps == UNION {[D -> CallHeard] : D \in SUBSET Nat}

(* Its text and its calls.                                                   *)
Host == [text : Text, calls : CallMaps]

(* A delta is a fragment of a call,                                          *)
CallDeltas == [delta : {"call"}, index : Nat, id : Seq(STRING), name : Seq(Text), arguments : Seq(Text)]

(* or one of the text or of the reasoning.                                   *)
TextDeltas == [delta : {"text", "reasoning"}, text : Text]

(* What a decoder emits.                                                     *)
Deltas == CallDeltas \cup TextDeltas

(* The fragments of a string, put together.                                  *)
LEMMA FlattenText ==
    /\ FlattenSeq(<<>>) = <<>>
    /\ \A t \in Text : FlattenSeq(<<t>>) = t
    /\ \A s \in Seq(Text) : FlattenSeq(s) \in Text
<1>1. FlattenSeq(<<>>) = <<>>
    BY Zenon, EmptySeq DEF FlattenSeq
<1>2. ASSUME NEW s \in Seq(Text)
      PROVE  FlattenSeq(s) \in Text /\ (Len(s) = 1 => FlattenSeq(s) = s[1])
    <2>1. Len(s) \in Nat /\ s \in [1..Len(s) -> Seq(STRING)]
        BY DEF Text
    <2>2. s = [l \in 1..Len(s) |-> s[l]]
        BY <2>1
    <2> DEFINE n == Len(s)
    <2>3. FlattenSeq(s) = Joined(s, n)
        BY <2>2 DEF Joined
    <2>4. /\ Joined(s, 0) = <<>>
          /\ \A p \in 1..n : Joined(s, p) = Joined(s, p - 1) \o s[p]
          /\ \A p \in 0..n : Joined(s, p) \in Seq(STRING)
        BY <2>1, JoinedChain
    <2>5. n \in 0..n
        BY <2>1
    <2>6. CASE n = 1
        <3>1. Joined(s, 1) = <<>> \o s[1] /\ s[1] \in Seq(STRING)
            <4>1. 1 \in 1..n /\ 1 - 1 = 0
                BY <2>6
            <4>2. s[1] \in Seq(STRING)
                BY <2>1, <4>1
            <4>3. Joined(s, 1) = Joined(s, 1 - 1) \o s[1]
                BY <2>4, <4>1, Zenon
            <4> QED BY <2>4, <4>1, <4>2, <4>3
        <3>2. <<>> \o s[1] = s[1]
            BY <3>1, ConcatEmptySeq
        <3> QED BY <2>3, <2>4, <2>5, <2>6, <3>1, <3>2 DEF Text
    <2>7. CASE n # 1
        BY <2>3, <2>4, <2>5, <2>7 DEF Text
    <2> QED BY <2>6, <2>7
<1>3. ASSUME NEW t \in Text PROVE FlattenSeq(<<t>>) = t
    <2>1. <<t>> \in Seq(Text) /\ Len(<<t>>) = 1 /\ <<t>>[1] = t
        OBVIOUS
    <2> QED BY <1>2, <2>1
<1> QED BY <1>1, <1>2, <1>3

(* The calls by index, with one entry set.                                   *)
EntrySet(after, calls, i, entry) ==
    /\ after \in CallMaps
    /\ DOMAIN after = DOMAIN calls \cup {i} /\ after[i] = entry
    /\ \A j \in DOMAIN calls : j # i => after[j] = calls[j]

(* Setting an entry sets that one.                                           *)
LEMMA Entry ==
    ASSUME NEW calls \in CallMaps, NEW i \in Nat, NEW entry \in CallHeard
    PROVE  EntrySet(WithField(calls, i, entry), calls, i, entry)
<1>1. PICK D \in SUBSET Nat : calls \in [D -> CallHeard]
    BY DEF CallMaps
<1> DEFINE after == WithField(calls, i, entry)
<1>2. after = [x \in D \cup {i} |-> IF x = i THEN entry ELSE calls[x]]
    BY <1>1 DEF WithField
<1> HIDE DEF after
<1>3. D \cup {i} \in SUBSET Nat
    OBVIOUS
<1>4. after \in [D \cup {i} -> CallHeard]
    BY <1>1, <1>2
<1>5. after \in CallMaps
    BY <1>3, <1>4 DEF CallMaps
<1>6. /\ DOMAIN after = DOMAIN calls \cup {i} /\ after[i] = entry
      /\ \A j \in DOMAIN calls : j # i => after[j] = calls[j]
    BY <1>1, <1>2
<1> QED BY <1>5, <1>6 DEF after, EntrySet

(* What a host knew of a call before a delta of it, and what it knows after. *)
Known(calls, i) == IF i \in DOMAIN calls THEN calls[i] ELSE Unheard

(* The id is taken once, the name and the arguments are appended to.         *)
Extended(call, delta) ==
    [id |-> IF call.id = <<>> THEN delta.id ELSE call.id,
     name |-> call.name \o FlattenSeq(delta.name),
     arguments |-> call.arguments \o FlattenSeq(delta.arguments)]

(* The host after the delta: that entry is set, the text is as it was.       *)
HeardCall(after, h, delta) ==
    LET entry == Extended(Known(h.calls, delta.index), delta)
    IN  /\ after \in Host /\ after.text = h.text /\ entry \in CallHeard
        /\ EntrySet(after.calls, h.calls, delta.index, entry)

(* A delta of a call, heard.                                                 *)
LEMMA HearCall ==
    ASSUME NEW h \in Host, NEW delta \in CallDeltas
    PROVE  HeardCall(Hear(h, delta), h, delta)
<1> DEFINE after == Hear(h, delta)
           known == Known(h.calls, delta.index)
           entry == Extended(known, delta)
           calls == WithField(h.calls, delta.index, entry)
<1>1. /\ delta.delta = "call" /\ delta.index \in Nat /\ delta.id \in Seq(STRING)
      /\ delta.name \in Seq(Text) /\ delta.arguments \in Seq(Text)
    BY DEF CallDeltas
<1>2. h.calls \in CallMaps /\ h.text \in Text
    BY DEF Host
<1>3. known \in CallHeard
    <2>1. Unheard \in CallHeard
        BY DEF Unheard, CallHeard, Text
    <2>2. delta.index \in DOMAIN h.calls => h.calls[delta.index] \in CallHeard
        BY <1>2 DEF CallMaps
    <2> QED BY <2>1, <2>2 DEF Known
<1>4. entry \in CallHeard
    <2>1. known.id \in Seq(STRING) /\ known.name \in Seq(STRING) /\ known.arguments \in Seq(STRING)
        BY <1>3 DEF CallHeard, Text
    <2>2. FlattenSeq(delta.name) \in Seq(STRING) /\ FlattenSeq(delta.arguments) \in Seq(STRING)
        BY <1>1, FlattenText DEF Text
    <2> HIDE DEF known
    <2>3. /\ known.name \o FlattenSeq(delta.name) \in Seq(STRING)
          /\ known.arguments \o FlattenSeq(delta.arguments) \in Seq(STRING)
        BY <2>1, <2>2, ConcatProperties
    <2>4. (IF known.id = <<>> THEN delta.id ELSE known.id) \in Seq(STRING)
        BY <1>1, <2>1
    <2> QED BY <2>3, <2>4 DEF CallHeard, Extended, Text
<1>5. after = [h EXCEPT !.calls = calls]
    BY <1>1, Zenon DEF Hear, Known, Extended
<1>6. EntrySet(calls, h.calls, delta.index, entry)
    <2> HIDE DEF entry
    <2> QED BY <1>1, <1>2, <1>4, Entry
<1> HIDE DEF calls, after
<1>7. after \in Host /\ after.text = h.text /\ after.calls = calls
    <2>1. calls \in CallMaps
        BY <1>6 DEF EntrySet
    <2> QED BY <1>2, <1>5, <2>1 DEF Host
<1> QED BY <1>4, <1>6, <1>7 DEF after, HeardCall

(* A delta of text, heard, and one of reasoning.                             *)
LEMMA HearText ==
    ASSUME NEW h \in Host, NEW delta \in TextDeltas
    PROVE  /\ Hear(h, delta) \in Host
           /\ delta.delta = "text" => /\ Hear(h, delta).text = h.text \o delta.text
                                      /\ Hear(h, delta).calls = h.calls
           /\ delta.delta # "text" => Hear(h, delta) = h
<1>1. delta.delta \in {"text", "reasoning"} /\ delta.text \in Seq(STRING)
    BY DEF TextDeltas, Text
<1>2. h.text \in Seq(STRING) /\ h.calls \in CallMaps
    BY DEF Host, Text
<1>3. CASE delta.delta = "text"
    <2>1. Hear(h, delta) = [h EXCEPT !.text = h.text \o delta.text]
        BY <1>3, Zenon DEF Hear
    <2> DEFINE t == h.text \o delta.text
    <2>2. t \in Text
        BY <1>1, <1>2, ConcatProperties DEF Text
    <2> HIDE DEF t
    <2>3. /\ [h EXCEPT !.text = t] \in Host /\ [h EXCEPT !.text = t].text = t
          /\ [h EXCEPT !.text = t].calls = h.calls
        BY <2>2 DEF Host
    <2> QED BY <1>3, <2>1, <2>3 DEF t
<1>4. CASE delta.delta = "reasoning"
    <2>1. Hear(h, delta) = h
        BY <1>4 DEF Hear
    <2> QED BY <1>4, <2>1
<1> QED BY <1>1, <1>3, <1>4

-----------------------------------------------------------------------------
(* Hearing deltas one after the other.                                       *)
HearChain(g, h, seq) ==
    /\ g[0] = h /\ \A k \in 0..Len(seq) : g[k] \in Host
    /\ \A k \in 1..Len(seq) : g[k] = Hear(g[k - 1], seq[k])

(* A set of deltas after each of which a host is one again.                  *)
Hearable(D) == \A d \in D, h \in Host : Hear(h, d) \in Host

(* What a host has heard after some deltas is the end of a chain.            *)
LEMMA HearFold ==
    ASSUME NEW h \in Host, NEW D, Hearable(D), NEW seq \in Seq(D)
    PROVE  \E g : HearChain(g, h, seq) /\ FoldLeft(Hear, h, seq) = g[Len(seq)]
<1> DEFINE n == Len(seq)
           IsIter(f) == f = [s \in SUBSET DOMAIN seq |->
                                IF s = {} THEN h ELSE Hear(f[s \ {Max(s)}], seq[Max(s)])]
           iter == CHOOSE f : IsIter(f)
           step == [i \in 1..n |-> [t \in Host |-> Hear(t, seq[i])]]
           g    == [k \in 0..n |-> iter[1..k]]
<1>1. n \in Nat /\ DOMAIN seq = 1..n /\ \A i \in 1..n : seq[i] \in D
    OBVIOUS
<1>2. FoldLeft(Hear, h, seq) = iter[DOMAIN seq]
    BY Zenon DEF FoldLeft, MapThenFoldSet
<1> HIDE DEF n
<1>3. step \in [1..n -> [Host -> Host]]
    BY <1>1 DEF Hearable
<1>4. \E f : f \in [SUBSET (1..n) -> Host] /\ IsIter(f)
    <2>0. PICK f : IsFold(f, Host, h, n, step)
        <3>1. n \in Nat
            BY <1>1
        <3> HIDE DEF step
        <3> QED BY <1>3, <3>1, FoldExists
    <2>1. /\ f \in [SUBSET (1..n) -> Host]
          /\ \A s \in SUBSET (1..n) :
                f[s] = IF s = {} THEN h ELSE step[Max(s)][f[s \ {Max(s)}]]
        <3> HIDE DEF step
        <3> QED BY <2>0 DEF IsFold
    <2>2. ASSUME NEW s \in SUBSET (1..n)
          PROVE  f[s] = IF s = {} THEN h ELSE Hear(f[s \ {Max(s)}], seq[Max(s)])
        <3>1. CASE s = {}
            BY <2>1, <3>1
        <3>2. CASE s # {}
            <4>1. Max(s) \in 1..n
                BY <1>1, <3>2, MaxIn
            <4>2. f[s \ {Max(s)}] \in Host
                BY <2>1
            <4>3. f[s] = step[Max(s)][f[s \ {Max(s)}]]
                BY <2>1, <3>2
            <4>4. step[Max(s)][f[s \ {Max(s)}]] = Hear(f[s \ {Max(s)}], seq[Max(s)])
                BY <4>1, <4>2
            <4> QED BY <3>2, <4>3, <4>4, Zenon
        <3> QED BY <3>1, <3>2
    <2>3. f = [s \in SUBSET (1..n) |-> f[s]]
        BY <2>1
    <2>4. f = [s \in SUBSET (1..n) |->
                  IF s = {} THEN h ELSE Hear(f[s \ {Max(s)}], seq[Max(s)])]
        BY <2>2, <2>3, Zenon
    <2>5. IsIter(f)
        BY <1>1, <2>4, Zenon
    <2> HIDE DEF IsIter
    <2> QED BY <2>1, <2>5
<1>5. IsIter(iter)
    BY <1>4, Zenon
<1>i. \A f1, f2 : IsIter(f1) => f1 = [s \in SUBSET (1..n) |->
                  IF s = {} THEN h ELSE Hear(f1[s \ {Max(s)}], seq[Max(s)])]
    BY <1>1, Zenon
<1>6. iter = [s \in SUBSET (1..n) |->
                  IF s = {} THEN h ELSE Hear(iter[s \ {Max(s)}], seq[Max(s)])]
    <2> HIDE DEF IsIter, iter
    <2> QED BY <1>5, <1>i, Zenon
<1> HIDE DEF iter
<1>7. \A s \in SUBSET (1..n) :
          iter[s] = IF s = {} THEN h ELSE Hear(iter[s \ {Max(s)}], seq[Max(s)])
    <2> DEFINE R(s) == IF s = {} THEN h ELSE Hear(iter[s \ {Max(s)}], seq[Max(s)])
    <2>1. iter = [s \in SUBSET (1..n) |-> R(s)]
        BY <1>6, Zenon
    <2> HIDE DEF R
    <2>2. \A s \in SUBSET (1..n) : iter[s] = R(s)
        BY <2>1
    <2> QED BY <2>2, Zenon DEF R
<1>8. g[0] = h
    <2>1. 1..0 = {} /\ {} \in SUBSET (1..n) /\ 0 \in 0..n
        BY <1>1
    <2>2. iter[{}] = h
        BY <1>7, <2>1, Zenon
    <2> QED BY <2>1, <2>2
<1>9. ASSUME NEW k \in 1..n PROVE g[k] = Hear(g[k - 1], seq[k])
    <2>1. Max(1..k) = k /\ (1..k) \ {k} = 1..(k - 1)
        BY <1>1, MaxUpTo
    <2>2. g[k] = iter[1..k] /\ g[k - 1] = iter[1..(k - 1)]
        BY <1>1
    <2>3. 1..k \in SUBSET (1..n) /\ 1..k # {}
        <3>1. k \in 1..k /\ \A j \in 1..k : j \in 1..n
            BY <1>1
        <3> QED BY <3>1
    <2>4. iter[1..k] = Hear(iter[(1..k) \ {Max(1..k)}], seq[Max(1..k)])
        BY <1>7, <2>3, Zenon
    <2> HIDE DEF g
    <2> QED BY <2>1, <2>2, <2>4, Zenon
<1>10. g[n] = iter[1..n]
    BY <1>1
<1> HIDE DEF g
<1>11. \A k \in 0..n : g[k] \in Host
    <2> DEFINE S == {k \in 0..n : g[k] \in Host}
    <2>1. 0 \in S
        BY <1>1, <1>8
    <2>2. ASSUME NEW k \in 1..n, k - 1 \in S PROVE k \in S
        <3>1. g[k - 1] \in Host /\ seq[k] \in D /\ k \in 0..n
            BY <1>1, <2>2
        <3> QED BY <1>9, <3>1 DEF Hearable
    <2> HIDE DEF S
    <2>3. \A k \in 0..n : k \in S
        BY <1>1, <2>1, <2>2, Upward
    <2> QED BY <2>3 DEF S
<1> QED BY <1>1, <1>2, <1>8, <1>9, <1>10, <1>11 DEF HearChain, n

(* The deltas of the three assemblies can be heard.                          *)
LEMMA DeltasHearable == Hearable(Deltas)
<1> SUFFICES ASSUME NEW d \in Deltas, NEW h \in Host PROVE Hear(h, d) \in Host
    BY DEF Hearable
<1>1. CASE d \in CallDeltas
    BY <1>1, HearCall DEF HeardCall
<1>2. CASE d \in TextDeltas
    BY <1>2, HearText
<1> QED BY <1>1, <1>2 DEF Deltas

(* Nothing heard, and one delta more.                                        *)
LEMMA HearNone ==
    ASSUME NEW h \in Host
    PROVE  FoldLeft(Hear, h, <<>>) = h
<1> DEFINE s == <<>>
<1>1. s \in Seq(Deltas) /\ Len(s) = 0
    BY EmptySeq
<1> HIDE DEF s
<1>2. PICK g : HearChain(g, h, s) /\ FoldLeft(Hear, h, s) = g[Len(s)]
    BY <1>1, DeltasHearable, HearFold
<1> QED BY <1>1, <1>2 DEF HearChain, s

(* Hearing one delta more.                                                   *)
LEMMA HearMore ==
    ASSUME NEW h \in Host, NEW s \in Seq(Deltas), NEW d \in Deltas
    PROVE  /\ FoldLeft(Hear, h, s) \in Host
           /\ FoldLeft(Hear, h, s \o <<d>>) = Hear(FoldLeft(Hear, h, s), d)
<1> DEFINE n == Len(s)
           t == s \o <<d>>
<1>1. n \in Nat /\ <<d>> \in Seq(Deltas) /\ Len(<<d>>) = 1 /\ <<d>>[1] = d
    OBVIOUS
<1>2. /\ t \in Seq(Deltas) /\ Len(t) = n + 1
      /\ \A i \in 1..n : t[i] = s[i]
      /\ t[n + 1] = d
    BY <1>1, ConcatProperties
<1> HIDE DEF n, t
<1>3. PICK f : HearChain(f, h, s) /\ FoldLeft(Hear, h, s) = f[Len(s)]
    BY DeltasHearable, HearFold
<1>4. PICK g : HearChain(g, h, t) /\ FoldLeft(Hear, h, t) = g[Len(t)]
    BY <1>2, DeltasHearable, HearFold
<1>5. /\ f[0] = h /\ g[0] = h /\ \A k \in 0..n : f[k] \in Host
      /\ \A k \in 1..n : f[k] = Hear(f[k - 1], s[k])
      /\ \A k \in 1..(n + 1) : g[k] = Hear(g[k - 1], t[k])
    BY <1>2, <1>3, <1>4 DEF HearChain, n
<1> DEFINE S == {k \in 0..n : g[k] = f[k]}
<1>6. 0 \in S
    BY <1>1, <1>5
<1>7. ASSUME NEW k \in 1..n, k - 1 \in S PROVE k \in S
    <2>1. k \in 0..n /\ k \in 1..(n + 1) /\ g[k - 1] = f[k - 1] /\ t[k] = s[k]
        BY <1>1, <1>2, <1>7
    <2>2. g[k] = Hear(g[k - 1], t[k]) /\ f[k] = Hear(f[k - 1], s[k])
        BY <1>5, <2>1, Zenon
    <2>3. g[k] = f[k]
        BY <2>1, <2>2, Zenon
    <2> QED BY <2>1, <2>3
<1>8. \A k \in 0..n : k \in S
    <2> HIDE DEF S
    <2> QED BY <1>1, <1>6, <1>7, Upward
<1>9. g[n] = f[n] /\ n \in 0..n /\ n + 1 \in 1..(n + 1) /\ (n + 1) - 1 = n
    BY <1>1, <1>8
<1>10. g[n + 1] = Hear(g[(n + 1) - 1], t[n + 1])
    BY <1>5, <1>9, Zenon
<1>11. g[n + 1] = Hear(f[n], d)
    BY <1>2, <1>9, <1>10, Zenon
<1> QED BY <1>2, <1>3, <1>4, <1>5, <1>9, <1>11 DEF t, n

(* Hearing one delta.                                                        *)
LEMMA HearOne ==
    ASSUME NEW h \in Host, NEW d \in Deltas
    PROVE  FoldLeft(Hear, h, <<d>>) = Hear(h, d)
<1> DEFINE e == <<>>
           one == <<d>>
<1>1. e \in Seq(Deltas) /\ one \in Seq(Deltas)
    BY EmptySeq
<1>2. e \o one = one
    BY <1>1, ConcatEmptySeq
<1>3. FoldLeft(Hear, h, e \o <<d>>) = Hear(FoldLeft(Hear, h, e), d)
    <2> HIDE DEF e
    <2> QED BY <1>1, HearMore
<1>4. FoldLeft(Hear, h, e) = h
    BY HearNone
<1> QED BY <1>2, <1>3, <1>4, Zenon

(* The end of a stream is not heard.                                         *)
LEMMA HearDone ==
    ASSUME NEW h \in Host, NEW parsed
    PROVE  FoldLeft(Hear, h, <<Done(parsed)>>) = h
<1> DEFINE d == Done(parsed)
           s == <<d>>
<1>1. \A k \in Host : Hear(k, d) = k
    BY DEF Hear, Done
<1> HIDE DEF d
<1>2. s \in Seq({d}) /\ Len(s) = 1 /\ s[1] = d
    OBVIOUS
<1>3. Hearable({d})
    BY <1>1 DEF Hearable
<1> HIDE DEF s
<1>4. PICK g : HearChain(g, h, s) /\ FoldLeft(Hear, h, s) = g[Len(s)]
    BY <1>2, <1>3, HearFold
<1>5. g[0] = h /\ g[1] = Hear(g[1 - 1], s[1]) /\ 1 - 1 = 0
    BY <1>2, <1>4 DEF HearChain
<1>6. g[1] = h
    BY <1>1, <1>2, <1>5
<1> QED BY <1>2, <1>4, <1>6 DEF s, d

-----------------------------------------------------------------------------
(* The items of an output, their calls and their texts.                      *)
LEMMA PiecesOfItems ==
    /\ \A text \in Text : \A wire :
          CallPiece(TextItem(text, wire)) = <<>> /\ TextPiece(TextItem(text, wire)) = text
    /\ \A format, item :
          CallPiece(SealedItem(format, item)) = <<>> /\ TextPiece(SealedItem(format, item)) = <<>>
    /\ \A name, args, id, wire :
          LET call == CallItem(name, args, id, wire)
          IN  /\ CallPiece(call) = <<call>> /\ TextPiece(call) = <<>>
              /\ call.name = name /\ call.args = args /\ call.pid = <<id>>
<1>0. ASSUME NEW part
      PROVE  FlattenSeq([p \in 1..Len(<<part>>) |-> PartText(<<part>>[p])]) = FlattenSeq(<<PartText(part)>>)
    <2>1. Len(<<part>>) = 1 /\ <<part>>[1] = part
        OBVIOUS
    <2>2. [p \in 1..Len(<<part>>) |-> PartText(<<part>>[p])] = <<PartText(part)>>
        <3> DEFINE F == [p \in 1..Len(<<part>>) |-> PartText(<<part>>[p])]
                   y == PartText(part)
        <3>1. F = [p \in 1..1 |-> y]
            BY <2>1
        <3> HIDE DEF F, y
        <3>2. F = <<y>>
            BY <3>1
        <3> QED BY <3>2 DEF F, y
    <2> QED BY <2>2
<1>1. ASSUME NEW text \in Text, NEW wire
      PROVE  CallPiece(TextItem(text, wire)) = <<>> /\ TextPiece(TextItem(text, wire)) = text
    <2> DEFINE item == TextItem(text, wire)
               part == [part |-> "text", text |-> text]
    <2>1. item.item = "parts" /\ item.parts = <<part>>
        BY DEF TextItem
    <2>2. PartText(part) = text
        BY DEF PartText
    <2>3. TextPiece(item) = FlattenSeq([p \in 1..Len(item.parts) |-> PartText(item.parts[p])])
        <3> HIDE DEF item
        <3> QED BY <2>1 DEF TextPiece
    <2>4. CallPiece(item) = <<>>
        <3> HIDE DEF item
        <3> QED BY <2>1 DEF CallPiece
    <2> HIDE DEF item, part
    <2>5. TextPiece(item) = FlattenSeq(<<text>>)
        BY <1>0, <2>1, <2>2, <2>3
    <2>6. FlattenSeq(<<text>>) = text
        BY FlattenText
    <2> QED BY <2>4, <2>5, <2>6 DEF item
<1>2. ASSUME NEW format, NEW wire
      PROVE  CallPiece(SealedItem(format, wire)) = <<>> /\ TextPiece(SealedItem(format, wire)) = <<>>
    <2> DEFINE item == SealedItem(format, wire)
               part == [part |-> "sealed", format |-> format, item |-> wire]
    <2>1. item.item = "parts" /\ item.parts = <<part>>
        BY DEF SealedItem
    <2>2. PartText(part) = <<>>
        BY DEF PartText
    <2>3. TextPiece(item) = FlattenSeq([p \in 1..Len(item.parts) |-> PartText(item.parts[p])])
        <3> HIDE DEF item
        <3> QED BY <2>1 DEF TextPiece
    <2>4. CallPiece(item) = <<>>
        <3> HIDE DEF item
        <3> QED BY <2>1 DEF CallPiece
    <2> HIDE DEF item, part
    <2>5. TextPiece(item) = FlattenSeq(<<PartText(part)>>)
        BY <1>0, <2>1, <2>3
    <2> DEFINE none == <<>>
    <2>6. none \in Text
        BY EmptySeq DEF Text
    <2>7. FlattenSeq(<<none>>) = none
        <3> HIDE DEF none
        <3> QED BY <2>6, FlattenText
    <2> QED BY <2>2, <2>4, <2>5, <2>7 DEF item
<1>3. ASSUME NEW name, NEW args, NEW id, NEW wire
      PROVE  LET call == CallItem(name, args, id, wire)
             IN  /\ CallPiece(call) = <<call>> /\ TextPiece(call) = <<>>
                 /\ call.name = name /\ call.args = args /\ call.pid = <<id>>
    BY DEF CallItem, CallPiece, TextPiece
<1> QED BY <1>1, <1>2, <1>3

(* A count that grows by nothing or one never falls.                         *)
Rises(u, n) == \A i \in 0..n : \A j \in i..n : u[i] <= u[j]

(* By induction on the distance.                                             *)
LEMMA CountRises ==
    ASSUME NEW n \in Nat, NEW u \in [0..n -> Nat], \A k \in 1..n : u[k - 1] <= u[k]
    PROVE  Rises(u, n)
<1> SUFFICES ASSUME NEW i \in 0..n, NEW j \in i..n PROVE u[i] <= u[j]
    BY DEF Rises
<1> DEFINE S == {d \in 0..(n - i) : u[i] <= u[i + d]}
<1>1. 0 \in S
    OBVIOUS
<1>2. ASSUME NEW d \in 1..(n - i), d - 1 \in S PROVE d \in S
    <2>1. i + d \in 1..n /\ (i + d) - 1 = i + (d - 1) /\ i + (d - 1) \in 0..n
        OBVIOUS
    <2>2. u[i + (d - 1)] <= u[i + d]
        BY <2>1
    <2>3. u[i] <= u[i + (d - 1)]
        BY <1>2
    <2>4. u[i] \in Nat /\ u[i + (d - 1)] \in Nat /\ u[i + d] \in Nat
        BY <2>1
    <2>5. u[i] <= u[i + d]
        BY <2>2, <2>3, <2>4
    <2> QED BY <2>5
<1>3. n - i \in Nat /\ j - i \in 0..(n - i) /\ i + (j - i) = j
    OBVIOUS
<1>4. \A d \in 0..(n - i) : d \in S
    <2> HIDE DEF S
    <2> QED BY <1>1, <1>2, <1>3, Upward
<1>5. j - i \in S
    <2> HIDE DEF S
    <2> QED BY <1>3, <1>4
<1> QED BY <1>3, <1>5

-----------------------------------------------------------------------------
(* The Anthropic assembly.                                                   *)
FineWire(wire) ==
    /\ "type" \in DOMAIN wire
    /\ wire.type = "text" => "text" \in DOMAIN wire /\ wire.text \in Text
    /\ IsTool(wire) => /\ {"id", "name", "input"} \subseteq DOMAIN wire
                       /\ wire.id \in STRING /\ wire.name \in Text

(* A block as it is put together, over the wires W,                          *)
ABlock(W) ==
    [wire : W, arguments : Text, saw_arguments : BOOLEAN, incomplete : BOOLEAN, closed : BOOLEAN, call : Nat]

(* a message of such blocks,                                                 *)
AState(W) ==
    [started : BOOLEAN, stopped : BOOLEAN, blocks : Seq(ABlock(W)), tools : Nat, reason : Seq(STRING)]

(* over wires that have what their type takes,                               *)
AType(a) == \E W : (\A w \in W : FineWire(w)) /\ a \in AState(W)

(* and one of its blocks.                                                    *)
IsBlock(x) == FineWire(x.wire) /\ x \in ABlock({x.wire})

(* The text of a block.                                                      *)
TextIn(wire) == IF wire.type = "text" THEN wire.text ELSE <<>>

(* The texts of all of them.                                                 *)
TextsIn(blocks) == [b \in 1..Len(blocks) |-> TextIn(blocks[b].wire)]

(* How many calls the first k blocks are.                                    *)
Before(a) == [k \in 0..Len(a.blocks) |-> IF k = Len(a.blocks) THEN a.tools ELSE a.blocks[k + 1].call]

(* Each block that is a call has the next number.                            *)
Counted(a) ==
    /\ Before(a)[0] = 0
    /\ \A k \in 1..Len(a.blocks) :
          Before(a)[k] = Before(a)[k - 1] + (IF IsTool(a.blocks[k].wire) THEN 1 ELSE 0)

(* What the host has heard of a block that is a call.                        *)
HeardBlock(block, entry) ==
    /\ entry.id = <<block.wire.id>> /\ entry.name = block.wire.name
    /\ ~block.closed => entry.arguments = block.arguments
    /\ block.closed /\ ~block.incomplete /\ entry.arguments # <<>> =>
           JsonOf(entry.arguments) = block.wire.input

(* A text block takes no arguments, and only a block that took some has      *)
(* any.                                                                      *)
Sound(block) ==
    /\ block.saw_arguments \/ block.incomplete => block.wire.type # "text"
    /\ ~block.saw_arguments => block.arguments = <<>>

(* The calls heard are the calls there are, each as its block has it.        *)
HeardCalls(a, h) ==
    /\ DOMAIN h.calls = 0..a.tools - 1
    /\ \A b \in 1..Len(a.blocks) :
          /\ Sound(a.blocks[b])
          /\ IsTool(a.blocks[b].wire) => HeardBlock(a.blocks[b], h.calls[a.blocks[b].call])

(* The host has heard the texts in the order of their blocks, of the block s *)
(* (from 0) last.                                                            *)
HeardTexts(a, h, s) ==
    /\ h.text = Joined(TextsIn(a.blocks), Len(a.blocks))
    /\ \A b \in 1..Len(a.blocks) : b > s + 1 => TextsIn(a.blocks)[b] = <<>>

(* The invariant of an assembly a and a host h: s is the last block that     *)
(* spoke, m whether the text was mixed up.                                   *)
AInv(a, h, s, m) ==
    /\ AType(a) /\ Counted(a) /\ HeardCalls(a, h)
    /\ ~m => HeardTexts(a, h, s)

(* The blocks of an assembly.                                                *)
LEMMA BlocksAre ==
    ASSUME NEW a, AType(a)
    PROVE  /\ Len(a.blocks) \in Nat /\ DOMAIN a.blocks = 1..Len(a.blocks)
           /\ a.tools \in Nat /\ a.reason \in Seq(STRING)
           /\ \A b \in 1..Len(a.blocks) : IsBlock(a.blocks[b])
<1>1. PICK W : (\A w \in W : FineWire(w)) /\ a \in AState(W)
    BY DEF AType
<1>2. a.blocks \in Seq(ABlock(W)) /\ a.tools \in Nat /\ a.reason \in Seq(STRING)
    BY <1>1 DEF AState
<1>3. ASSUME NEW b \in 1..Len(a.blocks) PROVE IsBlock(a.blocks[b])
    <2>1. a.blocks[b] \in ABlock(W)
        BY <1>2
    <2> DEFINE x == a.blocks[b]
    <2>2. x \in ABlock(W)
        BY <2>1
    <2> HIDE DEF x
    <2>3. x \in ABlock({x.wire}) /\ x.wire \in W
        BY <2>2 DEF ABlock
    <2> QED BY <1>1, <2>3 DEF IsBlock, x
<1> QED BY <1>2, <1>3

(* One block replaced.                                                       *)
Replaced(a2, a, b, x) ==
    /\ AType(a2) /\ Len(a2.blocks) = Len(a.blocks) /\ a2.blocks[b] = x
    /\ \A c \in 1..Len(a.blocks) : c # b => a2.blocks[c] = a.blocks[c]
    /\ a2.tools = a.tools /\ a2.reason = a.reason /\ a2.started = a.started /\ a2.stopped = a.stopped

(* Setting a block replaces it and nothing else.                             *)
LEMMA ReplaceBlock ==
    ASSUME NEW a, AType(a), NEW b \in 1..Len(a.blocks), NEW x, IsBlock(x)
    PROVE  Replaced([a EXCEPT !.blocks = [a.blocks EXCEPT ![b] = x]], a, b, x)
<1>1. PICK W : (\A w \in W : FineWire(w)) /\ a \in AState(W)
    BY DEF AType
<1> DEFINE V == W \cup {x.wire}
           new == [a.blocks EXCEPT ![b] = x]
           a2 == [a EXCEPT !.blocks = new]
<1>2. a.blocks \in Seq(ABlock(W)) /\ a.blocks \in Seq(ABlock(V)) /\ x \in ABlock(V)
    <2>1. a.blocks \in Seq(ABlock(W))
        BY <1>1 DEF AState
    <2>2. ABlock(W) \subseteq ABlock(V) /\ ABlock({x.wire}) \subseteq ABlock(V)
        BY DEF ABlock
    <2> QED BY <2>1, <2>2, SeqMonotonic DEF IsBlock
<1>3. \A w \in V : FineWire(w)
    BY <1>1 DEF IsBlock
<1> HIDE DEF V
<1>4. /\ new \in Seq(ABlock(V)) /\ Len(new) = Len(a.blocks) /\ new[b] = x
      /\ \A c \in 1..Len(a.blocks) : c # b => new[c] = a.blocks[c]
    BY <1>2, ExceptSeq
<1> HIDE DEF new
<1>5. /\ a2 \in AState(V) /\ a2.blocks = new /\ a2.tools = a.tools /\ a2.reason = a.reason
      /\ a2.started = a.started /\ a2.stopped = a.stopped
    BY <1>1, <1>4 DEF AState
<1>6. AType(a2)
    BY <1>3, <1>5 DEF AType
<1> HIDE DEF a2
<1>7. Replaced(a2, a, b, x)
    BY <1>4, <1>5, <1>6 DEF Replaced
<1> QED BY <1>7 DEF a2, new

(* One block more.                                                           *)
OneBlockMore(a2, a, x, t) ==
    /\ AType(a2) /\ Len(a2.blocks) = Len(a.blocks) + 1 /\ a2.tools = t
    /\ \A c \in 1..Len(a.blocks) : a2.blocks[c] = a.blocks[c]
    /\ a2.blocks[Len(a.blocks) + 1] = x

(* Appending one does that.                                                  *)
LEMMA AppendBlock ==
    ASSUME NEW a, AType(a), NEW x, IsBlock(x), NEW t \in Nat
    PROVE  OneBlockMore([a EXCEPT !.blocks = Append(a.blocks, x), !.tools = t], a, x, t)
<1>1. PICK W : (\A w \in W : FineWire(w)) /\ a \in AState(W)
    BY DEF AType
<1> DEFINE V == W \cup {x.wire}
           new == Append(a.blocks, x)
           a1 == [a EXCEPT !.blocks = new]
           a2 == [a EXCEPT !.blocks = new, !.tools = t]
<1>2. a.blocks \in Seq(ABlock(V)) /\ x \in ABlock(V)
    <2>1. a.blocks \in Seq(ABlock(W))
        BY <1>1 DEF AState
    <2>2. ABlock(W) \subseteq ABlock(V) /\ ABlock({x.wire}) \subseteq ABlock(V)
        BY DEF ABlock
    <2> QED BY <2>1, <2>2, SeqMonotonic DEF IsBlock
<1>3. \A w \in V : FineWire(w)
    BY <1>1 DEF IsBlock
<1> HIDE DEF V
<1>4. /\ new \in Seq(ABlock(V)) /\ Len(new) = Len(a.blocks) + 1
      /\ \A c \in 1..Len(a.blocks) : new[c] = a.blocks[c]
      /\ new[Len(a.blocks) + 1] = x
    BY <1>2, AppendProperties
<1> HIDE DEF new
<1>5. a1 \in AState(V) /\ a1.blocks = new
    BY <1>1, <1>4 DEF AState
<1>6. a2 = [a1 EXCEPT !.tools = t]
    BY <1>1 DEF AState
<1> HIDE DEF a1, a2
<1>7. a2 \in AState(V) /\ a2.blocks = new /\ a2.tools = t
    BY <1>5, <1>6 DEF AState
<1>8. AType(a2)
    BY <1>3, <1>7 DEF AType
<1>9. OneBlockMore(a2, a, x, t)
    BY <1>4, <1>7, <1>8 DEF OneBlockMore
<1> QED BY <1>9 DEF a2, new

(* The calls of distinct blocks are distinct, and counted.                   *)
LEMMA CallNumbers ==
    ASSUME NEW a, AType(a), Counted(a)
    PROVE  /\ \A b \in 1..Len(a.blocks) : IsTool(a.blocks[b].wire) => a.blocks[b].call \in 0..a.tools - 1
           /\ \A b, c \in 1..Len(a.blocks) :
                 IsTool(a.blocks[b].wire) /\ IsTool(a.blocks[c].wire) /\ b # c =>
                     a.blocks[b].call # a.blocks[c].call
<1> DEFINE n == Len(a.blocks)
           u == Before(a)
<1>1. n \in Nat /\ a.tools \in Nat /\ \A b \in 1..n : a.blocks[b].call \in Nat
    BY BlocksAre DEF IsBlock, ABlock
<1>2. u \in [0..n -> Nat] /\ u[n] = a.tools /\ \A b \in 1..n : u[b - 1] = a.blocks[b].call
    <2>1. u = [k \in 0..n |-> IF k = n THEN a.tools ELSE a.blocks[k + 1].call]
        BY DEF Before
    <2> HIDE DEF n, u
    <2>2. \A k \in 0..n : k # n => k + 1 \in 1..n
        BY <1>1
    <2>3. u \in [0..n -> Nat]
        BY <1>1, <2>1, <2>2
    <2>4. \A b \in 1..n : b - 1 \in 0..n /\ b - 1 # n /\ (b - 1) + 1 = b
        BY <1>1
    <2> QED BY <1>1, <2>1, <2>3, <2>4
<1>3. \A k \in 1..n : u[k] = u[k - 1] + (IF IsTool(a.blocks[k].wire) THEN 1 ELSE 0)
    BY DEF Counted
<1> HIDE DEF n, u
<1>4. ASSUME NEW k \in 1..n PROVE u[k - 1] <= u[k] /\ u[k - 1] \in Nat /\ u[k] \in Nat
    <2>1. k - 1 \in 0..n /\ k \in 0..n
        BY <1>1
    <2>2. u[k - 1] \in Nat /\ u[k] \in Nat
        BY <1>2, <2>1
    <2>3. CASE IsTool(a.blocks[k].wire)
        BY <1>3, <2>2, <2>3
    <2>4. CASE ~IsTool(a.blocks[k].wire)
        BY <1>3, <2>2, <2>4
    <2> QED BY <2>2, <2>3, <2>4
<1>5. Rises(u, n)
    BY <1>1, <1>2, <1>4, CountRises
<1>6. ASSUME NEW b \in 1..n, IsTool(a.blocks[b].wire) PROVE a.blocks[b].call \in 0..a.tools - 1
    <2>1. u[b] = u[b - 1] + 1 /\ u[b - 1] \in Nat
        BY <1>3, <1>4, <1>6
    <2>2. u[b] <= u[n] /\ u[n] \in Nat
        BY <1>1, <1>2, <1>5 DEF Rises
    <2> QED BY <1>2, <2>1, <2>2
<1>7. ASSUME NEW b \in 1..n, NEW c \in 1..n, IsTool(a.blocks[b].wire), b < c
      PROVE  a.blocks[b].call # a.blocks[c].call
    <2>1. u[b] = u[b - 1] + 1 /\ u[b - 1] \in Nat
        BY <1>3, <1>4, <1>7
    <2>2. b \in 0..n /\ c - 1 \in b..n
        BY <1>1, <1>7
    <2>3. u[b] <= u[c - 1] /\ u[c - 1] \in Nat
        BY <1>4, <1>5, <2>2 DEF Rises
    <2> QED BY <1>2, <2>1, <2>3
<1>8. \A b, c \in 1..n : b # c => b < c \/ c < b
    OBVIOUS
<1> QED BY <1>6, <1>7, <1>8 DEF n

(* What the host hears of one event: nothing, a text, a reasoning or a call. *)
LEMMA NothingSaid ==
    ASSUME NEW h \in Host
    PROVE  <<>> \in Seq(Deltas) /\ FoldLeft(Hear, h, <<>>) = h /\ ~SaysText(<<>>)
<1>1. Len(<<>>) = 0 /\ <<>> \in Seq(Deltas)
    BY EmptySeq
<1>2. ~SaysText(<<>>)
    BY <1>1 DEF SaysText
<1> QED BY <1>1, <1>2, HearNone

(* The host has heard the text t, and nothing of its calls.                  *)
SaidText(after, h, t) == after \in Host /\ after.text = h.text \o t /\ after.calls = h.calls

(* A text delta says its text.                                               *)
LEMMA TextSaid ==
    ASSUME NEW h \in Host, NEW t \in Text
    PROVE  /\ <<TextDelta(t)>> \in Seq(Deltas)
           /\ SaidText(FoldLeft(Hear, h, <<TextDelta(t)>>), h, t)
           /\ SaysText(<<TextDelta(t)>>) <=> t # <<>>
<1> DEFINE d == TextDelta(t)
<1>1. d \in TextDeltas /\ d.delta = "text" /\ d.text = t
    BY DEF TextDelta, TextDeltas
<1> HIDE DEF d
<1>2. d \in Deltas
    BY <1>1 DEF Deltas
<1>3. FoldLeft(Hear, h, <<d>>) = Hear(h, d)
    BY <1>2, HearOne
<1>4. SaidText(Hear(h, d), h, t)
    BY <1>1, HearText DEF SaidText
<1>5. <<d>> \in Seq(Deltas) /\ Len(<<d>>) = 1 /\ <<d>>[1] = d
    BY <1>2
<1>6. SaysText(<<d>>) <=> t # <<>>
    BY <1>1, <1>5 DEF SaysText
<1> QED BY <1>3, <1>4, <1>5, <1>6 DEF d

(* A reasoning delta changes neither the text nor the calls.                 *)
LEMMA ReasoningSaid ==
    ASSUME NEW h \in Host, NEW t \in Text
    PROVE  /\ <<ReasoningDelta(t)>> \in Seq(Deltas)
           /\ FoldLeft(Hear, h, <<ReasoningDelta(t)>>) = h
           /\ ~SaysText(<<ReasoningDelta(t)>>)
<1> DEFINE d == ReasoningDelta(t)
<1>1. d \in TextDeltas /\ d.delta = "reasoning"
    BY DEF ReasoningDelta, TextDeltas
<1> HIDE DEF d
<1>2. d \in Deltas
    BY <1>1 DEF Deltas
<1>3. FoldLeft(Hear, h, <<d>>) = Hear(h, d)
    BY <1>2, HearOne
<1>4. Hear(h, d) = h
    BY <1>1, HearText
<1>5. <<d>> \in Seq(Deltas) /\ Len(<<d>>) = 1 /\ <<d>>[1] = d
    BY <1>2
<1>6. ~SaysText(<<d>>)
    BY <1>1, <1>5 DEF SaysText
<1> QED BY <1>3, <1>4, <1>5, <1>6 DEF d

(* The entry of call i is set to what it was, extended.                      *)
SaidCall(after, h, i, id, name, arguments) ==
    LET call == Known(h.calls, i)
    IN  /\ after \in Host /\ after.text = h.text
        /\ DOMAIN after.calls = DOMAIN h.calls \cup {i}
        /\ \A j \in DOMAIN h.calls : j # i => after.calls[j] = h.calls[j]
        /\ after.calls[i].id = (IF call.id = <<>> THEN id ELSE call.id)
        /\ after.calls[i].name = call.name \o FlattenSeq(name)
        /\ after.calls[i].arguments = call.arguments \o FlattenSeq(arguments)

(* A delta of a call has the parts it is made of.                            *)
LEMMA CallDeltaIs ==
    ASSUME NEW i \in Nat, NEW id \in Seq(STRING), NEW name \in Seq(Text), NEW arguments \in Seq(Text)
    PROVE  LET d == ToolCallDelta(i, id, name, arguments)
           IN  /\ d \in CallDeltas /\ d.delta = "call" /\ d.index = i /\ d.id = id
               /\ d.name = name /\ d.arguments = arguments
    BY DEF ToolCallDelta, CallDeltas

(* Heard, it extends the call of its number                                  *)
LEMMA CallHears ==
    ASSUME NEW h \in Host, NEW i \in Nat, NEW id \in Seq(STRING), NEW name \in Seq(Text),
           NEW arguments \in Seq(Text)
    PROVE  SaidCall(Hear(h, ToolCallDelta(i, id, name, arguments)), h, i, id, name, arguments)
<1> DEFINE d == ToolCallDelta(i, id, name, arguments)
           after == Hear(h, d)
           call == Known(h.calls, i)
<1>1. /\ d \in CallDeltas /\ d.index = i /\ d.id = id
      /\ d.name = name /\ d.arguments = arguments
    BY CallDeltaIs
<1> HIDE DEF d
<1>2. HeardCall(after, h, d)
    BY <1>1, HearCall
<1> HIDE DEF after
<1>3. /\ after \in Host /\ after.text = h.text
      /\ EntrySet(after.calls, h.calls, i, Extended(call, d))
    BY <1>1, <1>2 DEF HeardCall
<1> HIDE DEF call
<1>4. /\ Extended(call, d).id = (IF call.id = <<>> THEN id ELSE call.id)
      /\ Extended(call, d).name = call.name \o FlattenSeq(name)
      /\ Extended(call, d).arguments = call.arguments \o FlattenSeq(arguments)
    BY <1>1 DEF Extended
<1> HIDE DEF after
<1>5. SaidCall(after, h, i, id, name, arguments)
    BY <1>3, <1>4 DEF SaidCall, EntrySet, call
<1> QED BY <1>5 DEF after, d

(* and says no text.                                                         *)
LEMMA CallSaid ==
    ASSUME NEW h \in Host, NEW i \in Nat, NEW id \in Seq(STRING), NEW name \in Seq(Text),
           NEW arguments \in Seq(Text)
    PROVE  LET deltas == <<ToolCallDelta(i, id, name, arguments)>>
           IN  /\ deltas \in Seq(Deltas) /\ ~SaysText(deltas)
               /\ SaidCall(FoldLeft(Hear, h, deltas), h, i, id, name, arguments)
<1> DEFINE d == ToolCallDelta(i, id, name, arguments)
<1>1. d \in CallDeltas /\ d.delta = "call"
    BY CallDeltaIs
<1>2. SaidCall(Hear(h, d), h, i, id, name, arguments)
    BY CallHears
<1> HIDE DEF d
<1>3. d \in Deltas
    BY <1>1 DEF Deltas
<1>4. FoldLeft(Hear, h, <<d>>) = Hear(h, d)
    BY <1>3, HearOne
<1>5. <<d>> \in Seq(Deltas) /\ Len(<<d>>) = 1 /\ <<d>>[1] = d
    BY <1>3
<1>6. ~SaysText(<<d>>)
    BY <1>1, <1>5 DEF SaysText
<1> QED BY <1>2, <1>4, <1>5, <1>6 DEF d

(* The texts of the blocks when there is one more, and when one is replaced. *)
LEMMA TextsType ==
    ASSUME NEW a, AType(a)
    PROVE  TextsIn(a.blocks) \in [1..Len(a.blocks) -> Seq(STRING)]
<1>1. \A b \in 1..Len(a.blocks) : TextIn(a.blocks[b].wire) \in Seq(STRING)
    <2> SUFFICES ASSUME NEW b \in 1..Len(a.blocks) PROVE TextIn(a.blocks[b].wire) \in Seq(STRING)
        OBVIOUS
    <2>1. FineWire(a.blocks[b].wire)
        BY BlocksAre DEF IsBlock
    <2>2. <<>> \in Seq(STRING)
        BY EmptySeq
    <2> QED BY <2>1, <2>2 DEF FineWire, TextIn, Text
<1> QED BY <1>1 DEF TextsIn

(* A block more adds its text at the end of the texts.                       *)
LEMMA TextsAppended ==
    ASSUME NEW a, AType(a), NEW a2, AType(a2), Len(a2.blocks) = Len(a.blocks) + 1,
           \A c \in 1..Len(a.blocks) : a2.blocks[c] = a.blocks[c]
    PROVE  Joined(TextsIn(a2.blocks), Len(a2.blocks)) =
               Joined(TextsIn(a.blocks), Len(a.blocks)) \o TextIn(a2.blocks[Len(a2.blocks)].wire)
<1> DEFINE n == Len(a.blocks)
           F == TextsIn(a.blocks)
           F2 == TextsIn(a2.blocks)
<1>1. n \in Nat /\ Len(a2.blocks) = n + 1
    BY BlocksAre
<1>2. F2 \in [1..(n + 1) -> Seq(STRING)]
    BY <1>1, TextsType
<1>3. /\ \A b \in 1..n : F2[b] = F[b]
      /\ F2[n + 1] = TextIn(a2.blocks[n + 1].wire)
    <2>1. \A b \in 1..n : b \in 1..(n + 1)
        BY <1>1
    <2>2. n + 1 \in 1..(n + 1)
        BY <1>1
    <2> QED BY <1>1, <2>1, <2>2 DEF TextsIn
<1> HIDE DEF F, F2, n
<1>4. Joined(F2, n) = Joined(F, n)
    <2>1. [l \in 1..n |-> F2[l]] = [l \in 1..n |-> F[l]]
        BY <1>3
    <2> QED BY <2>1 DEF Joined
<1>5. Joined(F2, n + 1) = Joined(F2, n) \o F2[n + 1]
    <2>1. n + 1 \in Nat /\ n + 1 \in 1..(n + 1) /\ (n + 1) - 1 = n
        BY <1>1
    <2>2. Joined(F2, n + 1) = Joined(F2, (n + 1) - 1) \o F2[n + 1]
        BY <1>2, <2>1, JoinedChain
    <2> QED BY <2>1, <2>2
<1>6. Joined(F2, n + 1) = Joined(F, n) \o TextIn(a2.blocks[n + 1].wire)
    BY <1>3, <1>4, <1>5
<1> QED BY <1>1, <1>6 DEF F, F2, n

(* Appending text is associative.                                            *)
LEMMA TextsAssociate ==
    ASSUME NEW x \in Seq(STRING), NEW y \in Seq(STRING), NEW z \in Seq(STRING)
    PROVE  x \o (y \o z) = (x \o y) \o z
  BY ConcatAssociative

(* A block whose text grows adds it at the end of the texts when no later    *)
(* block has any.                                                            *)
LEMMA TextsReplaced ==
    ASSUME NEW a, AType(a), NEW a2, NEW b \in 1..Len(a.blocks), NEW x, Replaced(a2, a, b, x),
           NEW d \in Text, TextIn(x.wire) = TextIn(a.blocks[b].wire) \o d,
           d # <<>> => \A c \in 1..Len(a.blocks) : c > b => TextsIn(a.blocks)[c] = <<>>
    PROVE  Joined(TextsIn(a2.blocks), Len(a2.blocks)) = Joined(TextsIn(a.blocks), Len(a.blocks)) \o d
<1> DEFINE n == Len(a.blocks)
           F == TextsIn(a.blocks)
           F2 == TextsIn(a2.blocks)
<1>1. n \in Nat /\ Len(a2.blocks) = n /\ AType(a2) /\ b \in 1..n
    BY BlocksAre DEF Replaced
<1>2. F \in [1..n -> Seq(STRING)] /\ F2 \in [1..n -> Seq(STRING)]
    BY <1>1, TextsType
<1>3. /\ \A c \in 1..n : c # b => F2[c] = F[c]
      /\ F2[b] = F[b] \o d
    BY <1>1 DEF TextsIn, Replaced
<1>d. d \in Seq(STRING)
    BY DEF Text
<1>4. CASE d = <<>>
    <2>1. F2[b] = F[b]
        BY <1>1, <1>2, <1>3, <1>4, ConcatEmptySeq
    <2>2. F2 = F
        <3> HIDE DEF F, F2, n
        <3>1. \A c \in 1..n : F2[c] = F[c]
            BY <1>3, <2>1
        <3>2. F = [c \in 1..n |-> F[c]] /\ F2 = [c \in 1..n |-> F2[c]]
            BY <1>2
        <3> QED BY <3>1, <3>2
    <2>3. Joined(F, n) \in Seq(STRING)
        <3>1. n \in 0..n
            BY <1>1
        <3> HIDE DEF F, n
        <3> QED BY <1>1, <1>2, <3>1, JoinedChain
    <2>4. Joined(F, n) \o d = Joined(F, n)
        BY <1>4, <2>3, ConcatEmptySeq
    <2> QED BY <1>1, <2>2, <2>4
<1>5. CASE d # <<>>
    <2>1. \A c \in (b + 1)..n : F[c] = <<>> /\ F2[c] = <<>>
        <3>1. \A c \in (b + 1)..n : c \in 1..n /\ c > b /\ c # b
            BY <1>1
        <3>2. \A c \in 1..n : c > b => F[c] = <<>>
            BY <1>5
        <3> HIDE DEF F, F2, n
        <3> QED BY <1>3, <3>1, <3>2
    <2> HIDE DEF F, F2, n
    <2>2. Skips(F, n) /\ Skips(F2, n)
        BY <1>1, <1>2, JoinedSkip
    <2>3. b \in 0..n /\ n \in b..n /\ b - 1 \in 0..n
        BY <1>1
    <2>4. Joined(F, n) = Joined(F, b) /\ Joined(F2, n) = Joined(F2, b)
        BY <2>1, <2>2, <2>3 DEF Skips
    <2>5. /\ Joined(F, b) = Joined(F, b - 1) \o F[b] /\ Joined(F, b - 1) \in Seq(STRING)
          /\ Joined(F2, b) = Joined(F2, b - 1) \o F2[b]
        <3>1. /\ \A p \in 1..n : Joined(F, p) = Joined(F, p - 1) \o F[p]
              /\ \A p \in 0..n : Joined(F, p) \in Seq(STRING)
            BY <1>1, <1>2, JoinedChain
        <3>2. \A p \in 1..n : Joined(F2, p) = Joined(F2, p - 1) \o F2[p]
            BY <1>1, <1>2, JoinedChain
        <3> QED BY <1>1, <2>3, <3>1, <3>2
    <2>6. Joined(F2, b - 1) = Joined(F, b - 1)
        <3>1. \A l \in 1..(b - 1) : l \in 1..n /\ l # b
            BY <1>1
        <3>2. [l \in 1..(b - 1) |-> F2[l]] = [l \in 1..(b - 1) |-> F[l]]
            BY <1>3, <3>1
        <3> QED BY <3>2 DEF Joined
    <2> DEFINE p == Joined(F, b - 1)
    <2>7. p \o (F[b] \o d) = (p \o F[b]) \o d
        <3> DEFINE q == F[b]
        <3>1. p \in Seq(STRING) /\ q \in Seq(STRING)
            BY <1>1, <1>2, <2>5
        <3> HIDE DEF p, q
        <3>2. p \o (q \o d) = (p \o q) \o d
            BY <1>d, <3>1, TextsAssociate
        <3> QED BY <3>2 DEF q
    <2>8. Joined(F2, n) = Joined(F, n) \o d
        BY <1>3, <2>4, <2>5, <2>6, <2>7, Zenon DEF p
    <2> QED BY <1>1, <2>8 DEF F, F2, n
<1> QED BY <1>4, <1>5


-----------------------------------------------------------------------------
(* What an event does to the blocks of a message.                            *)

(* The same blocks.                                                          *)
LEMMA SameBlocks ==
    ASSUME NEW a, NEW a2, NEW h, NEW s, a2.blocks = a.blocks, a2.tools = a.tools
    PROVE  /\ Counted(a) => Counted(a2)
           /\ HeardCalls(a, h) => HeardCalls(a2, h)
           /\ HeardTexts(a, h, s) => HeardTexts(a2, h, s)
<1>1. Before(a2) = Before(a)
    BY DEF Before
<1>2. Counted(a) => Counted(a2)
    BY <1>1 DEF Counted
<1>3. HeardCalls(a, h) => HeardCalls(a2, h)
    BY DEF HeardCalls
<1>4. HeardTexts(a, h, s) => HeardTexts(a2, h, s)
    BY DEF HeardTexts
<1> QED BY <1>2, <1>3, <1>4

(* One block more, of the next call if it is one.                            *)
Appended(a2, a, x) ==
    /\ AType(a2) /\ Len(a2.blocks) = Len(a.blocks) + 1
    /\ \A c \in 1..Len(a.blocks) : a2.blocks[c] = a.blocks[c]
    /\ a2.blocks[Len(a.blocks) + 1] = x
    /\ a2.tools = a.tools + (IF IsTool(x.wire) THEN 1 ELSE 0) /\ x.call = a.tools

(* It is counted.                                                            *)
LEMMA CountedAppended ==
    ASSUME NEW a, AType(a), Counted(a), NEW a2, NEW x, Appended(a2, a, x)
    PROVE  Counted(a2)
<1> DEFINE n == Len(a.blocks)
           u == Before(a)
           v == Before(a2)
<1>1. /\ n \in Nat /\ Len(a2.blocks) = n + 1 /\ a.tools \in Nat
      /\ \A c \in 1..n : a2.blocks[c] = a.blocks[c]
      /\ a2.blocks[n + 1] = x /\ x.call = a.tools
    BY BlocksAre DEF Appended
<1>2. /\ u = [k \in 0..n |-> IF k = n THEN a.tools ELSE a.blocks[k + 1].call]
      /\ v = [k \in 0..(n + 1) |-> IF k = n + 1 THEN a2.tools ELSE a2.blocks[k + 1].call]
    BY <1>1 DEF Before
<1>3. /\ u[0] = 0 /\ \A k \in 1..n : u[k] = u[k - 1] + (IF IsTool(a.blocks[k].wire) THEN 1 ELSE 0)
    BY DEF Counted
<1> HIDE DEF n, u, v
<1>4. \A k \in 0..n : v[k] = u[k]
    <2>1. ASSUME NEW k \in 0..n PROVE v[k] = u[k]
        <3>1. k \in 0..(n + 1) /\ k # n + 1
            BY <1>1
        <3>2. v[k] = a2.blocks[k + 1].call
            BY <1>2, <3>1
        <3>3. CASE k = n
            BY <1>1, <1>2, <3>2, <3>3
        <3>4. CASE k # n
            <4>1. k + 1 \in 1..n
                BY <1>1, <3>4
            <4> QED BY <1>1, <1>2, <3>2, <3>4, <4>1
        <3> QED BY <3>3, <3>4
    <2> QED BY <2>1
<1>5. v[n + 1] = a2.tools /\ u[n] = a.tools
    <2>1. n + 1 \in 0..(n + 1) /\ n \in 0..n
        BY <1>1
    <2> QED BY <1>2, <2>1
<1>6. v[n + 1] = v[n] + (IF IsTool(a2.blocks[n + 1].wire) THEN 1 ELSE 0)
    <2>1. n \in 0..n
        BY <1>1
    <2>2. v[n] = a.tools
        BY <1>4, <1>5, <2>1
    <2>3. a2.tools = a.tools + (IF IsTool(a2.blocks[n + 1].wire) THEN 1 ELSE 0)
        BY <1>1 DEF Appended
    <2> QED BY <1>5, <2>2, <2>3
<1>7. ASSUME NEW k \in 1..(n + 1)
      PROVE  v[k] = v[k - 1] + (IF IsTool(a2.blocks[k].wire) THEN 1 ELSE 0)
    <2>1. CASE k = n + 1
        <3>1. (n + 1) - 1 = n
            BY <1>1
        <3> QED BY <1>6, <2>1, <3>1
    <2>2. CASE k # n + 1
        <3>1. k \in 1..n /\ k \in 0..n /\ k - 1 \in 0..n
            BY <1>1, <2>2
        <3>2. v[k] = u[k] /\ v[k - 1] = u[k - 1] /\ a2.blocks[k] = a.blocks[k]
            BY <1>1, <1>4, <3>1
        <3> QED BY <1>3, <3>1, <3>2
    <2> QED BY <2>1, <2>2
<1>8. v[0] = 0
    <2>1. 0 \in 0..n
        BY <1>1
    <2> QED BY <1>3, <1>4, <2>1
<1> QED BY <1>1, <1>7, <1>8 DEF Counted, v

(* Its text is the last.                                                     *)
LEMMA HeardTextsAppended ==
    ASSUME NEW a, AType(a), NEW a2, NEW x, Appended(a2, a, x), NEW h, NEW h2, NEW s \in Nat,
           HeardTexts(a, h, s), h2.text = h.text \o TextIn(x.wire)
    PROVE  /\ TextIn(x.wire) = <<>> => HeardTexts(a2, h2, s)
           /\ TextIn(x.wire) # <<>> => HeardTexts(a2, h2, Len(a.blocks))
<1> DEFINE n == Len(a.blocks)
           F == TextsIn(a.blocks)
           F2 == TextsIn(a2.blocks)
<1>1. /\ n \in Nat /\ Len(a2.blocks) = n + 1 /\ AType(a2)
      /\ \A c \in 1..n : a2.blocks[c] = a.blocks[c]
      /\ a2.blocks[n + 1] = x
    BY BlocksAre DEF Appended
<1>2. Joined(F2, n + 1) = Joined(F, n) \o TextIn(x.wire)
    BY <1>1, TextsAppended
<1>3. h2.text = Joined(F2, Len(a2.blocks))
    BY <1>1, <1>2 DEF HeardTexts
<1>4. /\ \A b \in 1..n : F2[b] = F[b]
      /\ F2[n + 1] = TextIn(x.wire)
    <2>1. \A b \in 1..n : b \in 1..(n + 1)
        BY <1>1
    <2>2. n + 1 \in 1..(n + 1)
        BY <1>1
    <2> QED BY <1>1, <2>1, <2>2 DEF TextsIn
<1>5. \A b \in 1..n : b > s + 1 => F[b] = <<>>
    BY DEF HeardTexts
<1>6. \A b \in 1..Len(a2.blocks) : b \in 1..n \/ b = n + 1
    BY <1>1
<1>7. \A b \in 1..Len(a2.blocks) : ~(b > n + 1)
    BY <1>1
<1> HIDE DEF F, F2
<1>8. TextIn(x.wire) = <<>> => \A b \in 1..Len(a2.blocks) : b > s + 1 => F2[b] = <<>>
    BY <1>4, <1>5, <1>6
<1> QED BY <1>3, <1>7, <1>8 DEF HeardTexts, F2, n

(* What was heard of the calls before it is what it was.                     *)
LEMMA HeardCallsAppended ==
    ASSUME NEW a, AType(a), Counted(a), NEW a2, NEW x, Appended(a2, a, x), NEW h, NEW h2,
           HeardCalls(a, h), Sound(x),
           DOMAIN h2.calls = 0..a2.tools - 1,
           \A j \in 0..a.tools - 1 : h2.calls[j] = h.calls[j],
           IsTool(x.wire) => HeardBlock(x, h2.calls[a.tools])
    PROVE  HeardCalls(a2, h2)
<1> DEFINE n == Len(a.blocks)
<1>1. /\ n \in Nat /\ Len(a2.blocks) = n + 1
      /\ \A c \in 1..n : a2.blocks[c] = a.blocks[c]
      /\ a2.blocks[n + 1] = x /\ x.call = a.tools
    BY BlocksAre DEF Appended
<1>2. \A c \in 1..n : IsTool(a.blocks[c].wire) => a.blocks[c].call \in 0..a.tools - 1
    BY CallNumbers
<1>3. \A c \in 1..n : /\ Sound(a.blocks[c])
                      /\ IsTool(a.blocks[c].wire) => HeardBlock(a.blocks[c], h.calls[a.blocks[c].call])
    BY DEF HeardCalls
<1> HIDE DEF n
<1>4. ASSUME NEW c \in 1..n
      PROVE  /\ Sound(a2.blocks[c])
             /\ IsTool(a2.blocks[c].wire) => HeardBlock(a2.blocks[c], h2.calls[a2.blocks[c].call])
    BY <1>1, <1>2, <1>3
<1>5. /\ Sound(a2.blocks[n + 1])
      /\ IsTool(a2.blocks[n + 1].wire) => HeardBlock(a2.blocks[n + 1], h2.calls[a2.blocks[n + 1].call])
    BY <1>1
<1>6. \A c \in 1..Len(a2.blocks) : c \in 1..n \/ c = n + 1
    BY <1>1
<1> QED BY <1>4, <1>5, <1>6 DEF HeardCalls

(* A block in the place of another.                                          *)
Succeeds(x, block) == x.call = block.call /\ x.wire.type = block.wire.type /\ Sound(x)

(* One block replaced: what is counted.                                      *)
LEMMA CountedReplaced ==
    ASSUME NEW a, AType(a), Counted(a), NEW a2, NEW b \in 1..Len(a.blocks), NEW x, Replaced(a2, a, b, x),
           Succeeds(x, a.blocks[b])
    PROVE  Counted(a2)
<1> DEFINE n == Len(a.blocks)
<1>1. /\ n \in Nat /\ Len(a2.blocks) = n /\ a2.tools = a.tools /\ a2.blocks[b] = x
      /\ \A c \in 1..n : c # b => a2.blocks[c] = a.blocks[c]
    BY BlocksAre DEF Replaced
<1>2. \A c \in 1..n : /\ a2.blocks[c].call = a.blocks[c].call
                      /\ IsTool(a2.blocks[c].wire) <=> IsTool(a.blocks[c].wire)
    BY <1>1 DEF IsTool, Succeeds
<1>3. Before(a2) = Before(a)
    <2>1. \A k \in 0..n : k # n => k + 1 \in 1..n
        BY <1>1
    <2> QED BY <1>1, <1>2, <2>1 DEF Before
<1> QED BY <1>1, <1>2, <1>3 DEF Counted

(* The text d is said of a block.                                            *)
Says(d, x, block, h2, h) == TextIn(x.wire) = TextIn(block.wire) \o d /\ h2.text = h.text \o d

(* It is heard there, if none was heard after it.                            *)
LEMMA HeardTextsReplaced ==
    ASSUME NEW a, AType(a), NEW a2, NEW at \in Nat, NEW b \in 1..Len(a.blocks), b = at + 1, NEW x,
           Replaced(a2, a, b, x), NEW d \in Text, NEW h, NEW h2, Says(d, x, a.blocks[b], h2, h),
           NEW s \in Nat, HeardTexts(a, h, s)
    PROVE  /\ d = <<>> => HeardTexts(a2, h2, s)
           /\ d # <<>> /\ at >= s => HeardTexts(a2, h2, at)
<1> DEFINE n == Len(a.blocks)
           F == TextsIn(a.blocks)
           F2 == TextsIn(a2.blocks)
<1>1. /\ n \in Nat /\ Len(a2.blocks) = n /\ AType(a2) /\ b \in 1..n /\ b = at + 1
      /\ a2.blocks[b] = x /\ \A c \in 1..n : c # b => a2.blocks[c] = a.blocks[c]
    BY BlocksAre DEF Replaced
<1>t. TextIn(x.wire) = TextIn(a.blocks[b].wire) \o d /\ h2.text = h.text \o d
    BY DEF Says
<1>2. h.text = Joined(F, n) /\ \A c \in 1..n : c > s + 1 => F[c] = <<>>
    BY DEF HeardTexts
<1>3. /\ \A c \in 1..n : c # b => F2[c] = F[c]
      /\ F2[b] = TextIn(x.wire) /\ F[b] = TextIn(a.blocks[b].wire)
    BY <1>1 DEF TextsIn
<1>4. ASSUME d = <<>> \/ at >= s
      PROVE  Joined(F2, n) = Joined(F, n) \o d
    <2>1. d # <<>> => \A c \in 1..n : c > b => F[c] = <<>>
        <3>1. at >= s => \A c \in 1..n : c > b => c > s + 1
            BY <1>1
        <3> QED BY <1>2, <1>4, <3>1
    <2>2. Replaced(a2, a, b, x) /\ TextIn(x.wire) = TextIn(a.blocks[b].wire) \o d
        BY <1>t
    <2>3. Joined(F2, Len(a2.blocks)) = Joined(F, n) \o d
        <3> QED BY <1>1, <2>1, <2>2, TextsReplaced
    <2> QED BY <1>1, <2>3
<1>5. CASE d = <<>>
    <2>1. TextIn(a.blocks[b].wire) \in Seq(STRING)
        <3>1. F \in [1..n -> Seq(STRING)]
            BY TextsType
        <3> HIDE DEF F
        <3> QED BY <1>1, <1>3, <3>1
    <2>2. F2[b] = F[b]
        BY <1>3, <1>5, <1>t, <2>1, ConcatEmptySeq
    <2>3. \A c \in 1..n : c > s + 1 => F2[c] = <<>>
        <3> HIDE DEF F, F2
        <3> QED BY <1>2, <1>3, <2>2
    <2>4. h2.text = Joined(F2, n)
        BY <1>2, <1>4, <1>5, <1>t
    <2> QED BY <1>1, <1>5, <2>3, <2>4 DEF HeardTexts
<1>6. CASE d # <<>> /\ at >= s
    <2>1. \A c \in 1..n : c > b => F2[c] = <<>>
        <3>1. \A c \in 1..n : c > b => c > s + 1 /\ c # b
            BY <1>1, <1>6
        <3> HIDE DEF F, F2
        <3> QED BY <1>2, <1>3, <3>1
    <2>2. h2.text = Joined(F2, n)
        BY <1>2, <1>4, <1>6, <1>t
    <2> QED BY <1>1, <1>6, <2>1, <2>2 DEF HeardTexts
<1> QED BY <1>5, <1>6

(* Of the other calls nothing is heard.                                      *)
OthersKept(a, b, h2, h) ==
    /\ DOMAIN h2.calls = DOMAIN h.calls
    /\ \A c \in 1..Len(a.blocks) :
          c # b /\ IsTool(a.blocks[c].wire) => h2.calls[a.blocks[c].call] = h.calls[a.blocks[c].call]

(* And what was heard of the calls.                                          *)
LEMMA HeardCallsReplaced ==
    ASSUME NEW a, AType(a), Counted(a), NEW a2, NEW b \in 1..Len(a.blocks), NEW x, Replaced(a2, a, b, x),
           Succeeds(x, a.blocks[b]), NEW h, NEW h2, HeardCalls(a, h), OthersKept(a, b, h2, h),
           IsTool(x.wire) => HeardBlock(x, h2.calls[x.call])
    PROVE  HeardCalls(a2, h2)
<1> DEFINE n == Len(a.blocks)
<1>1. /\ n \in Nat /\ Len(a2.blocks) = n /\ a2.tools = a.tools /\ a2.blocks[b] = x
      /\ \A c \in 1..n : c # b => a2.blocks[c] = a.blocks[c]
    BY BlocksAre DEF Replaced
<1>2. DOMAIN h.calls = 0..a.tools - 1
    BY DEF HeardCalls
<1>3. \A c \in 1..n : /\ Sound(a.blocks[c])
                      /\ IsTool(a.blocks[c].wire) => HeardBlock(a.blocks[c], h.calls[a.blocks[c].call])
    BY DEF HeardCalls
<1>4. \A c \in 1..n : /\ Sound(a2.blocks[c])
                      /\ IsTool(a2.blocks[c].wire) => HeardBlock(a2.blocks[c], h2.calls[a2.blocks[c].call])
    BY <1>1, <1>3 DEF Succeeds, OthersKept
<1> QED BY <1>1, <1>2, <1>4 DEF HeardCalls, OthersKept

-----------------------------------------------------------------------------
(* The events of an Anthropic message.  An event that is taken goes on: what *)
(* was heard still follows from the state.                                   *)
AGoesOn(r, a, h, s, at) ==
    LET after == FoldLeft(Hear, h, r.deltas)
    IN  /\ r.deltas \in Seq(Deltas) /\ after \in Host
        /\ AType(r.asm) /\ Counted(r.asm) /\ HeardCalls(r.asm, after)
        /\ HeardTexts(a, h, s) =>
              IF SaysText(r.deltas) THEN at >= s => HeardTexts(r.asm, after, at)
              ELSE HeardTexts(r.asm, after, s)

(* What that takes.                                                          *)
LEMMA GoesOn ==
    ASSUME NEW a, NEW h, NEW s, NEW at, NEW r, NEW a2, NEW deltas \in Seq(Deltas), r = Accepted(a2, deltas),
           NEW h2 \in Host, h2 = FoldLeft(Hear, h, deltas),
           AType(a2), Counted(a2), HeardCalls(a2, h2),
           HeardTexts(a, h, s) => /\ ~SaysText(deltas) => HeardTexts(a2, h2, s)
                                  /\ SaysText(deltas) /\ at >= s => HeardTexts(a2, h2, at)
    PROVE  AGoesOn(r, a, h, s, at)
<1>1. r.deltas = deltas /\ r.asm = a2
    BY DEF Accepted
<1> QED BY <1>1 DEF AGoesOn

(* content_block_start.                                                      *)
LEMMA BlockStarts ==
    ASSUME NEW a, AType(a), Counted(a), NEW h \in Host, HeardCalls(a, h), NEW s \in Nat,
           NEW event, AnthropicEvents(event), event.type = "content_block_start",
           BlockStart(a, event).ok
    PROVE  AGoesOn(BlockStart(a, event), a, h, s, event.index)
<1> DEFINE wire == event.block
           x == NewBlock(wire, a.tools)
           t == IF IsTool(wire) THEN a.tools + 1 ELSE a.tools
           a2 == [a EXCEPT !.blocks = Append(a.blocks, x), !.tools = t]
           deltas == OpeningDeltas(a, wire)
           h2 == FoldLeft(Hear, h, deltas)
           r == BlockStart(a, event)
<1>0. r = Accepted(a2, deltas) /\ event.index = Len(a.blocks)
    BY DEF BlockStart, Broken, Rejected
<1>1. /\ "type" \in DOMAIN wire
      /\ wire.type = "text" => "text" \in DOMAIN wire /\ wire.text \in Text
      /\ wire.type = "thinking" => wire.thinking \in Text
      /\ IsTool(wire) => /\ {"id", "name", "input"} \subseteq DOMAIN wire
                         /\ wire.id \in STRING /\ wire.name \in Text
    BY DEF AnthropicEvents
<1>2. a.tools \in Nat /\ Len(a.blocks) \in Nat /\ t \in Nat
    BY BlocksAre
<1>3. IsBlock(x) /\ x.wire = wire /\ x.call = a.tools /\ Sound(x) /\ x.arguments = <<>> /\ x.closed = FALSE
    <2>1. FineWire(wire)
        BY <1>1 DEF FineWire
    <2>2. <<>> \in Text
        BY EmptySeq DEF Text
    <2> HIDE DEF wire
    <2>3. x \in ABlock({wire}) /\ x.wire = wire
        BY <1>2, <2>2 DEF NewBlock, ABlock
    <2>4. Sound(x) /\ x.call = a.tools /\ x.arguments = <<>> /\ x.closed = FALSE
        BY DEF Sound, NewBlock
    <2> HIDE DEF x
    <2> QED BY <2>1, <2>3, <2>4 DEF IsBlock
<1> HIDE DEF x
<1>4. Appended(a2, a, x)
    <2>1. OneBlockMore(a2, a, x, t)
        <3> HIDE DEF t
        <3> QED BY <1>2, <1>3, AppendBlock
    <2> HIDE DEF a2
    <2>2. t = a.tools + (IF IsTool(x.wire) THEN 1 ELSE 0)
        BY <1>2, <1>3
    <2> HIDE DEF t
    <2> QED BY <1>3, <2>1, <2>2 DEF Appended, OneBlockMore
<1>5. AType(a2) /\ a2.tools = a.tools + (IF IsTool(wire) THEN 1 ELSE 0)
    <2> HIDE DEF a2
    <2> QED BY <1>3, <1>4 DEF Appended
<1> HIDE DEF a2, wire
<1>6. Counted(a2)
    BY <1>4, CountedAppended
<1>7. DOMAIN h.calls = 0..a.tools - 1 /\ h.text \in Seq(STRING)
    BY DEF HeardCalls, Host, Text
<1>8. h2.text = h.text \o TextIn(wire) /\ HeardTexts(a, h, s) =>
          /\ TextIn(wire) = <<>> => HeardTexts(a2, h2, s)
          /\ TextIn(wire) # <<>> => HeardTexts(a2, h2, Len(a.blocks))
    <2> HIDE DEF h2
    <2> QED BY <1>3, <1>4, HeardTextsAppended
<1>9. ASSUME ~IsTool(wire), h2.calls = h.calls PROVE HeardCalls(a2, h2)
    <2> HIDE DEF h2
    <2>1. a2.tools = a.tools
        BY <1>2, <1>5, <1>9
    <2>2. DOMAIN h2.calls = 0..a2.tools - 1 /\ \A j \in 0..a.tools - 1 : h2.calls[j] = h.calls[j]
        BY <1>7, <1>9, <2>1
    <2> QED BY <1>3, <1>4, <1>9, <2>2, HeardCallsAppended
<1>e. TextIn(wire) = <<>> => h.text = h.text \o TextIn(wire)
    BY <1>7, ConcatEmptySeq
<1>q. ASSUME deltas \in Seq(Deltas), h2 \in Host, HeardCalls(a2, h2), h2.text = h.text \o TextIn(wire),
             SaysText(deltas) <=> TextIn(wire) # <<>>
      PROVE  AGoesOn(r, a, h, s, event.index)
    <2>1. h2 = FoldLeft(Hear, h, deltas)
        OBVIOUS
    <2> HIDE DEF deltas, r, h2
    <2>2. HeardTexts(a, h, s) => /\ ~SaysText(deltas) => HeardTexts(a2, h2, s)
                                 /\ SaysText(deltas) /\ event.index >= s => HeardTexts(a2, h2, event.index)
        BY <1>0, <1>8, <1>q
    <2> QED BY <1>0, <1>5, <1>6, <1>q, <2>1, <2>2, GoesOn
<1>10. CASE wire.type = "text"
    <2>1. TextIn(wire) = wire.text /\ wire.text \in Text /\ ~IsTool(wire)
        BY <1>1, <1>10 DEF TextIn, IsTool
    <2>2. deltas = IF wire.text = <<>> THEN <<>> ELSE <<TextDelta(wire.text)>>
        BY <1>10 DEF OpeningDeltas, NonEmpty, IsTool
    <2>3. CASE wire.text = <<>>
        <3>1. deltas = <<>>
            BY <2>2, <2>3
        <3>2. h2 = h /\ deltas \in Seq(Deltas) /\ ~SaysText(deltas)
            BY <3>1, NothingSaid
        <3> HIDE DEF deltas, h2
        <3> QED BY <1>9, <1>e, <1>q, <2>1, <2>3, <3>2
    <2>4. CASE wire.text # <<>>
        <3>1. deltas = <<TextDelta(wire.text)>>
            BY <2>2, <2>4
        <3>2. deltas \in Seq(Deltas) /\ SaysText(deltas) /\ SaidText(h2, h, wire.text)
            BY <2>1, <2>4, <3>1, TextSaid
        <3> HIDE DEF deltas, h2
        <3> QED BY <1>9, <1>q, <2>1, <2>4, <3>2 DEF SaidText
    <2> QED BY <2>3, <2>4
<1>11. CASE wire.type = "thinking"
    <2>1. TextIn(wire) = <<>> /\ wire.thinking \in Text /\ ~IsTool(wire)
        BY <1>1, <1>11 DEF TextIn, IsTool
    <2>2. deltas = IF wire.thinking = <<>> THEN <<>> ELSE <<ReasoningDelta(wire.thinking)>>
        BY <1>11 DEF OpeningDeltas, NonEmpty, IsTool
    <2>3. h2 = h /\ deltas \in Seq(Deltas) /\ ~SaysText(deltas)
        BY <2>1, <2>2, NothingSaid, ReasoningSaid
    <2> HIDE DEF deltas, h2
    <2> QED BY <1>9, <1>e, <1>q, <2>1, <2>3
<1>12. CASE IsTool(wire)
    <2> DEFINE id == <<wire.id>>
               name == <<wire.name>>
               none == <<>>
    <2>1. /\ TextIn(wire) = <<>> /\ id \in Seq(STRING) /\ name \in Seq(Text) /\ none \in Seq(Text)
          /\ wire.name \in Text /\ id # <<>>
        <3>1. wire.id \in STRING /\ wire.name \in Text /\ TextIn(wire) = <<>>
            BY <1>1, <1>12 DEF TextIn, IsTool
        <3>2. none \in Seq(Text)
            BY EmptySeq
        <3> QED BY <3>1, <3>2
    <2>2. deltas = <<ToolCallDelta(a.tools, id, name, none)>>
        BY <1>12 DEF OpeningDeltas, IsTool
    <2>3. deltas \in Seq(Deltas) /\ ~SaysText(deltas) /\ SaidCall(h2, h, a.tools, id, name, none)
        <3> HIDE DEF id, name, none, deltas
        <3> QED BY <1>2, <2>1, <2>2, CallSaid
    <2>4. Known(h.calls, a.tools) = Unheard
        <3>1. a.tools \notin 0..a.tools - 1
            BY <1>2
        <3> QED BY <1>7, <3>1 DEF Known
    <2>5. FlattenSeq(name) = wire.name /\ FlattenSeq(none) = <<>>
        BY <2>1, FlattenText
    <2>6. <<>> \o wire.name = wire.name /\ <<>> \o <<>> = <<>>
        BY <2>1, ConcatEmptySeq DEF Text
    <2> HIDE DEF id, name, none, deltas, h2
    <2>7. /\ h2 \in Host /\ h2.text = h.text
          /\ DOMAIN h2.calls = DOMAIN h.calls \cup {a.tools}
          /\ \A j \in DOMAIN h.calls : j # a.tools => h2.calls[j] = h.calls[j]
          /\ h2.calls[a.tools].id = id
          /\ h2.calls[a.tools].name = wire.name
          /\ h2.calls[a.tools].arguments = <<>>
        BY <2>3, <2>4, <2>5, <2>6 DEF SaidCall, Unheard
    <2>8. HeardBlock(x, h2.calls[a.tools])
        BY <1>3, <2>7 DEF HeardBlock, id
    <2>9. DOMAIN h2.calls = 0..a2.tools - 1 /\ \A j \in 0..a.tools - 1 : h2.calls[j] = h.calls[j]
        <3>1. a2.tools = a.tools + 1
            BY <1>5, <1>12
        <3>2. (0..a.tools - 1) \cup {a.tools} = 0..(a.tools + 1) - 1 /\ \A j \in 0..a.tools - 1 : j # a.tools
            BY <1>2
        <3> QED BY <1>7, <2>7, <3>1, <3>2
    <2>10. HeardCalls(a2, h2)
        BY <1>3, <1>4, <2>8, <2>9, HeardCallsAppended
    <2> QED BY <1>e, <1>q, <2>1, <2>3, <2>7, <2>10
<1>13. CASE wire.type \notin {"text", "thinking"} /\ ~IsTool(wire)
    <2>1. TextIn(wire) = <<>>
        BY <1>13 DEF TextIn
    <2>2. deltas = <<>>
        BY <1>13 DEF OpeningDeltas
    <2>3. h2 = h /\ deltas \in Seq(Deltas) /\ ~SaysText(deltas)
        BY <2>2, NothingSaid
    <2> HIDE DEF deltas, h2
    <2> QED BY <1>9, <1>13, <1>e, <1>q, <2>1, <2>3
<1> QED BY <1>10, <1>11, <1>12, <1>13

(* One field set.                                                            *)
IsWith(w2, w, key, value) ==
    /\ DOMAIN w2 = DOMAIN w \cup {key} /\ w2[key] = value
    /\ \A k \in DOMAIN w : k # key => w2[k] = w[k]

(* The others are as they were.                                              *)
LEMMA FieldSet ==
    ASSUME NEW w, NEW key, NEW value
    PROVE  IsWith(WithField(w, key, value), w, key, value)
BY DEF WithField, IsWith

(* The wire of a text block grows by a fragment of its text.                 *)
LEMMA GrownText ==
    ASSUME NEW w, FineWire(w), w.type = "text", NEW t \in Text, NEW w2, w2 = Grown(w, "text", t)
    PROVE  FineWire(w2) /\ w2.type = w.type /\ TextIn(w2) = TextIn(w) \o t
<1>1. "type" \in DOMAIN w /\ "text" \in DOMAIN w /\ w.text \in Seq(STRING)
    BY DEF FineWire, Text
<1> DEFINE value == w.text \o t
<1>2. w2 = WithField(w, "text", value)
    BY <1>1 DEF Grown
<1>3. value \in Text
    BY <1>1, ConcatProperties DEF Text
<1> HIDE DEF value
<1>4. "text" \in DOMAIN w2 /\ w2.text = value /\ "type" \in DOMAIN w2 /\ w2.type = w.type
    <2>1. IsWith(w2, w, "text", value)
        BY <1>2, FieldSet
    <2> QED BY <1>1, <2>1 DEF IsWith
<1> QED BY <1>3, <1>4 DEF FineWire, TextIn, IsTool, value

(* Any other field a fragment goes to says nothing.                          *)
LEMMA GrownField ==
    ASSUME NEW w, FineWire(w), NEW field \in {"thinking", "signature", "citations"}, NEW t,
           NEW w2, w2 = Grown(w, field, t)
    PROVE  FineWire(w2) /\ w2.type = w.type /\ TextIn(w2) = TextIn(w)
<1> DEFINE value == IF field \in DOMAIN w THEN w[field] \o t ELSE t
<1>1. w2 = WithField(w, field, value)
    BY DEF Grown
<1> HIDE DEF value
<1>2. DOMAIN w2 = DOMAIN w \cup {field} /\ \A k \in DOMAIN w : k # field => w2[k] = w[k]
    <2>1. IsWith(w2, w, field, value)
        BY <1>1, FieldSet
    <2> QED BY <2>1 DEF IsWith
<1>3. "type" \in DOMAIN w /\ w2.type = w.type /\ "type" \in DOMAIN w2
    BY <1>2 DEF FineWire
<1>4. w.type = "text" => "text" \in DOMAIN w2 /\ w2.text = w.text
    BY <1>2 DEF FineWire
<1>5. IsTool(w) => /\ {"id", "name", "input"} \subseteq DOMAIN w2
                   /\ w2.id = w.id /\ w2.name = w.name
    BY <1>2 DEF FineWire
<1> QED BY <1>3, <1>4, <1>5 DEF FineWire, TextIn, IsTool

(* A block with another wire, and one with more arguments.                   *)
Rewired(x, block, w) ==
    /\ IsBlock(x) /\ x.wire = w /\ x.call = block.call /\ x.arguments = block.arguments
    /\ (x.saw_arguments <=> block.saw_arguments) /\ (x.incomplete <=> block.incomplete)
    /\ (x.closed <=> block.closed)

(* Setting the wire of a block.                                              *)
LEMMA Rewire ==
    ASSUME NEW block, IsBlock(block), NEW w, FineWire(w)
    PROVE  Rewired([block EXCEPT !.wire = w], block, w)
<1> DEFINE x == [block EXCEPT !.wire = w]
<1>1. block \in ABlock({block.wire})
    BY DEF IsBlock
<1>2. x \in ABlock({w}) /\ x.wire = w
    BY <1>1 DEF ABlock
<1>3. /\ x.call = block.call /\ x.arguments = block.arguments
      /\ (x.saw_arguments <=> block.saw_arguments) /\ (x.incomplete <=> block.incomplete)
      /\ (x.closed <=> block.closed)
    BY <1>1 DEF ABlock
<1> HIDE DEF x
<1>4. Rewired(x, block, w)
    BY <1>2, <1>3 DEF Rewired, IsBlock
<1> QED BY <1>4 DEF x

(* A block that has taken arguments.                                         *)
Fed(x, block, args) ==
    /\ IsBlock(x) /\ x.wire = block.wire /\ x.call = block.call /\ x.arguments = args
    /\ x.saw_arguments /\ (x.incomplete <=> block.incomplete) /\ (x.closed <=> block.closed)

(* Setting its arguments.                                                    *)
LEMMA Feed ==
    ASSUME NEW block, IsBlock(block), NEW args \in Text
    PROVE  Fed([block EXCEPT !.arguments = args, !.saw_arguments = TRUE], block, args)
<1> DEFINE y == [block EXCEPT !.arguments = args]
           x == [block EXCEPT !.arguments = args, !.saw_arguments = TRUE]
<1>1. FineWire(block.wire) /\ block \in ABlock({block.wire})
    BY DEF IsBlock
<1>2. y \in ABlock({block.wire}) /\ y.arguments = args
    BY <1>1 DEF ABlock
<1>3. y.call = block.call /\ (y.incomplete <=> block.incomplete) /\ (y.closed <=> block.closed)
    BY <1>1 DEF ABlock
<1>4. x = [y EXCEPT !.saw_arguments = TRUE]
    BY <1>1 DEF ABlock
<1> HIDE DEF x, y
<1>5. x \in ABlock({block.wire}) /\ x.arguments = args /\ x.wire = block.wire
    BY <1>2, <1>4 DEF ABlock
<1>6. x.saw_arguments /\ x.call = y.call /\ (x.incomplete <=> y.incomplete) /\ (x.closed <=> y.closed)
    BY <1>2, <1>4 DEF ABlock
<1>7. Fed(x, block, args)
    BY <1>1, <1>3, <1>5, <1>6 DEF Fed, IsBlock
<1> QED BY <1>7 DEF x

(* An event that replaces its block goes on.                                 *)
LEMMA ReplacedGoesOn ==
    ASSUME NEW a, AType(a), Counted(a), NEW h \in Host, HeardCalls(a, h), NEW s \in Nat,
           NEW at \in Nat, NEW b \in 1..Len(a.blocks), b = at + 1, NEW a2, NEW x, Replaced(a2, a, b, x),
           Succeeds(x, a.blocks[b]), NEW deltas \in Seq(Deltas), NEW r, r = Accepted(a2, deltas),
           NEW h2 \in Host, h2 = FoldLeft(Hear, h, deltas), OthersKept(a, b, h2, h),
           IsTool(x.wire) => HeardBlock(x, h2.calls[x.call]),
           NEW d \in Text, Says(d, x, a.blocks[b], h2, h), SaysText(deltas) <=> d # <<>>
    PROVE  AGoesOn(r, a, h, s, at)
<1>1. Counted(a2)
    BY CountedReplaced
<1>2. HeardCalls(a2, h2)
    BY HeardCallsReplaced
<1>3. HeardTexts(a, h, s) => /\ ~SaysText(deltas) => HeardTexts(a2, h2, s)
                             /\ SaysText(deltas) /\ at >= s => HeardTexts(a2, h2, at)
    BY HeardTextsReplaced
<1>4. AType(a2)
    BY DEF Replaced
<1> QED BY <1>1, <1>2, <1>3, <1>4, GoesOn

(* content_block_delta.                                                      *)
LEMMA BlockGrows ==
    ASSUME NEW a, AType(a), Counted(a), NEW h \in Host, HeardCalls(a, h), NEW s \in Nat,
           NEW event, AnthropicEvents(event), event.type = "content_block_delta",
           BlockDelta(a, event).ok
    PROVE  AGoesOn(BlockDelta(a, event), a, h, s, event.index)
<1> DEFINE at == event.index
           b == at + 1
           block == a.blocks[b]
           delta == event.delta
           text == delta.text
           r == BlockDelta(a, event)
<1>0. OpenBlock(a, event) /\ DeltaFits(block.wire, delta)
    BY DEF BlockDelta, Broken, Rejected
<1>1. at \in Nat /\ b \in 1..Len(a.blocks) /\ b = at + 1 /\ ~block.closed /\ text \in Text
    <2>1. at \in Nat /\ text \in Text
        BY DEF AnthropicEvents
    <2>2. Len(a.blocks) \in Nat /\ at < Len(a.blocks) /\ ~block.closed
        BY <1>0, BlocksAre DEF OpenBlock
    <2> QED BY <2>1, <2>2
<1>2. /\ IsBlock(block) /\ FineWire(block.wire) /\ block.call \in Nat /\ block.arguments \in Seq(STRING)
    <2>1. IsBlock(block)
        BY <1>1, BlocksAre
    <2> HIDE DEF block
    <2> QED BY <2>1 DEF IsBlock, ABlock, Text
<1>3. Sound(block) /\ (IsTool(block.wire) => HeardBlock(block, h.calls[block.call]))
    BY <1>1 DEF HeardCalls
<1>4. DOMAIN h.calls = 0..a.tools - 1 /\ h.text \in Seq(STRING) /\ text \in Seq(STRING)
    BY <1>1 DEF HeardCalls, Host, Text
<1>5. IsTool(block.wire) =>
          /\ block.call \in 0..a.tools - 1
          /\ \A c \in 1..Len(a.blocks) :
                 c # b /\ IsTool(a.blocks[c].wire) => a.blocks[c].call # block.call
    BY <1>1, CallNumbers
<1>6. \A c \in 1..Len(a.blocks) : IsTool(a.blocks[c].wire) => a.blocks[c].call \in 0..a.tools - 1
    BY CallNumbers
<1>e. h.text = h.text \o <<>> /\ TextIn(block.wire) = TextIn(block.wire) \o <<>> /\ <<>> \in Text
    <2>1. TextIn(block.wire) \in Seq(STRING)
        <3>1. <<>> \in Seq(STRING)
            BY EmptySeq
        <3> QED BY <1>2, <3>1 DEF FineWire, TextIn, Text
    <2>2. <<>> \in Text
        BY EmptySeq DEF Text
    <2> QED BY <1>4, <2>1, <2>2, ConcatEmptySeq
<1>7. CASE delta.type = "input_json_delta"
    <2> DEFINE args == block.arguments \o text
               x == [block EXCEPT !.arguments = args, !.saw_arguments = TRUE]
               a2 == [a EXCEPT !.blocks = [a.blocks EXCEPT ![b] = x]]
               deltas == IF IsTool(block.wire) THEN <<ToolCallDelta(block.call, <<>>, <<>>, <<text>>)>> ELSE <<>>
               h2 == FoldLeft(Hear, h, deltas)
    <2>1. r = Accepted(a2, deltas)
        <3>1. [a EXCEPT !.blocks[b].arguments = block.arguments \o text, !.blocks[b].saw_arguments = TRUE] = a2
            OBVIOUS
        <3> QED BY <1>0, <1>7, <3>1 DEF BlockDelta
    <2>2. block.wire.type # "text"
        <3>1. FieldOf(delta) = "none"
            BY <1>7 DEF FieldOf
        <3>2. TakesInput(block.wire)
            BY <1>0, <1>7, <3>1 DEF DeltaFits
        <3> QED BY <3>2 DEF TakesInput, IsTool
    <2>3. args \in Text
        BY <1>2, <1>4, ConcatProperties DEF Text
    <2>4. Fed(x, block, args)
        <3> HIDE DEF args, block
        <3> QED BY <1>2, <2>3, Feed
    <2> HIDE DEF x
    <2>5. Replaced(a2, a, b, x)
        BY <1>1, <2>4, ReplaceBlock DEF Fed
    <2> HIDE DEF a2
    <2>6. Succeeds(x, block) /\ x.wire = block.wire /\ x.call = block.call
        BY <2>2, <2>4 DEF Sound, Fed, Succeeds
    <2>7. CASE IsTool(block.wire)
        <3> DEFINE none == <<>>
                   more == <<text>>
        <3>1. deltas = <<ToolCallDelta(block.call, none, none, more)>>
            BY <2>7
        <3>2. none \in Seq(STRING) /\ none \in Seq(Text) /\ more \in Seq(Text)
            BY <1>1, EmptySeq
        <3>3. deltas \in Seq(Deltas) /\ ~SaysText(deltas) /\ SaidCall(h2, h, block.call, none, none, more)
            <4> HIDE DEF none, more, deltas
            <4> QED BY <1>2, <3>1, <3>2, CallSaid
        <3>4. Known(h.calls, block.call) = h.calls[block.call]
            BY <1>4, <1>5, <2>7 DEF Known
        <3>5. /\ h.calls[block.call].id = <<block.wire.id>> /\ h.calls[block.call].name = block.wire.name
              /\ h.calls[block.call].arguments = block.arguments
            BY <1>1, <1>3, <2>7 DEF HeardBlock
        <3>6. FlattenSeq(none) = <<>> /\ FlattenSeq(more) = text /\ block.wire.name \o <<>> = block.wire.name
            <4>1. block.wire.name \in Seq(STRING)
                BY <1>2, <2>7 DEF FineWire, Text
            <4> QED BY <1>1, <4>1, FlattenText, ConcatEmptySeq
        <3>7. <<block.wire.id>> # <<>>
            OBVIOUS
        <3> HIDE DEF none, more, deltas, h2
        <3>8. /\ h2 \in Host /\ h2.text = h.text /\ DOMAIN h2.calls = DOMAIN h.calls
              /\ \A j \in DOMAIN h.calls : j # block.call => h2.calls[j] = h.calls[j]
              /\ h2.calls[block.call].id = <<block.wire.id>>
              /\ h2.calls[block.call].name = block.wire.name
              /\ h2.calls[block.call].arguments = args
            <4> DEFINE i == block.call
                       known == Known(h.calls, i)
            <4> HIDE DEF i, known
            <4>1. /\ h2 \in Host /\ h2.text = h.text /\ DOMAIN h2.calls = DOMAIN h.calls \cup {i}
                  /\ \A j \in DOMAIN h.calls : j # i => h2.calls[j] = h.calls[j]
                  /\ h2.calls[i].id = (IF known.id = <<>> THEN none ELSE known.id)
                  /\ h2.calls[i].name = known.name \o FlattenSeq(none)
                  /\ h2.calls[i].arguments = known.arguments \o FlattenSeq(more)
                BY <3>3 DEF SaidCall, i, known
            <4>2. i \in DOMAIN h.calls
                BY <1>4, <1>5, <2>7 DEF i
            <4>3. /\ known.id = <<block.wire.id>> /\ known.name = block.wire.name
                  /\ known.arguments = block.arguments
                BY <3>4, <3>5 DEF i, known
            <4>4. known.id # <<>>
                BY <3>7, <4>3
            <4>5. /\ h2.calls[i].id = <<block.wire.id>> /\ h2.calls[i].name = block.wire.name
                  /\ h2.calls[i].arguments = args
                BY <3>6, <4>1, <4>3, <4>4
            <4>6. DOMAIN h2.calls = DOMAIN h.calls
                BY <4>1, <4>2
            <4> QED BY <4>1, <4>5, <4>6 DEF i
        <3>9. HeardBlock(x, h2.calls[x.call])
            BY <1>1, <2>4, <2>6, <3>8 DEF HeardBlock, Fed
        <3>10. OthersKept(a, b, h2, h)
            BY <1>4, <1>5, <1>6, <2>7, <3>8 DEF OthersKept
        <3>11. h2 = FoldLeft(Hear, h, deltas)
            BY DEF h2
        <3> DEFINE d == <<>>
        <3>12. d \in Text /\ Says(d, x, block, h2, h) /\ d = <<>>
            BY <1>e, <2>6, <3>8 DEF Says
        <3> HIDE DEF d, r, at, b
        <3>13. AGoesOn(r, a, h, s, at)
            BY <1>1, <2>1, <2>5, <2>6, <3>3, <3>8, <3>9, <3>10, <3>11, <3>12, ReplacedGoesOn
        <3> QED BY <3>13 DEF r, at
    <2>8. CASE ~IsTool(block.wire)
        <3>1. deltas = <<>>
            BY <2>8
        <3>2. h2 = h /\ deltas \in Seq(Deltas) /\ ~SaysText(deltas)
            BY <3>1, NothingSaid
        <3>3. h2 = FoldLeft(Hear, h, deltas)
            OBVIOUS
        <3> HIDE DEF deltas, h2
        <3> DEFINE d == <<>>
        <3>4. d \in Text /\ Says(d, x, block, h2, h) /\ d = <<>>
            BY <1>e, <2>6, <3>2 DEF Says
        <3>5. OthersKept(a, b, h2, h)
            BY <3>2 DEF OthersKept
        <3> HIDE DEF d, r, at, b
        <3>6. AGoesOn(r, a, h, s, at)
            BY <1>1, <2>1, <2>5, <2>6, <2>8, <3>2, <3>3, <3>4, <3>5, ReplacedGoesOn
        <3> QED BY <3>6 DEF r, at
    <2> QED BY <2>7, <2>8
<1>8. ASSUME NEW w, FineWire(w), w.type = block.wire.type, NEW d \in Text, TextIn(w) = TextIn(block.wire) \o d,
             ~IsTool(block.wire), NEW deltas \in Seq(Deltas), SaysText(deltas) <=> d # <<>>,
             NEW h2 \in Host, h2 = FoldLeft(Hear, h, deltas), h2.calls = h.calls, h2.text = h.text \o d,
             r = Accepted([a EXCEPT !.blocks[b].wire = w], deltas)
      PROVE  AGoesOn(r, a, h, s, at)
    <2> DEFINE x == [block EXCEPT !.wire = w]
               a2 == [a EXCEPT !.blocks = [a.blocks EXCEPT ![b] = x]]
    <2>1. [a EXCEPT !.blocks[b].wire = w] = a2
        OBVIOUS
    <2>2. Rewired(x, block, w)
        <3> HIDE DEF block
        <3> QED BY <1>2, <1>8, Rewire
    <2> HIDE DEF x
    <2>3. Replaced(a2, a, b, x)
        BY <1>1, <2>2, ReplaceBlock DEF Rewired
    <2> HIDE DEF a2
    <2>4. Succeeds(x, block) /\ x.wire = w /\ ~IsTool(x.wire)
        BY <1>3, <1>8, <2>2 DEF Sound, Rewired, IsTool, Succeeds
    <2>5. OthersKept(a, b, h2, h) /\ Says(d, x, block, h2, h)
        BY <1>8, <2>4 DEF OthersKept, Says
    <2>6. r = Accepted(a2, deltas)
        BY <1>8, <2>1
    <2>7. /\ h2 = FoldLeft(Hear, h, deltas) /\ (SaysText(deltas) <=> d # <<>>)
          /\ Succeeds(x, a.blocks[b]) /\ ~IsTool(x.wire) /\ Says(d, x, a.blocks[b], h2, h)
        BY <1>8, <2>4, <2>5
    <2> HIDE DEF r, at, b, block, delta, text
    <2> QED BY <1>1, <2>3, <2>5, <2>6, <2>7, ReplacedGoesOn
<1>9. CASE delta.type = "text_delta"
    <2> DEFINE w == Grown(block.wire, "text", text)
               deltas == <<TextDelta(text)>>
               h2 == FoldLeft(Hear, h, deltas)
    <2>1. FieldOf(delta) = "text"
        BY <1>9 DEF FieldOf
    <2>2. block.wire.type = "text" /\ ~IsTool(block.wire)
        BY <1>0, <1>9, <2>1 DEF DeltaFits, IsTool
    <2>3. FineWire(w) /\ w.type = block.wire.type /\ TextIn(w) = TextIn(block.wire) \o text
        BY <1>1, <1>2, <2>2, GrownText
    <2>4. r = Accepted([a EXCEPT !.blocks[b].wire = w], deltas)
        BY <1>0, <1>9, <2>1 DEF BlockDelta
    <2>5. deltas \in Seq(Deltas) /\ (SaysText(deltas) <=> text # <<>>) /\ SaidText(h2, h, text)
        BY <1>1, TextSaid
    <2>6. h2 = FoldLeft(Hear, h, deltas)
        OBVIOUS
    <2>7. h2 \in Host /\ h2.calls = h.calls /\ h2.text = h.text \o text
        BY <2>5 DEF SaidText
    <2> HIDE DEF w, deltas, h2, r, at, b, block, text
    <2>8. AGoesOn(r, a, h, s, at)
        BY <1>1, <1>8, <2>2, <2>3, <2>4, <2>5, <2>6, <2>7
    <2> QED BY <2>8 DEF r, at
<1>10. ASSUME delta.type \in {"thinking_delta", "signature_delta", "citations_delta"}
       PROVE  AGoesOn(r, a, h, s, at)
    <2> DEFINE w == Grown(block.wire, FieldOf(delta), text)
               deltas == IF delta.type = "thinking_delta" THEN <<ReasoningDelta(text)>> ELSE <<>>
               h2 == FoldLeft(Hear, h, deltas)
    <2>1. FieldOf(delta) \in {"thinking", "signature", "citations"}
        BY <1>10 DEF FieldOf
    <2>2. ~IsTool(block.wire)
        BY <1>0, <1>10, <2>1 DEF DeltaFits, IsTool
    <2>3. FineWire(w) /\ w.type = block.wire.type /\ TextIn(w) = TextIn(block.wire)
        BY <1>2, <2>1, GrownField
    <2>4. r = Accepted([a EXCEPT !.blocks[b].wire = w], deltas)
        BY <1>0, <1>10 DEF BlockDelta
    <2>5. deltas \in Seq(Deltas) /\ ~SaysText(deltas) /\ h2 = h
        BY <1>1, NothingSaid, ReasoningSaid
    <2>6. h2 = FoldLeft(Hear, h, deltas)
        OBVIOUS
    <2> DEFINE d == <<>>
    <2>7. d \in Text /\ TextIn(w) = TextIn(block.wire) \o d /\ h2.text = h.text \o d /\ d = <<>>
        BY <1>e, <2>3, <2>5
    <2>8. h2 \in Host /\ h2.calls = h.calls /\ (SaysText(deltas) <=> d # <<>>)
        BY <2>5
    <2> HIDE DEF w, deltas, h2, r, d, at, b, block, text
    <2>9. AGoesOn(r, a, h, s, at)
        BY <1>8, <2>2, <2>3, <2>4, <2>5, <2>6, <2>7, <2>8
    <2> QED BY <2>9 DEF r, at
<1>11. delta.type \in {"input_json_delta", "text_delta", "thinking_delta", "signature_delta", "citations_delta"}
    BY <1>0 DEF DeltaFits, FieldOf
<1> QED BY <1>7, <1>9, <1>10, <1>11

(* A block that is closed, and one that is found incomplete.                 *)
Shut(x, block) ==
    /\ IsBlock(x) /\ x.wire = block.wire /\ x.call = block.call /\ x.arguments = <<>>
    /\ (x.saw_arguments <=> block.saw_arguments) /\ (x.incomplete <=> block.incomplete) /\ x.closed

(* Closing it.                                                               *)
LEMMA ShutBlock ==
    ASSUME NEW block, IsBlock(block)
    PROVE  Shut([block EXCEPT !.closed = TRUE, !.arguments = <<>>], block)
<1> DEFINE y == [block EXCEPT !.closed = TRUE]
           x == [block EXCEPT !.closed = TRUE, !.arguments = <<>>]
<1>1. FineWire(block.wire) /\ block \in ABlock({block.wire})
    BY DEF IsBlock
<1>2. y \in ABlock({block.wire})
    BY <1>1 DEF ABlock
<1>3. /\ y.call = block.call /\ (y.incomplete <=> block.incomplete)
      /\ (y.saw_arguments <=> block.saw_arguments) /\ y.closed
    BY <1>1 DEF ABlock
<1>4. x = [y EXCEPT !.arguments = <<>>] /\ <<>> \in Text
    <2>1. <<>> \in Text
        BY EmptySeq DEF Text
    <2> QED BY <1>1, <2>1 DEF ABlock
<1> HIDE DEF x, y
<1>5. x \in ABlock({block.wire}) /\ x.arguments = <<>> /\ x.wire = block.wire
    BY <1>2, <1>4 DEF ABlock
<1>6. /\ x.call = y.call /\ (x.incomplete <=> y.incomplete)
      /\ (x.saw_arguments <=> y.saw_arguments) /\ (x.closed <=> y.closed)
    BY <1>2, <1>4 DEF ABlock
<1>7. Shut(x, block)
    BY <1>1, <1>3, <1>5, <1>6 DEF Shut, IsBlock
<1> QED BY <1>7 DEF x

(* A block whose arguments were cut off.                                     *)
Marked(x, block) ==
    /\ IsBlock(x) /\ x.wire = block.wire /\ x.call = block.call /\ x.arguments = block.arguments
    /\ (x.saw_arguments <=> block.saw_arguments) /\ x.incomplete /\ (x.closed <=> block.closed)

(* Marking it.                                                               *)
LEMMA MarkBlock ==
    ASSUME NEW block, IsBlock(block)
    PROVE  Marked([block EXCEPT !.incomplete = TRUE], block)
<1> DEFINE x == [block EXCEPT !.incomplete = TRUE]
<1>1. FineWire(block.wire) /\ block \in ABlock({block.wire})
    BY DEF IsBlock
<1>2. x \in ABlock({block.wire}) /\ x.wire = block.wire /\ x.arguments = block.arguments
    BY <1>1 DEF ABlock
<1>3. /\ x.call = block.call /\ (x.saw_arguments <=> block.saw_arguments) /\ x.incomplete
      /\ (x.closed <=> block.closed)
    BY <1>1 DEF ABlock
<1> HIDE DEF x
<1>4. Marked(x, block)
    BY <1>1, <1>2, <1>3 DEF Marked, IsBlock
<1> QED BY <1>4 DEF x

(* The input of a call is put in its wire.                                   *)
LEMMA InputSet ==
    ASSUME NEW w, FineWire(w), NEW input, NEW w2, w2 = [w EXCEPT !.input = input]
    PROVE  /\ FineWire(w2) /\ w2.type = w.type /\ TextIn(w2) = TextIn(w)
           /\ IsTool(w) => w2.id = w.id /\ w2.name = w.name /\ w2.input = input
<1>1. DOMAIN w2 = DOMAIN w /\ \A k \in DOMAIN w : k # "input" => w2[k] = w[k]
    OBVIOUS
<1>2. "type" \in DOMAIN w /\ w2.type = w.type
    BY <1>1 DEF FineWire
<1>3. w.type = "text" => "text" \in DOMAIN w /\ w2.text = w.text
    BY <1>1 DEF FineWire
<1>4. IsTool(w) => /\ {"id", "name", "input"} \subseteq DOMAIN w
                   /\ w2.id = w.id /\ w2.name = w.name /\ w2.input = input
    BY <1>1 DEF FineWire
<1> QED BY <1>1, <1>2, <1>3, <1>4 DEF FineWire, TextIn, IsTool

(* An event that says nothing and replaces its block goes on.                *)
LEMMA SilentGoesOn ==
    ASSUME NEW a, AType(a), Counted(a), NEW h \in Host, HeardCalls(a, h), NEW s \in Nat,
           NEW at \in Nat, NEW b \in 1..Len(a.blocks), b = at + 1, NEW x, IsBlock(x),
           Succeeds(x, a.blocks[b]), TextIn(x.wire) = TextIn(a.blocks[b].wire),
           NEW r, r = Accepted([a EXCEPT !.blocks = [a.blocks EXCEPT ![b] = x]], <<>>),
           IsTool(x.wire) => HeardBlock(x, h.calls[x.call])
    PROVE  AGoesOn(r, a, h, s, at)
<1> DEFINE a2 == [a EXCEPT !.blocks = [a.blocks EXCEPT ![b] = x]]
           deltas == <<>>
           d == <<>>
           h2 == FoldLeft(Hear, h, deltas)
<1>1. h2 = h /\ deltas \in Seq(Deltas) /\ ~SaysText(deltas)
    BY NothingSaid
<1>2. Replaced(a2, a, b, x)
    BY ReplaceBlock
<1>3. OthersKept(a, b, h2, h)
    BY <1>1 DEF OthersKept
<1>4. Says(d, x, a.blocks[b], h2, h) /\ d \in Text /\ d = <<>>
    <2>1. FineWire(a.blocks[b].wire) /\ h.text \in Seq(STRING)
        BY BlocksAre DEF IsBlock, Host, Text
    <2>2. <<>> \in Seq(STRING)
        BY EmptySeq
    <2>3. TextIn(a.blocks[b].wire) \in Seq(STRING)
        BY <2>1, <2>2 DEF FineWire, TextIn, Text
    <2>4. /\ TextIn(a.blocks[b].wire) \o <<>> = TextIn(a.blocks[b].wire)
          /\ h.text \o <<>> = h.text
        BY <2>1, <2>3, ConcatEmptySeq
    <2> HIDE DEF h2
    <2> QED BY <1>1, <2>2, <2>4 DEF Says, Text
<1>5. r = Accepted(a2, deltas) /\ h2 = FoldLeft(Hear, h, deltas)
    OBVIOUS
<1> HIDE DEF a2, deltas, d, h2
<1> QED BY <1>1, <1>2, <1>3, <1>4, <1>5, ReplacedGoesOn

(* content_block_stop.                                                       *)
LEMMA BlockStops ==
    ASSUME NEW a, AType(a), Counted(a), NEW h \in Host, HeardCalls(a, h), NEW s \in Nat,
           NEW event, AnthropicEvents(event), event.type = "content_block_stop",
           BlockStop(a, event).ok
    PROVE  AGoesOn(BlockStop(a, event), a, h, s, event.index)
<1> DEFINE at == event.index
           b == at + 1
           block == a.blocks[b]
           input == JsonOf(block.arguments)
           shut == [block EXCEPT !.closed = TRUE, !.arguments = <<>>]
           closed == [a EXCEPT !.blocks[b].closed = TRUE, !.blocks[b].arguments = <<>>]
           r == BlockStop(a, event)
<1>0. OpenBlock(a, event)
    BY DEF BlockStop, Broken, Rejected
<1>1. at \in Nat /\ b \in 1..Len(a.blocks) /\ b = at + 1 /\ ~block.closed
    <2>1. at \in Nat
        BY DEF AnthropicEvents
    <2>2. Len(a.blocks) \in Nat /\ at < Len(a.blocks) /\ ~block.closed
        BY <1>0, BlocksAre DEF OpenBlock
    <2> QED BY <2>1, <2>2
<1>2. IsBlock(block) /\ FineWire(block.wire)
    BY <1>1, BlocksAre DEF IsBlock
<1>3. Sound(block) /\ (IsTool(block.wire) => HeardBlock(block, h.calls[block.call]))
    BY <1>1 DEF HeardCalls
<1>4. Shut(shut, block)
    <2> HIDE DEF block
    <2> QED BY <1>2, ShutBlock
<1>5. closed = [a EXCEPT !.blocks = [a.blocks EXCEPT ![b] = shut]]
    OBVIOUS
<1>6. ASSUME NEW x, IsBlock(x), Succeeds(x, block), TextIn(x.wire) = TextIn(block.wire),
             r = Accepted([a EXCEPT !.blocks = [a.blocks EXCEPT ![b] = x]], <<>>),
             IsTool(x.wire) => HeardBlock(x, h.calls[x.call])
      PROVE  AGoesOn(r, a, h, s, at)
    <2> HIDE DEF r, at, b
    <2>1. AGoesOn(r, a, h, s, at)
        BY <1>1, <1>6, SilentGoesOn
    <2> QED BY <2>1
<1>7. CASE ~block.saw_arguments
    <2>1. r = Accepted([a EXCEPT !.blocks = [a.blocks EXCEPT ![b] = shut]], <<>>)
        BY <1>0, <1>5, <1>7 DEF BlockStop
    <2>2. block.arguments = <<>>
        BY <1>3, <1>7 DEF Sound
    <2> HIDE DEF shut, r
    <2>3. /\ Succeeds(shut, block) /\ TextIn(shut.wire) = TextIn(block.wire) /\ IsBlock(shut)
          /\ IsTool(shut.wire) => HeardBlock(shut, h.calls[shut.call])
        <3> HIDE DEF block
        <3>1. Succeeds(shut, block) /\ shut.wire = block.wire /\ shut.call = block.call /\ IsBlock(shut)
            BY <1>3, <1>4, <1>7 DEF Succeeds, Shut, Sound
        <3>2. IsTool(block.wire) => HeardBlock(shut, h.calls[block.call])
            BY <1>1, <1>3, <1>4, <2>2 DEF Shut, HeardBlock
        <3> QED BY <3>1, <3>2
    <2>4. AGoesOn(r, a, h, s, at)
        BY <1>6, <2>1, <2>3
    <2> QED BY <2>4 DEF r
<1>8. CASE block.saw_arguments /\ IsObject(input)
    <2> DEFINE w == [block.wire EXCEPT !.input = input]
               x == [shut EXCEPT !.wire = w]
    <2>1. r = Accepted([closed EXCEPT !.blocks[b].wire.input = input], <<>>)
        BY <1>0, <1>8 DEF BlockStop, IsObject
    <2>2. /\ FineWire(w) /\ w.type = block.wire.type /\ TextIn(w) = TextIn(block.wire)
          /\ IsTool(block.wire) => w.id = block.wire.id /\ w.name = block.wire.name /\ w.input = input
        BY <1>2, InputSet
    <2>3. Rewired(x, shut, w)
        <3> HIDE DEF shut, w
        <3> QED BY <1>4, <2>2, Rewire DEF Shut
    <2>4. [closed EXCEPT !.blocks[b].wire.input = input] = [a EXCEPT !.blocks = [a.blocks EXCEPT ![b] = x]]
        <3> DEFINE y == [a.blocks EXCEPT ![b] = shut]
        <3>1. b \in DOMAIN a.blocks /\ y[b] = shut /\ closed.blocks = y /\ y[b].wire = block.wire
            <4>1. b \in DOMAIN a.blocks
                BY <1>1, BlocksAre
            <4>2. "blocks" \in DOMAIN a
                BY DEF AType, AState
            <4>3. shut.wire = block.wire
                <5> HIDE DEF shut
                <5> QED BY <1>4 DEF Shut
            <4> HIDE DEF shut
            <4> QED BY <1>5, <4>1, <4>2, <4>3
        <3>2. [closed EXCEPT !.blocks[b].wire.input = input]
                  = [closed EXCEPT !.blocks = [closed.blocks EXCEPT ![b] = [closed.blocks[b] EXCEPT !.wire =
                        [closed.blocks[b].wire EXCEPT !.input = input]]]]
            <4> HIDE DEF closed
            <4> QED OBVIOUS
        <3>3. [closed.blocks EXCEPT ![b] = [closed.blocks[b] EXCEPT !.wire =
                        [closed.blocks[b].wire EXCEPT !.input = input]]] = [y EXCEPT ![b] = x]
            <4> HIDE DEF closed, y, shut
            <4> QED BY <3>1
        <3>4. [y EXCEPT ![b] = x] = [a.blocks EXCEPT ![b] = x]
            <4> HIDE DEF x, shut
            <4> QED OBVIOUS
        <3>5. [closed EXCEPT !.blocks = [y EXCEPT ![b] = x]] = [a EXCEPT !.blocks = [y EXCEPT ![b] = x]]
            <4> HIDE DEF x, closed, shut
            <4> QED BY <1>5
        <3> QED BY <3>2, <3>3, <3>4, <3>5
    <2> HIDE DEF shut, w, x, r, closed
    <2>5. /\ Succeeds(x, block) /\ TextIn(x.wire) = TextIn(block.wire) /\ IsBlock(x)
          /\ IsTool(x.wire) => HeardBlock(x, h.calls[x.call])
        BY <1>1, <1>3, <1>4, <2>2, <2>3 DEF Succeeds, Shut, Rewired, Sound, HeardBlock, IsTool
    <2>6. AGoesOn(r, a, h, s, at)
        BY <1>6, <2>1, <2>4, <2>5
    <2> QED BY <2>6 DEF r
<1>9. CASE block.saw_arguments /\ ~IsObject(input)
    <2> DEFINE x == [shut EXCEPT !.incomplete = TRUE]
    <2>1. r = Accepted([closed EXCEPT !.blocks[b].incomplete = TRUE], <<>>)
        BY <1>0, <1>9 DEF BlockStop, Broken, Rejected, IsObject
    <2>2. Marked(x, shut)
        <3> HIDE DEF shut
        <3> QED BY <1>4, MarkBlock DEF Shut
    <2>3. [closed EXCEPT !.blocks[b].incomplete = TRUE] = [a EXCEPT !.blocks = [a.blocks EXCEPT ![b] = x]]
        <3>1. b \in DOMAIN a.blocks
            BY <1>1, BlocksAre
        <3>2. "blocks" \in DOMAIN a
            BY DEF AType, AState
        <3> HIDE DEF shut, closed
        <3> QED BY <1>5, <3>1, <3>2
    <2> HIDE DEF shut, x, r, closed
    <2>4. /\ Succeeds(x, block) /\ TextIn(x.wire) = TextIn(block.wire) /\ IsBlock(x)
          /\ IsTool(x.wire) => HeardBlock(x, h.calls[x.call])
        BY <1>1, <1>3, <1>4, <1>9, <2>2 DEF Succeeds, Shut, Marked, Sound, HeardBlock
    <2>5. AGoesOn(r, a, h, s, at)
        BY <1>6, <2>1, <2>3, <2>4
    <2> QED BY <2>5 DEF r
<1> QED BY <1>7, <1>8, <1>9

(* An event that leaves the blocks alone goes on.                            *)
LEMMA QuietGoesOn ==
    ASSUME NEW a, AType(a), Counted(a), NEW h \in Host, HeardCalls(a, h), NEW s, NEW at,
           NEW a2, AType(a2), a2.blocks = a.blocks, a2.tools = a.tools, NEW r, r = Accepted(a2, <<>>)
    PROVE  AGoesOn(r, a, h, s, at)
<1> DEFINE deltas == <<>>
           h2 == FoldLeft(Hear, h, deltas)
<1>1. h2 = h /\ deltas \in Seq(Deltas) /\ ~SaysText(deltas)
    BY NothingSaid
<1>2. Counted(a2) /\ HeardCalls(a2, h) /\ (HeardTexts(a, h, s) => HeardTexts(a2, h, s))
    BY SameBlocks
<1>3. r = Accepted(a2, deltas) /\ h2 = FoldLeft(Hear, h, deltas)
    OBVIOUS
<1> HIDE DEF deltas, h2
<1> QED BY <1>1, <1>2, <1>3, GoesOn

(* The state with another reason, and started.                               *)
LEMMA StateFields ==
    ASSUME NEW a, AType(a), NEW reason \in Seq(STRING)
    PROVE  /\ AType([a EXCEPT !.reason = reason, !.stopped = TRUE])
           /\ [a EXCEPT !.reason = reason, !.stopped = TRUE].blocks = a.blocks
           /\ [a EXCEPT !.reason = reason, !.stopped = TRUE].tools = a.tools
           /\ AType([a EXCEPT !.started = TRUE])
           /\ [a EXCEPT !.started = TRUE].blocks = a.blocks
           /\ [a EXCEPT !.started = TRUE].tools = a.tools
<1>1. PICK W : (\A w \in W : FineWire(w)) /\ a \in AState(W)
    BY DEF AType
<1> DEFINE y == [a EXCEPT !.reason = reason]
           x == [a EXCEPT !.reason = reason, !.stopped = TRUE]
           z == [a EXCEPT !.started = TRUE]
<1>2. y \in AState(W) /\ y.blocks = a.blocks /\ y.tools = a.tools
    BY <1>1 DEF AState
<1>3. x = [y EXCEPT !.stopped = TRUE]
    BY <1>1 DEF AState
<1> HIDE DEF x, y
<1>4. x \in AState(W) /\ x.blocks = y.blocks /\ x.tools = y.tools
    BY <1>2, <1>3 DEF AState
<1>5. z \in AState(W) /\ z.blocks = a.blocks /\ z.tools = a.tools
    BY <1>1 DEF AState
<1> HIDE DEF z
<1>6. AType(x) /\ AType(z)
    BY <1>1, <1>4, <1>5 DEF AType
<1> QED BY <1>2, <1>4, <1>5, <1>6 DEF x, z

(* Every event but the last of a message.                                    *)
LEMMA AnthropicGoesOn ==
    ASSUME NEW a, AType(a), Counted(a), NEW h \in Host, HeardCalls(a, h), NEW s \in Nat,
           NEW event, AnthropicEvents(event), event.type # "message_stop", AnthropicEvent(a, event).ok
    PROVE  AGoesOn(AnthropicEvent(a, event), a, h, s, Position(event))
<1> DEFINE r == AnthropicEvent(a, event)
<1>1. event.type # "error" /\ (event.type \in MessageEvents => r = MessageEvent(a, event))
    BY DEF AnthropicEvent, ProviderError, Broken, Rejected, MessageEvents
<1>2. event.type \in {"content_block_start", "content_block_delta", "content_block_stop"} =>
          Position(event) = event.index
    BY DEF AnthropicEvents, Position
<1>3. CASE event.type = "content_block_start"
    <2>1. r = BlockStart(a, event)
        BY <1>1, <1>3 DEF MessageEvents, MessageEvent
    <2> QED BY <1>2, <1>3, <2>1, BlockStarts
<1>4. CASE event.type = "content_block_delta"
    <2>1. r = BlockDelta(a, event)
        BY <1>1, <1>4 DEF MessageEvents, MessageEvent
    <2> QED BY <1>2, <1>4, <2>1, BlockGrows
<1>5. CASE event.type = "content_block_stop"
    <2>1. r = BlockStop(a, event)
        BY <1>1, <1>5 DEF MessageEvents, MessageEvent
    <2> QED BY <1>2, <1>5, <2>1, BlockStops
<1>6. CASE event.type = "message_delta"
    <2>1. r = MessageDelta(a, event)
        BY <1>1, <1>6 DEF MessageEvents, MessageEvent
    <2>2. event.stop_reason \in Seq(STRING)
        BY <1>6 DEF AnthropicEvents
    <2>3. \/ r = Accepted(a, <<>>)
          \/ r = Accepted([a EXCEPT !.reason = event.stop_reason, !.stopped = TRUE], <<>>)
        BY <2>1 DEF MessageDelta, Broken, Rejected
    <2> HIDE DEF r
    <2>4. CASE r = Accepted(a, <<>>)
        <3>1. AGoesOn(r, a, h, s, Position(event))
            BY <2>4, QuietGoesOn
        <3> QED BY <3>1 DEF r
    <2>5. CASE r = Accepted([a EXCEPT !.reason = event.stop_reason, !.stopped = TRUE], <<>>)
        <3> DEFINE a2 == [a EXCEPT !.reason = event.stop_reason, !.stopped = TRUE]
        <3>1. AType(a2) /\ a2.blocks = a.blocks /\ a2.tools = a.tools /\ r = Accepted(a2, <<>>)
            BY <2>2, <2>5, StateFields
        <3> HIDE DEF a2
        <3>2. AGoesOn(r, a, h, s, Position(event))
            BY <3>1, QuietGoesOn
        <3> QED BY <3>2 DEF r
    <2> QED BY <2>3, <2>4, <2>5
<1>7. CASE event.type = "message_start"
    <2> DEFINE a2 == [a EXCEPT !.started = TRUE]
    <2>1. r = Accepted(a2, <<>>)
        BY <1>7 DEF AnthropicEvent, Broken, Rejected, MessageEvents
    <2>2. AType(a2) /\ a2.blocks = a.blocks /\ a2.tools = a.tools
        <3> DEFINE none == <<>>
        <3>1. none \in Seq(STRING)
            BY EmptySeq
        <3> HIDE DEF none
        <3> QED BY <3>1, StateFields
    <2> HIDE DEF a2, r
    <2>3. AGoesOn(r, a, h, s, Position(event))
        BY <2>1, <2>2, QuietGoesOn
    <2> QED BY <2>3 DEF r
<1>8. CASE event.type \notin MessageEvents /\ event.type # "message_start"
    <2>1. r = Accepted(a, <<>>)
        BY <1>1, <1>8 DEF AnthropicEvent
    <2> HIDE DEF r
    <2>2. AGoesOn(r, a, h, s, Position(event))
        BY <2>1, QuietGoesOn
    <2> QED BY <2>2 DEF r
<1> QED BY <1>3, <1>4, <1>5, <1>6, <1>7, <1>8 DEF MessageEvents

(* Such an event does not end the stream.                                    *)
LEMMA NoEnd ==
    ASSUME NEW deltas \in Seq(Deltas)
    PROVE  {delta \in ToSet(deltas) : delta.delta = "done"} = {}
<1>1. \A i \in DOMAIN deltas : deltas[i] \in Deltas
    OBVIOUS
<1>2. \A d \in Deltas : d.delta # "done"
    BY DEF Deltas, CallDeltas, TextDeltas
<1> QED BY <1>1, <1>2 DEF ToSet

-----------------------------------------------------------------------------
(* The end of a stream.                                                      *)

(* The calls of an output are those heard, under their ids and names, and    *)
(* what was heard of their arguments says them; at most one more was heard,  *)
(* which was cut off.                                                        *)
Ended(h, parsed) ==
    LET calls == CallsOf(parsed)
    IN  /\ \/ DOMAIN h.calls = 0..Len(calls) - 1
           \/ parsed.stop = "MaxTokens" /\ DOMAIN h.calls = 0..Len(calls)
        /\ \A c \in 1..Len(calls) :
              /\ h.calls[c - 1].id = calls[c].pid /\ h.calls[c - 1].name = calls[c].name
              /\ h.calls[c - 1].arguments # <<>> => JsonOf(h.calls[c - 1].arguments) = calls[c].args

(* The call a block is.                                                      *)
IsCallOf(piece, wire) ==
    /\ piece = <<piece[1]>>
    /\ piece[1].name = wire.name /\ piece[1].pid = <<wire.id>> /\ piece[1].args = wire.input

(* What the item made of a block gives.                                      *)
LEMMA BlockItem ==
    ASSUME NEW wire, FineWire(wire)
    PROVE  /\ ~IsTool(wire) => CallPiece(AnthropicItem(wire)) = <<>>
           /\ IsTool(wire) => IsCallOf(CallPiece(AnthropicItem(wire)), wire)
           /\ TextPiece(AnthropicItem(wire)) = TextIn(wire)
<1> DEFINE item == AnthropicItem(wire)
<1>1. CASE wire.type = "text"
    <2>1. wire.text \in Text /\ TextIn(wire) = wire.text /\ ~IsTool(wire)
        BY <1>1 DEF FineWire, TextIn, IsTool
    <2> DEFINE meta == WireMeta(AnthropicName, Without(wire, {"text"}))
    <2>2. item = TextItem(wire.text, meta)
        BY <1>1 DEF AnthropicItem
    <2> HIDE DEF meta
    <2>3. CallPiece(item) = <<>> /\ TextPiece(item) = wire.text
        BY <2>1, <2>2, PiecesOfItems
    <2> QED BY <2>1, <2>3
<1>2. CASE IsTool(wire)
    <2>1. TextIn(wire) = <<>> /\ "input" \in DOMAIN wire
        BY <1>2 DEF FineWire, TextIn, IsTool
    <2> DEFINE meta == WireMeta(AnthropicName, Without(wire, {"id", "name", "input"}))
    <2>2. item = CallItem(wire.name, wire.input, wire.id, meta)
        BY <1>2, <2>1 DEF AnthropicItem, IsTool
    <2> HIDE DEF meta
    <2>3. /\ CallPiece(item) = <<item>> /\ TextPiece(item) = <<>>
          /\ item.name = wire.name /\ item.args = wire.input /\ item.pid = <<wire.id>>
        BY <2>2, PiecesOfItems
    <2> HIDE DEF item
    <2>4. IsCallOf(CallPiece(item), wire)
        BY <2>3 DEF IsCallOf
    <2> QED BY <1>2, <2>1, <2>3, <2>4 DEF item
<1>3. CASE wire.type # "text" /\ ~IsTool(wire)
    <2>1. item = SealedItem(AnthropicName, wire)
        BY <1>3 DEF AnthropicItem, IsTool
    <2>2. CallPiece(item) = <<>> /\ TextPiece(item) = <<>>
        BY <2>1, PiecesOfItems
    <2> QED BY <1>3, <2>2 DEF TextIn
<1> QED BY <1>1, <1>2, <1>3

(* What message_stop keeps of the blocks: all but a last one cut off.        *)
Kept(kept, a) ==
    /\ Len(kept) \in Nat /\ Len(kept) <= Len(a.blocks)
    /\ \A b \in 1..Len(kept) : /\ kept[b] = a.blocks[b] /\ a.blocks[b].closed
                               /\ ~a.blocks[b].incomplete
    /\ Len(kept) # Len(a.blocks) =>
          /\ Len(a.blocks) = Len(kept) + 1 /\ a.blocks[Len(kept) + 1].incomplete
          /\ AnthropicStop(a.reason[1]) = "MaxTokens"

(* A message that ends is parsed from what is kept.                          *)
LEMMA MessageEnds ==
    ASSUME NEW a, AType(a), MessageStop(a).ok
    PROVE  \E kept, parsed :
              /\ Kept(kept, a)
              /\ parsed.stop = AnthropicStop(a.reason[1])
              /\ parsed.items = [b \in 1..Len(kept) |-> AnthropicItem(kept[b].wire)]
              /\ MessageStop(a) = Accepted([a EXCEPT !.blocks = <<>>], <<Done(parsed)>>)
<1> DEFINE cutOff == a.reason # <<>> /\ AnthropicStop(a.reason[1]) = "MaxTokens"
           dropped == cutOff /\ a.blocks # <<>> /\ Last(a.blocks).incomplete
           kept == IF dropped THEN Front(a.blocks) ELSE a.blocks
           content == [b \in 1..Len(kept) |-> kept[b].wire]
           response == [content |-> content, stop_reason |-> a.reason]
           parsed == ParseAnthropic(response)
<1>1. /\ AllClosed(a) /\ a.reason # <<>> /\ ~\E b \in 1..Len(kept) : kept[b].incomplete
      /\ MessageStop(a) = Finished([a EXCEPT !.blocks = <<>>], parsed)
    BY DEF MessageStop, Broken, Rejected
<1>2. \A b \in 1..Len(a.blocks) : a.blocks[b].closed
    BY <1>1 DEF AllClosed
<1>3. Len(a.blocks) \in Nat /\ \E V : a.blocks \in Seq(V)
    BY BlocksAre DEF AType, AState
<1>k. \A b \in 1..Len(kept) : ~kept[b].incomplete
    BY <1>1
<1>4. ASSUME ~dropped PROVE Kept(kept, a)
    <2>1. kept = a.blocks
        BY <1>4
    <2> HIDE DEF kept
    <2> QED BY <1>k, <1>2, <1>3, <2>1 DEF Kept
<1>5. ASSUME dropped PROVE Kept(kept, a)
    <2> DEFINE n == Len(a.blocks)
    <2>1. kept = SubSeq(a.blocks, 1, n - 1)
        BY <1>5 DEF Front
    <2>2. n \in Nat /\ n # 0 /\ a.blocks[n].incomplete /\ AnthropicStop(a.reason[1]) = "MaxTokens"
        <3>1. a.blocks # <<>> /\ Last(a.blocks).incomplete /\ cutOff
            BY <1>5
        <3> QED BY <1>3, <3>1, EmptySeq DEF Last
    <2>3. Len(kept) = n - 1 /\ \A b \in 1..(n - 1) : kept[b] = a.blocks[b]
        <3> HIDE DEF kept
        <3> QED BY <1>3, <2>1, <2>2
    <2> HIDE DEF kept, n
    <2>4. Len(kept) \in Nat /\ Len(kept) <= n /\ n = Len(kept) + 1
        BY <2>2, <2>3
    <2>5. \A b \in 1..Len(kept) : b \in 1..n /\ b \in 1..(n - 1)
        BY <2>2, <2>3
    <2>6. \A b \in 1..Len(kept) : kept[b] = a.blocks[b] /\ a.blocks[b].closed /\ ~a.blocks[b].incomplete
        BY <1>k, <1>2, <2>3, <2>5 DEF n
    <2>7. a.blocks[Len(kept) + 1].incomplete
        BY <2>2, <2>4
    <2> QED BY <2>2, <2>4, <2>6, <2>7 DEF Kept, n
<1>6. Kept(kept, a)
    BY <1>4, <1>5
<1> HIDE DEF kept
<1>7. response.content = content /\ response.stop_reason = a.reason
    OBVIOUS
<1>8. Len(content) = Len(kept) /\ \A b \in 1..Len(kept) : content[b] = kept[b].wire
    <2>1. Len(kept) \in Nat
        BY <1>6 DEF Kept
    <2> QED BY <2>1
<1>9. parsed.ok /\ MessageStop(a) = Accepted([a EXCEPT !.blocks = <<>>], <<Done(parsed)>>)
    <2> HIDE DEF parsed
    <2> QED BY <1>1 DEF Finished, Rejected
<1>10. /\ parsed.stop = AnthropicStop(a.reason[1])
       /\ parsed.items = [b \in 1..Len(content) |-> AnthropicItem(content[b])]
    <2> HIDE DEF response, content
    <2> QED BY <1>7, <1>9 DEF ParseAnthropic, Undecodable
<1>11. parsed.items = [b \in 1..Len(kept) |-> AnthropicItem(kept[b].wire)]
    <2> HIDE DEF parsed, content
    <2> QED BY <1>8, <1>10
<1> HIDE DEF parsed
<1> QED BY <1>6, <1>9, <1>10, <1>11

(* And its output says what the host heard.                                  *)
LEMMA MessageAgrees ==
    ASSUME NEW a, AType(a), Counted(a), NEW h \in Host, HeardCalls(a, h),
           NEW kept, Kept(kept, a), NEW parsed, parsed.stop = AnthropicStop(a.reason[1]),
           parsed.items = [b \in 1..Len(kept) |-> AnthropicItem(kept[b].wire)]
    PROVE  /\ Ended(h, parsed)
           /\ \A s : HeardTexts(a, h, s) => h.text = TextsOf(parsed)
<1> DEFINE n == Len(a.blocks)
           m == Len(kept)
           wire(b) == a.blocks[b].wire
           Q == [b \in 1..m |-> CallPiece(AnthropicItem(wire(b)))]
           F == [b \in 1..m |-> TextIn(wire(b))]
           u == [k \in 0..m |-> Before(a)[k]]
           calls == CallsOf(parsed)
<1>1. /\ n \in Nat /\ m \in Nat /\ m <= n /\ a.tools \in Nat
      /\ \A b \in 1..m : b \in 1..n /\ kept[b].wire = wire(b)
      /\ m # n => n = m + 1 /\ a.blocks[m + 1].incomplete /\ parsed.stop = "MaxTokens"
    BY BlocksAre DEF Kept
<1>2. \A b \in 1..n : FineWire(wire(b)) /\ a.blocks[b].call \in Nat
    BY BlocksAre DEF IsBlock, ABlock
<1>3. Len(parsed.items) = m /\ \A b \in 1..m : parsed.items[b] = AnthropicItem(wire(b))
    BY <1>1
<1>4. calls = Joined(Q, m) /\ TextsOf(parsed) = Joined(F, m)
    <2>1. [i \in 1..Len(parsed.items) |-> CallPiece(parsed.items[i])] = [l \in 1..m |-> Q[l]]
        BY <1>3
    <2>2. \A b \in 1..m : TextPiece(AnthropicItem(wire(b))) = TextIn(wire(b))
        BY <1>1, <1>2, BlockItem
    <2>3. [i \in 1..Len(parsed.items) |-> TextPiece(parsed.items[i])] = [l \in 1..m |-> F[l]]
        BY <1>3, <2>2
    <2> QED BY <2>1, <2>3 DEF CallsOf, TextsOf, Joined
<1>5. \A b \in 1..m : /\ ~IsTool(wire(b)) => Q[b] = <<>>
                      /\ IsTool(wire(b)) => IsCallOf(Q[b], wire(b)) /\ Q[b] = <<Q[b][1]>>
    <2>1. \A b \in 1..m : IsTool(wire(b)) => IsCallOf(Q[b], wire(b))
        BY <1>1, <1>2, BlockItem
    <2>2. \A b \in 1..m : ~IsTool(wire(b)) => Q[b] = <<>>
        BY <1>1, <1>2, BlockItem
    <2> HIDE DEF Q
    <2> QED BY <2>1, <2>2 DEF IsCallOf
<1>6. u \in [0..m -> Nat] /\ u[0] = 0 /\ \A b \in 1..m : u[b - 1] = a.blocks[b].call
    <2>1. Before(a) = [k \in 0..n |-> IF k = n THEN a.tools ELSE a.blocks[k + 1].call]
        BY DEF Before
    <2>2. \A k \in 0..m : k \in 0..n /\ (k # n => k + 1 \in 1..n)
        BY <1>1
    <2>3. \A k \in 0..m : u[k] \in Nat
        BY <1>1, <1>2, <2>1, <2>2
    <2>4. \A b \in 1..m : b - 1 \in 0..m /\ b - 1 # n /\ (b - 1) + 1 = b /\ b - 1 \in 0..n
        BY <1>1
    <2>5. Before(a)[0] = 0 /\ 0 \in 0..m
        BY <1>1 DEF Counted
    <2>6. \A b \in 1..m : u[b - 1] = a.blocks[b].call
        BY <2>1, <2>4
    <2> QED BY <2>3, <2>5, <2>6
<1>7. \A k \in 1..m : u[k] = u[k - 1] + (IF IsTool(wire(k)) THEN 1 ELSE 0)
    <2>1. \A k \in 1..m : k \in 1..n /\ k \in 0..m /\ k - 1 \in 0..m
        BY <1>1
    <2>2. \A k \in 1..n : Before(a)[k] = Before(a)[k - 1] + (IF IsTool(a.blocks[k].wire) THEN 1 ELSE 0)
        BY DEF Counted
    <2> QED BY <2>1, <2>2
<1>8. (IF m = n THEN a.tools ELSE a.blocks[m + 1].call) = u[m]
    <2>1. m \in 0..n /\ m \in 0..m
        BY <1>1
    <2> QED BY <2>1 DEF Before
<1>9. m # n => a.tools = u[m] \/ a.tools = u[m] + 1
    <2>1. m # n => (m + 1) \in 1..n /\ m + 1 = n /\ (m + 1) - 1 = m /\ m \in 0..m /\ m + 1 \in 0..n
        BY <1>1
    <2>2. m # n => Before(a)[m + 1] = Before(a)[m] + (IF IsTool(wire(m + 1)) THEN 1 ELSE 0)
        BY <2>1 DEF Counted
    <2>3. m # n => Before(a)[m + 1] = a.tools
        BY <2>1 DEF Before
    <2>4. m # n => u[m] = Before(a)[m] /\ u[m] \in Nat
        BY <1>6, <2>1
    <2> QED BY <2>1, <2>2, <2>3, <2>4
<1> HIDE DEF u, Q
<1>10. Placed(calls, Q, u, m)
    <2> DEFINE V == {Q[b][1] : b \in 1..m}
    <2>1. \A b \in 1..m : Q[b] = <<>> \/ Q[b] = <<Q[b][1]>>
        BY <1>5
    <2>2. Q \in [1..m -> Seq(V)]
        <3>1. \A b \in 1..m : Q[b] \in Seq(V)
            <4> SUFFICES ASSUME NEW b \in 1..m PROVE Q[b] \in Seq(V)
                OBVIOUS
            <4>1. CASE Q[b] = <<>>
                BY <4>1, EmptySeq
            <4>2. CASE Q[b] = <<Q[b][1]>>
                <5> DEFINE x == Q[b][1]
                <5>1. x \in V /\ Q[b] = <<x>>
                    BY <4>2
                <5> HIDE DEF V, x
                <5>2. <<x>> \in Seq(V)
                    BY <5>1
                <5> QED BY <5>1, <5>2
            <4> QED BY <2>1, <4>1, <4>2
        <3> HIDE DEF V
        <3> QED BY <3>1 DEF Q
    <2>3. \A k \in 1..m : u[k] = u[k - 1] + (IF Q[k] = <<>> THEN 0 ELSE 1)
        <3>1. \A x : <<x>> # <<>>
            OBVIOUS
        <3>2. \A k \in 1..m : Q[k] = <<>> <=> ~IsTool(wire(k))
            BY <1>5, <3>1
        <3> QED BY <1>7, <3>2
    <2> HIDE DEF V
    <2>4. Placed(Joined(Q, m), Q, u, m)
        BY <1>1, <1>6, <2>1, <2>2, <2>3, PiecesPlaced
    <2> QED BY <1>4, <2>4
<1>11. Len(calls) = u[m]
    BY <1>10 DEF Placed
<1>12. DOMAIN h.calls = 0..a.tools - 1
    BY DEF HeardCalls
<1>13. \/ DOMAIN h.calls = 0..Len(calls) - 1
       \/ parsed.stop = "MaxTokens" /\ DOMAIN h.calls = 0..Len(calls)
    <2>1. CASE m = n
        BY <1>8, <1>11, <1>12, <2>1
    <2>2. CASE m # n
        <3>1. u[m] \in Nat
            BY <1>1, <1>6
        <3>2. CASE a.tools = u[m]
            BY <1>11, <1>12, <3>2
        <3>3. CASE a.tools = u[m] + 1
            <4>1. a.tools - 1 = u[m]
                BY <3>1, <3>3
            <4> QED BY <1>1, <1>11, <1>12, <2>2, <4>1
        <3> QED BY <1>9, <2>2, <3>2, <3>3
    <2> QED BY <2>1, <2>2
<1>14. ASSUME NEW c \in 1..Len(calls)
       PROVE  /\ h.calls[c - 1].id = calls[c].pid /\ h.calls[c - 1].name = calls[c].name
              /\ h.calls[c - 1].arguments # <<>> => JsonOf(h.calls[c - 1].arguments) = calls[c].args
    <2>1. PICK k \in 1..m : Q[k] # <<>> /\ c = u[k - 1] + 1
        BY <1>10 DEF Placed
    <2>2. calls[c] = Q[k][1]
        <3>1. calls[u[k - 1] + 1] = Q[k][1]
            BY <1>10, <2>1 DEF Placed
        <3> QED BY <2>1, <3>1
    <2>3. c - 1 = a.blocks[k].call
        <3>1. u[k - 1] = a.blocks[k].call /\ a.blocks[k].call \in Nat
            BY <1>1, <1>2, <1>6
        <3> QED BY <2>1, <3>1
    <2>4. IsTool(wire(k)) /\ IsCallOf(Q[k], wire(k))
        BY <1>5, <2>1
    <2>5. HeardBlock(a.blocks[k], h.calls[c - 1]) /\ a.blocks[k].closed /\ ~a.blocks[k].incomplete
        BY <1>1, <2>3, <2>4 DEF HeardCalls, Kept
    <2> HIDE DEF calls
    <2> QED BY <2>2, <2>4, <2>5 DEF HeardBlock, IsCallOf
<1>15. Ended(h, parsed)
    BY <1>13, <1>14 DEF Ended
<1>16. ASSUME NEW s, HeardTexts(a, h, s) PROVE h.text = TextsOf(parsed)
    <2> DEFINE G == TextsIn(a.blocks)
    <2>1. h.text = Joined(G, n)
        BY <1>16 DEF HeardTexts
    <2>2. Joined(G, m) = Joined(F, m)
        <3>1. [l \in 1..m |-> G[l]] = [l \in 1..m |-> F[l]]
            BY <1>1 DEF TextsIn
        <3> QED BY <3>1 DEF Joined
    <2>3. G \in [1..n -> Seq(STRING)]
        BY TextsType
    <2>4. m # n => G[n] = <<>>
        <3>1. m # n => n \in 1..n /\ a.blocks[n].incomplete
            BY <1>1
        <3>2. m # n => Sound(a.blocks[n])
            BY <3>1 DEF HeardCalls
        <3>3. m # n => wire(n).type # "text"
            BY <3>1, <3>2 DEF Sound
        <3> QED BY <3>1, <3>3 DEF TextsIn, TextIn
    <2> HIDE DEF G
    <2>5. Skips(G, n)
        BY <1>1, <2>3, JoinedSkip
    <2>6. Joined(G, n) = Joined(G, m)
        <3>1. m \in 0..n /\ n \in m..n /\ \A l \in (m + 1)..n : m # n /\ l = n
            BY <1>1
        <3>2. \A l \in (m + 1)..n : G[l] = <<>>
            BY <2>4, <3>1
        <3> QED BY <2>5, <3>1, <3>2 DEF Skips
    <2> QED BY <1>4, <2>1, <2>2, <2>6
<1> QED BY <1>15, <1>16

-----------------------------------------------------------------------------
(* A stream that ends well: the host hears nothing more, and the output's    *)
(* calls are those heard.                                                    *)
Ends(r, h, parsed) ==
    /\ r.deltas = <<Done(parsed)>> /\ FoldLeft(Hear, h, r.deltas) = h
    /\ Ended(h, parsed)

(* An assembly that is finished.                                             *)
LEMMA FinishedEnds ==
    ASSUME NEW a, NEW parsed, NEW r, r = Accepted(a, <<Done(parsed)>>), NEW h \in Host, Ended(h, parsed)
    PROVE  Ends(r, h, parsed)
<1>1. r.deltas = <<Done(parsed)>>
    BY DEF Accepted
<1>2. FoldLeft(Hear, h, <<Done(parsed)>>) = h
    BY HearDone
<1> QED BY <1>1, <1>2 DEF Ends

(* The end of a stream, as the decoder sees it.                              *)
LEMMA EndsAre ==
    ASSUME NEW deltas, NEW parsed, deltas = <<Done(parsed)>>
    PROVE  /\ {delta \in ToSet(deltas) : delta.delta = "done"} = {Done(parsed)}
           /\ Done(parsed).output = parsed /\ ~SaysText(deltas)
<1> DEFINE d == Done(parsed)
<1>1. d.delta = "done" /\ d.output = parsed
    BY DEF Done
<1> HIDE DEF d
<1>2. deltas = <<d>> /\ Len(deltas) = 1 /\ DOMAIN deltas = {1} /\ deltas[1] = d
    BY DEF d
<1>3. ToSet(deltas) = {d}
    BY <1>2 DEF ToSet
<1>4. ~SaysText(deltas)
    BY <1>1, <1>2 DEF SaysText
<1> QED BY <1>1, <1>3, <1>4 DEF d

(* The last event of an Anthropic message.                                   *)
LEMMA AnthropicEnds ==
    ASSUME NEW a, AType(a), Counted(a), NEW h \in Host, HeardCalls(a, h),
           NEW event, event.type = "message_stop", AnthropicEvent(a, event).ok
    PROVE  \E parsed : /\ Ends(AnthropicEvent(a, event), h, parsed)
                       /\ \A s : HeardTexts(a, h, s) => h.text = TextsOf(parsed)
<1> DEFINE r == AnthropicEvent(a, event)
<1>1. r = MessageStop(a)
    BY DEF AnthropicEvent, MessageEvents, MessageEvent, Broken, Rejected
<1>2. MessageStop(a).ok
    BY <1>1
<1> HIDE DEF r
<1>3. PICK kept, parsed :
         /\ Kept(kept, a)
         /\ parsed.stop = AnthropicStop(a.reason[1])
         /\ parsed.items = [b \in 1..Len(kept) |-> AnthropicItem(kept[b].wire)]
         /\ MessageStop(a) = Accepted([a EXCEPT !.blocks = <<>>], <<Done(parsed)>>)
    BY <1>2, MessageEnds
<1>4. Ended(h, parsed) /\ \A s : HeardTexts(a, h, s) => h.text = TextsOf(parsed)
    BY <1>3, MessageAgrees
<1> DEFINE a2 == [a EXCEPT !.blocks = <<>>]
<1>5. r = Accepted(a2, <<Done(parsed)>>)
    BY <1>1, <1>3
<1> HIDE DEF a2
<1>6. Ends(r, h, parsed)
    BY <1>4, <1>5, FinishedEnds
<1> QED BY <1>4, <1>6 DEF r

-----------------------------------------------------------------------------
(* The Chat Completions assembly: what was heard of the calls and the text   *)
(* is what was put together of them.                                         *)
CState ==
    [id : Seq(STRING), text : Text, reasoning : Text, tools : Seq(CallHeard), finish : Seq(STRING)]

(* The host has the text, and each call under its number.                    *)
CHeard(a, h) ==
    /\ a \in CState /\ h \in Host
    /\ \A t \in 1..Len(a.tools) : Len(a.tools[t].id) <= 1
    /\ h.text = a.text /\ DOMAIN h.calls = 0..Len(a.tools) - 1
    /\ \A t \in 1..Len(a.tools) : h.calls[t - 1] = a.tools[t]

(* The tools with one grown, or one more, are the calls with that one set.   *)
ToolSet1(tools2, tools, i, entry) ==
    /\ tools2 \in Seq(CallHeard) /\ i \in 1..Len(tools2)
    /\ Len(tools2) = (IF i <= Len(tools) THEN Len(tools) ELSE Len(tools) + 1)
    /\ tools2[i] = entry /\ \A t \in 1..Len(tools) : t # i => tools2[t] = tools[t]

(* What a fragment makes of the tools.                                       *)
LEMMA FragmentGrows ==
    ASSUME NEW a, a \in CState, NEW call \in CallFragments, ToolFragment(a, call).ok
    PROVE  \E tools2, entry :
              LET i   == call.index + 1
                  old == IF i <= Len(a.tools) THEN a.tools[i] ELSE NewTool
              IN  /\ entry = Extended(old, call) /\ entry \in CallHeard
                  /\ ToolSet1(tools2, a.tools, i, entry)
                  /\ i > Len(a.tools) => i = Len(a.tools) + 1
                  /\ ToolFragment(a, call) = Accepted([a EXCEPT !.tools = tools2],
                        <<ToolCallDelta(call.index, call.id, call.name, call.arguments)>>)
<1> DEFINE i     == call.index + 1
           n     == Len(a.tools)
           isNew == i > n
           tools == IF isNew THEN Append(a.tools, NewTool) ELSE a.tools
           grown == [tools EXCEPT ![i] = GrownTool(@, call)]
           old   == IF i <= n THEN a.tools[i] ELSE NewTool
           entry == Extended(old, call)
<1>1. /\ call.index \in Nat /\ call.id \in Seq(STRING) /\ call.name \in Seq(Text)
      /\ call.arguments \in Seq(Text) /\ a.tools \in Seq(CallHeard) /\ n \in Nat
    BY DEF CallFragments, CState
<1>2. isNew => call.index = n
    BY DEF ToolFragment, Broken, Rejected
<1>3a. ToolFragment(a, call) = Accepted([a EXCEPT !.tools = grown],
           <<ToolCallDelta(call.index, call.id, call.name, call.arguments)>>)
    BY DEF ToolFragment, Broken, Rejected
<1> HIDE DEF grown
<1>3. NewTool \in CallHeard
    BY EmptySeq DEF NewTool, CallHeard, Text
<1>4. /\ tools \in Seq(CallHeard) /\ i \in 1..Len(tools) /\ tools[i] = old
      /\ Len(tools) = (IF i <= n THEN n ELSE n + 1)
      /\ \A t \in 1..n : tools[t] = a.tools[t]
    <2>1. CASE isNew
        <3>1. i = n + 1 /\ ~(i <= n)
            BY <1>1, <1>2, <2>1
        <3> DEFINE new == Append(a.tools, NewTool)
        <3>2. /\ new \in Seq(CallHeard) /\ Len(new) = n + 1 /\ new[n + 1] = NewTool
              /\ \A t \in 1..n : new[t] = a.tools[t]
            BY <1>1, <1>3, AppendProperties
        <3>3. tools = new /\ old = NewTool
            BY <2>1, <3>1
        <3> HIDE DEF new, tools, old
        <3> QED BY <1>1, <3>1, <3>2, <3>3
    <2>2. CASE ~isNew
        BY <1>1, <2>2
    <2> QED BY <2>1, <2>2
<1>5. old \in CallHeard
    BY <1>4
<1> HIDE DEF tools, old
<1>6. entry \in CallHeard
    <2>1. FlattenSeq(call.name) \in Seq(STRING) /\ FlattenSeq(call.arguments) \in Seq(STRING)
        BY <1>1, FlattenText DEF Text
    <2>2. old.id \in Seq(STRING) /\ old.name \in Seq(STRING) /\ old.arguments \in Seq(STRING)
        BY <1>5 DEF CallHeard, Text
    <2>3. /\ old.name \o FlattenSeq(call.name) \in Seq(STRING)
          /\ old.arguments \o FlattenSeq(call.arguments) \in Seq(STRING)
        BY <2>1, <2>2, ConcatProperties
    <2>4. (IF old.id = <<>> THEN call.id ELSE old.id) \in Seq(STRING)
        BY <1>1, <2>2
    <2> QED BY <2>3, <2>4 DEF CallHeard, Extended, Text
<1>7. grown = [tools EXCEPT ![i] = entry]
    BY <1>4, Zenon DEF GrownTool, Extended, grown
<1> HIDE DEF grown, entry
<1>8. ToolSet1(grown, a.tools, i, entry)
    <2>1. /\ grown \in Seq(CallHeard) /\ Len(grown) = Len(tools) /\ grown[i] = entry
          /\ \A t \in 1..Len(tools) : t # i => grown[t] = tools[t]
        BY <1>4, <1>6, <1>7, ExceptSeq
    <2>2. \A t \in 1..n : t \in 1..Len(tools)
        BY <1>1, <1>4
    <2> QED BY <1>4, <2>1, <2>2 DEF ToolSet1
<1>9. i > n => i = n + 1
    BY <1>1, <1>2
<1> QED BY <1>3a, <1>6, <1>8, <1>9 DEF old, entry

(* What is heard of a fragment is what it makes of the tools.                *)
LEMMA FragmentHeard ==
    ASSUME NEW a, NEW h, CHeard(a, h), NEW call \in CallFragments, ToolFragment(a, call).ok
    PROVE  \E a2, d : /\ d \in Deltas /\ CHeard(a2, Hear(h, d))
                      /\ ToolFragment(a, call) = Accepted(a2, <<d>>)
<1> DEFINE i == call.index + 1
           n == Len(a.tools)
           old == IF i <= n THEN a.tools[i] ELSE NewTool
           d == ToolCallDelta(call.index, call.id, call.name, call.arguments)
           h2 == Hear(h, d)
<1>0. /\ a \in CState /\ h \in Host /\ h.text = a.text /\ DOMAIN h.calls = 0..n - 1
      /\ \A t \in 1..n : Len(a.tools[t].id) <= 1 /\ h.calls[t - 1] = a.tools[t]
    BY DEF CHeard
<1>1. /\ call.index \in Nat /\ call.id \in Seq(STRING) /\ call.name \in Seq(Text)
      /\ call.arguments \in Seq(Text) /\ Len(call.id) <= 1 /\ n \in Nat /\ i \in Nat /\ i - 1 = call.index
    BY <1>0 DEF CallFragments, CState
<1>2. PICK tools2, entry :
         /\ entry = Extended(old, call) /\ entry \in CallHeard
         /\ ToolSet1(tools2, a.tools, i, entry)
         /\ i > n => i = n + 1
         /\ ToolFragment(a, call) = Accepted([a EXCEPT !.tools = tools2], <<d>>)
    BY <1>0, FragmentGrows
<1>3. d \in CallDeltas /\ d.index = call.index /\ d.id = call.id /\ d.name = call.name /\ d.arguments = call.arguments
    BY <1>1, CallDeltaIs
<1> HIDE DEF d
<1>4. d \in Deltas
    BY <1>3 DEF Deltas
<1>5. Known(h.calls, call.index) = old
    <2>1. CASE i <= n
        <3>1. i \in 1..n /\ call.index \in 0..n - 1
            BY <1>1, <2>1
        <3>2. h.calls[i - 1] = a.tools[i]
            BY <1>0, <3>1
        <3> QED BY <1>0, <1>1, <2>1, <3>1, <3>2 DEF Known
    <2>2. CASE ~(i <= n)
        <3>1. call.index \notin 0..n - 1
            BY <1>1, <2>2
        <3>2. old = Unheard
            BY <2>2 DEF Unheard, NewTool
        <3> QED BY <1>0, <3>1, <3>2 DEF Known
    <2> QED BY <2>1, <2>2
<1>6. Extended(old, d) = entry
    BY <1>2, <1>3 DEF Extended
<1>7. HeardCall(h2, h, d)
    BY <1>0, <1>3, HearCall
<1> HIDE DEF h2, old
<1>8. h2 \in Host /\ h2.text = h.text /\ EntrySet(h2.calls, h.calls, call.index, entry)
    BY <1>3, <1>5, <1>6, <1>7 DEF HeardCall
<1> DEFINE a2 == [a EXCEPT !.tools = tools2]
<1>9. a2 \in CState /\ a2.tools = tools2 /\ a2.text = a.text
    BY <1>0, <1>2 DEF CState, ToolSet1
<1>10. ToolFragment(a, call) = Accepted(a2, <<d>>)
    BY <1>2
<1> HIDE DEF a2
<1> DEFINE m == Len(tools2)
<1>11. /\ i \in 1..m /\ m = (IF i <= n THEN n ELSE n + 1) /\ m \in Nat
       /\ tools2[i] = entry /\ \A t \in 1..n : t # i => tools2[t] = a.tools[t]
    BY <1>2 DEF ToolSet1
<1>12. /\ DOMAIN h2.calls = DOMAIN h.calls \cup {call.index} /\ h2.calls[call.index] = entry
       /\ \A j \in DOMAIN h.calls : j # call.index => h2.calls[j] = h.calls[j]
    BY <1>8 DEF EntrySet
<1>13. Len(entry.id) <= 1
    <2>1. Len(old.id) <= 1
        <3>1. CASE i <= n
            <4>1. i \in 1..n
                BY <1>1, <3>1
            <4> QED BY <1>0, <3>1, <4>1 DEF old
        <3>2. CASE ~(i <= n)
            BY <3>2, EmptySeq DEF old, NewTool
        <3> QED BY <3>1, <3>2
    <2>2. entry.id = (IF old.id = <<>> THEN call.id ELSE old.id)
        BY <1>2 DEF Extended
    <2> QED BY <1>1, <2>1, <2>2
<1> HIDE DEF m, i, n
<1>14. \A t \in 1..m : t = i \/ (t \in 1..n /\ t # i)
    BY <1>1, <1>2, <1>11
<1>15. \A t \in 1..m : Len(tools2[t].id) <= 1
    BY <1>0, <1>11, <1>13, <1>14
<1>16. \A t \in 1..n : t # i => t - 1 \in DOMAIN h.calls /\ t - 1 # call.index
    BY <1>0, <1>1 DEF i
<1>17. \A t \in 1..m : h2.calls[t - 1] = tools2[t]
    <2> SUFFICES ASSUME NEW t \in 1..m PROVE h2.calls[t - 1] = tools2[t]
        OBVIOUS
    <2>1. CASE t = i
        BY <1>1, <1>11, <1>12, <2>1
    <2>2. CASE t # i
        <3>1. t \in 1..n
            BY <1>14, <2>2
        <3>2. h2.calls[t - 1] = h.calls[t - 1]
            BY <1>12, <1>16, <2>2, <3>1
        <3>3. h.calls[t - 1] = a.tools[t] /\ tools2[t] = a.tools[t]
            BY <1>0, <1>11, <2>2, <3>1
        <3> QED BY <3>2, <3>3
    <2> QED BY <2>1, <2>2
<1>18. DOMAIN h2.calls = 0..m - 1
    <2>1. CASE i <= n
        BY <1>0, <1>1, <1>11, <1>12, <2>1
    <2>2. CASE ~(i <= n)
        BY <1>0, <1>1, <1>2, <1>11, <1>12, <2>2 DEF i
    <2> QED BY <2>1, <2>2
<1>19. CHeard(a2, h2)
    BY <1>0, <1>8, <1>9, <1>15, <1>17, <1>18 DEF CHeard, m
<1> QED BY <1>4, <1>10, <1>19 DEF h2

-----------------------------------------------------------------------------
(* A set that a fragment does not lead out of.                               *)
Stays(T) == \A r \in T, call \in CallFragments : ThenFragment(r, call) \in T

(* Nor do many, one after the other.                                         *)
LEMMA FragmentsFold ==
    ASSUME NEW T, Stays(T), NEW base \in T, NEW seq \in Seq(CallFragments)
    PROVE  FoldLeft(ThenFragment, base, seq) \in T
<1> DEFINE n == Len(seq)
           IsIter(f) == f = [s \in SUBSET DOMAIN seq |->
                                IF s = {} THEN base ELSE ThenFragment(f[s \ {Max(s)}], seq[Max(s)])]
           iter == CHOOSE f : IsIter(f)
           step == [i \in 1..n |-> [t \in T |-> ThenFragment(t, seq[i])]]
           g    == [k \in 0..n |-> iter[1..k]]
<1>1. n \in Nat /\ DOMAIN seq = 1..n /\ \A i \in 1..n : seq[i] \in CallFragments
    OBVIOUS
<1>2. FoldLeft(ThenFragment, base, seq) = iter[DOMAIN seq]
    BY Zenon DEF FoldLeft, MapThenFoldSet
<1> HIDE DEF n
<1>3. step \in [1..n -> [T -> T]]
    BY <1>1 DEF Stays
<1>4. \E f : f \in [SUBSET (1..n) -> T] /\ IsIter(f)
    <2>0. PICK f : IsFold(f, T, base, n, step)
        <3>1. n \in Nat
            BY <1>1
        <3> HIDE DEF step
        <3> QED BY <1>3, <3>1, FoldExists
    <2>1. /\ f \in [SUBSET (1..n) -> T]
          /\ \A s \in SUBSET (1..n) :
                f[s] = IF s = {} THEN base ELSE step[Max(s)][f[s \ {Max(s)}]]
        <3> HIDE DEF step
        <3> QED BY <2>0 DEF IsFold
    <2>2. ASSUME NEW s \in SUBSET (1..n)
          PROVE  f[s] = IF s = {} THEN base ELSE ThenFragment(f[s \ {Max(s)}], seq[Max(s)])
        <3>1. CASE s = {}
            BY <2>1, <3>1
        <3>2. CASE s # {}
            <4>1. Max(s) \in 1..n
                BY <1>1, <3>2, MaxIn
            <4>2. f[s \ {Max(s)}] \in T
                BY <2>1
            <4>3. f[s] = step[Max(s)][f[s \ {Max(s)}]]
                BY <2>1, <3>2
            <4>4. step[Max(s)][f[s \ {Max(s)}]] = ThenFragment(f[s \ {Max(s)}], seq[Max(s)])
                BY <4>1, <4>2
            <4> QED BY <3>2, <4>3, <4>4, Zenon
        <3> QED BY <3>1, <3>2
    <2>3. f = [s \in SUBSET (1..n) |-> f[s]]
        BY <2>1
    <2>4. f = [s \in SUBSET (1..n) |->
                  IF s = {} THEN base ELSE ThenFragment(f[s \ {Max(s)}], seq[Max(s)])]
        BY <2>2, <2>3, Zenon
    <2>5. IsIter(f)
        BY <1>1, <2>4, Zenon
    <2> HIDE DEF IsIter
    <2> QED BY <2>1, <2>5
<1>5. IsIter(iter)
    BY <1>4, Zenon
<1>i. \A f1, f2 : IsIter(f1) => f1 = [s \in SUBSET (1..n) |->
                  IF s = {} THEN base ELSE ThenFragment(f1[s \ {Max(s)}], seq[Max(s)])]
    BY <1>1, Zenon
<1>6. iter = [s \in SUBSET (1..n) |->
                  IF s = {} THEN base ELSE ThenFragment(iter[s \ {Max(s)}], seq[Max(s)])]
    <2> HIDE DEF IsIter, iter
    <2> QED BY <1>5, <1>i, Zenon
<1> HIDE DEF iter
<1>7. \A s \in SUBSET (1..n) :
          iter[s] = IF s = {} THEN base ELSE ThenFragment(iter[s \ {Max(s)}], seq[Max(s)])
    <2> DEFINE R(s) == IF s = {} THEN base ELSE ThenFragment(iter[s \ {Max(s)}], seq[Max(s)])
    <2>1. iter = [s \in SUBSET (1..n) |-> R(s)]
        BY <1>6, Zenon
    <2> HIDE DEF R
    <2>2. \A s \in SUBSET (1..n) : iter[s] = R(s)
        BY <2>1
    <2> QED BY <2>2, Zenon DEF R
<1>8. g[0] = base
    <2>1. 1..0 = {} /\ {} \in SUBSET (1..n) /\ 0 \in 0..n
        BY <1>1
    <2>2. iter[{}] = base
        BY <1>7, <2>1, Zenon
    <2> QED BY <2>1, <2>2
<1>9. ASSUME NEW k \in 1..n PROVE g[k] = ThenFragment(g[k - 1], seq[k])
    <2>1. Max(1..k) = k /\ (1..k) \ {k} = 1..(k - 1)
        BY <1>1, MaxUpTo
    <2>2. g[k] = iter[1..k] /\ g[k - 1] = iter[1..(k - 1)]
        BY <1>1
    <2>3. 1..k \in SUBSET (1..n) /\ 1..k # {}
        <3>1. k \in 1..k /\ \A j \in 1..k : j \in 1..n
            BY <1>1
        <3> QED BY <3>1
    <2>4. iter[1..k] = ThenFragment(iter[(1..k) \ {Max(1..k)}], seq[Max(1..k)])
        BY <1>7, <2>3, Zenon
    <2> HIDE DEF g
    <2> QED BY <2>1, <2>2, <2>4, Zenon
<1>10. g[n] = iter[1..n]
    BY <1>1
<1> HIDE DEF g
<1>11. \A k \in 0..n : g[k] \in T
    <2> DEFINE S == {k \in 0..n : g[k] \in T}
    <2>1. 0 \in S
        BY <1>1, <1>8
    <2>2. ASSUME NEW k \in 1..n, k - 1 \in S PROVE k \in S
        <3>1. g[k - 1] \in T /\ seq[k] \in CallFragments /\ k \in 0..n
            BY <1>1, <2>2
        <3> QED BY <1>9, <3>1 DEF Stays
    <2> HIDE DEF S
    <2>3. \A k \in 0..n : k \in S
        BY <1>1, <2>1, <2>2, Upward
    <2> QED BY <2>3 DEF S
<1>12. n \in 0..n
    BY <1>1
<1> QED BY <1>1, <1>2, <1>10, <1>11, <1>12

-----------------------------------------------------------------------------
(* What is heard of a chunk is what it makes of the message.                 *)
ChatHeard(r, h) ==
    \E a, deltas : /\ deltas \in Seq(Deltas) /\ r = Accepted(a, deltas)
                   /\ CHeard(a, FoldLeft(Hear, h, deltas))

(* The results that are either that or a failure.                            *)
ChatResults(h) ==
    {r \in {Accepted(x[1], x[2]) : x \in CState \X Seq(Deltas)} \cup {Broken} : r.ok => ChatHeard(r, h)}

(* A result that was heard is one of them.                                   *)
LEMMA ChatResult ==
    ASSUME NEW h, NEW r, ChatHeard(r, h)
    PROVE  r \in ChatResults(h)
<1>1. PICK a, deltas : /\ deltas \in Seq(Deltas) /\ r = Accepted(a, deltas)
                       /\ CHeard(a, FoldLeft(Hear, h, deltas))
    BY DEF ChatHeard
<1>2. a \in CState
    BY <1>1 DEF CHeard
<1> DEFINE x == <<a, deltas>>
<1>3. x \in CState \X Seq(Deltas) /\ x[1] = a /\ x[2] = deltas
    BY <1>1, <1>2
<1> HIDE DEF x
<1>4. r \in {Accepted(y[1], y[2]) : y \in CState \X Seq(Deltas)}
    BY <1>1, <1>3, Zenon
<1> QED BY <1>4 DEF ChatResults

(* One fragment more.                                                        *)
LEMMA FragmentStays ==
    ASSUME NEW h \in Host
    PROVE  Stays(ChatResults(h))
<1> SUFFICES ASSUME NEW r \in ChatResults(h), NEW call \in CallFragments
             PROVE  ThenFragment(r, call) \in ChatResults(h)
    BY DEF Stays
<1>0. Broken \in ChatResults(h) /\ ~Broken.ok
    BY DEF ChatResults, Broken, Rejected
<1>1. CASE ~r.ok
    BY <1>1 DEF ThenFragment
<1>2. CASE r.ok
    <2>1. PICK a, deltas : /\ deltas \in Seq(Deltas) /\ r = Accepted(a, deltas)
                           /\ CHeard(a, FoldLeft(Hear, h, deltas))
        BY <1>2 DEF ChatResults, ChatHeard
    <2>2. r.asm = a /\ r.deltas = deltas
        BY <2>1 DEF Accepted
    <2> DEFINE next == ToolFragment(a, call)
    <2>3. CASE ~next.ok
        <3>1. next = Broken
            BY <2>3 DEF ToolFragment, Accepted
        <3>2. ThenFragment(r, call) = next
            BY <1>2, <2>2, <2>3 DEF ThenFragment
        <3> QED BY <1>0, <3>1, <3>2
    <2>4. CASE next.ok
        <3>1. PICK a2, d : /\ d \in Deltas /\ CHeard(a2, Hear(FoldLeft(Hear, h, deltas), d))
                           /\ next = Accepted(a2, <<d>>)
            BY <2>1, <2>4, FragmentHeard
        <3> DEFINE more == deltas \o <<d>>
        <3>2. next.asm = a2 /\ next.deltas = <<d>>
            BY <3>1 DEF Accepted
        <3>3. ThenFragment(r, call) = Accepted(a2, more)
            BY <1>2, <2>2, <2>4, <3>2, Zenon DEF ThenFragment
        <3>4. more \in Seq(Deltas)
            <4>1. <<d>> \in Seq(Deltas)
                BY <3>1
            <4> QED BY <2>1, <4>1, ConcatProperties
        <3>5. FoldLeft(Hear, h, more) = Hear(FoldLeft(Hear, h, deltas), d)
            BY <2>1, <3>1, HearMore
        <3> HIDE DEF more
        <3>6. ChatHeard(ThenFragment(r, call), h)
            BY <3>1, <3>3, <3>4, <3>5 DEF ChatHeard
        <3> QED BY <3>6, ChatResult
    <2> QED BY <2>3, <2>4
<1> QED BY <1>1, <1>2

(* The text and the reasoning of a chunk, before its fragments of calls.     *)
LEMMA ChunkSays ==
    ASSUME NEW a, NEW h, CHeard(a, h), NEW text \in Text, NEW reasoning \in Text
    PROVE  ChatHeard(Accepted([a EXCEPT !.text = @ \o text, !.reasoning = @ \o reasoning],
                              NonEmpty(text, TextDelta(text))), h)
<1> DEFINE deltas == NonEmpty(text, TextDelta(text))
           t == a.text \o text
           q == a.reasoning \o reasoning
           a1 == [a EXCEPT !.text = t]
           a2 == [a EXCEPT !.text = t, !.reasoning = q]
           h2 == FoldLeft(Hear, h, deltas)
<1>1. a \in CState /\ h \in Host /\ h.text = a.text /\ a.text \in Seq(STRING) /\ a.reasoning \in Seq(STRING)
    BY DEF CHeard, CState, Text
<1>2. text \in Seq(STRING) /\ reasoning \in Seq(STRING)
    BY DEF Text
<1>3. t \in Text /\ q \in Text
    BY <1>1, <1>2, ConcatProperties DEF Text
<1>4. deltas \in Seq(Deltas) /\ SaidText(h2, h, text)
    <2>1. CASE text = <<>>
        <3>1. deltas = <<>>
            BY <2>1 DEF NonEmpty
        <3>2. deltas \in Seq(Deltas) /\ h2 = h
            BY <1>1, <3>1, NothingSaid
        <3>3. h.text \o text = h.text
            BY <1>1, <2>1, ConcatEmptySeq
        <3> QED BY <1>1, <3>2, <3>3 DEF SaidText
    <2>2. CASE text # <<>>
        <3>1. deltas = <<TextDelta(text)>>
            BY <2>2 DEF NonEmpty
        <3> QED BY <1>1, <3>1, TextSaid
    <2> QED BY <2>1, <2>2
<1> HIDE DEF deltas, h2, t, q
<1>5. a1 \in CState /\ a1.text = t /\ a1.tools = a.tools
    BY <1>1, <1>3 DEF CState
<1>6. a2 = [a1 EXCEPT !.reasoning = q]
    BY <1>1 DEF CState
<1> HIDE DEF a1, a2
<1>7. a2 \in CState /\ a2.text = t /\ a2.tools = a.tools
    BY <1>3, <1>5, <1>6 DEF CState
<1>8. CHeard(a2, h2)
    BY <1>1, <1>4, <1>7 DEF CHeard, SaidText, t
<1>9. ChatHeard(Accepted(a2, deltas), h)
    BY <1>4, <1>8 DEF ChatHeard, h2
<1> QED BY <1>9 DEF a2, deltas, t, q

(* A chunk with a choice.                                                    *)
LEMMA ChoiceGoesOn ==
    ASSUME NEW a, NEW h, CHeard(a, h), NEW choice, choice.content \in Text, choice.reasoning \in Text,
           choice.tool_calls \in Seq(CallFragments), choice.finish_reason \in Seq(STRING),
           Choice(a, choice).ok
    PROVE  ChatHeard(Choice(a, choice), h)
<1> DEFINE said == [a EXCEPT !.text = @ \o choice.content, !.reasoning = @ \o choice.reasoning]
           first == Accepted(said, NonEmpty(choice.content, TextDelta(choice.content)))
           end == FoldLeft(ThenFragment, first, choice.tool_calls)
<1>1. h \in Host
    BY DEF CHeard
<1>2. ChatHeard(first, h)
    BY ChunkSays
<1> HIDE DEF said
<1>3. /\ Choice(a, choice) = (IF ~end.ok \/ choice.finish_reason = <<>> THEN end
                              ELSE Accepted([end.asm EXCEPT !.finish = choice.finish_reason], end.deltas))
    BY DEF Choice, Broken, Rejected, said
<1> HIDE DEF first
<1>4. first \in ChatResults(h)
    BY <1>2, ChatResult
<1>5. Stays(ChatResults(h))
    BY <1>1, FragmentStays
<1> DEFINE T == ChatResults(h)
<1>6. end \in T
    <2> HIDE DEF T
    <2>1. first \in T /\ Stays(T)
        BY <1>4, <1>5 DEF T
    <2> QED BY <2>1, FragmentsFold
<1> HIDE DEF end
<1>7. end.ok
    <2>1. \/ end = Broken
          \/ \E x : end = Accepted(x[1], x[2])
        BY <1>6 DEF ChatResults
    <2>2. CASE end = Broken
        BY <1>3, <2>2 DEF Broken, Rejected
    <2>3. CASE \E x : end = Accepted(x[1], x[2])
        BY <2>3 DEF Accepted
    <2> QED BY <2>1, <2>2, <2>3
<1>8. PICK a2, deltas : /\ deltas \in Seq(Deltas) /\ end = Accepted(a2, deltas)
                        /\ CHeard(a2, FoldLeft(Hear, h, deltas))
    BY <1>6, <1>7 DEF ChatResults, ChatHeard
<1>9. CASE choice.finish_reason = <<>>
    BY <1>3, <1>8, <1>9 DEF ChatHeard
<1>10. CASE choice.finish_reason # <<>>
    <2> DEFINE a3 == [a2 EXCEPT !.finish = choice.finish_reason]
    <2>1. end.asm = a2 /\ end.deltas = deltas
        BY <1>8 DEF Accepted
    <2>2. Choice(a, choice) = Accepted(a3, deltas)
        BY <1>3, <1>7, <1>10, <2>1
    <2>3. a2 \in CState
        BY <1>8 DEF CHeard
    <2>4. a3 \in CState /\ a3.tools = a2.tools /\ a3.text = a2.text
        BY <2>3 DEF CState
    <2> HIDE DEF a3
    <2>5. CHeard(a3, FoldLeft(Hear, h, deltas))
        BY <1>8, <2>4 DEF CHeard
    <2> QED BY <1>8, <2>2, <2>5 DEF ChatHeard
<1> QED BY <1>9, <1>10

(* Every event but the last.                                                 *)
LEMMA ChatGoesOn ==
    ASSUME NEW a, NEW h, CHeard(a, h), NEW event, ChatEvents(event), event.type # "[DONE]",
           ChatEvent(a, event).ok
    PROVE  ChatHeard(ChatEvent(a, event), h)
<1> DEFINE named == [a EXCEPT !.id = event.id]
<1>1. event.type = "chunk"
    BY DEF ChatEvents, ChatEvent, ProviderError, Rejected
<1>2. ChatEvent(a, event) = (IF event.choices = <<>> THEN Accepted(named, <<>>)
                             ELSE Choice(named, event.choices[1]))
    BY <1>1 DEF ChatEvent, Broken, Rejected
<1>3. event.id \in Seq(STRING)
    BY <1>1 DEF ChatEvents
<1>4. a \in CState /\ h \in Host
    BY DEF CHeard
<1>5. named \in CState /\ named.tools = a.tools /\ named.text = a.text
    BY <1>3, <1>4 DEF CState
<1> HIDE DEF named
<1>6. CHeard(named, h)
    BY <1>5 DEF CHeard
<1>7. CASE event.choices = <<>>
    <2> DEFINE deltas == <<>>
    <2>1. deltas \in Seq(Deltas) /\ FoldLeft(Hear, h, deltas) = h
        BY <1>4, NothingSaid
    <2>2. ChatEvent(a, event) = Accepted(named, deltas)
        BY <1>2, <1>7
    <2> HIDE DEF deltas
    <2> QED BY <1>6, <2>1, <2>2 DEF ChatHeard
<1>8. CASE event.choices # <<>>
    <2> DEFINE choice == event.choices[1]
    <2>1. /\ choice.content \in Text /\ choice.reasoning \in Text
          /\ choice.tool_calls \in Seq(CallFragments) /\ choice.finish_reason \in Seq(STRING)
        BY <1>1, <1>8 DEF ChatEvents
    <2>2. ChatEvent(a, event) = Choice(named, choice) /\ Choice(named, choice).ok
        BY <1>2, <1>8
    <2> HIDE DEF choice
    <2> QED BY <1>6, <2>1, <2>2, ChoiceGoesOn
<1> QED BY <1>7, <1>8

-----------------------------------------------------------------------------
(* The end of a Chat Completions stream.  What an item made of a tool says.  *)
ChatItem(item, tool) ==
    /\ CallPiece(item) = <<item>> /\ TextPiece(item) = <<>>
    /\ item.name = tool.name /\ item.pid = <<tool.id[1]>> /\ item.args = JsonOf(tool.arguments)

(* The tools [DONE] keeps: all but a last one cut off, each of them whole.   *)
KeptTools(tools, a) ==
    /\ Len(tools) \in Nat /\ Len(tools) <= Len(a.tools)
    /\ \A t \in 1..Len(tools) : tools[t] = a.tools[t] /\ tools[t].id # <<>> /\ Complete(tools[t])
    /\ Len(tools) # Len(a.tools) =>
          Len(a.tools) = Len(tools) + 1 /\ ChatStop(a.finish[1]) = "MaxTokens"

(* Those WholeTools leaves.                                                  *)
LEMMA ToolsKept ==
    ASSUME NEW a, a \in CState,
           \A t \in 1..Len(WholeTools(a)) : WholeTools(a)[t].id # <<>> /\ Complete(WholeTools(a)[t])
    PROVE  KeptTools(WholeTools(a), a)
<1> DEFINE tools == WholeTools(a)
           n == Len(a.tools)
           dropped == a.tools # <<>> /\ ChatStop(a.finish[1]) = "MaxTokens" /\ ~Complete(Last(a.tools))
<1>1. a.tools \in Seq(CallHeard) /\ n \in Nat
    BY DEF CState
<1>2. tools = (IF dropped THEN Front(a.tools) ELSE a.tools)
    BY DEF WholeTools
<1>k. \A t \in 1..Len(tools) : tools[t].id # <<>> /\ Complete(tools[t])
    OBVIOUS
<1> HIDE DEF tools
<1>3. ASSUME ~dropped PROVE KeptTools(tools, a)
    BY <1>k, <1>1, <1>2, <1>3 DEF KeptTools
<1>4. ASSUME dropped PROVE KeptTools(tools, a)
    <2>1. tools = SubSeq(a.tools, 1, n - 1)
        BY <1>2, <1>4 DEF Front
    <2>2. n # 0 /\ ChatStop(a.finish[1]) = "MaxTokens"
        BY <1>1, <1>4, EmptySeq
    <2>3. Len(tools) = n - 1 /\ \A b \in 1..(n - 1) : tools[b] = a.tools[b]
        BY <1>1, <2>1, <2>2
    <2> HIDE DEF n
    <2>4. Len(tools) \in Nat /\ Len(tools) <= n /\ n = Len(tools) + 1
        BY <1>1, <2>2, <2>3
    <2>5. \A b \in 1..Len(tools) : b \in 1..(n - 1)
        BY <2>3
    <2> QED BY <1>k, <2>2, <2>3, <2>4, <2>5 DEF KeptTools, n
<1> QED BY <1>3, <1>4 DEF tools

(* The items an output is made of: an item of what no fact holds, the text,  *)
(* and an item of each tool.                                                 *)
ChatParsed(parsed, a, tools) ==
    \E residue, text, item :
       /\ parsed.items = (residue \o text) \o FlattenSeq([t \in 1..Len(tools) |-> <<item[t]>>])
       /\ residue = <<>> \/ \E object : residue = <<SealedItem(ChatName, object)>>
       /\ text = (IF a.text = <<>> THEN <<>> ELSE <<TextItem(a.text, <<>>)>>)
       /\ \A t \in 1..Len(tools) : ChatItem(item[t], tools[t])

(* The fields of the message put together.                                   *)
LEMMA MessageFields ==
    ASSUME NEW a, NEW tools, Len(tools) \in Nat
    PROVE  LET message == AssembledMessage(a, tools)
           IN  /\ "content" \in DOMAIN message <=> a.text # <<>>
               /\ a.text # <<>> => message.content = [str |-> a.text]
               /\ "tool_calls" \in DOMAIN message
               /\ message.tool_calls = [t \in 1..Len(tools) |-> AssembledCall(tools[t])]
<1> DEFINE calls == [t \in 1..Len(tools) |-> AssembledCall(tools[t])]
           called == [role |-> "assistant", tool_calls |-> calls]
           content == [str |-> a.text]
           said == IF a.text = <<>> THEN called ELSE WithField(called, "content", content)
           message == IF a.reasoning = <<>> THEN said ELSE WithField(said, "reasoning_content", a.reasoning)
<1>1. AssembledMessage(a, tools) = message
    BY DEF AssembledMessage
<1>2. /\ "tool_calls" \in DOMAIN called /\ called.tool_calls = calls
      /\ "content" \notin DOMAIN called
    OBVIOUS
<1> HIDE DEF calls, content, called
<1>3. /\ "content" \in DOMAIN said <=> a.text # <<>>
      /\ a.text # <<>> => said.content = content
      /\ "tool_calls" \in DOMAIN said /\ said.tool_calls = calls
    BY <1>2 DEF WithField
<1> HIDE DEF said
<1>4. /\ "content" \in DOMAIN message <=> "content" \in DOMAIN said
      /\ "content" \in DOMAIN said => message.content = said.content
      /\ "tool_calls" \in DOMAIN message /\ message.tool_calls = said.tool_calls
    BY <1>3 DEF WithField
<1> HIDE DEF message
<1> QED BY <1>1, <1>3, <1>4 DEF calls, content

(* A tool that is whole decodes to its arguments.                            *)
LEMMA CallDecodes ==
    ASSUME NEW tool, Complete(tool), NEW cutOff
    PROVE  LET call == AssembledCall(tool)
           IN  /\ DecodedCall(call, cutOff).ok /\ DecodedCall(call, cutOff).args = <<JsonOf(tool.arguments)>>
               /\ ChatItem(ChatCallItem(call, JsonOf(tool.arguments)), tool)
<1> DEFINE call == AssembledCall(tool)
           args == RawArguments(tool.arguments)
           function == [name |-> tool.name, arguments |-> args]
           raw == <<args>>
           item == ChatCallItem(call, JsonOf(tool.arguments))
<1>1. args.value = JsonOf(tool.arguments) /\ args.value # "incomplete"
    BY DEF RawArguments, Complete
<1> HIDE DEF args
<1>2. "arguments" \in DOMAIN function /\ "name" \in DOMAIN function
      /\ function.name = tool.name /\ function.arguments = args
    OBVIOUS
<1>3. {"id", "function"} \subseteq DOMAIN call /\ call.id = tool.id[1] /\ call.function = function
    BY DEF AssembledCall, args
<1> HIDE DEF call, function
<1>4. raw # <<>> /\ raw[1].value = JsonOf(tool.arguments) /\ raw[1].value # "incomplete"
    BY <1>1
<1>5. raw = (IF "arguments" \in DOMAIN call.function THEN <<call.function.arguments>> ELSE <<>>)
    BY <1>2, <1>3
<1> HIDE DEF raw
<1>6. /\ DecodeWireArguments(raw, cutOff).ok
      /\ DecodeWireArguments(raw, cutOff).args = <<JsonOf(tool.arguments)>>
    BY <1>4 DEF DecodeWireArguments
<1>7. DecodedCall(call, cutOff) = DecodeWireArguments(raw, cutOff)
    <2>1. ~(~({"id", "function"} \subseteq DOMAIN call)) /\ ~("name" \notin DOMAIN call.function)
        BY <1>2, <1>3
    <2> QED BY <1>5, <2>1, Zenon DEF DecodedCall
<1>8. ChatItem(item, tool)
    <2> DEFINE meta == WireMeta(ChatName, CallResidue(call))
    <2>1. item = CallItem(tool.name, JsonOf(tool.arguments), tool.id[1], meta)
        BY <1>2, <1>3 DEF ChatCallItem
    <2> HIDE DEF meta
    <2>2. /\ CallPiece(item) = <<item>> /\ TextPiece(item) = <<>>
          /\ item.name = tool.name /\ item.args = JsonOf(tool.arguments) /\ item.pid = <<tool.id[1]>>
        BY <2>1, PiecesOfItems
    <2> HIDE DEF item
    <2> QED BY <2>2 DEF ChatItem
<1> QED BY <1>6, <1>7, <1>8 DEF call

(* What the parser makes of a message of whole tools.                        *)
LEMMA MessageParses ==
    ASSUME NEW a, NEW tools, Len(tools) \in Nat, \A t \in 1..Len(tools) : Complete(tools[t]), NEW stop
    PROVE  LET parsed == ParseChatMessage(AssembledMessage(a, tools), stop)
           IN  parsed.ok /\ parsed.stop = stop /\ ChatParsed(parsed, a, tools)
<1> DEFINE m == Len(tools)
           message == AssembledMessage(a, tools)
           hasContent == "content" \in DOMAIN message
           text == IF hasContent /\ "str" \in DOMAIN message.content THEN message.content.str ELSE <<>>
           calls == IF "tool_calls" \in DOMAIN message THEN message.tool_calls ELSE <<>>
           decoded == [c \in 1..Len(calls) |-> DecodedCall(calls[c], stop = "MaxTokens" /\ c = Len(calls))]
           residue == MessageResidue(message, text)
           texts == IF text = <<>> THEN <<>> ELSE <<TextItem(text, <<>>)>>
           item == [t \in 1..m |-> ChatCallItem(AssembledCall(tools[t]), JsonOf(tools[t].arguments))]
           pieces == [c \in 1..Len(calls) |-> IF decoded[c].args = <<>> THEN <<>>
                                              ELSE <<ChatCallItem(calls[c], decoded[c].args[1])>>]
           parsed == ParseChatMessage(message, stop)
<1>1. /\ hasContent <=> a.text # <<>>
      /\ a.text # <<>> => message.content = [str |-> a.text]
      /\ "tool_calls" \in DOMAIN message
      /\ message.tool_calls = [t \in 1..m |-> AssembledCall(tools[t])]
    BY MessageFields
<1> HIDE DEF message
<1>2. text = a.text
    BY <1>1
<1>3. ~(hasContent /\ "parts" \in DOMAIN message.content)
    BY <1>1
<1>4. Len(calls) = m /\ \A c \in 1..m : calls[c] = AssembledCall(tools[c])
    BY <1>1
<1> HIDE DEF calls, text
<1>5. \A c \in 1..m : /\ decoded[c].ok /\ decoded[c].args = <<JsonOf(tools[c].arguments)>>
                      /\ ChatItem(item[c], tools[c])
    <2> SUFFICES ASSUME NEW c \in 1..m
                 PROVE  /\ decoded[c].ok /\ decoded[c].args = <<JsonOf(tools[c].arguments)>>
                        /\ ChatItem(item[c], tools[c])
        OBVIOUS
    <2> DEFINE cutOff == stop = "MaxTokens" /\ c = Len(calls)
               tool == tools[c]
    <2>1. Complete(tool) /\ calls[c] = AssembledCall(tool)
        BY <1>4
    <2>2. decoded[c] = DecodedCall(AssembledCall(tool), cutOff)
        BY <1>4, <2>1
    <2>3. item[c] = ChatCallItem(AssembledCall(tool), JsonOf(tool.arguments))
        OBVIOUS
    <2> HIDE DEF tool, cutOff, decoded, item
    <2>4. /\ DecodedCall(AssembledCall(tool), cutOff).ok
          /\ DecodedCall(AssembledCall(tool), cutOff).args = <<JsonOf(tool.arguments)>>
          /\ ChatItem(ChatCallItem(AssembledCall(tool), JsonOf(tool.arguments)), tool)
        BY <2>1, CallDecodes
    <2> QED BY <2>2, <2>3, <2>4 DEF tool
<1>6. pieces = [t \in 1..m |-> <<item[t]>>]
    <2>1. \A c \in 1..m : <<JsonOf(tools[c].arguments)>> # <<>>
                          /\ <<JsonOf(tools[c].arguments)>>[1] = JsonOf(tools[c].arguments)
        OBVIOUS
    <2> HIDE DEF decoded
    <2>2. \A c \in 1..m : decoded[c].args # <<>> /\ decoded[c].args[1] = JsonOf(tools[c].arguments)
        BY <1>5, <2>1
    <2> QED BY <1>4, <2>2
<1>7. ~(\E c \in 1..Len(calls) : ~decoded[c].ok)
    <2> HIDE DEF decoded
    <2> QED BY <1>4, <1>5
<1>8. parsed = [ok |-> TRUE, stop |-> stop, items |-> residue \o texts \o FlattenSeq(pieces)]
    <2> DEFINE result == [ok |-> TRUE, stop |-> stop, items |-> residue \o texts \o FlattenSeq(pieces)]
    <2>1. parsed = (IF hasContent /\ "parts" \in DOMAIN message.content THEN Undecodable
                    ELSE IF \E c \in 1..Len(calls) : ~decoded[c].ok THEN Undecodable ELSE result)
        BY Zenon DEF ParseChatMessage, calls, text
    <2> HIDE DEF result, parsed, decoded, hasContent
    <2> QED BY <1>3, <1>7, <2>1, Zenon DEF result, hasContent
<1> HIDE DEF parsed
<1>9. parsed.ok /\ parsed.stop = stop /\ parsed.items = (residue \o texts) \o FlattenSeq(pieces)
    <2> HIDE DEF residue, texts, pieces
    <2> QED BY <1>8
<1>10. residue = <<>> \/ \E object : residue = <<SealedItem(ChatName, object)>>
    BY DEF MessageResidue
<1>11. texts = (IF a.text = <<>> THEN <<>> ELSE <<TextItem(a.text, <<>>)>>)
    BY <1>2
<1>12. \A t \in 1..m : ChatItem(item[t], tools[t])
    BY <1>5
<1>13. parsed.items = (residue \o texts) \o FlattenSeq([t \in 1..m |-> <<item[t]>>])
    <2> HIDE DEF pieces, item
    <2> QED BY <1>6, <1>9
<1> HIDE DEF residue, texts, item
<1>14. ChatParsed(parsed, a, tools)
    BY <1>10, <1>11, <1>12, <1>13 DEF ChatParsed
<1> QED BY <1>9, <1>14 DEF parsed, message

(* A stream that ends is parsed from what is kept.                           *)
LEMMA ChatEnds ==
    ASSUME NEW a, a \in CState, ChatDone(a).ok
    PROVE  \E tools, parsed :
              /\ KeptTools(tools, a) /\ parsed.stop = ChatStop(a.finish[1]) /\ ChatParsed(parsed, a, tools)
              /\ ChatDone(a) = Accepted(a, <<Done(parsed)>>)
<1> DEFINE tools == WholeTools(a)
           message == AssembledMessage(a, tools)
           response == [choices |-> <<[message |-> message, finish_reason |-> a.finish]>>]
           parsed == ParseChat(response)
<1>1. /\ a.finish # <<>>
      /\ \A t \in 1..Len(tools) : tools[t].id # <<>> /\ Complete(tools[t])
      /\ ChatDone(a) = Finished(a, parsed)
    BY DEF ChatDone, Broken, Rejected
<1>2. KeptTools(tools, a)
    BY <1>1, ToolsKept
<1> HIDE DEF tools
<1>3. /\ Len(response.choices) = 1 /\ response.choices[1].message = message
      /\ response.choices[1].finish_reason = a.finish
    OBVIOUS
<1> HIDE DEF response, message
<1>4. parsed = ParseChatMessage(message, ChatStop(a.finish[1]))
    BY <1>1, <1>3 DEF ParseChat
<1>5. Len(tools) \in Nat
    BY <1>2 DEF KeptTools
<1>6. parsed.ok /\ parsed.stop = ChatStop(a.finish[1]) /\ ChatParsed(parsed, a, tools)
    BY <1>1, <1>4, <1>5, MessageParses DEF message
<1> HIDE DEF parsed
<1>7. ChatDone(a) = Accepted(a, <<Done(parsed)>>)
    BY <1>1, <1>6 DEF Finished
<1> QED BY <1>2, <1>6, <1>7

(* One item each, put together.                                              *)
LEMMA OneEachJoined ==
    ASSUME NEW m \in Nat, NEW item
    PROVE  LET joined == FlattenSeq([t \in 1..m |-> <<item[t]>>])
           IN  /\ joined \in Seq({item[t] : t \in 1..m}) /\ Len(joined) = m
               /\ \A t \in 1..m : joined[t] = item[t]
<1> DEFINE V == {item[t] : t \in 1..m}
           C == [t \in 1..m |-> <<item[t]>>]
           u == [k \in 0..m |-> k]
<1>1. C \in [1..m -> Seq(V)]
    <2>1. \A t \in 1..m : <<item[t]>> \in Seq(V)
        <3> SUFFICES ASSUME NEW t \in 1..m PROVE <<item[t]>> \in Seq(V)
            OBVIOUS
        <3> DEFINE x == item[t]
        <3>1. x \in V
            OBVIOUS
        <3> HIDE DEF V, x
        <3>2. <<x>> \in Seq(V)
            BY <3>1
        <3> QED BY <3>2 DEF x
    <2> HIDE DEF V
    <2> QED BY <2>1
<1>2. \A k \in 1..m : C[k] = <<item[k]>> /\ C[k][1] = item[k] /\ C[k] # <<>>
    OBVIOUS
<1>3. u \in [0..m -> Nat] /\ u[0] = 0 /\ \A k \in 1..m : u[k] = u[k - 1] + 1
    OBVIOUS
<1>4. [l \in 1..m |-> C[l]] = [t \in 1..m |-> <<item[t]>>]
    OBVIOUS
<1>u. \A k \in 1..m : u[k - 1] + 1 = k
    OBVIOUS
<1>m. u[m] = m
    OBVIOUS
<1> HIDE DEF C, u, V
<1>5. \A k \in 1..m : C[k] = <<>> \/ C[k] = <<C[k][1]>>
    BY <1>2
<1>6. \A k \in 1..m : u[k] = u[k - 1] + (IF C[k] = <<>> THEN 0 ELSE 1)
    BY <1>2, <1>3
<1>7. Placed(Joined(C, m), C, u, m)
    BY <1>1, <1>3, <1>5, <1>6, PiecesPlaced
<1>8. Joined(C, m) \in Seq(V)
    <2>1. m \in 0..m
        OBVIOUS
    <2> QED BY <1>1, <2>1, JoinedChain
<1>9. Joined(C, m) = FlattenSeq([t \in 1..m |-> <<item[t]>>])
    BY <1>4 DEF Joined
<1>10. /\ Len(Joined(C, m)) = m
       /\ \A k \in 1..m : Joined(C, m)[u[k - 1] + 1] = C[k][1]
    BY <1>2, <1>7, <1>m DEF Placed
<1>11. \A t \in 1..m : Joined(C, m)[t] = item[t]
    BY <1>2, <1>10, <1>u
<1> QED BY <1>8, <1>9, <1>10, <1>11 DEF V

(* Where the items of an output are: what comes before those of the calls.   *)
ItemsPlaced(items, head, item, m) ==
    /\ Len(items) = Len(head) + m
    /\ \A i \in 1..Len(head) : items[i] = head[i]
    /\ \A t \in 1..m : items[Len(head) + t] = item[t]

(* What comes before: nothing, or items that are no calls, of which the last *)
(* is the text if there is one.                                              *)
ChatHead(head, text) ==
    /\ Len(head) \in Nat
    /\ \A i \in 1..Len(head) : CallPiece(head[i]) = <<>> /\ TextPiece(head[i]) \in Text
    /\ \A i \in 1..Len(head) : i # Len(head) => TextPiece(head[i]) = <<>>
    /\ text = <<>> => \A i \in 1..Len(head) : TextPiece(head[i]) = <<>>
    /\ text # <<>> => Len(head) # 0 /\ TextPiece(head[Len(head)]) = text

(* The items of a parsed message are placed like that.                       *)
LEMMA ChatItemsPlaced ==
    ASSUME NEW a, a \in CState, NEW tools, Len(tools) \in Nat, NEW parsed, ChatParsed(parsed, a, tools)
    PROVE  \E head, item : /\ ItemsPlaced(parsed.items, head, item, Len(tools)) /\ ChatHead(head, a.text)
                           /\ \A t \in 1..Len(tools) : ChatItem(item[t], tools[t])
<1> DEFINE m == Len(tools)
<1>1. PICK residue, text, item :
       /\ parsed.items = (residue \o text) \o FlattenSeq([t \in 1..m |-> <<item[t]>>])
       /\ residue = <<>> \/ \E object : residue = <<SealedItem(ChatName, object)>>
       /\ text = (IF a.text = <<>> THEN <<>> ELSE <<TextItem(a.text, <<>>)>>)
       /\ \A t \in 1..m : ChatItem(item[t], tools[t])
    BY DEF ChatParsed
<1> DEFINE tail == FlattenSeq([t \in 1..m |-> <<item[t]>>])
           said == TextItem(a.text, <<>>)
           head == residue \o text
<1>2. tail \in Seq({item[t] : t \in 1..m}) /\ Len(tail) = m /\ \A t \in 1..m : tail[t] = item[t]
    BY OneEachJoined
<1>3. a.text \in Text
    BY DEF CState
<1>4. CallPiece(said) = <<>> /\ TextPiece(said) = a.text
    BY <1>3, PiecesOfItems
<1>e. <<>> \in Text
    BY EmptySeq DEF Text
<1> HIDE DEF tail, said
<1>5. (\E S : head \in Seq(S)) /\ ChatHead(head, a.text)
    <2>1. CASE residue = <<>> /\ a.text = <<>>
        <3>1. head = <<>>
            BY <1>1, <2>1
        <3> HIDE DEF head
        <3>2. Len(head) = 0 /\ head \in Seq({})
            BY <3>1, EmptySeq
        <3> QED BY <2>1, <3>2 DEF ChatHead
    <2>2. CASE residue = <<>> /\ a.text # <<>>
        <3>1. head = <<said>>
            BY <1>1, <2>2 DEF said
        <3> HIDE DEF head
        <3>2. Len(head) = 1 /\ head[1] = said /\ head \in Seq({said})
            BY <3>1
        <3> QED BY <1>3, <1>4, <2>2, <3>2 DEF ChatHead
    <2>3. CASE residue # <<>>
        <3>1. PICK object : residue = <<SealedItem(ChatName, object)>>
            BY <1>1, <2>3
        <3> DEFINE sealed == SealedItem(ChatName, object)
        <3>2. CallPiece(sealed) = <<>> /\ TextPiece(sealed) = <<>>
            BY PiecesOfItems
        <3> HIDE DEF sealed
        <3>3. CASE a.text = <<>>
            <4>1. head = <<sealed>>
                BY <1>1, <3>1, <3>3 DEF sealed
            <4> HIDE DEF head
            <4>2. Len(head) = 1 /\ head[1] = sealed /\ head \in Seq({sealed})
                BY <4>1
            <4> QED BY <1>e, <3>2, <3>3, <4>2 DEF ChatHead
        <3>4. CASE a.text # <<>>
            <4>1. residue = <<sealed>> /\ text = <<said>>
                BY <1>1, <3>1, <3>4 DEF sealed, said
            <4> DEFINE W == {sealed, said}
            <4>w. sealed \in W /\ said \in W
                OBVIOUS
            <4> HIDE DEF W
            <4>3. /\ residue \in Seq(W) /\ Len(residue) = 1 /\ residue[1] = sealed
                  /\ text \in Seq(W) /\ Len(text) = 1 /\ text[1] = said
                BY <4>1, <4>w
            <4>4. /\ head \in Seq(W) /\ Len(head) = Len(residue) + Len(text)
                  /\ \A i \in 1..Len(residue) + Len(text) :
                        head[i] = IF i <= Len(residue) THEN residue[i] ELSE text[i - Len(residue)]
                BY <4>3, ConcatProperties
            <4> HIDE DEF head
            <4>2. Len(head) = 2 /\ head[1] = sealed /\ head[2] = said /\ head \in Seq(W)
                BY <4>3, <4>4
            <4> QED BY <1>3, <1>4, <1>e, <3>2, <3>4, <4>2 DEF ChatHead
        <3> QED BY <3>3, <3>4
    <2> QED BY <2>1, <2>2, <2>3
<1>6. parsed.items = head \o tail
    BY <1>1 DEF tail
<1> HIDE DEF head
<1>7. ItemsPlaced(parsed.items, head, item, m)
    <2>1. PICK S : head \in Seq(S)
        BY <1>5
    <2> DEFINE W == S \cup {item[t] : t \in 1..m}
    <2>2. head \in Seq(W) /\ tail \in Seq(W)
        BY <1>2, <2>1, SeqMonotonic
    <2> HIDE DEF W
    <2>3. /\ Len(head \o tail) = Len(head) + Len(tail)
          /\ \A i \in 1..Len(head) + Len(tail) :
                (head \o tail)[i] = IF i <= Len(head) THEN head[i] ELSE tail[i - Len(head)]
        BY <2>2, ConcatProperties
    <2>4. Len(head) \in Nat
        BY <2>2
    <2>5. \A i \in 1..Len(head) : i \in 1..Len(head) + m /\ i <= Len(head)
        BY <2>4
    <2>6. \A t \in 1..m : /\ Len(head) + t \in 1..Len(head) + m /\ ~(Len(head) + t <= Len(head))
                          /\ (Len(head) + t) - Len(head) = t
        BY <2>4
    <2>7. \A i \in 1..Len(head) : (head \o tail)[i] = head[i]
        BY <1>2, <2>3, <2>5
    <2>8. \A t \in 1..m : (head \o tail)[Len(head) + t] = item[t]
        BY <1>2, <2>3, <2>6
    <2> QED BY <1>2, <1>6, <2>3, <2>7, <2>8 DEF ItemsPlaced
<1> QED BY <1>1, <1>5, <1>7

(* The calls of such items.                                                  *)
LEMMA CallsPlaced ==
    ASSUME NEW items, NEW head, NEW item, NEW m \in Nat, ItemsPlaced(items, head, item, m),
           NEW text, ChatHead(head, text), \A t \in 1..m : CallPiece(item[t]) = <<item[t]>>,
           NEW parsed, parsed.items = items
    PROVE  Len(CallsOf(parsed)) = m /\ \A t \in 1..m : CallsOf(parsed)[t] = item[t]
<1> DEFINE n == Len(head)
           Q == [i \in 1..(n + m) |-> CallPiece(items[i])]
           u == [k \in 0..(n + m) |-> IF k <= n THEN 0 ELSE k - n]
           V == {item[t] : t \in 1..m}
<1>1. n \in Nat /\ Len(items) = n + m /\ n + m \in Nat
    BY DEF ItemsPlaced, ChatHead
<1>2. CallsOf(parsed) = Joined(Q, n + m)
    <2>1. [l \in 1..(n + m) |-> Q[l]] = Q
        OBVIOUS
    <2> QED BY <1>1, <2>1 DEF CallsOf, Joined
<1>3. \A i \in 1..n : i \in 1..(n + m) /\ Q[i] = <<>>
    <2>1. \A i \in 1..n : i \in 1..(n + m)
        BY <1>1
    <2> QED BY <2>1 DEF ItemsPlaced, ChatHead
<1>4. \A t \in 1..m : n + t \in 1..(n + m) /\ Q[n + t] = <<item[t]>>
    <2>1. \A t \in 1..m : n + t \in 1..(n + m)
        BY <1>1
    <2> QED BY <2>1 DEF ItemsPlaced
<1>5. \A k \in 1..(n + m) : k \in 1..n \/ (k - n \in 1..m /\ k = n + (k - n))
    BY <1>1
<1>6. u \in [0..(n + m) -> Nat] /\ u[0] = 0 /\ u[n + m] = m
    BY <1>1
<1>7. /\ \A k \in 1..n : u[k] = u[k - 1]
      /\ \A t \in 1..m : u[n + t] = u[(n + t) - 1] + 1 /\ u[(n + t) - 1] + 1 = t
    <2>1. \A k \in 1..n : k \in 0..(n + m) /\ k - 1 \in 0..(n + m) /\ k <= n /\ k - 1 <= n
        BY <1>1
    <2>2. \A k \in 1..n : u[k] = u[k - 1]
        BY <2>1
    <2>3. ASSUME NEW t \in 1..m PROVE u[n + t] = u[(n + t) - 1] + 1 /\ u[(n + t) - 1] + 1 = t
        <3>1. n + t \in 0..(n + m) /\ (n + t) - 1 \in 0..(n + m) /\ ~(n + t <= n)
            BY <1>1
        <3>2. u[n + t] = (n + t) - n
            BY <3>1
        <3>3. u[(n + t) - 1] = (IF (n + t) - 1 <= n THEN 0 ELSE ((n + t) - 1) - n)
            BY <3>1
        <3> QED BY <1>1, <3>2, <3>3
    <2> QED BY <2>2, <2>3
<1>8. Q \in [1..(n + m) -> Seq(V)]
    <2>1. ASSUME NEW i \in 1..(n + m) PROVE Q[i] \in Seq(V)
        <3>1. CASE i \in 1..n
            BY <1>3, <3>1, EmptySeq
        <3>2. CASE i \notin 1..n
            <4>1. PICK t \in 1..m : i = n + t
                BY <1>5, <3>2
            <4> DEFINE x == item[t]
            <4>2. x \in V /\ Q[i] = <<x>>
                BY <1>4, <4>1
            <4> HIDE DEF V, x, Q
            <4>3. <<x>> \in Seq(V)
                BY <4>2
            <4> QED BY <4>2, <4>3
        <3> QED BY <3>1, <3>2
    <2> HIDE DEF V
    <2> QED BY <2>1
<1> HIDE DEF Q, u, V
<1>x. \A x : <<x>> # <<>> /\ <<x>>[1] = x
    OBVIOUS
<1>9. ASSUME NEW k \in 1..(n + m)
      PROVE  /\ Q[k] = <<>> \/ Q[k] = <<Q[k][1]>>
             /\ u[k] = u[k - 1] + (IF Q[k] = <<>> THEN 0 ELSE 1)
    <2>1. CASE k \in 1..n
        <3>1. u[k - 1] \in Nat
            <4>1. k - 1 \in 0..(n + m)
                BY <1>1
            <4> QED BY <1>6, <4>1
        <3>2. Q[k] = <<>> /\ u[k] = u[k - 1]
            BY <1>3, <1>7, <2>1
        <3> QED BY <3>1, <3>2
    <2>2. CASE k \notin 1..n
        <3>1. PICK t \in 1..m : k = n + t
            BY <1>5, <2>2
        <3> DEFINE x == item[t]
        <3>2. Q[k] = <<x>> /\ u[k] = u[k - 1] + 1
            BY <1>4, <1>7, <3>1
        <3> HIDE DEF x
        <3> QED BY <1>x, <3>2
    <2> QED BY <2>1, <2>2
<1>10. Placed(Joined(Q, n + m), Q, u, n + m)
    BY <1>1, <1>6, <1>8, <1>9, PiecesPlaced
<1> DEFINE calls == CallsOf(parsed)
<1>11. Len(calls) = m /\ \A k \in 1..(n + m) : Q[k] # <<>> => calls[u[k - 1] + 1] = Q[k][1]
    BY <1>2, <1>6, <1>10 DEF Placed
<1> HIDE DEF calls
<1>12. ASSUME NEW t \in 1..m PROVE calls[t] = item[t]
    <2> DEFINE k == n + t
    <2>1. k \in 1..(n + m) /\ Q[k] = <<item[t]>> /\ u[k - 1] + 1 = t
        BY <1>4, <1>7
    <2> HIDE DEF k
    <2>2. Q[k] # <<>> /\ Q[k][1] = item[t]
        BY <1>x, <2>1
    <2>3. calls[u[k - 1] + 1] = Q[k][1]
        BY <1>11, <2>1, <2>2
    <2> QED BY <2>1, <2>2, <2>3
<1> QED BY <1>11, <1>12 DEF calls

(* The text of such items.                                                   *)
LEMMA TextPlaced ==
    ASSUME NEW items, NEW head, NEW item, NEW m \in Nat, ItemsPlaced(items, head, item, m),
           NEW text \in Text, ChatHead(head, text), \A t \in 1..m : TextPiece(item[t]) = <<>>,
           NEW parsed, parsed.items = items
    PROVE  TextsOf(parsed) = text
<1> DEFINE n == Len(head)
           F == [i \in 1..(n + m) |-> TextPiece(items[i])]
<1>1. n \in Nat /\ Len(items) = n + m /\ n + m \in Nat
    BY DEF ItemsPlaced, ChatHead
<1>2. TextsOf(parsed) = Joined(F, n + m)
    <2>1. [l \in 1..(n + m) |-> F[l]] = F
        OBVIOUS
    <2> QED BY <1>1, <2>1 DEF TextsOf, Joined
<1>3. \A i \in 1..n : i \in 1..(n + m) /\ F[i] = TextPiece(head[i]) /\ F[i] \in Seq(STRING)
    <2>1. \A i \in 1..n : i \in 1..(n + m)
        BY <1>1
    <2> QED BY <2>1 DEF ItemsPlaced, ChatHead, Text
<1>4. \A l \in (n + 1)..(n + m) : F[l] = <<>>
    <2> SUFFICES ASSUME NEW l \in (n + 1)..(n + m) PROVE F[l] = <<>>
        OBVIOUS
    <2> DEFINE t == l - n
    <2>1. t \in 1..m /\ l = n + t /\ l \in 1..(n + m)
        BY <1>1
    <2> HIDE DEF t
    <2>2. items[n + t] = item[t]
        BY <2>1 DEF ItemsPlaced
    <2> QED BY <2>1, <2>2
<1>5. F \in [1..(n + m) -> Seq(STRING)]
    <2>1. \A i \in 1..(n + m) : i \in 1..n \/ i \in (n + 1)..(n + m)
        BY <1>1
    <2>2. \A i \in 1..(n + m) : F[i] \in Seq(STRING)
        BY <1>3, <1>4, <2>1, EmptySeq
    <2> QED BY <2>2
<1> HIDE DEF F
<1>6. Skips(F, n + m)
    BY <1>1, <1>5, JoinedSkip
<1>7. Joined(F, n + m) = Joined(F, n)
    <2>1. n \in 0..(n + m) /\ n + m \in n..(n + m)
        BY <1>1
    <2> QED BY <1>4, <1>6, <2>1 DEF Skips
<1>8. /\ Joined(F, 0) = <<>>
      /\ \A p \in 1..(n + m) : Joined(F, p) = Joined(F, p - 1) \o F[p]
    BY <1>1, <1>5, JoinedChain
<1>9. CASE text = <<>>
    <2>1. 0 \in 0..(n + m) /\ n \in 0..(n + m) /\ \A l \in (0 + 1)..n : F[l] = <<>>
        BY <1>1, <1>3, <1>9 DEF ChatHead
    <2>2. Joined(F, n) = Joined(F, 0)
        BY <1>6, <2>1 DEF Skips
    <2> QED BY <1>2, <1>7, <1>8, <1>9, <2>2
<1>10. CASE text # <<>>
    <2>1. n # 0 /\ n \in 1..(n + m) /\ F[n] = text
        BY <1>1, <1>3, <1>10 DEF ChatHead
    <2>2. /\ 0 \in 0..(n + m) /\ n - 1 \in 0..(n + m) /\ n - 1 \in 0..(n + m)
          /\ \A l \in (0 + 1)..(n - 1) : l \in 1..n /\ l # n
        BY <1>1, <2>1
    <2>3. \A l \in (0 + 1)..(n - 1) : F[l] = <<>>
        BY <1>3, <2>2 DEF ChatHead
    <2>4. Joined(F, n - 1) = Joined(F, 0)
        BY <1>6, <2>2, <2>3 DEF Skips
    <2>5. <<>> \o text = text
        BY ConcatEmptySeq DEF Text
    <2> QED BY <1>2, <1>7, <1>8, <2>1, <2>4, <2>5
<1> QED BY <1>9, <1>10

(* The output of a Chat Completions stream says what the host heard.         *)
LEMMA ChatAgrees ==
    ASSUME NEW a, NEW h, CHeard(a, h), NEW event, event.type = "[DONE]", ChatEvent(a, event).ok
    PROVE  \E parsed : Ends(ChatEvent(a, event), h, parsed) /\ h.text = TextsOf(parsed)
<1> DEFINE n == Len(a.tools)
           r == ChatEvent(a, event)
<1>1. /\ a \in CState /\ h \in Host /\ h.text = a.text /\ DOMAIN h.calls = 0..n - 1
      /\ \A t \in 1..n : h.calls[t - 1] = a.tools[t] /\ Len(a.tools[t].id) <= 1
    BY DEF CHeard
<1>2. r = ChatDone(a)
    BY DEF ChatEvent
<1>3. ChatDone(a).ok
    BY <1>2
<1> HIDE DEF r
<1>4. PICK tools, parsed :
         /\ KeptTools(tools, a) /\ parsed.stop = ChatStop(a.finish[1]) /\ ChatParsed(parsed, a, tools)
         /\ ChatDone(a) = Accepted(a, <<Done(parsed)>>)
    BY <1>1, <1>3, ChatEnds
<1> DEFINE m == Len(tools)
<1>5. /\ n \in Nat /\ m \in Nat /\ m <= n /\ \A t \in 1..m : t \in 1..n
      /\ m # n => n = m + 1 /\ parsed.stop = "MaxTokens"
      /\ \A t \in 1..m : tools[t] = a.tools[t] /\ tools[t].id # <<>>
      /\ \A t \in 1..n : a.tools[t].id \in Seq(STRING)
    <2>1. a.tools \in Seq(CallHeard) /\ n \in Nat
        BY <1>1 DEF CState
    <2>2. \A t \in 1..n : a.tools[t].id \in Seq(STRING)
        <3>1. \A t \in 1..n : a.tools[t] \in CallHeard
            BY <2>1
        <3>2. \A x \in CallHeard : x.id \in Seq(STRING)
            BY DEF CallHeard
        <3> QED BY <3>1, <3>2
    <2> HIDE DEF n
    <2>3. /\ m \in Nat /\ m <= n
          /\ m # n => n = m + 1 /\ parsed.stop = "MaxTokens"
          /\ \A t \in 1..m : tools[t] = a.tools[t] /\ tools[t].id # <<>>
        BY <1>4 DEF KeptTools, n
    <2> HIDE DEF m
    <2> QED BY <2>1, <2>2, <2>3
<1> HIDE DEF m
<1>6. PICK head, item :
         /\ ItemsPlaced(parsed.items, head, item, m) /\ ChatHead(head, a.text)
         /\ \A t \in 1..m : ChatItem(item[t], tools[t])
    BY <1>1, <1>4, <1>5, ChatItemsPlaced DEF m
<1>7. a.text \in Text /\ \A t \in 1..m : CallPiece(item[t]) = <<item[t]>> /\ TextPiece(item[t]) = <<>>
    BY <1>1, <1>6 DEF CState, ChatItem
<1>8. h.text = TextsOf(parsed)
    BY <1>1, <1>5, <1>6, <1>7, TextPlaced
<1> DEFINE calls == CallsOf(parsed)
<1>9. Len(calls) = m /\ \A t \in 1..m : calls[t] = item[t]
    BY <1>5, <1>6, <1>7, CallsPlaced
<1> HIDE DEF calls, n
<1>10. \/ DOMAIN h.calls = 0..Len(calls) - 1
       \/ parsed.stop = "MaxTokens" /\ DOMAIN h.calls = 0..Len(calls)
    <2>1. m # n => n - 1 = m
        BY <1>5
    <2> QED BY <1>1, <1>5, <1>9, <2>1
<1>11. ASSUME NEW c \in 1..Len(calls)
       PROVE  /\ h.calls[c - 1].id = calls[c].pid /\ h.calls[c - 1].name = calls[c].name
              /\ h.calls[c - 1].arguments # <<>> => JsonOf(h.calls[c - 1].arguments) = calls[c].args
    <2> DEFINE tool == tools[c]
    <2>1. c \in 1..m /\ c \in 1..n /\ h.calls[c - 1] = tool /\ calls[c] = item[c]
        BY <1>1, <1>5, <1>9
    <2>2. ChatItem(item[c], tool) /\ Len(tool.id) <= 1 /\ tool.id # <<>> /\ tool.id \in Seq(STRING)
        BY <1>1, <1>5, <1>6, <2>1
    <2> HIDE DEF tool
    <2>3. tool.id = <<tool.id[1]>>
        BY <2>2
    <2> QED BY <2>1, <2>2, <2>3 DEF ChatItem
<1>12. Ended(h, parsed)
    BY <1>10, <1>11 DEF Ended, calls
<1>13. Ends(r, h, parsed)
    BY <1>1, <1>2, <1>4, <1>12, FinishedEnds
<1> QED BY <1>8, <1>13 DEF r

-----------------------------------------------------------------------------
(* The Responses assembly: each call is known to the host under the id and   *)
(* the name of its item, by its number among the calls.                      *)
IsItem(x) ==
    /\ {"type", "call_id", "name", "call"} \subseteq DOMAIN x
    /\ x.name \in Text /\ x.call \in Nat

(* The items so far, of whatever else they are made.                         *)
RType(a) ==
    /\ {"id", "items", "tools", "parts"} \subseteq DOMAIN a
    /\ a.tools \in Nat /\ \E V : a.items \in Seq(V)
    /\ \A i \in 1..Len(a.items) : IsItem(a.items[i])

(* A call is heard under its number, with the id and the name it is          *)
(* declared with.                                                            *)
HeardItem(x, h) ==
    /\ x.call \in DOMAIN h.calls
    /\ h.calls[x.call].id = <<x.call_id>> /\ h.calls[x.call].name = x.name

(* There are u[k] calls among the first k items, and a call has the next     *)
(* number.                                                                   *)
Numbered(u, items, tools) ==
    /\ u \in [0..Len(items) -> Nat] /\ u[0] = 0 /\ u[Len(items)] = tools
    /\ \A k \in 1..Len(items) :
          /\ u[k] = u[k - 1] + (IF IsCallItem(items[k]) THEN 1 ELSE 0)
          /\ IsCallItem(items[k]) => items[k].call = u[k - 1]

(* The invariant of an assembly a and a host h.                              *)
RInv(a, h) ==
    /\ RType(a) /\ h \in Host /\ DOMAIN h.calls = 0..a.tools - 1
    /\ \A i \in 1..Len(a.items) : IsCallItem(a.items[i]) => HeardItem(a.items[i], h)
    /\ \E u : Numbered(u, a.items, a.tools)

(* What an event leaves as it was: the items' names and numbers, and those   *)
(* of the calls.                                                             *)
SameFace(x, y) ==
    x.type = y.type /\ x.call_id = y.call_id /\ x.name = y.name /\ x.call = y.call

(* As many items, each with the face it had.                                 *)
KeepsFaces(a2, a) ==
    /\ RType(a2) /\ a2.tools = a.tools /\ Len(a2.items) = Len(a.items)
    /\ \A i \in 1..Len(a.items) : SameFace(a2.items[i], a.items[i])

(* As many calls, each with the id and the name it had.                      *)
KeepsNames(h2, h) ==
    /\ h2 \in Host /\ DOMAIN h2.calls = DOMAIN h.calls
    /\ \A j \in DOMAIN h.calls : h2.calls[j].id = h.calls[j].id /\ h2.calls[j].name = h.calls[j].name

(* An event that is taken goes on.                                           *)
RGoesOn(r, h) ==
    /\ r.deltas \in Seq(Deltas)
    /\ RInv(r.asm, FoldLeft(Hear, h, r.deltas))

(* With names and numbers as they were, it does.                             *)
LEMMA FacesGoOn ==
    ASSUME NEW a, NEW h, RInv(a, h), NEW a2, KeepsFaces(a2, a), NEW deltas \in Seq(Deltas),
           KeepsNames(FoldLeft(Hear, h, deltas), h), NEW r, r = Accepted(a2, deltas)
    PROVE  RGoesOn(r, h)
<1> DEFINE h2 == FoldLeft(Hear, h, deltas)
           n == Len(a.items)
<1>0. r.deltas = deltas /\ r.asm = a2
    BY DEF Accepted
<1>1. /\ RType(a2) /\ a2.tools = a.tools /\ Len(a2.items) = n
      /\ \A i \in 1..n : SameFace(a2.items[i], a.items[i])
    BY DEF KeepsFaces
<1>2. /\ h2 \in Host /\ DOMAIN h2.calls = DOMAIN h.calls
      /\ \A j \in DOMAIN h.calls : h2.calls[j].id = h.calls[j].id /\ h2.calls[j].name = h.calls[j].name
    BY DEF KeepsNames
<1>3. PICK u : Numbered(u, a.items, a.tools)
    BY DEF RInv
<1> HIDE DEF h2
<1>4. \A i \in 1..n : IsCallItem(a2.items[i]) <=> IsCallItem(a.items[i])
    BY <1>1 DEF SameFace, IsCallItem
<1>5. Numbered(u, a2.items, a2.tools)
    <2>1. /\ u \in [0..n -> Nat] /\ u[0] = 0 /\ u[n] = a.tools
          /\ \A k \in 1..n : /\ u[k] = u[k - 1] + (IF IsCallItem(a.items[k]) THEN 1 ELSE 0)
                             /\ IsCallItem(a.items[k]) => a.items[k].call = u[k - 1]
        BY <1>3 DEF Numbered
    <2> HIDE DEF n
    <2>2. \A k \in 1..n : /\ u[k] = u[k - 1] + (IF IsCallItem(a2.items[k]) THEN 1 ELSE 0)
                          /\ IsCallItem(a2.items[k]) => a2.items[k].call = u[k - 1]
        BY <1>1, <1>4, <2>1 DEF SameFace
    <2> QED BY <1>1, <2>1, <2>2 DEF Numbered
<1>6. ASSUME NEW i \in 1..n, IsCallItem(a2.items[i]) PROVE HeardItem(a2.items[i], h2)
    <2>1. HeardItem(a.items[i], h) /\ SameFace(a2.items[i], a.items[i])
        BY <1>1, <1>4, <1>6 DEF RInv
    <2> QED BY <1>2, <2>1 DEF HeardItem, SameFace
<1>7. RInv(a2, h2)
    BY <1>1, <1>2, <1>5, <1>6 DEF RInv
<1> QED BY <1>0, <1>7 DEF RGoesOn, h2

(* Names are kept by a text, and by a fragment of a call's arguments.        *)
LEMMA TextKeepsNames ==
    ASSUME NEW h \in Host, NEW type, NEW text \in Text
    PROVE  /\ <<>> \in Seq(Deltas) /\ KeepsNames(FoldLeft(Hear, h, <<>>), h)
           /\ PartDeltas(type, text) \in Seq(Deltas)
           /\ KeepsNames(FoldLeft(Hear, h, PartDeltas(type, text)), h)
<1>0. KeepsNames(h, h)
    BY DEF KeepsNames
<1>1. <<>> \in Seq(Deltas) /\ FoldLeft(Hear, h, <<>>) = h
    BY NothingSaid
<1>2. CASE PartDeltas(type, text) = <<TextDelta(text)>>
    <2>1. <<TextDelta(text)>> \in Seq(Deltas) /\ SaidText(FoldLeft(Hear, h, <<TextDelta(text)>>), h, text)
        BY TextSaid
    <2> DEFINE h2 == FoldLeft(Hear, h, <<TextDelta(text)>>)
    <2> HIDE DEF h2
    <2>2. SaidText(h2, h, text) => KeepsNames(h2, h)
        BY DEF SaidText, KeepsNames
    <2> QED BY <1>0, <1>1, <1>2, <2>1, <2>2 DEF h2
<1>3. CASE PartDeltas(type, text) = <<ReasoningDelta(text)>>
    BY <1>0, <1>1, <1>3, ReasoningSaid
<1>4. CASE PartDeltas(type, text) = <<>>
    BY <1>0, <1>1, <1>4
<1>5. PartDeltas(type, text) \in {<<TextDelta(text)>>, <<ReasoningDelta(text)>>, <<>>}
    BY DEF PartDeltas
<1> QED BY <1>2, <1>3, <1>4, <1>5

(* A fragment of the arguments of a call it knows.                           *)
LEMMA ArgumentsKeepNames ==
    ASSUME NEW h \in Host, NEW i \in DOMAIN h.calls, h.calls[i].id # <<>>, NEW text \in Text
    PROVE  LET deltas == <<ToolCallDelta(i, <<>>, <<>>, <<text>>)>>
           IN  deltas \in Seq(Deltas) /\ KeepsNames(FoldLeft(Hear, h, deltas), h)
<1> DEFINE id == <<>>
           name == <<>>
           arguments == <<text>>
           deltas == <<ToolCallDelta(i, id, name, arguments)>>
           h2 == FoldLeft(Hear, h, deltas)
<1>1. PICK D \in SUBSET Nat : h.calls \in [D -> CallHeard]
    BY DEF Host, CallMaps
<1>2. i \in Nat /\ h.calls[i].name \in Seq(STRING)
    BY <1>1 DEF CallHeard, Text
<1>3. id \in Seq(STRING) /\ name \in Seq(Text) /\ arguments \in Seq(Text)
    BY EmptySeq
<1>4. FlattenSeq(name) = <<>>
    BY FlattenText
<1> HIDE DEF id, name, arguments
<1>5. deltas \in Seq(Deltas) /\ SaidCall(h2, h, i, id, name, arguments)
    BY <1>2, <1>3, CallSaid
<1> HIDE DEF h2, deltas
<1>6. /\ h2 \in Host /\ DOMAIN h2.calls = DOMAIN h.calls \cup {i}
      /\ \A j \in DOMAIN h.calls : j # i => h2.calls[j] = h.calls[j]
      /\ h2.calls[i].id = h.calls[i].id
      /\ h2.calls[i].name = h.calls[i].name \o FlattenSeq(name)
    BY <1>5 DEF SaidCall, Known
<1>7. h2.calls[i].name = h.calls[i].name
    BY <1>2, <1>4, <1>6, ConcatEmptySeq
<1>8. KeepsNames(h2, h)
    BY <1>6, <1>7 DEF KeepsNames
<1> QED BY <1>5, <1>8 DEF deltas, h2, id, name, arguments

-----------------------------------------------------------------------------
(* The events of the items.  A field that is neither name nor number can     *)
(* change.                                                                   *)
LEMMA FieldChanged ==
    ASSUME NEW y, IsItem(y), NEW key, key \notin {"type", "call_id", "name", "call"}, NEW v
    PROVE  LET x == [y EXCEPT ![key] = v] IN IsItem(x) /\ SameFace(x, y)
<1> DEFINE x == [y EXCEPT ![key] = v]
<1>1. /\ DOMAIN x = DOMAIN y
      /\ x.type = y.type /\ x.call_id = y.call_id /\ x.name = y.name /\ x.call = y.call
    BY DEF IsItem
<1> HIDE DEF x
<1>2. IsItem(x) /\ SameFace(x, y)
    BY <1>1 DEF IsItem, SameFace
<1> QED BY <1>2 DEF x

(* An item that keeps its name and number can be replaced.                   *)
LEMMA ItemChanged ==
    ASSUME NEW a, RType(a), NEW i \in 1..Len(a.items), NEW x, IsItem(x), SameFace(x, a.items[i]),
           NEW a2, DOMAIN a2 = DOMAIN a, a2.items = [a.items EXCEPT ![i] = x], a2.tools = a.tools
    PROVE  KeepsFaces(a2, a)
<1>1. PICK V : a.items \in Seq(V)
    BY DEF RType
<1> DEFINE W == V \cup {x}
           n == Len(a.items)
           new == [a.items EXCEPT ![i] = x]
<1>2. a.items \in Seq(W) /\ x \in W /\ n \in Nat
    BY <1>1, SeqMonotonic
<1> HIDE DEF W
<1>3. /\ new \in Seq(W) /\ Len(new) = n /\ new[i] = x
      /\ \A k \in 1..n : k # i => new[k] = a.items[k]
    BY <1>2, ExceptSeq
<1> HIDE DEF new, n
<1>4. a2.items = new /\ i \in 1..n
    BY DEF new, n
<1>5. \A k \in 1..n : IsItem(a.items[k]) /\ SameFace(a.items[k], a.items[k])
    BY DEF RType, SameFace, n
<1>6. \A k \in 1..n : IsItem(a2.items[k]) /\ SameFace(a2.items[k], a.items[k])
    <2> SUFFICES ASSUME NEW k \in 1..n PROVE IsItem(a2.items[k]) /\ SameFace(a2.items[k], a.items[k])
        OBVIOUS
    <2>1. CASE k = i
        BY <1>3, <1>4, <2>1
    <2>2. CASE k # i
        BY <1>3, <1>4, <1>5, <2>2
    <2> QED BY <2>1, <2>2
<1>7. RType(a2)
    BY <1>3, <1>4, <1>6 DEF RType
<1> QED BY <1>3, <1>4, <1>6, <1>7 DEF KeepsFaces, n

(* The item an event addresses is there.                                     *)
LEMMA AddressedIs ==
    ASSUME NEW a, RType(a), NEW at \in Nat, at < Len(a.items)
    PROVE  /\ at + 1 \in 1..Len(a.items) /\ (at + 1) - 1 = at
           /\ IsItem(a.items[at + 1])
<1>1. Len(a.items) \in Nat
    BY DEF RType
<1>2. at + 1 \in 1..Len(a.items)
    BY <1>1
<1> QED BY <1>2 DEF RType

(* Setting one field of an item.                                             *)
LEMMA SetField ==
    ASSUME NEW a, RType(a), NEW i \in 1..Len(a.items), NEW v,
           NEW key, key \notin {"type", "call_id", "name", "call"}
    PROVE  KeepsFaces([a EXCEPT !.items[i][key] = v], a)
<1> DEFINE x == [a.items[i] EXCEPT ![key] = v]
           a2 == [a EXCEPT !.items[i][key] = v]
<1>1. IsItem(x) /\ SameFace(x, a.items[i])
    BY FieldChanged DEF RType
<1>2. a2 = [a EXCEPT !.items = [a.items EXCEPT ![i] = x]]
    OBVIOUS
<1> HIDE DEF x, a2
<1> DEFINE new == [a.items EXCEPT ![i] = x]
<1>3. a2 = [a EXCEPT !.items = new]
    BY <1>2
<1> HIDE DEF new
<1>4. DOMAIN a2 = DOMAIN a /\ a2.items = new /\ a2.tools = a.tools
    BY <1>3 DEF RType
<1>5. KeepsFaces(a2, a)
    BY <1>1, <1>4, ItemChanged DEF new
<1> QED BY <1>5 DEF a2

(* What keeps faces, of what keeps them, keeps them.                         *)
LEMMA FacesTransitive ==
    ASSUME NEW a, NEW a2, NEW a3, KeepsFaces(a2, a), KeepsFaces(a3, a2)
    PROVE  KeepsFaces(a3, a)
BY DEF KeepsFaces, SameFace

(* The rest of the state can change.                                         *)
LEMMA OutsideItems ==
    ASSUME NEW a, RType(a), NEW v
    PROVE  /\ KeepsFaces(a, a) /\ KeepsFaces([a EXCEPT !.parts = v], a)
           /\ KeepsFaces([a EXCEPT !.id = v], a)
<1>1. \A i \in 1..Len(a.items) : SameFace(a.items[i], a.items[i])
    BY DEF SameFace
<1>2. KeepsFaces(a, a)
    BY <1>1 DEF KeepsFaces
<1> DEFINE b == [a EXCEPT !.parts = v]
           c == [a EXCEPT !.id = v]
<1>3. /\ DOMAIN b = DOMAIN a /\ b.items = a.items /\ b.tools = a.tools
      /\ DOMAIN c = DOMAIN a /\ c.items = a.items /\ c.tools = a.tools
    BY DEF RType
<1> HIDE DEF b, c
<1>4. RType(b) /\ RType(c)
    BY <1>3 DEF RType
<1>5. KeepsFaces(b, a) /\ KeepsFaces(c, a)
    BY <1>1, <1>3, <1>4 DEF KeepsFaces
<1> QED BY <1>2, <1>5 DEF b, c

(* content_part.*, output_text.*, refusal.*, reasoning_text.* and            *)
(* reasoning_summary_*.                                                      *)
LEMMA ContentGoesOn ==
    ASSUME NEW a, NEW h, RInv(a, h), NEW event, event.type \in PartEvents, ResponsesEvents(event),
           Addressed(a, event), ContentEvent(a, event).ok
    PROVE  RGoesOn(ContentEvent(a, event), h)
<1> DEFINE i     == event.output_index + 1
           p     == event.part_index + 1
           parts == a.items[i][event.list]
           r     == ContentEvent(a, event)
           put(part) == [a EXCEPT !.items[i][event.list] = [@ EXCEPT ![p] = part]]
           more  == Append(parts, Part(event.part))
           said  == IF event.text = <<>> THEN <<>> ELSE PartDeltas(event.part, event.text)
           grown == [a EXCEPT !.items[i][event.list] = Append(@, Part(event.part)), !.parts = @ + 1]
<1>1. event.text \in Text /\ event.output_index \in Nat /\ event.list \in {"parts", "summaries"}
    BY DEF ResponsesEvents, ItemEvents, PartEvents
<1>2. RType(a) /\ h \in Host
    BY DEF RInv
<1>3. i \in 1..Len(a.items)
    BY <1>1, <1>2, AddressedIs DEF Addressed
<1>4. event.list \notin {"type", "call_id", "name", "call"}
    BY <1>1
<1>5. \/ r = Accepted(grown, said)
      \/ r = Accepted(a, PartDeltas(event.part, event.text))
      \/ \E part : r = Accepted(put(part), <<>>)
    BY Zenon DEF ContentEvent, Broken, Rejected, PartEvents
<1> HIDE DEF r, said, grown, put
<1>6. ASSUME r = Accepted(grown, said) PROVE RGoesOn(r, h)
    <2> DEFINE a1 == [a EXCEPT !.items[i][event.list] = more]
    <2>1. grown = [a1 EXCEPT !.parts = a.parts + 1]
        BY <1>2 DEF grown, RType
    <2>2. KeepsFaces(a1, a)
        BY <1>2, <1>3, <1>4, SetField
    <2> HIDE DEF a1
    <2>3. KeepsFaces(grown, a1)
        BY <2>1, <2>2, OutsideItems DEF KeepsFaces
    <2>4. KeepsFaces(grown, a)
        BY <2>2, <2>3, FacesTransitive
    <2>5. said \in Seq(Deltas) /\ KeepsNames(FoldLeft(Hear, h, said), h)
        BY <1>1, <1>2, TextKeepsNames DEF said
    <2> QED BY <1>6, <2>4, <2>5, FacesGoOn
<1>7. ASSUME r = Accepted(a, PartDeltas(event.part, event.text)) PROVE RGoesOn(r, h)
    <2> DEFINE deltas == PartDeltas(event.part, event.text)
    <2>1. deltas \in Seq(Deltas) /\ KeepsNames(FoldLeft(Hear, h, deltas), h)
        BY <1>1, <1>2, TextKeepsNames
    <2>2. KeepsFaces(a, a)
        BY <1>2, OutsideItems
    <2> HIDE DEF deltas
    <2> QED BY <1>7, <2>1, <2>2, FacesGoOn DEF deltas
<1>8. ASSUME \E part : r = Accepted(put(part), <<>>) PROVE RGoesOn(r, h)
    <2>1. PICK part : r = Accepted(put(part), <<>>)
        BY <1>8
    <2> DEFINE a2 == [a EXCEPT !.items[i][event.list] = [parts EXCEPT ![p] = part]]
               deltas == <<>>
    <2>2. KeepsFaces(a2, a)
        BY <1>2, <1>3, <1>4, SetField
    <2>3. deltas \in Seq(Deltas) /\ KeepsNames(FoldLeft(Hear, h, deltas), h)
        BY <1>1, <1>2, TextKeepsNames
    <2>4. r = Accepted(a2, deltas)
        BY <2>1 DEF put
    <2> HIDE DEF a2, deltas
    <2> QED BY <2>2, <2>3, <2>4, FacesGoOn
<1>9. RGoesOn(r, h)
    BY <1>5, <1>6, <1>7, <1>8
<1> QED BY <1>9 DEF r

(* function_call_arguments.*                                                 *)
LEMMA ArgumentsGoOn ==
    ASSUME NEW a, NEW h, RInv(a, h), NEW event, event.type \in {"arguments.delta", "arguments.done"},
           ResponsesEvents(event), Addressed(a, event), ArgumentsEvent(a, event).ok
    PROVE  RGoesOn(ArgumentsEvent(a, event), h)
<1> DEFINE i == event.output_index + 1
           r == ArgumentsEvent(a, event)
           x == a.items[i]
<1>1. event.output_index \in Nat /\ (event.type = "arguments.delta" => event.text \in Text)
    BY DEF ResponsesEvents, ItemEvents
<1>2. RType(a) /\ h \in Host
    BY DEF RInv
<1>3. i \in 1..Len(a.items)
    BY <1>1, <1>2, AddressedIs DEF Addressed
<1>4. IsCallItem(x)
    BY DEF ArgumentsEvent, Broken, Rejected
<1>5. HeardItem(x, h)
    BY <1>3, <1>4 DEF RInv
<1>6. CASE event.type = "arguments.delta"
    <2> DEFINE deltas == <<ToolCallDelta(x.call, <<>>, <<>>, <<event.text>>)>>
    <2>1. r = Accepted(a, deltas)
        BY <1>6 DEF ArgumentsEvent, Broken, Rejected
    <2>2. x.call \in DOMAIN h.calls /\ h.calls[x.call].id # <<>>
        <3>1. x.call \in DOMAIN h.calls /\ h.calls[x.call].id = <<x.call_id>>
            BY <1>5 DEF HeardItem
        <3>2. <<x.call_id>> # <<>>
            OBVIOUS
        <3> HIDE DEF x
        <3> QED BY <3>1, <3>2
    <2>3. deltas \in Seq(Deltas) /\ KeepsNames(FoldLeft(Hear, h, deltas), h)
        BY <1>1, <1>2, <1>6, <2>2, ArgumentsKeepNames
    <2>4. KeepsFaces(a, a)
        BY <1>2, OutsideItems
    <2> HIDE DEF deltas, r
    <2>5. RGoesOn(r, h)
        BY <2>1, <2>3, <2>4, FacesGoOn
    <2> QED BY <2>5 DEF r
<1>7. CASE event.type = "arguments.done"
    <2> DEFINE a2 == [a EXCEPT !.items[i]["arguments_done"] = TRUE]
               deltas == <<>>
    <2>1. r = Accepted([a EXCEPT !.items[i].arguments_done = TRUE], <<>>)
        BY <1>7 DEF ArgumentsEvent, Broken, Rejected
    <2>2. r = Accepted(a2, deltas)
        BY <2>1
    <2>3. KeepsFaces(a2, a)
        BY <1>2, <1>3, SetField
    <2>4. deltas \in Seq(Deltas) /\ KeepsNames(FoldLeft(Hear, h, deltas), h)
        <3> DEFINE none == <<>>
        <3>1. none \in Text
            BY EmptySeq DEF Text
        <3> HIDE DEF none
        <3> QED BY <1>2, <3>1, TextKeepsNames
    <2> HIDE DEF a2, deltas, r
    <2>5. RGoesOn(r, h)
        BY <2>2, <2>3, <2>4, FacesGoOn
    <2> QED BY <2>5 DEF r
<1> QED BY <1>6, <1>7

(* Nothing is heard of the other events of a response.                       *)
LEMMA QuietKeepsNames ==
    ASSUME NEW h \in Host, NEW deltas, deltas = <<>>
    PROVE  deltas \in Seq(Deltas) /\ KeepsNames(FoldLeft(Hear, h, deltas), h)
<1> DEFINE none == <<>>
<1>1. none \in Text
    BY EmptySeq DEF Text
<1> HIDE DEF none
<1> QED BY <1>1, TextKeepsNames

(* output_item.done.                                                         *)
LEMMA ItemDoneGoesOn ==
    ASSUME NEW a, NEW h, RInv(a, h), NEW event, event.type = "output_item.done",
           ResponsesEvents(event), ItemDone(a, event).ok
    PROVE  RGoesOn(ItemDone(a, event), h)
<1> DEFINE i == event.output_index + 1
           r == ItemDone(a, event)
           done == a.items[i].arguments_done \/ IsCallItem(event.item)
           a2 == [a EXCEPT !.items[i].closed = TRUE,
                           !.items[i].arguments_done = @ \/ IsCallItem(event.item)]
           a1 == [a EXCEPT !.items[i]["closed"] = TRUE]
           a3 == [a1 EXCEPT !.items[i]["arguments_done"] = done]
           deltas == <<>>
<1>1. event.output_index \in Nat
    BY DEF ResponsesEvents, ItemEvents
<1>2. RType(a) /\ h \in Host
    BY DEF RInv
<1>3. ~(i > Len(a.items)) /\ r = Accepted(a2, deltas)
    BY DEF ItemDone, Broken, Rejected
<1>4. i \in 1..Len(a.items)
    BY <1>1, <1>2, <1>3 DEF RType
<1>5. a2 = a3
    BY <1>2, <1>4 DEF RType
<1> HIDE DEF done, r, deltas
<1>6. KeepsFaces(a1, a)
    BY <1>2, <1>4, SetField
<1>7. KeepsFaces(a3, a1)
    <2> HIDE DEF a1, i
    <2>1. RType(a1) /\ i \in 1..Len(a1.items)
        BY <1>4, <1>6 DEF KeepsFaces
    <2> QED BY <2>1, SetField
<1> HIDE DEF a1, a2, a3
<1>8. KeepsFaces(a2, a)
    BY <1>5, <1>6, <1>7, FacesTransitive
<1>9. deltas \in Seq(Deltas) /\ KeepsNames(FoldLeft(Hear, h, deltas), h)
    BY <1>2, QuietKeepsNames DEF deltas
<1>10. RGoesOn(r, h)
    BY <1>3, <1>8, <1>9, FacesGoOn
<1> QED BY <1>10 DEF r

(* response.created and response.in_progress.                                *)
LEMMA StartedGoesOn ==
    ASSUME NEW a, NEW h, RInv(a, h), NEW event, ResponseStarted(a, event).ok
    PROVE  RGoesOn(ResponseStarted(a, event), h)
<1> DEFINE r == ResponseStarted(a, event)
           a2 == [a EXCEPT !.id = <<event.response.id>>]
           deltas == <<>>
<1>1. RType(a) /\ h \in Host
    BY DEF RInv
<1>2. r = Accepted(a2, deltas)
    BY DEF ResponseStarted, Named, Broken, Rejected
<1>3. KeepsFaces(a2, a)
    BY <1>1, OutsideItems
<1>4. deltas \in Seq(Deltas) /\ KeepsNames(FoldLeft(Hear, h, deltas), h)
    BY <1>1, QuietKeepsNames
<1> HIDE DEF r, a2, deltas
<1>5. RGoesOn(r, h)
    BY <1>2, <1>3, <1>4, FacesGoOn
<1> QED BY <1>5 DEF r

(* An item more: a call among them is the next one.                          *)
OneItemMore(a2, a, x, t) ==
    /\ RType(a2) /\ Len(a2.items) = Len(a.items) + 1 /\ a2.tools = t
    /\ \A k \in 1..Len(a.items) : a2.items[k] = a.items[k]
    /\ a2.items[Len(a.items) + 1] = x

(* Appending one does that.                                                  *)
LEMMA AppendItem ==
    ASSUME NEW a, RType(a), NEW x, IsItem(x), NEW t \in Nat
    PROVE  OneItemMore([a EXCEPT !.items = Append(@, x), !.tools = t], a, x, t)
<1>1. PICK V : a.items \in Seq(V)
    BY DEF RType
<1> DEFINE W == V \cup {x}
           n == Len(a.items)
           new == Append(a.items, x)
           a2 == [a EXCEPT !.items = Append(@, x), !.tools = t]
<1>2. a.items \in Seq(W) /\ x \in W /\ n \in Nat
    BY <1>1, SeqMonotonic
<1> HIDE DEF W
<1>3. /\ new \in Seq(W) /\ Len(new) = n + 1 /\ new[n + 1] = x
      /\ \A k \in 1..n : new[k] = a.items[k]
    BY <1>2, AppendProperties
<1>4. DOMAIN a2 = DOMAIN a /\ a2.items = new /\ a2.tools = t
    <2> HIDE DEF new
    <2> QED BY DEF RType, new
<1> HIDE DEF new, n, a2
<1>5. \A k \in 1..n + 1 : k \in 1..n \/ k = n + 1
    BY <1>2
<1>6. \A k \in 1..n + 1 : IsItem(new[k])
    BY <1>3, <1>5 DEF RType, n
<1>7. RType(a2)
    BY <1>3, <1>4, <1>6 DEF RType
<1>8. OneItemMore(a2, a, x, t)
    BY <1>3, <1>4, <1>7 DEF OneItemMore, n
<1> QED BY <1>8 DEF a2

(* What was heard goes on with one more item, if it is no call or the host   *)
(* hears of the call.                                                        *)
LEMMA ItemMoreGoesOn ==
    ASSUME NEW a, NEW h, RInv(a, h), NEW x, NEW a2, NEW t \in Nat, OneItemMore(a2, a, x, t),
           IsCallItem(x) => t = a.tools + 1 /\ x.call = a.tools, ~IsCallItem(x) => t = a.tools,
           NEW h2 \in Host, DOMAIN h2.calls = 0..t - 1,
           \A j \in DOMAIN h.calls : h2.calls[j] = h.calls[j],
           IsCallItem(x) => HeardItem(x, h2)
    PROVE  RInv(a2, h2)
<1> DEFINE n == Len(a.items)
<1>1. /\ RType(a2) /\ Len(a2.items) = n + 1 /\ a2.tools = t
      /\ \A k \in 1..n : a2.items[k] = a.items[k]
      /\ a2.items[n + 1] = x
    BY DEF OneItemMore
<1>2. n \in Nat /\ a.tools \in Nat /\ DOMAIN h.calls = 0..a.tools - 1
    BY DEF RInv, RType
<1>3. PICK u : Numbered(u, a.items, a.tools)
    BY DEF RInv
<1>4. /\ u \in [0..n -> Nat] /\ u[0] = 0 /\ u[n] = a.tools
      /\ \A k \in 1..n : /\ u[k] = u[k - 1] + (IF IsCallItem(a.items[k]) THEN 1 ELSE 0)
                         /\ IsCallItem(a.items[k]) => a.items[k].call = u[k - 1]
    BY <1>3 DEF Numbered
<1>5. \A i \in 1..n : IsCallItem(a.items[i]) => HeardItem(a.items[i], h)
    BY DEF RInv
<1> HIDE DEF n
<1> DEFINE v == [k \in 0..(n + 1) |-> IF k = n + 1 THEN t ELSE u[k]]
<1>6. \A k \in 1..n + 1 : k \in 1..n \/ k = n + 1
    BY <1>2
<1>7. v \in [0..(n + 1) -> Nat] /\ v[0] = 0 /\ v[n + 1] = t /\ v[n] = a.tools
    BY <1>2, <1>4
<1>8. \A k \in 1..n : v[k] = u[k] /\ v[k - 1] = u[k - 1]
    BY <1>2
<1> HIDE DEF v
<1>9. \A k \in 1..n + 1 : /\ v[k] = v[k - 1] + (IF IsCallItem(a2.items[k]) THEN 1 ELSE 0)
                          /\ IsCallItem(a2.items[k]) => a2.items[k].call = v[k - 1]
    <2> SUFFICES ASSUME NEW k \in 1..n + 1
                 PROVE  /\ v[k] = v[k - 1] + (IF IsCallItem(a2.items[k]) THEN 1 ELSE 0)
                        /\ IsCallItem(a2.items[k]) => a2.items[k].call = v[k - 1]
        OBVIOUS
    <2>1. CASE k \in 1..n
        BY <1>1, <1>4, <1>8, <2>1
    <2>2. CASE k = n + 1
        <3>1. k - 1 = n /\ v[k] = t /\ v[k - 1] = a.tools /\ a2.items[k] = x
            BY <1>1, <1>2, <1>7, <2>2
        <3> QED BY <1>2, <3>1
    <2> QED BY <1>6, <2>1, <2>2
<1>10. Numbered(v, a2.items, a2.tools)
    BY <1>1, <1>7, <1>9 DEF Numbered
<1>11. \A i \in 1..n + 1 : IsCallItem(a2.items[i]) => HeardItem(a2.items[i], h2)
    <2> SUFFICES ASSUME NEW i \in 1..n + 1, IsCallItem(a2.items[i]) PROVE HeardItem(a2.items[i], h2)
        OBVIOUS
    <2>1. CASE i = n + 1
        BY <1>1, <2>1
    <2>2. CASE i # n + 1
        <3>1. a2.items[i] = a.items[i] /\ HeardItem(a.items[i], h)
            BY <1>1, <1>5, <1>6, <2>2
        <3>2. DOMAIN h.calls \subseteq DOMAIN h2.calls
            <4>1. t = a.tools \/ t = a.tools + 1
                OBVIOUS
            <4> QED BY <1>2, <4>1
        <3> QED BY <3>1, <3>2 DEF HeardItem
    <2> QED BY <2>1, <2>2
<1> QED BY <1>1, <1>10, <1>11 DEF RInv

(* output_item.added.                                                        *)
LEMMA ItemAddedGoesOn ==
    ASSUME NEW a, NEW h, RInv(a, h), NEW event, event.type = "output_item.added",
           ResponsesEvents(event), ItemAdded(a, event).ok
    PROVE  RGoesOn(ItemAdded(a, event), h)
<1> DEFINE wire == event.item
           item == NewItem(wire, a.tools)
           call == [item EXCEPT !.call_id = wire.call_id, !.name = wire.name]
           with(new, tools) == [a EXCEPT !.items = Append(@, new), !.tools = tools]
           heardOf == <<ToolCallDelta(a.tools, <<wire.call_id>>, <<wire.name>>, wire.arguments)>>
           r == ItemAdded(a, event)
<1>1. RType(a) /\ h \in Host /\ a.tools \in Nat /\ DOMAIN h.calls = 0..a.tools - 1
    BY DEF RInv, RType
<1>2. /\ ~IsCallItem(wire) => r = Accepted(with(item, a.tools), <<>>)
      /\ IsCallItem(wire) => r = Accepted(with(call, a.tools + 1), heardOf)
    BY DEF ItemAdded, Broken, Rejected
<1>3. /\ {"type", "call_id", "name", "call"} \subseteq DOMAIN item
      /\ item.type = wire.type /\ item.call_id = "" /\ item.name = <<>> /\ item.call = a.tools
    BY DEF NewItem
<1> HIDE DEF item, r
<1>4. CASE ~IsCallItem(wire)
    <2> DEFINE deltas == <<>>
               a2 == [a EXCEPT !.items = Append(@, item), !.tools = a.tools]
    <2>1. r = Accepted(a2, deltas)
        BY <1>2, <1>4
    <2>2. IsItem(item) /\ ~IsCallItem(item)
        <3>1. item.name \in Text
            <4>1. <<>> \in Seq(STRING)
                BY EmptySeq
            <4> QED BY <1>3, <4>1 DEF Text
        <3>3. IsItem(item)
            BY <1>1, <1>3, <3>1 DEF IsItem
        <3>4. ~IsCallItem(item)
            BY <1>3, <1>4 DEF IsCallItem
        <3> QED BY <3>3, <3>4
    <2>3. OneItemMore(a2, a, item, a.tools)
        BY <1>1, <2>2, AppendItem
    <2>4. deltas \in Seq(Deltas) /\ FoldLeft(Hear, h, deltas) = h
        BY <1>1, NothingSaid
    <2> HIDE DEF deltas, a2
    <2>5. RInv(a2, h)
        BY <1>1, <2>2, <2>3, ItemMoreGoesOn
    <2>6. r.asm = a2 /\ r.deltas = deltas
        BY <2>1 DEF Accepted
    <2>7. RGoesOn(r, h)
        BY <2>4, <2>5, <2>6 DEF RGoesOn
    <2> QED BY <2>7 DEF r
<1>5. CASE IsCallItem(wire)
    <2> DEFINE a2 == [a EXCEPT !.items = Append(@, call), !.tools = a.tools + 1]
               h2 == FoldLeft(Hear, h, heardOf)
               id == <<wire.call_id>>
               name == <<wire.name>>
    <2>1. r = Accepted(a2, heardOf)
        BY <1>2, <1>5
    <2>2. wire.call_id \in STRING /\ wire.name \in Text /\ wire.arguments \in Seq(Text)
        BY <1>5 DEF ResponsesEvents
    <2>3. /\ IsItem(call) /\ IsCallItem(call) /\ call.call_id = wire.call_id /\ call.name = wire.name
          /\ call.call = a.tools
        <3>1. /\ DOMAIN call = DOMAIN item /\ call.type = wire.type /\ call.call_id = wire.call_id
              /\ call.name = wire.name /\ call.call = a.tools
            BY <1>3
        <3> HIDE DEF call
        <3> QED BY <1>1, <1>3, <1>5, <2>2, <3>1 DEF IsItem, IsCallItem
    <2> HIDE DEF call
    <2>4. OneItemMore(a2, a, call, a.tools + 1)
        <3> DEFINE t == a.tools + 1
        <3>1. t \in Nat
            BY <1>1
        <3> HIDE DEF t
        <3>2. OneItemMore([a EXCEPT !.items = Append(@, call), !.tools = t], a, call, t)
            BY <1>1, <2>3, <3>1, AppendItem
        <3> QED BY <3>2 DEF t
    <2>5. id \in Seq(STRING) /\ name \in Seq(Text) /\ FlattenSeq(name) = wire.name
        BY <2>2, FlattenText
    <2>6. heardOf \in Seq(Deltas) /\ SaidCall(h2, h, a.tools, id, name, wire.arguments)
        <3> HIDE DEF id, name
        <3> QED BY <1>1, <2>2, <2>5, CallSaid DEF id, name
    <2>7. Known(h.calls, a.tools) = Unheard
        <3>1. a.tools \notin 0..a.tools - 1
            BY <1>1
        <3> QED BY <1>1, <3>1 DEF Known
    <2> HIDE DEF h2, a2, name, heardOf
    <2>8. /\ h2 \in Host /\ DOMAIN h2.calls = DOMAIN h.calls \cup {a.tools}
          /\ \A j \in DOMAIN h.calls : j # a.tools => h2.calls[j] = h.calls[j]
          /\ h2.calls[a.tools].id = id
          /\ h2.calls[a.tools].name = wire.name
        <3>1. Unheard.id = <<>> /\ Unheard.name = <<>>
            BY DEF Unheard
        <3>2. <<>> \o wire.name = wire.name
            BY <2>2, ConcatEmptySeq DEF Text
        <3> QED BY <2>5, <2>6, <2>7, <3>1, <3>2 DEF SaidCall
    <2>9. DOMAIN h2.calls = 0..(a.tools + 1) - 1 /\ \A j \in DOMAIN h.calls : h2.calls[j] = h.calls[j]
        BY <1>1, <2>8
    <2>10. HeardItem(call, h2)
        BY <2>3, <2>8 DEF HeardItem
    <2>11. RInv(a2, h2)
        <3> DEFINE t == a.tools + 1
        <3>1. t \in Nat /\ t = a.tools + 1 /\ DOMAIN h2.calls = 0..t - 1 /\ OneItemMore(a2, a, call, t)
            BY <1>1, <2>4, <2>9
        <3> HIDE DEF t
        <3> QED BY <2>3, <2>8, <2>9, <2>10, <3>1, ItemMoreGoesOn
    <2>12. r.asm = a2 /\ r.deltas = heardOf
        BY <2>1 DEF Accepted
    <2>13. RGoesOn(r, h)
        BY <2>6, <2>11, <2>12 DEF RGoesOn, h2
    <2> QED BY <2>13 DEF r
<1> QED BY <1>4, <1>5

(* Every event but the terminal one.                                         *)
LEMMA ResponsesGoesOn ==
    ASSUME NEW a, NEW h, RInv(a, h), NEW event, ResponsesEvents(event), event.type # "terminal",
           ResponsesEvent(a, event).ok
    PROVE  RGoesOn(ResponsesEvent(a, event), h)
<1> DEFINE r == ResponsesEvent(a, event)
<1>1. event.type # "error"
    BY DEF ResponsesEvent, ProviderError, Rejected
<1>2. CASE event.type = "started"
    BY <1>2, StartedGoesOn DEF ResponsesEvent
<1>3. CASE event.type = "output_item.added"
    BY <1>3, ItemAddedGoesOn DEF ResponsesEvent
<1>4. CASE event.type \in PartEvents
    <2>1. r = (IF ~Addressed(a, event) THEN Broken ELSE ContentEvent(a, event))
        BY <1>4 DEF ResponsesEvent, PartEvents
    <2>2. ~Broken.ok
        BY DEF Broken, Rejected
    <2> QED BY <1>4, <2>1, <2>2, ContentGoesOn
<1>5. CASE event.type \in {"arguments.delta", "arguments.done"}
    <2>1. r = (IF ~Addressed(a, event) THEN Broken ELSE ArgumentsEvent(a, event))
        BY <1>5 DEF ResponsesEvent
    <2>2. ~Broken.ok
        BY DEF Broken, Rejected
    <2> QED BY <1>5, <2>1, <2>2, ArgumentsGoOn
<1>6. CASE event.type = "output_item.done"
    BY <1>6, ItemDoneGoesOn DEF ResponsesEvent
<1>7. CASE /\ event.type \notin ItemEvents /\ event.type # "started"
    <2> DEFINE deltas == <<>>
    <2>1. r = Accepted(a, deltas)
        BY <1>1, <1>7 DEF ResponsesEvent, ItemEvents, PartEvents
    <2>2. RType(a) /\ h \in Host
        BY DEF RInv
    <2>3. deltas \in Seq(Deltas) /\ KeepsNames(FoldLeft(Hear, h, deltas), h)
        BY <2>2, QuietKeepsNames
    <2>4. KeepsFaces(a, a)
        BY <2>2, OutsideItems
    <2> HIDE DEF deltas, r
    <2>5. RGoesOn(r, h)
        BY <2>1, <2>3, <2>4, FacesGoOn
    <2> QED BY <2>5 DEF r
<1> QED BY <1>2, <1>3, <1>4, <1>5, <1>6, <1>7 DEF ItemEvents, PartEvents

-----------------------------------------------------------------------------
(* The end of a Responses stream.  What an output item adds is at most one   *)
(* item: a call for a call, unless it is cut off.                            *)
AddsOf(adds, wire, cutOff) ==
    /\ adds = <<>> \/ adds = <<adds[1]>>
    /\ IsCallItem(wire) /\ adds = <<>> => cutOff
    /\ adds # <<>> =>
          /\ IsCallItem(wire) => /\ CallPiece(adds[1]) = <<adds[1]>>
                                 /\ adds[1].name = wire.name /\ adds[1].pid = <<wire.call_id>>
          /\ ~IsCallItem(wire) => CallPiece(adds[1]) = <<>>

(* What a call among the output adds.                                        *)
LEMMA OutputCall ==
    ASSUME NEW wire, IsCallItem(wire), NEW cutOff, OutputItem(wire, cutOff).ok
    PROVE  AddsOf(OutputItem(wire, cutOff).items, wire, cutOff)
<1> DEFINE raw == IF "arguments" \in DOMAIN wire THEN <<wire.arguments>> ELSE <<>>
           decoded == DecodeWireArguments(raw, cutOff)
           fine == decoded.ok
           meta == WireMeta(ResponsesName, Without(wire, {"call_id", "name"}))
           call == CallItem(wire.name, decoded.args[1], wire.call_id, meta)
           added == IF decoded.args = <<>> THEN <<>> ELSE <<call>>
           bad == [ok |-> FALSE]
           r == OutputItem(wire, cutOff)
<1>1. r = IF ~({"call_id", "name"} \subseteq DOMAIN wire) THEN bad ELSE [ok |-> fine, items |-> added]
    BY DEF OutputItem, IsCallItem
<1>2. decoded.args = <<>> => decoded.ok = cutOff
    <2>1. raw # <<>> /\ raw[1].value # "incomplete" => decoded = [ok |-> TRUE, args |-> <<raw[1].value>>]
        BY DEF DecodeWireArguments
    <2>2. ~(raw # <<>> /\ raw[1].value # "incomplete") => decoded = [ok |-> cutOff, args |-> <<>>]
        BY DEF DecodeWireArguments
    <2> HIDE DEF raw, decoded
    <2>3. raw # <<>> /\ raw[1].value # "incomplete" => decoded.args # <<>>
        BY <2>1
    <2> QED BY <2>2, <2>3
<1>3. ~bad.ok
    OBVIOUS
<1>4. CallPiece(call) = <<call>> /\ call.name = wire.name /\ call.pid = <<wire.call_id>>
    BY PiecesOfItems
<1>5. /\ decoded.args = <<>> => added = <<>>
      /\ decoded.args # <<>> => added = <<call>>
    OBVIOUS
<1> HIDE DEF bad, r, added, fine, call
<1>6. r = [ok |-> fine, items |-> added]
    BY <1>1, <1>3 DEF r
<1>7. r.items = added /\ r.ok = fine
    BY <1>6
<1>8. decoded.args = <<>> => cutOff
    BY <1>2, <1>7 DEF r, fine
<1> HIDE DEF decoded
<1>9. AddsOf(added, wire, cutOff)
    <2>1. CASE decoded.args = <<>>
        BY <1>5, <1>8, <2>1 DEF AddsOf
    <2>2. CASE decoded.args # <<>>
        <3>1. added = <<call>> /\ added # <<>> /\ added[1] = call
            BY <1>5, <2>2
        <3> QED BY <1>4, <3>1 DEF AddsOf
    <2> QED BY <2>1, <2>2
<1> QED BY <1>7, <1>9 DEF r

(* What anything else adds.                                                  *)
LEMMA OutputOther ==
    ASSUME NEW wire, ~IsCallItem(wire), NEW cutOff
    PROVE  AddsOf(OutputItem(wire, cutOff).items, wire, cutOff)
<1> DEFINE r == OutputItem(wire, cutOff)
<1>1. CASE wire.type = "message"
    <2> DEFINE fine == \A p \in 1..Len(ContentOf(wire)) :
                          wire.content[p].type = "output_text" => "text" \in DOMAIN wire.content[p]
               item == MessageItem(wire)
               added == IF "content" \in DOMAIN wire THEN <<item>> ELSE <<>>
    <2>1. r = [ok |-> fine, items |-> added]
        BY <1>1 DEF OutputItem
    <2>2. CallPiece(item) = <<>>
        <3>1. item.item = "parts"
            BY DEF MessageItem
        <3> HIDE DEF item
        <3> QED BY <3>1 DEF CallPiece
    <2> HIDE DEF fine, item, r
    <2>3. r.items = added
        BY <2>1
    <2>4. added = <<>> \/ (added = <<item>> /\ added # <<>> /\ added[1] = item)
        OBVIOUS
    <2> HIDE DEF added
    <2>5. AddsOf(added, wire, cutOff)
        BY <2>2, <2>4 DEF AddsOf
    <2> QED BY <2>3, <2>5 DEF r
<1>2. CASE wire.type = "refusal"
    <2> DEFINE fine == TRUE
               item == TextItem(wire.refusal, <<>>)
               added == IF "refusal" \in DOMAIN wire THEN <<item>> ELSE <<>>
    <2>1. r = [ok |-> fine, items |-> added]
        BY <1>2 DEF OutputItem
    <2>2. CallPiece(item) = <<>>
        <3>1. item.item = "parts"
            BY DEF TextItem
        <3> HIDE DEF item
        <3> QED BY <3>1 DEF CallPiece
    <2> HIDE DEF fine, item, r
    <2>3. r.items = added
        BY <2>1
    <2>4. added = <<>> \/ (added = <<item>> /\ added # <<>> /\ added[1] = item)
        OBVIOUS
    <2> HIDE DEF added
    <2>5. AddsOf(added, wire, cutOff)
        BY <2>2, <2>4 DEF AddsOf
    <2> QED BY <2>3, <2>5 DEF r
<1>3. CASE wire.type \notin {"message", "refusal"}
    <2> DEFINE fine == TRUE
               item == SealedItem(ResponsesName, wire)
               added == <<item>>
    <2>1. r = [ok |-> fine, items |-> added]
        BY <1>3 DEF OutputItem, IsCallItem
    <2>2. CallPiece(item) = <<>>
        BY PiecesOfItems
    <2> HIDE DEF fine, item, r
    <2>3. r.items = added
        BY <2>1
    <2>4. added = <<item>> /\ added # <<>> /\ added[1] = item
        OBVIOUS
    <2> HIDE DEF added
    <2>5. AddsOf(added, wire, cutOff)
        BY <2>2, <2>4 DEF AddsOf
    <2> QED BY <2>3, <2>5 DEF r
<1> QED BY <1>1, <1>2, <1>3

(* Both.                                                                     *)
LEMMA OutputAdds ==
    ASSUME NEW wire, NEW cutOff, OutputItem(wire, cutOff).ok
    PROVE  AddsOf(OutputItem(wire, cutOff).items, wire, cutOff)
BY OutputCall, OutputOther

(* The items of an output, and what each of its items adds.                  *)
OutputAre(items, out, mapped) ==
    \E P : /\ items = Joined(P, Len(out))
           /\ \A k \in 1..Len(out) : AddsOf(P[k], out[k], mapped = "MaxTokens" /\ k = Len(out))

(* A response that is parsed.                                                *)
LEMMA ResponseParses ==
    ASSUME NEW response, ParseResponses(response).ok
    PROVE  LET parsed == ParseResponses(response)
               mapped == ResponsesStop(response.status, response.reason)
           IN  /\ OutputAre(parsed.items, response.output, mapped)
               /\ mapped = "MaxTokens" => parsed.stop \in {"MaxTokens", "Refusal"}
<1> DEFINE out == response.output
           mapped == ResponsesStop(response.status, response.reason)
           n == Len(out)
           added == [i \in 1..n |-> OutputItem(out[i], mapped = "MaxTokens" /\ i = n)]
           P == [i \in 1..n |-> added[i].items]
           items == FlattenSeq(P)
           calls == \E i \in 1..Len(items) : items[i].item = "call"
           refuses == \E i \in 1..n : Refuses(out[i])
           stop == CASE refuses -> "Refusal"
                     [] OTHER -> IF mapped = "EndTurn" /\ calls THEN "ToolUse" ELSE mapped
           undecodable == \E i \in 1..n : ~added[i].ok
           parsed == ParseResponses(response)
           good == [ok |-> TRUE, items |-> items, stop |-> stop]
<1>1. ParseOutput(out, mapped) = IF undecodable THEN Undecodable ELSE good
    BY Zenon DEF ParseOutput
<1>2. \/ parsed = [ok |-> FALSE, error |-> "Provider"]
      \/ parsed = [ok |-> FALSE, error |-> "UnknownOutcome"]
      \/ parsed = ParseOutput(out, mapped)
    BY DEF ParseResponses
<1>3. parsed.ok
    OBVIOUS
<1>4. mapped = "MaxTokens" => stop \in {"MaxTokens", "Refusal"}
    <2> HIDE DEF refuses, calls, mapped
    <2> QED OBVIOUS
<1>5. good.items = items /\ good.stop = stop
    <2> HIDE DEF items, stop
    <2> QED OBVIOUS
<1> HIDE DEF stop, parsed, good
<1>6. ~undecodable /\ parsed = good
    <2> HIDE DEF undecodable
    <2> QED BY <1>1, <1>2, <1>3 DEF Undecodable
<1>7. ASSUME NEW k \in 1..n
      PROVE  AddsOf(P[k], out[k], mapped = "MaxTokens" /\ k = n)
    <2> DEFINE cutOff == mapped = "MaxTokens" /\ k = n
    <2>1. added[k].ok /\ added[k] = OutputItem(out[k], cutOff)
        BY <1>6
    <2>2. P[k] = OutputItem(out[k], cutOff).items
        BY <2>1
    <2> HIDE DEF cutOff, added, P
    <2>3. AddsOf(OutputItem(out[k], cutOff).items, out[k], cutOff)
        BY <2>1, OutputAdds
    <2>4. AddsOf(P[k], out[k], cutOff)
        BY <2>2, <2>3
    <2> QED BY <2>4 DEF cutOff
<1>8. items = Joined(P, n)
    <2>1. [l \in 1..n |-> P[l]] = P
        OBVIOUS
    <2> QED BY <2>1 DEF Joined
<1> HIDE DEF P, items, n
<1>9. OutputAre(items, out, mapped)
    BY <1>7, <1>8 DEF OutputAre, n
<1> QED BY <1>4, <1>5, <1>6, <1>9 DEF parsed

(* Where the calls of an output are: v counts them.                          *)
LEMMA OutputCalls ==
    ASSUME NEW parsed, NEW n \in Nat, NEW P, parsed.items = Joined(P, n),
           \A k \in 1..n : P[k] = <<>> \/ (P[k] = <<P[k][1]>> /\ CallPiece(P[k][1]) \in {<<>>, <<P[k][1]>>}),
           NEW Q, Q = [k \in 1..n |-> IF P[k] = <<>> THEN <<>> ELSE CallPiece(P[k][1])],
           NEW v \in [0..n -> Nat], v[0] = 0,
           \A k \in 1..n : v[k] = v[k - 1] + (IF Q[k] = <<>> THEN 0 ELSE 1)
    PROVE  Placed(CallsOf(parsed), Q, v, n)
<1> DEFINE S == {P[k][1] : k \in 1..n}
           R == [k \in 1..n |-> P[k]]
           cp == [x \in S |-> IF CallPiece(x) = <<x>> THEN <<x>> ELSE <<>>]
           G == [k \in 0..n |-> Joined(R, k)]
<1>x. \A x : <<x>> # <<>> /\ <<x>>[1] = x
    OBVIOUS
<1>e. \A V : <<>> \in Seq(V)
    BY EmptySeq
<1>s. \A k \in 1..n : P[k][1] \in S
    OBVIOUS
<1>1. R \in [1..n -> Seq(S)] /\ \A k \in 1..n : R[k] = P[k]
    <2> SUFFICES ASSUME NEW k \in 1..n PROVE P[k] \in Seq(S)
        OBVIOUS
    <2> DEFINE x == P[k][1]
    <2>1. x \in S
        OBVIOUS
    <2>2. P[k] = <<>> \/ P[k] = <<x>>
        OBVIOUS
    <2> HIDE DEF x, S
    <2>3. <<x>> \in Seq(S) /\ <<>> \in Seq(S)
        BY <1>e, <2>1
    <2> QED BY <2>2, <2>3
<1>2. parsed.items = Joined(R, n)
    <2>1. [l \in 1..n |-> P[l]] = [l \in 1..n |-> R[l]]
        OBVIOUS
    <2> QED BY <2>1 DEF Joined
<1> HIDE DEF R
<1>3. /\ Joined(R, 0) = <<>>
      /\ \A p \in 1..n : Joined(R, p) = Joined(R, p - 1) \o R[p]
      /\ \A p \in 0..n : Joined(R, p) \in Seq(S)
    BY <1>1, JoinedChain
<1>4. cp \in [S -> Seq(S)]
    <2>1. ASSUME NEW x \in S PROVE cp[x] \in Seq(S)
        <3> HIDE DEF S
        <3> QED BY <1>e
    <2> HIDE DEF S
    <2> QED BY <2>1
<1>5. G \in [0..n -> Seq(S)] /\ Grows(G, R, n) /\ G[n] = parsed.items
    <2>1. G \in [0..n -> Seq(S)] /\ G[0] = <<>> /\ G[n] = parsed.items
        <3> HIDE DEF S
        <3> QED BY <1>2, <1>3
    <2>2. ASSUME NEW k \in 1..n PROVE G[k] = G[k - 1] \o R[k] /\ (R[k] = <<>> \/ R[k] = <<R[k][1]>>)
        <3>1. G[k] = Joined(R, k) /\ G[k - 1] = Joined(R, k - 1)
            OBVIOUS
        <3> QED BY <1>1, <1>3, <3>1
    <2> HIDE DEF G, S
    <2> QED BY <2>1, <2>2 DEF Grows
<1>6. Q \in [1..n -> Seq(S)] /\ \A k \in 1..n : Q[k] = Given(cp, R[k]) /\ (Q[k] = <<>> \/ Q[k] = <<Q[k][1]>>)
    <2>1. ASSUME NEW k \in 1..n
          PROVE  /\ Q[k] \in Seq(S) /\ Q[k] = Given(cp, R[k])
                 /\ Q[k] = <<>> \/ Q[k] = <<Q[k][1]>>
        <3> DEFINE x == P[k][1]
        <3>1. /\ x \in S /\ R[k] = P[k] /\ (P[k] = <<>> \/ (P[k] = <<x>> /\ CallPiece(x) \in {<<>>, <<x>>}))
              /\ Q[k] = IF P[k] = <<>> THEN <<>> ELSE CallPiece(x)
            BY <1>1
        <3>2. cp[x] = IF CallPiece(x) = <<x>> THEN <<x>> ELSE <<>>
            OBVIOUS
        <3>3. CASE P[k] = <<>>
            BY <1>e, <3>1, <3>3 DEF Given
        <3>4. CASE P[k] # <<>>
            <4>1. Given(cp, R[k]) = cp[x]
                BY <3>1, <3>4 DEF Given
            <4> HIDE DEF x, cp, S
            <4>2. Q[k] = cp[x] /\ Q[k] \in {<<>>, <<x>>}
                BY <1>x, <3>1, <3>2, <3>4
            <4>3. Q[k] = <<>> \/ Q[k] = <<Q[k][1]>>
                BY <1>x, <4>2
            <4>4. <<x>> \in Seq(S)
                BY <3>1
            <4> QED BY <1>e, <4>1, <4>2, <4>3, <4>4
        <3> QED BY <3>3, <3>4
    <2> HIDE DEF S
    <2> QED BY <2>1
<1> DEFINE s == parsed.items
<1>7. Spread(cp, s) = Joined(Q, n)
    <2> HIDE DEF S, cp, G
    <2>1. Gives(cp, S, S, G, R, Q, n)
        BY <1>1, <1>4, <1>5, <1>6 DEF Gives
    <2>2. Spread(cp, G[n]) = Joined(Q, n)
        BY <2>1, SpreadChain
    <2> QED BY <1>5, <2>2
<1>8. CallsOf(parsed) = Spread(cp, s)
    <2>1. s \in Seq(S) /\ Len(s) \in Nat
        <3> HIDE DEF S
        <3> QED BY <1>2, <1>3
    <2>2. \A x \in S : CallPiece(x) = cp[x]
        <3> SUFFICES ASSUME NEW x \in S PROVE CallPiece(x) = cp[x]
            OBVIOUS
        <3>1. CallPiece(x) = <<x>> \/ CallPiece(x) = <<>>
            BY DEF CallPiece
        <3> HIDE DEF S
        <3> QED BY <3>1
    <2>3. \A i \in 1..Len(s) : s[i] \in S
        <3> HIDE DEF S, s
        <3> QED BY <2>1
    <2> HIDE DEF S, cp, s
    <2>4. [i \in 1..Len(s) |-> CallPiece(s[i])] = [i \in 1..Len(s) |-> cp[s[i]]]
        BY <2>2, <2>3
    <2> QED BY <2>4 DEF CallsOf, Spread, s
<1>9. Placed(Joined(Q, n), Q, v, n)
    <2> HIDE DEF S
    <2> QED BY <1>6, PiecesPlaced
<1> QED BY <1>7, <1>8, <1>9

(* A Responses stream that ends: the calls heard are those of the output, in *)
(* order, and at most one more that was cut off.                             *)
REnded(h, parsed) ==
    LET calls == CallsOf(parsed)
    IN  /\ \/ DOMAIN h.calls = 0..Len(calls) - 1
           \/ parsed.stop \in {"MaxTokens", "Refusal"} /\ DOMAIN h.calls = 0..Len(calls)
        /\ \A c \in 1..Len(calls) :
              h.calls[c - 1].id = calls[c].pid /\ h.calls[c - 1].name = calls[c].name

(* The output has the items the assembly has.                                *)
Declared(a, out) ==
    Len(out) = Len(a.items) /\ \A i \in 1..Len(out) : SameIdentity(a.items[i], out[i])

(* The calls the items count are those of the output.                        *)
LEMMA CallsDeclared ==
    ASSUME NEW a, NEW h, RInv(a, h), NEW out, Declared(a, out), NEW mapped, NEW parsed,
           OutputAre(parsed.items, out, mapped),
           mapped = "MaxTokens" => parsed.stop \in {"MaxTokens", "Refusal"}
    PROVE  REnded(h, parsed)
<1> DEFINE n == Len(out)
<1>1. /\ n \in Nat /\ n = Len(a.items) /\ a.tools \in Nat /\ DOMAIN h.calls = 0..a.tools - 1
      /\ \A i \in 1..n : /\ out[i].type = a.items[i].type
                         /\ IsCallItem(a.items[i]) =>
                               /\ out[i].call_id = a.items[i].call_id /\ out[i].name = a.items[i].name
                               /\ HeardItem(a.items[i], h)
    <2>1. /\ Len(a.items) \in Nat /\ n = Len(a.items) /\ a.tools \in Nat /\ DOMAIN h.calls = 0..a.tools - 1
          /\ \A i \in 1..n : SameIdentity(a.items[i], out[i])
        BY DEF RInv, RType, Declared
    <2>2. \A i \in 1..n : IsCallItem(a.items[i]) => HeardItem(a.items[i], h)
        BY <2>1 DEF RInv
    <2> QED BY <2>1, <2>2 DEF SameIdentity
<1>2. PICK u : Numbered(u, a.items, a.tools)
    BY DEF RInv
<1>3. /\ u \in [0..n -> Nat] /\ u[0] = 0 /\ u[n] = a.tools
      /\ \A k \in 1..n : /\ u[k] = u[k - 1] + (IF IsCallItem(a.items[k]) THEN 1 ELSE 0)
                         /\ IsCallItem(a.items[k]) => a.items[k].call = u[k - 1]
    BY <1>1, <1>2 DEF Numbered
<1> HIDE DEF n
<1>4. PICK P : /\ parsed.items = Joined(P, n)
               /\ \A k \in 1..n : AddsOf(P[k], out[k], mapped = "MaxTokens" /\ k = n)
    BY DEF OutputAre, n
<1>5. \A k \in 1..n : IsCallItem(out[k]) <=> IsCallItem(a.items[k])
    BY <1>1 DEF IsCallItem
<1> DEFINE calls == CallsOf(parsed)
           Q == [k \in 1..n |-> IF P[k] = <<>> THEN <<>> ELSE CallPiece(P[k][1])]
           missing == n # 0 /\ IsCallItem(a.items[n]) /\ Q[n] = <<>>
           v == [k \in 0..n |-> IF k = n /\ missing THEN u[n - 1] ELSE u[k]]
<1>x. \A x : <<x>> # <<>> /\ <<x>>[1] = x
    OBVIOUS
<1>6. ASSUME NEW k \in 1..n
      PROVE  /\ P[k] = <<>> \/ (P[k] = <<P[k][1]>> /\ CallPiece(P[k][1]) \in {<<>>, <<P[k][1]>>})
             /\ IsCallItem(a.items[k]) /\ Q[k] = <<>> => k = n /\ mapped = "MaxTokens"
             /\ ~IsCallItem(a.items[k]) => Q[k] = <<>>
             /\ Q[k] # <<>> => Q[k][1].name = out[k].name /\ Q[k][1].pid = <<out[k].call_id>>
    <2> DEFINE cutOff == mapped = "MaxTokens" /\ k = n
               adds == P[k]
               x == P[k][1]
    <2>1. AddsOf(adds, out[k], cutOff) /\ (IsCallItem(out[k]) <=> IsCallItem(a.items[k]))
        BY <1>4, <1>5
    <2>2. Q[k] = IF adds = <<>> THEN <<>> ELSE CallPiece(x)
        OBVIOUS
    <2>3. cutOff => k = n /\ mapped = "MaxTokens"
        OBVIOUS
    <2> HIDE DEF cutOff, Q
    <2>4. CASE adds = <<>>
        BY <2>1, <2>2, <2>3, <2>4 DEF AddsOf
    <2>5. CASE adds # <<>>
        <3>1. /\ adds = <<x>> /\ Q[k] = CallPiece(x)
              /\ IsCallItem(a.items[k]) => /\ CallPiece(x) = <<x>>
                                           /\ x.name = out[k].name /\ x.pid = <<out[k].call_id>>
              /\ ~IsCallItem(a.items[k]) => CallPiece(x) = <<>>
            BY <2>1, <2>2, <2>5 DEF AddsOf
        <3> HIDE DEF x
        <3>2. P[k] = <<x>> /\ P[k][1] = x /\ CallPiece(x) \in {<<>>, <<x>>}
            BY <1>x, <3>1
        <3>3. Q[k] # <<>> => Q[k][1] = x /\ x.name = out[k].name /\ x.pid = <<out[k].call_id>>
            BY <1>x, <3>1
        <3>4. /\ IsCallItem(a.items[k]) => Q[k] # <<>>
              /\ ~IsCallItem(a.items[k]) => Q[k] = <<>>
            BY <1>x, <3>1
        <3> QED BY <3>2, <3>3, <3>4
    <2> QED BY <2>4, <2>5
<1>7. missing => n \in 1..n /\ mapped = "MaxTokens" /\ n - 1 \in 0..n /\ u[n] = u[n - 1] + 1
    <2>1. missing => n \in 1..n /\ n - 1 \in 0..n
        BY <1>1
    <2> HIDE DEF Q
    <2> QED BY <1>3, <1>6, <2>1
<1>8. /\ v \in [0..n -> Nat] /\ v[0] = 0 /\ v[n] = (IF missing THEN u[n - 1] ELSE u[n])
      /\ \A k \in 1..n : v[k - 1] = u[k - 1] /\ v[k] = (IF k = n /\ missing THEN u[n - 1] ELSE u[k])
    <2> HIDE DEF missing
    <2>1. \A k \in 1..n : k - 1 \in 0..n /\ k - 1 # n /\ k \in 0..n
        BY <1>1
    <2>2. 0 \in 0..n /\ n \in 0..n /\ (0 = n => ~missing)
        BY <1>1 DEF missing
    <2>3. \A k \in 0..n : v[k] \in Nat
        BY <1>3, <1>7
    <2> QED BY <1>3, <2>1, <2>2, <2>3
<1> HIDE DEF v
<1>9. \A k \in 1..n : v[k] = v[k - 1] + (IF Q[k] = <<>> THEN 0 ELSE 1)
    <2> SUFFICES ASSUME NEW k \in 1..n PROVE v[k] = v[k - 1] + (IF Q[k] = <<>> THEN 0 ELSE 1)
        OBVIOUS
    <2> HIDE DEF Q
    <2>1. v[k - 1] = u[k - 1] /\ u[k - 1] \in Nat
        <3>1. k - 1 \in 0..n
            BY <1>1
        <3> QED BY <1>3, <1>8, <3>1
    <2>2. CASE k = n /\ missing
        BY <1>8, <2>1, <2>2
    <2>3. CASE ~(k = n /\ missing)
        <3>1. v[k] = u[k] /\ u[k] = u[k - 1] + (IF IsCallItem(a.items[k]) THEN 1 ELSE 0)
            BY <1>3, <1>8, <2>3
        <3>2. n # 0
            BY <1>1
        <3>3. Q[k] = <<>> <=> ~IsCallItem(a.items[k])
            BY <1>6, <2>3, <3>2
        <3> QED BY <2>1, <3>1, <3>3
    <2> QED BY <2>2, <2>3
<1> HIDE DEF missing
<1>10. Placed(calls, Q, v, n)
    <2>1. \A k \in 1..n : P[k] = <<>> \/ (P[k] = <<P[k][1]>> /\ CallPiece(P[k][1]) \in {<<>>, <<P[k][1]>>})
        BY <1>6
    <2> DEFINE q == Q
    <2>2. q = [k \in 1..n |-> IF P[k] = <<>> THEN <<>> ELSE CallPiece(P[k][1])]
        OBVIOUS
    <2>3. \A k \in 1..n : v[k] = v[k - 1] + (IF q[k] = <<>> THEN 0 ELSE 1)
        BY <1>9
    <2> HIDE DEF q, v
    <2>4. Placed(CallsOf(parsed), q, v, n)
        BY <1>1, <1>4, <1>8, <2>1, <2>2, <2>3, OutputCalls
    <2> QED BY <2>4 DEF q
<1> HIDE DEF Q, calls
<1>11. /\ Len(calls) = v[n]
       /\ \A k \in 1..n : Q[k] # <<>> => calls[v[k - 1] + 1] = Q[k][1]
       /\ \A c \in 1..Len(calls) : \E k \in 1..n : Q[k] # <<>> /\ c = v[k - 1] + 1
    BY <1>10 DEF Placed
<1>12. \/ DOMAIN h.calls = 0..Len(calls) - 1
       \/ parsed.stop \in {"MaxTokens", "Refusal"} /\ DOMAIN h.calls = 0..Len(calls)
    <2>1. CASE missing
        <3>1. u[n - 1] \in Nat /\ a.tools - 1 = u[n - 1] /\ Len(calls) = u[n - 1]
            BY <1>3, <1>7, <1>8, <1>11, <2>1
        <3> QED BY <1>1, <1>7, <2>1, <3>1
    <2>2. CASE ~missing
        BY <1>1, <1>3, <1>8, <1>11, <2>2
    <2> QED BY <2>1, <2>2
<1>13. ASSUME NEW c \in 1..Len(calls)
       PROVE  h.calls[c - 1].id = calls[c].pid /\ h.calls[c - 1].name = calls[c].name
    <2>1. PICK k \in 1..n : Q[k] # <<>> /\ c = v[k - 1] + 1
        BY <1>11
    <2>2. calls[c] = Q[k][1] /\ Q[k][1].name = out[k].name /\ Q[k][1].pid = <<out[k].call_id>>
        BY <1>6, <1>11, <2>1
    <2>3. IsCallItem(a.items[k])
        BY <1>6, <2>1
    <2>4. c - 1 = a.items[k].call
        <3>1. v[k - 1] = u[k - 1] /\ a.items[k].call = u[k - 1]
            BY <1>3, <1>8, <2>3
        <3>2. k - 1 \in 0..n
            BY <1>1
        <3>3. u[k - 1] \in Nat
            BY <1>3, <3>2
        <3> QED BY <2>1, <3>1, <3>3
    <2>5. HeardItem(a.items[k], h) /\ out[k].call_id = a.items[k].call_id /\ out[k].name = a.items[k].name
        BY <1>1, <2>3
    <2> QED BY <2>2, <2>4, <2>5 DEF HeardItem
<1> QED BY <1>12, <1>13 DEF REnded, calls

(* The last event of a Responses stream: the output is what the event says.  *)
LEMMA ResponsesEnds ==
    ASSUME NEW a, NEW h, RInv(a, h), NEW event, ResponsesEvents(event), event.type = "terminal",
           ResponsesEvent(a, event).ok
    PROVE  LET parsed == ParseResponses(event.response)
               r == ResponsesEvent(a, event)
           IN  r.deltas = <<Done(parsed)>> /\ FoldLeft(Hear, h, r.deltas) = h /\ REnded(h, parsed)
<1> DEFINE response == event.response
           out == response.output
           mapped == ResponsesStop(response.status, response.reason)
           parsed == ParseResponses(response)
           r == ResponsesEvent(a, event)
           a2 == Named(a, response)
<1>1. r = Terminal(a, event)
    BY DEF ResponsesEvent
<1>2. TerminalOutput(a, response) /\ r = Finished(a2, parsed)
    <2> HIDE DEF parsed, a2
    <2> QED BY <1>1 DEF Terminal, Broken, ProviderError, Rejected, parsed, a2
<1>3. parsed.ok /\ r = Accepted(a2, <<Done(parsed)>>)
    <2>1. r.ok
        OBVIOUS
    <2> HIDE DEF parsed, a2, r
    <2> QED BY <1>2, <2>1 DEF Finished, Rejected
<1>4. OutputAre(parsed.items, out, mapped) /\ (mapped = "MaxTokens" => parsed.stop \in {"MaxTokens", "Refusal"})
    BY <1>3, ResponseParses
<1>5. Declared(a, out)
    BY <1>2 DEF TerminalOutput, Declared
<1> HIDE DEF parsed, r, a2, mapped, response
<1>6. REnded(h, parsed)
    BY <1>4, <1>5, CallsDeclared
<1>7. FoldLeft(Hear, h, <<Done(parsed)>>) = h
    BY HearDone DEF RInv
<1>8. r.deltas = <<Done(parsed)>>
    BY <1>3 DEF Accepted
<1>9. r.deltas = <<Done(parsed)>> /\ FoldLeft(Hear, h, r.deltas) = h /\ REnded(h, parsed)
    BY <1>6, <1>7, <1>8
<1> QED BY <1>9 DEF r, parsed, response

-----------------------------------------------------------------------------
(* The invariant.  Whatever goes wrong on the way, what is still to arrive   *)
(* are events of the script, or the error.                                   *)
Failure == [type |-> "error"]

(* The events that can arrive of a script.                                   *)
Sent(s) == {s.events[e] : e \in DOMAIN s.events} \cup {Failure}

(* While the stream is read, what was heard follows from the state.          *)
Follows ==
    /\ script.protocol = AnthropicName => AInv(asm, heard, spoken, mixed)
    /\ script.protocol = ChatName      => CHeard(asm, heard)
    /\ script.protocol = ResponsesName => RInv(asm, heard)

(* Once it has ended well, the output says it.                               *)
OutputSays(parsed) ==
    /\ script.protocol \in {AnthropicName, ChatName} =>
           Ended(heard, parsed) /\ (~mixed => heard.text = TextsOf(parsed))
    /\ script.protocol = ResponsesName => REnded(heard, parsed) /\ parsed = ParseResponses(script.answer)

(* It holds of the whole state: the script, what is left of it, and the      *)
(* host.                                                                     *)
Inv ==
    /\ script \in Scripts /\ events \in Seq(Sent(script))
    /\ heard \in Host /\ spoken \in Nat
    /\ status = "reading" => Follows
    /\ status = "done" => OutputSays(output[1])

(* What a script sends is well formed.                                       *)
LEMMA SentWell ==
    ASSUME NEW s \in Scripts, NEW event \in Sent(s)
    PROVE  /\ WellFormed(s.protocol, event) /\ s.protocol \in {AnthropicName, ChatName, ResponsesName}
           /\ s.protocol = ResponsesName /\ event.type = "terminal" => event.response = s.answer
<1>1. s.protocol \in {AnthropicName, ChatName, ResponsesName}
    BY EventsAssumption
<1>2. CASE event = Failure
    <2> DEFINE e == Failure
    <2>1. e.type = "error" /\ DOMAIN e = {"type"}
        BY DEF Failure
    <2> HIDE DEF e
    <2>2. Position(e) = 0
        BY <2>1 DEF Position
    <2>3. AnthropicEvents(e) /\ ChatEvents(e) /\ ResponsesEvents(e)
        BY <2>1 DEF AnthropicEvents, ChatEvents, ResponsesEvents, ItemEvents, PartEvents
    <2>4. WellFormed(s.protocol, e) /\ e.type # "terminal"
        BY <2>1, <2>2, <2>3 DEF WellFormed
    <2> QED BY <1>1, <1>2, <2>4 DEF e
<1>3. CASE event # Failure
    <2>1. PICK e \in DOMAIN s.events : event = s.events[e]
        BY <1>3 DEF Sent
    <2>2. WellFormed(s.protocol, s.events[e])
        BY EventsAssumption
    <2>3. s.protocol = ResponsesName /\ s.events[e].type = "terminal" => s.events[e].response = s.answer
        BY TerminalAssumption
    <2> QED BY <1>1, <2>1, <2>2, <2>3
<1> QED BY <1>2, <1>3

(* At first, nothing was heard.                                              *)
LEMMA NothingFollows ==
    /\ NothingHeard \in Host
    /\ AInv(NewAnthropic, NothingHeard, 0, FALSE)
    /\ CHeard(NewChat, NothingHeard)
    /\ RInv(NewResponses, NothingHeard)
<1> DEFINE e == <<>>
           none == << >>
<1>e. Len(e) = 0 /\ 1..Len(e) = {} /\ \A S : e \in Seq(S)
    BY EmptySeq
<1>n. DOMAIN none = {} /\ DOMAIN none = 0..0 - 1
    OBVIOUS
<1>1. NothingHeard \in Host /\ NothingHeard.text = e /\ NothingHeard.calls = none
    <2>1. none \in [{} -> CallHeard]
        OBVIOUS
    <2>2. none \in CallMaps
        BY <2>1 DEF CallMaps
    <2>3. e \in Text
        BY <1>e DEF Text
    <2> HIDE DEF e, none
    <2>4. NothingHeard = [text |-> e, calls |-> none]
        BY DEF NothingHeard, e, none
    <2> QED BY <2>2, <2>3, <2>4 DEF Host
<1>2. AInv(NewAnthropic, NothingHeard, 0, FALSE)
    <2> DEFINE a == NewAnthropic
    <2>1. a \in AState({}) /\ a.blocks = e /\ a.tools = 0
        BY <1>e DEF NewAnthropic, AState
    <2> HIDE DEF a
    <2>2. AType(a)
        BY <2>1 DEF AType
    <2>3. Counted(a)
        BY <1>e, <2>1 DEF Counted, Before
    <2>4. HeardCalls(a, NothingHeard)
        BY <1>e, <1>n, <1>1, <2>1 DEF HeardCalls
    <2>5. Joined(TextsIn(a.blocks), 0) = e
        <3>1. FlattenSeq(<<>>) = <<>>
            BY FlattenText
        <3>2. \A F : [l \in 1..0 |-> F[l]] = <<>>
            OBVIOUS
        <3> QED BY <3>1, <3>2 DEF Joined
    <2>6. HeardTexts(a, NothingHeard, 0)
        BY <1>e, <1>1, <2>1, <2>5 DEF HeardTexts
    <2> QED BY <2>2, <2>3, <2>4, <2>6 DEF AInv, a
<1>3. CHeard(NewChat, NothingHeard)
    <2> DEFINE a == NewChat
    <2>1. a \in CState /\ a.tools = e /\ a.text = e
        BY <1>e DEF NewChat, CState, Text
    <2> HIDE DEF a
    <2>2. CHeard(a, NothingHeard)
        BY <1>e, <1>n, <1>1, <2>1 DEF CHeard
    <2> QED BY <2>2 DEF a
<1>4. RInv(NewResponses, NothingHeard)
    <2> DEFINE a == NewResponses
               u == [k \in 0..0 |-> 0]
    <2>1. DOMAIN a = {"id", "items", "tools", "parts"} /\ a.items = e /\ a.tools = 0
        BY DEF NewResponses
    <2> HIDE DEF a
    <2>2. RType(a)
        BY <1>e, <2>1 DEF RType
    <2>3. u \in [0..0 -> Nat] /\ u[0] = 0
        OBVIOUS
    <2> HIDE DEF u
    <2>4. Numbered(u, a.items, a.tools)
        BY <1>e, <2>1, <2>3 DEF Numbered
    <2>5. RInv(a, NothingHeard)
        BY <1>e, <1>n, <1>1, <2>1, <2>2, <2>4 DEF RInv
    <2> QED BY <2>5 DEF a
<1> QED BY <1>1, <1>2, <1>3, <1>4

(* The invariant holds at first.                                             *)
LEMMA InitInv ==
    ASSUME Init
    PROVE  Inv
<1>1. script \in Scripts /\ script.protocol \in {AnthropicName, ChatName, ResponsesName} /\ IsSequence(script.events)
    BY EventsAssumption DEF Init
<1>2. events \in Seq(Sent(script))
    <2>1. events = script.events /\ events \in Seq({script.events[i] : i \in DOMAIN script.events})
        BY <1>1 DEF Init, IsSequence, ToSet
    <2> QED BY <2>1, SeqMonotonic DEF Sent
<1>3. Follows
    <2>1. /\ heard = NothingHeard /\ spoken = 0 /\ mixed = FALSE
          /\ asm = NewAssembly(script.protocol)
        BY DEF Init
    <2>2. /\ script.protocol = AnthropicName => asm = NewAnthropic
          /\ script.protocol = ChatName      => asm = NewChat
          /\ script.protocol = ResponsesName => asm = NewResponses
        BY <2>1 DEF NewAssembly, AnthropicName, ChatName, ResponsesName
    <2>3. ASSUME AInv(NewAnthropic, NothingHeard, 0, FALSE), asm = NewAnthropic
          PROVE  AInv(asm, heard, spoken, mixed)
        BY <2>1, <2>3, Zenon DEF AInv
    <2> QED BY <2>1, <2>2, <2>3, NothingFollows DEF Follows
<1>4. heard \in Host /\ spoken \in Nat /\ status = "reading"
    BY NothingFollows DEF Init
<1> QED BY <1>1, <1>2, <1>3, <1>4 DEF Inv

(* The faults change only what is still to arrive.                           *)
LEMMA FaultsKeepInv ==
    ASSUME Inv, Mingle \/ Lose \/ Repeat \/ Swap \/ Break \/ Cut
    PROVE  Inv'
<1> DEFINE W == Sent(script)
<1>0. events \in Seq(W) /\ Len(events) \in Nat
    BY DEF Inv
<1>1. \A p \in 1..Len(events) - 1 : Swapped(p) \in Seq(W)
    <2> SUFFICES ASSUME NEW p \in 1..Len(events) - 1 PROVE Swapped(p) \in Seq(W)
        OBVIOUS
    <2> HIDE DEF W
    <2>1. p \in 1..Len(events) /\ p + 1 \in 1..Len(events)
        BY <1>0
    <2>2. events[p] \in W /\ events[p + 1] \in W
        BY <1>0, <2>1
    <2> DEFINE one == [events EXCEPT ![p] = events[p + 1]]
    <2>3. one \in Seq(W) /\ Len(one) = Len(events)
        BY <1>0, <2>1, <2>2, ExceptSeq
    <2>4. Swapped(p) = [one EXCEPT ![p + 1] = events[p]]
        BY DEF Swapped
    <2> HIDE DEF one
    <2> QED BY <2>1, <2>2, <2>3, <2>4, ExceptSeq
<1>2. UNCHANGED <<script, asm, heard, status, output, spoken, mixed>>
    BY DEF Mingle, Lose, Repeat, Swap, Break, Cut, Disturb
<1>3. events' \in Seq(W)
    <2>1. CASE Mingle
        BY <1>1, <2>1 DEF Mingle
    <2>2. CASE Lose
        <3>1. events # <<>> /\ events' = Tail(events)
            BY <2>2 DEF Lose, Fault, Disturb
        <3> HIDE DEF W
        <3> QED BY <1>0, <3>1, HeadTailProperties
    <2>3. CASE Repeat
        <3>1. events # <<>> /\ events' = <<events[1]>> \o events
            BY <2>3 DEF Repeat, Fault, Disturb
        <3> HIDE DEF W
        <3> DEFINE x == events[1]
        <3>2. x \in W
            BY <1>0, <3>1, EmptySeq
        <3> HIDE DEF x
        <3>3. <<x>> \in Seq(W)
            BY <3>2
        <3>4. <<x>> \o events \in Seq(W)
            BY <1>0, <3>3, ConcatProperties
        <3> QED BY <3>1, <3>4 DEF x
    <2>4. CASE Swap
        <3>1. Len(events) > 1 /\ events' = Swapped(1)
            BY <2>4 DEF Swap, Disturb
        <3>2. 1 \in 1..Len(events) - 1
            BY <1>0, <3>1
        <3> QED BY <1>1, <3>1, <3>2
    <2>5. CASE Break
        <3> DEFINE x == Failure
        <3>1. events' = <<x>> /\ x \in W
            BY <2>5 DEF Break, Disturb, Failure, Sent
        <3> HIDE DEF x, W
        <3>2. <<x>> \in Seq(W)
            BY <3>1
        <3> QED BY <3>1, <3>2
    <2>6. CASE Cut
        <3>1. events' = <<>>
            BY <2>6 DEF Cut, Disturb
        <3> HIDE DEF W
        <3> QED BY <3>1, EmptySeq
    <2> QED BY <2>1, <2>2, <2>3, <2>4, <2>5, <2>6
<1> HIDE DEF W
<1>4. Follows' <=> Follows
    BY <1>2 DEF Follows
<1>5. OutputSays(output[1])' <=> OutputSays(output[1])
    BY <1>2 DEF OutputSays
<1> QED BY <1>2, <1>3, <1>4, <1>5 DEF Inv, W

(* Reading one event, and what is read then.                                 *)
LEMMA Reads ==
    ASSUME Inv, Decode
    PROVE  LET e == events[1]
               r == Assemble(e)
           IN  /\ status = "reading" /\ Follows /\ e \in Sent(script)
               /\ script' = script
               /\ ~r.ok => status' = "failed" /\ UNCHANGED <<events, heard, spoken>>
               /\ r.ok => /\ asm' = r.asm /\ events' \in Seq(Sent(script))
                          /\ heard' = FoldLeft(Hear, heard, r.deltas)
                          /\ SaysText(r.deltas) =>
                                spoken' = Position(e) /\ (~mixed' => ~mixed /\ ~(Position(e) < spoken))
                          /\ ~SaysText(r.deltas) => spoken' = spoken /\ mixed' = mixed
                          /\ spoken' \in Nat
<1> DEFINE W == Sent(script)
           e == events[1]
           r == Assemble(e)
           at == Position(e)
<1>1. status = "reading" /\ events # <<>> /\ Follows /\ script' = script
    BY DEF Decode, Inv
<1>2. e \in W /\ Tail(events) \in Seq(W)
    <2>1. events \in Seq(W)
        BY DEF Inv
    <2> HIDE DEF W
    <2> QED BY <1>1, <2>1, EmptySeq, HeadTailProperties
<1>3. at \in Nat /\ spoken \in Nat
    BY <1>2, SentWell DEF Inv, WellFormed
<1> HIDE DEF W
<1>4. ~r.ok => status' = "failed" /\ UNCHANGED <<events, heard, spoken>>
    <2> HIDE DEF r
    <2> QED BY DEF Decode, r
<1>5. r.ok => /\ asm' = r.asm /\ events' = Tail(events)
              /\ heard' = FoldLeft(Hear, heard, r.deltas)
              /\ IF SaysText(r.deltas) THEN spoken' = at /\ mixed' = (mixed \/ at < spoken)
                 ELSE UNCHANGED <<spoken, mixed>>
    <2> HIDE DEF r, at
    <2> QED BY DEF Decode, r, at
<1> HIDE DEF r, at
<1>6. r.ok /\ SaysText(r.deltas) => spoken' = at /\ (~mixed' => ~mixed /\ ~(at < spoken))
    BY <1>5
<1>7. r.ok /\ ~SaysText(r.deltas) => spoken' = spoken /\ mixed' = mixed
    BY <1>5
<1> QED BY <1>1, <1>2, <1>3, <1>4, <1>5, <1>6, <1>7 DEF r, at, W

(* An event that goes on leaves the stream open.                             *)
LEMMA ReadsOn ==
    ASSUME Decode, Assemble(events[1]).ok, Assemble(events[1]).deltas \in Seq(Deltas)
    PROVE  status' = "reading" /\ output' = output
<1> DEFINE r == Assemble(events[1])
           ends == {delta \in ToSet(r.deltas) : delta.delta = "done"}
<1>1. ends = {}
    BY NoEnd
<1>2. status = "reading" /\ (ends = {} => UNCHANGED <<status, output>>)
    <2> HIDE DEF r
    <2> QED BY DEF Decode, r
<1> QED BY <1>1, <1>2

(* The last event of a stream ends it.                                       *)
LEMMA ReadsEnd ==
    ASSUME Decode, Assemble(events[1]).ok, NEW parsed, Assemble(events[1]).deltas = <<Done(parsed)>>
    PROVE  status' = "done" /\ output' = <<parsed>> /\ ~SaysText(Assemble(events[1]).deltas)
<1> DEFINE r == Assemble(events[1])
           ends == {delta \in ToSet(r.deltas) : delta.delta = "done"}
           d == Done(parsed)
<1>1. ends = {d} /\ d.output = parsed /\ ~SaysText(r.deltas)
    BY EndsAre
<1>2. ends # {} => status' = "done" /\ \E end \in ends : output' = <<end.output>>
    <2> HIDE DEF r
    <2> QED BY DEF Decode, r
<1> HIDE DEF d, ends
<1> QED BY <1>1, <1>2

(* What is read of an Anthropic stream.                                      *)
LEMMA AnthropicReads ==
    ASSUME Inv, Decode, script.protocol = AnthropicName
    PROVE  Inv'
<1> DEFINE e == events[1]
           r == Assemble(e)
           h2 == FoldLeft(Hear, heard, r.deltas)
<1>1. /\ status = "reading" /\ Follows /\ e \in Sent(script) /\ script' = script
      /\ ~r.ok => status' = "failed" /\ UNCHANGED <<events, heard, spoken>>
      /\ r.ok => /\ asm' = r.asm /\ events' \in Seq(Sent(script)) /\ heard' = h2
                 /\ SaysText(r.deltas) =>
                       spoken' = Position(e) /\ (~mixed' => ~mixed /\ ~(Position(e) < spoken))
                 /\ ~SaysText(r.deltas) => spoken' = spoken /\ mixed' = mixed
                 /\ spoken' \in Nat
    BY Reads
<1>2. script \in Scripts /\ events \in Seq(Sent(script)) /\ heard \in Host /\ spoken \in Nat
    BY DEF Inv
<1>3. AnthropicEvents(e) /\ Position(e) \in Nat
    BY <1>1, <1>2, SentWell DEF WellFormed
<1>4. r = AnthropicEvent(asm, e)
    BY DEF Assemble, AnthropicName, ChatName, ResponsesName
<1>5. /\ AType(asm) /\ Counted(asm) /\ HeardCalls(asm, heard)
      /\ ~mixed => HeardTexts(asm, heard, spoken)
    BY <1>1, Zenon DEF Follows, AInv
<1>6. AnthropicName \notin {ChatName, ResponsesName} /\ script.protocol' = AnthropicName
    BY <1>1 DEF AnthropicName, ChatName, ResponsesName
<1>7. CASE ~r.ok
    <2>1. status' = "failed" /\ UNCHANGED <<script, events, heard, spoken>>
        BY <1>1, <1>7
    <2> QED BY <1>2, <2>1 DEF Inv
<1>8. CASE r.ok /\ e.type # "message_stop"
    <2>1. AGoesOn(r, asm, heard, spoken, Position(e))
        BY <1>2, <1>3, <1>4, <1>5, <1>8, AnthropicGoesOn
    <2>2. /\ r.deltas \in Seq(Deltas) /\ h2 \in Host
          /\ AType(r.asm) /\ Counted(r.asm) /\ HeardCalls(r.asm, h2)
          /\ HeardTexts(asm, heard, spoken) =>
                IF SaysText(r.deltas) THEN Position(e) >= spoken => HeardTexts(r.asm, h2, Position(e))
                ELSE HeardTexts(r.asm, h2, spoken)
        BY <2>1 DEF AGoesOn
    <2>3. status' = "reading"
        BY <1>8, <2>2, ReadsOn
    <2> HIDE DEF r, h2, e
    <2>4. ~mixed' => HeardTexts(asm', heard', spoken')
        <3>1. CASE SaysText(r.deltas)
            <4>1. ~mixed' => ~mixed /\ Position(e) >= spoken
                BY <1>1, <1>2, <1>3, <1>8, <3>1
            <4> QED BY <1>1, <1>5, <1>8, <2>2, <3>1, <4>1
        <3>2. CASE ~SaysText(r.deltas)
            BY <1>1, <1>5, <1>8, <2>2, <3>2
        <3> QED BY <3>1, <3>2
    <2>5. AType(asm') /\ Counted(asm') /\ HeardCalls(asm', heard')
        BY <1>1, <1>8, <2>2
    <2>6. AInv(asm, heard, spoken, mixed)'
        BY <2>4, <2>5, Zenon DEF AInv
    <2>7. Follows'
        BY <1>6, <2>6 DEF Follows
    <2> QED BY <1>1, <1>2, <1>8, <2>2, <2>3, <2>7 DEF Inv
<1>9. CASE r.ok /\ e.type = "message_stop"
    <2>1. PICK parsed : /\ Ends(r, heard, parsed)
                        /\ \A s : HeardTexts(asm, heard, s) => heard.text = TextsOf(parsed)
        BY <1>2, <1>3, <1>4, <1>5, <1>9, AnthropicEnds
    <2>2. r.deltas = <<Done(parsed)>> /\ h2 = heard /\ Ended(heard, parsed)
        BY <2>1 DEF Ends
    <2>3. status' = "done" /\ output' = <<parsed>> /\ ~SaysText(r.deltas)
        BY <1>9, <2>2, ReadsEnd
    <2> HIDE DEF r, h2, e
    <2>4. heard' = heard /\ (~mixed' => ~mixed) /\ output'[1] = parsed
        BY <1>1, <1>9, <2>2, <2>3
    <2>5. ~mixed' => heard'.text = TextsOf(parsed)
        BY <1>5, <2>1, <2>4
    <2>6. OutputSays(output[1])'
        BY <1>6, <2>2, <2>4, <2>5 DEF OutputSays
    <2> QED BY <1>1, <1>2, <1>9, <2>3, <2>4, <2>6 DEF Inv
<1> QED BY <1>7, <1>8, <1>9

(* Of a Chat Completions stream.                                             *)
LEMMA ChatReads ==
    ASSUME Inv, Decode, script.protocol = ChatName
    PROVE  Inv'
<1> DEFINE e == events[1]
           r == Assemble(e)
           h2 == FoldLeft(Hear, heard, r.deltas)
<1>1. /\ status = "reading" /\ Follows /\ e \in Sent(script) /\ script' = script
      /\ ~r.ok => status' = "failed" /\ UNCHANGED <<events, heard, spoken>>
      /\ r.ok => /\ asm' = r.asm /\ events' \in Seq(Sent(script)) /\ heard' = h2
                 /\ spoken' \in Nat
    BY Reads
<1>2. script \in Scripts /\ events \in Seq(Sent(script)) /\ heard \in Host /\ spoken \in Nat
    BY DEF Inv
<1>3. ChatEvents(e)
    BY <1>1, <1>2, SentWell DEF WellFormed
<1>4. r = ChatEvent(asm, e)
    BY DEF Assemble, AnthropicName, ChatName, ResponsesName
<1>5. CHeard(asm, heard)
    BY <1>1 DEF Follows
<1>6. ChatName \notin {AnthropicName, ResponsesName} /\ script.protocol' = ChatName
    BY <1>1 DEF AnthropicName, ChatName, ResponsesName
<1>7. CASE ~r.ok
    <2>1. status' = "failed" /\ UNCHANGED <<script, events, heard, spoken>>
        BY <1>1, <1>7
    <2> QED BY <1>2, <2>1 DEF Inv
<1>8. CASE r.ok /\ e.type # "[DONE]"
    <2>1. ChatHeard(r, heard)
        BY <1>3, <1>4, <1>5, <1>8, ChatGoesOn
    <2>2. r.deltas \in Seq(Deltas) /\ CHeard(r.asm, h2)
        <3>1. PICK a, deltas : /\ deltas \in Seq(Deltas) /\ r = Accepted(a, deltas)
                               /\ CHeard(a, FoldLeft(Hear, heard, deltas))
            BY <2>1 DEF ChatHeard
        <3> HIDE DEF r
        <3>2. r.asm = a /\ r.deltas = deltas
            BY <3>1 DEF Accepted
        <3> QED BY <3>1, <3>2
    <2>3. status' = "reading"
        BY <1>8, <2>2, ReadsOn
    <2> HIDE DEF r, h2, e
    <2>4. CHeard(asm, heard)' /\ heard' \in Host
        BY <1>1, <1>8, <2>2 DEF CHeard
    <2>5. Follows'
        BY <1>6, <2>4 DEF Follows
    <2> QED BY <1>1, <1>2, <1>8, <2>3, <2>4, <2>5 DEF Inv
<1>9. CASE r.ok /\ e.type = "[DONE]"
    <2>1. PICK parsed : Ends(r, heard, parsed) /\ heard.text = TextsOf(parsed)
        BY <1>4, <1>5, <1>9, ChatAgrees
    <2>2. r.deltas = <<Done(parsed)>> /\ h2 = heard /\ Ended(heard, parsed)
        BY <2>1 DEF Ends
    <2>3. status' = "done" /\ output' = <<parsed>>
        BY <1>9, <2>2, ReadsEnd
    <2> HIDE DEF r, h2, e
    <2>4. heard' = heard /\ output'[1] = parsed
        BY <1>1, <1>9, <2>2, <2>3
    <2>5. OutputSays(output[1])'
        BY <1>6, <2>1, <2>2, <2>4 DEF OutputSays
    <2> QED BY <1>1, <1>2, <1>9, <2>3, <2>4, <2>5 DEF Inv
<1> QED BY <1>7, <1>8, <1>9

(* Of a Responses stream.                                                    *)
LEMMA ResponsesReads ==
    ASSUME Inv, Decode, script.protocol = ResponsesName
    PROVE  Inv'
<1> DEFINE e == events[1]
           r == Assemble(e)
           h2 == FoldLeft(Hear, heard, r.deltas)
           parsed == ParseResponses(e.response)
<1>1. /\ status = "reading" /\ Follows /\ e \in Sent(script) /\ script' = script
      /\ ~r.ok => status' = "failed" /\ UNCHANGED <<events, heard, spoken>>
      /\ r.ok => /\ asm' = r.asm /\ events' \in Seq(Sent(script)) /\ heard' = h2
                 /\ spoken' \in Nat
    BY Reads
<1>2. script \in Scripts /\ events \in Seq(Sent(script)) /\ heard \in Host /\ spoken \in Nat
    BY DEF Inv
<1>3. ResponsesEvents(e) /\ (e.type = "terminal" => e.response = script.answer)
    BY <1>1, <1>2, SentWell DEF WellFormed
<1>4. r = ResponsesEvent(asm, e)
    BY DEF Assemble, AnthropicName, ChatName, ResponsesName
<1>5. RInv(asm, heard)
    BY <1>1 DEF Follows
<1>6. ResponsesName \notin {AnthropicName, ChatName} /\ script.protocol' = ResponsesName
    BY <1>1 DEF AnthropicName, ChatName, ResponsesName
<1>7. CASE ~r.ok
    <2>1. status' = "failed" /\ UNCHANGED <<script, events, heard, spoken>>
        BY <1>1, <1>7
    <2> QED BY <1>2, <2>1 DEF Inv
<1>8. CASE r.ok /\ e.type # "terminal"
    <2>1. RGoesOn(r, heard)
        BY <1>3, <1>4, <1>5, <1>8, ResponsesGoesOn
    <2>2. r.deltas \in Seq(Deltas) /\ RInv(r.asm, h2)
        BY <2>1 DEF RGoesOn
    <2>3. status' = "reading"
        BY <1>8, <2>2, ReadsOn
    <2> HIDE DEF r, h2, e
    <2>4. RInv(asm, heard)' /\ heard' \in Host
        BY <1>1, <1>8, <2>2 DEF RInv
    <2>5. Follows'
        BY <1>6, <2>4 DEF Follows
    <2> QED BY <1>1, <1>2, <1>8, <2>3, <2>4, <2>5 DEF Inv
<1>9. CASE r.ok /\ e.type = "terminal"
    <2>1. r.deltas = <<Done(parsed)>> /\ h2 = heard /\ REnded(heard, parsed)
        BY <1>3, <1>4, <1>5, <1>9, ResponsesEnds
    <2>2. status' = "done" /\ output' = <<parsed>>
        <3> HIDE DEF parsed
        <3> QED BY <1>9, <2>1, ReadsEnd
    <2>3. parsed = ParseResponses(script.answer)
        BY <1>3, <1>9
    <2> HIDE DEF r, h2, e, parsed
    <2>4. heard' = heard /\ output'[1] = parsed
        BY <1>1, <1>9, <2>1, <2>2
    <2>5. OutputSays(output[1])'
        BY <1>1, <1>6, <2>1, <2>3, <2>4 DEF OutputSays
    <2> QED BY <1>1, <1>2, <1>9, <2>2, <2>4, <2>5 DEF Inv
<1> QED BY <1>7, <1>8, <1>9

(* Every step keeps the invariant.                                           *)
LEMMA StepInv ==
    ASSUME Inv, [Next]_vars
    PROVE  Inv'
<1>1. CASE Decode
    <2>1. script.protocol \in {AnthropicName, ChatName, ResponsesName}
        BY EventsAssumption DEF Inv
    <2> QED BY <1>1, <2>1, AnthropicReads, ChatReads, ResponsesReads
<1>2. CASE Finish
    <2>1. status' = "unknown_outcome" /\ UNCHANGED <<script, events, heard, spoken>>
        BY <1>2 DEF Finish
    <2> QED BY <2>1 DEF Inv
<1>3. CASE Mingle \/ Lose \/ Repeat \/ Swap \/ Break \/ Cut
    BY <1>3, FaultsKeepInv
<1>4. CASE UNCHANGED vars
    <2>1. UNCHANGED <<script, events, asm, heard, status, output, spoken, mixed>>
        BY <1>4 DEF vars
    <2>2. (Follows' <=> Follows) /\ (OutputSays(output[1])' <=> OutputSays(output[1]))
        BY <2>1 DEF Follows, OutputSays
    <2> QED BY <2>1, <2>2 DEF Inv
<1> QED BY <1>1, <1>2, <1>3, <1>4 DEF Next

(* The invariant holds of every behaviour.                                   *)
THEOREM StreamInv == Spec => []Inv
<1>1. Init => Inv
    BY InitInv
<1>2. Inv /\ [Next]_vars => Inv'
    BY StepInv
<1> QED BY <1>1, <1>2, PTL DEF Spec

(* The calls a host has heard of a stream that ended are those of the output *)
(* (StreamDecoder): as many, in their order and under their ids and names,   *)
(* and at most one more, the one that was cut off.                           *)
THEOREM CallsAreHeard ==
    Spec => [](status = "done" => CallsAgree(CallsOf(output[1]), output[1].stop))
<1>1. Inv => (status = "done" => CallsAgree(CallsOf(output[1]), output[1].stop))
    <2> SUFFICES ASSUME Inv, status = "done"
                 PROVE  CallsAgree(CallsOf(output[1]), output[1].stop)
        OBVIOUS
    <2> DEFINE parsed == output[1]
               calls == CallsOf(parsed)
    <2>1. OutputSays(parsed) /\ script.protocol \in {AnthropicName, ChatName, ResponsesName}
        BY EventsAssumption DEF Inv
    <2> HIDE DEF parsed
    <2>2. CASE script.protocol \in {AnthropicName, ChatName}
        <3>1. Ended(heard, parsed)
            BY <2>1, <2>2 DEF OutputSays
        <3>2. CallsAgree(calls, parsed.stop)
            BY <3>1 DEF Ended, CallsAgree, MayBeCutOff
        <3> QED BY <3>2 DEF parsed
    <2>3. CASE script.protocol = ResponsesName
        <3>1. REnded(heard, parsed)
            BY <2>1, <2>3 DEF OutputSays
        <3>2. CallsAgree(calls, parsed.stop)
            BY <2>3, <3>1 DEF REnded, CallsAgree, MayBeCutOff
        <3> QED BY <3>2 DEF parsed
    <2> QED BY <2>1, <2>2, <2>3
<1> QED BY <1>1, StreamInv, PTL

(* And in the two formats whose output is put together from the fragments,   *)
(* the arguments and the text a host has shown are the output's too.         *)
THEOREM DeltasAreTheOutput ==
    Spec => [](script.protocol # ResponsesName => DeltasAgree)
<1>1. Inv => (script.protocol # ResponsesName => DeltasAgree)
    <2> SUFFICES ASSUME Inv, script.protocol # ResponsesName, status = "done"
                 PROVE  LET calls == CallsOf(output[1])
                        IN  /\ CallsAgree(calls, output[1].stop)
                            /\ ArgumentsAgree(calls)
                            /\ ~mixed => heard.text = TextsOf(output[1])
        BY DEF DeltasAgree
    <2> DEFINE parsed == output[1]
               calls == CallsOf(parsed)
    <2>1. OutputSays(parsed) /\ script.protocol \in {AnthropicName, ChatName}
        BY EventsAssumption DEF Inv
    <2> HIDE DEF parsed
    <2>2. Ended(heard, parsed) /\ (~mixed => heard.text = TextsOf(parsed))
        BY <2>1 DEF OutputSays
    <2>3. CallsAgree(calls, parsed.stop)
        BY <2>2 DEF Ended, CallsAgree, MayBeCutOff
    <2>4. ArgumentsAgree(calls)
        BY <2>2 DEF Ended, ArgumentsAgree
    <2> QED BY <2>2, <2>3, <2>4 DEF parsed
<1> QED BY <1>1, StreamInv, PTL

(* A Responses stream's output is the answer its last event holds            *)
(* (streaming/responses), whatever was lost, repeated or moved before it.    *)
THEOREM ResponsesOutput ==
    Spec => [](script.protocol = ResponsesName => OutputIsTheAnswer)
<1>1. Inv => (script.protocol = ResponsesName => OutputIsTheAnswer)
    <2> SUFFICES ASSUME Inv, script.protocol = ResponsesName, status = "done"
                 PROVE  output[1] = Parse(script.answer)
        BY DEF OutputIsTheAnswer
    <2>1. output[1] = ParseResponses(script.answer)
        BY DEF Inv, OutputSays
    <2>2. Parse(script.answer) = ParseResponses(script.answer)
        BY DEF Parse, AnthropicName, ChatName, ResponsesName
    <2> QED BY <2>1, <2>2
<1> QED BY <1>1, StreamInv, PTL
=============================================================================
