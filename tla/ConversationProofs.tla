-------------------------- MODULE ConversationProofs --------------------------
(****************************************************************************)
(* The tools a request offers are those the round bound, in every format    *)
(* (Conversation), for any tools, parts, answers and formats that satisfy   *)
(* the assumptions named there; and the tools a context offers are those    *)
(* the round bound whatever the host made of its changes (ToolChange).      *)
(*                                                                          *)
(* Rendering is a fold over segments, segments are flattened from blocks,   *)
(* and the tools in force are a fold over changes.  The lemmas follow that  *)
(* order: chains of folds, the tools changes make, the segments of a        *)
(* context and the changes they place, then each format - Chat Completions  *)
(* and Responses, which only say what is in force or add to it, and         *)
(* Anthropic, which writes a change into the messages block by block - and  *)
(* last what every action does to the changes of the context.               *)
(****************************************************************************)
EXTENDS Conversation, ToolChange, SequenceTheorems, FiniteSetTheorems, WellFoundedInduction, TLAPS

(* Numbers, folds and the flattening of sequences.                           *)

(* The least number of a set of numbers.                                     *)
LEMMA LeastElement ==
    ASSUME NEW S \in SUBSET Nat, S # {}
    PROVE  \E m \in S : \A k \in S : m <= k
<1> DEFINE R == OpToRel(<, Nat)
<1>1. IsWellFoundedOn(R, Nat)
    BY NatLessThanWellFounded
<1>2. \A x, y \in Nat : <<x, y>> \in R <=> x < y
    BY DEF OpToRel
<1> HIDE DEF R
<1>3. PICK m \in S : \A k \in S : ~(<<k, m>> \in R)
    BY <1>1, WFMin
<1>4. \A k \in S : ~(k < m)
    BY <1>2, <1>3
<1> QED BY <1>4

(* What holds of zero and of each number after one it holds of.              *)
LEMMA Upward ==
    ASSUME NEW n \in Nat, NEW S, 0 \in S, \A k \in 1..n : k - 1 \in S => k \in S
    PROVE  \A k \in 0..n : k \in S
<1> DEFINE Missing == {k \in 0..n : k \notin S}
<1> SUFFICES ASSUME Missing # {} PROVE FALSE
    OBVIOUS
<1>1. Missing \in SUBSET Nat
    OBVIOUS
<1>2. PICK m \in Missing : \A k \in Missing : m <= k
    BY <1>1, LeastElement
<1>3. m \in 1..n /\ m - 1 \in 0..n
    BY <1>2
<1>4. m - 1 \in S
    BY <1>2, <1>3
<1> QED BY <1>2, <1>3, <1>4

(* The greatest of some numbers up to n.                                     *)
LEMMA MaxIn ==
    ASSUME NEW n \in Nat, NEW s \in SUBSET (1..n), s # {}
    PROVE  Max(s) \in s /\ \A y \in s : Max(s) >= y
<1> DEFINE Below == {n - x : x \in s}
<1>1. Below \in SUBSET Nat /\ Below # {}
    <2>1. \A x \in s : n - x \in Nat
        OBVIOUS
    <2>2. PICK x \in s : TRUE
        OBVIOUS
    <2>3. n - x \in Below
        OBVIOUS
    <2> QED BY <2>1, <2>3
<1>2. PICK b \in Below : \A k \in Below : b <= k
    BY <1>1, LeastElement
<1>3. PICK x \in s : b = n - x
    BY <1>2
<1>4. \A y \in s : n - x <= n - y
    BY <1>2, <1>3
<1>5. \A y \in s : x >= y
    BY <1>4
<1> QED BY <1>5, Zenon DEF Max

(* The greatest number of an interval.                                       *)
LEMMA MaxUpTo ==
    ASSUME NEW n \in Nat, NEW k \in 1..n
    PROVE  Max(1..k) = k /\ (1..k) \ {k} = 1..(k - 1)
<1>1. 1..k \in SUBSET (1..n) /\ 1..k # {}
    OBVIOUS
<1>2. Max(1..k) \in 1..k /\ \A y \in 1..k : Max(1..k) >= y
    BY <1>1, MaxIn
<1> QED BY <1>2

(* The function a fold is defined by, if its steps stay in the set T.        *)
IsFold(f, T, base, n, step) ==
    /\ f \in [SUBSET (1..n) -> T]
    /\ \A s \in SUBSET (1..n) :
          f[s] = IF s = {} THEN base ELSE step[Max(s)][f[s \ {Max(s)}]]

(* There is one.                                                             *)
LEMMA FoldExists ==
    ASSUME NEW T, NEW base \in T, NEW n \in Nat, NEW step \in [1..n -> [T -> T]]
    PROVE  \E f : IsFold(f, T, base, n, step)
<1> DEFINE Folds(f, m) == IsFold(f, T, base, m, step)
           S == {m \in 0..n : \E f : Folds(f, m)}
<1>1. 0 \in S
    <2> DEFINE f == [s \in SUBSET (1..0) |-> base]
    <2>1. f \in [SUBSET (1..0) -> T]
        OBVIOUS
    <2>2. \A s \in SUBSET (1..0) : s = {} /\ f[s] = base
        OBVIOUS
    <2> HIDE DEF f
    <2>3. Folds(f, 0)
        BY <2>1, <2>2 DEF IsFold
    <2>4. 0 \in 0..n
        OBVIOUS
    <2> HIDE DEF Folds
    <2> QED BY <2>3, <2>4
<1>2. ASSUME NEW m \in 1..n, m - 1 \in S PROVE m \in S
    <2>1. PICK f : Folds(f, m - 1)
        BY <1>2
    <2> DEFINE h == [s \in SUBSET (1..m) |-> IF m \in s THEN step[m][f[s \ {m}]] ELSE f[s]]
    <2>2. \A s \in SUBSET (1..m) : s \ {m} \in SUBSET (1..(m - 1))
        OBVIOUS
    <2>3. \A s \in SUBSET (1..m) : m \notin s => s \in SUBSET (1..(m - 1))
        OBVIOUS
    <2>4. \A s \in SUBSET (1..m) : h[s] \in T
        BY <2>1, <2>2, <2>3 DEF IsFold
    <2>5. \A s \in SUBSET (1..m) : m \notin s => h[s] = f[s]
        OBVIOUS
    <2>6. h \in [SUBSET (1..m) -> T]
        BY <2>4
    <2>7. ASSUME NEW s \in SUBSET (1..m)
          PROVE  h[s] = IF s = {} THEN base ELSE step[Max(s)][h[s \ {Max(s)}]]
        <3>1. CASE m \in s
            <4>1. Max(s) = m
                <5>1. m \in Nat /\ s # {}
                    BY <3>1
                <5>2. Max(s) \in s /\ \A y \in s : Max(s) >= y
                    BY <5>1, MaxIn
                <5>3. Max(s) \in 1..m /\ Max(s) >= m
                    BY <3>1, <5>2
                <5> QED BY <5>3
            <4>2. h[s \ {m}] = f[s \ {m}]
                BY <2>5
            <4> QED BY <3>1, <4>1, <4>2
        <3>2. CASE m \notin s
            <4>1. s \in SUBSET (1..(m - 1)) /\ h[s] = f[s]
                BY <2>3, <2>5, <3>2
            <4>2. h[s \ {Max(s)}] = f[s \ {Max(s)}]
                BY <2>5, <3>2
            <4>3. f[s] = IF s = {} THEN base ELSE step[Max(s)][f[s \ {Max(s)}]]
                BY <2>1, <4>1 DEF IsFold
            <4> QED BY <4>1, <4>2, <4>3
        <3> QED BY <3>1, <3>2
    <2> HIDE DEF h
    <2>8. Folds(h, m)
        BY <2>6, <2>7 DEF IsFold
    <2>9. m \in 0..n
        OBVIOUS
    <2> HIDE DEF Folds
    <2> QED BY <2>8, <2>9
<1>3. \E f : Folds(f, n)
    <2> HIDE DEF S
    <2>1. \A k \in 0..n : k \in S
        BY <1>1, <1>2, Upward
    <2>2. n \in S
        BY <2>1
    <2> QED BY <2>2 DEF S
<1> QED BY <1>3

(* A chain: each link is what a step makes of the one before.                *)
IsChain(f, T, base, n, step) ==
    /\ f \in [0..n -> T]
    /\ f[0] = base
    /\ \A k \in 1..n : f[k] = step[k][f[k - 1]]

(* There is one, if the steps stay in the set T.                             *)
LEMMA ChainExists ==
    ASSUME NEW T, NEW base \in T, NEW n \in Nat, NEW step \in [1..n -> [T -> T]]
    PROVE  \E f : IsChain(f, T, base, n, step)
<1> DEFINE Chain(f, m) == IsChain(f, T, base, m, step)
           S == {m \in 0..n : \E f : Chain(f, m)}
<1>1. 0 \in S
    <2> DEFINE f == [k \in 0..0 |-> base]
    <2>1. f \in [0..0 -> T] /\ f[0] = base /\ 1..0 = {}
        OBVIOUS
    <2> HIDE DEF f
    <2>2. Chain(f, 0)
        BY <2>1 DEF IsChain
    <2> HIDE DEF Chain
    <2> QED BY <2>2
<1>2. ASSUME NEW m \in 1..n, m - 1 \in S PROVE m \in S
    <2>1. PICK f : Chain(f, m - 1)
        BY <1>2
    <2> DEFINE h == [k \in 0..m |-> IF k = m THEN step[m][f[m - 1]] ELSE f[k]]
    <2>2. f \in [0..(m - 1) -> T] /\ f[0] = base /\ \A k \in 1..(m - 1) : f[k] = step[k][f[k - 1]]
        BY <2>1 DEF IsChain
    <2>3. h \in [0..m -> T]
        BY <2>2
    <2>4. h[0] = base
        BY <2>2
    <2>5. \A k \in 1..m : h[k] = step[k][h[k - 1]]
        BY <2>2
    <2> HIDE DEF h
    <2>6. Chain(h, m)
        BY <2>3, <2>4, <2>5 DEF IsChain
    <2> HIDE DEF Chain
    <2> QED BY <2>6
<1>3. \A k \in 0..n : k \in S
    <2> HIDE DEF S
    <2> QED BY <1>1, <1>2, Upward
<1>4. n \in S
    <2> HIDE DEF S
    <2> QED BY <1>3
<1> QED BY <1>4

-----------------------------------------------------------------------------
(* Flattening the first pieces of a sequence.                                *)
Joined(F, p) == FlattenSeq([l \in 1..p |-> F[l]])

(* Flattening is a chain, whatever number of pieces is taken.                *)
LEMMA JoinedChain ==
    ASSUME NEW V, NEW n \in Nat, NEW F \in [1..n -> Seq(V)]
    PROVE  /\ Joined(F, 0) = <<>>
           /\ \A p \in 1..n : Joined(F, p) = Joined(F, p - 1) \o F[p]
           /\ \A p \in 0..n : Joined(F, p) \in Seq(V)
<1> DEFINE T == Seq(V)
           step == [i \in 1..n |-> [t \in T |-> t \o F[i]]]
<1>e. <<>> \in T
    OBVIOUS
<1>0. PICK m : IsChain(m, T, <<>>, n, step)
    <2>1. step \in [1..n -> [T -> T]]
        OBVIOUS
    <2> HIDE DEF step, T
    <2> QED BY <1>e, <2>1, ChainExists
<1>1. /\ m[0] = <<>> /\ \A k \in 0..n : m[k] \in T
      /\ \A k \in 1..n : m[k] = m[k - 1] \o F[k]
    <2>1. m \in [0..n -> T] /\ m[0] = <<>> /\ \A k \in 1..n : m[k] = step[k][m[k - 1]]
        <3> HIDE DEF step, T
        <3> QED BY <1>0 DEF IsChain
    <2>2. \A k \in 1..n : m[k - 1] \in T
        BY <2>1
    <2>3. \A k \in 1..n, t \in T : step[k][t] = t \o F[k]
        OBVIOUS
    <2> HIDE DEF step, T
    <2> QED BY <2>1, <2>2, <2>3
<1>2. ASSUME NEW p \in 0..n PROVE Joined(F, p) = m[p]
    <2> DEFINE pieces == [l \in 1..p |-> F[l]]
               IsFlat(f) == f = [i \in 1..Len(pieces) |-> IF i = 1 THEN pieces[i] ELSE f[i - 1] \o pieces[i]]
               flat == CHOOSE f : IsFlat(f)
    <2>0. \A i \in 1..p : i \in 1..n
        OBVIOUS
    <2>1. Len(pieces) = p /\ \A i \in 1..p : pieces[i] = F[i]
        <3>1. pieces \in [1..p -> Seq(V)]
            OBVIOUS
        <3> QED BY <3>1
    <2>2. CASE p = 0
        <3>1. pieces = <<>>
            BY <2>2
        <3>2. FlattenSeq(pieces) = pieces
            BY <2>1, <2>2, Zenon DEF FlattenSeq
        <3> QED BY <1>1, <2>2, <3>1, <3>2 DEF Joined
    <2>3. CASE p # 0
        <3>1. FlattenSeq(pieces) = flat[Len(pieces)]
            <4>1. Len(pieces) # 0
                BY <2>1, <2>3
            <4> QED BY <4>1, Zenon DEF FlattenSeq
        <3> HIDE DEF pieces
        <3>2. \E f : IsFlat(f)
            <4> DEFINE e == [i \in 1..p |-> m[i]]
            <4>1. \A i \in 1..p : e[i] = IF i = 1 THEN pieces[i] ELSE e[i - 1] \o pieces[i]
                <5>1. \A i \in 1..p : m[i] = m[i - 1] \o F[i]
                    BY <1>1, <2>0, Zenon
                <5>2. 1 \in 1..n /\ F[1] \in Seq(V)
                    BY <2>3
                <5>3. <<>> \o F[1] = F[1]
                    BY <5>2, ConcatEmptySeq
                <5>4. m[1] = F[1]
                    <6>1. m[1] = m[1 - 1] \o F[1]
                        BY <1>1, <5>2, Zenon
                    <6>2. 1 - 1 = 0
                        OBVIOUS
                    <6> QED BY <1>1, <5>3, <6>1, <6>2, Zenon
                <5>5. \A i \in 1..p : i # 1 => i - 1 \in 1..p
                    OBVIOUS
                <5> QED BY <2>1, <5>1, <5>4, <5>5
            <4>2. e = [i \in 1..p |-> e[i]]
                OBVIOUS
            <4> HIDE DEF e
            <4>3. IsFlat(e)
                BY <2>1, <4>1, <4>2
            <4> QED BY <4>3
        <3>3. IsFlat(flat)
            BY <3>2, Zenon
        <3> HIDE DEF flat
        <3>4. \A i \in 1..p : flat[i] = IF i = 1 THEN pieces[i] ELSE flat[i - 1] \o pieces[i]
            BY <2>1, <3>3
        <3> DEFINE S == {k \in 0..p : k # 0 => flat[k] = m[k]}
        <3>5. 0 \in S
            OBVIOUS
        <3>6. ASSUME NEW k \in 1..p, k - 1 \in S PROVE k \in S
            <4>0. k \in 1..n
                BY <2>0
            <4>1. m[k] = m[k - 1] \o F[k] /\ F[k] \in Seq(V)
                BY <1>1, <4>0, Zenon
            <4>2. CASE k = 1
                <5>0. k - 1 = 0
                    BY <4>2
                <5>1. m[k] = <<>> \o F[k]
                    BY <1>1, <4>1, <5>0, Zenon
                <5>2. <<>> \o F[k] = F[k]
                    BY <4>1, ConcatEmptySeq
                <5>3. flat[k] = F[k]
                    BY <2>1, <3>4, <4>2, Zenon
                <5> QED BY <5>1, <5>2, <5>3
            <4>3. CASE k # 1
                <5>1. flat[k] = flat[k - 1] \o F[k]
                    <6>1. flat[k] = flat[k - 1] \o pieces[k] /\ pieces[k] = F[k]
                        BY <2>1, <3>4, <4>3, Zenon
                    <6> QED BY <6>1, Zenon
                <5>2. k - 1 # 0 /\ flat[k - 1] = m[k - 1]
                    BY <3>6, <4>3
                <5>3. flat[k] = m[k]
                    BY <4>1, <5>1, <5>2, Zenon
                <5> QED BY <5>3
            <4> QED BY <4>2, <4>3
        <3>7. p \in S
            <4>1. p \in Nat
                OBVIOUS
            <4> HIDE DEF S
            <4>2. \A k \in 0..p : k \in S
                BY <3>5, <3>6, <4>1, Upward
            <4> QED BY <4>1, <4>2
        <3> QED BY <2>1, <2>3, <3>1, <3>7 DEF Joined, pieces
    <2> QED BY <2>2, <2>3
<1> HIDE DEF step
<1>3. 0 \in 0..n /\ \A p \in 1..n : p \in 0..n /\ p - 1 \in 0..n
    OBVIOUS
<1>4. \A p \in 1..n : Joined(F, p) = m[p] /\ Joined(F, p - 1) = m[p - 1]
    BY <1>2, <1>3
<1> QED BY <1>1, <1>2, <1>3, <1>4

(* Joining further pieces of the n changes nothing where they are empty.     *)
(* What items give when each gives a sequence.                               *)
Spread(h, s) == FlattenSeq([i \in 1..Len(s) |-> h[s[i]]])

(* One more item adds what it gives.                                         *)
LEMMA SpreadGrows ==
    ASSUME NEW S, NEW V, NEW h \in [S -> Seq(V)], NEW s \in Seq(S), NEW x \in S
    PROVE  Spread(h, s \o <<x>>) = Spread(h, s) \o h[x]
<1> DEFINE n == Len(s)
           t == s \o <<x>>
           F == [i \in 1..(n + 1) |-> h[t[i]]]
<1>1. n \in Nat /\ <<x>> \in Seq(S) /\ Len(<<x>>) = 1 /\ <<x>>[1] = x
    OBVIOUS
<1>2. /\ t \in Seq(S) /\ Len(t) = n + 1
      /\ \A i \in 1..n : t[i] = s[i] /\ s[i] \in S
      /\ t[n + 1] = x
    BY <1>1, ConcatProperties
<1> HIDE DEF n, t
<1>3. \A i \in 1..(n + 1) : t[i] \in S
    BY <1>1, <1>2
<1>4. F \in [1..(n + 1) -> Seq(V)] /\ n + 1 \in Nat
    <2>1. \A i \in 1..(n + 1) : h[t[i]] \in Seq(V)
        BY <1>3
    <2> QED BY <1>1, <2>1
<1>5. F[n + 1] = h[x] /\ n + 1 \in 1..(n + 1) /\ (n + 1) - 1 = n
    <2>1. n + 1 \in 1..(n + 1) /\ (n + 1) - 1 = n
        BY <1>1
    <2>2. F[n + 1] = h[t[n + 1]]
        BY <2>1
    <2> QED BY <1>2, <2>1, <2>2
<1>6. [l \in 1..(n + 1) |-> F[l]] = F
    OBVIOUS
<1>7. [l \in 1..n |-> F[l]] = [i \in 1..n |-> h[s[i]]]
    BY <1>1, <1>2
<1> HIDE DEF F
<1>8. Joined(F, n + 1) = Joined(F, n) \o F[n + 1]
    BY <1>4, <1>5, JoinedChain
<1>9. Joined(F, n) = Spread(h, s)
    BY <1>7 DEF Joined, Spread, n
<1>10. Joined(F, n + 1) = FlattenSeq(F)
    BY <1>6 DEF Joined
<1>11. Spread(h, t) = FlattenSeq(F)
    BY <1>2 DEF Spread, F
<1> QED BY <1>5, <1>8, <1>9, <1>10, <1>11 DEF t

(* Nothing gives nothing.                                                    *)
LEMMA SpreadNothing ==
    ASSUME NEW h
    PROVE  Spread(h, <<>>) = <<>>
<1>1. [i \in 1..Len(<<>>) |-> h[<<>>[i]]] = <<>>
    OBVIOUS
<1>2. FlattenSeq(<<>>) = <<>>
    BY Zenon, EmptySeq DEF FlattenSeq
<1> QED BY <1>1, <1>2 DEF Spread

(* What a sequence gives is a sequence.                                      *)
LEMMA SpreadType ==
    ASSUME NEW S, NEW V, NEW h \in [S -> Seq(V)], NEW u \in Seq(S)
    PROVE  Spread(h, u) \in Seq(V)
<1> DEFINE n == Len(u)
           F == [i \in 1..n |-> h[u[i]]]
<1>1. n \in Nat /\ F \in [1..n -> Seq(V)]
    OBVIOUS
<1>2. [l \in 1..n |-> F[l]] = F /\ n \in 0..n
    BY <1>1
<1>3. Spread(h, u) = FlattenSeq(F)
    BY DEF Spread
<1> HIDE DEF F, n
<1>4. Joined(F, n) \in Seq(V)
    BY <1>1, <1>2, JoinedChain
<1>5. Joined(F, n) = FlattenSeq(F)
    BY <1>2 DEF Joined
<1> QED BY <1>3, <1>4, <1>5

(* Each item of S gives a sequence over V.                                   *)
Spreads(h, S, V) == h \in [S -> Seq(V)]

(* What a longer sequence gives is what both parts give.                     *)
LEMMA SpreadJoins ==
    ASSUME NEW S, NEW V, NEW h, Spreads(h, S, V)
    PROVE  \A s, t \in Seq(S) : Spread(h, s \o t) = Spread(h, s) \o Spread(h, t)
<1> SUFFICES ASSUME NEW s \in Seq(S), NEW t \in Seq(S)
             PROVE  Spread(h, s \o t) = Spread(h, s) \o Spread(h, t)
    OBVIOUS
<1>h. h \in [S -> Seq(V)]
    BY DEF Spreads
<1>t. \A u \in Seq(S) : Spread(h, u) \in Seq(V)
    BY <1>h, SpreadType
<1> DEFINE n == Len(t)
           First(k) == SubSeq(t, 1, k)
           T == {k \in 0..n : Spread(h, s \o First(k)) = Spread(h, s) \o Spread(h, First(k))}
<1>1. n \in Nat /\ First(0) = <<>> /\ First(n) = t
    OBVIOUS
<1>2. \A k \in 0..n : First(k) \in Seq(S)
    OBVIOUS
<1>3. \A k \in 1..n : First(k) = First(k - 1) \o <<t[k]>> /\ t[k] \in S
    OBVIOUS
<1>e. <<>> \in Seq(S)
    OBVIOUS
<1> HIDE DEF First
<1>4. 0 \in T
    <2>1. s \o <<>> = s
        BY ConcatEmptySeq
    <2>2. Spread(h, s) \o <<>> = Spread(h, s)
        BY <1>t, ConcatEmptySeq
    <2>3. 0 \in 0..n
        BY <1>1
    <2> QED BY <1>1, <2>1, <2>2, <2>3, SpreadNothing
<1> HIDE DEF n
<1>5. ASSUME NEW k \in 1..n, k - 1 \in T PROVE k \in T
    <2> DEFINE f == First(k - 1)
               x == t[k]
    <2>0. k \in 0..n /\ k - 1 \in 0..n
        BY <1>1
    <2>1. /\ f \in Seq(S) /\ x \in S /\ First(k) = f \o <<x>>
          /\ Spread(h, s \o f) = Spread(h, s) \o Spread(h, f)
        BY <2>0, <1>2, <1>3, <1>5
    <2> HIDE DEF f, x
    <2>2. s \o f \in Seq(S) /\ <<x>> \in Seq(S)
        BY <2>1
    <2>3. s \o (f \o <<x>>) = (s \o f) \o <<x>>
        BY <2>1, <2>2, ConcatAssociative
    <2>4. Spread(h, (s \o f) \o <<x>>) = Spread(h, s \o f) \o h[x]
        BY <1>h, <2>1, <2>2, SpreadGrows
    <2>5. Spread(h, f \o <<x>>) = Spread(h, f) \o h[x]
        BY <1>h, <2>1, SpreadGrows
    <2>6. (Spread(h, s) \o Spread(h, f)) \o h[x] = Spread(h, s) \o (Spread(h, f) \o h[x])
        <3>1. h[x] \in Seq(V) /\ Spread(h, s) \in Seq(V) /\ Spread(h, f) \in Seq(V)
            BY <1>h, <1>t, <2>1
        <3> DEFINE a == Spread(h, s)
                   b == Spread(h, f)
                   c == h[x]
        <3> HIDE DEF a, b, c
        <3>2. (a \o b) \o c = a \o (b \o c)
            <4>1. a \in Seq(V) /\ b \in Seq(V) /\ c \in Seq(V)
                BY <3>1 DEF a, b, c
            <4> QED BY <4>1, ConcatAssociative, SMTT(30)
        <3> QED BY <3>2 DEF a, b, c
    <2>7. Spread(h, s \o First(k)) = Spread(h, s) \o Spread(h, First(k))
        BY <2>1, <2>3, <2>4, <2>5, <2>6, Zenon
    <2> QED BY <2>0, <2>7
<1>6. \A k \in 0..n : k \in T
    <2> HIDE DEF T
    <2> QED BY <1>1, <1>4, <1>5, Upward
<1>7. n \in T
    <2> HIDE DEF T
    <2> QED BY <1>1, <1>6
<1> QED BY <1>1, <1>7

(* What flattened pieces give is what the pieces give, flattened.            *)
SpreadsPieces(h, S) ==
    \A n \in Nat : \A P \in [1..n -> Seq(S)] :
        Spread(h, FlattenSeq(P)) = FlattenSeq([k \in 1..n |-> Spread(h, P[k])])

(* Spreading what pieces flatten to is flattening what they spread to.      *)
LEMMA SpreadFlat ==
    ASSUME NEW S, NEW V, NEW h, Spreads(h, S, V)
    PROVE  SpreadsPieces(h, S)
<1> SUFFICES ASSUME NEW n \in Nat, NEW P \in [1..n -> Seq(S)]
             PROVE  Spread(h, FlattenSeq(P)) = FlattenSeq([k \in 1..n |-> Spread(h, P[k])])
    BY DEF SpreadsPieces
<1>h. h \in [S -> Seq(V)]
    BY DEF Spreads
<1> DEFINE Q == [k \in 1..n |-> Spread(h, P[k])]
           T == {k \in 0..n : Spread(h, Joined(P, k)) = Joined(Q, k)}
<1>0. Q \in [1..n -> Seq(V)]
    <2>1. \A k \in 1..n : Spread(h, P[k]) \in Seq(V)
        BY <1>h, SpreadType
    <2> QED BY <2>1
<1>q. \A k \in 1..n : Q[k] = Spread(h, P[k])
    OBVIOUS
<1>z. [k \in 1..n |-> Q[k]] = Q /\ [k \in 1..n |-> P[k]] = P
    OBVIOUS
<1> HIDE DEF Q
<1>1. /\ Joined(P, 0) = <<>> /\ \A k \in 0..n : Joined(P, k) \in Seq(S)
      /\ \A k \in 1..n : Joined(P, k) = Joined(P, k - 1) \o P[k]
    BY JoinedChain
<1>2. /\ Joined(Q, 0) = <<>> /\ \A k \in 1..n : Joined(Q, k) = Joined(Q, k - 1) \o Q[k]
    BY <1>0, JoinedChain
<1>j. \A s, t \in Seq(S) : Spread(h, s \o t) = Spread(h, s) \o Spread(h, t)
    <2> QED BY SpreadJoins
<1>3. 0 \in T
    BY <1>1, <1>2, SpreadNothing
<1>4. ASSUME NEW k \in 1..n, k - 1 \in T PROVE k \in T
    <2>0. k - 1 \in 0..n
        OBVIOUS
    <2> DEFINE j == Joined(P, k - 1)
               x == P[k]
    <2>1. j \in Seq(S) /\ x \in Seq(S)
        BY <1>1, <2>0
    <2> HIDE DEF j, x
    <2>2. Spread(h, j \o x) = Spread(h, j) \o Spread(h, x)
        BY <1>j, <2>1, Zenon
    <2>3. Spread(h, Joined(P, k - 1)) = Joined(Q, k - 1) /\ k \in 0..n
        BY <1>4
    <2>4. Spread(h, Joined(P, k)) = Joined(Q, k)
        <3>1. Joined(P, k) = j \o x
            BY <1>1 DEF j, x
        <3>2. Joined(Q, k) = Joined(Q, k - 1) \o Spread(h, x)
            BY <1>2, <1>q DEF x
        <3>3. Spread(h, j) = Joined(Q, k - 1)
            BY <2>3 DEF j
        <3> QED BY <2>2, <3>1, <3>2, <3>3, Zenon
    <2> QED BY <2>3, <2>4
<1>5. n \in T
    <2> HIDE DEF T
    <2>1. \A k \in 0..n : k \in T
        BY <1>3, <1>4, Upward
    <2> QED BY <2>1
<1> QED BY <1>5, <1>z DEF Joined, Q

(* The folds of ToolSet as chains.                                           *)

(* Changes of the tools D, that may take away the names R.                   *)
Changes(D, R) == [added : Seq(D), removed : Seq(R)]

(* Seq(D) of D, each named once.                                              *)
Offers(D) == {tools \in Seq(D) : OneEach(tools)}

(* Definitions put one at a time.                                           *)
PutChain(g, base, seq) ==
    g[0] = base /\ \A k \in 1..Len(seq) : g[k] = Put(g[k - 1], seq[k])

(* Elements kept one at a time.                                             *)
OnlyChain(g, seq, wanted) ==
    /\ g[0] = <<>>
    /\ \A k \in 1..Len(seq) :
          g[k] = IF seq[k] \in wanted THEN Append(g[k - 1], seq[k]) ELSE g[k - 1]

(* Changes applied one at a time.                                           *)
ApplyChain(g, base, seq) ==
    g[0] = base /\ \A k \in 1..Len(seq) : g[k] = ApplyTo(g[k - 1], seq[k])

(* Where a definition is put, or withdrawn from, there are definitions.      *)
LEMMA PutType ==
    ASSUME NEW D, NEW tools \in Seq(D), NEW definition \in D
    PROVE  Put(tools, definition) \in Seq(D)
<1> DEFINE same == {i \in 1..Len(tools) : tools[i].name = definition.name}
           m    == Min(same)
<1>1. Put(tools, definition) =
          IF same = {} THEN Append(tools, definition) ELSE [tools EXCEPT ![m] = definition]
    BY DEF Put
<1> HIDE DEF same, m
<1>2. Append(tools, definition) \in Seq(D)
    OBVIOUS
<1>3. [tools EXCEPT ![m] = definition] \in Seq(D)
    <2>1. Len(tools) \in Nat /\ tools \in [1..Len(tools) -> D]
        OBVIOUS
    <2>2. [tools EXCEPT ![m] = definition] \in [1..Len(tools) -> D]
        BY <2>1
    <2> QED BY <2>1, <2>2
<1> QED BY <1>1, <1>2, <1>3

(* Adding definitions, one at a time.                                        *)
LEMMA PutFold ==
    ASSUME NEW D, NEW base \in Seq(D), NEW seq \in Seq(D)
    PROVE  \E g : PutChain(g, base, seq) /\ FoldLeft(Put, base, seq) = g[Len(seq)]
<1> DEFINE n == Len(seq)
           IsIter(f) == f = [s \in SUBSET DOMAIN seq |->
                                IF s = {} THEN base ELSE Put(f[s \ {Max(s)}], seq[Max(s)])]
           iter == CHOOSE f : IsIter(f)
           step == [i \in 1..n |-> [t \in Seq(D) |-> Put(t, seq[i])]]
           g    == [k \in 0..n |-> iter[1..k]]
<1>1. n \in Nat /\ DOMAIN seq = 1..n /\ \A i \in 1..n : seq[i] \in D
    OBVIOUS
<1>2. FoldLeft(Put, base, seq) = iter[DOMAIN seq]
    BY Zenon DEF FoldLeft, MapThenFoldSet
<1> HIDE DEF n
<1>3. step \in [1..n -> [Seq(D) -> Seq(D)]]
    BY <1>1, PutType
<1>4. \E f : IsIter(f)
    <2>0. PICK f : IsFold(f, Seq(D), base, n, step)
        <3>1. n \in Nat
            BY <1>1
        <3> HIDE DEF step
        <3> QED BY <1>3, <3>1, FoldExists
    <2>1. /\ f \in [SUBSET (1..n) -> Seq(D)]
          /\ \A s \in SUBSET (1..n) :
                f[s] = IF s = {} THEN base ELSE step[Max(s)][f[s \ {Max(s)}]]
        <3> HIDE DEF step
        <3> QED BY <2>0 DEF IsFold
    <2>2. ASSUME NEW s \in SUBSET (1..n)
          PROVE  f[s] = IF s = {} THEN base ELSE Put(f[s \ {Max(s)}], seq[Max(s)])
        <3>1. CASE s = {}
            BY <2>1, <3>1
        <3>2. CASE s # {}
            <4>1. Max(s) \in 1..n
                BY <1>1, <3>2, MaxIn
            <4>2. f[s \ {Max(s)}] \in Seq(D)
                BY <2>1
            <4>3. f[s] = step[Max(s)][f[s \ {Max(s)}]]
                BY <2>1, <3>2
            <4> QED BY <3>2, <4>1, <4>2, <4>3
        <3> QED BY <3>1, <3>2
    <2>3. f = [s \in SUBSET (1..n) |-> f[s]]
        BY <2>1
    <2>4. f = [s \in SUBSET (1..n) |->
                  IF s = {} THEN base ELSE Put(f[s \ {Max(s)}], seq[Max(s)])]
        BY <2>2, <2>3
    <2> QED BY <1>1, <2>4
<1>5. IsIter(iter)
    BY <1>4, Zenon
<1> HIDE DEF iter
<1>6. \A s \in SUBSET (1..n) :
          iter[s] = IF s = {} THEN base ELSE Put(iter[s \ {Max(s)}], seq[Max(s)])
    BY <1>1, <1>5
<1>7. g[0] = base
    <2>1. 1..0 = {} /\ 0 \in 0..n
        BY <1>1
    <2>2. g[0] = iter[{}]
        BY <2>1
    <2>3. iter[{}] = base
        <3>1. {} \in SUBSET (1..n)
            OBVIOUS
        <3> HIDE DEF g
        <3> QED BY <1>6, <3>1, Zenon
    <2> QED BY <2>2, <2>3
<1>8. ASSUME NEW k \in 1..n PROVE g[k] = Put(g[k - 1], seq[k])
    <2>1. Max(1..k) = k /\ (1..k) \ {k} = 1..(k - 1)
        BY <1>1, MaxUpTo
    <2>2. g[k] = iter[1..k] /\ g[k - 1] = iter[1..(k - 1)]
        BY <1>1
    <2>3. 1..k \in SUBSET (1..n) /\ 1..k # {}
        <3>1. k \in 1..k /\ \A j \in 1..k : j \in 1..n
            BY <1>1
        <3> QED BY <3>1
    <2> QED BY <1>6, <2>1, <2>2, <2>3
<1>9. g[n] = iter[1..n]
    BY <1>1
<1> HIDE DEF g
<1> QED BY <1>1, <1>2, <1>7, <1>8, <1>9 DEF PutChain, n

(* Picking the wanted ones, one at a time.                                   *)
LEMMA OnlyFold ==
    ASSUME NEW D, NEW seq \in Seq(D), NEW wanted
    PROVE  \E g : OnlyChain(g, seq, wanted) /\ Only(seq, wanted) = g[Len(seq)]
<1> DEFINE n == Len(seq)
           Pick(kept, d) == IF d \in wanted THEN Append(kept, d) ELSE kept
           IsIter(f) == f = [s \in SUBSET DOMAIN seq |->
                                IF s = {} THEN <<>> ELSE Pick(f[s \ {Max(s)}], seq[Max(s)])]
           iter == CHOOSE f : IsIter(f)
           step == [i \in 1..n |-> [t \in Seq(D) |-> Pick(t, seq[i])]]
           g    == [k \in 0..n |-> iter[1..k]]
<1>1. n \in Nat /\ DOMAIN seq = 1..n /\ \A i \in 1..n : seq[i] \in D
    OBVIOUS
<1>2. Only(seq, wanted) = iter[DOMAIN seq]
    BY Zenon DEF Only, FoldLeft, MapThenFoldSet
<1> HIDE DEF n
<1>3. step \in [1..n -> [Seq(D) -> Seq(D)]]
    <2>1. \A t \in Seq(D), d \in D : Pick(t, d) \in Seq(D)
        OBVIOUS
    <2> HIDE DEF Pick
    <2> QED BY <1>1, <2>1
<1>e. <<>> \in Seq(D)
    OBVIOUS
<1>4. \E f : IsIter(f)
    <2>0. PICK f : IsFold(f, Seq(D), <<>>, n, step)
        <3>1. n \in Nat
            BY <1>1
        <3> HIDE DEF step
        <3> QED BY <1>3, <1>e, <3>1, FoldExists
    <2>1. /\ f \in [SUBSET (1..n) -> Seq(D)]
          /\ \A s \in SUBSET (1..n) :
                f[s] = IF s = {} THEN <<>> ELSE step[Max(s)][f[s \ {Max(s)}]]
        <3> HIDE DEF step
        <3> QED BY <2>0 DEF IsFold
    <2>2. ASSUME NEW s \in SUBSET (1..n)
          PROVE  f[s] = IF s = {} THEN <<>> ELSE Pick(f[s \ {Max(s)}], seq[Max(s)])
        <3>1. CASE s = {}
            BY <2>1, <3>1
        <3>2. CASE s # {}
            <4>1. Max(s) \in 1..n
                BY <1>1, <3>2, MaxIn
            <4>2. f[s \ {Max(s)}] \in Seq(D)
                BY <2>1
            <4>3. f[s] = step[Max(s)][f[s \ {Max(s)}]]
                BY <2>1, <3>2
            <4> QED BY <3>2, <4>1, <4>2, <4>3
        <3> QED BY <3>1, <3>2
    <2>3. f = [s \in SUBSET (1..n) |-> f[s]]
        BY <2>1
    <2>4. f = [s \in SUBSET (1..n) |->
                  IF s = {} THEN <<>> ELSE Pick(f[s \ {Max(s)}], seq[Max(s)])]
        BY <2>2, <2>3
    <2> QED BY <1>1, <2>4
<1>5. IsIter(iter)
    BY <1>4, Zenon
<1> HIDE DEF iter
<1>6. \A s \in SUBSET (1..n) :
          iter[s] = IF s = {} THEN <<>> ELSE Pick(iter[s \ {Max(s)}], seq[Max(s)])
    BY <1>1, <1>5
<1>7. g[0] = <<>>
    <2>1. 1..0 = {} /\ 0 \in 0..n
        BY <1>1
    <2>2. g[0] = iter[{}]
        BY <2>1
    <2>3. iter[{}] = <<>>
        <3>1. {} \in SUBSET (1..n)
            OBVIOUS
        <3> HIDE DEF g, Pick
        <3> QED BY <1>6, <3>1, Zenon
    <2> QED BY <2>2, <2>3
<1>8. ASSUME NEW k \in 1..n PROVE g[k] = Pick(g[k - 1], seq[k])
    <2>1. Max(1..k) = k /\ (1..k) \ {k} = 1..(k - 1)
        BY <1>1, MaxUpTo
    <2>2. g[k] = iter[1..k] /\ g[k - 1] = iter[1..(k - 1)]
        BY <1>1
    <2>3. 1..k \in SUBSET (1..n) /\ 1..k # {}
        <3>1. k \in 1..k /\ \A j \in 1..k : j \in 1..n
            BY <1>1
        <3> QED BY <3>1
    <2> QED BY <1>6, <2>1, <2>2, <2>3, ZenonT(30)
<1>9. g[n] = iter[1..n]
    BY <1>1
<1> HIDE DEF g
<1>10. OnlyChain(g, seq, wanted)
    BY <1>7, <1>8 DEF OnlyChain, n
<1> QED BY <1>1, <1>2, <1>9, <1>10 DEF n

-----------------------------------------------------------------------------
(* What the operators of ToolSet give.                                       *)

(* The members of a longer sequence.                                         *)
LEMMA AppendSet ==
    ASSUME NEW D, NEW tools \in Seq(D), NEW d \in D
    PROVE  /\ Append(tools, d) \in Seq(D)
           /\ ToSet(Append(tools, d)) = ToSet(tools) \cup {d}
           /\ OneEach(tools) /\ (\A t \in ToSet(tools) : t.name # d.name) => OneEach(Append(tools, d))
<1> DEFINE n == Len(tools)
           longer == Append(tools, d)
<1>1. /\ n \in Nat /\ DOMAIN tools = 1..n /\ longer \in Seq(D) /\ Len(longer) = n + 1
      /\ DOMAIN longer = 1..(n + 1)
      /\ longer[n + 1] = d /\ \A i \in 1..n : longer[i] = tools[i]
    OBVIOUS
<1> HIDE DEF longer, n
<1>2. ToSet(longer) = ToSet(tools) \cup {d}
    BY <1>1 DEF ToSet
<1>3. ASSUME OneEach(tools), \A t \in ToSet(tools) : t.name # d.name PROVE OneEach(longer)
    <2>1. \A i \in 1..n : tools[i].name # d.name
        BY <1>1, <1>3 DEF ToSet
    <2>2. \A i, j \in 1..n : tools[i].name = tools[j].name => i = j
        BY <1>3 DEF OneEach, n
    <2> QED BY <1>1, <2>1, <2>2 DEF OneEach
<1> QED BY <1>1, <1>2, <1>3 DEF longer

(* Members of a sequence that names each tool once are known by their names. *)
LEMMA OneEachMembers ==
    ASSUME NEW D, NEW tools \in Seq(D), OneEach(tools)
    PROVE  \A x, y \in ToSet(tools) : x.name = y.name => x = y
<1>1. DOMAIN tools = 1..Len(tools)
    OBVIOUS
<1> QED BY <1>1 DEF OneEach, ToSet

(* Only keeps what is wanted, and its order names each tool once still.      *)
LEMMA OnlyFacts ==
    ASSUME NEW D, NEW tools \in Seq(D), NEW wanted
    PROVE  /\ Only(tools, wanted) \in Seq(D)
           /\ ToSet(Only(tools, wanted)) = ToSet(tools) \cap wanted
           /\ OneEach(tools) => OneEach(Only(tools, wanted))
<1> DEFINE n == Len(tools)
           First(k) == {tools[i] : i \in 1..k}
<1>1. n \in Nat /\ DOMAIN tools = 1..n /\ \A i \in 1..n : tools[i] \in D
    OBVIOUS
<1>2. PICK g : OnlyChain(g, tools, wanted) /\ Only(tools, wanted) = g[n]
    BY OnlyFold
<1> DEFINE Holds(k) == /\ g[k] \in Seq(D)
                       /\ ToSet(g[k]) = First(k) \cap wanted
                       /\ OneEach(tools) => OneEach(g[k])
           S == {k \in 0..n : Holds(k)}
<1> HIDE DEF n
<1>3. 0 \in S
    <2>1. g[0] = <<>>
        BY <1>2 DEF OnlyChain
    <2>2. <<>> \in Seq(D) /\ ToSet(<<>>) = {} /\ OneEach(<<>>)
        BY DEF ToSet, OneEach
    <2>3. First(0) = {} /\ 0 \in 0..n
        BY <1>1
    <2> QED BY <2>1, <2>2, <2>3
<1>4. ASSUME NEW k \in 1..n, k - 1 \in S PROVE k \in S
    <2>1. Holds(k - 1) /\ k \in 0..n
        BY <1>1, <1>4
    <2>2. First(k) = First(k - 1) \cup {tools[k]}
        <3>1. 1..k = (1..(k - 1)) \cup {k}
            BY <1>1
        <3> QED BY <3>1
    <2>3. g[k] = IF tools[k] \in wanted THEN Append(g[k - 1], tools[k]) ELSE g[k - 1]
        BY <1>2 DEF OnlyChain, n
    <2>4. tools[k] \in D
        BY <1>1
    <2>5. OneEach(tools) => \A t \in First(k - 1) : t.name # tools[k].name
        BY <1>1 DEF OneEach, n
    <2> HIDE DEF First
    <2>6. CASE tools[k] \in wanted
        <3>1. g[k] = Append(g[k - 1], tools[k])
            BY <2>3, <2>6
        <3>2. /\ g[k] \in Seq(D) /\ ToSet(g[k]) = ToSet(g[k - 1]) \cup {tools[k]}
              /\ OneEach(g[k - 1]) /\ (\A t \in ToSet(g[k - 1]) : t.name # tools[k].name) => OneEach(g[k])
            BY <2>1, <2>4, <3>1, AppendSet
        <3>3. Holds(k)
            BY <2>1, <2>2, <2>5, <2>6, <3>2
        <3> QED BY <2>1, <3>3
    <2>7. CASE tools[k] \notin wanted
        <3>1. Holds(k)
            BY <2>1, <2>2, <2>3, <2>7
        <3> QED BY <2>1, <3>1
    <2> QED BY <2>6, <2>7
<1>5. Holds(n)
    <2> HIDE DEF S
    <2>1. \A k \in 0..n : k \in S
        BY <1>1, <1>3, <1>4, Upward
    <2>2. n \in S
        BY <1>1, <2>1
    <2> QED BY <2>2 DEF S
<1>6. First(n) = ToSet(tools)
    BY <1>1 DEF ToSet
<1> QED BY <1>2, <1>5, <1>6 DEF n

(* A definition put takes the place of the one of its name.                  *)
LEMMA PutFacts ==
    ASSUME NEW D, NEW tools \in Seq(D), OneEach(tools), NEW d \in D
    PROVE  /\ Put(tools, d) \in Seq(D) /\ OneEach(Put(tools, d))
           /\ ToSet(Put(tools, d)) = {t \in ToSet(tools) : t.name # d.name} \cup {d}
<1> DEFINE n    == Len(tools)
           same == {i \in 1..n : tools[i].name = d.name}
           m    == Min(same)
           put  == Put(tools, d)
<1>1. /\ n \in Nat /\ DOMAIN tools = 1..n
      /\ ToSet(tools) = {tools[i] : i \in 1..n}
    BY DEF ToSet
<1>2. put = IF same = {} THEN Append(tools, d) ELSE [tools EXCEPT ![m] = d]
    BY DEF Put
<1>3. put \in Seq(D)
    BY PutType
<1>4. CASE same = {}
    <2>1. put = Append(tools, d)
        BY <1>2, <1>4
    <2>2. \A t \in ToSet(tools) : t.name # d.name
        BY <1>1, <1>4
    <2> HIDE DEF put, same, m, n
    <2>3. ToSet(put) = ToSet(tools) \cup {d} /\ OneEach(put)
        BY <2>1, <2>2, AppendSet
    <2> QED BY <1>3, <2>2, <2>3 DEF put
<1>5. CASE same # {}
    <2>1. PICK i \in 1..n : tools[i].name = d.name
        BY <1>5
    <2>2. \A j \in same : j = i
        BY <1>1, <2>1 DEF OneEach
    <2>3. i \in same
        BY <2>1
    <2> HIDE DEF same
    <2>4. m = i
        <3>1. \E x \in same : \A y \in same : x =< y
            BY <1>1, <2>2, <2>3
        <3>2. m \in same
            BY <3>1, Zenon DEF Min
        <3> QED BY <2>2, <3>2
    <2> HIDE DEF m
    <2>5. put = [tools EXCEPT ![i] = d]
        BY <1>2, <1>5, <2>4
    <2>6. /\ Len(put) = n /\ DOMAIN put = 1..n /\ put[i] = d
          /\ \A j \in 1..n : j # i => put[j] = tools[j]
        BY <1>1, <2>5
    <2> HIDE DEF put
    <2>7. \A j \in 1..n : put[j].name = tools[j].name
        BY <2>1, <2>6
    <2>8. OneEach(put)
        BY <2>6, <2>7 DEF OneEach
    <2>9. ToSet(put) = {put[j] : j \in 1..n}
        BY <2>6 DEF ToSet
    <2>10. \A j \in 1..n : j # i => tools[j].name # d.name
        BY <1>1, <2>1 DEF OneEach
    <2> HIDE DEF n
    <2>11. {put[j] : j \in 1..n} = {t \in ToSet(tools) : t.name # d.name} \cup {d}
        <3>1. ASSUME NEW j \in 1..n
              PROVE  put[j] \in {t \in ToSet(tools) : t.name # d.name} \cup {d}
            BY <1>1, <2>6, <2>10
        <3>2. ASSUME NEW t \in ToSet(tools), t.name # d.name
              PROVE  t \in {put[j] : j \in 1..n}
            <4>1. PICK j \in 1..n : t = tools[j]
                BY <1>1
            <4>2. put[j] = t
                BY <2>1, <2>6, <3>2, <4>1
            <4> QED BY <4>2
        <3>3. d \in {put[j] : j \in 1..n}
            BY <2>1, <2>6
        <3> QED BY <3>1, <3>2, <3>3
    <2> QED BY <1>3, <2>8, <2>9, <2>11 DEF put
<1> QED BY <1>4, <1>5

(* Definitions that name each tool once take the places of those of their    *)
(* names; each tool is named once in any case.                               *)
LEMMA PutsFacts ==
    ASSUME NEW D, NEW base \in Seq(D), OneEach(base), NEW added \in Seq(D)
    PROVE  LET all == FoldLeft(Put, base, added)
           IN  /\ all \in Seq(D) /\ OneEach(all)
               /\ OneEach(added) =>
                      ToSet(all) = {t \in ToSet(base) : \A d \in ToSet(added) : t.name # d.name}
                                       \cup ToSet(added)
<1> DEFINE n == Len(added)
           First(k) == {added[i] : i \in 1..k}
           Left(k)  == {t \in ToSet(base) : \A i \in 1..k : t.name # added[i].name}
           New == OneEach(added)
<1>1. /\ n \in Nat /\ DOMAIN added = 1..n /\ \A i \in 1..n : added[i] \in D
      /\ ToSet(added) = First(n)
    BY DEF ToSet
<1>2. PICK g : PutChain(g, base, added) /\ FoldLeft(Put, base, added) = g[n]
    BY PutFold
<1> DEFINE Holds(k) == /\ g[k] \in Seq(D) /\ OneEach(g[k])
                       /\ New => ToSet(g[k]) = Left(k) \cup First(k)
           S == {k \in 0..n : Holds(k)}
<1>3. \A i, j \in 1..n : New /\ added[i].name = added[j].name => i = j
    BY DEF OneEach
<1> HIDE DEF n, New
<1>5. 0 \in S
    <2>1. g[0] = base
        BY <1>2 DEF PutChain
    <2>2. First(0) = {} /\ Left(0) = ToSet(base) /\ 0 \in 0..n
        BY <1>1
    <2> QED BY <2>1, <2>2
<1>6. ASSUME NEW k \in 1..n, k - 1 \in S PROVE k \in S
    <2>1. Holds(k - 1) /\ k \in 0..n
        BY <1>1, <1>6
    <2>0. 1..k = (1..(k - 1)) \cup {k}
        BY <1>1
    <2>2. First(k) = First(k - 1) \cup {added[k]}
        BY <2>0
    <2>3. g[k] = Put(g[k - 1], added[k])
        BY <1>2 DEF PutChain, n
    <2>4. added[k] \in D
        BY <1>1
    <2>5. New => \A t \in First(k - 1) : t.name # added[k].name
        BY <1>1, <1>3
    <2>8. Left(k) = {t \in Left(k - 1) : t.name # added[k].name}
        <3>1. ASSUME NEW t
              PROVE  (\A i \in 1..k : t.name # added[i].name)
                         <=> (\A i \in 1..(k - 1) : t.name # added[i].name) /\ t.name # added[k].name
            BY <2>0
        <3> QED BY <3>1
    <2> HIDE DEF First, Left
    <2>6. /\ g[k] \in Seq(D) /\ OneEach(g[k])
          /\ ToSet(g[k]) = {t \in ToSet(g[k - 1]) : t.name # added[k].name} \cup {added[k]}
        <3> DEFINE b == g[k - 1]
                   d == added[k]
        <3>1. b \in Seq(D) /\ OneEach(b) /\ d \in D
            BY <2>1, <2>4
        <3> HIDE DEF b, d, S
        <3>2. /\ Put(b, d) \in Seq(D) /\ OneEach(Put(b, d))
              /\ ToSet(Put(b, d)) = {t \in ToSet(b) : t.name # d.name} \cup {d}
            BY <3>1, PutFacts
        <3> QED BY <2>3, <3>2 DEF b, d
    <2>7. ASSUME New PROVE ToSet(g[k]) = Left(k) \cup First(k)
        <3> DEFINE d == added[k]
                   L == Left(k - 1)
                   F == First(k - 1)
        <3>1. /\ ToSet(g[k]) = {t \in L \cup F : t.name # d.name} \cup {d}
              /\ \A t \in F : t.name # d.name
            BY <2>1, <2>5, <2>6, <2>7
        <3>2. Left(k) \cup First(k) = {t \in L : t.name # d.name} \cup (F \cup {d})
            BY <2>2, <2>8
        <3> HIDE DEF d, L, F
        <3>3. {t \in L \cup F : t.name # d.name} \cup {d} = {t \in L : t.name # d.name} \cup (F \cup {d})
            BY <3>1
        <3> QED BY <3>1, <3>2, <3>3, Zenon
    <2> QED BY <2>1, <2>6, <2>7
<1>7. Holds(n)
    <2> HIDE DEF S
    <2>1. \A k \in 0..n : k \in S
        BY <1>1, <1>5, <1>6, Upward
    <2>2. n \in S
        BY <1>1, <2>1
    <2> QED BY <2>2 DEF S
<1>8. Left(n) = {t \in ToSet(base) : \A d \in ToSet(added) : t.name # d.name}
    BY <1>1
<1> QED BY <1>1, <1>2, <1>7, <1>8 DEF New

(* What is left when names are withdrawn.                                    *)
LEMMA WithdrawFacts ==
    ASSUME NEW D, NEW tools \in Seq(D), OneEach(tools), NEW names
    PROVE  /\ Withdraw(tools, names) \in Seq(D) /\ OneEach(Withdraw(tools, names))
           /\ ToSet(Withdraw(tools, names)) = {t \in ToSet(tools) : t.name \notin ToSet(names)}
<1> DEFINE wanted == {t \in ToSet(tools) : t.name \notin ToSet(names)}
<1>1. Withdraw(tools, names) = Only(tools, wanted)
    BY DEF Withdraw
<1>2. ToSet(tools) \cap wanted = wanted
    OBVIOUS
<1> HIDE DEF wanted
<1>3. /\ Only(tools, wanted) \in Seq(D) /\ OneEach(Only(tools, wanted))
      /\ ToSet(Only(tools, wanted)) = wanted
    BY <1>2, OnlyFacts
<1> QED BY <1>1, <1>3 DEF wanted

(* A change leaves each tool named once, whatever names it repeats.          *)
LEMMA ApplyType ==
    ASSUME NEW D, NEW R, NEW tools \in Seq(D), OneEach(tools), NEW change \in Changes(D, R)
    PROVE  ApplyTo(tools, change) \in Seq(D) /\ OneEach(ApplyTo(tools, change))
<1>1. change.added \in Seq(D)
    BY DEF Changes
<1>2. Withdraw(tools, change.removed) \in Seq(D) /\ OneEach(Withdraw(tools, change.removed))
    BY WithdrawFacts
<1> QED BY <1>1, <1>2, PutsFacts DEF ApplyTo

(* Applying changes, one at a time.                                          *)
LEMMA ApplyFold ==
    ASSUME NEW D, NEW R, NEW base \in Offers(D), NEW seq \in Seq(Changes(D, R))
    PROVE  \E g : ApplyChain(g, base, seq) /\ ApplyAll(base, seq) = g[Len(seq)]
<1> DEFINE n == Len(seq)
           IsIter(f) == f = [s \in SUBSET DOMAIN seq |->
                                IF s = {} THEN base ELSE ApplyTo(f[s \ {Max(s)}], seq[Max(s)])]
           iter == CHOOSE f : IsIter(f)
           step == [i \in 1..n |-> [t \in Offers(D) |-> ApplyTo(t, seq[i])]]
           g    == [k \in 0..n |-> iter[1..k]]
<1>1. n \in Nat /\ DOMAIN seq = 1..n /\ \A i \in 1..n : seq[i] \in Changes(D, R)
    OBVIOUS
<1>2. ApplyAll(base, seq) = iter[DOMAIN seq]
    BY Zenon DEF ApplyAll, FoldLeft, MapThenFoldSet
<1> HIDE DEF n
<1>3. step \in [1..n -> [Offers(D) -> Offers(D)]]
    BY <1>1, ApplyType DEF Offers
<1>4. \E f : IsIter(f)
    <2>0. PICK f : IsFold(f, Offers(D), base, n, step)
        <3>1. n \in Nat
            BY <1>1
        <3> HIDE DEF step
        <3> QED BY <1>3, <3>1, FoldExists
    <2>1. /\ f \in [SUBSET (1..n) -> Offers(D)]
          /\ \A s \in SUBSET (1..n) :
                f[s] = IF s = {} THEN base ELSE step[Max(s)][f[s \ {Max(s)}]]
        <3> HIDE DEF step
        <3> QED BY <2>0 DEF IsFold
    <2>2. ASSUME NEW s \in SUBSET (1..n)
          PROVE  f[s] = IF s = {} THEN base ELSE ApplyTo(f[s \ {Max(s)}], seq[Max(s)])
        <3>1. CASE s = {}
            BY <2>1, <3>1
        <3>2. CASE s # {}
            <4>1. Max(s) \in 1..n
                BY <1>1, <3>2, MaxIn
            <4>2. f[s \ {Max(s)}] \in Offers(D)
                BY <2>1
            <4>3. f[s] = step[Max(s)][f[s \ {Max(s)}]]
                BY <2>1, <3>2
            <4> QED BY <3>2, <4>1, <4>2, <4>3
        <3> QED BY <3>1, <3>2
    <2>3. f = [s \in SUBSET (1..n) |-> f[s]]
        BY <2>1
    <2>4. f = [s \in SUBSET (1..n) |->
                  IF s = {} THEN base ELSE ApplyTo(f[s \ {Max(s)}], seq[Max(s)])]
        BY <2>2, <2>3
    <2> QED BY <1>1, <2>4
<1>5. IsIter(iter)
    BY <1>4, Zenon
<1> HIDE DEF iter
<1>6. \A s \in SUBSET (1..n) :
          iter[s] = IF s = {} THEN base ELSE ApplyTo(iter[s \ {Max(s)}], seq[Max(s)])
    BY <1>1, <1>5
<1>7. g[0] = base
    <2>1. 1..0 = {} /\ 0 \in 0..n
        BY <1>1
    <2>2. g[0] = iter[{}]
        BY <2>1
    <2>3. iter[{}] = base
        <3>1. {} \in SUBSET (1..n)
            OBVIOUS
        <3> HIDE DEF g
        <3> QED BY <1>6, <3>1, Zenon
    <2> QED BY <2>2, <2>3
<1>8. ASSUME NEW k \in 1..n PROVE g[k] = ApplyTo(g[k - 1], seq[k])
    <2>1. Max(1..k) = k /\ (1..k) \ {k} = 1..(k - 1)
        BY <1>1, MaxUpTo
    <2>2. g[k] = iter[1..k] /\ g[k - 1] = iter[1..(k - 1)]
        BY <1>1
    <2>3. 1..k \in SUBSET (1..n) /\ 1..k # {}
        <3>1. k \in 1..k /\ \A j \in 1..k : j \in 1..n
            BY <1>1
        <3> QED BY <3>1
    <2> QED BY <1>6, <2>1, <2>2, <2>3
<1>9. g[n] = iter[1..n]
    BY <1>1
<1> HIDE DEF g
<1>10. ApplyChain(g, base, seq)
    BY <1>7, <1>8 DEF ApplyChain, n
<1> QED BY <1>1, <1>2, <1>9, <1>10 DEF n

(* Whatever the changes, the context offers tools, each named once.          *)
LEMMA ApplyTypes ==
    ASSUME NEW D, NEW R, NEW base \in Offers(D), NEW changes \in Seq(Changes(D, R)),
           NEW g, ApplyChain(g, base, changes)
    PROVE  \A k \in 0..Len(changes) : g[k] \in Seq(D) /\ OneEach(g[k])
<1> DEFINE n == Len(changes)
           S == {k \in 0..n : g[k] \in Offers(D)}
<1>1. n \in Nat /\ \A i \in 1..n : changes[i] \in Changes(D, R)
    OBVIOUS
<1>2. g[0] = base /\ \A k \in 1..n : g[k] = ApplyTo(g[k - 1], changes[k])
    BY DEF ApplyChain
<1> HIDE DEF n
<1>4. 0 \in S
    BY <1>1, <1>2
<1>5. ASSUME NEW k \in 1..n, k - 1 \in S PROVE k \in S
    <2>1. g[k - 1] \in Offers(D) /\ k \in 0..n
        BY <1>1, <1>5
    <2>2. g[k] \in Offers(D)
        BY <1>1, <1>2, <2>1, ApplyType, ZenonT(30) DEF Offers
    <2> QED BY <2>1, <2>2
<1>6. \A k \in 0..n : k \in S
    <2> HIDE DEF S
    <2> QED BY <1>1, <1>4, <1>5, Upward
<1> QED BY <1>6 DEF n, Offers

(* One change more is applied to what was offered.                           *)
LEMMA ApplyAppend ==
    ASSUME NEW D, NEW R, NEW base \in Offers(D), NEW changes \in Seq(Changes(D, R)),
           NEW change \in Changes(D, R)
    PROVE  ApplyAll(base, changes \o <<change>>) = ApplyTo(ApplyAll(base, changes), change)
<1> DEFINE n      == Len(changes)
           longer == changes \o <<change>>
<1>1. /\ n \in Nat /\ longer \in Seq(Changes(D, R)) /\ Len(longer) = n + 1
      /\ longer[n + 1] = change /\ \A i \in 1..n : longer[i] = changes[i]
    OBVIOUS
<1>2. PICK g : ApplyChain(g, base, changes) /\ ApplyAll(base, changes) = g[n]
    BY ApplyFold
<1> HIDE DEF longer
<1>3. PICK h : ApplyChain(h, base, longer) /\ ApplyAll(base, longer) = h[n + 1]
    BY <1>1, ApplyFold
<1> HIDE DEF n
<1> DEFINE S == {k \in 0..n : h[k] = g[k]}
<1>4. 0 \in S
    BY <1>1, <1>2, <1>3 DEF ApplyChain
<1>5. ASSUME NEW k \in 1..n, k - 1 \in S PROVE k \in S
    <2>1. h[k - 1] = g[k - 1] /\ k \in 0..n /\ k \in 1..(n + 1)
        BY <1>1, <1>5
    <2>2. g[k] = ApplyTo(g[k - 1], changes[k])
        BY <1>2 DEF ApplyChain, n
    <2>3. h[k] = ApplyTo(h[k - 1], longer[k])
        BY <1>1, <1>3, <2>1 DEF ApplyChain
    <2> QED BY <1>1, <2>1, <2>2, <2>3
<1>6. h[n] = g[n]
    <2> HIDE DEF S
    <2>1. \A k \in 0..n : k \in S
        BY <1>1, <1>4, <1>5, Upward
    <2>2. n \in S
        BY <1>1, <2>1
    <2> QED BY <2>2 DEF S
<1>7. h[n + 1] = ApplyTo(h[n], change)
    <2>1. n + 1 \in 1..(n + 1) /\ (n + 1) - 1 = n
        BY <1>1
    <2>2. h[n + 1] = ApplyTo(h[(n + 1) - 1], longer[n + 1])
        BY <1>1, <1>3, <2>1 DEF ApplyChain
    <2> QED BY <1>1, <2>1, <2>2
<1> QED BY <1>2, <1>3, <1>6, <1>7 DEF longer

(* No change leaves the tools as they are; whatever the changes, there are   *)
(* tools, each named once.                                                   *)
LEMMA ApplyFacts ==
    ASSUME NEW D, NEW R, NEW base \in Offers(D), NEW changes \in Seq(Changes(D, R))
    PROVE  ApplyAll(base, changes) \in Offers(D) /\ ApplyAll(base, <<>>) = base
<1>1. ApplyAll(base, <<>>) = base
    <2>1. <<>> \in Seq(Changes(D, R)) /\ Len(<<>>) = 0
        OBVIOUS
    <2>2. PICK g : ApplyChain(g, base, <<>>) /\ ApplyAll(base, <<>>) = g[0]
        BY <2>1, ApplyFold, ZenonT(30)
    <2> QED BY <2>2 DEF ApplyChain
<1>2. PICK g : ApplyChain(g, base, changes) /\ ApplyAll(base, changes) = g[Len(changes)]
    BY ApplyFold
<1>3. Len(changes) \in 0..Len(changes)
    OBVIOUS
<1>4. \A k \in 0..Len(changes) : g[k] \in Seq(D) /\ OneEach(g[k])
    BY <1>2, ApplyTypes
<1> QED BY <1>1, <1>2, <1>3, <1>4 DEF Offers

(* A tool is found among tools named once each if it is one of them.         *)
LEMMA FindsMembers ==
    ASSUME NEW D, NEW tools \in Seq(D), OneEach(tools), NEW d
    PROVE  Finds(tools, d) <=> d \in ToSet(tools)
<1>1. DOMAIN tools = 1..Len(tools) /\ Len(tools) \in Nat
    OBVIOUS
<1>2. ASSUME Finds(tools, d) PROVE d \in ToSet(tools)
    BY <1>1, <1>2 DEF Finds, ToSet
<1>3. ASSUME d \in ToSet(tools) PROVE Finds(tools, d)
    <2>1. PICK i \in 1..Len(tools) : tools[i] = d
        BY <1>1, <1>3 DEF ToSet
    <2>2. \A j \in 1..i - 1 : tools[j].name # d.name
        BY <1>1, <2>1 DEF OneEach
    <2> QED BY <2>1, <2>2 DEF Finds
<1> QED BY <1>2, <1>3

(* The difference of two surfaces turns the first into the second.           *)
LEMMA BetweenFacts ==
    ASSUME NEW D, NEW R, NEW previous \in Seq(D), OneEach(previous), NEW current \in Seq(D), OneEach(current),
           \A d \in D : d.name \in R
    PROVE  LET change == Between(previous, current)
           IN  /\ change \in Changes(D, R)
               /\ IsEmpty(change) => ToSet(previous) = ToSet(current)
               /\ ToSet(ApplyTo(previous, change)) = ToSet(current)
<1> DEFINE P == ToSet(previous)
           C == ToSet(current)
           newly == Only(current, {d \in C : ~Finds(previous, d)})
           gone  == Only(previous, {d \in P : ~Finds(current, d)})
           change == Between(previous, current)
<1>1. change = [added |-> newly, removed |-> Names(gone)]
    BY DEF Between
<1>2. newly \in Seq(D) /\ OneEach(newly) /\ ToSet(newly) = C \ P
    <2>1. {d \in C : ~Finds(previous, d)} = C \ P
        BY FindsMembers
    <2>2. newly = Only(current, C \ P)
        BY <2>1
    <2> HIDE DEF newly
    <2> QED BY <2>2, OnlyFacts
<1>3. gone \in Seq(D) /\ ToSet(gone) = P \ C
    <2>1. {d \in P : ~Finds(current, d)} = P \ C
        BY FindsMembers
    <2>2. gone = Only(previous, P \ C)
        BY <2>1
    <2> HIDE DEF gone
    <2> QED BY <2>2, OnlyFacts
<1> HIDE DEF newly, gone
<1>4. /\ Names(gone) \in Seq(R)
      /\ ToSet(Names(gone)) = {t.name : t \in P \ C}
      /\ Names(gone) = <<>> => P \ C = {}
    <2>1. /\ Len(gone) \in Nat /\ DOMAIN gone = 1..Len(gone)
          /\ \A i \in 1..Len(gone) : gone[i] \in D
          /\ P \ C = {gone[i] : i \in 1..Len(gone)}
        <3>1. /\ Len(gone) \in Nat /\ DOMAIN gone = 1..Len(gone)
              /\ \A i \in 1..Len(gone) : gone[i] \in D
            BY <1>3
        <3>2. ToSet(gone) = {gone[i] : i \in 1..Len(gone)}
            BY <3>1 DEF ToSet
        <3> HIDE DEF P, C
        <3> QED BY <1>3, <3>1, <3>2
    <2>2. Names(gone) = [i \in 1..Len(gone) |-> gone[i].name]
        BY DEF Names
    <2>3. \A i \in 1..Len(gone) : gone[i].name \in R
        BY <2>1
    <2>4. Names(gone) \in Seq(R) /\ Len(Names(gone)) = Len(gone) /\ DOMAIN Names(gone) = 1..Len(gone)
        BY <2>1, <2>2, <2>3
    <2>5. ToSet(Names(gone)) = {gone[i].name : i \in 1..Len(gone)}
        BY <2>2, <2>4 DEF ToSet
    <2>6. {gone[i].name : i \in 1..Len(gone)} = {t.name : t \in P \ C}
        BY <2>1
    <2>7. Names(gone) = <<>> => P \ C = {}
        BY <2>1, <2>4
    <2> QED BY <2>4, <2>5, <2>6, <2>7
<1>5. /\ change \in Changes(D, R) /\ change.added = newly /\ change.removed = Names(gone)
    BY <1>1, <1>2, <1>4 DEF Changes
<1> DEFINE left == Withdraw(previous, Names(gone))
<1>6. left \in Seq(D) /\ OneEach(left) /\ ToSet(left) = P \cap C
    <2>1. /\ left \in Seq(D) /\ OneEach(left)
          /\ ToSet(left) = {t \in P : t.name \notin ToSet(Names(gone))}
        BY WithdrawFacts
    <2>2. \A x, y \in P : x.name = y.name => x = y
        BY OneEachMembers
    <2>3. {t \in P : t.name \notin {u.name : u \in P \ C}} = P \cap C
        <3> HIDE DEF P, C
        <3> QED BY <2>2
    <2> QED BY <1>4, <2>1, <2>3
<1>7. ApplyTo(previous, change) = FoldLeft(Put, left, newly)
    BY <1>5 DEF ApplyTo
<1> HIDE DEF left, change
<1>8. \A t \in ToSet(left), d \in ToSet(newly) : t.name # d.name
    <2>1. \A x, y \in C : x.name = y.name => x = y
        BY OneEachMembers
    <2> HIDE DEF P, C
    <2> QED BY <1>2, <1>6, <2>1
<1>9. ToSet(ApplyTo(previous, change)) = (P \cap C) \cup (C \ P)
    <2>1. ToSet(FoldLeft(Put, left, newly)) =
              {t \in ToSet(left) : \A d \in ToSet(newly) : t.name # d.name} \cup ToSet(newly)
        BY <1>2, <1>6, PutsFacts
    <2>2. {t \in ToSet(left) : \A d \in ToSet(newly) : t.name # d.name} = ToSet(left)
        BY <1>8
    <2> QED BY <1>2, <1>6, <1>7, <2>1, <2>2
<1>10. IsEmpty(change) => P = C
    <2>1. ToSet(<<>>) = {}
        BY DEF ToSet
    <2>2. IsEmpty(change) => newly = <<>> /\ Names(gone) = <<>>
        BY <1>5 DEF IsEmpty
    <2> HIDE DEF P, C
    <2> QED BY <1>2, <1>4, <2>1, <2>2
<1> HIDE DEF P, C
<1>11. (P \cap C) \cup (C \ P) = C
    OBVIOUS
<1> QED BY <1>5, <1>9, <1>10, <1>11 DEF P, C, change

-----------------------------------------------------------------------------
(* The tools of a context of ToolChange, with a host's changes among them.   *)
RecordedChanges == Changes(ToolDefinition, Name)

(* They are definitions, each name once; one change more is applied last.    *)
LEMMA CurrentFacts ==
    /\ CurrentTools(<<>>) = <<>>
    /\ \A changes \in Seq(RecordedChanges) :
          /\ CurrentTools(changes) \in Seq(ToolDefinition) /\ OneEach(CurrentTools(changes))
          /\ \A change \in RecordedChanges :
                CurrentTools(Append(changes, change)) = ApplyTo(CurrentTools(changes), change)
<1>1. <<>> \in Offers(ToolDefinition)
    BY DEF Offers, OneEach
<1>2. CurrentTools(<<>>) = <<>>
    <2>1. <<>> \in Seq(Changes(ToolDefinition, Name))
        OBVIOUS
    <2>2. ApplyAll(<<>>, <<>>) = <<>>
        BY <1>1, <2>1, ApplyFacts
    <2> QED BY <2>2 DEF CurrentTools
<1>3. ASSUME NEW changes \in Seq(RecordedChanges)
      PROVE  CurrentTools(changes) \in Seq(ToolDefinition) /\ OneEach(CurrentTools(changes))
    <2>1. ApplyAll(<<>>, changes) \in Offers(ToolDefinition)
        BY <1>1, <1>3, ApplyFacts DEF RecordedChanges
    <2> QED BY <2>1 DEF CurrentTools, Offers
<1>4. ASSUME NEW changes \in Seq(RecordedChanges), NEW change \in RecordedChanges
      PROVE  CurrentTools(Append(changes, change)) = ApplyTo(CurrentTools(changes), change)
    <2>1. Append(changes, change) = changes \o <<change>>
        BY <1>4
    <2>2. ApplyAll(<<>>, changes \o <<change>>) = ApplyTo(ApplyAll(<<>>, changes), change)
        BY <1>1, <1>4, ApplyAppend DEF RecordedChanges
    <2> QED BY <2>1, <2>2, Zenon DEF CurrentTools
<1> QED BY <1>2, <1>3, <1>4

(* A surface recorded is the difference applied.                             *)
LEMMA DifferenceFacts ==
    ASSUME NEW offered \in Seq(ToolDefinition), OneEach(offered),
           NEW surface \in Seq(ToolDefinition), OneEach(surface)
    PROVE  LET change == Between(offered, surface)
           IN  /\ change \in RecordedChanges
               /\ IsEmpty(change) => ToSet(offered) = ToSet(surface)
               /\ ToSet(ApplyTo(offered, change)) = ToSet(surface)
<1>1. \A d \in ToolDefinition : d.name \in Name
    BY DEF ToolDefinition
<1> QED BY <1>1, BetweenFacts DEF RecordedChanges

(* The tool changes of a context are changes, what is bound are tools.       *)
ToolsType ==
    /\ recorded \in Seq(RecordedChanges)
    /\ lastBound = Unrecorded \/ (lastBound \in Seq(ToolDefinition) /\ OneEach(lastBound))

ToolsInv == ToolsType /\ OfferedIsBound

(* An empty context offers nothing, and nothing is bound.                    *)
LEMMA ToolsInitInv == ToolsInit => ToolsInv
<1> SUFFICES ASSUME ToolsInit PROVE ToolsInv
    OBVIOUS
<1>1. recorded = <<>> /\ lastBound = <<>>
    BY DEF ToolsInit
<1>2. <<>> \in Seq(RecordedChanges) /\ <<>> \in Seq(ToolDefinition) /\ OneEach(<<>>)
    BY DEF OneEach
<1>3. CurrentTools(<<>>) = <<>>
    BY CurrentFacts
<1> QED BY <1>1, <1>2, <1>3 DEF ToolsInv, ToolsType, OfferedIsBound

(* What a round binds is tools, each named once.                             *)
LEMMA SurfaceType == \A surface \in BoundSurfaces : surface \in Seq(ToolDefinition) /\ OneEach(surface)
<1> SUFFICES ASSUME NEW surface \in BoundSurfaces PROVE surface \in Seq(ToolDefinition) /\ OneEach(surface)
    OBVIOUS
<1>1. Cardinality(Name) \in Nat
    BY NameAssumption, FS_CardinalityType
<1>2. PICK n \in 0..Cardinality(Name) : surface \in [1..n -> ToolDefinition]
    BY DEF BoundSurfaces
<1>3. n \in Nat
    BY <1>1
<1> QED BY <1>2, <1>3 DEF BoundSurfaces

(* Recording what was bound makes the context offer it.                      *)
LEMMA RecordInv == ASSUME ToolsInv, NEW surface \in BoundSurfaces, RecordSurface(surface) PROVE ToolsInv'
<1> DEFINE offered == CurrentTools(recorded)
           change  == Between(offered, surface)
<1>1. surface \in Seq(ToolDefinition) /\ OneEach(surface)
    BY SurfaceType
<1>2. recorded \in Seq(RecordedChanges) /\ offered \in Seq(ToolDefinition) /\ OneEach(offered)
    BY CurrentFacts DEF ToolsInv, ToolsType
<1>3. /\ recorded' = IF IsEmpty(change) THEN recorded ELSE Append(recorded, change)
      /\ lastBound' = surface
    BY DEF RecordSurface
<1> HIDE DEF offered
<1>4. /\ change \in RecordedChanges
      /\ IsEmpty(change) => ToSet(offered) = ToSet(surface)
      /\ ToSet(ApplyTo(offered, change)) = ToSet(surface)
    BY <1>1, <1>2, DifferenceFacts
<1> HIDE DEF change
<1>5. recorded' \in Seq(RecordedChanges)
    BY <1>2, <1>3, <1>4
<1>6. ToSet(CurrentTools(recorded')) = ToSet(surface)
    <2>1. CASE IsEmpty(change)
        BY <1>3, <1>4, <2>1 DEF offered
    <2>2. CASE ~IsEmpty(change)
        <3>1. CurrentTools(recorded') = ApplyTo(offered, change)
            BY <1>2, <1>3, <1>4, <2>2, CurrentFacts DEF offered
        <3> QED BY <1>4, <3>1
    <2> QED BY <2>1, <2>2
<1>7. OneEach(CurrentTools(recorded'))
    BY <1>5, CurrentFacts
<1> QED BY <1>1, <1>3, <1>5, <1>6, <1>7 DEF ToolsInv, ToolsType, OfferedIsBound

(* The host's edits leave changes, and nothing bound since.                  *)
LEMMA HostInv ==
    ASSUME ToolsInv,
           (\E change \in HostChanges : HostAppends(change)) \/ (\E i \in 1..Len(recorded) : HostDrops(i))
    PROVE  ToolsInv'
<1>1. lastBound' = Unrecorded
    BY DEF HostAppends, HostDrops
<1>2. recorded \in Seq(RecordedChanges)
    BY DEF ToolsInv, ToolsType
<1>3. recorded' \in Seq(RecordedChanges)
    <2>1. CASE \E change \in HostChanges : HostAppends(change)
        <3>1. PICK change \in HostChanges : recorded' = Append(recorded, change)
            BY <2>1 DEF HostAppends
        <3>2. PICK n \in 0..2, m \in 0..1 :
                 change.added \in [1..n -> ToolDefinition] /\ change.removed \in [1..m -> Name]
            BY DEF HostChanges
        <3>3. change.added \in Seq(ToolDefinition) /\ change.removed \in Seq(Name)
            BY <3>2
        <3>4. change = [added |-> change.added, removed |-> change.removed]
            BY DEF HostChanges
        <3>5. change \in RecordedChanges
            BY <3>3, <3>4 DEF RecordedChanges, Changes
        <3> QED BY <1>2, <3>1, <3>5
    <2>2. CASE \E i \in 1..Len(recorded) : HostDrops(i)
        <3>1. PICK i \in 1..Len(recorded) : recorded' = RemoveAt(recorded, i)
            BY <2>2 DEF HostDrops
        <3>2. RemoveAt(recorded, i) = SubSeq(recorded, 1, i - 1) \o SubSeq(recorded, i + 1, Len(recorded))
            BY DEF RemoveAt
        <3> QED BY <1>2, <3>1, <3>2
    <2> QED BY <2>1, <2>2
<1>4. OneEach(CurrentTools(recorded'))
    BY <1>3, CurrentFacts
<1> QED BY <1>1, <1>3, <1>4 DEF ToolsInv, ToolsType, OfferedIsBound

(* Every step keeps the invariant.                                           *)
LEMMA ToolsNextInv == ToolsInv /\ [ToolsNext]_toolVars => ToolsInv'
<1> SUFFICES ASSUME ToolsInv, [ToolsNext]_toolVars PROVE ToolsInv'
    OBVIOUS
<1>1. CASE \E surface \in BoundSurfaces : RecordSurface(surface)
    BY <1>1, RecordInv
<1>2. CASE (\E change \in HostChanges : HostAppends(change)) \/ (\E i \in 1..Len(recorded) : HostDrops(i))
    BY <1>2, HostInv
<1>3. CASE UNCHANGED toolVars
    BY <1>3 DEF toolVars, ToolsInv, ToolsType, OfferedIsBound
<1> QED BY <1>1, <1>2, <1>3 DEF ToolsNext

(* The context offers what the round bound, each name once, whatever the     *)
(* host made of the changes before (Context::current_tools,                  *)
(* ToolChange::between).                                                     *)
THEOREM ContextOffersBound == ToolsSpec => []OfferedIsBound
<1>1. ToolsInv => OfferedIsBound
    BY DEF ToolsInv
<1>2. ToolsSpec => []ToolsInv
    BY ToolsInitInv, ToolsNextInv, PTL DEF ToolsSpec
<1> QED BY <1>1, <1>2, PTL

-----------------------------------------------------------------------------
(* What a context holds.                                                     *)

(* The definitions rounds may bind, their names and their changes.           *)
Definitions == UNION {ToSet(surface) : surface \in Surfaces}
ToolNames   == {definition.name : definition \in Definitions}
ToolChanges == Changes(Definitions, ToolNames)

(* Fields kept of an answer in the format that has items for tools.          *)
FieldsKept(wire) ==
    wire # <<>> /\ wire[1].format = ResponsesName => IsOutputItem(wire[1].fields)

(* A message: parts, and fields kept with it.                               *)
IsMessage(block) ==
    /\ {"role", "parts", "wire"} \subseteq DOMAIN block
    /\ block.role \in {"user", "system", "assistant"} /\ IsSequence(block.parts)
    /\ \A p \in 1..Len(block.parts) : IsPart(block.parts[p])
    /\ FieldsKept(block.wire)

(* A block; a change gives each of its tools once.                          *)
IsBlock(block) ==
    /\ "kind" \in DOMAIN block /\ block.kind \in {"message", "call", "result", "change"}
    /\ block.kind = "message" => IsMessage(block)
    /\ block.kind = "call" => "wire" \in DOMAIN block /\ FieldsKept(block.wire)
    /\ block.kind = "change" => /\ block.added \in Seq(Definitions) /\ OneEach(block.added)
                                /\ block.removed \in Seq(ToolNames)

(* A context.                                                               *)
IsContext(bs) == IsSequence(bs) /\ \A i \in 1..Len(bs) : IsBlock(bs[i])

(* What a segment may be.                                                    *)
WireSent(wire, protocol) == wire # <<>> /\ protocol = ResponsesName => IsOutputItem(wire[1])

(* A segment of a request in a format.                                      *)
IsSegment(s, protocol) ==
    /\ s.seg \in {"text", "media", "sealed", "call", "result", "change"}
    /\ s.seg = "text" => s.role \in {"user", "system", "assistant"} /\ WireSent(s.wire, protocol)
    /\ s.seg = "media" => /\ s.role \in {"user", "system", "assistant"}
                          /\ s.role # "user" => s.media.media = "placeholder"
    /\ s.seg = "sealed" /\ protocol = ResponsesName => IsOutputItem(s.item)
    /\ s.seg = "call" => WireSent(s.wire, protocol)
    /\ s.seg = "change" => /\ s.added \in Seq(Definitions) /\ OneEach(s.added)
                           /\ s.removed \in Seq(ToolNames)

(* A segment's change, if it is one.                                         *)
PlacedAt(s) == IF s.seg = "change" THEN <<[added |-> s.added, removed |-> s.removed]>> ELSE <<>>

(* The changes among segments.                                              *)
Placed(segments) == FlattenSeq([i \in 1..Len(segments) |-> PlacedAt(segments[i])])

(* Flattened pieces of a kind are a sequence of it.                          *)
LEMMA FlatType ==
    ASSUME NEW V, NEW n \in Nat, NEW F \in [1..n -> Seq(V)]
    PROVE  FlattenSeq(F) \in Seq(V)
<1>1. [l \in 1..n |-> F[l]] = F /\ n \in 0..n
    OBVIOUS
<1>2. Joined(F, n) \in Seq(V)
    BY <1>1, JoinedChain
<1> QED BY <1>1, <1>2 DEF Joined

(* Flattened sequences are a sequence, of their elements.                    *)
LEMMA FlatElements ==
    ASSUME NEW n \in Nat, NEW F, F = [i \in 1..n |-> F[i]], \A i \in 1..n : IsSequence(F[i])
    PROVE  FlattenSeq(F) \in Seq(UNION {ToSet(F[i]) : i \in 1..n})
<1> DEFINE V == UNION {ToSet(F[i]) : i \in 1..n}
<1>1. ASSUME NEW i \in 1..n PROVE F[i] \in Seq(V)
    <2> DEFINE s == F[i]
               S == ToSet(s)
    <2>1. s \in Seq(S) /\ S \subseteq V
        BY DEF IsSequence
    <2> HIDE DEF s, S, V
    <2>2. s \in Seq(V)
        BY <2>1
    <2> QED BY <2>2 DEF s
<1> HIDE DEF V
<1>2. F \in [1..n -> Seq(V)]
    BY <1>1
<1>3. FlattenSeq(F) \in Seq(V)
    BY <1>2, FlatType
<1> QED BY <1>3 DEF V

(* A sequence of a set's elements is one.                                    *)
LEMMA SequenceOf ==
    ASSUME NEW S, NEW s \in Seq(S)
    PROVE  IsSequence(s) /\ ToSet(s) \subseteq S
<1>1. DOMAIN s = 1..Len(s) /\ Len(s) \in Nat /\ \A i \in 1..Len(s) : s[i] \in S
    OBVIOUS
<1>2. ToSet(s) \subseteq S
    BY <1>1 DEF ToSet
<1>3. \A i \in 1..Len(s) : s[i] \in ToSet(s)
    BY <1>1 DEF ToSet
<1>4. s \in [1..Len(s) -> ToSet(s)]
    BY <1>1, <1>3
<1>5. s \in Seq(ToSet(s))
    BY <1>1, <1>4
<1> QED BY <1>2, <1>5 DEF IsSequence

(* A sequence's elements, by their places.                                   *)
LEMMA Elements ==
    ASSUME NEW s, IsSequence(s)
    PROVE  /\ Len(s) \in Nat /\ DOMAIN s = 1..Len(s)
           /\ ToSet(s) = {s[i] : i \in 1..Len(s)}
<1>1. s \in Seq(ToSet(s))
    BY DEF IsSequence
<1>2. Len(s) \in Nat /\ DOMAIN s = 1..Len(s)
    BY <1>1
<1> QED BY <1>2 DEF ToSet

(* One element, or none.                                                     *)
LEMMA Single ==
    /\ \A x : IsSequence(<<x>>) /\ Len(<<x>>) = 1 /\ <<x>>[1] = x /\ ToSet(<<x>>) = {x}
    /\ IsSequence(<<>>) /\ Len(<<>>) = 0 /\ ToSet(<<>>) = {}
<1>1. ASSUME NEW x PROVE IsSequence(<<x>>) /\ Len(<<x>>) = 1 /\ <<x>>[1] = x /\ ToSet(<<x>>) = {x}
    <2>1. <<x>> \in Seq({x}) /\ Len(<<x>>) = 1 /\ <<x>>[1] = x /\ DOMAIN <<x>> = {1}
        OBVIOUS
    <2>2. ToSet(<<x>>) = {x}
        BY <2>1 DEF ToSet
    <2> QED BY <2>1, <2>2 DEF IsSequence
<1>2. IsSequence(<<>>) /\ Len(<<>>) = 0 /\ ToSet(<<>>) = {}
    <2>1. ToSet(<<>>) = {}
        BY DEF ToSet
    <2> QED BY <2>1 DEF IsSequence
<1> QED BY <1>1, <1>2

(* One part of a message gives segments that are no change.                  *)
LEMMA PartSegments ==
    ASSUME NEW block, IsMessage(block), NEW index, NEW part, IsPart(part), NEW protocol
    PROVE  /\ IsSequence(PartSegment(block, index, part, protocol))
           /\ \A s \in ToSet(PartSegment(block, index, part, protocol)) :
                  IsSegment(s, protocol) /\ s.seg # "change"
<1> DEFINE Good(s) == IsSegment(s, protocol) /\ s.seg # "change"
<1>0. ASSUME NEW s, Good(s)
      PROVE  IsSequence(<<s>>) /\ \A x \in ToSet(<<s>>) : Good(x)
    <2> HIDE DEF Good
    <2>1. IsSequence(<<s>>) /\ ToSet(<<s>>) = {s}
        BY Single
    <2> QED BY <1>0, <2>1
<1>e. IsSequence(<<>>) /\ \A x \in ToSet(<<>>) : Good(x)
    <2> HIDE DEF Good
    <2>1. IsSequence(<<>>) /\ ToSet(<<>>) = {}
        BY Single
    <2> QED BY <2>1
<1>1. CASE part.part = "text"
    <2> DEFINE wire == IF block.role = "assistant" THEN OwnWire(block, protocol) ELSE <<>>
               s == [seg |-> "text", role |-> block.role, text |-> part.text, block |-> index,
                     parts |-> Len(block.parts), wire |-> wire]
    <2>1. PartSegment(block, index, part, protocol) = IF part.text = <<>> THEN <<>> ELSE <<s>>
        BY <1>1 DEF PartSegment
    <2>2. WireSent(wire, protocol)
        BY DEF WireSent, OwnWire, IsMessage, FieldsKept
    <2>3. s.seg = "text" /\ s.role = block.role /\ s.wire = wire
        OBVIOUS
    <2> HIDE DEF s, wire
    <2>4. Good(s)
        BY <2>2, <2>3 DEF IsSegment, IsMessage
    <2> HIDE DEF Good
    <2>5. IsSequence(<<s>>) /\ \A x \in ToSet(<<s>>) : Good(x)
        BY <1>0, <2>4
    <2>6. CASE part.text = <<>>
        BY <1>e, <2>1, <2>6 DEF Good
    <2>7. CASE part.text # <<>>
        BY <2>1, <2>5, <2>7 DEF Good
    <2> QED BY <2>6, <2>7
<1>2. CASE part.part = "media"
    <2> DEFINE media == ResolveMedia(part.ref, block.role, protocol)
               s == [seg |-> "media", role |-> block.role, block |-> index, media |-> media]
    <2>1. PartSegment(block, index, part, protocol) = <<s>>
        BY <1>2 DEF PartSegment
    <2>2. block.role # "user" => media.media = "placeholder"
        BY DEF ResolveMedia
    <2>3. s.seg = "media" /\ s.role = block.role /\ s.media = media
        OBVIOUS
    <2> HIDE DEF s, media
    <2>4. Good(s)
        BY <2>2, <2>3 DEF IsSegment, IsMessage
    <2> HIDE DEF Good
    <2>5. IsSequence(<<s>>) /\ \A x \in ToSet(<<s>>) : Good(x)
        BY <1>0, <2>4
    <2> QED BY <2>1, <2>5 DEF Good
<1>3. CASE part.part = "sealed"
    <2> DEFINE s == [seg |-> "sealed", role |-> "assistant", item |-> part.item]
    <2>1. PartSegment(block, index, part, protocol) =
              IF block.role = "assistant" /\ part.format = protocol THEN <<s>> ELSE <<>>
        BY <1>3 DEF PartSegment
    <2>2. CASE block.role = "assistant" /\ part.format = protocol
        <3>1. s.seg = "sealed" /\ s.role = "assistant" /\ s.item = part.item
            OBVIOUS
        <3> HIDE DEF s
        <3>2. Good(s)
            BY <1>3, <2>2, <3>1 DEF IsSegment, IsPart
        <3> HIDE DEF Good
        <3>3. IsSequence(<<s>>) /\ \A x \in ToSet(<<s>>) : Good(x)
            BY <1>0, <3>2
        <3> QED BY <2>1, <2>2, <3>3 DEF Good
    <2>3. CASE ~(block.role = "assistant" /\ part.format = protocol)
        <3> HIDE DEF Good
        <3> QED BY <1>e, <2>1, <2>3 DEF Good
    <2> QED BY <2>2, <2>3
<1> QED BY <1>1, <1>2, <1>3 DEF IsPart

(* What segments give as a whole is what they place.                         *)
PlacedBy(S) == [s \in S |-> PlacedAt(s)]

(* Each segment places its own.                                             *)
LEMMA PlacedSpread ==
    ASSUME NEW S, NEW protocol, \A s \in S : IsSegment(s, protocol)
    PROVE  /\ PlacedBy(S) \in [S -> Seq(ToolChanges)]
           /\ \A u \in Seq(S) : Placed(u) = Spread(PlacedBy(S), u)
<1>1. ASSUME NEW s \in S PROVE PlacedAt(s) \in Seq(ToolChanges)
    <2>1. CASE s.seg = "change"
        <3>1. s.added \in Seq(Definitions) /\ s.removed \in Seq(ToolNames)
            BY <2>1 DEF IsSegment
        <3>2. [added |-> s.added, removed |-> s.removed] \in ToolChanges
            BY <3>1 DEF ToolChanges, Changes
        <3> QED BY <2>1, <3>2 DEF PlacedAt
    <2>2. CASE s.seg # "change"
        BY <2>2 DEF PlacedAt
    <2> QED BY <2>1, <2>2
<1>2. PlacedBy(S) \in [S -> Seq(ToolChanges)]
    BY <1>1 DEF PlacedBy
<1>3. ASSUME NEW u \in Seq(S) PROVE Placed(u) = Spread(PlacedBy(S), u)
    <2>1. \A i \in 1..Len(u) : u[i] \in S
        OBVIOUS
    <2>2. [i \in 1..Len(u) |-> PlacedAt(u[i])] = [i \in 1..Len(u) |-> PlacedBy(S)[u[i]]]
        BY <2>1 DEF PlacedBy
    <2> QED BY <2>2 DEF Placed, Spread
<1> QED BY <1>2, <1>3

(* Segments without a change place nothing.                                  *)
LEMMA NothingPlaced ==
    ASSUME NEW u, IsSequence(u), \A s \in ToSet(u) : s.seg # "change"
    PROVE  Placed(u) = <<>>
<1> DEFINE n == Len(u)
           F == [i \in 1..n |-> PlacedAt(u[i])]
<1>1. n \in Nat /\ \A i \in 1..n : u[i] \in ToSet(u)
    BY Elements
<1>2. \A i \in 1..n : PlacedAt(u[i]) = <<>>
    BY <1>1 DEF PlacedAt
<1>3. F \in [1..n -> Seq({})]
    <2>1. <<>> \in Seq({})
        OBVIOUS
    <2>2. \A i \in 1..n : PlacedAt(u[i]) \in Seq({})
        BY <1>2, <2>1
    <2> QED BY <2>2
<1>4. [l \in 1..n |-> F[l]] = F
    OBVIOUS
<1> HIDE DEF F, n
<1>5. Joined(F, n) \in Seq({}) /\ Joined(F, n) = FlattenSeq(F)
    <2>1. n \in 0..n
        BY <1>1
    <2>2. Joined(F, n) \in Seq({})
        BY <1>1, <1>3, <2>1, JoinedChain
    <2> QED BY <1>4, <2>2 DEF Joined
<1>6. FlattenSeq(F) = <<>>
    <2>1. FlattenSeq(F) \in Seq({})
        BY <1>5
    <2> DEFINE f == FlattenSeq(F)
    <2> HIDE DEF f
    <2>2. f \in Seq({})
        BY <2>1 DEF f
    <2>3. Len(f) = 0
        <3>1. Len(f) \in Nat /\ \A i \in 1..Len(f) : f[i] \in {}
            BY <2>2
        <3>2. 1 \notin 1..Len(f)
            BY <3>1
        <3> QED BY <3>1, <3>2
    <2>4. f = <<>>
        BY <2>2, <2>3
    <2> QED BY <2>4 DEF f
<1> QED BY <1>6 DEF Placed, F, n

(* A change has a place where changes go in place and it is not the first.   *)
Later(bs, i) == \E j \in 1..i - 1 : IsChange(bs[j])

(* The change a block leaves in its place.                                  *)
PlacesChange(bs, i, inPlace) ==
    IF inPlace /\ Later(bs, i) THEN ChangeAt(bs[i]) ELSE <<>>

(* The segments of a block are segments, and place its change or nothing.    *)
AreSegments(u, protocol) == IsSequence(u) /\ \A s \in ToSet(u) : IsSegment(s, protocol)

(* The segments of a message are segments and place no change.              *)
LEMMA MessageSegments ==
    ASSUME NEW bs, IsContext(bs), NEW i \in 1..Len(bs), NEW protocol, NEW inPlace,
           bs[i].kind = "message"
    PROVE  /\ AreSegments(Segments(bs, i, protocol, inPlace), protocol)
           /\ Placed(Segments(bs, i, protocol, inPlace)) = <<>>
<1> DEFINE block == bs[i]
           n == Len(block.parts)
           F == [p \in 1..n |-> PartSegment(block, i, block.parts[p], protocol)]
           V == UNION {ToSet(F[p]) : p \in 1..n}
           u == FlattenSeq(F)
<1>1. IsMessage(block)
    BY DEF IsContext, IsBlock
<1>2. Segments(bs, i, protocol, inPlace) = u
    BY DEF Segments
<1> HIDE DEF block
<1>3. n \in Nat /\ \A p \in 1..n : IsPart(block.parts[p])
    <2>1. IsSequence(block.parts) /\ \A p \in 1..Len(block.parts) : IsPart(block.parts[p])
        BY <1>1 DEF IsMessage
    <2>2. Len(block.parts) \in Nat
        BY <2>1, Elements
    <2> QED BY <2>1, <2>2
<1>4. ASSUME NEW p \in 1..n
      PROVE  IsSequence(F[p]) /\ \A s \in ToSet(F[p]) : IsSegment(s, protocol) /\ s.seg # "change"
    <2> DEFINE part == block.parts[p]
    <2>1. IsPart(part) /\ F[p] = PartSegment(block, i, part, protocol)
        BY <1>3
    <2> HIDE DEF part, F
    <2> QED BY <1>1, <2>1, PartSegments
<1>5. F = [p \in 1..n |-> F[p]]
    OBVIOUS
<1> HIDE DEF F, n
<1>6. u \in Seq(V)
    BY <1>3, <1>4, <1>5, FlatElements
<1>7. \A s \in V : IsSegment(s, protocol) /\ s.seg # "change"
    BY <1>4
<1> HIDE DEF V, u
<1>8. IsSequence(u) /\ ToSet(u) \subseteq V
    BY <1>6, SequenceOf
<1>9. Placed(u) = <<>>
    <2>1. \A s \in ToSet(u) : s.seg # "change"
        BY <1>7, <1>8
    <2> QED BY <1>8, <2>1, NothingPlaced
<1> QED BY <1>2, <1>7, <1>8, <1>9 DEF AreSegments

(* Those of any block: its change, where it has a place.                    *)
LEMMA SegmentsFacts ==
    ASSUME NEW bs, IsContext(bs), NEW i \in 1..Len(bs), NEW protocol, NEW inPlace
    PROVE  /\ AreSegments(Segments(bs, i, protocol, inPlace), protocol)
           /\ Placed(Segments(bs, i, protocol, inPlace)) = PlacesChange(bs, i, inPlace)
<1> DEFINE block == bs[i]
           u == Segments(bs, i, protocol, inPlace)
<1>0. IsBlock(block)
    BY DEF IsContext
<1>s. ASSUME NEW s, IsSegment(s, protocol)
      PROVE  AreSegments(<<s>>, protocol) /\ (s.seg # "change" => Placed(<<s>>) = <<>>)
    <2>1. IsSequence(<<s>>) /\ ToSet(<<s>>) = {s}
        BY Single
    <2>2. ASSUME s.seg # "change" PROVE Placed(<<s>>) = <<>>
        BY <2>1, <2>2, NothingPlaced
    <2> QED BY <1>s, <2>1, <2>2 DEF AreSegments
<1>e. AreSegments(<<>>, protocol) /\ Placed(<<>>) = <<>>
    <2>1. IsSequence(<<>>) /\ ToSet(<<>>) = {}
        BY Single
    <2>2. Placed(<<>>) = <<>>
        BY <2>1, NothingPlaced
    <2> QED BY <2>1, <2>2 DEF AreSegments
<1>n. ~IsChange(block) => PlacesChange(bs, i, inPlace) = <<>>
    BY DEF PlacesChange, ChangeAt
<1>1. CASE block.kind = "message"
    <2>1. ~IsChange(block)
        BY <1>1 DEF IsChange
    <2>2. AreSegments(u, protocol) /\ Placed(u) = <<>>
        BY <1>1, MessageSegments
    <2> QED BY <1>n, <2>1, <2>2
<1>2. CASE block.kind = "call"
    <2> DEFINE wire == OwnWire(block, protocol)
               s == [seg |-> "call", role |-> "assistant", wireId |-> WireId(block),
                     name |-> block.name, args |-> block.args, wire |-> wire]
    <2>1. u = <<s>>
        BY <1>2 DEF Segments
    <2>2. WireSent(wire, protocol)
        BY <1>0, <1>2 DEF WireSent, OwnWire, IsBlock, FieldsKept
    <2>3. s.seg = "call" /\ s.wire = wire
        OBVIOUS
    <2> HIDE DEF s, wire, u
    <2>4. IsSegment(s, protocol) /\ s.seg # "change"
        BY <2>2, <2>3 DEF IsSegment
    <2>5. AreSegments(u, protocol) /\ Placed(u) = <<>>
        BY <1>s, <2>1, <2>4
    <2>6. ~IsChange(block)
        BY <1>2 DEF IsChange
    <2> QED BY <1>n, <2>5, <2>6 DEF u
<1>3. CASE block.kind = "result"
    <2> DEFINE declaration(id) == CHOOSE j \in 1..Len(bs) : IsCall(bs[j]) /\ bs[j].id = id
               s == [seg |-> "result", role |-> "tool", wireId |-> WireId(bs[declaration(block.call)]),
                     status |-> block.status, content |-> block.content, notes |-> block.notes,
                     media |-> [m \in 1..Len(block.media) |->
                                  ResolveMedia(block.media[m], "user", protocol)]]
    <2>1. u = <<s>>
        BY <1>3, Zenon DEF Segments
    <2>3. s.seg = "result"
        OBVIOUS
    <2> HIDE DEF s, u
    <2>4. IsSegment(s, protocol) /\ s.seg # "change"
        BY <2>3 DEF IsSegment
    <2>5. AreSegments(u, protocol) /\ Placed(u) = <<>>
        BY <1>s, <2>1, <2>4
    <2>6. ~IsChange(block)
        BY <1>3 DEF IsChange
    <2> QED BY <1>n, <2>5, <2>6 DEF u
<1>4. CASE block.kind = "change"
    <2> DEFINE s == [seg |-> "change", role |-> "system", added |-> block.added,
                     removed |-> block.removed]
    <2>1. u = IF inPlace /\ Later(bs, i) THEN <<s>> ELSE <<>>
        BY <1>4 DEF Segments, Later
    <2>2. block.added \in Seq(Definitions) /\ block.removed \in Seq(ToolNames) /\ OneEach(block.added)
        BY <1>0, <1>4 DEF IsBlock
    <2>3. s.seg = "change" /\ s.added = block.added /\ s.removed = block.removed
        OBVIOUS
    <2>4. ChangeAt(block) = <<[added |-> block.added, removed |-> block.removed]>>
        BY <1>4 DEF ChangeAt, IsChange
    <2> HIDE DEF s, u
    <2>5. CASE inPlace /\ Later(bs, i)
        <3>1. IsSegment(s, protocol)
            BY <2>2, <2>3 DEF IsSegment
        <3>2. AreSegments(<<s>>, protocol)
            BY <1>s, <3>1
        <3>3. Placed(<<s>>) = PlacedAt(s)
            <4> DEFINE p == PlacedAt(s)
            <4>1. p = <<[added |-> s.added, removed |-> s.removed]>>
                BY <2>3 DEF PlacedAt
            <4> DEFINE F == [k \in 1..1 |-> p]
                       T == {[added |-> s.added, removed |-> s.removed]}
            <4>2. Placed(<<s>>) = FlattenSeq(F)
                <5>1. Len(<<s>>) = 1 /\ \A k \in 1..1 : <<s>>[k] = s
                    OBVIOUS
                <5>2. \A k \in 1..Len(<<s>>) : PlacedAt(<<s>>[k]) = p
                    BY <5>1
                <5> HIDE DEF p
                <5>3. [k \in 1..Len(<<s>>) |-> PlacedAt(<<s>>[k])] = F
                    BY <5>1, <5>2
                <5> HIDE DEF F
                <5>4. Placed(<<s>>) = FlattenSeq([k \in 1..Len(<<s>>) |-> PlacedAt(<<s>>[k])])
                    BY DEF Placed
                <5> DEFINE G == [k \in 1..Len(<<s>>) |-> PlacedAt(<<s>>[k])]
                <5>5. G = F /\ Placed(<<s>>) = FlattenSeq(G)
                    BY <5>3, <5>4
                <5> HIDE DEF G
                <5> QED BY <5>5
            <4>3. F \in [1..1 -> Seq(T)] /\ p \in Seq(T) /\ 1 \in Nat /\ 1 \in 1..1
                BY <4>1
            <4>4. F[1] = p /\ [l \in 1..1 |-> F[l]] = F
                BY <4>3
            <4> HIDE DEF F, T, p
            <4>5. Joined(F, 1) = Joined(F, 1 - 1) \o F[1] /\ Joined(F, 0) = <<>>
                BY <4>3, JoinedChain
            <4>6. FlattenSeq(F) = <<>> \o p
                <5>1. Joined(F, 1) = FlattenSeq(F)
                    BY <4>4 DEF Joined
                <5>2. 1 - 1 = 0
                    OBVIOUS
                <5>3. Joined(F, 1) = <<>> \o p
                    BY <4>4, <4>5, <5>2, Zenon
                <5> QED BY <5>1, <5>3
            <4> QED BY <4>2, <4>3, <4>6 DEF p
        <3>4. PlacedAt(s) = ChangeAt(block)
            BY <2>3, <2>4 DEF PlacedAt
        <3> QED BY <2>1, <2>5, <3>2, <3>3, <3>4 DEF PlacesChange, u
    <2>6. CASE ~(inPlace /\ Later(bs, i))
        BY <1>e, <2>1, <2>6 DEF PlacesChange, u
    <2> QED BY <2>5, <2>6
<1> QED BY <1>0, <1>1, <1>2, <1>3, <1>4 DEF IsBlock

(* What a sequence of nothings flattens to.                                  *)
LEMMA FlatNothing ==
    ASSUME NEW n \in Nat, NEW F, F = [i \in 1..n |-> F[i]], \A i \in 1..n : F[i] = <<>>
    PROVE  FlattenSeq(F) = <<>>
<1>1. F \in [1..n -> Seq({})] /\ n \in 0..n
    <2>1. <<>> \in Seq({})
        OBVIOUS
    <2>2. \A i \in 1..n : F[i] \in Seq({})
        BY <2>1
    <2> QED BY <2>2
<1>2. Joined(F, n) \in Seq({}) /\ Joined(F, n) = FlattenSeq(F)
    <2>1. Joined(F, n) \in Seq({})
        BY <1>1, JoinedChain
    <2> QED BY <2>1 DEF Joined
<1> DEFINE f == FlattenSeq(F)
<1>3. f \in Seq({})
    BY <1>2
<1> HIDE DEF f
<1>4. Len(f) = 0
    <2>1. Len(f) \in Nat /\ \A i \in 1..Len(f) : f[i] \in {}
        BY <1>3
    <2>2. 1 \notin 1..Len(f)
        BY <2>1
    <2> QED BY <2>1, <2>2
<1>5. f = <<>>
    BY <1>3, <1>4
<1> QED BY <1>5 DEF f

(* A context's changes are changes of the tools rounds may bind.             *)
LEMMA ChangesType ==
    ASSUME NEW bs, IsContext(bs)
    PROVE  /\ Len(bs) \in Nat
           /\ \A i \in 1..Len(bs) : ChangeAt(bs[i]) \in Seq(ToolChanges)
           /\ ChangesOf(bs) \in Seq(ToolChanges)
<1> DEFINE n == Len(bs)
           A == [i \in 1..n |-> ChangeAt(bs[i])]
<1>1. n \in Nat
    BY Elements DEF IsContext
<1>2. ASSUME NEW i \in 1..n PROVE ChangeAt(bs[i]) \in Seq(ToolChanges)
    <2> DEFINE block == bs[i]
               c == [added |-> block.added, removed |-> block.removed]
    <2>1. IsBlock(block)
        BY DEF IsContext
    <2> HIDE DEF block
    <2>2. CASE IsChange(block)
        <3>1. block.added \in Seq(Definitions) /\ block.removed \in Seq(ToolNames)
            BY <2>1, <2>2 DEF IsBlock, IsChange
        <3>2. c \in ToolChanges
            BY <3>1 DEF ToolChanges, Changes
        <3>3. ChangeAt(block) = <<c>>
            BY <2>2 DEF ChangeAt
        <3> HIDE DEF c
        <3>4. ChangeAt(block) \in Seq(ToolChanges)
            BY <3>2, <3>3
        <3> QED BY <3>4 DEF block
    <2>3. CASE ~IsChange(block)
        <3>1. ChangeAt(block) = <<>>
            BY <2>3 DEF ChangeAt
        <3> QED BY <3>1 DEF block
    <2> QED BY <2>2, <2>3
<1>3. A \in [1..n -> Seq(ToolChanges)]
    BY <1>2
<1>4. ChangesOf(bs) = FlattenSeq(A)
    BY DEF ChangesOf
<1> HIDE DEF A
<1>5. FlattenSeq(A) \in Seq(ToolChanges)
    BY <1>1, <1>3, FlatType
<1> QED BY <1>1, <1>2, <1>4, <1>5

(* All changes but the first, in their order.                                *)
LaterChanges(bs) == FlattenSeq([i \in 1..Len(bs) |-> PlacesChange(bs, i, TRUE)])

(* They are the changes of the context without the first.                   *)
LEMMA LaterChangesFacts ==
    ASSUME NEW bs, IsContext(bs)
    PROVE  LaterChanges(bs) = IF ChangesOf(bs) = <<>> THEN <<>> ELSE Tail(ChangesOf(bs))
<1> DEFINE n == Len(bs)
           A == [i \in 1..n |-> ChangeAt(bs[i])]
           G == [i \in 1..n |-> PlacesChange(bs, i, TRUE)]
           T == {k \in 0..n :
                   /\ Joined(A, k) = <<>> <=> \A j \in 1..k : ~IsChange(bs[j])
                   /\ Joined(G, k) = IF Joined(A, k) = <<>> THEN <<>> ELSE Tail(Joined(A, k))}
<1>1. n \in Nat /\ \A i \in 1..n : ChangeAt(bs[i]) \in Seq(ToolChanges)
    BY ChangesType
<1>2. \A i \in 1..n : /\ A[i] = ChangeAt(bs[i])
                      /\ G[i] = IF \E j \in 1..i - 1 : IsChange(bs[j]) THEN A[i] ELSE <<>>
    BY DEF PlacesChange, Later
<1>3. /\ A \in [1..n -> Seq(ToolChanges)] /\ [l \in 1..n |-> A[l]] = A
      /\ [l \in 1..n |-> G[l]] = G
    BY <1>1
<1>4. G \in [1..n -> Seq(ToolChanges)]
    <2>1. \A i \in 1..n : PlacesChange(bs, i, TRUE) \in Seq(ToolChanges)
        BY <1>1 DEF PlacesChange
    <2> QED BY <2>1
<1>5. ChangesOf(bs) = FlattenSeq(A) /\ LaterChanges(bs) = FlattenSeq(G)
    BY DEF ChangesOf, LaterChanges
<1>6. \A i \in 1..n : IF IsChange(bs[i]) THEN \E c : A[i] = <<c>> /\ c \in ToolChanges
                                         ELSE A[i] = <<>>
    <2> TAKE i \in 1..n
    <2> DEFINE c == [added |-> bs[i].added, removed |-> bs[i].removed]
    <2>1. CASE IsChange(bs[i])
        <3>1. A[i] = <<c>>
            BY <2>1 DEF ChangeAt
        <3>2. <<c>> \in Seq(ToolChanges)
            BY <1>1, <2>1 DEF ChangeAt
        <3> HIDE DEF c
        <3>3. c \in ToolChanges
            BY <3>2
        <3> HIDE DEF A
        <3> QED BY <2>1, <3>1, <3>3
    <2>2. CASE ~IsChange(bs[i])
        BY <2>2 DEF ChangeAt
    <2> QED BY <2>1, <2>2
<1> HIDE DEF A, G, n
<1>7. /\ Joined(A, 0) = <<>> /\ \A p \in 1..n : Joined(A, p) = Joined(A, p - 1) \o A[p]
      /\ \A p \in 0..n : Joined(A, p) \in Seq(ToolChanges)
    BY <1>1, <1>3, JoinedChain
<1>8. /\ Joined(G, 0) = <<>> /\ \A p \in 1..n : Joined(G, p) = Joined(G, p - 1) \o G[p]
    BY <1>1, <1>4, JoinedChain
<1>9. 0 \in T
    BY <1>1, <1>7, <1>8
<1>10. ASSUME NEW k \in 1..n, k - 1 \in T PROVE k \in T
    <2> DEFINE a == Joined(A, k - 1)
               g == Joined(G, k - 1)
    <2>0. k \in Nat /\ k - 1 \in 0..n /\ k \in 0..n
        BY <1>1
    <2>1. a \in Seq(ToolChanges) /\ Joined(A, k) = a \o A[k] /\ Joined(G, k) = g \o G[k]
        BY <1>7, <1>8, <2>0
    <2>2. /\ a = <<>> <=> \A j \in 1..(k - 1) : ~IsChange(bs[j])
          /\ g = IF a = <<>> THEN <<>> ELSE Tail(a)
        BY <1>10
    <2>3. (\A j \in 1..k : ~IsChange(bs[j])) <=> ~IsChange(bs[k]) /\ \A j \in 1..(k - 1) : ~IsChange(bs[j])
        BY <2>0
    <2> HIDE DEF a, g, T
    <2>4. G[k] = IF a = <<>> THEN <<>> ELSE A[k]
        BY <1>2, <2>2, Zenon
    <2>5. /\ Joined(A, k) = <<>> <=> \A j \in 1..k : ~IsChange(bs[j])
          /\ Joined(G, k) = IF Joined(A, k) = <<>> THEN <<>> ELSE Tail(Joined(A, k))
        <3>1. CASE ~IsChange(bs[k])
            <4>1. A[k] = <<>> /\ G[k] = <<>>
                BY <1>6, <2>4, <3>1
            <4>2. a \o <<>> = a /\ g \o <<>> = g
                <5>1. g \in Seq(ToolChanges)
                    BY <2>1, <2>2
                <5> QED BY <2>1, <5>1, ConcatEmptySeq
            <4>3. Joined(A, k) = a /\ Joined(G, k) = g
                BY <2>1, <4>1, <4>2
            <4> QED BY <2>2, <2>3, <3>1, <4>3
        <3>2. CASE IsChange(bs[k])
            <4>1. PICK c : A[k] = <<c>> /\ c \in ToolChanges
                BY <1>6, <3>2
            <4>2. Joined(A, k) = a \o <<c>>
                BY <2>1, <4>1
            <4>3. a \o <<c>> # <<>> /\ Tail(a \o <<c>>) = IF a = <<>> THEN <<>> ELSE Tail(a) \o <<c>>
                <5>1. CASE a = <<>>
                    <6>1. a \o <<c>> = <<c>>
                        BY <5>1
                    <6>2. Tail(<<c>>) = <<>> /\ <<c>> # <<>>
                        OBVIOUS
                    <6> QED BY <5>1, <6>1, <6>2
                <5>2. CASE a # <<>>
                    BY <2>1, <4>1, <5>2
                <5> QED BY <5>1, <5>2
            <4>4. Joined(G, k) = IF a = <<>> THEN <<>> ELSE Tail(a) \o <<c>>
                <5>1. CASE a = <<>>
                    BY <2>1, <2>2, <2>4, <5>1
                <5>2. CASE a # <<>>
                    BY <2>1, <2>2, <2>4, <4>1, <5>2
                <5> QED BY <5>1, <5>2
            <4>5. ~\A j \in 1..k : ~IsChange(bs[j])
                BY <2>3, <3>2
            <4> QED BY <4>2, <4>3, <4>4, <4>5, Zenon
        <3> QED BY <3>1, <3>2
    <2> QED BY <2>0, <2>5 DEF T
<1>11. n \in T
    <2> HIDE DEF T
    <2>1. \A k \in 0..n : k \in T
        BY <1>1, <1>9, <1>10, Upward
    <2> QED BY <1>1, <2>1
<1>12. Joined(A, n) = FlattenSeq(A) /\ Joined(G, n) = FlattenSeq(G)
    BY <1>3 DEF Joined
<1> QED BY <1>5, <1>11, <1>12

(* The walk gives segments; they place the later changes, or none.           *)
LEMMA NormalizeFacts ==
    ASSUME NEW bs, IsContext(bs), NEW protocol, NEW inPlace \in BOOLEAN
    PROVE  /\ AreSegments(Normalize(bs, protocol, inPlace), protocol)
           /\ Placed(Normalize(bs, protocol, inPlace)) = IF inPlace THEN LaterChanges(bs) ELSE <<>>
<1> DEFINE n == Len(bs)
           F == [i \in 1..n |-> Segments(bs, i, protocol, inPlace)]
           V == UNION {ToSet(F[i]) : i \in 1..n}
           u == FlattenSeq(F)
           h == PlacedBy(V)
<1>1. n \in Nat /\ Normalize(bs, protocol, inPlace) = u
    BY ChangesType DEF Normalize
<1>2. ASSUME NEW i \in 1..n
      PROVE  AreSegments(F[i], protocol) /\ Placed(F[i]) = PlacesChange(bs, i, inPlace)
    <2>1. F[i] = Segments(bs, i, protocol, inPlace)
        OBVIOUS
    <2> HIDE DEF F
    <2> QED BY <2>1, SegmentsFacts
<1>3. F = [i \in 1..n |-> F[i]]
    OBVIOUS
<1> HIDE DEF F, n
<1>4. u \in Seq(V) /\ \A s \in V : IsSegment(s, protocol)
    <2>1. \A i \in 1..n : IsSequence(F[i])
        BY <1>2 DEF AreSegments
    <2>2. u \in Seq(V)
        BY <1>1, <1>3, <2>1, FlatElements
    <2> QED BY <1>2, <2>2 DEF AreSegments
<1>5. ASSUME NEW i \in 1..n PROVE F[i] \in Seq(V)
    <2>1. ToSet(F[i]) \subseteq V /\ F[i] \in Seq(ToSet(F[i]))
        BY <1>2 DEF AreSegments, IsSequence
    <2> DEFINE s == F[i]
               S == ToSet(s)
    <2> HIDE DEF s, S, V
    <2>2. s \in Seq(S) /\ S \subseteq V
        BY <2>1 DEF s, S
    <2>3. s \in Seq(V)
        BY <2>2
    <2> QED BY <2>3 DEF s
<1> HIDE DEF V, u
<1>6. AreSegments(u, protocol)
    BY <1>4, SequenceOf DEF AreSegments
<1>7. /\ Spreads(h, V, ToolChanges)
      /\ \A w \in Seq(V) : Placed(w) = Spread(h, w)
    BY <1>4, PlacedSpread DEF Spreads
<1> HIDE DEF h
<1>8. Placed(u) = FlattenSeq([i \in 1..n |-> PlacesChange(bs, i, inPlace)])
    <2>1. F \in [1..n -> Seq(V)]
        BY <1>3, <1>5
    <2>2. Spread(h, FlattenSeq(F)) = FlattenSeq([i \in 1..n |-> Spread(h, F[i])])
        <3>1. SpreadsPieces(h, V)
            BY <1>7, SpreadFlat
        <3>2. n \in Nat
            BY <1>1
        <3> QED BY <2>1, <3>1, <3>2, Zenon DEF SpreadsPieces
    <2>3. \A i \in 1..n : Spread(h, F[i]) = PlacesChange(bs, i, inPlace)
        BY <1>2, <1>5, <1>7
    <2>4. [i \in 1..n |-> Spread(h, F[i])] = [i \in 1..n |-> PlacesChange(bs, i, inPlace)]
        BY <2>3
    <2>5. Placed(u) = Spread(h, u)
        BY <1>4, <1>7
    <2> QED BY <2>2, <2>4, <2>5, Zenon DEF u
<1>9. CASE inPlace
    BY <1>1, <1>6, <1>8, <1>9, Zenon DEF LaterChanges, n
<1>10. CASE ~inPlace
    <2> DEFINE N == [i \in 1..n |-> PlacesChange(bs, i, inPlace)]
    <2>1. \A i \in 1..n : N[i] = <<>>
        BY <1>10 DEF PlacesChange
    <2>2. N = [i \in 1..n |-> N[i]]
        OBVIOUS
    <2> HIDE DEF N
    <2>3. FlattenSeq(N) = <<>>
        BY <1>1, <2>1, <2>2, FlatNothing
    <2>4. Placed(u) = <<>>
        BY <1>8, <2>3 DEF N
    <2> QED BY <1>1, <1>6, <1>10, <2>4
<1> QED BY <1>9, <1>10

-----------------------------------------------------------------------------
(* The first change first, and the others on what it gives.                  *)
LEMMA ApplyTail ==
    ASSUME NEW D, NEW R, NEW base \in Offers(D), NEW changes \in Seq(Changes(D, R)), changes # <<>>
    PROVE  /\ ApplyTo(base, changes[1]) \in Offers(D)
           /\ Tail(changes) \in Seq(Changes(D, R))
           /\ ApplyAll(base, changes) = ApplyAll(ApplyTo(base, changes[1]), Tail(changes))
<1> DEFINE n == Len(changes)
           rest == Tail(changes)
           next == ApplyTo(base, changes[1])
           C == Changes(D, R)
<1>1. /\ n \in Nat /\ n >= 1 /\ rest \in Seq(C) /\ Len(rest) = n - 1
      /\ \A k \in 1..(n - 1) : rest[k] = changes[k + 1]
      /\ changes[1] \in C
    OBVIOUS
<1>2. next \in Offers(D)
    <2>1. base \in Seq(D) /\ OneEach(base)
        BY DEF Offers
    <2>2. next \in Seq(D) /\ OneEach(next)
        BY <1>1, <2>1, ApplyType
    <2> QED BY <2>2 DEF Offers
<1>3. PICK g : ApplyChain(g, base, changes) /\ ApplyAll(base, changes) = g[n]
    BY ApplyFold
<1> HIDE DEF rest, next
<1>4. PICK h : ApplyChain(h, next, rest) /\ ApplyAll(next, rest) = h[n - 1]
    BY <1>1, <1>2, ApplyFold
<1>5. g[0] = base /\ \A k \in 1..n : g[k] = ApplyTo(g[k - 1], changes[k])
    BY <1>3 DEF ApplyChain
<1>6. h[0] = next /\ \A k \in 1..(n - 1) : h[k] = ApplyTo(h[k - 1], changes[k + 1])
    BY <1>1, <1>4 DEF ApplyChain
<1> DEFINE T == {k \in 0..(n - 1) : h[k] = g[k + 1]}
<1> HIDE DEF n
<1>7. 0 \in T
    <2>1. g[1] = ApplyTo(g[1 - 1], changes[1]) /\ 1 - 1 = 0 /\ 0 + 1 = 1
        BY <1>1, <1>5
    <2>2. h[0] = g[0 + 1]
        BY <1>5, <1>6, <2>1 DEF next
    <2> QED BY <1>1, <2>2
<1>8. ASSUME NEW k \in 1..(n - 1), k - 1 \in T PROVE k \in T
    <2>1. k \in 0..(n - 1) /\ k + 1 \in 1..n /\ (k + 1) - 1 = k /\ (k - 1) + 1 = k
        BY <1>1
    <2>2. h[k - 1] = g[k]
        BY <1>8, <2>1
    <2>3. g[k + 1] = ApplyTo(g[k], changes[k + 1])
        BY <1>5, <2>1
    <2>4. h[k] = ApplyTo(h[k - 1], changes[k + 1])
        BY <1>6
    <2> QED BY <2>1, <2>2, <2>3, <2>4
<1>9. n - 1 \in T
    <2> HIDE DEF T
    <2>1. n - 1 \in Nat
        BY <1>1
    <2>2. \A k \in 0..(n - 1) : k \in T
        BY <1>7, <1>8, <2>1, Upward
    <2> QED BY <2>1, <2>2
<1>10. h[n - 1] = g[n]
    BY <1>1, <1>9
<1> QED BY <1>1, <1>2, <1>3, <1>4, <1>10 DEF next, rest

(* What stands before all conversation content places no change.             *)
LEMMA LeadingFacts ==
    ASSUME NEW u, NEW protocol, AreSegments(u, protocol)
    PROVE  /\ LeadingSystemLen(u) \in 0..Len(u)
           /\ LET rest == SubSeq(u, LeadingSystemLen(u) + 1, Len(u))
              IN  AreSegments(rest, protocol) /\ Placed(rest) = Placed(u)
<1> DEFINE n == Len(u)
           V == ToSet(u)
           ends == {i \in 1..n : u[i].role # "system" \/ u[i].seg = "change"}
           L == LeadingSystemLen(u)
           first == SubSeq(u, 1, L)
           rest  == SubSeq(u, L + 1, n)
           h == PlacedBy(V)
<1>1. /\ n \in Nat /\ u \in Seq(V) /\ \A s \in V : IsSegment(s, protocol)
      /\ \A i \in 1..n : u[i] \in V
    <2>1. IsSequence(u) /\ \A s \in V : IsSegment(s, protocol)
        BY DEF AreSegments
    <2> HIDE DEF V
    <2>2. u \in Seq(V)
        BY <2>1 DEF IsSequence, V
    <2> QED BY <2>1, <2>2
<1>2. L = IF ends = {} THEN n ELSE Min(ends) - 1
    BY DEF LeadingSystemLen
<1>3. L \in 0..n /\ \A i \in 1..L : u[i].seg # "change"
    <2>1. CASE ends = {}
        BY <1>1, <1>2, <2>1
    <2>2. CASE ends # {}
        <3>1. ends \in SUBSET Nat
            OBVIOUS
        <3>2. Min(ends) \in ends /\ \A k \in ends : Min(ends) <= k
            <4> HIDE DEF ends
            <4>1. \E m \in ends : \A k \in ends : m <= k
                BY <2>2, <3>1, LeastElement
            <4> QED BY <4>1, Zenon DEF Min
        <3>3. L = Min(ends) - 1
            BY <1>2, <2>2
        <3> DEFINE m == Min(ends)
        <3>4. m \in 1..n /\ \A k \in 1..n : u[k].seg = "change" => m <= k
            BY <3>2
        <3> HIDE DEF m, ends, L
        <3>5. L = m - 1
            BY <3>3 DEF m
        <3> QED BY <1>1, <3>4, <3>5
    <2> QED BY <2>1, <2>2
<1> HIDE DEF L, V, ends
<1>4. first \in Seq(V) /\ rest \in Seq(V) /\ u = first \o rest /\ Len(first) = L
      /\ \A i \in 1..L : first[i] = u[i]
    <2>1. /\ first \in Seq(V) /\ Len(first) = L /\ \A i \in 1..L : first[i] = u[i]
        BY <1>1, <1>3
    <2>2. /\ rest \in Seq(V) /\ Len(rest) = n - L /\ \A i \in 1..(n - L) : rest[i] = u[L + i]
        BY <1>1, <1>3
    <2> HIDE DEF first, rest, n
    <2>3. first \o rest \in Seq(V) /\ Len(first \o rest) = n
        <3>1. first \o rest \in Seq(V) /\ Len(first \o rest) = Len(first) + Len(rest)
            BY <2>1, <2>2, ConcatProperties
        <3>2. L + (n - L) = n
            BY <1>1, <1>3
        <3> QED BY <2>1, <2>2, <3>1, <3>2
    <2>4. ASSUME NEW i \in 1..n PROVE (first \o rest)[i] = u[i]
        <3>1. (first \o rest)[i] = IF i <= L THEN first[i] ELSE rest[i - L]
            BY <1>1, <1>3, <2>1, <2>2
        <3>2. CASE i <= L
            BY <1>3, <2>1, <3>1, <3>2
        <3>3. CASE ~(i <= L)
            <4>1. i - L \in 1..(n - L) /\ L + (i - L) = i
                BY <1>1, <1>3, <3>3
            <4>2. rest[i - L] = u[i]
                BY <2>2, <4>1
            <4> QED BY <3>1, <3>3, <4>2
        <3> QED BY <3>2, <3>3
    <2>5. Len(u) = n
        BY DEF n
    <2>6. u = first \o rest
        BY <1>1, <2>3, <2>4, <2>5, SeqEqual
    <2> QED BY <2>1, <2>2, <2>6
<1> HIDE DEF first, rest, n
<1>5. /\ Spreads(h, V, ToolChanges)
      /\ \A w \in Seq(V) : Placed(w) = Spread(h, w)
    BY <1>1, PlacedSpread DEF Spreads
<1> HIDE DEF h
<1>6. Placed(u) = Placed(first) \o Placed(rest)
    <2>1. \A s, t \in Seq(V) : Spread(h, s \o t) = Spread(h, s) \o Spread(h, t)
        BY <1>5, SpreadJoins
    <2>2. Spread(h, first \o rest) = Spread(h, first) \o Spread(h, rest)
        BY <1>4, <2>1
    <2> QED BY <1>1, <1>4, <1>5, <2>2
<1>7. Placed(first) = <<>>
    <2>1. IsSequence(first)
        BY <1>4, SequenceOf
    <2>2. ToSet(first) = {first[i] : i \in 1..L}
        BY <1>4, <2>1, Elements
    <2>3. \A s \in ToSet(first) : s.seg # "change"
        BY <1>3, <1>4, <2>2
    <2> QED BY <2>1, <2>3, NothingPlaced
<1>8. AreSegments(rest, protocol)
    BY <1>1, <1>4, SequenceOf DEF AreSegments
<1>9. Placed(rest) = Placed(u)
    <2>1. Placed(rest) \in Seq(ToolChanges)
        <3>1. Placed(rest) = Spread(h, rest)
            BY <1>4, <1>5
        <3>2. h \in [V -> Seq(ToolChanges)]
            BY <1>5 DEF Spreads
        <3>3. Spread(h, rest) \in Seq(ToolChanges)
            BY <1>4, <3>2, SpreadType
        <3> QED BY <3>1, <3>3
    <2>2. <<>> \o Placed(rest) = Placed(rest)
        BY <2>1, ConcatEmptySeq
    <2> QED BY <1>6, <1>7, <2>2
<1> QED BY <1>3, <1>8, <1>9 DEF L, n, rest

(* Changes that add only new tools add up to the list with all of theirs.    *)
Added(changes) == FlattenSeq([i \in 1..Len(changes) |-> changes[i].added])

(* The list keeps each tool once and is what the changes make of the base.  *)
LEMMA AddsOnlyNewFacts ==
    ASSUME NEW D, NEW R, NEW base \in Offers(D), NEW changes \in Seq(Changes(D, R)),
           AddsOnlyNew(base, changes)
    PROVE  /\ base \o Added(changes) \in Offers(D)
           /\ ToSet(base \o Added(changes)) = ToSet(ApplyAll(base, changes))
<1> DEFINE n == Len(changes)
           F == [i \in 1..n |-> changes[i].added]
           all == base \o Added(changes)
<1>1. n \in Nat /\ \A i \in 1..n : changes[i] \in Changes(D, R)
    OBVIOUS
<1>2. F \in [1..n -> Seq(D)] /\ [l \in 1..n |-> F[l]] = F /\ \A i \in 1..n : F[i] = changes[i].added
    BY <1>1 DEF Changes
<1>3. Added(changes) = FlattenSeq(F)
    BY DEF Added
<1>4. (\A i \in 1..n : changes[i].removed = <<>>) /\ OneEach(all)
    BY DEF AddsOnlyNew, Added
<1>b. base \in Seq(D) /\ OneEach(base)
    BY DEF Offers
<1>5. PICK g : ApplyChain(g, base, changes) /\ ApplyAll(base, changes) = g[n]
    BY ApplyFold
<1>6. g[0] = base /\ \A k \in 1..n : g[k] = ApplyTo(g[k - 1], changes[k])
    BY <1>5 DEF ApplyChain
<1>7. \A k \in 0..n : g[k] \in Seq(D) /\ OneEach(g[k])
    BY <1>5, ApplyTypes
<1> HIDE DEF F, n
<1>8. /\ Joined(F, 0) = <<>> /\ \A p \in 1..n : Joined(F, p) = Joined(F, p - 1) \o F[p]
      /\ \A p \in 0..n : Joined(F, p) \in Seq(D)
    BY <1>1, <1>2, JoinedChain
<1> DEFINE Sum(k) == base \o Joined(F, k)
           T == {k \in 0..n : OneEach(Sum(n - k))}
<1>9. \A k \in 0..n : Sum(k) \in Seq(D)
    <2> TAKE k \in 0..n
    <2> DEFINE j == Joined(F, k)
    <2>1. j \in Seq(D)
        BY <1>8
    <2> HIDE DEF j
    <2>2. base \o j \in Seq(D)
        BY <1>b, <2>1
    <2> QED BY <2>2 DEF j
<1>10. \A k \in 1..n : Sum(k) = Sum(k - 1) \o F[k]
    <2> TAKE k \in 1..n
    <2> DEFINE j == Joined(F, k - 1)
               f == F[k]
    <2>0. k - 1 \in 0..n
        BY <1>1
    <2>1. j \in Seq(D) /\ f \in Seq(D) /\ Joined(F, k) = j \o f
        BY <1>2, <1>8, <2>0
    <2> HIDE DEF j, f
    <2>2. (base \o j) \o f = base \o (j \o f)
        BY <1>b, <2>1, ConcatAssociative, SMTT(30)
    <2> QED BY <2>1, <2>2 DEF j, f
<1>11. all = Sum(n)
    BY <1>2, <1>3 DEF Joined
<1>12. ASSUME NEW k \in 1..n, OneEach(Sum(k)) PROVE OneEach(Sum(k - 1)) /\ OneEach(F[k])
          /\ \A t \in ToSet(Sum(k - 1)), d \in ToSet(F[k]) : t.name # d.name
    <2> DEFINE s == Sum(k - 1)
               f == F[k]
               l == Len(s)
               m == Len(f)
               w == s \o f
    <2>0. k - 1 \in 0..n
        BY <1>1
    <2>1. s \in Seq(D) /\ f \in Seq(D) /\ Sum(k) = w
        BY <1>2, <1>9, <1>10, <2>0
    <2>2. OneEach(w)
        BY <1>12, <2>1
    <2> HIDE DEF s, f, Sum
    <2>3. /\ l \in Nat /\ m \in Nat /\ Len(w) = l + m
          /\ ToSet(s) = {s[i] : i \in 1..l} /\ ToSet(f) = {f[i] : i \in 1..m}
        <3>1. l \in Nat /\ m \in Nat /\ Len(w) = l + m /\ DOMAIN s = 1..l /\ DOMAIN f = 1..m
            BY <2>1, ConcatProperties
        <3> QED BY <3>1 DEF ToSet
    <2>4. (\A i \in 1..l : w[i] = s[i]) /\ \A i \in 1..m : w[l + i] = f[i]
        <3>1. \A i \in 1..(l + m) : w[i] = IF i <= l THEN s[i] ELSE f[i - l]
            BY <2>1, ConcatProperties
        <3>2. \A i \in 1..m : l + i \in 1..(l + m) /\ ~(l + i <= l) /\ (l + i) - l = i
            BY <2>3
        <3>3. \A i \in 1..l : i \in 1..(l + m) /\ i <= l
            BY <2>3
        <3> HIDE DEF w, l, m
        <3> QED BY <3>1, <3>2, <3>3
    <2> HIDE DEF w, l, m
    <2>5. \A i, j \in 1..(l + m) : w[i].name = w[j].name => i = j
        BY <2>2, <2>3 DEF OneEach
    <2>6. OneEach(s)
        <3>1. \A i \in 1..l : i \in 1..(l + m)
            BY <2>3
        <3> QED BY <2>4, <2>5, <3>1 DEF OneEach, l
    <2>7. OneEach(f)
        <3>1. \A i \in 1..m : l + i \in 1..(l + m)
            BY <2>3
        <3>2. \A i, j \in 1..m : f[i].name = f[j].name => l + i = l + j
            BY <2>4, <2>5, <3>1
        <3>3. \A i, j \in 1..m : l + i = l + j => i = j
            BY <2>3
        <3> QED BY <3>2, <3>3 DEF OneEach, m
    <2>8. \A i \in 1..l, j \in 1..m : s[i].name # f[j].name
        <3>1. \A i \in 1..l, j \in 1..m : i \in 1..(l + m) /\ l + j \in 1..(l + m) /\ i # l + j
            BY <2>3
        <3> QED BY <2>4, <2>5, <3>1
    <2> QED BY <2>3, <2>6, <2>7, <2>8 DEF s, f
<1> HIDE DEF Sum
<1>13. \A k \in 0..n : OneEach(Sum(k))
    <2>1. 0 \in T
        <3>1. 0 \in 0..n /\ n - 0 = n
            BY <1>1
        <3> QED BY <1>4, <1>11, <3>1
    <2>2. ASSUME NEW k \in 1..n, k - 1 \in T PROVE k \in T
        <3>1. n - (k - 1) \in 1..n /\ (n - (k - 1)) - 1 = n - k /\ k \in 0..n
            BY <1>1
        <3>2. OneEach(Sum(n - (k - 1)))
            BY <2>2
        <3>3. OneEach(Sum((n - (k - 1)) - 1))
            BY <1>12, <3>1, <3>2
        <3> QED BY <3>1, <3>3
    <2>3. \A k \in 0..n : k \in T
        <3> HIDE DEF T
        <3> QED BY <1>1, <2>1, <2>2, Upward
    <2>4. \A k \in 0..n : n - k \in 0..n /\ n - (n - k) = k
        BY <1>1
    <2>5. \A k \in 0..n : OneEach(Sum(n - (n - k)))
        BY <2>3, <2>4
    <2> QED BY <2>4, <2>5
<1> HIDE DEF T
<1> DEFINE U == {k \in 0..n : ToSet(Sum(k)) = ToSet(g[k])}
<1>14. 0 \in U
    <2>1. Sum(0) = base
        BY <1>8, <1>b, ConcatEmptySeq DEF Sum
    <2> QED BY <1>1, <1>6, <2>1
<1>15. ASSUME NEW k \in 1..n, k - 1 \in U PROVE k \in U
    <2> DEFINE s == Sum(k - 1)
               f == F[k]
               t == g[k - 1]
               c == changes[k]
               v == Withdraw(t, c.removed)
    <2>0. k - 1 \in 0..n /\ k \in 0..n
        BY <1>1
    <2>1. /\ s \in Seq(D) /\ f \in Seq(D) /\ t \in Seq(D) /\ OneEach(t) /\ Sum(k) = s \o f
          /\ ToSet(s) = ToSet(t) /\ OneEach(f) /\ c.removed = <<>> /\ c.added = f
          /\ \A x \in ToSet(s), d \in ToSet(f) : x.name # d.name
          /\ g[k] = ApplyTo(t, c)
        <3>1. s \in Seq(D) /\ f \in Seq(D) /\ t \in Seq(D) /\ OneEach(t)
            BY <1>2, <1>7, <1>9, <2>0
        <3>2. Sum(k) = s \o f /\ ToSet(s) = ToSet(t) /\ g[k] = ApplyTo(t, c)
            BY <1>6, <1>10, <1>15
        <3>3. OneEach(f) /\ \A x \in ToSet(s), d \in ToSet(f) : x.name # d.name
            BY <1>12, <1>13, <2>0
        <3>4. c.removed = <<>> /\ c.added = f
            BY <1>2, <1>4
        <3> QED BY <3>1, <3>2, <3>3, <3>4
    <2> HIDE DEF s, f, t, c, U
    <2>2. v \in Seq(D) /\ OneEach(v) /\ ToSet(v) = ToSet(t)
        <3>1. v \in Seq(D) /\ OneEach(v) /\ ToSet(v) = {x \in ToSet(t) : x.name \notin ToSet(c.removed)}
            BY <2>1, WithdrawFacts
        <3>2. ToSet(c.removed) = {}
            BY <2>1 DEF ToSet
        <3> HIDE DEF v
        <3> QED BY <3>1, <3>2
    <2> HIDE DEF v
    <2>3. ToSet(FoldLeft(Put, v, f)) = {x \in ToSet(v) : \A d \in ToSet(f) : x.name # d.name} \cup ToSet(f)
        BY <2>1, <2>2, PutsFacts
    <2>4. g[k] = FoldLeft(Put, v, f)
        BY <2>1 DEF ApplyTo, v
    <2>5. ToSet(s \o f) = ToSet(s) \cup ToSet(f)
        <3> DEFINE w == s \o f
                   l == Len(s)
                   m == Len(f)
        <3>1. /\ l \in Nat /\ m \in Nat /\ DOMAIN w = 1..(l + m) /\ DOMAIN s = 1..l /\ DOMAIN f = 1..m
              /\ \A i \in 1..(l + m) : w[i] = IF i <= l THEN s[i] ELSE f[i - l]
            <4>1. w \in Seq(D) /\ Len(w) = l + m
                BY <2>1, ConcatProperties
            <4>2. DOMAIN w = 1..Len(w)
                BY <4>1
            <4>3. \A i \in 1..(l + m) : w[i] = IF i <= l THEN s[i] ELSE f[i - l]
                BY <2>1, ConcatProperties
            <4>4. l \in Nat /\ m \in Nat /\ DOMAIN s = 1..l /\ DOMAIN f = 1..m
                BY <2>1
            <4> QED BY <4>1, <4>2, <4>3, <4>4
        <3> HIDE DEF w, l, m
        <3>2. ASSUME NEW x \in ToSet(w) PROVE x \in ToSet(s) \cup ToSet(f)
            <4>1. PICK i \in 1..(l + m) : x = w[i]
                BY <3>1 DEF ToSet
            <4>2. CASE i <= l
                <5>1. i \in 1..l /\ x = s[i]
                    BY <3>1, <4>1, <4>2
                <5> QED BY <3>1, <5>1 DEF ToSet
            <4>3. CASE ~(i <= l)
                <5>1. i - l \in 1..m /\ x = f[i - l]
                    BY <3>1, <4>1, <4>3
                <5> QED BY <3>1, <5>1 DEF ToSet
            <4> QED BY <4>2, <4>3
        <3>3. ASSUME NEW x \in ToSet(s) PROVE x \in ToSet(w)
            <4>1. PICK i \in 1..l : x = s[i]
                BY <3>1, <3>3 DEF ToSet
            <4>2. i \in 1..(l + m) /\ w[i] = x
                BY <3>1, <4>1
            <4> QED BY <3>1, <4>2 DEF ToSet
        <3>4. ASSUME NEW x \in ToSet(f) PROVE x \in ToSet(w)
            <4>1. PICK i \in 1..m : x = f[i]
                BY <3>1, <3>4 DEF ToSet
            <4>2. l + i \in 1..(l + m) /\ ~(l + i <= l) /\ (l + i) - l = i
                BY <3>1
            <4>3. w[l + i] = x
                BY <3>1, <4>1, <4>2
            <4> QED BY <3>1, <4>2, <4>3 DEF ToSet
        <3> QED BY <3>2, <3>3, <3>4 DEF w
    <2>6. ToSet(Sum(k)) = ToSet(g[k])
        BY <2>1, <2>2, <2>3, <2>4, <2>5
    <2> QED BY <2>0, <2>6 DEF U
<1>16. n \in U
    <2> HIDE DEF U
    <2>1. \A k \in 0..n : k \in U
        BY <1>1, <1>14, <1>15, Upward
    <2> QED BY <1>1, <2>1
<1>17. all \in Seq(D)
    BY <1>1, <1>9, <1>11
<1> QED BY <1>4, <1>5, <1>11, <1>16, <1>17 DEF Offers

-----------------------------------------------------------------------------
(* The plan's list and the changes in place make the tools in force; a list  *)
(* without withdrawals has each tool once.                                   *)
LEMMA PlanFacts ==
    ASSUME NEW bs, IsContext(bs), NEW placement, NEW protocol
    PROVE  LET plan == PlanTools(bs, placement)
               u    == Normalize(bs, protocol, plan.in_place)
           IN  /\ plan.in_place \in BOOLEAN /\ plan.tools \in Offers(Definitions)
               /\ AreSegments(u, protocol) /\ Placed(u) \in Seq(ToolChanges)
               /\ ApplyAll(plan.tools, Placed(u)) = CurrentTools(ChangesOf(bs))
               /\ placement = "Fold" => plan.tools = CurrentTools(ChangesOf(bs))
               /\ placement \in {"Fold", "ResponsesAdditive"} => AddsOnlyNew(plan.tools, Placed(u))
<1> DEFINE D == Definitions
           C == Changes(Definitions, ToolNames)
           changes == ChangesOf(bs)
           declaration == ApplyTo(<<>>, changes[1])
           expressible == /\ changes # <<>>
                          /\ \/ placement = "AnthropicInPlace" /\ declaration # <<>>
                             \/ /\ placement = "ResponsesAdditive"
                                /\ AddsOnlyNew(declaration, Tail(changes))
           plan == PlanTools(bs, placement)
           u    == Normalize(bs, protocol, plan.in_place)
<1>1. changes \in Seq(C)
    BY ChangesType DEF ToolChanges
<1>2. plan = IF expressible THEN [tools |-> declaration, in_place |-> TRUE]
             ELSE [tools |-> CurrentTools(changes), in_place |-> FALSE]
    BY DEF PlanTools
<1> HIDE DEF changes, plan
<1>3. <<>> \in Offers(D)
    BY DEF Offers, OneEach
<1>4. CASE expressible
    <2>1. plan.tools = declaration /\ plan.in_place = TRUE
        BY <1>2, <1>4
    <2>2. changes # <<>>
        BY <1>4
    <2>3. /\ declaration \in Offers(D) /\ Tail(changes) \in Seq(C)
          /\ CurrentTools(changes) = ApplyAll(declaration, Tail(changes))
        BY <1>1, <1>3, <2>2, ApplyTail DEF CurrentTools
    <2>4. AreSegments(u, protocol) /\ Placed(u) = LaterChanges(bs)
        BY <2>1, NormalizeFacts
    <2>5. Placed(u) = Tail(changes)
        BY <2>2, <2>4, LaterChangesFacts DEF changes
    <2>6. placement # "Fold" /\ (placement = "ResponsesAdditive" => AddsOnlyNew(declaration, Tail(changes)))
        BY <1>4
    <2> HIDE DEF declaration, u
    <2> QED BY <2>1, <2>3, <2>4, <2>5, <2>6 DEF ToolChanges, changes, plan, u
<1>5. CASE ~expressible
    <2>1. plan.tools = CurrentTools(changes) /\ plan.in_place = FALSE
        BY <1>2, <1>5
    <2> HIDE DEF expressible
    <2>2. plan.tools \in Offers(D)
        BY <1>1, <1>3, <2>1, ApplyFacts DEF CurrentTools
    <2>3. AreSegments(u, protocol) /\ Placed(u) = <<>>
        BY <2>1, NormalizeFacts
    <2> DEFINE tools == plan.tools
    <2> HIDE DEF tools
    <2>4. ApplyAll(tools, <<>>) = tools
        <3>1. <<>> \in Seq(C) /\ tools \in Offers(D)
            BY <2>2 DEF tools
        <3> QED BY <3>1, ApplyFacts
    <2>5. AddsOnlyNew(tools, <<>>)
        <3>1. FlattenSeq([i \in 1..Len(<<>>) |-> <<>>[i].added]) = <<>>
            <4> DEFINE F == [i \in 1..Len(<<>>) |-> <<>>[i].added]
            <4>1. Len(<<>>) \in Nat /\ F = [i \in 1..Len(<<>>) |-> F[i]] /\ \A i \in 1..Len(<<>>) : F[i] = <<>>
                OBVIOUS
            <4> HIDE DEF F
            <4>2. FlattenSeq(F) = <<>>
                BY <4>1, FlatNothing
            <4> QED BY <4>2 DEF F
        <3>2. tools \in Seq(D) /\ OneEach(tools)
            BY <2>2 DEF tools, Offers
        <3>3. tools \o <<>> = tools
            BY <3>2, ConcatEmptySeq
        <3>4. \A i \in 1..Len(<<>>) : <<>>[i].removed = <<>>
            OBVIOUS
        <3> QED BY <3>1, <3>2, <3>3, <3>4, Zenon DEF AddsOnlyNew
    <2>6. <<>> \in Seq(ToolChanges)
        OBVIOUS
    <2> HIDE DEF u
    <2> QED BY <2>1, <2>2, <2>3, <2>4, <2>5, <2>6 DEF changes, plan, u, tools
<1> QED BY <1>4, <1>5

(* The tools of a Chat request are those in force.                           *)
LEMMA ChatOffers ==
    ASSUME NEW bs, IsContext(bs), NEW replay, RenderChat(bs, replay).ok
    PROVE  /\ RenderChat(bs, replay).tools = CurrentTools(ChangesOf(bs))
<1> DEFINE plan == PlanTools(bs, "Fold")
           messages == ChatConversation(Normalize(bs, ChatName, plan.in_place), replay)
           r == RenderChat(bs, replay)
<1>1. r = IF ~ValidateFrame(bs) THEN [ok |-> FALSE]
          ELSE IF messages = <<>> \/ ~ValidateChat(messages) THEN [ok |-> FALSE]
          ELSE ChatBody(plan, messages)
    BY DEF RenderChat
<1>2. plan.tools = CurrentTools(ChangesOf(bs))
    BY PlanFacts
<1> HIDE DEF plan, messages
<1>3. r.ok
    OBVIOUS
<1> HIDE DEF r
<1>4. r = ChatBody(plan, messages)
    BY <1>1, <1>3
<1>5. r.tools = plan.tools
    BY <1>4 DEF ChatBody, Body
<1> QED BY <1>2, <1>5 DEF r

(* One item gives what it gives.                                             *)
LEMMA SpreadOne ==
    ASSUME NEW S, NEW V, NEW h, Spreads(h, S, V), NEW x \in S
    PROVE  Spread(h, <<x>>) = h[x]
<1>1. h \in [S -> Seq(V)] /\ <<>> \in Seq(S)
    BY DEF Spreads
<1>2. Spread(h, <<>> \o <<x>>) = Spread(h, <<>>) \o h[x]
    BY <1>1, SpreadGrows
<1>3. <<>> \o <<x>> = <<x>> /\ Spread(h, <<>>) = <<>>
    BY SpreadNothing
<1>4. h[x] \in Seq(V)
    BY <1>1
<1>5. <<>> \o h[x] = h[x]
    BY <1>4, ConcatEmptySeq
<1> QED BY <1>2, <1>3, <1>5

(* Fields over others are an item that adds no tools if both are.            *)
LEMMA OverOutput ==
    ASSUME NEW fields, NEW object, IsOutputItem(fields), IsOutputItem(object)
    PROVE  IsOutputItem(Over(fields, object))
BY DEF IsOutputItem, Over

(* Items without tools.                                                      *)
LEMMA OutputItems ==
    ASSUME NEW x, IsOutputItem(x)
    PROVE  /\ IsSequence(<<x>>) /\ \A y \in ToSet(<<x>>) : IsOutputItem(y)
<1>1. IsSequence(<<x>>) /\ ToSet(<<x>>) = {x}
    BY Single
<1> QED BY <1>1

(* Only a change's item has tools.                                           *)
LEMMA SegmentItemsOutput ==
    ASSUME NEW u, AreSegments(u, ResponsesName), NEW i \in 1..Len(u), u[i].seg # "change"
    PROVE  /\ IsSequence(SegmentItems(u, i))
           /\ \A y \in ToSet(SegmentItems(u, i)) : IsOutputItem(y)
<1> DEFINE s == u[i]
           Good(w) == IsSequence(w) /\ \A y \in ToSet(w) : IsOutputItem(y)
<1>0. IsSegment(s, ResponsesName)
    <2>1. u[i] \in ToSet(u)
        BY Elements DEF AreSegments
    <2> QED BY <2>1 DEF AreSegments
<1>e. Good(<<>>)
    <2>1. IsSequence(<<>>) /\ ToSet(<<>>) = {}
        BY Single
    <2> QED BY <2>1
<1>g. ASSUME NEW x, IsOutputItem(x) PROVE Good(<<x>>)
    BY <1>g, OutputItems
<1>r. ASSUME NEW r, NEW c, r = [role |-> c, content |-> r.content] PROVE IsOutputItem(r)
    <2>1. "type" \notin DOMAIN [role |-> c, content |-> r.content]
        OBVIOUS
    <2> QED BY <1>r, <2>1 DEF IsOutputItem
<1> HIDE DEF Good
<1>1. CASE s.seg \in {"text", "media"} /\ s.role = "system"
    <2>1. SegmentItems(u, i) = IF i <= LeadingSystemLen(u) THEN <<>> ELSE <<SystemItem(SegmentText(s))>>
        BY <1>1 DEF SegmentItems, IsUserPart, IsAssistantText
    <2>2. IsOutputItem(SystemItem(SegmentText(s)))
        BY <1>r DEF SystemItem
    <2> QED BY <1>e, <1>g, <2>1, <2>2 DEF Good
<1>2. CASE s.seg \in {"text", "media"} /\ s.role = "user"
    <2>1. SegmentItems(u, i) = IF StartsUserMessage(u, i) THEN <<UserItem(UserBlockRun(u, i))>> ELSE <<>>
        BY <1>2 DEF SegmentItems, IsUserPart, IsAssistantText
    <2> DEFINE run == UserBlockRun(u, i)
    <2> HIDE DEF run
    <2>2. IsOutputItem(UserItem(run))
        BY <1>r DEF UserItem
    <2> QED BY <1>e, <1>g, <2>1, <2>2 DEF Good, run
<1>3. CASE s.seg = "text" /\ s.role = "assistant"
    <2> DEFINE rebuilt == Rebuilt(u, i)
    <2>1. SegmentItems(u, i) = IF InRebuilt(u, i) THEN <<>>
                               ELSE IF rebuilt # <<>> THEN rebuilt
                               ELSE <<AssistantItem(s.text)>>
        BY <1>3 DEF SegmentItems, IsUserPart, IsAssistantText
    <2>2. IsOutputItem(AssistantItem(s.text))
        BY <1>r DEF AssistantItem
    <2>3. Good(rebuilt)
        <3> DEFINE run == SameBlockRun(u, i)
                   fields == s.wire[1]
        <3>1. CASE s.wire = <<>>
            <4>1. rebuilt = <<>>
                BY <3>1, Zenon DEF Rebuilt
            <4> QED BY <1>e, <4>1
        <3>2. CASE s.wire # <<>>
            <4>1. rebuilt = <<>> \/ rebuilt = MessageFromWire(fields, run)
                BY <3>2, Zenon DEF Rebuilt
            <4>2. IsOutputItem(fields)
                BY <1>0, <1>3, <3>2 DEF IsSegment, WireSent
            <4> HIDE DEF rebuilt, fields, run
            <4>3. MessageFromWire(fields, run) = <<>>
                    \/ \E c : MessageFromWire(fields, run)
                                = <<Over([role |-> "assistant", content |-> c], fields)>>
                BY Zenon DEF MessageFromWire
            <4>4. ASSUME NEW c PROVE IsOutputItem(Over([role |-> "assistant", content |-> c], fields))
                <5>1. IsOutputItem([role |-> "assistant", content |-> c])
                    BY DEF IsOutputItem
                <5> QED BY <4>2, <5>1, OverOutput
            <4>5. Good(MessageFromWire(fields, run))
                BY <1>e, <1>g, <4>3, <4>4
            <4> QED BY <1>e, <4>1, <4>5
        <3> QED BY <3>1, <3>2
    <2> HIDE DEF rebuilt
    <2> QED BY <1>e, <1>g, <2>1, <2>2, <2>3 DEF Good
<1>4. CASE s.seg = "media" /\ s.role = "assistant"
    <2>1. SegmentItems(u, i) = <<AssistantItem(PlaceholderText)>>
        BY <1>4 DEF SegmentItems, IsUserPart, IsAssistantText
    <2>2. IsOutputItem(AssistantItem(PlaceholderText))
        BY <1>r DEF AssistantItem
    <2> QED BY <1>g, <2>1, <2>2 DEF Good
<1>5. CASE s.seg = "sealed"
    <2>1. SegmentItems(u, i) = <<s.item>>
        BY <1>5 DEF SegmentItems, IsUserPart, IsAssistantText
    <2>2. IsOutputItem(s.item)
        BY <1>0, <1>5 DEF IsSegment
    <2> QED BY <1>g, <2>1, <2>2 DEF Good
<1>6. CASE s.seg = "call"
    <2>1. SegmentItems(u, i) = <<FunctionCall(s)>>
        BY <1>6 DEF SegmentItems, IsUserPart, IsAssistantText
    <2> DEFINE residue == ResidueObject(s.wire)
    <2>2. IsOutputItem(residue)
        BY <1>0, <1>6 DEF IsSegment, WireSent, ResidueObject, IsOutputItem
    <2> HIDE DEF residue
    <2>3. IsOutputItem([type |-> "function_call"])
        BY DEF IsOutputItem
    <2> DEFINE over == Over(residue, [type |-> "function_call"])
    <2>4. IsOutputItem(over)
        BY <2>2, <2>3, OverOutput
    <2>5. \E a : FunctionCall(s) =
              Over([call_id |-> s.wireId, name |-> s.name, arguments |-> a], over)
        BY Zenon DEF FunctionCall, residue
    <2> HIDE DEF over
    <2>6. PICK a : FunctionCall(s) = Over([call_id |-> s.wireId, name |-> s.name, arguments |-> a], over)
        BY <2>5
    <2>7. IsOutputItem([call_id |-> s.wireId, name |-> s.name, arguments |-> a])
        BY DEF IsOutputItem
    <2>8. IsOutputItem(FunctionCall(s))
        BY <2>4, <2>6, <2>7, OverOutput
    <2> QED BY <1>g, <2>1, <2>8 DEF Good
<1>7. CASE s.seg = "result"
    <2>1. SegmentItems(u, i) = <<FunctionCallOutput(s)>>
        BY <1>7 DEF SegmentItems, IsUserPart, IsAssistantText
    <2>2. FunctionCallOutput(s).type = "function_call_output"
        BY DEF FunctionCallOutput
    <2>3. IsOutputItem(FunctionCallOutput(s))
        BY <2>2 DEF IsOutputItem
    <2> QED BY <1>g, <2>1, <2>3 DEF Good
<1> QED BY <1>0, <1>1, <1>2, <1>3, <1>4, <1>5, <1>6, <1>7 DEF IsSegment, Good

-----------------------------------------------------------------------------
(* The tools the items of a request add are those its changes add.           *)
ItemTools(items) == FlattenSeq([m \in 1..Len(items) |-> ToolsIn(items[m])])

(* The items segments are written as.                                       *)
ResponsesItems(u) == FlattenSeq([i \in 1..Len(u) |-> SegmentItems(u, i)])

(* A segment's items add the tools of its change, in one item.              *)
LEMMA ItemsOfSegment ==
    ASSUME NEW u, AreSegments(u, ResponsesName), NEW i \in 1..Len(u)
    PROVE  LET items == SegmentItems(u, i)
               tools == IF u[i].seg = "change" THEN u[i].added ELSE <<>>
           IN  /\ IsSequence(items) /\ tools \in Seq(Definitions)
               /\ IF tools = <<>> THEN \A y \in ToSet(items) : ToolsIn(y) = <<>>
                  ELSE \E x : items = <<x>> /\ ToolsIn(x) = tools
<1> DEFINE s == u[i]
           items == SegmentItems(u, i)
           tools == IF s.seg = "change" THEN s.added ELSE <<>>
<1>0. IsSegment(s, ResponsesName)
    <2>1. u[i] \in ToSet(u)
        BY Elements DEF AreSegments
    <2> QED BY <2>1 DEF AreSegments
<1>1. tools \in Seq(Definitions)
    BY <1>0 DEF IsSegment
<1>2. CASE s.seg # "change"
    <2>1. IsSequence(items) /\ \A y \in ToSet(items) : IsOutputItem(y)
        BY <1>2, SegmentItemsOutput
    <2>2. \A y : IsOutputItem(y) => ToolsIn(y) = <<>>
        BY DEF IsOutputItem, ToolsIn
    <2> QED BY <1>1, <1>2, <2>1, <2>2
<1>3. CASE s.seg = "change"
    <2>1. items = AdditionalTools(s)
        BY <1>3 DEF SegmentItems, IsUserPart, IsAssistantText
    <2> DEFINE x == [type |-> "additional_tools", role |-> "developer", tools |-> s.added]
    <2>2. items = IF s.added = <<>> THEN <<>> ELSE <<x>>
        BY <2>1 DEF AdditionalTools
    <2>3. ToolsIn(x) = s.added
        BY DEF ToolsIn
    <2> HIDE DEF x, items
    <2>4. IsSequence(<<x>>) /\ IsSequence(<<>>) /\ ToSet(<<>>) = {}
        BY Single
    <2> QED BY <1>1, <1>3, <2>2, <2>3, <2>4 DEF items
<1> QED BY <1>2, <1>3

(* So the items of all segments add the tools of all changes.               *)
LEMMA ItemToolsFacts ==
    ASSUME NEW u, AreSegments(u, ResponsesName)
    PROVE  ItemTools(ResponsesItems(u)) = Added(Placed(u))
<1> DEFINE n == Len(u)
           D == Definitions
           C == ToolChanges
           F == [i \in 1..n |-> SegmentItems(u, i)]
           W == UNION {ToSet(F[i]) : i \in 1..n}
           items == FlattenSeq(F)
           h == [y \in W |-> ToolsIn(y)]
           Tools(i) == IF u[i].seg = "change" THEN u[i].added ELSE <<>>
           P == [i \in 1..n |-> PlacedAt(u[i])]
           a == [c \in C |-> c.added]
<1>1. n \in Nat
    BY Elements DEF AreSegments
<1>2. ASSUME NEW i \in 1..n
      PROVE  /\ IsSequence(F[i]) /\ Tools(i) \in Seq(D)
             /\ IF Tools(i) = <<>> THEN \A y \in ToSet(F[i]) : ToolsIn(y) = <<>>
                ELSE \E x : F[i] = <<x>> /\ ToolsIn(x) = Tools(i)
    BY ItemsOfSegment
<1>3. F = [i \in 1..n |-> F[i]] /\ ResponsesItems(u) = items
    BY DEF ResponsesItems
<1>p. \A i \in 1..n :
        IF u[i].seg = "change"
        THEN \E c \in C : P[i] = <<c>> /\ c.added = Tools(i)
        ELSE P[i] = <<>> /\ Tools(i) = <<>>
    <2> TAKE i \in 1..n
    <2> DEFINE s == u[i]
    <2>1. IsSegment(s, ResponsesName)
        <3>1. u[i] \in ToSet(u)
            BY Elements DEF AreSegments
        <3> QED BY <3>1 DEF AreSegments
    <2>2. P[i] = PlacedAt(s) /\ Tools(i) = IF s.seg = "change" THEN s.added ELSE <<>>
        OBVIOUS
    <2> HIDE DEF P, Tools
    <2>3. CASE s.seg = "change"
        <3> DEFINE c == [added |-> s.added, removed |-> s.removed]
        <3>1. s.added \in Seq(D) /\ s.removed \in Seq(ToolNames)
            BY <2>1, <2>3 DEF IsSegment
        <3>2. c \in C
            BY <3>1 DEF ToolChanges, Changes
        <3>3. P[i] = <<c>> /\ c.added = Tools(i)
            BY <2>2, <2>3 DEF PlacedAt
        <3> HIDE DEF c
        <3> QED BY <2>3, <3>2, <3>3
    <2>4. CASE s.seg # "change"
        BY <2>2, <2>4 DEF PlacedAt
    <2> QED BY <2>3, <2>4
<1>q. P = [i \in 1..n |-> P[i]] /\ Placed(u) = FlattenSeq(P)
    BY DEF Placed
<1> HIDE DEF F, n, Tools, P
<1>4. items \in Seq(W) /\ \A i \in 1..n : F[i] \in Seq(W)
    <2>1. \A i \in 1..n : IsSequence(F[i])
        BY <1>2
    <2>2. items \in Seq(W)
        BY <1>1, <1>3, <2>1, FlatElements
    <2>3. ASSUME NEW i \in 1..n PROVE F[i] \in Seq(W)
        <3> DEFINE s == F[i]
                   S == ToSet(s)
        <3>1. S \subseteq W /\ s \in Seq(S)
            BY <2>1 DEF IsSequence
        <3> HIDE DEF s, S, W
        <3>2. s \in Seq(W)
            BY <3>1
        <3> QED BY <3>2 DEF s
    <2> QED BY <2>2, <2>3
<1>5. Spreads(h, W, D) /\ \A y \in W : h[y] = ToolsIn(y)
    <2>1. ASSUME NEW i \in 1..n, NEW y \in ToSet(F[i]) PROVE ToolsIn(y) \in Seq(D)
        <3>1. CASE Tools(i) = <<>>
            <4>1. ToolsIn(y) = <<>>
                BY <1>2, <2>1, <3>1
            <4> QED BY <4>1
        <3>2. CASE Tools(i) # <<>>
            <4>1. PICK x : F[i] = <<x>> /\ ToolsIn(x) = Tools(i)
                BY <1>2, <3>2
            <4>2. y = x
                BY <2>1, <4>1, Single
            <4> QED BY <1>2, <4>1, <4>2
        <3> QED BY <3>1, <3>2
    <2>2. \A y \in W : ToolsIn(y) \in Seq(D)
        BY <2>1
    <2> QED BY <2>2 DEF Spreads
<1> HIDE DEF W, items
<1>6. ItemTools(items) = Spread(h, items)
    <2>1. \A m \in 1..Len(items) : items[m] \in W
        BY <1>4
    <2>2. [m \in 1..Len(items) |-> ToolsIn(items[m])] = [m \in 1..Len(items) |-> h[items[m]]]
        BY <1>5, <2>1
    <2> QED BY <2>2 DEF ItemTools, Spread
<1> HIDE DEF h
<1>7. \A i \in 1..n : Spread(h, F[i]) = Tools(i)
    <2> TAKE i \in 1..n
    <2> DEFINE s == F[i]
    <2>1. s \in Seq(W) /\ h \in [W -> Seq(D)]
        BY <1>4, <1>5 DEF Spreads
    <2>2. CASE Tools(i) = <<>>
        <3> DEFINE m == Len(s)
                   G == [k \in 1..m |-> h[s[k]]]
        <3>1. m \in Nat /\ DOMAIN s = 1..m
            BY <2>1
        <3>2. \A k \in 1..m : s[k] \in ToSet(s) /\ s[k] \in W
            <4> HIDE DEF s
            <4>1. \A k \in 1..m : s[k] \in W
                BY <2>1
            <4>2. \A k \in 1..m : s[k] \in ToSet(s)
                BY <3>1 DEF ToSet
            <4> QED BY <4>1, <4>2
        <3>3. \A k \in 1..m : G[k] = <<>>
            BY <1>2, <1>5, <2>2, <3>2
        <3>4. G = [k \in 1..m |-> G[k]] /\ Spread(h, s) = FlattenSeq(G)
            BY DEF Spread
        <3> HIDE DEF G, m
        <3>5. FlattenSeq(G) = <<>>
            BY <3>1, <3>3, <3>4, FlatNothing
        <3> QED BY <2>2, <3>4, <3>5
    <2>3. CASE Tools(i) # <<>>
        <3>1. PICK x : s = <<x>> /\ ToolsIn(x) = Tools(i)
            BY <1>2, <2>3
        <3>2. x \in W
            BY <2>1, <3>1
        <3>3. Spread(h, <<x>>) = h[x]
            BY <1>5, <3>2, SpreadOne
        <3> QED BY <1>5, <3>1, <3>2, <3>3
    <2> QED BY <2>2, <2>3
<1>8. ItemTools(items) = FlattenSeq([i \in 1..n |-> Tools(i)])
    <2>1. SpreadsPieces(h, W)
        BY <1>5, SpreadFlat
    <2>2. F \in [1..n -> Seq(W)]
        BY <1>3, <1>4
    <2>3. Spread(h, FlattenSeq(F)) = FlattenSeq([i \in 1..n |-> Spread(h, F[i])])
        BY <1>1, <2>1, <2>2, Zenon DEF SpreadsPieces
    <2>4. [i \in 1..n |-> Spread(h, F[i])] = [i \in 1..n |-> Tools(i)]
        BY <1>7
    <2> QED BY <1>6, <2>3, <2>4, Zenon DEF items
<1>9. Spreads(a, C, D) /\ \A c \in C : a[c] = c.added
    BY DEF Spreads, ToolChanges, Changes
<1>10. P \in [1..n -> Seq(C)]
    <2>1. \A i \in 1..n : P[i] \in Seq(C)
        <3> TAKE i \in 1..n
        <3>1. CASE u[i].seg = "change"
            <4>1. PICK c \in C : P[i] = <<c>>
                BY <1>p, <3>1
            <4>2. <<c>> \in Seq(C)
                OBVIOUS
            <4> QED BY <4>1, <4>2
        <3>2. CASE u[i].seg # "change"
            <4>1. P[i] = <<>>
                BY <1>p, <3>2
            <4> QED BY <4>1
        <3> QED BY <3>1, <3>2
    <2> QED BY <1>q, <2>1
<1> HIDE DEF a, C
<1>11. Added(Placed(u)) = Spread(a, Placed(u))
    <2> DEFINE w == Placed(u)
    <2>1. w \in Seq(C)
        BY <1>1, <1>10, <1>q, FlatType
    <2> HIDE DEF w
    <2>2. \A k \in 1..Len(w) : w[k] \in C
        BY <2>1
    <2>3. [k \in 1..Len(w) |-> w[k].added] = [k \in 1..Len(w) |-> a[w[k]]]
        BY <1>9, <2>2
    <2>4. Added(w) = Spread(a, w)
        BY <2>3 DEF Added, Spread
    <2> QED BY <2>4 DEF w
<1>12. \A i \in 1..n : Spread(a, P[i]) = Tools(i)
    <2> TAKE i \in 1..n
    <2>1. CASE u[i].seg = "change"
        <3>1. PICK c \in C : P[i] = <<c>> /\ c.added = Tools(i)
            BY <1>p, <2>1
        <3>2. Spread(a, <<c>>) = a[c]
            BY <1>9, SpreadOne
        <3> QED BY <1>9, <3>1, <3>2
    <2>2. CASE u[i].seg # "change"
        <3>1. P[i] = <<>> /\ Tools(i) = <<>>
            BY <1>p, <2>2
        <3> QED BY <3>1, SpreadNothing
    <2> QED BY <2>1, <2>2
<1>13. Spread(a, Placed(u)) = FlattenSeq([i \in 1..n |-> Tools(i)])
    <2>1. SpreadsPieces(a, C)
        BY <1>9, SpreadFlat
    <2>2. Spread(a, FlattenSeq(P)) = FlattenSeq([i \in 1..n |-> Spread(a, P[i])])
        BY <1>1, <1>10, <2>1, Zenon DEF SpreadsPieces
    <2>3. [i \in 1..n |-> Spread(a, P[i])] = [i \in 1..n |-> Tools(i)]
        BY <1>12
    <2> QED BY <1>q, <2>2, <2>3, Zenon
<1> QED BY <1>3, <1>8, <1>11, <1>13

(* A Responses request offers the tools in force, each once.                 *)
LEMMA ResponsesOffers ==
    ASSUME NEW bs, IsContext(bs), NEW option, RenderResponses(bs, option).ok
    PROVE  LET r == RenderResponses(bs, option)
               tools == r.tools \o ItemTools(r.messages)
           IN  tools \in Offers(Definitions) /\ ToSet(tools) = ToSet(CurrentTools(ChangesOf(bs)))
<1> DEFINE placement == IF option THEN "ResponsesAdditive" ELSE "Fold"
           plan == PlanTools(bs, placement)
           u == Normalize(bs, ResponsesName, plan.in_place)
           items == ResponsesItems(u)
           r == RenderResponses(bs, option)
<1>1. r = IF ~ValidateFrame(bs) THEN [ok |-> FALSE]
          ELSE IF items = <<>> THEN [ok |-> FALSE]
          ELSE ResponsesBody(plan, u, items)
    BY DEF RenderResponses, ResponsesItems
<1>2. placement \in {"Fold", "ResponsesAdditive"}
    OBVIOUS
<1> HIDE DEF placement
<1>3. /\ plan.tools \in Offers(Definitions)
      /\ AreSegments(u, ResponsesName) /\ Placed(u) \in Seq(ToolChanges)
      /\ ApplyAll(plan.tools, Placed(u)) = CurrentTools(ChangesOf(bs))
      /\ AddsOnlyNew(plan.tools, Placed(u))
    BY <1>2, PlanFacts
<1>4. r.ok
    OBVIOUS
<1> HIDE DEF r, plan, u, items
<1>5. r = ResponsesBody(plan, u, items)
    BY <1>1, <1>4
<1>6. r.tools = plan.tools /\ r.messages = items
    BY <1>5 DEF ResponsesBody, Body
<1>7. ItemTools(items) = Added(Placed(u))
    BY <1>3, ItemToolsFacts DEF items
<1> DEFINE base == plan.tools
           changes == Placed(u)
<1> HIDE DEF base, changes
<1>8. /\ base \o Added(changes) \in Offers(Definitions)
      /\ ToSet(base \o Added(changes)) = ToSet(ApplyAll(base, changes))
    <2>1. /\ base \in Offers(Definitions) /\ changes \in Seq(Changes(Definitions, ToolNames))
          /\ AddsOnlyNew(base, changes)
        BY <1>3 DEF base, changes, ToolChanges
    <2> QED BY <2>1, AddsOnlyNewFacts
<1> QED BY <1>3, <1>6, <1>7, <1>8 DEF base, changes, r

-----------------------------------------------------------------------------
(* What a change makes of the tools offered.                                 *)
LEMMA ApplySet ==
    ASSUME NEW D, NEW R, NEW tools \in Offers(D), NEW change \in Changes(D, R), OneEach(change.added)
    PROVE  /\ ApplyTo(tools, change) \in Offers(D)
           /\ ToSet(ApplyTo(tools, change)) =
                  {t \in ToSet(tools) : /\ t.name \notin ToSet(change.removed)
                                        /\ \A d \in ToSet(change.added) : t.name # d.name}
                      \cup ToSet(change.added)
<1> DEFINE v == Withdraw(tools, change.removed)
           added == change.added
<1>1. tools \in Seq(D) /\ OneEach(tools) /\ added \in Seq(D)
    BY DEF Offers, Changes
<1>2. v \in Seq(D) /\ OneEach(v) /\ ToSet(v) = {t \in ToSet(tools) : t.name \notin ToSet(change.removed)}
    BY <1>1, WithdrawFacts
<1> HIDE DEF v, added
<1>3. OneEach(added)
    BY DEF added
<1> DEFINE all == FoldLeft(Put, v, added)
<1>4. /\ all \in Seq(D) /\ OneEach(all)
      /\ ToSet(all) = {t \in ToSet(v) : \A d \in ToSet(added) : t.name # d.name} \cup ToSet(added)
    BY <1>1, <1>2, <1>3, PutsFacts
<1>5. ApplyTo(tools, change) = all
    BY DEF ApplyTo, v, added
<1> HIDE DEF all
<1>6. all \in Offers(D)
    BY <1>4 DEF Offers
<1>7. ToSet(all) = {t \in ToSet(tools) : /\ t.name \notin ToSet(change.removed)
                                         /\ \A d \in ToSet(added) : t.name # d.name} \cup ToSet(added)
    BY <1>2, <1>4
<1> QED BY <1>5, <1>6, <1>7 DEF added

(* Changes after others.                                                     *)
LEMMA ApplyJoin ==
    ASSUME NEW D, NEW R, NEW base \in Offers(D), NEW s \in Seq(Changes(D, R)), NEW t \in Seq(Changes(D, R))
    PROVE  ApplyAll(base, s \o t) = ApplyAll(ApplyAll(base, s), t)
<1> DEFINE C == Changes(D, R)
           n == Len(t)
           First(k) == SubSeq(t, 1, k)
           mid == ApplyAll(base, s)
           T == {k \in 0..n : ApplyAll(base, s \o First(k)) = ApplyAll(mid, First(k))}
<1>1. n \in Nat /\ First(0) = <<>> /\ First(n) = t /\ <<>> \in Seq(C)
    OBVIOUS
<1>2. \A k \in 0..n : First(k) \in Seq(C)
    OBVIOUS
<1>3. \A k \in 1..n : First(k) = First(k - 1) \o <<t[k]>> /\ t[k] \in C
    OBVIOUS
<1>m. mid \in Offers(D)
    BY ApplyFacts
<1> HIDE DEF First, mid
<1>4. 0 \in T
    <2>1. s \o <<>> = s
        BY ConcatEmptySeq
    <2>2. ApplyAll(mid, <<>>) = mid
        BY <1>1, <1>m, ApplyFacts
    <2>3. 0 \in 0..n
        BY <1>1
    <2> QED BY <1>1, <2>1, <2>2, <2>3 DEF mid
<1> HIDE DEF n
<1>5. ASSUME NEW k \in 1..n, k - 1 \in T PROVE k \in T
    <2> DEFINE f == First(k - 1)
               c == t[k]
    <2>0. k \in 0..n /\ k - 1 \in 0..n
        BY <1>1
    <2>1. /\ f \in Seq(C) /\ c \in C /\ First(k) = f \o <<c>>
          /\ ApplyAll(base, s \o f) = ApplyAll(mid, f)
        BY <2>0, <1>2, <1>3, <1>5
    <2> HIDE DEF f, c
    <2>2. s \o f \in Seq(C) /\ <<c>> \in Seq(C)
        BY <2>1
    <2>3. s \o (f \o <<c>>) = (s \o f) \o <<c>>
        BY <2>1, <2>2, ConcatAssociative
    <2>4. ApplyAll(base, (s \o f) \o <<c>>) = ApplyTo(ApplyAll(base, s \o f), c)
        <3> DEFINE e == s \o f
        <3>1. e \in Seq(Changes(D, R)) /\ c \in Changes(D, R)
            BY <2>1, <2>2
        <3> HIDE DEF e
        <3>2. ApplyAll(base, e \o <<c>>) = ApplyTo(ApplyAll(base, e), c)
            BY <3>1, ApplyAppend
        <3> QED BY <3>2 DEF e
    <2>5. ApplyAll(mid, f \o <<c>>) = ApplyTo(ApplyAll(mid, f), c)
        BY <1>m, <2>1, ApplyAppend
    <2>6. ApplyAll(base, s \o First(k)) = ApplyAll(mid, First(k))
        BY <2>1, <2>3, <2>4, <2>5, Zenon
    <2> QED BY <2>0, <2>6
<1>6. n \in T
    <2> HIDE DEF T
    <2>1. \A k \in 0..n : k \in T
        BY <1>1, <1>4, <1>5, Upward
    <2> QED BY <1>1, <2>1
<1> QED BY <1>1, <1>6 DEF mid

(* A change written out: one block for each name and each definition.        *)
Withdrawal(name) == [added |-> <<>>, removed |-> <<name>>]
Addition(tool)   == [added |-> <<tool>>, removed |-> <<>>]

(* The withdrawals first, then the additions.                               *)
IsWrittenOut(w, gone, added) ==
    /\ Len(w) = Len(gone) + Len(added)
    /\ \A i \in 1..Len(gone) : w[i] = Withdrawal(gone[i])
    /\ \A j \in 1..Len(added) : w[Len(gone) + j] = Addition(added[j])

(* Applied, they leave what is not named again, and the additions.          *)
LEMMA WrittenOut ==
    ASSUME NEW D, NEW R, NEW base \in Offers(D), NEW gone \in Seq(R), NEW added \in Seq(D), OneEach(added),
           NEW w \in Seq(Changes(D, R)), IsWrittenOut(w, gone, added)
    PROVE  ToSet(ApplyAll(base, w)) =
               {t \in ToSet(base) : t.name \notin ToSet(gone) /\ \A d \in ToSet(added) : t.name # d.name}
                   \cup ToSet(added)
<1> DEFINE p == Len(gone)
           q == Len(added)
           n == Len(w)
           Gone(k)  == {gone[i] : i \in {i \in 1..p : i <= k}}
           New(k) == {added[j] : j \in {j \in 1..q : p + j <= k}}
<1>1. /\ p \in Nat /\ q \in Nat /\ n = p + q /\ n \in Nat
      /\ ToSet(gone) = {gone[i] : i \in 1..p} /\ ToSet(added) = {added[j] : j \in 1..q}
    <2>1. p \in Nat /\ q \in Nat /\ DOMAIN gone = 1..p /\ DOMAIN added = 1..q /\ n = p + q
        BY DEF IsWrittenOut
    <2> QED BY <2>1 DEF ToSet
<1>2. /\ \A i \in 1..p : gone[i] \in R /\ w[i] = Withdrawal(gone[i])
      /\ \A j \in 1..q : added[j] \in D /\ w[p + j] = Addition(added[j])
      /\ \A k \in 1..n : w[k] \in Changes(D, R)
    BY DEF IsWrittenOut
<1>3. PICK g : ApplyChain(g, base, w) /\ ApplyAll(base, w) = g[n]
    BY ApplyFold
<1>4. g[0] = base /\ \A k \in 1..n : g[k] = ApplyTo(g[k - 1], w[k])
    BY <1>3 DEF ApplyChain
<1>5. \A k \in 0..n : g[k] \in Offers(D)
    BY <1>3, ApplyTypes DEF Offers
<1>6. \A i, j \in 1..q : added[i].name = added[j].name => i = j
    BY DEF OneEach
<1> HIDE DEF p, q, n
<1> DEFINE Holds(k) == ToSet(g[k]) = {t \in ToSet(base) : /\ t.name \notin Gone(k)
                                                          /\ \A d \in New(k) : t.name # d.name} \cup New(k)
           T == {k \in 0..n : Holds(k)}
<1>7. 0 \in T
    <2>1. Gone(0) = {} /\ New(0) = {} /\ 0 \in 0..n
        BY <1>1
    <2> HIDE DEF Gone, New
    <2> QED BY <1>4, <2>1
<1>8. ASSUME NEW k \in 1..n, k - 1 \in T PROVE k \in T
    <2>0. k - 1 \in 0..n /\ k \in 0..n
        BY <1>1
    <2> DEFINE old == g[k - 1]
               c == w[k]
    <2>1. old \in Offers(D) /\ c \in Changes(D, R) /\ g[k] = ApplyTo(old, c)
        BY <1>2, <1>4, <1>5, <2>0
    <2>2. ToSet(old) = {t \in ToSet(base) : /\ t.name \notin Gone(k - 1)
                                            /\ \A d \in New(k - 1) : t.name # d.name} \cup New(k - 1)
        BY <1>8
    <2> HIDE DEF old, c
    <2>s. OneEach(c.added) =>
             ToSet(g[k]) = {t \in ToSet(old) : /\ t.name \notin ToSet(c.removed)
                                               /\ \A d \in ToSet(c.added) : t.name # d.name}
                               \cup ToSet(c.added)
        BY <2>1, ApplySet
    <2>3. CASE k <= p
        <3> DEFINE x == gone[k]
        <3>1. k \in 1..p /\ c = Withdrawal(x)
            BY <1>1, <1>2, <2>3 DEF c
        <3>2. Gone(k) = Gone(k - 1) \cup {x} /\ New(k) = {} /\ New(k - 1) = {}
            <4>1. {i \in 1..p : i <= k} = {i \in 1..p : i <= k - 1} \cup {k}
                BY <1>1, <3>1
            <4>2. {j \in 1..q : p + j <= k} = {} /\ {j \in 1..q : p + j <= k - 1} = {}
                BY <1>1, <3>1
            <4> QED BY <4>1, <4>2
        <3> HIDE DEF x, Gone, New
        <3>3. ToSet(c.added) = {} /\ ToSet(c.removed) = {x} /\ OneEach(c.added)
            <4>1. c.added = <<>> /\ c.removed = <<x>>
                BY <3>1 DEF Withdrawal
            <4>2. ToSet(<<>>) = {} /\ ToSet(<<x>>) = {x} /\ OneEach(<<>>)
                BY Single DEF OneEach
            <4> QED BY <4>1, <4>2
        <3>4. ToSet(g[k]) = {t \in ToSet(old) : t.name # x}
            BY <2>s, <3>3
        <3>5. Holds(k)
            BY <2>2, <3>2, <3>4
        <3> QED BY <2>0, <3>5
    <2>4. CASE ~(k <= p)
        <3> DEFINE j == k - p
                   x == added[j]
        <3>1. j \in 1..q /\ p + j = k
            BY <1>1, <2>4
        <3>2. c = Addition(x)
            BY <1>2, <3>1 DEF c
        <3> HIDE DEF j
        <3>3. Gone(k) = Gone(k - 1) /\ New(k) = New(k - 1) \cup {x}
            <4>1. {i \in 1..p : i <= k} = {i \in 1..p : i <= k - 1}
                BY <1>1, <3>1
            <4>2. {i \in 1..q : p + i <= k} = {i \in 1..q : p + i <= k - 1} \cup {j}
                BY <1>1, <3>1, SMTT(30)
            <4> QED BY <4>1, <4>2
        <3>4. \A d \in New(k - 1) : d.name # x.name
            <4>1. ASSUME NEW i \in 1..q, p + i <= k - 1 PROVE added[i].name # x.name
                <5>1. i # j
                    BY <1>1, <3>1, <4>1
                <5> QED BY <1>6, <3>1, <5>1
            <4> QED BY <4>1
        <3> HIDE DEF x, Gone, New
        <3>5. ToSet(c.added) = {x} /\ ToSet(c.removed) = {} /\ OneEach(c.added)
            <4>1. c.added = <<x>> /\ c.removed = <<>>
                BY <3>2 DEF Addition
            <4>2. ToSet(<<>>) = {} /\ ToSet(<<x>>) = {x} /\ OneEach(<<x>>)
                <5>1. Len(<<x>>) = 1
                    OBVIOUS
                <5>2. \A i, l \in 1..1 : i = l
                    OBVIOUS
                <5> QED BY <5>1, <5>2, Single DEF OneEach
            <4> QED BY <4>1, <4>2
        <3>6. ToSet(g[k]) = {t \in ToSet(old) : t.name # x.name} \cup {x}
            BY <2>s, <3>5
        <3>7. Holds(k)
            BY <2>2, <3>3, <3>4, <3>6
        <3> QED BY <2>0, <3>7
    <2> QED BY <2>3, <2>4
<1>9. n \in T
    <2> HIDE DEF T
    <2>1. \A k \in 0..n : k \in T
        BY <1>1, <1>7, <1>8, Upward
    <2> QED BY <1>1, <2>1
<1>10. Gone(n) = ToSet(gone) /\ New(n) = ToSet(added)
    <2>1. {i \in 1..p : i <= n} = 1..p /\ {j \in 1..q : p + j <= n} = 1..q
        BY <1>1
    <2> QED BY <1>1, <2>1
<1> HIDE DEF Gone, New
<1> QED BY <1>3, <1>9, <1>10

-----------------------------------------------------------------------------
(* Messages of blocks B, those of the system of blocks Y.                    *)
MessagesOf(B, Y) ==
    [role : {"user", "assistant"}, content : Seq(B)] \cup [role : {"system"}, content : Seq(Y)]

(* The changes messages carry.                                               *)
Carried(messages) == FlattenSeq([m \in 1..Len(messages) |-> ChangesIn(messages[m])])

(* What the blocks of the system say are changes.                           *)
CarryChanges(Y) == \A b \in Y : ChangeIn(b) \in Seq(ToolChanges)

(* A block that may be written for a role, and the change it writes.         *)
Suits(role, block, B, Y) ==
    \/ role \in {"user", "assistant"} /\ block \in B
    \/ role = "system" /\ block \in Y

(* Only a block of the system writes a change.                              *)
Writes(role, block) == IF role = "system" THEN ChangeIn(block) ELSE <<>>

(* A message with a block more.                                              *)
WithMore(m, block) == [m EXCEPT !.content = Append(@, block)]

(* One more block of its role adds its change to those of the message.      *)
GrowsBy(m, B, Y) ==
    \A block : Suits(m.role, block, B, Y) =>
        /\ WithMore(m, block) \in MessagesOf(B, Y) /\ WithMore(m, block).role = m.role
        /\ ChangesIn(WithMore(m, block)) = ChangesIn(m) \o Writes(m.role, block)

(* One more block adds its change to those of its message.                   *)
LEMMA MessageGrows ==
    ASSUME NEW B, NEW Y, CarryChanges(Y), NEW m \in MessagesOf(B, Y)
    PROVE  ChangesIn(m) \in Seq(ToolChanges) /\ GrowsBy(m, B, Y)
<1> DEFINE h == [b \in Y |-> ChangeIn(b)]
           Longer(block) == WithMore(m, block)
<1>1. h \in [Y -> Seq(ToolChanges)] /\ \A b \in Y : h[b] = ChangeIn(b)
    BY DEF CarryChanges
<1> HIDE DEF h
<1>2. ASSUME NEW s \in Seq(Y)
      PROVE  FlattenSeq([b \in 1..Len(s) |-> ChangeIn(s[b])]) = Spread(h, s)
    <2>1. \A b \in 1..Len(s) : s[b] \in Y
        OBVIOUS
    <2>2. [b \in 1..Len(s) |-> ChangeIn(s[b])] = [b \in 1..Len(s) |-> h[s[b]]]
        BY <1>1, <2>1
    <2> QED BY <2>2 DEF Spread
<1>3. CASE m.role = "system"
    <2> DEFINE s == m.content
    <2>1. s \in Seq(Y) /\ m = [role |-> "system", content |-> s]
        BY <1>3 DEF MessagesOf
    <2>2. ChangesIn(m) = FlattenSeq([b \in 1..Len(s) |-> ChangeIn(s[b])])
        BY <1>3 DEF ChangesIn
    <2>3. ChangesIn(m) = Spread(h, s)
        BY <1>2, <2>1, <2>2
    <2>4. ChangesIn(m) \in Seq(ToolChanges)
        <3> HIDE DEF s
        <3>1. Spread(h, s) \in Seq(ToolChanges)
            BY <1>1, <2>1, SpreadType
        <3> QED BY <2>3, <3>1
    <2>5. ASSUME NEW block, Suits(m.role, block, B, Y)
          PROVE  /\ Longer(block) \in MessagesOf(B, Y) /\ Longer(block).role = m.role
                 /\ ChangesIn(Longer(block)) = ChangesIn(m) \o Writes(m.role, block)
        <3> DEFINE t == Append(s, block)
        <3>1. block \in Y
            BY <1>3, <2>5 DEF Suits
        <3>2. Longer(block) = [role |-> "system", content |-> t]
            BY <2>1, SMTT(30) DEF WithMore
        <3>3. t \in Seq(Y) /\ t = s \o <<block>>
            BY <2>1, <3>1
        <3> HIDE DEF t, s, Longer
        <3>4. ChangesIn([role |-> "system", content |-> t])
                  = FlattenSeq([b \in 1..Len(t) |-> ChangeIn(t[b])])
            BY DEF ChangesIn
        <3>5. ChangesIn(Longer(block)) = Spread(h, t)
            BY <1>2, <3>2, <3>3, <3>4
        <3>6. Spread(h, s \o <<block>>) = Spread(h, s) \o h[block]
            BY <1>1, <2>1, <3>1, SpreadGrows
        <3>7. Writes(m.role, block) = h[block]
            BY <1>1, <1>3, <3>1 DEF Writes
        <3>8. Longer(block) \in MessagesOf(B, Y) /\ Longer(block).role = m.role
            BY <1>3, <3>2, <3>3 DEF MessagesOf
        <3> QED BY <2>3, <3>3, <3>5, <3>6, <3>7, <3>8
    <2> HIDE DEF Longer
    <2> QED BY <2>4, <2>5 DEF GrowsBy, Longer
<1>4. CASE m.role # "system"
    <2>1. ChangesIn(m) = <<>>
        BY <1>4 DEF ChangesIn
    <2>2. m.role \in {"user", "assistant"} /\ m.content \in Seq(B) /\ m = [role |-> m.role, content |-> m.content]
        BY <1>4 DEF MessagesOf
    <2>3. ASSUME NEW block, Suits(m.role, block, B, Y)
          PROVE  /\ Longer(block) \in MessagesOf(B, Y) /\ Longer(block).role = m.role
                 /\ ChangesIn(Longer(block)) = ChangesIn(m) \o Writes(m.role, block)
        <3>1. block \in B
            BY <1>4, <2>3 DEF Suits
        <3>2. Longer(block) = [role |-> m.role, content |-> Append(m.content, block)]
            BY <2>2 DEF WithMore
        <3>3. Append(m.content, block) \in Seq(B)
            BY <2>2, <3>1
        <3>4. Longer(block) \in MessagesOf(B, Y) /\ Longer(block).role = m.role
            BY <2>2, <3>2, <3>3 DEF MessagesOf
        <3> HIDE DEF Longer
        <3>5. ChangesIn(Longer(block)) = <<>> /\ Writes(m.role, block) = <<>>
            BY <1>4, <3>4 DEF ChangesIn, Writes
        <3>6. <<>> \o <<>> = <<>>
            OBVIOUS
        <3> QED BY <2>1, <3>4, <3>5, <3>6
    <2>4. <<>> \in Seq(ToolChanges)
        OBVIOUS
    <2> HIDE DEF Longer
    <2> QED BY <2>1, <2>3, <2>4 DEF GrowsBy, Longer
<1> QED BY <1>3, <1>4

(* A message of one block.                                                   *)
LEMMA MessageOne ==
    ASSUME NEW B, NEW Y, CarryChanges(Y), NEW role, NEW block, Suits(role, block, B, Y)
    PROVE  LET m == [role |-> role, content |-> <<block>>]
           IN  m \in MessagesOf(B, Y) /\ ChangesIn(m) = Writes(role, block)
<1> DEFINE e == [role |-> role, content |-> <<>>]
           m == [role |-> role, content |-> <<block>>]
<1>1. e \in MessagesOf(B, Y) /\ e.role = role
    BY DEF Suits, MessagesOf
<1>2. WithMore(e, block) = m
    BY DEF WithMore
<1>3. ChangesIn(e) = <<>>
    <2>1. FlattenSeq([b \in 1..Len(<<>>) |-> ChangeIn(<<>>[b])]) = <<>>
        <3> DEFINE F == [b \in 1..Len(<<>>) |-> ChangeIn(<<>>[b])]
        <3>1. Len(<<>>) \in Nat /\ F = [b \in 1..Len(<<>>) |-> F[b]] /\ \A b \in 1..Len(<<>>) : F[b] = <<>>
            OBVIOUS
        <3> HIDE DEF F
        <3>2. FlattenSeq(F) = <<>>
            BY <3>1, FlatNothing
        <3> QED BY <3>2 DEF F
    <2>2. e.content = <<>>
        OBVIOUS
    <2> HIDE DEF e
    <2> QED BY <2>1, <2>2, Zenon DEF ChangesIn
<1>4. Writes(role, block) \in Seq(ToolChanges)
    BY DEF Writes, Suits, CarryChanges
<1> HIDE DEF e, m
<1>5. m \in MessagesOf(B, Y) /\ ChangesIn(m) = ChangesIn(e) \o Writes(role, block)
    <2>1. GrowsBy(e, B, Y)
        BY <1>1, MessageGrows
    <2>2. Suits(e.role, block, B, Y)
        BY <1>1
    <2> QED BY <1>1, <1>2, <2>1, <2>2 DEF GrowsBy
<1>6. <<>> \o Writes(role, block) = Writes(role, block)
    BY <1>4, ConcatEmptySeq
<1> QED BY <1>3, <1>5, <1>6 DEF m

(* The longer messages are messages and carry the block's change last.       *)
Continued(longer, messages, role, block, B, Y) ==
    /\ longer \in Seq(MessagesOf(B, Y))
    /\ LastPosition(longer) \in Nat \X Nat
    /\ Carried(messages) \in Seq(ToolChanges) /\ Writes(role, block) \in Seq(ToolChanges)
    /\ Carried(longer) = Carried(messages) \o Writes(role, block)

(* Messages with the change a block writes after theirs.                     *)
LEMMA AppendMessageFacts ==
    ASSUME NEW B, NEW Y, CarryChanges(Y), NEW messages \in Seq(MessagesOf(B, Y)),
           NEW role, NEW block, Suits(role, block, B, Y)
    PROVE  Continued(AppendMessage(messages, role, block), messages, role, block, B, Y)
<1> DEFINE M == MessagesOf(B, Y)
           h == [m \in M |-> ChangesIn(m)]
           n == Len(messages)
           longer == AppendMessage(messages, role, block)
           w == Writes(role, block)
<1>1. \A m \in M : ChangesIn(m) \in Seq(ToolChanges) /\ GrowsBy(m, B, Y)
    BY MessageGrows
<1>2. h \in [M -> Seq(ToolChanges)] /\ \A m \in M : h[m] = ChangesIn(m)
    BY <1>1
<1> HIDE DEF h
<1>3. ASSUME NEW s \in Seq(M) PROVE Carried(s) = Spread(h, s)
    <2>1. \A b \in 1..Len(s) : s[b] \in M
        BY <1>3
    <2> HIDE DEF M
    <2>2. [b \in 1..Len(s) |-> ChangesIn(s[b])] = [b \in 1..Len(s) |-> h[s[b]]]
        BY <1>2, <2>1
    <2> QED BY <2>2 DEF Carried, Spread
<1>4. w \in Seq(ToolChanges) /\ Carried(messages) \in Seq(ToolChanges)
    <2>1. w \in Seq(ToolChanges)
        BY DEF Writes, Suits, CarryChanges
    <2>2. Spread(h, messages) \in Seq(ToolChanges)
        <3> HIDE DEF M
        <3>1. messages \in Seq(M)
            BY DEF M
        <3> QED BY <1>2, <3>1, SpreadType
    <2>3. Carried(messages) = Spread(h, messages)
        BY <1>3
    <2> QED BY <2>1, <2>2, <2>3
<1>p. ASSUME NEW s \in Seq(M), s # <<>> PROVE LastPosition(s) \in Nat \X Nat
    <2>1. Len(s) \in Nat /\ Len(s) \in 1..Len(s) /\ s[Len(s)] \in M
        BY <1>p
    <2>2. Last(s) = s[Len(s)]
        BY DEF Last
    <2>3. \A m \in M : Len(m.content) \in Nat
        BY DEF MessagesOf
    <2> HIDE DEF M
    <2> QED BY <2>1, <2>2, <2>3 DEF LastPosition
<1>5. CASE messages # <<>> /\ Last(messages).role = role
    <2> DEFINE last  == messages[n]
               front == SubSeq(messages, 1, n - 1)
               more  == WithMore(last, block)
    <2>1. /\ n \in Nat /\ n >= 1 /\ n \in 1..n /\ last \in M /\ Last(messages) = last
          /\ messages \in [1..n -> M]
        BY <1>5 DEF Last
    <2>2. longer = [messages EXCEPT ![n] = more]
        BY <1>5 DEF AppendMessage, WithMore
    <2>3. front \in Seq(M) /\ Len(front) = n - 1 /\ \A i \in 1..(n - 1) : front[i] = messages[i]
        BY <2>1
    <2>4. last.role = role
        BY <1>5, <2>1
    <2> HIDE DEF more, last, front
    <2>5. /\ more \in M /\ more.role = role
          /\ ChangesIn(more) = ChangesIn(last) \o w
        <3>1. GrowsBy(last, B, Y) /\ Suits(last.role, block, B, Y)
            BY <1>1, <2>1, <2>4
        <3> QED BY <2>4, <3>1 DEF GrowsBy, more
    <2> HIDE DEF M, longer, n, w
    <2>6. longer \in Seq(M) /\ Len(longer) = n /\ longer[n] = more
          /\ \A i \in 1..(n - 1) : longer[i] = messages[i]
        <3>1. longer \in [1..n -> M]
            BY <2>1, <2>2, <2>5
        <3>2. longer \in Seq(M) /\ Len(longer) = n
            BY <2>1, <3>1
        <3>3. longer[n] = more /\ \A i \in 1..(n - 1) : longer[i] = messages[i]
            BY <2>1, <2>2
        <3> QED BY <3>2, <3>3
    <2>7. ASSUME NEW x \in M
          PROVE  /\ front \o <<x>> \in Seq(M) /\ Len(front \o <<x>>) = n
                 /\ (front \o <<x>>)[n] = x /\ \A i \in 1..(n - 1) : (front \o <<x>>)[i] = messages[i]
        <3>1. <<x>> \in Seq(M) /\ Len(<<x>>) = 1 /\ <<x>>[1] = x
            BY <2>7
        <3>2. /\ front \o <<x>> \in Seq(M) /\ Len(front \o <<x>>) = (n - 1) + 1
              /\ \A i \in 1..((n - 1) + 1) : (front \o <<x>>)[i] = IF i <= n - 1 THEN front[i] ELSE <<x>>[i - (n - 1)]
            BY <2>3, <3>1, ConcatProperties
        <3>3. (n - 1) + 1 = n /\ ~(n <= n - 1) /\ n - (n - 1) = 1 /\ n \in 1..n
            BY <2>1
        <3>4. \A i \in 1..(n - 1) : i \in 1..n /\ i <= n - 1
            BY <2>1
        <3> QED BY <2>3, <3>1, <3>2, <3>3, <3>4
    <2>8. longer = front \o <<more>>
        <3> DEFINE s == front \o <<more>>
        <3>1. s \in Seq(M) /\ Len(s) = n /\ s[n] = more /\ \A i \in 1..(n - 1) : s[i] = messages[i]
            BY <2>5, <2>7
        <3> HIDE DEF s
        <3>2. \A i \in 1..n : longer[i] = s[i]
            <4>1. \A i \in 1..n : i = n \/ i \in 1..(n - 1)
                BY <2>1
            <4> QED BY <2>6, <3>1, <4>1
        <3>3. longer = s
            BY <2>6, <3>1, <3>2, SeqEqual
        <3> QED BY <3>3 DEF s
    <2>9. messages = front \o <<last>>
        <3> DEFINE s == front \o <<last>>
        <3>1. s \in Seq(M) /\ Len(s) = n /\ s[n] = last /\ \A i \in 1..(n - 1) : s[i] = messages[i]
            BY <2>1, <2>7
        <3>0. messages \in Seq(M) /\ Len(messages) = n /\ messages[n] = last
            BY DEF M, n, last
        <3> HIDE DEF s
        <3>2. \A i \in 1..n : messages[i] = s[i]
            <4>1. \A i \in 1..n : i = n \/ i \in 1..(n - 1)
                BY <2>1
            <4> QED BY <3>0, <3>1, <4>1
        <3>3. messages = s
            BY <3>0, <3>1, <3>2, SeqEqual
        <3> QED BY <3>3 DEF s
    <2>10. Carried(longer) = Carried(messages) \o w
        <3>1. Spread(h, front \o <<more>>) = Spread(h, front) \o h[more]
            BY <1>2, <2>3, <2>5, SpreadGrows
        <3>2. Spread(h, front \o <<last>>) = Spread(h, front) \o h[last]
            BY <1>2, <2>1, <2>3, SpreadGrows
        <3>3. messages \in Seq(M)
            BY DEF M
        <3>4. Carried(longer) = Spread(h, front) \o h[more] /\ Carried(messages) = Spread(h, front) \o h[last]
            BY <1>3, <2>6, <2>8, <2>9, <3>1, <3>2, <3>3
        <3> DEFINE a == Spread(h, front)
                   b == h[last]
        <3>5. a \in Seq(ToolChanges) /\ b \in Seq(ToolChanges) /\ h[more] = b \o w
            <4>1. a \in Seq(ToolChanges)
                BY <1>2, <2>3, SpreadType
            <4> QED BY <1>2, <2>1, <2>5, <4>1
        <3> HIDE DEF a, b
        <3>6. (a \o b) \o w = a \o (b \o w)
            BY <1>4, <3>5, ConcatAssociative, SMTT(30)
        <3> QED BY <3>4, <3>5, <3>6 DEF a, b
    <2>11. longer # <<>> /\ Last(longer).role = role
        BY <2>1, <2>5, <2>6 DEF Last
    <2>12. LastPosition(longer) \in Nat \X Nat
        BY <1>p, <2>6, <2>11
    <2> QED BY <1>4, <2>6, <2>10, <2>11, <2>12 DEF M, longer, w, Continued
<1>6. CASE ~(messages # <<>> /\ Last(messages).role = role)
    <2> DEFINE m == [role |-> role, content |-> <<block>>]
    <2>1. longer = Append(messages, m)
        BY <1>6 DEF AppendMessage
    <2>2. m.role = role
        OBVIOUS
    <2> HIDE DEF m
    <2>3. m \in M /\ ChangesIn(m) = w
        BY MessageOne DEF m
    <2> HIDE DEF M, longer, w
    <2>4. messages \in Seq(M)
        BY DEF M
    <2>5. longer \in Seq(M) /\ longer = messages \o <<m>> /\ longer # <<>> /\ Last(longer) = m
        BY <2>1, <2>3, <2>4 DEF Last
    <2>6. Spread(h, messages \o <<m>>) = Spread(h, messages) \o h[m]
        BY <1>2, <2>3, <2>4, SpreadGrows
    <2>7. Carried(longer) = Carried(messages) \o w
        BY <1>2, <1>3, <2>3, <2>4, <2>5, <2>6
    <2>8. LastPosition(longer) \in Nat \X Nat
        BY <1>p, <2>5
    <2> QED BY <1>4, <2>2, <2>5, <2>7, <2>8 DEF M, longer, w, Continued
<1> QED BY <1>5, <1>6

(* A rendering so far.                                                       *)
At(B, Y) ==
    [messages : Seq(MessagesOf(B, Y)), sealed : SUBSET (Nat \X Nat), changes : SUBSET (Nat \X Nat),
     offered : Offers(Definitions), ok : BOOLEAN]

(* Nothing about the tools is different.                                     *)
SameTools(later, at) ==
    later.offered = at.offered /\ later.ok = at.ok /\ Carried(later.messages) = Carried(at.messages)

(* A block written for a role without a change.                              *)
Harmless(role, block, B, Y) == Suits(role, block, B, Y) /\ Writes(role, block) = <<>>

(* Written, it keeps the tools offered and the changes said.                *)
LEMMA HarmlessFacts ==
    ASSUME NEW B, NEW Y, CarryChanges(Y), NEW at \in At(B, Y), NEW role, NEW block,
           Harmless(role, block, B, Y)
    PROVE  /\ WithBlock(at, role, block) \in At(B, Y) /\ SameTools(WithBlock(at, role, block), at)
           /\ role = "assistant" =>
                  AppendSealed(at, block) \in At(B, Y) /\ SameTools(AppendSealed(at, block), at)
<1> DEFINE old == at.messages
           new == AppendMessage(old, role, block)
           with == WithBlock(at, role, block)
           sealed == AppendSealed(at, block)
<1>1. old \in Seq(MessagesOf(B, Y))
    BY DEF At
<1> HIDE DEF old
<1>s. Suits(role, block, B, Y)
    BY DEF Harmless
<1>2. /\ new \in Seq(MessagesOf(B, Y)) /\ LastPosition(new) \in Nat \X Nat
      /\ Carried(old) \in Seq(ToolChanges)
      /\ Carried(new) = Carried(old) \o Writes(role, block)
    <2>1. Continued(new, old, role, block, B, Y)
        BY <1>1, <1>s, AppendMessageFacts
    <2> HIDE DEF new
    <2> QED BY <2>1 DEF Continued
<1>3. Carried(new) = Carried(old)
    <2>1. Writes(role, block) = <<>>
        BY DEF Harmless
    <2>2. Carried(old) \o <<>> = Carried(old)
        BY <1>2, ConcatEmptySeq
    <2> QED BY <1>2, <2>1, <2>2
<1>4. with = [at EXCEPT !.messages = new]
    BY DEF WithBlock, old
<1>5. role = "assistant" => sealed = [at EXCEPT !.messages = new, !.sealed = @ \cup {LastPosition(new)}]
    BY DEF AppendSealed, old
<1> HIDE DEF new, with, sealed
<1>6. with \in At(B, Y) /\ with.messages = new /\ with.offered = at.offered /\ with.ok = at.ok
    BY <1>2, <1>4 DEF At
<1>7. ASSUME role = "assistant"
      PROVE  sealed \in At(B, Y) /\ sealed.messages = new /\ sealed.offered = at.offered /\ sealed.ok = at.ok
    <2> DEFINE p == LastPosition(new)
    <2> HIDE DEF p
    <2>1. sealed = [at EXCEPT !.messages = new, !.sealed = @ \cup {p}] /\ p \in Nat \X Nat
        BY <1>2, <1>5, <1>7 DEF p
    <2>2. at.sealed \cup {p} \in SUBSET (Nat \X Nat)
        BY <2>1 DEF At
    <2> QED BY <1>2, <2>1, <2>2 DEF At
<1> QED BY <1>3, <1>6, <1>7 DEF SameTools, with, sealed, old

(* A block of a change adds what it says to the changes carried.             *)
LEMMA AppendChangeBlockFacts ==
    ASSUME NEW B, NEW Y, CarryChanges(Y), NEW at \in At(B, Y), NEW block \in Y
    PROVE  LET later == AppendChangeBlock(at, block)
           IN  /\ later \in At(B, Y) /\ later.offered = at.offered /\ later.ok = at.ok
               /\ Carried(at.messages) \in Seq(ToolChanges)
               /\ Carried(later.messages) = Carried(at.messages) \o ChangeIn(block)
<1> DEFINE old == at.messages
           new == AppendMessage(old, "system", block)
           later == AppendChangeBlock(at, block)
           p == LastPosition(new)
<1>1. old \in Seq(MessagesOf(B, Y))
    BY DEF At
<1> HIDE DEF old
<1>2. Suits("system", block, B, Y) /\ Writes("system", block) = ChangeIn(block)
    BY DEF Suits, Writes
<1>3. /\ new \in Seq(MessagesOf(B, Y)) /\ p \in Nat \X Nat
      /\ Carried(old) \in Seq(ToolChanges)
      /\ Carried(new) = Carried(old) \o Writes("system", block)
    <2>1. Continued(new, old, "system", block, B, Y)
        BY <1>1, <1>2, AppendMessageFacts
    <2> HIDE DEF new
    <2> QED BY <2>1 DEF Continued
<1>4. later = [at EXCEPT !.messages = new, !.changes = @ \cup {p}]
    BY DEF AppendChangeBlock, old
<1> HIDE DEF new, later, p
<1>5. at.changes \cup {p} \in SUBSET (Nat \X Nat)
    BY <1>3 DEF At
<1>6. later \in At(B, Y) /\ later.messages = new /\ later.offered = at.offered /\ later.ok = at.ok
    <2> DEFINE c == at.changes \cup {p}
    <2> HIDE DEF c
    <2>1. later = [at EXCEPT !.messages = new, !.changes = c] /\ c \in SUBSET (Nat \X Nat)
        BY <1>4, <1>5 DEF c
    <2> QED BY <1>3, <2>1 DEF At
<1> QED BY <1>2, <1>3, <1>6 DEF later, old

(* The blocks of a change written one at a time.                            *)
ChangeBlockChain(g, base, seq) ==
    g[0] = base /\ \A k \in 1..Len(seq) : g[k] = AppendChangeBlock(g[k - 1], seq[k])

(* Writing the blocks of a change, one at a time.                            *)
LEMMA ChangeBlocksFold ==
    ASSUME NEW B, NEW Y, CarryChanges(Y), NEW base \in At(B, Y), NEW seq \in Seq(Y)
    PROVE  \E g : ChangeBlockChain(g, base, seq) /\ FoldLeft(AppendChangeBlock, base, seq) = g[Len(seq)]
<1> DEFINE n == Len(seq)
           IsIter(f) == f = [s \in SUBSET DOMAIN seq |->
                                IF s = {} THEN base ELSE AppendChangeBlock(f[s \ {Max(s)}], seq[Max(s)])]
           iter == CHOOSE f : IsIter(f)
           step == [i \in 1..n |-> [t \in At(B, Y) |-> AppendChangeBlock(t, seq[i])]]
           g    == [k \in 0..n |-> iter[1..k]]
<1>1. n \in Nat /\ DOMAIN seq = 1..n /\ \A i \in 1..n : seq[i] \in Y
    OBVIOUS
<1>2. FoldLeft(AppendChangeBlock, base, seq) = iter[DOMAIN seq]
    BY Zenon DEF FoldLeft, MapThenFoldSet
<1> HIDE DEF n
<1>3. step \in [1..n -> [At(B, Y) -> At(B, Y)]]
    BY <1>1, AppendChangeBlockFacts
<1>4. \E f : IsIter(f)
    <2>0. PICK f : IsFold(f, At(B, Y), base, n, step)
        <3>1. n \in Nat
            BY <1>1
        <3> HIDE DEF step
        <3> QED BY <1>3, <3>1, FoldExists
    <2>1. /\ f \in [SUBSET (1..n) -> At(B, Y)]
          /\ \A s \in SUBSET (1..n) :
                f[s] = IF s = {} THEN base ELSE step[Max(s)][f[s \ {Max(s)}]]
        <3> HIDE DEF step
        <3> QED BY <2>0 DEF IsFold
    <2>2. ASSUME NEW s \in SUBSET (1..n)
          PROVE  f[s] = IF s = {} THEN base ELSE AppendChangeBlock(f[s \ {Max(s)}], seq[Max(s)])
        <3>1. CASE s = {}
            BY <2>1, <3>1
        <3>2. CASE s # {}
            <4>1. Max(s) \in 1..n
                BY <1>1, <3>2, MaxIn
            <4>2. f[s \ {Max(s)}] \in At(B, Y)
                BY <2>1
            <4>3. f[s] = step[Max(s)][f[s \ {Max(s)}]]
                BY <2>1, <3>2
            <4> QED BY <3>2, <4>1, <4>2, <4>3
        <3> QED BY <3>1, <3>2
    <2>3. f = [s \in SUBSET (1..n) |-> f[s]]
        BY <2>1
    <2>4. f = [s \in SUBSET (1..n) |->
                  IF s = {} THEN base ELSE AppendChangeBlock(f[s \ {Max(s)}], seq[Max(s)])]
        BY <2>2, <2>3
    <2> QED BY <1>1, <2>4
<1>5. IsIter(iter)
    BY <1>4, Zenon
<1> HIDE DEF iter
<1>6. \A s \in SUBSET (1..n) :
          iter[s] = IF s = {} THEN base ELSE AppendChangeBlock(iter[s \ {Max(s)}], seq[Max(s)])
    BY <1>1, <1>5
<1>7. g[0] = base
    <2>1. 1..0 = {} /\ 0 \in 0..n
        BY <1>1
    <2>2. g[0] = iter[{}]
        BY <2>1
    <2>3. iter[{}] = base
        <3>1. {} \in SUBSET (1..n)
            OBVIOUS
        <3> HIDE DEF g
        <3> QED BY <1>6, <3>1, Zenon
    <2> QED BY <2>2, <2>3
<1>8. ASSUME NEW k \in 1..n PROVE g[k] = AppendChangeBlock(g[k - 1], seq[k])
    <2>1. Max(1..k) = k /\ (1..k) \ {k} = 1..(k - 1)
        BY <1>1, MaxUpTo
    <2>2. g[k] = iter[1..k] /\ g[k - 1] = iter[1..(k - 1)]
        BY <1>1
    <2>3. 1..k \in SUBSET (1..n) /\ 1..k # {}
        <3>1. k \in 1..k /\ \A j \in 1..k : j \in 1..n
            BY <1>1
        <3> QED BY <3>1
    <2> QED BY <1>6, <2>1, <2>2, <2>3
<1>9. g[n] = iter[1..n]
    BY <1>1
<1> HIDE DEF g
<1>10. ChangeBlockChain(g, base, seq)
    BY <1>7, <1>8 DEF ChangeBlockChain, n
<1> QED BY <1>1, <1>2, <1>9, <1>10 DEF n

(* The blocks of a change, and what they say.                                *)
RemovalBlock(name)  == [type |-> "tool_removal", name |-> name]
AdditionBlock(tool) == [type |-> "tool_addition", tool |-> tool]

(* The blocks of the system include those of every change.                  *)
HoldsChanges(Y) ==
    /\ CarryChanges(Y)
    /\ \A name \in ToolNames : RemovalBlock(name) \in Y
    /\ \A tool \in Definitions : AdditionBlock(tool) \in Y

(* The names withdrawn where a change is written: those not defined again.   *)
Gone(change, offered) == Only(change.removed, ToSet(Names(offered)) \ ToSet(Names(change.added)))

(* The change of a segment.                                                 *)
Change(s) == [added |-> s.added, removed |-> s.removed]

(* The names of tools are their names.                                      *)
LEMMA NamesOf ==
    ASSUME NEW tools, Len(tools) \in Nat, DOMAIN tools = 1..Len(tools)
    PROVE  ToSet(Names(tools)) = {t.name : t \in ToSet(tools)}
<1>1. DOMAIN Names(tools) = 1..Len(tools) /\ \A i \in 1..Len(tools) : Names(tools)[i] = tools[i].name
    BY DEF Names
<1>2. ToSet(Names(tools)) = {tools[i].name : i \in 1..Len(tools)}
    BY <1>1 DEF ToSet
<1>3. ToSet(tools) = {tools[i] : i \in 1..Len(tools)}
    BY DEF ToSet
<1> QED BY <1>2, <1>3

(* Writing a change out changes what is offered as the change itself does.   *)
LEMMA GoneFacts ==
    ASSUME NEW change \in ToolChanges, OneEach(change.added), NEW offered \in Offers(Definitions),
           NEW base \in Offers(Definitions), ToSet(base) = ToSet(offered),
           NEW w \in Seq(ToolChanges), IsWrittenOut(w, Gone(change, offered), change.added)
    PROVE  ToSet(ApplyAll(base, w)) = ToSet(ApplyTo(offered, change))
<1> DEFINE gone == Gone(change, offered)
           added == change.added
           wanted == ToSet(Names(offered)) \ ToSet(Names(added))
<1>1. added \in Seq(Definitions) /\ change.removed \in Seq(ToolNames)
    BY DEF ToolChanges, Changes
<1>2. gone \in Seq(ToolNames) /\ ToSet(gone) = ToSet(change.removed) \cap wanted
    BY <1>1, OnlyFacts DEF Gone
<1>3. ToSet(Names(offered)) = {t.name : t \in ToSet(offered)}
    <2>1. Len(offered) \in Nat /\ DOMAIN offered = 1..Len(offered)
        BY DEF Offers
    <2> QED BY <2>1, NamesOf
<1>4. ToSet(Names(added)) = {t.name : t \in ToSet(added)}
    <2>1. Len(added) \in Nat /\ DOMAIN added = 1..Len(added)
        BY <1>1
    <2> HIDE DEF added
    <2> QED BY <2>1, NamesOf
<1>5. /\ w \in Seq(Changes(Definitions, ToolNames)) /\ IsWrittenOut(w, gone, added)
      /\ OneEach(added)
    BY DEF ToolChanges
<1>6. change \in Changes(Definitions, ToolNames)
    BY DEF ToolChanges
<1>7. ToSet(ApplyTo(offered, change)) =
          {t \in ToSet(offered) : /\ t.name \notin ToSet(change.removed)
                                  /\ \A d \in ToSet(change.added) : t.name # d.name}
              \cup ToSet(change.added)
    BY <1>6, ApplySet
<1> HIDE DEF gone, added
<1>8. ToSet(ApplyAll(base, w)) =
          {t \in ToSet(base) : t.name \notin ToSet(gone) /\ \A d \in ToSet(added) : t.name # d.name}
              \cup ToSet(added)
    BY <1>1, <1>2, <1>5, WrittenOut
<1>9. \A t \in ToSet(offered) : (\A d \in ToSet(added) : t.name # d.name) =>
          (t.name \in ToSet(gone) <=> t.name \in ToSet(change.removed))
    BY <1>2, <1>3, <1>4
<1> DEFINE X == ToSet(base)
           A == ToSet(added)
           G == ToSet(gone)
           H == ToSet(change.removed)
<1>10. /\ ToSet(ApplyAll(base, w)) = {t \in X : t.name \notin G /\ \A d \in A : t.name # d.name} \cup A
       /\ ToSet(ApplyTo(offered, change)) = {t \in X : t.name \notin H /\ \A d \in A : t.name # d.name} \cup A
       /\ \A t \in X : (\A d \in A : t.name # d.name) => (t.name \in G <=> t.name \in H)
    BY <1>7, <1>8, <1>9 DEF added
<1> HIDE DEF X, A, G, H
<1> QED BY <1>10

-----------------------------------------------------------------------------
(* What the blocks of a change say, one after another.                       *)
Saying(gone, added) ==
    [k \in 1..(Len(gone) + Len(added)) |->
       IF k <= Len(gone) THEN Withdrawal(gone[k]) ELSE Addition(added[k - Len(gone)])]

(* It is a sequence of changes, written out.                                *)
LEMMA SayingFacts ==
    ASSUME NEW gone \in Seq(ToolNames), NEW added \in Seq(Definitions)
    PROVE  Saying(gone, added) \in Seq(ToolChanges) /\ IsWrittenOut(Saying(gone, added), gone, added)
<1> DEFINE p == Len(gone)
           q == Len(added)
           w == Saying(gone, added)
<1>1. /\ p \in Nat /\ q \in Nat
      /\ (\A i \in 1..p : gone[i] \in ToolNames) /\ \A j \in 1..q : added[j] \in Definitions
    OBVIOUS
<1>2. w = [k \in 1..(p + q) |-> IF k <= p THEN Withdrawal(gone[k]) ELSE Addition(added[k - p])]
    BY DEF Saying
<1>3. \A name \in ToolNames : Withdrawal(name) \in ToolChanges
    BY DEF Withdrawal, ToolChanges, Changes
<1>4. \A tool \in Definitions : Addition(tool) \in ToolChanges
    BY DEF Addition, ToolChanges, Changes
<1> HIDE DEF p, q
<1>5. \A k \in 1..(p + q) : (IF k <= p THEN Withdrawal(gone[k]) ELSE Addition(added[k - p])) \in ToolChanges
    <2> TAKE k \in 1..(p + q)
    <2>1. CASE k <= p
        <3>1. k \in 1..p
            BY <1>1, <2>1
        <3> QED BY <1>1, <1>3, <2>1, <3>1
    <2>2. CASE ~(k <= p)
        <3>1. k - p \in 1..q
            BY <1>1, <2>2
        <3> QED BY <1>1, <1>4, <2>2, <3>1
    <2> QED BY <2>1, <2>2
<1> HIDE DEF w
<1>6. w \in [1..(p + q) -> ToolChanges] /\ p + q \in Nat
    <2> DEFINE n == p + q
               E(k) == IF k <= p THEN Withdrawal(gone[k]) ELSE Addition(added[k - p])
    <2>1. w = [k \in 1..n |-> E(k)] /\ \A k \in 1..n : E(k) \in ToolChanges
        BY <1>2, <1>5
    <2>2. n \in Nat
        BY <1>1
    <2> HIDE DEF n, E
    <2>3. w \in [1..n -> ToolChanges]
        BY <2>1
    <2> QED BY <2>2, <2>3 DEF n
<1>7. w \in Seq(ToolChanges) /\ Len(w) = p + q
    <2> DEFINE n == p + q
    <2>1. w \in [1..n -> ToolChanges] /\ n \in Nat
        BY <1>6
    <2> HIDE DEF n
    <2>2. w \in Seq(ToolChanges) /\ Len(w) = n
        BY <2>1
    <2> QED BY <2>2 DEF n
<1>8. \A i \in 1..p : w[i] = Withdrawal(gone[i])
    <2>1. \A i \in 1..p : i \in 1..(p + q) /\ i <= p
        BY <1>1
    <2> QED BY <1>2, <2>1
<1>9. \A j \in 1..q : w[p + j] = Addition(added[j])
    <2>1. \A j \in 1..q : p + j \in 1..(p + q) /\ ~(p + j <= p) /\ (p + j) - p = j
        BY <1>1
    <2> QED BY <1>2, <2>1
<1> QED BY <1>7, <1>8, <1>9 DEF IsWrittenOut, w, p, q

(* Each block of a change says its part of it.                               *)
LEMMA BlocksSay ==
    ASSUME NEW Y, HoldsChanges(Y), NEW change, NEW offered,
           NEW gone \in Seq(ToolNames), gone = Gone(change, offered), change.added \in Seq(Definitions)
    PROVE  LET blocks_ == ToolChangeBlocks(change, offered)
               w == Saying(gone, change.added)
           IN  /\ blocks_ \in Seq(Y) /\ Len(blocks_) = Len(w)
               /\ \A k \in 1..Len(w) : ChangeIn(blocks_[k]) = <<w[k]>>
<1> DEFINE added == change.added
           p == Len(gone)
           q == Len(added)
           first == [i \in 1..p |-> RemovalBlock(gone[i])]
           then  == [i \in 1..q |-> AdditionBlock(added[i])]
           bs    == ToolChangeBlocks(change, offered)
           w     == Saying(gone, added)
<1>1. bs = first \o then
    BY DEF ToolChangeBlocks, Gone, RemovalBlock, AdditionBlock
<1>2. /\ p \in Nat /\ q \in Nat
      /\ (\A i \in 1..p : gone[i] \in ToolNames) /\ \A j \in 1..q : added[j] \in Definitions
    OBVIOUS
<1>3. w = [k \in 1..(p + q) |-> IF k <= p THEN Withdrawal(gone[k]) ELSE Addition(added[k - p])]
    BY DEF Saying
<1>s. w \in Seq(ToolChanges) /\ Len(w) = p + q
    <2>1. w \in Seq(ToolChanges) /\ IsWrittenOut(w, gone, added)
        BY SayingFacts
    <2> QED BY <2>1 DEF IsWrittenOut
<1> HIDE DEF added, p, q, bs, w
<1>4. first \in Seq(Y) /\ Len(first) = p /\ \A i \in 1..p : first[i] = RemovalBlock(gone[i])
    <2>1. first \in [1..p -> Y]
        BY <1>2 DEF HoldsChanges
    <2>2. \A i \in 1..p : first[i] = RemovalBlock(gone[i])
        OBVIOUS
    <2> HIDE DEF first
    <2> QED BY <1>2, <2>1, <2>2
<1>5. then \in Seq(Y) /\ Len(then) = q /\ \A i \in 1..q : then[i] = AdditionBlock(added[i])
    <2>1. then \in [1..q -> Y]
        BY <1>2 DEF HoldsChanges
    <2>2. \A i \in 1..q : then[i] = AdditionBlock(added[i])
        OBVIOUS
    <2> HIDE DEF then
    <2> QED BY <1>2, <2>1, <2>2
<1> HIDE DEF first, then
<1>6. /\ bs \in Seq(Y) /\ Len(bs) = p + q
      /\ \A k \in 1..(p + q) : bs[k] = IF k <= p THEN first[k] ELSE then[k - p]
    <2>1. first \o then \in Seq(Y) /\ Len(first \o then) = p + q
        <3>1. first \o then \in Seq(Y) /\ Len(first \o then) = Len(first) + Len(then)
            BY <1>4, <1>5, ConcatProperties
        <3> QED BY <1>4, <1>5, <3>1
    <2>2. ASSUME NEW k \in 1..(p + q)
          PROVE  (first \o then)[k] = IF k <= p THEN first[k] ELSE then[k - p]
        <3>1. /\ first \in Seq(Y) /\ then \in Seq(Y)
              /\ k \in 1..(Len(first) + Len(then)) /\ Len(first) = p
            BY <1>4, <1>5
        <3> QED BY <3>1, ConcatProperties
    <2> QED BY <1>1, <2>1, <2>2
<1>7. \A x : ChangeIn(RemovalBlock(x)) = <<Withdrawal(x)>> /\ ChangeIn(AdditionBlock(x)) = <<Addition(x)>>
    BY DEF ChangeIn, RemovalBlock, AdditionBlock, Withdrawal, Addition
<1>8. \A k \in 1..(p + q) : ChangeIn(bs[k]) = <<w[k]>>
    <2> TAKE k \in 1..(p + q)
    <2>1. CASE k <= p
        <3>1. k \in 1..p
            BY <1>2, <2>1
        <3>2. bs[k] = RemovalBlock(gone[k]) /\ w[k] = Withdrawal(gone[k])
            BY <1>3, <1>4, <1>6, <2>1, <3>1
        <3> QED BY <1>7, <3>2
    <2>2. CASE ~(k <= p)
        <3>1. k - p \in 1..q
            BY <1>2, <2>2
        <3>2. bs[k] = AdditionBlock(added[k - p]) /\ w[k] = Addition(added[k - p])
            BY <1>3, <1>5, <1>6, <2>2, <3>1
        <3> QED BY <1>7, <3>2
    <2> QED BY <2>1, <2>2
<1> QED BY <1>6, <1>8, <1>s DEF bs, w, added

(* What is offered according to the messages is what the rendering keeps.    *)
Offering(base, at) == ToSet(ApplyAll(base, Carried(at.messages))) = ToSet(at.offered)

(* Writing the blocks adds all they say to the changes carried.              *)
LEMMA WritingFacts ==
    ASSUME NEW B, NEW Y, CarryChanges(Y), NEW at \in At(B, Y), NEW seq \in Seq(Y),
           NEW w \in Seq(ToolChanges), Len(seq) = Len(w), \A k \in 1..Len(w) : ChangeIn(seq[k]) = <<w[k]>>
    PROVE  LET later == FoldLeft(AppendChangeBlock, at, seq)
           IN  /\ later \in At(B, Y) /\ later.offered = at.offered /\ later.ok = at.ok
               /\ Carried(at.messages) \in Seq(ToolChanges)
               /\ Carried(later.messages) = Carried(at.messages) \o w
<1> DEFINE n == Len(w)
           c == Carried(at.messages)
           First(k) == SubSeq(w, 1, k)
           later == FoldLeft(AppendChangeBlock, at, seq)
<1>1. n \in Nat /\ First(0) = <<>> /\ First(n) = w /\ \A k \in 1..n : seq[k] \in Y
    OBVIOUS
<1>2. \A k \in 0..n : First(k) \in Seq(ToolChanges)
    OBVIOUS
<1>3. \A k \in 1..n : First(k) = First(k - 1) \o <<w[k]>> /\ <<w[k]>> \in Seq(ToolChanges)
    OBVIOUS
<1>4. PICK g : ChangeBlockChain(g, at, seq) /\ later = g[n]
    BY ChangeBlocksFold
<1>5. g[0] = at /\ \A k \in 1..n : g[k] = AppendChangeBlock(g[k - 1], seq[k])
    BY <1>4 DEF ChangeBlockChain
<1>6. c \in Seq(ToolChanges)
    <2>1. at.messages \in Seq(MessagesOf(B, Y))
        BY DEF At
    <2> DEFINE M == MessagesOf(B, Y)
               s == at.messages
               h == [m \in M |-> ChangesIn(m)]
    <2>2. \A m \in M : ChangesIn(m) \in Seq(ToolChanges)
        BY MessageGrows
    <2>3. h \in [M -> Seq(ToolChanges)] /\ \A m \in M : h[m] = ChangesIn(m)
        BY <2>2
    <2>4. s \in Seq(M) /\ \A i \in 1..Len(s) : s[i] \in M
        BY <2>1
    <2> HIDE DEF h, M, s
    <2>5. [i \in 1..Len(s) |-> ChangesIn(s[i])] = [i \in 1..Len(s) |-> h[s[i]]]
        BY <2>3, <2>4
    <2>6. Carried(s) = Spread(h, s)
        BY <2>5 DEF Carried, Spread
    <2>7. Spread(h, s) \in Seq(ToolChanges)
        BY <2>3, <2>4, SpreadType
    <2> QED BY <2>6, <2>7 DEF s
<1> HIDE DEF First, c, later
<1> DEFINE Holds(k) == /\ g[k] \in At(B, Y) /\ g[k].offered = at.offered /\ g[k].ok = at.ok
                       /\ Carried(g[k].messages) = c \o First(k)
           T == {k \in 0..n : Holds(k)}
<1>7. 0 \in T
    <2>1. c \o <<>> = c
        BY <1>6, ConcatEmptySeq
    <2>2. 0 \in 0..n
        BY <1>1
    <2> QED BY <1>1, <1>5, <2>1, <2>2 DEF c
<1> HIDE DEF n
<1>8. ASSUME NEW k \in 1..n, k - 1 \in T PROVE k \in T
    <2> DEFINE old == g[k - 1]
               new == g[k]
               block == seq[k]
               f == First(k - 1)
               x == <<w[k]>>
    <2>0. k - 1 \in 0..n /\ k \in 0..n
        BY <1>1
    <2>1. /\ old \in At(B, Y) /\ old.offered = at.offered /\ old.ok = at.ok
          /\ Carried(old.messages) = c \o f
        BY <1>8
    <2>2. block \in Y /\ new = AppendChangeBlock(old, block)
        BY <1>1, <1>5
    <2>3. ChangeIn(block) = x
        BY DEF n
    <2>4. f \in Seq(ToolChanges) /\ x \in Seq(ToolChanges) /\ First(k) = f \o x
        BY <1>2, <1>3, <2>0
    <2> HIDE DEF old, new, block, f, x
    <2>5. /\ new \in At(B, Y) /\ new.offered = old.offered /\ new.ok = old.ok
          /\ Carried(new.messages) = Carried(old.messages) \o ChangeIn(block)
        <3> DEFINE then == AppendChangeBlock(old, block)
        <3>l. \A a \in At(B, Y), d \in Y : AppendChangeBlock(a, d) \in At(B, Y)
            BY AppendChangeBlockFacts
        <3>0. old \in At(B, Y) /\ block \in Y
            BY <2>1, <2>2
        <3>1. /\ then \in At(B, Y) /\ then.offered = old.offered /\ then.ok = old.ok
              /\ Carried(old.messages) \in Seq(ToolChanges)
              /\ Carried(then.messages) = Carried(old.messages) \o ChangeIn(block)
            BY <3>0, AppendChangeBlockFacts, SMTT(30)
        <3>2. then = new
            BY <2>2
        <3> HIDE DEF then
        <3> QED BY <3>1, <3>2
    <2>6. (c \o f) \o x = c \o (f \o x)
        BY <1>6, <2>4, ConcatAssociative, SMTT(30)
    <2>7. Carried(new.messages) = c \o First(k)
        BY <2>1, <2>3, <2>4, <2>5, <2>6
    <2>8. new \in At(B, Y) /\ new.offered = at.offered /\ new.ok = at.ok
        BY <2>1, <2>5
    <2>9. Holds(k)
        BY <2>7, <2>8 DEF new
    <2> QED BY <2>0, <2>9
<1>9. n \in T
    <2> HIDE DEF T
    <2>1. \A k \in 0..n : k \in T
        BY <1>1, <1>7, <1>8, Upward
    <2> QED BY <1>1, <2>1
<1> QED BY <1>1, <1>4, <1>6, <1>9 DEF later, c

(* A change is its definitions and its names.                                *)
LEMMA ChangeOnly ==
    ASSUME NEW s, NEW offered
    PROVE  /\ ApplyTo(offered, s) = ApplyTo(offered, Change(s))
           /\ ToolChangeBlocks(s, offered) = ToolChangeBlocks(Change(s), offered)
<1>1. Change(s).added = s.added /\ Change(s).removed = s.removed
    BY DEF Change
<1>2. ApplyTo(offered, s) = ApplyTo(offered, Change(s))
    BY <1>1, Zenon DEF ApplyTo
<1>3. ToolChangeBlocks(s, offered) = ToolChangeBlocks(Change(s), offered)
    BY <1>1, Zenon DEF ToolChangeBlocks
<1> QED BY <1>2, <1>3

(* The changes carried so far make what is offered of what was declared.     *)
Kept(base, later, at, s) ==
    later.ok => /\ at.ok /\ later.offered = ApplyTo(at.offered, Change(s)) /\ Offering(base, later)

(* A change in its place, written out, offers what the change itself does.   *)
LEMMA AppendChangeFacts ==
    ASSUME NEW B, NEW Y, HoldsChanges(Y), NEW at \in At(B, Y), NEW s, s.seg = "change",
           IsSegment(s, AnthropicName), NEW base \in Offers(Definitions)
    PROVE  /\ AppendChange(at, s) \in At(B, Y) /\ (AppendChange(at, s).ok => at.ok)
           /\ Offering(base, at) => Kept(base, AppendChange(at, s), at, s)
<1> DEFINE change == Change(s)
           offered == at.offered
           gone == Gone(change, offered)
           bs == ToolChangeBlocks(change, offered)
           w == Saying(gone, change.added)
           written == FoldLeft(AppendChangeBlock, at, bs)
           next == ApplyTo(offered, change)
           later == AppendChange(at, s)
           c == Carried(at.messages)
<1>1. /\ change \in ToolChanges /\ OneEach(change.added) /\ change.added \in Seq(Definitions)
      /\ change.removed \in Seq(ToolNames)
    BY DEF IsSegment, Change, ToolChanges, Changes
<1>2. offered \in Offers(Definitions) /\ CarryChanges(Y)
    BY DEF At, HoldsChanges
<1>3. gone \in Seq(ToolNames)
    BY <1>1, OnlyFacts DEF Gone
<1>4. w \in Seq(ToolChanges) /\ IsWrittenOut(w, gone, change.added)
    <2> HIDE DEF gone, change
    <2> QED BY <1>1, <1>3, SayingFacts
<1> DEFINE added == change.added
<1>5. /\ bs \in Seq(Y) /\ Len(bs) = Len(w)
      /\ \A k \in 1..Len(w) : ChangeIn(bs[k]) = <<w[k]>>
    <2> DEFINE g == Gone(change, offered)
    <2>1. g \in Seq(ToolNames) /\ change.added \in Seq(Definitions)
        BY <1>1, <1>3
    <2> HIDE DEF change, offered, g
    <2>2. g = Gone(change, offered)
        BY DEF g
    <2>3. LET v == Saying(g, change.added)
          IN  /\ bs \in Seq(Y) /\ Len(bs) = Len(v)
              /\ \A k \in 1..Len(v) : ChangeIn(bs[k]) = <<v[k]>>
        BY <2>1, <2>2, BlocksSay
    <2> QED BY <2>3 DEF g
<1> HIDE DEF bs, w, gone, change
<1>6. /\ written \in At(B, Y) /\ written.offered = at.offered /\ written.ok = at.ok
      /\ c \in Seq(ToolChanges) /\ Carried(written.messages) = c \o w
    BY <1>2, <1>4, <1>5, WritingFacts
<1>7. next \in Offers(Definitions)
    <2>1. change \in Changes(Definitions, ToolNames) /\ OneEach(change.added)
        BY <1>1 DEF ToolChanges
    <2> HIDE DEF offered
    <2> QED BY <1>2, <2>1, ApplySet
<1>8. /\ ToolChangeBlocks(s, offered) = bs
      /\ \A x : ApplyTo(x, s) = ApplyTo(x, change)
    BY ChangeOnly DEF bs, change
<1>9. later = IF at.messages # <<>> /\ Last(at.messages).role \in {"user", "system"}
              THEN [written EXCEPT !.offered = ApplyTo(written.offered, change)]
              ELSE [at EXCEPT !.ok = FALSE]
    BY <1>8, Zenon DEF AppendChange
<1> HIDE DEF written, later, next
<1>10. CASE at.messages # <<>> /\ Last(at.messages).role \in {"user", "system"}
    <2>1. later = [written EXCEPT !.offered = next]
        BY <1>6, <1>9, <1>10 DEF next
    <2>2. later \in At(B, Y) /\ later.offered = next /\ later.ok = at.ok /\ later.messages = written.messages
        BY <1>6, <1>7, <2>1 DEF At
    <2>3. ASSUME Offering(base, at) PROVE Offering(base, later)
        <3> DEFINE mid == ApplyAll(base, c)
        <3>1. ToSet(mid) = ToSet(offered)
            BY <2>3 DEF Offering
        <3>2. c \in Seq(Changes(Definitions, ToolNames)) /\ w \in Seq(Changes(Definitions, ToolNames))
            BY <1>4, <1>6 DEF ToolChanges
        <3> HIDE DEF c, offered
        <3>3. ApplyAll(base, c \o w) = ApplyAll(mid, w)
            BY <3>2, ApplyJoin
        <3>4. mid \in Offers(Definitions)
            BY <3>2, ApplyFacts
        <3> HIDE DEF mid
        <3>5. IsWrittenOut(w, Gone(change, offered), change.added)
            BY <1>4 DEF gone
        <3>6. ToSet(ApplyAll(mid, w)) = ToSet(ApplyTo(offered, change))
            BY <1>1, <1>2, <1>4, <3>1, <3>4, <3>5, GoneFacts
        <3>7. Carried(later.messages) = c \o w
            BY <1>6, <2>2
        <3> QED BY <2>2, <3>3, <3>6, <3>7 DEF Offering, next
    <2> QED BY <2>2, <2>3 DEF Kept, next, change, later
<1>11. CASE ~(at.messages # <<>> /\ Last(at.messages).role \in {"user", "system"})
    <2>1. later = [at EXCEPT !.ok = FALSE]
        BY <1>9, <1>11
    <2>2. later \in At(B, Y) /\ ~later.ok
        BY <2>1 DEF At
    <2> QED BY <2>2 DEF Kept, later
<1> QED BY <1>10, <1>11

(* The blocks the segments are written as, and those of the system.          *)
WrittenBlocks(S) ==
    UNION {{TextBlock(s.text), AssistantTextBlock(s), s.item, MediaBlock(s.media), ToolUseBlock(s),
            ToolResultBlock(s)} : s \in S}

(* The blocks a system message may hold.                                    *)
SystemBlocks(S) ==
    {TextBlock(s.text) : s \in S} \cup {TextBlock(PlaceholderText)}
        \cup {RemovalBlock(name) : name \in ToolNames} \cup {AdditionBlock(tool) : tool \in Definitions}

(* How a segment that is no change is written.                               *)
WritesInto(s, B, Y) ==
    /\ s.seg = "text" => IF s.role = "assistant" THEN Harmless("assistant", AssistantTextBlock(s), B, Y)
                         ELSE Harmless(s.role, TextBlock(s.text), B, Y)
    /\ s.seg = "sealed" => Harmless("assistant", s.item, B, Y)
    /\ s.seg = "media"  => Harmless(s.role, MediaBlock(s.media), B, Y)
    /\ s.seg = "call"   => Harmless("assistant", ToolUseBlock(s), B, Y)
    /\ s.seg = "result" => Harmless("user", ToolResultBlock(s), B, Y)

(* All the segments are written in the blocks B, those of the system in Y.  *)
MayWrite(S, B, Y) ==
    HoldsChanges(Y) /\ \A s \in S : IsSegment(s, AnthropicName) /\ WritesInto(s, B, Y)

(* Segments are written in these blocks.                                     *)
LEMMA SegmentsWritten ==
    ASSUME NEW S, \A s \in S : IsSegment(s, AnthropicName)
    PROVE  MayWrite(S, WrittenBlocks(S), SystemBlocks(S))
<1> DEFINE B == WrittenBlocks(S)
           Y == SystemBlocks(S)
<1>1. /\ \A text : ChangeIn(TextBlock(text)) = <<>>
      /\ \A name \in ToolNames : ChangeIn(RemovalBlock(name)) = <<[added |-> <<>>, removed |-> <<name>>]>>
      /\ \A tool \in Definitions : ChangeIn(AdditionBlock(tool)) = <<[added |-> <<tool>>, removed |-> <<>>]>>
    BY DEF ChangeIn, TextBlock, RemovalBlock, AdditionBlock
<1>2. CarryChanges(Y)
    <2>1. ASSUME NEW b \in Y PROVE ChangeIn(b) \in Seq(ToolChanges)
        <3>1. CASE \E text : b = TextBlock(text)
            <4>1. ChangeIn(b) = <<>>
                BY <1>1, <3>1
            <4> QED BY <4>1
        <3>2. CASE \E name \in ToolNames : b = RemovalBlock(name)
            <4>1. PICK name \in ToolNames : b = RemovalBlock(name)
                BY <3>2
            <4> DEFINE c == [added |-> <<>>, removed |-> <<name>>]
            <4>2. ChangeIn(b) = <<c>>
                BY <1>1, <4>1
            <4>3. c \in ToolChanges
                BY DEF ToolChanges, Changes
            <4> HIDE DEF c
            <4> QED BY <4>2, <4>3
        <3>3. CASE \E tool \in Definitions : b = AdditionBlock(tool)
            <4>1. PICK tool \in Definitions : b = AdditionBlock(tool)
                BY <3>3
            <4> DEFINE c == [added |-> <<tool>>, removed |-> <<>>]
            <4>2. ChangeIn(b) = <<c>>
                BY <1>1, <4>1
            <4>3. c \in ToolChanges
                BY DEF ToolChanges, Changes
            <4> HIDE DEF c
            <4> QED BY <4>2, <4>3
        <3> QED BY <3>1, <3>2, <3>3 DEF SystemBlocks
    <2> QED BY <2>1 DEF CarryChanges
<1>3. HoldsChanges(Y)
    BY <1>2 DEF HoldsChanges, SystemBlocks
<1>4. ASSUME NEW s \in S PROVE WritesInto(s, B, Y)
    <2> DEFINE has == {TextBlock(s.text), AssistantTextBlock(s), s.item, MediaBlock(s.media),
                       ToolUseBlock(s), ToolResultBlock(s)}
    <2>1. has \subseteq B
        BY DEF WrittenBlocks
    <2>2. /\ TextBlock(s.text) \in B /\ AssistantTextBlock(s) \in B /\ s.item \in B
          /\ MediaBlock(s.media) \in B /\ ToolUseBlock(s) \in B /\ ToolResultBlock(s) \in B
        BY <2>1
    <2>3. TextBlock(s.text) \in Y /\ TextBlock(PlaceholderText) \in Y
        BY DEF SystemBlocks
    <2> HIDE DEF B, Y, has
    <2>4. ASSUME NEW role \in {"user", "assistant"}, NEW b \in B PROVE Harmless(role, b, B, Y)
        BY <2>4 DEF Harmless, Suits, Writes
    <2>5. ASSUME NEW text, TextBlock(text) \in Y PROVE Harmless("system", TextBlock(text), B, Y)
        BY <1>1, <2>5 DEF Harmless, Suits, Writes
    <2>6. IsSegment(s, AnthropicName)
        OBVIOUS
    <2>7. s.seg = "text" /\ s.role # "assistant" => Harmless(s.role, TextBlock(s.text), B, Y)
        <3>1. s.seg = "text" /\ s.role # "assistant" => s.role = "user" \/ s.role = "system"
            BY <2>6 DEF IsSegment
        <3>2. Harmless("user", TextBlock(s.text), B, Y) /\ Harmless("system", TextBlock(s.text), B, Y)
            BY <2>2, <2>3, <2>4, <2>5
        <3> QED BY <3>1, <3>2
    <2>8. s.seg = "media" => Harmless(s.role, MediaBlock(s.media), B, Y)
        <3> SUFFICES ASSUME s.seg = "media" PROVE Harmless(s.role, MediaBlock(s.media), B, Y)
            OBVIOUS
        <3>1. s.role \in {"user", "system", "assistant"} /\ (s.role # "user" => s.media.media = "placeholder")
            BY <2>6 DEF IsSegment
        <3>2. CASE s.role \in {"user", "assistant"}
            BY <2>2, <2>4, <3>2
        <3>3. CASE s.role = "system"
            <4>1. MediaBlock(s.media) = TextBlock(PlaceholderText)
                BY <3>1, <3>3 DEF MediaBlock
            <4>2. Harmless("system", TextBlock(PlaceholderText), B, Y)
                BY <2>3, <2>5
            <4> QED BY <3>3, <4>1, <4>2
        <3> QED BY <3>1, <3>2, <3>3
    <2>9. /\ Harmless("assistant", AssistantTextBlock(s), B, Y) /\ Harmless("assistant", s.item, B, Y)
          /\ Harmless("assistant", ToolUseBlock(s), B, Y) /\ Harmless("user", ToolResultBlock(s), B, Y)
        BY <2>2, <2>4
    <2> QED BY <2>7, <2>8, <2>9 DEF WritesInto
<1> QED BY <1>3, <1>4 DEF MayWrite

(* Only a change does something about the tools.                             *)
LEMMA AppendSegmentFacts ==
    ASSUME NEW S, NEW B, NEW Y, MayWrite(S, B, Y), NEW at \in At(B, Y), NEW s \in S
    PROVE  /\ AppendSegment(at, s) \in At(B, Y)
           /\ s.seg # "change" => SameTools(AppendSegment(at, s), at)
           /\ s.seg = "change" => AppendSegment(at, s) = AppendChange(at, s)
<1> DEFINE later == AppendSegment(at, s)
           Fine(x) == x \in At(B, Y) /\ SameTools(x, at)
<1>1. IsSegment(s, AnthropicName) /\ WritesInto(s, B, Y) /\ HoldsChanges(Y) /\ CarryChanges(Y)
    BY DEF MayWrite, HoldsChanges
<1>2. Fine(at)
    BY DEF SameTools
<1>3. ASSUME NEW role, NEW block, Harmless(role, block, B, Y)
      PROVE  Fine(WithBlock(at, role, block)) /\ (role = "assistant" => Fine(AppendSealed(at, block)))
    BY <1>1, <1>3, HarmlessFacts
<1> HIDE DEF Fine
<1>4. CASE s.seg = "text"
    <2>1. CASE s.role = "assistant"
        <3>1. later = IF IsBlankText(s.text) THEN at ELSE WithBlock(at, "assistant", AssistantTextBlock(s))
            BY <1>4, <2>1 DEF AppendSegment
        <3>2. Fine(WithBlock(at, "assistant", AssistantTextBlock(s)))
            BY <1>1, <1>3, <1>4, <2>1 DEF WritesInto
        <3> HIDE DEF later
        <3>3. Fine(later)
            BY <1>2, <3>1, <3>2
        <3> QED BY <1>4, <3>3 DEF Fine, later
    <2>2. CASE s.role # "assistant"
        <3>1. later = WithBlock(at, s.role, TextBlock(s.text))
            BY <1>4, <2>2 DEF AppendSegment
        <3>2. Fine(WithBlock(at, s.role, TextBlock(s.text)))
            BY <1>1, <1>3, <1>4, <2>2 DEF WritesInto
        <3> HIDE DEF later
        <3>3. Fine(later)
            BY <3>1, <3>2
        <3> QED BY <1>4, <3>3 DEF Fine, later
    <2> QED BY <2>1, <2>2
<1>5. CASE s.seg = "sealed"
    <2>1. later = AppendSealed(at, s.item)
        BY <1>5 DEF AppendSegment
    <2>2. Fine(AppendSealed(at, s.item))
        BY <1>1, <1>3, <1>5 DEF WritesInto
    <2> HIDE DEF later
    <2>3. Fine(later)
        BY <2>1, <2>2
    <2> QED BY <1>5, <2>3 DEF Fine, later
<1>6. CASE s.seg = "media"
    <2>1. later = WithBlock(at, s.role, MediaBlock(s.media))
        BY <1>6 DEF AppendSegment
    <2>2. Fine(WithBlock(at, s.role, MediaBlock(s.media)))
        BY <1>1, <1>3, <1>6 DEF WritesInto
    <2> HIDE DEF later
    <2>3. Fine(later)
        BY <2>1, <2>2
    <2> QED BY <1>6, <2>3 DEF Fine, later
<1>7. CASE s.seg = "call"
    <2>1. later = WithBlock(at, "assistant", ToolUseBlock(s))
        BY <1>7 DEF AppendSegment
    <2>2. Fine(WithBlock(at, "assistant", ToolUseBlock(s)))
        BY <1>1, <1>3, <1>7 DEF WritesInto
    <2> HIDE DEF later
    <2>3. Fine(later)
        BY <2>1, <2>2
    <2> QED BY <1>7, <2>3 DEF Fine, later
<1>8. CASE s.seg = "result"
    <2>1. later = WithBlock(at, "user", ToolResultBlock(s))
        BY <1>8 DEF AppendSegment
    <2>2. Fine(WithBlock(at, "user", ToolResultBlock(s)))
        BY <1>1, <1>3, <1>8 DEF WritesInto
    <2> HIDE DEF later
    <2>3. Fine(later)
        BY <2>1, <2>2
    <2> QED BY <1>8, <2>3 DEF Fine, later
<1>9. CASE s.seg = "change"
    <2>1. later = AppendChange(at, s)
        BY <1>9 DEF AppendSegment
    <2>2. <<>> \in Offers(Definitions)
        BY DEF Offers, OneEach
    <2>3. AppendChange(at, s) \in At(B, Y)
        BY <1>1, <1>9, <2>2, AppendChangeFacts
    <2> HIDE DEF later
    <2>4. later \in At(B, Y)
        BY <2>1, <2>3
    <2> QED BY <1>9, <2>1, <2>4 DEF later
<1>10. s.seg \in {"text", "media", "sealed", "call", "result", "change"}
    BY <1>1 DEF IsSegment
<1> QED BY <1>4, <1>5, <1>6, <1>7, <1>8, <1>9, <1>10

(* Segments written one at a time.                                          *)
SegmentChain(g, base, seq) ==
    g[0] = base /\ \A k \in 1..Len(seq) : g[k] = AppendSegment(g[k - 1], seq[k])

(* Writing the segments, one at a time.                                      *)
LEMMA SegmentsFold ==
    ASSUME NEW S, NEW B, NEW Y, MayWrite(S, B, Y), NEW base \in At(B, Y), NEW seq \in Seq(S)
    PROVE  \E g : SegmentChain(g, base, seq) /\ FoldLeft(AppendSegment, base, seq) = g[Len(seq)]
<1> DEFINE n == Len(seq)
           IsIter(f) == f = [s \in SUBSET DOMAIN seq |->
                                IF s = {} THEN base ELSE AppendSegment(f[s \ {Max(s)}], seq[Max(s)])]
           iter == CHOOSE f : IsIter(f)
           step == [i \in 1..n |-> [t \in At(B, Y) |-> AppendSegment(t, seq[i])]]
           g    == [k \in 0..n |-> iter[1..k]]
<1>1. n \in Nat /\ DOMAIN seq = 1..n /\ \A i \in 1..n : seq[i] \in S
    OBVIOUS
<1>2. FoldLeft(AppendSegment, base, seq) = iter[DOMAIN seq]
    BY Zenon DEF FoldLeft, MapThenFoldSet
<1> HIDE DEF n
<1>3. step \in [1..n -> [At(B, Y) -> At(B, Y)]]
    BY <1>1, AppendSegmentFacts
<1>4. \E f : IsIter(f)
    <2>0. PICK f : IsFold(f, At(B, Y), base, n, step)
        <3>1. n \in Nat
            BY <1>1
        <3> HIDE DEF step
        <3> QED BY <1>3, <3>1, FoldExists
    <2>1. /\ f \in [SUBSET (1..n) -> At(B, Y)]
          /\ \A s \in SUBSET (1..n) :
                f[s] = IF s = {} THEN base ELSE step[Max(s)][f[s \ {Max(s)}]]
        <3> HIDE DEF step
        <3> QED BY <2>0 DEF IsFold
    <2>2. ASSUME NEW s \in SUBSET (1..n)
          PROVE  f[s] = IF s = {} THEN base ELSE AppendSegment(f[s \ {Max(s)}], seq[Max(s)])
        <3>1. CASE s = {}
            BY <2>1, <3>1
        <3>2. CASE s # {}
            <4>1. Max(s) \in 1..n
                BY <1>1, <3>2, MaxIn
            <4>2. f[s \ {Max(s)}] \in At(B, Y)
                BY <2>1
            <4>3. f[s] = step[Max(s)][f[s \ {Max(s)}]]
                BY <2>1, <3>2
            <4> QED BY <3>2, <4>1, <4>2, <4>3
        <3> QED BY <3>1, <3>2
    <2>3. f = [s \in SUBSET (1..n) |-> f[s]]
        BY <2>1
    <2>4. f = [s \in SUBSET (1..n) |->
                  IF s = {} THEN base ELSE AppendSegment(f[s \ {Max(s)}], seq[Max(s)])]
        BY <2>2, <2>3
    <2> QED BY <1>1, <2>4
<1>5. IsIter(iter)
    BY <1>4, Zenon
<1> HIDE DEF iter
<1>6. \A s \in SUBSET (1..n) :
          iter[s] = IF s = {} THEN base ELSE AppendSegment(iter[s \ {Max(s)}], seq[Max(s)])
    BY <1>1, <1>5
<1>7. g[0] = base
    <2>1. 1..0 = {} /\ 0 \in 0..n
        BY <1>1
    <2>2. g[0] = iter[{}]
        BY <2>1
    <2>3. iter[{}] = base
        <3>1. {} \in SUBSET (1..n)
            OBVIOUS
        <3> HIDE DEF g
        <3> QED BY <1>6, <3>1, Zenon
    <2> QED BY <2>2, <2>3
<1>8. ASSUME NEW k \in 1..n PROVE g[k] = AppendSegment(g[k - 1], seq[k])
    <2>1. Max(1..k) = k /\ (1..k) \ {k} = 1..(k - 1)
        BY <1>1, MaxUpTo
    <2>2. g[k] = iter[1..k] /\ g[k - 1] = iter[1..(k - 1)]
        BY <1>1
    <2>3. 1..k \in SUBSET (1..n) /\ 1..k # {}
        <3>1. k \in 1..k /\ \A j \in 1..k : j \in 1..n
            BY <1>1
        <3> QED BY <3>1
    <2> QED BY <1>6, <2>1, <2>2, <2>3
<1>9. g[n] = iter[1..n]
    BY <1>1
<1> HIDE DEF g
<1>10. SegmentChain(g, base, seq)
    BY <1>7, <1>8 DEF SegmentChain, n
<1> QED BY <1>1, <1>2, <1>9, <1>10 DEF n

(* A rendering starts with the tools declared and nothing written.           *)
Opening(tools) == [messages |-> <<>>, sealed |-> {}, changes |-> {}, offered |-> tools, ok |-> TRUE]

(* It is a rendering so far, and offers what is declared.                   *)
LEMMA OpeningFacts ==
    ASSUME NEW B, NEW Y, NEW tools \in Offers(Definitions)
    PROVE  Opening(tools) \in At(B, Y) /\ Opening(tools).offered = tools /\ Offering(tools, Opening(tools))
<1>1. Opening(tools) \in At(B, Y) /\ Opening(tools).messages = <<>> /\ Opening(tools).offered = tools
    BY DEF Opening, At
<1>2. Carried(<<>>) = <<>>
    <2> DEFINE F == [m \in 1..Len(<<>>) |-> ChangesIn(<<>>[m])]
    <2>1. Carried(<<>>) = FlattenSeq(F)
        BY DEF Carried
    <2>2. F = <<>>
        OBVIOUS
    <2>3. FlattenSeq(<<>>) = <<>>
        <3> DEFINE h == [x \in {} |-> <<>>]
                   G == [i \in 1..Len(<<>>) |-> h[<<>>[i]]]
        <3>1. Spread(h, <<>>) = <<>>
            BY SpreadNothing
        <3>2. Spread(h, <<>>) = FlattenSeq(G)
            BY DEF Spread
        <3>3. G = <<>>
            OBVIOUS
        <3> HIDE DEF G
        <3> QED BY <3>1, <3>2, <3>3
    <2> HIDE DEF F
    <2> QED BY <2>1, <2>2, <2>3
<1>3. ApplyAll(tools, <<>>) = tools
    <2>1. <<>> \in Seq(Changes(Definitions, ToolNames))
        OBVIOUS
    <2> QED BY <2>1, ApplyFacts
<1> QED BY <1>1, <1>2, <1>3 DEF Offering

(* What the segments offer: what was declared, with the changes placed.      *)
Honest(tools, at, segments) ==
    at.ok => Offering(tools, at) /\ at.offered = ApplyAll(tools, Placed(segments))

(* One segment more.                                                         *)
LEMMA HonestGrows ==
    ASSUME NEW S, NEW B, NEW Y, MayWrite(S, B, Y), NEW tools \in Offers(Definitions),
           NEW at \in At(B, Y), NEW u \in Seq(S), NEW s \in S, Honest(tools, at, u)
    PROVE  AppendSegment(at, s) \in At(B, Y) /\ Honest(tools, AppendSegment(at, s), u \o <<s>>)
<1> DEFINE later == AppendSegment(at, s)
           h == PlacedBy(S)
           p == Placed(u)
           longer == u \o <<s>>
<1>0. \A x \in S : IsSegment(x, AnthropicName)
    BY DEF MayWrite
<1>1. h \in [S -> Seq(ToolChanges)] /\ \A v \in Seq(S) : Placed(v) = Spread(h, v)
    BY <1>0, PlacedSpread
<1>2. longer \in Seq(S)
    OBVIOUS
<1>3. h[s] = PlacedAt(s)
    BY DEF PlacedBy
<1> HIDE DEF h
<1>4. p \in Seq(ToolChanges) /\ Placed(longer) = p \o PlacedAt(s)
    <2>1. Spread(h, u) \in Seq(ToolChanges)
        BY <1>1, SpreadType
    <2>2. Spread(h, longer) = Spread(h, u) \o h[s]
        BY <1>1, SpreadGrows
    <2> QED BY <1>1, <1>2, <1>3, <2>1, <2>2
<1>5. /\ later \in At(B, Y)
      /\ s.seg # "change" => SameTools(later, at)
      /\ s.seg = "change" => later = AppendChange(at, s)
    BY AppendSegmentFacts
<1> HIDE DEF later, p, longer
<1>6. CASE s.seg # "change"
    <2>1. Placed(longer) = p
        <3>1. PlacedAt(s) = <<>>
            BY <1>6 DEF PlacedAt
        <3> QED BY <1>4, <3>1, ConcatEmptySeq
    <2>2. later.offered = at.offered /\ later.ok = at.ok /\ Carried(later.messages) = Carried(at.messages)
        BY <1>5, <1>6 DEF SameTools
    <2>3. Offering(tools, at) => Offering(tools, later)
        BY <2>2 DEF Offering
    <2>4. at.ok => Offering(tools, at) /\ at.offered = ApplyAll(tools, p)
        BY DEF Honest, p
    <2> QED BY <1>5, <2>1, <2>2, <2>3, <2>4 DEF Honest, later, longer
<1>7. CASE s.seg = "change"
    <2>1. IsSegment(s, AnthropicName) /\ HoldsChanges(Y)
        BY DEF MayWrite
    <2>2. /\ later.ok => at.ok
          /\ Offering(tools, at) => Kept(tools, later, at, s)
        BY <1>5, <1>7, <2>1, AppendChangeFacts
    <2>3. PlacedAt(s) = <<Change(s)>> /\ Change(s) \in Changes(Definitions, ToolNames)
        BY <1>7, <2>1 DEF PlacedAt, Change, IsSegment, Changes
    <2>4. p \in Seq(Changes(Definitions, ToolNames))
        BY <1>4 DEF ToolChanges
    <2>5. ApplyAll(tools, p \o <<Change(s)>>) = ApplyTo(ApplyAll(tools, p), Change(s))
        BY <2>3, <2>4, ApplyAppend
    <2>6. Placed(longer) = p \o <<Change(s)>>
        BY <1>4, <2>3
    <2>7. at.ok => Offering(tools, at) /\ at.offered = ApplyAll(tools, p)
        BY DEF Honest, p
    <2>8. ASSUME later.ok
          PROVE  Offering(tools, later) /\ later.offered = ApplyAll(tools, Placed(longer))
        <3>1. Kept(tools, later, at, s) /\ at.offered = ApplyAll(tools, p)
            BY <2>2, <2>7, <2>8
        <3>2. later.offered = ApplyTo(at.offered, Change(s)) /\ Offering(tools, later)
            BY <2>8, <3>1 DEF Kept
        <3> QED BY <2>5, <2>6, <3>1, <3>2
    <2> QED BY <1>5, <2>8 DEF Honest, later, longer
<1> QED BY <1>6, <1>7

(* All of them.                                                              *)
LEMMA WrittenOffers ==
    ASSUME NEW u, AreSegments(u, AnthropicName), NEW tools \in Offers(Definitions)
    PROVE  LET S   == ToSet(u)
               end == FoldLeft(AppendSegment, Opening(tools), u)
           IN  end \in At(WrittenBlocks(S), SystemBlocks(S)) /\ Honest(tools, end, u)
<1> DEFINE S == ToSet(u)
           B == WrittenBlocks(S)
           Y == SystemBlocks(S)
           n == Len(u)
           First(k) == SubSeq(u, 1, k)
           base == Opening(tools)
           end == FoldLeft(AppendSegment, base, u)
<1>1. u \in Seq(S) /\ \A s \in S : IsSegment(s, AnthropicName)
    BY DEF AreSegments, IsSequence
<1>2. MayWrite(S, B, Y)
    <2> HIDE DEF S
    <2> QED BY <1>1, SegmentsWritten
<1>3. base \in At(B, Y) /\ base.offered = tools /\ Offering(tools, base)
    BY OpeningFacts
<1> HIDE DEF S, B, Y, base
<1>4. PICK g : SegmentChain(g, base, u) /\ end = g[n]
    BY <1>1, <1>2, <1>3, SegmentsFold
<1>5. g[0] = base /\ \A k \in 1..n : g[k] = AppendSegment(g[k - 1], u[k])
    BY <1>4 DEF SegmentChain
<1>6. n \in Nat /\ First(0) = <<>> /\ First(n) = u /\ \A k \in 1..n : u[k] \in S
    BY <1>1
<1>7. \A k \in 0..n : First(k) \in Seq(S)
    BY <1>1
<1>8. \A k \in 1..n : First(k) = First(k - 1) \o <<u[k]>>
    BY <1>1
<1> DEFINE Holds(k) == g[k] \in At(B, Y) /\ Honest(tools, g[k], First(k))
           T == {k \in 0..n : Holds(k)}
<1> HIDE DEF First, end
<1>9. 0 \in T
    <2>1. Placed(<<>>) = <<>>
        <3> DEFINE h == PlacedBy(S)
        <3>1. \A v \in Seq(S) : Placed(v) = Spread(h, v)
            BY <1>1, PlacedSpread
        <3> HIDE DEF h
        <3>2. <<>> \in Seq(S)
            OBVIOUS
        <3>3. Spread(h, <<>>) = <<>>
            BY SpreadNothing
        <3> QED BY <3>1, <3>2, <3>3
    <2>2. ApplyAll(tools, <<>>) = tools
        <3>1. <<>> \in Seq(Changes(Definitions, ToolNames))
            OBVIOUS
        <3> QED BY <3>1, ApplyFacts
    <2>3. Honest(tools, base, First(0))
        BY <1>3, <1>6, <2>1, <2>2 DEF Honest
    <2>4. 0 \in 0..n
        BY <1>6
    <2> QED BY <1>3, <1>5, <2>3, <2>4
<1> HIDE DEF n
<1>10. ASSUME NEW k \in 1..n, k - 1 \in T PROVE k \in T
    <2> DEFINE old == g[k - 1]
               f == First(k - 1)
               s == u[k]
    <2>0. k - 1 \in 0..n /\ k \in 0..n
        BY <1>6
    <2>1. old \in At(B, Y) /\ Honest(tools, old, f)
        BY <1>10
    <2>2. f \in Seq(S) /\ s \in S /\ First(k) = f \o <<s>> /\ g[k] = AppendSegment(old, s)
        BY <1>5, <1>6, <1>7, <1>8, <2>0
    <2> HIDE DEF old, f, s
    <2>3. AppendSegment(old, s) \in At(B, Y) /\ Honest(tools, AppendSegment(old, s), f \o <<s>>)
        BY <1>2, <2>1, <2>2, HonestGrows
    <2>4. Holds(k)
        BY <2>2, <2>3
    <2> QED BY <2>0, <2>4
<1>11. n \in T
    <2> HIDE DEF T
    <2>1. \A k \in 0..n : k \in T
        BY <1>6, <1>9, <1>10, Upward
    <2> QED BY <1>6, <2>1
<1>12. end \in At(B, Y) /\ Honest(tools, end, u)
    BY <1>4, <1>6, <1>11
<1> QED BY <1>12 DEF end, B, Y, S, base

-----------------------------------------------------------------------------
(* A marked block of the system says what it said.                           *)
LEMMA MarkedSays ==
    ASSUME NEW S, NEW block \in SystemBlocks(S)
    PROVE  ChangeIn(Over([cache_control |-> TRUE], block)) = ChangeIn(block)
<1> DEFINE marked == Over([cache_control |-> TRUE], block)
<1>1. CASE \E text : block = TextBlock(text)
    BY <1>1 DEF TextBlock, Over, ChangeIn
<1>2. CASE \E name : block = RemovalBlock(name)
    BY <1>2 DEF RemovalBlock, Over, ChangeIn
<1>3. CASE \E tool : block = AdditionBlock(tool)
    BY <1>3 DEF AdditionBlock, Over, ChangeIn
<1> QED BY <1>1, <1>2, <1>3 DEF SystemBlocks

(* A marker is no change.                                                    *)
LEMMA MarkedCarried ==
    ASSUME NEW S, NEW B, NEW messages \in Seq(MessagesOf(B, SystemBlocks(S))), NEW anchor
    PROVE  Carried(WithCacheControl(messages, anchor)) = Carried(messages)
<1> DEFINE n == Len(messages)
           Y == SystemBlocks(S)
           marked == WithCacheControl(messages, anchor)
           Mark(m, b) == IF <<m, b>> \in anchor THEN Over([cache_control |-> TRUE], messages[m].content[b])
                         ELSE messages[m].content[b]
           Cut(m) == [messages[m] EXCEPT !.content = [b \in 1..Len(@) |-> Mark(m, b)]]
<1>1. marked = [m \in 1..n |-> Cut(m)]
    BY DEF WithCacheControl
<1>2. n \in Nat /\ \A m \in 1..n : messages[m] \in MessagesOf(B, Y)
    OBVIOUS
<1>3. Len(marked) = n /\ \A m \in 1..n : marked[m] = Cut(m)
    BY <1>1, <1>2
<1>4. ASSUME NEW m \in 1..n PROVE ChangesIn(marked[m]) = ChangesIn(messages[m])
    <2> DEFINE old == messages[m]
               new == Cut(m)
               k == Len(old.content)
    <2>1. old \in MessagesOf(B, Y)
        BY <1>2
    <2>2. /\ new.role = old.role /\ "role" \in DOMAIN old
          /\ old.content \in Seq(B) \/ old.content \in Seq(Y)
          /\ new.content = [b \in 1..k |-> Mark(m, b)]
        BY <2>1 DEF MessagesOf
    <2>3. k \in Nat /\ Len(new.content) = k
        BY <2>2
    <2>4. CASE old.role # "system"
        BY <1>3, <2>2, <2>4 DEF ChangesIn
    <2>5. CASE old.role = "system"
        <3>1. \A b \in 1..k : old.content[b] \in Y
            BY <2>1, <2>5 DEF MessagesOf
        <3>2. ASSUME NEW b \in 1..k PROVE ChangeIn(new.content[b]) = ChangeIn(old.content[b])
            <4>1. new.content[b] = Mark(m, b)
                BY <2>2
            <4>2. ChangeIn(Over([cache_control |-> TRUE], old.content[b])) = ChangeIn(old.content[b])
                BY <3>1, MarkedSays
            <4> QED BY <4>1, <4>2
        <3> DEFINE later == new.content
                   was == old.content
        <3> HIDE DEF new, old
        <3>3. [b \in 1..Len(later) |-> ChangeIn(later[b])] = [b \in 1..Len(was) |-> ChangeIn(was[b])]
            BY <2>3, <3>2 DEF k
        <3>4. ChangesIn(new) = FlattenSeq([b \in 1..Len(later) |-> ChangeIn(later[b])])
            BY <2>2, <2>5 DEF ChangesIn
        <3>5. ChangesIn(old) = FlattenSeq([b \in 1..Len(was) |-> ChangeIn(was[b])])
            BY <2>5 DEF ChangesIn
        <3>6. ChangesIn(new) = ChangesIn(old)
            BY <3>3, <3>4, <3>5
        <3> QED BY <1>3, <3>6 DEF new, old
    <2> QED BY <2>4, <2>5
<1> HIDE DEF marked
<1>5. [m \in 1..Len(marked) |-> ChangesIn(marked[m])] = [m \in 1..n |-> ChangesIn(messages[m])]
    BY <1>3, <1>4
<1> QED BY <1>5 DEF Carried, marked

(* What messages carry are changes.                                          *)
LEMMA CarriedType ==
    ASSUME NEW B, NEW Y, CarryChanges(Y), NEW messages \in Seq(MessagesOf(B, Y))
    PROVE  Carried(messages) \in Seq(ToolChanges)
<1> DEFINE M == MessagesOf(B, Y)
           h == [m \in M |-> ChangesIn(m)]
<1>1. \A m \in M : ChangesIn(m) \in Seq(ToolChanges)
    BY MessageGrows
<1>2. h \in [M -> Seq(ToolChanges)] /\ \A m \in M : h[m] = ChangesIn(m)
    BY <1>1
<1>3. messages \in Seq(M) /\ \A i \in 1..Len(messages) : messages[i] \in M
    OBVIOUS
<1> HIDE DEF h, M
<1>4. [i \in 1..Len(messages) |-> ChangesIn(messages[i])] = [i \in 1..Len(messages) |-> h[messages[i]]]
    BY <1>2, <1>3
<1>5. Carried(messages) = Spread(h, messages)
    BY <1>4 DEF Carried, Spread
<1> QED BY <1>2, <1>3, <1>5, SpreadType, SMTT(30)

(* Equal as sets, two lists of tools take changes to equal sets: a request   *)
(* with changes in place offers the tools in force.                          *)
LEMMA AnthropicOffers ==
    ASSUME NEW bs, IsContext(bs), NEW inPlace, NEW stablePrefix,
           RenderAnthropic(bs, inPlace, stablePrefix).ok
    PROVE  LET r == RenderAnthropic(bs, inPlace, stablePrefix)
               tools == ApplyAll(r.tools, Carried(r.messages))
           IN  tools \in Offers(Definitions) /\ ToSet(tools) = ToSet(CurrentTools(ChangesOf(bs)))
<1> DEFINE r == RenderAnthropic(bs, inPlace, stablePrefix)
           placement == IF inPlace THEN "AnthropicInPlace" ELSE "Fold"
           plan == PlanTools(bs, placement)
           u == Normalize(bs, AnthropicName, plan.in_place)
           rest == SubSeq(u, LeadingSystemLen(u) + 1, Len(u))
           end == AnthropicConversation(u, plan.tools)
           anchor == IF stablePrefix THEN Anchor(end.messages, end.sealed, end.changes) ELSE {}
           S == ToSet(rest)
           B == WrittenBlocks(S)
<1>1. r = IF ~ValidateFrame(bs) THEN [ok |-> FALSE]
          ELSE IF ~end.ok \/ end.messages = <<>> \/ ~ValidateAnthropic(end.messages) THEN [ok |-> FALSE]
          ELSE Body(plan, LeadingTexts(u), WithCacheControl(end.messages, anchor))
    BY DEF RenderAnthropic
<1>2. /\ plan.tools \in Offers(Definitions) /\ AreSegments(u, AnthropicName)
      /\ ApplyAll(plan.tools, Placed(u)) = CurrentTools(ChangesOf(bs))
    BY PlanFacts
<1>3. end = FoldLeft(AppendSegment, Opening(plan.tools), rest)
    BY DEF AnthropicConversation, Opening
<1> HIDE DEF plan, anchor, end, placement, u
<1>4. AreSegments(rest, AnthropicName) /\ Placed(rest) = Placed(u)
    BY <1>2, LeadingFacts
<1> HIDE DEF rest
<1>5. end \in At(B, SystemBlocks(S)) /\ Honest(plan.tools, end, rest)
    BY <1>2, <1>3, <1>4, WrittenOffers
<1> HIDE DEF S, B, r
<1>6. /\ r = Body(plan, LeadingTexts(u), WithCacheControl(end.messages, anchor)) /\ end.ok
    <2>1. r.ok
        BY DEF r
    <2> QED BY <1>1, <2>1
<1>7. r.tools = plan.tools /\ r.messages = WithCacheControl(end.messages, anchor)
    BY <1>6 DEF Body
<1>8. end.messages \in Seq(MessagesOf(B, SystemBlocks(S))) /\ end.offered \in Offers(Definitions)
    BY <1>5 DEF At
<1>9. Carried(r.messages) = Carried(end.messages)
    BY <1>7, <1>8, MarkedCarried
<1>10. Offering(plan.tools, end) /\ end.offered = ApplyAll(plan.tools, Placed(u))
    BY <1>4, <1>5, <1>6 DEF Honest
<1>11. ToSet(ApplyAll(r.tools, Carried(r.messages))) = ToSet(CurrentTools(ChangesOf(bs)))
    BY <1>2, <1>7, <1>9, <1>10 DEF Offering
<1>12. Carried(end.messages) \in Seq(ToolChanges)
    <2>1. CarryChanges(SystemBlocks(S))
        <3>1. \A s \in S : IsSegment(s, AnthropicName)
            BY <1>4 DEF AreSegments, S
        <3>2. MayWrite(S, WrittenBlocks(S), SystemBlocks(S))
            BY <3>1, SegmentsWritten
        <3> QED BY <3>2 DEF MayWrite, HoldsChanges
    <2> DEFINE M == end.messages
    <2>2. M \in Seq(MessagesOf(B, SystemBlocks(S)))
        BY <1>8
    <2> HIDE DEF M
    <2>3. Carried(M) \in Seq(ToolChanges)
        BY <2>1, <2>2, CarriedType
    <2> QED BY <2>3 DEF M
<1>13. ApplyAll(r.tools, Carried(r.messages)) \in Offers(Definitions)
    <2>1. Carried(r.messages) \in Seq(Changes(Definitions, ToolNames)) /\ r.tools \in Offers(Definitions)
        BY <1>2, <1>7, <1>9, <1>12 DEF ToolChanges
    <2> QED BY <2>1, ApplyFacts
<1> QED BY <1>11, <1>13 DEF r

-----------------------------------------------------------------------------
(* What an answer is parsed into.                                            *)
IsItem(item) ==
    /\ item.item \in {"parts", "call"} /\ FieldsKept(item.wire)
    /\ item.item = "parts" => IsSequence(item.parts) /\ \A p \in 1..Len(item.parts) : IsPart(item.parts[p])

(* A sequence of items.                                                     *)
AreItems(items) == IsSequence(items) /\ \A item \in ToSet(items) : IsItem(item)

(* No item, and one.                                                        *)
LEMMA FewItems ==
    AreItems(<<>>) /\ \A item : IsItem(item) => AreItems(<<item>>)
BY Single DEF AreItems

(* Items after items.                                                        *)
LEMMA FlatItems ==
    ASSUME NEW n \in Nat, NEW F, F = [i \in 1..n |-> F[i]], \A i \in 1..n : AreItems(F[i])
    PROVE  AreItems(FlattenSeq(F))
<1> DEFINE V == UNION {ToSet(F[i]) : i \in 1..n}
           flat == FlattenSeq(F)
<1>1. \A x \in V : IsItem(x)
    BY DEF AreItems
<1>2. flat \in Seq(V)
    <2>1. \A i \in 1..n : IsSequence(F[i])
        BY DEF AreItems
    <2> QED BY <2>1, FlatElements
<1> HIDE DEF V, flat
<1>3. IsSequence(flat) /\ ToSet(flat) \subseteq V
    BY <1>2, SequenceOf
<1> QED BY <1>1, <1>3 DEF AreItems, flat

(* Items one after another.                                                 *)
LEMMA JoinItems ==
    ASSUME NEW s, NEW t, AreItems(s), AreItems(t)
    PROVE  AreItems(s \o t)
<1> DEFINE V == ToSet(s) \cup ToSet(t)
           both == s \o t
<1>1. s \in Seq(V) /\ t \in Seq(V)
    <2>1. s \in Seq(ToSet(s)) /\ t \in Seq(ToSet(t))
        BY DEF AreItems, IsSequence
    <2> DEFINE S == ToSet(s)
               T == ToSet(t)
    <2>2. s \in Seq(S) /\ t \in Seq(T) /\ S \subseteq V /\ T \subseteq V
        BY <2>1
    <2> HIDE DEF S, T, V
    <2> QED BY <2>2
<1>2. \A x \in V : IsItem(x)
    BY DEF AreItems
<1> HIDE DEF V
<1>3. both \in Seq(V)
    BY <1>1
<1> HIDE DEF both
<1>4. IsSequence(both) /\ ToSet(both) \subseteq V
    BY <1>3, SequenceOf
<1> QED BY <1>2, <1>4 DEF AreItems, both

(* The items the formats share.                                              *)
LEMMA SharedItems ==
    /\ \A text, wire : FieldsKept(wire) => IsItem(TextItem(text, wire))
    /\ \A name, args, id, wire : FieldsKept(wire) => IsItem(CallItem(name, args, id, wire))
    /\ \A format, item : (format = ResponsesName => IsOutputItem(item)) => IsItem(SealedItem(format, item))
    /\ FieldsKept(<<>>)
    /\ \A format, fields : (format = ResponsesName => IsOutputItem(fields)) => FieldsKept(WireMeta(format, fields))
<1>1. ASSUME NEW part, IsPart(part)
      PROVE  IsSequence(<<part>>) /\ \A p \in 1..Len(<<part>>) : IsPart(<<part>>[p])
    BY <1>1, Single
<1>2. ASSUME NEW text, NEW wire, FieldsKept(wire) PROVE IsItem(TextItem(text, wire))
    <2> DEFINE part == [part |-> "text", text |-> text]
    <2>1. IsPart(part)
        BY DEF IsPart
    <2> HIDE DEF part
    <2>2. IsSequence(<<part>>) /\ \A p \in 1..Len(<<part>>) : IsPart(<<part>>[p])
        BY <1>1, <2>1
    <2>3. TextItem(text, wire) = [item |-> "parts", parts |-> <<part>>, wire |-> wire]
        BY DEF TextItem, part
    <2> QED BY <1>2, <2>2, <2>3 DEF IsItem
<1>3. ASSUME NEW name, NEW args, NEW id, NEW wire, FieldsKept(wire)
      PROVE  IsItem(CallItem(name, args, id, wire))
    BY <1>3 DEF IsItem, CallItem
<1>4. FieldsKept(<<>>)
    BY DEF FieldsKept
<1>5. ASSUME NEW format, NEW item, format = ResponsesName => IsOutputItem(item)
      PROVE  IsItem(SealedItem(format, item))
    <2> DEFINE part == [part |-> "sealed", format |-> format, item |-> item]
    <2>1. IsPart(part)
        BY <1>5 DEF IsPart
    <2> HIDE DEF part
    <2>2. IsSequence(<<part>>) /\ \A p \in 1..Len(<<part>>) : IsPart(<<part>>[p])
        BY <1>1, <2>1
    <2>3. SealedItem(format, item) = [item |-> "parts", parts |-> <<part>>, wire |-> <<>>]
        BY DEF SealedItem, part
    <2> QED BY <1>4, <2>2, <2>3 DEF IsItem
<1>6. ASSUME NEW format, NEW fields, format = ResponsesName => IsOutputItem(fields)
      PROVE  FieldsKept(WireMeta(format, fields))
    BY <1>6 DEF FieldsKept, WireMeta
<1> QED BY <1>2, <1>3, <1>4, <1>5, <1>6

(* Sending less of an item is still no item of tools.                        *)
LEMMA WithoutOutput ==
    ASSUME NEW item, IsOutputItem(item), NEW keys
    PROVE  IsOutputItem(Without(item, keys)) /\ IsOutputItem(WithoutTexts(item))
<1>1. IsOutputItem(Without(item, keys))
    BY DEF IsOutputItem, Without, Restrict
<1>2. IsOutputItem(WithoutTexts(item))
    <2> DEFINE content == [s \in 1..Len(item.content) |->
                              IF item.content[s].type = "output_text"
                              THEN Without(item.content[s], {"text"}) ELSE item.content[s]]
    <2>1. WithoutTexts(item) = [item EXCEPT !.content = content]
        BY DEF WithoutTexts
    <2> HIDE DEF content
    <2> QED BY <2>1 DEF IsOutputItem
<1> QED BY <1>1, <1>2

(* Anthropic: one item per block.                                            *)
LEMMA AnthropicItems ==
    ASSUME NEW response, IsAnswer(AnthropicName, response), ParseAnthropic(response).ok
    PROVE  AreItems(ParseAnthropic(response).items)
<1> DEFINE content == response.content
           n == Len(content)
           items == [i \in 1..n |-> AnthropicItem(content[i])]
           parsed == ParseAnthropic(response)
<1>1. IsSequence(content)
    BY DEF IsAnswer, AnthropicName, ChatName, ResponsesName
<1>2. n \in Nat
    BY <1>1, Elements
<1>3. \A block : IsItem(AnthropicItem(block))
    <2> TAKE block
    <2>1. AnthropicName # ResponsesName
        BY DEF AnthropicName, ResponsesName
    <2>2. \A fields : FieldsKept(WireMeta(AnthropicName, fields))
        BY <2>1, SharedItems
    <2>3. CASE block.type = "text"
        BY <2>2, <2>3, SharedItems DEF AnthropicItem
    <2>4. CASE block.type = "tool_use"
        BY <2>2, <2>4, SharedItems DEF AnthropicItem
    <2>5. CASE block.type \notin {"text", "tool_use"}
        <3>1. AnthropicItem(block) = SealedItem(AnthropicName, block)
            BY <2>5 DEF AnthropicItem
        <3> QED BY <2>1, <3>1, SharedItems
    <2> QED BY <2>3, <2>4, <2>5
<1>4. Len(items) = n /\ DOMAIN items = 1..n /\ \A i \in 1..n : items[i] = AnthropicItem(content[i])
    BY <1>2
<1>5. parsed.items = items
    <2>1. parsed.ok
        OBVIOUS
    <2>2. parsed = Undecodable \/ parsed = [ok |-> TRUE, stop |-> AnthropicStop(response.stop_reason[1]), items |-> items]
        BY Zenon DEF ParseAnthropic
    <2> HIDE DEF parsed, items
    <2> QED BY <2>1, <2>2 DEF Undecodable
<1> HIDE DEF items, parsed
<1>6. AreItems(items)
    <2>1. ToSet(items) = {items[i] : i \in 1..n}
        BY <1>4 DEF ToSet
    <2>2. \A x \in ToSet(items) : IsItem(x)
        BY <1>3, <1>4, <2>1
    <2>3. items \in Seq(ToSet(items))
        <3>1. items = [i \in 1..n |-> items[i]]
            BY <1>4 DEF items
        <3>2. \A i \in 1..n : items[i] \in ToSet(items)
            BY <2>1
        <3> QED BY <1>2, <3>1, <3>2
    <2> QED BY <2>2, <2>3 DEF AreItems, IsSequence
<1> QED BY <1>5, <1>6 DEF parsed

(* Chat Completions: the residue, the text and the calls of a message.       *)
LEMMA ChatItems ==
    ASSUME NEW response, IsAnswer(ChatName, response), ParseChat(response).ok
    PROVE  AreItems(ParseChat(response).items)
<1> DEFINE message == response.choices[1].message
           stop == ChatStop(response.choices[1].finish_reason[1])
           text == IF "content" \in DOMAIN message /\ "str" \in DOMAIN message.content
                   THEN message.content.str ELSE <<>>
           calls == IF "tool_calls" \in DOMAIN message THEN message.tool_calls ELSE <<>>
           n == Len(calls)
           decoded == [c \in 1..n |-> DecodedCall(calls[c], stop = "MaxTokens" /\ c = n)]
           F == [c \in 1..n |-> IF decoded[c].args = <<>> THEN <<>>
                                ELSE <<ChatCallItem(calls[c], decoded[c].args[1])>>]
           residue == MessageResidue(message, text)
           texts == IF text = <<>> THEN <<>> ELSE <<TextItem(text, <<>>)>>
           items == residue \o texts \o FlattenSeq(F)
           parsed == ParseChat(response)
           inner == ParseChatMessage(message, stop)
<1>n. ChatName # ResponsesName /\ ChatName # AnthropicName
    BY DEF ChatName, ResponsesName, AnthropicName
<1>1. inner = Undecodable \/ inner = [ok |-> TRUE, stop |-> stop, items |-> items]
    BY Zenon DEF ParseChatMessage
<1>2. parsed = Undecodable \/ (Len(response.choices) = 1 /\ parsed = inner)
    BY Zenon DEF ParseChat
<1>3. parsed.ok
    OBVIOUS
<1> HIDE DEF parsed, inner, items
<1>4. Len(response.choices) = 1 /\ parsed.items = items
    BY <1>1, <1>2, <1>3 DEF Undecodable
<1>5. IsSequence(calls) /\ n \in Nat
    <2>1. \A c \in 1..Len(response.choices) :
              LET m == response.choices[c].message
              IN  "tool_calls" \in DOMAIN m => IsSequence(m.tool_calls)
        BY <1>n DEF IsAnswer
    <2>2. 1 \in 1..Len(response.choices)
        BY <1>4
    <2>3. "tool_calls" \in DOMAIN message => IsSequence(message.tool_calls)
        BY <2>1, <2>2
    <2> HIDE DEF message
    <2>4. IsSequence(calls)
        BY <2>3, Single
    <2> HIDE DEF calls
    <2> QED BY <2>4, Elements
<1> HIDE DEF calls, decoded
<1>6. AreItems(FlattenSeq(F))
    <2>1. ASSUME NEW c \in 1..n PROVE AreItems(F[c])
        <3>1. \A args : IsItem(ChatCallItem(calls[c], args))
            BY <1>n, SharedItems DEF ChatCallItem
        <3> QED BY <3>1, FewItems
    <2>2. F = [c \in 1..n |-> F[c]]
        OBVIOUS
    <2> HIDE DEF F
    <2> QED BY <1>5, <2>1, <2>2, FlatItems
<1> HIDE DEF F, text
<1>7. AreItems(residue)
    <2>1. \A fields : AreItems(<<SealedItem(ChatName, fields)>>)
        BY <1>n, SharedItems, FewItems
    <2>2. residue = <<>> \/ \E fields : residue = <<SealedItem(ChatName, fields)>>
        BY Zenon DEF MessageResidue
    <2> QED BY <2>1, <2>2, FewItems
<1>8. AreItems(texts)
    <2>1. AreItems(<<TextItem(text, <<>>)>>)
        BY SharedItems, FewItems
    <2> QED BY <2>1, FewItems
<1> HIDE DEF residue, texts
<1>9. AreItems(residue \o texts)
    BY <1>7, <1>8, JoinItems
<1> DEFINE first == residue \o texts
           last == FlattenSeq(F)
<1>10. AreItems(first \o last)
    <2>1. AreItems(first) /\ AreItems(last)
        BY <1>6, <1>9
    <2> HIDE DEF first, last
    <2> QED BY <2>1, JoinItems
<1> QED BY <1>4, <1>10 DEF items, parsed

(* The texts of a message item.                                              *)
LEMMA MessageItemFacts ==
    ASSUME NEW item, IsOutputItem(item), IsSequence(item.content)
    PROVE  IsItem(MessageItem(item))
<1> DEFINE content == item.content
           n == Len(content)
           F == [i \in 1..n |-> IF IsOutputText(content[i]) THEN <<content[i]>> ELSE <<>>]
           texts == FlattenSeq(F)
           parts == [t \in 1..Len(texts) |-> [part |-> "text", text |-> texts[t].text]]
           wire == WireMeta(ResponsesName, WithoutTexts(item))
<1>1. MessageItem(item) = [item |-> "parts", wire |-> wire, parts |-> parts]
    BY DEF MessageItem, Chosen
<1>2. n \in Nat
    BY Elements
<1>3. Len(texts) \in Nat
    <2>1. \A i \in 1..n : IsSequence(F[i])
        BY Single
    <2> DEFINE V == UNION {ToSet(F[i]) : i \in 1..n}
    <2>2. F = [i \in 1..n |-> F[i]]
        OBVIOUS
    <2> HIDE DEF F, n
    <2>3. texts \in Seq(V)
        BY <1>2, <2>1, <2>2, FlatElements
    <2> HIDE DEF texts, V
    <2> QED BY <2>3
<1> HIDE DEF texts
<1>4. IsSequence(parts) /\ \A p \in 1..Len(parts) : IsPart(parts[p])
    <2>1. /\ DOMAIN parts = 1..Len(texts) /\ Len(parts) = Len(texts)
          /\ \A t \in 1..Len(texts) : parts[t] = [part |-> "text", text |-> texts[t].text]
        BY <1>3
    <2>2. \A t \in 1..Len(parts) : IsPart(parts[t])
        BY <2>1 DEF IsPart
    <2>3. parts = [t \in 1..Len(texts) |-> parts[t]]
        OBVIOUS
    <2> HIDE DEF parts
    <2>4. \A t \in 1..Len(texts) : parts[t] \in ToSet(parts)
        BY <2>1 DEF ToSet
    <2>5. parts \in Seq(ToSet(parts))
        BY <1>3, <2>3, <2>4
    <2> QED BY <2>2, <2>5 DEF IsSequence
<1>5. FieldsKept(wire)
    <2>1. IsOutputItem(WithoutTexts(item))
        BY WithoutOutput
    <2> QED BY <2>1, SharedItems
<1> HIDE DEF parts, wire
<1> QED BY <1>1, <1>4, <1>5 DEF IsItem

(* What one output item adds.                                                *)
LEMMA OutputItemFacts ==
    ASSUME NEW item, IsOutputItem(item), "content" \in DOMAIN item => IsSequence(item.content), NEW cutOff,
           OutputItem(item, cutOff).ok
    PROVE  AreItems(OutputItem(item, cutOff).items)
<1> DEFINE out == OutputItem(item, cutOff)
           raw == IF "arguments" \in DOMAIN item THEN <<item.arguments>> ELSE <<>>
           decoded == DecodeWireArguments(raw, cutOff)
<1> HIDE DEF decoded
<1>1. CASE item.type = "message"
    <2>1. out.items = IF "content" \in DOMAIN item THEN <<MessageItem(item)>> ELSE <<>>
        BY <1>1 DEF OutputItem
    <2>2. "content" \in DOMAIN item => AreItems(<<MessageItem(item)>>)
        BY MessageItemFacts, FewItems
    <2> HIDE DEF out
    <2>3. AreItems(out.items)
        BY <2>1, <2>2, FewItems
    <2> QED BY <2>3 DEF out
<1>2. CASE item.type = "function_call"
    <2> DEFINE call == CallItem(item.name, decoded.args[1], item.call_id,
                                WireMeta(ResponsesName, Without(item, {"call_id", "name"})))
    <2>1. out = IF ~({"call_id", "name"} \subseteq DOMAIN item) THEN [ok |-> FALSE]
                ELSE [ok |-> decoded.ok, items |-> IF decoded.args = <<>> THEN <<>> ELSE <<call>>]
        BY <1>2 DEF OutputItem, decoded
    <2>2. IsItem(call)
        <3>1. IsOutputItem(Without(item, {"call_id", "name"}))
            BY WithoutOutput
        <3> QED BY <3>1, SharedItems
    <2>3. AreItems(<<call>>)
        BY <2>2, FewItems
    <2>4. out.ok
        OBVIOUS
    <2> HIDE DEF out, call
    <2>5. out.items = IF decoded.args = <<>> THEN <<>> ELSE <<call>>
        BY <2>1, <2>4
    <2>6. AreItems(out.items)
        BY <2>3, <2>5, FewItems
    <2> QED BY <2>6 DEF out
<1>3. CASE item.type = "refusal"
    <2>1. out.items = IF "refusal" \in DOMAIN item THEN <<TextItem(item.refusal, <<>>)>> ELSE <<>>
        BY <1>3 DEF OutputItem
    <2>2. AreItems(<<TextItem(item.refusal, <<>>)>>)
        BY SharedItems, FewItems
    <2> HIDE DEF out
    <2>3. AreItems(out.items)
        BY <2>1, <2>2, FewItems
    <2> QED BY <2>3 DEF out
<1>4. CASE item.type \notin {"message", "function_call", "refusal"}
    <2>1. out.items = <<SealedItem(ResponsesName, item)>>
        BY <1>4 DEF OutputItem
    <2>2. AreItems(<<SealedItem(ResponsesName, item)>>)
        BY SharedItems, FewItems
    <2> QED BY <2>1, <2>2
<1> QED BY <1>1, <1>2, <1>3, <1>4

(* Responses: what each output item adds.                                    *)
LEMMA ResponsesOutputItems ==
    ASSUME NEW response, IsAnswer(ResponsesName, response), ParseResponses(response).ok
    PROVE  AreItems(ParseResponses(response).items)
<1> DEFINE output == response.output
           n == Len(output)
           mapped == ResponsesStop(response.status, response.reason)
           added == [i \in 1..n |-> OutputItem(output[i], mapped = "MaxTokens" /\ i = n)]
           F == [i \in 1..n |-> added[i].items]
           items == FlattenSeq(F)
           inner == ParseOutput(output, mapped)
           parsed == ParseResponses(response)
           stop == CASE \E i \in 1..n : Refuses(output[i]) -> "Refusal"
                     [] OTHER -> IF mapped = "EndTurn" /\ \E i \in 1..Len(items) : items[i].item = "call"
                                 THEN "ToolUse" ELSE mapped
<1>1. inner = IF \E i \in 1..n : ~added[i].ok THEN Undecodable
              ELSE [ok |-> TRUE, items |-> items, stop |-> stop]
    BY Zenon DEF ParseOutput
<1>2. parsed.ok
    OBVIOUS
<1>3. parsed = inner \/ ~parsed.ok
    <2>1. CASE response.status = "failed"
        BY <2>1 DEF ParseResponses
    <2>2. CASE response.status \notin {"completed", "incomplete", "failed"}
        BY <2>2 DEF ParseResponses
    <2>3. CASE response.status \in {"completed", "incomplete"}
        BY <2>3 DEF ParseResponses
    <2> QED BY <2>1, <2>2, <2>3
<1> HIDE DEF parsed, inner, stop, items, added
<1>4. (\A i \in 1..n : added[i].ok) /\ parsed.items = items
    <2>1. parsed = inner
        BY <1>2, <1>3
    <2> QED BY <1>1, <1>2, <2>1 DEF Undecodable
<1>5. /\ IsSequence(output) /\ n \in Nat
      /\ \A i \in 1..n : /\ IsOutputItem(output[i])
                         /\ "content" \in DOMAIN output[i] => IsSequence(output[i].content)
    <2>1. /\ IsSequence(output)
          /\ \A i \in 1..n : /\ IsOutputItem(output[i])
                             /\ "content" \in DOMAIN output[i] => IsSequence(output[i].content)
        BY DEF IsAnswer, AnthropicName, ChatName, ResponsesName
    <2> QED BY <2>1, Elements
<1> HIDE DEF n, mapped
<1>6. ASSUME NEW i \in 1..n PROVE AreItems(added[i].items)
    <2> DEFINE cut == (mapped = "MaxTokens" /\ i = n)
               item == output[i]
    <2>1. added[i] = OutputItem(item, cut) /\ added[i].ok
        BY <1>4 DEF added
    <2>2. IsOutputItem(item) /\ ("content" \in DOMAIN item => IsSequence(item.content))
        BY <1>5
    <2> HIDE DEF cut, item
    <2> QED BY <2>1, <2>2, OutputItemFacts
<1>7. AreItems(items)
    <2>1. F = [i \in 1..n |-> F[i]] /\ \A i \in 1..n : AreItems(F[i])
        BY <1>6
    <2> HIDE DEF F
    <2> QED BY <1>5, <2>1, FlatItems DEF items
<1> QED BY <1>4, <1>7 DEF parsed

(* Whatever the format.                                                      *)
LEMMA ParseFacts ==
    ASSUME NEW protocol \in Protocols, NEW response, IsAnswer(protocol, response), Parse(protocol, response).ok
    PROVE  AreItems(Parse(protocol, response).items)
<1>n. AnthropicName # ChatName /\ AnthropicName # ResponsesName /\ ChatName # ResponsesName
    BY DEF AnthropicName, ChatName, ResponsesName
<1>1. CASE protocol = AnthropicName
    <2>1. Parse(protocol, response) = ParseAnthropic(response)
        BY <1>n, <1>1 DEF Parse
    <2> QED BY <1>1, <2>1, AnthropicItems
<1>2. CASE protocol = ChatName
    <2>1. Parse(protocol, response) = ParseChat(response)
        BY <1>n, <1>2 DEF Parse
    <2> QED BY <1>2, <2>1, ChatItems
<1>3. CASE protocol = ResponsesName
    <2>1. Parse(protocol, response) = ParseResponses(response)
        BY <1>n, <1>3 DEF Parse
    <2> QED BY <1>3, <2>1, ResponsesOutputItems
<1> QED BY <1>1, <1>2, <1>3 DEF Protocols

-----------------------------------------------------------------------------
(* How a context's changes go with its blocks.                               *)
ChangesBy(V) == [b \in V |-> ChangeAt(b)]

(* Of blocks, sequences are contexts, and their changes those of each.       *)
LEMMA ChangesSpread ==
    ASSUME NEW V, \A b \in V : IsBlock(b)
    PROVE  /\ Spreads(ChangesBy(V), V, ToolChanges)
           /\ \A bs \in Seq(V) : IsContext(bs) /\ ChangesOf(bs) = Spread(ChangesBy(V), bs)
<1> DEFINE h == ChangesBy(V)
<1>1. ASSUME NEW b \in V PROVE ChangeAt(b) \in Seq(ToolChanges)
    <2> DEFINE c == [added |-> b.added, removed |-> b.removed]
    <2>1. CASE IsChange(b)
        <3>1. b.added \in Seq(Definitions) /\ b.removed \in Seq(ToolNames)
            BY <2>1 DEF IsBlock, IsChange
        <3>2. c \in ToolChanges
            BY <3>1 DEF ToolChanges, Changes
        <3>3. ChangeAt(b) = <<c>>
            BY <2>1 DEF ChangeAt
        <3> HIDE DEF c
        <3> QED BY <3>2, <3>3
    <2>2. CASE ~IsChange(b)
        BY <2>2 DEF ChangeAt
    <2> QED BY <2>1, <2>2
<1>2. h \in [V -> Seq(ToolChanges)] /\ \A b \in V : h[b] = ChangeAt(b)
    BY <1>1 DEF ChangesBy
<1> HIDE DEF h
<1>3. ASSUME NEW bs \in Seq(V) PROVE IsContext(bs) /\ ChangesOf(bs) = Spread(h, bs)
    <2>1. IsSequence(bs) /\ \A i \in 1..Len(bs) : bs[i] \in V
        BY SequenceOf
    <2>2. IsContext(bs)
        BY <2>1 DEF IsContext
    <2>3. [i \in 1..Len(bs) |-> ChangeAt(bs[i])] = [i \in 1..Len(bs) |-> h[bs[i]]]
        BY <1>2, <2>1
    <2> QED BY <2>2, <2>3 DEF ChangesOf, Spread
<1> QED BY <1>2, <1>3 DEF Spreads, h

(* A context is a sequence of its blocks.                                   *)
LEMMA ContextBlocks ==
    ASSUME NEW bs, IsContext(bs)
    PROVE  bs \in Seq(ToSet(bs)) /\ \A b \in ToSet(bs) : IsBlock(b)
<1>1. bs \in Seq(ToSet(bs)) /\ \A i \in 1..Len(bs) : IsBlock(bs[i])
    BY DEF IsContext, IsSequence
<1>2. ToSet(bs) = {bs[i] : i \in 1..Len(bs)}
    BY Elements DEF IsContext
<1> QED BY <1>1, <1>2

(* Blocks after blocks: their changes after the others.                      *)
LEMMA ContextJoins ==
    ASSUME NEW s, IsContext(s), NEW t, IsContext(t)
    PROVE  IsContext(s \o t) /\ ChangesOf(s \o t) = ChangesOf(s) \o ChangesOf(t)
<1> DEFINE V == ToSet(s) \cup ToSet(t)
           h == ChangesBy(V)
<1>1. s \in Seq(V) /\ t \in Seq(V) /\ \A b \in V : IsBlock(b)
    <2> DEFINE S == ToSet(s)
               T == ToSet(t)
    <2>1. s \in Seq(S) /\ t \in Seq(T) /\ (\A b \in S : IsBlock(b)) /\ \A b \in T : IsBlock(b)
        BY ContextBlocks
    <2>2. S \subseteq V /\ T \subseteq V /\ V = S \cup T
        OBVIOUS
    <2> HIDE DEF S, T, V
    <2> QED BY <2>1, <2>2
<1> HIDE DEF V
<1>2. /\ Spreads(h, V, ToolChanges)
      /\ \A bs \in Seq(V) : IsContext(bs) /\ ChangesOf(bs) = Spread(h, bs)
    BY <1>1, ChangesSpread
<1> HIDE DEF h
<1>3. Spread(h, s \o t) = Spread(h, s) \o Spread(h, t)
    BY <1>1, <1>2, SpreadJoins
<1>4. s \o t \in Seq(V)
    BY <1>1
<1> QED BY <1>1, <1>2, <1>3, <1>4

(* Blocks none of which is a change.                                         *)
Quiet(bs) == IsContext(bs) /\ \A i \in 1..Len(bs) : bs[i].kind # "change"

(* They say no change.                                                      *)
LEMMA QuietFacts ==
    ASSUME NEW bs, Quiet(bs)
    PROVE  ChangesOf(bs) = <<>>
<1> DEFINE n == Len(bs)
           F == [i \in 1..n |-> ChangeAt(bs[i])]
<1>1. n \in Nat
    BY Elements DEF Quiet, IsContext
<1>2. \A i \in 1..n : F[i] = <<>>
    BY DEF Quiet, ChangeAt, IsChange
<1>3. ChangesOf(bs) = FlattenSeq(F) /\ F = [i \in 1..n |-> F[i]]
    BY DEF ChangesOf
<1> HIDE DEF n, F
<1>4. FlattenSeq(F) = <<>>
    BY <1>1, <1>2, <1>3, FlatNothing
<1> QED BY <1>3, <1>4

(* Such blocks may be appended, ...                                          *)
LEMMA QuietAppended ==
    ASSUME NEW s, IsContext(s), NEW t, Quiet(t)
    PROVE  IsContext(s \o t) /\ ChangesOf(s \o t) = ChangesOf(s)
<1>1. IsContext(s \o t) /\ ChangesOf(s \o t) = ChangesOf(s) \o ChangesOf(t)
    BY ContextJoins DEF Quiet
<1>2. ChangesOf(t) = <<>> /\ ChangesOf(s) \in Seq(ToolChanges)
    BY QuietFacts, ChangesType
<1>3. ChangesOf(s) \o <<>> = ChangesOf(s)
    BY <1>2, ConcatEmptySeq
<1> QED BY <1>1, <1>2, <1>3

(* ... be removed, ...                                                       *)
LEMMA QuietRemoved ==
    ASSUME NEW bs, IsContext(bs), NEW i \in 1..Len(bs), ~IsChange(bs[i])
    PROVE  IsContext(RemoveAt(bs, i)) /\ ChangesOf(RemoveAt(bs, i)) = ChangesOf(bs)
<1> DEFINE V == ToSet(bs)
           n == Len(bs)
           front == SubSeq(bs, 1, i - 1)
           back  == SubSeq(bs, i + 1, n)
           b == bs[i]
<1>1. bs \in Seq(V) /\ \A x \in V : IsBlock(x)
    BY ContextBlocks
<1>2. \A u \in Seq(V) : IsContext(u)
    BY <1>1, ChangesSpread
<1> HIDE DEF V
<1>3. n \in Nat /\ i \in 1..n /\ \A k \in 1..n : bs[k] \in V
    BY <1>1
<1>4. front \in Seq(V) /\ Len(front) = i - 1 /\ \A k \in 1..(i - 1) : front[k] = bs[k]
    BY <1>1, <1>3
<1>5. back \in Seq(V) /\ Len(back) = n - i /\ \A k \in 1..(n - i) : back[k] = bs[i + k]
    BY <1>1, <1>3
<1>6. <<b>> \in Seq(V) /\ Len(<<b>>) = 1 /\ <<b>>[1] = b
    BY <1>3
<1> DEFINE one == <<b>>
           rest == one \o back
<1>o. one \in Seq(V) /\ Len(one) = 1 /\ one[1] = b
    BY <1>6
<1> HIDE DEF front, back, one
<1>7. /\ rest \in Seq(V) /\ Len(rest) = 1 + (n - i)
      /\ \A k \in 1..(1 + (n - i)) : rest[k] = IF k <= 1 THEN one[k] ELSE back[k - 1]
    <2>1. /\ one \o back \in Seq(V) /\ Len(one \o back) = Len(one) + Len(back)
          /\ \A k \in 1..(Len(one) + Len(back)) :
                (one \o back)[k] = IF k <= Len(one) THEN one[k] ELSE back[k - Len(one)]
        BY <1>5, <1>o, ConcatProperties
    <2> QED BY <1>5, <1>o, <2>1
<1> HIDE DEF rest, n
<1>8. /\ front \o rest \in Seq(V) /\ Len(front \o rest) = n
      /\ \A k \in 1..n : (front \o rest)[k] = IF k <= i - 1 THEN front[k] ELSE rest[k - (i - 1)]
    <2>1. /\ front \o rest \in Seq(V) /\ Len(front \o rest) = (i - 1) + (1 + (n - i))
          /\ \A k \in 1..((i - 1) + (1 + (n - i))) :
                (front \o rest)[k] = IF k <= i - 1 THEN front[k] ELSE rest[k - (i - 1)]
        <3>1. /\ front \o rest \in Seq(V) /\ Len(front \o rest) = Len(front) + Len(rest)
              /\ \A k \in 1..(Len(front) + Len(rest)) :
                    (front \o rest)[k] = IF k <= Len(front) THEN front[k] ELSE rest[k - Len(front)]
            BY <1>4, <1>7, ConcatProperties
        <3>2. Len(front) = i - 1 /\ Len(rest) = 1 + (n - i)
            BY <1>4, <1>7
        <3> QED BY <3>1, <3>2
    <2>2. (i - 1) + (1 + (n - i)) = n
        BY <1>3
    <2> QED BY <2>1, <2>2
<1>9. ASSUME NEW k \in 1..n PROVE (front \o rest)[k] = bs[k]
    <2>1. CASE k <= i - 1
        <3>1. k \in 1..(i - 1)
            BY <1>3, <2>1
        <3> QED BY <1>4, <1>8, <2>1, <3>1
    <2>2. CASE k = i
        <3>1. ~(k <= i - 1) /\ k - (i - 1) = 1 /\ 1 \in 1..(1 + (n - i))
            BY <1>3, <2>2
        <3>2. rest[1] = one[1]
            BY <1>7, <3>1
        <3> QED BY <1>o, <1>8, <2>2, <3>1, <3>2
    <2>3. CASE k > i
        <3> DEFINE j == k - (i - 1)
        <3>1. ~(k <= i - 1) /\ j \in 1..(1 + (n - i)) /\ ~(j <= 1) /\ j - 1 \in 1..(n - i) /\ i + (j - 1) = k
            BY <1>3, <2>3
        <3>2. rest[j] = back[j - 1]
            BY <1>7, <3>1
        <3>3. back[j - 1] = bs[k]
            BY <1>5, <3>1
        <3> QED BY <1>8, <3>1, <3>2, <3>3
    <2>4. k <= i - 1 \/ k = i \/ k > i
        BY <1>3
    <2> QED BY <2>1, <2>2, <2>3, <2>4
<1>10. bs = front \o rest
    <2> DEFINE both == front \o rest
    <2>1. both \in Seq(V) /\ Len(both) = n /\ \A k \in 1..n : both[k] = bs[k]
        BY <1>8, <1>9
    <2> HIDE DEF both
    <2>2. both = bs
        BY <1>1, <2>1, SeqEqual DEF n
    <2> QED BY <2>2 DEF both
<1>11. ChangesOf(one) = <<>>
    <2>1. IsContext(one) /\ one[1].kind # "change"
        BY <1>2, <1>o DEF IsChange
    <2>2. \A k \in 1..Len(one) : k = 1
        BY <1>o
    <2>3. Quiet(one)
        BY <2>1, <2>2 DEF Quiet
    <2> QED BY <2>3, QuietFacts
<1>12. /\ IsContext(front) /\ IsContext(back) /\ IsContext(one) /\ IsContext(rest)
    BY <1>2, <1>4, <1>5, <1>6, <1>7 DEF one
<1>13. ChangesOf(rest) = <<>> \o ChangesOf(back) /\ ChangesOf(back) \in Seq(ToolChanges)
    BY <1>11, <1>12, ContextJoins, ChangesType DEF rest
<1>14. ChangesOf(rest) = ChangesOf(back)
    BY <1>13, ConcatEmptySeq
<1>15. ChangesOf(bs) = ChangesOf(front) \o ChangesOf(back)
    BY <1>10, <1>12, <1>14, ContextJoins
<1>16. IsContext(front \o back) /\ ChangesOf(front \o back) = ChangesOf(front) \o ChangesOf(back)
    BY <1>12, ContextJoins
<1>17. RemoveAt(bs, i) = front \o back
    BY DEF RemoveAt, front, back, n
<1> QED BY <1>15, <1>16, <1>17

(* ... and be replaced by others.                                            *)
LEMMA QuietReplaced ==
    ASSUME NEW bs, IsContext(bs), NEW i \in 1..Len(bs), ~IsChange(bs[i]),
           NEW block, IsBlock(block), ~IsChange(block)
    PROVE  /\ IsContext([bs EXCEPT ![i] = block])
           /\ ChangesOf([bs EXCEPT ![i] = block]) = ChangesOf(bs)
<1> DEFINE V == ToSet(bs) \cup {block}
           n == Len(bs)
           new == [bs EXCEPT ![i] = block]
<1>1. bs \in Seq(V) /\ \A x \in V : IsBlock(x)
    <2> DEFINE S == ToSet(bs)
    <2>1. bs \in Seq(S) /\ (\A x \in S : IsBlock(x)) /\ S \subseteq V /\ V = S \cup {block}
        BY ContextBlocks
    <2> HIDE DEF S, V
    <2> QED BY <2>1
<1>2. block \in V
    OBVIOUS
<1> HIDE DEF V
<1>3. /\ new \in Seq(V) /\ Len(new) = n
      /\ \A k \in 1..n : new[k] = IF k = i THEN block ELSE bs[k]
    BY <1>1, <1>2
<1>4. IsContext(new)
    BY <1>1, <1>3, ChangesSpread
<1> HIDE DEF new
<1>5. \A k \in 1..n : ChangeAt(new[k]) = ChangeAt(bs[k])
    BY <1>3 DEF ChangeAt
<1>6. [k \in 1..Len(new) |-> ChangeAt(new[k])] = [k \in 1..n |-> ChangeAt(bs[k])]
    BY <1>3, <1>5
<1> QED BY <1>4, <1>6 DEF ChangesOf, new

-----------------------------------------------------------------------------
(* What each action appends.                                                 *)

(* A block keeps what it is under its id.                                    *)
LEMMA IdsKept ==
    ASSUME NEW block, IsBlock(block), block.kind # "change", NEW n
    PROVE  LET named == Over([id |-> n], block)
           IN  IsBlock(named) /\ named.kind = block.kind
<1> DEFINE named == Over([id |-> n], block)
<1>1. /\ DOMAIN named = {"id"} \cup DOMAIN block
      /\ \A key \in DOMAIN block : key # "id" => named[key] = block[key]
    BY DEF Over
<1> HIDE DEF named
<1>2. named.kind = block.kind
    BY <1>1 DEF IsBlock
<1>3. block.kind = "message" => IsMessage(named)
    <2> SUFFICES ASSUME block.kind = "message" PROVE IsMessage(named)
        OBVIOUS
    <2>1. IsMessage(block)
        BY DEF IsBlock
    <2>2. /\ {"role", "parts", "wire"} \subseteq DOMAIN named
          /\ named.role = block.role /\ named.parts = block.parts /\ named.wire = block.wire
        BY <1>1, <2>1 DEF IsMessage
    <2> QED BY <2>1, <2>2 DEF IsMessage
<1>4. block.kind = "call" => "wire" \in DOMAIN named /\ FieldsKept(named.wire)
    <2> SUFFICES ASSUME block.kind = "call" PROVE "wire" \in DOMAIN named /\ FieldsKept(named.wire)
        OBVIOUS
    <2>1. "wire" \in DOMAIN block /\ FieldsKept(block.wire)
        BY DEF IsBlock
    <2>2. "wire" \in DOMAIN named /\ named.wire = block.wire
        BY <1>1, <2>1
    <2> QED BY <2>1, <2>2
<1>5. "kind" \in DOMAIN named /\ block.kind \in {"message", "call", "result"}
    BY <1>1 DEF IsBlock
<1> QED BY <1>2, <1>3, <1>4, <1>5 DEF IsBlock, named

(* Identifiers change nothing of that.                                      *)
LEMMA WithIdsQuiet ==
    ASSUME NEW news, Quiet(news)
    PROVE  Quiet(WithIds(news))
<1> DEFINE n == Len(news)
           named == WithIds(news)
<1>1. n \in Nat
    BY Elements DEF Quiet, IsContext
<1>2. named = [i \in 1..n |-> Over([id |-> Len(blocks) + i], news[i])]
    BY DEF WithIds
<1> HIDE DEF named
<1>3. Len(named) = n /\ DOMAIN named = 1..n
    BY <1>1, <1>2
<1>4. ASSUME NEW i \in 1..n PROVE IsBlock(named[i]) /\ named[i].kind # "change"
    <2>1. IsBlock(news[i]) /\ news[i].kind # "change"
        BY DEF Quiet, IsContext
    <2> DEFINE x == Len(blocks) + i
               block == news[i]
    <2>2. named[i] = Over([id |-> x], block)
        BY <1>2
    <2> HIDE DEF x, block
    <2>3. IsBlock(Over([id |-> x], block)) /\ Over([id |-> x], block).kind = block.kind
        BY <2>1, IdsKept DEF block
    <2> QED BY <2>1, <2>2, <2>3 DEF block
<1>5. IsSequence(named)
    <2>1. named = [i \in 1..n |-> named[i]]
        BY <1>2
    <2>2. \A i \in 1..n : named[i] \in ToSet(named)
        BY <1>3 DEF ToSet
    <2>3. named \in Seq(ToSet(named))
        BY <1>1, <2>1, <2>2
    <2> QED BY <2>3 DEF IsSequence
<1> QED BY <1>3, <1>4, <1>5 DEF Quiet, IsContext, named

(* One block.                                                                *)
LEMMA OneBlock ==
    ASSUME NEW block, IsBlock(block)
    PROVE  IsContext(<<block>>) /\ (block.kind # "change" => Quiet(<<block>>))
BY Single DEF IsContext, Quiet

(* What the items of an answer are kept as.                                  *)
LEMMA ItemBlocks ==
    ASSUME NEW item, IsItem(item)
    PROVE  IsBlock(ItemBlock(item)) /\ ItemBlock(item).kind # "change"
<1>1. CASE item.item = "call"
    <2>1. ItemBlock(item) = [kind |-> "call", name |-> item.name, args |-> item.args, pid |-> item.pid,
                             wire |-> item.wire]
        BY <1>1 DEF ItemBlock
    <2> QED BY <2>1 DEF IsBlock, IsItem
<1>2. CASE item.item = "parts"
    <2> DEFINE n == Len(item.parts)
               F == [i \in 1..n |-> IF KeepsPart(item.parts[i]) THEN <<item.parts[i]>> ELSE <<>>]
               V == UNION {ToSet(F[i]) : i \in 1..n}
               parts == FlattenSeq(F)
    <2>1. ItemBlock(item) = [kind |-> "message", role |-> "assistant", wire |-> item.wire, parts |-> parts]
        BY <1>2 DEF ItemBlock, Chosen
    <2>2. n \in Nat /\ \A i \in 1..n : IsPart(item.parts[i])
        BY <1>2, Elements DEF IsItem
    <2>3. \A i \in 1..n : IsSequence(F[i]) /\ \A x \in ToSet(F[i]) : IsPart(x)
        <3> TAKE i \in 1..n
        <3>1. F[i] = <<item.parts[i]>> \/ F[i] = <<>>
            OBVIOUS
        <3> HIDE DEF F
        <3> QED BY <2>2, <3>1, Single
    <2>4. (\A x \in V : IsPart(x)) /\ F = [i \in 1..n |-> F[i]]
        BY <2>3
    <2> HIDE DEF F, n
    <2>5. parts \in Seq(V)
        BY <2>2, <2>3, <2>4, FlatElements
    <2> HIDE DEF parts, V
    <2>6. IsSequence(parts) /\ \A p \in 1..Len(parts) : IsPart(parts[p])
        <3>1. IsSequence(parts)
            BY <2>5, SequenceOf
        <3>2. \A p \in 1..Len(parts) : parts[p] \in V
            BY <2>5
        <3> QED BY <2>4, <3>1, <3>2
    <2>7. FieldsKept(item.wire)
        BY DEF IsItem
    <2> DEFINE block == [kind |-> "message", role |-> "assistant", wire |-> item.wire, parts |-> parts]
    <2>8. IsMessage(block) /\ "kind" \in DOMAIN block /\ block.kind = "message"
        BY <2>6, <2>7 DEF IsMessage
    <2> HIDE DEF block
    <2>9. IsBlock(block)
        BY <2>8 DEF IsBlock
    <2> QED BY <2>1, <2>8, <2>9 DEF block
<1> QED BY <1>1, <1>2 DEF IsItem

(* The blocks made of an answer's items are no change.                      *)
LEMMA ToBlocksQuiet ==
    ASSUME NEW items, AreItems(items)
    PROVE  Quiet(ToBlocks(items))
<1> DEFINE n == Len(items)
           kept == [i \in 1..n |-> ItemBlock(items[i])]
           F == [i \in 1..Len(kept) |-> IF SaysSomething(kept[i]) THEN <<kept[i]>> ELSE <<>>]
           V == UNION {ToSet(F[i]) : i \in 1..n}
           news == FlattenSeq(F)
<1>1. n \in Nat /\ \A i \in 1..n : IsItem(items[i])
    <2>1. n \in Nat /\ ToSet(items) = {items[i] : i \in 1..n}
        BY Elements DEF AreItems
    <2> QED BY <2>1 DEF AreItems
<1>2. ToBlocks(items) = WithIds(news)
    BY DEF ToBlocks, Chosen
<1>3. Len(kept) = n /\ \A i \in 1..n : kept[i] = ItemBlock(items[i])
    BY <1>1
<1>4. \A i \in 1..n : IsBlock(kept[i]) /\ kept[i].kind # "change"
    BY <1>1, <1>3, ItemBlocks
<1> HIDE DEF kept
<1>5. \A i \in 1..n : IsSequence(F[i]) /\ \A x \in ToSet(F[i]) : IsBlock(x) /\ x.kind # "change"
    <2> TAKE i \in 1..n
    <2>1. F[i] = <<kept[i]>> \/ F[i] = <<>>
        BY <1>3
    <2> DEFINE b == kept[i]
               f == F[i]
               Fine(x) == IsBlock(x) /\ x.kind # "change"
    <2>2. Fine(b) /\ (f = <<b>> \/ f = <<>>)
        BY <1>4, <2>1
    <2> HIDE DEF F, b, f, Fine
    <2>3. IsSequence(f) /\ \A x \in ToSet(f) : Fine(x)
        BY <2>2, Single
    <2> QED BY <2>3 DEF f, Fine
<1>6. F = [i \in 1..n |-> F[i]] /\ \A x \in V : IsBlock(x) /\ x.kind # "change"
    BY <1>3, <1>5
<1> HIDE DEF F, n
<1>7. news \in Seq(V)
    BY <1>1, <1>5, <1>6, FlatElements
<1> HIDE DEF V, news
<1>8. IsSequence(news) /\ \A i \in 1..Len(news) : news[i] \in V
    BY <1>7, SequenceOf
<1>9. Quiet(news)
    BY <1>6, <1>8 DEF Quiet, IsContext
<1> QED BY <1>2, <1>9, WithIdsQuiet

-----------------------------------------------------------------------------
(* The tools in force are definitions, each named once.                      *)
LEMMA NowOffers ==
    ASSUME NEW bs, IsContext(bs)
    PROVE  CurrentTools(ChangesOf(bs)) \in Offers(Definitions)
<1>1. ChangesOf(bs) \in Seq(Changes(Definitions, ToolNames))
    BY ChangesType DEF ToolChanges
<1>2. <<>> \in Offers(Definitions)
    BY DEF Offers, OneEach
<1> QED BY <1>1, <1>2, ApplyFacts DEF CurrentTools

(* The tools of a request, whatever the format.                              *)
LEMMA RenderOffers ==
    ASSUME api.protocol \in Protocols, NEW bs, IsContext(bs), Render(bs).ok
    PROVE  /\ OneEach(OfferedBy(Render(bs)))
           /\ ToSet(OfferedBy(Render(bs))) = ToSet(CurrentTools(ChangesOf(bs)))
<1> DEFINE r == Render(bs)
           tools == OfferedBy(r)
           now == CurrentTools(ChangesOf(bs))
<1>n. AnthropicName # ChatName /\ AnthropicName # ResponsesName /\ ChatName # ResponsesName
    BY DEF AnthropicName, ChatName, ResponsesName
<1>0. r.ok
    OBVIOUS
<1>1. CASE api.protocol = AnthropicName
    <2>1. r = RenderAnthropic(bs, api.option, TRUE)
        BY <1>n, <1>1 DEF Render
    <2>2. tools = ApplyAll(r.tools, Carried(r.messages))
        BY <1>n, <1>1 DEF OfferedBy, Carried
    <2> HIDE DEF r, tools
    <2>3. LET a == RenderAnthropic(bs, api.option, TRUE)
              offered == ApplyAll(a.tools, Carried(a.messages))
          IN  offered \in Offers(Definitions) /\ ToSet(offered) = ToSet(now)
        BY <1>0, <2>1, AnthropicOffers
    <2>4. tools \in Offers(Definitions) /\ ToSet(tools) = ToSet(now)
        BY <2>1, <2>2, <2>3
    <2> QED BY <2>4 DEF Offers, tools, r
<1>2. CASE api.protocol = ChatName
    <2>1. r = RenderChat(bs, api.option)
        BY <1>n, <1>2 DEF Render
    <2>2. tools = r.tools
        BY <1>n, <1>2 DEF OfferedBy
    <2> HIDE DEF r, tools
    <2>3. r.tools = now
        BY <1>0, <2>1, ChatOffers
    <2>4. now \in Offers(Definitions)
        BY NowOffers
    <2> QED BY <2>2, <2>3, <2>4 DEF Offers, tools, r
<1>3. CASE api.protocol = ResponsesName
    <2>1. r = RenderResponses(bs, api.option)
        BY <1>n, <1>3 DEF Render
    <2>2. tools = r.tools \o ItemTools(r.messages)
        BY <1>n, <1>3 DEF OfferedBy, ItemTools
    <2> HIDE DEF r, tools
    <2>3. LET a == RenderResponses(bs, api.option)
              offered == a.tools \o ItemTools(a.messages)
          IN  offered \in Offers(Definitions) /\ ToSet(offered) = ToSet(now)
        BY <1>0, <2>1, ResponsesOffers
    <2>4. tools \in Offers(Definitions) /\ ToSet(tools) = ToSet(now)
        BY <2>1, <2>2, <2>3
    <2> QED BY <2>4 DEF Offers, tools, r
<1> QED BY <1>1, <1>2, <1>3 DEF Protocols

-----------------------------------------------------------------------------
(* The inductive invariant: the context records the tools bound last, so the *)
(* request of it offers them.                                                *)
OffersInv ==
    /\ api.protocol \in Protocols
    /\ IsContext(blocks)
    /\ bound \in Offers(Definitions)
    /\ ToSet(CurrentTools(ChangesOf(blocks))) = ToSet(bound)
    /\ OffersBoundTools

(* Whatever is appended or edited, as long as the tools recorded are bound.  *)
LEMMA Recorded ==
    ASSUME OffersInv, api' = api, request' = Render(blocks'), IsContext(blocks'),
           bound' \in Offers(Definitions), ToSet(CurrentTools(ChangesOf(blocks'))) = ToSet(bound')
    PROVE  OffersInv'
<1>1. api.protocol \in Protocols
    BY DEF OffersInv
<1>2. ASSUME request'.ok
      PROVE  OneEach(OfferedBy(request')) /\ ToSet(OfferedBy(request')) = ToSet(bound')
    <2> DEFINE bs == blocks'
               r == Render(bs)
    <2>1. r.ok /\ IsContext(bs)
        BY <1>2
    <2> HIDE DEF bs
    <2>2. OneEach(OfferedBy(r)) /\ ToSet(OfferedBy(r)) = ToSet(CurrentTools(ChangesOf(bs)))
        BY <1>1, <2>1, RenderOffers
    <2> QED BY <2>2 DEF bs
<1>3. OffersBoundTools'
    <2>1. (OfferedBy(request))' = OfferedBy(request')
        BY DEF OfferedBy
    <2> QED BY <1>2, <2>1 DEF OffersBoundTools
<1> QED BY <1>1, <1>3 DEF OffersInv

(* Nothing about the tools is recorded.                                      *)
LEMMA NothingRecorded ==
    ASSUME OffersInv, api' = api, bound' = bound, request' = Render(blocks'), IsContext(blocks'),
           ChangesOf(blocks') = ChangesOf(blocks)
    PROVE  OffersInv'
<1>1. bound' \in Offers(Definitions) /\ ToSet(CurrentTools(ChangesOf(blocks'))) = ToSet(bound')
    BY DEF OffersInv
<1> QED BY <1>1, Recorded

(* Blocks are appended.                                                      *)
Appended == \E news : IsSequence(news) /\ Grows(news)

(* Blocks that are no change are appended.                                   *)
LEMMA QuietGrows ==
    ASSUME OffersInv, bound' = bound, NEW news, Quiet(news), Grows(news)
    PROVE  OffersInv' /\ Appended
<1>1. api' = api /\ request' = Render(blocks') /\ blocks' = blocks \o news /\ IsContext(blocks)
    BY DEF Grows, OffersInv
<1>2. IsContext(blocks') /\ ChangesOf(blocks') = ChangesOf(blocks)
    BY <1>1, QuietAppended
<1>3. Appended
    BY Zenon DEF Appended, Quiet, IsContext
<1> QED BY <1>1, <1>2, <1>3, NothingRecorded

(* The host speaks.                                                          *)
LEMMA HostSaysKeeps ==
    ASSUME OffersInv, NEW message \in HostParts, HostSays(message)
    PROVE  OffersInv' /\ Appended
<1> DEFINE block == [kind |-> "message", role |-> message.role, parts |-> message.parts, wire |-> <<>>]
           news == <<block>>
<1>1. bound' = bound /\ Grows(WithIds(news))
    BY DEF HostSays
<1>2. IsBlock(block) /\ block.kind # "change"
    <2>1. FieldsKept(<<>>)
        BY DEF FieldsKept
    <2>2. IsMessage(block)
        BY <2>1, HostPartsAssumption DEF IsMessage
    <2> QED BY <2>2 DEF IsBlock
<1> HIDE DEF block
<1>3. Quiet(news)
    BY <1>2, OneBlock
<1> HIDE DEF news
<1>4. Quiet(WithIds(news))
    BY <1>3, WithIdsQuiet
<1> QED BY <1>1, <1>4, QuietGrows

(* The tools a round binds are recorded with what they differ by.            *)
LEMMA RecordToolsKeeps ==
    ASSUME OffersInv, NEW surface \in Surfaces, RecordTools(surface)
    PROVE  OffersInv' /\ Appended
<1> DEFINE now == CurrentTools(ChangesOf(blocks))
           change == Between(now, surface)
           block == [kind |-> "change", added |-> change.added, removed |-> change.removed]
           news == IF IsEmpty(change) THEN <<>> ELSE WithIds(<<block>>)
<1>1. bound' = surface /\ Grows(news)
    BY DEF RecordTools
<1>2. /\ api' = api /\ request' = Render(blocks') /\ blocks' = blocks \o news
      /\ IsContext(blocks)
    BY <1>1 DEF Grows, OffersInv
<1>3. surface \in Seq(Definitions) /\ OneEach(surface) /\ surface \in Offers(Definitions)
    <2> DEFINE V == ToSet(surface)
    <2>1. surface \in Seq(V) /\ OneEach(surface)
        BY SurfacesAssumption DEF IsSequence
    <2>2. V \subseteq Definitions
        BY DEF Definitions
    <2> HIDE DEF V
    <2>3. surface \in Seq(Definitions)
        BY <2>1, <2>2
    <2> QED BY <2>1, <2>3 DEF Offers
<1>4. now \in Seq(Definitions) /\ OneEach(now)
    BY <1>2, NowOffers DEF Offers
<1>5. \A d \in Definitions : d.name \in ToolNames
    BY DEF ToolNames
<1> HIDE DEF now
<1>6. /\ change \in Changes(Definitions, ToolNames)
      /\ IsEmpty(change) => ToSet(now) = ToSet(surface)
      /\ ToSet(ApplyTo(now, change)) = ToSet(surface)
    BY <1>3, <1>4, <1>5, BetweenFacts
<1>7. OneEach(change.added)
    BY <1>3, OnlyFacts DEF Between
<1> HIDE DEF change, news
<1>8. CASE IsEmpty(change)
    <2>1. Quiet(<<>>)
        BY Single DEF Quiet, IsContext
    <2>2. news = <<>>
        BY <1>8 DEF news
    <2>3. IsContext(blocks') /\ ChangesOf(blocks') = ChangesOf(blocks)
        BY <1>2, <2>1, <2>2, QuietAppended
    <2>4. ToSet(CurrentTools(ChangesOf(blocks'))) = ToSet(surface)
        BY <1>6, <1>8, <2>3 DEF now
    <2>5. Appended
        BY <1>1, <2>2, Single, Zenon DEF Appended
    <2> QED BY <1>1, <1>2, <1>3, <2>3, <2>4, <2>5, Recorded
<1>9. CASE ~IsEmpty(change)
    <2> DEFINE named == Over([id |-> Len(blocks) + 1], block)
               c == Change(change)
    <2>1. news = <<named>>
        <3>1. news = WithIds(<<block>>)
            BY <1>9 DEF news
        <3>2. WithIds(<<block>>) = [i \in 1..1 |-> Over([id |-> Len(blocks) + i], <<block>>[i])]
            BY DEF WithIds
        <3> DEFINE f == [i \in 1..1 |-> Over([id |-> Len(blocks) + i], <<block>>[i])]
        <3>3. f[1] = named /\ DOMAIN f = 1..1 /\ f = [i \in 1..1 |-> f[i]]
            OBVIOUS
        <3> HIDE DEF f, named, block
        <3>4. f = <<named>>
            BY <3>3
        <3> QED BY <3>1, <3>2, <3>4 DEF f, named
    <2>2. /\ "kind" \in DOMAIN named /\ named.kind = "change"
          /\ named.added = change.added /\ named.removed = change.removed
        BY DEF Over
    <2> HIDE DEF named, block
    <2>3. IsBlock(named)
        BY <1>6, <1>7, <2>2 DEF IsBlock, Changes
    <2>4. IsContext(<<named>>) /\ ChangesOf(<<named>>) = <<c>>
        <3> DEFINE V == {named}
                   h == ChangesBy(V)
        <3>1. \A b \in V : IsBlock(b)
            BY <2>3
        <3>2. named \in V /\ <<named>> \in Seq(V)
            OBVIOUS
        <3>3. h[named] = ChangeAt(named)
            BY <3>2 DEF ChangesBy
        <3> HIDE DEF V, h
        <3>4. Spreads(h, V, ToolChanges) /\ IsContext(<<named>>) /\ ChangesOf(<<named>>) = Spread(h, <<named>>)
            BY <3>1, <3>2, ChangesSpread DEF h
        <3>5. Spread(h, <<named>>) = h[named]
            BY <3>2, <3>4, SpreadOne
        <3>6. ChangeAt(named) = <<c>>
            BY <2>2 DEF ChangeAt, IsChange, Change
        <3> QED BY <3>3, <3>4, <3>5, <3>6
    <2>5. IsContext(blocks') /\ ChangesOf(blocks') = ChangesOf(blocks) \o <<c>>
        BY <1>2, <2>1, <2>4, ContextJoins
    <2>6. CurrentTools(ChangesOf(blocks')) = ApplyTo(now, c)
        <3> DEFINE s == ChangesOf(blocks)
        <3>1. s \in Seq(Changes(Definitions, ToolNames))
            BY <1>2, ChangesType DEF ToolChanges
        <3>2. c \in Changes(Definitions, ToolNames)
            BY <1>6 DEF Change, Changes
        <3>3. <<>> \in Offers(Definitions)
            BY DEF Offers, OneEach
        <3> HIDE DEF s, c
        <3>4. ApplyAll(<<>>, s \o <<c>>) = ApplyTo(ApplyAll(<<>>, s), c)
            BY <3>1, <3>2, <3>3, ApplyAppend
        <3> QED BY <2>5, <3>4 DEF CurrentTools, now, s
    <2>7. ApplyTo(now, c) = ApplyTo(now, change)
        BY ChangeOnly
    <2>8. ToSet(CurrentTools(ChangesOf(blocks'))) = ToSet(surface)
        BY <1>6, <2>6, <2>7
    <2>9. Appended
        <3>1. IsSequence(news)
            BY <2>1, Single
        <3> QED BY <1>1, <3>1, Zenon DEF Appended
    <2> QED BY <1>1, <1>2, <1>3, <2>5, <2>8, <2>9, Recorded
<1> QED BY <1>8, <1>9

(* An answer is committed, of this format or of another.                     *)
LEMMA CommitKeeps ==
    ASSUME OffersInv, NEW protocol \in Protocols, NEW response, IsAnswer(protocol, response),
           Committable(Parse(protocol, response)), Grows(ToBlocks(Parse(protocol, response).items)),
           bound' = bound
    PROVE  OffersInv' /\ Appended
<1>1. AreItems(Parse(protocol, response).items)
    BY ParseFacts DEF Committable
<1>2. Quiet(ToBlocks(Parse(protocol, response).items))
    BY <1>1, ToBlocksQuiet
<1> QED BY <1>2, QuietGrows

(* The committed answer of the model.                                       *)
LEMMA CommitModelKeeps ==
    ASSUME OffersInv, NEW ids \in CallIds, NEW response \in Responses(api.protocol, ids), CommitModel(response)
    PROVE  OffersInv' /\ Appended
<1>1. api.protocol \in Protocols
    BY DEF OffersInv
<1>2. IsAnswer(api.protocol, response)
    BY <1>1, ResponsesAssumption
<1>3. /\ Committable(Parse(api.protocol, response)) /\ bound' = bound
      /\ Grows(ToBlocks(Parse(api.protocol, response).items))
    BY DEF CommitModel
<1> DEFINE protocol == api.protocol
<1>4. protocol \in Protocols /\ IsAnswer(protocol, response) /\ Committable(Parse(protocol, response))
          /\ Grows(ToBlocks(Parse(protocol, response).items))
    BY <1>1, <1>2, <1>3
<1> HIDE DEF protocol
<1> QED BY <1>3, <1>4, CommitKeeps

(* An answer of another format.                                             *)
LEMMA CommitForeignKeeps ==
    ASSUME OffersInv, NEW answer \in Foreign, CommitForeign(answer.protocol, answer.response)
    PROVE  OffersInv' /\ Appended
<1> DEFINE protocol == answer.protocol
           response == answer.response
<1>1. protocol \in Protocols /\ IsAnswer(protocol, response)
    BY ForeignAssumption
<1>2. /\ Committable(Parse(protocol, response)) /\ bound' = bound
      /\ Grows(ToBlocks(Parse(protocol, response).items))
    BY DEF CommitForeign
<1> HIDE DEF protocol, response
<1> QED BY <1>1, <1>2, CommitKeeps

(* The results of the calls that were open.                                  *)
LEMMA CommitToolsKeeps ==
    ASSUME OffersInv, NEW order \in SetToSeqs(Open), CommitTools(order)
    PROVE  OffersInv' /\ Appended
<1> DEFINE n == Len(order)
           Result(i) == Over([kind |-> "result", call |-> blocks[order[i]].id], ResultFacts[i])
           news == [i \in 1..n |-> Result(i)]
<1>1. bound' = bound /\ Grows(WithIds(news))
    BY DEF CommitTools
<1>2. n \in Nat
    <2>1. Len(blocks) \in Nat
        BY ChangesType DEF OffersInv
    <2>2. Open \subseteq 1..Len(blocks)
        BY DEF Open, OpenAt
    <2>3. IsFiniteSet(1..Len(blocks))
        BY <2>1, FS_Interval
    <2>4. IsFiniteSet(Open)
        BY <2>2, <2>3, FS_Subset
    <2> DEFINE D == Cardinality(Open)
    <2>5. D \in Nat
        BY <2>4, FS_CardinalityType
    <2>6. order \in [1..D -> Open]
        BY DEF SetToSeqs
    <2> HIDE DEF D
    <2> QED BY <2>5, <2>6
<1>3. \A i \in 1..n : IsBlock(Result(i)) /\ Result(i).kind = "result"
    BY DEF Over, IsBlock
<1>4. Len(news) = n /\ DOMAIN news = 1..n /\ \A i \in 1..n : news[i] = Result(i)
    BY <1>2
<1>5. news = [i \in 1..n |-> news[i]]
    OBVIOUS
<1> HIDE DEF n, Result, news
<1>6. IsSequence(news)
    <2>1. \A i \in 1..n : news[i] \in ToSet(news)
        BY <1>4 DEF ToSet
    <2>2. news \in Seq(ToSet(news))
        BY <1>2, <1>5, <2>1
    <2> QED BY <2>2 DEF IsSequence
<1>7. Quiet(news)
    BY <1>3, <1>4, <1>6 DEF Quiet, IsContext
<1>8. Quiet(WithIds(news))
    BY <1>7, WithIdsQuiet
<1> QED BY <1>1, <1>8, QuietGrows

(* The host removes what is no change, rewrites a text or a call's arguments.*)
LEMMA EditKeeps ==
    ASSUME OffersInv, NEW bs, Edit(bs), IsContext(bs), ChangesOf(bs) = ChangesOf(blocks)
    PROVE  OffersInv'
<1>1. api' = api /\ bound' = bound /\ blocks' = bs /\ request' = Render(bs)
    BY DEF Edit
<1>2. IsContext(blocks') /\ ChangesOf(blocks') = ChangesOf(blocks) /\ request' = Render(blocks')
    BY <1>1
<1> QED BY <1>1, <1>2, NothingRecorded

(* The host removes a block.                                                *)
LEMMA HostRemovesKeeps ==
    ASSUME OffersInv, NEW i \in 1..Len(blocks), HostRemoves(i)
    PROVE  OffersInv'
<1> DEFINE bs == RemoveAt(blocks, i)
<1>1. ~IsChange(blocks[i]) /\ Edit(bs) /\ IsContext(blocks)
    BY DEF HostRemoves, OffersInv
<1>2. IsContext(bs) /\ ChangesOf(bs) = ChangesOf(blocks)
    BY <1>1, QuietRemoved
<1> HIDE DEF bs
<1> QED BY <1>1, <1>2, EditKeeps

(* The host edits a call.                                                   *)
LEMMA HostChangesCallKeeps ==
    ASSUME OffersInv, NEW i \in 1..Len(blocks), HostChangesCall(i)
    PROVE  OffersInv'
<1> DEFINE old == blocks[i]
           new == [old EXCEPT !.args = "new"]
           bs == [blocks EXCEPT ![i] = new]
<1>1. IsCall(old) /\ IsContext(blocks) /\ IsBlock(old)
    BY DEF HostChangesCall, OffersInv, IsContext
<1>2. Edit(bs)
    <2>1. [blocks EXCEPT ![i].args = "new"] = bs
        OBVIOUS
    <2> HIDE DEF bs
    <2> QED BY <2>1 DEF HostChangesCall
<1>3. /\ "kind" \in DOMAIN old /\ "wire" \in DOMAIN old /\ FieldsKept(old.wire) /\ old.kind = "call"
    BY <1>1 DEF IsBlock, IsCall
<1>4. /\ DOMAIN new = DOMAIN old /\ new.kind = "call" /\ new.wire = old.wire
    BY <1>3
<1> HIDE DEF new
<1>5. IsBlock(new) /\ ~IsChange(new) /\ ~IsChange(old)
    BY <1>3, <1>4 DEF IsBlock, IsChange
<1> HIDE DEF old
<1>6. IsContext(bs) /\ ChangesOf(bs) = ChangesOf(blocks)
    BY <1>1, <1>5, QuietReplaced DEF old
<1> HIDE DEF bs
<1> QED BY <1>2, <1>6, EditKeeps

(* The host rewrites a message.                                             *)
LEMMA HostRewritesKeeps ==
    ASSUME OffersInv, NEW i \in 1..Len(blocks), NEW part, HostRewrites(i, part)
    PROVE  OffersInv'
<1>1. PICK text \in {<<"new">>, <<>>} : Edit([blocks EXCEPT ![i].parts[part].text = text])
    BY DEF HostRewrites
<1> DEFINE old == blocks[i]
           parts == old.parts
           new == [old EXCEPT !.parts[part].text = text]
           written == [parts EXCEPT ![part].text = text]
           bs == [blocks EXCEPT ![i] = new]
<1>2. Edit(bs)
    <2>1. [blocks EXCEPT ![i].parts[part].text = text] = bs
        OBVIOUS
    <2> HIDE DEF bs
    <2> QED BY <1>1, <2>1
<1>3. /\ IsContext(blocks) /\ IsBlock(old) /\ old.kind = "message"
      /\ part \in 1..Len(parts) /\ parts[part].part = "text"
    BY DEF HostRewrites, OffersInv, IsContext
<1>4. IsMessage(old)
    BY <1>3 DEF IsBlock
<1>5. /\ IsSequence(parts) /\ \A p \in 1..Len(parts) : IsPart(parts[p])
    BY <1>4 DEF IsMessage
<1>6. /\ IsSequence(written) /\ Len(written) = Len(parts)
      /\ \A p \in 1..Len(parts) : IsPart(written[p])
    <2> DEFINE k == Len(parts)
               x == [parts[part] EXCEPT !.text = text]
    <2>1. k \in Nat /\ DOMAIN parts = 1..k
        BY <1>5, Elements
    <2>2. DOMAIN written = 1..k /\ \A p \in 1..k : written[p] = IF p = part THEN x ELSE parts[p]
        BY <2>1
    <2>3. IsPart(x)
        <3>1. IsPart(parts[part])
            BY <1>3, <1>5
        <3> QED BY <1>3, <3>1 DEF IsPart
    <2>4. written = [p \in 1..k |-> written[p]]
        BY <2>1
    <2> HIDE DEF written, x, k
    <2>5. \A p \in 1..k : written[p] \in ToSet(written)
        BY <2>2 DEF ToSet
    <2>6. written \in Seq(ToSet(written)) /\ Len(written) = k
        BY <2>1, <2>4, <2>5
    <2>7. \A p \in 1..k : IsPart(written[p])
        BY <1>5, <2>2, <2>3 DEF k
    <2> QED BY <2>6, <2>7 DEF IsSequence, k
<1>7. new = [old EXCEPT !.parts = written]
    OBVIOUS
<1> HIDE DEF written, parts, new
<1>8. /\ DOMAIN new = DOMAIN old /\ new.kind = old.kind /\ new.role = old.role /\ new.wire = old.wire
      /\ new.parts = written /\ "kind" \in DOMAIN old
    BY <1>3, <1>4, <1>7 DEF IsMessage, IsBlock
<1>9. IsMessage(new)
    BY <1>4, <1>6, <1>8 DEF IsMessage
<1>10. IsBlock(new) /\ ~IsChange(new) /\ ~IsChange(old)
    BY <1>3, <1>8, <1>9 DEF IsBlock, IsChange
<1> HIDE DEF old
<1>11. IsContext(bs) /\ ChangesOf(bs) = ChangesOf(blocks)
    BY <1>3, <1>10, QuietReplaced DEF old
<1> HIDE DEF bs
<1> QED BY <1>2, <1>11, EditKeeps

-----------------------------------------------------------------------------
(* Nothing is in the context and nothing bound at first.                    *)
LEMMA OffersInit == Init => OffersInv
<1> SUFFICES ASSUME Init PROVE OffersInv
    OBVIOUS
<1>1. api.protocol \in Protocols /\ blocks = <<>> /\ bound = <<>> /\ ~request.ok
    BY ApisAssumption DEF Init
<1>2. Quiet(<<>>)
    BY Single DEF Quiet, IsContext
<1>3. ChangesOf(<<>>) = <<>> /\ IsContext(<<>>)
    BY <1>2, QuietFacts DEF Quiet
<1>4. <<>> \in Offers(Definitions) /\ <<>> \in Seq(Changes(Definitions, ToolNames))
    BY DEF Offers, OneEach
<1>5. CurrentTools(<<>>) = <<>>
    BY <1>4, ApplyFacts DEF CurrentTools
<1> QED BY <1>1, <1>3, <1>4, <1>5 DEF OffersInv, OffersBoundTools

(* Every action keeps the invariant.                                        *)
LEMMA OffersNext == OffersInv /\ [Next]_vars => OffersInv'
<1> SUFFICES ASSUME OffersInv, [Next]_vars PROVE OffersInv'
    OBVIOUS
<1>1. CASE \E message \in HostParts : HostSays(message)
    BY <1>1, HostSaysKeeps
<1>2. CASE \E i \in 1..Len(blocks) : HostRemoves(i) \/ HostChangesCall(i)
                                     \/ \E part \in 1..2 : HostRewrites(i, part)
    BY <1>2, HostRemovesKeeps, HostChangesCallKeeps, HostRewritesKeeps
<1>3. CASE \E surface \in Surfaces : RecordTools(surface)
    BY <1>3, RecordToolsKeeps
<1>4. CASE \E ids \in IF turns = <<>> THEN {"first"} ELSE CallIds :
             \E response \in Responses(api.protocol, ids) : CommitModel(response)
    <2>1. PICK ids \in CallIds : \E response \in Responses(api.protocol, ids) : CommitModel(response)
        BY <1>4 DEF CallIds
    <2> QED BY <2>1, CommitModelKeeps
<1>5. CASE \E answer \in Foreign :
             answer.protocol # api.protocol /\ CommitForeign(answer.protocol, answer.response)
    BY <1>5, CommitForeignKeeps
<1>6. CASE \E order \in SetToSeqs(Open) : CommitTools(order)
    BY <1>6, CommitToolsKeeps
<1>7. CASE UNCHANGED vars
    <2>1. /\ api' = api /\ blocks' = blocks /\ bound' = bound /\ request' = request
        BY <1>7 DEF vars
    <2>2. OffersBoundTools' <=> OffersBoundTools
        BY <2>1 DEF OffersBoundTools, OfferedBy
    <2> QED BY <2>1, <2>2 DEF OffersInv
<1> QED BY <1>1, <1>2, <1>3, <1>4, <1>5, <1>6, <1>7 DEF Next, Hosts

(* In every format, with in-place changes and without, every request offers  *)
(* the tools bound, each once, whatever was said, answered, edited and bound.*)
THEOREM ConversationOffersBound == Spec => []OffersBoundTools
<1>1. Init => OffersInv
    BY OffersInit
<1>2. OffersInv /\ [Next]_vars => OffersInv'
    BY OffersNext
<1>3. OffersInv => OffersBoundTools
    BY DEF OffersInv
<1> QED BY <1>1, <1>2, <1>3, PTL DEF Spec
=============================================================================
