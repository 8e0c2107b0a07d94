---------------------------- MODULE PrefixProofs ----------------------------
(****************************************************************************)
(* For any blocks, answers, messages of the host and edits: a request keeps *)
(* every one sent before it for a beginning of its context, so that what a  *)
(* provider cached is a prefix of what it is sent next.                     *)
(*                                                                          *)
(* A context that grew normalizes to the segments there were, then others   *)
(* of the new blocks; runs of a block end with it, so what is said of the   *)
(* first segments stays, in chat and Responses as a beginning, in Anthropic *)
(* but for its last message, which may go on, and for the cache marker.     *)
(****************************************************************************)
EXTENDS ConversationProofs

-----------------------------------------------------------------------------
(* The pieces after the first k, flattened.                                  *)
JoinedAfter(F, k, n) == FlattenSeq([i \in 1..(n - k) |-> F[k + i]])

(* What pieces flatten to is what the first of them do, then the others.     *)
LEMMA FlatSplit ==
    ASSUME NEW V, NEW n \in Nat, NEW F \in [1..n -> Seq(V)], NEW k \in 0..n
    PROVE  /\ Joined(F, k) \in Seq(V) /\ JoinedAfter(F, k, n) \in Seq(V)
           /\ FlattenSeq(F) = Joined(F, k) \o JoinedAfter(F, k, n)
<1> DEFINE G == [i \in 1..(n - k) |-> F[k + i]]
           T == {q \in 0..(n - k) : Joined(F, k + q) = Joined(F, k) \o Joined(G, q)}
<1>1. /\ n - k \in Nat /\ k \in Nat /\ \A q \in 0..(n - k) : k + q \in 0..n
      /\ \A q \in 1..(n - k) : k + q \in 1..n /\ (k + q) - 1 = k + (q - 1)
    OBVIOUS
<1>2. G \in [1..(n - k) -> Seq(V)] /\ \A q \in 1..(n - k) : G[q] = F[k + q]
    BY <1>1
<1>z. [i \in 1..n |-> F[i]] = F /\ [i \in 1..(n - k) |-> G[i]] = G
    OBVIOUS
<1> HIDE DEF G
<1>3. /\ \A p \in 1..n : Joined(F, p) = Joined(F, p - 1) \o F[p]
      /\ \A p \in 0..n : Joined(F, p) \in Seq(V)
    BY JoinedChain
<1>4. /\ Joined(G, 0) = <<>>
      /\ \A q \in 1..(n - k) : Joined(G, q) = Joined(G, q - 1) \o G[q]
      /\ \A q \in 0..(n - k) : Joined(G, q) \in Seq(V)
    BY <1>1, <1>2, JoinedChain
<1>5. 0 \in T
    <2>1. k + 0 = k /\ 0 \in 0..(n - k) /\ k \in 0..n
        BY <1>1
    <2>2. Joined(F, k) \o <<>> = Joined(F, k)
        BY <1>3, <2>1, ConcatEmptySeq
    <2> QED BY <1>4, <2>1, <2>2
<1>6. ASSUME NEW q \in 1..(n - k), q - 1 \in T PROVE q \in T
    <2> DEFINE a == Joined(F, k)
               b == Joined(G, q - 1)
               c == G[q]
    <2>1. a \in Seq(V) /\ b \in Seq(V) /\ c \in Seq(V)
        <3>1. q - 1 \in 0..(n - k) /\ k \in 0..n
            BY <1>1
        <3> QED BY <1>2, <1>3, <1>4, <3>1
    <2>2. Joined(F, k + q) = (a \o b) \o c
        <3>1. Joined(F, k + q) = Joined(F, (k + q) - 1) \o F[k + q]
            BY <1>1, <1>3
        <3>2. Joined(F, k + (q - 1)) = a \o b
            BY <1>6
        <3> QED BY <1>1, <1>2, <3>1, <3>2
    <2>3. Joined(G, q) = b \o c
        BY <1>4
    <2> HIDE DEF a, b, c
    <2>4. (a \o b) \o c = a \o (b \o c)
        BY <2>1, ConcatAssociative, SMTT(30)
    <2>5. Joined(F, k + q) = Joined(F, k) \o Joined(G, q) /\ q \in 0..(n - k)
        BY <2>2, <2>3, <2>4 DEF a
    <2> QED BY <2>5
<1>7. n - k \in T
    <2> HIDE DEF T
    <2>1. \A q \in 0..(n - k) : q \in T
        BY <1>1, <1>5, <1>6, Upward
    <2> QED BY <1>1, <2>1
<1>8. k + (n - k) = n /\ k \in 0..n /\ n - k \in 0..(n - k)
    BY <1>1
<1>9. Joined(F, n) = Joined(F, k) \o Joined(G, n - k)
    BY <1>7, <1>8
<1>10. Joined(F, k) \in Seq(V) /\ Joined(G, n - k) \in Seq(V)
    BY <1>3, <1>4, <1>8
<1>11. Joined(F, n) = FlattenSeq(F) /\ Joined(G, n - k) = FlattenSeq(G)
    BY <1>z DEF Joined
<1>12. JoinedAfter(F, k, n) = FlattenSeq(G)
    BY DEF JoinedAfter, G
<1> QED BY <1>9, <1>10, <1>11, <1>12

(* Pieces that flatten to nothing are nothing.                               *)
LEMMA FlatEmpty ==
    ASSUME NEW V, NEW n \in Nat, NEW F \in [1..n -> Seq(V)], FlattenSeq(F) = <<>>
    PROVE  \A i \in 1..n : F[i] = <<>>
<1> DEFINE T == {p \in 0..n : Joined(F, p) = <<>> => \A i \in 1..p : F[i] = <<>>}
<1>1. /\ \A p \in 1..n : Joined(F, p) = Joined(F, p - 1) \o F[p]
      /\ \A p \in 0..n : Joined(F, p) \in Seq(V)
    BY JoinedChain
<1>2. 0 \in T
    OBVIOUS
<1>3. ASSUME NEW p \in 1..n, p - 1 \in T PROVE p \in T
    <2> DEFINE a == Joined(F, p - 1)
               b == F[p]
    <2>1. a \in Seq(V) /\ b \in Seq(V) /\ Joined(F, p) = a \o b /\ p \in 0..n
        BY <1>1
    <2>2. ASSUME a \o b = <<>> PROVE a = <<>> /\ b = <<>>
        <3> HIDE DEF a, b
        <3>1. Len(a \o b) = Len(a) + Len(b) /\ Len(a) \in Nat /\ Len(b) \in Nat
            BY <2>1
        <3>2. Len(a) = 0 /\ Len(b) = 0
            BY <2>2, <3>1
        <3> QED BY <2>1, <3>2
    <2>3. ASSUME Joined(F, p) = <<>> PROVE \A i \in 1..p : F[i] = <<>>
        <3>1. \A i \in 1..p : i = p \/ i \in 1..(p - 1)
            OBVIOUS
        <3>2. \A i \in 1..(p - 1) : F[i] = <<>>
            BY <1>3, <2>1, <2>2, <2>3
        <3> QED BY <2>1, <2>2, <2>3, <3>1, <3>2
    <2> QED BY <2>1, <2>3
<1>4. n \in T
    <2> HIDE DEF T
    <2>1. \A p \in 0..n : p \in T
        BY <1>2, <1>3, Upward
    <2> QED BY <2>1
<1>5. Joined(F, n) = <<>>
    <2>1. [i \in 1..n |-> F[i]] = F
        OBVIOUS
    <2> QED BY <2>1 DEF Joined
<1> QED BY <1>4, <1>5

-----------------------------------------------------------------------------
(* A context as it was before its last blocks.                               *)
Earlier(bs, k) == SubSeq(bs, 1, k)

(* It is a context, and its changes are the first of the later one's.       *)
LEMMA EarlierContext ==
    ASSUME NEW bs, IsContext(bs), NEW k \in 0..Len(bs)
    PROVE  /\ IsContext(Earlier(bs, k)) /\ Len(Earlier(bs, k)) = k
           /\ \A i \in 1..k : Earlier(bs, k)[i] = bs[i]
           /\ ChangesOf(Earlier(bs, k)) \in Seq(ToolChanges)
           /\ \E rest \in Seq(ToolChanges) : ChangesOf(bs) = ChangesOf(Earlier(bs, k)) \o rest
<1> DEFINE n == Len(bs)
           V == ToSet(bs)
           first == SubSeq(bs, 1, k)
           rest  == SubSeq(bs, k + 1, n)
<1>1. bs \in Seq(V) /\ n \in Nat /\ k \in Nat /\ k <= n
    BY Elements DEF IsContext, IsSequence
<1>2. /\ \A i \in 1..n : IsBlock(bs[i])
    BY DEF IsContext
<1>v. \A x \in V : IsBlock(x)
    BY ContextBlocks
<1> HIDE DEF V
<1>3. first \in Seq(V) /\ Len(first) = k /\ \A i \in 1..k : first[i] = bs[i]
    BY <1>1
<1>4. /\ rest \in Seq(V) /\ Len(rest) = n - k /\ \A i \in 1..(n - k) : rest[i] = bs[k + i]
    BY <1>1
<1>5. bs = first \o rest
    <2>1. bs \in Seq(V) /\ Len(bs) = n
        BY <1>1
    <2> HIDE DEF n, first, rest
    <2>2. first \o rest \in Seq(V) /\ Len(first \o rest) = Len(first) + Len(rest)
        BY <1>3, <1>4, ConcatProperties
    <2>3. Len(first \o rest) = n
        BY <1>1, <1>3, <1>4, <2>2
    <2>4. ASSUME NEW i \in 1..n PROVE (first \o rest)[i] = bs[i]
        <3>1. (first \o rest)[i] = IF i <= k THEN first[i] ELSE rest[i - k]
            BY <1>1, <1>3, <1>4
        <3>2. CASE i <= k
            BY <1>3, <3>1, <3>2
        <3>3. CASE ~(i <= k)
            <4>1. i - k \in 1..(n - k) /\ k + (i - k) = i
                BY <1>1, <3>3
            <4> QED BY <1>4, <3>1, <3>3, <4>1
        <3> QED BY <3>2, <3>3
    <2> QED BY <2>1, <2>2, <2>3, <2>4, SeqEqual
<1> HIDE DEF first, rest
<1>6. ASSUME NEW s \in Seq(V) PROVE IsContext(s)
    <2>1. IsSequence(s) /\ \A i \in 1..Len(s) : s[i] \in V
        BY SequenceOf
    <2> QED BY <1>v, <2>1 DEF IsContext
<1>7. IsContext(first) /\ IsContext(rest)
    BY <1>3, <1>4, <1>6
<1>8. ChangesOf(bs) = ChangesOf(first) \o ChangesOf(rest)
    BY <1>5, <1>7, ContextJoins
<1>9. ChangesOf(first) \in Seq(ToolChanges) /\ ChangesOf(rest) \in Seq(ToolChanges)
    BY <1>7, ChangesType
<1> QED BY <1>3, <1>7, <1>8, <1>9 DEF Earlier, first

(* Without a change there is no block of one.                               *)
LEMMA NoChangeBlock ==
    ASSUME NEW bs, IsContext(bs), ChangesOf(bs) = <<>>
    PROVE  \A i \in 1..Len(bs) : ~IsChange(bs[i])
<1> DEFINE n == Len(bs)
           F == [i \in 1..n |-> ChangeAt(bs[i])]
<1>1. n \in Nat /\ F \in [1..n -> Seq(ToolChanges)]
    BY ChangesType
<1>2. FlattenSeq(F) = <<>> /\ \A i \in 1..n : F[i] = ChangeAt(bs[i])
    BY DEF ChangesOf
<1> HIDE DEF F, n
<1>3. \A i \in 1..n : F[i] = <<>>
    BY <1>1, <1>2, FlatEmpty
<1>4. ASSUME NEW i \in 1..n, IsChange(bs[i]) PROVE FALSE
    <2>1. ChangeAt(bs[i]) = <<>>
        BY <1>2, <1>3
    <2>2. ChangeAt(bs[i]) = <<[added |-> bs[i].added, removed |-> bs[i].removed]>>
        BY <1>4 DEF ChangeAt
    <2> QED BY <2>1, <2>2
<1> QED BY <1>4 DEF n

-----------------------------------------------------------------------------
(* The calls of a valid frame have ids of their own, and its results follow  *)
(* their calls.                                                              *)
LEMMA FrameCalls ==
    ASSUME NEW bs, IsContext(bs), ValidateFrame(bs)
    PROVE  /\ \A i, j \in 1..Len(bs) : IsCall(bs[i]) /\ IsCall(bs[j]) /\ bs[i].id = bs[j].id => i = j
           /\ \A i \in 1..Len(bs) : IsResult(bs[i]) => ValidResult(bs, i)
<1>0. Len(bs) \in Nat
    BY ChangesType
<1>f. \A i \in 1..Len(bs) :
          CASE IsCall(bs[i])   -> ValidCall(bs, i)
            [] IsResult(bs[i]) -> ValidResult(bs, i)
            [] IsChange(bs[i]) -> OpenAt(bs, i) = {} /\ OneEach(bs[i].added)
            [] OTHER -> bs[i].role # "assistant" =>
                          \A p \in 1..Len(bs[i].parts) : bs[i].parts[p].part # "sealed"
    BY Zenon DEF ValidateFrame
<1>1. ASSUME NEW i \in 1..Len(bs), IsCall(bs[i]) PROVE ValidCall(bs, i)
    <2>1. ~IsResult(bs[i]) /\ ~IsChange(bs[i])
        BY <1>1 DEF IsCall, IsResult, IsChange
    <2> QED BY <1>1, <1>f, <2>1
<1>2. ASSUME NEW i \in 1..Len(bs), IsResult(bs[i]) PROVE ValidResult(bs, i)
    <2>1. ~IsCall(bs[i]) /\ ~IsChange(bs[i])
        BY <1>2 DEF IsCall, IsResult, IsChange
    <2> QED BY <1>2, <1>f, <2>1
<1>3. ASSUME NEW i \in 1..Len(bs), NEW j \in 1..Len(bs), IsCall(bs[i]), IsCall(bs[j]), bs[i].id = bs[j].id
      PROVE  ~(j < i)
    <2>1. j < i => j \in 1..(i - 1)
        BY <1>0
    <2> QED BY <1>1, <1>3, <2>1 DEF ValidCall
<1>4. ASSUME NEW i \in 1..Len(bs), NEW j \in 1..Len(bs), IsCall(bs[i]), IsCall(bs[j]), bs[i].id = bs[j].id
      PROVE  i = j
    <2>1. ~(j < i) /\ ~(i < j)
        BY <1>3, <1>4
    <2> QED BY <1>0, <2>1
<1> QED BY <1>2, <1>4

(* A block gives the segments it gave before more was said.                 *)
LEMMA SameSegments ==
    ASSUME NEW bs, IsContext(bs), ValidateFrame(bs), NEW k \in 0..Len(bs), ValidateFrame(Earlier(bs, k)),
           NEW i \in 1..k, NEW protocol, NEW inPlace
    PROVE  Segments(Earlier(bs, k), i, protocol, inPlace) = Segments(bs, i, protocol, inPlace)
<1> DEFINE early == Earlier(bs, k)
           block == bs[i]
<1>1. /\ IsContext(early) /\ Len(early) = k /\ \A j \in 1..k : early[j] = bs[j]
    BY EarlierContext
<1>2. Len(bs) \in Nat /\ k \in Nat /\ k <= Len(bs) /\ i \in 1..Len(bs)
    BY ChangesType
<1>v. ValidateFrame(early)
    OBVIOUS
<1> HIDE DEF early
<1>3. IsBlock(block) /\ early[i] = block
    BY <1>1, <1>2 DEF IsContext
<1>4. CASE block.kind = "message"
    <2> DEFINE parts == FlattenSeq([p \in 1..Len(block.parts) |-> PartSegment(block, i, block.parts[p], protocol)])
    <2>1. Segments(bs, i, protocol, inPlace) = parts
        BY <1>4 DEF Segments
    <2>2. Segments(early, i, protocol, inPlace) = parts
        BY <1>3, <1>4 DEF Segments
    <2> QED BY <2>1, <2>2, Zenon DEF early
<1>5. CASE block.kind = "call"
    <2> DEFINE call == <<[seg |-> "call", role |-> "assistant", wireId |-> WireId(block),
                          name |-> block.name, args |-> block.args, wire |-> OwnWire(block, protocol)]>>
    <2>1. Segments(bs, i, protocol, inPlace) = call
        BY <1>5 DEF Segments
    <2>2. Segments(early, i, protocol, inPlace) = call
        BY <1>3, <1>5 DEF Segments
    <2> QED BY <2>1, <2>2, Zenon DEF early
<1>6. CASE block.kind = "change"
    <2>1. (\E j \in 1..(i - 1) : IsChange(early[j])) <=> (\E j \in 1..(i - 1) : IsChange(bs[j]))
        <3>1. \A j \in 1..(i - 1) : early[j] = bs[j]
            BY <1>1, <1>2
        <3> QED BY <3>1
    <2> DEFINE change == IF inPlace /\ \E j \in 1..(i - 1) : IsChange(bs[j])
                         THEN <<[seg |-> "change", role |-> "system", added |-> block.added,
                                 removed |-> block.removed]>>
                         ELSE <<>>
    <2>2. Segments(bs, i, protocol, inPlace) = change
        BY <1>6 DEF Segments
    <2>3. Segments(early, i, protocol, inPlace) = change
        BY <1>3, <1>6, <2>1 DEF Segments
    <2> HIDE DEF change
    <2> QED BY <2>2, <2>3, Zenon DEF early
<1>7. CASE block.kind = "result"
    <2> DEFINE D1 == CHOOSE j \in 1..Len(early) : IsCall(early[j]) /\ early[j].id = block.call
               D2 == CHOOSE j \in 1..Len(bs) : IsCall(bs[j]) /\ bs[j].id = block.call
               Shown(call) == <<[seg |-> "result", role |-> "tool", wireId |-> WireId(call),
                  status |-> block.status, content |-> block.content, notes |-> block.notes,
                  media |-> [m \in 1..Len(block.media) |->
                               ResolveMedia(block.media[m], "user", protocol)]]>>
    <2>1. PICK j \in 1..i - 1 : IsCall(early[j]) /\ early[j].id = block.call
        <3>1. ValidResult(early, i)
            <4>1. IsResult(early[i]) /\ i \in 1..Len(early)
                BY <1>1, <1>3, <1>7 DEF IsResult
            <4> QED BY <1>1, <1>v, <4>1, FrameCalls
        <3> QED BY <1>3, <3>1 DEF ValidResult
    <2>2. j \in 1..Len(early) /\ j \in 1..Len(bs) /\ early[j] = bs[j]
        BY <1>1, <1>2
    <2>3. D1 = j
        <3>1. D1 \in 1..Len(early) /\ IsCall(early[D1]) /\ early[D1].id = block.call
            BY <2>1, <2>2, Zenon
        <3> HIDE DEF D1
        <3> QED BY <1>1, <1>v, <2>1, <2>2, <3>1, FrameCalls
    <2>4. D2 = j
        <3>0. IsCall(bs[j]) /\ bs[j].id = block.call
            BY <2>1, <2>2
        <3>1. D2 \in 1..Len(bs) /\ IsCall(bs[D2]) /\ bs[D2].id = block.call
            BY <2>2, <3>0, Zenon
        <3> HIDE DEF D2
        <3> QED BY <2>2, <3>0, <3>1, FrameCalls
    <2>5. Segments(bs, i, protocol, inPlace) = Shown(bs[D2])
        BY <1>7, Zenon DEF Segments
    <2>6. Segments(early, i, protocol, inPlace) = Shown(early[D1])
        BY <1>3, <1>7, Zenon DEF Segments
    <2> HIDE DEF D1, D2, Shown
    <2>7. Segments(early, i, protocol, inPlace) = Segments(bs, i, protocol, inPlace)
        BY <2>2, <2>3, <2>4, <2>5, <2>6
    <2> QED BY <2>7 DEF early
<1> QED BY <1>3, <1>4, <1>5, <1>6, <1>7 DEF IsBlock, early

(* Where a segment is from.                                                  *)
Of(s, bs, i, inPlace) ==
    /\ s.seg \in {"text", "media"} => s.block = i
    /\ s.seg = "result" => s.role = "tool" /\ IsResult(bs[i])
    /\ s.seg \in {"sealed", "call"} => s.role = "assistant"
    /\ s.seg = "change" => s.role = "system" /\ inPlace /\ IsChange(bs[i]) 

(* A block's segments are of that block.                                     *)
LEMMA SegmentsOfBlock ==
    ASSUME NEW bs, IsContext(bs), NEW i \in 1..Len(bs), NEW protocol, NEW inPlace
    PROVE  /\ \A s \in ToSet(Segments(bs, i, protocol, inPlace)) : Of(s, bs, i, inPlace)
           /\ IsCall(bs[i]) => \E s : Segments(bs, i, protocol, inPlace) = <<s>> /\ s.seg = "call"
<1> DEFINE block == bs[i]
           u == Segments(bs, i, protocol, inPlace)
<1>0. IsBlock(block)
    BY DEF IsContext
<1>1. CASE block.kind = "message"
    <2> DEFINE n == Len(block.parts)
               F == [p \in 1..n |-> PartSegment(block, i, block.parts[p], protocol)]
               V == UNION {ToSet(F[p]) : p \in 1..n}
    <2>1. IsMessage(block) /\ u = FlattenSeq(F)
        BY <1>0, <1>1 DEF Segments, IsBlock
    <2>2. n \in Nat /\ \A p \in 1..n : IsPart(block.parts[p])
        <3>1. IsSequence(block.parts) /\ \A p \in 1..Len(block.parts) : IsPart(block.parts[p])
            BY <2>1 DEF IsMessage
        <3>2. Len(block.parts) \in Nat
            BY <3>1, Elements
        <3> QED BY <3>1, <3>2
    <2>3. ASSUME NEW p \in 1..n
          PROVE  IsSequence(F[p]) /\ \A s \in ToSet(F[p]) : Of(s, bs, i, inPlace)
        <3> DEFINE part == block.parts[p]
                   w == PartSegment(block, i, part, protocol)
        <3>1. IsPart(part) /\ F[p] = w
            BY <2>2
        <3>2. IsSequence(w)
            <4> HIDE DEF part, block
            <4> QED BY <2>1, <3>1, PartSegments
        <3> HIDE DEF F
        <3>3. w = <<>> \/ \E s : w = <<s>> /\ Of(s, bs, i, inPlace)
            <4>1. CASE part.part = "text"
                <5> DEFINE wire == IF block.role = "assistant" THEN OwnWire(block, protocol) ELSE <<>>
                           s == [seg |-> "text", role |-> block.role, text |-> part.text, block |-> i,
                                 parts |-> Len(block.parts), wire |-> wire]
                <5>1. w = IF part.text = <<>> THEN <<>> ELSE <<s>>
                    BY <4>1 DEF PartSegment
                <5>2. s.seg = "text" /\ s.block = i
                    OBVIOUS
                <5> HIDE DEF s, w
                <5> QED BY <5>1, <5>2 DEF Of
            <4>2. CASE part.part = "media"
                <5> DEFINE s == [seg |-> "media", role |-> block.role, block |-> i,
                                 media |-> ResolveMedia(part.ref, block.role, protocol)]
                <5>1. w = <<s>>
                    BY <4>2 DEF PartSegment
                <5>2. s.seg = "media" /\ s.block = i
                    OBVIOUS
                <5> HIDE DEF s, w
                <5> QED BY <5>1, <5>2 DEF Of
            <4>3. CASE part.part = "sealed"
                <5> DEFINE s == [seg |-> "sealed", role |-> "assistant", item |-> part.item]
                <5>1. w = <<>> \/ w = <<s>>
                    BY <4>3 DEF PartSegment
                <5>2. s.seg = "sealed" /\ s.role = "assistant"
                    OBVIOUS
                <5> HIDE DEF s, w
                <5> QED BY <5>1, <5>2 DEF Of
            <4> QED BY <3>1, <4>1, <4>2, <4>3 DEF IsPart
        <3> HIDE DEF w
        <3>4. \A s \in ToSet(w) : Of(s, bs, i, inPlace)
            BY <3>3, Single
        <3> QED BY <3>1, <3>2, <3>4
    <2>4. F = [p \in 1..n |-> F[p]]
        OBVIOUS
    <2> HIDE DEF F, n
    <2>5. u \in Seq(V)
        BY <2>1, <2>2, <2>3, <2>4, FlatElements
    <2>6. \A s \in V : Of(s, bs, i, inPlace)
        BY <2>3
    <2> HIDE DEF V, u
    <2>7. ToSet(u) \subseteq V
        BY <2>5, SequenceOf
    <2>8. ~IsCall(block)
        BY <1>1 DEF IsCall
    <2> QED BY <2>6, <2>7, <2>8 DEF u
<1>2. CASE block.kind = "call"
    <2> DEFINE s == [seg |-> "call", role |-> "assistant", wireId |-> WireId(block),
                     name |-> block.name, args |-> block.args, wire |-> OwnWire(block, protocol)]
    <2>1. u = <<s>>
        BY <1>2 DEF Segments
    <2>2. s.seg = "call" /\ s.role = "assistant"
        OBVIOUS
    <2> HIDE DEF s, u
    <2>3. Of(s, bs, i, inPlace) /\ ToSet(u) = {s}
        BY <2>1, <2>2, Single DEF Of
    <2> QED BY <2>1, <2>2, <2>3 DEF u
<1>3. CASE block.kind = "result"
    <2> DEFINE declaration(id) == CHOOSE j \in 1..Len(bs) : IsCall(bs[j]) /\ bs[j].id = id
               s == [seg |-> "result", role |-> "tool", wireId |-> WireId(bs[declaration(block.call)]),
                     status |-> block.status, content |-> block.content, notes |-> block.notes,
                     media |-> [m \in 1..Len(block.media) |->
                                  ResolveMedia(block.media[m], "user", protocol)]]
    <2>1. u = <<s>>
        BY <1>3, Zenon DEF Segments
    <2>2. s.seg = "result" /\ s.role = "tool" /\ IsResult(bs[i]) /\ ~IsCall(bs[i])
        BY <1>3 DEF IsResult, IsCall
    <2> HIDE DEF s, u
    <2>3. Of(s, bs, i, inPlace) /\ ToSet(u) = {s}
        BY <2>1, <2>2, Single DEF Of
    <2> QED BY <2>1, <2>2, <2>3 DEF u
<1>4. CASE block.kind = "change"
    <2> DEFINE s == [seg |-> "change", role |-> "system", added |-> block.added,
                     removed |-> block.removed]
    <2>1. u = IF inPlace /\ Later(bs, i) THEN <<s>> ELSE <<>>
        BY <1>4 DEF Segments, Later
    <2>2. s.seg = "change" /\ s.role = "system" /\ IsChange(bs[i]) /\ ~IsCall(bs[i])
        BY <1>4 DEF IsChange, IsCall
    <2> HIDE DEF s, u
    <2>3. inPlace => Of(s, bs, i, inPlace)
        BY <2>2 DEF Of
    <2>4. \A x \in ToSet(u) : x = s /\ inPlace
        BY <2>1, Single
    <2> QED BY <2>2, <2>3, <2>4 DEF u
<1> QED BY <1>0, <1>1, <1>2, <1>3, <1>4 DEF IsBlock

-----------------------------------------------------------------------------
(* A result that came since answers a call that was made since: every        *)
(* exchange was complete before.                                             *)
LEMMA ResultsFollow ==
    ASSUME NEW bs, IsContext(bs), ValidateFrame(bs), NEW k \in 0..Len(bs), ValidateFrame(Earlier(bs, k)),
           NEW q \in (k + 1)..Len(bs), IsResult(bs[q])
    PROVE  \E j \in (k + 1)..(q - 1) : IsCall(bs[j])
<1> DEFINE early == Earlier(bs, k)
<1>1. /\ IsContext(early) /\ Len(early) = k /\ \A j \in 1..k : early[j] = bs[j]
    BY EarlierContext
<1>2. Len(bs) \in Nat /\ k \in Nat /\ k <= Len(bs) /\ q \in 1..Len(bs)
    BY ChangesType
<1>3. OpenAt(early, k) = {}
    BY <1>1 DEF ValidateFrame
<1> HIDE DEF early
<1>4. PICK j \in 1..(q - 1) : IsCall(bs[j]) /\ bs[j].id = bs[q].call
    BY <1>2, FrameCalls DEF ValidResult
<1>5. \A i \in 1..(q - 1) : IsResult(bs[i]) => bs[i].call # bs[q].call
    BY <1>2, FrameCalls DEF ValidResult
<1>6. CASE j <= k
    <2>1. j \in 1..k /\ IsCall(early[j]) /\ early[j].id = bs[q].call
        BY <1>1, <1>2, <1>4, <1>6
    <2>2. PICK r \in 1..k : IsResult(early[r]) /\ early[r].call = early[j].id
        BY <1>3, <2>1 DEF OpenAt
    <2>3. r \in 1..(q - 1) /\ IsResult(bs[r]) /\ bs[r].call = bs[q].call
        BY <1>1, <1>2, <2>1, <2>2
    <2> QED BY <1>5, <2>3
<1>7. CASE ~(j <= k)
    BY <1>2, <1>4, <1>7
<1> QED BY <1>6, <1>7

(* Segments of the first k blocks, and of later ones.                        *)
UpTo(u, k)   == \A s \in ToSet(u) : s.seg \in {"text", "media"} => s.block \in 1..k
Beyond(u, k) == \A s \in ToSet(u) : s.seg \in {"text", "media"} => s.block \in Nat /\ s.block > k

(* No result comes before there was a call.                                  *)
CallsFirst(u) == \A j \in 1..Len(u) : u[j].seg = "result" => \E i \in 1..(j - 1) : u[i].seg = "call"

(* Segments as a request may carry them.                                     *)
Placeable(u, inPlace) ==
    \A s \in ToSet(u) : /\ s.seg = "result" => s.role = "tool"
                        /\ s.seg \in {"sealed", "call"} => s.role = "assistant"
                        /\ s.seg = "change" => s.role = "system" /\ inPlace

(* What was said since.                                                      *)
Since(u, k, protocol, inPlace) ==
    /\ AreSegments(u, protocol) /\ Beyond(u, k) /\ CallsFirst(u) /\ Placeable(u, inPlace)

(* Calls come first in what later blocks are written as.                     *)
LEMMA CallsComeFirst ==
    ASSUME NEW V, NEW m \in Nat, NEW G \in [1..m -> Seq(V)], NEW Called,
           \A q \in 1..m : \A s \in ToSet(G[q]) : s.seg = "result" => \E i \in 1..(q - 1) : i \in Called,
           \A q \in 1..m : q \in Called => \E s : G[q] = <<s>> /\ s.seg = "call"
    PROVE  CallsFirst(FlattenSeq(G))
<1> DEFINE HasCall(w) == \E j \in 1..Len(w) : w[j].seg = "call"
           Fine(q, w) == CallsFirst(w) /\ ((\E i \in 1..q : i \in Called) => HasCall(w))
           T == {q \in 0..m : Fine(q, Joined(G, q))}
<1>1. /\ Joined(G, 0) = <<>>
      /\ \A p \in 1..m : Joined(G, p) = Joined(G, p - 1) \o G[p]
      /\ \A p \in 0..m : Joined(G, p) \in Seq(V)
    BY JoinedChain
<1>2. 0 \in T
    <2>1. Len(<<>>) = 0 /\ 1..0 = {} /\ 0 \in 0..m
        OBVIOUS
    <2>2. Fine(0, <<>>)
        BY <2>1 DEF CallsFirst
    <2>3. Fine(0, Joined(G, 0)) /\ 0 \in 0..m
        BY <1>1, <2>1, <2>2, Zenon
    <2> HIDE DEF Fine
    <2> QED BY <2>3
<1>3. ASSUME NEW q \in 1..m, q - 1 \in T PROVE q \in T
    <2> DEFINE a == Joined(G, q - 1)
               w == G[q]
               b == Joined(G, q)
    <2>1. a \in Seq(V) /\ w \in Seq(V) /\ b = a \o w /\ Fine(q - 1, a) /\ q \in 0..m
        <3>1. q - 1 \in 0..m /\ q \in 0..m
            OBVIOUS
        <3>2. a \in Seq(V) /\ w \in Seq(V) /\ b = a \o w
            BY <1>1, <3>1
        <3> HIDE DEF Fine
        <3>3. Fine(q - 1, a)
            BY <1>3, Zenon
        <3> QED BY <3>1, <3>2, <3>3
    <2>2. /\ \A s \in ToSet(w) : s.seg = "result" => \E i \in 1..(q - 1) : i \in Called
          /\ q \in Called => \E s : w = <<s>> /\ s.seg = "call"
        OBVIOUS
    <2> HIDE DEF a, w
    <2>3. /\ Len(b) = Len(a) + Len(w) /\ Len(a) \in Nat /\ Len(w) \in Nat
          /\ \A j \in 1..Len(a) : b[j] = a[j] /\ j \in 1..Len(b)
          /\ \A j \in 1..Len(b) : ~(j <= Len(a)) => j - Len(a) \in 1..Len(w) /\ b[j] = w[j - Len(a)]
        BY <2>1
    <2> HIDE DEF b
    <2>4. \A j \in 1..Len(w) : w[j] \in ToSet(w)
        <3>1. DOMAIN w = 1..Len(w)
            BY <2>1
        <3> QED BY <3>1 DEF ToSet
    <2>5. CallsFirst(b)
        <3> SUFFICES ASSUME NEW j \in 1..Len(b), b[j].seg = "result"
                     PROVE  \E i \in 1..(j - 1) : b[i].seg = "call"
            BY DEF CallsFirst
        <3>1. CASE j <= Len(a)
            <4>1. j \in 1..Len(a) /\ a[j].seg = "result"
                BY <2>3, <3>1
            <4>2. PICK i \in 1..(j - 1) : a[i].seg = "call"
                BY <2>1, <4>1 DEF CallsFirst
            <4>3. b[i] = a[i]
                BY <2>3, <4>1
            <4> QED BY <4>2, <4>3
        <3>2. CASE ~(j <= Len(a))
            <4>1. w[j - Len(a)] \in ToSet(w) /\ w[j - Len(a)].seg = "result"
                BY <2>3, <2>4, <3>2
            <4>2. PICK i \in 1..Len(a) : a[i].seg = "call"
                BY <2>1, <2>2, <4>1
            <4>3. i \in 1..(j - 1) /\ b[i] = a[i]
                BY <2>3, <3>2
            <4> QED BY <4>2, <4>3
        <3> QED BY <3>1, <3>2
    <2>6. ASSUME NEW i \in 1..q, i \in Called PROVE HasCall(b)
        <3>1. CASE i = q
            <4>1. PICK s : w = <<s>> /\ s.seg = "call"
                BY <2>2, <2>6, <3>1
            <4>2. Len(w) = 1 /\ w[1] = s
                BY <4>1
            <4>3. Len(a) + 1 \in 1..Len(b) /\ ~(Len(a) + 1 <= Len(a)) /\ (Len(a) + 1) - Len(a) = 1
                BY <2>3, <4>2
            <4>4. b[Len(a) + 1] = s
                BY <2>3, <4>2, <4>3
            <4> QED BY <4>1, <4>3, <4>4
        <3>2. CASE i # q
            <4>1. i \in 1..(q - 1)
                BY <3>2
            <4>2. PICK j \in 1..Len(a) : a[j].seg = "call"
                BY <2>1, <2>6, <4>1
            <4> QED BY <2>3, <4>2
        <3> QED BY <3>1, <3>2
    <2> QED BY <2>1, <2>5, <2>6 DEF b
<1>4. m \in T
    <2> HIDE DEF T
    <2>1. \A p \in 0..m : p \in T
        BY <1>2, <1>3, Upward
    <2> QED BY <2>1
<1>5. Joined(G, m) = FlattenSeq(G)
    <2>1. [i \in 1..m |-> G[i]] = G
        OBVIOUS
    <2> QED BY <2>1 DEF Joined
<1> QED BY <1>4, <1>5

(* Those of any of these pieces are those of one.                            *)
LEMMA FlatOf ==
    ASSUME NEW n \in Nat, NEW F, F = [i \in 1..n |-> F[i]], \A i \in 1..n : IsSequence(F[i])
    PROVE  /\ IsSequence(FlattenSeq(F))
           /\ \A s \in ToSet(FlattenSeq(F)) : \E i \in 1..n : s \in ToSet(F[i])
<1> DEFINE V == UNION {ToSet(F[i]) : i \in 1..n}
           u == FlattenSeq(F)
<1>1. u \in Seq(V)
    BY FlatElements
<1>2. \A s \in V : \E i \in 1..n : s \in ToSet(F[i])
    OBVIOUS
<1> HIDE DEF V, u
<1>3. IsSequence(u) /\ ToSet(u) \subseteq V
    BY <1>1, SequenceOf
<1> QED BY <1>2, <1>3 DEF u

(* What is rendered now is what was rendered before, then what was said      *)
(* since.                                                                    *)
LEMMA NormalizeSplits ==
    ASSUME NEW bs, IsContext(bs), ValidateFrame(bs), NEW k \in 0..Len(bs), ValidateFrame(Earlier(bs, k)),
           NEW protocol, NEW inPlace
    PROVE  LET u == Normalize(Earlier(bs, k), protocol, inPlace)
           IN  /\ AreSegments(u, protocol) /\ UpTo(u, k) /\ Placeable(u, inPlace)
               /\ \E rest : Since(rest, k, protocol, inPlace) /\ Normalize(bs, protocol, inPlace) = u \o rest
<1> DEFINE n == Len(bs)
           F == [i \in 1..n |-> Segments(bs, i, protocol, inPlace)]
           V == UNION {ToSet(F[i]) : i \in 1..n}
           H == [i \in 1..k |-> F[i]]
           G == [i \in 1..(n - k) |-> F[k + i]]
           u == FlattenSeq(H)
           rest == FlattenSeq(G)
<1>1. n \in Nat /\ k \in Nat /\ k <= n /\ n - k \in Nat
    BY ChangesType
<1>2. ASSUME NEW i \in 1..n
      PROVE  /\ IsSequence(F[i])
             /\ \A s \in ToSet(F[i]) : IsSegment(s, protocol) /\ Of(s, bs, i, inPlace)
             /\ IsCall(bs[i]) => \E s : F[i] = <<s>> /\ s.seg = "call"
    <2> DEFINE w == Segments(bs, i, protocol, inPlace)
    <2>1. F[i] = w
        OBVIOUS
    <2>2. AreSegments(w, protocol)
        BY SegmentsFacts
    <2>3. /\ \A s \in ToSet(w) : Of(s, bs, i, inPlace)
          /\ IsCall(bs[i]) => \E s : w = <<s>> /\ s.seg = "call"
        BY SegmentsOfBlock
    <2> HIDE DEF w, F
    <2> QED BY <2>1, <2>2, <2>3 DEF AreSegments
<1>3. Normalize(Earlier(bs, k), protocol, inPlace) = u
    <2> DEFINE early == Earlier(bs, k)
    <2>1. Len(early) = k
        BY EarlierContext
    <2>2. \A i \in 1..k : Segments(early, i, protocol, inPlace) = F[i]
        <3> SUFFICES ASSUME NEW i \in 1..k PROVE Segments(early, i, protocol, inPlace) = F[i]
            OBVIOUS
        <3>1. i \in 1..n
            BY <1>1
        <3>2. Segments(early, i, protocol, inPlace) = Segments(bs, i, protocol, inPlace)
            BY SameSegments
        <3> HIDE DEF early
        <3> QED BY <3>1, <3>2
    <2> HIDE DEF early, F
    <2>3. [i \in 1..Len(early) |-> Segments(early, i, protocol, inPlace)] = H
        BY <2>1, <2>2
    <2>4. Normalize(early, protocol, inPlace) = FlattenSeq([i \in 1..Len(early) |-> Segments(early, i, protocol, inPlace)])
        BY DEF Normalize
    <2> HIDE DEF H
    <2>5. Normalize(early, protocol, inPlace) = FlattenSeq(H)
        BY <2>3, <2>4, Zenon
    <2> QED BY <2>5 DEF early
<1>4. Normalize(bs, protocol, inPlace) = FlattenSeq(F) /\ F = [i \in 1..n |-> F[i]]
    BY DEF Normalize
<1> HIDE DEF F
<1>5. F \in [1..n -> Seq(V)]
    <2>1. ASSUME NEW i \in 1..n PROVE F[i] \in Seq(V)
        <3> DEFINE s == F[i]
                   S == ToSet(s)
        <3>1. s \in Seq(S) /\ S \subseteq V
            BY <1>2 DEF IsSequence
        <3> HIDE DEF s, S, V
        <3>2. s \in Seq(V)
            BY <3>1
        <3> QED BY <3>2 DEF s
    <2> HIDE DEF V
    <2> QED BY <1>4, <2>1
<1>6. /\ k \in 0..n /\ \A i \in 1..k : i \in 1..n
      /\ \A i \in 1..(n - k) : k + i \in 1..n /\ k + i \in (k + 1)..n
    BY <1>1
<1>7. FlattenSeq(F) = u \o rest
    <2> HIDE DEF V, n
    <2>1. FlattenSeq(F) = Joined(F, k) \o JoinedAfter(F, k, n)
        <3> HIDE DEF H, G
        <3> QED BY <1>1, <1>5, <1>6, FlatSplit
    <2>2. Joined(F, k) = u /\ JoinedAfter(F, k, n) = rest
        BY DEF Joined, JoinedAfter
    <2> HIDE DEF H, G, u, rest
    <2> QED BY <2>1, <2>2
<1>8. /\ H = [i \in 1..k |-> H[i]] /\ \A i \in 1..k : H[i] = F[i]
      /\ G = [i \in 1..(n - k) |-> G[i]] /\ \A i \in 1..(n - k) : G[i] = F[k + i]
    OBVIOUS
<1>g. G \in [1..(n - k) -> Seq(V)]
    <2> HIDE DEF V
    <2> QED BY <1>5, <1>6
<1> HIDE DEF H, G, u, rest, V, n
<1>9. IsSequence(u) /\ \A s \in ToSet(u) : \E i \in 1..k : s \in ToSet(F[i])
    <2>1. \A i \in 1..k : IsSequence(H[i])
        BY <1>2, <1>6, <1>8
    <2>2. IsSequence(FlattenSeq(H)) /\ \A s \in ToSet(FlattenSeq(H)) : \E i \in 1..k : s \in ToSet(H[i])
        BY <1>1, <1>8, <2>1, FlatOf
    <2> QED BY <1>8, <2>2 DEF u
<1>10. IsSequence(rest) /\ \A s \in ToSet(rest) : \E i \in 1..(n - k) : s \in ToSet(F[k + i])
    <2>1. \A i \in 1..(n - k) : IsSequence(G[i])
        BY <1>2, <1>6, <1>8
    <2>2. IsSequence(FlattenSeq(G)) /\ \A s \in ToSet(FlattenSeq(G)) : \E i \in 1..(n - k) : s \in ToSet(G[i])
        BY <1>1, <1>8, <2>1, FlatOf
    <2> QED BY <1>8, <2>2 DEF rest
<1>11. ASSUME NEW s \in ToSet(u)
       PROVE  /\ IsSegment(s, protocol) /\ s.seg \in {"text", "media"} => s.block \in 1..k
              /\ IsSegment(s, protocol)
              /\ s.seg = "result" => s.role = "tool"
              /\ s.seg \in {"sealed", "call"} => s.role = "assistant"
              /\ s.seg = "change" => s.role = "system" /\ inPlace
    <2>1. PICK i \in 1..k : s \in ToSet(F[i])
        BY <1>9
    <2>2. IsSegment(s, protocol) /\ Of(s, bs, i, inPlace)
        BY <1>2, <1>6, <2>1
    <2> QED BY <2>2 DEF Of
<1>12. ASSUME NEW s \in ToSet(rest)
       PROVE  /\ IsSegment(s, protocol) /\ (s.seg \in {"text", "media"} => s.block \in Nat /\ s.block > k)
              /\ s.seg = "result" => s.role = "tool"
              /\ s.seg \in {"sealed", "call"} => s.role = "assistant"
              /\ s.seg = "change" => s.role = "system" /\ inPlace
    <2>1. PICK i \in 1..(n - k) : s \in ToSet(F[k + i])
        BY <1>10
    <2>2. IsSegment(s, protocol) /\ Of(s, bs, k + i, inPlace)
        BY <1>2, <1>6, <2>1
    <2>3. k + i \in Nat /\ k + i > k
        BY <1>1
    <2> QED BY <2>2, <2>3 DEF Of
<1>13. CallsFirst(rest)
    <2> DEFINE Called == {i \in 1..(n - k) : IsCall(bs[k + i])}
    <2>1. ASSUME NEW q \in 1..(n - k), NEW s \in ToSet(G[q]), s.seg = "result"
          PROVE  \E i \in 1..(q - 1) : i \in Called
        <3>1. s \in ToSet(F[k + q])
            BY <1>8, <2>1
        <3>2. Of(s, bs, k + q, inPlace)
            BY <1>2, <1>6, <3>1
        <3>3. IsResult(bs[k + q]) /\ k + q \in (k + 1)..Len(bs)
            BY <1>6, <2>1, <3>2 DEF Of, n
        <3>4. PICK j \in (k + 1)..((k + q) - 1) : IsCall(bs[j])
            BY <3>3, ResultsFollow
        <3>5. j - k \in 1..(q - 1) /\ j - k \in 1..(n - k) /\ k + (j - k) = j
            BY <1>1
        <3> QED BY <3>4, <3>5
    <2>2. ASSUME NEW q \in 1..(n - k), q \in Called PROVE \E s : G[q] = <<s>> /\ s.seg = "call"
        BY <1>2, <1>6, <1>8, <2>2
    <2>3. \A q \in 1..(n - k) : \A s \in ToSet(G[q]) : s.seg = "result" => \E i \in 1..(q - 1) : i \in Called
        BY <2>1
    <2>4. \A q \in 1..(n - k) : q \in Called => \E s : G[q] = <<s>> /\ s.seg = "call"
        BY <2>2
    <2> HIDE DEF Called
    <2>5. CallsFirst(FlattenSeq(G))
        BY <1>1, <1>g, <2>3, <2>4, CallsComeFirst
    <2> QED BY <2>5 DEF rest
<1>14. AreSegments(u, protocol) /\ UpTo(u, k) /\ Placeable(u, inPlace)
    BY <1>9, <1>11 DEF AreSegments, UpTo, Placeable
<1>15. Since(rest, k, protocol, inPlace)
    BY <1>10, <1>12, <1>13 DEF AreSegments, Beyond, Placeable, Since
<1> QED BY <1>3, <1>4, <1>7, <1>14, <1>15

-----------------------------------------------------------------------------
(* A sequence, then another, by places.                                      *)
LEMMA JoinedPlaces ==
    ASSUME NEW u, IsSequence(u), NEW r, IsSequence(r)
    PROVE  /\ IsSequence(u \o r) /\ Len(u) \in Nat /\ Len(r) \in Nat
           /\ Len(u \o r) = Len(u) + Len(r)
           /\ \A i \in 1..Len(u) : (u \o r)[i] = u[i] /\ u[i] \in ToSet(u)
           /\ \A i \in 1..Len(u \o r) :
                 i > Len(u) => i - Len(u) \in 1..Len(r) /\ (u \o r)[i] = r[i - Len(u)]
                               /\ (u \o r)[i] \in ToSet(r)
<1> DEFINE V == ToSet(u) \cup ToSet(r)
           A == ToSet(u)
           B == ToSet(r)
<1>0. u \in Seq(A) /\ r \in Seq(B) /\ A \subseteq V /\ B \subseteq V
    BY DEF IsSequence
<1>a. (\A i \in 1..Len(u) : u[i] \in A) /\ (\A i \in 1..Len(r) : r[i] \in B)
    BY Elements
<1> HIDE DEF V, A, B
<1>1. u \in Seq(V) /\ r \in Seq(V)
    BY <1>0
<1>2. u \o r \in Seq(V) /\ Len(u) \in Nat /\ Len(r) \in Nat /\ Len(u \o r) = Len(u) + Len(r)
    BY <1>1
<1>3. \A i \in 1..Len(u) : (u \o r)[i] = u[i]
    BY <1>1
<1>4. ASSUME NEW i \in 1..Len(u \o r), i > Len(u)
      PROVE  i - Len(u) \in 1..Len(r) /\ (u \o r)[i] = r[i - Len(u)]
    BY <1>1, <1>2, <1>4
<1>5. IsSequence(u \o r)
    BY <1>2, SequenceOf
<1> QED BY <1>2, <1>3, <1>4, <1>5, <1>a DEF A, B

(* A set of numbers has its least in it.                                     *)
LEMMA MinIn ==
    ASSUME NEW S \in SUBSET Nat, S # {}
    PROVE  Min(S) \in S /\ \A k \in S : Min(S) <= k
<1>1. \E m \in S : \A k \in S : m <= k
    BY LeastElement
<1> QED BY <1>1, Zenon DEF Min

(* Two sets with the same numbers up to n, of which there is one.            *)
LEMMA SameMin ==
    ASSUME NEW n \in Nat, NEW S \in SUBSET Nat, NEW T \in SUBSET Nat,
           \A i \in Nat : i <= n => (i \in S <=> i \in T), NEW x \in S, x <= n
    PROVE  Min(S) = Min(T) /\ T # {} /\ Min(S) \in S
<1>1. x \in T /\ x \in Nat
    OBVIOUS
<1>2. Min(S) \in S /\ Min(S) <= x /\ \A k \in S : Min(S) <= k
    BY MinIn
<1>3. Min(T) \in T /\ Min(T) <= x /\ \A k \in T : Min(T) <= k
    BY <1>1, MinIn
<1> DEFINE a == Min(S)
           b == Min(T)
<1>s. a \in S /\ b \in T /\ a <= x /\ b <= x
    BY <1>2, <1>3
<1> HIDE DEF a, b
<1>4. a \in Nat /\ b \in Nat /\ a <= n /\ b <= n
    BY <1>1, <1>s
<1>5. a \in T /\ b \in S
    BY <1>2, <1>3, <1>4 DEF a, b
<1>6. a <= b /\ b <= a
    BY <1>2, <1>3, <1>5 DEF a, b
<1> QED BY <1>1, <1>2, <1>4, <1>6 DEF a, b

(* What is said later does not change what was said before the conversation. *)
LEMMA LeadingKept ==
    ASSUME NEW u, IsSequence(u), NEW r, IsSequence(r), LeadingSystemLen(u) # Len(u)
    PROVE  /\ LeadingSystemLen(u) \in Nat /\ LeadingSystemLen(u) < Len(u)
           /\ LeadingSystemLen(u \o r) = LeadingSystemLen(u)
           /\ LeadingTexts(u \o r) = LeadingTexts(u)
<1> DEFINE v == u \o r
           End(s, i) == s[i].role # "system" \/ s[i].seg = "change"
           S == {i \in 1..Len(u) : End(u, i)}
           T == {i \in 1..Len(v) : End(v, i)}
           L == LeadingSystemLen(u)
<1>1. /\ Len(u) \in Nat /\ Len(r) \in Nat /\ Len(v) = Len(u) + Len(r)
      /\ \A i \in 1..Len(u) : v[i] = u[i]
    BY JoinedPlaces
<1>2. L = IF S = {} THEN Len(u) ELSE Min(S) - 1
    BY DEF LeadingSystemLen
<1>3. LeadingSystemLen(v) = IF T = {} THEN Len(v) ELSE Min(T) - 1
    BY DEF LeadingSystemLen
<1>l. L # Len(u)
    OBVIOUS
<1> HIDE DEF v, L
<1>4. S \in SUBSET Nat /\ T \in SUBSET Nat /\ \A i \in Nat : i <= Len(u) => (i \in S <=> i \in T)
    BY <1>1
<1>5. PICK x : x \in S
    BY <1>2, <1>l
<1>6. x <= Len(u)
    BY <1>1, <1>5
<1> HIDE DEF S, T
<1>7. Min(S) = Min(T) /\ T # {} /\ Min(S) \in S
    BY <1>1, <1>4, <1>5, <1>6, SameMin
<1>8. L = Min(S) - 1 /\ LeadingSystemLen(v) = L
    BY <1>2, <1>3, <1>5, <1>7
<1>9. L \in Nat /\ L < Len(u)
    <2>1. Min(S) \in 1..Len(u)
        BY <1>7 DEF S
    <2> QED BY <1>1, <1>8, <2>1
<1>10. LeadingTexts(v) = LeadingTexts(u)
    <2>1. \A i \in 1..L : v[i] = u[i]
        BY <1>1, <1>9
    <2>2. LeadingSystemLen(u) = L
        BY DEF L
    <2> QED BY <1>8, <2>1, <2>2 DEF LeadingTexts
<1> QED BY <1>8, <1>9, <1>10 DEF v, L

(* What a run ends before, S in u and T in v, is the same in u, and all      *)
(* that comes after it.                                                      *)
SameEnd(u, v, from, S, T) ==
    /\ S \subseteq from..Len(u) /\ T \subseteq from..Len(v)
    /\ \A i \in from..Len(u) : i \in S <=> i \in T
    /\ \A i \in from..Len(v) : i > Len(u) => i \in T

(* v is what u was, then r.                                                  *)
GoesOn(v, u, r) == IsSequence(u) /\ IsSequence(r) /\ v = u \o r

(* A run that must end where more is said is the same with it.               *)
LEMMA RunKept ==
    ASSUME NEW u, NEW r, NEW v, GoesOn(v, u, r),
           NEW from \in 1..Len(u), NEW S, NEW T, SameEnd(u, v, from, S, T)
    PROVE  RunBefore(v, from, T) = RunBefore(u, from, S)
<1> DEFINE e == IF S = {} THEN Len(u) ELSE Min(S) - 1
           f == IF T = {} THEN Len(v) ELSE Min(T) - 1
<1>1. /\ Len(u) \in Nat /\ Len(r) \in Nat /\ Len(v) = Len(u) + Len(r)
      /\ \A i \in 1..Len(u) : v[i] = u[i]
      /\ IsSequence(v)
    BY JoinedPlaces DEF GoesOn
<1>2. RunBefore(v, from, T) = SubSeq(v, from, f) /\ RunBefore(u, from, S) = SubSeq(u, from, e)
    BY DEF RunBefore
<1>p. /\ S \in SUBSET (from..Len(u)) /\ T \in SUBSET (from..Len(v))
      /\ \A i \in from..Len(v) : i > Len(u) => i \in T
      /\ \A i \in from..Len(u) : i \in S <=> i \in T
    BY DEF SameEnd
<1>3. S \in SUBSET Nat /\ T \in SUBSET Nat
    BY <1>1, <1>p
<1>4. f = e /\ e \in Nat /\ e <= Len(u) /\ e >= from - 1
    <2>1. CASE S # {}
        <3>1. PICK x : x \in S
            BY <2>1
        <3>2. x <= Len(u) /\ \A i \in Nat : i <= Len(u) => (i \in S <=> i \in T)
            BY <1>1, <1>p, <3>1
        <3>3. Min(S) = Min(T) /\ T # {} /\ Min(S) \in S
            BY <1>1, <1>3, <3>1, <3>2, SameMin
        <3>4. Min(S) \in from..Len(u)
            BY <1>p, <3>3
        <3> DEFINE m == Min(S)
        <3> HIDE DEF m
        <3>5. e = m - 1 /\ f = m - 1 /\ m \in from..Len(u)
            BY <2>1, <3>3, <3>4 DEF m
        <3> HIDE DEF e, f
        <3> QED BY <1>1, <3>5
    <2>2. CASE S = {}
        <3>1. e = Len(u) /\ \A i \in T : i > Len(u)
            BY <1>1, <1>p, <2>2
        <3>2. CASE T = {}
            <4>1. ~(Len(v) > Len(u))
                <5>1. Len(v) > Len(u) => Len(v) \in from..Len(v)
                    BY <1>1
                <5> QED BY <1>p, <3>2, <5>1
            <4>2. f = Len(v)
                BY <3>2
            <4> HIDE DEF e, f
            <4> QED BY <1>1, <3>1, <4>1, <4>2
        <3>3. CASE T # {}
            <4>1. Min(T) \in T /\ \A k \in T : Min(T) <= k
                BY <1>3, <3>3, MinIn
            <4> DEFINE m == Min(T)
            <4>2. f = m - 1
                BY <3>3
            <4>3. m \in T /\ \A k \in T : m <= k
                BY <4>1
            <4> HIDE DEF m, e, f
            <4>4. m \in from..Len(v) /\ m > Len(u)
                BY <1>p, <3>1, <4>3
            <4>5. Len(u) + 1 \in T
                BY <1>1, <1>p, <4>4
            <4>6. m <= Len(u) + 1
                BY <4>3, <4>5
            <4> QED BY <1>1, <3>1, <4>2, <4>4, <4>6
        <3> QED BY <3>2, <3>3
    <2> QED BY <2>1, <2>2
<1> HIDE DEF e, f
<1>5. SubSeq(v, from, e) = SubSeq(u, from, e)
    <2>1. from \in Nat /\ from >= 1
        BY <1>1
    <2>2. SubSeq(v, from, e) = [i \in 1..(1 + e - from) |-> v[i + from - 1]]
        BY <1>1, <1>4, <2>1
    <2>3. SubSeq(u, from, e) = [i \in 1..(1 + e - from) |-> u[i + from - 1]]
        BY <1>1, <1>4, <2>1
    <2>4. \A i \in 1..(1 + e - from) : i + from - 1 \in 1..Len(u)
        BY <1>1, <1>4, <2>1
    <2> QED BY <1>1, <2>2, <2>3, <2>4
<1> QED BY <1>2, <1>4, <1>5

-----------------------------------------------------------------------------
(* Segments of blocks up to one, and of later blocks.                        *)
Parted(u, r, k, protocol) ==
    /\ AreSegments(u, protocol) /\ AreSegments(r, protocol) /\ UpTo(u, k) /\ Beyond(r, k) /\ k \in Nat

(* A run of one block ends with the block.                                   *)
LEMMA RunsKept ==
    ASSUME NEW protocol, NEW u, NEW r, NEW k, Parted(u, r, k, protocol), NEW i \in 1..Len(u)
    PROVE  /\ (u \o r)[i] = u[i]
           /\ IsUserPart(u[i]) => UserBlockRun(u \o r, i) = UserBlockRun(u, i)
           /\ IsAssistantText(u[i]) => SameBlockRun(u \o r, i) = SameBlockRun(u, i)
           /\ StartsUserMessage(u \o r, i) = StartsUserMessage(u, i)
<1> DEFINE v == u \o r
<1>0. IsSequence(u) /\ IsSequence(r)
    BY DEF Parted, AreSegments
<1>v. v = u \o r
    OBVIOUS
<1>j. /\ Len(u) \in Nat /\ Len(r) \in Nat /\ Len(v) = Len(u) + Len(r)
      /\ \A j \in 1..Len(u) : v[j] = u[j] /\ u[j] \in ToSet(u)
      /\ \A j \in 1..Len(v) :
            j > Len(u) => j - Len(u) \in 1..Len(r) /\ v[j] = r[j - Len(u)] /\ v[j] \in ToSet(r)
    BY <1>0, JoinedPlaces, Zenon
<1> HIDE DEF v
<1>1. /\ Len(u) \in Nat /\ Len(v) \in Nat /\ Len(u) <= Len(v)
      /\ \A j \in 1..Len(u) : v[j] = u[j] /\ u[j] \in ToSet(u)
      /\ \A j \in 1..Len(v) : j > Len(u) => v[j] \in ToSet(r)
    BY <1>j
<1>2. /\ \A s \in ToSet(u) : s.seg \in {"text", "media"} => s.block \in 1..k
      /\ \A s \in ToSet(r) : s.seg \in {"text", "media"} => s.block \in Nat /\ s.block > k
      /\ k \in Nat
    BY DEF Parted, UpTo, Beyond
<1>3. ASSUME NEW S, NEW T, SameEnd(u, v, i, S, T) PROVE RunBefore(v, i, T) = RunBefore(u, i, S)
    <2>1. GoesOn(v, u, r)
        BY <1>0, <1>v DEF GoesOn
    <2> QED BY <1>3, <2>1, RunKept
<1>4. v[i] = u[i] /\ \A j \in i..Len(u) : v[j] = u[j]
    BY <1>1
<1>5. ASSUME NEW j \in i..Len(v), j > Len(u), u[i].seg \in {"text", "media"}, v[j].seg \in {"text", "media"}
      PROVE  u[i].block # v[j].block
    <2>1. v[j] \in ToSet(r) /\ u[i] \in ToSet(u)
        BY <1>1, <1>5
    <2>2. u[i].block \in 1..k /\ v[j].block \in Nat /\ v[j].block > k
        BY <1>2, <1>5, <2>1
    <2> QED BY <1>2, <2>2
<1>6. ASSUME IsUserPart(u[i]) PROVE UserBlockRun(v, i) = UserBlockRun(u, i)
    <2> DEFINE S == {j \in i..Len(u) : ~SameUserBlock(u, i, j)}
               T == {j \in i..Len(v) : ~SameUserBlock(v, i, j)}
    <2>1. \A j \in i..Len(u) : j \in i..Len(v) /\ (SameUserBlock(u, i, j) <=> SameUserBlock(v, i, j))
        BY <1>1, <1>4 DEF SameUserBlock
    <2>2. ASSUME NEW j \in i..Len(v), j > Len(u) PROVE ~SameUserBlock(v, i, j)
        <3>1. u[i].seg \in {"text", "media"}
            BY <1>6 DEF IsUserPart
        <3>2. v[j].seg \in {"text", "media"} => u[i].block # v[j].block
            BY <1>5, <2>2, <3>1
        <3> QED BY <1>4, <3>2 DEF SameUserBlock, IsUserPart
    <2>3. S \subseteq i..Len(u) /\ T \subseteq i..Len(v)
        OBVIOUS
    <2>4. /\ \A j \in i..Len(u) : j \in S <=> j \in T
          /\ \A j \in i..Len(v) : j > Len(u) => j \in T
        BY <2>1, <2>2
    <2>5. UserBlockRun(v, i) = RunBefore(v, i, T) /\ UserBlockRun(u, i) = RunBefore(u, i, S)
        BY DEF UserBlockRun
    <2> HIDE DEF S, T
    <2>6. RunBefore(v, i, T) = RunBefore(u, i, S)
        BY <1>3, <2>3, <2>4 DEF SameEnd
    <2> QED BY <2>5, <2>6
<1>7. ASSUME IsAssistantText(u[i]) PROVE SameBlockRun(v, i) = SameBlockRun(u, i)
    <2> DEFINE S == {j \in i..Len(u) : ~(IsAssistantText(u[j]) /\ u[j].block = u[i].block)}
               T == {j \in i..Len(v) : ~(IsAssistantText(v[j]) /\ v[j].block = v[i].block)}
    <2>1. \A j \in i..Len(u) : j \in i..Len(v) /\ v[j] = u[j] /\ v[i] = u[i]
        BY <1>1, <1>4
    <2>2. ASSUME NEW j \in i..Len(v), j > Len(u)
          PROVE  ~(IsAssistantText(v[j]) /\ v[j].block = v[i].block)
        <3>1. u[i].seg \in {"text", "media"}
            BY <1>7 DEF IsAssistantText
        <3>2. v[j].seg \in {"text", "media"} => u[i].block # v[j].block
            BY <1>5, <2>2, <3>1
        <3> QED BY <1>4, <3>2 DEF IsAssistantText
    <2>3. S \subseteq i..Len(u) /\ T \subseteq i..Len(v)
        OBVIOUS
    <2>4. /\ \A j \in i..Len(u) : j \in S <=> j \in T
          /\ \A j \in i..Len(v) : j > Len(u) => j \in T
        BY <2>1, <2>2
    <2>5. SameBlockRun(v, i) = RunBefore(v, i, T) /\ SameBlockRun(u, i) = RunBefore(u, i, S)
        BY DEF SameBlockRun
    <2> HIDE DEF S, T
    <2>6. RunBefore(v, i, T) = RunBefore(u, i, S)
        BY <1>3, <2>3, <2>4 DEF SameEnd
    <2> QED BY <2>5, <2>6
<1>8. StartsUserMessage(v, i) = StartsUserMessage(u, i)
    <2>1. CASE i = 1
        BY <1>4, <2>1 DEF StartsUserMessage
    <2>2. CASE i # 1
        <3>1. v[i - 1] = u[i - 1]
            BY <1>1, <2>2
        <3> QED BY <1>4, <2>2, <3>1 DEF StartsUserMessage, SameUserBlock
    <2> QED BY <2>1, <2>2
<1> QED BY <1>4, <1>6, <1>7, <1>8 DEF v

(* A message is rebuilt as it was, its texts with it.                        *)
LEMMA RebuiltKept ==
    ASSUME NEW protocol, NEW u, NEW r, NEW k, Parted(u, r, k, protocol), NEW i \in 1..Len(u),
           IsAssistantText(u[i])
    PROVE  Rebuilt(u \o r, i) = Rebuilt(u, i) /\ (InRebuilt(u \o r, i) <=> InRebuilt(u, i))
<1> DEFINE v == u \o r
<1>1. ASSUME NEW j \in 1..Len(u)
      PROVE  v[j] = u[j] /\ (IsAssistantText(u[j]) => SameBlockRun(v, j) = SameBlockRun(u, j))
    BY RunsKept
<1> HIDE DEF v
<1>2. ASSUME NEW j \in 1..Len(u), IsAssistantText(u[j]) PROVE Rebuilt(v, j) = Rebuilt(u, j)
    <2> DEFINE Build(run, s) == IF s.wire = <<>> \/ Len(run) # s.parts THEN <<>>
                                ELSE MessageFromWire(s.wire[1], run)
    <2>1. Rebuilt(v, j) = Build(SameBlockRun(v, j), v[j]) /\ Rebuilt(u, j) = Build(SameBlockRun(u, j), u[j])
        BY DEF Rebuilt
    <2> HIDE DEF Build
    <2>2. SameBlockRun(v, j) = SameBlockRun(u, j) /\ v[j] = u[j]
        BY <1>1, <1>2
    <2> QED BY <2>1, <2>2
<1>3. IsSequence(u)
    BY DEF Parted, AreSegments
<1>4. \A j \in 1..(i - 1) : j \in 1..Len(u)
    <2>1. Len(u) \in Nat
        BY <1>3, Elements
    <2> QED BY <2>1
<1> DEFINE Covers(w, j) == /\ IsAssistantText(w[j]) /\ w[j].block = w[i].block
                           /\ i < j + Len(SameBlockRun(w, j)) /\ Rebuilt(w, j) # <<>>
<1>5. ASSUME NEW j \in 1..(i - 1) PROVE Covers(v, j) <=> Covers(u, j)
    <2>1. v[j] = u[j] /\ v[i] = u[i]
        BY <1>1, <1>4
    <2>2. IsAssistantText(u[j]) => SameBlockRun(v, j) = SameBlockRun(u, j) /\ Rebuilt(v, j) = Rebuilt(u, j)
        BY <1>1, <1>2, <1>4
    <2> QED BY <2>1, <2>2
<1>6. (InRebuilt(v, i) <=> \E j \in 1..(i - 1) : Covers(v, j))
      /\ (InRebuilt(u, i) <=> \E j \in 1..(i - 1) : Covers(u, j))
    BY Zenon DEF InRebuilt
<1> HIDE DEF Covers
<1>7. InRebuilt(v, i) <=> InRebuilt(u, i)
    BY <1>5, <1>6
<1> QED BY <1>2, <1>7 DEF v

(* A segment puts the items in the input that it put there.                  *)
LEMMA ItemsKept ==
    ASSUME NEW u, NEW r, NEW k, Parted(u, r, k, ResponsesName), NEW i \in 1..Len(u),
           LeadingSystemLen(u \o r) = LeadingSystemLen(u)
    PROVE  SegmentItems(u \o r, i) = SegmentItems(u, i)
<1> DEFINE v == u \o r
           s == u[i]
<1>1. /\ v[i] = s
      /\ IsUserPart(s) => UserBlockRun(v, i) = UserBlockRun(u, i)
      /\ StartsUserMessage(v, i) = StartsUserMessage(u, i)
    BY RunsKept
<1>2. IsAssistantText(s) => Rebuilt(v, i) = Rebuilt(u, i) /\ (InRebuilt(v, i) <=> InRebuilt(u, i))
    BY RebuiltKept
<1>3. IsSegment(s, ResponsesName)
    <2>1. AreSegments(u, ResponsesName)
        BY DEF Parted
    <2>2. s \in ToSet(u)
        BY <2>1, Elements DEF AreSegments
    <2> QED BY <2>1, <2>2 DEF AreSegments
<1>4. LeadingSystemLen(v) = LeadingSystemLen(u)
    OBVIOUS
<1> HIDE DEF v, s
<1>s. v[i] = s /\ u[i] = s
    BY <1>1 DEF s
<1>5. CASE s.seg \in {"text", "media"} /\ s.role = "system"
    <2> DEFINE Items(l) == IF i <= l THEN <<>> ELSE <<SystemItem(SegmentText(s))>>
    <2>1. SegmentItems(v, i) = Items(LeadingSystemLen(v))
        BY <1>5, <1>s DEF SegmentItems, IsUserPart, IsAssistantText
    <2>2. SegmentItems(u, i) = Items(LeadingSystemLen(u))
        BY <1>5, <1>s DEF SegmentItems, IsUserPart, IsAssistantText
    <2> HIDE DEF Items
    <2> QED BY <1>4, <2>1, <2>2 DEF v
<1>6. CASE s.seg \in {"text", "media"} /\ s.role = "user"
    <2> DEFINE Items(starts, run) == IF starts THEN <<UserItem(run)>> ELSE <<>>
    <2>1. SegmentItems(v, i) = Items(StartsUserMessage(v, i), UserBlockRun(v, i))
        BY <1>6, <1>s DEF SegmentItems, IsUserPart, IsAssistantText
    <2>2. SegmentItems(u, i) = Items(StartsUserMessage(u, i), UserBlockRun(u, i))
        BY <1>6, <1>s DEF SegmentItems, IsUserPart, IsAssistantText
    <2>3. UserBlockRun(v, i) = UserBlockRun(u, i)
        BY <1>1, <1>6 DEF IsUserPart, s
    <2> HIDE DEF Items
    <2> QED BY <1>1, <2>1, <2>2, <2>3 DEF v
<1>7. CASE s.seg = "text" /\ s.role = "assistant"
    <2> DEFINE Items(in, rebuilt) == IF in THEN <<>> ELSE IF rebuilt # <<>> THEN rebuilt
                                     ELSE <<AssistantItem(s.text)>>
    <2>1. SegmentItems(v, i) = Items(InRebuilt(v, i), Rebuilt(v, i))
        BY <1>7, <1>s DEF SegmentItems, IsUserPart, IsAssistantText
    <2>2. SegmentItems(u, i) = Items(InRebuilt(u, i), Rebuilt(u, i))
        BY <1>7, <1>s DEF SegmentItems, IsUserPart, IsAssistantText
    <2>3. Rebuilt(v, i) = Rebuilt(u, i) /\ (InRebuilt(v, i) <=> InRebuilt(u, i))
        BY <1>2, <1>7 DEF IsAssistantText
    <2> QED BY <2>1, <2>2, <2>3 DEF v
<1>8. CASE s.seg = "media" /\ s.role = "assistant"
    <2>1. SegmentItems(v, i) = <<AssistantItem(PlaceholderText)>>
        BY <1>8, <1>s DEF SegmentItems, IsUserPart, IsAssistantText
    <2>2. SegmentItems(u, i) = <<AssistantItem(PlaceholderText)>>
        BY <1>8, <1>s DEF SegmentItems, IsUserPart, IsAssistantText
    <2> QED BY <2>1, <2>2 DEF v
<1>9. CASE s.seg = "sealed"
    <2>1. SegmentItems(v, i) = <<s.item>> /\ SegmentItems(u, i) = <<s.item>>
        BY <1>9, <1>s DEF SegmentItems, IsUserPart, IsAssistantText
    <2> QED BY <2>1 DEF v
<1>10. CASE s.seg = "call"
    <2>1. SegmentItems(v, i) = <<FunctionCall(s)>> /\ SegmentItems(u, i) = <<FunctionCall(s)>>
        BY <1>10, <1>s DEF SegmentItems, IsUserPart, IsAssistantText
    <2> QED BY <2>1 DEF v
<1>11. CASE s.seg = "result"
    <2>1. SegmentItems(v, i) = <<FunctionCallOutput(s)>> /\ SegmentItems(u, i) = <<FunctionCallOutput(s)>>
        BY <1>11, <1>s DEF SegmentItems, IsUserPart, IsAssistantText
    <2> QED BY <2>1 DEF v
<1>12. CASE s.seg = "change"
    <2>1. SegmentItems(v, i) = AdditionalTools(s) /\ SegmentItems(u, i) = AdditionalTools(s)
        BY <1>12, <1>s DEF SegmentItems, IsUserPart, IsAssistantText
    <2> QED BY <2>1 DEF v
<1> QED BY <1>3, <1>5, <1>6, <1>7, <1>8, <1>9, <1>10, <1>11, <1>12 DEF IsSegment

(* The input is what it was, then what was said since.                       *)
LEMMA InputKept ==
    ASSUME NEW u, NEW r, NEW k, Parted(u, r, k, ResponsesName),
           LeadingSystemLen(u \o r) = LeadingSystemLen(u)
    PROVE  /\ IsSequence(ResponsesItems(u))
           /\ \E more : IsSequence(more) /\ ResponsesItems(u \o r) = ResponsesItems(u) \o more
<1> DEFINE v == u \o r
           n == Len(v)
           F == [i \in 1..n |-> SegmentItems(v, i)]
           V == UNION {ToSet(F[i]) : i \in 1..n}
           more == JoinedAfter(F, Len(u), n)
<1>1. AreSegments(u, ResponsesName) /\ AreSegments(r, ResponsesName)
    BY DEF Parted
<1>2. /\ IsSequence(v) /\ Len(u) \in Nat /\ Len(r) \in Nat /\ n = Len(u) + Len(r)
      /\ \A i \in 1..Len(u) : v[i] \in ToSet(u)
      /\ \A i \in 1..n : i > Len(u) => v[i] \in ToSet(r)
    <2>1. IsSequence(u) /\ IsSequence(r)
        BY <1>1 DEF AreSegments
    <2> QED BY <2>1, JoinedPlaces
<1>3. AreSegments(v, ResponsesName)
    <2>1. ToSet(v) = {v[i] : i \in 1..n}
        BY <1>2, Elements
    <2>2. ASSUME NEW i \in 1..n PROVE IsSegment(v[i], ResponsesName)
        <3>1. CASE i <= Len(u)
            <4>1. i \in 1..Len(u)
                BY <1>2, <3>1
            <4> QED BY <1>1, <1>2, <4>1 DEF AreSegments
        <3>2. CASE ~(i <= Len(u))
            <4>1. i > Len(u)
                BY <1>2, <3>2
            <4> QED BY <1>1, <1>2, <4>1 DEF AreSegments
        <3> QED BY <3>1, <3>2
    <2> QED BY <1>2, <2>1, <2>2 DEF AreSegments
<1>4. \A i \in 1..Len(u) : SegmentItems(v, i) = SegmentItems(u, i)
    BY ItemsKept
<1> HIDE DEF v
<1>5. ASSUME NEW i \in 1..n PROVE IsSequence(F[i])
    <2>1. F[i] = SegmentItems(v, i)
        OBVIOUS
    <2>2. IsSequence(SegmentItems(v, i))
        <3>1. LET items == SegmentItems(v, i) IN IsSequence(items)
            BY <1>3, ItemsOfSegment
        <3> QED BY <3>1
    <2> QED BY <2>1, <2>2
<1>6. F = [i \in 1..n |-> F[i]] /\ \A i \in 1..n : F[i] = SegmentItems(v, i)
    OBVIOUS
<1>7. ResponsesItems(v) = FlattenSeq(F)
    BY DEF ResponsesItems
<1>n. n \in Nat /\ Len(u) \in 0..n
    BY <1>2
<1> HIDE DEF F, n
<1>8. F \in [1..n -> Seq(V)]
    <2>1. ASSUME NEW i \in 1..n PROVE F[i] \in Seq(V)
        <3> DEFINE s == F[i]
                   S == ToSet(s)
        <3>1. s \in Seq(S) /\ S \subseteq V
            BY <1>5 DEF IsSequence
        <3> HIDE DEF s, S, V
        <3>2. s \in Seq(V)
            BY <3>1
        <3> QED BY <3>2 DEF s
    <2> HIDE DEF V
    <2> QED BY <1>6, <2>1
<1> HIDE DEF V
<1>9. /\ Joined(F, Len(u)) \in Seq(V) /\ more \in Seq(V)
      /\ FlattenSeq(F) = Joined(F, Len(u)) \o more
    BY <1>8, <1>n, FlatSplit
<1>10. Joined(F, Len(u)) = ResponsesItems(u)
    <2>1. \A i \in 1..Len(u) : F[i] = SegmentItems(u, i)
        BY <1>4, <1>6, <1>n
    <2>2. [l \in 1..Len(u) |-> F[l]] = [i \in 1..Len(u) |-> SegmentItems(u, i)]
        BY <2>1
    <2> QED BY <2>2, Zenon DEF Joined, ResponsesItems
<1> HIDE DEF more
<1>11. IsSequence(more) /\ IsSequence(ResponsesItems(u))
    BY <1>9, <1>10, SequenceOf
<1> QED BY <1>7, <1>9, <1>10, <1>11 DEF v

-----------------------------------------------------------------------------
(* Once the tools of a request go in place, those of later requests that     *)
(* place theirs are declared as they were.                                   *)
LEMMA PlanKept ==
    ASSUME NEW bs, IsContext(bs), NEW k \in 0..Len(bs), NEW placement
    PROVE  LET p == PlanTools(Earlier(bs, k), placement)
               q == PlanTools(bs, placement)
           IN  /\ p.in_place \in BOOLEAN /\ q.in_place \in BOOLEAN
               /\ p.in_place /\ q.in_place => p.tools = q.tools
               /\ placement = "AnthropicInPlace" /\ ChangesOf(Earlier(bs, k)) # <<>> =>
                      p.in_place = q.in_place
               /\ p.in_place => ChangesOf(Earlier(bs, k)) # <<>>
               /\ placement = "Fold" => ~p.in_place /\ ~q.in_place
<1> DEFINE early == Earlier(bs, k)
           a == ChangesOf(early)
           b == ChangesOf(bs)
           first(c) == ApplyTo(<<>>, c[1])
           Expressible(c) == /\ c # <<>>
                             /\ \/ placement = "AnthropicInPlace" /\ first(c) # <<>>
                                \/ /\ placement = "ResponsesAdditive"
                                   /\ AddsOnlyNew(first(c), Tail(c))
           Plan(c) == IF Expressible(c) THEN [tools |-> first(c), in_place |-> TRUE]
                      ELSE [tools |-> CurrentTools(c), in_place |-> FALSE]
           p == PlanTools(early, placement)
           q == PlanTools(bs, placement)
<1>1. p = Plan(a) /\ q = Plan(b)
    BY DEF PlanTools
<1>2. PICK rest \in Seq(ToolChanges) : b = a \o rest
    BY EarlierContext
<1>3. a \in Seq(ToolChanges)
    BY EarlierContext
<1> HIDE DEF a, b, p, q
<1>4. a # <<>> => b # <<>> /\ b[1] = a[1]
    <2>1. a # <<>> => Len(a) \in Nat /\ Len(a) >= 1
        BY <1>3
    <2> QED BY <1>2, <1>3, <2>1
<1>5. a # <<>> => first(a) = first(b)
    BY <1>4
<1> DEFINE X == Expressible(a)
           Y == Expressible(b)
<1>6. /\ X => p.in_place = TRUE /\ p.tools = first(a)
      /\ ~X => p.in_place = FALSE
      /\ Y => q.in_place = TRUE /\ q.tools = first(b)
      /\ ~Y => q.in_place = FALSE
    <2> HIDE DEF Expressible, first
    <2> QED BY <1>1
<1>7. /\ X => a # <<>>
      /\ placement = "AnthropicInPlace" /\ a # <<>> => (X <=> Y)
      /\ placement = "Fold" => ~X /\ ~Y
    BY <1>4, <1>5
<1> HIDE DEF X, Y, Expressible, first
<1> QED BY <1>5, <1>6, <1>7 DEF a, p, q, early

(* Where nothing was recorded, nothing is placed.                            *)
LEMMA NothingToPlace ==
    ASSUME NEW bs, IsContext(bs), ChangesOf(bs) = <<>>, NEW protocol
    PROVE  Normalize(bs, protocol, TRUE) = Normalize(bs, protocol, FALSE)
<1> DEFINE n == Len(bs)
           F(inPlace) == [i \in 1..n |-> Segments(bs, i, protocol, inPlace)]
<1>1. n \in Nat /\ \A i \in 1..n : IsBlock(bs[i]) /\ ~IsChange(bs[i])
    BY ChangesType, NoChangeBlock DEF IsContext
<1>2. ASSUME NEW i \in 1..n PROVE Segments(bs, i, protocol, TRUE) = Segments(bs, i, protocol, FALSE)
    <2> DEFINE block == bs[i]
    <2>1. block.kind \in {"message", "call", "result"}
        BY <1>1 DEF IsBlock, IsChange
    <2>2. CASE block.kind = "message"
        BY <2>2 DEF Segments
    <2>3. CASE block.kind = "call"
        BY <2>3 DEF Segments
    <2>4. CASE block.kind = "result"
        BY <2>4 DEF Segments
    <2> QED BY <2>1, <2>2, <2>3, <2>4
<1>3. F(TRUE) = F(FALSE)
    BY <1>2
<1>4. Normalize(bs, protocol, TRUE) = FlattenSeq(F(TRUE)) /\ Normalize(bs, protocol, FALSE) = FlattenSeq(F(FALSE))
    BY DEF Normalize
<1> HIDE DEF F
<1> QED BY <1>3, <1>4

(* A Responses request that sends any item has said more than a preamble.    *)
LEMMA ItemsAfterPreamble ==
    ASSUME NEW u, AreSegments(u, ResponsesName), NEW inPlace, Placeable(u, inPlace),
           ResponsesItems(u) # <<>>
    PROVE  LeadingSystemLen(u) # Len(u)
<1> SUFFICES ASSUME LeadingSystemLen(u) = Len(u) PROVE FALSE
    OBVIOUS
<1> DEFINE n == Len(u)
           F == [i \in 1..n |-> SegmentItems(u, i)]
           ends == {i \in 1..n : u[i].role # "system" \/ u[i].seg = "change"}
<1>1. /\ n \in Nat
      /\ \A i \in 1..n : /\ IsSegment(u[i], ResponsesName)
                         /\ u[i].role = "system" /\ u[i].seg # "change" => u[i].seg \in {"text", "media"}
    <2>1. n \in Nat /\ \A i \in 1..n : u[i] \in ToSet(u)
        BY Elements DEF AreSegments
    <2> QED BY <2>1 DEF AreSegments, IsSegment, Placeable
<1>2. n = IF ends = {} THEN n ELSE Min(ends) - 1
    BY DEF LeadingSystemLen
<1>3. ends = {}
    <2> SUFFICES ASSUME ends # {} PROVE FALSE
        OBVIOUS
    <2>1. ends \in SUBSET Nat
        OBVIOUS
    <2>2. Min(ends) \in ends
        <3> HIDE DEF ends
        <3> QED BY <2>1, MinIn
    <2> DEFINE m == Min(ends)
    <2>3. m \in 1..n /\ n = m - 1
        BY <1>2, <2>2
    <2> HIDE DEF m, ends
    <2> QED BY <1>1, <2>3
<1>4. ASSUME NEW i \in 1..n PROVE F[i] = <<>>
    <2>1. u[i].role = "system" /\ u[i].seg # "change" /\ i <= LeadingSystemLen(u)
        BY <1>1, <1>3
    <2>2. u[i].seg \in {"text", "media"}
        BY <1>1, <2>1
    <2> QED BY <2>1, <2>2 DEF SegmentItems, IsUserPart, IsAssistantText
<1>5. F = [i \in 1..n |-> F[i]]
    OBVIOUS
<1>6. ResponsesItems(u) = FlattenSeq(F)
    BY DEF ResponsesItems
<1> HIDE DEF F
<1>7. FlattenSeq(F) = <<>>
    BY <1>1, <1>4, <1>5, FlatNothing
<1> QED BY <1>6, <1>7

-----------------------------------------------------------------------------
(* A request that goes on from an earlier one keeps it.                      *)
LEMMA GoingOnKeeps ==
    ASSUME api.protocol # AnthropicName, NEW earlier, NEW later, NEW more,
           GoesOn(later.messages, earlier.messages, more), earlier.messages # <<>>,
           later.system = earlier.system, earlier.in_place => later.tools = earlier.tools
    PROVE  KeepsPrefix(earlier, later)
<1> DEFINE a == earlier.messages
           b == later.messages
           n == Len(a)
<1>1. IsSequence(a) /\ IsSequence(more) /\ b = a \o more /\ a # <<>>
    BY DEF GoesOn
<1> HIDE DEF a, b
<1>2. /\ n \in Nat /\ Len(more) \in Nat /\ Len(b) = n + Len(more)
      /\ \A m \in 1..n : b[m] = a[m]
    BY <1>1, JoinedPlaces
<1>3. n # 0
    <2>1. a \in Seq(ToSet(a))
        BY <1>1 DEF IsSequence
    <2> QED BY <1>1, <2>1, EmptySeq
<1>4. \A message : Unmark(message) = message
    BY DEF Unmark
<1>5. \A m \in 1..n : Unmark(b[m]) = Unmark(a[m])
    BY <1>2, <1>4
<1>6. n \in 1..n /\ (n - 1) + 1 = n /\ \A m \in 1..n - 1 : m \in 1..n
    BY <1>2, <1>3
<1>7. Continues(Unmark(b[n]), Unmark(a[n]))
    BY <1>5, <1>6 DEF Continues
<1>8. Len(b) >= n
    BY <1>2
<1>9. \A m \in 1..n - 1 : Unmark(b[m]) = Unmark(a[m])
    BY <1>5, <1>6
<1> HIDE DEF n
<1> QED BY <1>7, <1>8, <1>9 DEF KeepsPrefix, a, b, n

(* So does a Responses request that is placed as the earlier one.            *)
LEMMA ResponsesKept ==
    ASSUME api.protocol = ResponsesName, NEW bs, IsContext(bs), NEW k \in 0..Len(bs), NEW additional,
           RenderResponses(Earlier(bs, k), additional).ok, RenderResponses(bs, additional).ok,
           RenderResponses(Earlier(bs, k), additional).in_place = RenderResponses(bs, additional).in_place
    PROVE  KeepsPrefix(RenderResponses(Earlier(bs, k), additional), RenderResponses(bs, additional))
<1> DEFINE early == Earlier(bs, k)
           placement == IF additional THEN "ResponsesAdditive" ELSE "Fold"
           p == PlanTools(early, placement)
           q == PlanTools(bs, placement)
           earlier == RenderResponses(early, additional)
           later == RenderResponses(bs, additional)
           u == Normalize(early, ResponsesName, p.in_place)
           v == Normalize(bs, ResponsesName, q.in_place)
<1>1. /\ ValidateFrame(early) /\ ResponsesItems(u) # <<>>
      /\ earlier = ResponsesBody(p, u, ResponsesItems(u))
    <2> DEFINE Answer(ok, items) == IF ~ok THEN [ok |-> FALSE] ELSE IF items = <<>> THEN [ok |-> FALSE]
                                    ELSE ResponsesBody(p, u, items)
    <2>1. earlier = Answer(ValidateFrame(early), ResponsesItems(u))
        BY DEF RenderResponses, ResponsesItems
    <2>2. earlier.ok
        OBVIOUS
    <2> HIDE DEF earlier, u, p
    <2> QED BY <2>1, <2>2
<1>2. /\ ValidateFrame(bs) /\ ResponsesItems(v) # <<>>
      /\ later = ResponsesBody(q, v, ResponsesItems(v))
    <2> DEFINE Answer(ok, items) == IF ~ok THEN [ok |-> FALSE] ELSE IF items = <<>> THEN [ok |-> FALSE]
                                    ELSE ResponsesBody(q, v, items)
    <2>1. later = Answer(ValidateFrame(bs), ResponsesItems(v))
        BY DEF RenderResponses, ResponsesItems
    <2>2. later.ok
        OBVIOUS
    <2> HIDE DEF later, v, q
    <2> QED BY <2>1, <2>2
<1>e. earlier.in_place = later.in_place
    OBVIOUS
<1>h. KeepsPrefix(earlier, later) => KeepsPrefix(RenderResponses(Earlier(bs, k), additional), RenderResponses(bs, additional))
    OBVIOUS
<1>3. /\ p.in_place \in BOOLEAN /\ q.in_place \in BOOLEAN
      /\ p.in_place /\ q.in_place => p.tools = q.tools
    BY PlanKept
<1> HIDE DEF earlier, later, p, q, u, v
<1>4. /\ earlier.in_place = p.in_place /\ later.in_place = q.in_place
      /\ earlier.tools = p.tools /\ later.tools = q.tools
      /\ earlier.system = LeadingTexts(u) /\ later.system = LeadingTexts(v)
      /\ earlier.messages = ResponsesItems(u) /\ later.messages = ResponsesItems(v)
    BY <1>1, <1>2 DEF ResponsesBody, Body
<1>5. p.in_place = q.in_place
    BY <1>e, <1>4
<1>6. /\ AreSegments(u, ResponsesName) /\ UpTo(u, k) /\ Placeable(u, q.in_place)
      /\ \E rest : Since(rest, k, ResponsesName, q.in_place) /\ v = u \o rest
    <2> DEFINE w == Normalize(early, ResponsesName, q.in_place)
    <2>1. u = w
        BY <1>5 DEF u
    <2>2. ValidateFrame(bs) /\ ValidateFrame(Earlier(bs, k))
        BY <1>1, <1>2
    <2>3. /\ AreSegments(w, ResponsesName) /\ UpTo(w, k) /\ Placeable(w, q.in_place)
          /\ \E rest : Since(rest, k, ResponsesName, q.in_place) /\ Normalize(bs, ResponsesName, q.in_place) = w \o rest
        <3> DEFINE inPlace == q.in_place
        <3> HIDE DEF inPlace
        <3>1. LET x == Normalize(Earlier(bs, k), ResponsesName, inPlace)
              IN  /\ AreSegments(x, ResponsesName) /\ UpTo(x, k) /\ Placeable(x, inPlace)
                  /\ \E rest : Since(rest, k, ResponsesName, inPlace) /\ Normalize(bs, ResponsesName, inPlace) = x \o rest
            BY <2>2, NormalizeSplits
        <3> QED BY <3>1 DEF inPlace
    <2> HIDE DEF w
    <2> QED BY <2>1, <2>3 DEF v
<1>7. PICK rest : Since(rest, k, ResponsesName, q.in_place) /\ v = u \o rest
    BY <1>6
<1>8. Parted(u, rest, k, ResponsesName)
    BY <1>6, <1>7 DEF Parted, Since
<1>9. LeadingSystemLen(u) # Len(u)
    BY <1>1, <1>6, ItemsAfterPreamble
<1>10. IsSequence(u) /\ IsSequence(rest)
    BY <1>8 DEF Parted, AreSegments
<1>11. LeadingSystemLen(v) = LeadingSystemLen(u) /\ LeadingTexts(v) = LeadingTexts(u)
    <2>1. LeadingSystemLen(u \o rest) = LeadingSystemLen(u) /\ LeadingTexts(u \o rest) = LeadingTexts(u)
        BY <1>9, <1>10, LeadingKept
    <2> QED BY <1>7, <2>1, Zenon
<1>12. /\ IsSequence(ResponsesItems(u))
       /\ \E more : IsSequence(more) /\ ResponsesItems(v) = ResponsesItems(u) \o more
    <2>1. LeadingSystemLen(u \o rest) = LeadingSystemLen(u)
        BY <1>7, <1>11, Zenon
    <2>2. /\ IsSequence(ResponsesItems(u))
          /\ \E more : IsSequence(more) /\ ResponsesItems(u \o rest) = ResponsesItems(u) \o more
        BY <1>8, <2>1, InputKept
    <2> QED BY <1>7, <2>2, Zenon
<1>13. PICK more : IsSequence(more) /\ ResponsesItems(v) = ResponsesItems(u) \o more
    BY <1>12
<1>14. GoesOn(later.messages, earlier.messages, more)
    BY <1>4, <1>12, <1>13 DEF GoesOn
<1>15. earlier.in_place => later.tools = earlier.tools
    BY <1>3, <1>4, <1>5
<1>16. api.protocol # AnthropicName
    BY DEF ResponsesName, AnthropicName
<1>17. KeepsPrefix(earlier, later)
    BY <1>1, <1>4, <1>11, <1>14, <1>15, <1>16, GoingOnKeeps
<1> QED BY <1>h, <1>17

-----------------------------------------------------------------------------
(* The rendering of a chat conversation after each of its segments.          *)
AddChain(g, base, v, replay) ==
    g[0] = base /\ \A k \in 1..Len(v) : g[k] = AddSegment(g[k - 1], v, k, replay)

(* The fold over the first n segments, as TLA+ defines it.                   *)
Adds(f, base, v, n, replay) ==
    f = [s \in SUBSET (1..n) |->
           IF s = {} THEN base ELSE AddSegment(f[s \ {Max(s)}], v, Max(s), replay)]

(* There is one.                                                             *)
LEMMA AddsExists ==
    ASSUME NEW base, NEW v, NEW n \in Nat, NEW replay
    PROVE  \E f : Adds(f, base, v, n, replay)
<1> DEFINE S == {m \in 0..n : \E f : Adds(f, base, v, m, replay)}
           Next_(x, k) == AddSegment(x, v, k, replay)
<1>0. \A f, m : Adds(f, base, v, m, replay) <=>
          f = [s \in SUBSET (1..m) |-> IF s = {} THEN base ELSE Next_(f[s \ {Max(s)}], Max(s))]
    BY DEF Adds
<1> HIDE DEF Next_
<1>1. 0 \in S
    <2> DEFINE f == [s \in SUBSET (1..0) |-> base]
    <2>1. \A s \in SUBSET (1..0) : s = {}
        OBVIOUS
    <2>2. f = [s \in SUBSET (1..0) |-> IF s = {} THEN base ELSE Next_(f[s \ {Max(s)}], Max(s))]
        BY <2>1
    <2> HIDE DEF f
    <2>3. Adds(f, base, v, 0, replay) /\ 0 \in 0..n
        <3>1. 0 \in 0..n
            OBVIOUS
        <3> QED BY <2>2, <3>1, Zenon DEF Adds, Next_
    <2> QED BY <2>3
<1>2. ASSUME NEW m \in 1..n, m - 1 \in S PROVE m \in S
    <2>1. PICK f : Adds(f, base, v, m - 1, replay)
        BY <1>2
    <2> DEFINE h == [s \in SUBSET (1..m) |-> IF m \in s THEN Next_(f[s \ {m}], m) ELSE f[s]]
    <2>2. \A s \in SUBSET (1..(m - 1)) : f[s] = IF s = {} THEN base ELSE Next_(f[s \ {Max(s)}], Max(s))
        BY <1>0, <2>1
    <2>3. \A s \in SUBSET (1..m) : m \notin s => s \in SUBSET (1..(m - 1)) /\ h[s] = f[s]
        OBVIOUS
    <2>4. ASSUME NEW s \in SUBSET (1..m)
          PROVE  h[s] = IF s = {} THEN base ELSE Next_(h[s \ {Max(s)}], Max(s))
        <3>1. CASE m \in s
            <4>1. Max(s) = m
                <5>1. m \in Nat /\ s # {}
                    BY <3>1
                <5>2. Max(s) \in s /\ \A y \in s : Max(s) >= y
                    BY <5>1, MaxIn
                <5>3. Max(s) \in 1..m /\ Max(s) >= m
                    BY <3>1, <5>2
                <5> QED BY <5>3
            <4>2. s \ {m} \in SUBSET (1..m) /\ m \notin s \ {m}
                OBVIOUS
            <4>3. h[s \ {m}] = f[s \ {m}]
                BY <2>3, <4>2
            <4> QED BY <3>1, <4>1, <4>3
        <3>2. CASE m \notin s
            <4>1. s \in SUBSET (1..(m - 1)) /\ h[s] = f[s]
                BY <2>3, <3>2
            <4>2. s \ {Max(s)} \in SUBSET (1..m) /\ m \notin s \ {Max(s)}
                BY <3>2
            <4>3. h[s \ {Max(s)}] = f[s \ {Max(s)}]
                BY <2>3, <4>2
            <4> QED BY <2>2, <4>1, <4>3
        <3> QED BY <3>1, <3>2
    <2>5. h = [s \in SUBSET (1..m) |-> h[s]]
        OBVIOUS
    <2> HIDE DEF h
    <2>6. h = [s \in SUBSET (1..m) |-> IF s = {} THEN base ELSE Next_(h[s \ {Max(s)}], Max(s))]
        BY <2>4, <2>5
    <2>7. Adds(h, base, v, m, replay) /\ m \in 0..n
        <3>1. m \in 0..n
            OBVIOUS
        <3> QED BY <2>6, <3>1, Zenon DEF Adds, Next_
    <2> QED BY <2>7
<1> HIDE DEF S
<1>3. n \in S
    BY <1>1, <1>2, Upward
<1> QED BY <1>3 DEF S

(* All of its segments, from a rendering on.                                 *)
AddAll(base, v, replay) == FoldLeftDomain(LAMBDA at, i : AddSegment(at, v, i, replay), base, v)

(* What a chat conversation is rendered to is the last of such renderings.   *)
LEMMA AddsChain ==
    ASSUME NEW base, NEW v, IsSequence(v), NEW replay
    PROVE  \E g : /\ AddChain(g, base, v, replay)
                  /\ AddAll(base, v, replay) = g[Len(v)]
<1> DEFINE n == Len(v)
           index == [i \in DOMAIN v |-> i]
           IsIter(f) == f = [s \in SUBSET DOMAIN index |->
                               IF s = {} THEN base
                               ELSE AddSegment(f[s \ {Max(s)}], v, index[Max(s)], replay)]
           iter == CHOOSE f : IsIter(f)
           g == [k \in 0..n |-> iter[1..k]]
<1>1. n \in Nat /\ DOMAIN v = 1..n
    BY Elements
<1>2. AddAll(base, v, replay) = iter[DOMAIN index]
    BY Zenon DEF AddAll, FoldLeftDomain, FoldLeft, MapThenFoldSet
<1> HIDE DEF n
<1>3. DOMAIN index = 1..n /\ \A i \in 1..n : index[i] = i
    BY <1>1
<1> HIDE DEF index
<1>4. \E f : IsIter(f)
    <2>1. PICK f : Adds(f, base, v, n, replay)
        BY <1>1, AddsExists
    <2> DEFINE Step(x, k) == AddSegment(x, v, k, replay)
    <2>2. f = [s \in SUBSET (1..n) |-> IF s = {} THEN base ELSE Step(f[s \ {Max(s)}], Max(s))]
        BY <2>1 DEF Adds
    <2>3. ASSUME NEW s \in SUBSET (1..n) PROVE s # {} => index[Max(s)] = Max(s)
        BY <1>1, <1>3, MaxIn
    <2>5. IsIter(f) <=> f = [s \in SUBSET DOMAIN index |-> IF s = {} THEN base
                                                         ELSE Step(f[s \ {Max(s)}], index[Max(s)])]
        OBVIOUS
    <2> HIDE DEF Step, IsIter
    <2>4. f = [s \in SUBSET (1..n) |-> IF s = {} THEN base ELSE Step(f[s \ {Max(s)}], index[Max(s)])]
        BY <2>2, <2>3
    <2> QED BY <1>3, <2>4, <2>5
<1>5. IsIter(iter)
    BY <1>4, Zenon
<1> HIDE DEF iter
<1>6. \A s \in SUBSET (1..n) :
          iter[s] = IF s = {} THEN base ELSE AddSegment(iter[s \ {Max(s)}], v, index[Max(s)], replay)
    BY <1>3, <1>5
<1>7. g[0] = base
    <2>1. 1..0 = {} /\ 0 \in 0..n
        BY <1>1
    <2>2. g[0] = iter[{}]
        BY <2>1
    <2>3. iter[{}] = base
        <3>1. {} \in SUBSET (1..n)
            OBVIOUS
        <3> HIDE DEF g
        <3> QED BY <1>6, <3>1, Zenon
    <2> QED BY <2>2, <2>3
<1>8. ASSUME NEW k \in 1..n PROVE g[k] = AddSegment(g[k - 1], v, k, replay)
    <2>1. Max(1..k) = k /\ (1..k) \ {k} = 1..(k - 1)
        BY <1>1, MaxUpTo
    <2>2. g[k] = iter[1..k] /\ g[k - 1] = iter[1..(k - 1)]
        BY <1>1
    <2>3. 1..k \in SUBSET (1..n) /\ 1..k # {}
        <3>1. k \in 1..k /\ \A j \in 1..k : j \in 1..n
            BY <1>1
        <3> QED BY <3>1
    <2>4. iter[1..k] = AddSegment(iter[(1..k) \ {Max(1..k)}], v, index[Max(1..k)], replay)
        BY <1>6, <2>3
    <2>5. index[Max(1..k)] = k
        BY <1>3, <2>1
    <2> QED BY <2>1, <2>2, <2>4, <2>5, Zenon
<1>9. g[n] = iter[1..n]
    BY <1>1
<1> HIDE DEF g
<1>10. AddChain(g, base, v, replay)
    BY <1>7, <1>8 DEF AddChain, n
<1> QED BY <1>2, <1>3, <1>9, <1>10 DEF n

-----------------------------------------------------------------------------
(* b is a, and what may follow.                                              *)
Onward(b, a) == \E more : GoesOn(b, a, more)

(* A sequence and what is added to it.                                       *)
LEMMA OnwardOne ==
    ASSUME NEW a, IsSequence(a), NEW more, IsSequence(more)
    PROVE  Onward(a \o more, a) /\ IsSequence(a \o more)
<1>1. IsSequence(a \o more)
    BY JoinedPlaces
<1>2. GoesOn(a \o more, a, more)
    BY Zenon DEF GoesOn
<1> QED BY <1>1, <1>2, Zenon DEF Onward

(* Nothing may follow.                                                       *)
LEMMA OnwardSelf == ASSUME NEW a, IsSequence(a) PROVE Onward(a, a)
<1>1. IsSequence(<<>>)
    BY Single
<1>2. a \in Seq(ToSet(a))
    BY DEF IsSequence
<1>3. a \o <<>> = a
    BY <1>2, ConcatEmptySeq
<1>4. GoesOn(a, a, <<>>)
    BY <1>1, <1>3 DEF GoesOn
<1> QED BY <1>4 DEF Onward

(* What goes on from what goes on.                                           *)
LEMMA OnwardOn ==
    ASSUME NEW a, NEW b, NEW c, Onward(b, a), Onward(c, b)
    PROVE  Onward(c, a)
<1>1. PICK m : GoesOn(b, a, m)
    BY DEF Onward
<1>2. PICK n : GoesOn(c, b, n)
    BY DEF Onward
<1>3. /\ IsSequence(a) /\ IsSequence(m) /\ IsSequence(n) /\ b = a \o m
      /\ c = b \o n
    BY <1>1, <1>2 DEF GoesOn
<1> DEFINE A == ToSet(a)
           M == ToSet(m)
           N == ToSet(n)
           V == A \cup M \cup N
<1>4. a \in Seq(A) /\ m \in Seq(M) /\ n \in Seq(N) /\ A \subseteq V /\ M \subseteq V /\ N \subseteq V
    BY <1>3 DEF IsSequence
<1> HIDE DEF A, M, N, V
<1>5. a \in Seq(V) /\ m \in Seq(V) /\ n \in Seq(V)
    BY <1>4
<1>6. (a \o m) \o n = a \o (m \o n)
    BY <1>5, ConcatAssociative
<1>7. IsSequence(m \o n)
    BY <1>3, JoinedPlaces
<1>8. c = a \o (m \o n)
    BY <1>3, <1>6
<1>9. GoesOn(c, a, m \o n)
    BY <1>3, <1>7, <1>8 DEF GoesOn
<1> QED BY <1>9, Zenon DEF Onward

-----------------------------------------------------------------------------
(* A rendering of a chat conversation.                                       *)
ChatState(at) ==
    /\ at = [field \in {"messages", "run", "media"} |-> at[field]]
    /\ IsSequence(at.messages) /\ IsSequence(at.media)

(* The assistant's message, if a run has anything to say.                    *)
LEMMA RunMessage ==
    /\ AssistantMessage(NoRun) = <<>>
    /\ \A run : IsSequence(AssistantMessage(run))
<1>1. AssistantMessage(NoRun) = <<>>
    <2> DEFINE message == Over([role |-> "assistant"], Over(<< >>, Over(<< >>, << >>)))
    <2>1. \A key \in DOMAIN message : key = "role"
        BY DEF Over
    <2>2. {"content", "tool_calls"} \cap DOMAIN message = {}
        BY <2>1
    <2>3. /\ NoRun.sealed = <<>> /\ NoRun.text = <<>> /\ NoRun.calls = <<>>
        BY DEF NoRun
    <2> DEFINE Say(m) == IF {"content", "tool_calls"} \cap DOMAIN m = {} THEN <<>> ELSE <<m>>
    <2>4. AssistantMessage(NoRun) = Say(message)
        BY <2>3 DEF AssistantMessage
    <2> HIDE DEF message
    <2> QED BY <2>2, <2>4
<1>2. ASSUME NEW run PROVE IsSequence(AssistantMessage(run))
    <2> DEFINE message ==
                 Over([role |-> "assistant"],
                      Over(IF run.calls = <<>> THEN << >> ELSE [tool_calls |-> run.calls],
                           Over(IF run.text = <<>> THEN << >> ELSE [content |-> [str |-> run.text]],
                                IF run.sealed = <<>> THEN << >> ELSE run.sealed[1])))
               Say(m) == IF {"content", "tool_calls"} \cap DOMAIN m = {} THEN <<>> ELSE <<m>>
    <2>1. AssistantMessage(run) = Say(message)
        BY Zenon DEF AssistantMessage
    <2> HIDE DEF message
    <2>2. IsSequence(<<message>>) /\ IsSequence(<<>>)
        BY Single
    <2> QED BY <2>1, <2>2
<1> QED BY <1>1, <1>2

(* Closing a run sends its message.                                          *)
LEMMA ClosedRun ==
    ASSUME NEW at, ChatState(at)
    PROVE  /\ ChatState(CloseRun(at)) /\ CloseRun(at).run = NoRun /\ CloseRun(at).media = at.media
           /\ CloseRun(at).messages = at.messages \o AssistantMessage(at.run)
           /\ Onward(CloseRun(at).messages, at.messages)
<1> DEFINE more == AssistantMessage(at.run)
           longer == at.messages \o more
           x == CloseRun(at)
<1>1. IsSequence(longer) /\ Onward(longer, at.messages)
    BY RunMessage, OnwardOne DEF ChatState
<1>2. x = [at EXCEPT !.messages = longer, !.run = NoRun]
    BY DEF CloseRun
<1> HIDE DEF longer, x
<1>3. /\ x = [field \in {"messages", "run", "media"} |-> x[field]]
      /\ x.messages = longer /\ x.run = NoRun /\ x.media = at.media
    BY <1>2 DEF ChatState
<1> QED BY <1>1, <1>3 DEF ChatState, x, longer

(* The media that waited are sent after the messages.                        *)
LEMMA MediaPut ==
    ASSUME NEW at, ChatState(at)
    PROVE  /\ ChatState(PutMedia(at)) /\ PutMedia(at).run = at.run /\ PutMedia(at).media = <<>>
           /\ PutMedia(at).messages = at.messages \o at.media
           /\ Onward(PutMedia(at).messages, at.messages)
<1> DEFINE longer == at.messages \o at.media
           x == PutMedia(at)
<1>1. IsSequence(longer) /\ Onward(longer, at.messages)
    BY OnwardOne DEF ChatState
<1>2. x = [at EXCEPT !.messages = longer, !.media = <<>>]
    BY DEF PutMedia
<1> HIDE DEF longer, x
<1>3. /\ x = [field \in {"messages", "run", "media"} |-> x[field]]
      /\ x.messages = longer /\ x.run = at.run /\ x.media = <<>>
    BY <1>2 DEF ChatState
<1>4. IsSequence(<<>>)
    BY Single
<1> QED BY <1>1, <1>3, <1>4 DEF ChatState, x, longer

(* A message sent closes the run before it.                                  *)
LEMMA Sent ==
    ASSUME NEW at, ChatState(at), NEW message
    PROVE  /\ ChatState(Send(at, <<message>>)) /\ Send(at, <<message>>).run = NoRun
           /\ Send(at, <<message>>).media = at.media
           /\ Onward(Send(at, <<message>>).messages, at.messages)
<1> DEFINE y == CloseRun(at)
           longer == y.messages \o <<message>>
           x == Send(at, <<message>>)
<1>1. /\ ChatState(y) /\ y.run = NoRun /\ y.media = at.media /\ Onward(y.messages, at.messages)
    BY ClosedRun
<1>2. x = [y EXCEPT !.messages = longer]
    BY DEF Send
<1> HIDE DEF y
<1>3. IsSequence(longer) /\ Onward(longer, y.messages)
    BY <1>1, OnwardOne, Single DEF ChatState
<1> HIDE DEF longer, x
<1>4. /\ x = [field \in {"messages", "run", "media"} |-> x[field]]
      /\ x.messages = longer /\ x.run = NoRun /\ x.media = at.media
    BY <1>1, <1>2 DEF ChatState
<1>5. IsSequence(x.media)
    BY <1>4 DEF ChatState
<1>6. Onward(x.messages, at.messages)
    BY <1>1, <1>3, <1>4, OnwardOn
<1> QED BY <1>3, <1>4, <1>5, <1>6 DEF ChatState, x

(* A result is sent as a message of the tool; its media wait.                *)
LEMMA ResultAdded ==
    ASSUME NEW at, ChatState(at), NEW s
    PROVE  /\ ChatState(AddResult(at, s)) /\ AddResult(at, s).run = NoRun
           /\ Onward(AddResult(at, s).messages, at.messages)
<1> DEFINE y == Send(at, <<ToolMessage(s)>>)
           later == y.media \o HoistedMedia(s)
           x == AddResult(at, s)
<1>1. ChatState(y) /\ y.run = NoRun /\ Onward(y.messages, at.messages)
    BY Sent
<1>2. x = [y EXCEPT !.media = later]
    BY DEF AddResult
<1> HIDE DEF y
<1>3. IsSequence(HoistedMedia(s))
    BY Single DEF HoistedMedia
<1>4. IsSequence(later)
    BY <1>1, <1>3, OnwardOne DEF ChatState
<1> HIDE DEF later, x
<1>5. /\ x = [field \in {"messages", "run", "media"} |-> x[field]]
      /\ x.messages = y.messages /\ x.run = NoRun /\ x.media = later
    BY <1>1, <1>2 DEF ChatState
<1> QED BY <1>1, <1>4, <1>5 DEF ChatState, x

-----------------------------------------------------------------------------
(* x puts together the assistant's message that follows the media of at.     *)
RunGrows(x, at) == ChatState(x) /\ x.media = <<>> /\ x.messages = PutMedia(at).messages

(* x says something after the media of at.                                   *)
SaysMore(x, at) == \E message : x = Send(PutMedia(at), <<message>>)

(* What a segment does to a rendering.                                       *)
Adding(x, at, v, k) ==
    LET s == v[k] IN
    \/ s.seg = "result" /\ x = AddResult(at, s)
    \/ s.seg # "result" /\ SaysMore(x, at)
    \/ s.role = "assistant" /\ RunGrows(x, at)
    \/ s.role = "assistant" /\ s.seg # "call" /\ x = at
    \/ IsUserPart(s) /\ ~StartsUserMessage(v, k) /\ x = at

(* Every segment of a chat conversation is one of these.                     *)
LEMMA AddKinds ==
    ASSUME NEW at, ChatState(at), NEW v, AreSegments(v, ChatName), Placeable(v, FALSE),
           NEW k \in 1..Len(v), NEW replay
    PROVE  Adding(AddSegment(at, v, k, replay), at, v, k)
<1> DEFINE s == v[k]
           x == AddSegment(at, v, k, replay)
           p == PutMedia(at)
<1>1. /\ IsSegment(s, ChatName) /\ s.seg # "change"
      /\ s.seg \in {"sealed", "call"} => s.role = "assistant"
    <2>1. s \in ToSet(v)
        BY Elements DEF AreSegments
    <2> QED BY <2>1 DEF AreSegments, Placeable
<1>2. ChatState(p) /\ p.media = <<>> /\ PutMedia(at) = p
    BY MediaPut
<1> HIDE DEF p
<1>3. CASE s.seg = "result"
    <2>1. x = AddResult(at, s)
        BY <1>3 DEF AddSegment, IsUserPart, IsAssistantText
    <2> QED BY <1>3, <2>1 DEF Adding
<1>4. CASE s.seg = "text" /\ s.role = "system"
    <2> DEFINE m == [role |-> "system", content |-> [str |-> s.text]]
    <2>1. x = Send(p, <<m>>)
        BY <1>4 DEF AddSegment, IsUserPart, IsAssistantText, p
    <2> HIDE DEF x, m
    <2>2. SaysMore(x, at)
        BY <1>2, <2>1 DEF SaysMore
    <2> QED BY <1>4, <2>2 DEF Adding, x
<1>5. CASE IsUserPart(s)
    <2> DEFINE m == UserMessage(UserBlockRun(v, k))
    <2>1. x = IF StartsUserMessage(v, k) THEN Send(p, <<m>>) ELSE at
        BY <1>5 DEF AddSegment, IsUserPart, IsAssistantText, p
    <2> HIDE DEF x, m
    <2>2. CASE StartsUserMessage(v, k)
        <3>1. SaysMore(x, at)
            BY <1>2, <2>1, <2>2 DEF SaysMore
        <3> QED BY <1>5, <3>1 DEF Adding, IsUserPart, x
    <2>3. CASE ~StartsUserMessage(v, k)
        BY <1>5, <2>1, <2>3 DEF Adding, x
    <2> QED BY <2>2, <2>3
<1>6. CASE s.seg = "media" /\ s.role # "user"
    <2> DEFINE m == [role |-> s.role, content |-> [str |-> PlaceholderText]]
    <2>1. x = Send(p, <<m>>)
        BY <1>6 DEF AddSegment, IsUserPart, IsAssistantText, p
    <2> HIDE DEF x, m
    <2>2. SaysMore(x, at)
        BY <1>2, <2>1 DEF SaysMore
    <2> QED BY <1>6, <2>2 DEF Adding, x
<1>7. CASE IsAssistantText(s)
    <2> DEFINE y == [p EXCEPT !.run.text = @ \o s.text]
    <2>1. x = IF IsBlankText(s.text) THEN at ELSE y
        BY <1>7 DEF AddSegment, IsUserPart, IsAssistantText, p
    <2>2. RunGrows(y, at)
        BY <1>2 DEF RunGrows, ChatState
    <2> HIDE DEF x, y
    <2> QED BY <1>7, <2>1, <2>2 DEF Adding, IsAssistantText, x
<1>8. CASE s.seg = "sealed"
    <2> DEFINE kept == IF replay THEN <<s.item>> ELSE WithoutReasoningContent(s.item)
               y == [p EXCEPT !.run.sealed = kept]
    <2>1. x = AddSealed(p, s.item, replay)
        BY <1>8 DEF AddSegment, IsUserPart, IsAssistantText, p
    <2>2. x = y \/ x = p
        BY <2>1 DEF AddSealed
    <2> HIDE DEF kept
    <2>3. RunGrows(y, at) /\ RunGrows(p, at)
        BY <1>2 DEF RunGrows, ChatState
    <2> HIDE DEF x, y
    <2> QED BY <1>1, <1>8, <2>2, <2>3 DEF Adding, x
<1>9. CASE s.seg = "call"
    <2> DEFINE y == [p EXCEPT !.run.calls = Append(@, WireCall(s))]
    <2>1. x = y
        BY <1>9 DEF AddSegment, IsUserPart, IsAssistantText, p
    <2>2. RunGrows(y, at)
        BY <1>2 DEF RunGrows, ChatState
    <2> HIDE DEF x, y
    <2> QED BY <1>1, <1>9, <2>1, <2>2 DEF Adding, x
<1> QED BY <1>1, <1>3, <1>4, <1>5, <1>6, <1>7, <1>8, <1>9 DEF IsSegment, IsUserPart, IsAssistantText

(* Every segment only adds to what was rendered.                             *)
LEMMA AddingGrows ==
    ASSUME NEW x, NEW at, NEW v, NEW k, ChatState(at), Adding(x, at, v, k)
    PROVE  /\ ChatState(x) /\ Onward(x.messages, at.messages)
           /\ SaysMore(x, at) => x.run = NoRun /\ x.media = <<>> /\ Onward(x.messages, PutMedia(at).messages)
<1> DEFINE p == PutMedia(at)
<1>1. ChatState(p) /\ p.media = <<>> /\ Onward(p.messages, at.messages) /\ PutMedia(at) = p
    BY MediaPut
<1> HIDE DEF p
<1>2. ASSUME SaysMore(x, at)
      PROVE  ChatState(x) /\ x.run = NoRun /\ x.media = <<>> /\ Onward(x.messages, p.messages)
    <2>1. PICK message : x = Send(p, <<message>>)
        BY <1>1, <1>2 DEF SaysMore
    <2> QED BY <1>1, <2>1, Sent
<1>3. CASE x = AddResult(at, v[k])
    BY <1>1, <1>2, <1>3, ResultAdded
<1>4. CASE SaysMore(x, at)
    BY <1>1, <1>2, <1>4, OnwardOn
<1>5. CASE RunGrows(x, at)
    BY <1>1, <1>2, <1>5 DEF RunGrows
<1>6. CASE x = at
    BY <1>1, <1>2, <1>6, OnwardSelf DEF ChatState
<1> QED BY <1>3, <1>4, <1>5, <1>6 DEF Adding

(* A rendering that nobody's message is being put together in, and the media *)
(* put after it, or not yet.                                                 *)
LEMMA AddingAfter ==
    ASSUME NEW start, ChatState(start), start.run = NoRun,
           NEW x, NEW at, NEW v, NEW k, ChatState(at), Adding(x, at, v, k),
           Onward(at.messages, PutMedia(start).messages) \/ (at = start /\ v[k].seg # "result")
    PROVE  \/ Onward(x.messages, PutMedia(start).messages)
           \/ x = start /\ v[k].seg # "call"
<1> DEFINE M == PutMedia(start).messages
<1>1. /\ ChatState(x) /\ Onward(x.messages, at.messages)
      /\ SaysMore(x, at) => Onward(x.messages, PutMedia(at).messages)
    BY AddingGrows
<1>2. IsSequence(M) /\ Onward(M, M)
    BY MediaPut, OnwardSelf DEF ChatState
<1> HIDE DEF M
<1>3. CASE Onward(at.messages, M)
    BY <1>1, <1>3, OnwardOn DEF M
<1>4. CASE at = start /\ v[k].seg # "result"
    <2>1. CASE SaysMore(x, at)
        BY <1>1, <1>4, <2>1 DEF M
    <2>2. CASE RunGrows(x, at)
        BY <1>2, <1>4, <2>2 DEF RunGrows, M
    <2>3. CASE x = at /\ v[k].seg # "call"
        BY <1>4, <2>3
    <2> QED BY <1>4, <2>1, <2>2, <2>3 DEF Adding, IsUserPart
<1> QED BY <1>3, <1>4 DEF M

-----------------------------------------------------------------------------
(* Segments before and segments since, together.                             *)
LEMMA PartedWhole ==
    ASSUME NEW protocol, NEW u, NEW r, NEW k, Parted(u, r, k, protocol), NEW inPlace,
           Placeable(u, inPlace), Placeable(r, inPlace)
    PROVE  AreSegments(u \o r, protocol) /\ Placeable(u \o r, inPlace)
<1> DEFINE v == u \o r
           n == Len(v)
<1>1. AreSegments(u, protocol) /\ AreSegments(r, protocol)
    BY DEF Parted
<1>2. /\ IsSequence(v) /\ Len(u) \in Nat /\ Len(r) \in Nat /\ n = Len(u) + Len(r)
      /\ \A i \in 1..Len(u) : v[i] \in ToSet(u)
      /\ \A i \in 1..n : i > Len(u) => v[i] \in ToSet(r)
    <2>1. IsSequence(u) /\ IsSequence(r)
        BY <1>1 DEF AreSegments
    <2> QED BY <2>1, JoinedPlaces
<1> HIDE DEF v
<1>3. ToSet(v) = {v[i] : i \in 1..n}
    BY <1>2, Elements
<1>4. ASSUME NEW i \in 1..n PROVE v[i] \in ToSet(u) \/ v[i] \in ToSet(r)
    <2>1. CASE i <= Len(u)
        <3>1. i \in 1..Len(u)
            BY <1>2, <2>1
        <3> QED BY <1>2, <3>1
    <2>2. CASE ~(i <= Len(u))
        <3>1. i > Len(u)
            BY <1>2, <2>2
        <3> QED BY <1>2, <3>1
    <2> QED BY <2>1, <2>2
<1>5. \A s \in ToSet(v) : s \in ToSet(u) \/ s \in ToSet(r)
    BY <1>3, <1>4
<1>6. AreSegments(v, protocol)
    BY <1>1, <1>2, <1>5 DEF AreSegments
<1>7. Placeable(v, inPlace)
    BY <1>5 DEF Placeable
<1> QED BY <1>6, <1>7 DEF v

(* A segment adds what it added when nothing was said after it.              *)
LEMMA AddKept ==
    ASSUME NEW u, NEW r, NEW k, Parted(u, r, k, ChatName), NEW i \in 1..Len(u), NEW at, NEW replay,
           u[i].seg # "change"
    PROVE  AddSegment(at, u \o r, i, replay) = AddSegment(at, u, i, replay)
<1> DEFINE v == u \o r
           s == u[i]
           p == PutMedia(at)
<1>1. /\ v[i] = s
      /\ IsUserPart(s) => UserBlockRun(v, i) = UserBlockRun(u, i)
      /\ StartsUserMessage(v, i) = StartsUserMessage(u, i)
    BY RunsKept
<1>2. IsSegment(s, ChatName) /\ s.seg # "change"
    <2>1. AreSegments(u, ChatName)
        BY DEF Parted
    <2>2. s \in ToSet(u)
        BY <2>1, Elements DEF AreSegments
    <2> QED BY <2>1, <2>2 DEF AreSegments
<1> HIDE DEF v, s
<1>s. v[i] = s /\ u[i] = s
    BY <1>1 DEF s
<1>3. CASE IsUserPart(s)
    <2> DEFINE Said(starts, run) == IF starts THEN Send(p, <<UserMessage(run)>>) ELSE at
    <2>1. AddSegment(at, v, i, replay) = Said(StartsUserMessage(v, i), UserBlockRun(v, i))
        BY <1>3, <1>s DEF AddSegment, IsUserPart, IsAssistantText
    <2>2. AddSegment(at, u, i, replay) = Said(StartsUserMessage(u, i), UserBlockRun(u, i))
        BY <1>3, <1>s DEF AddSegment, IsUserPart, IsAssistantText
    <2> HIDE DEF Said
    <2> QED BY <1>1, <1>3, <2>1, <2>2 DEF v
<1>4. CASE s.seg = "text" /\ s.role = "system"
    <2>1. \A w : w[i] = s => AddSegment(at, w, i, replay) =
                             Send(p, <<[role |-> "system", content |-> [str |-> s.text]]>>)
        BY <1>4 DEF AddSegment, IsUserPart, IsAssistantText
    <2> HIDE DEF p
    <2> QED BY <1>s, <2>1 DEF v
<1>5. CASE s.seg = "media" /\ s.role # "user"
    <2>1. \A w : w[i] = s => AddSegment(at, w, i, replay) =
                             Send(p, <<[role |-> s.role, content |-> [str |-> PlaceholderText]]>>)
        BY <1>5 DEF AddSegment, IsUserPart, IsAssistantText
    <2> HIDE DEF p
    <2> QED BY <1>s, <2>1 DEF v
<1>6. CASE IsAssistantText(s)
    <2> DEFINE Said == IF IsBlankText(s.text) THEN at ELSE [p EXCEPT !.run.text = @ \o s.text]
    <2>1. \A w : w[i] = s => AddSegment(at, w, i, replay) = Said
        BY <1>6 DEF AddSegment, IsUserPart, IsAssistantText
    <2> HIDE DEF p, Said
    <2> QED BY <1>s, <2>1 DEF v
<1>7. CASE s.seg = "sealed"
    <2>1. \A w : w[i] = s => AddSegment(at, w, i, replay) = AddSealed(p, s.item, replay)
        BY <1>7 DEF AddSegment, IsUserPart, IsAssistantText
    <2> HIDE DEF p
    <2> QED BY <1>s, <2>1 DEF v
<1>8. CASE s.seg = "call"
    <2>1. \A w : w[i] = s => AddSegment(at, w, i, replay) = [p EXCEPT !.run.calls = Append(@, WireCall(s))]
        BY <1>8 DEF AddSegment, IsUserPart, IsAssistantText
    <2> HIDE DEF p
    <2> QED BY <1>s, <2>1 DEF v
<1>9. CASE s.seg = "result"
    <2>1. \A w : w[i] = s => AddSegment(at, w, i, replay) = AddResult(at, s)
        BY <1>9 DEF AddSegment, IsUserPart, IsAssistantText
    <2> QED BY <1>s, <2>1 DEF v
<1> QED BY <1>2, <1>3, <1>4, <1>5, <1>6, <1>7, <1>8, <1>9 DEF IsSegment, IsUserPart, IsAssistantText

(* Where a chat conversation starts.                                         *)
Silence == [messages |-> <<>>, run |-> NoRun, media |-> <<>>]

(* Renderings are states of one, and nobody's message is being put together  *)
(* after what is not the assistant's.                                        *)
LEMMA RenderingsFacts ==
    ASSUME NEW v, AreSegments(v, ChatName), Placeable(v, FALSE), NEW replay,
           NEW g, AddChain(g, Silence, v, replay)
    PROVE  \A k \in 0..Len(v) :
               /\ ChatState(g[k])
               /\ k >= 1 => Adding(g[k], g[k - 1], v, k)
               /\ k >= 1 /\ v[k].role # "assistant" => g[k].run = NoRun
<1> DEFINE n == Len(v)
           Fine(k) == /\ ChatState(g[k])
                      /\ k >= 1 => Adding(g[k], g[k - 1], v, k)
                      /\ k >= 1 /\ v[k].role # "assistant" => g[k].run = NoRun
           T == {k \in 0..n : Fine(k)}
<1>1. n \in Nat /\ g[0] = Silence /\ \A k \in 1..n : g[k] = AddSegment(g[k - 1], v, k, replay)
    BY Elements DEF AreSegments, AddChain
<1>2. 0 \in T
    <2>1. ChatState(Silence)
        <3>1. Silence = [field \in {"messages", "run", "media"} |-> Silence[field]]
            BY DEF Silence
        <3> QED BY <3>1, Single DEF ChatState, Silence
    <2>2. ~(0 >= 1) /\ 0 \in 0..n
        BY <1>1
    <2> QED BY <1>1, <2>1, <2>2
<1>3. ASSUME NEW k \in 1..n, k - 1 \in T PROVE k \in T
    <2>1. Fine(k - 1)
        BY <1>3
    <2> DEFINE at == g[k - 1]
               x == g[k]
    <2>2. ChatState(at) /\ (k - 1 >= 1 /\ v[k - 1].role # "assistant" => at.run = NoRun)
        BY <2>1
    <2>3. x = AddSegment(at, v, k, replay)
        BY <1>1
    <2> HIDE DEF at, x
    <2>4. Adding(x, at, v, k)
        BY <2>2, <2>3, AddKinds
    <2>5. ChatState(x) /\ (SaysMore(x, at) => x.run = NoRun)
        BY <2>2, <2>4, AddingGrows
    <2>6. ASSUME v[k].role # "assistant" PROVE x.run = NoRun
        <3>1. CASE x = AddResult(at, v[k])
            BY <2>2, <3>1, ResultAdded
        <3>2. CASE SaysMore(x, at)
            BY <2>5, <3>2
        <3>3. CASE IsUserPart(v[k]) /\ ~StartsUserMessage(v, k) /\ x = at
            <4>1. k # 1 /\ SameUserBlock(v, k - 1, k)
                BY <3>3 DEF StartsUserMessage
            <4>2. v[k - 1].role # "assistant"
                BY <4>1 DEF SameUserBlock, IsUserPart
            <4>3. k - 1 >= 1
                BY <4>1
            <4> QED BY <2>2, <3>3, <4>2, <4>3
        <3> QED BY <2>4, <2>6, <3>1, <3>2, <3>3 DEF Adding
    <2>7. k \in 0..n
        BY <1>1
    <2>8. Fine(k)
        BY <2>4, <2>5, <2>6 DEF at, x
    <2> HIDE DEF Fine
    <2> QED BY <2>7, <2>8
<1>4. \A k \in 0..n : k \in T
    <2> HIDE DEF T
    <2> QED BY <1>1, <1>2, <1>3, Upward
<1> QED BY <1>4

-----------------------------------------------------------------------------
(* Nothing is put together and nothing waits: all there is has been said.    *)
Finished(at) == PutMedia(CloseRun(at)).messages

(* What there is to say goes on from what was said.                          *)
LEMMA FinishedFacts ==
    ASSUME NEW at, ChatState(at)
    PROVE  /\ IsSequence(Finished(at)) /\ Onward(Finished(at), at.messages)
           /\ at.run = NoRun => Finished(at) = PutMedia(at).messages
<1> DEFINE c == CloseRun(at)
           p == PutMedia(c)
<1>1. /\ ChatState(c) /\ c.media = at.media /\ Onward(c.messages, at.messages)
      /\ c.messages = at.messages \o AssistantMessage(at.run)
    BY ClosedRun
<1> HIDE DEF c
<1>2. ChatState(p) /\ Onward(p.messages, c.messages) /\ p.messages = c.messages \o c.media
    BY <1>1, MediaPut
<1> HIDE DEF p
<1>3. Finished(at) = p.messages
    BY Zenon DEF Finished, p, c
<1>4. Onward(p.messages, at.messages)
    BY <1>1, <1>2, OnwardOn
<1>5. ASSUME at.run = NoRun PROVE p.messages = PutMedia(at).messages
    <2>1. c.messages = at.messages \o <<>>
        BY <1>1, <1>5, RunMessage, Zenon
    <2>2. at.messages \in Seq(ToSet(at.messages))
        BY DEF ChatState, IsSequence
    <2>3. at.messages \o <<>> = at.messages
        BY <2>2, ConcatEmptySeq
    <2>4. PutMedia(at).messages = at.messages \o at.media
        BY MediaPut
    <2> QED BY <1>1, <1>2, <2>1, <2>3, <2>4, Zenon
<1> QED BY <1>2, <1>3, <1>4, <1>5 DEF ChatState

(* A chat conversation in which something was asked goes on from there.      *)
LEMMA ChatGoesOn ==
    ASSUME NEW u, NEW r, NEW k, Parted(u, r, k, ChatName), Placeable(u, FALSE), Placeable(r, FALSE),
           CallsFirst(r), u # <<>>, Last(u).role # "assistant", NEW replay
    PROVE  Onward(ChatConversation(u \o r, replay), ChatConversation(u, replay))
<1> DEFINE v == u \o r
           l == Len(u)
           n == Len(v)
<1>1. AreSegments(v, ChatName) /\ Placeable(v, FALSE)
    BY PartedWhole
<1>2. /\ l \in Nat /\ Len(r) \in Nat /\ n = l + Len(r)
      /\ \A i \in 1..l : v[i] = u[i] /\ u[i] \in ToSet(u)
      /\ \A i \in 1..n : i > l => i - l \in 1..Len(r) /\ v[i] = r[i - l]
    BY JoinedPlaces DEF Parted, AreSegments
<1>3. AreSegments(u, ChatName) /\ u # <<>> /\ u[l].role # "assistant"
    BY DEF Parted, Last
<1>4. l >= 1
    <2>1. u \in Seq(ToSet(u))
        BY <1>3 DEF AreSegments, IsSequence
    <2>2. Len(u) # 0
        BY <1>3, <2>1, EmptySeq
    <2> QED BY <1>2, <2>2
<1>5. ASSUME NEW i \in 1..l, NEW at PROVE AddSegment(at, v, i, replay) = AddSegment(at, u, i, replay)
    <2>1. u[i].seg # "change"
        BY <1>2 DEF Placeable
    <2> QED BY <2>1, AddKept
<1>6. PICK g : AddChain(g, Silence, u, replay) /\ AddAll(Silence, u, replay) = g[l]
    BY <1>3, AddsChain DEF AreSegments
<1> HIDE DEF v
<1>7. PICK h : AddChain(h, Silence, v, replay) /\ AddAll(Silence, v, replay) = h[n]
    BY <1>1, AddsChain DEF AreSegments
<1>8. ChatConversation(u, replay) = Finished(g[l]) /\ ChatConversation(v, replay) = Finished(h[n])
    BY <1>6, <1>7, Zenon DEF ChatConversation, Finished, AddAll, Silence
<1>9. \A i \in 0..l : h[i] = g[i]
    <2> DEFINE T == {i \in 0..l : h[i] = g[i]}
    <2>1. 0 \in T
        BY <1>2, <1>6, <1>7 DEF AddChain
    <2>2. ASSUME NEW i \in 1..l, i - 1 \in T PROVE i \in T
        <3>1. h[i] = AddSegment(h[i - 1], v, i, replay) /\ g[i] = AddSegment(g[i - 1], u, i, replay)
            <4>1. i \in 1..n
                BY <1>2
            <4> QED BY <1>6, <1>7, <4>1 DEF AddChain
        <3>2. h[i - 1] = g[i - 1]
            BY <2>2
        <3>3. i \in 0..l
            BY <1>2
        <3> QED BY <1>5, <3>1, <3>2, <3>3
    <2> HIDE DEF T
    <2>3. \A i \in 0..l : i \in T
        BY <1>2, <2>1, <2>2, Upward
    <2> QED BY <2>3 DEF T
<1> DEFINE start == g[l]
           M == PutMedia(start).messages
<1>10. ChatState(start) /\ start.run = NoRun
    <2>1. l \in 0..l
        BY <1>2
    <2> QED BY <1>3, <1>4, <1>6, <2>1, RenderingsFacts
<1>11. \A i \in 0..n : ChatState(h[i]) /\ (i >= 1 => Adding(h[i], h[i - 1], v, i))
    BY <1>1, <1>7, RenderingsFacts
<1>12. h[l] = start
    BY <1>2, <1>9
<1> HIDE DEF start
<1> DEFINE Fine(q) == \/ Onward(h[l + q].messages, M)
                      \/ h[l + q] = start /\ \A i \in 1..q : r[i].seg # "call"
           T == {q \in 0..Len(r) : Fine(q)}
<1>13. 0 \in T
    <2>1. l + 0 = l /\ 0 \in 0..Len(r) /\ 1..0 = {}
        BY <1>2
    <2> QED BY <1>12, <2>1
<1>14. ASSUME NEW q \in 1..Len(r), q - 1 \in T PROVE q \in T
    <2> DEFINE i == l + q
    <2>1. /\ i \in 1..n /\ i > l /\ i - l = q /\ i - 1 = l + (q - 1) /\ i - 1 \in 0..n /\ i \in 0..n /\ i >= 1
          /\ q \in 0..Len(r)
        BY <1>2
    <2>2. v[i] = r[q]
        BY <1>2, <2>1
    <2>3. Fine(q - 1)
        BY <1>14
    <2> HIDE DEF i
    <2> DEFINE at == h[i - 1]
               x == h[i]
    <2>4. Onward(at.messages, M) \/ (at = start /\ \A j \in 1..(q - 1) : r[j].seg # "call")
        BY <2>1, <2>3
    <2>5. ChatState(at) /\ Adding(x, at, v, i)
        BY <1>11, <2>1
    <2>6. (\A j \in 1..(q - 1) : r[j].seg # "call") => v[i].seg # "result"
        BY <2>2 DEF CallsFirst
    <2> HIDE DEF at, x, M
    <2>7. Onward(x.messages, M) \/ (x = start /\ v[i].seg # "call")
        <3>1. Onward(at.messages, M) \/ (at = start /\ v[i].seg # "result")
            BY <2>4, <2>6
        <3> QED BY <1>10, <2>5, <3>1, AddingAfter DEF M
    <2>8. Onward(x.messages, M) \/ (x = start /\ \A j \in 1..q : r[j].seg # "call")
        <3>1. CASE Onward(at.messages, M)
            <4>1. Onward(x.messages, at.messages)
                BY <2>5, AddingGrows
            <4> QED BY <3>1, <4>1, OnwardOn
        <3>2. CASE at = start /\ \A j \in 1..(q - 1) : r[j].seg # "call"
            BY <2>2, <2>7, <3>2
        <3> QED BY <2>4, <3>1, <3>2
    <2>9. Fine(q)
        BY <2>8 DEF x, i
    <2> HIDE DEF Fine
    <2> QED BY <2>1, <2>9
<1>15. Fine(Len(r))
    <2> HIDE DEF T
    <2>1. \A q \in 0..Len(r) : q \in T
        BY <1>2, <1>13, <1>14, Upward
    <2>2. Len(r) \in T
        BY <1>2, <2>1
    <2> HIDE DEF Fine
    <2> QED BY <2>2 DEF T
<1>16. l + Len(r) = n /\ n \in 0..n
    BY <1>2
<1> DEFINE end == h[n]
<1>17. Onward(end.messages, M) \/ end = start
    BY <1>15, <1>16
<1>18. ChatState(end)
    BY <1>11, <1>16
<1> HIDE DEF end, M
<1>19. Finished(start) = M /\ IsSequence(Finished(start))
    BY <1>10, FinishedFacts DEF M
<1>20. Onward(Finished(end), Finished(start))
    <2>1. CASE end = start
        BY <1>19, <2>1, OnwardSelf
    <2>2. CASE Onward(end.messages, M)
        <3>1. Onward(Finished(end), end.messages)
            BY <1>18, FinishedFacts
        <3> QED BY <1>19, <2>2, <3>1, OnwardOn
    <2> QED BY <1>17, <2>1, <2>2
<1> QED BY <1>8, <1>20 DEF start, end, v

-----------------------------------------------------------------------------
(* What is rendered to begins with what was, then what was said since.       *)
SplitsAt(u, v, k, protocol, inPlace) ==
    /\ AreSegments(u, protocol) /\ UpTo(u, k) /\ Placeable(u, inPlace)
    /\ \E rest : Since(rest, k, protocol, inPlace) /\ v = u \o rest

(* The segments of a context that grew split where it grew.                  *)
LEMMA RenderedSplits ==
    ASSUME NEW bs, IsContext(bs), ValidateFrame(bs), NEW k \in 0..Len(bs), ValidateFrame(Earlier(bs, k)),
           NEW protocol, NEW inPlace
    PROVE  SplitsAt(Normalize(Earlier(bs, k), protocol, inPlace), Normalize(bs, protocol, inPlace),
                    k, protocol, inPlace)
<1> DEFINE x == Normalize(Earlier(bs, k), protocol, inPlace)
<1>1. LET y == Normalize(Earlier(bs, k), protocol, inPlace)
      IN  /\ AreSegments(y, protocol) /\ UpTo(y, k) /\ Placeable(y, inPlace)
          /\ \E rest : Since(rest, k, protocol, inPlace) /\ Normalize(bs, protocol, inPlace) = y \o rest
    BY NormalizeSplits
<1>2. /\ AreSegments(x, protocol) /\ UpTo(x, k) /\ Placeable(x, inPlace)
      /\ \E rest : Since(rest, k, protocol, inPlace) /\ Normalize(bs, protocol, inPlace) = x \o rest
    BY <1>1
<1> HIDE DEF x
<1>3. SplitsAt(x, Normalize(bs, protocol, inPlace), k, protocol, inPlace)
    BY <1>2 DEF SplitsAt
<1> QED BY <1>3 DEF x

(* Something to answer was said last in a context.                           *)
AsksIn(bs, protocol) ==
    LET segments == Normalize(bs, protocol, FALSE)
    IN  segments # <<>> /\ Last(segments).role # "assistant"

(* A chat request keeps an earlier one that asked something.                 *)
LEMMA ChatKept ==
    ASSUME api.protocol = ChatName, NEW bs, IsContext(bs), NEW k \in 0..Len(bs), NEW replay,
           RenderChat(Earlier(bs, k), replay).ok, RenderChat(bs, replay).ok, AsksIn(Earlier(bs, k), ChatName)
    PROVE  KeepsPrefix(RenderChat(Earlier(bs, k), replay), RenderChat(bs, replay))
<1> DEFINE early == Earlier(bs, k)
           p == PlanTools(early, "Fold")
           q == PlanTools(bs, "Fold")
           earlier == RenderChat(early, replay)
           later == RenderChat(bs, replay)
           u == Normalize(early, ChatName, p.in_place)
           v == Normalize(bs, ChatName, q.in_place)
<1>1. /\ ValidateFrame(early) /\ ChatConversation(u, replay) # <<>>
      /\ earlier = ChatBody(p, ChatConversation(u, replay))
    <2> DEFINE Answer(ok, messages) == IF ~ok THEN [ok |-> FALSE]
                                       ELSE IF messages = <<>> \/ ~ValidateChat(messages) THEN [ok |-> FALSE]
                                       ELSE ChatBody(p, messages)
    <2>1. earlier = Answer(ValidateFrame(early), ChatConversation(u, replay))
        BY DEF RenderChat
    <2>2. earlier.ok
        OBVIOUS
    <2> HIDE DEF earlier, u, p
    <2> QED BY <2>1, <2>2
<1>2. /\ ValidateFrame(bs)
      /\ later = ChatBody(q, ChatConversation(v, replay))
    <2> DEFINE Answer(ok, messages) == IF ~ok THEN [ok |-> FALSE]
                                       ELSE IF messages = <<>> \/ ~ValidateChat(messages) THEN [ok |-> FALSE]
                                       ELSE ChatBody(q, messages)
    <2>1. later = Answer(ValidateFrame(bs), ChatConversation(v, replay))
        BY DEF RenderChat
    <2>2. later.ok
        OBVIOUS
    <2> HIDE DEF later, v, q
    <2> QED BY <2>1, <2>2
<1>h. KeepsPrefix(earlier, later) => KeepsPrefix(RenderChat(Earlier(bs, k), replay), RenderChat(bs, replay))
    OBVIOUS
<1>3. p.in_place = FALSE /\ q.in_place = FALSE
    <2>1. /\ p.in_place \in BOOLEAN /\ q.in_place \in BOOLEAN
          /\ ~p.in_place /\ ~q.in_place
        BY PlanKept
    <2> QED BY <2>1
<1>4. /\ u # <<>> /\ Last(u).role # "assistant" /\ SplitsAt(u, v, k, ChatName, FALSE)
    <2> DEFINE a == Normalize(early, ChatName, FALSE)
               b == Normalize(bs, ChatName, FALSE)
    <2>1. ValidateFrame(bs) /\ ValidateFrame(Earlier(bs, k))
        BY <1>1, <1>2
    <2>2. SplitsAt(a, b, k, ChatName, FALSE)
        BY <2>1, RenderedSplits
    <2>3. a # <<>> /\ Last(a).role # "assistant"
        BY DEF AsksIn
    <2>4. u = a /\ v = b
        BY <1>3, Zenon
    <2> HIDE DEF a, b, u, v
    <2> QED BY <2>2, <2>3, <2>4
<1> HIDE DEF earlier, later, p, q, u, v
<1>5. PICK rest : Since(rest, k, ChatName, FALSE) /\ v = u \o rest
    BY <1>4, Zenon DEF SplitsAt
<1>6. Parted(u, rest, k, ChatName) /\ Placeable(u, FALSE) /\ Placeable(rest, FALSE) /\ CallsFirst(rest)
    <2>1. k \in Nat
        BY ChangesType
    <2> QED BY <1>4, <1>5, <2>1 DEF Parted, Since, SplitsAt
<1>7. Onward(ChatConversation(v, replay), ChatConversation(u, replay))
    <2>1. Onward(ChatConversation(u \o rest, replay), ChatConversation(u, replay))
        BY <1>4, <1>6, ChatGoesOn
    <2> QED BY <1>5, <2>1, Zenon
<1>8. /\ earlier.in_place = FALSE
      /\ earlier.system = later.system
      /\ earlier.messages = ChatConversation(u, replay) /\ later.messages = ChatConversation(v, replay)
    BY <1>1, <1>2, <1>3 DEF ChatBody, Body
<1>9. PICK more : GoesOn(later.messages, earlier.messages, more)
    BY <1>7, <1>8 DEF Onward
<1>10. api.protocol # AnthropicName
    BY DEF ChatName, AnthropicName
<1>11. KeepsPrefix(earlier, later)
    BY <1>1, <1>8, <1>9, <1>10, GoingOnKeeps
<1> QED BY <1>h, <1>11

-----------------------------------------------------------------------------
(* An Anthropic message, and messages.                                       *)
IsWritten(m) == m = [role |-> m.role, content |-> m.content] /\ IsSequence(m.content)

(* Messages, each of a role and its blocks.                                  *)
Written(messages) == IsSequence(messages) /\ \A i \in 1..Len(messages) : IsWritten(messages[i])

(* What the renderer keeps are such messages.                                *)
LEMMA MessagesWritten ==
    ASSUME NEW B, NEW Y, NEW messages \in Seq(MessagesOf(B, Y))
    PROVE  Written(messages)
<1> DEFINE M == MessagesOf(B, Y)
<1>1. \A m \in M : m = [role |-> m.role, content |-> m.content]
                   /\ (m.content \in Seq(B) \/ m.content \in Seq(Y))
    BY DEF MessagesOf
<1>2. messages \in Seq(M) /\ \A i \in 1..Len(messages) : messages[i] \in M
    OBVIOUS
<1> HIDE DEF M
<1>3. \A m \in M : IsWritten(m)
    <2> TAKE m \in M
    <2> DEFINE c == m.content
    <2>1. c \in Seq(B) \/ c \in Seq(Y)
        BY <1>1
    <2> HIDE DEF c
    <2>2. IsSequence(c)
        BY <2>1, SequenceOf
    <2> QED BY <1>1, <2>2 DEF IsWritten, c
<1>4. IsSequence(messages)
    BY <1>2, SequenceOf
<1> QED BY <1>2, <1>3, <1>4 DEF Written

(* b is a, of which the last message may be longer, and messages after it.   *)
Extends(b, a) ==
    /\ Written(b) /\ Len(b) >= Len(a)
    /\ \A m \in 1..Len(a) - 1 : b[m] = a[m]
    /\ Len(a) >= 1 => b[Len(a)].role = a[Len(a)].role /\ Onward(b[Len(a)].content, a[Len(a)].content)

(* Messages extend themselves.                                               *)
LEMMA ExtendsSelf == ASSUME NEW a, Written(a) PROVE Extends(a, a)
<1>1. Len(a) \in Nat
    BY Elements DEF Written
<1>2. Len(a) >= 1 => Onward(a[Len(a)].content, a[Len(a)].content)
    <2> SUFFICES ASSUME Len(a) >= 1 PROVE Onward(a[Len(a)].content, a[Len(a)].content)
        OBVIOUS
    <2>1. Len(a) \in 1..Len(a)
        BY <1>1
    <2>2. IsSequence(a[Len(a)].content)
        BY <2>1 DEF Written, IsWritten
    <2> QED BY <2>2, OnwardSelf
<1> QED BY <1>1, <1>2 DEF Extends

(* A block goes to the last message or into one of its own.                  *)
LEMMA AppendExtends ==
    ASSUME NEW a, Written(a), NEW b, Extends(b, a), NEW role, NEW block
    PROVE  Extends(AppendMessage(b, role, block), a)
<1> DEFINE n == Len(b)
           k == Len(a)
           c == AppendMessage(b, role, block)
           V == ToSet(b)
<1>1. n \in Nat /\ k \in Nat /\ n >= k /\ b \in Seq(V) /\ \A i \in 1..n : IsWritten(b[i]) /\ b[i] \in V
    BY Elements DEF Written, Extends, IsSequence
<1>2. /\ \A m \in 1..k - 1 : b[m] = a[m]
      /\ k >= 1 => b[k].role = a[k].role /\ Onward(b[k].content, a[k].content)
    BY DEF Extends
<1> HIDE DEF V
<1>3. CASE b # <<>> /\ Last(b).role = role
    <2> DEFINE old == b[n]
               more == [old EXCEPT !.content = Append(@, block)]
               W == V \cup {more}
    <2>1. n >= 1 /\ n \in 1..n
        BY <1>1, <1>3
    <2>2. c = [b EXCEPT ![n] = more]
        <3>1. c = [b EXCEPT ![Len(b)].content = Append(@, block)]
            BY <1>3, Zenon DEF AppendMessage
        <3> QED BY <3>1
    <2>3. IsWritten(old)
        BY <1>1, <2>1
    <2>4. /\ more.role = old.role /\ more.content = Append(old.content, block)
          /\ more = [role |-> more.role, content |-> more.content]
        <3> DEFINE content == Append(old.content, block)
        <3> HIDE DEF old
        <3>1. old = [role |-> old.role, content |-> old.content]
            BY <2>3 DEF IsWritten
        <3>2. more = [role |-> old.role, content |-> content]
            BY <3>1
        <3> HIDE DEF content
        <3>3. more.role = old.role /\ more.content = content
            BY <3>2
        <3> QED BY <3>2, <3>3 DEF content
    <2>5. Append(old.content, block) = old.content \o <<block>>
        <3>1. IsSequence(old.content)
            BY <2>3 DEF IsWritten
        <3> DEFINE o == old.content
        <3> HIDE DEF o
        <3>2. o \in Seq(ToSet(o) \cup {block})
            <4>1. o \in Seq(ToSet(o))
                BY <3>1 DEF IsSequence, o
            <4> DEFINE X == ToSet(o)
            <4> HIDE DEF X
            <4> QED BY <4>1 DEF X
        <3>3. Append(o, block) = o \o <<block>>
            BY <3>2
        <3> QED BY <3>3 DEF o
    <2>6. IsSequence(more.content) /\ Onward(more.content, old.content)
        <3>1. IsSequence(<<block>>)
            BY Single
        <3> QED BY <2>3, <2>4, <2>5, <3>1, OnwardOne DEF IsWritten
    <2> HIDE DEF more, c, W
    <2>7. IsWritten(more)
        BY <2>4, <2>6 DEF IsWritten
    <2>8. c \in Seq(W) /\ Len(c) = n /\ c[n] = more /\ \A i \in 1..n : i # n => c[i] = b[i]
        <3>1. b \in Seq(W) /\ more \in W
            BY <1>1 DEF W
        <3> HIDE DEF old, n
        <3>2. b \in [1..n -> W]
            BY <3>1 DEF n
        <3>3. c \in [1..n -> W] /\ c[n] = more /\ \A i \in 1..n : i # n => c[i] = b[i]
            BY <2>1, <2>2, <3>1, <3>2
        <3>4. c \in Seq(W) /\ Len(c) = n
            BY <1>1, <3>3
        <3> QED BY <3>3, <3>4
    <2>9. Written(c)
        <3>1. IsSequence(c)
            BY <2>8, SequenceOf
        <3>2. \A i \in 1..n : IsWritten(c[i])
            BY <1>1, <2>7, <2>8
        <3> QED BY <2>8, <3>1, <3>2 DEF Written
    <2>10. \A m \in 1..k - 1 : c[m] = a[m]
        <3>1. \A m \in 1..k - 1 : m \in 1..n /\ m # n
            BY <1>1
        <3> QED BY <1>2, <2>8, <3>1
    <2>11. ASSUME k >= 1 PROVE c[k].role = a[k].role /\ Onward(c[k].content, a[k].content)
        <3>1. CASE k = n
            <4>1. old.role = a[k].role /\ Onward(old.content, a[k].content)
                BY <1>2, <2>11, <3>1
            <4> HIDE DEF old
            <4>2. c[k] = more
                BY <2>8, <3>1
            <4> DEFINE x == a[k].content
            <4>3. Onward(old.content, x) /\ Onward(more.content, old.content)
                BY <2>6, <4>1
            <4> HIDE DEF x
            <4>4. Onward(more.content, x)
                BY <4>3, OnwardOn
            <4>5. c[k].role = a[k].role
                BY <2>4, <4>1, <4>2
            <4> QED BY <4>2, <4>4, <4>5 DEF x
        <3>2. CASE k # n
            <4>1. k \in 1..n
                BY <1>1, <2>11
            <4>2. c[k] = b[k]
                BY <2>8, <3>2, <4>1
            <4> QED BY <1>2, <2>11, <4>2
        <3> QED BY <3>1, <3>2
    <2>12. Len(c) >= k
        BY <1>1, <2>8
    <2> HIDE DEF k
    <2> QED BY <2>9, <2>10, <2>11, <2>12 DEF Extends, k, c
<1>4. CASE ~(b # <<>> /\ Last(b).role = role)
    <2> DEFINE m == [role |-> role, content |-> <<block>>]
    <2>1. c = Append(b, m)
        BY <1>4 DEF AppendMessage
    <2>2. IsWritten(m)
        <3>1. m.role = role /\ m.content = <<block>> /\ m = [role |-> m.role, content |-> m.content]
            OBVIOUS
        <3> HIDE DEF m
        <3>2. IsSequence(m.content)
            BY <3>1, Single
        <3> QED BY <3>1, <3>2 DEF IsWritten
    <2> HIDE DEF m, c
    <2> DEFINE W == V \cup {m}
    <2>3. c \in Seq(W) /\ Len(c) = n + 1 /\ c[n + 1] = m /\ \A i \in 1..n : c[i] = b[i]
        <3>1. b \in Seq(W) /\ m \in W
            BY <1>1
        <3> HIDE DEF W
        <3> QED BY <2>1, <3>1
    <2> HIDE DEF W
    <2>4. Written(c)
        <3>1. IsSequence(c)
            BY <2>3, SequenceOf
        <3>2. \A i \in 1..(n + 1) : i = n + 1 \/ i \in 1..n
            BY <1>1
        <3>3. \A i \in 1..(n + 1) : IsWritten(c[i])
            BY <1>1, <2>2, <2>3, <3>2
        <3> QED BY <2>3, <3>1, <3>3 DEF Written
    <2>5. \A i \in 1..k : i \in 1..n
        BY <1>1
    <2>6. \A i \in 1..k : c[i] = b[i]
        BY <2>3, <2>5
    <2>7. (k >= 1 => k \in 1..k) /\ (\A i \in 1..k - 1 : i \in 1..k) /\ n + 1 >= k
        BY <1>1
    <2> HIDE DEF k, n
    <2> QED BY <1>2, <2>3, <2>4, <2>6, <2>7 DEF Extends, k, c
<1> QED BY <1>3, <1>4

-----------------------------------------------------------------------------
(* What a segment writes is the same whatever was written before.            *)
TellsNothing(s, B, Y) == \A at \in At(B, Y) : AppendSegment(at, s).messages = at.messages

(* It writes a block for a role,                                             *)
TellsBlock(s, role, block, B, Y) ==
    \A at \in At(B, Y) : AppendSegment(at, s).messages = AppendMessage(at.messages, role, block)

(* or nothing: whichever, before any messages.                               *)
Tells(s, B, Y) == TellsNothing(s, B, Y) \/ \E role, block : TellsBlock(s, role, block, B, Y)

(* A block for a role, or a sealed item, goes to the messages.               *)
LEMMA BlockSaid ==
    ASSUME NEW B, NEW Y, NEW at \in At(B, Y), NEW role, NEW block
    PROVE  /\ WithBlock(at, role, block).messages = AppendMessage(at.messages, role, block)
           /\ AppendSealed(at, block).messages = AppendMessage(at.messages, "assistant", block)
<1> DEFINE new == AppendMessage(at.messages, role, block)
           told == AppendMessage(at.messages, "assistant", block)
           p == LastPosition(told)
<1>1. WithBlock(at, role, block) = [at EXCEPT !.messages = new]
    BY DEF WithBlock
<1>2. AppendSealed(at, block) = [at EXCEPT !.messages = told, !.sealed = @ \cup {p}]
    BY DEF AppendSealed
<1> HIDE DEF new, told, p
<1>3. {"messages", "sealed"} \subseteq DOMAIN at
    BY DEF At
<1>4. [at EXCEPT !.messages = new].messages = new
    BY <1>3
<1>5. [at EXCEPT !.messages = told, !.sealed = @ \cup {p}].messages = told
    BY <1>3
<1> QED BY <1>1, <1>2, <1>4, <1>5 DEF new, told

(* Every segment but a change says a block, or nothing.                      *)
LEMMA SegmentSays ==
    ASSUME NEW B, NEW Y, NEW s, s.seg \in {"text", "media", "sealed", "call", "result"}
    PROVE  Tells(s, B, Y)
<1>1. CASE s.seg = "text" /\ s.role = "assistant" /\ IsBlankText(s.text)
    <2>1. \A at : AppendSegment(at, s) = at
        BY <1>1 DEF AppendSegment
    <2> QED BY <2>1 DEF Tells, TellsNothing
<1>2. CASE s.seg = "text" /\ s.role = "assistant" /\ ~IsBlankText(s.text)
    <2> DEFINE block == AssistantTextBlock(s)
    <2>1. \A at : AppendSegment(at, s) = WithBlock(at, "assistant", block)
        BY <1>2 DEF AppendSegment
    <2> HIDE DEF block
    <2>2. TellsBlock(s, "assistant", block, B, Y)
        BY <2>1, BlockSaid DEF TellsBlock
    <2> QED BY <2>2 DEF Tells
<1>3. CASE s.seg = "text" /\ s.role # "assistant"
    <2> DEFINE block == TextBlock(s.text)
    <2>1. \A at : AppendSegment(at, s) = WithBlock(at, s.role, block)
        BY <1>3 DEF AppendSegment
    <2> HIDE DEF block
    <2>2. TellsBlock(s, s.role, block, B, Y)
        BY <2>1, BlockSaid DEF TellsBlock
    <2> QED BY <2>2 DEF Tells
<1>4. CASE s.seg = "sealed"
    <2>1. \A at : AppendSegment(at, s) = AppendSealed(at, s.item)
        BY <1>4 DEF AppendSegment
    <2>2. TellsBlock(s, "assistant", s.item, B, Y)
        BY <2>1, BlockSaid DEF TellsBlock
    <2> QED BY <2>2 DEF Tells
<1>5. CASE s.seg = "media"
    <2> DEFINE block == MediaBlock(s.media)
    <2>1. \A at : AppendSegment(at, s) = WithBlock(at, s.role, block)
        BY <1>5 DEF AppendSegment
    <2> HIDE DEF block
    <2>2. TellsBlock(s, s.role, block, B, Y)
        BY <2>1, BlockSaid DEF TellsBlock
    <2> QED BY <2>2 DEF Tells
<1>6. CASE s.seg = "call"
    <2> DEFINE block == ToolUseBlock(s)
    <2>1. \A at : AppendSegment(at, s) = WithBlock(at, "assistant", block)
        BY <1>6 DEF AppendSegment
    <2> HIDE DEF block
    <2>2. TellsBlock(s, "assistant", block, B, Y)
        BY <2>1, BlockSaid DEF TellsBlock
    <2> QED BY <2>2 DEF Tells
<1>7. CASE s.seg = "result"
    <2> DEFINE block == ToolResultBlock(s)
    <2>1. \A at : AppendSegment(at, s) = WithBlock(at, "user", block)
        BY <1>7 DEF AppendSegment
    <2> HIDE DEF block
    <2>2. TellsBlock(s, "user", block, B, Y)
        BY <2>1, BlockSaid DEF TellsBlock
    <2> QED BY <2>2 DEF Tells
<1> QED BY <1>1, <1>2, <1>3, <1>4, <1>5, <1>6, <1>7

(* The blocks of a change go after what is there.                            *)
LEMMA BlocksExtend ==
    ASSUME NEW B, NEW Y, CarryChanges(Y), NEW at \in At(B, Y), NEW seq \in Seq(Y),
           NEW a, Written(a), Extends(at.messages, a)
    PROVE  LET later == FoldLeft(AppendChangeBlock, at, seq)
           IN  later \in At(B, Y) /\ Extends(later.messages, a)
<1> DEFINE n == Len(seq)
           later == FoldLeft(AppendChangeBlock, at, seq)
<1>1. n \in Nat /\ \A k \in 1..n : seq[k] \in Y
    OBVIOUS
<1>2. PICK g : ChangeBlockChain(g, at, seq) /\ later = g[n]
    BY ChangeBlocksFold
<1>3. g[0] = at /\ \A k \in 1..n : g[k] = AppendChangeBlock(g[k - 1], seq[k])
    BY <1>2 DEF ChangeBlockChain
<1> HIDE DEF n, later
<1> DEFINE T == {k \in 0..n : g[k] \in At(B, Y) /\ Extends(g[k].messages, a)}
<1>4. 0 \in T
    BY <1>1, <1>3
<1>5. ASSUME NEW k \in 1..n, k - 1 \in T PROVE k \in T
    <2> DEFINE old == g[k - 1]
               new == g[k]
               block == seq[k]
               told == AppendMessage(old.messages, "system", block)
               p == LastPosition(told)
    <2>1. old \in At(B, Y) /\ Extends(old.messages, a) /\ block \in Y /\ new = AppendChangeBlock(old, block)
        BY <1>1, <1>3, <1>5
    <2> HIDE DEF old, new, block
    <2>2. AppendChangeBlock(old, block) \in At(B, Y)
        BY <2>1, AppendChangeBlockFacts
    <2>3. AppendChangeBlock(old, block) = [old EXCEPT !.messages = told, !.changes = @ \cup {p}]
        BY DEF AppendChangeBlock
    <2>4. Extends(told, a)
        BY <2>1, AppendExtends
    <2> HIDE DEF told, p
    <2>5. {"messages", "changes"} \subseteq DOMAIN old
        BY <2>1 DEF At
    <2>6. [old EXCEPT !.messages = told, !.changes = @ \cup {p}].messages = told
        BY <2>5
    <2>7. new \in At(B, Y) /\ Extends(new.messages, a)
        BY <2>1, <2>2, <2>3, <2>4, <2>6
    <2>8. k \in 0..n
        BY <1>1
    <2> QED BY <2>7, <2>8 DEF new
<1>6. n \in T
    <2> HIDE DEF T
    <2>1. \A k \in 0..n : k \in T
        BY <1>1, <1>4, <1>5, Upward
    <2> QED BY <1>1, <2>1
<1> QED BY <1>2, <1>6 DEF later

(* A change in its place adds to the messages, or leaves them.               *)
LEMMA ChangeExtends ==
    ASSUME NEW B, NEW Y, HoldsChanges(Y), NEW at \in At(B, Y), NEW s, s.seg = "change",
           IsSegment(s, AnthropicName), NEW a, Written(a), Extends(at.messages, a)
    PROVE  Extends(AppendChange(at, s).messages, a)
<1> DEFINE change == Change(s)
           offered == at.offered
           gone == Gone(change, offered)
           bs == ToolChangeBlocks(change, offered)
           written == FoldLeft(AppendChangeBlock, at, bs)
           next == ApplyTo(offered, change)
           later == AppendChange(at, s)
<1>1. /\ change \in ToolChanges /\ OneEach(change.added) /\ change.added \in Seq(Definitions)
      /\ change.removed \in Seq(ToolNames)
    BY DEF IsSegment, Change, ToolChanges, Changes
<1>2. offered \in Offers(Definitions) /\ CarryChanges(Y)
    BY DEF At, HoldsChanges
<1>3. gone \in Seq(ToolNames)
    BY <1>1, OnlyFacts DEF Gone
<1>5. bs \in Seq(Y)
    <2> DEFINE g == Gone(change, offered)
    <2>1. g \in Seq(ToolNames) /\ change.added \in Seq(Definitions)
        BY <1>1, <1>3
    <2> HIDE DEF change, offered, g
    <2>2. g = Gone(change, offered)
        BY DEF g
    <2>3. LET v == Saying(g, change.added)
          IN  /\ bs \in Seq(Y) /\ Len(bs) = Len(v)
              /\ \A k \in 1..Len(v) : ChangeIn(bs[k]) = <<v[k]>>
        BY <2>1, <2>2, BlocksSay
    <2> QED BY <2>3
<1> HIDE DEF bs, gone, change
<1>6. written \in At(B, Y) /\ Extends(written.messages, a)
    BY <1>2, <1>5, BlocksExtend
<1>8. /\ ToolChangeBlocks(s, offered) = bs
      /\ \A x : ApplyTo(x, s) = ApplyTo(x, change)
    BY ChangeOnly DEF bs, change
<1>9. later = IF at.messages # <<>> /\ Last(at.messages).role \in {"user", "system"}
              THEN [written EXCEPT !.offered = ApplyTo(written.offered, change)]
              ELSE [at EXCEPT !.ok = FALSE]
    BY <1>8, Zenon DEF AppendChange
<1> HIDE DEF written, later, next
<1>10. later.messages = written.messages \/ later.messages = at.messages
    <2>1. {"messages", "offered"} \subseteq DOMAIN written /\ {"messages", "ok"} \subseteq DOMAIN at
        BY <1>6 DEF At
    <2> DEFINE x == ApplyTo(written.offered, change)
    <2> HIDE DEF x
    <2>2. [written EXCEPT !.offered = x].messages = written.messages
        BY <2>1
    <2>3. [at EXCEPT !.ok = FALSE].messages = at.messages
        BY <2>1
    <2> QED BY <1>9, <2>2, <2>3 DEF x
<1> QED BY <1>6, <1>10 DEF later

(* Whatever the segment, what is there is only added to.                     *)
LEMMA SegmentExtends ==
    ASSUME NEW S, NEW B, NEW Y, MayWrite(S, B, Y), NEW at \in At(B, Y), NEW s \in S,
           NEW a, Written(a), Extends(at.messages, a)
    PROVE  Extends(AppendSegment(at, s).messages, a)
<1>1. IsSegment(s, AnthropicName) /\ HoldsChanges(Y)
    BY DEF MayWrite
<1>2. CASE s.seg = "change"
    <2>1. AppendSegment(at, s) = AppendChange(at, s)
        BY <1>2 DEF AppendSegment
    <2> QED BY <1>1, <1>2, <2>1, ChangeExtends
<1>3. CASE s.seg # "change"
    <2>1. s.seg \in {"text", "media", "sealed", "call", "result"}
        BY <1>1, <1>3 DEF IsSegment
    <2>2. Tells(s, B, Y)
        BY <2>1, SegmentSays
    <2>3. CASE TellsNothing(s, B, Y)
        BY <2>3 DEF TellsNothing
    <2>4. CASE \E role, block : TellsBlock(s, role, block, B, Y)
        <3>1. PICK role, block : TellsBlock(s, role, block, B, Y)
            BY <2>4
        <3>2. AppendSegment(at, s).messages = AppendMessage(at.messages, role, block)
            BY <3>1 DEF TellsBlock
        <3>3. Extends(AppendMessage(at.messages, role, block), a)
            BY AppendExtends
        <3> QED BY <3>2, <3>3
    <2> QED BY <2>2, <2>3, <2>4 DEF Tells
<1> QED BY <1>2, <1>3

(* What is no change says the same after the same messages.                  *)
LEMMA SegmentAlike ==
    ASSUME NEW S, NEW B, NEW Y, MayWrite(S, B, Y), NEW at \in At(B, Y), NEW bt \in At(B, Y), NEW s \in S,
           s.seg # "change", at.messages = bt.messages
    PROVE  AppendSegment(at, s).messages = AppendSegment(bt, s).messages
<1>1. IsSegment(s, AnthropicName)
    BY DEF MayWrite
<1>2. s.seg \in {"text", "media", "sealed", "call", "result"}
    BY <1>1 DEF IsSegment
<1>3. Tells(s, B, Y)
    BY <1>2, SegmentSays
<1>4. CASE TellsNothing(s, B, Y)
    BY <1>4 DEF TellsNothing
<1>5. CASE \E role, block : TellsBlock(s, role, block, B, Y)
    <2>1. PICK role, block : TellsBlock(s, role, block, B, Y)
        BY <1>5
    <2>2. /\ AppendSegment(at, s).messages = AppendMessage(at.messages, role, block)
          /\ AppendSegment(bt, s).messages = AppendMessage(bt.messages, role, block)
        BY <2>1 DEF TellsBlock
    <2> QED BY <2>2
<1> QED BY <1>3, <1>4, <1>5 DEF Tells

-----------------------------------------------------------------------------
(* z begins with what x is.                                                  *)
Begins(z, x) == Len(z) >= Len(x) /\ \A i \in 1..Len(x) : z[i] = x[i]

(* Segments written after others add to what those were written as.          *)
LEMMA SegmentsExtend ==
    ASSUME NEW S, NEW B, NEW Y, MayWrite(S, B, Y), NEW ptools \in Offers(Definitions),
           NEW qtools \in Offers(Definitions), NEW x \in Seq(S), NEW z \in Seq(S), Begins(z, x),
           ptools = qtools \/ \A i \in 1..Len(x) : x[i].seg # "change"
    PROVE  Extends(FoldLeft(AppendSegment, Opening(qtools), z).messages,
                   FoldLeft(AppendSegment, Opening(ptools), x).messages)
<1> DEFINE n == Len(x)
           l == Len(z)
           p == Opening(ptools)
           q == Opening(qtools)
           early == FoldLeft(AppendSegment, p, x)
           later == FoldLeft(AppendSegment, q, z)
<1>1. /\ n \in Nat /\ l \in Nat /\ n <= l
      /\ (\A i \in 1..n : z[i] = x[i] /\ x[i] \in S) /\ \A i \in 1..l : z[i] \in S
    BY DEF Begins
<1>2. /\ p \in At(B, Y) /\ q \in At(B, Y) /\ p.messages = q.messages
      /\ ptools = qtools => p = q
    <2>1. p \in At(B, Y) /\ q \in At(B, Y)
        BY OpeningFacts
    <2>2. p.messages = <<>> /\ q.messages = <<>>
        BY DEF Opening
    <2> QED BY <2>1, <2>2
<1> HIDE DEF p, q
<1>3. PICK g : SegmentChain(g, p, x) /\ early = g[n]
    BY <1>2, SegmentsFold
<1>4. PICK h : SegmentChain(h, q, z) /\ later = h[l]
    BY <1>2, SegmentsFold
<1>5. g[0] = p /\ \A k \in 1..n : g[k] = AppendSegment(g[k - 1], x[k])
    BY <1>3 DEF SegmentChain
<1>6. h[0] = q /\ \A k \in 1..l : h[k] = AppendSegment(h[k - 1], z[k])
    BY <1>4 DEF SegmentChain
<1>c. ptools # qtools => \A i \in 1..n : x[i].seg # "change"
    OBVIOUS
<1> HIDE DEF n, l, early, later
<1> DEFINE T == {k \in 0..n : /\ g[k] \in At(B, Y) /\ h[k] \in At(B, Y) /\ g[k].messages = h[k].messages
                              /\ ptools = qtools => g[k] = h[k]}
<1>7. 0 \in T
    BY <1>1, <1>2, <1>5, <1>6
<1>8. ASSUME NEW k \in 1..n, k - 1 \in T PROVE k \in T
    <2> DEFINE a == g[k - 1]
               b == h[k - 1]
               s == x[k]
    <2>1. /\ a \in At(B, Y) /\ b \in At(B, Y) /\ a.messages = b.messages
          /\ ptools = qtools => a = b
        BY <1>8
    <2>2. s \in S /\ g[k] = AppendSegment(a, s) /\ h[k] = AppendSegment(b, s) /\ k \in 0..n
        <3>1. k \in 1..l /\ k \in 0..n /\ z[k] = x[k]
            BY <1>1
        <3> QED BY <1>1, <1>5, <1>6, <3>1
    <2>3. ptools # qtools => s.seg # "change"
        BY <1>c
    <2> HIDE DEF a, b, s
    <2>4. AppendSegment(a, s) \in At(B, Y) /\ AppendSegment(b, s) \in At(B, Y)
        BY <2>1, <2>2, AppendSegmentFacts
    <2>5. CASE ptools = qtools
        BY <2>1, <2>2, <2>4, <2>5
    <2>6. CASE ptools # qtools
        <3>1. AppendSegment(a, s).messages = AppendSegment(b, s).messages
            BY <2>1, <2>2, <2>3, <2>6, SegmentAlike
        <3> QED BY <2>2, <2>4, <2>6, <3>1
    <2> QED BY <2>5, <2>6
<1>9. g[n] \in At(B, Y) /\ h[n] \in At(B, Y) /\ g[n].messages = h[n].messages
    <2> HIDE DEF T
    <2>1. \A k \in 0..n : k \in T
        BY <1>1, <1>7, <1>8, Upward
    <2>2. n \in T
        BY <1>1, <2>1
    <2> QED BY <2>2 DEF T
<1> DEFINE w == g[n].messages
           U == {k \in 0..l - n : h[n + k] \in At(B, Y) /\ Extends(h[n + k].messages, w)}
<1>10. Written(w)
    <2>1. w \in Seq(MessagesOf(B, Y))
        BY <1>9 DEF At
    <2> HIDE DEF w
    <2> QED BY <2>1, MessagesWritten
<1>11. w = h[n].messages
    BY <1>9
<1> HIDE DEF w
<1>12. 0 \in U
    <2>1. Extends(w, w)
        BY <1>10, ExtendsSelf
    <2>2. n + 0 = n /\ 0 \in 0..l - n
        BY <1>1
    <2> QED BY <1>9, <1>11, <2>1, <2>2
<1>13. ASSUME NEW k \in 1..l - n, k - 1 \in U PROVE k \in U
    <2> DEFINE a == h[n + (k - 1)]
               s == z[n + k]
    <2>1. a \in At(B, Y) /\ Extends(a.messages, w)
        BY <1>13
    <2>2. s \in S /\ h[n + k] = AppendSegment(a, s) /\ k \in 0..l - n
        <3>1. n + k \in 1..l /\ (n + k) - 1 = n + (k - 1) /\ k \in 0..l - n
            BY <1>1
        <3> QED BY <1>1, <1>6, <3>1
    <2> HIDE DEF a, s
    <2>3. AppendSegment(a, s) \in At(B, Y)
        BY <2>1, <2>2, AppendSegmentFacts
    <2>4. Extends(AppendSegment(a, s).messages, w)
        BY <1>10, <2>1, <2>2, SegmentExtends
    <2> QED BY <2>2, <2>3, <2>4
<1>14. Extends(h[l].messages, w)
    <2> HIDE DEF U
    <2>1. l - n \in Nat
        BY <1>1
    <2>2. \A k \in 0..l - n : k \in U
        BY <1>12, <1>13, <2>1, Upward
    <2>3. l - n \in U /\ n + (l - n) = l
        BY <1>1, <2>2
    <2> QED BY <2>3 DEF U
<1> QED BY <1>3, <1>4, <1>14 DEF w, early, later, p, q

(* No segment, no message.                                                   *)
LEMMA NoSegments ==
    ASSUME NEW tools \in Offers(Definitions)
    PROVE  FoldLeft(AppendSegment, Opening(tools), <<>>) = Opening(tools)
<1> DEFINE S == {}
           B == WrittenBlocks(S)
           Y == SystemBlocks(S)
           base == Opening(tools)
           seq == <<>>
<1>1. MayWrite(S, B, Y)
    <2>1. \A s \in S : IsSegment(s, AnthropicName)
        OBVIOUS
    <2> HIDE DEF S
    <2> QED BY <2>1, SegmentsWritten
<1>2. seq \in Seq(S)
    <2>1. \A X : <<>> \in Seq(X)
        OBVIOUS
    <2> QED BY <2>1, Zenon
<1>l. Len(seq) = 0
    OBVIOUS
<1>3. base \in At(B, Y)
    BY OpeningFacts
<1> HIDE DEF S, B, Y, base, seq
<1>4. PICK g : SegmentChain(g, base, seq) /\ FoldLeft(AppendSegment, base, seq) = g[Len(seq)]
    BY <1>1, <1>2, <1>3, SegmentsFold
<1>5. g[0] = base
    BY <1>4 DEF SegmentChain
<1>6. FoldLeft(AppendSegment, base, seq) = base
    BY <1>l, <1>4, <1>5
<1> QED BY <1>6 DEF base, seq

(* What was written of a conversation stays, and more may follow.            *)
LEMMA AnthropicGoesOn ==
    ASSUME NEW u, NEW r, AreSegments(u, AnthropicName), AreSegments(r, AnthropicName),
           NEW ptools \in Offers(Definitions), NEW qtools \in Offers(Definitions),
           ptools = qtools \/ \A s \in ToSet(u) : s.seg # "change",
           AnthropicConversation(u, ptools).messages # <<>>
    PROVE  /\ LeadingTexts(u \o r) = LeadingTexts(u)
           /\ Extends(AnthropicConversation(u \o r, qtools).messages, AnthropicConversation(u, ptools).messages)
<1> DEFINE v == u \o r
           L == LeadingSystemLen(u)
           x == SubSeq(u, L + 1, Len(u))
           z == SubSeq(v, L + 1, Len(v))
           S == ToSet(v)
           V == ToSet(u)
           W == ToSet(r)
<1>1. /\ IsSequence(u) /\ IsSequence(r) /\ L \in 0..Len(u)
    BY LeadingFacts DEF AreSegments
<1>2. /\ IsSequence(v) /\ Len(u) \in Nat /\ Len(r) \in Nat /\ Len(v) = Len(u) + Len(r)
      /\ \A i \in 1..Len(u) : v[i] = u[i] /\ u[i] \in V
      /\ \A i \in 1..Len(v) : i > Len(u) => v[i] \in W
    BY <1>1, JoinedPlaces
<1>3. DOMAIN v = 1..Len(v) /\ S = {v[i] : i \in 1..Len(v)}
    BY <1>2, Elements
<1>a. AnthropicConversation(u, ptools) = FoldLeft(AppendSegment, Opening(ptools), x)
    BY DEF AnthropicConversation, Opening
<1>s. \A s \in V : IsSegment(s, AnthropicName)
    BY DEF AreSegments
<1>t. \A s \in W : IsSegment(s, AnthropicName)
    BY DEF AreSegments
<1>c. ptools = qtools \/ \A s \in V : s.seg # "change"
    OBVIOUS
<1>n. AnthropicConversation(u, ptools).messages # <<>>
    OBVIOUS
<1> HIDE DEF v, V, W, S
<1>4. \A s \in S : IsSegment(s, AnthropicName)
    <2>1. ASSUME NEW i \in 1..Len(v) PROVE IsSegment(v[i], AnthropicName)
        <3>1. i \in 1..Len(u) \/ i > Len(u)
            BY <1>2
        <3> QED BY <1>2, <1>s, <1>t, <3>1
    <2> QED BY <1>3, <2>1
<1>5. L # Len(u)
    <2> SUFFICES ASSUME L = Len(u) PROVE FALSE
        OBVIOUS
    <2>1. x = <<>>
        <3>1. u \in Seq(ToSet(u))
            BY <1>1 DEF IsSequence
        <3> DEFINE l == Len(u)
        <3>2. x = SubSeq(u, l + 1, l) /\ l \in Nat
            BY <1>2
        <3> DEFINE A == ToSet(u)
        <3> HIDE DEF A, x, L
        <3>3. u \in Seq(A)
            BY <3>1 DEF A
        <3> QED BY <3>2, <3>3
    <2> HIDE DEF x
    <2>2. AnthropicConversation(u, ptools) = Opening(ptools)
        BY <1>a, <2>1, NoSegments
    <2>3. Opening(ptools).messages = <<>>
        BY DEF Opening
    <2> QED BY <1>n, <2>2, <2>3
<1>6. LeadingSystemLen(v) = L /\ LeadingTexts(v) = LeadingTexts(u)
    <2>1. LeadingSystemLen(u) # Len(u)
        BY <1>5
    <2>2. LeadingSystemLen(u \o r) = LeadingSystemLen(u) /\ LeadingTexts(u \o r) = LeadingTexts(u)
        BY <1>1, <2>1, LeadingKept
    <2> QED BY <2>2 DEF v
<1>b. AnthropicConversation(v, qtools) = FoldLeft(AppendSegment, Opening(qtools), z)
    BY <1>6, Zenon DEF AnthropicConversation, Opening
<1> HIDE DEF L
<1>7. /\ x \in Seq(S) /\ z \in Seq(S) /\ Begins(z, x)
      /\ \A i \in 1..Len(x) : x[i] \in V
    <2> DEFINE a == Len(u)
               b == Len(v)
    <2>1. a \in Nat /\ b \in Nat /\ a <= b /\ L \in 0..a
        BY <1>1, <1>2
    <2>2. \A i \in 1..a : v[i] = u[i] /\ u[i] \in V
        BY <1>2
    <2>3. v \in Seq(S) /\ u \in Seq(S)
        <3>1. v \in Seq(S)
            BY <1>2 DEF IsSequence, S
        <3>2. u \in Seq(V) /\ V \subseteq S
            <4>1. u \in Seq(V)
                BY <1>1 DEF IsSequence, V
            <4>2. \A i \in 1..a : u[i] \in S
                BY <1>3, <2>1, <2>2
            <4>3. V = {u[i] : i \in 1..a}
                BY <1>1, Elements DEF V
            <4> QED BY <4>1, <4>2, <4>3
        <3> QED BY <3>1, <3>2
    <2>7. x \in Seq(S) /\ Len(x) = a - L /\ \A i \in 1..(a - L) : x[i] = u[L + i]
        BY <2>1, <2>3
    <2>8. z \in Seq(S) /\ Len(z) = b - L /\ \A i \in 1..(b - L) : z[i] = v[L + i]
        BY <2>1, <2>3
    <2> HIDE DEF a, b, x, z
    <2>6. /\ a - L \in Nat /\ b - L \in Nat /\ a - L <= b - L
          /\ \A i \in 1..(a - L) : L + i \in 1..a /\ i \in 1..(b - L)
        BY <2>1
    <2>9. \A i \in 1..(a - L) : z[i] = x[i] /\ x[i] \in V
        BY <2>2, <2>6, <2>7, <2>8
    <2> QED BY <2>6, <2>7, <2>8, <2>9 DEF Begins
<1>8. ptools = qtools \/ \A i \in 1..Len(x) : x[i].seg # "change"
    BY <1>7, <1>c
<1> HIDE DEF x, z
<1>9. Extends(FoldLeft(AppendSegment, Opening(qtools), z).messages,
              FoldLeft(AppendSegment, Opening(ptools), x).messages)
    <2> DEFINE B == WrittenBlocks(S)
               Y == SystemBlocks(S)
    <2>1. MayWrite(S, B, Y)
        BY <1>4, SegmentsWritten
    <2> HIDE DEF B, Y
    <2> QED BY <1>7, <1>8, <2>1, SegmentsExtend
<1> QED BY <1>6, <1>9, <1>a, <1>b DEF v

-----------------------------------------------------------------------------
(* A block without the marker, and content without any.                      *)
Plain(block) == Without(block, {"cache_control"})
AllPlain(content) == [b \in 1..Len(content) |-> Plain(content[b])]

(* A marker taken off leaves what it was put on.                             *)
LEMMA MarkerGone == ASSUME NEW block PROVE Plain(Over([cache_control |-> TRUE], block)) = Plain(block)
<1> DEFINE fields == [cache_control |-> TRUE]
           marked == Over(fields, block)
           keys == DOMAIN block \ {"cache_control"}
<1>1. DOMAIN fields = {"cache_control"}
    OBVIOUS
<1> HIDE DEF fields
<1>2. DOMAIN marked = {"cache_control"} \cup DOMAIN block
    BY <1>1 DEF Over
<1>3. \A key \in keys : marked[key] = block[key]
    BY <1>1 DEF Over
<1> HIDE DEF marked
<1>4. DOMAIN marked \ {"cache_control"} = keys
    BY <1>2
<1>5. Plain(block) = [key \in keys |-> block[key]]
    BY DEF Plain, Without, Restrict
<1>6. Plain(marked) = [key \in DOMAIN marked \ {"cache_control"} |-> marked[key]]
    BY DEF Plain, Without, Restrict
<1> DEFINE rest == DOMAIN marked \ {"cache_control"}
<1> HIDE DEF keys, rest
<1>7. rest = keys
    BY <1>4 DEF rest
<1>8. Plain(marked) = [key \in rest |-> marked[key]]
    BY <1>6 DEF rest
<1>9. Plain(marked) = [key \in keys |-> block[key]]
    BY <1>3, <1>7, <1>8
<1> QED BY <1>5, <1>9 DEF marked, fields

(* A message of an Anthropic request without markers.                        *)
LEMMA UnmarkIs ==
    ASSUME api.protocol = AnthropicName, NEW m, IsWritten(m)
    PROVE  Unmark(m) = [role |-> m.role, content |-> AllPlain(m.content)]
<1> DEFINE c == [b \in 1..Len(m.content) |-> Without(m.content[b], {"cache_control"})]
<1>1. Unmark(m) = [m EXCEPT !.content = c]
    BY DEF Unmark
<1>2. c = AllPlain(m.content)
    BY DEF AllPlain, Plain
<1> HIDE DEF c
<1> DEFINE x == m.content
           y == m.role
<1>3. m = [role |-> y, content |-> x]
    BY DEF IsWritten
<1> HIDE DEF x, y
<1>4. [m EXCEPT !.content = c] = [role |-> y, content |-> c]
    BY <1>3
<1> QED BY <1>1, <1>2, <1>4 DEF y

(* Messages with markers somewhere.                                          *)
Marks(marked, messages) == \E anchor : marked = WithCacheControl(messages, anchor)

(* Without them, they are the messages.                                      *)
LEMMA MarksGone ==
    ASSUME api.protocol = AnthropicName, NEW a, Written(a), NEW marked, Marks(marked, a)
    PROVE  Len(marked) = Len(a) /\ \A m \in 1..Len(a) : Unmark(marked[m]) = Unmark(a[m])
<1>1. PICK anchor : marked = WithCacheControl(a, anchor)
    BY DEF Marks
<1> DEFINE n == Len(a)
           Mark(m, b) == IF <<m, b>> \in anchor THEN Over([cache_control |-> TRUE], a[m].content[b])
                         ELSE a[m].content[b]
           Content(m) == [b \in 1..Len(a[m].content) |-> Mark(m, b)]
           Cut(m) == [a[m] EXCEPT !.content = Content(m)]
<1>2. marked = [m \in 1..n |-> Cut(m)]
    BY <1>1 DEF WithCacheControl
<1>3. n \in Nat /\ \A m \in 1..n : IsWritten(a[m])
    BY Elements DEF Written
<1>4. Len(marked) = n /\ \A m \in 1..n : marked[m] = Cut(m)
    <2> HIDE DEF n, Cut
    <2> QED BY <1>2, <1>3
<1>5. ASSUME NEW m \in 1..n PROVE Unmark(marked[m]) = Unmark(a[m])
    <2> DEFINE c == a[m].content
               k == Len(c)
               d == Content(m)
               r == a[m].role
    <2>1. IsWritten(a[m]) /\ IsSequence(c) /\ a[m] = [role |-> r, content |-> c]
        BY <1>3 DEF IsWritten
    <2>2. k \in Nat
        BY <2>1, Elements
    <2>3. d = [b \in 1..k |-> Mark(m, b)]
        OBVIOUS
    <2>4. Cut(m) = [a[m] EXCEPT !.content = d]
        OBVIOUS
    <2>5. \A b \in 1..k : Plain(Mark(m, b)) = Plain(c[b])
        BY MarkerGone
    <2> HIDE DEF Mark, Cut, c, d, k, r
    <2>6. Cut(m) = [role |-> r, content |-> d]
        BY <2>1, <2>4
    <2>7. Len(d) = k /\ \A b \in 1..k : d[b] = Mark(m, b)
        BY <2>2, <2>3
    <2>8. IsSequence(d)
        <3>1. d \in Seq({Mark(m, b) : b \in 1..k})
            BY <2>2, <2>3
        <3> QED BY <3>1, SequenceOf
    <2>9. IsWritten(Cut(m)) /\ Cut(m).role = r /\ Cut(m).content = d
        BY <2>6, <2>8 DEF IsWritten
    <2>10. AllPlain(d) = AllPlain(c)
        <3>1. AllPlain(d) = [b \in 1..k |-> Plain(d[b])]
            BY <2>7 DEF AllPlain
        <3>2. AllPlain(c) = [b \in 1..k |-> Plain(c[b])]
            BY DEF AllPlain, k
        <3>3. \A b \in 1..k : Plain(d[b]) = Plain(c[b])
            BY <2>5, <2>7
        <3> QED BY <3>1, <3>2, <3>3
    <2>11. Unmark(Cut(m)) = [role |-> r, content |-> AllPlain(d)]
        BY <2>9, UnmarkIs
    <2>12. Unmark(a[m]) = [role |-> r, content |-> AllPlain(c)]
        BY <2>1, UnmarkIs DEF r, c
    <2>13. marked[m] = Cut(m)
        BY <1>4
    <2> QED BY <2>10, <2>11, <2>12, <2>13
<1> QED BY <1>4, <1>5

(* Of a message whose content goes on, the later one continues the earlier.  *)
LEMMA OnwardContinues ==
    ASSUME api.protocol = AnthropicName, NEW a, NEW b, IsWritten(a), IsWritten(b),
           b.role = a.role, Onward(b.content, a.content)
    PROVE  Continues(Unmark(b), Unmark(a))
<1> DEFINE s == AllPlain(a.content)
           t == AllPlain(b.content)
           x == a.content
           y == b.content
           k == Len(x)
           l == Len(y)
<1>1. Unmark(a) = [role |-> a.role, content |-> s] /\ Unmark(b) = [role |-> b.role, content |-> t]
    BY UnmarkIs
<1>2. PICK more : GoesOn(y, x, more)
    BY DEF Onward
<1>3. k \in Nat /\ l \in Nat /\ k <= l /\ \A i \in 1..k : y[i] = x[i]
    <2>1. IsSequence(x) /\ IsSequence(more) /\ y = x \o more
        BY <1>2 DEF GoesOn
    <2> HIDE DEF x, y
    <2>2. /\ Len(x) \in Nat /\ Len(more) \in Nat /\ Len(x \o more) = Len(x) + Len(more)
          /\ \A i \in 1..Len(x) : (x \o more)[i] = x[i]
        BY <2>1, JoinedPlaces
    <2>3. l = k + Len(more) /\ \A i \in 1..k : y[i] = x[i]
        BY <2>1, <2>2
    <2> HIDE DEF k, l
    <2>4. k \in Nat /\ Len(more) \in Nat
        BY <2>2 DEF k
    <2> QED BY <2>3, <2>4
<1>4. s = [i \in 1..k |-> Plain(x[i])] /\ t = [i \in 1..l |-> Plain(y[i])]
    BY DEF AllPlain
<1> HIDE DEF x, y, k, l, s, t
<1> DEFINE V == {Plain(x[i]) : i \in 1..k} \cup {Plain(y[i]) : i \in 1..l}
<1>5. /\ s \in Seq(V) /\ Len(s) = k /\ \A i \in 1..k : s[i] = Plain(x[i])
      /\ t \in Seq(V) /\ Len(t) = l /\ \A i \in 1..l : t[i] = Plain(y[i])
    BY <1>3, <1>4
<1>6. \A i \in 1..k : t[i] = s[i]
    <2>1. \A i \in 1..k : i \in 1..l
        BY <1>3
    <2> QED BY <1>3, <1>5, <2>1
<1> HIDE DEF V
<1>7. SubSeq(s, 1, k) = SubSeq(t, 1, k)
    BY <1>3, <1>5, <1>6
<1>8. IsPrefix(s, t)
    BY <1>3, <1>5, <1>7 DEF IsPrefix
<1> QED BY <1>1, <1>8 DEF Continues

(* An Anthropic request whose messages go on from an earlier one's keeps it. *)
LEMMA ExtendingKeeps ==
    ASSUME api.protocol = AnthropicName, NEW a, NEW b, Written(a), Extends(b, a), a # <<>>,
           NEW earlier, NEW later, Marks(earlier.messages, a), Marks(later.messages, b),
           later.system = earlier.system, earlier.in_place => later.tools = earlier.tools
    PROVE  KeepsPrefix(earlier, later)
<1> DEFINE n == Len(a)
           x == earlier.messages
           y == later.messages
<1>1. /\ Written(b) /\ Len(b) >= n
      /\ \A m \in 1..n - 1 : b[m] = a[m]
      /\ n >= 1 => b[n].role = a[n].role /\ Onward(b[n].content, a[n].content)
    BY DEF Extends
<1>2. Len(x) = n /\ \A m \in 1..n : Unmark(x[m]) = Unmark(a[m])
    BY MarksGone
<1>3. Len(y) = Len(b) /\ \A m \in 1..Len(b) : Unmark(y[m]) = Unmark(b[m])
    BY <1>1, MarksGone
<1>4. n \in Nat /\ n # 0 /\ Len(b) \in Nat
    <2>1. IsSequence(a) /\ IsSequence(b)
        BY <1>1 DEF Written
    <2>2. a \in Seq(ToSet(a))
        BY <2>1 DEF IsSequence
    <2>3. Len(b) \in Nat
        BY <2>1, Elements
    <2> QED BY <2>2, <2>3, EmptySeq
<1>w. \A m \in 1..n : IsWritten(a[m])
    BY DEF Written
<1>v. \A m \in 1..Len(b) : IsWritten(b[m])
    BY <1>1 DEF Written
<1> HIDE DEF n, x, y
<1>5. n \in 1..n /\ n \in 1..Len(b) /\ \A m \in 1..n - 1 : m \in 1..n /\ m \in 1..Len(b)
    BY <1>1, <1>4
<1>6. \A m \in 1..n - 1 : Unmark(y[m]) = Unmark(x[m])
    BY <1>1, <1>2, <1>3, <1>5
<1>7. Continues(Unmark(y[n]), Unmark(x[n]))
    <2> DEFINE c == a[n]
               d == b[n]
    <2>1. IsWritten(c) /\ IsWritten(d) /\ d.role = c.role /\ Onward(d.content, c.content)
        BY <1>1, <1>4, <1>5, <1>w, <1>v
    <2> HIDE DEF c, d
    <2>2. Continues(Unmark(d), Unmark(c))
        BY <2>1, OnwardContinues
    <2>3. Unmark(y[n]) = Unmark(d) /\ Unmark(x[n]) = Unmark(c)
        BY <1>2, <1>3, <1>5 DEF c, d
    <2> QED BY <2>2, <2>3
<1>8. Len(y) >= n
    BY <1>1, <1>3
<1> QED BY <1>2, <1>6, <1>7, <1>8 DEF KeepsPrefix, x, y

-----------------------------------------------------------------------------
(* An Anthropic request keeps an earlier one.                                *)
LEMMA AnthropicKept ==
    ASSUME api.protocol = AnthropicName, NEW bs, IsContext(bs), NEW k \in 0..Len(bs), NEW native, NEW stable,
           RenderAnthropic(Earlier(bs, k), native, stable).ok, RenderAnthropic(bs, native, stable).ok
    PROVE  KeepsPrefix(RenderAnthropic(Earlier(bs, k), native, stable), RenderAnthropic(bs, native, stable))
<1> DEFINE early == Earlier(bs, k)
           placement == IF native THEN "AnthropicInPlace" ELSE "Fold"
           p == PlanTools(early, placement)
           q == PlanTools(bs, placement)
           earlier == RenderAnthropic(early, native, stable)
           later == RenderAnthropic(bs, native, stable)
           u == Normalize(early, AnthropicName, p.in_place)
           v == Normalize(bs, AnthropicName, q.in_place)
           c == AnthropicConversation(u, p.tools)
           d == AnthropicConversation(v, q.tools)
<1>1. /\ ValidateFrame(early) /\ c.messages # <<>>
      /\ \E anchor : earlier = Body(p, LeadingTexts(u), WithCacheControl(c.messages, anchor))
    <2> DEFINE anchor == IF stable THEN Anchor(c.messages, c.sealed, c.changes) ELSE {}
               Answer(ok) == IF ~ok THEN [ok |-> FALSE]
                             ELSE IF ~c.ok \/ c.messages = <<>> \/ ~ValidateAnthropic(c.messages) THEN [ok |-> FALSE]
                             ELSE Body(p, LeadingTexts(u), WithCacheControl(c.messages, anchor))
    <2>1. earlier = Answer(ValidateFrame(early))
        BY DEF RenderAnthropic
    <2>2. earlier.ok
        OBVIOUS
    <2> HIDE DEF earlier, u, p, c, anchor
    <2> QED BY <2>1, <2>2
<1>2. /\ ValidateFrame(bs)
      /\ \E anchor : later = Body(q, LeadingTexts(v), WithCacheControl(d.messages, anchor))
    <2> DEFINE anchor == IF stable THEN Anchor(d.messages, d.sealed, d.changes) ELSE {}
               Answer(ok) == IF ~ok THEN [ok |-> FALSE]
                             ELSE IF ~d.ok \/ d.messages = <<>> \/ ~ValidateAnthropic(d.messages) THEN [ok |-> FALSE]
                             ELSE Body(q, LeadingTexts(v), WithCacheControl(d.messages, anchor))
    <2>1. later = Answer(ValidateFrame(bs))
        BY DEF RenderAnthropic
    <2>2. later.ok
        OBVIOUS
    <2> HIDE DEF later, v, q, d, anchor
    <2> QED BY <2>1, <2>2
<1>h. KeepsPrefix(earlier, later) => KeepsPrefix(RenderAnthropic(Earlier(bs, k), native, stable), RenderAnthropic(bs, native, stable))
    OBVIOUS
<1>3. /\ p.in_place \in BOOLEAN /\ q.in_place \in BOOLEAN
      /\ p.in_place /\ q.in_place => p.tools = q.tools
      /\ placement = "AnthropicInPlace" /\ ChangesOf(early) # <<>> => p.in_place = q.in_place
      /\ p.in_place => ChangesOf(early) # <<>>
      /\ placement = "Fold" => ~p.in_place /\ ~q.in_place
    BY PlanKept
<1>4. placement = "AnthropicInPlace" \/ placement = "Fold"
    OBVIOUS
<1>5. p.in_place => q.in_place /\ p.tools = q.tools
    <2> HIDE DEF p, q, placement
    <2> QED BY <1>3, <1>4
<1>6. IsContext(early) /\ p.tools \in Offers(Definitions) /\ q.tools \in Offers(Definitions)
    <2>1. IsContext(early)
        BY EarlierContext
    <2> HIDE DEF early, placement
    <2> QED BY <2>1, PlanFacts
<1>7. u = Normalize(early, AnthropicName, q.in_place)
    <2>1. CASE p.in_place = q.in_place
        BY <2>1
    <2>2. CASE p.in_place # q.in_place
        <3>1. ChangesOf(early) = <<>> /\ p.in_place = FALSE /\ q.in_place = TRUE
            <4> HIDE DEF p, q, placement, early
            <4> QED BY <1>3, <1>4, <2>2
        <3> HIDE DEF early, p, q
        <3>2. Normalize(early, AnthropicName, TRUE) = Normalize(early, AnthropicName, FALSE)
            BY <1>6, <3>1, NothingToPlace
        <3> QED BY <3>1, <3>2 DEF u
    <2> QED BY <2>1, <2>2
<1>8. SplitsAt(u, v, k, AnthropicName, q.in_place)
    <2> DEFINE inPlace == q.in_place
               x == Normalize(early, AnthropicName, inPlace)
    <2>1. u = x /\ v = Normalize(bs, AnthropicName, inPlace)
        BY <1>7
    <2> HIDE DEF inPlace, u, v
    <2>2. SplitsAt(x, Normalize(bs, AnthropicName, inPlace), k, AnthropicName, inPlace)
        BY <1>1, <1>2, RenderedSplits
    <2> QED BY <2>1, <2>2 DEF inPlace
<1>9. ~p.in_place => \A s \in ToSet(u) : s.seg # "change"
    <2> SUFFICES ASSUME ~p.in_place PROVE \A s \in ToSet(u) : s.seg # "change"
        OBVIOUS
    <2> DEFINE x == Normalize(early, AnthropicName, FALSE)
    <2>1. p.in_place = FALSE
        <3> HIDE DEF p
        <3> QED BY <1>3
    <2>2. u = x
        <3> HIDE DEF p
        <3> QED BY <2>1
    <2>3. SplitsAt(x, Normalize(bs, AnthropicName, FALSE), k, AnthropicName, FALSE)
        BY <1>1, <1>2, RenderedSplits
    <2> HIDE DEF x, u
    <2> QED BY <2>2, <2>3 DEF SplitsAt, Placeable
<1> HIDE DEF earlier, later, p, q, u, v, c, d, early, placement
<1>10. PICK rest : Since(rest, k, AnthropicName, q.in_place) /\ v = u \o rest
    BY <1>8, Zenon DEF SplitsAt
<1>11. AreSegments(u, AnthropicName) /\ AreSegments(rest, AnthropicName)
    BY <1>8, <1>10 DEF SplitsAt, Since
<1>12. LeadingTexts(v) = LeadingTexts(u) /\ Extends(d.messages, c.messages)
    <2> DEFINE ptools == p.tools
               qtools == q.tools
    <2>1. ptools \in Offers(Definitions) /\ qtools \in Offers(Definitions)
        BY <1>6
    <2>2. ptools = qtools \/ \A s \in ToSet(u) : s.seg # "change"
        BY <1>5, <1>9
    <2>3. c = AnthropicConversation(u, ptools) /\ d = AnthropicConversation(v, qtools)
        BY DEF c, d
    <2> HIDE DEF ptools, qtools
    <2>4. AnthropicConversation(u, ptools).messages # <<>>
        BY <1>1, <2>3
    <2>5. /\ LeadingTexts(u \o rest) = LeadingTexts(u)
          /\ Extends(AnthropicConversation(u \o rest, qtools).messages, AnthropicConversation(u, ptools).messages)
        BY <1>11, <2>1, <2>2, <2>4, AnthropicGoesOn
    <2> QED BY <1>10, <2>3, <2>5, Zenon
<1>13. Written(c.messages)
    <2> DEFINE L == LeadingSystemLen(u)
               w == SubSeq(u, L + 1, Len(u))
               S == ToSet(w)
               B == WrittenBlocks(S)
               Y == SystemBlocks(S)
               tools == p.tools
    <2>1. AreSegments(w, AnthropicName)
        BY <1>11, LeadingFacts
    <2>2. c = FoldLeft(AppendSegment, Opening(tools), w)
        BY DEF c, AnthropicConversation, Opening
    <2>3. tools \in Offers(Definitions)
        BY <1>6
    <2> HIDE DEF w, tools
    <2>4. FoldLeft(AppendSegment, Opening(tools), w) \in At(B, Y)
        BY <2>1, <2>3, WrittenOffers
    <2> HIDE DEF B, Y, S
    <2>5. c.messages \in Seq(MessagesOf(B, Y))
        BY <2>2, <2>4 DEF At
    <2> DEFINE m == c.messages
    <2> HIDE DEF m
    <2>6. Written(m)
        BY <2>5, MessagesWritten DEF m
    <2> QED BY <2>6 DEF m
<1>14. PICK a1 : earlier = Body(p, LeadingTexts(u), WithCacheControl(c.messages, a1))
    BY <1>1
<1>15. PICK a2 : later = Body(q, LeadingTexts(v), WithCacheControl(d.messages, a2))
    BY <1>2
<1>16. /\ earlier.in_place = p.in_place /\ later.in_place = q.in_place
       /\ earlier.tools = p.tools /\ later.tools = q.tools
       /\ earlier.system = LeadingTexts(u) /\ later.system = LeadingTexts(v)
       /\ earlier.messages = WithCacheControl(c.messages, a1)
       /\ later.messages = WithCacheControl(d.messages, a2)
    BY <1>14, <1>15 DEF Body
<1>17. Marks(earlier.messages, c.messages) /\ Marks(later.messages, d.messages)
    BY <1>16, Zenon DEF Marks
<1>18. earlier.in_place => later.tools = earlier.tools
    BY <1>5, <1>16
<1>19. later.system = earlier.system
    BY <1>12, <1>16
<1>20. KeepsPrefix(earlier, later)
    <2> DEFINE a == c.messages
               b == d.messages
    <2>1. Written(a) /\ Extends(b, a) /\ a # <<>> /\ Marks(earlier.messages, a) /\ Marks(later.messages, b)
        BY <1>1, <1>12, <1>13, <1>17
    <2> HIDE DEF a, b
    <2> QED BY <1>18, <1>19, <2>1, ExtendingKeeps
<1> QED BY <1>h, <1>20

-----------------------------------------------------------------------------
(* What a context renders to under a choice of format and option.            *)
RenderBy(choice, bs) ==
    CASE choice.protocol = AnthropicName -> RenderAnthropic(bs, choice.option, TRUE)
      [] choice.protocol = ChatName      -> RenderChat(bs, choice.option)
      [] choice.protocol = ResponsesName -> RenderResponses(bs, choice.option)

(* A request keeps one sent for the beginning of its context.                *)
LEMMA RenderKept ==
    ASSUME api.protocol \in Protocols, NEW bs, IsContext(bs), NEW k \in 0..Len(bs),
           RenderBy(api, Earlier(bs, k)).ok, RenderBy(api, bs).ok, AsksIn(Earlier(bs, k), api.protocol),
           api.protocol = ResponsesName =>
               RenderBy(api, Earlier(bs, k)).in_place = RenderBy(api, bs).in_place
    PROVE  KeepsPrefix(RenderBy(api, Earlier(bs, k)), RenderBy(api, bs))
<1> DEFINE early == Earlier(bs, k)
           option == api.option
<1> HIDE DEF option
<1>1. CASE api.protocol = AnthropicName
    <2> DEFINE stable == TRUE
    <2>1. \A x : RenderBy(api, x) = RenderAnthropic(x, option, stable)
        BY <1>1 DEF RenderBy, AnthropicName, ChatName, ResponsesName, option
    <2> HIDE DEF stable
    <2>2. RenderAnthropic(early, option, stable).ok /\ RenderAnthropic(bs, option, stable).ok
        BY <2>1
    <2>3. KeepsPrefix(RenderAnthropic(early, option, stable), RenderAnthropic(bs, option, stable))
        BY <1>1, <2>2, AnthropicKept
    <2> QED BY <2>1, <2>3
<1>2. CASE api.protocol = ChatName
    <2>1. \A x : RenderBy(api, x) = RenderChat(x, option)
        BY <1>2 DEF RenderBy, AnthropicName, ChatName, ResponsesName, option
    <2>2. RenderChat(early, option).ok /\ RenderChat(bs, option).ok /\ AsksIn(early, ChatName)
        BY <1>2, <2>1
    <2>3. KeepsPrefix(RenderChat(early, option), RenderChat(bs, option))
        BY <1>2, <2>2, ChatKept
    <2> QED BY <2>1, <2>3
<1>3. CASE api.protocol = ResponsesName
    <2>1. \A x : RenderBy(api, x) = RenderResponses(x, option)
        BY <1>3 DEF RenderBy, AnthropicName, ChatName, ResponsesName, option
    <2>2. /\ RenderResponses(early, option).ok /\ RenderResponses(bs, option).ok
          /\ RenderResponses(early, option).in_place = RenderResponses(bs, option).in_place
        BY <1>3, <2>1
    <2>3. KeepsPrefix(RenderResponses(early, option), RenderResponses(bs, option))
        BY <1>3, <2>2, ResponsesKept
    <2> QED BY <2>1, <2>3
<1> QED BY <1>1, <1>2, <1>3 DEF Protocols

-----------------------------------------------------------------------------
(* Every request sent is of the beginning of the context, where something    *)
(* was asked.                                                                *)
WasSent(choice, bs, body) ==
    /\ body.ok
    /\ \E k \in 0..Len(bs) : body = RenderBy(choice, Earlier(bs, k)) /\ AsksIn(Earlier(bs, k), choice.protocol)

(* Each of the requests sent is such a request.                              *)
AreSent(choice, bs, bodies) ==
    IsSequence(bodies) /\ \A s \in 1..Len(bodies) : WasSent(choice, bs, bodies[s])

(* The invariant: what was sent renders a beginning of the context, and    *)
(* what is about to be sent all of it.                                       *)
KeptInv ==
    /\ OffersInv
    /\ request.ok => request = RenderBy(api, blocks)
    /\ AreSent(api, blocks, sent)

(* What a context begins with, one that goes on from it begins with too.     *)
LEMMA SentStays ==
    ASSUME NEW choice, NEW bs, IsSequence(bs), NEW news, IsSequence(news), NEW bodies, AreSent(choice, bs, bodies)
    PROVE  AreSent(choice, bs \o news, bodies)
<1> DEFINE later == bs \o news
<1>1. /\ Len(bs) \in Nat /\ Len(news) \in Nat /\ Len(later) = Len(bs) + Len(news)
      /\ \A i \in 1..Len(bs) : later[i] = bs[i]
      /\ IsSequence(later)
    BY JoinedPlaces
<1> HIDE DEF later
<1>2. ASSUME NEW k \in 0..Len(bs) PROVE Earlier(later, k) = Earlier(bs, k) /\ k \in 0..Len(later)
    <2> DEFINE n == Len(bs)
               l == Len(later)
               V == ToSet(bs) \cup ToSet(later)
    <2>1. bs \in Seq(V) /\ later \in Seq(V)
        <3> DEFINE A == ToSet(bs)
                   B == ToSet(later)
        <3>1. bs \in Seq(A) /\ later \in Seq(B) /\ A \subseteq V /\ B \subseteq V
            BY <1>1 DEF IsSequence
        <3> HIDE DEF A, B, V
        <3> QED BY <3>1
    <2>2. n \in Nat /\ l \in Nat /\ n <= l /\ k \in 0..n /\ \A i \in 1..n : later[i] = bs[i]
        BY <1>1
    <2> HIDE DEF V
    <2>3. SubSeq(later, 1, k) = SubSeq(bs, 1, k)
        BY <2>1, <2>2
    <2> HIDE DEF n, l
    <2>4. k \in 0..l
        BY <2>2
    <2> QED BY <2>3, <2>4 DEF Earlier, l
<1>3. ASSUME NEW body, WasSent(choice, bs, body) PROVE WasSent(choice, later, body)
    <2>1. PICK k \in 0..Len(bs) : body = RenderBy(choice, Earlier(bs, k)) /\ AsksIn(Earlier(bs, k), choice.protocol)
        BY <1>3 DEF WasSent
    <2>2. Earlier(later, k) = Earlier(bs, k) /\ k \in 0..Len(later)
        BY <1>2
    <2>3. body = RenderBy(choice, Earlier(later, k)) /\ AsksIn(Earlier(later, k), choice.protocol)
        BY <2>1, <2>2
    <2>4. body.ok
        BY <1>3 DEF WasSent
    <2> QED BY <2>2, <2>3, <2>4 DEF WasSent
<1> QED BY <1>3 DEF AreSent, later

(* A request that asked is sent.                                             *)
LEMMA SentNow ==
    ASSUME NEW choice, NEW bs, IsSequence(bs), NEW bodies, AreSent(choice, bs, bodies),
           RenderBy(choice, bs).ok, AsksIn(bs, choice.protocol)
    PROVE  AreSent(choice, bs, Append(bodies, RenderBy(choice, bs)))
<1> DEFINE body == RenderBy(choice, bs)
           more == Append(bodies, body)
           n == Len(bodies)
           V == ToSet(bodies)
<1>1. WasSent(choice, bs, body)
    <2> DEFINE l == Len(bs)
    <2>1. l \in Nat /\ Earlier(bs, l) = bs
        <3> DEFINE A == ToSet(bs)
        <3>1. bs \in Seq(A)
            BY DEF IsSequence
        <3> HIDE DEF A
        <3> QED BY <3>1 DEF Earlier
    <2> HIDE DEF l
    <2>2. l \in 0..l
        BY <2>1
    <2>3. body = RenderBy(choice, Earlier(bs, l)) /\ AsksIn(Earlier(bs, l), choice.protocol)
        BY <2>1
    <2> QED BY <2>2, <2>3 DEF WasSent, l
<1>2. /\ bodies \in Seq(V) /\ IsSequence(bodies)
      /\ \A s \in 1..n : WasSent(choice, bs, bodies[s])
    BY DEF AreSent, IsSequence
<1> HIDE DEF body, V
<1>3. /\ more \in Seq(V \cup {body}) /\ Len(more) = n + 1 /\ n \in Nat
      /\ more[n + 1] = body /\ \A s \in 1..n : more[s] = bodies[s]
    BY <1>2
<1> HIDE DEF more, n
<1>4. IsSequence(more)
    BY <1>3, SequenceOf
<1>5. \A s \in 1..(n + 1) : s = n + 1 \/ s \in 1..n
    BY <1>3
<1>6. \A s \in 1..(n + 1) : WasSent(choice, bs, more[s])
    BY <1>1, <1>2, <1>3, <1>5
<1> QED BY <1>3, <1>4, <1>6 DEF AreSent, more, body

(* The request of a context is what it renders to.                           *)
LEMMA RenderIs == \A bs : Render(bs) = RenderBy(api, bs)
BY Zenon DEF Render, RenderBy

(* The context grows; what was sent before is kept.                          *)
LEMMA GrowthKept ==
    ASSUME KeptInv, OffersInv', Appended, NEW bodies, AreSent(api, blocks, bodies), sent' = bodies
    PROVE  KeptInv'
<1>1. PICK news : IsSequence(news) /\ Grows(news)
    BY DEF Appended
<1>2. blocks' = blocks \o news /\ request' = Render(blocks') /\ api' = api
    BY <1>1 DEF Grows
<1>3. IsSequence(blocks)
    BY DEF KeptInv, OffersInv, IsContext
<1>4. AreSent(api, blocks \o news, bodies)
    BY <1>1, <1>3, SentStays
<1>5. request' = RenderBy(api', blocks')
    <2> DEFINE bs == blocks'
    <2>1. request' = Render(bs)
        BY <1>2
    <2> HIDE DEF bs
    <2>2. Render(bs) = RenderBy(api, bs)
        BY RenderIs
    <2> QED BY <1>2, <2>1, <2>2 DEF bs
<1>6. AreSent(api', blocks', sent')
    BY <1>2, <1>4
<1> QED BY <1>5, <1>6 DEF KeptInv

(* The host edits; nothing sent before counts from then on.                  *)
LEMMA EditForgets ==
    ASSUME KeptInv, OffersInv', NEW bs, Edit(bs)
    PROVE  KeptInv'
<1>1. blocks' = bs /\ request' = Render(bs) /\ api' = api /\ sent' = <<>>
    BY DEF Edit
<1>2. request' = RenderBy(api', blocks')
    BY <1>1, RenderIs
<1>3. AreSent(api', blocks', sent')
    <2>1. sent' = <<>> /\ IsSequence(<<>>) /\ Len(<<>>) = 0
        BY <1>1, Single
    <2> DEFINE x == sent'
    <2>2. IsSequence(x) /\ Len(x) = 0
        BY <2>1
    <2> HIDE DEF x
    <2>3. AreSent(api', blocks', x)
        BY <2>2 DEF AreSent
    <2> QED BY <2>3 DEF x
<1> QED BY <1>2, <1>3 DEF KeptInv

(* Nothing was sent at first.                                                *)
LEMMA KeptInit == Init => KeptInv
<1> SUFFICES ASSUME Init PROVE KeptInv
    OBVIOUS
<1>1. sent = <<>> /\ ~request.ok
    BY DEF Init
<1>2. IsSequence(<<>>) /\ Len(<<>>) = 0
    BY Single
<1>3. AreSent(api, blocks, <<>>)
    BY <1>2 DEF AreSent
<1> QED BY <1>1, <1>3, OffersInit DEF KeptInv

(* The model's answer is committed, and its request is one that was sent.    *)
LEMMA CommitModelSends ==
    ASSUME KeptInv, OffersInv', Appended, NEW response, CommitModel(response)
    PROVE  KeptInv'
<1>1. /\ request.ok /\ Asked(api.protocol) /\ sent' = Append(sent, request)
    BY DEF CommitModel
<1>2. request = RenderBy(api, blocks) /\ AreSent(api, blocks, sent) /\ IsSequence(blocks)
    BY <1>1 DEF KeptInv, OffersInv, IsContext
<1>3. AsksIn(blocks, api.protocol)
    BY <1>1 DEF Asked, AsksIn
<1>4. AreSent(api, blocks, Append(sent, RenderBy(api, blocks)))
    <2>1. RenderBy(api, blocks).ok
        BY <1>1, <1>2
    <2> QED BY <1>2, <1>3, <2>1, SentNow
<1> DEFINE bodies == Append(sent, RenderBy(api, blocks))
<1>5. sent' = bodies
    BY <1>1, <1>2
<1>6. AreSent(api, blocks, bodies)
    BY <1>4
<1> HIDE DEF bodies
<1> QED BY <1>5, <1>6, GrowthKept

(* Every step keeps that.                                                    *)
LEMMA KeptNext == KeptInv /\ [Next]_vars => KeptInv'
<1> SUFFICES ASSUME KeptInv, [Next]_vars PROVE KeptInv'
    OBVIOUS
<1>1. OffersInv /\ OffersInv' /\ AreSent(api, blocks, sent)
    BY OffersNext DEF KeptInv
<1>2. ASSUME Appended, sent' = sent PROVE KeptInv'
    <2> DEFINE bodies == sent
    <2>1. AreSent(api, blocks, bodies) /\ sent' = bodies
        BY <1>1, <1>2
    <2> HIDE DEF bodies
    <2> QED BY <1>1, <1>2, <2>1, GrowthKept
<1>3. ASSUME NEW message \in HostParts, HostSays(message) PROVE KeptInv'
    <2>1. sent' = sent
        BY <1>3 DEF HostSays
    <2> QED BY <1>1, <1>2, <1>3, <2>1, HostSaysKeeps
<1>4. ASSUME NEW i \in 1..Len(blocks), HostRemoves(i) PROVE KeptInv'
    BY <1>1, <1>4, EditForgets DEF HostRemoves
<1>5. ASSUME NEW i \in 1..Len(blocks), HostChangesCall(i) PROVE KeptInv'
    BY <1>1, <1>5, EditForgets DEF HostChangesCall
<1>6. ASSUME NEW i \in 1..Len(blocks), NEW part \in 1..2, HostRewrites(i, part) PROVE KeptInv'
    <2>1. PICK text \in {<<"new">>, <<>>} : Edit([blocks EXCEPT ![i].parts[part].text = text])
        BY <1>6 DEF HostRewrites
    <2> DEFINE bs == [blocks EXCEPT ![i].parts[part].text = text]
    <2>2. Edit(bs)
        BY <2>1
    <2> HIDE DEF bs
    <2> QED BY <1>1, <2>2, EditForgets
<1>7. ASSUME NEW surface \in Surfaces, RecordTools(surface) PROVE KeptInv'
    <2>1. sent' = sent
        BY <1>7 DEF RecordTools
    <2> QED BY <1>1, <1>2, <1>7, <2>1, RecordToolsKeeps
<1>8. ASSUME NEW ids \in CallIds, NEW response \in Responses(api.protocol, ids), CommitModel(response)
      PROVE  KeptInv'
    BY <1>1, <1>8, CommitModelKeeps, CommitModelSends
<1>9. ASSUME NEW answer \in Foreign, CommitForeign(answer.protocol, answer.response) PROVE KeptInv'
    <2>1. sent' = sent
        BY <1>9 DEF CommitForeign
    <2> QED BY <1>1, <1>2, <1>9, <2>1, CommitForeignKeeps
<1>10. ASSUME NEW order \in SetToSeqs(Open), CommitTools(order) PROVE KeptInv'
    <2>1. sent' = sent
        BY <1>10 DEF CommitTools
    <2> QED BY <1>1, <1>2, <1>10, <2>1, CommitToolsKeeps
<1>11. CASE UNCHANGED vars
    <2>1. api' = api /\ blocks' = blocks /\ request' = request /\ sent' = sent
        BY <1>11 DEF vars
    <2> QED BY <1>1, <2>1 DEF KeptInv
<1>12. CASE \E ids \in IF turns = <<>> THEN {"first"} ELSE CallIds :
              \E response \in Responses(api.protocol, ids) : CommitModel(response)
    <2>1. PICK ids \in CallIds : \E response \in Responses(api.protocol, ids) : CommitModel(response)
        BY <1>12 DEF CallIds
    <2> QED BY <1>8, <2>1
<1> QED BY <1>3, <1>4, <1>5, <1>6, <1>7, <1>9, <1>10, <1>11, <1>12 DEF Next, Hosts

(* So the invariant says that every request keeps what was sent.             *)
LEMMA KeptMeans == KeptInv => EarlierMessagesKept
<1> SUFFICES ASSUME KeptInv, request.ok, NEW s \in 1..Len(sent),
                    api.protocol = ResponsesName => sent[s].in_place = request.in_place
             PROVE  KeepsPrefix(sent[s], request)
    BY DEF EarlierMessagesKept
<1> DEFINE body == sent[s]
<1>1. WasSent(api, blocks, body) /\ request = RenderBy(api, blocks) /\ api.protocol \in Protocols /\ IsContext(blocks)
    BY DEF KeptInv, OffersInv, AreSent
<1> HIDE DEF body
<1>2. PICK k \in 0..Len(blocks) : /\ body = RenderBy(api, Earlier(blocks, k))
                                  /\ AsksIn(Earlier(blocks, k), api.protocol)
    BY <1>1 DEF WasSent
<1>3. body.ok
    BY <1>1 DEF WasSent
<1>4. api.protocol = ResponsesName => body.in_place = request.in_place
    BY DEF body
<1>5. KeepsPrefix(RenderBy(api, Earlier(blocks, k)), RenderBy(api, blocks))
    BY <1>1, <1>2, <1>3, <1>4, RenderKept
<1> QED BY <1>1, <1>2, <1>5 DEF body

(* Whatever is said, bound and answered, every later request of an unedited  *)
(* conversation begins with what was sent before, so that the provider's     *)
(* cache of it stays valid.                                                  *)
THEOREM ConversationKeepsEarlier == Spec => []EarlierMessagesKept
<1>1. Init => KeptInv
    BY KeptInit
<1>2. KeptInv /\ [Next]_vars => KeptInv'
    BY KeptNext
<1>3. KeptInv => EarlierMessagesKept
    BY KeptMeans
<1> QED BY <1>1, <1>2, <1>3, PTL DEF Spec
=============================================================================
