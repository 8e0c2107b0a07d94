--------------------------- MODULE ToolSourceProofs ---------------------------
(****************************************************************************)
(* Where a run's tools come from.  For any registry, any listings and any   *)
(* order of registrations: what a binding is made of, and whom its names    *)
(* reach.  For any number of callers, changes and bumps: a describe() of    *)
(* one source returns what was announced when it began, and a failed        *)
(* refresh hides older listings.  For any answers an MCP server may give:   *)
(* what the status recorded for a call claims is known, and nothing of an   *)
(* answer is lost or made up.                                               *)
(****************************************************************************)
EXTENDS ToolCatalog, DynamicSource, McpSource, SequenceTheorems, TLAPS

-----------------------------------------------------------------------------
(* The catalog and its registry.                                             *)

Description == [entry : Entry, listing : Seq(Name)]

TypeOK ==
    /\ registry \in Seq(Entry) /\ snapshot \in Seq(Entry)
    /\ registrations \in 0..MaxRegistrations
    /\ pc \in {"start", "static", "dynamic", "listing", "bound", "failed"}
    /\ index \in Nat \ {0}
    /\ tools \in Seq(Name)
    /\ described \in Seq(Description)

(* How far the bind has come.                                                *)
ProgressInv ==
    /\ pc = "start" => index = 1 /\ tools = <<>> /\ described = <<>>
    /\ pc = "static" => /\ index <= Len(StaticTools) + 1
                        /\ Len(tools) = index - 1
                        /\ described = <<>>
    /\ pc = "dynamic" => index <= Len(snapshot) + 1 /\ Len(described) = index - 1
    /\ pc = "listing" => /\ index <= Len(snapshot) /\ Len(described) = index
                         /\ described[index].listing = <<>>
    /\ pc = "bound" => Len(described) = Len(snapshot)

(* The snapshot is the registry of one moment, and what is described is it.  *)
SnapshotInv ==
    /\ pc \in {"static", "dynamic", "listing", "bound"} => snapshot \in during
    /\ pc # "failed" =>
           \A i \in 1..Len(described) : i <= Len(snapshot) => described[i].entry = snapshot[i]

StaticInv ==
    /\ pc = "static" =>
           \A i \in 1..Len(StaticTools) :
               i < index => /\ tools[i] = StaticTools[i]
                            /\ StaticTools[i] \in DOMAIN targets
                            /\ targets[StaticTools[i]] = Static
    /\ pc \in {"dynamic", "listing", "bound"} =>
           \A i \in 1..Len(StaticTools) :
               StaticTools[i] \in DOMAIN targets /\ targets[StaticTools[i]] = Static

TargetsInv ==
    /\ Unique(tools)
    /\ \A name : name \in DOMAIN targets <=> \E i \in 1..Len(tools) : tools[i] = name
    /\ \A i \in 1..Len(described) :
           \A j \in 1..Len(described[i].listing) :
               /\ described[i].listing[j] \in DOMAIN targets
               /\ targets[described[i].listing[j]] = described[i].entry

IInv ==
    /\ TypeOK /\ RegistryIdsUnique
    /\ ProgressInv /\ SnapshotInv /\ StaticInv /\ TargetsInv

-----------------------------------------------------------------------------
(* What sources list is a sequence of names.                                 *)
LEMMA ListingsAreSequences == Listings \subseteq Seq(Name)
<1> SUFFICES ASSUME NEW listing \in Listings PROVE listing \in Seq(Name)
  OBVIOUS
<1>1. PICK n \in 0..MaxListing : listing \in [1..n -> Name] BY DEF Listings
<1>2. n \in Nat BY BoundsAssumption
<1> QED BY <1>1, <1>2

(* Names that are new, and distinct, keep a list of names distinct.          *)
LEMMA UniqueConcat ==
    ASSUME NEW s \in Seq(Name), NEW t \in Seq(Name), Unique(s), Unique(t),
           \A i \in 1..Len(s), j \in 1..Len(t) : s[i] # t[j]
    PROVE  Unique(s \o t)
<1>1. /\ Len(s \o t) = Len(s) + Len(t) /\ Len(s) \in Nat /\ Len(t) \in Nat
      /\ \A i \in 1..Len(s) + Len(t) : (s \o t)[i] = IF i <= Len(s) THEN s[i] ELSE t[i - Len(s)]
  BY ConcatProperties, LenProperties
<1> SUFFICES ASSUME NEW i \in 1..Len(s) + Len(t), NEW j \in 1..Len(s) + Len(t),
                    (s \o t)[i] = (s \o t)[j]
             PROVE  i = j
  BY <1>1 DEF Unique
<1>2. CASE i <= Len(s) /\ j <= Len(s) BY <1>1, <1>2 DEF Unique
<1>3. CASE ~(i <= Len(s)) /\ ~(j <= Len(s))
  <2>1. i - Len(s) \in 1..Len(t) /\ j - Len(s) \in 1..Len(t) BY <1>1, <1>3
  <2>2. t[i - Len(s)] = t[j - Len(s)] BY <1>1, <1>3
  <2>3. i - Len(s) = j - Len(s) BY <2>1, <2>2 DEF Unique
  <2> QED BY <1>1, <2>3
<1>4. CASE i <= Len(s) /\ ~(j <= Len(s))
  <2>1. i \in 1..Len(s) /\ j - Len(s) \in 1..Len(t) BY <1>1, <1>4
  <2> QED BY <1>1, <1>4, <2>1
<1>5. CASE ~(i <= Len(s)) /\ j <= Len(s)
  <2>1. j \in 1..Len(s) /\ i - Len(s) \in 1..Len(t) BY <1>1, <1>5
  <2> QED BY <1>1, <1>5, <2>1
<1> QED BY <1>2, <1>3, <1>4, <1>5

Without(s, i) == SubSeq(s, 1, i - 1) \o SubSeq(s, i + 1, Len(s))

(* Unregistering keeps the others in their order.                            *)
LEMMA WithoutEffect ==
    ASSUME NEW s \in Seq(Entry), NEW i \in 1..Len(s)
    PROVE  /\ Without(s, i) \in Seq(Entry)
           /\ Len(Without(s, i)) = Len(s) - 1
           /\ \A k \in 1..Len(s) - 1 : Without(s, i)[k] = IF k < i THEN s[k] ELSE s[k + 1]
<1> DEFINE front == SubSeq(s, 1, i - 1)
           rest  == SubSeq(s, i + 1, Len(s))
<1>1. Len(s) \in Nat /\ \A k \in 1..Len(s) : s[k] \in Entry
  BY LenProperties, ElementOfSeq
<1>2. /\ front \in Seq(Entry) /\ Len(front) = i - 1
      /\ \A k \in 1..i - 1 : front[k] = s[k]
  BY <1>1, SubSeqProperties
<1>3. /\ rest \in Seq(Entry) /\ Len(rest) = Len(s) - i
      /\ \A k \in 1..Len(s) - i : rest[k] = s[i + k]
  BY <1>1, SubSeqProperties
<1> HIDE DEF front, rest
<1>4. /\ front \o rest \in Seq(Entry) /\ Len(front \o rest) = Len(s) - 1
      /\ \A k \in 1..Len(s) - 1 :
             (front \o rest)[k] = IF k <= i - 1 THEN front[k] ELSE rest[k - (i - 1)]
  <2>1. /\ front \o rest \in Seq(Entry) /\ Len(front \o rest) = Len(front) + Len(rest)
        /\ \A k \in 1..Len(front) + Len(rest) :
               (front \o rest)[k] = IF k <= Len(front) THEN front[k] ELSE rest[k - Len(front)]
    BY <1>2, <1>3, ConcatProperties
  <2>2. Len(front) + Len(rest) = Len(s) - 1 BY <1>1, <1>2, <1>3
  <2> QED BY <1>2, <2>1, <2>2
<1>5. ASSUME NEW k \in 1..Len(s) - 1
      PROVE  (front \o rest)[k] = IF k < i THEN s[k] ELSE s[k + 1]
  <2>1. CASE k < i BY <1>1, <1>2, <1>4, <2>1
  <2>2. CASE ~(k < i)
    <3>1. k - (i - 1) \in 1..Len(s) - i /\ i + (k - (i - 1)) = k + 1 BY <1>1, <2>2
    <3> QED BY <1>1, <1>3, <1>4, <2>2, <3>1
  <2> QED BY <2>1, <2>2
<1> QED BY <1>4, <1>5 DEF front, rest, Without

-----------------------------------------------------------------------------
(* An empty registry, and no bind yet.                                       *)
LEMMA InitInv == Init => IInv
<1> SUFFICES ASSUME Init PROVE IInv
  OBVIOUS
<1> USE BoundsAssumption, StaticAssumption DEF Init
<1>1. TypeOK /\ RegistryIdsUnique BY EmptySeq DEF TypeOK, RegistryIdsUnique
<1>2. ProgressInv /\ SnapshotInv /\ StaticInv
  BY EmptySeq DEF ProgressInv, SnapshotInv, StaticInv
<1>3. TargetsInv BY EmptySeq DEF TargetsInv, Unique
<1> QED BY <1>1, <1>2, <1>3 DEF IInv

(* The host changes the registry only.                                       *)
LEMMA ChangedInv ==
    ASSUME IInv, NEW entries \in Seq(Entry), Changed(entries)
    PROVE  /\ registry' \in Seq(Entry)
           /\ ProgressInv' /\ SnapshotInv' /\ StaticInv' /\ TargetsInv'
<1> USE DEF IInv, Changed, bind
<1>1. registry' \in Seq(Entry) OBVIOUS
<1>2. ProgressInv' BY DEF ProgressInv
<1>3. SnapshotInv'
  <2>1. during \subseteq during' OBVIOUS
  <2> QED BY <2>1 DEF SnapshotInv
<1>4. StaticInv' BY DEF StaticInv
<1>5. TargetsInv' BY DEF TargetsInv, Unique
<1> QED BY <1>1, <1>2, <1>3, <1>4, <1>5

(* A source is registered.                                                   *)
LEMMA RegisterInv ==
    ASSUME IInv, NEW id \in Id, RegisterDynamic(id)
    PROVE  IInv'
<1> DEFINE entry == [id |-> id, registration |-> registrations + 1]
<1>1. entry \in Entry /\ registry \in Seq(Entry) /\ Changed(Append(registry, entry))
  BY BoundsAssumption DEF RegisterDynamic, Entry, IInv, TypeOK
<1>2. Append(registry, entry) \in Seq(Entry) BY <1>1
<1>3. TypeOK'
  BY <1>1, <1>2, ChangedInv, BoundsAssumption DEF RegisterDynamic, IInv, TypeOK, Changed, bind
<1>4. RegistryIdsUnique'
  <2>1. /\ Len(registry') = Len(registry) + 1 /\ Len(registry) \in Nat
        /\ \A i \in 1..Len(registry) : registry'[i] = registry[i]
        /\ registry'[Len(registry) + 1].id = id
    BY <1>1 DEF Changed
  <2>2. \A i \in 1..Len(registry) : registry[i].id # id BY DEF RegisterDynamic
  <2> QED BY <2>1, <2>2 DEF IInv, RegistryIdsUnique
<1> QED BY <1>1, <1>2, <1>3, <1>4, ChangedInv DEF IInv

(* A source is unregistered.                                                 *)
LEMMA UnregisterInv ==
    ASSUME IInv, NEW id \in Id, UnregisterDynamic(id)
    PROVE  IInv'
<1>1. PICK i \in 1..Len(registry) : Changed(Without(registry, i))
  BY DEF UnregisterDynamic, Without
<1>2. registry \in Seq(Entry) /\ Len(registry) \in Nat BY DEF IInv, TypeOK
<1>3. /\ Without(registry, i) \in Seq(Entry)
      /\ Len(Without(registry, i)) = Len(registry) - 1
      /\ \A k \in 1..Len(registry) - 1 :
             Without(registry, i)[k] = IF k < i THEN registry[k] ELSE registry[k + 1]
  BY <1>2, WithoutEffect
<1>4. registry' = Without(registry, i) BY <1>1 DEF Changed
<1>5. TypeOK'
  BY <1>1, <1>3, <1>4 DEF UnregisterDynamic, IInv, TypeOK, Changed, bind
<1>6. RegistryIdsUnique'
  <2> SUFFICES ASSUME NEW j \in 1..Len(registry) - 1, NEW k \in 1..Len(registry) - 1,
                      registry'[j].id = registry'[k].id
               PROVE  j = k
    BY <1>3, <1>4 DEF RegistryIdsUnique
  <2> DEFINE m == IF j < i THEN j ELSE j + 1
             n == IF k < i THEN k ELSE k + 1
  <2>1. registry'[j] = registry[m] /\ registry'[k] = registry[n]
    BY <1>3, <1>4
  <2>2. m \in 1..Len(registry) /\ n \in 1..Len(registry)
    BY <1>2
  <2> HIDE DEF m, n
  <2>3. m = n
    BY <2>1, <2>2 DEF IInv, RegistryIdsUnique
  <2> USE DEF m, n
  <2> QED BY <1>2, <2>3
<1> QED BY <1>1, <1>3, <1>5, <1>6, ChangedInv DEF IInv

-----------------------------------------------------------------------------
(* The bind.                                                                 *)
LEMMA FailInv ==
    ASSUME IInv, Fail
    PROVE  IInv'
<1> USE DEF IInv, Fail, host
<1>1. TypeOK' BY DEF TypeOK
<1>2. RegistryIdsUnique' BY DEF RegistryIdsUnique
<1>3. ProgressInv' /\ SnapshotInv' /\ StaticInv'
  BY DEF ProgressInv, SnapshotInv, StaticInv
<1>4. TargetsInv' BY DEF TargetsInv, Unique
<1> QED BY <1>1, <1>2, <1>3, <1>4

(* A bind copies the registry.                                               *)
LEMMA TakeSnapshotInv ==
    ASSUME IInv, TakeSnapshot
    PROVE  IInv'
<1> USE StaticAssumption DEF IInv, TakeSnapshot, host
<1>1. TypeOK' BY DEF TypeOK
<1>2. RegistryIdsUnique' BY DEF RegistryIdsUnique
<1>3. index = 1 /\ tools = <<>> /\ described = <<>> BY DEF ProgressInv
<1>4. ProgressInv' BY <1>3, EmptySeq DEF ProgressInv
<1>5. SnapshotInv' BY <1>3, EmptySeq DEF SnapshotInv
<1>6. StaticInv' BY <1>3 DEF StaticInv
<1>7. TargetsInv' BY DEF TargetsInv, Unique
<1> QED BY <1>1, <1>2, <1>4, <1>5, <1>6, <1>7

(* The bind has taken all static tools and turns to the sources.             *)
LEMMA StaticBoundInv ==
    ASSUME IInv, StaticBound
    PROVE  IInv'
<1> USE StaticAssumption DEF IInv, StaticBound, host
<1>1. TypeOK' BY DEF TypeOK
<1>2. RegistryIdsUnique' BY DEF RegistryIdsUnique
<1>3. index = Len(StaticTools) + 1 /\ described = <<>>
  BY DEF ProgressInv, TypeOK
<1>4. Len(snapshot) \in Nat BY DEF TypeOK
<1>5. ProgressInv' BY <1>3, <1>4, EmptySeq DEF ProgressInv
<1>6. SnapshotInv' BY DEF SnapshotInv
<1>7. StaticInv' BY <1>3 DEF StaticInv
<1>8. TargetsInv' BY DEF TargetsInv, Unique
<1> QED BY <1>1, <1>2, <1>5, <1>6, <1>7, <1>8

(* A bind turns to its next source.                                          *)
LEMMA StartDescribeInv ==
    ASSUME IInv, StartDescribe
    PROVE  IInv'
<1> USE DEF IInv, StartDescribe, host, Sources
<1>1. /\ snapshot \in Seq(Entry) /\ described \in Seq(Description)
      /\ index \in 1..Len(snapshot) /\ Len(described) = index - 1
  BY DEF TypeOK, ProgressInv
<1> DEFINE description == [entry |-> snapshot[index], listing |-> <<>>]
<1>2. description \in Description
  <2>1. snapshot[index] \in Entry BY <1>1, ElementOfSeq
  <2> QED BY <2>1, EmptySeq DEF Description
<1>3. /\ described' \in Seq(Description) /\ Len(described') = index
      /\ \A i \in 1..Len(described) : described'[i] = described[i]
      /\ described'[index] = description
  BY <1>1, <1>2
<1>4. TypeOK' BY <1>3 DEF TypeOK
<1>5. RegistryIdsUnique' BY DEF RegistryIdsUnique
<1>6. ProgressInv' BY <1>1, <1>3 DEF ProgressInv
<1>7. SnapshotInv' BY <1>1, <1>3 DEF SnapshotInv
<1>8. StaticInv' BY DEF StaticInv
<1>9. TargetsInv'
  <2>1. Unique(tools') /\ \A name : name \in DOMAIN targets' <=> \E i \in 1..Len(tools') : tools'[i] = name
    BY DEF TargetsInv, Unique
  <2>2. ASSUME NEW i \in 1..Len(described'), NEW j \in 1..Len(described'[i].listing)
        PROVE  /\ described'[i].listing[j] \in DOMAIN targets'
               /\ targets'[described'[i].listing[j]] = described'[i].entry
    <3>1. CASE i = index
      <4>1. described'[i].listing = <<>> BY <1>3, <3>1
      <4> QED BY <4>1, EmptySeq
    <3>2. CASE i # index
      <4>1. i \in 1..Len(described) /\ described'[i] = described[i] BY <1>1, <1>3, <3>2
      <4> QED BY <4>1 DEF TargetsInv
    <3> QED BY <3>1, <3>2
  <2> QED BY <2>1, <2>2 DEF TargetsInv
<1> QED BY <1>4, <1>5, <1>6, <1>7, <1>8, <1>9

(* A bind returns.                                                           *)
LEMMA FinishInv ==
    ASSUME IInv, Finish
    PROVE  IInv'
<1> USE DEF IInv, Finish, host, Sources
<1>1. TypeOK' BY DEF TypeOK
<1>2. RegistryIdsUnique' BY DEF RegistryIdsUnique
<1>3. ProgressInv' BY DEF ProgressInv, TypeOK
<1>4. SnapshotInv' BY DEF SnapshotInv
<1>5. StaticInv' BY DEF StaticInv
<1>6. TargetsInv' BY DEF TargetsInv, Unique
<1> QED BY <1>1, <1>2, <1>3, <1>4, <1>5, <1>6

(* A bind takes its next static tool.                                        *)
LEMMA BindStaticInv ==
    ASSUME IInv, BindStatic
    PROVE  IInv'
<1> USE StaticAssumption DEF IInv, BindStatic, host
<1> DEFINE name == StaticTools[index]
<1>1. /\ tools \in Seq(Name) /\ index \in 1..Len(StaticTools) /\ Len(StaticTools) \in Nat
      /\ Len(tools) = index - 1 /\ described = <<>>
      /\ name \in Name
  BY ElementOfSeq DEF TypeOK, ProgressInv
<1>2. /\ tools' \in Seq(Name) /\ Len(tools') = index
      /\ \A i \in 1..index - 1 : tools'[i] = tools[i]
      /\ tools'[index] = name
  BY <1>1
<1>3. \A i \in 1..index - 1 : tools[i] = StaticTools[i]
  BY <1>1 DEF StaticInv
<1>4. /\ DOMAIN targets' = DOMAIN targets \cup {name}
      /\ targets'[name] = Static
      /\ \A other \in DOMAIN targets \ {name} : targets'[other] = targets[other]
  <2>1. targets' = Routed({name}, Static) OBVIOUS
  <2> HIDE DEF name
  <2> QED BY <2>1 DEF Routed
<1>5. TypeOK' BY <1>1, <1>2 DEF TypeOK
<1>6. RegistryIdsUnique' BY DEF RegistryIdsUnique
<1>7. ProgressInv' BY <1>1, <1>2 DEF ProgressInv
<1>8. SnapshotInv' BY DEF SnapshotInv
<1>9. StaticInv'
  <2> SUFFICES ASSUME NEW i \in 1..Len(StaticTools), i < index + 1
               PROVE  /\ tools'[i] = StaticTools[i]
                      /\ StaticTools[i] \in DOMAIN targets'
                      /\ targets'[StaticTools[i]] = Static
    BY DEF StaticInv
  <2>1. CASE i = index BY <1>2, <1>4, <2>1
  <2>2. CASE i # index
    <3>1. i \in 1..index - 1 /\ i < index BY <1>1, <2>2
    <3>2. StaticTools[i] \in DOMAIN targets /\ targets[StaticTools[i]] = Static
      BY <3>1 DEF StaticInv
    <3>3. StaticTools[i] # name BY <1>1, <3>1 DEF Unique
    <3> QED BY <1>2, <1>3, <1>4, <3>1, <3>2, <3>3
  <2> QED BY <2>1, <2>2
<1>10. TargetsInv'
  <2>1. Unique(tools')
    BY <1>1, <1>2, <1>3 DEF Unique
  <2>2. ASSUME NEW other PROVE other \in DOMAIN targets' <=> \E i \in 1..Len(tools') : tools'[i] = other
    <3>1. other \in DOMAIN targets <=> \E i \in 1..index - 1 : tools[i] = other
      BY <1>1 DEF TargetsInv
    <3>2. (\E i \in 1..index : tools'[i] = other)
             <=> (other = name \/ \E i \in 1..index - 1 : tools[i] = other)
      BY <1>1, <1>2
    <3> QED BY <1>2, <1>4, <3>1, <3>2
  <2>3. described' = <<>> /\ Len(described') = 0 BY <1>1, EmptySeq
  <2>4. \A i \in 1..Len(described') : FALSE BY <2>3
  <2> QED BY <2>1, <2>2, <2>4 DEF TargetsInv
<1> QED BY <1>5, <1>6, <1>7, <1>8, <1>9, <1>10

(* A source answered, and its names are new.                                 *)
LEMMA DescribedInv ==
    ASSUME IInv, Described
    PROVE  IInv'
<1> USE DEF IInv, host
<1> DEFINE last  == Len(described)
           entry == described[last].entry
<1>1. PICK listing \in Listings :
          /\ NewNames(listing)
          /\ described' = [described EXCEPT ![last].listing = listing]
          /\ tools' = tools \o listing
          /\ targets' = Routed({listing[i] : i \in 1..Len(listing)}, entry)
  BY DEF Described
<1>2. /\ index' = index + 1 /\ pc' = "dynamic" /\ pc = "listing"
      /\ UNCHANGED <<registry, registrations, snapshot, stopped, during>>
  BY DEF Described
<1>3. /\ tools \in Seq(Name) /\ listing \in Seq(Name)
      /\ snapshot \in Seq(Entry) /\ described \in Seq(Description)
      /\ index \in 1..Len(snapshot) /\ last = index
  BY <1>2, ListingsAreSequences DEF TypeOK, ProgressInv
<1>4. Len(listing) \in Nat /\ Len(tools) \in Nat /\ Len(snapshot) \in Nat BY <1>3
<1>5. /\ tools' \in Seq(Name) /\ Len(tools') = Len(tools) + Len(listing)
      /\ \A i \in 1..Len(tools) + Len(listing) :
             tools'[i] = IF i <= Len(tools) THEN tools[i] ELSE listing[i - Len(tools)]
  BY <1>1, <1>3, ConcatProperties
<1>6. /\ described' \in Seq(Description) /\ Len(described') = index
      /\ \A i \in 1..index : described'[i].entry = described[i].entry
      /\ \A i \in 1..index - 1 : described'[i] = described[i]
      /\ described'[index].listing = listing
  <2>1. described[index] \in Description BY <1>3, ElementOfSeq
  <2>2. [described[index] EXCEPT !.listing = listing] \in Description
    BY <1>3, <2>1 DEF Description
  <2>3. described' = [described EXCEPT ![index] = [described[index] EXCEPT !.listing = listing]]
    BY <1>1, <1>3
  <2>4. described' \in Seq(Description) /\ Len(described') = Len(described)
    BY <1>3, <2>2, <2>3, ExceptSeq
  <2>5. /\ described'[index] = [described[index] EXCEPT !.listing = listing]
        /\ \A i \in 1..index - 1 : described'[i] = described[i]
    <3> DEFINE filled == [described[index] EXCEPT !.listing = listing]
    <3>1. filled \in Description /\ index \in 1..Len(described) BY <1>3, <2>2
    <3>2. described' = [described EXCEPT ![index] = filled] BY <2>3
    <3> HIDE DEF filled
    <3>3. \A i \in 1..Len(described) : described'[i] = IF i = index THEN filled ELSE described[i]
      BY <1>3, <3>1, <3>2, ExceptSeq
    <3>4. \A i \in 1..index - 1 : i \in 1..Len(described) /\ i # index BY <1>3
    <3> QED BY <3>1, <3>3, <3>4 DEF filled
  <2>6. described'[index].entry = described[index].entry /\ described'[index].listing = listing
    BY <2>1, <2>5 DEF Description
  <2>7. \A i \in 1..index : i = index \/ i \in 1..index - 1 BY <1>3
  <2>8. \A i \in 1..index : described'[i].entry = described[i].entry BY <2>5, <2>6, <2>7
  <2> QED BY <1>3, <2>4, <2>5, <2>6, <2>8
<1>7. /\ DOMAIN targets' = DOMAIN targets \cup {listing[i] : i \in 1..Len(listing)}
      /\ \A i \in 1..Len(listing) : targets'[listing[i]] = entry
      /\ \A other \in DOMAIN targets \ {listing[i] : i \in 1..Len(listing)} :
             targets'[other] = targets[other]
  <2> DEFINE names == {listing[i] : i \in 1..Len(listing)}
  <2>1. targets' = Routed(names, entry) BY <1>1
  <2>2. \A i \in 1..Len(listing) : listing[i] \in names OBVIOUS
  <2> HIDE DEF names, entry
  <2>3. /\ DOMAIN targets' = DOMAIN targets \cup names
        /\ \A name \in names : targets'[name] = entry
        /\ \A name \in DOMAIN targets \ names : targets'[name] = targets[name]
    BY <2>1 DEF Routed
  <2> QED BY <2>2, <2>3 DEF names
<1>8. Unique(listing) /\ \A i \in 1..Len(listing) : listing[i] \notin DOMAIN targets
  BY <1>1 DEF NewNames
<1>9. \A other \in DOMAIN targets : other \in DOMAIN targets' /\ targets'[other] = targets[other]
  BY <1>7, <1>8
<1>10. TypeOK' BY <1>2, <1>3, <1>5, <1>6 DEF TypeOK
<1>11. RegistryIdsUnique' BY <1>2 DEF RegistryIdsUnique
<1>12. ProgressInv' BY <1>2, <1>3, <1>4, <1>6 DEF ProgressInv
<1>13. SnapshotInv' BY <1>2, <1>3, <1>6 DEF SnapshotInv
<1>14. StaticInv' BY <1>2, <1>9 DEF StaticInv
<1>15. TargetsInv'
  <2>1. Unique(tools')
    <3>1. Unique(tools) BY DEF TargetsInv
    <3>2. \A i \in 1..Len(tools), j \in 1..Len(listing) : tools[i] # listing[j]
      BY <1>8 DEF TargetsInv
    <3> QED BY <1>1, <1>3, <1>8, <3>1, <3>2, UniqueConcat
  <2>2. ASSUME NEW other PROVE other \in DOMAIN targets' <=> \E i \in 1..Len(tools') : tools'[i] = other
    <3>1. other \in DOMAIN targets <=> \E i \in 1..Len(tools) : tools[i] = other
      BY DEF TargetsInv
    <3>2. ASSUME NEW i \in 1..Len(tools') , tools'[i] = other
          PROVE  \/ \E k \in 1..Len(tools) : tools[k] = other
                 \/ \E k \in 1..Len(listing) : listing[k] = other
      <4>1. CASE i <= Len(tools)
        <5>1. i \in 1..Len(tools) BY <1>4, <4>1
        <5> QED BY <1>5, <3>2, <4>1, <5>1
      <4>2. CASE ~(i <= Len(tools))
        <5>1. i - Len(tools) \in 1..Len(listing) BY <1>4, <1>5, <4>2
        <5> QED BY <1>5, <3>2, <4>2, <5>1
      <4> QED BY <4>1, <4>2
    <3>3. ASSUME NEW k \in 1..Len(tools), tools[k] = other
          PROVE  \E i \in 1..Len(tools') : tools'[i] = other
      <4>1. k \in 1..Len(tools') /\ k <= Len(tools) BY <1>4, <1>5
      <4> QED BY <1>5, <3>3, <4>1
    <3>4. ASSUME NEW k \in 1..Len(listing), listing[k] = other
          PROVE  \E i \in 1..Len(tools') : tools'[i] = other
      <4>1. /\ k + Len(tools) \in 1..Len(tools') /\ ~(k + Len(tools) <= Len(tools))
            /\ k + Len(tools) - Len(tools) = k
        BY <1>4, <1>5
      <4>2. tools'[k + Len(tools)] = listing[k] BY <1>5, <4>1
      <4> QED BY <3>4, <4>1, <4>2
    <3> QED BY <1>7, <3>1, <3>2, <3>3, <3>4
  <2>3. ASSUME NEW i \in 1..Len(described'), NEW j \in 1..Len(described'[i].listing)
        PROVE  /\ described'[i].listing[j] \in DOMAIN targets'
               /\ targets'[described'[i].listing[j]] = described'[i].entry
    <3>1. CASE i = index
      <4>1. /\ described'[i].listing = listing /\ described'[i].entry = entry
            /\ j \in 1..Len(listing)
        BY <1>3, <1>6, <3>1
      <4>2. targets'[listing[j]] = entry /\ listing[j] \in DOMAIN targets' BY <1>7, <4>1
      <4> QED BY <4>1, <4>2
    <3>2. CASE i # index
      <4>1. i \in 1..last /\ described'[i] = described[i] BY <1>3, <1>6, <3>2
      <4>2. /\ described[i].listing[j] \in DOMAIN targets
            /\ targets[described[i].listing[j]] = described[i].entry
        BY <4>1 DEF TargetsInv
      <4> QED BY <1>9, <4>1, <4>2
    <3> QED BY <3>1, <3>2
  <2> QED BY <2>1, <2>2, <2>3 DEF TargetsInv
<1> QED BY <1>10, <1>11, <1>12, <1>13, <1>14, <1>15

-----------------------------------------------------------------------------
(* Every step keeps the invariant,                                           *)
LEMMA NextInv == IInv /\ [Next]_vars => IInv'
<1> SUFFICES ASSUME IInv, [Next]_vars PROVE IInv'
  OBVIOUS
<1>1. CASE Host BY <1>1, RegisterInv, UnregisterInv DEF Host
<1>2. ASSUME UNCHANGED <<host, bind, during, described>> PROVE IInv'
  <2> USE <1>2 DEF IInv, host, bind
  <2>1. TypeOK' /\ RegistryIdsUnique' BY DEF TypeOK, RegistryIdsUnique
  <2>2. ProgressInv' /\ SnapshotInv' BY DEF ProgressInv, SnapshotInv
  <2>3. StaticInv' /\ TargetsInv' BY DEF StaticInv, TargetsInv, Unique
  <2> QED BY <2>1, <2>2, <2>3
<1>3. CASE Stop BY <1>2, <1>3 DEF Stop
<1>4. CASE ControlStops \/ StaticNameChanged \/ DuplicateTool \/ DescribeFails
  BY <1>4, FailInv DEF ControlStops, StaticNameChanged, DuplicateTool, DescribeFails
<1>5. CASE TakeSnapshot BY <1>5, TakeSnapshotInv
<1>6. CASE BindStatic BY <1>6, BindStaticInv
<1>7. CASE StaticBound BY <1>7, StaticBoundInv
<1>8. CASE StartDescribe BY <1>8, StartDescribeInv
<1>9. CASE Described BY <1>9, DescribedInv
<1>10. CASE Finish BY <1>10, FinishInv
<1>11. CASE UNCHANGED vars BY <1>2, <1>11 DEF vars
<1> QED BY <1>1, <1>3, <1>4, <1>5, <1>6, <1>7, <1>8, <1>9, <1>10, <1>11
    DEF Next, Bind, Terminated

(* so that it holds of every reachable state (bind and register).            *)
THEOREM Invariant == Spec => []IInv
BY InitInv, NextInv, PTL DEF Spec

(* No order of register_dynamic and unregister_dynamic leaves two sources    *)
(* with one id.                                                              *)
THEOREM OneSourcePerId == Spec => []RegistryIdsUnique
<1>1. IInv => RegistryIdsUnique BY DEF IInv
<1> QED BY Invariant, <1>1, PTL

(* However registration and bind interleave, a binding is made of sources    *)
(* that were registered together.                                            *)
THEOREM BindsOneMoment == Spec => []OneMoment
<1>1. IInv => OneMoment
  <2> SUFFICES ASSUME IInv, pc = "bound"
               PROVE  /\ snapshot \in during
                      /\ Len(described) = Len(snapshot)
                      /\ \A i \in 1..Len(snapshot) : described[i].entry = snapshot[i]
    BY DEF OneMoment
  <2>1. snapshot \in Seq(Entry) BY DEF IInv, TypeOK
  <2> QED BY <2>1 DEF IInv, ProgressInv, SnapshotInv
<1> QED BY Invariant, <1>1, PTL

(* Whatever the sources list, a bound name is one tool, and its calls reach  *)
(* the source that listed it.                                                *)
THEOREM BoundNamesRoute == Spec => []NamesRoute
<1>1. IInv => NamesRoute
  <2> SUFFICES ASSUME IInv, pc = "bound" PROVE NamesRoute
    BY DEF NamesRoute
  <2>1. DOMAIN targets = {tools[i] : i \in 1..Len(tools)} BY DEF IInv, TargetsInv
  <2> QED BY <2>1 DEF NamesRoute, IInv, StaticInv, TargetsInv
<1> QED BY Invariant, <1>1, PTL

-----------------------------------------------------------------------------
(* The listing cache of one source.                                          *)

(* A call past its first step observed a version that was set already;       *)
ObservedInv == \A c \in Caller : observed[c] <= version

(* what a version announced the catalog has;                                 *)
AnnouncedInv == \A v \in 0..MaxBumps : announced[v] <= catalog

(* a listing taken has what the observed version announced;                  *)
ListedInv ==
    \A c \in Caller :
        at[c] \in {"answered", "publishing", "ok"} =>
            announced[observed[c]] <= listed[c] /\ listed[c] <= catalog

(* and so has the cached one for the version it is filed under.              *)
CachedInv ==
    cached # None => /\ cached.version <= version
                     /\ announced[cached.version] <= cached.listing
                     /\ cached.listing <= catalog

(* Who published is still the latest refresh, and is done.                   *)
PublisherInv == cached # None => cached.by = latest /\ at[cached.by] = "ok"

FreshInv == CacheTypeOK /\ ObservedInv /\ AnnouncedInv /\ ListedInv /\ CachedInv /\ PublisherInv

(* The invariant holds at the start: nothing was announced, nothing cached.  *)
LEMMA FreshInit == CacheInit => FreshInv
  BY CacheBoundsAssumption
  DEF CacheInit, FreshInv, CacheTypeOK, ObservedInv, AnnouncedInv, ListedInv, CachedInv, PublisherInv

(* Every step keeps it.                                                      *)
LEMMA FreshNext == FreshInv /\ [CacheNext]_cacheVars => FreshInv'
<1> USE NoneAssumption, CacheBoundsAssumption
<1> SUFFICES ASSUME FreshInv, [CacheNext]_cacheVars PROVE FreshInv'
  OBVIOUS
<1>i. CacheTypeOK /\ ObservedInv /\ AnnouncedInv /\ ListedInv /\ CachedInv /\ PublisherInv
  BY DEF FreshInv
<1> USE DEF cache, calls
<1>1. CASE Change
  <2>1. CacheTypeOK'
    BY <1>1, <1>i DEF Change, CacheTypeOK
  <2>2. (ObservedInv /\ AnnouncedInv /\ ListedInv)'
    BY <1>1, <1>i, SMTT(30) DEF Change, CacheTypeOK, ObservedInv, AnnouncedInv, ListedInv
  <2>3. (CachedInv /\ PublisherInv)'
    BY <1>1, <1>i DEF Change, CacheTypeOK, Listing, CachedInv, PublisherInv
  <2> QED BY <2>1, <2>2, <2>3 DEF FreshInv
<1>2. CASE Bump
  <2>1. CacheTypeOK'
    BY <1>2, <1>i, SMTT(30) DEF Bump, CacheTypeOK
  <2>2. \A v \in 0..version : announced'[v] = announced[v]
    BY <1>2, <1>i DEF Bump, CacheTypeOK
  <2>3. (ObservedInv /\ AnnouncedInv)'
    BY <1>2, <1>i, SMTT(30) DEF Bump, CacheTypeOK, ObservedInv, AnnouncedInv
  <2>4. ListedInv'
    BY <1>2, <1>i, <2>2 DEF Bump, CacheTypeOK, ObservedInv, ListedInv
  <2>5. (CachedInv /\ PublisherInv)'
    BY <1>2, <1>i, <2>2 DEF Bump, CacheTypeOK, Listing, CachedInv, PublisherInv
  <2> QED BY <2>1, <2>3, <2>4, <2>5 DEF FreshInv
<1>3. ASSUME NEW c \in Caller, Describe(c) PROVE FreshInv'
  <2>1. CASE Observe(c)
    <3>1. CacheTypeOK'
      BY <2>1, <1>i DEF Observe, Goto, CacheTypeOK
    <3>2. (ObservedInv /\ AnnouncedInv)'
      BY <2>1, <1>i DEF Observe, CacheTypeOK, ObservedInv, AnnouncedInv
    <3>4. ListedInv'
      BY <2>1, <1>i DEF Observe, Goto, CacheTypeOK, ListedInv
    <3>3. (CachedInv /\ PublisherInv)'
      BY <2>1, <1>i DEF Observe, Goto, CacheTypeOK, Listing, CachedInv, PublisherInv
    <3> QED BY <3>1, <3>2, <3>3, <3>4 DEF FreshInv
  <2>2. CASE Hit(c)
    <3>0. /\ cached \in Listing /\ cached.version = observed[c]
          /\ announced[observed[c]] <= cached.listing /\ cached.listing <= catalog
      BY <2>2, <1>i DEF Hit, Current, CacheTypeOK, CachedInv
    <3>1. CacheTypeOK'
      BY <2>2, <3>0, <1>i DEF Hit, Goto, CacheTypeOK, Listing
    <3>2. (ObservedInv /\ AnnouncedInv /\ ListedInv)'
      BY <2>2, <3>0, <1>i DEF Hit, Goto, CacheTypeOK, ObservedInv, AnnouncedInv, ListedInv
    <3>3. (CachedInv /\ PublisherInv)'
      BY <2>2, <1>i DEF Hit, Goto, CacheTypeOK, Listing, CachedInv, PublisherInv
    <3> QED BY <3>1, <3>2, <3>3 DEF FreshInv
  <2>3. CASE Refresh(c)
    <3>1. CacheTypeOK'
      BY <2>3, <1>i DEF Refresh, Goto, CacheTypeOK
    <3>2. (ObservedInv /\ AnnouncedInv /\ ListedInv)'
      BY <2>3, <1>i DEF Refresh, Goto, CacheTypeOK, ObservedInv, AnnouncedInv, ListedInv
    <3>3. (CachedInv /\ PublisherInv)'
      BY <2>3, <1>i DEF Refresh, CachedInv, PublisherInv
    <3> QED BY <3>1, <3>2, <3>3 DEF FreshInv
  <2>4. CASE SourceLists(c)
    <3>1. CacheTypeOK'
      BY <2>4, <1>i DEF SourceLists, Goto, CacheTypeOK
    <3>2. (ObservedInv /\ AnnouncedInv)'
      BY <2>4, <1>i DEF SourceLists, ObservedInv, AnnouncedInv
    <3>4. announced[observed[c]] <= catalog
      BY <1>i DEF CacheTypeOK, AnnouncedInv
    <3>5. ListedInv'
      BY <2>4, <3>4, <1>i DEF SourceLists, Goto, CacheTypeOK, ListedInv
    <3>3. (CachedInv /\ PublisherInv)'
      BY <2>4, <1>i DEF SourceLists, Goto, CacheTypeOK, Listing, CachedInv, PublisherInv
    <3> QED BY <3>1, <3>2, <3>3, <3>5 DEF FreshInv
  <2>5. CASE FailDescribe(c)
    <3>1. CacheTypeOK'
      BY <2>5, <1>i DEF FailDescribe, Goto, CacheTypeOK
    <3>2. (ObservedInv /\ AnnouncedInv)'
      BY <2>5, <1>i DEF FailDescribe, ObservedInv, AnnouncedInv
    <3>4. ListedInv'
      BY <2>5, <1>i DEF FailDescribe, Goto, CacheTypeOK, ListedInv
    <3>3. (CachedInv /\ PublisherInv)'
      BY <2>5, <1>i DEF FailDescribe, Goto, CacheTypeOK, Listing, CachedInv, PublisherInv
    <3> QED BY <3>1, <3>2, <3>3, <3>4 DEF FreshInv
  <2>6. CASE ReadVersionAgain(c)
    <3>1. CacheTypeOK'
      BY <2>6, <1>i DEF ReadVersionAgain, Goto, CacheTypeOK
    <3>2. (ObservedInv /\ AnnouncedInv /\ ListedInv)'
      BY <2>6, <1>i DEF ReadVersionAgain, Goto, CacheTypeOK, ObservedInv, AnnouncedInv, ListedInv
    <3>3. (CachedInv /\ PublisherInv)'
      BY <2>6, <1>i DEF ReadVersionAgain, Goto, CacheTypeOK, Listing, CachedInv, PublisherInv
    <3> QED BY <3>1, <3>2, <3>3 DEF FreshInv
  <2>7. CASE Publish(c)
    <3>0. cached' \in Listing \cup {None}
      BY <2>7, <1>i DEF Publish, Filed, CacheTypeOK, Listing
    <3>1. CacheTypeOK'
      BY <2>7, <3>0, <1>i DEF Publish, Goto, CacheTypeOK
    <3>2. (ObservedInv /\ AnnouncedInv /\ ListedInv)'
      BY <2>7, <1>i DEF Publish, Goto, CacheTypeOK, ObservedInv, AnnouncedInv, ListedInv
    <3>3. (CachedInv /\ PublisherInv)'
      <4>1. CASE MayPublish(c)
        BY <2>7, <4>1, <1>i DEF Publish, Filed, MayPublish, Goto, CacheTypeOK, Listing,
                                ObservedInv, ListedInv, CachedInv, PublisherInv
      <4>2. CASE ~MayPublish(c)
        BY <2>7, <4>2, <1>i DEF Publish, Filed, Goto, CacheTypeOK, Listing,
                                CachedInv, PublisherInv
      <4> QED BY <4>1, <4>2
    <3> QED BY <3>1, <3>2, <3>3 DEF FreshInv
  <2> QED BY <1>3, <2>1, <2>2, <2>3, <2>4, <2>5, <2>6, <2>7 DEF Describe
<1>4. CASE UNCHANGED cacheVars
  BY <1>4, <1>i DEF cacheVars, FreshInv, CacheTypeOK, ObservedInv, AnnouncedInv, ListedInv,
                    CachedInv, PublisherInv
<1> QED BY <1>1, <1>2, <1>3, <1>4 DEF CacheNext, CacheTerminated

(* The order of versions, announcements and listings holds always (refresh). *)
THEOREM FreshHolds == CacheSpec => []FreshInv
  BY FreshInit, FreshNext, PTL DEF CacheSpec

(* A describe returns a listing with everything announced before it began.   *)
THEOREM DescribeIsFresh == CacheSpec => []FreshListing
<1>1. FreshInv => FreshListing
  BY DEF FreshInv, ListedInv, FreshListing
<1> QED BY <1>1, FreshHolds, PTL

(* The cache serves the refresh that began last, and only once it is done.   *)
THEOREM FailureHides == CacheSpec => []FailureHidesOlder
<1>1. FreshInv => FailureHidesOlder
  BY DEF FreshInv, PublisherInv, FailureHidesOlder, Unfinished
<1> QED BY <1>1, FreshHolds, PTL
(* What was served is no newer than what is cached, and than what the latest *)
(* refresh, the only one that may still publish, has listed.                 *)
ForwardInv ==
    /\ served <= catalog
    /\ cached # None => served <= cached.listing
    /\ latest # None /\ at[latest] \in {"answered", "publishing"} =>
         served <= listed[latest]

(* An empty cache has served nothing.                                        *)
LEMMA ForwardInit == CacheInit => ForwardInv
  BY DEF CacheInit, ForwardInv

(* No step serves less than a hit has served before.                         *)
LEMMA ForwardNext == FreshInv /\ ForwardInv /\ [CacheNext]_cacheVars => ForwardInv'
<1> USE NoneAssumption, CacheBoundsAssumption DEF cache, calls
<1> SUFFICES ASSUME FreshInv, ForwardInv, [CacheNext]_cacheVars PROVE ForwardInv'
  OBVIOUS
<1>i. CacheTypeOK /\ ListedInv /\ PublisherInv /\ CachedInv
  BY DEF FreshInv
<1>1. CASE Change
  BY <1>1, <1>i DEF Change, ForwardInv, CacheTypeOK
<1>2. CASE Bump
  BY <1>2, <1>i DEF Bump, ForwardInv, CacheTypeOK
<1>3. ASSUME NEW c \in Caller, Observe(c) PROVE ForwardInv'
  BY <1>3, <1>i DEF Observe, Goto, ForwardInv, CacheTypeOK
<1>4. ASSUME NEW c \in Caller, Hit(c) PROVE ForwardInv'
  <2>1. cached \in Listing /\ cached.by = latest /\ at[latest] = "ok" /\ latest # c
    BY <1>4, <1>i DEF Hit, Current, CacheTypeOK, PublisherInv
  <2>2. cached.listing <= catalog /\ cached.listing \in Nat
    BY <2>1, <1>4, <1>i DEF Hit, Current, CachedInv, Listing
  <2>3. at'[latest'] = "ok"
    BY <2>1, <1>4, <1>i DEF Hit, Goto, CacheTypeOK, Listing
  <2> QED BY <2>2, <2>3, <1>4 DEF Hit, ForwardInv
<1>5. ASSUME NEW c \in Caller, Refresh(c) PROVE ForwardInv'
  BY <1>5, <1>i DEF Refresh, Goto, ForwardInv, CacheTypeOK
<1>6. ASSUME NEW c \in Caller, SourceLists(c) PROVE ForwardInv'
  BY <1>6, <1>i DEF SourceLists, Goto, ForwardInv, CacheTypeOK
<1>7. ASSUME NEW c \in Caller, FailDescribe(c) PROVE ForwardInv'
  BY <1>7, <1>i DEF FailDescribe, Goto, ForwardInv, CacheTypeOK
<1>8. ASSUME NEW c \in Caller, ReadVersionAgain(c) PROVE ForwardInv'
  BY <1>8, <1>i DEF ReadVersionAgain, Goto, ForwardInv, CacheTypeOK
<1>9. ASSUME NEW c \in Caller, Publish(c) PROVE ForwardInv'
  <2>1. cached' # None => served <= cached'.listing
    BY <1>9, <1>i DEF Publish, Filed, MayPublish, ForwardInv, CacheTypeOK
  <2> QED BY <2>1, <1>9, <1>i DEF Publish, Goto, ForwardInv, CacheTypeOK
<1>10. CASE UNCHANGED cacheVars
  BY <1>10 DEF cacheVars, ForwardInv
<1> QED
  BY <1>1, <1>2, <1>3, <1>4, <1>5, <1>6, <1>7, <1>8, <1>9, <1>10
     DEF CacheNext, Describe, CacheTerminated

(* Answers from the cache never go back in time.                             *)
THEOREM CacheMovesForward == CacheSpec => HitsMoveForward
<1>1. FreshInv /\ ForwardInv /\ [CacheNext]_cacheVars => [served' >= served]_cacheVars
  <2> SUFFICES ASSUME FreshInv, ForwardInv, CacheNext PROVE served' >= served
    BY DEF cacheVars
  <2>1. ASSUME NEW c \in Caller, Hit(c) PROVE served' >= served
    BY <2>1 DEF Hit, Current, FreshInv, CacheTypeOK, Listing, ForwardInv
  <2>2. served' = served => served' >= served
    BY DEF FreshInv, CacheTypeOK
  <2> QED
    BY <2>1, <2>2 DEF CacheNext, Describe, Change, Bump, Observe, Refresh, SourceLists,
                      FailDescribe, ReadVersionAgain, Publish, CacheTerminated, cacheVars
<1> QED
  BY <1>1, FreshHolds, ForwardInit, ForwardNext, PTL DEF CacheSpec, HitsMoveForward

-----------------------------------------------------------------------------
(* A call of a tool of an MCP server.                                        *)

Service == {"Timeout", "Cancelled", "TransportSend", "TransportClosed",
            "UnexpectedResponse", "McpError"}

CallType ==
    /\ call \in [own : BOOLEAN, arguments : {"object", "null", "other"}]
    /\ store \in BOOLEAN /\ cancelled \in BOOLEAN /\ expired \in BOOLEAN
    /\ request \in {"none", "sent", "running", "ran", "refused"}
    /\ answer = <<>> \/ \E given \in Answers : answer = <<given>>
    /\ reported = <<>> \/ \E e \in Service : reported = <<e>>
    /\ stage \in {"start", "calling", "translating", "done", "dropped"}
    /\ artifacts \subseteq Nat
    /\ parts \in Seq({"text", "NoStore", "Failed", "Stored"})
    /\ media \in Seq(Nat)
    /\ outcome = <<>> \/
         \E s \in {"Succeeded", "Failed", "Rejected", "UnknownOutcome"}, p \in BOOLEAN,
            w \in Seq({"text", "NoStore", "Failed", "Stored", "value"}) :
            outcome = <<[status |-> s, payload |-> p, says |-> w]>>

(* The answer is what the server ran; nothing is asked before the call, and  *)
(* a call that is over has an outcome.                                       *)
PlaceInv ==
    /\ answer # <<>> <=> request = "ran"
    /\ stage = "start" => request = "none"
    /\ stage \in {"calling", "translating"} => call.own
    /\ stage = "translating" => answer # <<>>
    /\ outcome # <<>> <=> stage \in {"done", "dropped"}
    /\ stage \in {"start", "calling"} => parts = <<>> /\ media = <<>> /\ artifacts = {}

(* What an outcome rests on.                                                 *)
OutcomeInv ==
    outcome # <<>> =>
        IF outcome[1].payload
        THEN /\ stage = "done" /\ answer # <<>>
             /\ outcome[1].status = IF answer[1].is_error THEN "Failed" ELSE "Succeeded"
             /\ outcome[1].says = Observation
             /\ Len(parts) = Len(Content)
        ELSE /\ outcome[1].status # "Succeeded"
             /\ outcome[1].status = "Rejected" => request = "none" /\ ~call.own
             /\ outcome[1].status = "Failed" =>
                  request = "none" \/ reported \notin {<<>>, <<"Timeout">>, <<"Cancelled">>}

(* The blocks translated so far have their lines, and those stored, in their *)
(* order, their references.                                                  *)
TranslatedInv ==
    stage = "translating" \/ (outcome # <<>> /\ outcome[1].payload) =>
        /\ Len(parts) <= Len(Content)
        /\ \A i \in 1..Len(parts) :
              /\ parts[i] = "text" <=> Content[i] = "text"
              /\ parts[i] = "Stored" <=> i \in artifacts
              /\ parts[i] = "NoStore" => ~store
        /\ artifacts \subseteq 1..Len(parts)
        /\ \A i \in DOMAIN media : media[i] \in artifacts
        /\ \A a \in artifacts : \E i \in DOMAIN media : media[i] = a
        /\ \A i, j \in DOMAIN media : i < j => media[i] < media[j]

CallInv == CallType /\ PlaceInv /\ OutcomeInv /\ TranslatedInv

(* A call that has nothing yet satisfies all of it.                          *)
LEMMA CallInitInv == CallInit => CallInv
<1> SUFFICES ASSUME CallInit PROVE CallInv
    OBVIOUS
<1>1. outcome = <<>> /\ stage = "start" /\ answer = <<>> /\ reported = <<>> /\ request = "none"
    BY DEF CallInit
<1>2. parts = <<>> /\ media = <<>> /\ artifacts = {}
    BY DEF CallInit
<1>3. CallType
    BY <1>1, <1>2 DEF CallInit, CallType
<1>4. PlaceInv /\ OutcomeInv /\ TranslatedInv
    BY <1>1, <1>2 DEF PlaceInv, OutcomeInv, TranslatedInv
<1> QED BY <1>3, <1>4 DEF CallInv

SourceErrors == {"UnknownTool", "Protocol", "Cancelled", "TimedOut", "Unavailable"}

(* A call the bridge ends with an error keeps the invariant if what the      *)
(* error claims is known.                                                    *)
LEMMA CallEnds ==
    ASSUME CallInv, NEW error \in SourceErrors, Ends(error), stage \in {"start", "calling"},
           reported' = reported \/ \E e \in Service : reported' = <<e>>,
           error = "UnknownTool" => request = "none" /\ ~call.own,
           error \in {"Unavailable", "Protocol"} =>
               request = "none" \/ reported' \notin {<<>>, <<"Timeout">>, <<"Cancelled">>}
    PROVE  CallInv'
<1> DEFINE s == Bridged(error)
<1>1. outcome' = <<[status |-> s, payload |-> FALSE, says |-> <<>>]>> /\ stage' = "done"
    BY DEF Ends
<1>2. /\ s \in {"Failed", "Rejected", "UnknownOutcome"}
      /\ s = "Rejected" => error = "UnknownTool"
      /\ s = "Failed" => error \in {"Unavailable", "Protocol"}
    BY DEF Bridged, SourceErrors
<1>3. UNCHANGED <<call, store, cancelled, expired, request, answer, artifacts, parts, media>>
    BY DEF Ends, control
<1> HIDE DEF s
<1>4. outcome' # <<>> /\ outcome'[1].status = s /\ outcome'[1].payload = FALSE
    BY <1>1
<1>5. CallType'
    <2>1. outcome' = <<>> \/
            \E t \in {"Succeeded", "Failed", "Rejected", "UnknownOutcome"}, p \in BOOLEAN,
               w \in Seq({"text", "NoStore", "Failed", "Stored", "value"}) :
               outcome' = <<[status |-> t, payload |-> p, says |-> w]>>
        <3>1. <<>> \in Seq({"text", "NoStore", "Failed", "Stored", "value"})
            OBVIOUS
        <3> QED BY <1>1, <1>2, <3>1
    <2>2. reported' = <<>> \/ \E e \in Service : reported' = <<e>>
        BY DEF CallInv, CallType
    <2>3. call' \in [own : BOOLEAN, arguments : {"object", "null", "other"}]
        BY <1>3 DEF CallInv, CallType
    <2> QED BY <1>1, <1>3, <2>1, <2>2, <2>3 DEF CallInv, CallType
<1>6. PlaceInv'
    BY <1>1, <1>3, <1>4 DEF CallInv, PlaceInv
<1>7. OutcomeInv'
    BY <1>1, <1>2, <1>3, <1>4 DEF OutcomeInv
<1>8. TranslatedInv'
    BY <1>1, <1>4 DEF TranslatedInv
<1> QED BY <1>5, <1>6, <1>7, <1>8 DEF CallInv

(* The errors of this side of the connection, and the answer to a call whose *)
(* name or arguments are wrong.                                              *)
LEMMA InvokeInv == ASSUME CallInv, Invoke PROVE CallInv'
<1>p. stage = "start" /\ request = "none"
    BY DEF Invoke, CallInv, PlaceInv
<1>1. CASE ~call.own
    <2>1. Ends("UnknownTool") /\ reported' = reported
        BY <1>1 DEF Invoke, Fails
    <2> QED BY <1>p, <1>1, <2>1, CallEnds DEF SourceErrors
<1>2. CASE call.own /\ call.arguments = "other"
    <2>1. Ends("Protocol") /\ reported' = reported
        BY <1>2 DEF Invoke, Fails
    <2> QED BY <1>p, <2>1, CallEnds DEF SourceErrors
<1>3. CASE call.own /\ call.arguments # "other"
    <2>1. /\ stage' = "calling"
          /\ UNCHANGED <<call, store, cancelled, expired, request, answer, reported>>
          /\ UNCHANGED <<artifacts, parts, media, outcome>>
        BY <1>3 DEF Invoke, control, server
    <2>2. CallType'
        BY <2>1 DEF CallInv, CallType
    <2>3. PlaceInv'
        BY <1>p, <1>3, <2>1 DEF CallInv, PlaceInv
    <2>4. OutcomeInv' /\ TranslatedInv'
        BY <1>p, <2>1 DEF CallInv, PlaceInv, OutcomeInv, TranslatedInv
    <2> QED BY <2>2, <2>3, <2>4 DEF CallInv
<1> QED BY <1>1, <1>2, <1>3

(* A stop, an error of the service and an error of the server end the call   *)
(* with what is known of them.                                               *)
LEMMA RaceInv ==
    ASSUME CallInv, SeeCancelled \/ SeeDeadline \/ ServiceFails \/ Refused PROVE CallInv'
<1>p. stage = "calling"
    BY DEF SeeCancelled, SeeDeadline, ServiceFails, Refused
<1>1. CASE SeeCancelled \/ SeeDeadline
    <2>1. PICK error \in {"Cancelled", "TimedOut"} : Ends(error) /\ reported' = reported
        BY <1>1 DEF SeeCancelled, SeeDeadline, Fails
    <2> QED BY <1>p, <2>1, CallEnds DEF SourceErrors
<1>2. CASE ServiceFails \/ Refused
    <2>1. PICK e \in Service : Ends(MapInvokeError(e)) /\ reported' = <<e>>
        BY <1>2 DEF ServiceFails, Refused, Reports, Service
    <2>2. /\ MapInvokeError(e) \in SourceErrors \ {"UnknownTool"}
          /\ MapInvokeError(e) \in {"Unavailable", "Protocol"} => e \notin {"Timeout", "Cancelled"}
        BY DEF MapInvokeError, Service, SourceErrors
    <2>3. MapInvokeError(e) \in {"Unavailable", "Protocol"} =>
              reported' \notin {<<>>, <<"Timeout">>, <<"Cancelled">>}
        BY <2>1, <2>2
    <2> QED BY <1>p, <2>1, <2>2, <2>3, CallEnds
<1> QED BY <1>1, <1>2

(* Nothing the server or another thread does disturbs what is recorded.      *)
LEMMA OutsideInv ==
    ASSUME CallInv, Cancel \/ Expire \/ ServerRuns \/ ServerAnswers \/ ServerRefuses PROVE CallInv'
<1>1. UNCHANGED <<call, store, reported, artifacts, stage, parts, media, outcome>>
    BY DEF Cancel, Expire, ServerRuns, ServerAnswers, ServerRefuses, control, server
<1>2. /\ cancelled' \in BOOLEAN /\ expired' \in BOOLEAN
      /\ request' \in {"none", "sent", "running", "ran", "refused"}
      /\ answer' = <<>> \/ \E given \in Answers : answer' = <<given>>
    BY DEF Cancel, Expire, ServerRuns, ServerAnswers, ServerRefuses, control, server, CallInv, CallType
<1>3. /\ request = "none" <=> request' = "none"
      /\ answer' # <<>> <=> request' = "ran"
      /\ answer # <<>> => answer' = answer
    <2>1. CASE Cancel \/ Expire
        BY <2>1 DEF Cancel, Expire, server, CallInv, PlaceInv
    <2>2. CASE ServerRuns \/ ServerRefuses
        BY <2>2 DEF ServerRuns, ServerRefuses, CallInv, PlaceInv
    <2>3. CASE ServerAnswers
        BY <2>3 DEF ServerAnswers, CallInv, PlaceInv
    <2> QED BY <2>1, <2>2, <2>3
<1>4. CallType'
    BY <1>1, <1>2 DEF CallInv, CallType
<1>5. PlaceInv'
    BY <1>1, <1>3 DEF CallInv, PlaceInv
<1>6. OutcomeInv'
    BY <1>1, <1>3 DEF CallInv, PlaceInv, OutcomeInv, Content, Observation
<1>7. TranslatedInv'
    BY <1>1, <1>3 DEF CallInv, PlaceInv, OutcomeInv, TranslatedInv, Content, Observation
<1> QED BY <1>4, <1>5, <1>6, <1>7 DEF CallInv

(* The request leaves, and the answer is taken.                              *)
LEMMA ExchangeInv == ASSUME CallInv, Send \/ Answered PROVE CallInv'
<1>1. /\ stage = "calling" /\ stage' \in {"calling", "translating"}
      /\ stage' = "translating" => answer # <<>>
      /\ request' \in {"none", "sent", "running", "ran", "refused"}
      /\ request' = "ran" <=> request = "ran"
      /\ UNCHANGED <<call, store, cancelled, expired, answer, reported>>
      /\ UNCHANGED <<artifacts, parts, media, outcome>>
    BY DEF Send, Answered, control, server, CallInv, CallType
<1>2. outcome = <<>> /\ parts = <<>> /\ media = <<>> /\ artifacts = {}
    BY <1>1 DEF CallInv, PlaceInv
<1>3. CallType'
    BY <1>1 DEF CallInv, CallType
<1>4. PlaceInv'
    BY <1>1, <1>2 DEF CallInv, PlaceInv
<1>5. OutcomeInv'
    BY <1>1, <1>2 DEF OutcomeInv
<1>6. TranslatedInv'
    <2> SUFFICES ASSUME stage' = "translating" PROVE TranslatedInv'
        BY <1>1, <1>2 DEF TranslatedInv
    <2>1. PICK given \in Answers : answer' = <<given>>
        BY <1>1 DEF CallInv, CallType
    <2>2. Len(Content') \in Nat
        BY <2>1, AnswersAssumption DEF Content
    <2> QED BY <1>1, <1>2, <2>2 DEF TranslatedInv
<1> QED BY <1>3, <1>4, <1>5, <1>6 DEF CallInv

(* What the answer is while it is translated.                                *)
LEMMA AnswerType ==
    ASSUME CallType, answer # <<>>
    PROVE  answer[1].is_error \in BOOLEAN /\ Content \in Seq({"text", "image", "broken"})
BY AnswersAssumption DEF CallType, Content

(* One more block has its line, and its reference if it was stored.          *)
LEMMA BlockInv == ASSUME CallInv, TranslateText \/ TranslateMedia PROVE CallInv'
<1> DEFINE n == Len(parts)
<1>1. PICK line \in {"text", "NoStore", "Failed", "Stored"} :
          /\ parts' = Append(parts, line)
          /\ line = "text" <=> Content[n + 1] = "text"
          /\ line = "NoStore" => ~store
          /\ line = "Stored" => media' = Append(media, n + 1) /\ artifacts' = artifacts \cup {n + 1}
          /\ line # "Stored" => media' = media /\ artifacts' = artifacts
    <2>t. media \in Seq(Nat)
        BY DEF CallInv, CallType
    <2>1. CASE TranslateText
        BY <2>1 DEF TranslateText, Position
    <2>2. CASE TranslateMedia
        <3>1. PICK ingest \in Ingested :
                 /\ parts' = Append(parts, ingest)
                 /\ media' = media \o MediaOf(ingest)
                 /\ artifacts' = artifacts \cup (IF ingest = "Stored" THEN {Position} ELSE {})
            BY <2>2 DEF TranslateMedia
        <3>2. ingest \in {"NoStore", "Failed", "Stored"} /\ (ingest = "NoStore" => ~store)
            BY DEF Ingested
        <3>3. ingest = "Stored" => media' = Append(media, n + 1)
            BY <2>t, <3>1 DEF MediaOf, Position
        <3>4. ingest # "Stored" => media' = media
            BY <2>t, <3>1 DEF MediaOf
        <3>5. Content[n + 1] # "text"
            BY <2>2 DEF TranslateMedia, Position
        <3> QED BY <3>1, <3>2, <3>3, <3>4, <3>5 DEF Position
    <2> QED BY <2>1, <2>2
<1>2. /\ stage = "translating" /\ stage' = "translating" /\ n + 1 <= Len(Content)
      /\ UNCHANGED <<call, store, cancelled, expired, request, answer, reported, outcome>>
    BY DEF TranslateText, TranslateMedia, Position, control, server
<1>3. answer # <<>> /\ outcome = <<>> /\ Content' = Content
    BY <1>2 DEF CallInv, PlaceInv, Content
<1>4. Len(Content) \in Nat
    BY <1>3, AnswerType DEF CallInv
<1>5. /\ parts \in Seq({"text", "NoStore", "Failed", "Stored"})
      /\ media \in Seq(Nat) /\ artifacts \subseteq Nat /\ n \in Nat
    BY DEF CallInv, CallType
<1>6. Len(parts') = n + 1 /\ parts'[n + 1] = line /\ \A i \in 1..n : parts'[i] = parts[i]
    BY <1>1, <1>5
<1>7. CallType'
    <2>1. parts' \in Seq({"text", "NoStore", "Failed", "Stored"})
        BY <1>1, <1>5
    <2>2. media' \in Seq(Nat) /\ artifacts' \subseteq Nat
        <3>1. CASE line = "Stored"
            <4>1. media' = Append(media, n + 1) /\ artifacts' = artifacts \cup {n + 1} /\ n + 1 \in Nat
                BY <1>1, <1>5, <3>1
            <4>2. media' \in Seq(Nat)
                BY <1>5, <4>1
            <4>3. artifacts' \subseteq Nat
                <5> HIDE DEF n
                <5> QED BY <1>5, <4>1
            <4> QED BY <4>2, <4>3
        <3>2. CASE line # "Stored"
            BY <1>1, <1>5, <3>2
        <3> QED BY <3>1, <3>2
    <2> QED BY <1>2, <2>1, <2>2 DEF CallInv, CallType
<1>8. PlaceInv'
    BY <1>2, <1>3 DEF CallInv, PlaceInv
<1>9. OutcomeInv'
    BY <1>2, <1>3 DEF OutcomeInv
<1>10. TranslatedInv'
    <2>1. /\ \A i \in 1..n : /\ parts[i] = "text" <=> Content[i] = "text"
                             /\ parts[i] = "Stored" <=> i \in artifacts
                             /\ parts[i] = "NoStore" => ~store
          /\ artifacts \subseteq 1..n
          /\ \A i \in DOMAIN media : media[i] \in artifacts
          /\ \A a \in artifacts : \E i \in DOMAIN media : media[i] = a
          /\ \A i, j \in DOMAIN media : i < j => media[i] < media[j]
        BY <1>2 DEF CallInv, TranslatedInv
    <2>2. /\ artifacts' \subseteq 1..(n + 1)
          /\ n + 1 \in artifacts' <=> line = "Stored"
          /\ \A i \in 1..n : i \in artifacts' <=> i \in artifacts
        <3>1. CASE line = "Stored"
            <4>1. artifacts' = artifacts \cup {n + 1}
                BY <1>1, <3>1
            <4>2. n \in Nat /\ artifacts \subseteq 1..n
                BY <1>5, <2>1
            <4> HIDE DEF n
            <4> QED BY <3>1, <4>1, <4>2
        <3>2. CASE line # "Stored"
            <4>1. artifacts' = artifacts
                BY <1>1, <3>2
            <4> QED BY <1>5, <2>1, <3>2, <4>1
        <3> QED BY <3>1, <3>2
    <2>3. /\ \A i \in DOMAIN media' : media'[i] \in artifacts'
          /\ \A a \in artifacts' : \E i \in DOMAIN media' : media'[i] = a
          /\ \A i, j \in DOMAIN media' : i < j => media'[i] < media'[j]
        <3>1. CASE line # "Stored"
            BY <1>1, <2>1, <3>1
        <3>2. CASE line = "Stored"
            <4> DEFINE m == Len(media)
            <4>1. media' = Append(media, n + 1) /\ artifacts' = artifacts \cup {n + 1}
                BY <1>1, <3>2
            <4>2. /\ m \in Nat /\ DOMAIN media = 1..m /\ DOMAIN media' = 1..(m + 1)
                  /\ media'[m + 1] = n + 1 /\ \A i \in 1..m : media'[i] = media[i]
                BY <1>5, <4>1
            <4>3. \A i \in 1..m : media[i] \in 1..n
                BY <2>1, <4>2
            <4>4. \A i \in DOMAIN media' : media'[i] \in artifacts'
                BY <2>1, <4>1, <4>2
            <4>5. \A a \in artifacts' : \E i \in DOMAIN media' : media'[i] = a
                BY <2>1, <4>1, <4>2
            <4>6. \A i, j \in DOMAIN media' : i < j => media'[i] < media'[j]
                <5> SUFFICES ASSUME NEW i \in 1..(m + 1), NEW j \in 1..(m + 1), i < j
                             PROVE  media'[i] < media'[j]
                    BY <4>2
                <5>1. i \in 1..m /\ media'[i] = media[i] /\ media[i] \in 1..n
                    BY <4>2, <4>3
                <5>2. CASE j = m + 1
                    BY <1>5, <4>2, <5>1, <5>2
                <5>3. CASE j # m + 1
                    <6>1. j \in 1..m
                        BY <4>2, <5>3
                    <6> QED BY <2>1, <4>2, <5>1, <6>1
                <5> QED BY <5>2, <5>3
            <4> QED BY <4>4, <4>5, <4>6
        <3> QED BY <3>1, <3>2
    <2>4. \A i \in 1..(n + 1) : /\ parts'[i] = "text" <=> Content[i] = "text"
                                /\ parts'[i] = "Stored" <=> i \in artifacts'
                                /\ parts'[i] = "NoStore" => ~store
        <3> SUFFICES ASSUME NEW i \in 1..(n + 1)
                     PROVE  /\ parts'[i] = "text" <=> Content[i] = "text"
                            /\ parts'[i] = "Stored" <=> i \in artifacts'
                            /\ parts'[i] = "NoStore" => ~store
            OBVIOUS
        <3>1. i \in 1..n \/ i = n + 1
            BY <1>5
        <3> QED BY <1>1, <1>6, <2>1, <2>2, <3>1
    <2> QED BY <1>2, <1>3, <1>4, <1>5, <1>6, <2>2, <2>3, <2>4 DEF TranslatedInv
<1> QED BY <1>7, <1>8, <1>9, <1>10 DEF CallInv

(* The end of the answer, and the end the executor puts to the call.         *)
LEMMA LastInv == ASSUME CallInv, FinishAnswer \/ Drop PROVE CallInv'
<1>1. UNCHANGED <<call, store, cancelled, expired, request, answer, reported, artifacts, parts, media>>
    BY DEF FinishAnswer, Drop, control, server
<1>2. CASE Drop
    <2>1. /\ outcome' = <<[status |-> "UnknownOutcome", payload |-> FALSE, says |-> <<>>]>>
          /\ stage' = "dropped"
          /\ outcome' # <<>> /\ outcome'[1].status = "UnknownOutcome" /\ outcome'[1].payload = FALSE
        BY <1>2 DEF Drop
    <2>2. CallType'
        <3>1. <<>> \in Seq({"text", "NoStore", "Failed", "Stored", "value"})
            OBVIOUS
        <3> QED BY <1>1, <2>1, <3>1 DEF CallInv, CallType
    <2>3. PlaceInv'
        BY <1>1, <2>1 DEF CallInv, PlaceInv
    <2>4. OutcomeInv' /\ TranslatedInv'
        BY <2>1 DEF OutcomeInv, TranslatedInv
    <2> QED BY <2>2, <2>3, <2>4 DEF CallInv
<1>3. CASE FinishAnswer
    <2>1. stage = "translating" /\ stage' = "done" /\ answer # <<>> /\ Content' = Content
        BY <1>1, <1>3 DEF FinishAnswer, CallInv, PlaceInv, Content
    <2>2. PICK s \in {"Succeeded", "Failed"} :
             /\ outcome' = <<[status |-> s, payload |-> TRUE, says |-> Observation]>>
             /\ s = IF answer[1].is_error THEN "Failed" ELSE "Succeeded"
        BY <1>3 DEF FinishAnswer
    <2>w. Observation \in Seq({"text", "NoStore", "Failed", "Stored", "value"})
        <3>1. /\ <<"value">> \in Seq({"text", "NoStore", "Failed", "Stored", "value"})
              /\ parts \in Seq({"text", "NoStore", "Failed", "Stored", "value"})
            BY DEF CallInv, CallType
        <3>2. Observation = <<"value">> \/ Observation = parts
            BY Zenon DEF Observation
        <3> QED BY <3>1, <3>2
    <2>o. Observation' = Observation
        BY <1>1 DEF Observation
    <2>3. /\ outcome' # <<>> /\ outcome'[1].status = s /\ outcome'[1].payload = TRUE
          /\ outcome'[1].says = Observation
        BY <2>2
    <2>4. Len(parts) = Len(Content)
        <3>1. Len(Content) \in Nat /\ Len(parts) \in Nat
            BY <2>1, AnswerType DEF CallInv, CallType
        <3>2. Len(parts) <= Len(Content)
            BY <2>1 DEF CallInv, TranslatedInv
        <3> QED BY <1>3, <3>1, <3>2 DEF FinishAnswer, Position
    <2>5. CallType'
        BY <1>1, <2>1, <2>2, <2>w DEF CallInv, CallType
    <2>6. PlaceInv'
        BY <1>1, <2>1, <2>3 DEF CallInv, PlaceInv
    <2>7. OutcomeInv'
        BY <1>1, <2>1, <2>2, <2>3, <2>4, <2>o DEF OutcomeInv
    <2>8. TranslatedInv'
        BY <1>1, <2>1 DEF CallInv, TranslatedInv
    <2> QED BY <2>5, <2>6, <2>7, <2>8 DEF CallInv
<1> QED BY <1>2, <1>3

(* Every step keeps the invariant.                                           *)
LEMMA CallNextInv == CallInv /\ [CallNext]_callVars => CallInv'
<1> SUFFICES ASSUME CallInv, [CallNext]_callVars PROVE CallInv'
    OBVIOUS
<1>1. CASE Invoke
    BY <1>1, InvokeInv
<1>2. CASE SeeCancelled \/ SeeDeadline \/ ServiceFails \/ Refused
    BY <1>2, RaceInv
<1>3. CASE Cancel \/ Expire \/ ServerRuns \/ ServerAnswers \/ ServerRefuses
    BY <1>3, OutsideInv
<1>4. CASE Send \/ Answered
    BY <1>4, ExchangeInv
<1>5. CASE TranslateText \/ TranslateMedia
    BY <1>5, BlockInv
<1>6. CASE FinishAnswer \/ Drop
    BY <1>6, LastInv
<1>7. CASE UNCHANGED callVars
    BY <1>7 DEF callVars, control, server, CallInv, CallType, PlaceInv, OutcomeInv, TranslatedInv, Content, Observation
<1> QED BY <1>1, <1>2, <1>3, <1>4, <1>5, <1>6, <1>7 DEF CallNext

(* The four parts hold in every state of a call (McpToolSource::invoke_inner *)
(* and ToolBridge::execute).                                                 *)
THEOREM CallInvariant == CallSpec => []CallInv
BY CallInitInv, CallNextInv, PTL DEF CallSpec

(* What the status of a result claims is known: no success without an answer *)
(* that says so, no rejection of a call that left, and no failure of one     *)
(* that may have run unless rmcp or the server reported it.                  *)
THEOREM ClaimIsKnown == CallSpec => []ClaimsWhatIsKnown
<1>1. CallInv => ClaimsWhatIsKnown
    <2> SUFFICES ASSUME CallInv, outcome # <<>> PROVE ClaimsWhatIsKnown
        BY DEF ClaimsWhatIsKnown, Recorded
    <2>1. PICK s \in {"Succeeded", "Failed", "Rejected", "UnknownOutcome"}, p \in BOOLEAN :
              outcome[1].status = s /\ outcome[1].payload = p
        BY DEF CallInv, CallType
    <2>2. CASE p
        BY <2>1, <2>2 DEF CallInv, OutcomeInv, ClaimsWhatIsKnown, Recorded
    <2>3. CASE ~p
        BY <2>1, <2>3 DEF CallInv, OutcomeInv, ClaimsWhatIsKnown, Recorded
    <2> QED BY <2>2, <2>3
<1> QED BY <1>1, CallInvariant, PTL

(* A result says the structured value, if there is one, and else has a line  *)
(* for every block; every artifact has its reference, whatever the store did *)
(* with the others (Ingest::run, into_media).                                *)
THEOREM ContentKept == CallSpec => []ContentAccountedFor
<1>1. CallInv => ContentAccountedFor
    <2> SUFFICES ASSUME CallInv, stage = "done", outcome[1].payload PROVE ContentAccountedFor
        BY DEF ContentAccountedFor
    <2>1. outcome # <<>> /\ outcome[1].says = Observation /\ Len(parts) = Len(Content)
        BY DEF CallInv, PlaceInv, OutcomeInv
    <2>2. TranslatedInv
        BY DEF CallInv
    <2>3. {media[i] : i \in DOMAIN media} = artifacts
        BY <2>1, <2>2 DEF TranslatedInv
    <2>4. answer[1].structured => outcome[1].says = <<"value">>
        BY <2>1 DEF Observation
    <2>5. ~answer[1].structured => outcome[1].says = parts
        BY <2>1 DEF Observation
    <2> QED BY <2>1, <2>2, <2>3, <2>4, <2>5 DEF TranslatedInv, ContentAccountedFor
<1> QED BY <1>1, CallInvariant, PTL
=============================================================================
