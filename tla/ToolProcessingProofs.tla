------------------------ MODULE ToolProcessingProofs ------------------------
(****************************************************************************)
(* Theorems about ToolProcessing for any batch, any tools and processors,   *)
(* any interleaving.                                                        *)
(****************************************************************************)
EXTENDS ToolProcessing, TLAPS

-----------------------------------------------------------------------------
(* Facts about the batch operations that every user of a batch relies on.    *)

(* resolve_at keeps the shape of a batch.                                    *)
LEMMA ResolveAtType ==
    ASSUME NEW n \in Nat, NEW b \in Batch(n), NEW i \in Pending(b),
           NEW id \in BlockId, NEW p \in ToolResultPayload
    PROVE  ResolveAt(b, i, id, p) \in Batch(n)
<1> DEFINE c    == b.completed + 1
           done == [b.entries[i] EXCEPT
                      !.notes  = <<>>,
                      !.result = [id |-> id, call |-> p.call, status |-> p.status,
                                  notes |-> b.entries[i].notes \o p.notes]]
<1>1. /\ b.entries \in [1..n -> ToolCallEntry] /\ b.completed \in 0..n
      /\ i \in 1..n /\ i > b.completed /\ c \in 1..n
  BY DEF Batch, Pending
<1>2. b.entries[i] \in ToolCallEntry
  BY <1>1
<1>3. b.entries[i].notes \o p.notes \in Seq(Note) /\ <<>> \in Seq(Note)
  BY <1>2 DEF ToolCallEntry, ToolResultPayload
<1>4. [id |-> id, call |-> p.call, status |-> p.status,
       notes |-> b.entries[i].notes \o p.notes] \in Result
  BY <1>3 DEF Result, ToolResultPayload
<1>5. done \in ToolCallEntry
  BY <1>2, <1>3, <1>4 DEF ToolCallEntry
<1>6. [b.entries EXCEPT ![i] = b.entries[c], ![c] = done] \in [1..n -> ToolCallEntry]
  BY <1>1, <1>5
<1> QED
  BY <1>1, <1>6 DEF ResolveAt, Batch

(* What an accepted resolve_at does: the result is in the slot after the old *)
(* prefix, the entry that was there takes the resolved one's place, and the  *)
(* rest, the old prefix above all, is untouched.                             *)
Installed(n, b, i, id, p, d) ==
    LET c == b.completed + 1
    IN  /\ c \in 1..n /\ i \in c..n
        /\ DOMAIN d.entries = 1..n
        /\ d.completed = c
        /\ Completed(d) = Completed(b) \cup {c}
        /\ \A j \in 1..n : j # i /\ j # c => d.entries[j] = b.entries[j]
        /\ i # c => d.entries[i] = b.entries[c]
        /\ d.entries[c].call = p.call /\ p.call = b.entries[i].call
        /\ d.entries[c].input = b.entries[i].input
        /\ d.entries[c].result.id = id
        /\ d.entries[c].result.call = p.call
        /\ d.entries[c].result.status = p.status
        /\ d.entries[c].result.notes = b.entries[i].notes \o p.notes
        /\ d.entries[c].result # NoResult

(* resolve_at keeps identities and gives a result to the one call it is for. *)
LEMMA ResolveAtEffect ==
    ASSUME NEW n \in Nat, NEW b \in Batch(n), NEW i, NEW id \in BlockId,
           NEW p \in ToolResultPayload, CheckResolve(b, i, id, p)
    PROVE  Installed(n, b, i, id, p, ResolveAt(b, i, id, p))
<1> DEFINE d    == ResolveAt(b, i, id, p)
           c    == b.completed + 1
           res  == [id |-> id, call |-> p.call, status |-> p.status,
                    notes |-> b.entries[i].notes \o p.notes]
           done == [b.entries[i] EXCEPT !.notes = <<>>, !.result = res]
<1>1. /\ b.entries \in [1..n -> ToolCallEntry] /\ b.completed \in 0..n
      /\ i \in 1..n /\ i > b.completed /\ c \in 1..n
      /\ p.call = b.entries[i].call
  BY DEF Batch, Pending, CheckResolve
<1>2. b.entries[i] \in ToolCallEntry
  BY <1>1
<1>3. res \in Result
  BY <1>2 DEF Result, ToolResultPayload, ToolCallEntry
<1>4. /\ done.result = res /\ done.call = b.entries[i].call
      /\ done.input = b.entries[i].input
  BY <1>2 DEF ToolCallEntry
<1>5. d.entries = [b.entries EXCEPT ![i] = b.entries[c], ![c] = done] /\ d.completed = c
  BY DEF ResolveAt
<1>6. d.entries[c] = done /\ DOMAIN d.entries = 1..n
  BY <1>1, <1>5
<1>7. \A j \in 1..n : j # i /\ j # c => d.entries[j] = b.entries[j]
  BY <1>1, <1>5
<1>8. i # c => d.entries[i] = b.entries[c]
  BY <1>1, <1>5
<1>9. Completed(d) = Completed(b) \cup {c}
  BY <1>1, <1>5, <1>6 DEF Completed
<1>10. d.entries[c].result # NoResult
  BY <1>3, <1>4, <1>6, NoResultAssumption
<1>11. /\ d.entries[c].call = p.call /\ d.entries[c].input = b.entries[i].input
       /\ d.entries[c].result = res
  BY <1>1, <1>4, <1>6
<1>12. /\ res.id = id /\ res.call = p.call /\ res.status = p.status
       /\ res.notes = b.entries[i].notes \o p.notes
  OBVIOUS
<1> HIDE DEF res, done
<1>13. i \in c..n
  BY <1>1
<1>14. /\ d.entries[c].result.id = id
       /\ d.entries[c].result.call = p.call
       /\ d.entries[c].result.status = p.status
       /\ d.entries[c].result.notes = b.entries[i].notes \o p.notes
  BY <1>11, <1>12
<1> QED
  BY <1>1, <1>13, <1>14, <1>5, <1>6, <1>7, <1>8, <1>9, <1>10, <1>11 DEF Installed, d

(* resolve_at keeps a batch valid, and moves exactly one call from pending   *)
(* to decided: the .expect of the settlement loop rests on this.             *)
LEMMA ResolveAtValid ==
    ASSUME NEW n \in Nat, NEW b \in Batch(n), NEW i, NEW id \in BlockId,
           NEW p \in ToolResultPayload, CheckResolve(b, i, id, p),
           NEW d, d = ResolveAt(b, i, id, p)
    PROVE  /\ Validate(d)
           /\ DeclarationIds(d) = DeclarationIds(b)
           /\ PendingCalls(d) = PendingCalls(b) \ {p.call}
           /\ DecidedCalls(d) = DecidedCalls(b) \cup {p.call}
<1> DEFINE c == b.completed + 1
<1>0. /\ DOMAIN b.entries = 1..n /\ b.completed \in 0..n
      /\ i \in Pending(b) /\ Validate(b)
      /\ id \notin DeclarationIds(b) /\ id \notin ResultIds(b)
  BY DEF Batch, CheckResolve
<1>e. Installed(n, b, i, id, p, d)
  BY ResolveAtEffect
<1>1. /\ c \in 1..n /\ i \in c..n
      /\ DOMAIN d.entries = 1..n
      /\ d.completed = c
      /\ Completed(d) = Completed(b) \cup {c}
      /\ \A j \in 1..n : j # i /\ j # c => d.entries[j] = b.entries[j]
      /\ i # c => d.entries[i] = b.entries[c]
      /\ d.entries[c].call = p.call /\ p.call = b.entries[i].call
      /\ d.entries[c].result.id = id
      /\ d.entries[c].result.call = p.call
      /\ d.entries[c].result.status = p.status
      /\ d.entries[c].result # NoResult
  BY <1>e DEF Installed
<1> DEFINE from(j) == IF j = c THEN i ELSE IF j = i THEN c ELSE j
<1>2. \A j \in 1..n : from(j) \in 1..n /\ d.entries[j].call = b.entries[from(j)].call
  BY <1>1
<1>3. \A j \in Completed(b) : j \in 1..n /\ j # i /\ j # c /\ d.entries[j] = b.entries[j]
  BY <1>0, <1>1 DEF Completed, Pending
<1>4. UniqueDeclarations(d)
  <2>1. \A j, k \in 1..n : from(j) = from(k) => j = k
    OBVIOUS
  <2>2. ASSUME NEW j \in 1..n, NEW k \in 1..n, d.entries[j].call = d.entries[k].call
        PROVE  j = k
    <3>1. /\ from(j) \in 1..n /\ from(k) \in 1..n
          /\ b.entries[from(j)].call = b.entries[from(k)].call
      BY <1>2, <2>2
    <3> HIDE DEF from
    <3>2. from(j) = from(k)
      BY <1>0, <3>1 DEF Validate, UniqueDeclarations
    <3> QED BY <2>1, <3>2
  <2> QED BY <1>1, <2>2 DEF UniqueDeclarations
<1>5. Partitioned(d)
  <2>1. \A j \in Pending(d) : d.entries[j].result = NoResult
    BY <1>0, <1>1 DEF Validate, Partitioned, Pending, Completed
  <2>2. \A j \in Completed(d) : /\ d.entries[j].result # NoResult
                                /\ d.entries[j].result.call = d.entries[j].call
    BY <1>0, <1>1, <1>3 DEF Validate, Partitioned
  <2> QED BY <2>1, <2>2 DEF Partitioned
<1>6. UniqueResultIds(d)
  <2>1. \A j \in 1..n : d.entries[j].call # id
    BY <1>0, <1>2 DEF DeclarationIds
  <2>2. \A j \in Completed(b) : b.entries[j].result.id # id
    BY <1>0, <1>3 DEF ResultIds, Validate, Partitioned
  <2>3. \A j \in Completed(b) : \A k \in 1..n : d.entries[k].call # d.entries[j].result.id
    <3> SUFFICES ASSUME NEW j \in Completed(b), NEW k \in 1..n
                 PROVE  d.entries[k].call # b.entries[j].result.id
      BY <1>3
    <3>1. from(k) \in 1..n /\ d.entries[k].call = b.entries[from(k)].call
      BY <1>2
    <3> HIDE DEF from
    <3> QED BY <1>0, <3>1 DEF Validate, UniqueResultIds
  <2>4. \A j, k \in Completed(b) : d.entries[k].result.id = d.entries[j].result.id => j = k
    BY <1>0, <1>3 DEF Validate, UniqueResultIds
  <2>5. ASSUME NEW j \in Completed(d)
        PROVE  /\ \A k \in 1..n : d.entries[k].call # d.entries[j].result.id
               /\ \A k \in Completed(d) :
                      d.entries[k].result.id = d.entries[j].result.id => j = k
    <3>1. CASE j = c
      BY <1>1, <1>3, <2>1, <2>2, <3>1
    <3>2. CASE j # c
      <4>1. j \in Completed(b)
        BY <1>1, <3>2
      <4>2. d.entries[j].result.id # id
        BY <1>3, <2>2, <4>1
      <4>3. \A k \in Completed(d) : d.entries[k].result.id = d.entries[j].result.id => j = k
        BY <1>1, <2>4, <4>1, <4>2
      <4> QED BY <2>3, <4>1, <4>3
    <3> QED BY <3>1, <3>2
  <2> QED BY <1>1, <2>5 DEF UniqueResultIds
<1>7. DeclarationIds(d) = DeclarationIds(b)
  <2>1. \A j \in 1..n : from(j) \in 1..n /\ from(from(j)) = j
    BY <1>1
  <2>2. ASSUME NEW j \in 1..n
        PROVE  d.entries[j].call \in DeclarationIds(b)
    <3>1. from(j) \in 1..n /\ d.entries[j].call = b.entries[from(j)].call
      BY <1>2, <2>1
    <3> HIDE DEF from
    <3> QED BY <1>0, <3>1 DEF DeclarationIds
  <2>3. ASSUME NEW j \in 1..n
        PROVE  b.entries[j].call \in DeclarationIds(d)
    <3>1. from(j) \in 1..n /\ d.entries[from(j)].call = b.entries[j].call
      BY <1>2, <2>1
    <3> HIDE DEF from
    <3> QED BY <1>1, <3>1 DEF DeclarationIds
  <2>4. DeclarationIds(d) \subseteq DeclarationIds(b)
    BY <1>1, <2>2 DEF DeclarationIds
  <2>5. DeclarationIds(b) \subseteq DeclarationIds(d)
    BY <1>0, <2>3 DEF DeclarationIds
  <2> QED BY <2>4, <2>5
<1>8. DecidedCalls(d) = DecidedCalls(b) \cup {p.call}
  BY <1>1, <1>3 DEF DecidedCalls
<1>9. PendingCalls(d) = PendingCalls(b) \ {p.call}
  <2>1. \A j \in Pending(d) : from(j) \in Pending(b) /\ from(j) # i
    BY <1>0, <1>1 DEF Pending
  <2>2. \A j \in Pending(b) : j # i => from(j) \in Pending(d) /\ from(from(j)) = j
    BY <1>0, <1>1 DEF Pending
  <2>3. \A j \in Pending(b) : j # i => b.entries[j].call # p.call
    BY <1>0, <1>1 DEF Validate, UniqueDeclarations, Pending
  <2>4. Pending(d) \subseteq 1..n /\ Pending(b) \subseteq 1..n
    BY <1>0, <1>1 DEF Pending
  <2>5. PendingCalls(d) \subseteq PendingCalls(b) \ {p.call}
    BY <1>2, <2>1, <2>3, <2>4 DEF PendingCalls
  <2>6. PendingCalls(b) \ {p.call} \subseteq PendingCalls(d)
    <3> SUFFICES ASSUME NEW j \in Pending(b), b.entries[j].call # p.call
                 PROVE  b.entries[j].call \in PendingCalls(d)
      BY DEF PendingCalls
    <3>1. j # i
      BY <1>1
    <3>2. from(j) \in Pending(d) /\ from(j) \in 1..n /\ d.entries[from(j)].call = b.entries[j].call
      BY <1>2, <2>2, <2>4, <3>1
    <3> HIDE DEF from
    <3> QED BY <3>2 DEF PendingCalls
  <2> QED BY <2>5, <2>6
<1> QED BY <1>4, <1>5, <1>6, <1>7, <1>8, <1>9 DEF Validate

-----------------------------------------------------------------------------
(* Processing.                                                               *)

(* The IDs of the calls are block IDs.                                       *)
LEMMA CallsAreBlocks == Calls \subseteq BlockId
BY DeclaredAssumption DEF Calls

(* The payloads the runtime makes are payloads.                              *)
LEMMA PayloadTypes ==
    /\ Payloads \subseteq ToolResultPayload
    /\ \A c \in Calls, s \in ToolResultStatus : Synthesized(c, s) \in ToolResultPayload
BY CallsAreBlocks, ToolReturnsAssumption
DEF Payloads, ToolResultPayload, Synthesized

(* One resolve of the runtime: what it may assume of the new batch.          *)
LEMMA ResolveStep ==
    ASSUME TypeOK, NEW c, NEW p \in ToolResultPayload, Resolve(c, p)
    PROVE  /\ batch' \in Batch(N)
           /\ Validate(batch')
           /\ p.call = c
           /\ DeclarationIds(batch') = DeclarationIds(batch)
           /\ PendingCalls(batch') = PendingCalls(batch) \ {c}
           /\ DecidedCalls(batch') = DecidedCalls(batch) \cup {c}
<1>1. PICK i \in Pending(batch), id \in BlockId :
         /\ batch.entries[i].call = c
         /\ CheckResolve(batch, i, id, p)
         /\ batch' = ResolveAt(batch, i, id, p)
  BY DEF Resolve
<1>2. batch \in Batch(N) /\ N \in Nat
  BY NAssumption DEF TypeOK
<1>3. p.call = c
  BY <1>1 DEF CheckResolve
<1>4. batch' \in Batch(N)
  BY <1>1, <1>2, ResolveAtType
<1>5. /\ Validate(batch')
      /\ DeclarationIds(batch') = DeclarationIds(batch)
      /\ PendingCalls(batch') = PendingCalls(batch) \ {p.call}
      /\ DecidedCalls(batch') = DecidedCalls(batch) \cup {p.call}
  BY <1>1, <1>2, ResolveAtValid
<1> QED
  BY <1>3, <1>4, <1>5

-----------------------------------------------------------------------------
(* Whatever a processor makes of a batch has the shape of a batch.           *)
LEMMA EditTypes ==
    ASSUME NEW b \in Batch(N)
    PROVE  Edited(b) \subseteq Batch(N)
<1>1. /\ b.entries \in [1..N -> ToolCallEntry] /\ b.completed \in 0..N
      /\ DOMAIN b.entries = 1..N
      /\ \A i \in 1..N : b.entries[i] \in ToolCallEntry
      /\ Completed(b) \subseteq 1..N /\ Pending(b) \subseteq 1..N
  BY DEF Batch, Completed, Pending
<1>2. \A i \in 1..N : \A e \in ToolCallEntry : WithEntry(b, i, e) \in Batch(N)
  BY <1>1 DEF Batch, WithEntry
<1>3. InputEdits(b) \subseteq Batch(N)
  <2>1. \A i \in 1..N, t \in ToolName : WithInput(b.entries[i], t) \in ToolCallEntry
    BY <1>1 DEF ToolCallEntry, WithInput
  <2>2. ASSUME NEW d \in InputEdits(b)
        PROVE  d \in Batch(N)
    <3>1. PICK i \in 1..N, t \in ToolName :
             d = WithEntry(b, i, WithInput(b.entries[i], t))
      BY <1>1, <2>2 DEF InputEdits, Undecided
    <3> QED BY <1>2, <2>1, <3>1
  <2> QED BY <2>2
<1>6. NoteEdits(b) \subseteq Batch(N)
  <2>1. ASSUME NEW e \in ToolCallEntry, NEW n \in Note
        PROVE  WithNote(e, n) \in ToolCallEntry
    <3>1. CASE e.result = NoResult
      <4>1. Append(e.notes, n) \in Seq(Note)
        BY DEF ToolCallEntry
      <4> QED BY <3>1, <4>1 DEF ToolCallEntry, WithNote
    <3>2. CASE e.result # NoResult
      <4>1. e.result \in Result
        BY <3>2 DEF ToolCallEntry
      <4>2. Append(e.result.notes, n) \in Seq(Note)
        BY <4>1 DEF Result
      <4>3. [e.result EXCEPT !.notes = Append(@, n)] \in Result
        BY <4>1, <4>2 DEF Result
      <4> QED BY <3>2, <4>3 DEF ToolCallEntry, WithNote
    <3> QED BY <3>1, <3>2
  <2> QED BY <1>1, <1>2, <2>1 DEF NoteEdits
<1>7. OrderEdits(b) \subseteq Batch(N)
  <2>1. \A i, j \in 1..N : Exchanged(b, i, j) \in Batch(N)
    BY <1>1 DEF Batch, Exchanged
  <2> QED BY <1>1, <2>1 DEF OrderEdits
<1>4. ResolveEdits(b) \subseteq Batch(N)
  BY NAssumption, ResolveAtType, PayloadTypes DEF ResolveEdits
<1>5. EntryReplacements(b) \cup Reopenings(b) \subseteq Batch(N)
  <2>1. ASSUME NEW e \in ToolCallEntry
        PROVE  Variants(e) \subseteq ToolCallEntry
    <3>1. <<>> \in Seq(Note)
      OBVIOUS
    <3>2. {[e EXCEPT !.call = d] : d \in BlockId} \subseteq ToolCallEntry
      BY DEF ToolCallEntry
    <3>3. {[e EXCEPT !.input = t] : t \in ToolName} \subseteq ToolCallEntry
      BY DEF ToolCallEntry
    <3>4. /\ [e EXCEPT !.notes = <<>>] \in ToolCallEntry
          /\ [e EXCEPT !.result = NoResult] \in ToolCallEntry
      BY <3>1 DEF ToolCallEntry
    <3>5. ASSUME e.result # NoResult
          PROVE  /\ [e EXCEPT !.result.notes = <<>>] \in ToolCallEntry
                 /\ \A r \in ToolReturns : [e EXCEPT !.result.status = r.status] \in ToolCallEntry
      <4>1. e.result \in Result
        BY <3>5 DEF ToolCallEntry
      <4>2. [e.result EXCEPT !.notes = <<>>] \in Result
        BY <3>1, <4>1 DEF Result
      <4>3. \A r \in ToolReturns : [e.result EXCEPT !.status = r.status] \in Result
        BY <4>1, ToolReturnsAssumption DEF Result
      <4> QED BY <4>2, <4>3 DEF ToolCallEntry
    <3> QED BY <3>2, <3>3, <3>4, <3>5 DEF Variants
  <2>2. EntryReplacements(b) \subseteq Batch(N)
    BY <1>1, <1>2, <2>1 DEF EntryReplacements
  <2>3. \A m \in 0..b.completed : [b EXCEPT !.completed = m] \in Batch(N)
    BY <1>1, NAssumption DEF Batch
  <2>4. Reopenings(b) \subseteq Batch(N)
    BY <2>3 DEF Reopenings
  <2> QED BY <2>2, <2>4
<1> QED BY <1>3, <1>4, <1>5, <1>6, <1>7 DEF Edited

-----------------------------------------------------------------------------
(* The batch the caller lends is a batch.                                    *)
LEMMA InitType == Init => TypeOK
<1> SUFFICES ASSUME Init PROVE TypeOK
  OBVIOUS
<1>1. PICK input \in [Calls -> ToolName] :
        LET fresh == NewBatch(N, Declared, input)
        IN  \/ batch = fresh
            \/ \E i \in 1..N, id \in BlockId, p \in Payloads :
                 CheckResolve(fresh, i, id, p) /\ batch = ResolveAt(fresh, i, id, p)
  BY DEF Init
<1> DEFINE fresh == NewBatch(N, Declared, input)
<1>2. fresh \in Batch(N)
  <2>1. <<>> \in Seq(Note)
    OBVIOUS
  <2>2. \A i \in 1..N : [call |-> Declared[i], input |-> input[Declared[i]],
                          notes |-> <<>>, result |-> NoResult] \in ToolCallEntry
    BY <2>1, DeclaredAssumption DEF Calls, ToolCallEntry
  <2> QED BY <2>2, NAssumption DEF NewBatch, Batch
<1>3. batch \in Batch(N)
  <2>1. ASSUME NEW i \in 1..N, NEW id \in BlockId, NEW p \in Payloads,
               CheckResolve(fresh, i, id, p)
        PROVE  ResolveAt(fresh, i, id, p) \in Batch(N)
    <3>1. i \in Pending(fresh) /\ p \in ToolResultPayload
      BY <2>1, PayloadTypes DEF CheckResolve
    <3> HIDE DEF fresh
    <3> QED BY <1>2, <3>1, NAssumption, ResolveAtType
  <2> QED BY <1>1, <1>2, <2>1
<1> QED
  BY <1>3 DEF Init, TypeOK

(* Every step keeps the types.                                               *)
LEMMA NextType == TypeOK /\ [Next]_vars => TypeOK'
<1> SUFFICES ASSUME TypeOK, [Next]_vars PROVE TypeOK'
  OBVIOUS
<1> USE DEF TypeOK, control, tasks, processor, Return, Break
<1>1. CASE Begin
  BY <1>1 DEF Begin, Cause
<1>2. CASE RejectUnbound
  <2>1. PICK i \in Pending(batch) :
          Resolve(batch.entries[i].call, Synthesized(batch.entries[i].call, "Rejected"))
    BY <1>2 DEF RejectUnbound, Unbound
  <2>2. Synthesized(batch.entries[i].call, "Rejected") \in ToolResultPayload
    <3>1. i \in 1..N /\ batch.entries \in [1..N -> ToolCallEntry]
      BY DEF Batch, Pending
    <3>2. batch.entries[i].call \in BlockId
      BY <3>1 DEF ToolCallEntry
    <3>3. <<>> \in Seq(Note)
      OBVIOUS
    <3> QED BY <3>2, <3>3 DEF Synthesized, ToolResultPayload, ToolResultStatus
  <2>3. batch' \in Batch(N)
    BY <2>1, <2>2, ResolveStep
  <2> QED BY <1>2, <2>3 DEF RejectUnbound
<1>3. CASE BeforePhase \/ AfterPhase
  BY <1>3 DEF BeforePhase, AfterPhase, EnterPhase
<1>4. CASE NextProcessor
  BY <1>4 DEF NextProcessor, Cause
<1>5. CASE ProcessorDropped \/ ProcessorFails
  BY <1>5 DEF ProcessorDropped, ProcessorFails, Cause
<1>6. CASE BeforePhaseEnds \/ AfterPhaseEnds
  BY <1>6 DEF BeforePhaseEnds, AfterPhaseEnds, Cause
<1>7. CASE StartDispatch
  BY <1>7 DEF StartDispatch
<1>8. CASE StopDispatch \/ SettlementEnds
  BY <1>8 DEF StopDispatch, SettlementEnds, Cause
<1>9. CASE Cancel \/ Expire
  BY <1>9 DEF Cancel, Expire
<1>10. CASE ProcessorEdits
  BY <1>10, EditTypes DEF ProcessorEdits
<1>11. CASE ProcessorReturns
  BY <1>11 DEF ProcessorReturns
<1>12. ASSUME NEW c \in Calls, EnterCall(c) \/ RunTool(c)
       PROVE  TypeOK'
  BY <1>12 DEF EnterCall, RunTool, Cause
<1>13. ASSUME NEW c \in Calls, ToolReturnsResult(c)
       PROVE  TypeOK'
  <2>1. Payloads \cup {Synthesized(c, "Failed")} \subseteq ToolResultPayload
    BY PayloadTypes DEF ToolResultStatus
  <2> QED BY <1>13, <2>1 DEF ToolReturnsResult
<1>14. ASSUME NEW c \in Calls, NEW p \in ToolResultPayload, Collect(c, p),
              answer' = [answer EXCEPT ![c] = p]
       PROVE  TypeOK'
  <2>1. batch' \in Batch(N)
    BY <1>14, ResolveStep DEF Collect
  <2>2. \A e \in Calls : task'[e] = "ready" => e # c /\ task[e] = "ready"
    BY <1>14 DEF Collect
  <2> QED BY <1>14, <2>1, <2>2 DEF Collect
<1>15. ASSUME NEW c \in Calls, Backstop(c)
       PROVE  TypeOK'
  <2>1. Synthesized(c, "UnknownOutcome") \in ToolResultPayload
    BY PayloadTypes DEF ToolResultStatus
  <2>2. answer'[c] = Synthesized(c, "UnknownOutcome")
        /\ answer' \in [Calls -> ToolResultPayload \cup {NoResult}]
    BY <1>15, <2>1 DEF Backstop
  <2> QED BY <1>14, <1>15, <2>1, <2>2 DEF Backstop
<1>16. ASSUME NEW c \in Calls, Settle(c)
       PROVE  TypeOK'
  <2>1. Synthesized(c, "UnknownOutcome") \in ToolResultPayload
    BY PayloadTypes DEF ToolResultStatus
  <2>2. batch' \in Batch(N)
    BY <1>16, <2>1, ResolveStep DEF Settle
  <2> QED BY <1>16, <2>2 DEF Settle
<1>17. ASSUME NEW c \in Calls, CollectResult(c)
       PROVE  TypeOK'
  <2>1. answer[c] \in ToolResultPayload /\ answer' = answer
    BY <1>17 DEF CollectResult
  <2> QED BY <1>14, <1>17, <2>1 DEF CollectResult
<1>18. CASE UNCHANGED vars
  BY <1>18 DEF vars
<1> QED
  BY <1>1, <1>2, <1>3, <1>4, <1>5, <1>6, <1>7, <1>8, <1>9, <1>10, <1>11, <1>12,
     <1>13, <1>15, <1>16, <1>17, <1>18
  DEF Next, Runtime, Environment, Terminated

(* The state of a processing call keeps its types.                           *)
THEOREM TypeCorrect == Spec => []TypeOK
BY InitType, NextType, PTL DEF Spec

-----------------------------------------------------------------------------
(* The strengthening.  What the runtime knows of the dispatch that has not   *)
(* begun, that is running, and that has been left.                           *)

HasStatus(b, c, s) ==
    \E i \in Completed(b) : b.entries[i].call = c /\ b.entries[i].result.status = s

(* The phase and the place in the code agree.                                *)
PhaseInv ==
    pc \in {"entry", "reject1", "reject2", "dispatch", "settle"} => phase = "Before"

(* Nothing has started before dispatch, and only started calls are polled.   *)
StartInv ==
    /\ ran \subseteq started
    /\ phase = "Before" /\ pc \notin {"dispatch", "settle", "done"} =>
         started = {} /\ \A c \in Calls : task[c] = "none"

(* What a poll enters is recorded as started, before it runs.                *)
EnteredInv == \A c \in Calls : task[c] \in {"entered", "running", "ready"} => c \in started

(* A call left after dispatch broke off is settled ...                       *)
SettledInv ==
    pc = "done" /\ phase = "Before" => started \cap PendingCalls(batch) = {}

(* ... and the results collected before are still in a valid batch.          *)
KeptInv ==
    pc \in {"dispatch", "settle"} \/ (pc = "done" /\ phase = "Before") =>
        \A c \in Calls :
            task[c] = "collected" /\ answer[c].call = c =>
                Validate(batch) /\ HasStatus(batch, c, answer[c].status)

(* A future that has not been collected waits for a call still pending.      *)
WaitingInv ==
    pc = "dispatch" =>
        \A c \in Calls : task[c] \in {"new", "entered", "running", "ready"} =>
                            c \in PendingCalls(batch)

DispatchInv == /\ ResolvesValidBatch /\ PhaseInv /\ StartInv /\ EnteredInv
               /\ SettledInv /\ WaitingInv /\ KeptInv

IInv == TypeOK /\ DispatchInv

(* Resolving one call changes the status of no other.                        *)
LEMMA ResolveKeepsStatuses ==
    ASSUME TypeOK, NEW c, NEW p \in ToolResultPayload, Resolve(c, p)
    PROVE  /\ HasStatus(batch', c, p.status)
           /\ \A d, s : HasStatus(batch, d, s) => HasStatus(batch', d, s)
<1>1. PICK i \in Pending(batch), id \in BlockId :
         /\ batch.entries[i].call = c
         /\ CheckResolve(batch, i, id, p)
         /\ batch' = ResolveAt(batch, i, id, p)
  BY DEF Resolve
<1>2. batch \in Batch(N) /\ N \in Nat
  BY NAssumption DEF TypeOK
<1>3. Installed(N, batch, i, id, p, batch')
  BY <1>1, <1>2, ResolveAtEffect
<1>4. HasStatus(batch', c, p.status)
  BY <1>1, <1>3 DEF Installed, HasStatus
<1>5. \A j \in Completed(batch) : j \in Completed(batch') /\ batch'.entries[j] = batch.entries[j]
  BY <1>1, <1>2, <1>3 DEF Installed, Completed, Batch
<1>6. ASSUME NEW d, NEW s, HasStatus(batch, d, s)
      PROVE  HasStatus(batch', d, s)
  BY <1>5, <1>6 DEF HasStatus
<1> QED
  BY <1>4, <1>6

(* Nothing was dispatched yet.                                               *)
LEMMA InitInv == Init => IInv
BY InitType
DEF Init, IInv, DispatchInv, ResolvesValidBatch, PhaseInv, StartInv, EnteredInv, SettledInv, WaitingInv, KeptInv

(* Every step keeps the invariant,                                           *)
LEMMA NextInv == IInv /\ [Next]_vars => IInv'
<1> SUFFICES ASSUME TypeOK, TypeOK', DispatchInv, [Next]_vars PROVE DispatchInv'
  BY NextType DEF IInv
<1> USE DEF DispatchInv, ResolvesValidBatch, PhaseInv, StartInv, EnteredInv, SettledInv, WaitingInv, KeptInv,
            control, tasks, processor, Return, Break
<1>1. CASE Begin
  BY <1>1 DEF Begin
<1>2. CASE RejectUnbound
  <2>1. PICK i \in Pending(batch) :
          Resolve(batch.entries[i].call, Synthesized(batch.entries[i].call, "Rejected"))
    BY <1>2 DEF RejectUnbound, Unbound
  <2>2. Synthesized(batch.entries[i].call, "Rejected") \in ToolResultPayload
    <3>1. i \in 1..N /\ batch.entries \in [1..N -> ToolCallEntry]
      BY DEF TypeOK, Batch, Pending
    <3>2. batch.entries[i].call \in BlockId
      BY <3>1 DEF ToolCallEntry
    <3>3. <<>> \in Seq(Note)
      OBVIOUS
    <3> QED BY <3>2, <3>3 DEF Synthesized, ToolResultPayload, ToolResultStatus
  <2>3. Validate(batch')
    BY <2>1, <2>2, ResolveStep
  <2> QED BY <1>2, <2>3 DEF RejectUnbound
<1>3. CASE BeforePhase \/ AfterPhase
  BY <1>3 DEF BeforePhase, AfterPhase, EnterPhase
<1>4. CASE NextProcessor
  BY <1>4 DEF NextProcessor
<1>5. CASE ProcessorDropped \/ ProcessorFails
  BY <1>5 DEF ProcessorDropped, ProcessorFails
<1>6. CASE BeforePhaseEnds \/ AfterPhaseEnds
  BY <1>6 DEF BeforePhaseEnds, AfterPhaseEnds
<1>7. CASE StartDispatch
  BY <1>7 DEF StartDispatch
<1>8. CASE StopDispatch \/ SettlementEnds
  BY <1>8 DEF StopDispatch, SettlementEnds
<1>9. CASE Cancel \/ Expire
  BY <1>9 DEF Cancel, Expire
<1>10. CASE ProcessorEdits
  BY <1>10 DEF ProcessorEdits
<1>11. CASE ProcessorReturns
  BY <1>11 DEF ProcessorReturns
<1>12. ASSUME NEW c \in Calls, EnterCall(c)
       PROVE  DispatchInv'
  BY <1>12 DEF EnterCall, TypeOK
<1>13. ASSUME NEW c \in Calls, RunTool(c)
       PROVE  DispatchInv'
  <2>1. \A d \in Calls : d # c => task'[d] = task[d]
    BY <1>13 DEF RunTool, TypeOK
  <2>2. task[c] = "entered" /\ task'[c] = "running" /\ UNCHANGED <<batch, pc, phase, answer>>
    BY <1>13 DEF RunTool, TypeOK
  <2>3. WaitingInv' /\ KeptInv'
    BY <2>1, <2>2
  <2>4. c \in started /\ StartInv'
    BY <1>13 DEF RunTool
  <2> QED BY <2>2, <2>3, <2>4, <1>13 DEF RunTool
<1>14. ASSUME NEW c \in Calls, ToolReturnsResult(c)
       PROVE  DispatchInv'
  <2>1. \A d \in Calls : task'[d] = "collected" =>
           task[d] = "collected" /\ answer'[d] = answer[d]
    BY <1>14 DEF ToolReturnsResult, TypeOK
  <2> QED BY <1>14, <2>1 DEF ToolReturnsResult
<1>15. ASSUME NEW c \in Calls, NEW p \in ToolResultPayload, Collect(c, p), pc = "dispatch",
              task[c] \in {"entered", "running", "ready"},
              answer' = [answer EXCEPT ![c] = p]
       PROVE  DispatchInv'
  <2>1. /\ UNCHANGED <<phase, started, ran>>
        /\ answer'[c] = p /\ \A d \in Calls : d # c => answer'[d] = answer[d]
        /\ \A d \in Calls : d # c => task'[d] = task[d]
        /\ task'[c] = "collected" /\ EnteredInv'
    BY <1>15 DEF Collect, TypeOK
  <2>2. CASE Acceptable(c, p)
    <3>1. Resolve(c, p) /\ pc' = "dispatch"
      BY <1>15, <2>2 DEF Collect
    <3>2. Validate(batch') /\ PendingCalls(batch') = PendingCalls(batch) \ {c}
      BY <3>1, <1>15, ResolveStep
    <3>3. /\ HasStatus(batch', c, p.status)
          /\ \A d, s : HasStatus(batch, d, s) => HasStatus(batch', d, s)
      BY <3>1, <1>15, ResolveKeepsStatuses
    <3> QED BY <1>15, <2>1, <3>1, <3>2, <3>3
  <2>3. CASE ~Acceptable(c, p)
    <3>1. batch' = batch /\ pc' = "settle"
      BY <1>15, <2>3 DEF Collect
    <3>2. Validate(batch)
      BY <1>15
    <3>3. p.call # c
      BY <1>15, <2>3, <3>2 DEF Acceptable
    <3> QED BY <1>15, <2>1, <3>1, <3>2, <3>3
  <2> QED BY <2>2, <2>3
<1>16. ASSUME NEW c \in Calls, Backstop(c)
       PROVE  DispatchInv'
  <2>1. Synthesized(c, "UnknownOutcome") \in ToolResultPayload
    BY PayloadTypes DEF ToolResultStatus
  <2>2. answer' = [answer EXCEPT ![c] = Synthesized(c, "UnknownOutcome")]
        /\ answer'[c] = Synthesized(c, "UnknownOutcome")
    BY <1>16 DEF Backstop, TypeOK
  <2> QED BY <1>15, <1>16, <2>1, <2>2 DEF Backstop
<1>17. ASSUME NEW c \in Calls, CollectResult(c)
       PROVE  DispatchInv'
  <2>1. /\ answer[c] \in ToolResultPayload
        /\ answer' = [answer EXCEPT ![c] = answer[c]]
    BY <1>17 DEF CollectResult, TypeOK
  <2> QED BY <1>15, <1>17, <2>1 DEF CollectResult
<1>18. ASSUME NEW c \in Calls, Settle(c)
       PROVE  DispatchInv'
  <2> DEFINE p == Synthesized(c, "UnknownOutcome")
  <2>1. p \in ToolResultPayload
    BY PayloadTypes DEF ToolResultStatus
  <2>2. Resolve(c, p) /\ pc = "settle"
    BY <1>18 DEF Settle
  <2>3. UNCHANGED <<pc, phase, task, answer, started, ran>>
    BY <1>18 DEF Settle
  <2> HIDE DEF p
  <2>4. Validate(batch')
    BY <2>1, <2>2, ResolveStep
  <2>5. \A d, s : HasStatus(batch, d, s) => HasStatus(batch', d, s)
    BY <2>1, <2>2, ResolveKeepsStatuses
  <2> QED BY <2>2, <2>3, <2>4, <2>5
<1>19. CASE UNCHANGED vars
  BY <1>19 DEF vars
<1> QED
  BY <1>1, <1>2, <1>3, <1>4, <1>5, <1>6, <1>7, <1>8, <1>9, <1>10, <1>11, <1>12,
     <1>13, <1>14, <1>16, <1>17, <1>18, <1>19
  DEF Next, Runtime, Environment, Terminated

(* so that it holds of every reachable state of process().                   *)
THEOREM InvariantHolds == Spec => []IInv
BY InitInv, NextInv, PTL DEF Spec

-----------------------------------------------------------------------------
(* Whatever processors do to the batch they are lent, every resolve() of the *)
(* runtime, the settlement's .expect included, works on a valid batch.       *)
THEOREM ResolveCannotFail == Spec => []ResolvesValidBatch
<1>1. IInv => ResolvesValidBatch
  BY DEF IInv, DispatchInv
<1> QED BY <1>1, InvariantHolds, PTL

(* A batch that dispatch gave back has no pending call whose tool was polled. *)
THEOREM PendingIsSafeToRun == Spec => []PendingNeverRan
<1>1. IInv => PendingNeverRan
  BY DEF IInv, DispatchInv, StartInv, SettledInv, PendingNeverRan
<1> QED BY <1>1, InvariantHolds, PTL

(* A call with a status is decided, and its entry has it.                    *)
LEMMA StatusOfEntry ==
    ASSUME NEW b, NEW c, NEW s, Validate(b), HasStatus(b, c, s)
    PROVE  c \in DecidedCalls(b) /\ EntryOf(b, c).result.status = s
<1>1. PICK i \in Completed(b) : b.entries[i].call = c /\ b.entries[i].result.status = s
  BY DEF HasStatus
<1>2. i \in DOMAIN b.entries
  BY DEF Completed
<1>3. \A j \in DOMAIN b.entries : b.entries[j].call = c => j = i
  BY <1>1, <1>2 DEF Validate, UniqueDeclarations
<1>4. (CHOOSE j \in DOMAIN b.entries : b.entries[j].call = c) = i
  BY <1>1, <1>2, <1>3
<1> QED BY <1>1, <1>4 DEF EntryOf, DecidedCalls

(* A result that was collected survives a stop, settlement and rejected      *)
(* siblings: it is in the batch the caller gets back.                        *)
THEOREM CollectedIsKept == Spec => []CollectedResultsKept
<1>1. IInv => CollectedResultsKept
  BY StatusOfEntry DEF IInv, DispatchInv, KeptInv, CollectedResultsKept
<1> QED BY <1>1, InvariantHolds, PTL

(* A resolution appends to the completed prefix.                             *)
LEMMA ResolveAppends ==
    ASSUME TypeOK, NEW c, NEW p \in ToolResultPayload, Resolve(c, p)
    PROVE  OnlyAppended
<1>1. PICK i \in Pending(batch), id \in BlockId :
         /\ CheckResolve(batch, i, id, p)
         /\ batch' = ResolveAt(batch, i, id, p)
  BY DEF Resolve
<1>2. batch \in Batch(N) /\ N \in Nat
  BY NAssumption DEF TypeOK
<1>3. Installed(N, batch, i, id, p, batch')
  BY <1>1, <1>2, ResolveAtEffect
<1>4. i \notin Completed(batch) /\ batch.completed + 1 \notin Completed(batch)
      /\ Completed(batch) \subseteq 1..N
  BY <1>2 DEF Pending, Completed, Batch
<1> QED
  BY <1>3, <1>4 DEF Installed, OnlyAppended

(* A resolution of a started call is none of the others.                     *)
LEMMA ResolveSpares ==
    ASSUME TypeOK, NEW c \in started, NEW p \in ToolResultPayload, Resolve(c, p), started' = started
    PROVE  LateSiblingsKept
<1>1. PendingCalls(batch') = PendingCalls(batch) \ {c}
  BY ResolveStep
<1>2. Untouched' = PendingCalls(batch') \ started'
  BY DEF Untouched
<1> QED BY <1>1, <1>2 DEF LateSiblingsKept, Untouched

(* From the start of dispatch until the batch is given back, results are     *)
(* appended to the completed prefix one at a time and never moved; and once  *)
(* there is a stop no other call is started, or decided.                     *)
THEOREM ResultsAppend == Spec => ResultsOnlyAppended
<1>1. ASSUME IInv, [Next]_vars, phase = "Before", pc \in {"dispatch", "settle"}
      PROVE  OnlyAppended /\ LateSiblingsKept
  <2> USE DEF control, tasks, processor, Return, Break
  <2>0. TypeOK
    BY <1>1 DEF IInv
  <2>1. CASE batch' = batch /\ started' = started
    <3>1. batch.completed \in 0..N
      BY <2>0 DEF TypeOK, Batch
    <3>2. OnlyAppended
      BY <2>1, <3>1 DEF OnlyAppended
    <3>3. PendingCalls(batch') = PendingCalls(batch)
      BY <2>1
    <3> QED BY <2>1, <3>2, <3>3 DEF LateSiblingsKept, Untouched
  <2>2. ASSUME NEW c \in Calls, Settle(c)
        PROVE  OnlyAppended /\ LateSiblingsKept
    <3>1. Synthesized(c, "UnknownOutcome") \in ToolResultPayload
      BY PayloadTypes DEF ToolResultStatus
    <3> QED BY <2>0, <2>2, <3>1, ResolveAppends, ResolveSpares DEF Settle
  <2>3. ASSUME NEW c \in started, NEW p \in ToolResultPayload, Collect(c, p)
        PROVE  OnlyAppended /\ LateSiblingsKept
    BY <2>0, <2>1, <2>3, ResolveAppends, ResolveSpares DEF Collect
  <2>4. ASSUME NEW c \in Calls, Backstop(c)
        PROVE  OnlyAppended /\ LateSiblingsKept
    <3>1. Synthesized(c, "UnknownOutcome") \in ToolResultPayload
      BY PayloadTypes DEF ToolResultStatus
    <3>2. answer'[c] = Synthesized(c, "UnknownOutcome") /\ Collect(c, answer'[c])
      BY <2>0, <2>4 DEF Backstop, TypeOK
    <3>3. c \in started
      BY <1>1, <2>4 DEF Backstop, IInv, DispatchInv, EnteredInv
    <3> QED BY <2>3, <3>1, <3>2, <3>3
  <2>5. ASSUME NEW c \in Calls, CollectResult(c)
        PROVE  OnlyAppended /\ LateSiblingsKept
    <3>1. answer[c] \in ToolResultPayload /\ Collect(c, answer[c])
      BY <2>0, <2>5 DEF CollectResult, TypeOK
    <3>2. c \in started
      BY <1>1, <2>5 DEF CollectResult, IInv, DispatchInv, EnteredInv
    <3> QED BY <2>3, <3>1, <3>2
  <2>6. CASE ProcessorEdits \/ RejectUnbound
    BY <1>1, <2>6 DEF ProcessorEdits, RejectUnbound
  <2>7. CASE Begin \/ BeforePhase \/ NextProcessor \/ ProcessorDropped \/ BeforePhaseEnds
             \/ AfterPhaseEnds \/ StartDispatch \/ StopDispatch \/ AfterPhase
             \/ SettlementEnds \/ Cancel \/ Expire \/ ProcessorFails \/ ProcessorReturns
    BY <2>1, <2>7
    DEF Begin, BeforePhase, NextProcessor, ProcessorDropped, BeforePhaseEnds,
        AfterPhaseEnds, StartDispatch, StopDispatch, AfterPhase, SettlementEnds,
        Cancel, Expire, ProcessorFails, ProcessorReturns
  <2>8. ASSUME NEW c \in Calls, RunTool(c) \/ ToolReturnsResult(c)
        PROVE  OnlyAppended /\ LateSiblingsKept
    BY <2>1, <2>8 DEF RunTool, ToolReturnsResult
  <2>9. ASSUME NEW c \in Calls, EnterCall(c)
        PROVE  OnlyAppended /\ LateSiblingsKept
    <3>1. CASE Stopped
      BY <2>1, <2>9, <3>1 DEF EnterCall
    <3>2. CASE ~Stopped
      <4>1. batch' = batch /\ batch.completed \in 0..N
        BY <2>0, <2>9 DEF EnterCall, TypeOK, Batch
      <4> QED BY <3>2, <4>1 DEF OnlyAppended, LateSiblingsKept
    <3> QED BY <3>1, <3>2
  <2>10. CASE UNCHANGED vars
    BY <2>1, <2>10 DEF vars
  <2> QED
    BY <1>1, <2>2, <2>4, <2>5, <2>6, <2>7, <2>8, <2>9, <2>10
    DEF Next, Runtime, Environment, Terminated
<1>2. IInv /\ [Next]_vars =>
        [phase = "Before" /\ pc \in {"dispatch", "settle"} => OnlyAppended /\ LateSiblingsKept]_vars
  BY <1>1
<1> QED
  BY <1>2, InvariantHolds, PTL DEF Spec, ResultsOnlyAppended

-----------------------------------------------------------------------------
(* What Ok reports.  A valid batch has one entry per declaration.            *)
LEMMA EntryIsUnique ==
    ASSUME NEW b, UniqueDeclarations(b), NEW i \in DOMAIN b.entries
    PROVE  EntryOf(b, b.entries[i].call) = b.entries[i]
<1>1. \A j \in DOMAIN b.entries : b.entries[j].call = b.entries[i].call => j = i
  BY DEF UniqueDeclarations
<1>2. (CHOOSE j \in DOMAIN b.entries : b.entries[j].call = b.entries[i].call) = i
  BY <1>1
<1> QED BY <1>2 DEF EntryOf

(* EntryOf finds an entry for every declaration of a batch.                  *)
LEMMA EntryExists ==
    ASSUME NEW b \in Batch(N), NEW c \in DeclarationIds(b)
    PROVE  /\ EntryOf(b, c) \in ToolCallEntry /\ EntryOf(b, c).call = c
           /\ \E i \in DOMAIN b.entries : EntryOf(b, c) = b.entries[i]
<1>1. \E i \in DOMAIN b.entries : b.entries[i].call = c
  BY DEF DeclarationIds
<1> DEFINE at == CHOOSE i \in DOMAIN b.entries : b.entries[i].call = c
<1>2. at \in DOMAIN b.entries /\ b.entries[at].call = c
  BY <1>1
<1> HIDE DEF at
<1>3. b.entries[at] \in ToolCallEntry
  BY <1>2 DEF Batch
<1>4. EntryOf(b, c) = b.entries[at]
  BY DEF EntryOf, at
<1> QED BY <1>2, <1>3, <1>4

(* In a valid batch a call is pending exactly when its entry has no result.  *)
LEMMA PendingEntry ==
    ASSUME NEW b \in Batch(N), Validate(b), NEW c \in DeclarationIds(b)
    PROVE  c \in PendingCalls(b) <=> EntryOf(b, c).result = NoResult
<1>1. PICK i \in DOMAIN b.entries : b.entries[i].call = c
  BY DEF DeclarationIds
<1>2. EntryOf(b, c) = b.entries[i]
  BY <1>1, EntryIsUnique DEF Validate
<1>3. c \in PendingCalls(b) <=> i \in Pending(b)
  BY <1>1 DEF Validate, UniqueDeclarations, PendingCalls, Pending
<1>4. DOMAIN b.entries = 1..N /\ b.completed \in 0..N
  BY DEF Batch
<1>5. i \in Pending(b) <=> b.entries[i].result = NoResult
  BY <1>1, <1>4, NAssumption DEF Validate, Partitioned, Pending, Completed
<1> QED BY <1>2, <1>3, <1>5

(* What one resolve of the runtime does to the entries.                      *)
LEMMA ResolveEntries ==
    ASSUME TypeOK, Validate(batch), NEW c, NEW p \in ToolResultPayload, Resolve(c, p)
    PROVE  /\ c \in DeclarationIds(batch)
           /\ EntryOf(batch', c).input = EntryOf(batch, c).input
           /\ EntryOf(batch', c).result # NoResult
           /\ EntryOf(batch', c).result.status = p.status
           /\ EntryOf(batch', c).result.notes = EntryOf(batch, c).notes \o p.notes
           /\ \A d \in DeclarationIds(batch) \ {c} : EntryOf(batch', d) = EntryOf(batch, d)
<1>1. PICK i \in Pending(batch), id \in BlockId :
         /\ batch.entries[i].call = c
         /\ CheckResolve(batch, i, id, p)
         /\ batch' = ResolveAt(batch, i, id, p)
  BY DEF Resolve
<1>2. batch \in Batch(N) /\ N \in Nat
  BY NAssumption DEF TypeOK
<1>3. Installed(N, batch, i, id, p, batch')
  BY <1>1, <1>2, ResolveAtEffect
<1> DEFINE k == batch.completed + 1
<1>4. /\ k \in 1..N /\ i \in 1..N /\ DOMAIN batch'.entries = 1..N
      /\ DOMAIN batch.entries = 1..N
      /\ \A j \in 1..N : j # i /\ j # k => batch'.entries[j] = batch.entries[j]
      /\ i # k => batch'.entries[i] = batch.entries[k]
      /\ batch'.entries[k].call = c
      /\ batch'.entries[k].input = batch.entries[i].input
      /\ batch'.entries[k].result # NoResult
      /\ batch'.entries[k].result.status = p.status
      /\ batch'.entries[k].result.notes = batch.entries[i].notes \o p.notes
  BY <1>1, <1>2, <1>3 DEF Installed, Batch
<1> HIDE DEF k
<1>5. UniqueDeclarations(batch) /\ UniqueDeclarations(batch')
  BY <1>1, <1>2, ResolveStep DEF Validate
<1>6. EntryOf(batch, c) = batch.entries[i] /\ EntryOf(batch', c) = batch'.entries[k]
  BY <1>1, <1>4, <1>5, EntryIsUnique
<1>7. c \in DeclarationIds(batch)
  BY <1>1, <1>4 DEF DeclarationIds
<1>8. ASSUME NEW d \in DeclarationIds(batch) \ {c}
      PROVE  EntryOf(batch', d) = EntryOf(batch, d)
  <2>1. PICK j \in 1..N : batch.entries[j].call = d
    BY <1>4 DEF DeclarationIds
  <2>2. j # i /\ EntryOf(batch, d) = batch.entries[j]
    BY <1>1, <1>4, <1>5, <2>1, EntryIsUnique
  <2>3. \E m \in 1..N : batch'.entries[m] = batch.entries[j]
    BY <1>4, <2>2
  <2>4. PICK m \in 1..N : batch'.entries[m] = batch.entries[j]
    BY <2>3
  <2>5. EntryOf(batch', d) = batch'.entries[m]
    BY <1>4, <1>5, <2>1, <2>4, EntryIsUnique
  <2> QED BY <2>2, <2>4, <2>5
<1> QED BY <1>4, <1>6, <1>7, <1>8

(* A prefix of a prefix is one: after-processors may append note after note. *)
LEMMA PrefixOfPrefix ==
    ASSUME NEW s \in Seq(Note), NEW t \in Seq(Note), NEW u \in Seq(Note),
           Len(s) <= Len(t), SubSeq(t, 1, Len(s)) = s,
           NEW k \in 0..Len(u), SubSeq(u, 1, k) = t
    PROVE  Len(s) <= Len(u) /\ SubSeq(u, 1, Len(s)) = s
<1>1. Len(t) = k /\ \A i \in 1..k : t[i] = u[i]
  OBVIOUS
<1>2. \A i \in 1..Len(s) : s[i] = t[i]
  OBVIOUS
<1>3. Len(s) \in Nat /\ Len(u) \in Nat /\ Len(s) <= Len(u)
  BY <1>1
<1>4. SubSeq(u, 1, Len(s)) \in Seq(Note) /\ Len(SubSeq(u, 1, Len(s))) = Len(s)
  BY <1>3
<1>5. \A i \in 1..Len(s) : SubSeq(u, 1, Len(s))[i] = s[i]
  BY <1>1, <1>2, <1>3
<1> QED BY <1>3, <1>4, <1>5

(* And a sequence is a prefix of itself.                                     *)
LEMMA WholePrefix == \A s \in Seq(Note) : SubSeq(s, 1, Len(s)) = s
<1> SUFFICES ASSUME NEW s \in Seq(Note) PROVE SubSeq(s, 1, Len(s)) = s
  OBVIOUS
<1>1. SubSeq(s, 1, Len(s)) \in Seq(Note) /\ Len(SubSeq(s, 1, Len(s))) = Len(s)
  OBVIOUS
<1>2. \A i \in 1..Len(s) : SubSeq(s, 1, Len(s))[i] = s[i]
  OBVIOUS
<1> QED BY <1>1, <1>2

(* A future that dispatch has not collected yet.                             *)
InFlight == {"new", "entered", "running", "ready"}

(* What OkReportsWhatHappened says of one call c: the batch h was handed to  *)
(* dispatch, which started the calls s and got the answers a; b came back.   *)
Reports(h, s, a, b, c) ==
    LET before == EntryOf(h, c)
        after  == EntryOf(b, c)
        kept   == IF c \in s THEN before.notes \o a[c].notes ELSE before.result.notes
    IN  /\ after.result # NoResult
        /\ after.input = before.input
        /\ after.result.status = IF c \in s THEN a[c].status ELSE before.result.status
        /\ Len(kept) <= Len(after.result.notes)
        /\ SubSeq(after.result.notes, 1, Len(kept)) = kept

(* Where a call stands while dispatch runs, against the batch handed to it.  *)
Stands(h, s, t, a, b, c) ==
    LET before == EntryOf(h, c)
        now    == EntryOf(b, c)
    IN  /\ c \in s <=> t[c] \notin {"none", "new"}
        /\ t[c] \in InFlight => now = before /\ now.result = NoResult /\ now.input \in Bound
        /\ t[c] = "none" => now = before /\ now.result # NoResult
        /\ t[c] = "collected" =>
             /\ a[c] \in ToolResultPayload
             /\ now.result # NoResult
             /\ now.input = before.input
             /\ now.result.status = a[c].status
             /\ now.result.notes = before.notes \o a[c].notes

(* No declaration appears or disappears, except in a processor's hands.      *)
DeclaredInv ==
    /\ pc \notin {"processor", "done"} => DeclarationIds(batch) = Calls
    /\ pc = "processor" => DeclarationIds(previous) = Calls
    /\ pc = "phase" => batch = previous

(* The batch handed to dispatch was valid and complete in its declarations.  *)
HandoffInv ==
    pc = "dispatch" \/ phase = "After" =>
        Validate(handoff) /\ DeclarationIds(handoff) = Calls

(* While dispatch runs, every call stands where its future is.               *)
DispatchedInv ==
    pc = "dispatch" => \A c \in Calls : Stands(handoff, started, task, answer, batch, c)

(* After dispatch every call is answered or was decided before, and the last *)
(* batch accepted reports it.                                                *)
ReportedInv ==
    /\ phase = "After" =>
         \A c \in Calls : IF c \in started THEN answer[c] \in ToolResultPayload
                                           ELSE EntryOf(handoff, c).result # NoResult
    /\ phase = "After" /\ pc \in {"phase", "processor"} =>
         /\ Validate(previous) /\ DeclarationIds(previous) = Calls
         /\ \A c \in Calls : Reports(handoff, started, answer, previous, c)
    /\ outcome = "Ok" =>
         /\ pc = "done" /\ ValidateComplete(batch) /\ DeclarationIds(batch) = Calls
         /\ \A c \in Calls : Reports(handoff, started, answer, batch, c)

ReportInv == DeclaredInv /\ HandoffInv /\ DispatchedInv /\ ReportedInv

(* At the start nothing is dispatched, and the batch declares the calls.     *)
LEMMA ReportInit == Init => ReportInv
<1> SUFFICES ASSUME Init PROVE ReportInv
  OBVIOUS
<1>1. DeclarationIds(batch) = Calls
  <2>1. PICK input \in [Calls -> ToolName] :
           LET fresh == NewBatch(N, Declared, input)
           IN  \/ batch = fresh
               \/ \E i \in 1..N, id \in BlockId, p \in Payloads :
                    CheckResolve(fresh, i, id, p) /\ batch = ResolveAt(fresh, i, id, p)
    BY DEF Init
  <2> DEFINE fresh == NewBatch(N, Declared, input)
  <2>2. DeclarationIds(fresh) = Calls
    BY DEF NewBatch, DeclarationIds, Calls
  <2>3. fresh \in Batch(N) /\ N \in Nat
    <3>1. \A i \in 1..N : Declared[i] \in BlockId /\ Declared[i] \in Calls
      BY DeclaredAssumption DEF Calls
    <3>2. <<>> \in Seq(Note)
      OBVIOUS
    <3>3. \A i \in 1..N : [call |-> Declared[i], input |-> input[Declared[i]],
                           notes |-> <<>>, result |-> NoResult] \in ToolCallEntry
      BY <3>1, <3>2, <2>1 DEF ToolCallEntry
    <3> QED BY <3>3, NAssumption DEF NewBatch, Batch
  <2> HIDE DEF fresh
  <2>4. CASE batch = fresh
    BY <2>2, <2>4
  <2>5. ASSUME NEW i \in 1..N, NEW id \in BlockId, NEW p \in Payloads,
               CheckResolve(fresh, i, id, p), batch = ResolveAt(fresh, i, id, p)
        PROVE  DeclarationIds(batch) = Calls
    BY <2>2, <2>3, <2>5, PayloadTypes, ResolveAtValid
  <2> QED BY <2>1, <2>4, <2>5 DEF fresh
<1> QED BY <1>1 DEF Init, ReportInv, DeclaredInv, HandoffInv, DispatchedInv, ReportedInv

(* An after-processor whose batch is accepted changed no report.             *)
LEMMA AcceptedReports ==
    ASSUME TypeOK, NEW c \in Calls, phase = "After",
           Reports(handoff, started, answer, previous, c),
           DeclarationIds(previous) = Calls, DeclarationIds(handoff) = Calls,
           CheckTransition(previous, batch, phase), Validate(batch),
           c \in started => answer[c] \in ToolResultPayload,
           c \notin started => EntryOf(handoff, c).result # NoResult
    PROVE  Reports(handoff, started, answer, batch, c)
<1> DEFINE before == EntryOf(handoff, c)
           old    == EntryOf(previous, c)
           new    == EntryOf(batch, c)
           kept   == IF c \in started THEN before.notes \o answer[c].notes
                                      ELSE before.result.notes
<1>1. before \in ToolCallEntry /\ old \in ToolCallEntry /\ new \in ToolCallEntry
  BY EntryExists DEF TypeOK, CheckTransition
<1>2. /\ old.result # NoResult /\ old.input = before.input
      /\ old.result.status = IF c \in started THEN answer[c].status ELSE before.result.status
      /\ Len(kept) <= Len(old.result.notes)
      /\ SubSeq(old.result.notes, 1, Len(kept)) = kept
  BY DEF Reports
<1>3. DecisionKept(old, new, "After") /\ InputKept(old, new, "After") /\ NotesKept(old, new)
  BY DEF CheckTransition
<1>k. kept \in Seq(Note)
  <2>1. CASE c \in started
    BY <1>1, <2>1 DEF ToolCallEntry, ToolResultPayload
  <2>2. CASE c \notin started
    BY <1>1, <2>2 DEF ToolCallEntry, Result
  <2> QED BY <2>1, <2>2
<1> HIDE DEF before, old, new, kept
<1>4. new.result # NoResult /\ new.result.status = old.result.status /\ new.input = old.input
  BY <1>2, <1>3 DEF DecisionKept, InputKept
<1>5. old.result.notes \in Seq(Note) /\ new.result.notes \in Seq(Note)
  BY <1>1, <1>2, <1>4 DEF ToolCallEntry, Result
<1>6. PICK k \in 0..Len(new.result.notes) :
         SubSeq(new.result.notes, 1, k) = old.result.notes
  BY <1>2, <1>3, <1>4 DEF NotesKept, NotesOf
<1>7. /\ Len(kept) <= Len(new.result.notes)
      /\ SubSeq(new.result.notes, 1, Len(kept)) = kept
  BY <1>2, <1>5, <1>6, <1>k, PrefixOfPrefix
<1> QED BY <1>2, <1>4, <1>7 DEF Reports, before, old, new, kept

(* Every step keeps what is known of the calls.                              *)
LEMMA ReportNext ==
    ASSUME IInv, IInv', ReportInv, [Next]_vars
    PROVE  ReportInv'
<1>i. /\ TypeOK /\ TypeOK' /\ ResolvesValidBatch /\ PhaseInv
      /\ DeclaredInv /\ HandoffInv /\ DispatchedInv /\ ReportedInv
  BY DEF IInv, DispatchInv, ReportInv
<1> USE DEF control, tasks, processor, Return, Break
<1>1. CASE Begin
  <2>1. UNCHANGED <<batch, phase, handoff, previous>> /\ pc = "entry" /\ phase = "Before"
        /\ pc' \in {"reject1", "done"} /\ outcome' # "Ok"
    BY <1>1, <1>i DEF Begin, Cause, PhaseInv, ReportedInv
  <2> QED BY <2>1, <1>i DEF ReportInv, DeclaredInv, HandoffInv, DispatchedInv, ReportedInv
<1>2. CASE RejectUnbound
  <2>1. PICK i \in Pending(batch) :
          Resolve(batch.entries[i].call, Synthesized(batch.entries[i].call, "Rejected"))
    BY <1>2 DEF RejectUnbound, Unbound
  <2>2. Synthesized(batch.entries[i].call, "Rejected") \in ToolResultPayload
    <3>1. i \in 1..N /\ batch.entries \in [1..N -> ToolCallEntry]
      BY <1>i DEF TypeOK, Batch, Pending
    <3>2. batch.entries[i].call \in BlockId
      BY <3>1 DEF ToolCallEntry
    <3>3. <<>> \in Seq(Note)
      OBVIOUS
    <3> QED BY <3>2, <3>3 DEF Synthesized, ToolResultPayload, ToolResultStatus
  <2>3. DeclarationIds(batch') = DeclarationIds(batch)
    BY <1>i, <2>1, <2>2, ResolveStep
  <2>4. /\ UNCHANGED <<pc, phase, handoff, previous, outcome>>
        /\ pc \in {"reject1", "reject2"} /\ phase = "Before" /\ outcome # "Ok"
    BY <1>2, <1>i DEF RejectUnbound, PhaseInv, ReportedInv
  <2> QED BY <2>3, <2>4, <1>i
          DEF ReportInv, DeclaredInv, HandoffInv, DispatchedInv, ReportedInv
<1>3. CASE BeforePhase
  <2>1. /\ pc = "reject1" /\ phase' = "Before" /\ previous' = batch /\ batch' = batch
        /\ pc' \in {"phase", "done"} /\ outcome' # "Ok"
    BY <1>3, <1>i DEF BeforePhase, EnterPhase, ReportedInv
  <2> QED BY <2>1, <1>i DEF ReportInv, DeclaredInv, HandoffInv, DispatchedInv, ReportedInv
<1>4. CASE AfterPhase
  <2>1. /\ pc = "dispatch" /\ Finished /\ phase' = "After" /\ previous' = batch
        /\ pc' = "phase" /\ outcome' = outcome /\ outcome # "Ok" /\ Validate(batch)
        /\ UNCHANGED <<batch, started, task, answer, handoff>>
    BY <1>4, <1>i DEF AfterPhase, EnterPhase, ReportedInv, ResolvesValidBatch
  <2>2. Validate(handoff) /\ DeclarationIds(handoff) = Calls /\ DeclarationIds(batch) = Calls
    BY <2>1, <1>i DEF HandoffInv, DeclaredInv
  <2>3. ASSUME NEW c \in Calls
        PROVE  /\ Reports(handoff, started, answer, batch, c)
               /\ IF c \in started THEN answer[c] \in ToolResultPayload
                                   ELSE EntryOf(handoff, c).result # NoResult
    <3>1. Stands(handoff, started, task, answer, batch, c) /\ task[c] \in {"none", "collected"}
      BY <2>1, <1>i DEF DispatchedInv, Finished
    <3>2. EntryOf(handoff, c) \in ToolCallEntry /\ EntryOf(batch, c) \in ToolCallEntry
      BY <2>2, <1>i, EntryExists DEF TypeOK
    <3>3. CASE task[c] = "none"
      <4>1. /\ EntryOf(batch, c) = EntryOf(handoff, c) /\ c \notin started
            /\ EntryOf(batch, c).result # NoResult
        BY <3>1, <3>3 DEF Stands
      <4>2. EntryOf(batch, c).result.notes \in Seq(Note)
        BY <3>2, <4>1 DEF ToolCallEntry, Result
      <4> QED BY <4>1, <4>2, WholePrefix DEF Reports
    <3>4. CASE task[c] = "collected"
      <4> DEFINE kept == EntryOf(handoff, c).notes \o answer[c].notes
      <4>1. /\ c \in started /\ answer[c] \in ToolResultPayload
            /\ EntryOf(batch, c).result # NoResult
            /\ EntryOf(batch, c).input = EntryOf(handoff, c).input
            /\ EntryOf(batch, c).result.status = answer[c].status
            /\ EntryOf(batch, c).result.notes = kept
        BY <3>1, <3>4 DEF Stands
      <4>2. kept \in Seq(Note)
        BY <3>2, <4>1 DEF ToolCallEntry, ToolResultPayload
      <4> HIDE DEF kept
      <4>3. Len(kept) <= Len(kept) /\ SubSeq(kept, 1, Len(kept)) = kept
        BY <4>2, WholePrefix
      <4>4. /\ Len(kept) <= Len(EntryOf(batch, c).result.notes)
            /\ SubSeq(EntryOf(batch, c).result.notes, 1, Len(kept)) = kept
        BY <4>1, <4>3
      <4> QED BY <4>1, <4>4, Zenon DEF Reports, kept
    <3> QED BY <3>1, <3>3, <3>4
  <2> QED BY <2>1, <2>2, <2>3
          DEF ReportInv, DeclaredInv, HandoffInv, DispatchedInv, ReportedInv
<1>5. CASE NextProcessor
  <2>1. /\ pc = "phase" /\ pc' \in {"processor", "done"} /\ outcome' # "Ok"
        /\ UNCHANGED <<batch, phase, previous, started, answer, handoff>>
    BY <1>5, <1>i DEF NextProcessor, Cause, ReportedInv
  <2> QED BY <2>1, <1>i DEF ReportInv, DeclaredInv, HandoffInv, DispatchedInv, ReportedInv
<1>6. CASE ProcessorEdits
  <2>1. /\ pc = "processor" /\ pc' = pc /\ outcome' = outcome /\ outcome # "Ok"
        /\ UNCHANGED <<phase, previous, started, answer, handoff>>
    BY <1>6, <1>i DEF ProcessorEdits, ReportedInv
  <2> QED BY <2>1, <1>i DEF ReportInv, DeclaredInv, HandoffInv, DispatchedInv, ReportedInv
<1>7. CASE ProcessorReturns
  <2>1. /\ pc = "processor" /\ pc' \in {"phase", "done"} /\ outcome' # "Ok"
        /\ UNCHANGED <<batch, phase, started, answer, handoff>>
        /\ pc' = "phase" => /\ previous' = batch /\ Validate(batch)
                            /\ CheckTransition(previous, batch, phase)
    BY <1>7, <1>i DEF ProcessorReturns, ReportedInv
  <2>2. DeclarationIds(previous) = Calls
    BY <2>1, <1>i DEF DeclaredInv
  <2>3. pc' = "phase" => DeclarationIds(batch) = Calls
    BY <2>1, <2>2 DEF CheckTransition
  <2>4. ASSUME phase = "After", pc' = "phase", NEW c \in Calls
        PROVE  Reports(handoff, started, answer, batch, c)
    BY <2>1, <2>2, <2>4, <1>i, AcceptedReports DEF ReportedInv, HandoffInv
  <2>5. (DeclaredInv /\ HandoffInv /\ DispatchedInv)'
    BY <2>1, <2>3, <1>i DEF DeclaredInv, HandoffInv, DispatchedInv
  <2>6. ReportedInv'
    BY <2>1, <2>3, <2>4, <1>i DEF ReportedInv
  <2> QED BY <2>5, <2>6 DEF ReportInv
<1>8. CASE ProcessorFails \/ ProcessorDropped
  <2>1. /\ pc' = "done" /\ outcome' # "Ok"
        /\ UNCHANGED <<phase, started, answer, handoff>>
    BY <1>8 DEF ProcessorFails, ProcessorDropped, Cause
  <2> QED BY <2>1, <1>i DEF ReportInv, DeclaredInv, HandoffInv, DispatchedInv, ReportedInv
<1>9. CASE BeforePhaseEnds
  <2>1. /\ pc = "phase" /\ pc' \in {"reject2", "done"} /\ outcome' # "Ok" /\ phase = "Before"
        /\ UNCHANGED <<batch, phase, started, answer, handoff>>
    BY <1>9, <1>i DEF BeforePhaseEnds, Cause, ReportedInv
  <2> QED BY <2>1, <1>i DEF ReportInv, DeclaredInv, HandoffInv, DispatchedInv, ReportedInv
<1>10. CASE AfterPhaseEnds
  <2>1. /\ pc = "phase" /\ pc' = "done" /\ phase = "After"
        /\ outcome' = "Ok" => ValidateComplete(batch)
        /\ UNCHANGED <<batch, phase, started, answer, handoff>>
    BY <1>10 DEF AfterPhaseEnds
  <2> QED BY <2>1, <1>i DEF ReportInv, DeclaredInv, HandoffInv, DispatchedInv, ReportedInv
<1>11. CASE StartDispatch
  <2>1. /\ pc = "reject2" /\ pc' = "dispatch" /\ phase = "Before" /\ outcome # "Ok"
        /\ Unbound(batch) = {} /\ handoff' = batch
        /\ task' = [c \in Calls |-> IF c \in PendingCalls(batch) THEN "new" ELSE "none"]
        /\ UNCHANGED <<batch, phase, outcome, started>>
    BY <1>11, <1>i DEF StartDispatch, PhaseInv, ReportedInv
  <2>2. Validate(batch) /\ DeclarationIds(batch) = Calls /\ started = {}
    BY <2>1, <1>i DEF ResolvesValidBatch, DeclaredInv, IInv, DispatchInv, StartInv
  <2>3. ASSUME NEW c \in Calls
        PROVE  Stands(batch, started, task', answer', batch, c)
    <3>1. c \in PendingCalls(batch) <=> EntryOf(batch, c).result = NoResult
      BY <2>2, <1>i, PendingEntry DEF TypeOK
    <3>2. c \in PendingCalls(batch) => EntryOf(batch, c).input \in Bound
      <4> SUFFICES ASSUME c \in PendingCalls(batch) PROVE EntryOf(batch, c).input \in Bound
        OBVIOUS
      <4>1. PICK i \in Pending(batch) : batch.entries[i].call = c
        BY DEF PendingCalls
      <4>2. EntryOf(batch, c) = batch.entries[i]
        BY <4>1, <2>2, EntryIsUnique DEF Validate, Pending
      <4> QED BY <4>1, <4>2, <2>1 DEF Unbound
    <3>3. task'[c] = IF c \in PendingCalls(batch) THEN "new" ELSE "none"
      BY <2>1
    <3> QED BY <2>2, <3>1, <3>2, <3>3 DEF Stands, InFlight
  <2> QED BY <2>1, <2>2, <2>3, <1>i
          DEF ReportInv, DeclaredInv, HandoffInv, DispatchedInv, ReportedInv
<1>12. CASE StopDispatch \/ SettlementEnds
  <2>1. /\ pc \in {"dispatch", "settle"} /\ pc' \in {"settle", "done"} /\ phase = "Before"
        /\ UNCHANGED <<batch, phase, previous, handoff>> /\ outcome' # "Ok"
    BY <1>12, <1>i DEF StopDispatch, SettlementEnds, Cause, PhaseInv, ReportedInv
  <2> QED BY <2>1, <1>i DEF ReportInv, DeclaredInv, HandoffInv, DispatchedInv, ReportedInv
<1>13. CASE Cancel \/ Expire \/ UNCHANGED vars
  <2>1. UNCHANGED <<batch, pc, tasks, processor, outcome>>
    BY <1>13 DEF Cancel, Expire, vars
  <2> QED BY <2>1, <1>i DEF ReportInv, DeclaredInv, HandoffInv, DispatchedInv, ReportedInv
<1>14. ASSUME NEW c \in Calls, EnterCall(c) \/ RunTool(c) \/ ToolReturnsResult(c)
       PROVE  ReportInv'
  <2>1. /\ pc = "dispatch" /\ pc' \in {"dispatch", "settle"} /\ phase = "Before"
        /\ UNCHANGED <<batch, phase, previous, handoff>> /\ outcome' # "Ok"
    BY <1>14, <1>i DEF EnterCall, RunTool, ToolReturnsResult, Cause, PhaseInv, ReportedInv
  <2>2. pc' = "dispatch" => /\ started' \in {started, started \cup {c}}
                            /\ task[c] \in InFlight /\ task'[c] \in InFlight \ {"new"}
                            /\ task[c] = "new" => c \in started'
                            /\ \A d \in Calls : d # c => task'[d] = task[d]
                            /\ \A d \in Calls : d # c => answer'[d] = answer[d]
    BY <1>14, <1>i DEF EnterCall, RunTool, ToolReturnsResult, TypeOK, InFlight
  <2>3. ASSUME NEW d \in Calls, pc' = "dispatch"
        PROVE  Stands(handoff, started', task', answer', batch, d)
    <3>1. Stands(handoff, started, task, answer, batch, d)
      BY <2>1, <1>i DEF DispatchedInv
    <3> QED BY <2>2, <2>3, <3>1 DEF Stands, InFlight
  <2> QED BY <2>1, <2>3, <1>i
          DEF ReportInv, DeclaredInv, HandoffInv, DispatchedInv, ReportedInv
<1>15. ASSUME NEW c \in Calls, NEW p \in ToolResultPayload, Collect(c, p), pc = "dispatch",
              task[c] \in {"entered", "running", "ready"},
              answer' = [answer EXCEPT ![c] = p]
       PROVE  ReportInv'
  <2>1. /\ phase = "Before" /\ pc' \in {"dispatch", "settle"} /\ outcome' # "Ok"
        /\ UNCHANGED <<phase, previous, handoff, started>>
        /\ pc' = "settle" => batch' = batch
        /\ pc' = "dispatch" => Resolve(c, p)
    BY <1>15, <1>i DEF Collect, PhaseInv, ReportedInv
  <2>2. Validate(batch) /\ DeclarationIds(batch) = Calls
    BY <1>15, <1>i DEF ResolvesValidBatch, DeclaredInv
  <2>3. DeclarationIds(batch') = Calls
    BY <2>1, <2>2, <1>i, ResolveStep
  <2>4. ASSUME NEW d \in Calls, pc' = "dispatch"
        PROVE  Stands(handoff, started, task', answer', batch', d)
    <3>1. Stands(handoff, started, task, answer, batch, d)
      BY <1>15, <1>i DEF DispatchedInv
    <3>r. TypeOK /\ Resolve(c, p)
      BY <2>1, <2>4, <1>i
    <3>2. /\ EntryOf(batch', c).input = EntryOf(batch, c).input
          /\ EntryOf(batch', c).result # NoResult
          /\ EntryOf(batch', c).result.status = p.status
          /\ EntryOf(batch', c).result.notes = EntryOf(batch, c).notes \o p.notes
          /\ \A e \in DeclarationIds(batch) \ {c} : EntryOf(batch', e) = EntryOf(batch, e)
      BY <2>2, <3>r, ResolveEntries
    <3>o. d # c => EntryOf(batch', d) = EntryOf(batch, d)
      BY <2>2, <3>2
    <3>3. /\ task'[c] = "collected" /\ answer'[c] = p
          /\ d # c => task'[d] = task[d] /\ answer'[d] = answer[d]
      BY <1>15, <1>i DEF Collect, TypeOK
    <3>4. CASE d = c
      <4>1. c \in started /\ EntryOf(batch, c) = EntryOf(handoff, c)
        BY <3>1, <3>4, <1>15 DEF Stands, InFlight
      <4> QED BY <3>2, <3>3, <3>4, <4>1 DEF Stands, InFlight
    <3>5. CASE d # c
      BY <3>1, <3>o, <3>3, <3>5 DEF Stands
    <3> QED BY <3>4, <3>5
  <2> QED BY <1>15, <2>1, <2>3, <2>4, <1>i
          DEF ReportInv, DeclaredInv, HandoffInv, DispatchedInv, ReportedInv
<1>16. ASSUME NEW c \in Calls, Backstop(c)
       PROVE  ReportInv'
  <2>1. Synthesized(c, "UnknownOutcome") \in ToolResultPayload
    BY PayloadTypes DEF ToolResultStatus
  <2>2. answer' = [answer EXCEPT ![c] = Synthesized(c, "UnknownOutcome")]
        /\ answer'[c] = Synthesized(c, "UnknownOutcome")
    BY <1>16, <1>i DEF Backstop, TypeOK
  <2> QED BY <1>15, <1>16, <2>1, <2>2 DEF Backstop
<1>17. ASSUME NEW c \in Calls, CollectResult(c)
       PROVE  ReportInv'
  <2>1. /\ answer[c] \in ToolResultPayload
        /\ answer' = [answer EXCEPT ![c] = answer[c]]
    BY <1>17, <1>i DEF CollectResult, TypeOK
  <2> QED BY <1>15, <1>17, <2>1 DEF CollectResult
<1>18. ASSUME NEW c \in Calls, Settle(c)
       PROVE  ReportInv'
  <2>1. Synthesized(c, "UnknownOutcome") \in ToolResultPayload
    BY PayloadTypes DEF ToolResultStatus
  <2>2. DeclarationIds(batch') = DeclarationIds(batch)
    BY <1>18, <1>i, <2>1, ResolveStep DEF Settle
  <2>3. /\ pc = "settle" /\ phase = "Before" /\ outcome # "Ok"
        /\ UNCHANGED <<pc, phase, previous, handoff, outcome>>
    BY <1>18, <1>i DEF Settle, PhaseInv, ReportedInv
  <2> QED BY <2>2, <2>3, <1>i
          DEF ReportInv, DeclaredInv, HandoffInv, DispatchedInv, ReportedInv
<1> QED
  BY <1>1, <1>2, <1>3, <1>4, <1>5, <1>6, <1>7, <1>8, <1>9, <1>10, <1>11, <1>12,
     <1>13, <1>14, <1>16, <1>17, <1>18
  DEF Next, Runtime, Environment, Terminated

(* At every reachable state the last accepted batch reports what happened.   *)
THEOREM ReportInvariant == Spec => []ReportInv
BY ReportInit, ReportNext, InvariantHolds, PTL DEF Spec

(* dispatch indexes targets by name: whatever before-processors rename, every *)
(* call still pending while it runs has a bound tool.                        *)
THEOREM PendingIsBound == Spec => []DispatchesBoundTools
<1>1. IInv /\ ReportInv => DispatchesBoundTools
  <2> SUFFICES ASSUME IInv, ReportInv, pc = "dispatch", NEW i \in Pending(batch)
               PROVE  batch.entries[i].input \in Bound
    BY DEF DispatchesBoundTools
  <2>1. TypeOK /\ Validate(batch) /\ DeclarationIds(batch) = Calls /\ DispatchedInv
    BY DEF IInv, DispatchInv, ResolvesValidBatch, ReportInv, DeclaredInv
  <2> DEFINE c == batch.entries[i].call
  <2>2. c \in Calls /\ EntryOf(batch, c) = batch.entries[i]
    BY <2>1, EntryIsUnique DEF Validate, Pending, DeclarationIds
  <2>3. batch.entries[i].result = NoResult
    BY <2>1 DEF Validate, Partitioned
  <2>4. Stands(handoff, started, task, answer, batch, c)
    BY <2>1, <2>2 DEF DispatchedInv
  <2>5. task[c] \in InFlight \cup {"none", "collected"}
    BY <2>1, <2>2 DEF TypeOK, InFlight
  <2> QED BY <2>2, <2>3, <2>4, <2>5 DEF Stands
<1> QED BY <1>1, InvariantHolds, ReportInvariant, PTL

(* Ok reports every call's input, status and notes as they happened, through *)
(* any number of after-processors.                                           *)
THEOREM OkIsTrue == Spec => []OkReportsWhatHappened
<1>1. ReportInv => OkReportsWhatHappened
  BY DEF ReportInv, ReportedInv, Reports, OkReportsWhatHappened
<1> QED BY <1>1, ReportInvariant, PTL

=============================================================================
