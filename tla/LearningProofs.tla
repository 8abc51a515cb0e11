--------------------------- MODULE LearningProofs ---------------------------
(***************************************************************************)
(* The counts and the certificates of the learning registry are sound, for *)
(* any tasks, receipts, amendments, callers and faults; and so are the     *)
(* evidence kept of a task's attempts and the experiment that shadows it,  *)
(* for any workers, runs and faults. The champion of a scope of experiments*)
(* is succeeded for cause, and what is recorded of them stays.             *)
(***************************************************************************)
EXTENDS LearningAttempt, LearningRegistry, Experiments, FiniteSetTheorems, SequenceTheorems, TLAPS

-------------------------------------------------------------------------------
(* The registry (LearningRegistry).                                         *)

Writers == Natives \cup Receipts \cup {m.by : m \in Amendments}
Writes == [id : EventIds, by : Writers]
Jobs == Natives \cup Receipts \cup Amendments
Parts == {Blocked} \cup [ok : {TRUE}, members : SUBSET EventIds,
                         corrected : SUBSET EventIds, excluded : SUBSET EventIds]
Statements == Seq(Parts)

Appendings == [at : {"probe", "create", "bump", "mark"}, job : Jobs, todo : Seq(Writes),
               view : Seq(EventIds), tries : Nat]
Taggings == [at : {"tag"}, job : Natives]
Counting == {"issue", "check", "verify", "stats"}
Issuing == {"persist", "point", "swing"}
Closings == [at : Counting \cup Issuing, prior : {None} \cup Statements, k : Nat, view : Seq(EventIds),
             got : Statements, owed : SUBSET EventIds, tries : Nat]
Calls == {Idle} \cup Appendings \cup Taggings \cup Closings

Listed(e, mks) == e \in ToSet(mks[e.kind])

(* An append has events left to write; the one it counts is there, and is  *)
(* not yet in the document it read.  What a capture has behind it counts.  *)
AppendGood(c, m, evs, mks) ==
    /\ m.todo # <<>>
    /\ m.at \in {"bump", "mark"} => evs[m.todo[1].id] # None
    /\ m.at = "mark" => m.todo[1].id \notin ToSet(m.view)
    /\ c \in Captors =>
          /\ m.at # "probe" /\ m.job \in Bound
          /\ \A e \in Ids(NativeWrites(m.job)) : Listed(e, mks) \/ e \in Ids(m.todo)
TagGood(m, mks) ==
    m.job \in Bound => \A e \in Ids(NativeWrites(m.job)) : Listed(e, mks)

(* What a close owes exists, is of a counter still to come, and has been   *)
(* read with its counter once that was checked.                            *)
CloseGood(m, evs) ==
    /\ m.k = Len(m.got) + 1
    /\ m.at \in Counting => m.k <= Len(Kinds)
    /\ m.at \in Issuing => m.k = Len(Kinds) + 1
    /\ \A e \in m.owed : evs[e] # None
    /\ Certified(m.got) => \A e \in m.owed : \E j \in m.k..Len(Kinds) : e.kind = Kinds[j]
    /\ m.at \in {"verify", "stats"} => \A e \in m.owed : e.kind = Kinds[m.k] => e \in ToSet(m.view)

CallGood(c, m, evs, mks) ==
    /\ m \in Appendings => AppendGood(c, m, evs, mks)
    /\ m \in Taggings => TagGood(m, mks)
    /\ m \in Closings => CloseGood(m, evs)

IInv ==
    /\ TypeOK /\ MarksSound /\ CapturedCounted
    /\ call \in [Callers -> Calls]
    /\ marks \in [AllKinds -> Seq(EventIds)]
    /\ latest \in {None} \cup Statements
    /\ \A c \in Callers : CallGood(c, call[c], ev, marks)

-------------------------------------------------------------------------------
(* Facts about writes, documents and statements.                            *)

LEMMA KindsFacts == Len(Kinds) \in Nat \ {0, 1} /\ DOMAIN Kinds = 1..Len(Kinds)
<1>1. Kinds \in Seq(ToSet(Kinds)) /\ Len(Kinds) > 1
  BY ConstantsAssumption
<1>2. Len(Kinds) \in Nat /\ DOMAIN Kinds = 1..Len(Kinds)
  BY <1>1, LenProperties
<1> QED BY <1>1, <1>2

LEMMA LenOfNone == \A t : Len(t) > 0 => t # <<>>
<1>1. Len(<<>>) = 0
  BY EmptySeq
<1>2. ~(Len(<<>>) > 0)
  BY <1>1
<1> QED BY <1>2, Zenon

LEMMA FrontFacts == Front(Kinds) \in Seq(ToSet(Kinds)) /\ Len(Front(Kinds)) = Len(Kinds) - 1
<1>1. \A i \in 1..(Len(Kinds) - 1) : Kinds[i] \in ToSet(Kinds)
  BY KindsFacts DEF ToSet
<1> QED BY <1>1, KindsFacts, SubSeqProperties DEF Front

(* The writes of a capture and of an intake, and the ids among them.       *)
LEMMA NativeFacts ==
    ASSUME NEW t \in Natives
    PROVE  NativeWrites(t) \in Seq(Writes) /\ Len(NativeWrites(t)) = Len(Kinds) /\ NativeWrites(t) # <<>>
<1> DEFINE ws == NativeWrites(t)
<1>1. ws = [i \in 1..Len(Kinds) |-> [id |-> Event(Kinds[i], t), by |-> t]]
  BY KindsFacts DEF NativeWrites
<1>2. \A i \in 1..Len(Kinds) : ws[i] \in Writes
  <2> SUFFICES ASSUME NEW i \in 1..Len(Kinds) PROVE ws[i] \in Writes
    OBVIOUS
  <2>1. ws[i].id \in Ids(NativeWrites(t))
    BY <1>1 DEF Ids
  <2>2. ws[i].id \in EventIds
    BY <2>1 DEF EventIds
  <2>3. ws[i] = [id |-> Event(Kinds[i], t), by |-> t]
    BY <1>1
  <2> QED BY <2>2, <2>3 DEF Writes, Writers
<1>3. ws \in Seq(Writes)
  BY <1>1, <1>2, KindsFacts, SeqDef
<1>4. Len(ws) = Len(Kinds)
  BY <1>1, <1>3, KindsFacts, LenProperties
<1> QED BY <1>3, <1>4, KindsFacts, EmptySeq

LEMMA ReceiptFacts ==
    ASSUME NEW r \in Receipts
    PROVE  ReceiptWrites(r) \in Seq(Writes) /\ ReceiptWrites(r) # <<>>
<1> DEFINE ws == ReceiptWrites(r)
           kinds == IF r \in Outcomes THEN Kinds ELSE Front(Kinds)
<1>1. kinds \in Seq(ToSet(Kinds)) /\ Len(kinds) \in Nat \ {0}
  BY KindsFacts, FrontFacts, ConstantsAssumption
<1>2. DOMAIN kinds = 1..Len(kinds)
  BY <1>1, LenProperties
<1>3. ws = [i \in 1..Len(kinds) |-> [id |-> Event(kinds[i], IF i = 1 THEN TaskOf[r] ELSE AttemptOf[r]), by |-> r]]
  BY <1>2 DEF ReceiptWrites
<1> HIDE DEF kinds
<1>4. \A i \in 1..Len(kinds) : ws[i] \in Writes
  <2> SUFFICES ASSUME NEW i \in 1..Len(kinds) PROVE ws[i] \in Writes
    OBVIOUS
  <2>1. ws[i].id \in Ids(ReceiptWrites(r))
    BY <1>3 DEF Ids
  <2>2. ws[i].id \in EventIds
    <3>1. Ids(ReceiptWrites(r)) \in {Ids(ReceiptWrites(x)) : x \in Receipts}
      OBVIOUS
    <3>2. Ids(ReceiptWrites(r)) \subseteq UNION {Ids(ReceiptWrites(x)) : x \in Receipts}
      BY <3>1, Zenon
    <3> HIDE DEF ws
    <3> QED BY <2>1, <3>2, Zenon DEF EventIds
  <2>3. ws[i] = [id |-> Event(kinds[i], IF i = 1 THEN TaskOf[r] ELSE AttemptOf[r]), by |-> r]
    BY <1>3
  <2> QED BY <2>2, <2>3 DEF Writes, Writers
<1>5. ws \in Seq(Writes)
  BY <1>1, <1>3, <1>4, SeqDef
<1>6. Len(ws) = Len(kinds)
  BY <1>1, <1>3, <1>5, LenProperties
<1> QED BY <1>1, <1>5, <1>6, EmptySeq

LEMMA AmendmentFacts ==
    ASSUME NEW m \in Amendments
    PROVE  <<[id |-> Event(m.kind, m.of), by |-> m.by]>> \in Seq(Writes)
<1>1. Event(m.kind, m.of) \in EventIds
  <2>1. Event(m.kind, m.of) \in {Event(x.kind, x.of) : x \in Amendments}
    OBVIOUS
  <2> QED BY <2>1, Zenon DEF EventIds
<1>2. [id |-> Event(m.kind, m.of), by |-> m.by] \in Writes
  BY <1>1 DEF Writes, Writers
<1> QED BY <1>2

LEMMA KindOK == \A e \in EventIds : e.kind \in AllKinds
BY DEF AllKinds

LEMMA NativeIds == \A t \in Natives : Ids(NativeWrites(t)) \subseteq EventIds
BY Zenon DEF EventIds

LEMMA CountersOK == \A i \in 1..Len(Kinds) : Kinds[i] \in AllKinds
BY KindsFacts DEF AllKinds, ToSet

(* The rest of the writes, when one has been counted.                      *)
LEMMA TailFacts ==
    ASSUME NEW s \in Seq(Writes), s # <<>>
    PROVE  /\ s[1] \in Writes /\ s[1].id \in EventIds /\ s[1].by # None
           /\ Len(s) \in Nat
           /\ Len(s) > 1 => Tail(s) \in Seq(Writes) /\ Tail(s) # <<>>
           /\ \A e \in Ids(s) : e = s[1].id \/ (Len(s) > 1 /\ e \in Ids(Tail(s)))
<1>1. Len(s) \in Nat \ {0} /\ DOMAIN s = 1..Len(s)
  BY EmptySeq, LenProperties
<1>2. s[1] \in Writes
  BY <1>1, ElementOfSeq
<1>3. Tail(s) \in Seq(Writes) /\ Len(Tail(s)) = Len(s) - 1 /\ \A i \in 1..Len(Tail(s)) : Tail(s)[i] = s[i + 1]
  BY HeadTailProperties
<1>4. DOMAIN Tail(s) = 1..Len(Tail(s))
  BY <1>3, LenProperties
<1>5. ASSUME NEW e \in Ids(s) PROVE e = s[1].id \/ (Len(s) > 1 /\ e \in Ids(Tail(s)))
  <2>1. PICK i \in 1..Len(s) : e = s[i].id
    BY <1>1 DEF Ids
  <2>2. CASE i = 1
    BY <2>1, <2>2
  <2>3. CASE i # 1
    <3>1. i - 1 \in 1..Len(Tail(s)) /\ Tail(s)[i - 1] = s[i]
      BY <1>1, <1>3, <2>3
    <3>2. Tail(s)[i - 1].id = e
      BY <2>1, <3>1
    <3>3. e \in Ids(Tail(s))
      BY <1>4, <3>1, <3>2 DEF Ids
    <3> QED BY <1>1, <2>3, <3>3
  <2> QED BY <2>2, <2>3
<1>6. s[1].id \in EventIds /\ s[1].by \in Writers
  BY <1>2 DEF Writes
<1>7. s[1].by # None
  BY <1>6, NoneAssumption DEF Writers
<1>8. Len(s) > 1 => Tail(s) # <<>>
  <2>1. Len(s) > 1 => Len(Tail(s)) > 0
    BY <1>1, <1>3
  <2> QED BY <2>1, LenOfNone
<1> QED BY <1>1, <1>2, <1>3, <1>5, <1>6, <1>7, <1>8

(* A document with one more member.                                        *)
LEMMA AppendFacts ==
    ASSUME NEW s \in Seq(EventIds), NEW e \in EventIds
    PROVE  /\ Append(s, e) \in Seq(EventIds)
           /\ ToSet(Append(s, e)) = ToSet(s) \cup {e}
           /\ IsInjective(s) /\ e \notin ToSet(s) => IsInjective(Append(s, e))
<1> DEFINE r == Append(s, e)
<1>1. /\ r \in Seq(EventIds) /\ Len(r) = Len(s) + 1 /\ Len(s) \in Nat
      /\ \A i \in 1..Len(s) : r[i] = s[i]
      /\ r[Len(s) + 1] = e
  BY AppendProperties, LenProperties
<1>2. DOMAIN r = 1..(Len(s) + 1) /\ DOMAIN s = 1..Len(s)
  BY <1>1, LenProperties
<1> HIDE DEF r
<1>3. ToSet(r) \subseteq ToSet(s) \cup {e}
  BY <1>1, <1>2 DEF ToSet
<1>4. ToSet(s) \cup {e} \subseteq ToSet(r)
  BY <1>1, <1>2 DEF ToSet
<1>5. ASSUME IsInjective(s), e \notin ToSet(s) PROVE IsInjective(r)
  BY <1>1, <1>2, <1>5 DEF IsInjective, ToSet
<1> QED BY <1>1, <1>3, <1>4, <1>5 DEF r

(* One more counter's part.                                                *)
LEMMA PartFacts ==
    ASSUME NEW got \in Statements, NEW part \in Parts
    PROVE  /\ Append(got, part) \in Statements /\ Len(Append(got, part)) = Len(got) + 1
           /\ Len(got) \in Nat
           /\ Certified(Append(got, part)) => Certified(got) /\ part.ok
<1> DEFINE r == Append(got, part)
<1>1. /\ r \in Seq(Parts) /\ Len(r) = Len(got) + 1 /\ Len(got) \in Nat
      /\ \A i \in 1..Len(got) : r[i] = got[i]
      /\ r[Len(got) + 1] = part
  BY AppendProperties, LenProperties DEF Statements
<1>2. DOMAIN r = 1..(Len(got) + 1) /\ DOMAIN got = 1..Len(got)
  BY <1>1, LenProperties DEF Statements
<1> HIDE DEF r
<1>3. ASSUME \A i \in DOMAIN r : r[i].ok PROVE (\A i \in DOMAIN got : got[i].ok) /\ part.ok
  <2>1. part.ok
    <3>1. Len(got) + 1 \in DOMAIN r
      BY <1>1, <1>2
    <3> QED BY <1>1, <1>3, <3>1
  <2>2. ASSUME NEW i \in 1..Len(got) PROVE got[i].ok
    <3>1. i \in 1..(Len(got) + 1) /\ r[i] = got[i]
      BY <1>1
    <3>2. r[i].ok
      BY <1>2, <1>3, <3>1
    <3> QED BY <3>1, <3>2
  <2> QED BY <1>2, <2>1, <2>2
<1> QED BY <1>1, <1>3 DEF Certified, Statements, r

LEMMA PartType ==
    ASSUME NEW m \in SUBSET EventIds, NEW x \in SUBSET EventIds, NEW y \in SUBSET EventIds
    PROVE  [ok |-> TRUE, members |-> m, corrected |-> x, excluded |-> y]
               \in [ok : {TRUE}, members : SUBSET EventIds, corrected : SUBSET EventIds, excluded : SUBSET EventIds]
BY Zenon

LEMMA PartOK ==
    /\ Blocked \in Parts /\ ~Blocked.ok
    /\ \A v \in Seq(EventIds) : Part(v) \in Parts /\ Part(v).ok /\ Part(v).members = ToSet(v)
<1>1. Blocked \in Parts
  BY DEF Parts
<1>2. ~Blocked.ok
  BY DEF Blocked
<1>3. ASSUME NEW v \in Seq(EventIds) PROVE Part(v) \in Parts /\ Part(v).ok /\ Part(v).members = ToSet(v)
  <2> DEFINE x == Amended("correction", v)  y == Amended("exclusion", v)
  <2>1. ToSet(v) \subseteq EventIds
    BY LenProperties, ElementOfSeq DEF ToSet
  <2>2. x \in SUBSET EventIds /\ y \in SUBSET EventIds
    BY <2>1 DEF Amended
  <2>3. Part(v) = [ok |-> TRUE, members |-> ToSet(v), corrected |-> x, excluded |-> y]
    BY DEF Part
  <2> HIDE DEF x, y
  <2>4. Part(v) \in Parts
    <3>1. ToSet(v) \in SUBSET EventIds
      BY <2>1
    <3>2. Part(v) \in [ok : {TRUE}, members : SUBSET EventIds, corrected : SUBSET EventIds, excluded : SUBSET EventIds]
      BY <2>2, <2>3, <3>1, PartType
    <3> QED BY <3>2 DEF Parts
  <2>5. Part(v).ok
    BY <2>3
  <2>6. Part(v).members = ToSet(v)
    BY <2>3
  <2> QED BY <2>4, <2>5, <2>6
<1> QED BY <1>1, <1>2, <1>3

LEMMA IdsFinite == ASSUME NEW ws \in Seq(Writes) PROVE IsFiniteSet(Ids(ws))
<1> DEFINE f == [i \in 1..Len(ws) |-> ws[i].id]
<1>1. DOMAIN ws = 1..Len(ws) /\ Len(ws) \in Nat
  BY LenProperties
<1>2. f \in Surjection(1..Len(ws), Ids(ws))
  BY <1>1 DEF Surjection, Ids
<1> HIDE DEF f
<1>3. ExistsSurjection(1..Len(ws), Ids(ws))
  BY <1>2 DEF ExistsSurjection
<1> QED BY <1>1, <1>3, FS_NatSurjection

LEMMA SetToSeqFacts ==
    ASSUME NEW S, IsFiniteSet(S)
    PROVE  /\ SetToSeq(S) \in Seq(S) /\ IsInjective(SetToSeq(S))
           /\ \A x \in ToSet(SetToSeq(S)) : x \in S
<1> DEFINE n == Cardinality(S)
<1>1. n \in Nat /\ \E f \in [1..n -> S] : IsInjective(f)
  BY FS_CardinalityType DEF ExistsBijection, Bijection, Injection
<1>2. SetToSeq(S) \in [1..n -> S] /\ IsInjective(SetToSeq(S))
  BY <1>1, Zenon DEF SetToSeq
<1>3. SetToSeq(S) \in Seq(S)
  BY <1>1, <1>2, SeqDef
<1>4. \A x \in ToSet(SetToSeq(S)) : x \in S
  BY <1>2 DEF ToSet
<1> QED BY <1>2, <1>3, <1>4

LEMMA Starts == Init => IInv
<1> SUFFICES ASSUME Init PROVE IInv
  OBVIOUS
<1>1. DOMAIN ev = EventIds /\ DOMAIN marks = AllKinds
  BY DEF Init
<1>2. marks \in [AllKinds -> Seq(EventIds)] /\ MarksSound
  <2>1. CASE ev = [e \in EventIds |-> None] /\ marks = [k \in AllKinds |-> <<>>]
    <3>1. \A k \in AllKinds : marks[k] = <<>>
      BY <2>1
    <3>2. IsInjective(<<>>) /\ ToSet(<<>>) = {}
      BY DEF IsInjective, ToSet
    <3>3. <<>> \in Seq(EventIds)
      BY EmptySeq
    <3>4. marks \in [AllKinds -> Seq(EventIds)]
      BY <2>1, <3>3, Zenon
    <3> QED BY <3>1, <3>2, <3>4 DEF MarksSound, Members
  <2>2. ASSUME NEW r \in Earlier, ev = [e \in EventIds |-> IF e \in Ids(ReceiptWrites(r)) THEN r ELSE None],
               marks = [k \in AllKinds |-> SetToSeq(Durable(k))]
        PROVE  marks \in [AllKinds -> Seq(EventIds)] /\ MarksSound
    <3>1. r \in Receipts
      BY ConstantsAssumption
    <3>2. IsFiniteSet(Ids(ReceiptWrites(r)))
      BY <3>1, ReceiptFacts, IdsFinite
    <3>3. \A k : Durable(k) \in SUBSET Ids(ReceiptWrites(r)) /\ Durable(k) \subseteq EventIds
      BY <2>2 DEF Durable
    <3>4. \A k : IsFiniteSet(Durable(k))
      BY <3>2, <3>3, FS_Subset
    <3>5. \A k \in AllKinds : marks[k] = SetToSeq(Durable(k))
      BY <2>2
    <3>6. \A k \in AllKinds : /\ marks[k] \in Seq(Durable(k)) /\ IsInjective(marks[k])
                              /\ \A x \in ToSet(marks[k]) : x \in Durable(k)
      BY <3>4, <3>5, SetToSeqFacts
    <3>7. \A k \in AllKinds : marks[k] \in Seq(EventIds)
      BY <3>3, <3>6, SeqMonotonic
    <3>8. marks \in [AllKinds -> Seq(EventIds)]
      BY <2>2, <3>7
    <3> QED BY <3>6, <3>8 DEF MarksSound, Members
  <2> QED BY <2>1, <2>2 DEF Init
<1>3. latest \in {None} \cup Statements /\ (latest # None => Certified(latest) /\ Len(latest) = Len(Kinds))
  <2>1. CASE latest = None
    BY <2>1
  <2>2. CASE latest = [i \in DOMAIN Kinds |-> Part(marks[Kinds[i]])]
    <3>1. \A i \in 1..Len(Kinds) : Part(marks[Kinds[i]]) \in Parts /\ Part(marks[Kinds[i]]).ok
      BY <1>2, CountersOK, PartOK
    <3>2. latest = [i \in 1..Len(Kinds) |-> Part(marks[Kinds[i]])]
      BY <2>2, KindsFacts
    <3>3. latest \in [1..Len(Kinds) -> Parts] /\ DOMAIN latest = 1..Len(Kinds)
      BY <3>1, <3>2
    <3>4. latest \in Seq(Parts)
      BY <3>3, KindsFacts, SeqDef
    <3>5. \A i \in 1..Len(Kinds) : latest[i] = Part(marks[Kinds[i]])
      BY <3>2
    <3>6. Certified(latest)
      BY <3>1, <3>3, <3>5, Zenon DEF Certified
    <3>7. Len(latest) = Len(Kinds)
      BY <3>3, <3>4, KindsFacts, LenProperties
    <3> QED BY <3>4, <3>6, <3>7 DEF Statements
  <2> QED BY <2>1, <2>2 DEF Init
<1>4. TypeOK
  BY <1>1, <1>3, ConstantsAssumption DEF Init, TypeOK
<1>5. CapturedCounted
  BY DEF Init, CapturedCounted
<1>6. call = [c \in Callers |-> Idle]
  BY DEF Init
<1>7. call \in [Callers -> Calls]
  BY <1>6 DEF Calls
<1>8. Idle \notin Appendings /\ Idle \notin Taggings /\ Idle \notin Closings
  BY DEF Idle, Appendings, Taggings, Closings, Counting, Issuing
<1>9. \A c \in Callers : CallGood(c, call[c], ev, marks)
  BY <1>6, <1>8 DEF CallGood
<1> QED BY <1>2, <1>3, <1>4, <1>5, <1>7, <1>9 DEF IInv

-------------------------------------------------------------------------------
(* The steps.  Events and members are only added.                           *)

Grown ==
    /\ \A e \in EventIds : ev[e] # None => ev'[e] # None
    /\ \A k \in AllKinds : \A e \in ToSet(marks[k]) : e \in ToSet(marks'[k])

LEMMA GoodStays ==
    ASSUME NEW c \in Callers, NEW m \in Calls, Grown, CallGood(c, m, ev, marks)
    PROVE  CallGood(c, m, ev', marks')
<1>1. ASSUME m \in Appendings, AppendGood(c, m, ev, marks) PROVE AppendGood(c, m, ev', marks')
  <2>1. m.todo \in Seq(Writes) /\ m.todo # <<>> /\ m.todo[1].id \in EventIds
    BY <1>1, TailFacts DEF Appendings, AppendGood
  <2>2. c \in Captors => \A e \in Ids(NativeWrites(m.job)) : Listed(e, marks) => Listed(e, marks')
    BY <1>1, ConstantsAssumption, KindOK, NativeIds DEF AppendGood, Grown, Listed
  <2> QED BY <1>1, <2>1, <2>2 DEF AppendGood, Grown
<1>2. ASSUME m \in Taggings, TagGood(m, marks) PROVE TagGood(m, marks')
  BY <1>2, ConstantsAssumption, KindOK, NativeIds DEF TagGood, Grown, Listed
<1>3. ASSUME m \in Closings, CloseGood(m, ev) PROVE CloseGood(m, ev')
  <2>1. m.owed \in SUBSET EventIds
    BY <1>3 DEF Closings
  <2> QED BY <1>3, <2>1 DEF CloseGood, Grown
<1> QED BY <1>1, <1>2, <1>3 DEF CallGood

(* What a caller does is sound when what is left of its call is.           *)
LEMMA Moves ==
    ASSUME IInv, NEW c \in Callers, NEW n \in Calls, call' = [call EXCEPT ![c] = n],
           Grown, TypeOK', MarksSound', CapturedCounted', marks' \in [AllKinds -> Seq(EventIds)],
           latest' \in {None} \cup Statements, CallGood(c, n, ev', marks')
    PROVE  IInv'
<1>1. call' \in [Callers -> Calls] /\ call'[c] = n /\ \A d \in Callers \ {c} : call'[d] = call[d]
  BY DEF IInv
<1>2. \A d \in Callers : CallGood(d, call'[d], ev', marks')
  BY <1>1, GoodStays DEF IInv
<1> QED BY <1>1, <1>2 DEF IInv

LEMMA Same ==
    ASSUME IInv, UNCHANGED <<ev, marks>>
    PROVE  Grown /\ MarksSound' /\ marks' \in [AllKinds -> Seq(EventIds)]
BY DEF IInv, Grown, MarksSound, Members, Durable

(* A step that leaves the registry as it is.                               *)
LEMMA Quiet ==
    ASSUME IInv, NEW c \in Callers, NEW n \in Calls, call' = [call EXCEPT ![c] = n],
           UNCHANGED <<tag, ev, marks>>, TypeOK', latest' \in {None} \cup Statements, CallGood(c, n, ev, marks)
    PROVE  IInv'
<1>1. CapturedCounted'
  BY DEF IInv, CapturedCounted, Counted, Members
<1> QED BY <1>1, Same, Moves

(* An idle caller has nothing to be sound.                                 *)
LEMMA IdleGood == Idle \in Calls /\ \A c, evs, mks : CallGood(c, Idle, evs, mks)
<1>1. Idle \notin Appendings /\ Idle \notin Taggings /\ Idle \notin Closings
  BY DEF Idle, Appendings, Taggings, Closings, Counting, Issuing
<1> QED BY <1>1 DEF CallGood, Calls

(* The three kinds of calls have different points.                         *)
LEMMA CallKinds ==
    ASSUME NEW m \in Calls
    PROVE  /\ m.at \in {"probe", "create", "bump", "mark"} <=> m \in Appendings
           /\ m.at = "tag" <=> m \in Taggings
           /\ m.at \in Counting \cup Issuing <=> m \in Closings
BY DEF Calls, Idle, Appendings, Taggings, Closings, Counting, Issuing

-------------------------------------------------------------------------------
(* Appending.                                                               *)

LEMMA AppendingOK ==
    ASSUME NEW c \in Callers, NEW j \in Jobs, NEW t \in Seq(Writes)
    PROVE  /\ Appends(c, j, t) \in Appendings
           /\ Appends(c, j, t).at \in {"probe", "create"}
           /\ c \in Captors => Appends(c, j, t).at = "create"
           /\ Appends(c, j, t).job = j /\ Appends(c, j, t).todo = t
<1> DEFINE p == First(c, t[1])
<1>1. p \in {"probe", "create"} /\ (c \in Captors => p = "create")
  BY CallersAssumption DEF First
<1>2. Appends(c, j, t) = [at |-> p, job |-> j, todo |-> t, view |-> <<>>, tries |-> 0]
  BY DEF Appends
<1> HIDE DEF p
<1> QED BY <1>1, <1>2, EmptySeq DEF Appendings

LEMMA AppendsGood ==
    ASSUME NEW c \in Callers, NEW j \in Jobs, NEW t \in Seq(Writes), t # <<>>, NEW evs, NEW mks,
           c \in Captors => j \in Bound /\ \A e \in Ids(NativeWrites(j)) : Listed(e, mks) \/ e \in Ids(t)
    PROVE  Appends(c, j, t) \in Calls /\ CallGood(c, Appends(c, j, t), evs, mks)
<1> DEFINE n == Appends(c, j, t)
<1>1. /\ n \in Appendings /\ n.at \in {"probe", "create"} /\ (c \in Captors => n.at = "create")
      /\ n.job = j /\ n.todo = t
  BY AppendingOK
<1> HIDE DEF n
<1>2. AppendGood(c, n, evs, mks)
  BY <1>1 DEF AppendGood
<1>3. n \in Calls /\ n \notin Taggings /\ n \notin Closings
  BY <1>1 DEF Calls, Appendings, Taggings, Closings, Counting, Issuing
<1>4. CallGood(c, n, evs, mks)
  BY <1>2, <1>3 DEF CallGood
<1> QED BY <1>3, <1>4 DEF n

(* The rest of an append, or what follows it.                              *)
LEMMA OnwardKeeps ==
    ASSUME IInv, NEW c \in Callers, call[c].at \in {"probe", "create", "bump", "mark"}, Onward(c),
           Grown, MarksSound', CapturedCounted', TypeOK', marks' \in [AllKinds -> Seq(EventIds)],
           latest' = latest,
           c \in Captors => Listed(Now(c).id, marks')
    PROVE  IInv'
<1> DEFINE m == call[c]  s == m.todo
<1>1. m \in Appendings /\ AppendGood(c, m, ev, marks)
  BY CallKinds DEF IInv, CallGood
<1>2. s \in Seq(Writes) /\ s # <<>> /\ m.job \in Jobs /\ Now(c) = s[1]
  BY <1>1 DEF Appendings, AppendGood, Now
<1>3. latest' \in {None} \cup Statements
  BY DEF IInv
<1>4. c \in Captors => \A e \in Ids(NativeWrites(m.job)) : Listed(e, marks) => Listed(e, marks')
  BY <1>1, ConstantsAssumption, KindOK, NativeIds DEF AppendGood, Grown, Listed
<1>5. c \in Captors => /\ m.job \in Bound
                       /\ \A e \in Ids(NativeWrites(m.job)) :
                             Listed(e, marks') \/ (Len(s) > 1 /\ e \in Ids(Tail(s)))
  BY <1>1, <1>2, <1>4, TailFacts DEF AppendGood
<1> HIDE DEF m
<1>6. CASE Len(s) > 1
  <2> DEFINE n == Appends(c, m.job, Tail(s))
  <2>1. Tail(s) \in Seq(Writes) /\ Tail(s) # <<>>
    BY <1>2, <1>6, TailFacts
  <2>6. call' = [call EXCEPT ![c] = n]
    BY <1>6 DEF Onward, m
  <2>7. n \in Calls /\ CallGood(c, n, ev', marks')
    BY <1>2, <1>5, <1>6, <2>1, AppendsGood
  <2> QED BY <1>3, <2>6, <2>7, Moves
<1>7. CASE ~(Len(s) > 1) /\ c \in Captors
  <2> DEFINE n == [at |-> "tag", job |-> m.job]
  <2>1. n \in Taggings
    BY <1>5, <1>7, ConstantsAssumption DEF Taggings
  <2>2. TagGood(n, marks')
    BY <1>5, <1>7 DEF TagGood
  <2>3. call' = [call EXCEPT ![c] = n]
    BY <1>7 DEF Onward, m
  <2>4. n \in Calls /\ n \notin Appendings /\ n \notin Closings
    BY <2>1 DEF Calls, Appendings, Taggings, Closings, Counting, Issuing
  <2> HIDE DEF n
  <2>5. CallGood(c, n, ev', marks')
    BY <2>2, <2>4 DEF CallGood
  <2> QED BY <1>3, <2>3, <2>4, <2>5, Moves
<1>8. CASE ~(Len(s) > 1) /\ c \notin Captors
  <2>1. call' = [call EXCEPT ![c] = Idle]
    BY <1>8 DEF Onward, Return, m
  <2> QED BY <1>3, <2>1, IdleGood, Moves
<1> QED BY <1>6, <1>7, <1>8

(* An append at another point of the same write.                           *)
LEMMA PointOK ==
    ASSUME IInv, NEW c \in Callers, call[c] \in Appendings, NEW n \in Appendings, NEW evs,
           n.at # "probe", n.todo = call[c].todo, n.job = call[c].job,
           n.at \in {"bump", "mark"} => evs[Now(c).id] # None,
           n.at = "mark" => Now(c).id \notin ToSet(n.view)
    PROVE  n \in Calls /\ CallGood(c, n, evs, marks)
<1>1. AppendGood(c, call[c], ev, marks)
  BY DEF IInv, CallGood
<1>4. AppendGood(c, n, evs, marks)
  BY <1>1 DEF AppendGood, Now
<1>5. n \in Calls /\ n \notin Taggings /\ n \notin Closings
  BY DEF Calls, Appendings, Taggings, Closings, Counting, Issuing
<1> QED BY <1>4, <1>5 DEF CallGood

LEMMA CapturedStays == ASSUME IInv, Grown, tag' = tag PROVE CapturedCounted'
BY ConstantsAssumption, KindOK, NativeIds DEF IInv, CapturedCounted, Counted, Members, Grown

(* An event that is added, and a member.                                   *)
LEMMA EventAdded ==
    ASSUME IInv, NEW e \in EventIds, NEW b, b # None, ev[e] = None, ev' = [ev EXCEPT ![e] = b], UNCHANGED marks
    PROVE  /\ Grown /\ MarksSound' /\ marks' \in [AllKinds -> Seq(EventIds)]
           /\ DOMAIN ev' = EventIds /\ DOMAIN marks' = AllKinds /\ ev'[e] # None
<1>1. DOMAIN ev = EventIds /\ DOMAIN marks = AllKinds /\ MarksSound /\ marks \in [AllKinds -> Seq(EventIds)]
  BY DEF IInv, TypeOK
<1>2. DOMAIN ev' = EventIds /\ ev'[e] # None /\ \A x \in EventIds \ {e} : ev'[x] = ev[x]
  BY <1>1
<1>3. Grown
  BY <1>2 DEF Grown
<1>4. MarksSound'
  BY <1>1, <1>2 DEF MarksSound, Members, Durable
<1> QED BY <1>1, <1>2, <1>3, <1>4

LEMMA MemberAdded ==
    ASSUME IInv, NEW e \in EventIds, ev[e] # None, e \notin ToSet(marks[e.kind]),
           marks' = [marks EXCEPT ![e.kind] = Append(@, e)], UNCHANGED ev
    PROVE  /\ Grown /\ MarksSound' /\ marks' \in [AllKinds -> Seq(EventIds)]
           /\ DOMAIN ev' = EventIds /\ DOMAIN marks' = AllKinds /\ Listed(e, marks')
<1> DEFINE k == e.kind
<1>1. DOMAIN ev = EventIds /\ DOMAIN marks = AllKinds /\ MarksSound /\ marks \in [AllKinds -> Seq(EventIds)]
  BY DEF IInv, TypeOK
<1>2. k \in AllKinds
  BY KindOK
<1>3. marks' = [marks EXCEPT ![k] = Append(marks[k], e)] /\ e \in Durable(k)
  BY <1>1, <1>2 DEF Durable
<1> HIDE DEF k
<1>4. /\ Append(marks[k], e) \in Seq(EventIds) /\ ToSet(Append(marks[k], e)) = ToSet(marks[k]) \cup {e}
      /\ IsInjective(marks[k]) /\ e \notin ToSet(marks[k]) => IsInjective(Append(marks[k], e))
  BY <1>1, <1>2, AppendFacts
<1>5. /\ marks' \in [AllKinds -> Seq(EventIds)] /\ DOMAIN marks' = AllKinds
      /\ marks'[k] = Append(marks[k], e) /\ \A x \in AllKinds \ {k} : marks'[x] = marks[x]
  BY <1>1, <1>2, <1>3, <1>4
<1>6. Grown
  BY <1>4, <1>5 DEF Grown
<1>7. MarksSound'
  <2> SUFFICES ASSUME NEW x \in AllKinds PROVE IsInjective(marks'[x]) /\ ToSet(marks'[x]) \subseteq Durable(x)'
    BY DEF MarksSound, Members
  <2>1. Durable(x)' = Durable(x) /\ IsInjective(marks[x]) /\ ToSet(marks[x]) \subseteq Durable(x)
    BY <1>1 DEF Durable, MarksSound, Members
  <2>2. CASE x = k
    <3>1. e \notin ToSet(marks[k])
      BY DEF k
    <3>2. IsInjective(marks'[k])
      BY <1>4, <1>5, <2>1, <2>2, <3>1
    <3>3. ToSet(marks'[k]) = ToSet(marks[k]) \cup {e}
      BY <1>4, <1>5
    <3> QED BY <1>3, <2>1, <2>2, <3>2, <3>3
  <2>3. CASE x # k
    BY <1>5, <2>1, <2>3
  <2> QED BY <2>2, <2>3
<1>8. Listed(e, marks')
  BY <1>4, <1>5 DEF Listed, k
<1> QED BY <1>1, <1>5, <1>6, <1>7, <1>8

(* An append after a read of the document, and one that tries again.       *)
LEMMA ReadOK ==
    ASSUME NEW m \in Appendings, NEW v \in Seq(EventIds)
    PROVE  LET n == [m EXCEPT !.at = "mark", !.view = v]
           IN  n \in Appendings /\ n.at = "mark" /\ n.todo = m.todo /\ n.job = m.job /\ n.view = v
<1> DEFINE n == [m EXCEPT !.at = "mark", !.view = v]
<1>1. n \in Appendings
  BY ZenonT(60) DEF Appendings
<1>2. n.at = "mark" /\ n.todo = m.todo /\ n.job = m.job /\ n.view = v
  BY DEF Appendings
<1> QED BY <1>1, <1>2

LEMMA AgainOK ==
    ASSUME NEW m \in Appendings
    PROVE  LET n == [m EXCEPT !.at = "bump", !.view = <<>>, !.tries = @ + 1]
           IN  n \in Appendings /\ n.at = "bump" /\ n.todo = m.todo /\ n.job = m.job
<1> DEFINE n == [m EXCEPT !.at = "bump", !.view = <<>>, !.tries = @ + 1]
<1>1. n \in Appendings
  <2>1. m.tries + 1 \in Nat /\ <<>> \in Seq(EventIds)
    BY EmptySeq DEF Appendings
  <2> QED BY <2>1, ZenonT(60) DEF Appendings
<1>2. n.at = "bump" /\ n.todo = m.todo /\ n.job = m.job
  BY DEF Appendings
<1> QED BY <1>1, <1>2

(* A caller at a point of an append.                                       *)
LEMMA AtAppend ==
    ASSUME IInv, NEW c \in Callers, call[c].at \in {"probe", "create", "bump", "mark"}
    PROVE  /\ call[c] \in Appendings /\ AppendGood(c, call[c], ev, marks)
           /\ Now(c) = call[c].todo[1] /\ Now(c).id \in EventIds /\ Now(c).by # None
           /\ call[c].view \in Seq(EventIds) /\ call[c].tries \in Nat
<1>1. call[c] \in Appendings /\ AppendGood(c, call[c], ev, marks)
  BY CallKinds DEF IInv, CallGood
<1>2. /\ call[c].todo \in Seq(Writes) /\ call[c].todo # <<>>
      /\ call[c].view \in Seq(EventIds) /\ call[c].tries \in Nat
  BY <1>1 DEF Appendings, AppendGood
<1> QED BY <1>1, <1>2, TailFacts DEF Now

LEMMA ProbeKeeps == ASSUME IInv, NEW c \in Callers, Probe(c) PROVE IInv'
<1>1. /\ call[c].at = "probe" /\ UNCHANGED <<tag, ev, marks, statements, latest, fresh, closes, sends, faults>>
  BY DEF Probe, registry, closing
<1>2. TypeOK' /\ latest' \in {None} \cup Statements
  BY <1>1 DEF IInv, TypeOK
<1>3. CASE Onward(c)
  <2>1. c \notin Captors
    BY <1>1, AtAppend DEF AppendGood
  <2>2. CapturedCounted'
    BY <1>1, Same, CapturedStays
  <2> QED BY <1>1, <1>2, <1>3, <2>1, <2>2, Same, OnwardKeeps
<1>4. CASE Goto(c, "create")
  <2> DEFINE n == [call[c] EXCEPT !.at = "create"]
  <2>1. call' = [call EXCEPT ![c] = n]
    BY <1>4 DEF Goto
  <2>2. n \in Calls /\ CallGood(c, n, ev, marks)
    <3>1. n \in Appendings /\ n.at = "create" /\ n.todo = call[c].todo /\ n.job = call[c].job
      BY <1>1, AtAppend DEF Appendings
    <3> HIDE DEF n
    <3> QED BY <1>1, <3>1, AtAppend, PointOK
  <2> HIDE DEF n
  <2> QED BY <1>1, <1>2, <2>1, <2>2, Quiet
<1> QED BY <1>3, <1>4 DEF Probe

LEMMA CreateKeeps == ASSUME IInv, NEW c \in Callers, Create(c) PROVE IInv'
<1> DEFINE e == Now(c).id  n == [call[c] EXCEPT !.at = "bump"]
<1>1. call[c].at = "create" /\ UNCHANGED <<tag, marks, statements, latest, fresh, closes, sends, faults>>
  BY DEF Create, closing
<1>2. latest' \in {None} \cup Statements
  BY <1>1 DEF IInv
<1>3. n \in Appendings /\ n.at = "bump" /\ n.todo = call[c].todo /\ n.job = call[c].job
  BY <1>1, AtAppend DEF Appendings
<1>4. e \in EventIds /\ Now(c).by # None
  BY <1>1, AtAppend
<1>5. Goto(c, "bump") => call' = [call EXCEPT ![c] = n]
  BY DEF Goto
<1> HIDE DEF e, n
<1>6. CASE ev[e] = None /\ ev' = [ev EXCEPT ![e] = Now(c).by] /\ Goto(c, "bump")
  <2>1. /\ Grown /\ MarksSound' /\ marks' \in [AllKinds -> Seq(EventIds)]
        /\ DOMAIN ev' = EventIds /\ DOMAIN marks' = AllKinds /\ ev'[e] # None
    BY <1>1, <1>4, <1>6, EventAdded
  <2>2. TypeOK' /\ CapturedCounted'
    BY <1>1, <2>1, CapturedStays DEF IInv, TypeOK
  <2>3. n \in Calls /\ CallGood(c, n, ev', marks)
    BY <1>1, <1>3, <2>1, AtAppend, PointOK DEF e
  <2> QED BY <1>1, <1>2, <1>5, <1>6, <2>1, <2>2, <2>3, Moves
<1>7. CASE ev[e] = Now(c).by /\ Goto(c, "bump") /\ UNCHANGED ev
  <2>1. TypeOK'
    BY <1>1, <1>7 DEF IInv, TypeOK
  <2>2. n \in Calls /\ CallGood(c, n, ev, marks)
    BY <1>1, <1>3, <1>4, <1>7, AtAppend, PointOK DEF e
  <2> QED BY <1>1, <1>2, <1>5, <1>7, <2>1, <2>2, Quiet
<1>8. CASE Return(c) /\ UNCHANGED ev
  <2>1. TypeOK' /\ call' = [call EXCEPT ![c] = Idle]
    BY <1>1, <1>8 DEF IInv, TypeOK, Return
  <2> QED BY <1>1, <1>2, <1>8, <2>1, IdleGood, Quiet
<1> QED BY <1>6, <1>7, <1>8 DEF Create, e

LEMMA BumpReadKeeps == ASSUME IInv, NEW c \in Callers, BumpRead(c) PROVE IInv'
<1> DEFINE e == Now(c).id  n == [call[c] EXCEPT !.at = "mark", !.view = marks[e.kind]]
<1>1. call[c].at = "bump" /\ UNCHANGED <<tag, ev, marks, statements, latest, fresh, closes, sends, faults>>
  BY DEF BumpRead, closing, registry
<1>2. TypeOK' /\ latest' \in {None} \cup Statements
  BY <1>1 DEF IInv, TypeOK
<1>3. e \in EventIds /\ e.kind \in AllKinds /\ marks[e.kind] \in Seq(EventIds)
  BY <1>1, AtAppend, KindOK DEF IInv
<1>4. CASE Counted(e) /\ Onward(c)
  <2>1. Listed(e, marks')
    BY <1>1, <1>4 DEF Counted, Members, Listed
  <2>2. CapturedCounted'
    BY <1>1, Same, CapturedStays
  <2> QED BY <1>1, <1>2, <1>4, <2>1, <2>2, Same, OnwardKeeps
<1>5. CASE ~Counted(e) /\ call' = [call EXCEPT ![c] = n]
  <2>1. /\ n \in Appendings /\ n.at = "mark" /\ n.todo = call[c].todo /\ n.job = call[c].job
        /\ n.view = marks[e.kind]
    <3> DEFINE v == marks[e.kind]
    <3>1. v \in Seq(EventIds)
      BY <1>3
    <3>2. call[c] \in Appendings
      BY <1>1, AtAppend
    <3> QED BY <3>1, <3>2, ReadOK
  <2>2. ev[e] # None /\ e \notin ToSet(marks[e.kind])
    BY <1>1, <1>5, AtAppend DEF AppendGood, Counted, Members
  <2> HIDE DEF n
  <2>3. n \in Calls /\ CallGood(c, n, ev, marks)
    BY <1>1, <2>1, <2>2, AtAppend, PointOK
  <2> QED BY <1>1, <1>2, <1>5, <2>3, Quiet
<1> QED BY <1>4, <1>5 DEF BumpRead

(* The swap of a caller whose read is current adds a new member.           *)
LEMMA SwapAdds ==
    ASSUME IInv, NEW c \in Callers, call[c].at = "mark", marks[Now(c).id.kind] = call[c].view,
           marks' = [marks EXCEPT ![Now(c).id.kind] = Append(@, Now(c).id)], UNCHANGED ev
    PROVE  /\ Grown /\ MarksSound' /\ marks' \in [AllKinds -> Seq(EventIds)]
           /\ DOMAIN ev' = EventIds /\ DOMAIN marks' = AllKinds /\ Listed(Now(c).id, marks')
<1> DEFINE e == Now(c).id
<1>1. e \in EventIds /\ ev[e] # None /\ e \notin ToSet(call[c].view)
  BY AtAppend DEF AppendGood
<1>2. e \notin ToSet(marks[e.kind])
  BY <1>1
<1> HIDE DEF e
<1>3. marks' = [marks EXCEPT ![e.kind] = Append(@, e)]
  BY DEF e
<1>4. /\ Grown /\ MarksSound' /\ marks' \in [AllKinds -> Seq(EventIds)]
      /\ DOMAIN ev' = EventIds /\ DOMAIN marks' = AllKinds /\ Listed(e, marks')
  BY <1>1, <1>2, <1>3, MemberAdded
<1> QED BY <1>4 DEF e

LEMMA BumpKeeps == ASSUME IInv, NEW c \in Callers, Bump(c) PROVE IInv'
<1> DEFINE e == Now(c).id
           n == [call[c] EXCEPT !.at = "bump", !.view = <<>>, !.tries = @ + 1]
<1>1. call[c].at = "mark" /\ UNCHANGED <<tag, ev, statements, latest, fresh, closes, sends, faults>>
  BY DEF Bump, closing
<1>2. latest' \in {None} \cup Statements /\ latest' = latest
  BY <1>1 DEF IInv
<1>3. CASE marks[e.kind] = call[c].view /\ marks' = [marks EXCEPT ![e.kind] = Append(@, e)] /\ Onward(c)
  <2>1. /\ Grown /\ MarksSound' /\ marks' \in [AllKinds -> Seq(EventIds)]
        /\ DOMAIN ev' = EventIds /\ DOMAIN marks' = AllKinds /\ Listed(e, marks')
    BY <1>1, <1>3, SwapAdds
  <2>2. TypeOK' /\ CapturedCounted'
    BY <1>1, <2>1, CapturedStays DEF IInv, TypeOK
  <2> QED BY <1>1, <1>2, <1>3, <2>1, <2>2, OnwardKeeps
<1>4. CASE call' = [call EXCEPT ![c] = n] /\ UNCHANGED marks
  <2>1. n \in Appendings /\ n.at = "bump" /\ n.todo = call[c].todo /\ n.job = call[c].job
    BY <1>1, AtAppend, AgainOK
  <2>2. ev[e] # None
    BY <1>1, AtAppend DEF AppendGood
  <2> HIDE DEF n
  <2>3. n \in Calls /\ CallGood(c, n, ev, marks)
    BY <1>1, <2>1, <2>2, AtAppend, PointOK
  <2>4. TypeOK'
    BY <1>1, <1>4 DEF IInv, TypeOK
  <2> QED BY <1>1, <1>2, <1>4, <2>3, <2>4, Quiet
<1>5. CASE Return(c) /\ UNCHANGED marks
  <2>1. TypeOK' /\ call' = [call EXCEPT ![c] = Idle]
    BY <1>1, <1>5 DEF IInv, TypeOK, Return
  <2> QED BY <1>1, <1>2, <1>5, <2>1, IdleGood, Quiet
<1>6. \/ marks[e.kind] = call[c].view /\ marks' = [marks EXCEPT ![e.kind] = Append(@, e)] /\ Onward(c)
      \/ call' = [call EXCEPT ![c] = n] /\ UNCHANGED marks
      \/ Return(c) /\ UNCHANGED marks
  <2>1. CASE /\ marks[e.kind] = call[c].view
             /\ marks' = [marks EXCEPT ![e.kind] = Append(@, e)]
             /\ Onward(c)
    BY <2>1
  <2>2. CASE /\ IF call[c].tries + 1 < MaxTries
                  THEN call' = [call EXCEPT ![c] = [call[c] EXCEPT !.at = "bump", !.view = <<>>, !.tries = @ + 1]]
                  ELSE Return(c)
             /\ UNCHANGED marks
    BY <2>2
  <2> QED BY <2>1, <2>2 DEF Bump
<1> QED BY <1>3, <1>4, <1>5, <1>6

-------------------------------------------------------------------------------
(* Tasks, receipts and amendments.                                          *)

LEMMA FinishKeeps == ASSUME IInv, NEW t \in Natives, Finish(t) PROVE IInv'
<1>1. /\ UNCHANGED <<ev, marks, statements, latest, fresh, closes, sends, faults, call>>
      /\ tag[t] = "none" /\ tag' = [tag EXCEPT ![t] = "pending"]
  BY DEF Finish, registry, closing
<1>2. TypeOK'
  BY <1>1 DEF IInv, TypeOK
<1>3. CapturedCounted'
  BY <1>1, <1>2 DEF IInv, CapturedCounted, Counted, Members, TypeOK
<1> QED BY <1>1, <1>2, <1>3, Same DEF IInv

LEMMA CaptureKeeps == ASSUME IInv, NEW c \in Callers, NEW t \in Natives, Capture(c, t) PROVE IInv'
<1>1. UNCHANGED <<tag, ev, marks, statements, latest, fresh, closes, sends, faults>>
  BY DEF Capture, registry, closing
<1>2. TypeOK' /\ latest' \in {None} \cup Statements
  BY <1>1 DEF IInv, TypeOK
<1>3. CASE t \in Bound
  <2> DEFINE n == Appends(c, t, NativeWrites(t))
  <2>1. n \in Calls /\ CallGood(c, n, ev, marks)
    BY <1>3, NativeFacts, AppendsGood DEF Jobs
  <2>2. call' = [call EXCEPT ![c] = n]
    BY <1>3 DEF Capture
  <2> HIDE DEF n
  <2> QED BY <1>1, <1>2, <2>1, <2>2, Quiet
<1>4. CASE t \notin Bound
  <2> DEFINE n == [at |-> "tag", job |-> t]
  <2>1. n \in Taggings
    BY DEF Taggings
  <2>2. TagGood(n, marks)
    BY <1>4 DEF TagGood
  <2>3. call' = [call EXCEPT ![c] = n]
    BY <1>4 DEF Capture
  <2>4. n \in Calls /\ n \notin Appendings /\ n \notin Closings
    BY <2>1 DEF Calls, Appendings, Taggings, Closings, Counting, Issuing
  <2> HIDE DEF n
  <2>5. CallGood(c, n, ev, marks)
    BY <2>2, <2>4 DEF CallGood
  <2> QED BY <1>1, <1>2, <2>3, <2>4, <2>5, Quiet
<1> QED BY <1>3, <1>4

LEMMA TagKeeps == ASSUME IInv, NEW c \in Callers, Tag(c) PROVE IInv'
<1> DEFINE t == call[c].job
<1>1. /\ UNCHANGED <<ev, marks, statements, latest, fresh, closes, sends, faults>>
      /\ call[c].at = "tag" /\ call' = [call EXCEPT ![c] = Idle]
      /\ tag' = [tag EXCEPT ![t] = IF @ # "pending" THEN @ ELSE IF t \in Bound THEN "captured" ELSE "rejected"]
  BY DEF Tag, Return, registry, closing
<1>2. call[c] \in Taggings /\ TagGood(call[c], marks)
  BY <1>1, CallKinds DEF IInv, CallGood
<1>3. t \in Natives
  BY <1>2 DEF Taggings
<1>4. t \in Bound => \A e \in Ids(NativeWrites(t)) : Listed(e, marks)
  BY <1>2 DEF TagGood
<1> HIDE DEF t
<1>5. TypeOK' /\ latest' \in {None} \cup Statements
  BY <1>1, <1>3 DEF IInv, TypeOK
<1>6. CapturedCounted'
  <2> SUFFICES ASSUME NEW u \in Natives, tag'[u] = "captured", NEW e \in Ids(NativeWrites(u))
               PROVE  Listed(e, marks)
    BY <1>1 DEF CapturedCounted, Counted, Members, Listed
  <2>1. tag[u] = "captured" \/ (u = t /\ t \in Bound)
    BY <1>1, <1>3 DEF IInv, TypeOK
  <2>2. CASE tag[u] = "captured"
    BY <2>2 DEF IInv, CapturedCounted, Counted, Members, Listed
  <2> QED BY <1>4, <2>1, <2>2
<1> QED BY <1>1, <1>5, <1>6, IdleGood, Same, Moves

LEMMA IngestKeeps == ASSUME IInv, NEW c \in Intakes, NEW r \in Receipts, Ingest(c, r) PROVE IInv'
<1> DEFINE n == Appends(c, r, ReceiptWrites(r))
<1>1. /\ UNCHANGED <<tag, ev, marks, statements, latest, fresh, closes, faults>>
      /\ sends < MaxSends /\ sends' = sends + 1 /\ call' = [call EXCEPT ![c] = n]
  BY DEF Ingest, registry, closing
<1>2. TypeOK' /\ latest' \in {None} \cup Statements
  BY <1>1, ConstantsAssumption DEF IInv, TypeOK
<1>3. c \in Callers /\ c \notin Captors
  BY CallersAssumption DEF Callers
<1>4. n \in Calls /\ CallGood(c, n, ev, marks)
  BY <1>3, ReceiptFacts, AppendsGood DEF Jobs
<1> HIDE DEF n
<1> QED BY <1>1, <1>2, <1>3, <1>4, Quiet

LEMMA AmendKeeps == ASSUME IInv, NEW c \in Amenders, NEW m \in Amendments, Amend(c, m) PROVE IInv'
<1> DEFINE ws == <<[id |-> Event(m.kind, m.of), by |-> m.by]>>
           n == Appends(c, m, ws)
<1>1. /\ UNCHANGED <<tag, ev, marks, statements, latest, fresh, closes, faults>>
      /\ sends < MaxSends /\ sends' = sends + 1 /\ call' = [call EXCEPT ![c] = n]
  BY DEF Amend, registry, closing
<1>2. TypeOK' /\ latest' \in {None} \cup Statements
  BY <1>1, ConstantsAssumption DEF IInv, TypeOK
<1>3. c \in Callers /\ c \notin Captors
  BY CallersAssumption DEF Callers
<1>4. ws \in Seq(Writes) /\ Len(ws) = 1
  BY AmendmentFacts
<1> HIDE DEF ws
<1>5. ws # <<>>
  BY <1>4, LenOfNone
<1>6. n \in Calls /\ CallGood(c, n, ev, marks)
  BY <1>3, <1>4, <1>5, AppendsGood DEF Jobs
<1> HIDE DEF n
<1> QED BY <1>1, <1>2, <1>3, <1>6, Quiet

LEMMA DiesKeeps == ASSUME IInv, NEW c \in Callers, Dies(c) PROVE IInv'
<1>1. /\ UNCHANGED <<tag, statements, latest, fresh, closes, sends>>
      /\ faults < MaxFaults /\ faults' = faults + 1 /\ call' = [call EXCEPT ![c] = Idle]
  BY DEF Dies, Fault, Return, closing
<1>2. latest' \in {None} \cup Statements
  BY <1>1 DEF IInv
<1>3. CASE UNCHANGED <<ev, marks>>
  <2>1. TypeOK'
    BY <1>1, <1>3, ConstantsAssumption DEF IInv, TypeOK
  <2> QED BY <1>1, <1>2, <1>3, <2>1, IdleGood, Quiet
<1>4. CASE /\ call[c].at = "create" /\ ev[Now(c).id] = None
           /\ ev' = [ev EXCEPT ![Now(c).id] = Now(c).by] /\ UNCHANGED marks
  <2>1. /\ Grown /\ MarksSound' /\ marks' \in [AllKinds -> Seq(EventIds)]
        /\ DOMAIN ev' = EventIds /\ DOMAIN marks' = AllKinds
    BY <1>4, AtAppend, EventAdded
  <2>2. TypeOK' /\ CapturedCounted'
    BY <1>1, <2>1, CapturedStays, ConstantsAssumption DEF IInv, TypeOK
  <2> QED BY <1>1, <1>2, <2>1, <2>2, IdleGood, Moves
<1>5. CASE /\ call[c].at = "mark" /\ marks[Now(c).id.kind] = call[c].view
           /\ marks' = [marks EXCEPT ![Now(c).id.kind] = Append(@, Now(c).id)] /\ UNCHANGED ev
  <2>1. /\ Grown /\ MarksSound' /\ marks' \in [AllKinds -> Seq(EventIds)]
        /\ DOMAIN ev' = EventIds /\ DOMAIN marks' = AllKinds
    BY <1>5, SwapAdds
  <2>2. TypeOK' /\ CapturedCounted'
    BY <1>1, <2>1, CapturedStays, ConstantsAssumption DEF IInv, TypeOK
  <2> QED BY <1>1, <1>2, <2>1, <2>2, IdleGood, Moves
<1> QED BY <1>3, <1>4, <1>5 DEF Dies, registry

-------------------------------------------------------------------------------
(* Closing the period.                                                      *)

(* A caller at a point of a close, and the close at another point.         *)
LEMMA AtClose ==
    ASSUME IInv, NEW c \in Callers, call[c].at \in Counting \cup Issuing
    PROVE  /\ call[c] \in Closings /\ CloseGood(call[c], ev)
           /\ call[c].got \in Statements /\ call[c].owed \in SUBSET EventIds /\ call[c].k \in Nat
           /\ call[c].view \in Seq(EventIds) /\ call[c].tries \in Nat
<1>1. call[c] \in Closings /\ CloseGood(call[c], ev)
  BY CallKinds DEF IInv, CallGood
<1> QED BY <1>1 DEF Closings

LEMMA CloseOK ==
    ASSUME NEW c, NEW n \in Closings, NEW evs, NEW mks, CloseGood(n, evs)
    PROVE  n \in Calls /\ CallGood(c, n, evs, mks)
BY DEF CallGood, Calls, Appendings, Taggings, Closings, Counting, Issuing

LEMMA PointCloseOK ==
    ASSUME NEW m \in Closings, NEW p \in Counting \cup Issuing
    PROVE  LET n == [m EXCEPT !.at = p]
           IN  n \in Closings /\ n.at = p /\ n.k = m.k /\ n.got = m.got /\ n.owed = m.owed /\ n.view = m.view
<1> DEFINE n == [m EXCEPT !.at = p]
<1>1. n \in Closings
  BY ZenonT(60) DEF Closings
<1>2. n.at = p /\ n.k = m.k /\ n.got = m.got /\ n.owed = m.owed /\ n.view = m.view
  BY DEF Closings
<1> QED BY <1>1, <1>2

LEMMA ReadCloseOK ==
    ASSUME NEW m \in Closings, NEW v \in Seq(EventIds)
    PROVE  LET n == [m EXCEPT !.at = "check", !.view = v]
           IN  n \in Closings /\ n.at = "check" /\ n.k = m.k /\ n.got = m.got /\ n.owed = m.owed /\ n.view = v
<1> DEFINE n == [m EXCEPT !.at = "check", !.view = v]
<1>1. n \in Closings
  <2>1. "check" \in Counting \cup Issuing
    BY DEF Counting
  <2> QED BY <2>1, ZenonT(60) DEF Closings
<1>2. n.at = "check" /\ n.k = m.k /\ n.got = m.got /\ n.owed = m.owed /\ n.view = v
  BY DEF Closings
<1> QED BY <1>1, <1>2

LEMMA AgainCloseOK ==
    ASSUME NEW m \in Closings
    PROVE  LET n == [m EXCEPT !.at = "point", !.tries = @ + 1]
           IN  n \in Closings /\ n.at = "point" /\ n.k = m.k /\ n.got = m.got /\ n.owed = m.owed
<1> DEFINE n == [m EXCEPT !.at = "point", !.tries = @ + 1]
<1>1. n \in Closings
  <2>1. m.tries + 1 \in Nat /\ "point" \in Counting \cup Issuing
    BY DEF Closings, Issuing
  <2> QED BY <2>1, ZenonT(60) DEF Closings
<1>2. n.at = "point" /\ n.k = m.k /\ n.got = m.got /\ n.owed = m.owed
  BY DEF Closings
<1> QED BY <1>1, <1>2

(* A close steps with nothing but its call changed.                        *)
LEMMA CloseMoves ==
    ASSUME IInv, NEW c \in Callers, NEW n \in Closings, CloseGood(n, ev), call' = [call EXCEPT ![c] = n],
           UNCHANGED <<tag, ev, marks, latest>>, TypeOK'
    PROVE  IInv'
<1>1. n \in Calls /\ CallGood(c, n, ev, marks)
  BY CloseOK
<1>2. latest' \in {None} \cup Statements
  BY DEF IInv
<1> QED BY <1>1, <1>2, Quiet

(* The part of a counter whose owed events it has read, or of one that     *)
(* spoils the statement.                                                   *)
LEMMA StatedGood ==
    ASSUME IInv, NEW c \in Callers, NEW part \in Parts, call[c].at \in Counting, Stated(c, part),
           UNCHANGED <<tag, ev, marks, latest>>, TypeOK',
           part.ok => \A e \in call[c].owed : e.kind = Kinds[call[c].k] => e \in part.members
    PROVE  IInv'
<1> DEFINE m == call[c]
           got == Append(m.got, part)
           owed == IF part.ok THEN m.owed \ part.members ELSE m.owed
           p == IF m.k = Len(Kinds) THEN "persist" ELSE "issue"
           next == m.k + 1
           n == [m EXCEPT !.got = got, !.owed = owed, !.k = next, !.view = <<>>, !.at = p]
<1>1. /\ m \in Closings /\ CloseGood(m, ev) /\ m.got \in Statements /\ m.owed \in SUBSET EventIds
      /\ m.k \in Nat /\ m.at \in Counting
  BY AtClose
<1>2. call' = [call EXCEPT ![c] = n]
  BY DEF Stated
<1> HIDE DEF m
<1>3. m.k = Len(m.got) + 1 /\ m.k <= Len(Kinds) /\ \A e \in m.owed : ev[e] # None
  BY <1>1 DEF CloseGood
<1>4. got \in Statements /\ Len(got) = m.k /\ (Certified(got) => Certified(m.got) /\ part.ok)
  BY <1>1, <1>3, PartFacts
<1>5. owed \in SUBSET EventIds /\ owed \subseteq m.owed /\ (part.ok => owed = m.owed \ part.members)
  BY <1>1
<1>6. p \in {"persist", "issue"} /\ (p = "persist" <=> m.k = Len(Kinds))
  OBVIOUS
<1>7. p \in Counting \cup Issuing /\ next \in Nat /\ next = m.k + 1
  BY <1>1, <1>6 DEF Counting, Issuing
<1> HIDE DEF got, owed, p, next
<1>8. n \in Closings /\ n.at = p /\ n.k = next /\ n.got = got /\ n.owed = owed
  <2>1. m \in Closings
    BY <1>1
  <2>2. got \in Statements
    BY <1>4
  <2>3. owed \in SUBSET EventIds
    BY <1>5
  <2>4. next \in Nat
    BY <1>7
  <2>5. p \in Counting \cup Issuing
    BY <1>7
  <2>6. n = [m EXCEPT !.got = got, !.owed = owed, !.k = next, !.view = <<>>, !.at = p]
    OBVIOUS
  <2> HIDE DEF n
  <2>7. <<>> \in Seq(EventIds)
    BY EmptySeq
  <2>8. n \in Closings
    BY <2>1, <2>2, <2>3, <2>4, <2>5, <2>6, <2>7, ZenonT(60) DEF Closings
  <2>9. n.at = p /\ n.k = next /\ n.got = got /\ n.owed = owed
    BY <2>1, <2>6 DEF Closings
  <2> QED BY <2>8, <2>9
<1> HIDE DEF n
<1>9. CloseGood(n, ev)
  <2>1. n.k = Len(n.got) + 1
    BY <1>4, <1>7, <1>8
  <2>2. n.at \in Counting => n.k <= Len(Kinds)
    <3>1. n.at \in Counting => m.k # Len(Kinds)
      BY <1>6, <1>8 DEF Counting
    <3>2. m.k \in Nat /\ m.k <= Len(Kinds) /\ Len(Kinds) \in Nat
      BY <1>1, <1>3, KindsFacts
    <3>3. m.k # Len(Kinds) => m.k + 1 <= Len(Kinds)
      BY <3>2
    <3> QED BY <1>7, <1>8, <3>1, <3>3
  <2>3. n.at \in Issuing => n.k = Len(Kinds) + 1
    BY <1>6, <1>7, <1>8 DEF Issuing
  <2>4. \A e \in n.owed : ev[e] # None
    BY <1>3, <1>5, <1>8
  <2>5. ASSUME Certified(n.got), NEW e \in n.owed PROVE \E j \in n.k..Len(Kinds) : e.kind = Kinds[j]
    <3>1. Certified(m.got) /\ part.ok /\ e \in m.owed /\ e \notin part.members
      BY <1>4, <1>5, <1>8, <2>5
    <3>2. e.kind # Kinds[m.k]
      BY <3>1 DEF m
    <3>3. PICK j \in m.k..Len(Kinds) : e.kind = Kinds[j]
      BY <1>1, <3>1 DEF CloseGood
    <3>4. j # m.k
      BY <3>2, <3>3
    <3>5. j \in n.k..Len(Kinds)
      BY <1>1, <1>7, <1>8, <3>4, KindsFacts
    <3> QED BY <3>3, <3>5
  <2>6. n.at \notin {"verify", "stats"}
    BY <1>6, <1>8
  <2> QED BY <2>1, <2>2, <2>3, <2>4, <2>5, <2>6 DEF CloseGood
<1> QED BY <1>2, <1>8, <1>9, CloseMoves

LEMMA CloseKeeps == ASSUME IInv, NEW c \in Callers, Close(c) PROVE IInv'
<1> DEFINE owed == UNION {Durable(k) : k \in ToSet(Kinds)}
           n == [at |-> "issue", prior |-> latest, k |-> 1, view |-> <<>>, got |-> <<>>, owed |-> owed, tries |-> 0]
<1>1. /\ UNCHANGED <<tag, ev, marks, statements, latest, fresh, sends, faults>>
      /\ closes < MaxCloses /\ closes' = closes + 1 /\ call' = [call EXCEPT ![c] = n]
  BY DEF Close, registry
<1>2. TypeOK'
  BY <1>1, ConstantsAssumption DEF IInv, TypeOK
<1>3. \A e \in owed : e \in EventIds /\ ev[e] # None /\ e.kind \in ToSet(Kinds)
  BY DEF Durable
<1>4. \A x \in ToSet(Kinds) : \E j \in 1..Len(Kinds) : x = Kinds[j]
  BY KindsFacts DEF ToSet
<1>5. owed \in SUBSET EventIds
  BY <1>3
<1> HIDE DEF owed
<1>6. n \in Closings
  <2>1. <<>> \in Seq(EventIds) /\ <<>> \in Statements
    BY EmptySeq DEF Statements
  <2>2. latest \in {None} \cup Statements
    BY DEF IInv
  <2>3. "issue" \in Counting \cup Issuing
    BY DEF Counting
  <2> QED BY <1>5, <2>1, <2>2, <2>3 DEF Closings
<1>7. n.at = "issue" /\ n.k = 1 /\ n.got = <<>> /\ n.owed = owed
  OBVIOUS
<1> HIDE DEF n
<1>8. Len(n.got) = 0
  BY <1>7, EmptySeq
<1>9. CloseGood(n, ev)
  BY <1>3, <1>4, <1>7, <1>8, KindsFacts DEF CloseGood, Counting, Issuing
<1> QED BY <1>1, <1>2, <1>6, <1>9, CloseMoves

LEMMA IssueReadKeeps == ASSUME IInv, NEW c \in Callers, IssueRead(c) PROVE IInv'
<1> DEFINE m == call[c]  v == marks[Kinds[m.k]]
           n == [m EXCEPT !.at = "check", !.view = v]
<1>1. /\ UNCHANGED <<tag, ev, marks, statements, latest, fresh, closes, sends, faults>>
      /\ m.at = "issue" /\ call' = [call EXCEPT ![c] = n]
  BY DEF IssueRead, registry, closing, Counter
<1>2. TypeOK'
  BY <1>1 DEF IInv, TypeOK
<1>3. m \in Closings /\ CloseGood(m, ev) /\ m.k \in Nat
  BY <1>1, AtClose DEF Counting
<1>4. m.k \in 1..Len(Kinds)
  <2>1. m.k = Len(m.got) + 1 /\ m.k <= Len(Kinds)
    BY <1>1, <1>3 DEF CloseGood, Counting
  <2>2. Len(m.got) \in Nat
    BY <1>3, LenProperties DEF Closings, Statements
  <2> QED BY <1>3, <2>1, <2>2
<1>5. v \in Seq(EventIds)
  BY <1>4, CountersOK DEF IInv
<1> HIDE DEF m, v
<1>6. /\ n \in Closings /\ n.at = "check" /\ n.k = m.k /\ n.got = m.got /\ n.owed = m.owed
  BY <1>3, <1>5, ReadCloseOK
<1> HIDE DEF n
<1>7. CloseGood(n, ev)
  BY <1>1, <1>3, <1>6 DEF CloseGood, Counting, Issuing
<1> QED BY <1>1, <1>2, <1>6, <1>7, CloseMoves DEF m

(* A close that goes on to another point of the same counter.              *)
LEMMA GotoKeeps ==
    ASSUME IInv, NEW c \in Callers, call[c].at \in Counting \cup Issuing, NEW p \in Counting \cup Issuing,
           Goto(c, p), UNCHANGED <<tag, ev, marks, latest>>, TypeOK',
           p \in Counting <=> call[c].at \in Counting,
           p \in {"verify", "stats"} =>
               \A e \in call[c].owed : e.kind = Kinds[call[c].k] => e \in ToSet(call[c].view)
    PROVE  IInv'
<1> DEFINE m == call[c]  n == [m EXCEPT !.at = p]
<1>1. m \in Closings /\ CloseGood(m, ev) /\ m.at \in Counting \cup Issuing
  BY AtClose
<1>2. call' = [call EXCEPT ![c] = n]
  BY DEF Goto
<1>3. p \in {"verify", "stats"} => \A e \in m.owed : e.kind = Kinds[m.k] => e \in ToSet(m.view)
  OBVIOUS
<1>4. (p \in Counting <=> m.at \in Counting) /\ (p \in Issuing <=> m.at \in Issuing)
  BY <1>1 DEF Counting, Issuing
<1> HIDE DEF m
<1>5. n \in Closings /\ n.at = p /\ n.k = m.k /\ n.got = m.got /\ n.owed = m.owed /\ n.view = m.view
  BY <1>1, PointCloseOK
<1> HIDE DEF n
<1>6. CloseGood(n, ev)
  BY <1>1, <1>3, <1>4, <1>5 DEF CloseGood
<1> QED BY <1>2, <1>5, <1>6, CloseMoves

LEMMA CheckKeeps == ASSUME IInv, NEW c \in Callers, Check(c) PROVE IInv'
<1>1. UNCHANGED <<tag, ev, marks, statements, latest, fresh, closes, sends, faults>> /\ call[c].at = "check"
  BY DEF Check, registry, closing
<1>2. TypeOK' /\ call[c].at \in Counting
  BY <1>1 DEF IInv, TypeOK, Counting
<1>3. CASE Durable(Counter(c)) \subseteq ToSet(call[c].view) /\ Goto(c, "verify")
  <2>1. \A e \in call[c].owed : e \in EventIds /\ ev[e] # None
    BY <1>2, AtClose DEF CloseGood
  <2>2. \A e \in call[c].owed : e.kind = Kinds[call[c].k] => e \in ToSet(call[c].view)
    BY <1>3, <2>1 DEF Durable, Counter
  <2>3. "verify" \in Counting
    BY DEF Counting
  <2> QED BY <1>1, <1>2, <1>3, <2>2, <2>3, GotoKeeps
<1>4. CASE Stated(c, Blocked)
  BY <1>1, <1>2, <1>4, PartOK, StatedGood
<1> QED BY <1>3, <1>4 DEF Check

LEMMA VerifyKeeps == ASSUME IInv, NEW c \in Callers, Verify(c) PROVE IInv'
<1>1. UNCHANGED <<tag, ev, marks, statements, latest, fresh, closes, sends, faults>> /\ call[c].at = "verify"
  BY DEF Verify, registry, closing
<1>2. TypeOK' /\ call[c].at \in Counting
  BY <1>1 DEF IInv, TypeOK, Counting
<1>3. CASE Goto(c, "stats")
  <2>1. \A e \in call[c].owed : e.kind = Kinds[call[c].k] => e \in ToSet(call[c].view)
    BY <1>1, <1>2, AtClose DEF CloseGood
  <2>2. "stats" \in Counting
    BY DEF Counting
  <2> QED BY <1>1, <1>2, <1>3, <2>1, <2>2, GotoKeeps
<1>4. CASE Stated(c, Blocked)
  BY <1>1, <1>2, <1>4, PartOK, StatedGood
<1> QED BY <1>3, <1>4 DEF Verify

LEMMA StatsKeeps == ASSUME IInv, NEW c \in Callers, Stats(c) PROVE IInv'
<1> DEFINE part == Part(call[c].view)
<1>1. /\ UNCHANGED <<tag, ev, marks, statements, latest, fresh, closes, sends, faults>>
      /\ call[c].at = "stats" /\ Stated(c, part)
  BY DEF Stats, registry, closing
<1>2. TypeOK' /\ call[c].at \in Counting
  BY <1>1 DEF IInv, TypeOK, Counting
<1>3. part \in Parts /\ part.members = ToSet(call[c].view)
  BY <1>2, AtClose, PartOK
<1>4. \A e \in call[c].owed : e.kind = Kinds[call[c].k] => e \in part.members
  BY <1>1, <1>2, <1>3, AtClose DEF CloseGood
<1> HIDE DEF part
<1> QED BY <1>1, <1>2, <1>3, <1>4, StatedGood

LEMMA PersistKeeps == ASSUME IInv, NEW c \in Callers, Persist(c) PROVE IInv'
<1>1. UNCHANGED <<tag, ev, marks, latest, fresh, closes, sends, faults>> /\ call[c].at = "persist"
  BY DEF Persist, registry
<1>2. /\ call[c].at \in Issuing /\ call[c].at \notin Counting /\ "point" \in Issuing /\ "point" \notin Counting
  BY <1>1 DEF Counting, Issuing
<1>3. CASE Return(c) /\ UNCHANGED statements
  <2>1. TypeOK' /\ latest' \in {None} \cup Statements /\ call' = [call EXCEPT ![c] = Idle]
    BY <1>1, <1>3 DEF IInv, TypeOK, Return
  <2> QED BY <1>1, <2>1, IdleGood, Quiet
<1>4. CASE /\ statements' = IF Certified(call[c].got) THEN statements \cup {call[c].got} ELSE statements
           /\ Goto(c, "point")
  <2>1. Len(call[c].got) = Len(Kinds)
    <3>1. call[c].k = Len(call[c].got) + 1 /\ call[c].k = Len(Kinds) + 1
      BY <1>2, AtClose DEF CloseGood
    <3>2. Len(call[c].got) \in Nat /\ Len(Kinds) \in Nat
      BY <1>2, AtClose, KindsFacts, LenProperties DEF Statements
    <3> QED BY <3>1, <3>2
  <2>2. \A st \in statements' : Certified(st) /\ Len(st) = Len(Kinds)
    BY <1>4, <2>1 DEF IInv, TypeOK
  <2>3. TypeOK'
    BY <1>1, <2>2 DEF IInv, TypeOK, Certified
  <2>4. "point" \notin {"verify", "stats"}
    OBVIOUS
  <2> QED BY <1>1, <1>2, <1>4, <2>3, <2>4, GotoKeeps
<1> QED BY <1>3, <1>4 DEF Persist

LEMMA PointReadKeeps == ASSUME IInv, NEW c \in Closers, PointRead(c) PROVE IInv'
<1>1. UNCHANGED <<tag, ev, marks, statements, latest, closes, sends, faults>> /\ call[c].at = "point"
  BY DEF PointRead, registry
<1>2. /\ call[c].at \in Issuing /\ call[c].at \notin Counting /\ "swing" \in Issuing /\ "swing" \notin Counting
  BY <1>1 DEF Counting, Issuing
<1>3. c \in Callers
  BY DEF Callers
<1>4. CASE Return(c) /\ UNCHANGED fresh
  <2>1. TypeOK' /\ latest' \in {None} \cup Statements /\ call' = [call EXCEPT ![c] = Idle]
    BY <1>1, <1>4 DEF IInv, TypeOK, Return
  <2> QED BY <1>1, <1>3, <2>1, IdleGood, Quiet
<1>5. CASE Goto(c, "swing") /\ fresh' = fresh \cup {c}
  <2>1. TypeOK'
    BY <1>1, <1>5 DEF IInv, TypeOK
  <2> QED BY <1>1, <1>2, <1>3, <1>5, <2>1, GotoKeeps
<1> QED BY <1>4, <1>5 DEF PointRead

LEMMA SwingKeeps == ASSUME IInv, NEW c \in Callers, Swing(c) PROVE IInv'
<1> DEFINE n == [call[c] EXCEPT !.at = "point", !.tries = @ + 1]
<1>1. UNCHANGED <<tag, ev, marks, statements, closes, sends>> /\ call[c].at = "swing"
  BY DEF Swing, registry
<1>2. /\ call[c] \in Closings /\ CloseGood(call[c], ev) /\ call[c].got \in Statements /\ call[c].at \in Issuing
  BY <1>1, AtClose DEF Issuing
<1>3. CASE latest' = call[c].got /\ fresh' = {} /\ Return(c) /\ UNCHANGED faults
  <2>1. TypeOK' /\ latest' \in {None} \cup Statements /\ call' = [call EXCEPT ![c] = Idle]
    BY <1>1, <1>2, <1>3 DEF IInv, TypeOK, Return
  <2> QED BY <1>1, <2>1, IdleGood, Quiet
<1>4. CASE /\ IF c \in fresh THEN Fault ELSE UNCHANGED faults
           /\ IF call[c].tries + 1 < MaxTries THEN call' = [call EXCEPT ![c] = n] ELSE Return(c)
           /\ UNCHANGED <<latest, fresh>>
  <2>1. faults' \in 0..MaxFaults
    BY <1>4, ConstantsAssumption DEF IInv, TypeOK, Fault
  <2>2. TypeOK' /\ latest' \in {None} \cup Statements
    BY <1>1, <1>4, <2>1 DEF IInv, TypeOK
  <2>3. CASE call' = [call EXCEPT ![c] = n]
    <3>1. n \in Closings /\ n.at = "point" /\ n.k = call[c].k /\ n.got = call[c].got /\ n.owed = call[c].owed
      BY <1>2, AgainCloseOK
    <3> HIDE DEF n
    <3>2. CloseGood(n, ev)
      BY <1>2, <3>1 DEF CloseGood, Counting, Issuing
    <3> QED BY <1>1, <1>4, <2>2, <2>3, <3>1, <3>2, CloseMoves
  <2>4. CASE Return(c)
    <3>1. call' = [call EXCEPT ![c] = Idle]
      BY <2>4 DEF Return
    <3> QED BY <1>1, <2>2, <3>1, IdleGood, Quiet
  <2> QED BY <1>4, <2>3, <2>4
<1> QED BY <1>3, <1>4 DEF Swing

-------------------------------------------------------------------------------
(* The invariant is inductive, and the registry is sound.                   *)

LEMMA AppendingKeeps == ASSUME IInv, NEW c \in Callers, Appending(c) PROVE IInv'
BY ProbeKeeps, CreateKeeps, BumpReadKeeps, BumpKeeps DEF Appending

LEMMA JudgingKeeps == ASSUME IInv, NEW c \in Closers, Judging(c) PROVE IInv'
<1>1. c \in Callers
  BY DEF Callers
<1> QED BY <1>1, CloseKeeps, IssueReadKeeps, CheckKeeps, VerifyKeeps, StatsKeeps, PersistKeeps,
           PointReadKeeps, SwingKeeps DEF Judging

LEMMA Keeps == IInv /\ [Next]_vars => IInv'
<1> SUFFICES ASSUME IInv, [Next]_vars PROVE IInv'
  OBVIOUS
<1>1. ASSUME NEW t \in Natives, Finish(t) PROVE IInv'
  BY <1>1, FinishKeeps
<1>2. ASSUME NEW c \in Captors, Capturing(c) PROVE IInv'
  <2>1. c \in Callers
    BY DEF Callers
  <2> QED BY <1>2, <2>1, AppendingKeeps, TagKeeps, CaptureKeeps DEF Capturing
<1>3. ASSUME NEW c \in Intakes, Appending(c) \/ \E r \in Receipts : Ingest(c, r) PROVE IInv'
  <2>1. c \in Callers
    BY DEF Callers
  <2> QED BY <1>3, <2>1, AppendingKeeps, IngestKeeps
<1>4. ASSUME NEW c \in Amenders, Appending(c) \/ \E m \in Amendments : Amend(c, m) PROVE IInv'
  <2>1. c \in Callers
    BY DEF Callers
  <2> QED BY <1>4, <2>1, AppendingKeeps, AmendKeeps
<1>5. ASSUME NEW c \in Closers, Judging(c) PROVE IInv'
  BY <1>5, JudgingKeeps
<1>6. ASSUME NEW c \in Callers, Dies(c) PROVE IInv'
  BY <1>6, DiesKeeps
<1>7. CASE UNCHANGED vars
  BY <1>7 DEF vars, registry, closing, IInv, TypeOK, MarksSound, CapturedCounted, Counted, Members,
              Durable, Certified
<1> QED BY <1>1, <1>2, <1>3, <1>4, <1>5, <1>6, <1>7 DEF Next

LEMMA Implied == IInv => RegistrySound
<1> SUFFICES ASSUME IInv PROVE RegistrySound
  OBVIOUS
<1>1. ASSUME NEW c \in Closers, call[c].at \in {"persist", "point", "swing"}, Certified(call[c].got)
      PROVE  call[c].owed = {}
  <2>1. c \in Callers /\ call[c].at \in Issuing
    BY <1>1 DEF Callers, Issuing
  <2>2. CloseGood(call[c], ev) /\ call[c].k = Len(Kinds) + 1
    BY <2>1, AtClose DEF CloseGood
  <2>3. \A e \in call[c].owed : \E j \in (Len(Kinds) + 1)..Len(Kinds) : e.kind = Kinds[j]
    BY <1>1, <2>2 DEF CloseGood
  <2>4. (Len(Kinds) + 1)..Len(Kinds) = {}
    BY KindsFacts
  <2> QED BY <2>3, <2>4
<1> QED BY <1>1 DEF IInv, RegistrySound, CountsSound, CertifiedWhole

(* In every reachable state the documents list each event once and only    *)
(* what is there, a task tagged captured has all its events counted, and   *)
(* a statement certified for the whole period leaves out no event that was *)
(* durable when its close began, whatever dies and in whatever order.      *)
THEOREM RegistryAlwaysSound == Spec => []RegistrySound
<1>1. Init => IInv
  BY Starts
<1>2. IInv /\ [Next]_vars => IInv'
  BY Keeps
<1>3. IInv => RegistrySound
  BY Implied
<1> QED BY <1>1, <1>2, <1>3, PTL DEF Spec

-------------------------------------------------------------------------------
(* The attempts of a task (LearningAttempt).                                *)

Fields == {"pc", "at", "evidence", "ref", "ok", "route", "experiment", "late", "good", "seen"}
Tags == {"pending", "running", "failed", "completed"}
Stored == [start : BOOLEAN, replay : BOOLEAN, prepared : BOOLEAN, outcome : Evidence \cup {"none"}]

(* Where a lane has an attempt without a result, and where its request may *)
(* be on its way.                                                          *)
Before == {"start", "replay", "prepare", "send", "await", "probe", "resend", "outcome"}
Sending == {"send", "await", "probe", "resend"}

(* What a lane knows of the attempt it is at: which rows it has written,   *)
(* that the gateway admitted it, that the outcome it points at is there,   *)
(* and that a shadow is the one of the plan, after its baseline.           *)
Knows(r, pc, at, evidence, ref, experiment, rs, adm, written, pl) ==
    /\ at \in Attempts \cup {NoAttempt} /\ evidence \in Evidence \cup {"none"}
    /\ pc \in Before \cup {"plan"} => at \in Attempts /\ ~ref
    /\ pc = "plan" => at[2] = "base"
    /\ pc \in {"replay", "prepare"} \cup Sending => rs[at].start
    /\ pc \in {"prepare"} \cup Sending => rs[at].replay
    /\ pc \in Sending => rs[at].prepared
    /\ evidence = "m5-admitted" => at \in adm
    /\ ref => at \in Attempts /\ rs[at].outcome = evidence /\ evidence # "none"
    /\ pc \in {"await", "probe", "outcome"} => evidence # "none"
    /\ pc = "result" => ref
    /\ at[2] = "shadow" => pl = at[1] /\ written
    /\ r = "shadow" /\ pc # "idle" => at[2] = "shadow"
    /\ experiment = "plan" => at \in Attempts /\ pl = at[1]
    /\ pc = "enqueue" => written

LaneGood(r, l, rs, adm, written, pl) ==
    /\ DOMAIN l = Fields
    /\ Knows(r, l.pc, l.at, l.evidence, l.ref, l.experiment, rs, adm, written, pl)

LanesGood ==
    /\ DOMAIN lane = Workers
    /\ \A w \in Workers : DOMAIN lane[w] = Roles
    /\ \A w \in Workers, r \in Roles : LaneGood(r, lane[w][r], rows, admitted, structured.written, plan)

(* What is stored, sent and admitted.                                      *)
StoreGood ==
    /\ rows \in [Attempts -> Stored]
    /\ newest \in Attempts \cup {NoAttempt} /\ plan \in 0 .. MaxRuns
    /\ structured.evidence \in Evidence \cup {"none"}
    /\ eresult \in {"none", "PASS", "HOLD", "INVALID"}
    /\ wire \subseteq Attempts /\ admitted \subseteq Attempts
    /\ \A a \in Attempts : rows[a].prepared => rows[a].start /\ rows[a].replay
    /\ newest[2] = "shadow" => plan = newest[1] /\ structured.written
    /\ structured.ref => structured.of \in Attempts /\ structured.evidence # "none"
    /\ \A a \in wire \cup admitted : a[2] = "shadow" => plan = a[1] /\ structured.written
    /\ AdmittedDurable /\ Grounded /\ RefSound /\ ValidExperiment

TaskTyped ==
    /\ status \in [tag : Tags, by : Workers \cup {Nobody}, run : 0 .. MaxRuns]
    /\ lapsed \in BOOLEAN /\ up \in [Workers -> BOOLEAN] /\ mishaps \in 0 .. MaxMishaps

AttemptInv == TaskTyped /\ StoreGood /\ LanesGood


-------------------------------------------------------------------------------
(* What is stored only grows, so that what a lane knows stays so.           *)

RowsGrow(rs, ss) ==
    \A a \in Attempts :
        /\ rs[a].start => ss[a].start
        /\ rs[a].replay => ss[a].replay
        /\ rs[a].prepared => ss[a].prepared
        /\ rs[a].outcome # "none" => ss[a].outcome = rs[a].outcome
Advanced ==
    /\ RowsGrow(rows, rows') /\ admitted \subseteq admitted'
    /\ structured.written => structured'.written
    /\ plan # 0 => plan' = plan

LEMMA AttemptIs == \A a \in Attempts : a[1] \in Runs /\ a[2] \in Roles /\ a = <<a[1], a[2]>> /\ a # NoAttempt /\ a[1] # 0
BY RunsAssumption DEF Attempts, Runs, NoAttempt

LEMMA RoleIs == "base" \in Roles /\ "shadow" \in Roles
BY DEF Roles

LEMMA KnowsStays ==
    ASSUME Advanced, NEW r, NEW pc, NEW at, NEW e, NEW ref, NEW x,
           Knows(r, pc, at, e, ref, x, rows, admitted, structured.written, plan)
    PROVE  Knows(r, pc, at, e, ref, x, rows', admitted', structured'.written, plan')
<1>1. at # NoAttempt => at \in Attempts /\ at[1] # 0
  BY AttemptIs DEF Knows
<1>2. NoAttempt[2] # "shadow"
  BY DEF NoAttempt
<1>3. at[2] = "shadow" => plan' = at[1] /\ structured'.written
  BY <1>1, <1>2 DEF Knows, Advanced
<1>4. x = "plan" => at \in Attempts /\ plan' = at[1]
  BY AttemptIs DEF Knows, Advanced
<1>5. ref => at \in Attempts /\ rows'[at].outcome = e /\ e # "none"
  BY DEF Knows, Advanced, RowsGrow
<1>6. /\ pc \in {"replay", "prepare"} \cup Sending => rows'[at].start
      /\ pc \in {"prepare"} \cup Sending => rows'[at].replay
      /\ pc \in Sending => rows'[at].prepared
  BY DEF Knows, Advanced, RowsGrow, Before, Sending
<1> QED BY <1>3, <1>4, <1>5, <1>6 DEF Knows, Advanced

LEMMA LanesStay == LanesGood /\ Advanced /\ UNCHANGED lane => LanesGood'
BY KnowsStays DEF LanesGood, LaneGood

LEMMA LaneMoves ==
    ASSUME LanesGood, Advanced, NEW w \in Workers, NEW r \in Roles, NEW m, Move(w, r, m),
           LaneGood(r, m, rows', admitted', structured'.written, plan')
    PROVE  LanesGood'
<1>1. DOMAIN lane' = Workers /\ \A v \in Workers : DOMAIN lane'[v] = Roles
  BY DEF LanesGood, Move
<1>2. lane'[w][r] = m
  BY DEF LanesGood, Move
<1>3. ASSUME NEW v \in Workers, NEW s \in Roles, <<v, s>> # <<w, r>>
      PROVE  lane'[v][s] = lane[v][s]
  BY <1>3 DEF LanesGood, Move
<1>4. ASSUME NEW v \in Workers, NEW s \in Roles, <<v, s>> # <<w, r>>
      PROVE  LaneGood(s, lane'[v][s], rows', admitted', structured'.written, plan')
  BY <1>3, <1>4, KnowsStays DEF LanesGood, LaneGood
<1> QED BY <1>1, <1>2, <1>4 DEF LanesGood

(* What a row is after a write.                                             *)
LEMMA StartWritten ==
    ASSUME rows \in [Attempts -> Stored], NEW a \in Attempts, Write(a, "start", TRUE)
    PROVE  /\ rows' \in [Attempts -> Stored] /\ RowsGrow(rows, rows') /\ rows'[a].start
           /\ \A b \in Attempts : rows'[b].replay = rows[b].replay /\ rows'[b].prepared = rows[b].prepared
                                  /\ rows'[b].outcome = rows[b].outcome
<1>1. rows' = [rows EXCEPT ![a] = [rows[a] EXCEPT !.start = TRUE]]
  BY DEF Write
<1>2. [rows[a] EXCEPT !.start = TRUE] \in Stored
  BY DEF Stored
<1> QED BY <1>1, <1>2 DEF Stored, RowsGrow

LEMMA ReplayWritten ==
    ASSUME rows \in [Attempts -> Stored], NEW a \in Attempts, Write(a, "replay", TRUE)
    PROVE  /\ rows' \in [Attempts -> Stored] /\ RowsGrow(rows, rows') /\ rows'[a].replay
           /\ \A b \in Attempts : rows'[b].start = rows[b].start /\ rows'[b].prepared = rows[b].prepared
                                  /\ rows'[b].outcome = rows[b].outcome
<1>1. rows' = [rows EXCEPT ![a] = [rows[a] EXCEPT !.replay = TRUE]]
  BY DEF Write
<1>2. [rows[a] EXCEPT !.replay = TRUE] \in Stored
  BY DEF Stored
<1> QED BY <1>1, <1>2 DEF Stored, RowsGrow

LEMMA PreparedWritten ==
    ASSUME rows \in [Attempts -> Stored], NEW a \in Attempts, Write(a, "prepared", TRUE)
    PROVE  /\ rows' \in [Attempts -> Stored] /\ RowsGrow(rows, rows') /\ rows'[a].prepared
           /\ \A b \in Attempts : rows'[b].start = rows[b].start /\ rows'[b].replay = rows[b].replay
                                  /\ rows'[b].outcome = rows[b].outcome
                                  /\ (b # a => rows'[b].prepared = rows[b].prepared)
<1>1. rows' = [rows EXCEPT ![a] = [rows[a] EXCEPT !.prepared = TRUE]]
  BY DEF Write
<1>2. [rows[a] EXCEPT !.prepared = TRUE] \in Stored
  BY DEF Stored
<1> QED BY <1>1, <1>2 DEF Stored, RowsGrow

LEMMA OutcomeWritten ==
    ASSUME rows \in [Attempts -> Stored], NEW a \in Attempts, NEW e \in Evidence, Write(a, "outcome", e),
           rows[a].outcome \in {"none", e}
    PROVE  /\ rows' \in [Attempts -> Stored] /\ RowsGrow(rows, rows') /\ rows'[a].outcome = e
           /\ \A b \in Attempts : rows'[b].start = rows[b].start /\ rows'[b].replay = rows[b].replay
                                  /\ rows'[b].prepared = rows[b].prepared
                                  /\ (b # a => rows'[b].outcome = rows[b].outcome)
<1>1. rows' = [rows EXCEPT ![a] = [rows[a] EXCEPT !.outcome = e]]
  BY DEF Write
<1>2. [rows[a] EXCEPT !.outcome = e] \in Stored
  BY DEF Stored
<1> QED BY <1>1, <1>2 DEF Stored, RowsGrow

-------------------------------------------------------------------------------
(* What steps have in common.                                               *)

stored == <<rows, newest, structured, plan, eresult, wire, admitted>>

LEMMA TaskStays ==
    TaskTyped /\ UNCHANGED <<status, lapsed, up>> /\ (UNCHANGED mishaps \/ Mishap) => TaskTyped'
BY RunsAssumption DEF TaskTyped, Mishap

LEMMA StoreStays == StoreGood /\ UNCHANGED stored => StoreGood' /\ Advanced
BY DEF StoreGood, stored, Advanced, RowsGrow, AdmittedDurable, Grounded, RefSound, ValidExperiment

LEMMA RowsKeepStore ==
    ASSUME StoreGood, rows' \in [Attempts -> Stored], RowsGrow(rows, rows'),
           \A a \in Attempts : rows'[a].prepared => rows'[a].start /\ rows'[a].replay,
           \A a \in Attempts : rows'[a].outcome = "m5-admitted" => a \in admitted,
           newest' \in Attempts \cup {NoAttempt},
           newest'[2] = "shadow" => plan = newest'[1] /\ structured.written,
           UNCHANGED <<structured, plan, eresult, wire, admitted>>
    PROVE  StoreGood' /\ Advanced
<1>1. Advanced
  BY DEF Advanced
<1>2. AdmittedDurable' /\ Grounded'
  BY DEF StoreGood, AdmittedDurable, Grounded, RowsGrow
<1>3. RefSound'
  BY DEF StoreGood, RefSound, RowsGrow
<1>4. plan # 0 => <<plan, "shadow">> \in Attempts
  BY RoleIs DEF StoreGood, Attempts, Runs
<1>5. ValidExperiment'
  BY <1>4 DEF StoreGood, ValidExperiment, RowsGrow
<1> QED BY <1>1, <1>2, <1>3, <1>5 DEF StoreGood

LEMMA PcSet ==
    ASSUME NEW l, DOMAIN l = Fields, NEW pc
    PROVE  /\ DOMAIN [l EXCEPT !.pc = pc] = Fields
           /\ [l EXCEPT !.pc = pc].pc = pc /\ [l EXCEPT !.pc = pc].at = l.at
           /\ [l EXCEPT !.pc = pc].evidence = l.evidence /\ [l EXCEPT !.pc = pc].ref = l.ref
           /\ [l EXCEPT !.pc = pc].experiment = l.experiment
BY DEF Fields

LEMMA EvidenceSet ==
    ASSUME NEW l, DOMAIN l = Fields, NEW e
    PROVE  LET m == [l EXCEPT !.pc = "outcome", !.evidence = e] IN
           /\ DOMAIN m = Fields /\ m.pc = "outcome" /\ m.at = l.at /\ m.evidence = e /\ m.ref = l.ref
           /\ m.experiment = l.experiment
BY DEF Fields

LEMMA LaneHas ==
    ASSUME LanesGood, NEW w \in Workers, NEW r \in Roles
    PROVE  LaneGood(r, lane[w][r], rows, admitted, structured.written, plan)
BY DEF LanesGood

(* A lane that concludes its attempt.                                       *)
LEMMA EvidenceConcluded ==
    ASSUME LanesGood, Advanced, NEW w \in Workers, NEW r \in Roles, NEW e \in Evidence,
           lane[w][r].pc \in Before, e = "m5-admitted" => lane[w][r].at \in admitted',
           Conclude(w, r, e)
    PROVE  LanesGood'
<1> DEFINE l == lane[w][r]
           m == [l EXCEPT !.pc = "outcome", !.evidence = e]
<1>1. LaneGood(r, l, rows, admitted, structured.written, plan)
  BY LaneHas
<1>2. Knows(r, l.pc, l.at, l.evidence, l.ref, l.experiment, rows', admitted', structured'.written, plan')
  BY <1>1, KnowsStays DEF LaneGood
<1>3. /\ DOMAIN m = Fields /\ m.pc = "outcome" /\ m.at = l.at /\ m.evidence = e /\ m.ref = l.ref
      /\ m.experiment = l.experiment
  BY <1>1, EvidenceSet DEF LaneGood
<1>4. l.at \in Attempts /\ ~l.ref /\ l.pc # "idle"
  BY <1>1 DEF LaneGood, Knows, Before
<1>5. e # "none"
  BY DEF Evidence
<1>6. Knows(r, "outcome", l.at, e, l.ref, l.experiment, rows', admitted', structured'.written, plan')
  BY <1>2, <1>4, <1>5 DEF Knows, Before, Sending
<1>7. LaneGood(r, m, rows', admitted', structured'.written, plan')
  BY <1>3, <1>6 DEF LaneGood
<1>8. Move(w, r, m)
  BY DEF Conclude
<1> HIDE DEF m
<1> QED BY <1>7, <1>8, LaneMoves

(* A lane that goes on from where it is to pc.                              *)
LEMMA GoesOn ==
    ASSUME LanesGood, Advanced, NEW w \in Workers, NEW r \in Roles, NEW pc, Proceed(w, r, pc),
           LET l == lane[w][r] IN
           Knows(r, l.pc, l.at, l.evidence, l.ref, l.experiment, rows', admitted', structured'.written, plan')
           => Knows(r, pc, l.at, l.evidence, l.ref, l.experiment, rows', admitted', structured'.written, plan')
    PROVE  LanesGood'
<1> DEFINE l == lane[w][r]
           m == [l EXCEPT !.pc = pc]
<1>1. LaneGood(r, l, rows, admitted, structured.written, plan)
  BY LaneHas
<1>2. Knows(r, l.pc, l.at, l.evidence, l.ref, l.experiment, rows', admitted', structured'.written, plan')
  BY <1>1, KnowsStays DEF LaneGood
<1>3. /\ DOMAIN m = Fields /\ m.pc = pc /\ m.at = l.at /\ m.evidence = l.evidence /\ m.ref = l.ref
      /\ m.experiment = l.experiment
  BY <1>1, PcSet DEF LaneGood
<1>7. LaneGood(r, m, rows', admitted', structured'.written, plan')
  BY <1>2, <1>3 DEF LaneGood
<1>8. Move(w, r, m)
  BY DEF Proceed
<1> HIDE DEF m
<1> QED BY <1>7, <1>8, LaneMoves

(* A lane that has nothing to do.                                           *)
LEMMA IdleKnows ==
    ASSUME NEW r, NEW rs, NEW adm, NEW written, NEW pl
    PROVE  LaneGood(r, IdleLane, rs, adm, written, pl)
BY DEF IdleLane, LaneGood, Knows, Fields, NoAttempt, Before, Sending

LEMMA Rests == ASSUME LanesGood, Advanced, NEW w \in Workers, NEW r \in Roles, Move(w, r, IdleLane) PROVE LanesGood'
BY IdleKnows, LaneMoves

-------------------------------------------------------------------------------
(* The steps of an attempt.                                                 *)

LEMMA StartKeeps == ASSUME AttemptInv, NEW w \in Workers, NEW r \in Roles, PersistStart(w, r) PROVE AttemptInv'
<1> DEFINE l == lane[w][r]
           a == l.at
<1>1. l.pc = "start" /\ LaneGood(r, l, rows, admitted, structured.written, plan)
  BY LaneHas DEF AttemptInv, PersistStart, At
<1>2. a \in Attempts /\ (a[2] = "shadow" => plan = a[1] /\ structured.written)
  BY <1>1 DEF LaneGood, Knows, Before
<1>3. TaskTyped'
  <2>1. UNCHANGED <<status, lapsed, up>> /\ (UNCHANGED mishaps \/ Mishap)
    BY DEF PersistStart
  <2> QED BY <2>1, TaskStays DEF AttemptInv
<1>4. (Write(a, "start", TRUE) /\ newest' = a) \/ UNCHANGED <<rows, newest>>
  BY DEF PersistStart
<1>5. UNCHANGED <<structured, plan, eresult, wire, admitted>>
  BY DEF PersistStart
<1>6. StoreGood' /\ Advanced /\ (Write(a, "start", TRUE) => rows'[a].start)
  <2>1. CASE Write(a, "start", TRUE) /\ newest' = a
    <3>1. /\ rows' \in [Attempts -> Stored] /\ RowsGrow(rows, rows') /\ rows'[a].start
          /\ \A b \in Attempts : rows'[b].replay = rows[b].replay /\ rows'[b].prepared = rows[b].prepared
                                 /\ rows'[b].outcome = rows[b].outcome
      BY <2>1, <1>2, StartWritten DEF AttemptInv, StoreGood
    <3>2. \A b \in Attempts : rows'[b].prepared => rows'[b].start /\ rows'[b].replay
      BY <3>1 DEF AttemptInv, StoreGood, RowsGrow
    <3>3. \A b \in Attempts : rows'[b].outcome = "m5-admitted" => b \in admitted
      BY <3>1 DEF AttemptInv, StoreGood, Grounded
    <3>4. newest' \in Attempts \cup {NoAttempt} /\ (newest'[2] = "shadow" => plan = newest'[1] /\ structured.written)
      BY <2>1, <1>2
    <3>5. StoreGood' /\ Advanced
      BY <3>1, <3>2, <3>3, <3>4, <1>5, RowsKeepStore DEF AttemptInv
    <3> QED BY <3>1, <3>5
  <2>2. CASE UNCHANGED <<rows, newest>> /\ ~Write(a, "start", TRUE)
    BY <2>2, <1>5, StoreStays DEF AttemptInv, stored
  <2>3. CASE UNCHANGED <<rows, newest>> /\ Write(a, "start", TRUE)
    <3>1. StoreGood' /\ Advanced
      BY <2>3, <1>5, StoreStays DEF AttemptInv, stored
    <3>2. rows'[a].start
      BY <2>3, <1>2, StartWritten DEF AttemptInv, StoreGood
    <3> QED BY <3>1, <3>2
  <2> QED BY <1>4, <2>1, <2>2, <2>3
<1>7. LanesGood'
  <2>1. CASE Write(a, "start", TRUE) /\ Proceed(w, r, "replay")
    <3>1. rows'[a].start
      BY <2>1, <1>6
    <3>2. Knows(r, l.pc, l.at, l.evidence, l.ref, l.experiment, rows', admitted', structured'.written, plan')
          => Knows(r, "replay", l.at, l.evidence, l.ref, l.experiment, rows', admitted', structured'.written, plan')
      BY <1>1, <3>1 DEF Knows, Before, Sending
    <3> QED BY <2>1, <3>2, <1>6, GoesOn DEF AttemptInv
  <2>2. CASE Conclude(w, r, "preflight-failed")
    <3>1. l.pc \in Before /\ "preflight-failed" \in Evidence
      BY <1>1 DEF Before, Evidence
    <3> QED BY <2>2, <3>1, <1>6, EvidenceConcluded DEF AttemptInv
  <2> QED BY <2>1, <2>2 DEF PersistStart
<1> QED BY <1>3, <1>6, <1>7 DEF AttemptInv

LEMMA ReplayKeeps == ASSUME AttemptInv, NEW w \in Workers, NEW r \in Roles, PersistReplay(w, r) PROVE AttemptInv'
<1> DEFINE l == lane[w][r]
           a == l.at
<1>1. l.pc = "replay" /\ LaneGood(r, l, rows, admitted, structured.written, plan)
  BY LaneHas DEF AttemptInv, PersistReplay, At
<1>2. a \in Attempts
  BY <1>1 DEF LaneGood, Knows, Before
<1>3. TaskTyped'
  <2>1. UNCHANGED <<status, lapsed, up>> /\ (UNCHANGED mishaps \/ Mishap)
    BY DEF PersistReplay
  <2> QED BY <2>1, TaskStays DEF AttemptInv
<1>4. Write(a, "replay", TRUE) \/ UNCHANGED rows
  BY DEF PersistReplay
<1>5. UNCHANGED <<newest, structured, plan, eresult, wire, admitted>>
  BY DEF PersistReplay
<1>6. Write(a, "replay", TRUE) => StoreGood' /\ Advanced /\ rows'[a].replay
  <2> SUFFICES ASSUME Write(a, "replay", TRUE) PROVE StoreGood' /\ Advanced /\ rows'[a].replay
    OBVIOUS
  <2>1. /\ rows' \in [Attempts -> Stored] /\ RowsGrow(rows, rows') /\ rows'[a].replay
        /\ \A b \in Attempts : rows'[b].start = rows[b].start /\ rows'[b].prepared = rows[b].prepared
                               /\ rows'[b].outcome = rows[b].outcome
    BY <1>2, ReplayWritten DEF AttemptInv, StoreGood
  <2>2. \A b \in Attempts : rows'[b].prepared => rows'[b].start /\ rows'[b].replay
    BY <2>1 DEF AttemptInv, StoreGood, RowsGrow
  <2>3. \A b \in Attempts : rows'[b].outcome = "m5-admitted" => b \in admitted
    BY <2>1 DEF AttemptInv, StoreGood, Grounded
  <2>4. StoreGood' /\ Advanced
    BY <2>1, <2>2, <2>3, <1>5, RowsKeepStore DEF AttemptInv, StoreGood
  <2> QED BY <2>1, <2>4
<1>7. StoreGood' /\ Advanced
  BY <1>4, <1>5, <1>6, StoreStays DEF AttemptInv, stored
<1>8. LanesGood'
  <2>1. CASE Write(a, "replay", TRUE) /\ Proceed(w, r, "prepare")
    <3>1. Knows(r, l.pc, l.at, l.evidence, l.ref, l.experiment, rows', admitted', structured'.written, plan')
          => Knows(r, "prepare", l.at, l.evidence, l.ref, l.experiment, rows', admitted', structured'.written, plan')
      BY <1>1, <1>6, <2>1 DEF Knows, Before, Sending
    <3> QED BY <2>1, <3>1, <1>7, GoesOn DEF AttemptInv
  <2>2. CASE Conclude(w, r, "prepared-dispatch-persistence-failed")
    <3>1. l.pc \in Before /\ "prepared-dispatch-persistence-failed" \in Evidence
      BY <1>1 DEF Before, Evidence
    <3> QED BY <2>2, <3>1, <1>7, EvidenceConcluded DEF AttemptInv
  <2> QED BY <2>1, <2>2 DEF PersistReplay
<1> QED BY <1>3, <1>7, <1>8 DEF AttemptInv

LEMMA PreparedKeeps == ASSUME AttemptInv, NEW w \in Workers, NEW r \in Roles, PersistPrepared(w, r) PROVE AttemptInv'
<1> DEFINE l == lane[w][r]
           a == l.at
<1>1. l.pc = "prepare" /\ LaneGood(r, l, rows, admitted, structured.written, plan)
  BY LaneHas DEF AttemptInv, PersistPrepared, At
<1>2. a \in Attempts /\ rows[a].start /\ rows[a].replay
  BY <1>1 DEF LaneGood, Knows, Before
<1>3. TaskTyped'
  <2>1. UNCHANGED <<status, lapsed, up>> /\ (UNCHANGED mishaps \/ Mishap)
    BY DEF PersistPrepared
  <2> QED BY <2>1, TaskStays DEF AttemptInv
<1>4. Write(a, "prepared", TRUE) \/ UNCHANGED rows
  BY DEF PersistPrepared
<1>5. UNCHANGED <<newest, structured, plan, eresult, wire, admitted>>
  BY DEF PersistPrepared
<1>6. Write(a, "prepared", TRUE) => StoreGood' /\ Advanced /\ rows'[a].prepared
  <2> SUFFICES ASSUME Write(a, "prepared", TRUE) PROVE StoreGood' /\ Advanced /\ rows'[a].prepared
    OBVIOUS
  <2>1. /\ rows' \in [Attempts -> Stored] /\ RowsGrow(rows, rows') /\ rows'[a].prepared
        /\ \A b \in Attempts : rows'[b].start = rows[b].start /\ rows'[b].replay = rows[b].replay
                               /\ rows'[b].outcome = rows[b].outcome
                               /\ (b # a => rows'[b].prepared = rows[b].prepared)
    BY <1>2, PreparedWritten DEF AttemptInv, StoreGood
  <2>2. \A b \in Attempts : rows'[b].prepared => rows'[b].start /\ rows'[b].replay
    BY <2>1, <1>2 DEF AttemptInv, StoreGood, RowsGrow
  <2>3. \A b \in Attempts : rows'[b].outcome = "m5-admitted" => b \in admitted
    BY <2>1 DEF AttemptInv, StoreGood, Grounded
  <2>4. StoreGood' /\ Advanced
    BY <2>1, <2>2, <2>3, <1>5, RowsKeepStore DEF AttemptInv, StoreGood
  <2> QED BY <2>1, <2>4
<1>7. StoreGood' /\ Advanced
  BY <1>4, <1>5, <1>6, StoreStays DEF AttemptInv, stored
<1>8. LanesGood'
  <2>1. CASE Write(a, "prepared", TRUE) /\ Proceed(w, r, "send")
    <3>1. rows'[a].start /\ rows'[a].replay /\ rows'[a].prepared
      BY <1>2, <1>6, <2>1 DEF Advanced, RowsGrow
    <3>2. Knows(r, l.pc, l.at, l.evidence, l.ref, l.experiment, rows', admitted', structured'.written, plan')
          => Knows(r, "send", l.at, l.evidence, l.ref, l.experiment, rows', admitted', structured'.written, plan')
      BY <1>1, <3>1 DEF Knows, Before, Sending
    <3> QED BY <2>1, <3>2, <1>7, GoesOn DEF AttemptInv
  <2>2. CASE Conclude(w, r, "prepared-dispatch-persistence-failed")
    <3>1. l.pc \in Before /\ "prepared-dispatch-persistence-failed" \in Evidence
      BY <1>1 DEF Before, Evidence
    <3> QED BY <2>2, <3>1, <1>7, EvidenceConcluded DEF AttemptInv
  <2> QED BY <2>1, <2>2 DEF PersistPrepared
<1> QED BY <1>3, <1>7, <1>8 DEF AttemptInv

(* What is sent is prepared, and if it is a shadow it is the plan's.        *)
LEMMA WireKeeps ==
    ASSUME StoreGood, wire' \subseteq Attempts, admitted' \subseteq wire \cup admitted, admitted \subseteq admitted',
           \A a \in wire' \ wire :
               /\ rows[a].start /\ rows[a].replay /\ rows[a].prepared
               /\ a[2] = "shadow" => plan = a[1] /\ structured.written,
           UNCHANGED <<rows, newest, structured, plan, eresult>>
    PROVE  StoreGood' /\ Advanced
<1>1. Advanced
  BY DEF Advanced, RowsGrow
<1>2. AdmittedDurable'
  BY DEF StoreGood, AdmittedDurable
<1>3. Grounded' /\ RefSound' /\ ValidExperiment'
  BY DEF StoreGood, Grounded, RefSound, ValidExperiment
<1>4. \A a \in wire' \cup admitted' : a[2] = "shadow" => plan = a[1] /\ structured.written
  BY DEF StoreGood
<1>5. admitted' \subseteq Attempts
  BY DEF StoreGood
<1> QED BY <1>1, <1>2, <1>3, <1>4, <1>5 DEF StoreGood

LEMMA ShadowLateKeeps == ASSUME AttemptInv, NEW w \in Workers, ShadowLate(w) PROVE AttemptInv'
<1> DEFINE l == lane[w]["shadow"]
           m == [l EXCEPT !.pc = "outcome", !.evidence = "preflight-failed", !.late = TRUE]
<1>1. l.pc \in {"start", "replay", "prepare", "send"} /\ LaneGood("shadow", l, rows, admitted, structured.written, plan)
  BY LaneHas, RoleIs DEF AttemptInv, ShadowLate, At
<1>2. TaskTyped'
  <2>1. UNCHANGED <<status, lapsed, up>> /\ Mishap
    BY DEF ShadowLate, durable
  <2> QED BY <2>1, TaskStays DEF AttemptInv
<1>3. UNCHANGED stored
  BY DEF ShadowLate, durable, stored
<1>4. StoreGood' /\ Advanced
  BY <1>3, StoreStays DEF AttemptInv
<1>5. /\ DOMAIN m = Fields /\ m.pc = "outcome" /\ m.at = l.at /\ m.evidence = "preflight-failed" /\ m.ref = l.ref
      /\ m.experiment = l.experiment
  BY <1>1 DEF LaneGood, Fields
<1>6. Knows("shadow", "outcome", l.at, "preflight-failed", l.ref, l.experiment, rows, admitted, structured.written, plan)
  BY <1>1 DEF LaneGood, Knows, Before, Sending, Evidence
<1>7. LaneGood("shadow", m, rows', admitted', structured'.written, plan')
  BY <1>3, <1>5, <1>6 DEF LaneGood, stored
<1>8. Move(w, "shadow", m)
  BY DEF ShadowLate
<1> HIDE DEF m
<1>9. LanesGood'
  BY <1>4, <1>7, <1>8, LaneMoves, RoleIs DEF AttemptInv
<1> QED BY <1>2, <1>4, <1>9 DEF AttemptInv

LEMMA SendKeeps == ASSUME AttemptInv, NEW w \in Workers, NEW r \in Roles, Send(w, r) PROVE AttemptInv'
<1> DEFINE l == lane[w][r]
           m == [l EXCEPT !.pc = "await", !.evidence = "transport-not-admitted"]
<1>1. l.pc = "send" /\ LaneGood(r, l, rows, admitted, structured.written, plan)
  BY LaneHas DEF AttemptInv, Send, At
<1>2. /\ l.at \in Attempts /\ rows[l.at].start /\ rows[l.at].replay /\ rows[l.at].prepared
      /\ l.at[2] = "shadow" => plan = l.at[1] /\ structured.written
  BY <1>1 DEF LaneGood, Knows, Before, Sending
<1>3. TaskTyped'
  <2>1. UNCHANGED <<status, lapsed, up>> /\ UNCHANGED mishaps
    BY DEF Send, durable
  <2> QED BY <2>1, TaskStays DEF AttemptInv
<1>4. wire' = wire \cup {l.at} /\ UNCHANGED <<rows, newest, structured, plan, eresult, admitted>>
  BY DEF Send, durable
<1>5. StoreGood' /\ Advanced
  <2>1. wire' \subseteq Attempts
    BY <1>2, <1>4 DEF AttemptInv, StoreGood
  <2> QED BY <1>2, <1>4, <2>1, WireKeeps DEF AttemptInv
<1>6. /\ DOMAIN m = Fields /\ m.pc = "await" /\ m.at = l.at /\ m.evidence = "transport-not-admitted" /\ m.ref = l.ref
      /\ m.experiment = l.experiment
  BY <1>1 DEF LaneGood, Fields
<1>7. Knows(r, "await", l.at, "transport-not-admitted", l.ref, l.experiment, rows, admitted, structured.written, plan)
  BY <1>1 DEF LaneGood, Knows, Before, Sending, Evidence
<1>8. LaneGood(r, m, rows', admitted', structured'.written, plan')
  BY <1>4, <1>6, <1>7 DEF LaneGood
<1>9. Move(w, r, m)
  BY DEF Send
<1> HIDE DEF m
<1>10. LanesGood'
  BY <1>5, <1>8, <1>9, LaneMoves DEF AttemptInv
<1> QED BY <1>3, <1>5, <1>10 DEF AttemptInv

LEMMA AdmitKeeps == ASSUME AttemptInv, NEW a \in Attempts, Admit(a) PROVE AttemptInv'
<1>1. UNCHANGED <<status, lapsed, up, mishaps>> /\ UNCHANGED lane
  BY DEF Admit, durable
<1>2. UNCHANGED <<rows, newest, structured, plan, eresult, wire>> /\ admitted' = admitted \cup {a} /\ a \in wire
  BY DEF Admit, durable
<1>3. TaskTyped'
  BY <1>1, TaskStays DEF AttemptInv
<1>4. StoreGood' /\ Advanced
  <2>1. wire' \subseteq Attempts
    BY <1>2 DEF AttemptInv, StoreGood
  <2> QED BY <1>2, <2>1, WireKeeps DEF AttemptInv
<1>5. LanesGood'
  BY <1>1, <1>4, LanesStay DEF AttemptInv
<1> QED BY <1>3, <1>4, <1>5 DEF AttemptInv

LEMMA EchoKeeps == ASSUME AttemptInv, NEW w \in Workers, NEW r \in Roles, Echo(w, r) PROVE AttemptInv'
<1> DEFINE l == lane[w][r]
           m(ok, route) == [l EXCEPT !.pc = "outcome", !.evidence = "m5-admitted", !.ok = ok, !.route = route]
<1>1. l.pc = "await" /\ l.at \in admitted /\ LaneGood(r, l, rows, admitted, structured.written, plan)
  BY LaneHas DEF AttemptInv, Echo, At
<1>2. UNCHANGED <<status, lapsed, up, mishaps>> /\ UNCHANGED stored
  BY DEF Echo, durable, stored
<1>3. TaskTyped'
  BY <1>2, TaskStays DEF AttemptInv
<1>4. StoreGood' /\ Advanced
  BY <1>2, StoreStays DEF AttemptInv
<1>5. Knows(r, "outcome", l.at, "m5-admitted", l.ref, l.experiment, rows, admitted, structured.written, plan)
  BY <1>1 DEF LaneGood, Knows, Before, Sending, Evidence
<1>6. PICK ok, route \in BOOLEAN : Move(w, r, m(ok, route))
  BY DEF Echo
<1>7. /\ DOMAIN m(ok, route) = Fields /\ m(ok, route).pc = "outcome" /\ m(ok, route).at = l.at
      /\ m(ok, route).evidence = "m5-admitted" /\ m(ok, route).ref = l.ref /\ m(ok, route).experiment = l.experiment
  BY <1>1 DEF LaneGood, Fields
<1>8. LaneGood(r, m(ok, route), rows', admitted', structured'.written, plan')
  BY <1>2, <1>5, <1>7 DEF LaneGood, stored
<1> HIDE DEF m
<1>9. LanesGood'
  BY <1>4, <1>6, <1>8, LaneMoves DEF AttemptInv
<1> QED BY <1>3, <1>4, <1>9 DEF AttemptInv

LEMMA RefuseKeeps == ASSUME AttemptInv, NEW w \in Workers, NEW r \in Roles, Refuse(w, r) PROVE AttemptInv'
<1> DEFINE l == lane[w][r]
<1>1. l.pc = "await" /\ LaneGood(r, l, rows, admitted, structured.written, plan)
  BY LaneHas DEF AttemptInv, Refuse, At
<1>2. UNCHANGED <<status, lapsed, up, mishaps>> /\ UNCHANGED <<rows, newest, structured, plan, eresult, admitted>>
  BY DEF Refuse, durable
<1>3. wire' \subseteq wire
  BY DEF Refuse
<1>4. TaskTyped'
  BY <1>2, TaskStays DEF AttemptInv
<1>5. StoreGood' /\ Advanced
  <2>1. wire' \subseteq Attempts /\ \A a \in wire' \ wire : FALSE
    BY <1>3 DEF AttemptInv, StoreGood
  <2> QED BY <1>2, <2>1, WireKeeps DEF AttemptInv
<1>6. LanesGood'
  <2>1. Knows(r, l.pc, l.at, l.evidence, l.ref, l.experiment, rows', admitted', structured'.written, plan')
        => Knows(r, "outcome", l.at, l.evidence, l.ref, l.experiment, rows', admitted', structured'.written, plan')
    BY <1>1 DEF Knows, Before, Sending
  <2>2. Proceed(w, r, "outcome")
    BY DEF Refuse
  <2> QED BY <1>5, <2>1, <2>2, GoesOn DEF AttemptInv
<1> QED BY <1>4, <1>5, <1>6 DEF AttemptInv

LEMMA NoEchoKeeps == ASSUME AttemptInv, NEW w \in Workers, NEW r \in Roles, NoEcho(w, r) PROVE AttemptInv'
<1> DEFINE l == lane[w][r]
           m == [l EXCEPT !.pc = "outcome", !.late = (r = "shadow")]
<1>1. l.pc = "await" /\ LaneGood(r, l, rows, admitted, structured.written, plan)
  BY LaneHas DEF AttemptInv, NoEcho, At
<1>2. UNCHANGED <<status, lapsed, up>> /\ Mishap /\ UNCHANGED stored
  BY DEF NoEcho, durable, stored
<1>3. TaskTyped'
  BY <1>2, TaskStays DEF AttemptInv
<1>4. StoreGood' /\ Advanced
  BY <1>2, StoreStays DEF AttemptInv
<1>5. CASE Conclude(w, r, "gateway-echo-invalid")
  <2>1. l.pc \in Before /\ "gateway-echo-invalid" \in Evidence
    BY <1>1 DEF Before, Evidence
  <2>2. LanesGood'
    BY <1>4, <1>5, <2>1, EvidenceConcluded DEF AttemptInv
  <2> QED BY <1>3, <1>4, <2>2 DEF AttemptInv
<1>6. CASE Proceed(w, r, IF r = "base" THEN "probe" ELSE "outcome")
  <2>1. \A pc \in {"probe", "outcome"} :
        Knows(r, l.pc, l.at, l.evidence, l.ref, l.experiment, rows', admitted', structured'.written, plan')
        => Knows(r, pc, l.at, l.evidence, l.ref, l.experiment, rows', admitted', structured'.written, plan')
    BY <1>1 DEF Knows, Before, Sending
  <2>2. PICK pc \in {"probe", "outcome"} : Proceed(w, r, pc)
    BY <1>6
  <2>3. Knows(r, l.pc, l.at, l.evidence, l.ref, l.experiment, rows', admitted', structured'.written, plan')
        => Knows(r, pc, l.at, l.evidence, l.ref, l.experiment, rows', admitted', structured'.written, plan')
    BY <2>1
  <2>4. LanesGood'
    BY <1>4, <2>2, <2>3, GoesOn DEF AttemptInv
  <2> QED BY <1>3, <1>4, <2>4 DEF AttemptInv
<1>7. CASE Move(w, r, m)
  <2>1. /\ DOMAIN m = Fields /\ m.pc = "outcome" /\ m.at = l.at /\ m.evidence = l.evidence /\ m.ref = l.ref
        /\ m.experiment = l.experiment
    BY <1>1 DEF LaneGood, Fields
  <2>2. Knows(r, "outcome", l.at, l.evidence, l.ref, l.experiment, rows, admitted, structured.written, plan)
    BY <1>1 DEF LaneGood, Knows, Before, Sending
  <2>3. LaneGood(r, m, rows', admitted', structured'.written, plan')
    BY <1>2, <2>1, <2>2 DEF LaneGood, stored
  <2> HIDE DEF m
  <2>4. LanesGood'
    BY <1>4, <1>7, <2>3, LaneMoves DEF AttemptInv
  <2> QED BY <1>3, <1>4, <2>4 DEF AttemptInv
<1> QED BY <1>5, <1>6, <1>7 DEF NoEcho

(* A request that is sent once more.                                        *)
LEMMA ResendKeeps ==
    ASSUME AttemptInv, NEW w \in Workers, lane[w]["base"].pc \in {"probe", "resend"}, NEW e \in Evidence,
           e # "m5-admitted", Resend(w, "m5-admitted", e), UNCHANGED <<durable, admitted, up>>
    PROVE  AttemptInv'
<1> DEFINE l == lane[w]["base"]
<1>1. LaneGood("base", l, rows, admitted, structured.written, plan)
  BY LaneHas, RoleIs DEF AttemptInv
<1>2. /\ l.at \in Attempts /\ rows[l.at].start /\ rows[l.at].replay /\ rows[l.at].prepared
      /\ l.at[2] = "shadow" => plan = l.at[1] /\ structured.written
  BY <1>1 DEF LaneGood, Knows, Before, Sending
<1>3. wire' = wire \cup {l.at} /\ (UNCHANGED mishaps \/ Mishap)
  BY DEF Resend
<1>4. UNCHANGED <<status, lapsed, up>> /\ UNCHANGED <<rows, newest, structured, plan, eresult, admitted>>
  BY DEF durable
<1>5. TaskTyped'
  BY <1>3, <1>4, TaskStays DEF AttemptInv
<1>6. StoreGood' /\ Advanced
  <2>1. wire' \subseteq Attempts
    BY <1>2, <1>3 DEF AttemptInv, StoreGood
  <2> QED BY <1>2, <1>3, <1>4, <2>1, WireKeeps DEF AttemptInv
<1>7. l.pc \in Before /\ "m5-admitted" \in Evidence
  BY DEF Before, Evidence
<1>8. (l.at \in admitted /\ Conclude(w, "base", "m5-admitted")) \/ Conclude(w, "base", e)
  BY DEF Resend
<1>9. LanesGood'
  <2>1. CASE l.at \in admitted /\ Conclude(w, "base", "m5-admitted")
    BY <2>1, <1>4, <1>6, <1>7, RoleIs, EvidenceConcluded DEF AttemptInv
  <2>2. CASE Conclude(w, "base", e)
    BY <2>2, <1>6, <1>7, RoleIs, EvidenceConcluded DEF AttemptInv
  <2> QED BY <1>8, <2>1, <2>2
<1> QED BY <1>5, <1>6, <1>9 DEF AttemptInv

LEMMA AdmissionProbed == ASSUME AttemptInv, NEW w \in Workers, ProbeAdmission(w) PROVE AttemptInv'
<1> DEFINE l == lane[w]["base"]
           e == IF rows[l.at].outcome = "m5-admitted" THEN "m5-admitted" ELSE "transport-not-admitted"
<1>1. l.pc = "probe" /\ LaneGood("base", l, rows, admitted, structured.written, plan)
  BY LaneHas, RoleIs DEF AttemptInv, ProbeAdmission, At
<1>2. l.at \in Attempts
  BY <1>1 DEF LaneGood, Knows, Before
<1>3. CASE Conclude(w, "base", e) /\ UNCHANGED <<wire, mishaps>>
  <2>1. UNCHANGED stored /\ UNCHANGED <<status, lapsed, up>>
    BY <1>3 DEF ProbeAdmission, durable, stored
  <2>2. TaskTyped'
    BY <1>3, <2>1, TaskStays DEF AttemptInv
  <2>3. StoreGood' /\ Advanced
    BY <2>1, StoreStays DEF AttemptInv
  <2>4. l.pc \in Before /\ e \in Evidence /\ (e = "m5-admitted" => l.at \in admitted')
    BY <1>1, <1>2, <2>3 DEF Before, Evidence, AttemptInv, StoreGood, Grounded, Advanced
  <2> HIDE DEF e
  <2>5. LanesGood'
    BY <1>3, <2>3, <2>4, RoleIs, EvidenceConcluded DEF AttemptInv
  <2> QED BY <2>2, <2>3, <2>5 DEF AttemptInv
<1>4. CASE Resend(w, "m5-admitted", "transport-not-admitted")
  <2>1. "transport-not-admitted" \in Evidence /\ "transport-not-admitted" # "m5-admitted"
    BY DEF Evidence
  <2>2. UNCHANGED <<durable, admitted, up>>
    BY DEF ProbeAdmission
  <2> QED BY <1>1, <1>4, <2>1, <2>2, ResendKeeps
<1> QED BY <1>3, <1>4 DEF ProbeAdmission

LEMMA RecoverResendKeeps == ASSUME AttemptInv, NEW w \in Workers, RecoverResend(w) PROVE AttemptInv'
<1>1. "recovery-unavailable" \in Evidence /\ "recovery-unavailable" # "m5-admitted"
  BY DEF Evidence
<1>2. lane[w]["base"].pc = "resend" /\ Resend(w, "m5-admitted", "recovery-unavailable")
      /\ UNCHANGED <<durable, admitted, up>>
  BY DEF RecoverResend, At
<1> QED BY <1>1, <1>2, ResendKeeps

(* An outcome that could be written is there; one that could not is not     *)
(* pointed at.                                                              *)
LEMMA OutcomeKeeps == ASSUME AttemptInv, NEW w \in Workers, NEW r \in Roles, Outcome(w, r) PROVE AttemptInv'
<1> DEFINE l == lane[w][r]
           a == l.at
           next == IF r = "shadow" THEN "result" ELSE IF l.experiment = "recovery" THEN "close" ELSE "status"
           m == [l EXCEPT !.pc = next, !.ref = TRUE]
           back == IF r = "shadow" THEN "invalid" ELSE next
           n == [l EXCEPT !.pc = back, !.evidence = "attempt-outcome-persistence-failed", !.ok = FALSE]
<1>1. l.pc = "outcome" /\ LaneGood(r, l, rows, admitted, structured.written, plan)
  BY LaneHas DEF AttemptInv, Outcome, At
<1>2. a \in Attempts /\ l.evidence \in Evidence /\ (l.evidence = "m5-admitted" => a \in admitted)
  BY <1>1 DEF LaneGood, Knows, Before
<1>3. TaskTyped'
  <2>1. UNCHANGED <<status, lapsed, up>> /\ (UNCHANGED mishaps \/ Mishap)
    BY DEF Outcome
  <2> QED BY <2>1, TaskStays DEF AttemptInv
<1>4. UNCHANGED <<newest, structured, plan, eresult, wire, admitted>>
  BY DEF Outcome
<1>5. ASSUME rows[a].outcome \in {"none", l.evidence}, Write(a, "outcome", l.evidence)
      PROVE  StoreGood' /\ Advanced /\ rows'[a].outcome = l.evidence
  <2>1. /\ rows' \in [Attempts -> Stored] /\ RowsGrow(rows, rows') /\ rows'[a].outcome = l.evidence
        /\ \A b \in Attempts : rows'[b].start = rows[b].start /\ rows'[b].replay = rows[b].replay
                               /\ rows'[b].prepared = rows[b].prepared
                               /\ (b # a => rows'[b].outcome = rows[b].outcome)
    BY <1>2, <1>5, OutcomeWritten DEF AttemptInv, StoreGood
  <2>2. \A b \in Attempts : rows'[b].prepared => rows'[b].start /\ rows'[b].replay
    BY <2>1 DEF AttemptInv, StoreGood
  <2>3. \A b \in Attempts : rows'[b].outcome = "m5-admitted" => b \in admitted
    BY <2>1, <1>2 DEF AttemptInv, StoreGood, Grounded
  <2>4. StoreGood' /\ Advanced
    BY <2>1, <2>2, <2>3, <1>4, RowsKeepStore DEF AttemptInv, StoreGood
  <2> QED BY <2>1, <2>4
<1>6. UNCHANGED rows => StoreGood' /\ Advanced
  BY <1>4, StoreStays DEF AttemptInv, stored
<1>7. CASE rows[a].outcome \in {"none", l.evidence} /\ Write(a, "outcome", l.evidence) /\ Move(w, r, m)
  <2>1. DOMAIN m = Fields /\ m.pc = next /\ m.at = a /\ m.evidence = l.evidence /\ m.ref = TRUE
        /\ m.experiment = l.experiment
    BY <1>1 DEF LaneGood, Fields
  <2>2. StoreGood' /\ Advanced /\ rows'[a].outcome = l.evidence
    BY <1>5, <1>7
  <2>3. Knows(r, "outcome", a, l.evidence, l.ref, l.experiment, rows', admitted', structured'.written, plan')
    BY <1>1, <2>2, KnowsStays DEF LaneGood
  <2>4. next \in {"result", "close", "status"}
    OBVIOUS
  <2>5. Knows(r, next, a, l.evidence, TRUE, l.experiment, rows', admitted', structured'.written, plan')
    <3> HIDE DEF next
    <3> QED BY <1>1, <1>2, <2>2, <2>3, <2>4 DEF Knows, Before, Sending
  <2>6. LaneGood(r, m, rows', admitted', structured'.written, plan')
    BY <2>1, <2>5 DEF LaneGood
  <2> HIDE DEF m, next
  <2>7. LanesGood'
    BY <1>7, <2>2, <2>6, LaneMoves DEF AttemptInv
  <2> QED BY <1>3, <2>2, <2>7 DEF AttemptInv
<1>8. CASE Rejected(w, r, next) /\ (UNCHANGED rows \/ (rows[a].outcome = "none" /\ Write(a, "outcome", l.evidence)))
  <2>1. /\ DOMAIN n = Fields /\ n.pc = back /\ n.at = a /\ n.evidence = "attempt-outcome-persistence-failed"
        /\ n.ref = l.ref /\ n.experiment = l.experiment
    BY <1>1 DEF LaneGood, Fields
  <2>2. StoreGood' /\ Advanced
    BY <1>5, <1>6, <1>8
  <2>3. Knows(r, "outcome", a, l.evidence, l.ref, l.experiment, rows', admitted', structured'.written, plan')
    BY <1>1, <2>2, KnowsStays DEF LaneGood
  <2>4. back \in {"invalid", "close", "status"}
    OBVIOUS
  <2>5. Knows(r, back, a, "attempt-outcome-persistence-failed", l.ref, l.experiment, rows', admitted',
              structured'.written, plan')
    <3> HIDE DEF back
    <3> QED BY <2>3, <2>4 DEF Knows, Before, Sending, Evidence
  <2>6. LaneGood(r, n, rows', admitted', structured'.written, plan')
    BY <2>1, <2>5 DEF LaneGood
  <2>7. Move(w, r, n)
    BY <1>8 DEF Rejected
  <2> HIDE DEF n, back
  <2>8. LanesGood'
    BY <2>2, <2>6, <2>7, LaneMoves DEF AttemptInv
  <2> QED BY <1>3, <2>2, <2>8 DEF AttemptInv
<1> QED BY <1>7, <1>8 DEF Outcome

-------------------------------------------------------------------------------
(* Results, plans and experiments.                                          *)

(* A result that is written says what its attempt's outcome says.           *)
LEMMA ResultKeeps ==
    ASSUME StoreGood, structured'.written, structured'.evidence \in Evidence \cup {"none"},
           structured'.evidence = "m5-admitted" => structured'.of \in admitted,
           structured'.ref => /\ structured'.of \in Attempts /\ structured'.evidence # "none"
                              /\ rows[structured'.of].outcome = structured'.evidence,
           UNCHANGED <<rows, newest, plan, eresult, wire, admitted>>
    PROVE  StoreGood' /\ Advanced
<1>1. Advanced
  BY DEF Advanced, RowsGrow
<1>2. AdmittedDurable' /\ Grounded' /\ RefSound' /\ ValidExperiment'
  BY DEF StoreGood, AdmittedDurable, Grounded, RefSound, ValidExperiment
<1> QED BY <1>1, <1>2 DEF StoreGood

LEMMA PublishKeeps ==
    ASSUME StoreGood, NEW r, NEW l, LaneGood(r, l, rows, admitted, structured.written, plan), Publish(l),
           UNCHANGED <<rows, newest, plan, eresult, wire, admitted>>
    PROVE  StoreGood' /\ Advanced /\ structured'.written
<1>1. /\ structured'.of = l.at /\ structured'.evidence = l.evidence
      /\ structured'.ref = l.ref /\ structured'.written
  BY DEF Publish
<1>2. /\ l.evidence \in Evidence \cup {"none"} /\ (l.evidence = "m5-admitted" => l.at \in admitted)
      /\ l.ref => l.at \in Attempts /\ l.evidence # "none" /\ rows[l.at].outcome = l.evidence
  BY DEF LaneGood, Knows
<1> QED BY <1>1, <1>2, ResultKeeps

LEMMA SettleKeeps ==
    ASSUME StoreGood, NEW v \in {"PASS", "HOLD", "INVALID"}, Settle(v),
           v # "INVALID" => plan # 0 /\ rows[<<plan, "shadow">>].outcome = "m5-admitted",
           UNCHANGED <<rows, newest, structured, plan, wire, admitted>>
    PROVE  StoreGood' /\ Advanced
<1>1. eresult' \in {eresult, v}
  BY DEF Settle
<1>2. Advanced
  BY DEF Advanced, RowsGrow
<1>3. ValidExperiment'
  BY <1>1 DEF StoreGood, ValidExperiment
<1>4. AdmittedDurable' /\ Grounded' /\ RefSound' /\ eresult' \in {"none", "PASS", "HOLD", "INVALID"}
  BY <1>1 DEF StoreGood, AdmittedDurable, Grounded, RefSound
<1> QED BY <1>2, <1>3, <1>4 DEF StoreGood

LEMMA PlanKeeps ==
    ASSUME StoreGood, plan = 0, plan' \in Runs, UNCHANGED <<rows, newest, structured, eresult, wire, admitted>>
    PROVE  StoreGood' /\ Advanced
<1>1. Advanced
  BY DEF Advanced, RowsGrow
<1>2. newest[2] # "shadow"
  BY AttemptIs DEF StoreGood, NoAttempt
<1>3. \A a \in wire \cup admitted : a[2] # "shadow"
  BY AttemptIs DEF StoreGood
<1>4. AdmittedDurable' /\ Grounded' /\ RefSound' /\ ValidExperiment'
  BY DEF StoreGood, AdmittedDurable, Grounded, RefSound, ValidExperiment
<1> QED BY <1>1, <1>2, <1>3, <1>4 DEF StoreGood, Runs

LEMMA ClaimKeeps == ASSUME AttemptInv, NEW w \in Workers, Claim(w) PROVE AttemptInv'
<1> DEFINE a == <<status.run + 1, "base">>
           m == [IdleLane EXCEPT !.pc = "plan", !.at = a]
<1>1. UNCHANGED stored /\ UNCHANGED <<up, mishaps>>
  BY DEF Claim, stored
<1>2. status.run \in 0 .. MaxRuns /\ status.run < MaxRuns
  BY DEF AttemptInv, TaskTyped, Claim
<1>3. TaskTyped'
  <2>1. status' = [tag |-> "running", by |-> w, run |-> status.run + 1] /\ lapsed' = FALSE
    BY DEF Claim
  <2>2. status.run + 1 \in 0 .. MaxRuns
    BY <1>2, RunsAssumption
  <2> QED BY <1>1, <2>1, <2>2 DEF AttemptInv, TaskTyped, Tags
<1>4. StoreGood' /\ Advanced
  BY <1>1, StoreStays DEF AttemptInv
<1>5. a \in Attempts /\ a[2] = "base"
  BY <1>2, RunsAssumption DEF Attempts, Runs, Roles
<1>6. /\ DOMAIN m = Fields /\ m.pc = "plan" /\ m.at = a /\ m.evidence = "none" /\ m.ref = FALSE
      /\ m.experiment = "none"
  BY DEF IdleLane, Fields
<1>7. Knows("base", "plan", a, "none", FALSE, "none", rows', admitted', structured'.written, plan')
  BY <1>5 DEF Knows, Before, Sending
<1>8. LaneGood("base", m, rows', admitted', structured'.written, plan')
  BY <1>6, <1>7 DEF LaneGood
<1>9. Move(w, "base", m)
  BY DEF Claim
<1> HIDE DEF m
<1>10. LanesGood'
  BY <1>4, <1>8, <1>9, RoleIs, LaneMoves DEF AttemptInv
<1> QED BY <1>3, <1>4, <1>10 DEF AttemptInv

LEMMA PlanPersists == ASSUME AttemptInv, NEW w \in Workers, PersistPlan(w) PROVE AttemptInv'
<1> DEFINE l == lane[w]["base"]
           run == l.at[1]
           m(x) == [l EXCEPT !.pc = "start", !.experiment = x]
<1>1. l.pc = "plan" /\ LaneGood("base", l, rows, admitted, structured.written, plan)
  BY LaneHas, RoleIs DEF AttemptInv, PersistPlan, At
<1>2. l.at \in Attempts /\ l.at[2] = "base" /\ run \in Runs /\ ~l.ref
  BY <1>1, AttemptIs DEF LaneGood, Knows
<1>3. UNCHANGED <<status, lapsed, up>> /\ UNCHANGED <<rows, newest, structured, eresult, wire, admitted>>
  BY DEF PersistPlan
<1>4. UNCHANGED mishaps \/ Mishap
  BY DEF PersistPlan
<1>5. TaskTyped'
  BY <1>3, <1>4, TaskStays DEF AttemptInv
<1>6. (plan = 0 /\ plan' = run) \/ UNCHANGED plan
  BY DEF PersistPlan
<1>7. StoreGood' /\ Advanced
  <2>1. CASE plan = 0 /\ plan' = run
    BY <2>1, <1>2, <1>3, PlanKeeps DEF AttemptInv
  <2>2. CASE UNCHANGED plan
    BY <2>2, <1>3, StoreStays DEF AttemptInv, stored
  <2> QED BY <1>6, <2>1, <2>2
<1>8. PICK x \in {"plan", "orphan", "none"} : Move(w, "base", m(x)) /\ (x = "plan" => plan' = run)
  BY DEF PersistPlan
<1>9. /\ DOMAIN m(x) = Fields /\ m(x).pc = "start" /\ m(x).at = l.at /\ m(x).evidence = l.evidence
      /\ m(x).ref = l.ref /\ m(x).experiment = x
  BY <1>1 DEF LaneGood, Fields
<1>10. Knows("base", l.pc, l.at, l.evidence, l.ref, l.experiment, rows', admitted', structured'.written, plan')
  BY <1>1, <1>7, KnowsStays DEF LaneGood
<1>11. Knows("base", "start", l.at, l.evidence, l.ref, x, rows', admitted', structured'.written, plan')
  BY <1>2, <1>8, <1>10 DEF Knows, Before, Sending
<1>12. LaneGood("base", m(x), rows', admitted', structured'.written, plan')
  BY <1>9, <1>11 DEF LaneGood
<1> HIDE DEF m
<1>13. LanesGood'
  BY <1>7, <1>8, <1>12, RoleIs, LaneMoves DEF AttemptInv
<1> QED BY <1>5, <1>7, <1>13 DEF AttemptInv

LEMMA FinalizeKeeps == ASSUME AttemptInv, NEW w \in Workers, Finalize(w) PROVE AttemptInv'
<1> DEFINE l == lane[w]["base"]
<1>1. l.pc = "status" /\ LaneGood("base", l, rows, admitted, structured.written, plan)
  BY LaneHas, RoleIs DEF AttemptInv, Finalize, At
<1>2. UNCHANGED <<lapsed, up>> /\ UNCHANGED <<rows, newest, plan, eresult, wire, admitted>>
  BY DEF Finalize
<1>3. TaskTyped'
  <2>1. status' = [status EXCEPT !.tag = IF l.ok THEN "completed" ELSE "failed"]
    BY DEF Finalize
  <2>2. status' \in [tag : Tags, by : Workers \cup {Nobody}, run : 0 .. MaxRuns]
    BY <2>1 DEF AttemptInv, TaskTyped, Tags
  <2>3. mishaps' \in 0 .. MaxMishaps
    BY RunsAssumption DEF Finalize, Mishap, AttemptInv, TaskTyped
  <2> QED BY <1>2, <2>2, <2>3 DEF AttemptInv, TaskTyped
<1>4. CASE Publish(l) /\ Move(w, "base", IdleLane)
  <2>1. StoreGood' /\ Advanced
    BY <1>1, <1>2, <1>4, PublishKeeps DEF AttemptInv
  <2>2. LanesGood'
    BY <1>4, <2>1, RoleIs, Rests DEF AttemptInv
  <2> QED BY <1>3, <2>1, <2>2 DEF AttemptInv
<1>5. CASE Publish(l) /\ Proceed(w, "base", "enqueue")
  <2>1. StoreGood' /\ Advanced /\ structured'.written
    BY <1>1, <1>2, <1>5, PublishKeeps DEF AttemptInv
  <2>2. Knows("base", l.pc, l.at, l.evidence, l.ref, l.experiment, rows', admitted', structured'.written, plan')
        => Knows("base", "enqueue", l.at, l.evidence, l.ref, l.experiment, rows', admitted', structured'.written, plan')
    BY <2>1 DEF Knows, Before, Sending
  <2>3. LanesGood'
    BY <1>5, <2>1, <2>2, RoleIs, GoesOn DEF AttemptInv
  <2> QED BY <1>3, <2>1, <2>3 DEF AttemptInv
<1>6. CASE UNCHANGED structured /\ Move(w, "base", IdleLane)
  <2>1. StoreGood' /\ Advanced
    BY <1>2, <1>6, StoreStays DEF AttemptInv, stored
  <2>2. LanesGood'
    BY <1>6, <2>1, RoleIs, Rests DEF AttemptInv
  <2> QED BY <1>3, <2>1, <2>2 DEF AttemptInv
<1> QED BY <1>4, <1>5, <1>6 DEF Finalize

LEMMA EnqueueKeeps == ASSUME AttemptInv, NEW w \in Workers, Enqueue(w) PROVE AttemptInv'
<1> DEFINE l == lane[w]["base"]
           a == <<l.at[1], "shadow">>
           m == [IdleLane EXCEPT !.pc = "start", !.at = a, !.good = l.ok]
<1>1. l.pc = "enqueue" /\ LaneGood("base", l, rows, admitted, structured.written, plan)
  BY LaneHas, RoleIs DEF AttemptInv, Enqueue, At
<1>2. UNCHANGED <<status, lapsed, up>> /\ UNCHANGED <<rows, newest, structured, plan, wire, admitted>>
  BY DEF Enqueue
<1>3. TaskTyped'
  <2>1. UNCHANGED mishaps \/ Mishap
    BY DEF Enqueue
  <2> QED BY <1>2, <2>1, TaskStays DEF AttemptInv
<1>4. CASE Settle("INVALID") /\ Move(w, "base", IdleLane)
  <2>1. StoreGood' /\ Advanced
    BY <1>2, <1>4, SettleKeeps DEF AttemptInv
  <2>2. LanesGood'
    BY <1>4, <2>1, RoleIs, Rests DEF AttemptInv
  <2> QED BY <1>3, <2>1, <2>2 DEF AttemptInv
<1>5. CASE UNCHANGED eresult /\ Move(w, "base", IdleLane)
  <2>1. StoreGood' /\ Advanced
    BY <1>2, <1>5, StoreStays DEF AttemptInv, stored
  <2>2. LanesGood'
    BY <1>5, <2>1, RoleIs, Rests DEF AttemptInv
  <2> QED BY <1>3, <2>1, <2>2 DEF AttemptInv
<1>6. CASE /\ l.experiment = "plan" /\ lane' = [lane EXCEPT ![w] = [base |-> IdleLane, shadow |-> m]]
           /\ UNCHANGED eresult
  <2>1. StoreGood' /\ Advanced
    BY <1>2, <1>6, StoreStays DEF AttemptInv, stored
  <2>2. l.at \in Attempts /\ plan = l.at[1] /\ structured.written
    BY <1>1, <1>6 DEF LaneGood, Knows
  <2>3. a \in Attempts /\ a[1] = plan /\ a[2] = "shadow"
    BY <2>2, AttemptIs, RoleIs DEF Attempts
  <2>4. /\ DOMAIN m = Fields /\ m.pc = "start" /\ m.at = a /\ m.evidence = "none" /\ m.ref = FALSE
        /\ m.experiment = "none"
    BY DEF IdleLane, Fields
  <2>5. Knows("shadow", "start", a, "none", FALSE, "none", rows', admitted', structured'.written, plan')
    BY <1>2, <2>2, <2>3 DEF Knows, Before, Sending
  <2>6. LaneGood("shadow", m, rows', admitted', structured'.written, plan')
    BY <2>4, <2>5 DEF LaneGood
  <2> HIDE DEF m
  <2>7. /\ lane'[w]["base"] = IdleLane /\ lane'[w]["shadow"] = m /\ DOMAIN lane'[w] = Roles
        /\ DOMAIN lane' = Workers /\ \A v \in Workers \ {w} : lane'[v] = lane[v]
    BY <1>6 DEF AttemptInv, LanesGood, Roles
  <2>8. ASSUME NEW v \in Workers \ {w}, NEW r \in Roles
        PROVE  LaneGood(r, lane'[v][r], rows', admitted', structured'.written, plan')
    BY <2>1, <2>7, KnowsStays DEF AttemptInv, LanesGood, LaneGood
  <2>9. \A r \in Roles : LaneGood(r, lane'[w][r], rows', admitted', structured'.written, plan')
    BY <2>6, <2>7, IdleKnows DEF Roles
  <2>10. \A v \in Workers : DOMAIN lane'[v] = Roles
    BY <2>7 DEF AttemptInv, LanesGood
  <2>11. LanesGood'
    BY <2>7, <2>8, <2>9, <2>10 DEF LanesGood
  <2> QED BY <1>3, <2>1, <2>11 DEF AttemptInv
<1> QED BY <1>4, <1>5, <1>6 DEF Enqueue

LEMMA ShadowResultKeeps == ASSUME AttemptInv, NEW w \in Workers, ShadowResult(w) PROVE AttemptInv'
<1> DEFINE l == lane[w]["shadow"]
<1>1. l.pc = "result" /\ LaneGood("shadow", l, rows, admitted, structured.written, plan)
  BY LaneHas, RoleIs DEF AttemptInv, ShadowResult, At
<1>2. UNCHANGED <<status, lapsed, up>> /\ UNCHANGED <<rows, newest, structured, plan, wire, admitted>>
  BY DEF ShadowResult
<1>3. TaskTyped'
  <2>1. UNCHANGED mishaps \/ Mishap
    BY DEF ShadowResult
  <2> QED BY <1>2, <2>1, TaskStays DEF AttemptInv
<1>4. ASSUME NEW v \in Verdicts(l), Settle(v), Move(w, "shadow", IdleLane)
      PROVE  AttemptInv'
  <2>1. v \in {"PASS", "HOLD", "INVALID"} /\ (v # "INVALID" => l.evidence = "m5-admitted")
    BY <1>4 DEF Verdicts, Sound
  <2>2. l.at \in Attempts /\ rows[l.at].outcome = l.evidence /\ l.at[2] = "shadow" /\ plan = l.at[1]
    BY <1>1 DEF LaneGood, Knows
  <2>3. l.at = <<plan, "shadow">> /\ plan # 0
    BY <2>2, AttemptIs
  <2>4. StoreGood' /\ Advanced
    BY <1>2, <1>4, <2>1, <2>2, <2>3, SettleKeeps DEF AttemptInv
  <2>5. LanesGood'
    BY <1>4, <2>4, RoleIs, Rests DEF AttemptInv
  <2> QED BY <1>3, <2>4, <2>5 DEF AttemptInv
<1>5. CASE Proceed(w, "shadow", "invalid") /\ UNCHANGED eresult
  <2>1. StoreGood' /\ Advanced
    BY <1>2, <1>5, StoreStays DEF AttemptInv, stored
  <2>2. Knows("shadow", l.pc, l.at, l.evidence, l.ref, l.experiment, rows', admitted', structured'.written, plan')
        => Knows("shadow", "invalid", l.at, l.evidence, l.ref, l.experiment, rows', admitted', structured'.written, plan')
    BY <1>1 DEF Knows, Before, Sending
  <2>3. LanesGood'
    BY <1>5, <2>1, <2>2, RoleIs, GoesOn DEF AttemptInv
  <2> QED BY <1>3, <2>1, <2>3 DEF AttemptInv
<1> QED BY <1>4, <1>5 DEF ShadowResult

LEMMA ShadowInvalidKeeps == ASSUME AttemptInv, NEW w \in Workers, ShadowInvalid(w) PROVE AttemptInv'
<1>1. UNCHANGED <<status, lapsed, up>> /\ UNCHANGED <<rows, newest, structured, plan, wire, admitted>>
  BY DEF ShadowInvalid
<1>2. TaskTyped'
  <2>1. UNCHANGED mishaps \/ Mishap
    BY DEF ShadowInvalid
  <2> QED BY <1>1, <2>1, TaskStays DEF AttemptInv
<1>3. StoreGood' /\ Advanced
  <2>1. CASE Settle("INVALID")
    BY <1>1, <2>1, SettleKeeps DEF AttemptInv
  <2>2. CASE UNCHANGED eresult
    BY <1>1, <2>2, StoreStays DEF AttemptInv, stored
  <2> QED BY <2>1, <2>2 DEF ShadowInvalid
<1>4. LanesGood'
  BY <1>3, RoleIs, Rests DEF ShadowInvalid, AttemptInv
<1> QED BY <1>2, <1>3, <1>4 DEF AttemptInv

LEMMA ReconcileKeeps == ASSUME AttemptInv, NEW w \in Workers, Reconcile(w) PROVE AttemptInv'
<1>1. UNCHANGED <<status, lapsed, up, mishaps, lane>> /\ UNCHANGED <<rows, newest, structured, plan, wire, admitted>>
      /\ Settle("INVALID")
  BY DEF Reconcile
<1>2. TaskTyped'
  BY <1>1, TaskStays DEF AttemptInv
<1>3. StoreGood' /\ Advanced
  BY <1>1, SettleKeeps DEF AttemptInv
<1>4. LanesGood'
  BY <1>1, <1>3, LanesStay DEF AttemptInv
<1> QED BY <1>2, <1>3, <1>4 DEF AttemptInv

-------------------------------------------------------------------------------
(* Crashes, recovery and those outside.                                     *)

LEMMA CrashKeeps == ASSUME AttemptInv, NEW w \in Workers, Crash(w) PROVE AttemptInv'
<1>1. UNCHANGED <<status, lapsed>> /\ Mishap /\ up' = [up EXCEPT ![w] = FALSE] /\ UNCHANGED stored
  BY DEF Crash, durable, stored
<1>2. TaskTyped'
  <2>1. up' \in [Workers -> BOOLEAN]
    BY <1>1 DEF AttemptInv, TaskTyped
  <2>2. mishaps' \in 0 .. MaxMishaps
    BY <1>1, RunsAssumption DEF AttemptInv, TaskTyped, Mishap
  <2> QED BY <1>1, <2>1, <2>2 DEF AttemptInv, TaskTyped
<1>3. StoreGood' /\ Advanced
  BY <1>1, StoreStays DEF AttemptInv
<1>4. /\ DOMAIN lane' = Workers /\ DOMAIN lane'[w] = Roles /\ \A r \in Roles : lane'[w][r] = IdleLane
      /\ \A v \in Workers \ {w} : lane'[v] = lane[v]
  BY DEF Crash, AttemptInv, LanesGood
<1>5. ASSUME NEW v \in Workers, NEW r \in Roles
      PROVE  DOMAIN lane'[v] = Roles /\ LaneGood(r, lane'[v][r], rows', admitted', structured'.written, plan')
  <2>1. CASE v = w
    BY <1>4, <2>1, IdleKnows
  <2>2. CASE v # w
    BY <1>3, <1>4, <2>2, KnowsStays DEF AttemptInv, LanesGood, LaneGood
  <2> QED BY <2>1, <2>2
<1>6. LanesGood'
  BY <1>4, <1>5, RoleIs DEF LanesGood
<1> QED BY <1>2, <1>3, <1>6 DEF AttemptInv

LEMMA StartsAgain == ASSUME AttemptInv, NEW w \in Workers, Start(w) PROVE AttemptInv'
<1> DEFINE l == lane[w]["base"]
<1>1. UNCHANGED <<status, lapsed, mishaps>> /\ up' = [up EXCEPT ![w] = TRUE] /\ UNCHANGED stored
  BY DEF Start, durable, stored
<1>2. TaskTyped'
  BY <1>1 DEF AttemptInv, TaskTyped
<1>3. StoreGood' /\ Advanced
  BY <1>1, StoreStays DEF AttemptInv
<1>4. Knows("base", l.pc, l.at, l.evidence, l.ref, l.experiment, rows', admitted', structured'.written, plan')
      => Knows("base", "recover", l.at, l.evidence, l.ref, l.experiment, rows', admitted', structured'.written, plan')
  BY DEF Knows, Before, Sending
<1>5. Proceed(w, "base", "recover")
  BY DEF Start
<1>6. LanesGood'
  BY <1>3, <1>4, <1>5, RoleIs, GoesOn DEF AttemptInv
<1> QED BY <1>2, <1>3, <1>6 DEF AttemptInv

LEMMA LapseKeeps == AttemptInv /\ Lapse => AttemptInv'
<1> SUFFICES ASSUME AttemptInv, Lapse PROVE AttemptInv'
  OBVIOUS
<1>1. UNCHANGED <<status, up>> /\ Mishap /\ lapsed' = TRUE /\ UNCHANGED stored /\ UNCHANGED lane
  BY DEF Lapse, stored
<1>2. TaskTyped'
  BY <1>1, RunsAssumption DEF AttemptInv, TaskTyped, Mishap
<1>3. StoreGood' /\ Advanced
  BY <1>1, StoreStays DEF AttemptInv
<1>4. LanesGood'
  BY <1>1, <1>3, LanesStay DEF AttemptInv
<1> QED BY <1>2, <1>3, <1>4 DEF AttemptInv

LEMMA RequeueKeeps == AttemptInv /\ Requeue => AttemptInv'
<1> SUFFICES ASSUME AttemptInv, Requeue PROVE AttemptInv'
  OBVIOUS
<1>1. UNCHANGED <<up, mishaps>> /\ lapsed' = FALSE /\ UNCHANGED stored /\ UNCHANGED lane
  BY DEF Requeue, stored
<1>2. status' \in [tag : Tags, by : Workers \cup {Nobody}, run : 0 .. MaxRuns]
  BY DEF Requeue, AttemptInv, TaskTyped, Tags
<1>3. TaskTyped'
  BY <1>1, <1>2 DEF AttemptInv, TaskTyped
<1>4. StoreGood' /\ Advanced
  BY <1>1, StoreStays DEF AttemptInv
<1>5. LanesGood'
  BY <1>1, <1>4, LanesStay DEF AttemptInv
<1> QED BY <1>3, <1>4, <1>5 DEF AttemptInv

(* Recovery takes up the newest attempt: what it finds in its rows is so.   *)
LEMMA TakesUp ==
    ASSUME AttemptInv, NEW w \in Workers, UNCHANGED stored, NEW pc \in {"close", "resend"}, NEW e, NEW ref \in BOOLEAN,
           e \in Evidence \cup {"none"}, e = "m5-admitted" => newest \in admitted,
           ref => newest \in Attempts /\ rows[newest].outcome = e /\ e # "none",
           pc = "resend" => newest \in Attempts /\ ~ref /\ rows[newest].prepared,
           Move(w, "base", [IdleLane EXCEPT !.pc = pc, !.at = newest, !.evidence = e, !.ref = ref,
                                            !.experiment = "recovery", !.seen = status])
    PROVE  LanesGood'
<1> DEFINE m == [IdleLane EXCEPT !.pc = pc, !.at = newest, !.evidence = e, !.ref = ref,
                                 !.experiment = "recovery", !.seen = status]
<1>1. Advanced
  BY StoreStays DEF AttemptInv
<1>2. /\ DOMAIN m = Fields /\ m.pc = pc /\ m.at = newest /\ m.evidence = e /\ m.ref = ref
      /\ m.experiment = "recovery"
  BY DEF IdleLane, Fields
<1>3. Knows("base", pc, newest, e, ref, "recovery", rows, admitted, structured.written, plan)
  BY DEF Knows, Before, Sending, AttemptInv, StoreGood
<1>4. LaneGood("base", m, rows', admitted', structured'.written, plan')
  BY <1>2, <1>3 DEF LaneGood, stored
<1>5. Move(w, "base", m)
  OBVIOUS
<1> HIDE DEF m
<1> QED BY <1>1, <1>4, <1>5, RoleIs, LaneMoves DEF AttemptInv

LEMMA RecoverKeeps == ASSUME AttemptInv, NEW w \in Workers, Recover(w) PROVE AttemptInv'
<1> DEFINE l == lane[w]["base"]
           a == newest
           m(e, ref, pc) == [IdleLane EXCEPT !.pc = pc, !.at = a, !.evidence = e, !.ref = ref,
                                             !.experiment = "recovery", !.seen = status]
<1>1. UNCHANGED <<status, lapsed, up, mishaps>> /\ UNCHANGED stored
  BY DEF Recover, durable, stored
<1>2. TaskTyped'
  BY <1>1, TaskStays DEF AttemptInv
<1>3. StoreGood' /\ Advanced
  BY <1>1, StoreStays DEF AttemptInv
<1>4. a # NoAttempt => a \in Attempts /\ rows[a].outcome \in Evidence \cup {"none"}
  BY DEF AttemptInv, StoreGood, Stored
<1>5. LanesGood'
  <2>1. CASE Proceed(w, "base", "idle")
    <3>1. Knows("base", l.pc, l.at, l.evidence, l.ref, l.experiment, rows', admitted', structured'.written, plan')
          => Knows("base", "idle", l.at, l.evidence, l.ref, l.experiment, rows', admitted', structured'.written, plan')
      BY DEF Knows, Before, Sending
    <3> QED BY <1>3, <2>1, <3>1, RoleIs, GoesOn DEF AttemptInv
  <2>2. CASE Move(w, "base", m("none", FALSE, "close"))
    BY <1>1, <2>2, TakesUp
  <2>3. CASE Move(w, "base", m("pre-dispatch-unavailable", FALSE, "close"))
    <3>1. "pre-dispatch-unavailable" \in Evidence /\ "pre-dispatch-unavailable" # "m5-admitted"
      BY DEF Evidence
    <3> QED BY <1>1, <2>3, <3>1, TakesUp
  <2>4. CASE a # NoAttempt /\ rows[a].outcome # "none" /\ Move(w, "base", m(rows[a].outcome, TRUE, "close"))
    <3>1. rows[a].outcome = "m5-admitted" => a \in admitted
      BY <1>4, <2>4 DEF AttemptInv, StoreGood, Grounded
    <3> QED BY <1>1, <1>4, <2>4, <3>1, TakesUp
  <2>5. CASE a # NoAttempt /\ rows[a].prepared /\ Move(w, "base", m("none", FALSE, "resend"))
    BY <1>1, <1>4, <2>5, TakesUp
  <2> QED BY <2>1, <2>2, <2>3, <2>4, <2>5 DEF Recover
<1> QED BY <1>2, <1>3, <1>5 DEF AttemptInv

LEMMA RecoverCloseKeeps == ASSUME AttemptInv, NEW w \in Workers, RecoverClose(w) PROVE AttemptInv'
<1> DEFINE l == lane[w]["base"]
<1>1. LaneGood("base", l, rows, admitted, structured.written, plan)
  BY LaneHas, RoleIs DEF AttemptInv
<1>2. UNCHANGED <<lapsed, up>> /\ UNCHANGED <<rows, newest, plan, eresult, wire, admitted>>
  BY DEF RecoverClose
<1>3. TaskTyped'
  <2>1. status' = [status EXCEPT !.tag = "failed"] \/ UNCHANGED status
    BY DEF RecoverClose
  <2>2. status' \in [tag : Tags, by : Workers \cup {Nobody}, run : 0 .. MaxRuns]
    BY <2>1 DEF AttemptInv, TaskTyped, Tags
  <2>3. mishaps' \in 0 .. MaxMishaps
    BY RunsAssumption DEF RecoverClose, Mishap, AttemptInv, TaskTyped
  <2> QED BY <1>2, <2>2, <2>3 DEF AttemptInv, TaskTyped
<1>4. StoreGood' /\ Advanced
  <2>1. CASE Publish(l)
    BY <1>1, <1>2, <2>1, PublishKeeps DEF AttemptInv
  <2>2. CASE UNCHANGED structured
    BY <1>2, <2>2, StoreStays DEF AttemptInv, stored
  <2> QED BY <2>1, <2>2 DEF RecoverClose
<1>5. LanesGood'
  BY <1>4, RoleIs, Rests DEF RecoverClose, AttemptInv
<1> QED BY <1>3, <1>4, <1>5 DEF AttemptInv

LEMMA ReapKeeps == ASSUME AttemptInv, NEW w \in Workers, Reap(w) PROVE AttemptInv'
<1>1. UNCHANGED <<lapsed, up, lane>> /\ UNCHANGED <<rows, newest, plan, eresult, wire, admitted>>
  BY DEF Reap
<1>2. TaskTyped'
  <2>1. status' \in [tag : Tags, by : Workers \cup {Nobody}, run : 0 .. MaxRuns]
    BY DEF Reap, AttemptInv, TaskTyped, Tags
  <2>2. mishaps' \in 0 .. MaxMishaps
    BY RunsAssumption DEF Reap, Mishap, AttemptInv, TaskTyped
  <2> QED BY <1>1, <2>1, <2>2 DEF AttemptInv, TaskTyped
<1>3. StoreGood' /\ Advanced
  <2>1. CASE structured' = [NoResult EXCEPT !.written = TRUE]
    <3>1. structured'.written /\ structured'.evidence = "none" /\ ~structured'.ref
      BY <2>1 DEF NoResult
    <3> QED BY <1>1, <3>1, ResultKeeps DEF AttemptInv
  <2>2. CASE UNCHANGED structured
    BY <1>1, <2>2, StoreStays DEF AttemptInv, stored
  <2> QED BY <2>1, <2>2 DEF Reap
<1>4. LanesGood'
  BY <1>1, <1>3, LanesStay DEF AttemptInv
<1> QED BY <1>2, <1>3, <1>4 DEF AttemptInv

-------------------------------------------------------------------------------
LEMMA AttemptStarts == AttemptInit => AttemptInv
<1> SUFFICES ASSUME AttemptInit PROVE AttemptInv
  OBVIOUS
<1>1. TaskTyped
  <2>1. status = [tag |-> "pending", by |-> Nobody, run |-> 0] /\ 0 \in 0 .. MaxRuns /\ 0 \in 0 .. MaxMishaps
    BY RunsAssumption DEF AttemptInit
  <2>2. up \in [Workers -> BOOLEAN]
    BY DEF AttemptInit
  <2>3. status \in [tag : Tags, by : Workers \cup {Nobody}, run : 0 .. MaxRuns]
    BY <2>1 DEF Tags
  <2>4. lapsed \in BOOLEAN /\ mishaps \in 0 .. MaxMishaps
    BY <2>1 DEF AttemptInit
  <2> QED BY <2>2, <2>3, <2>4 DEF TaskTyped
<1>2. \A a \in Attempts : rows[a] = NoRows
  BY DEF AttemptInit
<1>3. NoRows \in Stored /\ NoRows.outcome = "none" /\ NoRows.prepared = FALSE
  BY DEF NoRows, Stored
<1>4. rows \in [Attempts -> Stored]
  BY <1>3 DEF AttemptInit
<1>5. structured.evidence = "none" /\ structured.ref = FALSE /\ structured.written = FALSE /\ plan = 0
      /\ eresult = "none" /\ wire = {} /\ admitted = {} /\ newest = NoAttempt
  BY DEF AttemptInit, NoResult
<1>6. StoreGood
  <2>1. NoAttempt[2] = "base"
    BY DEF NoAttempt
  <2>2. AdmittedDurable /\ Grounded /\ RefSound /\ ValidExperiment
    BY <1>2, <1>3, <1>5 DEF AdmittedDurable, Grounded, RefSound, ValidExperiment
  <2> QED BY <1>2, <1>3, <1>4, <1>5, <2>1, <2>2, RunsAssumption DEF StoreGood
<1>7. LanesGood
  <2> DEFINE m == [IdleLane EXCEPT !.pc = "recover"]
  <2>1. /\ DOMAIN m = Fields /\ m.pc = "recover" /\ m.at = NoAttempt /\ m.evidence = "none" /\ m.ref = FALSE
        /\ m.experiment = "none"
    BY DEF IdleLane, Fields
  <2>2. Knows("base", "recover", NoAttempt, "none", FALSE, "none", rows, admitted, structured.written, plan)
    BY DEF Knows, Before, Sending, NoAttempt
  <2>3. LaneGood("base", m, rows, admitted, structured.written, plan)
    BY <2>1, <2>2 DEF LaneGood
  <2> HIDE DEF m
  <2>4. DOMAIN lane = Workers /\ \A w \in Workers : /\ DOMAIN lane[w] = Roles
                                                    /\ lane[w]["base"] = m /\ lane[w]["shadow"] = IdleLane
    BY DEF AttemptInit, Roles, m
  <2>5. LaneGood("shadow", IdleLane, rows, admitted, structured.written, plan)
    BY IdleKnows
  <2> QED BY <2>3, <2>4, <2>5 DEF LanesGood, Roles
<1> QED BY <1>1, <1>6, <1>7 DEF AttemptInv

LEMMA AttemptingKeeps == ASSUME AttemptInv, NEW w \in Workers, NEW r \in Roles, Attempting(w, r) PROVE AttemptInv'
BY StartKeeps, ReplayKeeps, PreparedKeeps, SendKeeps, EchoKeeps, RefuseKeeps, NoEchoKeeps, OutcomeKeeps DEF Attempting

LEMMA WorkKeeps == ASSUME AttemptInv, NEW w \in Workers, Work(w) PROVE AttemptInv'
<1>1. CASE Base(w)
  BY <1>1, RoleIs, AttemptingKeeps, ClaimKeeps, PlanPersists, AdmissionProbed, FinalizeKeeps, EnqueueKeeps, RecoverKeeps,
     RecoverResendKeeps, RecoverCloseKeeps DEF Base
<1>2. CASE Shadow(w)
  BY <1>2, RoleIs, AttemptingKeeps, ShadowLateKeeps, ShadowResultKeeps, ShadowInvalidKeeps DEF Shadow
<1> QED BY <1>1, <1>2, ReconcileKeeps, StartsAgain DEF Work

LEMMA AttemptSteps == AttemptInv /\ [AttemptNext]_attemptVars => AttemptInv'
<1> SUFFICES ASSUME AttemptInv, [AttemptNext]_attemptVars PROVE AttemptInv'
  OBVIOUS
<1>1. CASE UNCHANGED attemptVars
  <2>1. UNCHANGED <<status, lapsed, up, mishaps>> /\ UNCHANGED stored /\ UNCHANGED lane
    BY <1>1 DEF attemptVars, stored
  <2> QED BY <2>1, TaskStays, StoreStays, LanesStay DEF AttemptInv
<1>2. CASE AttemptNext
  BY <1>2, WorkKeeps, ReapKeeps, CrashKeeps, AdmitKeeps, LapseKeeps, RequeueKeeps DEF AttemptNext
<1> QED BY <1>1, <1>2

(* At most one shadow was sent: each that was is the plan's.                *)
LEMMA ShadowsOnce == AttemptInv => ShadowOnce
<1> SUFFICES ASSUME AttemptInv PROVE ShadowOnce
  OBVIOUS
<1> DEFINE sent == {a \in wire \cup admitted : a[2] = "shadow"}
<1>1. \A a \in sent : structured.written /\ plan = a[1] /\ a = <<plan, "shadow">>
  BY AttemptIs DEF AttemptInv, StoreGood
<1>2. sent \subseteq {<<plan, "shadow">>}
  BY <1>1
<1>3. IsFiniteSet({<<plan, "shadow">>}) /\ Cardinality({<<plan, "shadow">>}) = 1
  BY FS_Singleton
<1>4. Cardinality(sent) <= 1
  BY <1>2, <1>3, FS_Subset
<1> QED BY <1>1, <1>4 DEF ShadowOnce

LEMMA AttemptImplied == AttemptInv => AttemptSound
<1> SUFFICES ASSUME AttemptInv PROVE AttemptSound
  OBVIOUS
<1>1. AttemptTypeOK
  BY DEF AttemptInv, TaskTyped, StoreGood, AttemptTypeOK, Tags, Stored
<1>2. AdmittedDurable /\ Grounded /\ RefSound /\ ValidExperiment
  BY DEF AttemptInv, StoreGood
<1> QED BY <1>1, <1>2, ShadowsOnce DEF AttemptSound, EvidenceSound, ShadowSound

(* Whatever was lost, given up on, crashed or claimed again: what the      *)
(* gateway admitted can be had and is true, and the shadow of a task is    *)
(* paid for once and counts only when it is proved.                        *)
THEOREM AttemptAlwaysSound == AttemptSpec => []AttemptSound
<1>1. AttemptSpec => []AttemptInv
  BY AttemptStarts, AttemptSteps, PTL DEF AttemptSpec
<1> QED BY <1>1, AttemptImplied, PTL

-------------------------------------------------------------------------------
(* The experiments of a scope (Experiments).                                *)

Steps == {"idle", "write", "crown", "swap", "mark"}
Promoting == {"crown", "swap", "mark"}
Stages == {"rest", "create", "baseline", "seed", "store", "append", "conclude"} \cup Decided
Packaging == {"create", "baseline", "seed", "store", "append"}
Changes == (SUBSET Observations) \X (SUBSET Observations)
Requests == [at : Steps, e : Names \cup {Nothing}, new : {Nothing} \cup Changes]

(* What replaces the runs in drop, of those recorded.                       *)
Changing(new, runs) ==
    \/ new[1] = {}
    \/ \E r \in runs, p \in Products :
          r.product = "unrated" /\ new = <<{r}, {[r EXCEPT !.product = p]}>>

Won(doc) == doc # Nothing /\ doc.status \in {"promotion-ready", "promoted"} /\ Accepted(doc.runs)

(* What a call relies on: an experiment nobody has written since it was     *)
(* read still runs, or is still ready; the champion nobody has written      *)
(* since is the one the experiment started from.                            *)
AskGood(c, m, ch, xs, cur) ==
    /\ m.at # "idle" => m.e \in Names
    /\ m.at = "write" =>
         /\ m.new \in Changes
         /\ <<c, m.e>> \in cur =>
              xs[m.e] # Nothing /\ xs[m.e].status = "running" /\ Changing(m.new, xs[m.e].runs)
    /\ m.at \in Promoting =>
         /\ ch # Nothing /\ Won(xs[m.e])
         /\ <<c, m.e>> \in cur => xs[m.e].status = "promotion-ready"
    /\ m.at = "swap" /\ <<c, "champ">> \in cur => ch.config = Champion[m.e]

(* What a tick has packaged is not there until it stores it, and the        *)
(* champion is there first.                                                 *)
TickGood(m, ch, xs) ==
    /\ m.at \in Packaging => m.e \in Names
    /\ m.at \in {"baseline", "seed", "store"} => xs[m.e] = Nothing
    /\ m.at = "seed" => ch = Nothing
    /\ m.at = "store" => ch # Nothing

ScopeTyped ==
    /\ champ \in Champions \cup {Nothing} /\ exps \in [Names -> Documents \cup {Nothing}]
    /\ pool \in 1 .. Len(Pools) /\ index \subseteq Names
    /\ request \in [Clients -> Requests]
    /\ tick \in [Ticks -> [at : Stages, e : Names \cup {Nothing}, todo : SUBSET Names]]

ScopeInv ==
    /\ ScopeTyped
    /\ \A e \in Names : exps[e] # Nothing => champ # Nothing
    /\ \A c \in Clients : AskGood(c, request[c], champ, exps, current)
    /\ \A t \in Ticks : TickGood(tick[t], champ, exps)

(* A champion that was promoted is the challenger of the experiment it      *)
(* names, which had won; once anything was promoted it is of this kind.     *)
Credited ==
    /\ champ # Nothing /\ champ.by # Nothing =>
          champ.by \in Names /\ champ.config = Challenger[champ.by] /\ Won(exps[champ.by])
    /\ \A e \in Names : exps[e] # Nothing /\ exps[e].status = "promoted" => champ.by # Nothing
    /\ \A c \in Clients : request[c].at = "mark" => champ.by # Nothing

-------------------------------------------------------------------------------
(* Documents and what calls know of them.                                   *)

LEMMA StatusIs == "running" # "promotion-ready" /\ "running" # "promoted" /\ "rejected" # "promotion-ready"
OBVIOUS

LEMMA DocumentIs ==
    ASSUME NEW runs \in SUBSET Observations
    PROVE  /\ Document(runs) \in Documents /\ Document(runs) # Nothing /\ Document(runs).runs = runs
           /\ Document(runs).status \in {"running", "promotion-ready", "rejected"}
<1>1. Evaluate(runs) \in {"running", "promotion-ready", "rejected"}
  BY DEF Evaluate
<1>2. Document(runs) \in Documents
  BY <1>1 DEF Document, Documents, Statuses
<1> QED BY <1>1, <1>2, NothingAssumption DEF Document

LEMMA ChampionIs ==
    ASSUME NEW e \in Names, NEW b \in Names \cup {Nothing}
    PROVE  /\ [config |-> Champion[e], by |-> b] \in Champions /\ [config |-> Challenger[e], by |-> b] \in Champions
           /\ [config |-> Champion[e], by |-> b] # Nothing /\ [config |-> Challenger[e], by |-> b] # Nothing
BY NothingAssumption DEF Champions, Configurations

(* What another call knows stays so when the documents it read stay, and    *)
(* what was won stays won.                                                  *)
LEMMA AskStays ==
    ASSUME NEW d, NEW m, NEW ch, NEW xs, NEW cur, NEW ch2, NEW xs2, NEW cur2, AskGood(d, m, ch, xs, cur),
           \A x : <<d, x>> \in cur2 => <<d, x>> \in cur,
           \A e \in Names : <<d, e>> \in cur2 => xs2[e] = xs[e],
           <<d, "champ">> \in cur2 => ch2 = ch,
           ch # Nothing => ch2 # Nothing,
           \A e \in Names : Won(xs[e]) => Won(xs2[e])
    PROVE  AskGood(d, m, ch2, xs2, cur2)
<1>1. m.at \in Promoting => m.at # "idle"
  BY DEF Promoting
<1> QED BY <1>1 DEF AskGood, Promoting

(* A call that goes from one step to the next, as m, and nobody else.       *)
LEMMA AskMoves ==
    ASSUME ScopeInv, NEW c \in Clients, NEW m \in Requests, request' = [request EXCEPT ![c] = m],
           AskGood(c, m, champ', exps', current'),
           \A d \in Clients \ {c} : AskGood(d, request[d], champ', exps', current')
    PROVE  request' \in [Clients -> Requests] /\ \A d \in Clients : AskGood(d, request'[d], champ', exps', current')
BY DEF ScopeInv, ScopeTyped

LEMMA TicksRest == ScopeInv /\ UNCHANGED <<champ, exps, tick>> => \A t \in Ticks : TickGood(tick'[t], champ', exps')
BY DEF ScopeInv

LEMMA UnaskedGood == ASSUME NEW c, NEW ch, NEW xs, NEW cur PROVE AskGood(c, NoRequest, ch, xs, cur) /\ NoRequest \in Requests
BY DEF AskGood, NoRequest, Promoting, Requests, Steps

-------------------------------------------------------------------------------
(* Calls.                                                                   *)

LEMMA ReadKeepsScope ==
    ASSUME ScopeInv, NEW c \in Clients, NEW e \in Names, NEW at \in {"write", "crown"}, NEW new \in {Nothing} \cup Changes,
           ReadFor(c, e, at, new), exps[e] # Nothing,
           at = "write" => new \in Changes /\ exps[e].status = "running" /\ Changing(new, exps[e].runs),
           at = "crown" => exps[e].status = "promotion-ready" /\ Accepted(exps[e].runs)
    PROVE  ScopeInv'
<1> DEFINE m == [at |-> at, e |-> e, new |-> new]
<1>1. UNCHANGED <<champ, exps, index, pool, tick>> /\ current' = current \cup {<<c, e>>}
      /\ request' = [request EXCEPT ![c] = m]
  BY DEF ReadFor, docs
<1>2. m \in Requests /\ m.at = at /\ m.e = e /\ m.new = new
  BY DEF Requests, Steps
<1>3. AskGood(c, m, champ', exps', current')
  BY <1>1, <1>2 DEF AskGood, Promoting, Won, ScopeInv
<1>4. ASSUME NEW d \in Clients \ {c} PROVE AskGood(d, request[d], champ', exps', current')
  <2>1. AskGood(d, request[d], champ, exps, current) /\ \A x : <<d, x>> \in current' => <<d, x>> \in current
    BY <1>1 DEF ScopeInv
  <2>2. champ' = champ /\ exps' = exps
    BY <1>1
  <2>3. /\ \A f \in Names : <<d, f>> \in current' => exps'[f] = exps[f]
        /\ \A f \in Names : Won(exps[f]) => Won(exps'[f])
    BY <2>2
  <2>4. (<<d, "champ">> \in current' => champ' = champ) /\ (champ # Nothing => champ' # Nothing)
    BY <2>2
  <2> QED BY <2>1, <2>3, <2>4, AskStays
<1> HIDE DEF m
<1>5. request' \in [Clients -> Requests] /\ \A d \in Clients : AskGood(d, request'[d], champ', exps', current')
  BY <1>1, <1>2, <1>3, <1>4, AskMoves
<1> QED BY <1>1, <1>5, TicksRest DEF ScopeInv, ScopeTyped

LEMMA StatusTells ==
    ASSUME NEW e \in Names, NEW x \in Statuses, Status(e) = x
    PROVE  exps[e] # Nothing /\ exps[e].status = x
BY NothingAssumption DEF Status, Statuses

LEMMA ObserveKeeps == ASSUME ScopeInv, NEW c \in Clients, Observe(c) PROVE ScopeInv'
<1>1. PICK e \in Names : \E r \in Results[e] : Status(e) = "running" /\ ReadFor(c, e, "write", <<{}, {r}>>)
  BY DEF Observe
<1>2. PICK r \in Results[e] : ReadFor(c, e, "write", <<{}, {r}>>)
  BY <1>1
<1> DEFINE new == <<{}, {r}>>
<1>3. new \in Changes
  BY ScopeAssumption DEF Changes
<1>4. exps[e] # Nothing /\ exps[e].status = "running"
  BY <1>1, StatusTells DEF Statuses
<1>5. Changing(new, exps[e].runs)
  BY DEF Changing
<1>6. ReadFor(c, e, "write", new)
  BY <1>2
<1> HIDE DEF new
<1> QED BY <1>3, <1>4, <1>5, <1>6, ReadKeepsScope

LEMMA RateKeepsScope == ASSUME ScopeInv, NEW c \in Clients, Rate(c) PROVE ScopeInv'
<1>1. PICK e \in Names : /\ Status(e) = "running"
                         /\ \E r \in exps[e].runs, p \in {"useful", "discarded"} :
                               /\ r.product = "unrated"
                               /\ ReadFor(c, e, "write", <<{r}, {[r EXCEPT !.product = p]}>>)
  BY DEF Rate
<1>2. PICK r \in exps[e].runs, p \in {"useful", "discarded"} :
        r.product = "unrated" /\ ReadFor(c, e, "write", <<{r}, {[r EXCEPT !.product = p]}>>)
  BY <1>1
<1> DEFINE new == <<{r}, {[r EXCEPT !.product = p]}>>
<1>3. exps[e] # Nothing /\ exps[e].status = "running"
  BY <1>1, StatusTells DEF Statuses
<1>4. r \in Observations /\ p \in Products
  BY <1>3 DEF ScopeInv, ScopeTyped, Documents, Products
<1>5. [r EXCEPT !.product = p] \in Observations
  BY <1>4 DEF Observations
<1>6. new \in Changes
  BY <1>4, <1>5 DEF Changes
<1>7. Changing(new, exps[e].runs)
  BY <1>2, <1>4 DEF Changing
<1>8. ReadFor(c, e, "write", new)
  BY <1>2
<1> HIDE DEF new
<1> QED BY <1>3, <1>6, <1>7, <1>8, ReadKeepsScope

LEMMA PromoteKeeps == ASSUME ScopeInv, NEW c \in Clients, Promote(c) PROVE ScopeInv'
<1>1. PICK e \in Names : Status(e) = "promotion-ready" /\ Accepted(exps[e].runs) /\ ReadFor(c, e, "crown", Nothing)
  BY DEF Promote
<1>2. exps[e] # Nothing /\ exps[e].status = "promotion-ready"
  BY <1>1, StatusTells DEF Statuses
<1> QED BY <1>1, <1>2, ReadKeepsScope

(* A call that ends having written the document of e, or nothing.           *)
LEMMA EndKeeps ==
    ASSUME ScopeInv, NEW c \in Clients, NEW D, EndRequest(c, D),
           champ' = champ, UNCHANGED <<index, pool, tick>>, exps' \in [Names -> Documents \cup {Nothing}],
           \A e \in Names \ D : exps'[e] = exps[e],
           \A e \in Names : Won(exps[e]) => Won(exps'[e]),
           \A e \in Names : exps'[e] # Nothing <=> exps[e] # Nothing
    PROVE  ScopeInv'
<1>1. request' = [request EXCEPT ![c] = NoRequest] /\ \A f \in current' : f \in current /\ f[2] \notin D
  BY DEF EndRequest
<1>2. ASSUME NEW d \in Clients \ {c} PROVE AskGood(d, request[d], champ', exps', current')
  <2>1. AskGood(d, request[d], champ, exps, current)
    BY DEF ScopeInv
  <2>2. \A x : <<d, x>> \in current' => <<d, x>> \in current /\ x \notin D
    BY <1>1
  <2>3. \A e \in Names : <<d, e>> \in current' => exps'[e] = exps[e]
    BY <2>2
  <2> QED BY <2>1, <2>2, <2>3, AskStays
<1>3. AskGood(c, NoRequest, champ', exps', current') /\ NoRequest \in Requests
  BY UnaskedGood
<1>4. request' \in [Clients -> Requests] /\ \A d \in Clients : AskGood(d, request'[d], champ', exps', current')
  BY <1>1, <1>2, <1>3, AskMoves
<1>5. \A t \in Ticks : TickGood(tick'[t], champ', exps')
  <2>1. \A t \in Ticks : tick'[t].at \in {"baseline", "seed", "store"} => tick'[t].e \in Names
    BY DEF ScopeInv, TickGood, Packaging
  <2> QED BY <2>1 DEF ScopeInv, TickGood, Packaging
<1> QED BY <1>4, <1>5 DEF ScopeInv, ScopeTyped

LEMMA ChangedIs ==
    ASSUME NEW doc \in Documents, NEW new \in Changes
    PROVE  /\ Changed(doc, new) \in Documents /\ Changed(doc, new) # Nothing
           /\ Changed(doc, new).runs = (doc.runs \ new[1]) \cup new[2]
<1>1. (doc.runs \ new[1]) \cup new[2] \in SUBSET Observations
  BY DEF Documents, Changes
<1> QED BY <1>1, DocumentIs DEF Changed

LEMMA WriteRunKeeps == ASSUME ScopeInv, NEW c \in Clients, WriteRun(c) PROVE ScopeInv'
<1> DEFINE e == request[c].e
           new == request[c].new
<1>1. AskGood(c, request[c], champ, exps, current) /\ request[c].at = "write" /\ e \in Names /\ new \in Changes
  BY DEF ScopeInv, AskGood, WriteRun
<1>2. champ' = champ /\ UNCHANGED <<index, pool, tick>>
  BY DEF WriteRun
<1>3. CASE <<c, e>> \in current /\ exps' = [exps EXCEPT ![e] = Changed(exps[e], new)] /\ EndRequest(c, {e})
  <2>1. exps[e] # Nothing /\ exps[e].status = "running" /\ exps[e] \in Documents
    BY <1>1, <1>3 DEF AskGood, ScopeInv, ScopeTyped
  <2>2. Changed(exps[e], new) \in Documents /\ Changed(exps[e], new) # Nothing
    BY <1>1, <2>1, ChangedIs
  <2>3. exps' \in [Names -> Documents \cup {Nothing}] /\ \A f \in Names \ {e} : exps'[f] = exps[f]
    BY <1>1, <1>3, <2>2 DEF ScopeInv, ScopeTyped
  <2>4. exps'[e] # Nothing
    BY <1>1, <1>3, <2>2 DEF ScopeInv, ScopeTyped
  <2>5. ~Won(exps[e])
    BY <2>1 DEF Won
  <2> QED BY <1>2, <1>3, <2>1, <2>3, <2>4, <2>5, EndKeeps
<1>4. CASE EndRequest(c, {}) /\ UNCHANGED exps
  BY <1>2, <1>4, EndKeeps DEF ScopeInv, ScopeTyped
<1> QED BY <1>3, <1>4 DEF WriteRun

LEMMA MarkKeeps == ASSUME ScopeInv, NEW c \in Clients, Mark(c) PROVE ScopeInv'
<1> DEFINE e == request[c].e
<1>1. AskGood(c, request[c], champ, exps, current) /\ request[c].at = "mark" /\ e \in Names /\ Won(exps[e])
  BY DEF ScopeInv, AskGood, Mark, Promoting
<1>2. champ' = champ /\ UNCHANGED <<index, pool, tick>>
  BY DEF Mark
<1>3. CASE exps' = [exps EXCEPT ![e].status = "promoted"] /\ EndRequest(c, {e})
  <2> DEFINE new == [exps[e] EXCEPT !.status = "promoted"]
  <2>1. exps[e] # Nothing /\ exps[e] \in Documents
    BY <1>1 DEF Won, ScopeInv, ScopeTyped
  <2>2. new \in Documents /\ new.status = "promoted" /\ new.runs = exps[e].runs
    BY <2>1 DEF Documents, Statuses
  <2>3. exps' = [exps EXCEPT ![e] = new]
    BY <1>3
  <2> HIDE DEF new
  <2>4. exps' \in [Names -> Documents \cup {Nothing}] /\ exps'[e] = new
        /\ \A f \in Names \ {e} : exps'[f] = exps[f]
    BY <1>1, <2>2, <2>3 DEF ScopeInv, ScopeTyped
  <2>5. new # Nothing /\ Won(new)
    BY <1>1, <2>2, NothingAssumption DEF Won
  <2>6. \A f \in Names : /\ Won(exps[f]) => Won(exps'[f])
                         /\ exps'[f] # Nothing <=> exps[f] # Nothing
    BY <2>1, <2>4, <2>5
  <2> QED BY <1>2, <1>3, <2>4, <2>6, EndKeeps
<1>4. CASE EndRequest(c, {}) /\ UNCHANGED exps
  BY <1>2, <1>4, EndKeeps DEF ScopeInv, ScopeTyped
<1> QED BY <1>3, <1>4 DEF Mark

LEMMA CallDiesKeeps == ASSUME ScopeInv, NEW c \in Clients, CallDies(c) PROVE ScopeInv'
<1>1. EndRequest(c, {}) /\ UNCHANGED <<champ, exps, index, pool, tick>>
  BY DEF CallDies, docs
<1> QED BY <1>1, EndKeeps DEF ScopeInv, ScopeTyped

LEMMA CrownKeeps == ASSUME ScopeInv, NEW c \in Clients, Crown(c) PROVE ScopeInv'
<1> DEFINE e == request[c].e
           m(at) == [request[c] EXCEPT !.at = at]
<1>1. AskGood(c, request[c], champ, exps, current) /\ request[c].at = "crown" /\ e \in Names /\ Won(exps[e])
      /\ champ # Nothing /\ e # "champ"
  BY NothingAssumption DEF ScopeInv, AskGood, Crown, Promoting
<1>2. UNCHANGED <<champ, exps, index, pool, tick>>
  BY DEF Crown, docs
<1>3. \A at \in Steps : m(at) \in Requests /\ m(at).at = at /\ m(at).e = e
  BY DEF ScopeInv, ScopeTyped, Requests
<1>4. CASE EndRequest(c, {})
  BY <1>2, <1>4, EndKeeps DEF ScopeInv, ScopeTyped
<1>5. ASSUME NEW at \in {"swap", "mark"}, request' = [request EXCEPT ![c] = m(at)],
             current' \subseteq current \cup {<<c, "champ">>}, at = "swap" => champ.config = Champion[e]
      PROVE  ScopeInv'
  <2>1. m(at) \in Requests /\ m(at).at = at /\ m(at).e = e
    BY <1>3 DEF Steps
  <2> HIDE DEF m
  <2>2. <<c, e>> \in current' => exps[e].status = "promotion-ready"
    BY <1>1, <1>5 DEF AskGood, Promoting
  <2>3. AskGood(c, m(at), champ, exps, current')
    BY <1>1, <1>5, <2>1, <2>2 DEF AskGood, Promoting
  <2>4. ASSUME NEW d \in Clients \ {c} PROVE AskGood(d, request[d], champ', exps', current')
    <3>1. AskGood(d, request[d], champ, exps, current) /\ \A x : <<d, x>> \in current' => <<d, x>> \in current
      BY <1>5 DEF ScopeInv
    <3>2. champ' = champ /\ exps' = exps
      BY <1>2
    <3>3. /\ \A f \in Names : <<d, f>> \in current' => exps'[f] = exps[f]
          /\ \A f \in Names : Won(exps[f]) => Won(exps'[f])
      BY <3>2
    <3>4. (<<d, "champ">> \in current' => champ' = champ) /\ (champ # Nothing => champ' # Nothing)
      BY <3>2
    <3> QED BY <3>1, <3>3, <3>4, AskStays
  <2>5. request' \in [Clients -> Requests] /\ \A d \in Clients : AskGood(d, request'[d], champ', exps', current')
    BY <1>2, <1>5, <2>1, <2>3, <2>4, AskMoves
  <2> QED BY <1>2, <2>5, TicksRest DEF ScopeInv, ScopeTyped
<1>6. CASE champ.config = Champion[e] /\ request' = [request EXCEPT ![c].at = "swap"]
           /\ current' = current \cup {<<c, "champ">>}
  BY <1>5, <1>6
<1>7. CASE request' = [request EXCEPT ![c].at = "mark"] /\ UNCHANGED current
  BY <1>5, <1>7
<1> QED BY <1>4, <1>6, <1>7 DEF Crown

LEMMA SwapKeeps == ASSUME ScopeInv, NEW c \in Clients, Swap(c) PROVE ScopeInv'
<1> DEFINE e == request[c].e
           m == [request[c] EXCEPT !.at = "mark"]
<1>1. AskGood(c, request[c], champ, exps, current) /\ request[c].at = "swap" /\ e \in Names /\ Won(exps[e])
      /\ champ # Nothing /\ e # "champ"
  BY NothingAssumption DEF ScopeInv, AskGood, Swap, Promoting
<1>2. UNCHANGED <<exps, index, pool, tick>>
  BY DEF Swap
<1>3. m \in Requests /\ m.at = "mark" /\ m.e = e
  BY DEF ScopeInv, ScopeTyped, Requests, Steps
<1>4. CASE EndRequest(c, {}) /\ UNCHANGED champ
  BY <1>2, <1>4, EndKeeps DEF ScopeInv, ScopeTyped
<1>5. CASE champ' = [config |-> Challenger[e], by |-> e] /\ Unread("champ") /\ request' = [request EXCEPT ![c] = m]
  <2>1. champ' \in Champions /\ champ' # Nothing
    BY <1>1, <1>5, ChampionIs
  <2>2. \A f \in current' : f \in current /\ f[2] # "champ"
    BY <1>5 DEF Unread
  <2> HIDE DEF m
  <2>3. AskGood(c, m, champ', exps', current')
    BY <1>1, <1>2, <1>3, <2>1, <2>2 DEF AskGood, Promoting
  <2>4. ASSUME NEW d \in Clients \ {c} PROVE AskGood(d, request[d], champ', exps', current')
    <3>1. AskGood(d, request[d], champ, exps, current) /\ \A x : <<d, x>> \in current' => <<d, x>> \in current
      BY <2>2 DEF ScopeInv
    <3>2. exps' = exps
      BY <1>2
    <3>3. /\ \A f \in Names : <<d, f>> \in current' => exps'[f] = exps[f]
          /\ \A f \in Names : Won(exps[f]) => Won(exps'[f])
      BY <3>2
    <3>4. <<d, "champ">> \notin current'
      BY <2>2
    <3> QED BY <2>1, <3>1, <3>3, <3>4, AskStays
  <2>5. request' \in [Clients -> Requests] /\ \A d \in Clients : AskGood(d, request'[d], champ', exps', current')
    BY <1>3, <1>5, <2>3, <2>4, AskMoves
  <2>6. \A t \in Ticks : TickGood(tick'[t], champ', exps')
    BY <1>1, <1>2, <2>1 DEF ScopeInv, TickGood
  <2> QED BY <1>2, <2>1, <2>5, <2>6 DEF ScopeInv, ScopeTyped
<1> QED BY <1>4, <1>5 DEF Swap

-------------------------------------------------------------------------------
(* Ticks.                                                                   *)

Places == [at : Stages, e : Names \cup {Nothing}, todo : SUBSET Names]

LEMMA AsksRest ==
    ScopeInv /\ UNCHANGED <<champ, exps, request, current>>
    => \A c \in Clients : AskGood(c, request'[c], champ', exps', current')
BY DEF ScopeInv

LEMMA TickMoves ==
    ASSUME ScopeInv, NEW t \in Ticks, NEW m \in Places, tick' = [tick EXCEPT ![t] = m], TickGood(m, champ, exps),
           UNCHANGED <<champ, exps, pool, request, current>>, index' \subseteq Names
    PROVE  ScopeInv'
<1>1. \A s \in Ticks : TickGood(tick'[s], champ', exps')
  BY DEF ScopeInv, ScopeTyped
<1>2. tick' \in [Ticks -> Places]
  BY DEF ScopeInv, ScopeTyped, Places
<1> QED BY <1>1, <1>2, AsksRest DEF ScopeInv, ScopeTyped, Places

LEMMA TickGoes ==
    ASSUME ScopeInv, NEW t \in Ticks, NEW at \in Stages, Go(t, at),
           LET m == [tick[t] EXCEPT !.at = at] IN m.at = at /\ m.e = tick[t].e => TickGood(m, champ, exps),
           UNCHANGED <<champ, exps, index, pool, request, current>>
    PROVE  ScopeInv'
<1> DEFINE m == [tick[t] EXCEPT !.at = at]
<1>1. m \in Places /\ m.at = at /\ m.e = tick[t].e
  BY DEF ScopeInv, ScopeTyped, Places
<1>2. tick' = [tick EXCEPT ![t] = m]
  BY DEF Go
<1>3. TickGood(m, champ, exps)
  BY <1>1
<1> HIDE DEF m
<1>4. index' \subseteq Names
  BY DEF ScopeInv, ScopeTyped
<1> QED BY <1>1, <1>2, <1>3, <1>4, TickMoves

LEMMA LoadKeeps == ASSUME ScopeInv, NEW t \in Ticks, Load(t) PROVE ScopeInv'
<1>1. UNCHANGED <<champ, exps, index, pool, request, current>>
  BY DEF Load, docs
<1>2. index \subseteq Names /\ Pools[pool] \in Seq(Names)
  BY ScopeAssumption DEF ScopeInv, ScopeTyped
<1>3. ASSUME NEW at \in {"conclude", "create"}, NEW e \in Names \cup {Nothing}, Begin(t, at, e),
             at = "create" => e \in Names
      PROVE  ScopeInv'
  <2> DEFINE m == [at |-> at, e |-> e, todo |-> index]
  <2>1. m \in Places /\ m.at = at /\ m.e = e
    BY <1>2 DEF Places, Stages
  <2>2. TickGood(m, champ, exps) /\ tick' = [tick EXCEPT ![t] = m]
    BY <1>3, <2>1 DEF TickGood, Packaging, Begin
  <2> HIDE DEF m
  <2> QED BY <1>1, <1>2, <2>1, <2>2, TickMoves
<1>4. \A i \in DOMAIN Pools[pool] : Pools[pool][i] \in Names
  BY <1>2
<1>5. Begin(t, "conclude", Nothing) \/ \E i \in DOMAIN Pools[pool] : Begin(t, "create", Pools[pool][i])
  BY DEF Load
<1> QED BY <1>3, <1>4, <1>5

LEMMA RefuseKeepsScope == ASSUME ScopeInv, NEW t \in Ticks, RefusePackage(t) PROVE ScopeInv'
<1>1. UNCHANGED <<champ, exps, index, pool, request, current>> /\ Go(t, "conclude") /\ "conclude" \in Stages
  BY DEF RefusePackage, docs, Stages
<1>2. LET m == [tick[t] EXCEPT !.at = "conclude"] IN m.at = "conclude" /\ m.e = tick[t].e => TickGood(m, champ, exps)
  BY DEF TickGood, Packaging
<1> QED BY <1>1, <1>2, TickGoes

LEMMA CreateReadKeeps == ASSUME ScopeInv, NEW t \in Ticks, CreateRead(t) PROVE ScopeInv'
<1> DEFINE at == IF exps[tick[t].e] = Nothing THEN "baseline" ELSE "append"
<1>1. UNCHANGED <<champ, exps, index, pool, request, current>> /\ Go(t, at) /\ at \in Stages
  BY DEF CreateRead, docs, Stages
<1>2. tick[t].e \in Names
  BY DEF ScopeInv, TickGood, Packaging, CreateRead
<1>3. LET m == [tick[t] EXCEPT !.at = at] IN m.at = at /\ m.e = tick[t].e => TickGood(m, champ, exps)
  BY <1>2 DEF TickGood, Packaging
<1> HIDE DEF at
<1> QED BY <1>1, <1>3, TickGoes

LEMMA BaselineKeeps == ASSUME ScopeInv, NEW t \in Ticks, Baseline(t) PROVE ScopeInv'
<1> DEFINE at == IF champ = Nothing THEN "seed"
                 ELSE IF champ.config = Champion[tick[t].e] THEN "store" ELSE "conclude"
<1>1. UNCHANGED <<champ, exps, index, pool, request, current>> /\ Go(t, at) /\ at \in Stages
  BY DEF Baseline, docs, Stages
<1>2. tick[t].e \in Names /\ exps[tick[t].e] = Nothing
  BY DEF ScopeInv, TickGood, Packaging, Baseline
<1>3. LET m == [tick[t] EXCEPT !.at = at] IN m.at = at /\ m.e = tick[t].e => TickGood(m, champ, exps)
  BY <1>2 DEF TickGood, Packaging
<1> HIDE DEF at
<1> QED BY <1>1, <1>3, TickGoes

(* Nobody has a promotion in hand while there is no champion.               *)
LEMMA NobodyPromotes ==
    ASSUME ScopeInv, champ = Nothing, NEW c \in Clients
    PROVE  request[c].at \notin Promoting /\ \A e \in Names : exps[e] = Nothing
BY DEF ScopeInv, AskGood

LEMMA SeedKeeps ==
    ASSUME ScopeInv, \A s, t \in Ticks : s = t, NEW t \in Ticks, Seed(t)
    PROVE  ScopeInv' /\ champ = Nothing
<1> DEFINE m == [tick[t] EXCEPT !.at = "store"]
<1>1. tick[t].e \in Names /\ exps[tick[t].e] = Nothing /\ champ = Nothing
  BY DEF ScopeInv, TickGood, Packaging, Seed
<1>2. /\ champ' = [config |-> Champion[tick[t].e], by |-> Nothing] /\ Unread("champ") /\ Go(t, "store")
      /\ UNCHANGED <<exps, index, pool, request>>
  BY DEF Seed
<1>3. champ' \in Champions /\ champ' # Nothing
  BY <1>1, <1>2, ChampionIs
<1>4. \A f \in current' : f \in current /\ f[2] # "champ"
  BY <1>2 DEF Unread
<1>5. ASSUME NEW d \in Clients PROVE AskGood(d, request'[d], champ', exps', current')
  <2>1. AskGood(d, request[d], champ, exps, current) /\ \A x : <<d, x>> \in current' => <<d, x>> \in current
    BY <1>4 DEF ScopeInv
  <2>2. exps' = exps /\ request' = request
    BY <1>2
  <2>3. /\ \A f \in Names : <<d, f>> \in current' => exps'[f] = exps[f]
        /\ \A f \in Names : Won(exps[f]) => Won(exps'[f])
    BY <2>2
  <2>4. <<d, "champ">> \notin current'
    BY <1>4
  <2>5. AskGood(d, request[d], champ', exps', current')
    BY <1>3, <2>1, <2>3, <2>4, AskStays
  <2> QED BY <2>2, <2>5
<1>6. m \in Places /\ m.at = "store" /\ m.e = tick[t].e
  BY DEF ScopeInv, ScopeTyped, Places, Stages
<1>7. tick' = [tick EXCEPT ![t] = m]
  BY <1>2 DEF Go
<1> HIDE DEF m
<1>8. TickGood(m, champ', exps')
  BY <1>1, <1>2, <1>3, <1>6 DEF TickGood, Packaging
<1>9. tick' \in [Ticks -> Places] /\ \A s \in Ticks : TickGood(tick'[s], champ', exps')
  BY <1>6, <1>7, <1>8 DEF ScopeInv, ScopeTyped, Places
<1> QED BY <1>1, <1>2, <1>3, <1>5, <1>9 DEF ScopeInv, ScopeTyped, Places

LEMMA StoreKeepsScope ==
    ASSUME ScopeInv, \A s, t \in Ticks : s = t, NEW t \in Ticks, Store(t)
    PROVE  ScopeInv' /\ exps[tick[t].e] = Nothing
<1> DEFINE e == tick[t].e
           m == [tick[t] EXCEPT !.at = "append"]
<1>1. e \in Names /\ exps[e] = Nothing /\ champ # Nothing /\ tick[t].at = "store"
  BY DEF ScopeInv, TickGood, Packaging, Store
<1>2. /\ exps' = [exps EXCEPT ![e] = Document({})] /\ Unread(e) /\ Go(t, "append")
      /\ UNCHANGED <<champ, index, pool, request>>
  BY DEF Store
<1>3. Document({}) \in Documents
  BY DocumentIs
<1>4. exps' \in [Names -> Documents \cup {Nothing}] /\ \A f \in Names \ {e} : exps'[f] = exps[f]
  BY <1>1, <1>2, <1>3 DEF ScopeInv, ScopeTyped
<1>5. \A f \in current' : f \in current /\ f[2] # e
  BY <1>2 DEF Unread
<1>6. ASSUME NEW d \in Clients PROVE AskGood(d, request'[d], champ', exps', current')
  <2>1. AskGood(d, request[d], champ, exps, current) /\ \A x : <<d, x>> \in current' => <<d, x>> \in current /\ x # e
    BY <1>5 DEF ScopeInv
  <2>2. champ' = champ /\ request' = request
    BY <1>2
  <2>3. \A f \in Names : <<d, f>> \in current' => exps'[f] = exps[f]
    BY <1>4, <2>1
  <2>4. \A f \in Names : Won(exps[f]) => Won(exps'[f])
    <3>1. ~Won(exps[e])
      BY <1>1 DEF Won
    <3> QED BY <1>4, <3>1
  <2>5. AskGood(d, request[d], champ', exps', current')
    BY <2>1, <2>2, <2>3, <2>4, AskStays
  <2> QED BY <2>2, <2>5
<1>7. m \in Places /\ m.at = "append" /\ m.e = e
  BY DEF ScopeInv, ScopeTyped, Places, Stages
<1>8. tick' = [tick EXCEPT ![t] = m]
  BY <1>2 DEF Go
<1> HIDE DEF m
<1>9. TickGood(m, champ', exps')
  BY <1>1, <1>7 DEF TickGood, Packaging
<1>10. tick' \in [Ticks -> Places] /\ \A s \in Ticks : TickGood(tick'[s], champ', exps')
  BY <1>7, <1>8, <1>9 DEF ScopeInv, ScopeTyped, Places
<1> QED BY <1>1, <1>2, <1>4, <1>6, <1>10 DEF ScopeInv, ScopeTyped, Places

LEMMA EnterKeeps == ASSUME ScopeInv, NEW t \in Ticks, Enter(t) PROVE ScopeInv'
<1> DEFINE e == tick[t].e
           m == [tick[t] EXCEPT !.at = "conclude", !.todo = tick[t].todo \cup {e}]
<1>1. e \in Names
  BY DEF ScopeInv, TickGood, Packaging, Enter
<1>2. UNCHANGED <<champ, exps, pool, request, current>> /\ index' \subseteq Names
  BY <1>1 DEF Enter, ScopeInv, ScopeTyped
<1>3. m \in Places /\ m.at = "conclude"
  BY <1>1 DEF ScopeInv, ScopeTyped, Places, Stages
<1>4. tick' = [tick EXCEPT ![t] = m]
  BY DEF Enter
<1> HIDE DEF m
<1>5. TickGood(m, champ, exps)
  BY <1>3 DEF TickGood, Packaging
<1> QED BY <1>2, <1>3, <1>4, <1>5, TickMoves

LEMMA RestingGood == Resting \in Places /\ TickGood(Resting, champ, exps)
BY DEF Resting, Places, Stages, TickGood, Packaging

LEMMA ConcludeEntryKeeps == ASSUME ScopeInv, NEW t \in Ticks, ConcludeEntry(t) PROVE ScopeInv'
<1>1. UNCHANGED <<champ, exps, index, pool, request, current>> /\ index' \subseteq Names
  BY DEF ConcludeEntry, docs, ScopeInv, ScopeTyped
<1>2. CASE tick' = [tick EXCEPT ![t] = Resting]
  BY <1>1, <1>2, RestingGood, TickMoves
<1>3. ASSUME NEW e \in tick[t].todo, NEW at \in Decided \cup {"conclude"}, NEW next \in {e, Nothing}, After(t, e, at, next)
      PROVE  ScopeInv'
  <2> DEFINE m == [at |-> at, e |-> next, todo |-> tick[t].todo \ {e}]
  <2>1. tick[t].todo \in SUBSET Names
    BY DEF ScopeInv, ScopeTyped
  <2>2. m \in Places /\ m.at = at
    BY <2>1 DEF Places, Stages
  <2>3. tick' = [tick EXCEPT ![t] = m]
    BY <1>3 DEF After
  <2> HIDE DEF m
  <2>4. TickGood(m, champ, exps)
    BY <2>2 DEF TickGood, Packaging, Decided
  <2> QED BY <1>1, <2>2, <2>3, <2>4, TickMoves
<1>4. ASSUME NEW e \in tick[t].todo, IF Status(e) \in Decided /\ summary[e] = Nothing
                                     THEN After(t, e, Status(e), e) ELSE After(t, e, "conclude", Nothing)
      PROVE  ScopeInv'
  BY <1>3, <1>4
<1> QED BY <1>2, <1>4 DEF ConcludeEntry

LEMMA SummarizeKeeps == ASSUME ScopeInv, NEW t \in Ticks, Summarize(t) PROVE ScopeInv'
<1>1. UNCHANGED <<champ, exps, index, pool, request, current>> /\ Go(t, "conclude") /\ "conclude" \in Stages
  BY DEF Summarize, Stages
<1>2. LET m == [tick[t] EXCEPT !.at = "conclude"] IN m.at = "conclude" /\ m.e = tick[t].e => TickGood(m, champ, exps)
  BY DEF TickGood, Packaging
<1> QED BY <1>1, <1>2, TickGoes

LEMMA TickDiesKeeps == ASSUME ScopeInv, NEW t \in Ticks, TickDies(t) PROVE ScopeInv'
<1>1. UNCHANGED <<champ, exps, index, pool, request, current>> /\ tick' = [tick EXCEPT ![t] = Resting]
      /\ index' \subseteq Names
  BY DEF TickDies, docs, ScopeInv, ScopeTyped
<1> QED BY <1>1, RestingGood, TickMoves

LEMMA GrowKeeps == ScopeInv /\ Grow => ScopeInv'
<1> SUFFICES ASSUME ScopeInv, Grow PROVE ScopeInv'
  OBVIOUS
<1>1. UNCHANGED <<champ, exps, index, tick, request, current>>
  BY DEF Grow, docs
<1>2. pool' \in 1 .. Len(Pools)
  BY ScopeAssumption DEF Grow, ScopeInv, ScopeTyped
<1> QED BY <1>1, <1>2, AsksRest, TicksRest DEF ScopeInv, ScopeTyped

-------------------------------------------------------------------------------
(* The invariant, and what steps do to documents and to the champion.       *)

LEMMA ScopeStarts == ScopeInit => ScopeInv
<1> SUFFICES ASSUME ScopeInit PROVE ScopeInv
  OBVIOUS
<1>1. pool \in 1 .. Len(Pools)
  <2>1. Len(Pools) \in Nat /\ Len(Pools) # 0
    BY ScopeAssumption
  <2> QED BY <2>1 DEF ScopeInit
<1>2. request \in [Clients -> Requests] /\ \A c \in Clients : AskGood(c, request[c], champ, exps, current)
  BY UnaskedGood DEF ScopeInit
<1>3. tick \in [Ticks -> Places] /\ \A t \in Ticks : TickGood(tick[t], champ, exps)
  BY RestingGood DEF ScopeInit
<1>4. /\ champ \in Champions \cup {Nothing} /\ exps \in [Names -> Documents \cup {Nothing}] /\ index \subseteq Names
      /\ \A e \in Names : exps[e] # Nothing => champ # Nothing
  <2>1. CASE champ = Nothing /\ exps = [e \in Names |-> Nothing] /\ index = {}
    BY <2>1
  <2>2. ASSUME NEW e \in Names, NEW runs \in SUBSET Results[e], champ = [config |-> Champion[e], by |-> Nothing],
               exps = [f \in Names |-> IF f = e THEN Document(runs) ELSE Nothing], index = {e}
        PROVE  /\ champ \in Champions /\ champ # Nothing
               /\ exps \in [Names -> Documents \cup {Nothing}] /\ index \subseteq Names
    <3>1. runs \in SUBSET Observations
      BY ScopeAssumption
    <3>2. Document(runs) \in Documents
      BY <3>1, DocumentIs
    <3> QED BY <2>2, <3>2, ChampionIs
  <2> QED BY <2>1, <2>2 DEF ScopeInit
<1> QED BY <1>1, <1>2, <1>3, <1>4 DEF ScopeInv, ScopeTyped, Places

(* How a step may change the documents and the champion.                    *)
ExperimentMoves ==
    \/ UNCHANGED exps
    \/ \E e \in Names :
         /\ \A f \in Names \ {e} : exps'[f] = exps[f]
         /\ \/ exps[e] = Nothing /\ exps'[e].status # "promoted"
            \/ /\ exps[e] # Nothing /\ exps[e].status = "running"
               /\ \E new \in Changes : Changing(new, exps[e].runs) /\ exps'[e] = Changed(exps[e], new)
            \/ /\ exps[e] # Nothing /\ exps[e].status = "promotion-ready"
               /\ exps'[e] = [exps[e] EXCEPT !.status = "promoted"]
               /\ \E c \in Clients : request[c].at = "mark" /\ request[c].e = e

ChampionMoves ==
    \/ UNCHANGED champ
    \/ champ = Nothing /\ champ'.by = Nothing
    \/ \E c \in Clients : /\ request[c].at = "swap" /\ <<c, "champ">> \in current
                          /\ champ' = [config |-> Challenger[request[c].e], by |-> request[c].e]
                          /\ exps' = exps

AskMovesOn ==
    \A c \in Clients : request'[c].at = "mark" =>
        \/ request'[c] = request[c]
        \/ request'[c].e = request[c].e /\ request[c].e \in Names
           /\ champ' = [config |-> Challenger[request[c].e], by |-> request[c].e]

StepKeeps ==
    ScopeInv' /\ ExperimentMoves /\ ChampionMoves /\ AskMovesOn

LEMMA AskEnds ==
    ASSUME ScopeInv, NEW c \in Clients, NEW D, EndRequest(c, D) PROVE AskMovesOn
BY DEF AskMovesOn, EndRequest, NoRequest, ScopeInv, ScopeTyped

LEMMA StepMoves ==
    ASSUME ScopeInv, \A s, t \in Ticks : s = t, [ScopeNext]_scopeVars
    PROVE  StepKeeps
<1>1. ASSUME UNCHANGED <<champ, exps, request>> PROVE ExperimentMoves /\ ChampionMoves /\ AskMovesOn
  BY <1>1 DEF ExperimentMoves, ChampionMoves, AskMovesOn
<1>2. CASE UNCHANGED scopeVars
  <2>1. UNCHANGED <<champ, exps, request, index, pool, tick, current>>
    BY <1>2 DEF scopeVars
  <2> QED BY <1>1, <2>1, AsksRest, TicksRest DEF StepKeeps, ScopeInv, ScopeTyped
<1>3. ASSUME NEW t \in Ticks, Load(t) \/ CreateRead(t) \/ Baseline(t) \/ Enter(t) \/ ConcludeEntry(t) \/ Summarize(t)
                              \/ RefusePackage(t) \/ TickDies(t)
      PROVE  StepKeeps
  <2>1. UNCHANGED <<champ, exps, request>>
    BY <1>3 DEF Load, CreateRead, Baseline, Enter, ConcludeEntry, Summarize, RefusePackage, TickDies, docs
  <2>2. ScopeInv'
    BY <1>3, LoadKeeps, CreateReadKeeps, BaselineKeeps, EnterKeeps, ConcludeEntryKeeps, SummarizeKeeps,
       RefuseKeepsScope, TickDiesKeeps
  <2> QED BY <1>1, <2>1, <2>2 DEF StepKeeps
<1>4. CASE Grow
  <2>1. UNCHANGED <<champ, exps, request>>
    BY <1>4 DEF Grow, docs
  <2> QED BY <1>1, <1>4, <2>1, GrowKeeps DEF StepKeeps
<1>5. ASSUME NEW t \in Ticks, Seed(t) PROVE StepKeeps
  <2>1. UNCHANGED <<exps, request>>
    BY <1>5 DEF Seed
  <2>2. ScopeInv' /\ champ = Nothing /\ champ'.by = Nothing
    BY <1>5, SeedKeeps DEF Seed
  <2>3. AskMovesOn
    BY <2>1 DEF AskMovesOn
  <2> QED BY <2>1, <2>2, <2>3 DEF StepKeeps, ExperimentMoves, ChampionMoves
<1>6. ASSUME NEW t \in Ticks, Store(t) PROVE StepKeeps
  <2> DEFINE e == tick[t].e
  <2>1. UNCHANGED <<champ, request>> /\ exps' = [exps EXCEPT ![e] = Document({})]
    BY <1>6 DEF Store
  <2>2. ScopeInv' /\ exps[e] = Nothing
    BY <1>6, StoreKeepsScope
  <2>3. e \in Names
    BY <1>6 DEF ScopeInv, TickGood, Packaging, Store
  <2>4. Document({}).status # "promoted"
    BY DocumentIs
  <2>5. ExperimentMoves
    <3>1. exps'[e] = Document({}) /\ \A f \in Names \ {e} : exps'[f] = exps[f]
      BY <2>1, <2>3 DEF ScopeInv, ScopeTyped
    <3> QED BY <2>2, <2>3, <2>4, <3>1 DEF ExperimentMoves
  <2> QED BY <2>1, <2>2, <2>5 DEF StepKeeps, ChampionMoves, AskMovesOn
<1>7. ASSUME NEW c \in Clients, Observe(c) \/ Rate(c) \/ Promote(c) PROVE StepKeeps
  <2>1. UNCHANGED <<champ, exps>>
    BY <1>7 DEF Observe, Rate, Promote, ReadFor, docs
  <2>2. ScopeInv'
    BY <1>7, ObserveKeeps, RateKeepsScope, PromoteKeeps
  <2>3. ASSUME NEW e, NEW new, NEW at, at # "mark", ReadFor(c, e, at, new) PROVE AskMovesOn
    <3>1. request' = [request EXCEPT ![c] = [at |-> at, e |-> e, new |-> new]]
      BY <2>3 DEF ReadFor
    <3> QED BY <2>3, <3>1 DEF AskMovesOn, ScopeInv, ScopeTyped
  <2>4. "write" # "mark" /\ "crown" # "mark"
    OBVIOUS
  <2>5. AskMovesOn
    BY <1>7, <2>3, <2>4 DEF Observe, Rate, Promote
  <2> QED BY <2>1, <2>2, <2>5 DEF StepKeeps, ExperimentMoves, ChampionMoves
<1>8. ASSUME NEW c \in Clients, CallDies(c) PROVE StepKeeps
  <2>1. UNCHANGED <<champ, exps>> /\ EndRequest(c, {})
    BY <1>8 DEF CallDies, docs
  <2> QED BY <1>8, <2>1, CallDiesKeeps, AskEnds DEF StepKeeps, ExperimentMoves, ChampionMoves
<1>9. ASSUME NEW c \in Clients, WriteRun(c) PROVE StepKeeps
  <2> DEFINE e == request[c].e
             new == request[c].new
  <2>1. UNCHANGED champ /\ AskMovesOn
    BY <1>9, AskEnds DEF WriteRun
  <2>2. AskGood(c, request[c], champ, exps, current) /\ request[c].at = "write" /\ e \in Names /\ new \in Changes
    BY <1>9 DEF ScopeInv, AskGood, WriteRun
  <2>3. ExperimentMoves
    <3>1. CASE <<c, e>> \in current /\ exps' = [exps EXCEPT ![e] = Changed(exps[e], new)]
      <4>1. exps[e] # Nothing /\ exps[e].status = "running" /\ Changing(new, exps[e].runs)
        BY <2>2, <3>1 DEF AskGood
      <4>2. exps'[e] = Changed(exps[e], new) /\ \A f \in Names \ {e} : exps'[f] = exps[f]
        BY <2>2, <3>1 DEF ScopeInv, ScopeTyped
      <4> QED BY <2>2, <4>1, <4>2 DEF ExperimentMoves
    <3>2. CASE UNCHANGED exps
      BY <3>2 DEF ExperimentMoves
    <3> QED BY <1>9, <3>1, <3>2 DEF WriteRun
  <2> QED BY <1>9, <2>1, <2>3, WriteRunKeeps DEF StepKeeps, ChampionMoves
<1>10. ASSUME NEW c \in Clients, Mark(c) PROVE StepKeeps
  <2> DEFINE e == request[c].e
  <2>1. UNCHANGED champ /\ AskMovesOn
    BY <1>10, AskEnds DEF Mark
  <2>2. AskGood(c, request[c], champ, exps, current) /\ request[c].at = "mark" /\ e \in Names /\ Won(exps[e])
    BY <1>10 DEF ScopeInv, AskGood, Mark, Promoting
  <2>3. ExperimentMoves
    <3>1. CASE <<c, e>> \in current /\ exps' = [exps EXCEPT ![e].status = "promoted"]
      <4>1. exps[e] # Nothing /\ exps[e].status = "promotion-ready"
        BY <2>2, <3>1 DEF AskGood, Promoting, Won
      <4>2. exps'[e] = [exps[e] EXCEPT !.status = "promoted"] /\ \A f \in Names \ {e} : exps'[f] = exps[f]
        BY <2>2, <3>1 DEF ScopeInv, ScopeTyped
      <4> QED BY <2>2, <4>1, <4>2 DEF ExperimentMoves
    <3>2. CASE UNCHANGED exps
      BY <3>2 DEF ExperimentMoves
    <3> QED BY <1>10, <3>1, <3>2 DEF Mark
  <2> QED BY <1>10, <2>1, <2>3, MarkKeeps DEF StepKeeps, ChampionMoves
<1>11. ASSUME NEW c \in Clients, Crown(c) PROVE StepKeeps
  <2> DEFINE e == request[c].e
  <2>1. UNCHANGED <<champ, exps>>
    BY <1>11 DEF Crown, docs
  <2>2. e \in Names
    BY <1>11 DEF ScopeInv, AskGood, Crown
  <2>3. AskMovesOn
    <3>1. CASE request' = [request EXCEPT ![c].at = "swap"]
      BY <3>1 DEF AskMovesOn, ScopeInv, ScopeTyped
    <3>2. CASE champ = [config |-> Challenger[e], by |-> e] /\ request' = [request EXCEPT ![c].at = "mark"]
      BY <2>1, <2>2, <3>2 DEF AskMovesOn, ScopeInv, ScopeTyped, Requests
    <3>3. CASE EndRequest(c, {})
      BY <3>3, AskEnds
    <3> QED BY <1>11, <3>1, <3>2, <3>3 DEF Crown
  <2> QED BY <1>11, <2>1, <2>3, CrownKeeps DEF StepKeeps, ExperimentMoves, ChampionMoves
<1>12. ASSUME NEW c \in Clients, Swap(c) PROVE StepKeeps
  <2> DEFINE e == request[c].e
  <2>1. UNCHANGED exps /\ request[c].at = "swap"
    BY <1>12 DEF Swap
  <2>2. e \in Names
    BY <1>12 DEF ScopeInv, AskGood, Swap
  <2>3. CASE /\ <<c, "champ">> \in current /\ champ' = [config |-> Challenger[e], by |-> e]
             /\ request' = [request EXCEPT ![c].at = "mark"]
    <3>1. ChampionMoves
      BY <2>1, <2>3 DEF ChampionMoves
    <3>2. AskMovesOn
      BY <2>2, <2>3 DEF AskMovesOn, ScopeInv, ScopeTyped, Requests
    <3> QED BY <1>12, <2>1, <3>1, <3>2, SwapKeeps DEF StepKeeps, ExperimentMoves
  <2>4. CASE EndRequest(c, {}) /\ UNCHANGED champ
    BY <1>12, <2>1, <2>4, AskEnds, SwapKeeps DEF StepKeeps, ExperimentMoves, ChampionMoves
  <2> QED BY <1>12, <2>3, <2>4 DEF Swap
<1> QED BY <1>2, <1>3, <1>4, <1>5, <1>6, <1>7, <1>8, <1>9, <1>10, <1>11, <1>12 DEF ScopeNext, Step

LEMMA ScopeKeeps == ASSUME ScopeInv, \A s, t \in Ticks : s = t, [ScopeNext]_scopeVars PROVE ScopeInv'
BY StepMoves DEF StepKeeps

(* One step keeps what has been recorded.                                   *)
LEMMA ChangedKeeps ==
    ASSUME NEW doc \in Documents, NEW new \in Changes, Changing(new, doc.runs)
    PROVE  \A r \in doc.runs : \E q \in Changed(doc, new).runs :
              q = r \/ (r.product = "unrated" /\ q = [r EXCEPT !.product = q.product])
<1> TAKE r \in doc.runs
<1>1. Changed(doc, new).runs = (doc.runs \ new[1]) \cup new[2]
  BY ChangedIs
<1>2. CASE r \notin new[1]
  BY <1>1, <1>2
<1>3. CASE r \in new[1]
  <2>1. PICK s \in doc.runs, p \in Products : s.product = "unrated" /\ new = <<{s}, {[s EXCEPT !.product = p]}>>
    BY <1>3 DEF Changing
  <2>2. r = s /\ [r EXCEPT !.product = p] \in Changed(doc, new).runs
    BY <1>1, <1>3, <2>1
  <2>3. r \in Observations
    BY DEF Documents
  <2>4. [r EXCEPT !.product = p].product = p
    BY <2>3 DEF Observations
  <2> QED BY <2>1, <2>2, <2>4
<1> QED BY <1>2, <1>3

LEMMA StepKeepsRuns ==
    ASSUME ScopeInv, StepKeeps, NEW e \in Names, exps[e] # Nothing, exps'[e] # exps[e]
    PROVE  /\ \A r \in exps[e].runs : \E q \in exps'[e].runs :
                 q = r \/ (r.product = "unrated" /\ q = [r EXCEPT !.product = q.product])
           /\ exps[e].status \in Decided =>
                 exps[e].status = "promotion-ready" /\ exps'[e] = [exps[e] EXCEPT !.status = "promoted"]
<1>1. exps[e] \in Documents
  BY DEF ScopeInv, ScopeTyped
<1>2. CASE /\ exps[e].status = "running"
           /\ \E new \in Changes : Changing(new, exps[e].runs) /\ exps'[e] = Changed(exps[e], new)
  BY <1>1, <1>2, ChangedKeeps DEF Decided
<1>3. CASE exps[e].status = "promotion-ready" /\ exps'[e] = [exps[e] EXCEPT !.status = "promoted"]
  <2>1. exps'[e].runs = exps[e].runs
    BY <1>1, <1>3 DEF Documents
  <2> QED BY <1>3, <2>1
<1> QED BY <1>2, <1>3 DEF StepKeeps, ExperimentMoves

(* What has been recorded of an experiment stays, whatever overlaps.        *)
(* src/learning/experiment-store.ts: a document is written only over the    *)
(* version that was read, and the cadence creates only what is not there.   *)
(* The cadence runs one tick at a time, as its timer starts it.             *)
THEOREM RunsAlwaysKept == ASSUME \A s, t \in Ticks : s = t PROVE ScopeSpec => RunsKept
<1>1. ScopeInv /\ [ScopeNext]_scopeVars => ScopeInv'
  BY ScopeKeeps
<1>2. ScopeInv /\ [ScopeNext]_scopeVars =>
        [\A e \in Names : exps[e] # Nothing /\ exps'[e] # exps[e] =>
            /\ \A r \in exps[e].runs : \E q \in exps'[e].runs :
                  q = r \/ (r.product = "unrated" /\ q = [r EXCEPT !.product = q.product])
            /\ exps[e].status \in Decided =>
                  exps[e].status = "promotion-ready" /\ exps'[e] = [exps[e] EXCEPT !.status = "promoted"]]_scopeVars
  BY StepMoves, StepKeepsRuns
<1> QED BY <1>1, <1>2, ScopeStarts, PTL DEF ScopeSpec, RunsKept

LEMMA CreditStarts == ScopeInit => Credited
<1> SUFFICES ASSUME ScopeInit PROVE Credited
  OBVIOUS
<1>1. \A c \in Clients : request[c].at # "mark"
  BY DEF ScopeInit, NoRequest
<1>2. ASSUME NEW e \in Names, NEW runs \in SUBSET Results[e], champ = [config |-> Champion[e], by |-> Nothing],
             exps = [f \in Names |-> IF f = e THEN Document(runs) ELSE Nothing]
      PROVE  champ.by = Nothing /\ \A f \in Names : exps[f] # Nothing => exps[f].status # "promoted"
  <2>1. runs \in SUBSET Observations
    BY ScopeAssumption
  <2>2. Document(runs).status # "promoted"
    BY <2>1, DocumentIs
  <2> QED BY <1>2, <2>2
<1>3. CASE champ = Nothing /\ exps = [e \in Names |-> Nothing]
  BY <1>1, <1>3 DEF Credited
<1>4. CASE champ.by = Nothing /\ \A f \in Names : exps[f] # Nothing => exps[f].status # "promoted"
  BY <1>1, <1>4 DEF Credited
<1> QED BY <1>2, <1>3, <1>4 DEF ScopeInit

(* What was won stays won.                                                  *)
LEMMA WinsStay == ASSUME ScopeInv, StepKeeps, NEW e \in Names, Won(exps[e]) PROVE Won(exps'[e])
<1>1. exps[e] \in Documents /\ exps[e].status \in {"promotion-ready", "promoted"} /\ Accepted(exps[e].runs)
  BY DEF ScopeInv, ScopeTyped, Won
<1>2. CASE exps'[e] = exps[e]
  BY <1>2
<1>3. CASE exps'[e] = [exps[e] EXCEPT !.status = "promoted"]
  <2>1. exps'[e].status = "promoted" /\ exps'[e].runs = exps[e].runs
    BY <1>1, <1>3 DEF Documents
  <2>2. exps'[e] \in Documents
    BY <1>1, <1>3 DEF Documents, Statuses
  <2> QED BY <1>1, <2>1, <2>2, NothingAssumption DEF Won
<1> QED BY <1>1, <1>2, <1>3, StatusIs DEF StepKeeps, ExperimentMoves, Won

LEMMA CreditKeeps == ASSUME ScopeInv, Credited, StepKeeps PROVE Credited'
<1>1. ASSUME champ' # Nothing, champ'.by # Nothing
      PROVE  champ'.by \in Names /\ champ'.config = Challenger[champ'.by] /\ Won(exps'[champ'.by])
  <2>1. CASE UNCHANGED champ
    <3>1. champ.by \in Names /\ champ.config = Challenger[champ.by] /\ Won(exps[champ.by])
      BY <1>1, <2>1 DEF Credited
    <3> QED BY <2>1, <3>1, WinsStay
  <2>2. ASSUME NEW c \in Clients, request[c].at = "swap", exps' = exps,
               champ' = [config |-> Challenger[request[c].e], by |-> request[c].e]
        PROVE  champ'.by \in Names /\ champ'.config = Challenger[champ'.by] /\ Won(exps'[champ'.by])
    BY <2>2 DEF ScopeInv, AskGood, Promoting
  <2> QED BY <1>1, <2>1, <2>2 DEF StepKeeps, ChampionMoves
<1>2. ASSUME champ # Nothing, champ.by # Nothing PROVE champ'.by # Nothing
  <2>1. ASSUME NEW c \in Clients, request[c].at = "swap",
               champ' = [config |-> Challenger[request[c].e], by |-> request[c].e]
        PROVE  champ'.by # Nothing
    BY <2>1, NothingAssumption DEF ScopeInv, AskGood
  <2> QED BY <1>2, <2>1 DEF StepKeeps, ChampionMoves
<1>3. ASSUME NEW c \in Clients, request[c].at = "mark" PROVE champ'.by # Nothing
  BY <1>2, <1>3 DEF ScopeInv, AskGood, Promoting, Credited
<1>4. ASSUME NEW e \in Names, exps'[e] # Nothing, exps'[e].status = "promoted" PROVE champ'.by # Nothing
  <2>1. CASE exps'[e] = exps[e]
    BY <1>2, <1>4, <2>1 DEF ScopeInv, Credited
  <2>2. CASE exps[e] # Nothing /\ \E new \in Changes : exps'[e] = Changed(exps[e], new)
    <3>1. PICK new \in Changes : exps'[e] = Changed(exps[e], new)
      BY <2>2
    <3>2. exps[e] \in Documents
      BY <2>2 DEF ScopeInv, ScopeTyped
    <3>3. (exps[e].runs \ new[1]) \cup new[2] \in SUBSET Observations
      BY <3>2 DEF Documents, Changes
    <3>4. Changed(exps[e], new).status # "promoted"
      BY <3>3, DocumentIs DEF Changed
    <3> QED BY <1>4, <3>1, <3>4
  <2>3. CASE \E c \in Clients : request[c].at = "mark" /\ request[c].e = e
    BY <1>3, <2>3
  <2> QED BY <1>4, <2>1, <2>2, <2>3 DEF StepKeeps, ExperimentMoves
<1>5. ASSUME NEW c \in Clients, request'[c].at = "mark" PROVE champ'.by # Nothing
  <2>1. CASE request'[c] = request[c]
    BY <1>3, <1>5, <2>1
  <2>2. CASE request[c].e \in Names /\ champ' = [config |-> Challenger[request[c].e], by |-> request[c].e]
    BY <2>2, NothingAssumption
  <2> QED BY <1>5, <2>1, <2>2 DEF StepKeeps, AskMovesOn
<1> QED BY <1>1, <1>4, <1>5 DEF Credited

LEMMA StepSucceeds ==
    ASSUME ScopeInv, Credited, StepKeeps, champ' # champ, champ # Nothing
    PROVE  \E e \in Names : /\ champ.config = Champion[e]
                            /\ champ' = [config |-> Challenger[e], by |-> e]
                            /\ Status(e) = "promotion-ready" \/ LedBack(e)
                            /\ Accepted(exps[e].runs)
<1>1. PICK c \in Clients : /\ request[c].at = "swap" /\ <<c, "champ">> \in current
                            /\ champ' = [config |-> Challenger[request[c].e], by |-> request[c].e]
  BY DEF StepKeeps, ChampionMoves
<1> DEFINE e == request[c].e
<1>2. e \in Names /\ champ.config = Champion[e] /\ Won(exps[e]) /\ champ \in Champions
  BY <1>1 DEF ScopeInv, ScopeTyped, AskGood, Promoting
<1>3. champ = [config |-> Champion[e], by |-> champ.by]
  BY <1>2 DEF Champions
<1>4. Status(e) = exps[e].status /\ exps[e] # Nothing /\ Accepted(exps[e].runs)
  BY <1>2 DEF Won, Status
<1>5. CASE Status(e) = "promotion-ready"
  BY <1>1, <1>2, <1>4, <1>5
<1>6. CASE Status(e) = "promoted"
  <2>1. champ.by \in Names /\ champ.config = Challenger[champ.by] /\ Won(exps[champ.by])
    BY <1>2, <1>4, <1>6 DEF Credited
  <2>2. champ.by # e
    BY <1>1, <1>3, <2>1
  <2>3. LedBack(e)
    BY <1>2, <1>3, <1>6, <2>1, <2>2 DEF LedBack, Won
  <2> QED BY <1>1, <1>2, <1>4, <2>3
<1> QED BY <1>2, <1>4, <1>5, <1>6 DEF Won

(* The champion of a scope changes only to the challenger of an experiment  *)
(* that has an accepted run and started from the configuration in force;    *)
(* that is ready for promotion at that moment or, when it was promoted      *)
(* while this call waited, has had its champion brought back by another     *)
(* that had won: src/learning/experiment-store.ts, promote.  For any        *)
(* experiments, also in a circle, with one tick at a time, as its timer     *)
(* starts it.                                                               *)
THEOREM ChampionAlwaysSucceeds == ASSUME \A s, t \in Ticks : s = t PROVE ScopeSpec => ChampionSucceeds
<1>1. ScopeInv /\ [ScopeNext]_scopeVars => ScopeInv'
  BY ScopeKeeps
<1>2. ScopeInv /\ Credited /\ [ScopeNext]_scopeVars => Credited'
  BY StepMoves, CreditKeeps
<1>3. ScopeInv /\ Credited /\ [ScopeNext]_scopeVars =>
        [champ' # champ /\ champ # Nothing =>
            \E e \in Names : /\ champ.config = Champion[e]
                             /\ champ' = [config |-> Challenger[e], by |-> e]
                             /\ Status(e) = "promotion-ready" \/ LedBack(e)
                             /\ Accepted(exps[e].runs)]_scopeVars
  BY StepMoves, StepSucceeds
<1> QED BY <1>1, <1>2, <1>3, ScopeStarts, CreditStarts, PTL DEF ScopeSpec, ChampionSucceeds

=============================================================================
