--------------------------- MODULE LearningRegistry ---------------------------
(* The learning registry (learning-registry-store.ts): immutable events     *)
(* whose key is made from what they are about, a high-water document per    *)
(* kind of event that lists them, the two that fill it (the capture of a    *)
(* task the dispatcher has ended, the intake of external receipts) and the  *)
(* period close that certifies it.                                          *)
EXTENDS Naturals, Sequences, SequencesExt, FiniteSets

CONSTANTS
    Kinds,       \* the primary kinds in their order: submission, ..., terminal
    Natives,     \* tasks the dispatcher ends and captures
    Bound,       \* those whose ledger row names the task and its attempt
    Receipts,    \* external receipts
    Outcomes,    \* those that tell an outcome
    Earlier,     \* those that may have been taken in before
    TaskOf,      \* the task of a receipt: its own, or a native one it claims
    AttemptOf,   \* the attempt it makes up
    Amendments,  \* corrections and exclusions: [kind, of, by]
    Captors, Intakes, Amenders, Closers, \* the callers
    MaxTries,    \* HIGH_WATER_CAS_ATTEMPTS, LATEST_CAS_ATTEMPTS
    MaxCloses,   \* bound: closes begun
    MaxSends,    \* bound: receipts and amendments sent
    MaxFaults,   \* bound: calls that die, swaps refused
    None

ASSUME ConstantsAssumption ==
    /\ Bound \subseteq Natives /\ Outcomes \subseteq Receipts /\ Earlier \subseteq Receipts
    /\ DOMAIN TaskOf = Receipts /\ DOMAIN AttemptOf = Receipts
    /\ Kinds \in Seq(ToSet(Kinds)) /\ Len(Kinds) > 1
    /\ MaxTries \in Nat \ {0} /\ MaxCloses \in Nat /\ MaxSends \in Nat /\ MaxFaults \in Nat
\* A call is one of its kind's; what an event was written with is something.
ASSUME CallersAssumption == Captors \cap (Intakes \cup Amenders) = {}
ASSUME NoneAssumption == None \notin Natives \cup Receipts \cup {m.by : m \in Amendments}

VARIABLES
    tag,        \* the learning-registry tag of a native task's status
    ev,         \* event id -> what it was written with
    marks,      \* kind -> members of its high-water document, in their order
    statements, \* the period statements persisted, those certified
    latest,     \* the newest statement
    fresh,      \* closers whose read of the pointer is current
    call,       \* what each caller is at
    closes,     \* closes begun
    sends,      \* receipts and amendments sent
    faults

registry == <<ev, marks>>
closing == <<statements, latest, fresh, closes>>
vars == <<tag, registry, closing, call, sends, faults>>

Callers == Captors \cup Intakes \cup Amenders \cup Closers
Idle == [at |-> "idle"]

\* An event's id is the digest of its natural key: the kind and the subject.
Event(k, x) == [kind |-> k, of |-> x]
NativeWrites(t) == [i \in DOMAIN Kinds |-> [id |-> Event(Kinds[i], t), by |-> t]]
ReceiptWrites(r) ==
    LET kinds == IF r \in Outcomes THEN Kinds ELSE Front(Kinds) IN
    [i \in DOMAIN kinds |->
        [id |-> Event(kinds[i], IF i = 1 THEN TaskOf[r] ELSE AttemptOf[r]), by |-> r]]
Ids(writes) == {writes[i].id : i \in DOMAIN writes}
EventIds == (UNION {Ids(NativeWrites(t)) : t \in Natives})
            \cup (UNION {Ids(ReceiptWrites(r)) : r \in Receipts})
            \cup {Event(m.kind, m.of) : m \in Amendments}
AllKinds == {e.kind : e \in EventIds} \cup ToSet(Kinds)

Durable(k) == {e \in EventIds : ev[e] # None /\ e.kind = k}
Members(k) == ToSet(marks[k])
Counted(e) == e \in Members(e.kind)

Goto(c, at) == call' = [call EXCEPT ![c].at = at]
Return(c) == call' = [call EXCEPT ![c] = Idle]
Fault == faults < MaxFaults /\ faults' = faults + 1

-------------------------------------------------------------------------------
(* Appending an event (appendRegistryEvent, bumpHighWater).                 *)

\* An intake looks whether the submission and the reference of the attempt
\* are there; the outcome it writes without looking.
First(c, w) == IF c \in Intakes /\ w.id.kind # Last(Kinds) THEN "probe" ELSE "create"
Appends(c, job, writes) ==
    [at |-> First(c, writes[1]), job |-> job, todo |-> writes, view |-> <<>>, tries |-> 0]
Now(c) == call[c].todo[1]

\* After the last event a capture turns to its tag.
Onward(c) ==
    IF Len(call[c].todo) > 1
      THEN call' = [call EXCEPT ![c] = Appends(c, @.job, Tail(@.todo))]
      ELSE IF c \in Captors THEN call' = [call EXCEPT ![c] = [at |-> "tag", job |-> @.job]] ELSE Return(c)

Probe(c) ==
    /\ call[c].at = "probe"
    /\ IF ev[Now(c).id] # None THEN Onward(c) ELSE Goto(c, "create")
    /\ UNCHANGED <<tag, registry, closing, sends, faults>>

\* mutant: an event that is there needs no bump
CreateOnce(c) ==
    /\ call[c].at = "create"
    /\ LET w == Now(c) IN
       \/ /\ ev[w.id] = None
          /\ ev' = [ev EXCEPT ![w.id] = w.by]
          /\ Goto(c, "bump")
       \/ /\ ev[w.id] = w.by
          /\ Onward(c) /\ UNCHANGED ev
       \/ /\ ev[w.id] \notin {None, w.by}
          /\ Return(c) /\ UNCHANGED ev
    /\ UNCHANGED <<tag, marks, closing, sends, faults>>

\* mutant: whatever is there is a conflict
CreateStrictly(c) ==
    /\ call[c].at = "create"
    /\ LET w == Now(c) IN
       \/ /\ ev[w.id] = None
          /\ ev' = [ev EXCEPT ![w.id] = w.by]
          /\ Goto(c, "bump")
       \/ /\ ev[w.id] # None
          /\ Return(c) /\ UNCHANGED ev
    /\ UNCHANGED <<tag, marks, closing, sends, faults>>

\* A create-if-absent; what is there already is the same event or a conflict.
Create(c) ==
    /\ call[c].at = "create"
    /\ LET w == Now(c) IN
       \/ /\ ev[w.id] = None
          /\ ev' = [ev EXCEPT ![w.id] = w.by]
          /\ Goto(c, "bump")
       \/ /\ ev[w.id] = w.by
          /\ Goto(c, "bump") /\ UNCHANGED ev
       \/ /\ ev[w.id] \notin {None, w.by}
          /\ Return(c) /\ UNCHANGED ev
    /\ UNCHANGED <<tag, marks, closing, sends, faults>>

\* mutant: the members are not looked at
BumpReadAlways(c) ==
    /\ call[c].at = "bump"
    /\ call' = [call EXCEPT ![c] = [call[c] EXCEPT !.at = "mark", !.view = marks[Now(c).id.kind]]]
    /\ UNCHANGED <<tag, registry, closing, sends, faults>>

BumpRead(c) ==
    /\ call[c].at = "bump"
    /\ IF Counted(Now(c).id)
         THEN Onward(c)
         ELSE call' = [call EXCEPT ![c] = [call[c] EXCEPT !.at = "mark", !.view = marks[Now(c).id.kind]]]
    /\ UNCHANGED <<tag, registry, closing, sends, faults>>

\* The swap; a document only grows, so the version is its members. After the
\* last try the append throws.
Bump(c) ==
    /\ call[c].at = "mark"
    /\ LET k == Now(c).id.kind IN
       \/ /\ marks[k] = call[c].view
          /\ marks' = [marks EXCEPT ![k] = Append(@, Now(c).id)]
          /\ Onward(c)
       \/ /\ marks[k] # call[c].view
          /\ IF call[c].tries + 1 < MaxTries
               THEN call' = [call EXCEPT ![c] = [call[c] EXCEPT !.at = "bump", !.view = <<>>, !.tries = @ + 1]]
               ELSE Return(c)
          /\ UNCHANGED marks
    /\ UNCHANGED <<tag, ev, closing, sends, faults>>

-------------------------------------------------------------------------------
(* Capturing a task the dispatcher has ended (capturePending...Task).       *)

\* The terminal status of a task whose evidence may be recorded.
Finish(t) ==
    /\ tag[t] = "none"
    /\ tag' = [tag EXCEPT ![t] = "pending"]
    /\ UNCHANGED <<registry, closing, sends, call, faults>>

\* The ledger's row decides: events, or a capture that is rejected.
Capture(c, t) ==
    /\ call[c] = Idle /\ tag[t] = "pending"
    /\ call' = [call EXCEPT ![c] =
                    IF t \in Bound THEN Appends(c, t, NativeWrites(t))
                    ELSE [at |-> "tag", job |-> t]]
    /\ UNCHANGED <<tag, registry, closing, sends, faults>>

\* writeCaptureStatus, which names the version of the pending status.
Tag(c) ==
    /\ call[c].at = "tag"
    /\ LET t == call[c].job IN
       tag' = [tag EXCEPT ![t] = IF @ # "pending" THEN @
                                 ELSE IF t \in Bound THEN "captured" ELSE "rejected"]
    /\ Return(c)
    /\ UNCHANGED <<registry, closing, sends, faults>>

-------------------------------------------------------------------------------
(* External receipts and amendments.                                        *)

\* A receipt that names a native task needs that task's submission.
Ingest(c, r) ==
    /\ call[c] = Idle /\ sends < MaxSends
    /\ sends' = sends + 1
    /\ TaskOf[r] \in Natives => ev[Event(Kinds[1], TaskOf[r])] # None
    /\ call' = [call EXCEPT ![c] = Appends(c, r, ReceiptWrites(r))]
    /\ UNCHANGED <<tag, registry, closing, faults>>

\* Only an event that exists is corrected or excluded.
Amend(c, m) ==
    /\ call[c] = Idle /\ sends < MaxSends /\ ev[m.of] # None
    /\ sends' = sends + 1
    /\ call' = [call EXCEPT ![c] = Appends(c, m, <<[id |-> Event(m.kind, m.of), by |-> m.by]>>)]
    /\ UNCHANGED <<tag, registry, closing, faults>>

-------------------------------------------------------------------------------
(* Closing the period (LearningPeriodCloseStore.close).                     *)

Close(c) ==
    /\ call[c] = Idle /\ closes < MaxCloses
    /\ closes' = closes + 1
    /\ call' = [call EXCEPT ![c] = [at |-> "issue", prior |-> latest, k |-> 1, view |-> <<>>,
                                    got |-> <<>>, owed |-> UNION {Durable(k) : k \in ToSet(Kinds)}, tries |-> 0]]
    /\ UNCHANGED <<tag, registry, statements, latest, fresh, sends, faults>>

Counter(c) == Kinds[call[c].k]
\* A counter's part of the statement, and the next counter. What was durable
\* at the beginning and is in no part yet is still owed.
Stated(c, part) ==
    call' = [call EXCEPT ![c] = [call[c] EXCEPT
                !.got = Append(@, part), !.owed = IF part.ok THEN @ \ part.members ELSE @, !.k = @ + 1,
                !.view = <<>>, !.at = IF call[c].k = Len(Kinds) THEN "persist" ELSE "issue"]]
Blocked == [ok |-> FALSE]

IssueRead(c) ==
    /\ call[c].at = "issue"
    /\ call' = [call EXCEPT ![c] = [call[c] EXCEPT !.at = "check", !.view = marks[Counter(c)]]]
    /\ UNCHANGED <<tag, registry, closing, sends, faults>>

\* mutant: no look for events that are in no document
CheckMembers(c) ==
    /\ call[c].at = "check"
    /\ Goto(c, "verify")
    /\ UNCHANGED <<tag, registry, closing, sends, faults>>

\* The proof is complete, or empty without a document, when the events tagged
\* with the partition are the members it has read.
Check(c) ==
    /\ call[c].at = "check"
    /\ IF Durable(Counter(c)) \subseteq ToSet(call[c].view) THEN Goto(c, "verify")
       ELSE Stated(c, Blocked)
    /\ UNCHANGED <<tag, registry, closing, sends, faults>>

\* verifyPartitionProof: the document is still the one of the proof; of an
\* empty one, nothing has been tagged.
Verify(c) ==
    /\ call[c].at = "verify"
    /\ IF /\ marks[Counter(c)] = call[c].view
          /\ call[c].view = <<>> => Durable(Counter(c)) = {}
         THEN Goto(c, "stats")
         ELSE Stated(c, Blocked)
    /\ UNCHANGED <<tag, registry, closing, sends, faults>>

\* statsForCounter over the timelines of the members' tasks.
Amended(kind, view) == {e \in ToSet(view) : Event(kind, e) \in EventIds /\ ev[Event(kind, e)] # None}
Part(view) == [ok |-> TRUE, members |-> ToSet(view),
               corrected |-> Amended("correction", view), excluded |-> Amended("exclusion", view)]
Stats(c) ==
    /\ call[c].at = "stats"
    /\ Stated(c, Part(call[c].view))
    /\ UNCHANGED <<tag, registry, closing, sends, faults>>

\* The statement's id is its content: the same one is persisted once. Of the
\* partial ones, which nothing reads again, none is kept here.
Certified(st) == \A i \in DOMAIN st : st[i].ok
Persist(c) ==
    /\ call[c].at = "persist"
    /\ IF call[c].prior = call[c].got THEN Return(c) /\ UNCHANGED statements
       ELSE /\ statements' = IF Certified(call[c].got) THEN statements \cup {call[c].got} ELSE statements
            /\ Goto(c, "point")
    /\ UNCHANGED <<tag, registry, latest, fresh, closes, sends, faults>>

PointRead(c) ==
    /\ call[c].at = "point"
    /\ IF latest = call[c].got THEN Return(c) /\ UNCHANGED fresh
       ELSE Goto(c, "swing") /\ fresh' = fresh \cup {c}
    /\ UNCHANGED <<tag, registry, statements, latest, closes, sends, faults>>

\* advanceLatestPointer's swap, again when another close or Munin refuses it.
Swing(c) ==
    /\ call[c].at = "swing"
    /\ \/ /\ c \in fresh
          /\ latest' = call[c].got /\ fresh' = {}
          /\ Return(c) /\ UNCHANGED faults
       \/ /\ IF c \in fresh THEN Fault ELSE UNCHANGED faults
          /\ IF call[c].tries + 1 < MaxTries
               THEN call' = [call EXCEPT ![c] = [call[c] EXCEPT !.at = "point", !.tries = @ + 1]]
               ELSE Return(c)
          /\ UNCHANGED <<latest, fresh>>
    /\ UNCHANGED <<tag, registry, statements, closes, sends>>

-------------------------------------------------------------------------------
(* A call that dies or throws, with its write applied or not.               *)
Dies(c) ==
    /\ call[c] # Idle /\ Fault
    /\ Return(c)
    /\ \/ UNCHANGED registry
       \/ /\ call[c].at = "create" /\ ev[Now(c).id] = None
          /\ ev' = [ev EXCEPT ![Now(c).id] = Now(c).by]
          /\ UNCHANGED marks
       \/ /\ call[c].at = "mark" /\ marks[Now(c).id.kind] = call[c].view
          /\ marks' = [marks EXCEPT ![Now(c).id.kind] = Append(@, Now(c).id)]
          /\ UNCHANGED ev
    /\ UNCHANGED <<tag, closing, sends>>

\* Nothing, or a receipt that was taken in completely, the period closed since
\* or not.
Init ==
    /\ tag = [t \in Natives |-> "none"]
    /\ \/ /\ ev = [e \in EventIds |-> None] /\ marks = [k \in AllKinds |-> <<>>]
          /\ latest = None
       \/ \E r \in Earlier :
            /\ ev = [e \in EventIds |-> IF e \in Ids(ReceiptWrites(r)) THEN r ELSE None]
            /\ marks = [k \in AllKinds |-> SetToSeq(Durable(k))]
            /\ latest \in {None, [i \in DOMAIN Kinds |-> Part(marks[Kinds[i]])]}
    /\ statements = {latest} \ {None} /\ fresh = {} /\ closes = 0
    /\ call = [c \in Callers |-> Idle]
    /\ sends = 0 /\ faults = 0

Appending(c) == Probe(c) \/ Create(c) \/ BumpRead(c) \/ Bump(c)
Capturing(c) == Appending(c) \/ Tag(c) \/ \E t \in Natives : Capture(c, t)
Judging(c) ==
    \/ Close(c) \/ IssueRead(c) \/ Check(c) \/ Verify(c) \/ Stats(c)
    \/ Persist(c) \/ PointRead(c) \/ Swing(c)

Next ==
    \/ \E t \in Natives : Finish(t)
    \/ \E c \in Captors : Capturing(c)
    \/ \E c \in Intakes : Appending(c) \/ \E r \in Receipts : Ingest(c, r)
    \/ \E c \in Amenders : Appending(c) \/ \E m \in Amendments : Amend(c, m)
    \/ \E c \in Closers : Judging(c)
    \/ \E c \in Callers : Dies(c)

Spec == Init /\ [][Next]_vars
\* The poller captures a task after its end and sweeps the pending ones at
\* start and every sixtieth poll. Nobody must send, correct or close anything.
FairSpec == Spec /\ \A c \in Captors : WF_vars(Capturing(c))

-------------------------------------------------------------------------------
TypeOK ==
    /\ tag \in [Natives -> {"none", "pending", "captured", "rejected"}]
    /\ DOMAIN ev = EventIds /\ DOMAIN marks = AllKinds
    /\ \A st \in statements : Certified(st) /\ Len(st) = Len(Kinds)
    /\ fresh \subseteq Closers /\ closes \in 0 .. MaxCloses
    /\ sends \in 0 .. MaxSends /\ faults \in 0 .. MaxFaults

(* A high-water document lists each event once, and only events that are   *)
(* there, whoever bumps it for whom and however often.                     *)
MarksSound ==
    \A k \in AllKinds : IsInjective(marks[k]) /\ Members(k) \subseteq Durable(k)

(* A task is tagged captured only when every one of its events is counted: *)
(* a capture that died between an event and its bump has been repaired.    *)
CapturedCounted ==
    \A t \in Natives : tag[t] = "captured" => \A e \in Ids(NativeWrites(t)) : Counted(e)

(* The counts of the registry are sound: the documents list what is there, *)
(* once, and what was called captured is counted.                          *)
CountsSound == TypeOK /\ MarksSound /\ CapturedCounted

(* A statement certified for the whole period leaves out no event that was *)
(* durable when the close began, counted by then or not.                   *)
CertifiedWhole ==
    \A c \in Closers :
        call[c].at \in {"persist", "point", "swing"} /\ Certified(call[c].got) =>
            call[c].owed = {}

(* A task that waits to be captured is captured, or rejected when the      *)
(* ledger does not bear it out, whatever died on the way.                  *)
PendingSettles ==
    \A t \in Natives : tag[t] = "pending" ~> tag[t] \in {"captured", "rejected"}

(* What is captured is counted, and what is certified is whole.            *)
RegistrySound == CountsSound /\ CertifiedWhole
===============================================================================
