---------------------------- MODULE QualityLedger ----------------------------
(***************************************************************************)
(* /v1/delegate/rate (src/broker/handlers.ts) and the ledger of quality    *)
(* receipts beside a task (src/quality-receipt.ts): raters of one task,    *)
(* each reading the ledger, folding a receipt into it and writing it back  *)
(* under Munin's preconditions, while the rated result may be replaced.    *)
(*                                                                         *)
(* A binding stands for the digests of the task document and its result.   *)
(* The identity of a receipt is its content: an original verdict without   *)
(* its time, a correction with it.  The evidence a correction must carry   *)
(* (an admitted attempt and its references) is taken as given.             *)
(***************************************************************************)
EXTENDS Naturals, Sequences, FiniteSets

CONSTANTS
    Reviewers, Owner,   \* the task's submitter may be one of the reviewers
    Verdicts, Accepting,\* ratings with their outcomes, and those that accept unchanged
    Rubrics, Unversioned,
    Rates,              \* HTTP calls, each made once
    Nobody,
    MaxTries,           \* attempts of the write
    MaxClock,           \* bound on the milliseconds that pass
    MaxRuns,            \* bound on the results the task gets
    MaxMisses           \* bound on failed or unanswered writes

ASSUME VerdictAssumption == Accepting \subseteq Verdicts
ASSUME RatingBounds == MaxTries \in Nat \ {0} /\ MaxClock \in Nat \ {0} /\ MaxRuns \in Nat /\ MaxMisses \in Nat
ASSUME RubricAssumption == Unversioned \notin Rubrics /\ Nobody \notin Reviewers \cup Verdicts

VARIABLES
    clock, run,     \* the time, and the binding of the present result
    doc,            \* Munin: the feedback entry, its receipts and its version
    rate,           \* the calls
    adrift,         \* writes given up on, which may still be applied
    misses

ledgerVars == <<clock, run, doc, rate, adrift, misses>>

NoDoc == [receipts |-> <<>>, n |-> 0]      \* n = 0: there is no entry
NoRate == [pc |-> "new", who |-> Nobody, role |-> "none", verdict |-> Nobody, of |-> 0, at |-> 0,
           fixes |-> {}, rubric |-> Unversioned, seen |-> NoDoc, tries |-> 0, answer |-> 0]

Receipts(d) == {d.receipts[i] : i \in 1 .. Len(d.receipts)}
At(r) == r.at

(* receiptId: what a correction names its predecessor by, in fixes.        *)
Id(r) == IF r.fixes = {} THEN [r EXCEPT !.at = 0] ELSE r

LedgerInit ==
    /\ clock = 1 /\ run = 1
    /\ doc \in {NoDoc, [NoDoc EXCEPT !.n = 1]}     \* nothing, or feedback of the old kind
    /\ rate = [c \in Rates |-> NoRate]
    /\ adrift = {} /\ misses = 0

-------------------------------------------------------------------------------
(* buildQualityReceipt and buildQualityCorrectionReceipt, whose time is    *)
(* moved past its predecessor's.                                           *)
Build(k, d) ==
    LET first == {r \in Receipts(d) : Id(r) \in k.fixes}
        past == \E r \in first : At(r) >= k.at
    IN  [who |-> k.who, role |-> k.role, verdict |-> k.verdict, of |-> k.of,
         fixes |-> k.fixes, rubric |-> k.rubric,
         at |-> IF past THEN (CHOOSE r \in first : TRUE).at + 1 ELSE k.at]

(* foldQualityReceipt: "same" leaves the ledger, "append" extends it, and  *)
(* "conflict" is thrown.                                                   *)
Timeless(r) == [r EXCEPT !.at = 0]
Chained(p, r) ==
    /\ p.who = r.who /\ p.role = r.role /\ p.of = r.of
    /\ p.fixes # {} => p.rubric = r.rubric
    /\ r.at > p.at

\* mutant: a predecessor may be corrected twice
FoldTwice(d, r) ==
    CASE \E o \in Receipts(d) : Id(o) = Id(r) -> "same"
      [] r.fixes = {} /\ (\A o \in Receipts(d) : Id(o) # Id(r)) ->
           IF \E o \in Receipts(d) : o.who = r.who /\ o.of = r.of THEN "conflict" ELSE "append"
      [] OTHER -> IF \E p \in Receipts(d) : Id(p) \in r.fixes /\ Chained(p, r) THEN "append" ELSE "conflict"

FoldReceipt(d, r) ==
    LET held == \E o \in Receipts(d) : Id(o) = Id(r)
        verdict == \E o \in Receipts(d) : o.who = r.who /\ o.of = r.of
        first == {p \in Receipts(d) : Id(p) \in r.fixes}
        next == {o \in Receipts(d) : o.fixes = r.fixes}
    IN  CASE held -> "same"
          [] ~held /\ r.fixes = {} -> IF verdict THEN "conflict" ELSE "append"
          [] ~held /\ r.fixes # {} ->
               IF first # {} /\ \E o \in next : Timeless(o) = Timeless(r) THEN "same"
               ELSE IF next = {} /\ \E p \in first : Chained(p, r) THEN "append"
               ELSE "conflict"

(* summarizeQualityReceipts: the receipts of a binding that no correction  *)
(* replaced, and their common verdict.                                     *)

\* mutant: corrected verdicts still count
EffectiveAll(d, b) == {r \in Receipts(d) : r.of = b}

Effective(d, b) ==
    {r \in Receipts(d) : r.of = b /\ \A o \in Receipts(d) : o.of = b => Id(r) \notin o.fixes}

Cohort(r) == IF r.fixes = {} THEN Unversioned ELSE r.rubric
Summary(d, b) ==
    LET counted == Effective(d, b)
        one == Cardinality({r.verdict : r \in counted}) = 1 /\ Cardinality({Cohort(r) : r \in counted}) = 1
    IN  CASE counted = {} -> "unrated"
          [] counted # {} /\ ~one -> "conflicted"
          [] OTHER -> IF \A r \in counted : r.verdict \in Accepting THEN "accepted" ELSE "refused"

-------------------------------------------------------------------------------
Set(c, k) == rate' = [rate EXCEPT ![c] = k]
Reply(c, code) == Set(c, [rate[c] EXCEPT !.pc = "done", !.answer = code])

(* The receipt of the present result that is asked for.                    *)
Asked(who, role, v, at, fixes, rub) ==
    [NoRate EXCEPT !.pc = "read", !.who = who, !.role = role, !.verdict = v, !.of = run, !.at = at,
                   !.fixes = fixes, !.rubric = IF fixes = {} THEN Unversioned ELSE rub]

(* createRateHandler: the status and the result are read and bound, and a  *)
(* reviewer who names another binding than the present one, or is the      *)
(* owner and claims independence, is refused.  A correction names any      *)
(* receipt the caller may have seen.                                       *)
Rate(c) ==
    /\ rate[c].pc = "new"
    /\ \E who \in Reviewers, role \in {"independent", "self"}, v \in Verdicts, later \in {0, 1},
          fixes \in {{}} \cup {{Id(r)} : r \in Receipts(doc)}, rub \in Rubrics :
         /\ role = "independent" => who # Owner
         /\ clock + later <= MaxClock /\ clock' = clock + later
         /\ Set(c, Asked(who, role, v, clock + later, fixes, rub))
    /\ UNCHANGED <<run, doc, adrift, misses>>

(* writeQualityReceiptWithFactory: read the ledger, build, fold.           *)
Read(c) ==
    /\ rate[c].pc = "read"
    /\ LET found == FoldReceipt(doc, Build(rate[c], doc)) IN
         \/ found = "same" /\ Reply(c, 204)
         \/ found = "conflict" /\ Reply(c, 409)
         \/ found = "append" /\ Set(c, [rate[c] EXCEPT !.pc = "write", !.seen = doc])
    /\ UNCHANGED <<clock, run, doc, adrift, misses>>

(* What the write sends, and when Munin takes it: a first write only if    *)
(* there is no entry, a later one only if the entry is the one read.       *)
Sent(c) == [n |-> rate[c].seen.n, receipts |-> Append(rate[c].seen.receipts, Build(rate[c], rate[c].seen))]

\* mutant: only a known entry is protected, a first write overwrites
AcceptsFirst(w) == w.n = 0 \/ w.n = doc.n

Accepts(w) == w.n = doc.n
Apply(w) == doc' = [receipts |-> w.receipts, n |-> doc.n + 1]

Retry(c) ==
    IF rate[c].tries + 1 < MaxTries THEN Set(c, [rate[c] EXCEPT !.pc = "read", !.tries = @ + 1])
    ELSE Reply(c, 500)

(* The conflict the precondition expects is tried again from the read,     *)
(* also when the client's own repeated attempt meets its applied write;    *)
(* any other failure ends the call.                                        *)

\* mutant: a write that was refused counts as done
WriteTrusted(c) ==
    LET w == Sent(c) IN
    /\ rate[c].pc = "write" /\ Reply(c, 204)
    /\ IF Accepts(w) THEN Apply(w) ELSE UNCHANGED doc
    /\ UNCHANGED <<clock, run, adrift, misses>>

Write(c) ==
    LET w == Sent(c) IN
    /\ rate[c].pc = "write"
    /\ \/ Accepts(w) /\ Apply(w) /\ Reply(c, 204) /\ UNCHANGED <<adrift, misses>>
       \/ ~Accepts(w) /\ Retry(c) /\ UNCHANGED <<doc, adrift, misses>>
       \/ /\ misses < MaxMisses /\ misses' = misses + 1
          /\ \/ Accepts(w) /\ Apply(w) /\ Retry(c) /\ UNCHANGED adrift
             \/ Accepts(w) /\ Apply(w) /\ Reply(c, 500) /\ UNCHANGED adrift
             \/ adrift' \in {adrift, adrift \cup {w}} /\ Reply(c, 500) /\ UNCHANGED doc
    /\ UNCHANGED <<clock, run>>

LateWrite(w) ==
    /\ adrift' = adrift \ {w}
    /\ IF Accepts(w) THEN Apply(w) ELSE UNCHANGED doc
    /\ UNCHANGED <<clock, run, rate, misses>>

(* The task is run again and its result replaced.                          *)
Rerun == run < MaxRuns /\ run' = run + 1 /\ UNCHANGED <<clock, doc, rate, adrift, misses>>

LedgerNext ==
    \/ \E c \in Rates : Rate(c) \/ Read(c) \/ Write(c)
    \/ \E w \in adrift : LateWrite(w)
    \/ Rerun

LedgerSpec == LedgerInit /\ [][LedgerNext]_ledgerVars

-------------------------------------------------------------------------------
Receipt(r, n) ==
    /\ DOMAIN r = {"who", "role", "verdict", "of", "fixes", "rubric", "at"}
    /\ r.who \in Reviewers /\ r.role \in {"independent", "self"} /\ r.verdict \in Verdicts
    /\ r.of \in 1 .. n /\ r.at \in Nat /\ r.rubric \in Rubrics \cup {Unversioned}
    /\ r.fixes = {} <=> r.rubric = Unversioned

LedgerTypeOK ==
    /\ clock \in 1 .. MaxClock /\ run \in 1 .. (MaxRuns + 1) /\ misses \in 0 .. MaxMisses
    /\ doc.n \in Nat /\ doc.receipts \in Seq(Receipts(doc)) /\ \A r \in Receipts(doc) : Receipt(r, run)
    /\ \A w \in adrift : w.n \in Nat /\ \A r \in Receipts(w) : Receipt(r, run)
    /\ \A c \in Rates :
         /\ rate[c].pc \in {"new", "read", "write", "done"} /\ rate[c].answer \in {0, 204, 409, 500}
         /\ rate[c].answer = 0 <=> rate[c].pc # "done"
         /\ rate[c].tries \in 0 .. (MaxTries - 1)

(* The ledger's own rules (its schema) hold of whatever was written: one   *)
(* original verdict of a reviewer on a result, and corrections that form a *)
(* chain, each later than, and by the same reviewer as, the receipt it     *)
(* replaces, which has no other.                                           *)
LedgerSound ==
    LET rs == doc.receipts IN
    \A i, j \in 1 .. Len(rs) :
        /\ i # j => Id(rs[i]) # Id(rs[j])
        /\ i # j /\ rs[i].fixes = {} /\ rs[j].fixes = {} => <<rs[i].who, rs[i].of>> # <<rs[j].who, rs[j].of>>
        /\ i # j /\ rs[i].fixes # {} => rs[i].fixes # rs[j].fixes
        /\ rs[j].fixes # {} => \E p \in 1 .. (j - 1) : rs[j].fixes = {Id(rs[p])} /\ Chained(rs[p], rs[j])

(* A receipt that was ever in the ledger stays in it, at its place,        *)
(* whoever writes and however late.                                        *)
AppendOnly ==
    [][/\ Len(doc.receipts) <= Len(doc'.receipts)
       /\ \A i \in 1 .. Len(doc.receipts) : doc'.receipts[i] = doc.receipts[i]]_ledgerVars

(* A rater that was told its verdict is recorded finds it in the ledger.   *)
Recorded ==
    \A c \in Rates : rate[c].answer = 204 =>
        \E r \in Receipts(doc) :
            /\ r.who = rate[c].who /\ r.verdict = rate[c].verdict /\ r.role = rate[c].role
            /\ r.of = rate[c].of /\ r.fixes = rate[c].fixes

(* The summary of a result counts each reviewer's latest verdict on it and *)
(* no other: an acceptance that was corrected does not make it accepted.   *)
LatestCounts ==
    \A b \in 1 .. run, who \in Reviewers :
        LET all == {r \in Receipts(doc) : r.who = who /\ r.of = b}
            counted == {r \in Effective(doc, b) : r.who = who}
        IN  /\ all # {} => Cardinality(counted) = 1
            /\ \A r \in counted : \A o \in all : At(o) <= At(r)
            /\ Summary(doc, b) = "accepted" => \A r \in counted : r.verdict \in Accepting

(* The ledger keeps its rules, and its summaries follow the receipts.      *)
ReceiptsSound == LedgerTypeOK /\ LedgerSound /\ LatestCounts

(* Receipts keep their rules, are never taken back, and none that a rater  *)
(* was told of is missing.                                                 *)
ReceiptsStand == [](ReceiptsSound /\ Recorded) /\ AppendOnly
=============================================================================
