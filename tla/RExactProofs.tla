----------------------------- MODULE RExactProofs -----------------------------
(***************************************************************************)
(* An attempt of the R-exact controller holds its target until it is over, *)
(* and is not ended by its recovery before the target is narrowed: for     *)
(* every set of proposals and callers, with calls of one proposal          *)
(* overlapping or not, any number of faults and of authorizations. When    *)
(* they do not overlap and every candidate is a document of its own, what  *)
(* is rolled back stays so.                                                *)
(***************************************************************************)
EXTENDS RExact, TLAPS

(* The points of a call, by what it already knows of its journal.          *)
Before == {"admit", "snapshot", "prepare"}
Working == {"confirm", "recheck", "replace", "apply", "readback", "verify", "watch", "await", "check",
            "look", "commit", "posture", "reconcile", "unknown", "restore", "revert", "narrow",
            "disarm", "block", "blocked"}
Recovering == {"reconcile", "unknown", "restore", "revert", "narrow", "disarm", "block", "blocked"}
Pcs == Before \cup Working \cup {"idle", "load", "claim", "reload", "settle", "release"}
Tails == Phases \cup {"none"}

Receipts == {NoReceipt} \cup [of : Proposals \cup {None}, kind : {"disarm", "blocked"},
                              after : Tails, why : Nat]
Journals == [at : Tails, epoch : Nat, why : Nat, end : Receipts]
Calls == [pc : Pcs, of : Proposals \cup {None}, at : Tails, epoch : Nat, inner : BOOLEAN,
          seen : Nat, broad : BOOLEAN, why : Nat]
Owners == [n : Nat, armed : BOOLEAN]

ArmedIn(o, l) == o.armed /\ ~\E n \in l : n.epoch = o.n
Entry(k, kind) == [epoch |-> k.epoch,
                   receipt |-> [of |-> k.of, kind |-> kind, after |-> k.at, why |-> k.why]]

(* What a call in progress knows: the tail it works on is not a terminal   *)
(* one, a terminal tail it has seen is still there, it has the prepared    *)
(* authorization; a recovery that goes on without narrowing need not, and  *)
(* one that is about to end the attempt has.                               *)
Known(k, j) ==
    /\ k.pc # "idle" => k.of \in Proposals
    /\ k.pc \notin Before \cup {"idle"} => j[k.of].at # "none"
    /\ k.pc \notin Before \cup {"idle", "load"} => k.at # "none" /\ k.epoch = j[k.of].epoch
    /\ k.pc \notin Before \cup {"idle", "load"} /\ k.at \in Terminal => j[k.of].at = k.at
    /\ k.pc \in Working => k.at \notin Terminal
    /\ k.pc = "settle" => k.at = "commit"
    /\ k.pc = "reload" => k.at \notin {"disarm", "blocked"}
    /\ k.pc \in {"settle", "release"} => j[k.of].at \in Terminal
Safe(k, o, l) ==
    /\ k.pc \in Recovering => k.seen <= o.n /\ (~k.broad /\ k.seen = o.n => ~ArmedIn(o, l))
    /\ k.pc \in {"disarm", "blocked"} => k.seen # o.n \/ ~ArmedIn(o, l) \/ Entry(k, k.pc) \in l
Good(k, j, o, l) == k \in Calls /\ Known(k, j) /\ Safe(k, o, l)

Typed ==
    /\ journal \in [Proposals -> Journals] /\ call \in [Callers -> Calls]
    /\ claim \in Proposals \cup {None} /\ owner \in Owners
IInv ==
    /\ Typed /\ ClaimHeld
    /\ \A c \in Callers : Good(call[c], journal, owner, ledger)

USE DEF Phases, Terminal, Tails

LEMMA IdleGood ==
    ASSUME NEW j, NEW o, NEW l
    PROVE  Good(Idle, j, o, l)
  BY DEF Good, Known, Safe, Idle, Calls, Pcs, Before, Working, Recovering

(* An exception leaves a call that may stand where it then stands.         *)
LEMMA RaiseGood ==
    ASSUME NEW k, NEW j, NEW o, NEW l, Good(k, j, o, l)
    PROVE  Good(Raise(k), j, o, l)
<1>1. CASE k.pc \in Attempt /\ k.inner
  <2>1. Raise(k) = [k EXCEPT !.pc = "reload"]
    BY <1>1 DEF Raise, Attempt, Good, Calls
  <2> QED BY <1>1, <2>1 DEF Attempt, Good, Known, Safe, Calls, Pcs, Before, Working, Recovering
<1>2. CASE k.pc \in Attempt /\ ~k.inner
  <2>1. Raise(k) = [k EXCEPT !.pc = "load"]
    BY <1>2 DEF Raise, Attempt, Good, Calls
  <2> QED BY <1>2, <2>1 DEF Attempt, Good, Known, Safe, Calls, Pcs, Before, Working, Recovering
<1>3. CASE k.pc \in {"restore", "revert", "narrow"}
  <2>1. Raise(k) = [k EXCEPT !.pc = "block"]
    BY <1>3 DEF Raise, Attempt
  <2> QED BY <1>3, <2>1 DEF Good, Known, Safe, Calls, Pcs, Before, Working, Recovering
<1>4. CASE k.pc \notin Attempt \cup {"restore", "revert", "narrow"}
  BY <1>4, IdleGood DEF Raise
<1> QED BY <1>1, <1>2, <1>3, <1>4

(* A step of one call that leaves the journals and the authority alone.    *)
LEMMA Moved ==
    ASSUME IInv, NEW c \in Callers, NEW k, Good(k, journal, owner, ledger),
           call' = [call EXCEPT ![c] = k], UNCHANGED <<journal, owner, ledger>>,
           claim' \in Proposals \cup {None},
           \A p \in Proposals : Prefix(p) => claim' = p
    PROVE  IInv'
<1>1. k \in Calls BY DEF Good
<1>2. Typed' BY <1>1 DEF IInv, Typed
<1>3. ClaimHeld' BY DEF ClaimHeld, Prefix
<1>4. \A d \in Callers : Good(call'[d], journal', owner', ledger') BY DEF IInv, Typed
<1> QED BY <1>2, <1>3, <1>4 DEF IInv

LEMMA Kept ==
    ASSUME IInv, NEW c \in Callers, NEW k, Good(k, journal, owner, ledger),
           call' = [call EXCEPT ![c] = k], UNCHANGED <<journal, owner, ledger, claim>>
    PROVE  IInv'
  BY Moved DEF IInv, Typed, ClaimHeld

LEMMA Answered ==
    ASSUME IInv, NEW c \in Callers, NEW k, Good(k, journal, owner, ledger), Then(c, k),
           UNCHANGED <<journal, owner, ledger, claim>>
    PROVE  IInv'
<1>1. Good(Raise(call[c]), journal, owner, ledger) BY RaiseGood DEF IInv
<1> QED BY <1>1, Kept DEF Then, Set

LEMMA Failed ==
    ASSUME IInv, NEW c \in Callers, Fail(c), UNCHANGED <<journal, owner, ledger, claim>>
    PROVE  IInv'
<1>1. Good(Raise(call[c]), journal, owner, ledger) BY RaiseGood DEF IInv
<1> QED BY <1>1, Kept DEF Fail, Set

LEMMA Ended ==
    ASSUME IInv, NEW c \in Callers, End(c), UNCHANGED <<journal, owner, ledger, claim>>
    PROVE  IInv'
  BY IdleGood, Kept DEF End, Set

-------------------------------------------------------------------------------
(* The call goes on to pc, knowing what it knew.                           *)
LEMMA Gone ==
    ASSUME IInv, NEW c \in Callers, NEW pc, Go(c, pc),
           Good([call[c] EXCEPT !.pc = pc], journal, owner, ledger),
           UNCHANGED <<journal, owner, ledger, claim>>
    PROVE  IInv'
  BY Kept DEF Go, Set

LEMMA SubmitInv ==
    ASSUME IInv, NEW c \in Callers, NEW p \in Proposals, Submit(c, p)
    PROVE  IInv'
<1> DEFINE k == [Idle EXCEPT !.of = p, !.pc = IF journal[p].at = "none" THEN "admit" ELSE "load"]
<1>1. Good(k, journal, owner, ledger)
  BY DEF Idle, Good, Known, Safe, Calls, Pcs, Before, Working, Recovering
<1> QED BY <1>1, Kept DEF Submit, Set

LEMMA AdmitInv ==
    ASSUME IInv, NEW c \in Callers, Admit(c)
    PROVE  IInv'
<1> DEFINE k == [call[c] EXCEPT !.pc = "snapshot", !.epoch = owner.n]
<1>1. Good(call[c], journal, owner, ledger) /\ owner.n \in Nat
  BY DEF IInv, Typed, Owners
<1>2. Good(k, journal, owner, ledger)
  BY <1>1 DEF Admit, Good, Known, Safe, Calls, Pcs, Before, Working, Recovering
<1>3. CASE End(c)
  BY <1>3, Ended DEF Admit
<1>4. CASE Set(c, k)
  BY <1>2, <1>4, Kept DEF Admit, Set
<1> QED BY <1>3, <1>4 DEF Admit

LEMMA SnapshotInv ==
    ASSUME IInv, NEW c \in Callers, Snapshot(c)
    PROVE  IInv'
<1> DEFINE k == [call[c] EXCEPT !.pc = "prepare"]
<1>1. Good(call[c], journal, owner, ledger)
  BY DEF IInv
<1>2. Good(k, journal, owner, ledger)
  BY <1>1 DEF Snapshot, Good, Known, Safe, Calls, Pcs, Before, Working, Recovering
<1>3. CASE End(c)
  BY <1>3, Ended DEF Snapshot
<1>4. CASE Then(c, k)
  BY <1>2, <1>4, Answered DEF Snapshot
<1> QED BY <1>3, <1>4 DEF Snapshot

(* The steps that look, and go on or fail.                                 *)
LEMMA ConfirmInv ==
    ASSUME IInv, NEW c \in Callers, Confirm(c)
    PROVE  IInv'
<1>1. Good(call[c], journal, owner, ledger) /\ call[c].pc = "confirm"
  BY DEF IInv, Confirm
<1>2. \A pc \in {"recheck", "load"} : Good([call[c] EXCEPT !.pc = pc], journal, owner, ledger)
  BY <1>1 DEF Good, Known, Safe, Calls, Pcs, Before, Working, Recovering
<1>3. End(c) \/ \E pc \in {"recheck", "load"} : Go(c, pc)
  BY DEF Confirm
<1> QED BY <1>2, <1>3, Ended, Gone DEF Confirm

LEMMA RecheckInv ==
    ASSUME IInv, NEW c \in Callers, Recheck(c)
    PROVE  IInv'
<1>1. Good(call[c], journal, owner, ledger) /\ call[c].pc \in {"recheck", "check"}
  BY DEF IInv, Recheck
<1>2. \A pc \in {"replace", "look"} : Good([call[c] EXCEPT !.pc = pc], journal, owner, ledger)
  BY <1>1 DEF Good, Known, Safe, Calls, Pcs, Before, Working, Recovering
<1>3. Fail(c) \/ \E pc \in {"replace", "look"} : Go(c, pc)
  BY DEF Recheck
<1> QED BY <1>2, <1>3, Failed, Gone DEF Recheck

LEMMA LookInv ==
    ASSUME IInv, NEW c \in Callers, Look(c)
    PROVE  IInv'
<1>1. Good(call[c], journal, owner, ledger) /\ call[c].pc \in {"readback", "look"}
  BY DEF IInv, Look
<1>2. \A pc \in {"verify", "commit"} : Good([call[c] EXCEPT !.pc = pc], journal, owner, ledger)
  BY <1>1 DEF Good, Known, Safe, Calls, Pcs, Before, Working, Recovering
<1>3. Fail(c) \/ \E pc \in {"verify", "commit"} : Go(c, pc)
  BY DEF Look
<1> QED BY <1>2, <1>3, Failed, Gone DEF Look

LEMMA AwaitInv ==
    ASSUME IInv, NEW c \in Callers, Await(c)
    PROVE  IInv'
<1>1. Good(call[c], journal, owner, ledger) /\ call[c].pc = "await"
  BY DEF IInv, Await
<1>2. Good([call[c] EXCEPT !.pc = "check"], journal, owner, ledger)
  BY <1>1 DEF Good, Known, Safe, Calls, Pcs, Before, Working, Recovering
<1>3. Fail(c) \/ Go(c, "check")
  BY DEF Await
<1> QED BY <1>2, <1>3, Failed, Gone DEF Await

LEMMA ReplaceInv ==
    ASSUME IInv, NEW c \in Callers, Replace(c)
    PROVE  IInv'
<1>1. Good(call[c], journal, owner, ledger) /\ call[c].pc = "replace"
  BY DEF IInv, Replace
<1>2. Good([call[c] EXCEPT !.pc = "apply"], journal, owner, ledger)
  BY <1>1 DEF Good, Known, Safe, Calls, Pcs, Before, Working, Recovering
<1>3. Fail(c) \/ Then(c, [call[c] EXCEPT !.pc = "apply"])
  BY DEF Replace
<1> QED BY <1>2, <1>3, Failed, Answered DEF Replace

LEMMA LoadInv ==
    ASSUME IInv, NEW c \in Callers, Load(c)
    PROVE  IInv'
<1> DEFINE j == journal[call[c].of]
           k == [Idle EXCEPT !.of = call[c].of, !.at = j.at, !.epoch = j.epoch, !.why = j.why, !.pc = "claim"]
<1>1. Good(call[c], journal, owner, ledger) /\ call[c].pc = "load"
  BY DEF IInv, Load
<1>2. call[c].of \in Proposals /\ j.at # "none" /\ j \in Journals
  BY <1>1 DEF Good, Known, Before, IInv, Typed
<1>3. Good(k, journal, owner, ledger)
  BY <1>2 DEF Idle, Journals, Good, Known, Safe, Calls, Pcs, Before, Working, Recovering
<1> QED BY <1>3, Kept DEF Load, Set

LEMMA ReloadInv ==
    ASSUME IInv, NEW c \in Callers, Reload(c)
    PROVE  IInv'
<1> DEFINE k == [call[c] EXCEPT !.pc = "posture", !.inner = FALSE]
           now == journal[call[c].of].at
<1>1. Good(call[c], journal, owner, ledger) /\ call[c].pc = "reload"
  BY DEF IInv, Reload
<1>2. Good([call[c] EXCEPT !.pc = "load"], journal, owner, ledger)
  BY <1>1 DEF Good, Known, Safe, Calls, Pcs, Before, Working, Recovering
<1>3. ASSUME now # "commit", now = call[c].at PROVE Good(k, journal, owner, ledger)
  BY <1>1, <1>3 DEF Good, Known, Safe, Calls, Pcs, Before, Working, Recovering
<1>4. CASE Go(c, "load")
  BY <1>2, <1>4, Gone DEF Reload
<1>5. CASE End(c)
  BY <1>5, Ended DEF Reload
<1>6. CASE Set(c, k) /\ now # "commit" /\ now = call[c].at
  BY <1>3, <1>6, Kept DEF Reload, Set
<1> QED BY <1>4, <1>5, <1>6 DEF Reload

LEMMA PostureInv ==
    ASSUME IInv, NEW c \in Callers, Posture(c)
    PROVE  IInv'
<1> DEFINE why == IF call[c].at \in {"unknown", "revert"} THEN call[c].why ELSE IF kill THEN 2 ELSE 1
           k == [call[c] EXCEPT !.pc = "reconcile", !.seen = owner.n, !.broad = Armed, !.why = why]
<1>1. Good(call[c], journal, owner, ledger) /\ call[c].pc = "posture" /\ owner \in Owners
  BY DEF IInv, Typed, Posture
<1>2. why \in Nat /\ Armed \in BOOLEAN /\ owner.n \in Nat
  BY <1>1 DEF Good, Calls, Armed, Owners
<1>3. Armed <=> ArmedIn(owner, ledger)
  BY DEF Armed, ArmedIn, Narrowed
<1> DEFINE m(b) == [call[c] EXCEPT !.pc = "reconcile", !.seen = owner.n, !.broad = b, !.why = why]
<1> HIDE DEF why
<1>4. CASE Armed
  <2>1. Good(m(TRUE), journal, owner, ledger)
    <3> DEFINE k1 == [call[c] EXCEPT !.pc = "reconcile"]
               k2 == [k1 EXCEPT !.seen = owner.n]
               k3 == [k2 EXCEPT !.broad = TRUE]
    <3>1. k1 \in Calls /\ Known(k1, journal)
      BY <1>1 DEF Good, Known, Calls, Pcs, Before, Working
    <3>2. k2 \in Calls /\ Known(k2, journal) /\ k2.pc = "reconcile" /\ k2.seen = owner.n
      BY <1>2, <3>1, ZenonT(60) DEF Known, Calls
    <3>3. k3 \in Calls /\ Known(k3, journal) /\ k3.pc = "reconcile" /\ k3.seen = owner.n /\ k3.broad = TRUE
      BY <3>2 DEF Known, Calls
    <3>4. m(TRUE) = [k3 EXCEPT !.why = why]
      BY <1>1 DEF Good, Calls
    <3>5. m(TRUE) \in Calls /\ Known(m(TRUE), journal) /\ m(TRUE).pc = "reconcile"
          /\ m(TRUE).seen = owner.n /\ m(TRUE).broad = TRUE
      BY <1>2, <3>3, <3>4 DEF Known, Calls
    <3> QED BY <1>2, <3>5, <1>4 DEF Good, Safe
  <2>2. Armed = TRUE
    BY <1>2, <1>4
  <2>3. Set(c, m(TRUE))
    BY <2>2 DEF Posture, why
  <2> QED BY <2>1, <2>3, Kept DEF Posture, Set
<1>5. CASE ~Armed
  <2>1. Good(m(FALSE), journal, owner, ledger)
    <3> DEFINE k1 == [call[c] EXCEPT !.pc = "reconcile"]
               k2 == [k1 EXCEPT !.seen = owner.n]
               k3 == [k2 EXCEPT !.broad = FALSE]
    <3>1. k1 \in Calls /\ Known(k1, journal)
      BY <1>1 DEF Good, Known, Calls, Pcs, Before, Working
    <3>2. k2 \in Calls /\ Known(k2, journal) /\ k2.pc = "reconcile" /\ k2.seen = owner.n
      BY <1>2, <3>1, ZenonT(60) DEF Known, Calls
    <3>3. k3 \in Calls /\ Known(k3, journal) /\ k3.pc = "reconcile" /\ k3.seen = owner.n /\ k3.broad = FALSE
      BY <3>2 DEF Known, Calls
    <3>4. m(FALSE) = [k3 EXCEPT !.why = why]
      BY <1>1 DEF Good, Calls
    <3>5. m(FALSE) \in Calls /\ Known(m(FALSE), journal) /\ m(FALSE).pc = "reconcile"
          /\ m(FALSE).seen = owner.n /\ m(FALSE).broad = FALSE
      BY <1>2, <3>3, <3>4 DEF Known, Calls
    <3> QED BY <1>2, <3>5, <1>3, <1>5 DEF Good, Safe
  <2>2. Armed = FALSE
    BY <1>2, <1>5
  <2>3. Set(c, m(FALSE))
    BY <2>2 DEF Posture, why
  <2> QED BY <2>1, <2>3, Kept DEF Posture, Set
<1> QED BY <1>4, <1>5

LEMMA ReconcileInv ==
    ASSUME IInv, NEW c \in Callers, Reconcile(c)
    PROVE  IInv'
<1>1. Good(call[c], journal, owner, ledger) /\ call[c].pc = "reconcile"
  BY DEF IInv, Reconcile
<1>2. \A pc \in {"restore", "unknown"} : Good([call[c] EXCEPT !.pc = pc], journal, owner, ledger)
  BY <1>1 DEF Good, Known, Safe, Calls, Pcs, Before, Working, Recovering
<1>3. \A kind \in Pending(c) : Good([call[c] EXCEPT !.pc = kind], journal, owner, ledger)
  <2> SUFFICES ASSUME NEW kind \in Pending(c)
               PROVE  Good([call[c] EXCEPT !.pc = kind], journal, owner, ledger)
    OBVIOUS
  <2> DEFINE k == [call[c] EXCEPT !.pc = kind]
  <2>1. kind \in {"disarm", "blocked"} /\ Entry(call[c], kind) \in ledger
    BY DEF Pending, Entry, Receipt
  <2>2. Entry(k, k.pc) = Entry(call[c], kind)
    BY <1>1 DEF Entry, Good, Calls
  <2> QED BY <1>1, <2>1, <2>2 DEF Good, Known, Safe, Calls, Pcs, Before, Working, Recovering
<1>4. End(c) \/ (\E pc \in {"restore", "unknown"} : Go(c, pc)) \/ \E kind \in Pending(c) : Go(c, kind)
  BY DEF Reconcile
<1> QED BY <1>2, <1>3, <1>4, Ended, Gone DEF Reconcile

LEMMA RestoreInv ==
    ASSUME IInv, NEW c \in Callers, Restore(c)
    PROVE  IInv'
<1>1. Good(call[c], journal, owner, ledger) /\ call[c].pc = "restore"
  BY DEF IInv, Restore
<1>2. \A pc \in {"revert", "narrow"} : Good([call[c] EXCEPT !.pc = pc], journal, owner, ledger)
  BY <1>1 DEF Good, Known, Safe, Calls, Pcs, Before, Working, Recovering
<1>3. Fail(c) \/ \E pc \in {"revert", "narrow"} : Go(c, pc) \/ Then(c, [call[c] EXCEPT !.pc = pc])
  BY DEF Restore
<1> QED BY <1>2, <1>3, Failed, Gone, Answered DEF Restore

(* The steps that take or give back the claim.                             *)
LEMMA ClaimInv ==
    ASSUME IInv, NEW c \in Callers, Claim(c)
    PROVE  IInv'
<1> DEFINE p == call[c].of
           pc == CASE call[c].at \in Terminal -> "release"
                   [] call[c].at = "watch" -> "await"
                   [] OTHER -> "posture"
           inner == (call[c].at = "watch")
           k == [call[c] EXCEPT !.pc = pc, !.inner = inner]
<1>1. Good(call[c], journal, owner, ledger) /\ call[c].pc = "claim" /\ p \in Proposals
  BY DEF IInv, Claim, Good, Known
<1>2. CASE End(c) /\ UNCHANGED claim
  BY <1>2, Ended DEF Claim
<1>3. CASE claim \in {None, p} /\ claim' = p /\ Then(c, k)
  <2>1. \A q \in Proposals : Prefix(q) => claim' = q
    BY <1>3, NoneAssumption DEF IInv, ClaimHeld
  <2>2. Good(Raise(call[c]), journal, owner, ledger)
    BY <1>1, RaiseGood
  <2>3. Good(k, journal, owner, ledger)
    <3>1. /\ call[c].at \in Terminal => pc = "release"
          /\ call[c].at \notin Terminal => pc \in {"await", "posture"}
          /\ inner \in BOOLEAN
      OBVIOUS
    <3> HIDE DEF pc, inner
    <3> QED BY <1>1, <3>1, ZenonT(60) DEF Good, Known, Safe, Calls, Pcs, Before, Working, Recovering
  <2>4. UNCHANGED <<journal, owner, ledger>> /\ claim' \in Proposals \cup {None}
    BY <1>1, <1>3 DEF Claim
  <2>5. call' = [call EXCEPT ![c] = k] \/ call' = [call EXCEPT ![c] = Raise(call[c])]
    BY <1>3 DEF Then, Set
  <2> HIDE DEF k
  <2> QED BY <2>1, <2>2, <2>3, <2>4, <2>5, Moved
<1> QED BY <1>2, <1>3 DEF Claim

LEMMA ReleaseInv ==
    ASSUME IInv, NEW c \in Callers, Release(c)
    PROVE  IInv'
<1> DEFINE p == call[c].of
<1>1. Good(call[c], journal, owner, ledger) /\ p \in Proposals /\ journal[p].at \in Terminal
  BY DEF IInv, Release, Good, Known
<1>2. CASE Fail(c) /\ UNCHANGED claim
  BY <1>2, Failed DEF Release
<1>3. CASE claim = p /\ claim' = None /\ Then(c, Idle)
  <2>1. \A q \in Proposals : Prefix(q) => claim' = q
    BY <1>1, <1>3, NoneAssumption DEF IInv, ClaimHeld, Prefix
  <2>2. Good(Raise(call[c]), journal, owner, ledger) /\ Good(Idle, journal, owner, ledger)
    BY <1>1, RaiseGood, IdleGood
  <2>3. UNCHANGED <<journal, owner, ledger>> /\ claim' \in Proposals \cup {None}
    BY <1>3 DEF Release
  <2>4. call' = [call EXCEPT ![c] = Idle] \/ call' = [call EXCEPT ![c] = Raise(call[c])]
    BY <1>3 DEF Then, Set
  <2> QED BY <2>1, <2>2, <2>3, <2>4, Moved
<1> QED BY <1>2, <1>3 DEF Release

(* A journal that goes on from a tail that is not terminal: the other      *)
(* calls still know what they knew.                                        *)
LEMMA OthersKnow ==
    ASSUME NEW k, NEW o, NEW l, NEW j, Good(k, j, o, l), NEW p \in Proposals, NEW t,
           j \in [Proposals -> Journals], t \in Journals, t.at # "none",
           j[p].at \notin Terminal, j[p].at # "none" => t.epoch = j[p].epoch
    PROVE  Good(k, [j EXCEPT ![p] = t], o, l)
<1>1. CASE k.of = p
  BY <1>1 DEF Journals, Good, Known, Calls
<1>2. CASE k.of # p
  BY <1>2 DEF Journals, Good, Known, Calls
<1> QED BY <1>1, <1>2

LEMMA Written ==
    ASSUME IInv, NEW c \in Callers, NEW k, NEW p \in Proposals, NEW t, t \in Journals,
           journal' = [journal EXCEPT ![p] = t], t.at # "none", journal[p].at \notin Terminal,
           journal[p].at # "none" => t.epoch = journal[p].epoch,
           Good(k, journal', owner, ledger), Then(c, k), UNCHANGED <<owner, ledger>>,
           claim' = p, claim \in {None, p}
    PROVE  IInv'
<1>1. \A d \in Callers : Good(call[d], journal', owner, ledger)
  BY OthersKnow DEF IInv, Typed
<1>2. Good(Raise(call[c]), journal', owner, ledger)
  BY <1>1, RaiseGood
<1>3. PICK m : call' = [call EXCEPT ![c] = m] /\ Good(m, journal', owner, ledger)
  BY <1>2 DEF Then, Set
<1>4. Typed'
  BY <1>3 DEF IInv, Typed, Good
<1>5. ClaimHeld'
  BY NoneAssumption DEF IInv, Typed, ClaimHeld, Prefix
<1>6. \A d \in Callers : Good(call'[d], journal', owner', ledger')
  BY <1>1, <1>3 DEF IInv, Typed
<1> QED BY <1>4, <1>5, <1>6 DEF IInv

LEMMA PrepareInv ==
    ASSUME IInv, NEW c \in Callers, Prepare(c)
    PROVE  IInv'
<1> DEFINE p == call[c].of
           k == [call[c] EXCEPT !.pc = "confirm", !.at = "prepare"]
<1>1. Good(call[c], journal, owner, ledger) /\ call[c].pc = "prepare" /\ p \in Proposals
      /\ journal \in [Proposals -> Journals] /\ call[c] \in Calls
  BY DEF IInv, Typed, Prepare, Good, Known
<1>2. CASE End(c) /\ UNCHANGED <<claim, journal>>
  BY <1>2, Ended DEF Prepare
<1>3. CASE /\ claim = None /\ journal[p].at = "none" /\ claim' = p /\ Then(c, k)
           /\ journal' = [journal EXCEPT ![p].at = "prepare", ![p].epoch = call[c].epoch]
  <2>1. PICK t : t = [journal[p] EXCEPT !.at = "prepare", !.epoch = call[c].epoch]
    OBVIOUS
  <2>2. t \in Journals /\ t.at = "prepare" /\ t.epoch = call[c].epoch
    BY <1>1, <2>1, ZenonT(60) DEF Journals, Calls
  <2>3. journal' = [journal EXCEPT ![p] = t]
    BY <1>1, <1>3, <2>1
  <2>4. journal'[p] = t
    BY <1>1, <2>3
  <2>5. Good(k, journal', owner, ledger)
    BY <1>1, <2>2, <2>4 DEF Good, Known, Safe, Calls, Pcs, Before, Working, Recovering
  <2>6. UNCHANGED <<owner, ledger>>
    BY DEF Prepare
  <2> HIDE DEF p, k
  <2> QED BY <1>1, <1>3, <2>2, <2>3, <2>5, <2>6, Written
<1> QED BY <1>2, <1>3 DEF Prepare

LEMMA WriteInv ==
    ASSUME IInv, NEW c \in Callers, Write(c)
    PROVE  IInv'
<1> DEFINE k == call[c]
           p == call[c].of
           next == [k EXCEPT !.at = k.pc, !.pc = Onward(k)]
           t == [journal[p] EXCEPT !.at = k.pc,
                     !.why = IF k.pc = "unknown" THEN k.why ELSE @,
                     !.end = IF k.pc \in {"disarm", "blocked"} THEN Receipt(c, k.pc) ELSE @]
<1>1. Good(k, journal, owner, ledger) /\ k.pc \in Phases \ {"prepare"} /\ p \in Proposals
      /\ journal \in [Proposals -> Journals] /\ k \in Calls /\ k.at \notin Terminal /\ k.at # "none"
  BY DEF IInv, Typed, Write, Good, Known, Before, Working
<1>2. CASE Fail(c) /\ UNCHANGED <<journal, watch>>
  BY <1>2, Failed DEF Write
<1>3. CASE journal[p].at = k.at /\ Then(c, next) /\ journal' = [journal EXCEPT ![p] = t]
  <2>1. Receipt(c, k.pc) = [of |-> k.of, kind |-> k.pc, after |-> k.at, why |-> k.why]
    BY DEF Receipt
  <2>2. t \in Journals /\ t.at = k.pc /\ t.epoch = journal[p].epoch
    <3>1. journal[p] \in Journals
      BY <1>1
    <3>2. (IF k.pc = "unknown" THEN k.why ELSE journal[p].why) \in Nat
      BY <1>1, <3>1 DEF Journals, Calls
    <3>3. (IF k.pc \in {"disarm", "blocked"} THEN Receipt(c, k.pc) ELSE journal[p].end) \in Receipts
      BY <1>1, <2>1, <3>1 DEF Journals, Calls, Receipts
    <3> QED BY <1>1, <3>1, <3>2, <3>3 DEF Journals
  <2>3. journal'[p] = t
    BY <1>1, <1>3
  <2> HIDE DEF t
  <2>4. Onward(k) \in Pcs \ (Before \cup {"idle", "load", "claim", "reload", "disarm", "blocked"})
        /\ (Onward(k) = "settle" => k.pc = "commit")
        /\ (Onward(k) = "release" => k.pc \in {"disarm", "blocked"})
        /\ (Onward(k) \in Recovering => k.pc \in {"unknown", "revert"})
        /\ (Onward(k) \in Working => k.pc \notin Terminal)
    BY <1>1 DEF Onward, Pcs, Before, Working, Recovering
  <2>5. Good(next, journal', owner, ledger)
    <3>1. PICK pc : pc = Onward(k)
      OBVIOUS
    <3>2. next = [k EXCEPT !.at = k.pc, !.pc = pc]
      BY <3>1
    <3>3. next \in Calls /\ next.pc = pc /\ next.at = k.pc /\ next.of = p /\ next.epoch = k.epoch
          /\ next.seen = k.seen /\ next.broad = k.broad
      BY <1>1, <2>4, <3>1, <3>2, ZenonT(60) DEF Calls, Pcs, Before, Working
    <3>4. Known(next, journal')
      BY <1>1, <2>2, <2>3, <2>4, <3>1, <3>3 DEF Known, Good, Before, Working
    <3>5. Safe(next, owner, ledger)
      BY <1>1, <2>4, <3>1, <3>3 DEF Safe, Good, Recovering
    <3> QED BY <3>3, <3>4, <3>5 DEF Good
  <2>6. UNCHANGED <<owner, ledger, claim>> /\ claim = p
    BY <1>1, <1>3 DEF Write, IInv, ClaimHeld, Prefix
  <2> HIDE DEF next, p, k
  <2> QED BY <1>1, <1>3, <2>2, <2>5, <2>6, Written DEF k, p
<1> QED BY <1>1, <1>2, <1>3 DEF Write

(* What a recovery relies on survives new narrowings and authorizations.   *)
LEMMA LedgerGrows ==
    ASSUME NEW k, NEW j, NEW o, NEW l, NEW m, Good(k, j, o, l), l \subseteq m
    PROVE  Good(k, j, o, m)
<1>1. ArmedIn(o, m) => ArmedIn(o, l)
  BY DEF ArmedIn
<1> QED BY <1>1 DEF Good, Safe

LEMMA NewOwner ==
    ASSUME NEW k, NEW j, NEW o \in Owners, NEW w, NEW l, Good(k, j, o, l), w.n = o.n + 1
    PROVE  Good(k, j, w, l)
<1>1. k \in Calls /\ Known(k, j)
  BY DEF Good
<1>2. k.pc \in Recovering => k.seen <= w.n /\ k.seen # w.n
  BY <1>1 DEF Good, Safe, Calls, Owners
<1>3. Safe(k, w, l)
  BY <1>2 DEF Safe, Recovering
<1> QED BY <1>1, <1>3 DEF Good

LEMMA NarrowInv ==
    ASSUME IInv, NEW c \in Callers, Narrow(c)
    PROVE  IInv'
<1> DEFINE k == call[c]
           kind == IF k.pc = "narrow" THEN "disarm" ELSE "blocked"
           entry == [epoch |-> k.seen, receipt |-> Receipt(c, kind)]
           next == [k EXCEPT !.pc = kind]
<1>1. Good(k, journal, owner, ledger) /\ k.pc \in {"narrow", "block"} /\ k \in Calls /\ k.seen <= owner.n
  BY DEF IInv, Narrow, Good, Safe, Recovering
<1>2. ASSUME NEW l, ledger \subseteq l, k.seen # owner.n \/ ~ArmedIn(owner, l)
      PROVE  Good(next, journal, owner, l)
  <2>1. Good(k, journal, owner, l)
    BY <1>1, <1>2, LedgerGrows
  <2> QED BY <1>1, <1>2, <2>1 DEF Good, Known, Safe, Calls, Pcs, Before, Working, Recovering
<1>3. CASE ~k.broad /\ Go(c, kind) /\ UNCHANGED ledger
  <2>1. k.seen # owner.n \/ ~ArmedIn(owner, ledger)
    BY <1>1, <1>3 DEF Good, Safe, Recovering
  <2>2. Good(next, journal, owner, ledger)
    BY <1>2, <2>1
  <2> QED BY <1>3, <2>2, Gone DEF Narrow
<1>4. CASE End(c) /\ UNCHANGED ledger
  BY <1>4, Ended DEF Narrow
<1>5. CASE k.seen = owner.n /\ ledger' = ledger \cup {entry} /\ Then(c, next)
  <2>1. ~ArmedIn(owner, ledger')
    <3>1. entry.epoch = owner.n /\ entry \in ledger'
      BY <1>5
    <3> QED BY <3>1 DEF ArmedIn
  <2>2. Good(next, journal, owner, ledger')
    BY <1>2, <1>5, <2>1
  <2>3. \A d \in Callers : Good(call[d], journal, owner, ledger')
    BY <1>5, LedgerGrows DEF IInv
  <2>4. Good(Raise(k), journal, owner, ledger')
    BY <2>3, RaiseGood
  <2>5. PICK m : call' = [call EXCEPT ![c] = m] /\ Good(m, journal, owner, ledger')
    BY <1>5, <2>2, <2>4 DEF Then, Set
  <2>6. UNCHANGED <<journal, owner, claim>>
    BY DEF Narrow
  <2>7. Typed' /\ ClaimHeld'
    BY <2>5, <2>6 DEF IInv, Typed, Good, ClaimHeld, Prefix
  <2>8. \A d \in Callers : Good(call'[d], journal', owner', ledger')
    BY <2>3, <2>5, <2>6 DEF IInv, Typed
  <2> QED BY <2>7, <2>8 DEF IInv
<1> QED BY <1>3, <1>4, <1>5 DEF Narrow

LEMMA AuthorizeInv ==
    ASSUME IInv, Authorize
    PROVE  IInv'
<1>1. PICK armed \in BOOLEAN : owner' = [n |-> owner.n + 1, armed |-> armed]
  BY DEF Authorize
<1>2. owner \in Owners /\ owner' \in Owners /\ owner'.n = owner.n + 1
  BY <1>1 DEF IInv, Typed, Owners
<1>3. UNCHANGED <<journal, call, claim, ledger>>
  BY DEF Authorize
<1>4. \A c \in Callers : Good(call[c], journal, owner', ledger)
  BY <1>2, NewOwner DEF IInv
<1>5. Typed' /\ ClaimHeld'
  BY <1>2, <1>3 DEF IInv, Typed, ClaimHeld, Prefix
<1> QED BY <1>3, <1>4, <1>5 DEF IInv

LEMMA StandsStill ==
    ASSUME IInv, UNCHANGED <<journal, call, claim, owner, ledger>>
    PROVE  IInv'
  BY DEF IInv, Typed, ClaimHeld, Prefix

LEMMA FaultInv ==
    ASSUME IInv, NEW c \in Callers, Fault(c) \/ Crash(c)
    PROVE  IInv'
<1>1. Good(Raise(call[c]), journal, owner, ledger) /\ Good(Idle, journal, owner, ledger)
  BY RaiseGood, IdleGood DEF IInv
<1> QED BY <1>1, Kept DEF Fault, Crash, Set

LEMMA Inductive ==
    ASSUME IInv, [Next]_vars
    PROVE  IInv'
<1>1. ASSUME NEW c \in Callers, Step(c) PROVE IInv'
  BY <1>1, AdmitInv, SnapshotInv, PrepareInv, ConfirmInv, RecheckInv, ReplaceInv, WriteInv, LookInv,
     AwaitInv, ReleaseInv, LoadInv, ClaimInv, ReloadInv, PostureInv, ReconcileInv, RestoreInv,
     NarrowInv DEF Step
<1>2. ASSUME NEW c \in Callers, Fault(c) \/ Crash(c) PROVE IInv'
  BY <1>2, FaultInv
<1>3. ASSUME NEW c \in Callers, NEW p \in Proposals, Submit(c, p) PROVE IInv'
  BY <1>3, SubmitInv
<1>4. CASE Flip \/ \E p \in Proposals : EndWatch(p) \/ LateWatch(p)
  BY <1>4, StandsStill DEF Flip, EndWatch, LateWatch
<1>5. CASE Authorize
  BY <1>5, AuthorizeInv
<1>6. CASE UNCHANGED vars
  BY <1>6, StandsStill DEF vars
<1> QED BY <1>1, <1>2, <1>3, <1>4, <1>5, <1>6 DEF Next

LEMMA Initially == Init => IInv
<1> SUFFICES ASSUME Init PROVE IInv
  OBVIOUS
<1>1. Good(Idle, journal, owner, ledger) /\ Idle \in Calls
  BY IdleGood DEF Good
<1>2. NoJournal \in Journals
  BY DEF NoJournal, Journals, Receipts
<1>3. Typed
  BY <1>1, <1>2 DEF Init, Typed, Owners
<1>4. ClaimHeld
  BY DEF Init, ClaimHeld, Prefix, NoJournal
<1> QED BY <1>1, <1>3, <1>4 DEF Init, IInv

LEMMA Invariance == Spec => []IInv
  BY Initially, Inductive, PTL DEF Spec

-------------------------------------------------------------------------------
(* An attempt that is not over holds the target, whatever calls run, die   *)
(* or overlap: createAndClaim, and terminalizeClaim after the last entry.  *)
THEOREM ClaimAlwaysHeld == Spec => []ClaimHeld
<1>1. IInv => ClaimHeld BY DEF IInv
<1> QED BY <1>1, Invariance, PTL

LEMMA WriteEffect ==
    ASSUME IInv, NEW c \in Callers, Write(c), NEW p \in Proposals, journal'[p].at # journal[p].at,
           journal'[p].at \in {"disarm", "blocked"}
    PROVE  /\ call[c].of = p /\ call[c].pc = journal'[p].at
           /\ journal'[p].end = Receipt(c, call[c].pc)
<1> DEFINE k == call[c]
<1>1. journal \in [Proposals -> Journals] /\ journal' # journal
  BY DEF IInv, Typed
<1>2. PICK why, end : journal' = [journal EXCEPT ![k.of].at = k.pc, ![k.of].why = why, ![k.of].end = end]
                      /\ end = IF k.pc \in {"disarm", "blocked"} THEN Receipt(c, k.pc) ELSE journal[k.of].end
  BY <1>1 DEF Write
<1>3. k.of = p
  BY <1>1, <1>2
<1>4. PICK t : t = [journal[p] EXCEPT !.at = k.pc, !.why = why, !.end = end]
  OBVIOUS
<1>5. journal' = [journal EXCEPT ![p] = t]
  BY <1>1, <1>2, <1>3, <1>4
<1>6. journal'[p] = t /\ journal[p] \in Journals
  BY <1>1, <1>5
<1>7. t.at = k.pc /\ t.end = end
  BY <1>4, <1>6 DEF Journals
<1> QED BY <1>2, <1>3, <1>6, <1>7

(* Nothing but the write of a call's entry changes a journal's end.        *)
LEMMA Writers ==
    ASSUME IInv, [Next]_vars, NEW p \in Proposals, journal'[p].at # journal[p].at,
           journal'[p].at \in {"disarm", "blocked"}
    PROVE  \E c \in Callers : /\ call[c].of = p /\ call[c].pc = journal'[p].at
                              /\ journal'[p].end = Receipt(c, call[c].pc)
<1>1. journal' # journal
  OBVIOUS
<1>2. ASSUME NEW c \in Callers, Step(c) PROVE Write(c) \/ Prepare(c)
  BY <1>1, <1>2 DEF Step, Admit, Snapshot, Confirm, Recheck, Replace, Look, Await, Release, Load, Claim,
     Reload, Posture, Reconcile, Restore, Narrow
<1>3. \E c \in Callers : Step(c)
  BY <1>1 DEF Next, vars, Fault, Crash, Submit, Flip, Authorize, EndWatch, LateWatch
<1>4. PICK c \in Callers : Write(c) \/ Prepare(c)
  BY <1>2, <1>3
<1>5. ~Prepare(c)
  <2> SUFFICES ASSUME Prepare(c) PROVE FALSE
    OBVIOUS
  <2>1. journal \in [Proposals -> Journals]
    BY DEF IInv, Typed
  <2>2. PICK q, e : journal' = [journal EXCEPT ![q].at = "prepare", ![q].epoch = e]
    BY <1>1 DEF Prepare
  <2>3. PICK t : t = [journal[q] EXCEPT !.at = "prepare", !.epoch = e]
    OBVIOUS
  <2>4. journal' = [journal EXCEPT ![q] = t]
    BY <2>1, <2>2, <2>3
  <2>5. q = p
    BY <2>1, <2>4
  <2>6. journal'[p] = t /\ journal[p] \in Journals
    BY <2>1, <2>4, <2>5
  <2>7. t.at = "prepare"
    BY <2>3, <2>5, <2>6 DEF Journals
  <2> QED BY <2>6, <2>7
<1> QED BY <1>4, <1>5, WriteEffect

(* The recovery ends an attempt only when the authorization it saw no      *)
(* longer arms the target, or when a narrowing of the attempt's own        *)
(* authorization names the very entry it writes.                           *)
THEOREM NarrowedBeforeEnd == Spec => NarrowedFirst
<1> DEFINE Ends(p) ==
        journal'[p].at # journal[p].at /\ journal'[p].at \in {"disarm", "blocked"} =>
           \/ ~Armed
           \/ [epoch |-> journal[p].epoch, receipt |-> journal'[p].end] \in ledger
           \/ \E c \in Callers : call[c].of = p /\ call[c].pc = journal'[p].at /\ call[c].seen # owner.n
<1>1. ASSUME IInv, [Next]_vars, NEW p \in Proposals PROVE Ends(p)
  <2> SUFFICES ASSUME journal'[p].at # journal[p].at, journal'[p].at \in {"disarm", "blocked"}
               PROVE  \/ ~Armed
                      \/ [epoch |-> journal[p].epoch, receipt |-> journal'[p].end] \in ledger
                      \/ \E c \in Callers : /\ call[c].of = p /\ call[c].pc = journal'[p].at
                                            /\ call[c].seen # owner.n
    OBVIOUS
  <2>1. PICK c \in Callers : /\ call[c].of = p /\ call[c].pc = journal'[p].at
                             /\ journal'[p].end = Receipt(c, call[c].pc)
    BY <1>1, Writers
  <2>2. journal'[p].end = Entry(call[c], call[c].pc).receipt
    BY <2>1 DEF Entry, Receipt
  <2>3. Good(call[c], journal, owner, ledger) /\ call[c].pc \in {"disarm", "blocked"}
    BY <1>1, <2>1 DEF IInv
  <2>4. call[c].epoch = journal[p].epoch
    BY <2>1, <2>3 DEF Good, Known, Before
  <2>5. Entry(call[c], call[c].pc) = [epoch |-> journal[p].epoch, receipt |-> journal'[p].end]
    BY <2>2, <2>4 DEF Entry
  <2>6. Armed <=> ArmedIn(owner, ledger)
    BY DEF Armed, ArmedIn, Narrowed
  <2> QED BY <2>1, <2>3, <2>5, <2>6 DEF Good, Safe
<1>2. IInv /\ [Next]_vars => \A p \in Proposals : Ends(p)
  BY <1>1
<1> QED BY <1>2, Invariance, PTL DEF NarrowedFirst, Spec

-------------------------------------------------------------------------------
(* What follows holds when a proposal is not submitted while a call for it *)
(* runs, and nothing but the proposal itself brings a candidate first.     *)
Serial == ~Overlap
Novel ==
    /\ \A p, q \in Proposals : Cand[p] = Cand[q] => p = q
    /\ \A p \in Proposals : Start # Cand[p]

Begun(j, p) == j[p].at # "none"

(* A call alone knows the tail of its journal; past the restore, the       *)
(* candidate is gone; a base that is a candidate was brought by it.        *)
Synced == {"claim", "posture", "reconcile", "unknown", "restore", "revert", "narrow", "disarm"}
Knows(k, j, t) ==
    /\ k.pc \in {"recheck", "replace"} => j[k.of].at = "prepare"
    /\ k.pc \in Synced => j[k.of].at = k.at
    /\ k.pc = "restore" => k.at \in {"unknown", "revert"}
    /\ k.pc = "revert" => k.at = "unknown" /\ t # Cand[k.of]
    /\ k.pc \in {"narrow", "disarm"} => k.at = "revert"
    /\ k.pc = "prepare" => \A q \in Proposals : Base[k.of] = Cand[q] => Begun(j, q)
Alone == \A c, d \in Callers : c # d /\ call[c].of = call[d].of => call[c].of = None

(* A candidate in force was brought by its proposal, and so was one that   *)
(* another attempt may bring back; the latter has not been rolled back.    *)
Brought ==
    /\ \A q \in Proposals : target = Cand[q] => Begun(journal, q)
    /\ \A p, q \in Proposals : Begun(journal, p) /\ Base[p] = Cand[q] => Begun(journal, q)
Buried ==
    \A p, q \in Proposals :
        journal[p].at \in {"revert", "disarm"} /\ Prefix(q) /\ Base[q] = Cand[p] => target # Cand[q]

RInv ==
    /\ Alone /\ Brought /\ Buried /\ DisarmedRestored
    /\ \A c \in Callers : Knows(call[c], journal, target)

LEMMA RaiseKnows ==
    ASSUME NEW k \in Calls, NEW j, NEW t
    PROVE  /\ Knows(Raise(k), j, t) /\ Raise(k).of \in {k.of, None}
           /\ Knows(Idle, j, t) /\ Idle.of = None
<1>1. CASE k.pc \in Attempt
  <2>1. Raise(k) = [k EXCEPT !.pc = "reload"] \/ Raise(k) = [k EXCEPT !.pc = "load"]
    <3>1. k.inner => Raise(k) = [k EXCEPT !.pc = "reload"]
      BY <1>1 DEF Raise, Attempt, Calls
    <3>2. ~k.inner => Raise(k) = [k EXCEPT !.pc = "load"]
      BY <1>1 DEF Raise, Attempt, Calls
    <3> QED BY <3>1, <3>2
  <2>2. Raise(k).pc \in {"reload", "load"} /\ Raise(k).of = k.of
    BY <2>1 DEF Calls
  <2> QED BY <2>2 DEF Knows, Synced, Idle
<1>2. CASE k.pc \in {"restore", "revert", "narrow"}
  <2>1. Raise(k) = [k EXCEPT !.pc = "block"]
    BY <1>2 DEF Raise, Attempt
  <2>2. Raise(k).pc = "block" /\ Raise(k).of = k.of
    BY <2>1 DEF Calls
  <2> QED BY <2>2 DEF Knows, Synced, Idle
<1>3. CASE k.pc \notin Attempt \cup {"restore", "revert", "narrow"}
  <2>1. Raise(k) = Idle
    BY <1>3 DEF Raise
  <2> QED BY <2>1 DEF Knows, Synced, Idle
<1> QED BY <1>1, <1>2, <1>3

(* A call moves; its journal and the document in force stay.               *)
LEMMA MovedAlone ==
    ASSUME IInv, RInv, NEW c \in Callers, NEW m, call' = [call EXCEPT ![c] = m],
           m.of \in {call[c].of, None}, Knows(m, journal, target), UNCHANGED <<journal, target>>
    PROVE  RInv'
<1>1. \A d \in Callers : call'[d] = IF d = c THEN m ELSE call[d]
  BY DEF IInv, Typed
<1>2. Alone'
  BY <1>1 DEF RInv, Alone
<1>3. \A d \in Callers : Knows(call'[d], journal', target')
  BY <1>1 DEF RInv
<1>4. Brought' /\ Buried' /\ DisarmedRestored'
  BY DEF RInv, Brought, Buried, DisarmedRestored, Begun, Prefix
<1> QED BY <1>2, <1>3, <1>4 DEF RInv

LEMMA WentAlone ==
    ASSUME IInv, RInv, NEW c \in Callers, NEW m, Set(c, m) \/ Then(c, m) \/ Fail(c) \/ End(c),
           m.of = call[c].of, Knows(m, journal, target), UNCHANGED <<journal, target>>
    PROVE  RInv'
<1>1. call[c] \in Calls
  BY DEF IInv, Typed
<1>2. CASE call' = [call EXCEPT ![c] = m]
  BY <1>2, MovedAlone
<1>3. CASE call' = [call EXCEPT ![c] = Raise(call[c])]
  BY <1>1, <1>3, RaiseKnows, MovedAlone
<1>4. CASE call' = [call EXCEPT ![c] = Idle]
  BY <1>1, <1>4, RaiseKnows, MovedAlone
<1> QED BY <1>2, <1>3, <1>4 DEF Set, Then, Fail, End

LEMMA GoneAlone ==
    ASSUME IInv, RInv, NEW c \in Callers, NEW pc, Go(c, pc) \/ Then(c, [call[c] EXCEPT !.pc = pc]),
           Knows([call[c] EXCEPT !.pc = pc], journal, target), UNCHANGED <<journal, target>>
    PROVE  RInv'
<1>1. call[c] \in Calls
  BY DEF IInv, Typed
<1>2. [call[c] EXCEPT !.pc = pc].of = call[c].of
  BY <1>1 DEF Calls
<1>3. Set(c, [call[c] EXCEPT !.pc = pc]) \/ Then(c, [call[c] EXCEPT !.pc = pc])
  BY DEF Go
<1> QED BY <1>2, <1>3, WentAlone

LEMMA StoppedAlone ==
    ASSUME IInv, RInv, NEW c \in Callers, Fail(c) \/ End(c), UNCHANGED <<journal, target>>
    PROVE  RInv'
<1>1. call[c] \in Calls
  BY DEF IInv, Typed
<1>2. CASE call' = [call EXCEPT ![c] = Raise(call[c])]
  BY <1>1, <1>2, RaiseKnows, MovedAlone
<1>3. CASE call' = [call EXCEPT ![c] = Idle]
  BY <1>1, <1>3, RaiseKnows, MovedAlone
<1> QED BY <1>2, <1>3 DEF Set, Fail, End

LEMMA LooksAlone ==
    ASSUME IInv, RInv, NEW c \in Callers, Confirm(c) \/ Recheck(c) \/ Look(c) \/ Await(c)
    PROVE  RInv'
<1>1. call[c] \in Calls /\ Knows(call[c], journal, target) /\ UNCHANGED <<journal, target>>
  BY DEF IInv, Typed, RInv, Confirm, Recheck, Look, Await
<1>2. ASSUME NEW pc \in {"load", "look", "verify", "commit", "check"}, Go(c, pc) PROVE RInv'
  <2>1. Knows([call[c] EXCEPT !.pc = pc], journal, target)
    BY <1>1 DEF Knows, Calls, Synced
  <2> QED BY <1>1, <1>2, <2>1, GoneAlone
<1>3. ASSUME Go(c, "recheck"), Confirm(c), journal[call[c].of].at = "prepare" PROVE RInv'
  <2>1. Knows([call[c] EXCEPT !.pc = "recheck"], journal, target)
    BY <1>1, <1>3 DEF Knows, Calls, Synced
  <2> QED BY <1>1, <1>3, <2>1, GoneAlone
<1>4. ASSUME Go(c, "replace"), call[c].pc = "recheck" PROVE RInv'
  <2>1. Knows([call[c] EXCEPT !.pc = "replace"], journal, target)
    BY <1>1, <1>4 DEF Knows, Calls, Synced
  <2> QED BY <1>1, <1>4, <2>1, GoneAlone
<1>5. CASE Confirm(c)
  BY <1>1, <1>2, <1>3, <1>5, StoppedAlone DEF Confirm
<1>6. CASE Recheck(c)
  BY <1>1, <1>2, <1>4, <1>6, StoppedAlone DEF Recheck
<1>7. CASE Look(c) \/ Await(c)
  BY <1>1, <1>2, <1>7, StoppedAlone DEF Look, Await
<1> QED BY <1>5, <1>6, <1>7

LEMMA AdmitsAlone ==
    ASSUME IInv, RInv, NEW c \in Callers, Admit(c) \/ Snapshot(c)
    PROVE  RInv'
<1>1. call[c] \in Calls /\ Knows(call[c], journal, target) /\ UNCHANGED <<journal, target>>
  BY DEF IInv, Typed, RInv, Admit, Snapshot
<1>2. CASE End(c)
  BY <1>1, <1>2, StoppedAlone
<1>3. CASE Set(c, [call[c] EXCEPT !.pc = "snapshot", !.epoch = owner.n])
  <2> DEFINE m == [call[c] EXCEPT !.pc = "snapshot", !.epoch = owner.n]
  <2>1. m.pc = "snapshot" /\ m.of = call[c].of
    BY <1>1 DEF Calls
  <2>2. Knows(m, journal, target)
    BY <2>1 DEF Knows, Synced
  <2> QED BY <1>1, <1>3, <2>1, <2>2, WentAlone
<1>4. CASE target = Base[call[c].of] /\ Then(c, [call[c] EXCEPT !.pc = "prepare"])
  <2>1. Knows([call[c] EXCEPT !.pc = "prepare"], journal, target)
    BY <1>1, <1>4 DEF Knows, Calls, Synced, RInv, Brought
  <2> QED BY <1>1, <1>4, <2>1, GoneAlone
<1> QED BY <1>2, <1>3, <1>4 DEF Admit, Snapshot

LEMMA RecoversAlone ==
    ASSUME IInv, RInv, NEW c \in Callers, Load(c) \/ Claim(c) \/ Reload(c) \/ Posture(c) \/ Reconcile(c)
    PROVE  RInv'
<1> DEFINE k == call[c]
           j == journal[k.of]
<1>1. k \in Calls /\ Knows(k, journal, target) /\ UNCHANGED <<journal, target>>
  BY DEF IInv, Typed, RInv, Load, Claim, Reload, Posture, Reconcile
<1>2. CASE End(c) \/ Fail(c)
  BY <1>1, <1>2, StoppedAlone
<1>3. CASE Load(c)
  <2> DEFINE m == [Idle EXCEPT !.of = k.of, !.at = j.at, !.epoch = j.epoch, !.why = j.why, !.pc = "claim"]
  <2>1. m.of = k.of /\ m.pc = "claim" /\ m.at = j.at
    BY DEF Idle
  <2>2. Knows(m, journal, target)
    BY <2>1 DEF Knows, Synced
  <2>3. Set(c, m)
    BY <1>3 DEF Load
  <2> HIDE DEF m
  <2> QED BY <1>1, <2>1, <2>2, <2>3, WentAlone
<1>4. CASE Claim(c)
  <2>1. PICK pc, inner :
          \/ pc \in {"release", "await", "posture"} /\ Then(c, [k EXCEPT !.pc = pc, !.inner = inner])
          \/ End(c)
    BY <1>4 DEF Claim
  <2>2. CASE ~End(c)
    <3> DEFINE m == [k EXCEPT !.pc = pc, !.inner = inner]
    <3>1. m.pc = pc /\ m.of = k.of /\ m.at = k.at /\ pc \in {"release", "await", "posture"} /\ k.pc = "claim"
      BY <1>1, <1>4, <2>1, <2>2 DEF Calls, Claim
    <3>2. Knows(m, journal, target)
      BY <1>1, <3>1 DEF Knows, Synced
    <3>3. Then(c, m)
      BY <2>1, <2>2
    <3> HIDE DEF m
    <3> QED BY <1>1, <3>1, <3>2, <3>3, WentAlone
  <2> QED BY <1>2, <2>2
<1>5. CASE Reload(c)
  <2>1. CASE Go(c, "load")
    <3>1. Knows([call[c] EXCEPT !.pc = "load"], journal, target)
      BY <1>1 DEF Knows, Calls, Synced
    <3> QED BY <1>1, <2>1, <3>1, GoneAlone
  <2>2. CASE Set(c, [k EXCEPT !.pc = "posture", !.inner = FALSE]) /\ j.at = k.at
    <3> DEFINE m == [k EXCEPT !.pc = "posture", !.inner = FALSE]
    <3>1. m.pc = "posture" /\ m.of = k.of /\ m.at = k.at
      BY <1>1 DEF Calls
    <3>2. Knows(m, journal, target)
      BY <2>2, <3>1 DEF Knows, Synced
    <3> QED BY <1>1, <2>2, <3>1, <3>2, WentAlone
  <2> QED BY <1>2, <1>5, <2>1, <2>2 DEF Reload
<1>6. CASE Posture(c)
  <2>1. PICK seen, broad, why :
          Set(c, [k EXCEPT !.pc = "reconcile", !.seen = seen, !.broad = broad, !.why = why])
    BY <1>6 DEF Posture
  <2> DEFINE m == [k EXCEPT !.pc = "reconcile", !.seen = seen, !.broad = broad, !.why = why]
  <2>2. m.pc = "reconcile" /\ m.of = k.of /\ m.at = k.at /\ k.pc = "posture"
    BY <1>1, <1>6 DEF Calls, Posture
  <2>3. Knows(m, journal, target)
    BY <1>1, <2>2 DEF Knows, Synced
  <2> HIDE DEF m
  <2> QED BY <1>1, <2>1, <2>2, <2>3, WentAlone DEF m
<1>7. CASE Reconcile(c)
  <2>1. \A pc \in {"restore", "unknown", "disarm", "blocked"} :
          (pc = "restore" => k.at \in {"unknown", "revert"}) /\ (pc = "disarm" => k.at = "revert")
            => Knows([k EXCEPT !.pc = pc], journal, target)
    BY <1>1, <1>7 DEF Knows, Calls, Synced, Reconcile
  <2>2. \/ End(c)
        \/ Go(c, "unknown")
        \/ k.at \in {"unknown", "revert"} /\ Go(c, "restore")
        \/ \E kind \in {"disarm", "blocked"} : (kind = "disarm" => k.at = "revert") /\ Go(c, kind)
    BY <1>7 DEF Reconcile, Pending
  <2> QED BY <1>1, <1>2, <2>1, <2>2, GoneAlone
<1> QED BY <1>3, <1>4, <1>5, <1>6, <1>7

LEMMA NarrowsAlone ==
    ASSUME IInv, RInv, NEW c \in Callers, Narrow(c)
    PROVE  RInv'
<1> DEFINE k == call[c]
           kind == IF k.pc = "narrow" THEN "disarm" ELSE "blocked"
<1>1. k \in Calls /\ Knows(k, journal, target) /\ UNCHANGED <<journal, target>>
      /\ k.pc \in {"narrow", "block"}
  BY DEF IInv, Typed, RInv, Narrow
<1>2. Knows([k EXCEPT !.pc = kind], journal, target)
  BY <1>1 DEF Knows, Calls, Synced
<1>3. End(c) \/ Go(c, kind) \/ Then(c, [k EXCEPT !.pc = kind])
  BY DEF Narrow
<1> HIDE DEF kind
<1> QED BY <1>1, <1>2, <1>3, StoppedAlone, GoneAlone

LEMMA StopsAlone ==
    ASSUME IInv, RInv, NEW c \in Callers, Release(c) \/ Fault(c) \/ Crash(c)
    PROVE  RInv'
<1>1. call[c] \in Calls /\ UNCHANGED <<journal, target>>
  BY DEF IInv, Typed, Release, Fault, Crash
<1>2. \/ call' = [call EXCEPT ![c] = Idle]
      \/ call' = [call EXCEPT ![c] = Raise(call[c])]
  BY DEF Release, Fault, Crash, Set, Then, Fail
<1> QED BY <1>1, <1>2, RaiseKnows, MovedAlone

LEMMA SubmitsAlone ==
    ASSUME IInv, RInv, Serial, NEW c \in Callers, NEW p \in Proposals, Submit(c, p)
    PROVE  RInv'
<1> DEFINE m == [Idle EXCEPT !.of = p, !.pc = IF journal[p].at = "none" THEN "admit" ELSE "load"]
<1>1. /\ call' = [call EXCEPT ![c] = m] /\ UNCHANGED <<journal, target>>
      /\ \A d \in Callers : call[d].of # p
  BY DEF Submit, Set, Serial
<1>2. m.of = p /\ m.pc \in {"admit", "load"}
  BY DEF Idle
<1>3. Knows(m, journal, target)
  BY <1>2 DEF Knows, Synced
<1> HIDE DEF m
<1>4. \A d \in Callers : call'[d] = IF d = c THEN m ELSE call[d]
  BY <1>1 DEF IInv, Typed
<1>5. Alone'
  BY <1>1, <1>2, <1>4 DEF RInv, Alone
<1>6. \A d \in Callers : Knows(call'[d], journal', target')
  BY <1>1, <1>3, <1>4 DEF RInv
<1>7. Brought' /\ Buried' /\ DisarmedRestored'
  BY <1>1 DEF RInv, Brought, Buried, DisarmedRestored, Begun, Prefix
<1> QED BY <1>5, <1>6, <1>7 DEF RInv

-------------------------------------------------------------------------------
(* Attempts that are not over follow one another, so that one at a time    *)
(* changes the document in force.                                          *)
LEMMA OneAttempt ==
    ASSUME IInv, NEW p \in Proposals, NEW q \in Proposals, Prefix(p), Prefix(q)
    PROVE  p = q
  BY DEF IInv, ClaimHeld

(* The others of a call that changes the document in force.                *)
LEMMA NobodyReverts ==
    ASSUME IInv, RInv, NEW c \in Callers, call[c].of \in Proposals, Prefix(call[c].of),
           NEW d \in Callers, d # c
    PROVE  call[d].pc # "revert"
<1> SUFFICES ASSUME call[d].pc = "revert" PROVE FALSE
  OBVIOUS
<1>1. call[d].of \in Proposals
  BY DEF IInv, Good, Known
<1>2. journal[call[d].of].at = "unknown"
  BY DEF RInv, Knows, Synced
<1>3. Prefix(call[d].of)
  BY <1>2 DEF Prefix
<1>4. call[d].of = call[c].of
  BY <1>1, <1>3, OneAttempt
<1> QED BY <1>1, <1>4, NoneAssumption DEF RInv, Alone

LEMMA ChangedAlone ==
    ASSUME IInv, RInv, NEW c \in Callers, NEW m, call' = [call EXCEPT ![c] = m], UNCHANGED journal,
           m.of \in {call[c].of, None}, Knows(m, journal, target'),
           call[c].of \in Proposals, Prefix(call[c].of),
           Brought', Buried', DisarmedRestored'
    PROVE  RInv'
<1>1. \A d \in Callers : call'[d] = IF d = c THEN m ELSE call[d]
  BY DEF IInv, Typed
<1>2. Alone'
  BY <1>1 DEF RInv, Alone
<1>3. ASSUME NEW d \in Callers PROVE Knows(call'[d], journal', target')
  <2>1. CASE d = c
    BY <1>1, <2>1
  <2>2. CASE d # c
    <3>1. call[d].pc # "revert"
      BY <2>2, NobodyReverts
    <3> QED BY <1>1, <2>2, <3>1 DEF RInv, Knows
  <2> QED BY <2>1, <2>2
<1> QED BY <1>2, <1>3 DEF RInv

LEMMA ReplacesAlone ==
    ASSUME IInv, RInv, Novel, NEW c \in Callers, Replace(c)
    PROVE  RInv'
<1> DEFINE p == call[c].of
<1>1. call[c] \in Calls /\ p \in Proposals /\ journal[p].at = "prepare" /\ UNCHANGED journal
  BY DEF IInv, Typed, Good, Known, RInv, Knows, Replace, Before
<1>2. Prefix(p)
  BY <1>1 DEF Prefix
<1>3. CASE Fail(c) /\ UNCHANGED target
  BY <1>1, <1>3, StoppedAlone
<1>4. CASE target = Base[p] /\ target' = Cand[p] /\ Then(c, [call[c] EXCEPT !.pc = "apply"])
  <2>1. Brought'
    BY <1>1, <1>4 DEF RInv, Brought, Begun, Novel
  <2>2. DisarmedRestored'
    BY <1>1, <1>4 DEF RInv, DisarmedRestored, Novel
  <2>3. Buried'
    <3> SUFFICES ASSUME NEW r \in Proposals, NEW q \in Proposals, journal[r].at \in {"revert", "disarm"},
                        Prefix(q), Base[q] = Cand[r]
                 PROVE  FALSE
      BY <1>1 DEF Buried, Prefix
    <3>1. q = p
      BY <1>1, <1>2, OneAttempt
    <3> QED BY <1>4, <3>1 DEF RInv, DisarmedRestored
  <2>4. [call[c] EXCEPT !.pc = "apply"].of = p /\ Knows([call[c] EXCEPT !.pc = "apply"], journal, target')
    BY <1>1 DEF Calls, Knows, Synced
  <2>5. Raise(call[c]).of \in {p, None} /\ Knows(Raise(call[c]), journal, target')
    BY <1>1, RaiseKnows
  <2> QED BY <1>1, <1>2, <1>4, <2>1, <2>2, <2>3, <2>4, <2>5, ChangedAlone DEF Then, Set
<1> QED BY <1>3, <1>4 DEF Replace

LEMMA RestoresAlone ==
    ASSUME IInv, RInv, NEW c \in Callers, Restore(c)
    PROVE  RInv'
<1> DEFINE k == call[c]
           p == k.of
           onward == IF k.at = "unknown" THEN "revert" ELSE "narrow"
           m == [k EXCEPT !.pc = onward]
<1>1. k \in Calls /\ p \in Proposals /\ journal[p].at = k.at /\ k.at \in {"unknown", "revert"}
      /\ UNCHANGED journal
  BY DEF IInv, Typed, Good, Known, RInv, Knows, Restore, Before, Synced
<1>2. Prefix(p) /\ Base[p] # Cand[p]
  BY <1>1, DocumentAssumption DEF Prefix
<1>3. \A t : t # Cand[p] => Knows(m, journal, t)
  BY <1>1 DEF Knows, Calls, Synced
<1>4. CASE Fail(c) /\ UNCHANGED target
  BY <1>1, <1>4, StoppedAlone
<1>5. CASE target = Base[p] /\ Go(c, onward) /\ UNCHANGED target
  <2>1. Knows(m, journal, target)
    BY <1>2, <1>3, <1>5
  <2> HIDE DEF onward
  <2> QED BY <1>1, <1>5, <2>1, GoneAlone
<1>6. CASE target = Cand[p] /\ target' = Base[p] /\ Then(c, m)
  <2>1. Brought'
    BY <1>1, <1>6 DEF RInv, Brought, Begun
  <2>2. DisarmedRestored'
    BY <1>1, <1>2, <1>6 DEF RInv, DisarmedRestored, Buried
  <2>3. Buried'
    <3> SUFFICES ASSUME NEW r \in Proposals, NEW q \in Proposals, journal[r].at \in {"revert", "disarm"},
                        Prefix(q), Base[q] = Cand[r]
                 PROVE  target' # Cand[q]
      BY <1>1 DEF Buried, Prefix
    <3>1. q = p
      BY <1>1, <1>2, OneAttempt
    <3> QED BY <1>2, <1>6, <3>1
  <2>4. m.of = p /\ Knows(m, journal, target')
    BY <1>1, <1>2, <1>3, <1>6 DEF Calls
  <2>5. Raise(k).of \in {p, None} /\ Knows(Raise(k), journal, target')
    BY <1>1, RaiseKnows
  <2> HIDE DEF m
  <2> QED BY <1>1, <1>2, <1>6, <2>1, <2>2, <2>3, <2>4, <2>5, ChangedAlone DEF Then, Set
<1> QED BY <1>4, <1>5, <1>6 DEF Restore

(* One entry is added to a journal.                                        *)
LEMMA AppendsAlone ==
    ASSUME IInv, RInv, NEW c \in Callers, NEW m, NEW p \in Proposals, NEW t, p = call[c].of,
           call' = [call EXCEPT ![c] = m], journal' = [journal EXCEPT ![p] = t], UNCHANGED target,
           m.of \in {p, None}, Knows(m, journal', target), t.at # "none",
           Brought', Buried', DisarmedRestored'
    PROVE  RInv'
<1>1. /\ \A d \in Callers : call'[d] = IF d = c THEN m ELSE call[d]
      /\ \A q \in Proposals : journal'[q] = IF q = p THEN t ELSE journal[q]
  BY DEF IInv, Typed
<1>2. Alone'
  BY <1>1 DEF RInv, Alone
<1>3. ASSUME NEW d \in Callers PROVE Knows(call'[d], journal', target')
  <2>1. CASE d = c
    BY <1>1, <2>1
  <2>2. CASE d # c /\ call[d].pc = "idle"
    BY <1>1, <2>2 DEF Knows, Synced
  <2>3. CASE d # c /\ call[d].pc # "idle"
    <3>1. call[d].of \in Proposals /\ call[d].of # p
      BY <2>3, NoneAssumption DEF IInv, Good, Known, RInv, Alone
    <3>2. journal'[call[d].of] = journal[call[d].of] /\ \A q \in Proposals : Begun(journal, q) => Begun(journal', q)
      BY <1>1, <3>1 DEF Begun
    <3>3. Knows(call[d], journal, target) /\ call'[d] = call[d]
      BY <1>1, <2>3 DEF RInv
    <3>4. Knows(call[d], journal', target)
      BY <3>2, <3>3 DEF Knows
    <3> QED BY <3>3, <3>4
  <2> QED BY <2>1, <2>2, <2>3
<1> QED BY <1>2, <1>3 DEF RInv

LEMMA PreparesAlone ==
    ASSUME IInv, RInv, NEW c \in Callers, Prepare(c)
    PROVE  RInv'
<1> DEFINE p == call[c].of
           k == [call[c] EXCEPT !.pc = "confirm", !.at = "prepare"]
<1>1. /\ call[c] \in Calls /\ call[c].pc = "prepare" /\ p \in Proposals /\ UNCHANGED target
      /\ journal \in [Proposals -> Journals] /\ Knows(call[c], journal, target)
  BY DEF IInv, Typed, Prepare, Good, Known, RInv
<1>2. CASE End(c) /\ UNCHANGED journal
  BY <1>1, <1>2, StoppedAlone
<1>3. CASE /\ journal[p].at = "none" /\ Then(c, k)
           /\ journal' = [journal EXCEPT ![p].at = "prepare", ![p].epoch = call[c].epoch]
  <2>1. PICK t : t = [journal[p] EXCEPT !.at = "prepare", !.epoch = call[c].epoch]
    OBVIOUS
  <2>2. t.at = "prepare"
    BY <1>1, <2>1 DEF Journals
  <2>3. journal' = [journal EXCEPT ![p] = t]
    BY <1>1, <1>3, <2>1
  <2>4. \A q \in Proposals : journal'[q] = IF q = p THEN t ELSE journal[q]
    BY <1>1, <2>3
  <2>5. target # Cand[p]
    BY <1>1, <1>3 DEF RInv, Brought, Begun
  <2>6. Brought'
    BY <1>1, <2>2, <2>4 DEF RInv, Brought, Begun, Knows
  <2>7. Buried' /\ DisarmedRestored'
    BY <1>1, <2>2, <2>4, <2>5 DEF RInv, Buried, DisarmedRestored, Prefix
  <2>8. k.pc = "confirm" /\ k.of = p
    BY <1>1 DEF Calls
  <2>9. Knows(k, journal', target) /\ Knows(Raise(call[c]), journal', target) /\ Raise(call[c]).of \in {p, None}
    BY <1>1, <2>8, RaiseKnows DEF Knows, Synced
  <2>10. call' = [call EXCEPT ![c] = k] \/ call' = [call EXCEPT ![c] = Raise(call[c])]
    BY <1>3 DEF Then, Set
  <2> HIDE DEF k
  <2> QED BY <1>1, <2>2, <2>3, <2>6, <2>7, <2>8, <2>9, <2>10, AppendsAlone
<1> QED BY <1>1, <1>2, <1>3 DEF Prepare

LEMMA WritesAlone ==
    ASSUME IInv, RInv, NEW c \in Callers, Write(c)
    PROVE  RInv'
<1> DEFINE k == call[c]
           p == k.of
           m == [k EXCEPT !.at = k.pc, !.pc = Onward(k)]
           t == [journal[p] EXCEPT !.at = k.pc,
                     !.why = IF k.pc = "unknown" THEN k.why ELSE @,
                     !.end = IF k.pc \in {"disarm", "blocked"} THEN Receipt(c, k.pc) ELSE @]
<1>1. /\ k \in Calls /\ p \in Proposals /\ k.pc \in Phases \ {"prepare"} /\ UNCHANGED target
      /\ journal \in [Proposals -> Journals] /\ Knows(k, journal, target)
      /\ k.at \notin Terminal /\ k.at # "none"
  BY DEF IInv, Typed, Write, Good, Known, RInv, Before, Working
<1>2. CASE Fail(c) /\ UNCHANGED journal
  BY <1>1, <1>2, StoppedAlone
<1>3. CASE journal[p].at = k.at /\ Then(c, m) /\ journal' = [journal EXCEPT ![p] = t]
  <2>1. t.at = k.pc
    BY <1>1 DEF Journals
  <2> HIDE DEF t
  <2>2. \A q \in Proposals : journal'[q] = IF q = p THEN t ELSE journal[q]
    BY <1>1, <1>3
  <2>3. Prefix(p) /\ k.pc # "none"
    BY <1>1, <1>3 DEF Prefix
  <2>4. Brought'
    BY <1>1, <1>3, <2>1, <2>2, <2>3 DEF RInv, Brought, Begun
  <2>5. DisarmedRestored'
    BY <1>1, <1>3, <2>1, <2>2 DEF RInv, DisarmedRestored, Knows
  <2>6. Buried'
    <3> SUFFICES ASSUME NEW r \in Proposals, NEW q \in Proposals, journal'[r].at \in {"revert", "disarm"},
                        Prefix(q)', Base[q] = Cand[r]
                 PROVE  target # Cand[q]
      BY <1>1 DEF Buried
    <3>1. Prefix(q)
      BY <2>2, <2>3 DEF Prefix
    <3>2. CASE r = p
      <4>1. q = p
        BY <1>1, <2>3, <3>1, OneAttempt
      <4> QED BY <3>2, <4>1, DocumentAssumption
    <3>3. CASE r # p
      BY <2>2, <3>1, <3>3 DEF RInv, Buried
    <3> QED BY <3>2, <3>3
  <2>7. PICK pc : pc = Onward(k)
    OBVIOUS
  <2>8. m.pc = pc /\ m.at = k.pc /\ m.of = p
    BY <1>1, <2>7 DEF Calls
  <2>9. /\ pc \in {"readback", "watch", "await", "restore", "narrow", "settle", "release"}
        /\ pc = "restore" => k.pc = "unknown"
        /\ pc = "narrow" => k.pc = "revert"
    BY <1>1, <2>7 DEF Onward
  <2>10. Knows(m, journal', target)
    BY <1>1, <2>1, <2>2, <2>8, <2>9 DEF Knows, Synced
  <2>11. Knows(Raise(k), journal', target) /\ Raise(k).of \in {p, None}
    BY <1>1, RaiseKnows
  <2>12. call' = [call EXCEPT ![c] = m] \/ call' = [call EXCEPT ![c] = Raise(k)]
    BY <1>3 DEF Then, Set
  <2> HIDE DEF m
  <2> QED BY <1>1, <1>3, <2>1, <2>3, <2>4, <2>5, <2>6, <2>8, <2>10, <2>11, <2>12, AppendsAlone
<1> QED BY <1>1, <1>2, <1>3 DEF Write

LEMMA RestoredStays ==
    ASSUME IInv, RInv, Serial, Novel, [Next]_vars
    PROVE  RInv'
<1>1. ASSUME NEW c \in Callers, Step(c) PROVE RInv'
  BY <1>1, AdmitsAlone, PreparesAlone, LooksAlone, ReplacesAlone, WritesAlone, StopsAlone, RecoversAlone,
     RestoresAlone, NarrowsAlone DEF Step
<1>2. ASSUME NEW c \in Callers, Fault(c) \/ Crash(c) PROVE RInv'
  BY <1>2, StopsAlone
<1>3. ASSUME NEW c \in Callers, NEW p \in Proposals, Submit(c, p) PROVE RInv'
  BY <1>3, SubmitsAlone
<1>4. ASSUME UNCHANGED <<journal, target, call>> PROVE RInv'
  BY <1>4 DEF RInv, Alone, Brought, Buried, DisarmedRestored, Prefix
<1>5. CASE Flip \/ Authorize \/ \E p \in Proposals : EndWatch(p) \/ LateWatch(p)
  BY <1>4, <1>5 DEF Flip, Authorize, EndWatch, LateWatch
<1>6. CASE UNCHANGED vars
  BY <1>4, <1>6 DEF vars
<1> QED BY <1>1, <1>2, <1>3, <1>5, <1>6 DEF Next

LEMMA NothingToRestore == Init /\ Novel => RInv
<1> SUFFICES ASSUME Init, Novel PROVE RInv
  OBVIOUS
<1>1. (\A c \in Callers : call[c] = Idle) /\ \A p \in Proposals : journal[p].at = "none"
  BY DEF Init, NoJournal
<1>2. Alone /\ \A c \in Callers : Knows(call[c], journal, target)
  BY <1>1 DEF Alone, Knows, Synced, Idle
<1>3. Brought /\ Buried /\ DisarmedRestored
  BY <1>1 DEF Init, Novel, Brought, Begun, Buried, DisarmedRestored
<1> QED BY <1>2, <1>3 DEF RInv

(* When calls for a proposal follow one another and every candidate is a   *)
(* document of its own: the journal says reverted or disarmed only while   *)
(* the candidate is not in force, whatever attempts come after, and        *)
(* whichever of them are rolled back in turn.                              *)
THEOREM StaysRestored ==
    ASSUME Serial, Novel
    PROVE  Spec => []DisarmedRestored
<1>1. RInv => DisarmedRestored
  BY DEF RInv
<1>2. Init => RInv
  BY NothingToRestore
<1>3. IInv /\ RInv /\ [Next]_vars => RInv'
  BY RestoredStays
<1> QED BY <1>1, <1>2, <1>3, Invariance, PTL DEF Spec
===============================================================================
