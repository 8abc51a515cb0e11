-------------------------------- MODULE RExact --------------------------------
(***************************************************************************)
(* The R-exact controller (src/autonomy/r-exact-controller.ts): a signed   *)
(* proposal replaces one configuration document, is watched, and is either *)
(* committed or rolled back from a snapshot, with the target's authority   *)
(* narrowed before the attempt ends.  The journal, the claim, the watch    *)
(* and the authority are services outside the controller, so that a call   *)
(* that died anywhere is resumed by submitting its proposal again.         *)
(*                                                                         *)
(* One target.  Documents are numbers, in the order of the references of   *)
(* their snapshots.  Signatures, digests and clocks are left out: a check  *)
(* of theirs that fails is a fault.  Phases never repeat in a journal, so  *)
(* its tail and the reason of its unknown entry stand for all of it.       *)
(***************************************************************************)
EXTENDS Integers, FiniteSets

CONSTANTS
    Proposals, Callers,
    Base, Cand,         \* [Proposals -> Nat]: the document replaced, and its replacement
    Start,              \* the document installed at first
    Overlap,            \* may a proposal be submitted while a call for it runs?
    MaxSnapshots,       \* MAX_SNAPSHOTS
    MaxEpoch,           \* bound on the owner's authorizations
    MaxFlips,           \* bound on movements of the kill switch
    MaxFaults,          \* bound on crashes, failed calls and lost answers
    None

ASSUME DocumentAssumption == /\ Base \in [Proposals -> Nat] /\ Cand \in [Proposals -> Nat] /\ Start \in Nat
                             /\ \A p \in Proposals : Base[p] # Cand[p]
ASSUME NoneAssumption == None \notin Proposals
ASSUME SnapshotAssumption == MaxSnapshots \in Nat \ {0}

VARIABLES
    target,     \* the document in force
    snaps,      \* documents of which the store keeps a snapshot
    journal,    \* of each proposal: its tail, and what the prepared record and the unknown entry bind
    claim,      \* the proposal that holds the target
    owner,      \* the owner's present authorization, and whether it arms the target
    ledger,     \* narrowings recorded: under which authorization, for which terminal receipt
    kill, flips,
    watch,      \* the protected watch of each proposal
    call, faults

vars == <<target, snaps, journal, claim, owner, ledger, kill, flips, watch, call, faults>>

Phases == {"prepare", "apply", "verify", "watch", "commit", "unknown", "revert", "disarm", "blocked"}
Terminal == {"commit", "disarm", "blocked"}
NoReceipt == [of |-> None, kind |-> "", after |-> "", why |-> 0]
NoJournal == [at |-> "none", epoch |-> 0, why |-> 0, end |-> NoReceipt]
Idle == [pc |-> "idle", of |-> None, at |-> "none", epoch |-> 0, inner |-> FALSE,
         seen |-> 0, broad |-> FALSE, why |-> 0]

Prefix(p) == journal[p].at \notin Terminal \cup {"none"}
Narrowed(e) == \E n \in ledger : n.epoch = e
Armed == owner.armed /\ ~Narrowed(owner.n)

(* The terminal entry a call would append to the tail it knows.            *)
Receipt(c, kind) ==
    [of |-> call[c].of, kind |-> kind, after |-> call[c].at, why |-> call[c].why]

Init ==
    /\ target = Start /\ snaps = {}
    /\ journal = [p \in Proposals |-> NoJournal]
    /\ claim = None
    /\ owner = [n |-> 1, armed |-> TRUE] /\ ledger = {}
    /\ kill = FALSE /\ flips = 0
    /\ watch = [p \in Proposals |-> "none"]
    /\ call = [c \in Callers |-> Idle] /\ faults = 0

-------------------------------------------------------------------------------
(* Where an exception at each point of a call leads: out of the call, to   *)
(* the recovery of the attempt, to a new look at its journal, or to the    *)
(* terminal block.                                                         *)
Attempt == {"recheck", "replace", "apply", "readback", "verify", "watch", "await", "check",
            "look", "commit", "settle"}
Raise(k) ==
    CASE k.pc \in Attempt /\ k.inner -> [k EXCEPT !.pc = "reload"]
      [] k.pc \in Attempt /\ ~k.inner -> [k EXCEPT !.pc = "load"]
      [] k.pc \in {"restore", "revert", "narrow"} -> [k EXCEPT !.pc = "block"]
      [] OTHER -> Idle

Set(c, k) == call' = [call EXCEPT ![c] = k]
Go(c, pc) == Set(c, [call[c] EXCEPT !.pc = pc]) /\ UNCHANGED faults
Fail(c) == Set(c, Raise(call[c])) /\ UNCHANGED faults
End(c) == Set(c, Idle) /\ UNCHANGED faults
(* The answer of a service that did what it was asked may be lost.         *)
Then(c, k) ==
    \/ Set(c, k) /\ UNCHANGED faults
    \/ faults < MaxFaults /\ faults' = faults + 1 /\ Set(c, Raise(call[c]))

(* applyRExactProposal up to createAndClaim.                               *)
Submit(c, p) ==
    /\ call[c] = Idle
    /\ Overlap \/ \A d \in Callers : call[d].of # p
    /\ Set(c, [Idle EXCEPT !.of = p, !.pc = IF journal[p].at = "none" THEN "admit" ELSE "load"])
    /\ UNCHANGED <<target, snaps, journal, claim, owner, ledger, kill, flips, watch, faults>>

(* Authority, base and fresh admission, each of which is asked again.      *)
Admit(c) ==
    /\ call[c].pc = "admit"
    /\ IF Armed /\ ~kill /\ target = Base[call[c].of]
       THEN Set(c, [call[c] EXCEPT !.pc = "snapshot", !.epoch = owner.n]) /\ UNCHANGED faults
       ELSE End(c)
    /\ UNCHANGED <<target, snaps, journal, claim, owner, ledger, kill, flips, watch>>

(* HuginConfigStore.snapshot, with pruneState.                             *)
Prune(S) == {d \in S : Cardinality({e \in S : e > d}) < MaxSnapshots}
Snapshot(c) ==
    /\ call[c].pc = "snapshot"
    /\ snaps' = Prune(snaps \cup {target})
    /\ IF target = Base[call[c].of]
       THEN Then(c, [call[c] EXCEPT !.pc = "prepare"])
       ELSE End(c)
    /\ UNCHANGED <<target, journal, claim, owner, ledger, kill, flips, watch>>

(* The journal and the claim are written together, or neither is.          *)
PrepareAnyway(c) ==  \* mutant: the claim is not asked for
    LET p == call[c].of IN
    /\ call[c].pc = "prepare"
    /\ IF journal[p].at = "none"
       THEN /\ claim' = p
            /\ journal' = [journal EXCEPT ![p].at = "prepare", ![p].epoch = call[c].epoch]
            /\ Then(c, [call[c] EXCEPT !.pc = "confirm", !.at = "prepare"])
       ELSE UNCHANGED <<claim, journal>> /\ End(c)
    /\ UNCHANGED <<target, snaps, owner, ledger, kill, flips, watch>>
Prepare(c) ==
    LET p == call[c].of IN
    /\ call[c].pc = "prepare"
    /\ IF claim = None /\ journal[p].at = "none"
       THEN /\ claim' = p
            /\ journal' = [journal EXCEPT ![p].at = "prepare", ![p].epoch = call[c].epoch]
            /\ Then(c, [call[c] EXCEPT !.pc = "confirm", !.at = "prepare"])
       ELSE UNCHANGED <<claim, journal>> /\ End(c)
    /\ UNCHANGED <<target, snaps, owner, ledger, kill, flips, watch>>

Confirm(c) ==
    LET p == call[c].of IN
    /\ call[c].pc = "confirm"
    /\ CASE journal[p].at # "prepare" -> End(c)
         [] journal[p].at = "prepare" /\ claim = p -> Go(c, "recheck")
         [] OTHER -> Go(c, "load")
    /\ UNCHANGED <<target, snaps, journal, claim, owner, ledger, kill, flips, watch>>

(* Before the mutation and before the commit: the authority is still that  *)
(* of the prepared record, and the admission is fresh.                     *)
Recheck(c) ==
    /\ call[c].pc \in {"recheck", "check"}
    /\ IF /\ Armed /\ owner.n = call[c].epoch /\ ~kill
          /\ call[c].pc = "check" => claim = call[c].of
       THEN Go(c, IF call[c].pc = "recheck" THEN "replace" ELSE "look")
       ELSE Fail(c)
    /\ UNCHANGED <<target, snaps, journal, claim, owner, ledger, kill, flips, watch>>

(* HuginConfigStore.replace.                                               *)
Replace(c) ==
    LET p == call[c].of IN
    /\ call[c].pc = "replace"
    /\ IF target = Base[p]
       THEN target' = Cand[p] /\ Then(c, [call[c] EXCEPT !.pc = "apply"])
       ELSE UNCHANGED target /\ Fail(c)
    /\ UNCHANGED <<snaps, journal, claim, owner, ledger, kill, flips, watch>>

(* appendThroughRole: one entry, after the tail the caller knows.          *)
Onward(k) ==
    CASE k.pc = "apply" -> "readback"
      [] k.pc = "verify" -> "watch"
      [] k.pc = "watch" -> "await"
      [] k.pc = "unknown" -> "restore"
      [] k.pc = "revert" -> "narrow"
      [] k.pc = "commit" -> "settle"
      [] OTHER -> "release"
Write(c) ==
    LET k == call[c]
        p == k.of
    IN
    /\ k.pc \in Phases \ {"prepare"}
    /\ IF journal[p].at = k.at
       THEN /\ journal' = [journal EXCEPT ![p].at = k.pc,
                               ![p].why = IF k.pc = "unknown" THEN k.why ELSE @,
                               ![p].end = IF k.pc \in {"disarm", "blocked"} THEN Receipt(c, k.pc) ELSE @]
            /\ watch' = IF k.pc = "watch" THEN [watch EXCEPT ![p] = "running"] ELSE watch
            /\ Then(c, [k EXCEPT !.at = k.pc, !.pc = Onward(k)])
       ELSE UNCHANGED <<journal, watch>> /\ Fail(c)
    /\ UNCHANGED <<target, snaps, claim, owner, ledger, kill, flips>>

Look(c) ==
    /\ call[c].pc \in {"readback", "look"}
    /\ IF target = Cand[call[c].of]
       THEN Go(c, IF call[c].pc = "readback" THEN "verify" ELSE "commit")
       ELSE Fail(c)
    /\ UNCHANGED <<target, snaps, journal, claim, owner, ledger, kill, flips, watch>>

Await(c) ==
    /\ call[c].pc = "await" /\ watch[call[c].of] # "running"
    /\ IF watch[call[c].of] = "done" THEN Go(c, "check") ELSE Fail(c)
    /\ UNCHANGED <<target, snaps, journal, claim, owner, ledger, kill, flips, watch>>

(* terminalizeClaim, after a commit ("settle") or another terminal entry.  *)
Release(c) ==
    /\ call[c].pc \in {"settle", "release"}
    /\ IF claim = call[c].of THEN claim' = None /\ Then(c, Idle) ELSE UNCHANGED claim /\ Fail(c)
    /\ UNCHANGED <<target, snaps, journal, owner, ledger, kill, flips, watch>>

-------------------------------------------------------------------------------
(* recoverRExactAttempt: the journal is read, then the claim taken.        *)
Load(c) ==
    LET j == journal[call[c].of] IN
    /\ call[c].pc = "load"
    /\ Set(c, [Idle EXCEPT !.of = call[c].of, !.at = j.at, !.epoch = j.epoch, !.why = j.why, !.pc = "claim"])
    /\ UNCHANGED <<target, snaps, journal, claim, owner, ledger, kill, flips, watch, faults>>

ClaimKept(c) ==  \* mutant: a finished attempt is left as it is
    LET k == call[c] IN
    /\ k.pc = "claim"
    /\ IF claim \in {None, k.of} /\ k.at \notin Terminal
       THEN /\ claim' = k.of
            /\ Then(c, [k EXCEPT !.pc = IF k.at = "watch" THEN "await" ELSE "posture", !.inner = (k.at = "watch")])
       ELSE UNCHANGED claim /\ End(c)
    /\ UNCHANGED <<target, snaps, journal, owner, ledger, kill, flips, watch>>
Claim(c) ==
    LET k == call[c] IN
    /\ k.pc = "claim"
    /\ IF claim \in {None, k.of}
       THEN /\ claim' = k.of
            /\ Then(c, [k EXCEPT !.pc = CASE k.at \in Terminal -> "release"
                                          [] k.at = "watch" -> "await"
                                          [] OTHER -> "posture",
                                 !.inner = (k.at = "watch")])
       ELSE UNCHANGED claim /\ End(c)
    /\ UNCHANGED <<target, snaps, journal, owner, ledger, kill, flips, watch>>

(* After a resumed watch failed: committed after all, changed, or not.     *)
Reload(c) ==
    LET k == call[c]
        now == journal[k.of].at
    IN
    /\ k.pc = "reload"
    /\ CASE now = "commit" -> Go(c, "load")
         [] now # "commit" /\ now = k.at -> Set(c, [k EXCEPT !.pc = "posture", !.inner = FALSE]) /\ UNCHANGED faults
         [] OTHER -> End(c)
    /\ UNCHANGED <<target, snaps, journal, claim, owner, ledger, kill, flips, watch>>

(* The present authority is broader than shadow or already safe; the kill  *)
(* switch gives the reason of a new unknown entry, and a durable one keeps *)
(* its own.                                                                *)
PostureRotated(c) ==  \* mutant: another authorization is taken for a safe one
    LET k == call[c] IN
    /\ k.pc = "posture"
    /\ Set(c, [k EXCEPT !.pc = "reconcile",
                        !.seen = owner.n, !.broad = Armed /\ owner.n = k.epoch,
                        !.why = IF k.at \in {"unknown", "revert"} THEN k.why ELSE IF kill THEN 2 ELSE 1])
    /\ UNCHANGED <<target, snaps, journal, claim, owner, ledger, kill, flips, watch, faults>>
Posture(c) ==
    LET k == call[c] IN
    /\ k.pc = "posture"
    /\ Set(c, [k EXCEPT !.pc = "reconcile",
                        !.seen = owner.n, !.broad = Armed,
                        !.why = IF k.at \in {"unknown", "revert"} THEN k.why ELSE IF kill THEN 2 ELSE 1])
    /\ UNCHANGED <<target, snaps, journal, claim, owner, ledger, kill, flips, watch, faults>>

(* reconcilePendingNarrowing: a terminal entry already named by a          *)
(* narrowing of the attempt's own authorization is appended as it is.      *)
Pending(c) ==
    {kind \in {"disarm", "blocked"} :
        /\ call[c].at = "revert" \/ (call[c].at = "unknown" /\ kind = "blocked")
        /\ [epoch |-> call[c].epoch, receipt |-> Receipt(c, kind)] \in ledger}
Reconcile(c) ==
    LET k == call[c] IN
    /\ k.pc = "reconcile"
    /\ CASE claim # k.of \/ Cardinality(Pending(c)) > 1 -> End(c)
         [] claim = k.of /\ Pending(c) = {} ->
                Go(c, IF k.at \in {"unknown", "revert"} THEN "restore" ELSE "unknown")
         [] OTHER -> \E kind \in Pending(c) : Go(c, kind)
    /\ UNCHANGED <<target, snaps, journal, claim, owner, ledger, kill, flips, watch>>

(* Unless the base is back, its snapshot replaces the candidate and        *)
(* nothing else (restoreSnapshot).                                         *)
RestoreOrGo(c) ==  \* mutant: a restore that failed is not noticed
    LET k == call[c]
        p == k.of
        onward == IF k.at = "unknown" THEN "revert" ELSE "narrow"
    IN
    /\ k.pc = "restore"
    /\ CASE target = Base[p] -> Go(c, onward) /\ UNCHANGED target
         [] target = Cand[p] /\ Base[p] \in snaps ->
                target' = Base[p] /\ Then(c, [k EXCEPT !.pc = onward])
         [] OTHER -> Go(c, onward) /\ UNCHANGED target
    /\ UNCHANGED <<snaps, journal, claim, owner, ledger, kill, flips, watch>>
Restore(c) ==
    LET k == call[c]
        p == k.of
        onward == IF k.at = "unknown" THEN "revert" ELSE "narrow"
    IN
    /\ k.pc = "restore"
    /\ CASE target = Base[p] -> Go(c, onward) /\ UNCHANGED target
         [] target = Cand[p] /\ Base[p] \in snaps ->
                target' = Base[p] /\ Then(c, [k EXCEPT !.pc = onward])
         [] OTHER -> Fail(c) /\ UNCHANGED target
    /\ UNCHANGED <<snaps, journal, claim, owner, ledger, kill, flips, watch>>

(* narrowCurrentAuthority, for the disarm ("narrow") or the block.  The    *)
(* worker narrows an authorization once and refuses one that is gone, and  *)
(* w0 rejects an answer that names another receipt: both end the call.     *)
Narrow(c) ==
    LET k == call[c]
        kind == IF k.pc = "narrow" THEN "disarm" ELSE "blocked"
        entry == [epoch |-> k.seen, receipt |-> Receipt(c, kind)]
    IN
    /\ k.pc \in {"narrow", "block"}
    /\ CASE ~k.broad -> Go(c, kind) /\ UNCHANGED ledger
         [] k.broad /\ k.seen = owner.n /\ (~Narrowed(k.seen) \/ entry \in ledger) ->
                ledger' = ledger \cup {entry} /\ Then(c, [k EXCEPT !.pc = kind])
         [] OTHER -> End(c) /\ UNCHANGED ledger
    /\ UNCHANGED <<target, snaps, journal, claim, owner, kill, flips, watch>>

-------------------------------------------------------------------------------
(* A service that does not do what it is asked, and the death of a call.   *)
Fault(c) ==
    /\ call[c].pc \notin {"idle", "await"} /\ faults < MaxFaults
    /\ faults' = faults + 1
    /\ Set(c, Raise(call[c]))
    /\ UNCHANGED <<target, snaps, journal, claim, owner, ledger, kill, flips, watch>>
Crash(c) ==
    /\ call[c] # Idle /\ faults < MaxFaults
    /\ faults' = faults + 1
    /\ Set(c, Idle)
    /\ UNCHANGED <<target, snaps, journal, claim, owner, ledger, kill, flips, watch>>

Flip ==
    /\ flips < MaxFlips /\ flips' = flips + 1 /\ kill' = ~kill
    /\ UNCHANGED <<target, snaps, journal, claim, owner, ledger, watch, call, faults>>

(* The owner signs a new authorization; its ledger is empty.               *)
Authorize ==
    /\ owner.n < MaxEpoch
    /\ \E armed \in BOOLEAN : owner' = [n |-> owner.n + 1, armed |-> armed]
    /\ UNCHANGED <<target, snaps, journal, claim, ledger, kill, flips, watch, call, faults>>

(* The hour is over, or was interrupted, or its grace has passed too.      *)
EndWatch(p) ==
    /\ watch[p] = "running"
    /\ \E w \in {"done", "broken"} : watch' = [watch EXCEPT ![p] = w]
    /\ UNCHANGED <<target, snaps, journal, claim, owner, ledger, kill, flips, call, faults>>
LateWatch(p) ==
    /\ watch[p] = "done"
    /\ watch' = [watch EXCEPT ![p] = "late"]
    /\ UNCHANGED <<target, snaps, journal, claim, owner, ledger, kill, flips, call, faults>>

Step(c) ==
    \/ Admit(c) \/ Snapshot(c) \/ Prepare(c) \/ Confirm(c) \/ Recheck(c) \/ Replace(c)
    \/ Write(c) \/ Look(c) \/ Await(c) \/ Release(c) \/ Load(c) \/ Claim(c) \/ Reload(c)
    \/ Posture(c) \/ Reconcile(c) \/ Restore(c) \/ Narrow(c)

Next ==
    \/ \E c \in Callers : Step(c) \/ Fault(c) \/ Crash(c) \/ \E p \in Proposals : Submit(c, p)
    \/ Flip \/ Authorize \/ \E p \in Proposals : EndWatch(p) \/ LateWatch(p)

Spec == Init /\ [][Next]_vars

(* A call goes on, a watch ends, and an attempt is submitted again.        *)
Fairness ==
    /\ \A c \in Callers : WF_vars(Step(c))
    /\ \A p \in Proposals : WF_vars(EndWatch(p)) /\ SF_vars(\E c \in Callers : Submit(c, p))
FairSpec == Spec /\ Fairness
-------------------------------------------------------------------------------
TypeOK ==
    /\ target \in Nat /\ snaps \subseteq Nat /\ Cardinality(snaps) <= MaxSnapshots
    /\ journal \in [Proposals -> [at : Phases \cup {"none"}, epoch : 0 .. MaxEpoch, why : 0 .. 2,
                                  end : {NoReceipt} \cup
                                        [of : Proposals, kind : {"disarm", "blocked"},
                                         after : {"unknown", "revert"}, why : 1 .. 2]]]
    /\ claim \in Proposals \cup {None}
    /\ owner.n \in 1 .. MaxEpoch /\ owner.armed \in BOOLEAN
    /\ kill \in BOOLEAN /\ flips \in 0 .. MaxFlips /\ faults \in 0 .. MaxFaults
    /\ watch \in [Proposals -> {"none", "running", "done", "broken", "late"}]
    /\ \A c \in Callers : call[c].of \in Proposals \cup {None}

(* An attempt that is not over holds the target, from the write of its     *)
(* prepare entry on and through every crash: no second attempt can begin   *)
(* on the document it may yet roll back.                                   *)
ClaimHeld == \A p \in Proposals : Prefix(p) => claim = p

(* The journal says reverted or disarmed only of a target on which the     *)
(* candidate is not in force, and it does not come back afterwards.        *)
DisarmedRestored ==
    \A p \in Proposals : journal[p].at \in {"revert", "disarm"} => target # Cand[p]

(* The recovery ends an attempt only when the target is not armed under    *)
(* the authorization it saw, or a narrowing of the attempt's own           *)
(* authorization names this very entry.                                    *)
NarrowedFirst ==
    [][\A p \in Proposals : journal'[p].at # journal[p].at /\ journal'[p].at \in {"disarm", "blocked"} =>
           \/ ~Armed
           \/ [epoch |-> journal[p].epoch, receipt |-> journal'[p].end] \in ledger
           \/ \E c \in Callers : call[c].of = p /\ call[c].pc = journal'[p].at /\ call[c].seen # owner.n]_vars

(* Every attempt that was prepared comes to an end and lets go of the      *)
(* target, whatever died or failed on the way.                             *)
Reclaimed ==
    \A p \in Proposals : Prefix(p) ~> (journal[p].at \in Terminal /\ claim # p)
===============================================================================
