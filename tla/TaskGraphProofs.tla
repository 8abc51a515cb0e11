---------------------------- MODULE TaskGraphProofs ----------------------------
(***************************************************************************)
(* Proofs about the two ways in which a task waits for others: Pipeline,   *)
(* for any phases, dependencies, gates, dispatchers and bounds, and        *)
(* DependencyJoin.                                                         *)
(***************************************************************************)
EXTENDS Pipeline, DependencyJoin, FiniteSetTheorems, TLAPS

ProcOK == proc \in [Workers -> Local]

-----------------------------------------------------------------------------
(* Facts about the operators the actions are made of. *)

LEMMA LenNat == Len(Order) \in Nat
  BY OrderAssumption

(* A handler's walk over the phases meets phases only, and ends.           *)
LEMMA WalkFacts ==
    ASSUME ProcOK, NEW w \in Workers, More(w)
    PROVE  Here(w) \in Phases /\ proc[w].k + 1 \in 1..(Len(Order) + 1)
  <1>1. proc[w].k \in 1..Len(Order) BY LenNat DEF ProcOK, Local, More
  <1> QED BY <1>1, LenNat DEF Here, Phases

LEMMA RestLocal == Rest \in Local
  <1>1. 1 \in 1..(Len(Order) + 1) BY LenNat
  <1>2. Unread \in [Phases -> Lifecycles] BY DEF Unread, Lifecycles
  <1>3. [life |-> "pending", asks |-> {}] \in [life : Lifecycles, asks : SUBSET Requests]
    BY DEF Lifecycles, Waiting
  <1> QED BY <1>1, <1>2, <1>3 DEF Rest, Local, Points, Stages

(* A handler goes on, begins, ends or is given up at a point of its code.  *)
LEMMA GotoOK ==
    ASSUME ProcOK, NEW w \in Workers, NEW l \in Points, Goto(w, l)
    PROVE  ProcOK'
  BY ZenonT(60) DEF ProcOK, Goto, Local

LEMMA WalkOK ==
    ASSUME ProcOK, NEW w \in Workers, NEW l \in Points, Walk(w, l)
    PROVE  ProcOK'
  <1>1. 1 \in 1..(Len(Order) + 1) BY LenNat
  <1> QED BY <1>1, ZenonT(60) DEF ProcOK, Walk, Local

LEMMA StartOK ==
    ASSUME ProcOK, NEW w \in Workers, NEW x \in Items \cup {None}, NEW l \in Points,
           proc[w].pc \in Stages, Start(w, x, l)
    PROVE  ProcOK'
  <1>1. After[proc[w].pc] \in Stages BY DEF After, Stages
  <1> QED BY <1>1, RestLocal DEF ProcOK, Start, Local

LEMMA RestsOK ==
    ASSUME ProcOK, NEW w \in Workers, Rests(w)
    PROVE  ProcOK'
  <1>1. proc[w].back \in Stages /\ proc[w].back \in Points BY DEF ProcOK, Local, Points
  <1> QED BY <1>1, RestLocal DEF ProcOK, Rests, Local

LEMMA ThrowOK ==
    ASSUME ProcOK, NEW w \in Workers, Throw(w)
    PROVE  ProcOK'
  BY RestLocal DEF ProcOK, Throw

(* One more phase of the walk is done.                                     *)
LEMMA NextOK ==
    ASSUME ProcOK, NEW w \in Workers, More(w), proc' = [proc EXCEPT ![w].k = @ + 1]
    PROVE  ProcOK'
  BY WalkFacts, ZenonT(60) DEF ProcOK, Local

(* The same with what it has found on the way.                             *)
LEMMA MadeOK ==
    ASSUME ProcOK, NEW w \in Workers, More(w),
           proc' = [proc EXCEPT ![w] = [proc[w] EXCEPT !.k = @ + 1, !.made = @ \cup {Here(w)}]]
    PROVE  ProcOK'
  <1> DEFINE l == [proc[w] EXCEPT !.k = @ + 1, !.made = @ \cup {Here(w)}]
  <1>1. proc[w].made \cup {Here(w)} \in SUBSET Phases BY WalkFacts DEF ProcOK, Local
  <1>2. l \in Local BY <1>1, WalkFacts DEF ProcOK, Local
  <1>3. proc' = [proc EXCEPT ![w] = l] OBVIOUS
  <1> HIDE DEF l
  <1> QED BY <1>2, <1>3 DEF ProcOK

(* A batch read of the phases.                                             *)
LEMMA ViewOK ==
    ASSUME ProcOK, life \in [Items -> Lifecycles], NEW w \in Workers, NEW l \in Points, View(w, l)
    PROVE  ProcOK'
  <1> DEFINE v == [p \in Phases |-> life[p]]
  <1>1. v \in [Phases -> Lifecycles] BY DEF Items
  <1>2. 1 \in 1..(Len(Order) + 1) BY LenNat
  <1>3. proc[w] \in Local BY DEF ProcOK
  <1> HIDE DEF v
  <1>4. [proc[w] EXCEPT !.pc = l, !.k = 1, !.view = v] \in Local BY <1>1, <1>2, <1>3 DEF Local
  <1> QED BY <1>4 DEF ProcOK, View, v

-----------------------------------------------------------------------------
(* Type correctness, one lemma per group of variables. *)

(* A dispatcher is always at a point of its code, with a task and a        *)
(* position in the phases that are ones.                                   *)
LEMMA ProcStep == ASSUME TypeOK, [Next]_vars PROVE ProcOK'
<1> USE DEF ProcOK
<1>0. ProcOK BY DEF TypeOK
<1>p. Stages \subseteq Points /\ Decomposing \subseteq Points BY DEF Points
<1>1. CASE \/ \E r \in Requests : Ask(r)
           \/ \E p \in Phases : Decide(p) \/ Join(p)
           \/ \E x \in Items : Reap(x)
           \/ UNCHANGED vars
  BY <1>0, <1>1 DEF Ask, Decide, Join, Reap, vars
<1>2. ASSUME NEW w \in Workers, DecompositionThrows(w) \/ Renew(w) \/ Crash(w) PROVE ProcOK'
  BY <1>0, <1>2, WalkOK, ThrowOK DEF DecompositionThrows, Renew, Crash, Points, Decomposing
<1>3. ASSUME NEW w \in Workers, Pass(w) PROVE ProcOK'
  BY <1>0, <1>3, GotoOK DEF Pass, Points, Stages
<1>4. ASSUME NEW w \in Workers, CancelRead(w) PROVE ProcOK'
  BY <1>0, <1>4, StartOK DEF CancelRead, Points, Stages
<1>5. ASSUME NEW w \in Workers, ResumeRead(w) PROVE ProcOK'
  <2>1. [life |-> life[Parent], asks |-> asks] \in [life : Lifecycles, asks : SUBSET Requests]
    BY DEF TypeOK, Items
  <2> QED BY <1>0, <1>5, <2>1, RestLocal DEF ResumeRead, Local, Points, Stages
<1>6. ASSUME NEW w \in Workers, NEW x \in Items, PollRead(w, x) PROVE ProcOK'
  BY <1>0, <1>6, StartOK DEF PollRead, Points, Stages
<1>7. ASSUME NEW w \in Workers, NEW p \in Phases, AwaitRead(w, p) PROVE ProcOK'
  BY <1>0, <1>7, StartOK DEF AwaitRead, Points, Stages, Items
<1>8. ASSUME NEW w \in Workers, Gate(w) PROVE ProcOK'
  BY <1>0, <1>8, GotoOK DEF Gate, Points
<1>9. ASSUME NEW w \in Workers, Hold(w) \/ Refuse(w) \/ Approve(w) PROVE ProcOK'
  BY <1>0, <1>9, RestsOK, ThrowOK DEF Hold, Refuse, Approve, Swap, Finish
<1>10. ASSUME NEW w \in Workers, Claim(w) \/ EndPhase(w) \/ WriteResult(w) PROVE ProcOK'
  BY <1>0, <1>10, GotoOK, RestsOK DEF Claim, EndPhase, WriteResult, Finish, Leave, Points, Decomposing
<1>11. ASSUME NEW w \in Workers, Compile(w) \/ WriteSpec(w) PROVE ProcOK'
  BY <1>0, <1>11, GotoOK, WalkOK DEF Compile, WriteSpec, Points, Decomposing
<1>12. ASSUME NEW w \in Workers, WritePhase(w) PROVE ProcOK'
  BY <1>0, <1>12, MadeOK DEF WritePhase
<1>13. ASSUME NEW w \in Workers, Commit(w) PROVE ProcOK'
  BY <1>0, <1>13, GotoOK, WalkOK DEF Commit, Points, Decomposing
<1>14. ASSUME NEW w \in Workers, Abort(w) \/ CancelPhase(w) PROVE ProcOK'
  BY <1>0, <1>14, NextOK DEF Abort, CancelPhase
<1>15. ASSUME NEW w \in Workers, Fail(w) PROVE ProcOK'
  BY <1>0, <1>15, RestsOK, ThrowOK DEF Fail, Finish
<1>16. ASSUME NEW w \in Workers, CancelPhases(w) \/ Plan(w) PROVE ProcOK'
  <2>1. life \in [Items -> Lifecycles] BY DEF TypeOK
  <2>2. CASE CancelPhases(w)
    BY <1>0, <2>1, <2>2, ViewOK, GotoOK DEF CancelPhases, Points
  <2>3. CASE Plan(w)
    BY <1>0, <2>1, <2>3, ViewOK DEF Plan, Points
  <2> QED BY <1>16, <2>2, <2>3
<1>17. ASSUME NEW w \in Workers, CancelSwept(w) \/ Finalize(w) \/ Reread(w) PROVE ProcOK'
  BY <1>0, <1>17, GotoOK, RestsOK DEF CancelSwept, Finalize, Reread, Leave, Points
<1>18. ASSUME NEW w \in Workers, Cancelled(w) \/ ClearCancel(w) \/ Resumed(w) \/ ClearResume(w)
       PROVE ProcOK'
  BY <1>0, <1>18, RestsOK, ThrowOK
     DEF Cancelled, ClearCancel, Resumed, ClearResume, ParentSwap, Finish, Leave
<1>19. ASSUME NEW w \in Workers, ResetPhase(w) PROVE ProcOK'
  BY <1>0, <1>19, NextOK, ThrowOK DEF ResetPhase
<1> QED BY <1>1, <1>2, <1>3, <1>4, <1>5, <1>6, <1>7, <1>8, <1>9, <1>10, <1>11, <1>12, <1>13,
           <1>14, <1>15, <1>16, <1>17, <1>18, <1>19 DEF Next, GoOn

(* A write leaves each status with a lifecycle of its own, and no reader   *)
(* with a version that is not there.                                       *)
StatusOK ==
    /\ life \in [Items -> Lifecycles]
    /\ asks \in SUBSET Requests
    /\ fresh \in SUBSET (Workers \X Items)

LEMMA PutOK ==
    ASSUME StatusOK, NEW x, NEW l \in Lifecycles, Put(x, l), asks' \in SUBSET Requests
    PROVE  StatusOK'
  BY DEF StatusOK, Put

LEMMA FinishOK ==
    ASSUME StatusOK, NEW w, NEW x, NEW l \in Lifecycles, Finish(w, x, l),
           asks' \in SUBSET Requests
    PROVE  StatusOK'
  BY DEF StatusOK, Finish

LEMMA ReadsOK ==
    ASSUME StatusOK, NEW w \in Workers, NEW X \in SUBSET Items, Reads(w, X),
           UNCHANGED <<life, asks>>
    PROVE  StatusOK'
  BY DEF StatusOK, Reads

LEMMA UnwrittenOK ==
    ASSUME StatusOK, NEW w, Leave(w) \/ Throw(w) \/ Unwritten
    PROVE  StatusOK'
  BY DEF StatusOK, Leave, Throw, Unwritten

LEMMA SwapOK ==
    ASSUME StatusOK, NEW w, NEW l \in Lifecycles, Swap(w, l)
    PROVE  StatusOK'
  BY FinishOK, UnwrittenOK DEF StatusOK, Swap

LEMMA ParentSwapOK ==
    ASSUME StatusOK, NEW w, NEW l \in Lifecycles, NEW A \in SUBSET Requests, ParentSwap(w, l, A)
    PROVE  StatusOK'
  BY FinishOK, UnwrittenOK DEF ParentSwap

LEMMA ItemFacts ==
    /\ Parent \in Items /\ Phases \subseteq Items
    /\ Waiting \subseteq Lifecycles /\ Ended \subseteq Lifecycles /\ "running" \in Lifecycles
    /\ \A p : Roots(p) \in Lifecycles
    /\ \A w, p : Reopened(w, p) \in Lifecycles
  BY DEF Items, Lifecycles, Waiting, Ended, Roots, Reopened

LEMMA StatusStep == ASSUME TypeOK, [Next]_vars PROVE StatusOK'
<1>0. StatusOK BY DEF TypeOK, StatusOK
<1>a. life[Parent] \in Lifecycles BY <1>0, ItemFacts DEF StatusOK
<1>l. "pending" \in Lifecycles /\ "awaiting" \in Lifecycles /\ "failed" \in Lifecycles
      /\ "completed" \in Lifecycles /\ "cancelled" \in Lifecycles
  BY DEF Lifecycles, Waiting, Ended
<1>1. ASSUME NEW r \in Requests, Ask(r) PROVE StatusOK'
  BY <1>0, <1>a, <1>1, PutOK DEF Ask, StatusOK
<1>2. ASSUME NEW p \in Phases, Decide(p) \/ Join(p) PROVE StatusOK'
  BY <1>0, <1>l, <1>2, PutOK DEF Decide, Join, StatusOK
<1>3. ASSUME NEW x \in Items, Reap(x) PROVE StatusOK'
  BY <1>0, <1>l, <1>3, PutOK DEF Reap, StatusOK
<1>4. CASE UNCHANGED vars
  BY <1>0, <1>4 DEF vars, StatusOK
<1>5. ASSUME NEW w \in Workers, DecompositionThrows(w) PROVE StatusOK'
  BY <1>0, <1>l, <1>5, PutOK, UnwrittenOK, ItemFacts DEF DecompositionThrows, StatusOK
<1>6. ASSUME NEW w \in Workers, Renew(w) \/ Crash(w) PROVE StatusOK'
  BY <1>0, <1>6, PutOK, UnwrittenOK, ItemFacts DEF Renew, Crash, StatusOK
<1>7. ASSUME NEW w \in Workers, Pass(w) \/ Compile(w) \/ WriteSpec(w) \/ Gate(w) PROVE StatusOK'
  BY <1>0, <1>7, UnwrittenOK DEF Pass, Compile, WriteSpec, Gate, StatusOK, munin
<1>8. ASSUME NEW w \in Workers, CancelRead(w) \/ ResumeRead(w) PROVE StatusOK'
  BY <1>0, <1>8, ReadsOK, ItemFacts DEF CancelRead, ResumeRead, munin
<1>9. ASSUME NEW w \in Workers, CancelPhases(w) \/ Plan(w) PROVE StatusOK'
  BY <1>0, <1>9, ReadsOK, ItemFacts DEF CancelPhases, Plan, munin, StatusOK
<1>10. ASSUME NEW w \in Workers, NEW x \in Items, PollRead(w, x) PROVE StatusOK'
  BY <1>0, <1>10, ReadsOK DEF PollRead, munin
<1>11. ASSUME NEW w \in Workers, NEW p \in Phases, AwaitRead(w, p) PROVE StatusOK'
  BY <1>0, <1>11, ReadsOK, ItemFacts DEF AwaitRead, munin
<1>12. ASSUME NEW w \in Workers, Hold(w) \/ Refuse(w) \/ Approve(w) PROVE StatusOK'
  BY <1>0, <1>l, <1>12, SwapOK DEF Hold, Refuse, Approve
<1>13. ASSUME NEW w \in Workers, Claim(w) PROVE StatusOK'
  <2>1. CASE Current(w, proc[w].at)
    BY <1>0, <1>13, <2>1, ItemFacts DEF Claim, Current, StatusOK
  <2> QED BY <1>0, <1>13, <2>1, UnwrittenOK DEF Claim
<1>14. ASSUME NEW w \in Workers, EndPhase(w) PROVE StatusOK'
  BY <1>0, <1>l, <1>14, FinishOK DEF EndPhase, StatusOK
<1>15. ASSUME NEW w \in Workers, WritePhase(w) PROVE StatusOK'
  BY <1>0, <1>15, PutOK, ItemFacts DEF WritePhase, StatusOK
<1>16. ASSUME NEW w \in Workers, Commit(w) \/ WriteResult(w) PROVE StatusOK'
  BY <1>0, <1>l, <1>16, PutOK, UnwrittenOK DEF Commit, WriteResult
<1>17. ASSUME NEW w \in Workers, Abort(w) \/ Fail(w) PROVE StatusOK'
  BY <1>0, <1>l, <1>17, PutOK, FinishOK, UnwrittenOK DEF Abort, Fail, StatusOK
<1>18. ASSUME NEW w \in Workers, CancelPhase(w) \/ CancelSwept(w) \/ Finalize(w) PROVE StatusOK'
  BY <1>0, <1>l, <1>18, PutOK, UnwrittenOK DEF CancelPhase, CancelSwept, Finalize, StatusOK
<1>19. ASSUME NEW w \in Workers, Reread(w) PROVE StatusOK'
  BY <1>0, <1>19, ReadsOK, UnwrittenOK, ItemFacts DEF Reread
<1>20. ASSUME NEW w \in Workers, Cancelled(w) \/ ClearCancel(w) \/ Resumed(w) \/ ClearResume(w)
       PROVE StatusOK'
  <2>1. asks \ {"cancel"} \in SUBSET Requests /\ asks \ {"resume"} \in SUBSET Requests
    BY <1>0 DEF StatusOK
  <2> QED BY <1>0, <1>a, <1>l, <1>20, <2>1, ParentSwapOK DEF Cancelled, ClearCancel, Resumed, ClearResume
<1>21. ASSUME NEW w \in Workers, ResetPhase(w) PROVE StatusOK'
  BY <1>0, <1>21, PutOK, UnwrittenOK, ItemFacts DEF ResetPhase, StatusOK
<1> QED BY <1>1, <1>2, <1>3, <1>4, <1>5, <1>6, <1>7, <1>8, <1>9, <1>10, <1>11, <1>12, <1>13,
           <1>14, <1>15, <1>16, <1>17, <1>18, <1>19, <1>20, <1>21 DEF Next, GoOn

(* The spec, the decisions and the bounds.                                 *)
OthersOK ==
    /\ spec \in BOOLEAN
    /\ decision \in [Phases -> {"none", "requested", "approved", "rejected"}]
    /\ bounds \in [faults : 0..MaxFaults, asks : 0..MaxAsks]
    /\ restarted \subseteq Phases

LEMMA FaultOK == ASSUME OthersOK, Fault PROVE bounds' \in [faults : 0..MaxFaults, asks : 0..MaxAsks]
  BY BoundAssumption DEF OthersOK, Fault

LEMMA OthersStep == ASSUME TypeOK, [Next]_vars PROVE OthersOK'
<1>0. OthersOK BY DEF TypeOK, OthersOK
<1>p. ProcOK BY DEF TypeOK, ProcOK
<1>1. ASSUME NEW r \in Requests, Ask(r) PROVE OthersOK'
  BY <1>0, <1>1, BoundAssumption DEF Ask, OthersOK
<1>2. ASSUME NEW p \in Phases, Decide(p) PROVE OthersOK'
  <2>1. \A h \in [aborted : BOOLEAN, reset : SUBSET Phases] :
           [h EXCEPT !.reset = @ \ {p}] \in [aborted : BOOLEAN, reset : SUBSET Phases]
    OBVIOUS
  <2> QED BY <1>0, <1>2, <2>1 DEF Decide, OthersOK
<1>3. CASE \/ \E p \in Phases : Join(p)
           \/ \E x \in Items : Reap(x)
           \/ UNCHANGED vars
  BY <1>0, <1>3 DEF Join, Reap, vars, OthersOK
<1>4. ASSUME NEW w \in Workers, DecompositionThrows(w) \/ Renew(w) \/ Crash(w) PROVE OthersOK'
  BY <1>0, <1>4, FaultOK DEF DecompositionThrows, Renew, Crash, OthersOK
<1>5. ASSUME NEW w \in Workers, Gate(w) PROVE OthersOK'
  BY <1>0, <1>5 DEF Gate, OthersOK
<1>6. ASSUME NEW w \in Workers, WriteSpec(w) PROVE OthersOK'
  BY <1>0, <1>6 DEF WriteSpec, OthersOK
<1>7. ASSUME NEW w \in Workers, Abort(w) PROVE OthersOK'
  BY <1>0, <1>7, FaultOK DEF Abort, OthersOK
<1>8. ASSUME NEW w \in Workers, Resumed(w) PROVE OthersOK'
  BY <1>0, <1>8 DEF Resumed, ParentSwap, OthersOK
<1>9. ASSUME NEW w \in Workers, ResetPhase(w) PROVE OthersOK'
  <2>1. \A h \in [aborted : BOOLEAN, reset : SUBSET Phases], p \in Phases :
           [h EXCEPT !.reset = @ \cup {p}] \in [aborted : BOOLEAN, reset : SUBSET Phases]
    OBVIOUS
  <2>2. Here(w) \in Phases BY <1>p, <1>9, WalkFacts DEF ResetPhase
  <2> QED BY <1>0, <1>9, <2>1, <2>2 DEF ResetPhase, OthersOK
<1>10. ASSUME NEW w \in Workers,
              \/ Pass(w) \/ CancelRead(w) \/ ResumeRead(w)
              \/ \E x \in Items : PollRead(w, x)
              \/ \E p \in Phases : AwaitRead(w, p)
       PROVE  OthersOK'
  BY <1>0, <1>10 DEF Pass, CancelRead, ResumeRead, PollRead, AwaitRead, munin, OthersOK
<1>11. ASSUME NEW w \in Workers,
              \/ Hold(w) \/ Refuse(w) \/ Approve(w) \/ Claim(w) \/ EndPhase(w)
              \/ Compile(w) \/ WritePhase(w) \/ Commit(w) \/ WriteResult(w) \/ Fail(w)
       PROVE  OthersOK'
  BY <1>0, <1>11 DEF Hold, Refuse, Approve, Swap, Claim, EndPhase, Compile, WritePhase, Commit,
     WriteResult, Fail, munin, OthersOK
<1>12. ASSUME NEW w \in Workers,
              \/ CancelPhases(w) \/ CancelPhase(w) \/ CancelSwept(w) \/ Finalize(w) \/ Reread(w)
              \/ Cancelled(w) \/ ClearCancel(w) \/ Plan(w) \/ ClearResume(w)
       PROVE  OthersOK'
  BY <1>0, <1>12 DEF CancelPhases, CancelPhase, CancelSwept, Finalize, Reread, Cancelled,
     ClearCancel, Plan, ClearResume, ParentSwap, munin, OthersOK
<1> QED BY <1>1, <1>2, <1>3, <1>4, <1>5, <1>6, <1>7, <1>8, <1>9, <1>10, <1>11, <1>12
        DEF Next, GoOn

LEMMA TypeInit == Init => TypeOK
<1> SUFFICES ASSUME Init PROVE TypeOK OBVIOUS
<1>1. ProcOK BY RestLocal DEF Init, ProcOK
<1>2. StatusOK BY DEF Init, StatusOK, Lifecycles, Waiting
<1>3. OthersOK
  <2>1. bounds \in [faults : 0..MaxFaults, asks : 0..MaxAsks] BY BoundAssumption DEF Init
  <2>2. decision \in [Phases -> {"none", "requested", "approved", "rejected"}] BY DEF Init
  <2> QED BY <2>1, <2>2 DEF Init, OthersOK
<1> QED BY <1>1, <1>2, <1>3 DEF TypeOK, ProcOK, StatusOK, OthersOK

LEMMA TypeStep == TypeOK /\ [Next]_vars => TypeOK'
  BY ProcStep, StatusStep, OthersStep DEF TypeOK, ProcOK, StatusOK, OthersOK

(* Every reachable state has its type, whatever the phases, their          *)
(* dependencies and gates, the dispatchers and the bounds: among others a  *)
(* walk over the phases never leaves the pipeline's definition.            *)
THEOREM TypeCorrect == Spec => []TypeOK
<1>1. Init => TypeOK BY TypeInit
<1>2. TypeOK /\ [Next]_vars => TypeOK' BY TypeStep
<1> QED BY <1>1, <1>2, PTL DEF Spec

-----------------------------------------------------------------------------
(* Approval.  Who is about to claim a gated phase has found it approved,   *)
(* and what is decided stays decided.                                      *)

ClaimsApproved ==
    \A w \in Workers :
        proc[w].pc = "claim" /\ proc[w].at \in Gated => decision[proc[w].at] = "approved"

IApproved == TypeOK /\ ClaimsApproved

GatedPhases == Gated \subseteq Phases /\ Parent \notin Gated

LEMMA GatedFacts == GatedPhases
  BY PolicyAssumption, ParentAssumption DEF GatedPhases

(* An approval is not withdrawn.                                           *)
LEMMA ApprovedStays ==
    ASSUME TypeOK, [Next]_vars
    PROVE  \A p \in Phases : decision[p] = "approved" => decision'[p] = "approved"
<1>0. decision \in [Phases -> {"none", "requested", "approved", "rejected"}] BY DEF TypeOK
<1>1. ASSUME NEW p \in Phases, Decide(p)
      PROVE  \A q \in Phases : decision[q] = "approved" => decision'[q] = "approved"
  BY <1>0, <1>1 DEF Decide
<1>2. ASSUME NEW w \in Workers, Gate(w)
      PROVE  \A q \in Phases : decision[q] = "approved" => decision'[q] = "approved"
  BY <1>0, <1>2 DEF Gate
<1>3. CASE UNCHANGED decision
  BY <1>3
<1>4. CASE \/ \E r \in Requests : Ask(r)
           \/ \E p \in Phases : Join(p)
           \/ \E x \in Items : Reap(x)
           \/ UNCHANGED vars
  BY <1>3, <1>4 DEF Ask, Join, Reap, vars
<1>5. ASSUME NEW w \in Workers,
             \/ DecompositionThrows(w) \/ Renew(w) \/ Crash(w)
             \/ Pass(w) \/ CancelRead(w) \/ ResumeRead(w)
             \/ \E x \in Items : PollRead(w, x)
             \/ \E p \in Phases : AwaitRead(w, p)
      PROVE  UNCHANGED decision
  BY <1>5 DEF DecompositionThrows, Renew, Crash, Pass, CancelRead, ResumeRead, PollRead,
     AwaitRead, munin
<1>6. ASSUME NEW w \in Workers,
             \/ Hold(w) \/ Refuse(w) \/ Approve(w) \/ Claim(w) \/ EndPhase(w)
             \/ Compile(w) \/ WriteSpec(w) \/ WritePhase(w) \/ Commit(w) \/ WriteResult(w)
             \/ Abort(w) \/ Fail(w)
      PROVE  UNCHANGED decision
  BY <1>6 DEF Hold, Refuse, Approve, Swap, Claim, EndPhase, Compile, WriteSpec, WritePhase,
     Commit, WriteResult, Abort, Fail, munin
<1>7. ASSUME NEW w \in Workers,
             \/ CancelPhases(w) \/ CancelPhase(w) \/ CancelSwept(w) \/ Finalize(w) \/ Reread(w)
             \/ Cancelled(w) \/ ClearCancel(w) \/ Plan(w) \/ ResetPhase(w) \/ Resumed(w)
             \/ ClearResume(w)
      PROVE  UNCHANGED decision
  BY <1>7 DEF CancelPhases, CancelPhase, CancelSwept, Finalize, Reread, Cancelled, ClearCancel,
     ParentSwap, Plan, ResetPhase, Resumed, ClearResume, munin
<1> QED BY <1>1, <1>2, <1>3, <1>4, <1>5, <1>6, <1>7 DEF Next, GoOn

(* A step that sends nobody to the claim.                                  *)
Calm == \A w \in Workers : proc'[w] = proc[w] \/ proc'[w].pc # "claim"

LEMMA CalmFacts ==
    ASSUME ProcOK, NEW w \in Workers
    PROVE  /\ \A l : l # "claim" /\ Goto(w, l) => Calm
           /\ \A l : l # "claim" /\ Walk(w, l) => Calm
           /\ \A l : l # "claim" /\ View(w, l) => Calm
           /\ \A x, l : l # "claim" /\ Start(w, x, l) => Calm
           /\ Rests(w) => Calm
           /\ Throw(w) => Calm
  <1> USE DEF Calm, ProcOK
  <1>1. \A l : l # "claim" /\ Goto(w, l) => Calm BY DEF Goto, Local
  <1>2. \A l : l # "claim" /\ Walk(w, l) => Calm BY DEF Walk, Local
  <1>3. ASSUME NEW l, l # "claim", View(w, l) PROVE Calm
    <2> DEFINE v == [p \in Phases |-> life[p]]
    <2>1. proc' = [proc EXCEPT ![w] = [proc[w] EXCEPT !.pc = l, !.k = 1, !.view = v]]
      BY <1>3 DEF View
    <2> HIDE DEF v
    <2> QED BY <1>3, <2>1 DEF Local
  <1>4. \A x, l : l # "claim" /\ Start(w, x, l) => Calm BY RestLocal DEF Start, Local
  <1>5. Rests(w) => Calm
    <2>1. proc[w].back # "claim" BY DEF Local, Stages
    <2> QED BY <2>1, RestLocal DEF Rests, Local
  <1>6. Throw(w) => Calm
    <2>1. Rest.pc # "claim" BY DEF Rest
    <2> QED BY <2>1 DEF Throw
  <1> QED BY <1>1, <1>2, <1>3, <1>4, <1>5, <1>6

(* A walk goes on where it is.                                             *)
LEMMA CalmWalk ==
    ASSUME ProcOK, NEW w \in Workers, proc[w].pc # "claim",
           \/ proc' = [proc EXCEPT ![w].k = @ + 1]
           \/ proc' = [proc EXCEPT ![w] = [proc[w] EXCEPT !.k = @ + 1, !.made = @ \cup {Here(w)}]]
    PROVE  Calm
  BY DEF Calm, ProcOK, Local

LEMMA CalmKeeps == ASSUME IApproved, [Next]_vars, Calm PROVE ClaimsApproved'
  <1>1. \A p \in Gated : decision[p] = "approved" => decision'[p] = "approved"
    BY ApprovedStays, GatedFacts DEF IApproved, GatedPhases
  <1> QED BY <1>1 DEF IApproved, ClaimsApproved, Calm

LEMMA ApprovedStep == ASSUME IApproved, [Next]_vars PROVE ClaimsApproved'
<1>0. TypeOK /\ ProcOK BY DEF IApproved, TypeOK, ProcOK
<1>1. CASE \/ \E r \in Requests : Ask(r)
           \/ \E p \in Phases : Decide(p) \/ Join(p)
           \/ \E x \in Items : Reap(x)
           \/ UNCHANGED vars
  <2>1. Calm BY <1>1 DEF Ask, Decide, Join, Reap, vars, Calm
  <2> QED BY <2>1, CalmKeeps
<1>2. ASSUME NEW w \in Workers, NEW x \in Items, PollRead(w, x) PROVE ClaimsApproved'
  <2>1. CASE x \notin Gated /\ Start(w, x, "claim")
    <3>1. \A v \in Workers : \/ proc'[v] = proc[v]
                             \/ proc'[v].at \notin Gated
      BY <1>0, <2>1, RestLocal DEF Start, ProcOK, Local
    <3>2. decision' = decision BY <1>2 DEF PollRead, munin
    <3> QED BY <3>1, <3>2 DEF IApproved, ClaimsApproved
  <2>2. CASE Calm BY <2>2, CalmKeeps
  <2> QED BY <1>0, <1>2, <2>1, <2>2, CalmFacts, GatedFacts DEF PollRead, GatedPhases
<1>3. ASSUME NEW w \in Workers, Gate(w) PROVE ClaimsApproved'
  <2>1. CASE decision[proc[w].at] = "approved" /\ Goto(w, "claim") /\ UNCHANGED decision
    BY <1>0, <2>1 DEF Goto, ProcOK, Local, IApproved, ClaimsApproved
  <2>2. CASE Calm BY <2>2, CalmKeeps
  <2> QED BY <1>0, <1>3, <2>1, <2>2, CalmFacts DEF Gate
<1>4. ASSUME NEW w \in Workers,
             \/ DecompositionThrows(w) \/ Renew(w) \/ Crash(w)
             \/ Pass(w) \/ CancelRead(w)
             \/ \E p \in Phases : AwaitRead(w, p)
      PROVE  Calm
  BY <1>0, <1>4, CalmFacts DEF DecompositionThrows, Renew, Crash, Pass, CancelRead,
     AwaitRead, Calm
<1>5. ASSUME NEW w \in Workers, ResumeRead(w) PROVE Calm
  <2> DEFINE s == [life |-> life[Parent], asks |-> asks]
  <2> HIDE DEF s
  <2>1. proc' = [proc EXCEPT ![w] = [Rest EXCEPT
                     !.pc = IF spec THEN "plan" ELSE "unresume", !.back = "approvals", !.saw = s]]
    BY <1>5 DEF ResumeRead, s
  <2> QED BY <1>0, <2>1, RestLocal DEF Calm, ProcOK, Local
<1>6. ASSUME NEW w \in Workers,
             \/ Hold(w) \/ Refuse(w) \/ Approve(w) \/ Claim(w) \/ EndPhase(w)
             \/ Compile(w) \/ WriteSpec(w) \/ Commit(w) \/ WriteResult(w) \/ Fail(w)
      PROVE  Calm
  BY <1>0, <1>6, CalmFacts DEF Hold, Refuse, Approve, Swap, Claim, EndPhase, Compile,
     WriteSpec, Commit, WriteResult, Fail, Finish, Leave
<1>7. ASSUME NEW w \in Workers, WritePhase(w) \/ Abort(w) \/ CancelPhase(w) PROVE Calm
  BY <1>0, <1>7, CalmWalk DEF WritePhase, Abort, CancelPhase
<1>8. ASSUME NEW w \in Workers, ResetPhase(w) PROVE Calm
  BY <1>0, <1>8, CalmWalk, CalmFacts DEF ResetPhase
<1>9. ASSUME NEW w \in Workers,
             \/ CancelPhases(w) \/ CancelSwept(w) \/ Finalize(w) \/ Reread(w)
             \/ Cancelled(w) \/ ClearCancel(w) \/ Plan(w) \/ Resumed(w) \/ ClearResume(w)
      PROVE  Calm
  BY <1>0, <1>9, CalmFacts DEF CancelPhases, CancelSwept, Finalize, Reread, Cancelled,
     ClearCancel, ParentSwap, Plan, Resumed, ClearResume, Finish, Leave
<1> QED BY <1>1, <1>2, <1>3, <1>4, <1>5, <1>6, <1>7, <1>8, <1>9, CalmKeeps DEF Next, GoOn

(* A write starts a phase only if it writes running, and not on the parent.*)
Still == \A p \in Gated : ~Starts(p)

LEMMA StillFacts ==
    ASSUME life \in [Items -> Lifecycles]
    PROVE  /\ \A x, l : l # "running" \/ x = Parent => (Put(x, l) => Still)
           /\ \A w, x, l : l # "running" \/ x = Parent => (Finish(w, x, l) => Still)
           /\ UNCHANGED life => Still
  BY GatedFacts DEF GatedPhases, Put, Finish, Still, Starts, Items

LEMMA OnlyClaimStarts ==
    ASSUME TypeOK, [Next]_vars
    PROVE  Still \/ \E w \in Workers : Claim(w)
<1>0. life \in [Items -> Lifecycles] BY DEF TypeOK
<1>r. /\ \A p : Roots(p) # "running"
      /\ \A w, p : Reopened(w, p) # "running"
  BY DEF Roots, Reopened
<1>1. ASSUME NEW r \in Requests, Ask(r) PROVE Still
  BY <1>0, <1>1, StillFacts DEF Ask
<1>2. ASSUME NEW p \in Phases, Decide(p) \/ Join(p) PROVE Still
  BY <1>0, <1>2, StillFacts DEF Decide, Join
<1>3. ASSUME NEW x \in Items, Reap(x) PROVE Still
  BY <1>0, <1>3, StillFacts DEF Reap
<1>4. CASE UNCHANGED vars
  BY <1>0, <1>4, StillFacts DEF vars
<1>5. ASSUME NEW w \in Workers, DecompositionThrows(w) PROVE Still
  BY <1>0, <1>r, <1>5, StillFacts DEF DecompositionThrows, Unwritten
<1>6. ASSUME NEW w \in Workers, Renew(w) \/ Crash(w) PROVE Still
  BY <1>0, <1>6, StillFacts DEF Renew, Crash, Throw
<1>7. ASSUME NEW w \in Workers,
             \/ Pass(w) \/ CancelRead(w) \/ ResumeRead(w)
             \/ \E x \in Items : PollRead(w, x)
             \/ \E p \in Phases : AwaitRead(w, p)
             \/ Gate(w) \/ Compile(w) \/ WriteSpec(w) \/ WriteResult(w)
             \/ CancelPhases(w) \/ CancelSwept(w) \/ Finalize(w) \/ Reread(w) \/ Plan(w)
      PROVE  Still
  <2>1. UNCHANGED life
    BY <1>7 DEF Pass, CancelRead, ResumeRead, PollRead, AwaitRead, Gate, Compile, WriteSpec,
       WriteResult, CancelPhases, CancelSwept, Finalize, Reread, Plan, Leave, Unwritten, munin
  <2> QED BY <1>0, <2>1, StillFacts
<1>8. ASSUME NEW w \in Workers, Hold(w) \/ Refuse(w) \/ Approve(w) PROVE Still
  BY <1>0, <1>8, StillFacts DEF Hold, Refuse, Approve, Swap, Throw
<1>9. ASSUME NEW w \in Workers, EndPhase(w) PROVE Still
  BY <1>0, <1>9, StillFacts DEF EndPhase
<1>10. ASSUME NEW w \in Workers, WritePhase(w) \/ Commit(w) \/ Abort(w) \/ Fail(w) PROVE Still
  BY <1>0, <1>r, <1>10, StillFacts DEF WritePhase, Commit, Abort, Fail, Unwritten, Throw
<1>11. ASSUME NEW w \in Workers, CancelPhase(w) \/ ResetPhase(w) PROVE Still
  BY <1>0, <1>r, <1>11, StillFacts DEF CancelPhase, ResetPhase, Unwritten, Throw
<1>12. ASSUME NEW w \in Workers, Cancelled(w) \/ ClearCancel(w) \/ Resumed(w) \/ ClearResume(w)
       PROVE  Still
  BY <1>0, <1>12, StillFacts
     DEF Cancelled, ClearCancel, Resumed, ClearResume, ParentSwap, Leave, Throw
<1> QED BY <1>1, <1>2, <1>3, <1>4, <1>5, <1>6, <1>7, <1>8, <1>9, <1>10, <1>11, <1>12
        DEF Next, GoOn

LEMMA ClaimStartsApproved ==
    ASSUME IApproved, NEW w \in Workers, Claim(w)
    PROVE  \A p \in Gated : Starts(p) => decision[p] = "approved"
  <1>1. life \in [Items -> Lifecycles] BY DEF IApproved, TypeOK
  <1>2. ASSUME NEW p \in Gated, Starts(p) PROVE decision[p] = "approved"
    <2>1. p = proc[w].at
      BY <1>1, <1>2, GatedFacts DEF Claim, Leave, Starts, GatedPhases, Items
    <2> QED BY <1>2, <2>1 DEF Claim, IApproved, ClaimsApproved
  <1> QED BY <1>2

(* A gated phase runs only with the operator's approval, for any pipeline, *)
(* any number of dispatchers, requests, crashes, lost answers and renewals.*)
THEOREM OnlyApprovedRun == Spec => GatedRunsApproved
<1>1. Init => IApproved
  <2>1. ASSUME Init PROVE ClaimsApproved BY <2>1 DEF Init, Rest, ClaimsApproved
  <2> QED BY <2>1, TypeInit DEF IApproved
<1>2. IApproved /\ [Next]_vars => IApproved'
  BY TypeStep, ApprovedStep DEF IApproved
<1>3. IApproved /\ [Next]_vars => [\A p \in Gated : Starts(p) => decision[p] = "approved"]_vars
  BY OnlyClaimStarts, ClaimStartsApproved DEF IApproved, Still
<1> QED BY <1>1, <1>2, <1>3, PTL DEF Spec, GatedRunsApproved
-----------------------------------------------------------------------------
(***************************************************************************)
(* WorkStands, with one dispatcher.  A dispatcher writes by what it has    *)
(* read some steps before: OneInv says what of it still holds when it      *)
(* writes, although operators, joins and the reaper have gone on.          *)
(***************************************************************************)

AllOver(lf) == \A p \in Phases : lf[p] \in Ended \cup {"absent"}
Taking == {"gate", "hold", "claim", "refuse", "approve"}
Resuming == {"plan", "reset", "resumed", "unresume"}

(* What a dispatcher at its point of the code relies on; cur is what it has *)
(* read and nobody has written since.                                       *)
Relies(m, lf, as, sp, cur) ==
    /\ m.pc \in Taking /\ m.at \in cur => lf[m.at] \in Waiting
    /\ m.pc = "exec" => m.at \in Phases /\ lf[m.at] = "running"
    /\ m.pc \in Decomposing => m.at = Parent /\ lf[Parent] \in {"running", "completed"}
    /\ m.pc \notin {"phases", "result", "abort", "fail"} => m.made = {}
    /\ m.pc \in {"phases", "result", "abort", "plan", "reset"} => sp
    /\ m.pc \in {"spec", "phases", "result", "abort"} => \A p \in Phases : lf[p] \notin {"running", "completed"}
    /\ m.pc = "sweep" => \A p \in Phases : p \in cur \/ m.view[p] \in Ended \cup {"absent"} => lf[p] = m.view[p]
    /\ m.pc = "reset" =>
         /\ \A p \in Phases \cap cur : lf[p] = m.view[p]
         /\ \A i \in m.k .. Len(Order) : m.view[Order[i]] = "absent" => lf[Order[i]] = "absent"
    /\ m.pc \in {"reread", "cancelled", "unask"} => AllOver(lf)
    /\ m.pc \in Resuming /\ lf[Parent] = "cancelled" => as # {}
    /\ m.pc = "plan" /\ Parent \in cur => m.saw.life = lf[Parent] /\ m.saw.asks = as
    /\ m.pc = "unresume" /\ Parent \in cur /\ lf[Parent] = "cancelled" => "cancel" \in as \/ AllOver(lf)

(* What w has read that is still current.                                   *)
Fresh(w) == {x \in Items : <<w, x>> \in fresh}

(* A pipeline without a spec has no phases, and one whose cancellation was  *)
(* answered has none left to run.                                           *)
CancelledRests(lf, as, sp) ==
    /\ ~sp => \A p \in Phases : lf[p] = "absent"
    /\ lf[Parent] = "cancelled" /\ as = {} => AllOver(lf)

(* Inductive, with one dispatcher.                                          *)
OneInv ==
    /\ TypeOK
    /\ CancelledRests(life, asks, spec)
    /\ \A w \in Workers : Relies(proc[w], life, asks, spec, Fresh(w))

(* What a step leaves of what was done, and of a pipeline that was cancelled. *)
Stands ==
    /\ \A p \in Phases : life[p] = "completed" => life'[p] = "completed"
    /\ \A p \in Phases : Starts(p) => life[Parent] # "cancelled" \/ asks # {}

StepStands == Stands /\ CancelledRests(life', asks', spec') /\ \A w \in Workers : Relies(proc'[w], life', asks', spec', Fresh(w)')
OneWorker == \A v, w \in Workers : v = w
StepBy(w) == Stands /\ CancelledRests(life', asks', spec') /\ Relies(proc'[w], life', asks', spec', Fresh(w)')

(* How the record of a dispatcher moves on.                                 *)
LEMMA GotoIs ==
    ASSUME TypeOK, NEW w \in Workers, NEW l, Goto(w, l)
    PROVE  /\ proc'[w].pc = l /\ proc'[w].at = proc[w].at /\ proc'[w].k = proc[w].k
           /\ proc'[w].view = proc[w].view /\ proc'[w].saw = proc[w].saw /\ proc'[w].made = proc[w].made
BY DEF TypeOK, Goto, Local

LEMMA WalkIs ==
    ASSUME TypeOK, NEW w \in Workers, NEW l, Walk(w, l)
    PROVE  /\ proc'[w].pc = l /\ proc'[w].at = proc[w].at /\ proc'[w].made = proc[w].made
BY DEF TypeOK, Walk, Local

LEMMA RestIs ==
    /\ Rest.pc \in Stages /\ Rest.made = {}
    /\ \A l, x, b : [Rest EXCEPT !.pc = l, !.at = x, !.back = b].pc = l
                    /\ [Rest EXCEPT !.pc = l, !.at = x, !.back = b].at = x
                    /\ [Rest EXCEPT !.pc = l, !.at = x, !.back = b].made = {}
    /\ \A l : [Rest EXCEPT !.pc = l].pc = l /\ [Rest EXCEPT !.pc = l].made = {}
    /\ \A l, b, s : [Rest EXCEPT !.pc = l, !.back = b, !.saw = s].pc = l
                    /\ [Rest EXCEPT !.pc = l, !.back = b, !.saw = s].saw = s
                    /\ [Rest EXCEPT !.pc = l, !.back = b, !.saw = s].made = {}
BY DEF Rest, Stages

LEMMA StartIs ==
    ASSUME TypeOK, NEW w \in Workers, NEW x, NEW l, Start(w, x, l)
    PROVE  proc'[w].pc = l /\ proc'[w].at = x /\ proc'[w].made = {}
<1> DEFINE m == [Rest EXCEPT !.pc = l, !.at = x, !.back = After[proc[w].pc]]
<1>1. proc'[w] = m
  BY DEF TypeOK, Start
<1>2. m.pc = l /\ m.at = x /\ m.made = {}
  BY RestIs
<1> QED BY <1>1, <1>2

LEMMA ViewIs ==
    ASSUME TypeOK, NEW w \in Workers, NEW l, View(w, l)
    PROVE  /\ proc'[w].pc = l /\ proc'[w].at = proc[w].at /\ proc'[w].made = proc[w].made
           /\ proc'[w].saw = proc[w].saw /\ \A p \in Phases : proc'[w].view[p] = life[p]
<1> DEFINE v == [p \in Phases |-> life[p]]
<1>1. \A p \in Phases : v[p] = life[p]
  OBVIOUS
<1>2. proc' = [proc EXCEPT ![w] = [proc[w] EXCEPT !.pc = l, !.k = 1, !.view = v]]
  BY DEF View
<1> HIDE DEF v
<1> QED BY <1>1, <1>2 DEF TypeOK, Local

LEMMA NextIs ==
    ASSUME TypeOK, NEW w \in Workers, proc' = [proc EXCEPT ![w].k = @ + 1]
    PROVE  /\ proc'[w].pc = proc[w].pc /\ proc'[w].at = proc[w].at /\ proc'[w].k = proc[w].k + 1
           /\ proc'[w].view = proc[w].view /\ proc'[w].made = proc[w].made
BY DEF TypeOK, Local

LEMMA EndIs ==
    ASSUME TypeOK, NEW w \in Workers, Rests(w) \/ Throw(w)
    PROVE  proc'[w].pc \in Stages /\ proc'[w].made = {}
<1>1. proc[w].back \in Stages
  BY DEF TypeOK, Local
<1>2. CASE Rests(w)
  BY <1>1, <1>2, RestIs DEF TypeOK, Rests
<1>3. CASE Throw(w)
  BY <1>3, RestIs DEF TypeOK, Throw
<1> QED BY <1>2, <1>3

LEMMA PutIs ==
    ASSUME TypeOK, NEW x \in Items, NEW l, Put(x, l)
    PROVE  /\ life'[x] = l /\ \A y \in Items \ {x} : life'[y] = life[y]
           /\ \A w : Fresh(w)' = Fresh(w) \ {x}
BY DEF TypeOK, Put, Fresh

LEMMA FinishIs ==
    ASSUME TypeOK, NEW w \in Workers, NEW x \in Items, NEW l, Finish(w, x, l)
    PROVE  /\ life'[x] = l /\ \A y \in Items \ {x} : life'[y] = life[y]
           /\ proc'[w].pc \in Stages /\ proc'[w].made = {}
<1>1. Rests(w)
  BY DEF Finish
<1> QED BY <1>1, EndIs DEF TypeOK, Finish

LEMMA ReadsIs ==
    ASSUME NEW w, NEW X \in SUBSET Items, Reads(w, X)
    PROVE  Fresh(w)' = Fresh(w) \cup X
BY DEF Reads, Fresh

LEMMA CurrentIs == ASSUME TypeOK, NEW w, NEW x PROVE Current(w, x) <=> x \in Fresh(w)
BY DEF TypeOK, Current, Fresh

LEMMA PhasesAre ==
    /\ Parent \in Items /\ Parent \notin Phases /\ Phases \subseteq Items /\ \A x \in Items : x = Parent \/ x \in Phases
    /\ \A i \in 1 .. Len(Order) : Order[i] \in Phases
BY ParentAssumption DEF Items, Phases

(* A dispatcher between handlers relies on nothing.                         *)
LEMMA IdleRelies ==
    ASSUME NEW m, m.pc \in Stages, m.made = {}, NEW lf, NEW as, NEW sp, NEW cur
    PROVE  Relies(m, lf, as, sp, cur)
BY DEF Relies, Stages, Taking, Decomposing, Resuming

(* What a write of a phase, or of the parent, leaves.                       *)
LEMMA PhaseStands ==
    ASSUME OneInv, NEW x \in Phases, NEW l, life'[x] = l, \A y \in Items \ {x} : life'[y] = life[y],
           life[x] # "completed" \/ l = "completed", spec \/ life[x] # "absent", UNCHANGED <<asks, spec>>,
           life[Parent] = "cancelled" /\ asks = {} => l \in Ended \cup {"absent"}
    PROVE  Stands /\ CancelledRests(life', asks', spec')
<1>1. life'[Parent] = life[Parent] /\ spec
  BY PhasesAre DEF OneInv, CancelledRests
<1>2. "running" \notin Ended \cup {"absent"}
  BY DEF Ended
<1> QED BY <1>1, <1>2, PhasesAre DEF OneInv, CancelledRests, AllOver, Stands, Starts

LEMMA ParentStands ==
    ASSUME OneInv, \A y \in Items \ {Parent} : life'[y] = life[y], spec' = spec,
           life'[Parent] = "cancelled" /\ asks' = {} => AllOver(life)
    PROVE  Stands /\ CancelledRests(life', asks', spec')
<1>1. \A p \in Phases : life'[p] = life[p]
  BY PhasesAre
<1> QED BY <1>1 DEF OneInv, CancelledRests, AllOver, Stands, Starts

LEMMA QuietStands ==
    ASSUME OneInv, UNCHANGED <<life, asks, spec>> PROVE Stands /\ CancelledRests(life', asks', spec')
BY DEF OneInv, CancelledRests, AllOver, Stands, Starts

(* A step of no dispatcher: what each of them relies on stays.              *)
LEMMA AskStands == ASSUME OneInv, NEW r \in Requests, Ask(r) PROVE StepStands
<1>1. /\ life'[Parent] = life[Parent] /\ \A y \in Items \ {Parent} : life'[y] = life[y]
      /\ \A w : Fresh(w)' = Fresh(w) \ {Parent}
  BY PutIs, PhasesAre DEF Ask, OneInv
<1>2. life' = life /\ spec' = spec /\ proc' = proc /\ asks' = asks \cup {r}
  <2>1. life \in [Items -> Lifecycles] /\ life' = [life EXCEPT ![Parent] = life[Parent]]
    BY DEF OneInv, TypeOK, Ask, Put
  <2> QED BY <2>1 DEF Ask
<1>3. Stands /\ CancelledRests(life', asks', spec')
  BY <1>1, <1>2, ParentStands DEF OneInv, CancelledRests
<1>4. ASSUME NEW w \in Workers PROVE Relies(proc'[w], life', asks', spec', Fresh(w)')
  <2> DEFINE m == proc[w]  cur == Fresh(w)
  <2>1. Relies(m, life, asks, spec, cur) /\ Fresh(w)' = cur \ {Parent}
    BY <1>1 DEF OneInv
  <2> HIDE DEF m, cur
  <2>2. Relies(m, life, asks \cup {r}, spec, cur \ {Parent})
    BY <2>1 DEF Relies
  <2> QED BY <1>2, <2>1, <2>2 DEF m
<1> QED BY <1>3, <1>4 DEF StepStands

LEMMA JoinStands == ASSUME OneInv, NEW p \in Phases, Join(p) PROVE StepStands
<1>1. PICK l \in {"failed", "pending"} : Put(p, l)
  BY DEF Join
<1>2. /\ life'[p] = l /\ \A y \in Items \ {p} : life'[y] = life[y]
      /\ \A w : Fresh(w)' = Fresh(w) \ {p}
  BY <1>1, PutIs, PhasesAre DEF OneInv
<1>3. life[p] = "blocked" /\ UNCHANGED <<asks, spec, proc>>
  BY DEF Join
<1>4. Stands /\ CancelledRests(life', asks', spec')
  <2>1. ~(life[Parent] = "cancelled" /\ asks = {})
    BY <1>3 DEF OneInv, CancelledRests, AllOver, Ended
  <2> QED BY <1>2, <1>3, <2>1, PhaseStands
<1>5. ASSUME NEW w \in Workers PROVE Relies(proc'[w], life', asks', spec', Fresh(w)')
  <2> DEFINE m == proc[w]  cur == Fresh(w)  lf == life'
  <2>1. Relies(m, life, asks, spec, cur) /\ Fresh(w)' = cur \ {p} /\ life'[Parent] = life[Parent]
    BY <1>2, PhasesAre DEF OneInv
  <2>2. \A x \in cur : x \in Items
    BY DEF Fresh
  <2>3. "blocked" \notin Ended \cup {"absent"}
    BY DEF Ended
  <2> HIDE DEF m, cur
  <2>4. Relies(m, life', asks, spec, cur \ {p})
    <3>1. m.pc \in Taking /\ m.at \in cur \ {p} => life'[m.at] \in Waiting
      BY <1>2, <2>1, <2>2 DEF Relies
    <3>2. m.pc = "exec" => m.at \in Phases /\ life'[m.at] = "running"
      BY <1>2, <1>3, <2>1, PhasesAre DEF Relies
    <3>3. m.pc \in {"spec", "phases", "result", "abort"} => \A q \in Phases : life'[q] \notin {"running", "completed"}
      BY <1>2, <2>1, PhasesAre DEF Relies
    <3>4. m.pc = "sweep" => \A q \in Phases : q \in cur \ {p} \/ m.view[q] \in Ended \cup {"absent"} => life'[q] = m.view[q]
      BY <1>2, <1>3, <2>1, <2>3, PhasesAre DEF Relies
    <3>5. m.pc = "reset" =>
         /\ \A q \in Phases \cap (cur \ {p}) : life'[q] = m.view[q]
         /\ \A i \in m.k .. Len(Order) : m.view[Order[i]] = "absent" => life'[Order[i]] = "absent"
      <4> SUFFICES ASSUME m.pc = "reset" PROVE  /\ \A q \in Phases \cap (cur \ {p}) : life'[q] = m.view[q]
                                             /\ \A i \in m.k .. Len(Order) : m.view[Order[i]] = "absent" => life'[Order[i]] = "absent"
        OBVIOUS
      <4>1. \A q \in Phases \cap (cur \ {p}) : life'[q] = m.view[q]
        BY <1>2, <2>1, PhasesAre DEF Relies
      <4>2. m.k \in 1 .. (Len(Order) + 1) /\ Len(Order) \in Nat
        BY LenNat DEF m, OneInv, TypeOK, Local
      <4>3. ASSUME NEW i \in m.k .. Len(Order), m.view[Order[i]] = "absent" PROVE life'[Order[i]] = "absent"
        <5>1. Order[i] \in Phases /\ life[Order[i]] = "absent"
          BY <2>1, <4>2, <4>3, PhasesAre DEF Relies
        <5> QED BY <1>2, <1>3, <5>1, PhasesAre
      <4> QED BY <4>1, <4>3
    <3>6. AllOver(life) => p \notin Phases
      BY <1>3, <2>3 DEF AllOver
    <3> QED BY <2>1, <3>1, <3>2, <3>3, <3>4, <3>5, <3>6 DEF Relies
  <2> QED BY <1>3, <2>1, <2>4 DEF m
<1> QED BY <1>4, <1>5 DEF StepStands

LEMMA ReapStands == ASSUME OneInv, NEW x \in Items, Reap(x) PROVE StepStands
<1>1. /\ life'[x] = "failed" /\ \A y \in Items \ {x} : life'[y] = life[y]
      /\ \A w : Fresh(w)' = Fresh(w) \ {x}
  BY PutIs DEF Reap, OneInv
<1>2. /\ life[x] = "running" /\ UNCHANGED <<spec, proc>> /\ (asks' = IF x = Parent THEN {} ELSE asks)
      /\ \A w \in Workers : ~(proc[w].at = x /\ proc[w].pc \in Decomposing \cup {"exec"})
  BY DEF Reap
<1>3. Stands /\ CancelledRests(life', asks', spec')
  <2>1. CASE x = Parent
    BY <1>1, <1>2, <2>1, ParentStands
  <2>2. CASE x \in Phases
    <3>1. x # Parent /\ "failed" \in Ended
      BY <2>2, PhasesAre DEF Ended
    <3> QED BY <1>1, <1>2, <2>2, <3>1, PhaseStands
  <2> QED BY <2>1, <2>2, PhasesAre
<1>4. ASSUME NEW w \in Workers PROVE Relies(proc'[w], life', asks', spec', Fresh(w)')
  <2> DEFINE m == proc[w]  cur == Fresh(w)
  <2>1. /\ Relies(m, life, asks, spec, cur) /\ Fresh(w)' = cur \ {x}
        /\ ~(m.at = x /\ m.pc \in Decomposing \cup {"exec"})
        /\ m.k \in 1 .. (Len(Order) + 1) /\ Len(Order) \in Nat
    BY <1>1, <1>2, LenNat DEF OneInv, TypeOK, Local
  <2>2. \A y \in cur : y \in Items
    BY DEF Fresh
  <2>3. "running" \notin Ended \cup {"absent"} /\ "failed" \in Ended
    BY DEF Ended
  <2> HIDE DEF m, cur
  <2>4. m.pc \in Taking /\ m.at \in cur \ {x} => life'[m.at] \in Waiting
    BY <1>1, <2>1, <2>2 DEF Relies
  <2>5. m.pc = "exec" => m.at \in Phases /\ life'[m.at] = "running"
    BY <1>1, <2>1, PhasesAre DEF Relies
  <2>6. m.pc \in Decomposing => m.at = Parent /\ life'[Parent] \in {"running", "completed"}
    BY <1>1, <2>1, PhasesAre DEF Relies
  <2>7. m.pc \in {"spec", "phases", "result", "abort"} => \A q \in Phases : life'[q] \notin {"running", "completed"}
    BY <1>1, <2>1, PhasesAre DEF Relies
  <2>8. m.pc = "sweep" => \A q \in Phases : q \in cur \ {x} \/ m.view[q] \in Ended \cup {"absent"} => life'[q] = m.view[q]
    BY <1>1, <1>2, <2>1, <2>3, PhasesAre DEF Relies
  <2>9. m.pc = "reset" => \A q \in Phases \cap (cur \ {x}) : life'[q] = m.view[q]
    BY <1>1, <2>1, PhasesAre DEF Relies
  <2>10. ASSUME m.pc = "reset", NEW i \in m.k .. Len(Order), m.view[Order[i]] = "absent" PROVE life'[Order[i]] = "absent"
    <3>1. Order[i] \in Phases /\ life[Order[i]] = "absent"
      BY <2>1, <2>10, PhasesAre DEF Relies
    <3> QED BY <1>1, <1>2, <3>1, PhasesAre
  <2>11. AllOver(life) => AllOver(life')
    BY <1>1, <2>3, PhasesAre DEF AllOver
  <2>12. \/ life'[Parent] = life[Parent] /\ asks' = asks
         \/ life'[Parent] = "failed" /\ x = Parent
    <3>1. CASE x = Parent
      BY <1>1, <3>1
    <3>2. CASE x # Parent
      BY <1>1, <1>2, <3>2, PhasesAre
    <3> QED BY <3>1, <3>2
  <2>13. Relies(m, life', asks', spec, cur \ {x})
    BY <2>1, <2>4, <2>5, <2>6, <2>7, <2>8, <2>9, <2>10, <2>11, <2>12 DEF Relies
  <2> QED BY <1>2, <2>1, <2>13 DEF m
<1> QED BY <1>3, <1>4 DEF StepStands

(* A step of a dispatcher that writes nothing, and one that ends a handler. *)
LEMMA QuietBy ==
    ASSUME OneInv, NEW w \in Workers, UNCHANGED <<life, asks, spec>>,
           Relies(proc'[w], life, asks, spec, Fresh(w)')
    PROVE  StepBy(w)
BY QuietStands DEF StepBy

LEMMA EndBy ==
    ASSUME OneInv, NEW w \in Workers, UNCHANGED <<life, asks, spec>>, Rests(w) \/ Throw(w)
    PROVE  StepBy(w)
<1>1. Relies(proc'[w], life, asks, spec, Fresh(w)')
  BY EndIs, IdleRelies DEF OneInv
<1> QED BY <1>1, QuietBy

LEMMA PassBy == ASSUME OneInv, NEW w \in Workers, Pass(w) PROVE StepBy(w)
<1>1. PICK l \in Stages : Goto(w, l)
  BY DEF Pass, Stages
<1>2. proc[w].pc \in Stages
  BY DEF Pass, Stages
<1>3. proc'[w].pc = l /\ proc'[w].made = {}
  BY <1>1, <1>2, GotoIs DEF OneInv, Relies, Stages
<1> QED BY <1>3, IdleRelies, QuietBy DEF Pass, Unwritten

LEMMA CrashBy == ASSUME OneInv, NEW w \in Workers, Crash(w) PROVE StepBy(w)
BY EndBy DEF Crash, Throw

(* Reads that begin a handler.                                              *)
LEMMA PollReadBy == ASSUME OneInv, NEW w \in Workers, NEW x \in Items, PollRead(w, x) PROVE StepBy(w)
<1>1. UNCHANGED <<life, asks, spec>> /\ life[x] = "pending" /\ "pending" \in Waiting
  BY DEF PollRead, munin, Waiting
<1>2. CASE Start(w, None, "cancel")
  <2>1. Relies(proc'[w], life, asks, spec, Fresh(w)')
    BY <1>2, StartIs DEF OneInv, Relies, Taking, Decomposing, Resuming
  <2> QED BY <1>1, <2>1, QuietBy
<1>3. ASSUME NEW l \in {"claim", "gate"}, Start(w, x, l) PROVE StepBy(w)
  <2>1. proc'[w].pc = l /\ proc'[w].at = x /\ proc'[w].made = {}
    BY <1>3, StartIs DEF OneInv
  <2>2. Relies(proc'[w], life, asks, spec, Fresh(w)')
    BY <1>1, <2>1 DEF Relies, Taking, Decomposing, Resuming
  <2> QED BY <1>1, <2>2, QuietBy
<1> QED BY <1>2, <1>3 DEF PollRead

LEMMA AwaitReadBy == ASSUME OneInv, NEW w \in Workers, NEW p \in Phases, AwaitRead(w, p) PROVE StepBy(w)
<1>1. UNCHANGED <<life, asks, spec>> /\ life[p] = "awaiting" /\ "awaiting" \in Waiting
  BY DEF AwaitRead, munin, Waiting
<1>3. ASSUME NEW l \in {"approve", "refuse"}, Start(w, p, l) PROVE StepBy(w)
  <2>1. proc'[w].pc = l /\ proc'[w].at = p /\ proc'[w].made = {}
    BY <1>3, StartIs DEF OneInv
  <2>2. Relies(proc'[w], life, asks, spec, Fresh(w)')
    BY <1>1, <2>1 DEF Relies, Taking, Decomposing, Resuming
  <2> QED BY <1>1, <2>2, QuietBy
<1> QED BY <1>3 DEF AwaitRead

LEMMA CancelReadBy == ASSUME OneInv, NEW w \in Workers, CancelRead(w) PROVE StepBy(w)
<1>1. proc'[w].pc = "cancel" /\ proc'[w].made = {}
  BY StartIs DEF OneInv, CancelRead
<1>2. Relies(proc'[w], life, asks, spec, Fresh(w)')
  BY <1>1 DEF Relies, Taking, Decomposing, Resuming
<1> QED BY <1>2, QuietBy DEF CancelRead, munin

LEMMA ResumeReadBy == ASSUME OneInv, NEW w \in Workers, ResumeRead(w) PROVE StepBy(w)
<1> DEFINE l == IF spec THEN "plan" ELSE "unresume"
           s == [life |-> life[Parent], asks |-> asks]
           m == [Rest EXCEPT !.pc = l, !.back = "approvals", !.saw = s]
<1>1. proc'[w] = m
  BY DEF ResumeRead, OneInv, TypeOK
<1>2. m.pc = l /\ m.made = {} /\ m.saw = s
  BY RestIs
<1>3. s.life = life[Parent] /\ s.asks = asks /\ asks # {} /\ UNCHANGED <<life, asks, spec>>
  BY DEF ResumeRead, munin
<1>4. (l = "plan" => spec) /\ (spec \/ AllOver(life))
  BY DEF OneInv, CancelledRests, AllOver
<1> HIDE DEF m, s
<1>5. Relies(proc'[w], life, asks, spec, Fresh(w)')
  BY <1>1, <1>2, <1>3, <1>4 DEF Relies, Taking, Decomposing, Resuming
<1> QED BY <1>3, <1>5, QuietBy

(* The gate, and the swaps that end it.                                     *)
LEMMA GateBy == ASSUME OneInv, NEW w \in Workers, Gate(w) PROVE StepBy(w)
<1>1. UNCHANGED <<life, asks, spec>> /\ proc[w].pc = "gate" /\ Fresh(w)' = Fresh(w)
  BY DEF Gate, Fresh
<1>2. ASSUME NEW l \in {"claim", "refuse", "hold"}, Goto(w, l) PROVE StepBy(w)
  <2>1. Relies(proc'[w], life, asks, spec, Fresh(w))
    BY <1>1, <1>2, GotoIs DEF OneInv, Relies, Taking, Decomposing, Resuming
  <2> QED BY <1>1, <2>1, QuietBy
<1> QED BY <1>2 DEF Gate

LEMMA SwapBy ==
    ASSUME OneInv, NEW w \in Workers, proc[w].pc \in Taking, NEW l \in {"awaiting", "failed", "pending"}, Swap(w, l)
    PROVE  StepBy(w)
<1> DEFINE x == proc[w].at
<1>1. CASE Throw(w)
  BY <1>1, EndBy DEF Swap, Throw
<1>2. CASE Current(w, x) /\ Finish(w, x, l) /\ UNCHANGED asks
  <2>1. x \in Items /\ life[x] \in Waiting
    BY <1>2, CurrentIs DEF OneInv, Relies, Fresh
  <2>2. /\ life'[x] = l /\ \A y \in Items \ {x} : life'[y] = life[y]
        /\ proc'[w].pc \in Stages /\ proc'[w].made = {}
    BY <1>2, <2>1, FinishIs DEF OneInv
  <2>3. UNCHANGED <<asks, spec>>
    BY <1>2 DEF Swap
  <2>4. Stands /\ CancelledRests(life', asks', spec')
    <3>1. CASE x = Parent
      BY <2>2, <2>3, <3>1, ParentStands
    <3>2. CASE x \in Phases
      <4>1. life[x] # "completed" /\ life[x] # "absent" /\ life[x] \notin Ended
        BY <2>1 DEF Waiting, Ended
      <4>2. ~(life[Parent] = "cancelled" /\ asks = {})
        BY <3>2, <4>1 DEF OneInv, CancelledRests, AllOver
      <4> HIDE DEF x
      <4> QED BY <2>2, <2>3, <3>2, <4>1, <4>2, PhaseStands
    <3> QED BY <2>1, <3>1, <3>2, PhasesAre
  <2> QED BY <2>2, <2>4, IdleRelies DEF StepBy
<1> QED BY <1>1, <1>2 DEF Swap

LEMMA TakingBy == ASSUME OneInv, NEW w \in Workers, Hold(w) \/ Refuse(w) \/ Approve(w) PROVE StepBy(w)
BY SwapBy DEF Hold, Refuse, Approve, Taking

LEMMA ClaimBy == ASSUME OneInv, NEW w \in Workers, Claim(w) PROVE StepBy(w)
<1> DEFINE x == proc[w].at
<1>1. CASE Leave(w)
  BY <1>1, EndBy DEF Claim, Leave
<1>2. CASE /\ Current(w, x) /\ life' = [life EXCEPT ![x] = "running"]
           /\ asks' = IF x = Parent THEN {} ELSE asks
           /\ Goto(w, IF x = Parent THEN "compile" ELSE "exec")
  <2>1. x \in Items /\ life[x] \in Waiting /\ proc[w].made = {}
    BY <1>2, CurrentIs DEF OneInv, Relies, Fresh, Claim, Taking
  <2>2. life'[x] = "running" /\ (\A y \in Items \ {x} : life'[y] = life[y]) /\ spec' = spec
    BY <1>2, <2>1 DEF OneInv, TypeOK, Claim
  <2>3. CASE x = Parent
    <3>1. Stands /\ CancelledRests(life', asks', spec')
      BY <2>2, <2>3, ParentStands
    <3>2. Goto(w, "compile")
      BY <1>2, <2>3
    <3>3. Relies(proc'[w], life', asks', spec', Fresh(w)')
      BY <2>1, <2>2, <2>3, <3>2, GotoIs DEF OneInv, Relies, Taking, Decomposing, Resuming
    <3> QED BY <3>1, <3>3 DEF StepBy
  <2>4. CASE x \in Phases
    <3>1. life[x] # "completed" /\ life[x] # "absent" /\ life[x] \notin Ended /\ x # Parent
      BY <2>1, <2>4, PhasesAre DEF Waiting, Ended
    <3>2. ~(life[Parent] = "cancelled" /\ asks = {}) /\ asks' = asks
      BY <1>2, <2>4, <3>1 DEF OneInv, CancelledRests, AllOver
    <3>3. Goto(w, "exec")
      BY <1>2, <3>1
    <3>4. Relies(proc'[w], life', asks', spec', Fresh(w)')
      BY <2>1, <2>2, <2>4, <3>3, GotoIs DEF OneInv, Relies, Taking, Decomposing, Resuming
    <3> HIDE DEF x
    <3>5. Stands /\ CancelledRests(life', asks', spec')
      BY <2>2, <2>4, <3>1, <3>2, PhaseStands
    <3> QED BY <3>4, <3>5 DEF StepBy
  <2> QED BY <2>1, <2>3, <2>4, PhasesAre
<1> QED BY <1>1, <1>2 DEF Claim

LEMMA EndPhaseBy == ASSUME OneInv, NEW w \in Workers, EndPhase(w) PROVE StepBy(w)
<1> DEFINE x == proc[w].at
<1>1. PICK l \in Ended : Finish(w, x, l)
  BY DEF EndPhase, Ended
<1>2. x \in Phases /\ life[x] = "running" /\ UNCHANGED <<asks, spec>>
  BY DEF EndPhase, OneInv, Relies
<1> HIDE DEF x
<1>3. /\ life'[x] = l /\ \A y \in Items \ {x} : life'[y] = life[y]
      /\ proc'[w].pc \in Stages /\ proc'[w].made = {}
  BY <1>1, <1>2, FinishIs, PhasesAre DEF OneInv
<1>4. Stands /\ CancelledRests(life', asks', spec')
  BY <1>2, <1>3, PhaseStands
<1> QED BY <1>3, <1>4, IdleRelies DEF StepBy

(* The decomposition.                                                       *)
LEMMA MadeIs ==
    ASSUME TypeOK, NEW w \in Workers,
           proc' = [proc EXCEPT ![w] = [proc[w] EXCEPT !.k = @ + 1, !.made = @ \cup {Here(w)}]]
    PROVE  proc'[w].pc = proc[w].pc /\ proc'[w].at = proc[w].at
<1> DEFINE mk == proc[w].made \cup {Here(w)}
<1>1. proc' = [proc EXCEPT ![w] = [proc[w] EXCEPT !.k = @ + 1, !.made = mk]]
  OBVIOUS
<1> HIDE DEF mk
<1> QED BY <1>1 DEF TypeOK, Local

LEMMA HereIs == ASSUME TypeOK, NEW w \in Workers, More(w) PROVE Here(w) \in Phases
BY WalkFacts DEF TypeOK, ProcOK

LEMMA CompileBy == ASSUME OneInv, NEW w \in Workers, Compile(w) \/ WriteSpec(w) PROVE StepBy(w)
<1>1. CASE Compile(w)
  <2>1. CASE Goto(w, "fail")
    <3>1. Relies(proc'[w], life, asks, spec, Fresh(w)')
      BY <1>1, <2>1, GotoIs DEF Compile, OneInv, Relies, Taking, Decomposing, Resuming
    <3> QED BY <1>1, <3>1, QuietBy DEF Compile, munin
  <2>2. CASE Goto(w, "spec") /\ \A p \in Phases : life[p] = "absent"
    <3>1. Relies(proc'[w], life, asks, spec, Fresh(w)')
      BY <1>1, <2>2, GotoIs DEF Compile, OneInv, Relies, Taking, Decomposing, Resuming
    <3> QED BY <1>1, <3>1, QuietBy DEF Compile, munin
  <2> QED BY <1>1, <2>1, <2>2 DEF Compile
<1>2. CASE WriteSpec(w)
  <2>1. Relies(proc'[w], life, asks, spec', Fresh(w)')
    BY <1>2, WalkIs DEF WriteSpec, OneInv, Relies, Taking, Decomposing, Resuming
  <2> QED BY <1>2, <2>1 DEF WriteSpec, StepBy, Stands, Starts, OneInv, CancelledRests, AllOver
<1> QED BY <1>1, <1>2

(* A phase that the decomposition writes, or cleans up.                     *)
LEMMA DraftBy ==
    ASSUME OneInv, NEW w \in Workers, proc[w].pc \in {"phases", "abort"}, NEW p \in Phases, NEW l \in {"pending", "blocked", "cancelled"},
           Put(p, l), UNCHANGED <<asks, spec>>, proc'[w].at = proc[w].at, proc'[w].pc \in {"phases", "abort"}
    PROVE  StepBy(w)
<1>1. life'[p] = l /\ (\A y \in Items \ {p} : life'[y] = life[y])
  BY PutIs, PhasesAre DEF OneInv
<1>2. /\ proc[w].at = Parent /\ life[Parent] \in {"running", "completed"} /\ spec
      /\ \A q \in Phases : life[q] \notin {"running", "completed"}
  BY DEF OneInv, Relies, Decomposing
<1>3. Stands /\ CancelledRests(life', asks', spec')
  BY <1>1, <1>2, PhaseStands
<1>4. life'[Parent] = life[Parent] /\ spec' = spec /\ \A q \in Phases : life'[q] \notin {"running", "completed"}
  BY <1>1, <1>2, PhasesAre
<1>5. Relies(proc'[w], life', asks', spec', Fresh(w)')
  BY <1>2, <1>4 DEF Relies, Taking, Decomposing, Resuming
<1> QED BY <1>3, <1>5 DEF StepBy

(* An attempt that has failed, before the parent is failed.                 *)
LEMMA AbortBegins ==
    ASSUME OneInv, NEW w \in Workers, proc[w].pc \in {"spec", "phases", "result"}, NEW l \in {"fail", "abort"}, Walk(w, l),
           spec' = spec, l = "abort" => spec, NEW lf, lf[Parent] \in {"running", "completed"}, \A q \in Phases : lf[q] \notin {"running", "completed"}
    PROVE  Relies(proc'[w], lf, asks', spec', Fresh(w)')
BY WalkIs DEF OneInv, Relies, Taking, Decomposing, Resuming

LEMMA RootsAre == \A p : Roots(p) \in {"pending", "blocked"}
BY DEF Roots

LEMMA WritePhaseBy == ASSUME OneInv, NEW w \in Workers, WritePhase(w) PROVE StepBy(w)
<1>1. Here(w) \in Phases /\ Roots(Here(w)) \in {"pending", "blocked"}
  BY HereIs, RootsAre DEF WritePhase, OneInv
<1>2. proc'[w].pc = proc[w].pc /\ proc'[w].at = proc[w].at
  BY MadeIs DEF WritePhase, OneInv
<1> QED BY <1>1, <1>2, DraftBy DEF WritePhase

LEMMA DecompositionThrowsBy == ASSUME OneInv, NEW w \in Workers, DecompositionThrows(w) PROVE StepBy(w)
<1> DEFINE l == IF proc[w].made = {} THEN "fail" ELSE "abort"
<1>1. /\ Walk(w, l) /\ spec' = spec /\ proc[w].pc \in {"spec", "phases", "result"}
  BY DEF DecompositionThrows
<1>2. /\ proc[w].at = Parent /\ life[Parent] \in {"running", "completed"} /\ (l = "abort" => spec)
      /\ \A q \in Phases : life[q] \notin {"running", "completed"}
  BY <1>1 DEF OneInv, Relies, Decomposing
<1>3. l \in {"fail", "abort"}
  OBVIOUS
<1> HIDE DEF l
<1>4. CASE Unwritten
  <2>1. Relies(proc'[w], life, asks', spec', Fresh(w)')
    BY <1>1, <1>2, <1>3, AbortBegins
  <2> QED BY <1>1, <1>4, <2>1, QuietBy DEF Unwritten
<1>5. CASE proc[w].pc = "phases" /\ More(w) /\ Put(Here(w), Roots(Here(w))) /\ UNCHANGED asks
  <2>1. Here(w) \in Phases /\ Roots(Here(w)) \in {"pending", "blocked"} /\ spec
    BY <1>5, HereIs, RootsAre DEF OneInv, Relies
  <2>2. life'[Here(w)] = Roots(Here(w)) /\ \A y \in Items \ {Here(w)} : life'[y] = life[y]
    BY <1>5, <2>1, PutIs, PhasesAre DEF OneInv
  <2>3. life'[Parent] = life[Parent] /\ \A q \in Phases : life'[q] \notin {"running", "completed"}
    BY <1>2, <2>1, <2>2, PhasesAre
  <2>4. Relies(proc'[w], life', asks', spec', Fresh(w)')
    BY <1>1, <1>2, <1>3, <2>3, AbortBegins
  <2>5. Stands /\ CancelledRests(life', asks', spec')
    BY <1>1, <1>2, <1>5, <2>1, <2>2, PhaseStands
  <2> QED BY <2>4, <2>5 DEF StepBy
<1>6. CASE Put(Parent, "completed") /\ asks' = {}
  <2>1. life'[Parent] = "completed" /\ \A y \in Items \ {Parent} : life'[y] = life[y]
    BY <1>6, PutIs, PhasesAre DEF OneInv
  <2>2. \A q \in Phases : life'[q] \notin {"running", "completed"}
    BY <1>2, <2>1, PhasesAre
  <2>3. Relies(proc'[w], life', asks', spec', Fresh(w)')
    BY <1>1, <1>2, <1>3, <2>1, <2>2, AbortBegins
  <2>4. Stands /\ CancelledRests(life', asks', spec')
    BY <1>1, <2>1, ParentStands
  <2> QED BY <2>3, <2>4 DEF StepBy
<1> QED BY <1>4, <1>5, <1>6 DEF DecompositionThrows

LEMMA CommitBy == ASSUME OneInv, NEW w \in Workers, Commit(w) PROVE StepBy(w)
<1>1. proc[w].pc = "phases" /\ spec' = spec
  BY DEF Commit
<1>2. /\ proc[w].at = Parent /\ life[Parent] \in {"running", "completed"} /\ spec
      /\ \A q \in Phases : life[q] \notin {"running", "completed"}
  BY <1>1 DEF OneInv, Relies, Decomposing
<1>3. CASE Put(Parent, "completed") /\ asks' = {} /\ Goto(w, "result")
  <2>1. life'[Parent] = "completed" /\ \A y \in Items \ {Parent} : life'[y] = life[y]
    BY <1>3, PutIs, PhasesAre DEF OneInv
  <2>2. \A q \in Phases : life'[q] \notin {"running", "completed"}
    BY <1>2, <2>1, PhasesAre
  <2>3. proc'[w].pc = "result" /\ proc'[w].at = Parent
    BY <1>2, <1>3, GotoIs DEF OneInv
  <2>4. Relies(proc'[w], life', asks', spec', Fresh(w)')
    BY <1>1, <1>2, <2>1, <2>2, <2>3 DEF Relies, Taking, Decomposing, Resuming
  <2>5. Stands /\ CancelledRests(life', asks', spec')
    BY <1>1, <2>1, ParentStands
  <2> QED BY <2>4, <2>5 DEF StepBy
<1>4. CASE Unwritten /\ Walk(w, "abort")
  <2>1. proc'[w].pc = "abort" /\ proc'[w].at = Parent
    BY <1>2, <1>4, WalkIs DEF OneInv
  <2>2. Relies(proc'[w], life, asks', spec', Fresh(w)')
    BY <1>1, <1>2, <2>1 DEF Relies, Taking, Decomposing, Resuming
  <2> QED BY <1>1, <1>4, <2>2, QuietBy DEF Unwritten
<1> QED BY <1>3, <1>4 DEF Commit

LEMMA AbortBy == ASSUME OneInv, NEW w \in Workers, Abort(w) PROVE StepBy(w)
<1>1. proc[w].pc = "abort" /\ More(w) /\ proc' = [proc EXCEPT ![w].k = @ + 1] /\ spec' = spec
  BY DEF Abort
<1>2. proc'[w].pc = "abort" /\ proc'[w].at = proc[w].at /\ proc'[w].made = proc[w].made
  BY <1>1, NextIs DEF OneInv
<1>3. CASE Put(Here(w), "cancelled") /\ UNCHANGED asks
  <2>1. Here(w) \in Phases
    BY <1>1, HereIs DEF OneInv
  <2> QED BY <1>1, <1>2, <1>3, <2>1, DraftBy
<1>4. CASE Unwritten
  <2>1. Relies(proc'[w], life, asks, spec, Fresh(w)')
    BY <1>1, <1>2 DEF OneInv, Relies, Taking, Decomposing, Resuming
  <2> QED BY <1>1, <1>4, <2>1, QuietBy DEF Unwritten
<1> QED BY <1>3, <1>4 DEF Abort

LEMMA FailBy == ASSUME OneInv, NEW w \in Workers, Fail(w) PROVE StepBy(w)
<1>1. CASE Throw(w)
  BY <1>1, EndBy DEF Fail, Throw
<1>2. CASE Finish(w, Parent, "failed") /\ asks' = {}
  <2>1. /\ life'[Parent] = "failed" /\ \A y \in Items \ {Parent} : life'[y] = life[y]
        /\ proc'[w].pc \in Stages /\ proc'[w].made = {}
    BY <1>2, FinishIs, PhasesAre DEF OneInv
  <2>2. Stands /\ CancelledRests(life', asks', spec')
    BY <2>1, ParentStands DEF Fail
  <2> QED BY <2>1, <2>2, IdleRelies DEF StepBy
<1> QED BY <1>1, <1>2 DEF Fail

LEMMA RenewBy == ASSUME OneInv, NEW w \in Workers, Renew(w) PROVE StepBy(w)
<1>1. /\ proc[w].pc \in Decomposing /\ Put(Parent, "running") /\ asks' = {} /\ UNCHANGED <<spec, proc>>
  BY DEF Renew
<1>2. /\ life'[Parent] = "running" /\ \A y \in Items \ {Parent} : life'[y] = life[y]
  BY <1>1, PutIs, PhasesAre DEF OneInv
<1>3. Stands /\ CancelledRests(life', asks', spec')
  BY <1>1, <1>2, ParentStands
<1>4. \A q \in Phases : life'[q] = life[q]
  BY <1>2, PhasesAre
<1>5. Relies(proc'[w], life', asks', spec', Fresh(w)')
  BY <1>1, <1>2, <1>4 DEF OneInv, Relies, Taking, Decomposing, Resuming
<1> QED BY <1>3, <1>5 DEF StepBy

(* Cancellation.                                                            *)
LEMMA ReadPhases ==
    ASSUME OneInv, NEW w \in Workers, Reads(w, Phases)
    PROVE  \A p \in Phases : p \in Fresh(w)'
BY ReadsIs, PhasesAre

LEMMA CancelPhasesBy == ASSUME OneInv, NEW w \in Workers, CancelPhases(w) PROVE StepBy(w)
<1>1. proc[w].pc = "cancel" /\ UNCHANGED <<life, asks, spec>>
  BY DEF CancelPhases, munin
<1>2. CASE View(w, "sweep")
  <2>1. Relies(proc'[w], life, asks, spec, Fresh(w)')
    BY <1>1, <1>2, ViewIs DEF OneInv, Relies, Taking, Decomposing, Resuming
  <2> QED BY <1>1, <2>1, QuietBy
<1>3. CASE ~spec /\ Goto(w, "cancelled")
  <2>1. AllOver(life)
    BY <1>3 DEF OneInv, CancelledRests, AllOver
  <2>2. Relies(proc'[w], life, asks, spec, Fresh(w)')
    BY <1>1, <1>3, <2>1, GotoIs DEF OneInv, Relies, Taking, Decomposing, Resuming
  <2> QED BY <1>1, <2>2, QuietBy
<1> QED BY <1>2, <1>3 DEF CancelPhases

LEMMA CancelPhaseBy == ASSUME OneInv, NEW w \in Workers, CancelPhase(w) PROVE StepBy(w)
<1>1. proc[w].pc = "sweep" /\ More(w) /\ proc' = [proc EXCEPT ![w].k = @ + 1] /\ spec' = spec
  BY DEF CancelPhase
<1>2. proc'[w].pc = "sweep" /\ proc'[w].view = proc[w].view /\ proc'[w].made = {}
  BY <1>1, NextIs DEF OneInv, Relies
<1> DEFINE p == Here(w)
<1>3. CASE proc[w].view[p] \in Waiting /\ Current(w, p) /\ Put(p, "cancelled") /\ UNCHANGED asks
  <2>1. p \in Phases /\ p \in Fresh(w)
    BY <1>1, <1>3, HereIs, CurrentIs DEF OneInv
  <2>2. life[p] = proc[w].view[p]
    BY <1>1, <2>1 DEF OneInv, Relies
  <2>3. life'[p] = "cancelled" /\ (\A y \in Items \ {p} : life'[y] = life[y]) /\ Fresh(w)' = Fresh(w) \ {p}
    BY <1>3, <2>1, PutIs, PhasesAre DEF OneInv
  <2>4. life[p] # "completed" /\ life[p] # "absent" /\ "cancelled" \in Ended /\ proc[w].view[p] \notin Ended \cup {"absent"}
    BY <1>3, <2>2 DEF Waiting, Ended
  <2> HIDE DEF p
  <2>5. Stands /\ CancelledRests(life', asks', spec')
    BY <1>1, <1>3, <2>1, <2>3, <2>4, PhaseStands
  <2>6. \A q \in Phases : q \in Fresh(w)' \/ proc[w].view[q] \in Ended \cup {"absent"} => life'[q] = proc[w].view[q]
    BY <1>1, <2>1, <2>3, <2>4, PhasesAre DEF OneInv, Relies
  <2>7. Relies(proc'[w], life', asks', spec', Fresh(w)')
    BY <1>2, <2>6 DEF Relies, Taking, Decomposing, Resuming
  <2> QED BY <2>5, <2>7 DEF StepBy
<1>4. CASE Unwritten
  <2>1. Fresh(w)' = Fresh(w)
    BY <1>4 DEF Unwritten, Fresh
  <2>2. Relies(proc'[w], life, asks, spec, Fresh(w)')
    BY <1>1, <1>2, <2>1 DEF OneInv, Relies, Taking, Decomposing, Resuming
  <2> QED BY <1>1, <1>4, <2>2, QuietBy DEF Unwritten
<1> QED BY <1>3, <1>4 DEF CancelPhase

LEMMA CancelSweptBy == ASSUME OneInv, NEW w \in Workers, CancelSwept(w) PROVE StepBy(w)
<1>1. proc[w].pc = "sweep" /\ spec' = spec
  BY DEF CancelSwept
<1>2. CASE Leave(w)
  BY <1>1, <1>2, EndBy DEF Leave
<1>3. CASE Goto(w, "finalize") /\ Unwritten
  <2>1. Relies(proc'[w], life, asks, spec, Fresh(w)')
    BY <1>1, <1>3, GotoIs DEF OneInv, Relies, Taking, Decomposing, Resuming
  <2> QED BY <1>1, <1>3, <2>1, QuietBy DEF Unwritten
<1>4. CASE Goto(w, "unask") /\ Unwritten /\ ~ViewHas(w, {"running"}) /\ ~ViewHas(w, Waiting \cup {"cancelled"})
  <2>1. \A p \in Phases : proc[w].view[p] \in Lifecycles
    BY DEF OneInv, TypeOK, Local
  <2>2. \A p \in Phases : proc[w].view[p] \in Ended \cup {"absent"}
    BY <1>4, <2>1 DEF ViewHas, Lifecycles, Ended
  <2>3. AllOver(life)
    BY <1>1, <2>2 DEF OneInv, Relies, AllOver
  <2>4. Relies(proc'[w], life, asks, spec, Fresh(w)')
    BY <1>1, <1>4, <2>3, GotoIs DEF OneInv, Relies, Taking, Decomposing, Resuming
  <2> QED BY <1>1, <1>4, <2>4, QuietBy DEF Unwritten
<1> QED BY <1>2, <1>3, <1>4 DEF CancelSwept

LEMMA FinalizeBy == ASSUME OneInv, NEW w \in Workers, Finalize(w) \/ Reread(w) PROVE StepBy(w)
<1>1. proc[w].pc \in {"finalize", "reread"} /\ spec' = spec
  BY DEF Finalize, Reread
<1>2. CASE Leave(w)
  BY <1>1, <1>2, EndBy DEF Leave
<1>3. ASSUME NEW l \in {"reread", "cancelled"}, Goto(w, l), AllOver(life), UNCHANGED <<life, asks>>
      PROVE  StepBy(w)
  <2>1. Relies(proc'[w], life, asks, spec, Fresh(w)')
    BY <1>1, <1>3, GotoIs DEF OneInv, Relies, Taking, Decomposing, Resuming
  <2> QED BY <1>1, <1>3, <2>1, QuietBy
<1>4. CASE Finalize(w)
  BY <1>2, <1>3, <1>4 DEF Finalize, AllOver, Unwritten
<1>5. CASE Reread(w)
  <2>1. AllOver(life)
    BY <1>5 DEF Reread, OneInv, Relies
  <2> QED BY <1>2, <1>3, <1>5, <2>1 DEF Reread
<1> QED BY <1>4, <1>5

(* The swap that ends a request of the operator.                            *)
LEMMA ParentSwapBy ==
    ASSUME OneInv, NEW w \in Workers, NEW l, NEW A, ParentSwap(w, l, A),
           Current(w, Parent) /\ l = "cancelled" /\ A = {} => AllOver(life)
    PROVE  StepBy(w)
<1>1. spec' = spec
  BY DEF ParentSwap
<1>2. CASE Leave(w) \/ Throw(w)
  BY <1>1, <1>2, EndBy DEF Leave, Throw
<1>3. CASE Current(w, Parent) /\ Finish(w, Parent, l) /\ asks' = A
  <2>1. /\ life'[Parent] = l /\ \A y \in Items \ {Parent} : life'[y] = life[y]
        /\ proc'[w].pc \in Stages /\ proc'[w].made = {}
    BY <1>3, FinishIs, PhasesAre DEF OneInv
  <2>2. Stands /\ CancelledRests(life', asks', spec')
    BY <1>1, <1>3, <2>1, ParentStands
  <2> QED BY <2>1, <2>2, IdleRelies DEF StepBy
<1> QED BY <1>2, <1>3 DEF ParentSwap

LEMMA CancelledBy == ASSUME OneInv, NEW w \in Workers, Cancelled(w) \/ ClearCancel(w) PROVE StepBy(w)
<1>1. AllOver(life)
  BY DEF Cancelled, ClearCancel, OneInv, Relies
<1> QED BY <1>1, ParentSwapBy DEF Cancelled, ClearCancel

(* Resume.                                                                  *)
LEMMA PlanBy == ASSUME OneInv, NEW w \in Workers, Plan(w) PROVE StepBy(w)
<1> DEFINE Has(L) == \E p \in Phases : life[p] \in L
           active == Has(Waiting \cup {"running"})
           saw == proc[w].saw
           next == IF "cancel" \in saw.asks /\ active THEN "unresume"
                   ELSE IF Has({"absent", "failed", "cancelled"}) THEN "reset"
                   ELSE IF active /\ saw.life \in {"cancelled", "failed"} THEN "resumed"
                   ELSE "unresume"
<1>1. proc[w].pc = "plan" /\ View(w, next) /\ UNCHANGED <<life, asks, spec>> /\ Reads(w, Phases)
  BY DEF Plan, munin
<1>2. (life[Parent] = "cancelled" => asks # {}) /\ spec
  BY <1>1 DEF OneInv, Relies, Resuming
<1>3. Parent \in Fresh(w) => saw.life = life[Parent] /\ saw.asks = asks
  BY <1>1 DEF OneInv, Relies
<1>4. Fresh(w)' = Fresh(w) \cup Phases
  BY <1>1, ReadsIs, PhasesAre
<1>5. next = "unresume" /\ Parent \in Fresh(w)' /\ life[Parent] = "cancelled" => "cancel" \in asks \/ AllOver(life)
  <2> SUFFICES ASSUME next = "unresume", Parent \in Fresh(w)', life[Parent] = "cancelled", "cancel" \notin asks
               PROVE  AllOver(life)
    OBVIOUS
  <2>1. saw.life = "cancelled" /\ "cancel" \notin saw.asks
    BY <1>3, <1>4, PhasesAre
  <2>2. ~active
    BY <2>1
  <2>3. \A p \in Phases : life[p] \in Lifecycles
    BY PhasesAre DEF OneInv, TypeOK
  <2> QED BY <2>2, <2>3 DEF AllOver, Lifecycles
<1>6. next \in {"unresume", "reset", "resumed"}
  OBVIOUS
<1> HIDE DEF next
<1>7. /\ proc'[w].pc = next /\ proc'[w].made = {} /\ \A p \in Phases : proc'[w].view[p] = life[p]
  BY <1>1, ViewIs DEF OneInv, Relies
<1>8. next = "reset" => \A i \in proc'[w].k .. Len(Order) : proc'[w].view[Order[i]] = "absent" => life[Order[i]] = "absent"
  <2>1. proc'[w].k = 1
    BY <1>1 DEF View, OneInv, TypeOK, Local
  <2> QED BY <1>7, <2>1, PhasesAre
<1>9. Relies(proc'[w], life, asks, spec, Fresh(w)')
  BY <1>2, <1>5, <1>6, <1>7, <1>8 DEF Relies, Taking, Decomposing, Resuming
<1> QED BY <1>1, <1>9, QuietBy

LEMMA ReopenedIs == \A w, p : Reopened(w, p) \in {"pending", "blocked"}
BY DEF Reopened

LEMMA ResetPhaseBy == ASSUME OneInv, NEW w \in Workers, ResetPhase(w) PROVE StepBy(w)
<1> DEFINE p == Here(w)
<1>1. proc[w].pc = "reset" /\ More(w) /\ UNCHANGED spec /\ p \in Phases
  BY HereIs DEF ResetPhase, OneInv
<1>2. life[Parent] = "cancelled" => asks # {}
  BY <1>1 DEF OneInv, Relies, Resuming
<1>3. /\ \A q \in Phases \cap Fresh(w) : life[q] = proc[w].view[q]
      /\ \A i \in proc[w].k .. Len(Order) : proc[w].view[Order[i]] = "absent" => life[Order[i]] = "absent"
  BY <1>1 DEF OneInv, Relies
<1>4. proc[w].k \in 1 .. Len(Order) /\ p = Order[proc[w].k] /\ Len(Order) \in Nat
  BY <1>1, LenNat DEF More, Here, OneInv, TypeOK, Local
<1>5. spec
  BY <1>1 DEF OneInv, Relies
<1>6. CASE Throw(w)
  BY <1>1, <1>6, EndBy DEF Throw
<1>7. ASSUME proc' = [proc EXCEPT ![w].k = @ + 1]
      PROVE  /\ proc'[w].pc = "reset" /\ proc'[w].made = {} /\ proc'[w].view = proc[w].view
             /\ proc'[w].k = proc[w].k + 1
  BY <1>1, <1>7, NextIs DEF OneInv, Relies
<1>8. CASE Unwritten /\ proc' = [proc EXCEPT ![w].k = @ + 1]
  <2>1. Fresh(w)' = Fresh(w)
    BY <1>8 DEF Unwritten, Fresh
  <2>2. \A i \in proc'[w].k .. Len(Order) : i \in proc[w].k .. Len(Order)
    BY <1>4, <1>7, <1>8
  <2>3. Relies(proc'[w], life, asks, spec, Fresh(w)')
    BY <1>2, <1>3, <1>5, <1>7, <1>8, <2>1, <2>2 DEF Relies, Taking, Decomposing, Resuming
  <2> QED BY <1>1, <1>8, <2>3, QuietBy DEF Unwritten
<1>9. CASE /\ ShouldReset(w, p) /\ (proc[w].view[p] = "absent" \/ Current(w, p))
           /\ Put(p, Reopened(w, p)) /\ UNCHANGED asks /\ proc' = [proc EXCEPT ![w].k = @ + 1]
  <2>1. life[p] \in {"absent", "failed", "cancelled"}
    <3>1. CASE proc[w].view[p] = "absent"
      BY <1>3, <1>4, <3>1
    <3>2. CASE Current(w, p)
      BY <1>1, <1>3, <1>9, <3>2, CurrentIs DEF ShouldReset, OneInv
    <3> QED BY <1>9, <3>1, <3>2
  <2> DEFINE l == Reopened(w, p)
  <2>2. l \in {"pending", "blocked"} /\ life'[p] = l /\ (\A y \in Items \ {p} : life'[y] = life[y])
        /\ Fresh(w)' = Fresh(w) \ {p}
    BY <1>1, <1>9, ReopenedIs, PutIs, PhasesAre DEF OneInv
  <2>3. \A i \in proc'[w].k .. Len(Order) : i \in proc[w].k .. Len(Order) /\ Order[i] # p /\ Order[i] \in Phases
    BY <1>4, <1>7, <1>9, OrderAssumption, PhasesAre
  <2> HIDE DEF l, p
  <2>4. Stands /\ CancelledRests(life', asks', spec')
    BY <1>1, <1>2, <1>5, <1>9, <2>1, <2>2, PhaseStands
  <2>5. life'[Parent] = life[Parent]
    BY <1>1, <2>2, PhasesAre
  <2>6. \A q \in Phases \cap Fresh(w)' : life'[q] = proc[w].view[q]
    BY <1>3, <2>2, PhasesAre
  <2>7. \A i \in proc'[w].k .. Len(Order) : proc[w].view[Order[i]] = "absent" => life'[Order[i]] = "absent"
    BY <1>3, <2>2, <2>3, PhasesAre
  <2>8. Relies(proc'[w], life', asks', spec', Fresh(w)')
    BY <1>1, <1>2, <1>5, <1>7, <1>9, <2>5, <2>6, <2>7 DEF Relies, Taking, Decomposing, Resuming
  <2> QED BY <2>4, <2>8 DEF StepBy
<1> QED BY <1>6, <1>8, <1>9 DEF ResetPhase

LEMMA ResumedBy == ASSUME OneInv, NEW w \in Workers, Resumed(w) \/ ClearResume(w) PROVE StepBy(w)
<1>1. CASE Resumed(w)
  BY <1>1, ParentSwapBy DEF Resumed
<1>2. CASE ClearResume(w)
  <2>1. proc[w].pc = "unresume" /\ ParentSwap(w, life[Parent], asks \ {"resume"})
    BY <1>2 DEF ClearResume
  <2>2. Current(w, Parent) /\ life[Parent] = "cancelled" /\ asks \ {"resume"} = {} => AllOver(life)
    BY <2>1, CurrentIs DEF OneInv, Relies
  <2> QED BY <2>1, <2>2, ParentSwapBy
<1> QED BY <1>1, <1>2

LEMMA WriteResultBy == ASSUME OneInv, NEW w \in Workers, WriteResult(w) PROVE StepBy(w)
BY EndBy DEF WriteResult, Leave

(* Any step of the one dispatcher, or of another party.                     *)
LEMMA GoOnBy == ASSUME OneInv, NEW w \in Workers, GoOn(w) PROVE StepBy(w)
BY PassBy, CancelReadBy, ResumeReadBy, PollReadBy, AwaitReadBy, GateBy, TakingBy, ClaimBy, EndPhaseBy,
   CompileBy, WritePhaseBy, CommitBy, WriteResultBy, AbortBy, FailBy, CancelPhasesBy, CancelPhaseBy,
   CancelSweptBy, FinalizeBy, CancelledBy, PlanBy, ResetPhaseBy, ResumedBy DEF GoOn

LEMMA OneStep == ASSUME OneInv, OneWorker, [Next]_vars PROVE StepStands
<1>1. ASSUME NEW w \in Workers, StepBy(w) PROVE StepStands
  BY <1>1 DEF StepBy, StepStands, OneWorker
<1>2. ASSUME NEW w \in Workers, GoOn(w) \/ DecompositionThrows(w) \/ Renew(w) \/ Crash(w) PROVE StepBy(w)
  BY <1>2, GoOnBy, DecompositionThrowsBy, RenewBy, CrashBy
<1>3. ASSUME UNCHANGED <<life, asks, spec, proc, fresh>> PROVE StepStands
  <2>1. Stands /\ CancelledRests(life', asks', spec')
    BY <1>3, QuietStands
  <2>2. \A w : Fresh(w)' = Fresh(w)
    BY <1>3 DEF Fresh
  <2> QED BY <1>3, <2>1, <2>2 DEF StepStands, OneInv
<1>4. ASSUME NEW p \in Phases, Decide(p) PROVE StepStands
  BY <1>3, <1>4 DEF Decide
<1>5. CASE UNCHANGED vars
  BY <1>3, <1>5 DEF vars
<1> QED BY <1>1, <1>2, <1>4, <1>5, AskStands, JoinStands, ReapStands DEF Next

LEMMA OneInit == ASSUME Init PROVE OneInv
<1>1. TypeOK
  BY TypeInit
<1>2. CancelledRests(life, asks, spec)
  BY PhasesAre DEF Init, CancelledRests, AllOver
<1>3. ASSUME NEW w \in Workers PROVE Relies(proc[w], life, asks, spec, Fresh(w))
  BY RestIs, IdleRelies DEF Init
<1> QED BY <1>1, <1>2, <1>3 DEF OneInv

(* With one dispatcher what a phase has completed is never undone, and a    *)
(* cancelled pipeline starts no phase: whatever cleanups, cancellations,    *)
(* resumes, joins and reaps interleave (src/pipeline-dispatch.ts,           *)
(* src/pipeline-control.ts, src/pipeline-ops.ts).                           *)
THEOREM WorkAlwaysStands == ASSUME OneWorker PROVE Spec => WorkStands
<1>1. Init => OneInv
  BY OneInit
<1>2. OneInv /\ [Next]_vars => OneInv'
  BY OneStep, TypeStep DEF OneInv, StepStands
<1>3. OneInv /\ [Next]_vars => [\A p \in Phases : life[p] = "completed" => life'[p] = "completed"]_vars
  BY OneStep DEF StepStands, Stands
<1>4. OneInv /\ [Next]_vars => [\A p \in Phases : Starts(p) => life[Parent] # "cancelled" \/ asks # {}]_vars
  BY OneStep DEF StepStands, Stands
<1> QED BY <1>1, <1>2, <1>3, <1>4, PTL DEF Spec, WorkStands, CompletedKept, QuietAfterCancel

-----------------------------------------------------------------------------
(***************************************************************************)
(* DependencyJoin: two scans that read a task, then its dependencies, and  *)
(* write last, implement a join that does it all at once, for any tasks,   *)
(* dependencies and limits.                                                *)
(***************************************************************************)
Names == Tasks \cup Ghosts
States == {"missing", "completed", "failed", "pending"}

(* The dependencies of a task that was submitted have been submitted, so   *)
(* that what is missing is missing for ever.                               *)
Submitted == \A t \in Tasks : status[t] # "absent" => \A d \in DependsOn[t] \cap Tasks : status[d] # "absent"

(* A client that has read its task to be blocked, and nothing has been     *)
(* written since, still finds it so.                                       *)
Held(c) ==
    pc[c] \in {"deps", "act", "cancel"} =>
        /\ job[c] \in Tasks /\ status[job[c]] # "absent"
        /\ c \in current => status[job[c]] = "blocked"

(* What it has read of the dependencies that have ended or are missing     *)
(* stays true.                                                             *)
Seen(c) ==
    pc[c] = "act" => \A d \in DependsOn[job[c]] : view[c][d] # "pending" => view[c][d] = StateOf(d)

JoinInv ==
    /\ JoinTypeOK /\ Submitted
    /\ \A c \in Clients : Held(c) /\ Seen(c)
    /\ \A t \in asked : status[t] # "absent"

LEMMA JoinStarts == JoinInit => JoinInv
BY FaultAssumption DEF JoinInit, JoinInv, JoinTypeOK, Submitted, Held, Seen, Clients, Done

(* The status of a task goes on: it is never absent again, and its end is  *)
(* final.                                                                  *)
LifeGoesOn ==
    \A t \in Tasks : /\ status[t] # "absent" => status'[t] # "absent"
                     /\ status[t] \in Done => status'[t] = status[t]

LEMMA StateStays ==
    ASSUME JoinTypeOK, LifeGoesOn, NEW d \in Names, StateOf(d) # "pending", d \in Tasks => status[d] # "absent"
    PROVE  StateOf(d)' = StateOf(d)
BY GhostAssumption DEF JoinTypeOK, StateOf, Done, Names, LifeGoesOn

LEMMA WriteGoesOn ==
    ASSUME JoinTypeOK, NEW t \in Tasks, NEW l \in {"blocked", "pending"} \cup Done, status[t] \notin Done, Write(t, l)
    PROVE  LifeGoesOn /\ status' \in [Tasks -> {"absent", "blocked", "pending"} \cup Done]
BY DEF JoinTypeOK, Write, LifeGoesOn, Done

(* What a client holds while another one, or nobody, writes.               *)
LEMMA Keeps ==
    ASSUME JoinInv, JoinTypeOK', LifeGoesOn,
           NEW c \in Clients, pc'[c] = pc[c], job'[c] = job[c], view'[c] = view[c],
           c \in current' => c \in current /\ (pc[c] \in {"deps", "act", "cancel"} => status'[job[c]] = status[job[c]])
    PROVE  (Held(c) /\ Seen(c))'
<1>1. Held(c)'
  BY DEF JoinInv, Held, LifeGoesOn
<1>2. Seen(c)'
  <2> SUFFICES ASSUME pc[c] = "act", NEW d \in DependsOn[job[c]], view[c][d] # "pending"
               PROVE  view[c][d] = StateOf(d)'
    BY DEF Seen
  <2>1. job[c] \in Tasks /\ status[job[c]] # "absent" /\ d \in Names /\ view[c][d] = StateOf(d)
    <3>1. Held(c) /\ Seen(c)
      BY DEF JoinInv
    <3>2. job[c] \in Tasks /\ status[job[c]] # "absent" /\ view[c][d] = StateOf(d)
      BY <3>1 DEF Held, Seen
    <3> QED BY <3>2, DependsOnAssumption DEF Names
  <2>2. d \in Tasks => status[d] # "absent"
    BY <2>1 DEF JoinInv, Submitted
  <2> QED BY <2>1, <2>2, StateStays DEF JoinInv
<1> QED BY <1>1, <1>2

(* Every client but the one that acts, or that nobody is, keeps what it    *)
(* holds.                                                                  *)
Others(c) ==
    \A d \in Clients \ {c} : /\ pc'[d] = pc[d] /\ job'[d] = job[d] /\ view'[d] = view[d]
                             /\ d \in current' => d \in current

LEMMA OthersKeep ==
    ASSUME JoinInv, JoinTypeOK', NEW c, Others(c), LifeGoesOn,
           \A d \in Clients \ {c} : d \in current' => (pc[d] \in {"deps", "act", "cancel"} => status'[job[d]] = status[job[d]])
    PROVE  \A d \in Clients \ {c} : (Held(d) /\ Seen(d))'
BY Keeps DEF Others

(* A write by nobody's scan.                                               *)
LEMMA WriteKeeps ==
    ASSUME JoinInv, NEW t \in Tasks, NEW l \in {"blocked", "pending"} \cup Done, status[t] \notin Done, Write(t, l),
           l = status[t] \/ \A d \in DependsOn[t] \cap Tasks : status[d] # "absent",
           NEW c, Others(c), JoinTypeOK', c \in Clients => (Held(c) /\ Seen(c))',
           \A x \in asked' : x \in asked \/ status[x] # "absent"
    PROVE  JoinInv'
<1>1. LifeGoesOn
  BY WriteGoesOn DEF JoinInv
<1>2. Submitted'
  <2> SUFFICES ASSUME NEW x \in Tasks, status'[x] # "absent", NEW d \in DependsOn[x] \cap Tasks PROVE status'[d] # "absent"
    BY DEF Submitted
  <2>1. CASE status[x] # "absent"
    BY <1>1, <2>1 DEF JoinInv, Submitted, LifeGoesOn
  <2>2. CASE status[x] = "absent"
    <3>1. x = t /\ status[t] = "absent" /\ l # status[t]
      BY <2>2 DEF Write, JoinInv, JoinTypeOK
    <3> QED BY <1>1, <3>1 DEF LifeGoesOn
  <2> QED BY <2>1, <2>2
<1>3. \A d \in Clients \ {c} : d \in current' => (pc[d] \in {"deps", "act", "cancel"} => status'[job[d]] = status[job[d]])
  BY DEF Write, JoinInv, JoinTypeOK
<1>4. \A d \in Clients : (Held(d) /\ Seen(d))'
  BY <1>1, <1>3, OthersKeep
<1>5. \A x \in asked' : status'[x] # "absent"
  BY <1>1 DEF JoinInv, JoinTypeOK, LifeGoesOn
<1> QED BY <1>2, <1>4, <1>5 DEF JoinInv

(* A step that writes no status.                                           *)
LEMMA QuietKeeps ==
    ASSUME JoinInv, UNCHANGED <<status, asked>>, NEW c, Others(c), JoinTypeOK', c \in Clients => (Held(c) /\ Seen(c))'
    PROVE  JoinInv'
<1>1. LifeGoesOn /\ Submitted'
  BY DEF JoinInv, Submitted, LifeGoesOn
<1>2. \A d \in Clients : (Held(d) /\ Seen(d))'
  BY <1>1, OthersKeep
<1> QED BY <1>1, <1>2 DEF JoinInv

LEMMA SubmitKeeps == ASSUME JoinInv, NEW t \in Tasks, Submit(t) PROVE JoinInv'
<1>1. JoinTypeOK'
  BY DEF Submit, Write, JoinInv, JoinTypeOK
<1> QED BY <1>1, WriteKeeps DEF Submit, Others, Write, Clients, Done

LEMMA RequestKeeps == ASSUME JoinInv, NEW t \in Tasks, RequestCancel(t) PROVE JoinInv'
<1>1. JoinTypeOK'
  BY DEF RequestCancel, Write, JoinInv, JoinTypeOK
<1> QED BY <1>1, WriteKeeps DEF RequestCancel, Others, Write, Clients, Done

LEMMA EndKeeps == ASSUME JoinInv, NEW c \in Clients, NEW t \in Tasks, EndTask(c, t) PROVE JoinInv'
<1>3. PICK l \in Done : Write(t, l)
  BY DEF EndTask
<1>1. JoinTypeOK'
  <2>1. status' \in [Tasks -> {"absent", "blocked", "pending"} \cup Done] /\ current' \in SUBSET Clients
    BY <1>3 DEF Write, JoinInv, JoinTypeOK, Done
  <2>2. pc' \in [Clients -> {"idle", "cancel", "query", "scan", "deps", "act"}] /\ job' \in [Clients -> Tasks \cup {NoJob}]
    BY DEF EndTask, Take, JoinInv, JoinTypeOK
  <2> QED BY <2>1, <2>2 DEF EndTask, JoinInv, JoinTypeOK
<1>2. (Held(c) /\ Seen(c))'
  BY DEF EndTask, Take, Held, Seen, JoinInv, JoinTypeOK
<1>4. Others(c) /\ asked' = asked /\ status[t] = "pending"
  BY DEF EndTask, Take, Write, Others, JoinInv, JoinTypeOK
<1>5. \A d \in DependsOn[t] \cap Tasks : status[d] # "absent"
  BY <1>4 DEF JoinInv, Submitted
<1> QED BY <1>1, <1>2, <1>3, <1>4, <1>5, WriteKeeps DEF Done

LEMMA AskedReadKeeps == ASSUME JoinInv, NEW t \in Tasks, ReadAsked(t) PROVE JoinInv'
<1>1. JoinTypeOK'
  BY DEF ReadAsked, Take, JoinInv, JoinTypeOK, Clients
<1>2. (Held("munin") /\ Seen("munin"))'
  BY DEF ReadAsked, Take, Held, Seen, JoinInv, JoinTypeOK, Clients
<1>3. Others("munin")
  BY DEF ReadAsked, Take, Others, JoinInv, JoinTypeOK, Clients
<1> QED BY <1>1, <1>2, <1>3, QuietKeeps DEF ReadAsked

LEMMA AskedKeeps == ASSUME JoinInv, CancelAsked PROVE JoinInv'
<1>1. JoinTypeOK'
  BY DEF CancelAsked, Write, Take, JoinInv, JoinTypeOK, Clients, Done, Held
<1>2. (Held("munin") /\ Seen("munin"))' /\ Others("munin") /\ asked' = asked
  BY DEF CancelAsked, Write, Take, Others, Held, Seen, JoinInv, JoinTypeOK, Clients
<1>3. CASE "munin" \in current
  <2>1. /\ job["munin"] \in Tasks /\ status[job["munin"]] = "blocked"
    BY <1>3 DEF CancelAsked, JoinInv, Held, Clients
  <2>2. \A d \in DependsOn[job["munin"]] \cap Tasks : status[d] # "absent"
    BY <2>1 DEF JoinInv, Submitted
  <2> QED BY <1>1, <1>2, <1>3, <2>1, <2>2, WriteKeeps DEF CancelAsked, Done
<1>4. CASE "munin" \notin current
  BY <1>1, <1>2, <1>4, QuietKeeps DEF CancelAsked
<1> QED BY <1>3, <1>4

LEMMA ScanKeeps ==
    ASSUME JoinInv, NEW c \in Clients, QueryDependents(c) \/ ScanEnds(c) \/ (c = "munin" /\ QueryBlocked)
                                    \/ \E t \in Tasks : ReadTask(c, t)
    PROVE  JoinInv'
<1>1. JoinTypeOK'
  <2>1. CASE QueryDependents(c)
    <3>1. {t \in Tasks : status[t] = "blocked" /\ job[c] \in DependsOn[t]} \in SUBSET Tasks
      OBVIOUS
    <3> QED BY <2>1, <3>1 DEF QueryDependents, Take, JoinInv, JoinTypeOK
  <2>4. CASE ScanEnds(c)
    BY <2>4 DEF ScanEnds, Move, JoinInv, JoinTypeOK
  <2>2. CASE c = "munin" /\ QueryBlocked
    BY <2>2 DEF QueryBlocked, Move, JoinInv, JoinTypeOK, Clients
  <2>3. CASE \E t \in Tasks : ReadTask(c, t)
    <3>1. PICK t \in Tasks : ReadTask(c, t)
      BY <2>3
    <3>2. pc' \in [Clients -> {"idle", "cancel", "query", "scan", "deps", "act"}] /\ job' \in [Clients -> Tasks \cup {NoJob}]
      <4>1. CASE Take(c, t, "deps")
        BY <4>1 DEF Take, JoinInv, JoinTypeOK
      <4>2. CASE UNCHANGED <<pc, job>>
        BY <4>2 DEF JoinInv, JoinTypeOK
      <4> QED BY <3>1, <4>1, <4>2 DEF ReadTask
    <3>3. todo' \in [Clients -> SUBSET Tasks] /\ current' \in SUBSET Clients
      BY <3>1 DEF ReadTask, JoinInv, JoinTypeOK
    <3> QED BY <3>1, <3>2, <3>3 DEF ReadTask, JoinInv, JoinTypeOK
  <2> QED BY <2>1, <2>2, <2>3, <2>4
<1>2. (Held(c) /\ Seen(c))'
  BY DEF QueryDependents, ScanEnds, QueryBlocked, ReadTask, Take, Move, JoinInv, JoinTypeOK, Held, Seen
<1>3. Others(c) /\ UNCHANGED <<status, asked>>
  BY DEF QueryDependents, ScanEnds, QueryBlocked, ReadTask, Take, Move, JoinInv, JoinTypeOK, Others
<1> QED BY <1>1, <1>2, <1>3, QuietKeeps

LEMMA ReadDepsKeeps == ASSUME JoinInv, NEW c \in Clients, ReadDeps(c) PROVE JoinInv'
<1>1. job[c] \in Tasks /\ DependsOn[job[c]] \subseteq Names /\ status[job[c]] # "absent"
  BY DependsOnAssumption DEF ReadDeps, JoinInv, Held, Names
<1>2. \A d \in Names : StateOf(d) \in States
  BY DEF StateOf, States, Names, JoinInv, JoinTypeOK, Done
<1> DEFINE v == [d \in Names |-> IF d \in DependsOn[job[c]] THEN StateOf(d) ELSE "pending"]
<1>3. v \in [Names -> States]
  BY <1>2 DEF States
<1>4. view' = [view EXCEPT ![c] = v] /\ view \in [Clients -> [Names -> States]]
  BY DEF ReadDeps, JoinInv, JoinTypeOK, Names, States
<1>5. view'[c] = v /\ view' \in [Clients -> [Names -> States]]
  BY <1>3, <1>4
<1>6. JoinTypeOK'
  BY <1>5 DEF ReadDeps, Move, JoinInv, JoinTypeOK, Names, States
<1>7. Others(c) /\ UNCHANGED <<status, asked, job>> /\ pc' = [pc EXCEPT ![c] = "act"] /\ current' = current /\ pc[c] = "deps"
  BY <1>4 DEF ReadDeps, Move, JoinInv, JoinTypeOK, Others
<1>8. Held(c)'
  BY <1>7 DEF Held, JoinInv, JoinTypeOK
<1>9. Seen(c)'
  BY <1>1, <1>5, <1>7 DEF Seen, StateOf
<1> QED BY <1>6, <1>7, <1>8, <1>9, QuietKeeps

(* What a client that acts on a current read decides.                      *)
LEMMA ActKeeps == ASSUME JoinInv, NEW c \in Clients, Act(c) PROVE JoinInv'
<1> DEFINE t == job[c]  l == IF ShouldFail(t, view[c]) THEN "failed" ELSE "pending"
<1>1. /\ Others(c) /\ asked' = asked /\ pc'[c] = "scan"
      /\ view' = [view EXCEPT ![c] = [d \in Names |-> "pending"]]
  BY DEF Act, Write, Take, Others, JoinInv, JoinTypeOK, Names
<1>2. (Held(c) /\ Seen(c))'
  BY <1>1 DEF Held, Seen
<1>3. t \in Tasks /\ (c \in current => status[t] = "blocked")
  BY DEF Act, JoinInv, Held
<1>4. view' \in [Clients -> [Names -> States]]
  BY <1>1 DEF JoinInv, JoinTypeOK, Names, States
<1>5. l \in {"failed", "pending"}
  OBVIOUS
<1>6. CASE c \in current /\ Write(t, l)
  <2> HIDE DEF t, l
  <2>1. JoinTypeOK'
    BY <1>3, <1>4, <1>5, <1>6 DEF Act, Write, Take, JoinInv, JoinTypeOK, Names, States, Done
  <2>2. \A d \in DependsOn[t] \cap Tasks : status[d] # "absent"
    BY <1>3, <1>6 DEF JoinInv, Submitted
  <2> QED BY <1>1, <1>2, <1>3, <1>5, <1>6, <2>1, <2>2, WriteKeeps DEF Done
<1>7. CASE status' = status /\ current' = current \ {c}
  <2>1. JoinTypeOK'
    BY <1>4, <1>7 DEF Act, Take, JoinInv, JoinTypeOK, Names, States
  <2> QED BY <1>1, <1>2, <1>7, <2>1, QuietKeeps
<1> QED BY <1>6, <1>7 DEF Act

LEMMA DieKeeps == ASSUME JoinInv, Die PROVE JoinInv'
<1>1. JoinTypeOK'
  BY FaultAssumption DEF Die, JoinInv, JoinTypeOK
<1> QED BY <1>1 DEF Die, JoinInv, Submitted, Held, Seen

LEMMA JoinInvariance == JoinInv /\ [JoinNext]_joinVars => JoinInv'
<1> SUFFICES ASSUME JoinInv, [JoinNext]_joinVars PROVE JoinInv'
  OBVIOUS
<1>1. CASE UNCHANGED joinVars
  <2>1. UNCHANGED <<status, asked, pc, job, todo, view, current, faults>>
    BY <1>1 DEF joinVars
  <2>2. JoinTypeOK' /\ Submitted' /\ LifeGoesOn
    BY <2>1 DEF JoinInv, JoinTypeOK, Submitted, LifeGoesOn
  <2>3. \A c \in Clients : (Held(c) /\ Seen(c))'
    BY <2>1, <2>2, Keeps
  <2> QED BY <2>1, <2>2, <2>3 DEF JoinInv
<1> QED BY <1>1, SubmitKeeps, RequestKeeps, AskedReadKeeps, AskedKeeps, ScanKeeps, DieKeeps, ReadDepsKeeps,
           ActKeeps, EndKeeps DEF JoinNext, Clients

LEMMA Counted == \A S : Atomic!Cardinality(S) = Cardinality(S)
BY DEF Atomic!Cardinality, Cardinality

(* Every step of the scans is one of the join's, or none.                  *)
LEMMA JoinStep ==
    ASSUME JoinInv, [JoinNext]_joinVars
    PROVE  [Atomic!Next]_status
<1>1. ASSUME NEW t \in Tasks, Submit(t) PROVE Atomic!Submit(t)
  BY <1>1 DEF Submit, Write, Atomic!Submit, Atomic!Become
<1>2. ASSUME NEW t \in Tasks, RequestCancel(t) PROVE status' = status
  BY <1>2 DEF RequestCancel, Write, JoinInv, JoinTypeOK
<1>3. ASSUME NEW c \in Clients, NEW t \in Tasks, EndTask(c, t) PROVE Atomic!End(t)
  BY <1>3 DEF EndTask, Write, Done, Atomic!End, Atomic!Become, Atomic!Done, Atomic!Bad
<1>4. ASSUME CancelAsked PROVE status' = status \/ \E t \in Tasks : Atomic!Cancel(t)
  BY <1>4 DEF CancelAsked, Write, JoinInv, Held, Clients, Atomic!Cancel, Atomic!Become
<1>5. ASSUME NEW c \in Clients, Act(c) PROVE status' = status \/ \E t \in Tasks : Atomic!Promote(t) \/ Atomic!Refuse(t)
  <2> SUFFICES ASSUME c \in current, ShouldFail(job[c], view[c]) \/ ShouldPromote(job[c], view[c]),
                      Write(job[c], IF ShouldFail(job[c], view[c]) THEN "failed" ELSE "pending")
               PROVE  \E t \in Tasks : Atomic!Promote(t) \/ Atomic!Refuse(t)
    BY <1>5 DEF Act
  <2> DEFINE t == job[c]  v == view[c]
  <2>1. t \in Tasks /\ status[t] = "blocked" /\ DependsOn[t] \subseteq Names /\ Cardinality(DependsOn[t]) \in Nat /\ MaxDeps \in Nat
    BY <1>5, DependsOnAssumption, LimitAssumption, FS_CardinalityType DEF Act, JoinInv, Held, Names
  <2>2. \A d \in DependsOn[t] : d \in Tasks => status[d] # "absent"
    BY <2>1 DEF JoinInv, Submitted
  <2>3. \A d \in DependsOn[t] : v[d] # "pending" => v[d] = StateOf(d)
    BY <1>5 DEF Act, JoinInv, Seen
  <2>4. \A d \in DependsOn[t] : /\ v[d] = "missing" => Atomic!Of(d) = "missing"
                                /\ v[d] = "failed" => Atomic!Of(d) \in Atomic!Bad
                                /\ v[d] = "completed" => Atomic!Of(d) = "completed"
    BY <2>1, <2>2, <2>3, GhostAssumption DEF StateOf, Atomic!Of, Atomic!Bad, Names
  <2>5. \A d \in DependsOn[t] : v[d] \in States
    BY <2>1 DEF JoinInv, JoinTypeOK, Names, States
  <2> HIDE DEF t, v
  <2>6. CASE ShouldFail(t, v)
    <3>1. Atomic!Refused(t)
      <4>1. CASE TooMany(t)
        BY <4>1, Counted DEF TooMany, Atomic!Refused
      <4>2. CASE t \notin Tolerant /\ \E d \in DependsOn[t] : v[d] \in {"failed", "missing"}
        <5>1. PICK d \in DependsOn[t] : v[d] \in {"failed", "missing"}
          BY <4>2
        <5>2. Atomic!Of(d) \in Atomic!Bad \cup {"missing"}
          BY <2>4, <5>1
        <5> QED BY <4>2, <5>2 DEF Atomic!Refused
      <4> QED BY <2>6, <4>1, <4>2 DEF ShouldFail
    <3>2. Atomic!Become(t, "blocked", "failed")
      BY <2>1, <2>6 DEF Write, Atomic!Become, t, v
    <3> QED BY <2>1, <3>1, <3>2 DEF Atomic!Refuse
  <2>7. CASE ~ShouldFail(t, v)
    <3>1. ShouldPromote(t, v)
      BY <2>7 DEF t, v
    <3>2. Atomic!Ready(t)
      <4>1. Cardinality(DependsOn[t]) <= MaxDeps
        BY <2>1, <3>1 DEF ShouldPromote, TooMany
      <4>2. ASSUME NEW d \in DependsOn[t]
            PROVE  Atomic!Of(d) \in IF t \in Tolerant THEN Atomic!Done \cup {"missing"} ELSE {"completed"}
        BY <2>4, <2>5, <3>1 DEF ShouldPromote, States, Atomic!Done
      <4> QED BY <4>1, <4>2, Counted DEF Atomic!Ready
    <3>3. Atomic!Become(t, "blocked", "pending")
      BY <2>1, <2>7 DEF Write, Atomic!Become, t, v
    <3> QED BY <2>1, <3>2, <3>3 DEF Atomic!Promote
  <2> QED BY <2>6, <2>7
<1>6. ASSUME (\E t \in Tasks : ReadAsked(t)) \/ QueryBlocked \/ Die
             \/ \E c \in Clients : \/ QueryDependents(c) \/ ReadDeps(c) \/ ScanEnds(c)
                                   \/ \E t \in Tasks : ReadTask(c, t)
      PROVE  status' = status
  BY <1>6 DEF ReadAsked, QueryBlocked, Die, QueryDependents, ReadDeps, ScanEnds, ReadTask
<1>7. CASE UNCHANGED joinVars
  BY <1>7 DEF joinVars
<1> QED BY <1>1, <1>2, <1>3, <1>4, <1>5, <1>6, <1>7 DEF JoinNext, Atomic!Next

(* Two scans, a cancellation and whatever ends meanwhile: a task is        *)
(* released or refused as its dependencies stand at that instant.          *)
THEOREM ImplementsJoin == JoinSpec => JoinsAtomically
<1>1. JoinInit => Atomic!Init
  BY DEF JoinInit, Atomic!Init
<1>2. JoinInv /\ [JoinNext]_joinVars => [Atomic!Next]_status
  BY JoinStep
<1> QED BY <1>1, <1>2, JoinStarts, JoinInvariance, PTL DEF JoinSpec, JoinsAtomically, Atomic!Spec
=============================================================================
