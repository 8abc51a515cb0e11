------------------------ MODULE TaskLifecycleProofs ------------------------
(***************************************************************************)
(* Proofs about TaskLifecycle, for any tasks, pipeline phases, manifests,  *)
(* dispatchers, policies, retry cap and number of faults.                  *)
(*                                                                         *)
(* ITyped: every variable has its type, an owner past its claim has a      *)
(* current task, and an actor about to settle a task knows which.  IOnce,  *)
(* ICkpt, IFence and IEarned add to it, each where it is used, what the    *)
(* starts, the checkpoints, the owner's last write and the completions     *)
(* rest on.                                                                *)
(***************************************************************************)
EXTENDS TaskLifecycle, TLAPS

OwnLabels == {"run", "check", "ckpt", "ckptRes", "ckptCas", "deliver", "budget",
              "res", "put", "dres", "cas", "tail"}

Owning == \A w \in Workers : pc[Poll(w)] \in OwnLabels => cur[w] \in Tasks
Working == \A a \in Actors : pc[a] \in Terminalizing \cup {"claim"} => job[a] \in Tasks

ITyped == TypeOK /\ Owning /\ Working

-----------------------------------------------------------------------------
(* Facts about the operators the actions are made of. *)

(* The activities of the dispatchers are actors, and no two of them the    *)
(* same.                                                                   *)
LEMMA ActorFacts ==
    /\ \A w \in Workers :
          Poll(w) \in Actors /\ Reap(w) \in Actors /\ Retry(w) \in Actors /\ Stop(w) \in Actors
    /\ \A v, w \in Workers :
          /\ Poll(v) = Poll(w) => v = w
          /\ Poll(v) # Reap(w) /\ Poll(v) # Retry(w) /\ Poll(v) # Stop(w)
  BY DEF Actors, Threads, Poll, Reap, Retry, Stop

(* Where an activity goes when it is done with its task, or takes one up.  *)
LEMMA LabelFacts ==
    /\ OwnLabels \cup Terminalizing \cup {"claim"} \subseteq Labels
    /\ \A l \in OwnLabels : l \notin Terminalizing \cup {"claim"}
    /\ \A t : Course(t) \in {"reclaim", "fail"}
    /\ \A w : Polled(w) \in {"idle", "over"}
    /\ \A a : Onward(a) \in {"exit", "recover", "idle", "over"}
  BY DEF OwnLabels, Labels, Terminalizing, Course, Polled, Onward

(* What a verdict makes of a task's status and result.                     *)
LEMMA VerdictFacts ==
    /\ \A v : LifeOf(v) \in Terminal /\ MarkOf(v) \in Marks /\ ResultOf(v) \in Results
    /\ \A w, k : k \in Deliveries => Judge(w, k) \in Verdicts
  BY DEF LifeOf, MarkOf, ResultOf, Terminal, Marks, Results, Judge, Deliveries, Verdicts

(* The tag sets the code builds are well-formed.                           *)
LEMMA BuiltEntries ==
    /\ \A w \in Workers, d \in Marks : Leased(w, d) \in Entry
    /\ \A l \in Terminal, d \in Marks : Ended(l, d) \in Entry
  <1>1. ASSUME NEW w \in Workers, NEW d \in Marks PROVE Leased(w, d) \in Entry
    BY DEF Leased, Entry, Lives, Marks
  <1>2. ASSUME NEW l \in Terminal, NEW d \in Marks PROVE Ended(l, d) \in Entry
    BY DEF Ended, Entry, Lives
  <1> QED BY <1>1, <1>2

(* So are those derived from a status that was read.                       *)
LEMMA ReadEntries ==
    ASSUME MuninOK
    PROVE  \A t \in Tasks :
              /\ status[t].deliv \in Marks
              /\ [status[t] EXCEPT !.cancel = TRUE] \in Entry
              /\ [status[t] EXCEPT !.cancel = FALSE] \in Entry
              /\ [status[t] EXCEPT !.live = FALSE] \in Entry
  BY DEF MuninOK, Entry

(* A death leaves every activity of the process idle and without a task.   *)
LEMMA DieFacts ==
    ASSUME ITyped, NEW w \in Workers, Die(w)
    PROVE  ProcessOK' /\ ActivityOK' /\ Owning' /\ Working'
  <1> USE DEF ITyped, TypeOK, Die
  <1>1. ProcessOK' BY DEF ProcessOK
  <1>2. ActivityOK' BY DEF ActivityOK, Labels, Verdicts, Results
  <1>3. Owning' BY ActorFacts DEF Owning, ActivityOK, ProcessOK, OwnLabels, Poll, Threads
  <1>4. Working' BY DEF Working, ActivityOK, Terminalizing
  <1> QED BY <1>1, <1>2, <1>3, <1>4

-----------------------------------------------------------------------------
(* Type correctness, one lemma per part of ITyped. *)

(* Munin holds well-formed statuses, results and retry counts.             *)
LEMMA MuninStep == ASSUME ITyped, [Next]_vars PROVE MuninOK'
<1> USE DEF ITyped, TypeOK, MuninOK
<1>1. ASSUME Operator PROVE MuninOK'
  BY <1>1, ReadEntries, ZenonT(60) DEF Operator, RequestCancel, RequestParentCancel, Put
<1>2. ASSUME NEW t \in Tasks, LeaseLapse(t) PROVE MuninOK'
  BY <1>2, ReadEntries DEF LeaseLapse
<1>3. ASSUME NEW w \in Workers, Claim(w) PROVE MuninOK'
  <2>1. CASE ClaimCas(w) \/ ClaimAckLost(w)
    <3>1. job[Poll(w)] \in Tasks BY <2>1, ActorFacts DEF ClaimCas, ClaimAckLost, Working
    <3>2. Leased(w, status[job[Poll(w)]].deliv) \in Entry BY <3>1, BuiltEntries, ReadEntries
    <3>3. status' \in [Tasks -> Entry] BY <2>1, <3>1, <3>2 DEF ClaimCas, ClaimAckLost, Put
    <3> QED BY <2>1, <3>3 DEF ClaimCas, ClaimAckLost
  <2>2. CASE \E t \in Tasks : ClaimRead(w, t)
    BY <2>2 DEF ClaimRead, munin
  <2> QED BY <1>3, <2>1, <2>2 DEF Claim
<1>4. ASSUME NEW w \in Workers, Renewal(w) PROVE MuninOK'
  <2>1. CASE RenewSend(w)
    BY <2>1 DEF RenewSend, ProcessOK
  <2>2. CASE RenewLand(w)
    <3>1. Leased(w, "none") \in Entry BY BuiltEntries DEF Marks
    <3> QED BY <2>2, <3>1 DEF RenewLand, Put
  <2> QED BY <1>4, <2>1, <2>2 DEF Renewal
<1>5. ASSUME NEW w \in Workers, Watch(w) PROVE MuninOK'
  BY <1>5 DEF Watch, WatchRead, WatchLand, munin
<1>6. ASSUME NEW w \in Workers, Own(w) PROVE MuninOK'
  <2>1. CASE CkptCas(w)
    <3>1. Leased(w, "pending") \in Entry BY BuiltEntries DEF Marks
    <3> QED BY <2>1, <3>1 DEF CkptCas, Put
  <2>2. CASE FinalPut(w) \/ FinalCas(w)
    <3>1. Ended(LifeOf(val[Poll(w)]), "none") \in Entry BY BuiltEntries, VerdictFacts DEF Marks
    <3>2. Ended(LifeOf(val[Poll(w)]), MarkOf(val[Poll(w)])) \in Entry BY BuiltEntries, VerdictFacts
    <3> QED BY <2>2, <3>1, <3>2 DEF FinalPut, FinalCas, Put
  <2>3. CASE CkptResult(w) \/ FinalResult(w)
    BY <2>3, VerdictFacts DEF CkptResult, FinalResult, Results
  <2>4. CASE OwnerDefer(w)
    <3>1. cur[w] \in Tasks BY <2>4 DEF OwnerDefer, Owning, OwnLabels
    <3>2. tries[cur[w]] + 1 \in 0..MaxTries BY <2>4, <3>1, BoundAssumption DEF OwnerDefer, Retryable
    <3> QED BY <2>4, <3>2 DEF OwnerDefer, Results
  <2>5. CASE \/ ExecDone(w) \/ CheckCancel(w) \/ CkptRead(w) \/ CkptLost(w)
             \/ Deliver(w) \/ OwnerExhausted(w) \/ Tail(w)
    BY <2>5 DEF ExecDone, CheckCancel, CkptRead, CkptLost, Deliver, OwnerExhausted, Tail, munin
  <2> QED BY <1>6, <2>1, <2>2, <2>3, <2>4, <2>5 DEF Own
<1>7. ASSUME NEW w \in Workers, Sweep(w) PROVE MuninOK'
  <2>1. ASSUME NEW t \in Tasks, ClearCancel(w, t) PROVE MuninOK'
    BY <2>1, ReadEntries DEF ClearCancel, Put
  <2>2. CASE ParentCancelled(w)
    BY <2>2 DEF ParentCancelled
  <2>3. CASE \/ RetryQuery(w) \/ RecoverQuery(w) \/ RecoverDone(w)
             \/ \E t \in Tasks : CancelRead(w, t) \/ ReapRead(w, t) \/ RetryRead(w, t)
                                 \/ RecoverRead(w, t)
    BY <2>3 DEF RetryQuery, RecoverQuery, RecoverDone, CancelRead, ReapRead, RetryRead,
                RecoverRead, munin
  <2> QED BY <1>7, <2>1, <2>2, <2>3 DEF Sweep
<1>8. ASSUME NEW a \in Actors, Settle(a) PROVE MuninOK'
  <2> DEFINE d == status[job[a]].deliv
  <2>1. pc[a] \in Terminalizing => job[a] \in Tasks /\ d \in Marks
    BY ReadEntries DEF Working
  <2>2. CASE CancelCas(a) \/ FailCas(a)
    <3>1. Ended("cancelled", d) \in Entry /\ Ended("failed", d) \in Entry
      BY <2>1, <2>2, BuiltEntries DEF CancelCas, FailCas, Terminalizing, Terminal
    <3> QED BY <2>2, <3>1 DEF CancelCas, FailCas, Put
  <2>3. CASE Reclaim(a)
    <3>1. Leased(a[1], "pending") \in Entry BY BuiltEntries DEF Marks, Actors
    <3> QED BY <2>3, <3>1 DEF Reclaim, Put
  <2>4. CASE RecCas(a)
    <3>1. Ended(LifeOf(val[a]), MarkOf(val[a])) \in Entry BY BuiltEntries, VerdictFacts
    <3> QED BY <2>4, <3>1 DEF RecCas, Put
  <2>5. CASE CancelResult(a) \/ FailResult(a) \/ RecResult(a)
    BY <2>5 DEF CancelResult, FailResult, RecResult, ActivityOK, Results
  <2>6. CASE RecDefer(a)
    <3>1. job[a] \in Tasks BY <2>1, <2>6 DEF RecDefer, Terminalizing
    <3>2. tries[job[a]] + 1 \in 0..MaxTries BY <2>6, <3>1, BoundAssumption DEF RecDefer, Retryable
    <3> QED BY <2>6, <3>2 DEF RecDefer, ActivityOK
  <2>7. CASE ReadBase(a) \/ Redeliver(a) \/ RecExhausted(a)
    BY <2>7 DEF ReadBase, Redeliver, RecExhausted, munin
  <2> QED BY <1>8, <2>2, <2>3, <2>4, <2>5, <2>6, <2>7 DEF Settle
<1>9. ASSUME NEW w \in Workers, PollThrows(w) \/ Process(w) PROVE MuninOK'
  BY <1>9 DEF PollThrows, Process, Shutdown, StopRead, Exit, Crash, Restart, munin
<1>10. ASSUME NEW a \in Actors, JobThrows(a) PROVE MuninOK'
  BY <1>10 DEF JobThrows, munin
<1>11. CASE UNCHANGED vars
  BY <1>11 DEF vars, munin
<1> QED BY <1>1, <1>2, <1>3, <1>4, <1>5, <1>6, <1>7, <1>8, <1>9, <1>10, <1>11 DEF Next

(* Each process keeps well-typed records of its task and its timers.       *)
LEMMA ProcessStep == ASSUME ITyped, [Next]_vars PROVE ProcessOK'
<1> USE DEF ITyped, TypeOK, ProcessOK
<1>1. ASSUME Operator PROVE ProcessOK'
  BY <1>1 DEF Operator, RequestCancel, RequestParentCancel, process
<1>2. ASSUME NEW t \in Tasks, LeaseLapse(t) PROVE ProcessOK'
  BY <1>2 DEF LeaseLapse, process
<1>3. ASSUME NEW w \in Workers, Claim(w) PROVE ProcessOK'
  BY <1>3, ActorFacts DEF Claim, ClaimCas, ClaimAckLost, ClaimRead, ActivityOK, process
<1>4. ASSUME NEW w \in Workers, Renewal(w) PROVE ProcessOK'
  BY <1>4 DEF Renewal, RenewSend, RenewLand, process
<1>5. ASSUME NEW w \in Workers, Watch(w) PROVE ProcessOK'
  BY <1>5 DEF Watch, WatchRead, WatchLand
<1>6. ASSUME NEW w \in Workers, Own(w) PROVE ProcessOK'
  BY <1>6 DEF Own, ExecDone, CheckCancel, CkptRead, CkptResult, CkptCas, CkptLost, Deliver,
              OwnerDefer, OwnerExhausted, FinalResult, FinalPut, FinalCas, Tail, Release,
              process
<1>7. ASSUME NEW w \in Workers, Sweep(w) PROVE ProcessOK'
  BY <1>7 DEF Sweep, RetryQuery, RecoverQuery, RecoverDone, ParentCancelled, CancelRead,
              ClearCancel, ReapRead, RetryRead, RecoverRead, process
<1>8. ASSUME NEW a \in Actors, Settle(a) \/ JobThrows(a) PROVE ProcessOK'
  BY <1>8 DEF Settle, CancelCas, CancelResult, FailCas, FailResult, Reclaim, ReadBase,
              Redeliver, RecDefer, RecExhausted, RecResult, RecCas, JobThrows, process
<1>9. ASSUME NEW w \in Workers, PollThrows(w) PROVE ProcessOK'
  BY <1>9 DEF PollThrows, Release
<1>10. ASSUME NEW w \in Workers, Process(w) PROVE ProcessOK'
  <2>1. CASE Exit(w) \/ Crash(w)
    BY <2>1, DieFacts DEF Exit, Crash
  <2>2. CASE Shutdown(w) \/ StopRead(w) \/ Restart(w)
    BY <2>2 DEF Shutdown, StopRead, Restart, process
  <2> QED BY <1>10, <2>1, <2>2 DEF Process
<1>11. CASE UNCHANGED vars
  BY <1>11 DEF vars, process
<1> QED BY <1>1, <1>2, <1>3, <1>4, <1>5, <1>6, <1>7, <1>8, <1>9, <1>10, <1>11 DEF Next

(* Every activity is at a known place, with a well-typed task and verdict. *)
LEMMA ActivityStep == ASSUME ITyped, [Next]_vars PROVE ActivityOK'
<1> USE DEF ITyped, TypeOK, ActivityOK
<1>1. ASSUME Operator PROVE ActivityOK'
  BY <1>1 DEF Operator, RequestCancel, RequestParentCancel, Put, activity
<1>2. ASSUME NEW t \in Tasks, LeaseLapse(t) PROVE ActivityOK'
  BY <1>2 DEF LeaseLapse, activity
<1>3. ASSUME NEW w \in Workers, Claim(w) PROVE ActivityOK'
  <2>1. CASE ClaimCas(w)
    <3>1. fresh' \subseteq Actors BY <2>1 DEF ClaimCas, Put
    <3>2. pc' \in [Actors -> Labels] /\ job' \in [Actors -> Tasks \cup {None}]
      BY <2>1, ActorFacts, LabelFacts DEF ClaimCas, Goto, Take, Labels
    <3> QED BY <2>1, <3>1, <3>2 DEF ClaimCas
  <2>2. CASE ClaimAckLost(w) \/ \E t \in Tasks : ClaimRead(w, t)
    BY <2>2, ActorFacts, LabelFacts DEF ClaimAckLost, ClaimRead, Put, Take, Labels, Terminalizing
  <2> QED BY <1>3, <2>1, <2>2 DEF Claim
<1>4. ASSUME NEW w \in Workers, Renewal(w) \/ Watch(w) PROVE ActivityOK'
  BY <1>4 DEF Renewal, RenewSend, RenewLand, Watch, WatchRead, WatchLand, Put, activity
<1>5. ASSUME NEW w \in Workers, Own(w) PROVE ActivityOK'
  <2> USE ActorFacts, LabelFacts, VerdictFacts DEF Goto, Take, Labels, Verdicts
  <2>1. CASE ExecDone(w) \/ CheckCancel(w) \/ Deliver(w) \/ OwnerExhausted(w)
    BY <2>1 DEF ExecDone, CheckCancel, Deliver, OwnerExhausted
  <2>2. CASE CkptRead(w) \/ CkptResult(w) \/ CkptCas(w) \/ FinalResult(w) \/ FinalPut(w)
    BY <2>2 DEF CkptRead, CkptResult, CkptCas, FinalResult, FinalPut, Put
  <2>3. CASE CkptLost(w) \/ OwnerDefer(w) \/ Tail(w)
    BY <2>3 DEF CkptLost, OwnerDefer, Tail, Release
  <2>4. CASE FinalCas(w)
    BY <2>4 DEF FinalCas, Put, Release, process
  <2> QED BY <1>5, <2>1, <2>2, <2>3, <2>4 DEF Own
<1>6. ASSUME NEW w \in Workers, Sweep(w) PROVE ActivityOK'
  <2> USE ActorFacts, LabelFacts DEF Take, Goto, Labels, Terminalizing
  <2>1. ASSUME NEW t \in Tasks, CancelRead(w, t) \/ ClearCancel(w, t) PROVE ActivityOK'
    BY <2>1 DEF CancelRead, ClearCancel, Put
  <2>2. ASSUME NEW t \in Tasks, ReapRead(w, t) PROVE ActivityOK'
    BY <2>2 DEF ReapRead
  <2>3. ASSUME NEW t \in Tasks, RetryRead(w, t) PROVE ActivityOK'
    BY <2>3 DEF RetryRead
  <2>4. ASSUME NEW t \in Tasks, RecoverRead(w, t) PROVE ActivityOK'
    <3>1. Course(t) \in Labels OBVIOUS
    <3> QED BY <2>4, <3>1 DEF RecoverRead
  <2>5. CASE RetryQuery(w) \/ RecoverQuery(w) \/ RecoverDone(w) \/ ParentCancelled(w)
    BY <2>5 DEF RetryQuery, RecoverQuery, RecoverDone, ParentCancelled, activity
  <2> QED BY <1>6, <2>1, <2>2, <2>3, <2>4, <2>5 DEF Sweep
<1>7. ASSUME NEW a \in Actors, Settle(a) PROVE ActivityOK'
  <2> USE LabelFacts, VerdictFacts DEF Goto, Take, Labels, Terminalizing, Verdicts, Proceed,
          Abandon
  <2>1. CASE CancelCas(a) \/ CancelResult(a)
    BY <2>1 DEF CancelCas, CancelResult, Put
  <2>2. CASE FailCas(a)
    BY <2>2 DEF FailCas, Put
  <2>3. CASE FailResult(a) \/ RecExhausted(a) \/ RecResult(a)
    BY <2>3 DEF FailResult, RecExhausted, RecResult
  <2>4. CASE Reclaim(a)
    BY <2>4 DEF Reclaim, Put
  <2>5. CASE ReadBase(a)
    BY <2>5 DEF ReadBase, Working, MuninOK, Results
  <2>6. CASE Redeliver(a)
    BY <2>6 DEF Redeliver
  <2>7. CASE RecDefer(a) \/ RecCas(a)
    BY <2>7 DEF RecDefer, RecCas, Put, Results
  <2> QED BY <1>7, <2>1, <2>2, <2>3, <2>4, <2>5, <2>6, <2>7 DEF Settle
<1>8. ASSUME NEW w \in Workers, PollThrows(w) PROVE ActivityOK'
  BY <1>8, ActorFacts, LabelFacts DEF PollThrows, Release, Take, Labels, Verdicts
<1>9. ASSUME NEW a \in Actors, JobThrows(a) PROVE ActivityOK'
  BY <1>9, LabelFacts DEF JobThrows, Abandon, Take, Labels, Verdicts, Results
<1>10. ASSUME NEW w \in Workers, Process(w) PROVE ActivityOK'
  <2>1. CASE Exit(w) \/ Crash(w)
    BY <2>1, DieFacts DEF Exit, Crash
  <2>2. CASE Shutdown(w) \/ Restart(w)
    BY <2>2, ActorFacts DEF Shutdown, Restart, Goto, Labels
  <2>3. CASE StopRead(w)
    <3>1. CASE Goto(Stop(w), "exit") /\ UNCHANGED <<job, fresh>>
      BY <2>3, <3>1, ActorFacts DEF StopRead, Goto, Labels
    <3>2. CASE cur[w] # None /\ Take(Stop(w), cur[w], "fail") /\ fresh' = fresh \cup {Stop(w)}
      BY <2>3, <3>2, ActorFacts DEF StopRead, Take, ProcessOK, Labels, Terminalizing
    <3> QED BY <2>3, <3>1, <3>2 DEF StopRead
  <2> QED BY <1>10, <2>1, <2>2, <2>3 DEF Process
<1>11. CASE UNCHANGED vars
  BY <1>11 DEF vars, activity
<1> QED BY <1>1, <1>2, <1>3, <1>4, <1>5, <1>6, <1>7, <1>8, <1>9, <1>10, <1>11 DEF Next

(* The policy is one of those considered; history is well-typed.           *)
LEMMA HistoryStep == ASSUME ITyped, [Next]_vars PROVE HistoryOK'
<1> USE DEF ITyped, TypeOK, HistoryOK
<1>1. ASSUME Operator PROVE HistoryOK'
  BY <1>1 DEF Operator, RequestCancel, RequestParentCancel, history
<1>2. ASSUME NEW t \in Tasks, LeaseLapse(t) PROVE HistoryOK'
  BY <1>2 DEF LeaseLapse, history
<1>3. ASSUME NEW w \in Workers, Claim(w) PROVE HistoryOK'
  BY <1>3, BoundAssumption DEF Claim, ClaimCas, ClaimAckLost, ClaimRead, Fault, history
<1>4. ASSUME NEW w \in Workers, Renewal(w) \/ Watch(w) PROVE HistoryOK'
  BY <1>4 DEF Renewal, RenewSend, RenewLand, Watch, WatchRead, WatchLand, history
<1>5. ASSUME NEW w \in Workers, Own(w) PROVE HistoryOK'
  <2>1. CASE Deliver(w)
    BY <2>1 DEF Deliver, Reach, Owning, OwnLabels
  <2>2. CASE Own(w) /\ ~Deliver(w)
    BY <2>2 DEF Own, ExecDone, CheckCancel, CkptRead, CkptResult, CkptCas, CkptLost, OwnerDefer,
                OwnerExhausted, FinalResult, FinalPut, FinalCas, Tail, history
  <2> QED BY <1>5, <2>1, <2>2
<1>6. ASSUME NEW w \in Workers, Sweep(w) PROVE HistoryOK'
  BY <1>6 DEF Sweep, RetryQuery, RecoverQuery, RecoverDone, ParentCancelled, CancelRead,
              ClearCancel, ReapRead, RetryRead, RecoverRead, history
<1>7. ASSUME NEW a \in Actors, Settle(a) PROVE HistoryOK'
  <2>1. CASE Redeliver(a)
    BY <2>1 DEF Redeliver, Reach, Working, Terminalizing
  <2>2. CASE Settle(a) /\ ~Redeliver(a)
    BY <2>2 DEF Settle, CancelCas, CancelResult, FailCas, FailResult, Reclaim, ReadBase,
                RecDefer, RecExhausted, RecResult, RecCas, history
  <2> QED BY <1>7, <2>1, <2>2
<1>8. ASSUME NEW w \in Workers, PollThrows(w) \/ Process(w) PROVE HistoryOK'
  BY <1>8, BoundAssumption DEF PollThrows, Process, Shutdown, StopRead, Exit, Crash, Restart,
                               Fault, history
<1>9. ASSUME NEW a \in Actors, JobThrows(a) PROVE HistoryOK'
  BY <1>9, BoundAssumption DEF JobThrows, Fault
<1>10. CASE UNCHANGED vars
  BY <1>10 DEF vars, history
<1> QED BY <1>1, <1>2, <1>3, <1>4, <1>5, <1>6, <1>7, <1>8, <1>9, <1>10 DEF Next

(* An owner past its claim has a current task: only its finally block and  *)
(* the death of its process clear it, and both end its turn.               *)
LEMMA OwningStep == ASSUME ITyped, [Next]_vars PROVE Owning'
<1> USE ActorFacts, LabelFacts DEF ITyped, TypeOK, Owning
<1>1. ASSUME Operator PROVE Owning'
  BY <1>1 DEF Operator, RequestCancel, RequestParentCancel, process, activity
<1>2. ASSUME NEW t \in Tasks, LeaseLapse(t) PROVE Owning'
  BY <1>2 DEF LeaseLapse, process, activity
<1>3. ASSUME NEW w \in Workers, Claim(w) PROVE Owning'
  BY <1>3 DEF Claim, ClaimCas, ClaimAckLost, ClaimRead, Goto, Take, ActivityOK, ProcessOK,
              Working, OwnLabels, Terminalizing, process
<1>4. ASSUME NEW w \in Workers, Renewal(w) \/ Watch(w) PROVE Owning'
  BY <1>4 DEF Renewal, RenewSend, RenewLand, Watch, WatchRead, WatchLand, process, activity
<1>5. ASSUME NEW w \in Workers, Own(w) PROVE Owning'
  <2> USE DEF ActivityOK, ProcessOK, OwnLabels
  <2>1. CASE \/ ExecDone(w) \/ CheckCancel(w) \/ CkptRead(w) \/ CkptResult(w) \/ CkptCas(w)
             \/ Deliver(w) \/ OwnerExhausted(w) \/ FinalResult(w) \/ FinalPut(w)
    BY <2>1 DEF ExecDone, CheckCancel, CkptRead, CkptResult, CkptCas, Deliver, OwnerExhausted,
                FinalResult, FinalPut, Goto, process
  <2>2. CASE CkptLost(w) \/ OwnerDefer(w) \/ Tail(w)
    BY <2>2, SMTT(30) DEF CkptLost, OwnerDefer, Tail, Release, Take
  <2>3. CASE FinalCas(w)
    BY <2>3, SMTT(30) DEF FinalCas, Release, Goto, Take, process
  <2> QED BY <1>5, <2>1, <2>2, <2>3 DEF Own
<1>6. ASSUME NEW w \in Workers, Sweep(w) PROVE Owning'
  <2> USE DEF ActivityOK, Goto, Take, OwnLabels, process
  <2>1. ASSUME NEW t \in Tasks,
               CancelRead(w, t) \/ ClearCancel(w, t) \/ ReapRead(w, t) \/ RetryRead(w, t)
        PROVE  Owning'
    BY <2>1 DEF CancelRead, ClearCancel, ReapRead, RetryRead, Terminalizing
  <2>2. ASSUME NEW t \in Tasks, RecoverRead(w, t) PROVE Owning'
    BY <2>2 DEF RecoverRead
  <2>3. CASE RetryQuery(w) \/ RecoverQuery(w) \/ RecoverDone(w) \/ ParentCancelled(w)
    BY <2>3 DEF RetryQuery, RecoverQuery, RecoverDone, ParentCancelled, activity
  <2> QED BY <1>6, <2>1, <2>2, <2>3 DEF Sweep
<1>7. ASSUME NEW a \in Actors, Settle(a) PROVE Owning'
  BY <1>7 DEF Settle, CancelCas, CancelResult, FailCas, FailResult, Reclaim, ReadBase,
              Redeliver, RecDefer, RecExhausted, RecResult, RecCas, Proceed, Abandon, Goto,
              Take, ActivityOK, OwnLabels, process
<1>8. ASSUME NEW w \in Workers, PollThrows(w) PROVE Owning'
  BY <1>8 DEF PollThrows, Release, Take, ActivityOK, ProcessOK, OwnLabels
<1>9. ASSUME NEW a \in Actors, JobThrows(a) PROVE Owning'
  BY <1>9 DEF JobThrows, Abandon, Take, ActivityOK, OwnLabels, process
<1>10. ASSUME NEW w \in Workers, Process(w) PROVE Owning'
  <2>1. CASE Exit(w) \/ Crash(w)
    BY <2>1, DieFacts DEF Exit, Crash
  <2>2. CASE Shutdown(w) \/ StopRead(w) \/ Restart(w)
    BY <2>2 DEF Shutdown, StopRead, Restart, Goto, Take, ActivityOK, OwnLabels, process
  <2> QED BY <1>10, <2>1, <2>2 DEF Process
<1>11. CASE UNCHANGED vars
  BY <1>11 DEF vars, process, activity
<1> QED BY <1>1, <1>2, <1>3, <1>4, <1>5, <1>6, <1>7, <1>8, <1>9, <1>10, <1>11 DEF Next

(* An actor about to claim, cancel, fail or reconcile a task knows which.  *)
LEMMA WorkingStep == ASSUME ITyped, [Next]_vars PROVE Working'
<1> USE ActorFacts, LabelFacts DEF ITyped, TypeOK, Working, ActivityOK, Goto, Take
<1>1. ASSUME Operator PROVE Working'
  BY <1>1 DEF Operator, RequestCancel, RequestParentCancel, activity
<1>2. ASSUME NEW t \in Tasks, LeaseLapse(t) PROVE Working'
  BY <1>2 DEF LeaseLapse, activity
<1>3. ASSUME NEW w \in Workers, Claim(w) PROVE Working'
  BY <1>3 DEF Claim, ClaimCas, ClaimAckLost, ClaimRead, Terminalizing
<1>4. ASSUME NEW w \in Workers, Renewal(w) \/ Watch(w) PROVE Working'
  BY <1>4 DEF Renewal, RenewSend, RenewLand, Watch, WatchRead, WatchLand, activity
<1>5. ASSUME NEW w \in Workers, Own(w) PROVE Working'
  BY <1>5 DEF Own, ExecDone, CheckCancel, CkptRead, CkptResult, CkptCas, CkptLost, Deliver,
              OwnerDefer, OwnerExhausted, FinalResult, FinalPut, FinalCas, Tail, Release,
              Terminalizing
<1>6. ASSUME NEW w \in Workers, Sweep(w) PROVE Working'
  <2> USE DEF Terminalizing
  <2>1. ASSUME NEW t \in Tasks, CancelRead(w, t) \/ ClearCancel(w, t) PROVE Working'
    BY <2>1 DEF CancelRead, ClearCancel
  <2>2. ASSUME NEW t \in Tasks, ReapRead(w, t) PROVE Working'
    BY <2>2 DEF ReapRead
  <2>3. ASSUME NEW t \in Tasks, RetryRead(w, t) PROVE Working'
    BY <2>3 DEF RetryRead
  <2>4. ASSUME NEW t \in Tasks, RecoverRead(w, t) PROVE Working'
    BY <2>4 DEF RecoverRead
  <2>5. CASE RetryQuery(w) \/ RecoverQuery(w) \/ RecoverDone(w) \/ ParentCancelled(w)
    BY <2>5 DEF RetryQuery, RecoverQuery, RecoverDone, ParentCancelled, activity
  <2> QED BY <1>6, <2>1, <2>2, <2>3, <2>4, <2>5 DEF Sweep
<1>7. ASSUME NEW a \in Actors, Settle(a) PROVE Working'
  BY <1>7 DEF Settle, CancelCas, CancelResult, FailCas, FailResult, Reclaim, ReadBase,
              Redeliver, RecDefer, RecExhausted, RecResult, RecCas, Proceed, Abandon,
              Terminalizing
<1>8. ASSUME NEW w \in Workers, PollThrows(w) PROVE Working'
  BY <1>8 DEF PollThrows, Release, Terminalizing
<1>9. ASSUME NEW a \in Actors, JobThrows(a) PROVE Working'
  BY <1>9 DEF JobThrows, Abandon, Terminalizing
<1>10. ASSUME NEW w \in Workers, Process(w) PROVE Working'
  <2>1. CASE Exit(w) \/ Crash(w)
    BY <2>1, DieFacts DEF Exit, Crash
  <2>2. CASE Shutdown(w) \/ Restart(w)
    BY <2>2 DEF Shutdown, Restart, Terminalizing
  <2>3. CASE StopRead(w)
    <3>1. CASE Goto(Stop(w), "exit") /\ UNCHANGED <<job, fresh>>
      BY <2>3, <3>1 DEF StopRead, Terminalizing
    <3>2. CASE cur[w] # None /\ Take(Stop(w), cur[w], "fail")
      BY <2>3, <3>2 DEF StopRead, ProcessOK
    <3> QED BY <2>3, <3>1, <3>2 DEF StopRead
  <2> QED BY <1>10, <2>1, <2>2, <2>3 DEF Process
<1>11. CASE UNCHANGED vars
  BY <1>11 DEF vars, activity
<1> QED BY <1>1, <1>2, <1>3, <1>4, <1>5, <1>6, <1>7, <1>8, <1>9, <1>10, <1>11 DEF Next

(* Everything starts well-typed: processes down, tasks pending.            *)
LEMMA TypedInit == Init => ITyped
<1> SUFFICES ASSUME Init PROVE ITyped
  OBVIOUS
<1> USE BoundAssumption DEF Init
<1>1. MuninOK BY DEF MuninOK, Entry, Lives, Marks, Results
<1>2. ProcessOK BY DEF ProcessOK
<1>3. ActivityOK BY DEF ActivityOK, Labels, Verdicts, Results
<1>4. HistoryOK BY DEF HistoryOK
<1>5. Owning /\ Working BY ActorFacts DEF Owning, Working, OwnLabels, Terminalizing
<1> QED BY <1>1, <1>2, <1>3, <1>4, <1>5 DEF ITyped, TypeOK

(* Whatever processes and the operator do, every variable keeps its type,  *)
(* an owner its task and a settling actor its job.                         *)
THEOREM Typed == Spec => []ITyped
<1>1. ITyped /\ [Next]_vars => ITyped'
  BY MuninStep, ProcessStep, ActivityStep, HistoryStep, OwningStep, WorkingStep
  DEF ITyped, TypeOK
<1> QED BY TypedInit, <1>1, PTL DEF Spec

(* No run of the dispatchers leaves the types: in particular the retry     *)
(* count of a deferred delivery stays within its cap.                      *)
THEOREM TypeCorrect == Spec => []TypeOK
<1>1. ITyped => TypeOK BY DEF ITyped
<1> QED BY Typed, <1>1, PTL

-----------------------------------------------------------------------------
(* At most one start.  No write makes a task pending again, so a task that *)
(* is pending has not been started; and a claim that will be applied is of *)
(* a pending task, because whatever moves the status makes the claim's     *)
(* read stale.                                                             *)

Unstarted == \A t \in Tasks : status[t].life = "pending" => runs[t] = 0
Candidate == \A w \in Workers :
    pc[Poll(w)] = "claim" /\ Poll(w) \in fresh => status[job[Poll(w)]].life = "pending"

IOnce == ITyped /\ Unstarted /\ Candidate /\ RunOnce

(* What a step can do to the tasks: nothing, end the wait of one without   *)
(* starting it (or move one that waits no more), or start one that waits.  *)
Same(u) == status'[u].life = status[u].life
Kept == runs' = runs /\ \A u \in Tasks : Same(u)
Moved(t) == /\ runs' = runs /\ status'[t].life # "pending"
            /\ \A u \in Tasks \ {t} : Same(u)
Begun(t) == /\ status[t].life = "pending" /\ status'[t].life # "pending"
            /\ runs' = [runs EXCEPT ![t] = @ + 1]
            /\ \A u \in Tasks \ {t} : Same(u)
Quiet == Kept \/ \E t \in Tasks : Moved(t)

(* The tag sets the code builds are of running or of terminal tasks.       *)
LEMMA BuiltLives ==
    /\ \A w, d : Leased(w, d).life = "running"
    /\ \A l, d : Ended(l, d).life = l
    /\ \A v : LifeOf(v) # "pending"
  BY DEF Leased, Ended, LifeOf

(* A write of a tag set that is not pending, or that keeps the lifecycle,  *)
(* moves at most the task it names.                                        *)
LEMMA PutQuiet ==
    ASSUME MuninOK, UNCHANGED runs, NEW t \in Tasks, NEW s, NEW keep, Put(t, s, keep),
           s.life # "pending" \/ s.life = status[t].life
    PROVE  Quiet
<1>1. status'[t] = s /\ \A u \in Tasks \ {t} : status'[u] = status[u]
  BY DEF Put, MuninOK
<1> QED BY <1>1 DEF Quiet, Kept, Moved, Same

(* Only a claim starts a task, and only one that waits.                    *)
LEMMA StepKind ==
    ASSUME ITyped, Candidate, [Next]_vars
    PROVE  Quiet \/ \E t \in Tasks : Begun(t)
<1> USE DEF ITyped, TypeOK
<1> DEFINE Goal == Quiet \/ \E t \in Tasks : Begun(t)
<1>0. UNCHANGED <<status, runs>> => Goal
  BY DEF Quiet, Kept, Same
<1> HIDE DEF Goal
<1>1. ASSUME Operator PROVE Goal
  <2>1. ASSUME NEW t \in Tasks, RequestCancel(t) PROVE Goal
    <3>1. [status[t] EXCEPT !.cancel = TRUE].life = status[t].life BY DEF MuninOK, Entry
    <3>2. Put(t, [status[t] EXCEPT !.cancel = TRUE], {}) /\ UNCHANGED runs
      BY <2>1 DEF RequestCancel
    <3> QED BY <3>1, <3>2, PutQuiet DEF Goal
  <2> QED BY <1>0, <1>1, <2>1 DEF Operator, RequestParentCancel, history
<1>2. ASSUME NEW t \in Tasks, LeaseLapse(t) PROVE Goal
  BY <1>2 DEF LeaseLapse, MuninOK, Entry, Goal, Quiet, Kept, Same, history
<1>3. ASSUME NEW w \in Workers, Claim(w) PROVE Goal
  <2> DEFINE t == job[Poll(w)]
  <2>1. CASE ClaimCas(w) /\ Poll(w) \in fresh
    <3>1. t \in Tasks /\ status[t].life = "pending"
      BY <2>1, ActorFacts DEF ClaimCas, Working, Candidate
    <3>2. status' = [status EXCEPT ![t] = Leased(w, status[t].deliv)]
      BY <2>1 DEF ClaimCas, Put
    <3>3. runs' = [runs EXCEPT ![t] = @ + 1]
      BY <2>1 DEF ClaimCas
    <3>4. Begun(t)
      BY <3>1, <3>2, <3>3, BuiltLives DEF Begun, Same, MuninOK
    <3> QED BY <3>1, <3>4 DEF Goal
  <2>2. CASE ClaimCas(w) /\ Poll(w) \notin fresh
    BY <1>0, <2>2 DEF ClaimCas
  <2>3. CASE ClaimAckLost(w)
    <3>1. t \in Tasks BY <2>3, ActorFacts DEF ClaimAckLost, Working
    <3>2. Put(t, Leased(w, status[t].deliv), {}) /\ UNCHANGED runs BY <2>3 DEF ClaimAckLost
    <3> QED BY <3>1, <3>2, PutQuiet, BuiltLives DEF Goal
  <2>4. CASE \E u \in Tasks : ClaimRead(w, u)
    BY <1>0, <2>4 DEF ClaimRead, munin, history
  <2> QED BY <1>3, <2>1, <2>2, <2>3, <2>4 DEF Claim
<1>4. ASSUME NEW w \in Workers, Renewal(w) \/ Watch(w) PROVE Goal
  <2>1. CASE RenewLand(w)
    <3>1. flight[w] \in Tasks BY <2>1 DEF RenewLand, MuninOK
    <3>2. Put(flight[w], Leased(w, "none"), {}) /\ UNCHANGED runs BY <2>1 DEF RenewLand, history
    <3> QED BY <3>1, <3>2, PutQuiet, BuiltLives DEF Goal
  <2> QED BY <1>0, <1>4, <2>1
          DEF Renewal, RenewSend, Watch, WatchRead, WatchLand, munin, history
<1>5. ASSUME NEW w \in Workers, Own(w) PROVE Goal
  <2>1. CASE CkptCas(w) \/ FinalPut(w) \/ (FinalCas(w) /\ Poll(w) \in fresh)
    <3>1. cur[w] \in Tasks BY <2>1 DEF CkptCas, FinalPut, FinalCas, Owning, OwnLabels
    <3>2. UNCHANGED runs BY <2>1 DEF CkptCas, FinalPut, FinalCas, history
    <3>3. CASE CkptCas(w)
      BY <3>1, <3>2, <3>3, PutQuiet, BuiltLives DEF CkptCas, Goal
    <3>4. CASE FinalPut(w)
      BY <3>1, <3>2, <3>4, PutQuiet, BuiltLives DEF FinalPut, Goal
    <3>5. CASE FinalCas(w) /\ Poll(w) \in fresh
      BY <3>1, <3>2, <3>5, PutQuiet, BuiltLives DEF FinalCas, Goal
    <3> QED BY <2>1, <3>3, <3>4, <3>5
  <2>2. CASE FinalCas(w) /\ Poll(w) \notin fresh
    BY <1>0, <2>2 DEF FinalCas, history
  <2>3. CASE \/ ExecDone(w) \/ CheckCancel(w) \/ CkptRead(w) \/ CkptResult(w) \/ CkptLost(w)
             \/ Deliver(w) \/ OwnerDefer(w) \/ OwnerExhausted(w) \/ FinalResult(w) \/ Tail(w)
    BY <1>0, <2>3 DEF ExecDone, CheckCancel, CkptRead, CkptResult, CkptLost, Deliver, OwnerDefer,
                      OwnerExhausted, FinalResult, Tail, munin, history
  <2> QED BY <1>5, <2>1, <2>2, <2>3 DEF Own
<1>6. ASSUME NEW w \in Workers, Sweep(w) PROVE Goal
  <2>1. ASSUME NEW t \in Tasks, ClearCancel(w, t) PROVE Goal
    <3>1. [status[t] EXCEPT !.cancel = FALSE].life = status[t].life BY DEF MuninOK, Entry
    <3>2. Put(t, [status[t] EXCEPT !.cancel = FALSE], {}) /\ UNCHANGED runs
      BY <2>1 DEF ClearCancel, history
    <3> QED BY <3>1, <3>2, PutQuiet DEF Goal
  <2> QED BY <1>0, <1>6, <2>1
          DEF Sweep, RetryQuery, RecoverQuery, RecoverDone, ParentCancelled, CancelRead, ReapRead,
              RetryRead, RecoverRead, munin, history
<1>7. ASSUME NEW a \in Actors, Settle(a) PROVE Goal
  <2> DEFINE t == job[a]
  <2>1. CASE CancelCas(a) \/ FailCas(a) \/ Reclaim(a) \/ RecCas(a)
    <3>1. t \in Tasks BY <2>1 DEF CancelCas, FailCas, Reclaim, RecCas, Working, Terminalizing
    <3>2. UNCHANGED runs BY <2>1 DEF CancelCas, FailCas, Reclaim, RecCas, history
    <3>3. \/ UNCHANGED status
          \/ Put(t, Ended("cancelled", status[t].deliv), {})
          \/ Put(t, Ended("failed", status[t].deliv), {})
          \/ Put(t, Leased(a[1], "pending"), {a})
          \/ Put(t, Ended(LifeOf(val[a]), MarkOf(val[a])), {})
      BY <2>1 DEF CancelCas, FailCas, Reclaim, RecCas
    <3>4. /\ Ended("cancelled", status[t].deliv).life # "pending"
          /\ Ended("failed", status[t].deliv).life # "pending"
          /\ Leased(a[1], "pending").life # "pending"
          /\ Ended(LifeOf(val[a]), MarkOf(val[a])).life # "pending"
      BY BuiltLives
    <3> QED BY <1>0, <3>1, <3>2, <3>3, <3>4, PutQuiet DEF Goal
  <2>2. CASE \/ CancelResult(a) \/ FailResult(a) \/ ReadBase(a) \/ Redeliver(a) \/ RecDefer(a)
             \/ RecExhausted(a) \/ RecResult(a)
    BY <1>0, <2>2 DEF CancelResult, FailResult, ReadBase, Redeliver, RecDefer, RecExhausted,
                      RecResult, munin, history
  <2> QED BY <1>7, <2>1, <2>2 DEF Settle
<1>8. ASSUME NEW w \in Workers, PollThrows(w) \/ Process(w) PROVE Goal
  BY <1>0, <1>8 DEF PollThrows, Process, Shutdown, StopRead, Exit, Crash, Restart, munin, history
<1>9. ASSUME NEW a \in Actors, JobThrows(a) PROVE Goal
  BY <1>0, <1>9 DEF JobThrows, munin
<1>10. ASSUME UNCHANGED vars PROVE Goal
  BY <1>0, <1>10 DEF vars, munin, history
<1>11. Goal
  BY <1>1, <1>2, <1>3, <1>4, <1>5, <1>6, <1>7, <1>8, <1>9, <1>10 DEF Next
<1> QED BY <1>11 DEF Goal

(* A write of a status keeps Candidate: it takes its author's rivals out   *)
(* of "fresh".                                                             *)
LEMMA PutCandidate ==
    ASSUME ITyped, Candidate, NEW t, NEW s, NEW keep, Put(t, s, keep),
           \A w \in Workers :
              pc'[Poll(w)] = "claim" =>
                 pc[Poll(w)] = "claim" /\ job'[Poll(w)] = job[Poll(w)] /\ Poll(w) \notin keep
    PROVE  Candidate'
  BY ActorFacts DEF Candidate, Put, ITyped, TypeOK, MuninOK, Working

(* So does a step that writes no lifecycle and takes up no claim.          *)
LEMMA HoldCandidate ==
    ASSUME ITyped, Candidate,
           \A u \in Tasks : Same(u),
           \A w \in Workers :
              pc'[Poll(w)] = "claim" /\ Poll(w) \in fresh' =>
                 pc[Poll(w)] = "claim" /\ Poll(w) \in fresh /\ job'[Poll(w)] = job[Poll(w)]
    PROVE  Candidate'
  BY ActorFacts DEF Candidate, Same, ITyped, Working

(* A claim whose read is current is of a pending task, in every step.      *)
LEMMA CandidateStep == ASSUME ITyped, Candidate, [Next]_vars PROVE Candidate'
<1> USE ActorFacts, LabelFacts DEF ITyped, TypeOK, ActivityOK
<1>0. UNCHANGED <<status, pc, job, fresh>> => Candidate'
  BY DEF Candidate
<1>1. ASSUME Operator PROVE Candidate'
  <2>1. ASSUME NEW t \in Tasks, RequestCancel(t) PROVE Candidate'
    BY <2>1, PutCandidate DEF RequestCancel
  <2> QED BY <1>0, <1>1, <2>1 DEF Operator, RequestParentCancel, activity
<1>2. ASSUME NEW t \in Tasks, LeaseLapse(t) PROVE Candidate'
  BY <1>2, HoldCandidate DEF LeaseLapse, MuninOK, Entry, Same, activity
<1>3. ASSUME NEW w \in Workers, Claim(w) PROVE Candidate'
  <2>1. CASE ClaimCas(w) \/ ClaimAckLost(w)
    BY <2>1, PutCandidate, HoldCandidate DEF ClaimCas, ClaimAckLost, Goto, Take, Same
  <2>2. ASSUME NEW t \in Tasks, ClaimRead(w, t) PROVE Candidate'
    BY <2>2 DEF ClaimRead, Take, Candidate, munin
  <2> QED BY <1>3, <2>1, <2>2 DEF Claim
<1>4. ASSUME NEW w \in Workers, Renewal(w) \/ Watch(w) PROVE Candidate'
  <2>1. CASE RenewLand(w)
    BY <2>1, PutCandidate DEF RenewLand
  <2> QED BY <1>0, <1>4, <2>1 DEF Renewal, RenewSend, Watch, WatchRead, WatchLand, munin, activity
<1>5. ASSUME NEW w \in Workers, Own(w) PROVE Candidate'
  <2>1. CASE CkptCas(w) \/ FinalPut(w) \/ FinalCas(w)
    BY <2>1, PutCandidate, HoldCandidate DEF CkptCas, FinalPut, FinalCas, Release, Goto, Take, Same
  <2>2. CASE \/ ExecDone(w) \/ CheckCancel(w) \/ CkptRead(w) \/ CkptResult(w) \/ Deliver(w)
             \/ OwnerExhausted(w) \/ FinalResult(w)
    BY <2>2, HoldCandidate DEF ExecDone, CheckCancel, CkptRead, CkptResult, Deliver,
       OwnerExhausted, FinalResult, Goto, Same, munin
  <2>3. CASE CkptLost(w) \/ OwnerDefer(w) \/ Tail(w)
    BY <2>3, HoldCandidate DEF CkptLost, OwnerDefer, Tail, Release, Take, Same, munin
  <2> QED BY <1>5, <2>1, <2>2, <2>3 DEF Own
<1>6. ASSUME NEW w \in Workers, Sweep(w) PROVE Candidate'
  <2>1. ASSUME NEW t \in Tasks, ClearCancel(w, t) PROVE Candidate'
    BY <2>1, PutCandidate DEF ClearCancel
  <2>2. ASSUME NEW t \in Tasks, CancelRead(w, t) \/ ReapRead(w, t) PROVE Candidate'
    BY <2>2, HoldCandidate DEF CancelRead, ReapRead, Take, Same, munin
  <2>3. ASSUME NEW t \in Tasks, RetryRead(w, t) PROVE Candidate'
    BY <2>3, HoldCandidate DEF RetryRead, Take, Same, munin
  <2>4. ASSUME NEW t \in Tasks, RecoverRead(w, t) PROVE Candidate'
    BY <2>4, HoldCandidate DEF RecoverRead, Take, Same, munin
  <2>5. CASE RetryQuery(w) \/ RecoverQuery(w) \/ RecoverDone(w) \/ ParentCancelled(w)
    BY <2>5, HoldCandidate DEF RetryQuery, RecoverQuery, RecoverDone, ParentCancelled, Goto, Same,
       munin, activity
  <2> QED BY <1>6, <2>1, <2>2, <2>3, <2>4, <2>5 DEF Sweep
<1>7. ASSUME NEW a \in Actors, Settle(a) PROVE Candidate'
  <2>1. CASE CancelCas(a) \/ FailCas(a) \/ Reclaim(a) \/ RecCas(a)
    BY <2>1, PutCandidate, HoldCandidate DEF CancelCas, FailCas, Reclaim, RecCas, Proceed, Abandon,
       Goto, Take, Same
  <2>2. CASE \/ CancelResult(a) \/ FailResult(a) \/ ReadBase(a) \/ Redeliver(a) \/ RecDefer(a)
             \/ RecExhausted(a) \/ RecResult(a)
    BY <2>2, HoldCandidate DEF CancelResult, FailResult, ReadBase, Redeliver, RecDefer,
       RecExhausted, RecResult, Proceed, Goto, Take, Same, munin
  <2> QED BY <1>7, <2>1, <2>2 DEF Settle
<1>8. ASSUME NEW w \in Workers, PollThrows(w) PROVE Candidate'
  BY <1>8, HoldCandidate DEF PollThrows, Release, Take, Same, munin
<1>9. ASSUME NEW a \in Actors, JobThrows(a) PROVE Candidate'
  BY <1>9, HoldCandidate DEF JobThrows, Abandon, Take, Same, munin
<1>10. ASSUME NEW w \in Workers, Process(w) PROVE Candidate'
  <2>1. CASE Exit(w) \/ Crash(w)
    BY <2>1, HoldCandidate DEF Exit, Crash, Die, Same, munin
  <2>2. CASE Shutdown(w) \/ Restart(w)
    BY <2>2, HoldCandidate DEF Shutdown, Restart, Goto, Same, munin
  <2>3. CASE StopRead(w)
    BY <2>3, HoldCandidate DEF StopRead, Goto, Take, Same, munin
  <2> QED BY <1>10, <2>1, <2>2, <2>3 DEF Process
<1>11. CASE UNCHANGED vars
  BY <1>0, <1>11 DEF vars, munin, activity
<1> QED BY <1>1, <1>2, <1>3, <1>4, <1>5, <1>6, <1>7, <1>8, <1>9, <1>10, <1>11 DEF Next

(* Unstarted, Candidate and RunOnce are inductive together.                *)
LEMMA OnceStep == IOnce /\ [Next]_vars => IOnce'
<1> SUFFICES ASSUME IOnce, [Next]_vars PROVE IOnce'
  OBVIOUS
<1> USE DEF IOnce
<1>1. ITyped'
  BY MuninStep, ProcessStep, ActivityStep, HistoryStep, OwningStep, WorkingStep
  DEF ITyped, TypeOK
<1>2. Candidate'
  BY CandidateStep
<1>3. Unstarted' /\ RunOnce'
  <2> USE DEF Unstarted, RunOnce, Same, ITyped, TypeOK, HistoryOK
  <2>1. CASE Quiet
    BY <2>1 DEF Quiet, Kept, Moved
  <2>2. ASSUME NEW t \in Tasks, Begun(t) PROVE Unstarted' /\ RunOnce'
    BY <2>2 DEF Begun
  <2> QED BY <2>1, <2>2, StepKind
<1> QED BY <1>1, <1>2, <1>3

(* A start is a start, and needs that no earlier one happened: IOnce holds *)
(* in every run of the dispatchers.                                        *)
LEMMA OnceHolds == Spec => []IOnce
<1>1. Init => IOnce
  <2> SUFFICES ASSUME Init PROVE IOnce
    OBVIOUS
  <2> QED BY TypedInit DEF IOnce, Init, Unstarted, Candidate, RunOnce
<1> QED BY <1>1, OnceStep, PTL DEF Spec

(* No task's agent is started twice, however many dispatchers poll the     *)
(* queue, crash, lose answers or renew late.                               *)
THEOREM AtMostOneRun == Spec => []RunOnce
<1>1. IOnce => RunOnce BY DEF IOnce
<1> QED BY OnceHolds, <1>1, PTL

(* The dispatchers implement TaskOnce: a task goes from waiting to started *)
(* or given up in one step, and never further.                             *)
THEOREM ImplementsOnce == Spec => TakenOnce
<1> DEFINE Ticket(t) ==
      CASE status[t].life = "pending" /\ runs[t] = 0 -> "queued"
        [] status[t].life # "pending" /\ runs[t] = 0 -> "void"
        [] status[t].life # "pending" /\ runs[t] = 1 -> "taken"
        [] OTHER -> "overdrawn"
<1> DEFINE ticket == [t \in Tasks |-> Ticket(t)]
<1>1. Init => Once!Init
  BY DEF Init, Once!Init
<1>2. IOnce /\ [Next]_vars => [Once!Next]_ticket
  <2> SUFFICES ASSUME IOnce, [Next]_vars
               PROVE  Once!Next \/ UNCHANGED ticket
    OBVIOUS
  <2> USE DEF IOnce, ITyped, TypeOK, HistoryOK, Unstarted, RunOnce, Same
  <2>1. CASE Kept
    BY <2>1 DEF Kept
  <2>2. ASSUME NEW t \in Tasks, Moved(t), status[t].life # "pending"
        PROVE  UNCHANGED ticket
    BY <2>2 DEF Moved
  <2>3. ASSUME NEW t \in Tasks, Moved(t), status[t].life = "pending"
        PROVE  Once!GiveUp(t)
    <3>1. \A u \in Tasks \ {t} : Ticket(u)' = Ticket(u) BY <2>3 DEF Moved
    <3>2. Ticket(t) = "queued" /\ Ticket(t)' = "void" BY <2>3 DEF Moved
    <3>3. ticket' = [ticket EXCEPT ![t] = "void"]
      <4> HIDE DEF Ticket
      <4> QED BY <3>1, <3>2
    <3>4. ticket[t] = "queued" BY <3>2
    <3> QED BY <3>3, <3>4 DEF Once!GiveUp
  <2>4. ASSUME NEW t \in Tasks, Begun(t) PROVE Once!Start(t)
    <3>1. \A u \in Tasks \ {t} : Ticket(u)' = Ticket(u) BY <2>4 DEF Begun
    <3>2. Ticket(t) = "queued" /\ Ticket(t)' = "taken" BY <2>4 DEF Begun
    <3>3. ticket' = [ticket EXCEPT ![t] = "taken"]
      <4> HIDE DEF Ticket
      <4> QED BY <3>1, <3>2
    <3>4. ticket[t] = "queued" BY <3>2
    <3> QED BY <3>3, <3>4 DEF Once!Start
  <2> QED BY <2>1, <2>2, <2>3, <2>4, StepKind DEF Quiet, Once!Next
<1> QED BY <1>1, <1>2, OnceHolds, PTL DEF Spec, TakenOnce, Once!Spec


-----------------------------------------------------------------------------
(* CheckpointSafe.  A failure path that may still write has read a status  *)
(* without a checkpoint; the reapers of a process reconcile only tasks     *)
(* that are claimed and not its current one, one of them under defer and   *)
(* the other under any other policy, and startup recovery runs before them.*)

Reconciling == {"reclaim", "base", "redeliver", "recBudget", "recRes", "recCas"}

Untouched == \A t \in Tasks : status[t].life = "pending" => status[t].deliv # "pending"
Undecided == \A a \in Actors : pc[a] = "fail" /\ a \in fresh => status[job[a]].deliv # "pending"

Places(w) ==
    /\ pc[Reap(w)] \in {"idle", "fail", "failRes"} \cup Reconciling
    /\ pc[Retry(w)] \in {"idle"} \cup Reconciling
    /\ pc[Stop(w)] \in {"idle", "stop", "fail", "failRes", "exit"}
Booting(w) ==
    /\ pc[Poll(w)] \in {"boot", "recover"} \cup Reconciling => proc[w] = "booting"
    /\ proc[w] \in {"down", "booting"} =>
          pc[Reap(w)] = "idle" /\ pc[Retry(w)] = "idle" /\ todo[Retry(w)] = {}
ByPolicy(w) ==
    /\ pc[Reap(w)] \in Reconciling => policy[w] # "defer"
    /\ pc[Retry(w)] # "idle" \/ todo[Retry(w)] # {} => policy[w] = "defer"
Shape(w) == Places(w) /\ Booting(w) /\ ByPolicy(w)

Apart(w) ==
    /\ pc[Poll(w)] \in OwnLabels => job[Poll(w)] = cur[w]
    /\ \A a \in {Reap(w), Retry(w)} :
          pc[a] # "idle" => job[a] # cur[w] /\ job[a] \in Tasks /\ status[job[a]].life # "pending"

Checkpoints == Untouched /\ CheckpointNotDiscarded /\ Undecided
ICkpt == /\ ITyped /\ Candidate /\ Checkpoints
         /\ \A w \in Workers : Shape(w) /\ Apart(w)

(* A write keeps Checkpoints when its tag set is neither pending nor failed *)
(* with a checkpoint: whoever was about to fail the task has to give up.   *)
LEMMA PutCheckpoints ==
    ASSUME ITyped, Checkpoints, NEW t, NEW s, NEW keep, Put(t, s, keep),
           s.life \in {"pending", "failed"} => s.deliv # "pending",
           \A a \in Actors : pc'[a] = "fail" =>
              pc[a] = "fail" /\ job'[a] = job[a] /\ a \notin keep
    PROVE  Checkpoints'
<1> USE DEF ITyped, TypeOK, MuninOK
<1>1. status' = [status EXCEPT ![t] = s] /\ fresh' = {a \in fresh : job[a] # t} \cup keep
  BY DEF Put
<1>2. Untouched' /\ CheckpointNotDiscarded'
  BY <1>1 DEF Checkpoints, Untouched, CheckpointNotDiscarded
<1>3. ASSUME NEW a \in Actors, pc'[a] = "fail", a \in fresh'
      PROVE  status'[job'[a]].deliv # "pending"
  <2>1. pc[a] = "fail" /\ job'[a] = job[a] /\ a \in fresh /\ job[a] # t
    BY <1>1, <1>3
  <2>2. job[a] \in Tasks BY <2>1 DEF Working, Terminalizing
  <2>3. status'[job[a]] = status[job[a]] BY <1>1, <2>1, <2>2
  <2> QED BY <2>1, <2>3 DEF Checkpoints, Undecided
<1> QED BY <1>2, <1>3 DEF Checkpoints, Undecided

(* So does a step that writes no lifecycle and no delivery tag, when those *)
(* who take up a failure have read a status without a checkpoint.          *)
SameMark(t) == Same(t) /\ status'[t].deliv = status[t].deliv
LEMMA HoldCheckpoints ==
    ASSUME ITyped, Checkpoints, \A t \in Tasks : SameMark(t),
           \A a \in Actors : pc'[a] = "fail" /\ a \in fresh' =>
              \/ pc[a] = "fail" /\ job'[a] = job[a] /\ a \in fresh
              \/ job'[a] \in Tasks /\ status[job'[a]].deliv # "pending"
    PROVE  Checkpoints'
<1>1. Untouched' /\ CheckpointNotDiscarded'
  BY DEF Checkpoints, Untouched, CheckpointNotDiscarded, SameMark, Same
<1>2. ASSUME NEW a \in Actors, pc'[a] = "fail", a \in fresh'
      PROVE  status'[job'[a]].deliv # "pending"
  BY <1>2 DEF Checkpoints, Undecided, SameMark, ITyped, Working, Terminalizing
<1> QED BY <1>1, <1>2 DEF Checkpoints, Undecided

(* Every step keeps Checkpoints.                                           *)
LEMMA CheckpointsStep == ASSUME ITyped, Candidate, Checkpoints, [Next]_vars PROVE Checkpoints'
<1> USE ActorFacts, LabelFacts DEF ITyped, TypeOK, ActivityOK
<1>0. UNCHANGED <<status, pc, job, fresh>> => Checkpoints'
  BY HoldCheckpoints DEF SameMark, Same
<1>1. ASSUME Operator PROVE Checkpoints'
  <2>1. ASSUME NEW t \in Tasks, RequestCancel(t) PROVE Checkpoints'
    <3>1. PICK s : s = [status[t] EXCEPT !.cancel = TRUE]
      OBVIOUS
    <3>2. s.life = status[t].life /\ s.deliv = status[t].deliv
      BY <3>1 DEF MuninOK, Entry
    <3>3. Put(t, s, {}) /\ UNCHANGED <<pc, job>>
      BY <2>1, <3>1 DEF RequestCancel
    <3>4. s.life \in {"pending", "failed"} => s.deliv # "pending"
      BY <3>2 DEF Checkpoints, Untouched, CheckpointNotDiscarded
    <3> QED BY <3>3, <3>4, PutCheckpoints
  <2> QED BY <1>0, <1>1, <2>1 DEF Operator, RequestParentCancel, activity
<1>2. ASSUME NEW t \in Tasks, LeaseLapse(t) PROVE Checkpoints'
  BY <1>2, HoldCheckpoints DEF LeaseLapse, MuninOK, Entry, SameMark, Same, activity
<1>3. ASSUME NEW w \in Workers, Claim(w) PROVE Checkpoints'
  <2>1. CASE ClaimCas(w) /\ Poll(w) \in fresh
    BY <2>1, BuiltLives, PutCheckpoints DEF ClaimCas, Goto
  <2>2. CASE ClaimAckLost(w)
    BY <2>2, BuiltLives, PutCheckpoints DEF ClaimAckLost, Take
  <2>3. CASE ClaimCas(w) /\ Poll(w) \notin fresh
    BY <2>3, HoldCheckpoints DEF ClaimCas, Take, SameMark, Same
  <2>4. ASSUME NEW t \in Tasks, ClaimRead(w, t) PROVE Checkpoints'
    BY <2>4, HoldCheckpoints DEF ClaimRead, Take, SameMark, Same, munin, Checkpoints, Untouched
  <2> QED BY <1>3, <2>1, <2>2, <2>3, <2>4 DEF Claim
<1>4. ASSUME NEW w \in Workers, Renewal(w) \/ Watch(w) PROVE Checkpoints'
  <2>1. CASE RenewLand(w)
    BY <2>1, BuiltLives, PutCheckpoints DEF RenewLand
  <2> QED BY <1>0, <1>4, <2>1 DEF Renewal, RenewSend, Watch, WatchRead, WatchLand, munin, activity
<1>5. ASSUME NEW w \in Workers, Own(w) PROVE Checkpoints'
  <2>1. CASE CkptCas(w)
    BY <2>1, BuiltLives, PutCheckpoints DEF CkptCas, Goto
  <2>2. CASE FinalPut(w)
    <3>1. Ended(LifeOf(val[Poll(w)]), "none").deliv # "pending" BY DEF Ended
    <3> QED BY <2>2, <3>1, PutCheckpoints DEF FinalPut, Goto
  <2>3. CASE FinalCas(w) /\ Poll(w) \in fresh
    <3>1. Ended(LifeOf(val[Poll(w)]), MarkOf(val[Poll(w)])).deliv # "pending" BY DEF Ended, MarkOf
    <3> QED BY <2>3, <3>1, PutCheckpoints DEF FinalCas, Goto
  <2>4. CASE FinalCas(w) /\ Poll(w) \notin fresh
    BY <2>4, HoldCheckpoints DEF FinalCas, Release, Take, SameMark, Same
  <2>5. CASE \/ ExecDone(w) \/ CheckCancel(w) \/ CkptRead(w) \/ CkptResult(w) \/ Deliver(w)
             \/ OwnerExhausted(w) \/ FinalResult(w)
    BY <2>5, HoldCheckpoints DEF ExecDone, CheckCancel, CkptRead, CkptResult, Deliver,
       OwnerExhausted, FinalResult, Goto, SameMark, Same, munin
  <2>6. CASE CkptLost(w) \/ OwnerDefer(w) \/ Tail(w)
    BY <2>6, HoldCheckpoints DEF CkptLost, OwnerDefer, Tail, Release, Take, SameMark, Same, munin
  <2> QED BY <1>5, <2>1, <2>2, <2>3, <2>4, <2>5, <2>6 DEF Own
<1>6. ASSUME NEW w \in Workers, Sweep(w) PROVE Checkpoints'
  <2>1. ASSUME NEW t \in Tasks, ClearCancel(w, t) PROVE Checkpoints'
    <3>1. PICK s : s = [status[t] EXCEPT !.cancel = FALSE]
      OBVIOUS
    <3>2. s.life = status[t].life /\ s.deliv = status[t].deliv
      BY <3>1 DEF MuninOK, Entry
    <3>3. Put(t, s, {}) /\ UNCHANGED <<pc, job>>
      BY <2>1, <3>1 DEF ClearCancel
    <3>4. s.life \in {"pending", "failed"} => s.deliv # "pending"
      BY <3>2 DEF Checkpoints, Untouched, CheckpointNotDiscarded
    <3> QED BY <3>3, <3>4, PutCheckpoints
  <2>2. ASSUME NEW t \in Tasks, CancelRead(w, t) PROVE Checkpoints'
    BY <2>2, HoldCheckpoints DEF CancelRead, Take, SameMark, Same, munin
  <2>3. ASSUME NEW t \in Tasks, ReapRead(w, t) PROVE Checkpoints'
    BY <2>3, HoldCheckpoints DEF ReapRead, Take, SameMark, Same, munin, Course
  <2>4. ASSUME NEW t \in Tasks, RetryRead(w, t) PROVE Checkpoints'
    BY <2>4, HoldCheckpoints DEF RetryRead, Take, SameMark, Same, munin
  <2>5. ASSUME NEW t \in Tasks, RecoverRead(w, t) PROVE Checkpoints'
    BY <2>5, HoldCheckpoints DEF RecoverRead, Take, SameMark, Same, munin, Course
  <2>6. CASE RetryQuery(w) \/ RecoverQuery(w) \/ RecoverDone(w) \/ ParentCancelled(w)
    BY <2>6, HoldCheckpoints DEF RetryQuery, RecoverQuery, RecoverDone, ParentCancelled, Goto,
       SameMark, Same, munin, activity
  <2> QED BY <1>6, <2>1, <2>2, <2>3, <2>4, <2>5, <2>6 DEF Sweep
<1>7. ASSUME NEW a \in Actors, Settle(a) PROVE Checkpoints'
  <2>1. CASE CancelCas(a) /\ a \in fresh
    BY <2>1, BuiltLives, PutCheckpoints DEF CancelCas, Goto
  <2>2. CASE FailCas(a) /\ a \in fresh /\ Named(a)
    <3>1. status[job[a]].deliv # "pending" BY <2>2 DEF FailCas, Checkpoints, Undecided
    <3>2. Ended("failed", status[job[a]].deliv).deliv # "pending" BY <3>1 DEF Ended
    <3> QED BY <2>2, <3>2, PutCheckpoints DEF FailCas, Goto
  <2>3. CASE Reclaim(a) /\ a \in fresh
    BY <2>3, BuiltLives, PutCheckpoints DEF Reclaim, Goto
  <2>4. CASE RecCas(a) /\ a \in fresh
    <3>1. Ended(LifeOf(val[a]), MarkOf(val[a])).deliv # "pending" BY DEF Ended, MarkOf
    <3> QED BY <2>4, <3>1, PutCheckpoints DEF RecCas, Proceed, Take
  <2>5. CASE \/ (CancelCas(a) \/ Reclaim(a) \/ RecCas(a)) /\ a \notin fresh
             \/ FailCas(a) /\ ~(a \in fresh /\ Named(a))
    BY <2>5, HoldCheckpoints DEF CancelCas, FailCas, Reclaim, RecCas, Proceed, Abandon, Take,
       SameMark, Same
  <2>6. CASE \/ CancelResult(a) \/ FailResult(a) \/ ReadBase(a) \/ Redeliver(a) \/ RecDefer(a)
             \/ RecExhausted(a) \/ RecResult(a)
    BY <2>6, HoldCheckpoints DEF CancelResult, FailResult, ReadBase, Redeliver, RecDefer,
       RecExhausted, RecResult, Proceed, Goto, Take, SameMark, Same, munin
  <2> QED BY <1>7, <2>1, <2>2, <2>3, <2>4, <2>5, <2>6 DEF Settle
<1>8. ASSUME NEW w \in Workers, PollThrows(w) PROVE Checkpoints'
  BY <1>8, HoldCheckpoints DEF PollThrows, Release, Take, SameMark, Same, munin
<1>9. ASSUME NEW a \in Actors, JobThrows(a) PROVE Checkpoints'
  BY <1>9, HoldCheckpoints DEF JobThrows, Abandon, Take, SameMark, Same, munin
<1>10. ASSUME NEW w \in Workers, Process(w) PROVE Checkpoints'
  <2>1. CASE Exit(w) \/ Crash(w)
    BY <2>1, HoldCheckpoints DEF Exit, Crash, Die, SameMark, Same, munin
  <2>2. CASE Shutdown(w) \/ Restart(w)
    BY <2>2, HoldCheckpoints DEF Shutdown, Restart, Goto, SameMark, Same, munin
  <2>3. CASE StopRead(w)
    BY <2>3, HoldCheckpoints DEF StopRead, Goto, Take, SameMark, Same, munin, ProcessOK
  <2> QED BY <1>10, <2>1, <2>2, <2>3 DEF Process
<1>11. CASE UNCHANGED vars
  BY <1>0, <1>11 DEF vars, munin, activity
<1> QED BY <1>1, <1>2, <1>3, <1>4, <1>5, <1>6, <1>7, <1>8, <1>9, <1>10, <1>11 DEF Next

(* The steps that leave the places of a process, its mode and its policy,  *)
(* and the backlog of its retry reaper, as they are.                       *)
LEMMA ShapeKept ==
    ASSUME NEW w \in Workers, Shape(w),
           pc'[Poll(w)] = pc[Poll(w)] \/ pc'[Poll(w)] \notin {"boot", "recover"} \cup Reconciling,
           pc'[Reap(w)] = pc[Reap(w)], pc'[Retry(w)] = pc[Retry(w)], pc'[Stop(w)] = pc[Stop(w)],
           proc'[w] = proc[w], policy'[w] = policy[w], todo'[Retry(w)] = todo[Retry(w)]
    PROVE  Shape(w)'
  BY DEF Shape, Places, Booting, ByPolicy

(* An activity that works on its task goes on with it, or is done with it  *)
(* and returns to where it came from; nobody else moves.                   *)
Ongoing(l) == CASE l \in Reconciling -> Reconciling
                [] l = "fail" -> {"failRes"}
                [] l = "cancel" -> {"cancelRes"}
                [] OTHER -> {}
Rest(a) == CASE a[2] = "stop" -> {"exit"}
             [] a[2] = "poll" /\ proc[a[1]] = "booting" -> {"recover"}
             [] a[2] = "poll" /\ proc[a[1]] # "booting" -> {"idle", "over"}
             [] OTHER -> {"idle"}
LEMMA SettleMoves ==
    ASSUME ITyped, NEW a \in Actors, Settle(a) \/ JobThrows(a)
    PROVE  /\ pc[a] \in Terminalizing
           /\ \/ pc'[a] \in Ongoing(pc[a]) /\ job'[a] = job[a] /\ todo'[a] = todo[a]
              \/ pc'[a] \in Rest(a) /\ job'[a] = None /\ todo'[a] \in {todo[a], {}}
           /\ \A b \in Actors \ {a} : pc'[b] = pc[b] /\ job'[b] = job[b] /\ todo'[b] = todo[b]
           /\ UNCHANGED <<process, policy>>
<1> USE DEF ITyped, TypeOK, ActivityOK
<1> DEFINE On == /\ pc' = [pc EXCEPT ![a] = pc'[a]] /\ UNCHANGED <<job, todo>>
                 /\ pc'[a] \in Ongoing(pc[a])
           Off == /\ pc' = [pc EXCEPT ![a] = pc'[a]] /\ job' = [job EXCEPT ![a] = None]
                  /\ (UNCHANGED todo \/ todo' = [todo EXCEPT ![a] = {}]) /\ pc'[a] \in Rest(a)
<1>0. a \in DOMAIN pc /\ a \in DOMAIN job /\ a \in DOMAIN todo
  OBVIOUS
<1>a. Onward(a) \in Rest(a)
  BY DEF Onward, Polled, Rest
<1>b. (IF a[2] = "poll" /\ proc[a[1]] # "booting" THEN Polled(a[1]) ELSE Onward(a)) \in Rest(a)
  BY <1>a DEF Polled, Rest
<1> HIDE DEF ActivityOK, TypeOK, ITyped
<1>1. Proceed(a) => Off
  BY <1>0, <1>a DEF Proceed, Take
<1>2. Abandon(a) => Off
  BY <1>0, <1>b DEF Abandon, Take
<1>3. pc[a] \in Terminalizing /\ UNCHANGED <<process, policy>>
  BY DEF Settle, CancelCas, CancelResult, FailCas, FailResult, Reclaim, ReadBase, Redeliver,
         RecDefer, RecExhausted, RecResult, RecCas, JobThrows, Terminalizing
<1>4. ASSUME CancelCas(a) \/ FailCas(a) \/ Reclaim(a) \/ RecCas(a) PROVE On \/ Off
  <2>1. CASE \/ CancelCas(a) /\ Goto(a, "cancelRes") /\ pc[a] = "cancel"
             \/ FailCas(a) /\ Goto(a, "failRes") /\ pc[a] = "fail"
             \/ Reclaim(a) /\ Goto(a, "base") /\ pc[a] = "reclaim"
    <3>1. pc'[a] \in Ongoing(pc[a]) /\ pc' = [pc EXCEPT ![a] = pc'[a]]
      BY <1>0, <2>1 DEF Goto, Ongoing, Reconciling
    <3>2. UNCHANGED <<job, todo>> \/ Proceed(a) \/ Abandon(a)
      BY <2>1 DEF CancelCas, FailCas, Reclaim
    <3> HIDE DEF Off
    <3> QED BY <1>1, <1>2, <3>1, <3>2
  <2>2. CASE Proceed(a) \/ Abandon(a)
    <3> HIDE DEF Off
    <3> QED BY <1>1, <1>2, <2>2
  <2> QED BY <1>4, <2>1, <2>2 DEF CancelCas, FailCas, Reclaim, RecCas
<1>5. ASSUME CancelResult(a) \/ FailResult(a) \/ RecDefer(a) \/ JobThrows(a) PROVE On \/ Off
  <2>1. Proceed(a) \/ Abandon(a)
    BY <1>5 DEF CancelResult, FailResult, RecDefer, JobThrows
  <2> HIDE DEF Off
  <2> QED BY <1>1, <1>2, <2>1
<1>6. ASSUME ReadBase(a) \/ Redeliver(a) \/ RecExhausted(a) \/ RecResult(a) PROVE On \/ Off
  BY <1>0, <1>6 DEF ReadBase, Redeliver, RecExhausted, RecResult, Goto, Ongoing, Reconciling
<1>7. On \/ Off
  <2> HIDE DEF On, Off
  <2> QED BY <1>3, <1>4, <1>5, <1>6 DEF Settle
<1> QED BY <1>3, <1>7 DEF ITyped, TypeOK, ActivityOK

(* Activities of different kinds or of different processes are different.  *)
LEMMA ActorsApart ==
    ASSUME NEW v \in Workers, NEW w \in Workers
    PROVE  /\ Poll(v) = Poll(w) <=> v = w
           /\ Reap(v) = Reap(w) <=> v = w
           /\ Retry(v) = Retry(w) <=> v = w
           /\ Stop(v) = Stop(w) <=> v = w
           /\ Poll(v) # Reap(w) /\ Poll(v) # Retry(w) /\ Poll(v) # Stop(w)
           /\ Reap(v) # Poll(w) /\ Reap(v) # Retry(w) /\ Reap(v) # Stop(w)
           /\ Retry(v) # Poll(w) /\ Retry(v) # Reap(w) /\ Retry(v) # Stop(w)
           /\ Stop(v) # Poll(w) /\ Stop(v) # Reap(w) /\ Stop(v) # Retry(w)
  BY DEF Poll, Reap, Retry, Stop

(* A death resets the activities of its process, and no others.            *)
LEMMA DieResets ==
    ASSUME NEW w \in Workers, Die(w), ActivityOK, NEW v \in Workers,
           NEW a \in {Poll(v), Reap(v), Retry(v), Stop(v)}
    PROVE  IF v = w THEN pc'[a] = "idle" /\ todo'[a] = {} /\ job'[a] = None
           ELSE pc'[a] = pc[a] /\ todo'[a] = todo[a] /\ job'[a] = job[a]
<1>1. a \in Actors
  BY ActorFacts
<1>2. a \in {w} \X Threads <=> v = w
  BY DEF Poll, Reap, Retry, Stop, Threads
<1> QED BY <1>1, <1>2 DEF Die

(* The reapers work, and only on what they may, in a process that is up.   *)
LEMMA ShapeStep ==
    ASSUME ITyped, \A w \in Workers : Shape(w), [Next]_vars
    PROVE  \A w \in Workers : Shape(w)'
<1> SUFFICES ASSUME NEW v \in Workers PROVE Shape(v)'
  OBVIOUS
<1> USE DEF ITyped, TypeOK, ActivityOK
<1>0. Shape(v) /\ (UNCHANGED <<pc, todo, proc, policy>> => Shape(v)')
  BY ShapeKept
<1>1. CASE Operator \/ \E t \in Tasks : LeaseLapse(t)
  BY <1>0, <1>1 DEF Operator, RequestCancel, RequestParentCancel, LeaseLapse, process, activity
<1>2. ASSUME NEW w \in Workers, Claim(w) PROVE Shape(v)'
  <2>1. /\ UNCHANGED <<todo, proc, policy>>
        /\ \E l \in {"claim", "fail", "run", "idle", "over"} \cup {pc[Poll(w)]} :
              pc' = [pc EXCEPT ![Poll(w)] = l]
    BY <1>2 DEF Claim, ClaimCas, ClaimAckLost, ClaimRead, Goto, Take, Polled, process
  <2> QED BY <1>0, <2>1, ShapeKept, ActorFacts, ActorsApart DEF Reconciling
<1>3. ASSUME NEW w \in Workers, Renewal(w) \/ Watch(w) PROVE Shape(v)'
  BY <1>0, <1>3 DEF Renewal, RenewSend, RenewLand, Watch, WatchRead, WatchLand, process, activity
<1>4. ASSUME NEW w \in Workers, Own(w) \/ PollThrows(w) PROVE Shape(v)'
  <2>1. UNCHANGED <<todo, proc, policy>>
    BY <1>4 DEF Own, ExecDone, CheckCancel, CkptRead, CkptResult, CkptCas, CkptLost, Deliver,
       OwnerDefer, OwnerExhausted, FinalResult, FinalPut, FinalCas, Tail, PollThrows, process
  <2>2. \E l \in OwnLabels \cup {"idle", "over"} : pc' = [pc EXCEPT ![Poll(w)] = l]
    BY <1>4 DEF Own, ExecDone, CheckCancel, CkptRead, CkptResult, CkptCas, CkptLost, Deliver,
       OwnerDefer, OwnerExhausted, FinalResult, FinalPut, FinalCas, Tail, PollThrows, Release,
       Take, Goto, Polled, OwnLabels
  <2> QED BY <1>0, <2>1, <2>2, ShapeKept, ActorFacts, ActorsApart DEF Reconciling, OwnLabels
<1>5. ASSUME NEW w \in Workers, Sweep(w) PROVE Shape(v)'
  <2> USE ActorFacts, ActorsApart
  <2>1. CASE RetryQuery(w)
    BY <1>0, <2>1 DEF RetryQuery, process, Shape, Places, Booting, ByPolicy
  <2>2. CASE RecoverQuery(w) \/ RecoverDone(w)
    BY <1>0, <2>2 DEF RecoverQuery, RecoverDone, Goto, ProcessOK, process, Shape, Places, Booting,
       ByPolicy, Reconciling
  <2>3. ASSUME NEW t \in Tasks, CancelRead(w, t) PROVE Shape(v)'
    BY <1>0, <2>3, ShapeKept DEF CancelRead, Take, process, Reconciling
  <2>4. ASSUME NEW t \in Tasks, ReapRead(w, t) PROVE Shape(v)'
    BY <1>0, <2>4 DEF ReapRead, MayReap, Course, Take, process, Shape, Places, Booting, ByPolicy,
       Reconciling
  <2>5. ASSUME NEW t \in Tasks, RetryRead(w, t) PROVE Shape(v)'
    BY <1>0, <2>5 DEF RetryRead, Take, process, Shape, Places, Booting, ByPolicy, Reconciling
  <2>6. ASSUME NEW t \in Tasks, RecoverRead(w, t) PROVE Shape(v)'
    BY <1>0, <2>6 DEF RecoverRead, Take, Course, process, Shape, Places, Booting, ByPolicy,
       Reconciling
  <2>7. CASE ParentCancelled(w) \/ \E t \in Tasks : ClearCancel(w, t)
    BY <1>0, <2>7 DEF ParentCancelled, ClearCancel, process, activity
  <2> QED BY <1>5, <2>1, <2>2, <2>3, <2>4, <2>5, <2>6, <2>7 DEF Sweep
<1>6. ASSUME NEW a \in Actors, Settle(a) \/ JobThrows(a) PROVE Shape(v)'
  <2>1. UNCHANGED <<proc, policy>>
    BY <1>6, SettleMoves DEF process
  <2>2. \A b \in Actors : b # a => pc'[b] = pc[b] /\ todo'[b] = todo[b]
    BY <1>6, SettleMoves
  <2>3. \/ pc'[a] \in Ongoing(pc[a]) /\ todo'[a] = todo[a]
        \/ pc'[a] \in Rest(a) /\ todo'[a] \in {todo[a], {}}
    BY <1>6, SettleMoves
  <2>4. pc[a] \in Terminalizing
    BY <1>6, SettleMoves
  <2>5. CASE a = Poll(v)
    <3>1. pc'[a] \in {"recover"} \cup Reconciling => proc[v] = "booting"
      BY <1>0, <2>3, <2>5 DEF Rest, Ongoing, Shape, Booting, Poll, Reconciling
    <3>2. pc'[a] # "boot"
      BY <2>3, <2>5 DEF Rest, Ongoing, Reconciling
    <3> QED BY <1>0, <2>1, <2>2, <2>5, <3>1, <3>2, ActorFacts, ActorsApart
            DEF Shape, Places, Booting, ByPolicy
  <2>6. CASE a = Reap(v)
    <3>1. pc'[a] \in {"idle", "failRes"} \cup Reconciling
      BY <2>3, <2>6, <1>0, <2>4 DEF Rest, Ongoing, Shape, Places, Reap, Terminalizing, Reconciling
    <3>2. pc'[a] \in Reconciling => pc[a] \in Reconciling
      BY <2>3, <2>6 DEF Rest, Ongoing, Reap, Reconciling
    <3> QED BY <1>0, <2>1, <2>2, <2>4, <2>6, <3>1, <3>2, ActorFacts, ActorsApart
            DEF Shape, Places, Booting, ByPolicy, Terminalizing, Reconciling
  <2>7. CASE a = Retry(v)
    <3>1. pc'[a] \in {"idle"} \cup Reconciling
      BY <2>3, <2>7, <1>0, <2>4 DEF Rest, Ongoing, Shape, Places, Retry, Terminalizing, Reconciling
    <3>2. pc[a] # "idle" /\ todo'[a] \in {todo[a], {}}
      BY <2>3, <2>4 DEF Terminalizing
    <3> QED BY <1>0, <2>1, <2>2, <2>7, <3>1, <3>2, ActorFacts, ActorsApart
            DEF Shape, Places, Booting, ByPolicy
  <2>8. CASE a = Stop(v)
    <3>1. pc'[a] \in {"exit", "failRes"}
      BY <2>3, <2>8, <1>0, <2>4 DEF Rest, Ongoing, Shape, Places, Stop, Terminalizing, Reconciling
    <3> QED BY <1>0, <2>1, <2>2, <2>8, <3>1, ActorFacts, ActorsApart
            DEF Shape, Places, Booting, ByPolicy
  <2>9. CASE a \notin {Poll(v), Reap(v), Retry(v), Stop(v)}
    BY <1>0, <2>1, <2>2, <2>9, ShapeKept, ActorFacts
  <2> QED BY <2>5, <2>6, <2>7, <2>8, <2>9
<1>7. ASSUME NEW w \in Workers, Process(w) PROVE Shape(v)'
  <2>1. CASE Shutdown(w) \/ StopRead(w)
    BY <1>0, <2>1, ActorFacts, ActorsApart DEF Shutdown, StopRead, Goto, Take, process, ProcessOK,
       Shape, Places, Booting, ByPolicy, Reconciling
  <2>2. CASE Exit(w) \/ Crash(w)
    <3>1. Die(w) /\ policy' = policy
      BY <2>2 DEF Exit, Crash
    <3>2. CASE v = w
      <4>1. \A a \in {Poll(v), Reap(v), Retry(v), Stop(v)} : pc'[a] = "idle" /\ todo'[a] = {}
        BY <3>1, <3>2, DieResets
      <4> QED BY <4>1 DEF Shape, Places, Booting, ByPolicy, Reconciling
    <3>3. CASE v # w
      <4>1. \A a \in {Poll(v), Reap(v), Retry(v), Stop(v)} : pc'[a] = pc[a] /\ todo'[a] = todo[a]
        BY <3>1, <3>3, DieResets
      <4>2. proc'[v] = proc[v]
        BY <3>1, <3>3 DEF Die, ProcessOK
      <4> QED BY <1>0, <3>1, <4>1, <4>2, ShapeKept
    <3> QED BY <3>2, <3>3
  <2>3. CASE Restart(w)
    BY <1>0, <2>3, ActorFacts, ActorsApart DEF Restart, Goto, ProcessOK, HistoryOK, Shape, Places,
       Booting, ByPolicy, Reconciling
  <2> QED BY <1>7, <2>1, <2>2, <2>3 DEF Process
<1>8. CASE UNCHANGED vars
  BY <1>0, <1>8 DEF vars, process, activity
<1> QED BY <1>1, <1>2, <1>3, <1>4, <1>5, <1>6, <1>7, <1>8 DEF Next

(* A task that is claimed, or over, never waits again.                     *)
LEMMA NeverWaitsAgain ==
    ASSUME ITyped, Candidate, [Next]_vars, NEW t \in Tasks, status[t].life # "pending"
    PROVE  status'[t].life # "pending"
  BY StepKind DEF Quiet, Kept, Moved, Begun, Same

(* A worker's steps, and those of its process, that leave the reapers and  *)
(* the current task alone keep them apart.                                 *)
LEMMA ApartKept ==
    ASSUME ITyped, Candidate, [Next]_vars, NEW w \in Workers, Apart(w),
           \/ pc'[Poll(w)] \notin OwnLabels
           \/ pc[Poll(w)] \in OwnLabels /\ job'[Poll(w)] = job[Poll(w)] /\ cur'[w] = cur[w],
           cur'[w] \in {cur[w], None},
           \A a \in {Reap(w), Retry(w)} : pc'[a] # "idle" => pc[a] # "idle" /\ job'[a] = job[a]
    PROVE  Apart(w)'
  BY NeverWaitsAgain, NoneAssumption DEF Apart

LEMMA ApartStep ==
    ASSUME ITyped, Candidate, Untouched, \A w \in Workers : Shape(w) /\ Apart(w), [Next]_vars
    PROVE  \A w \in Workers : Apart(w)'
<1> SUFFICES ASSUME NEW v \in Workers PROVE Apart(v)'
  OBVIOUS
<1> USE ActorFacts, ActorsApart DEF ITyped, TypeOK, ActivityOK, ProcessOK
<1>0. Apart(v) /\ (UNCHANGED <<pc, job, cur>> => Apart(v)')
  BY ApartKept
<1>1. CASE Operator \/ \E t \in Tasks : LeaseLapse(t)
  BY <1>0, <1>1 DEF Operator, RequestCancel, RequestParentCancel, LeaseLapse, process, activity
<1>2. ASSUME NEW w \in Workers, Claim(w) PROVE Apart(v)'
  <2>1. CASE ClaimCas(w) /\ Poll(w) \in fresh
    <3>1. status[job[Poll(w)]].life = "pending" /\ job[Poll(w)] \in Tasks
      BY <2>1 DEF ClaimCas, Candidate, Working
    <3>2. /\ pc' = [pc EXCEPT ![Poll(w)] = "run"] /\ job' = job
          /\ cur' = [cur EXCEPT ![w] = job[Poll(w)]]
      BY <2>1 DEF ClaimCas, Goto
    <3>3. CASE v = w
      <4>1. \A a \in {Reap(v), Retry(v)} : pc'[a] = pc[a]
        BY <3>2, <3>3
      <4> QED BY <1>0, <3>1, <3>2, <3>3, <4>1, NeverWaitsAgain DEF Apart
    <3>4. CASE v # w
      BY <1>0, <3>2, <3>4, ApartKept
    <3> QED BY <3>3, <3>4
  <2>2. CASE (ClaimCas(w) /\ Poll(w) \notin fresh) \/ ClaimAckLost(w)
    BY <1>0, <2>2, ApartKept DEF ClaimCas, ClaimAckLost, Take, Polled, OwnLabels, process
  <2>3. ASSUME NEW t \in Tasks, ClaimRead(w, t) PROVE Apart(v)'
    BY <1>0, <2>3, ApartKept DEF ClaimRead, Take, OwnLabels, process
  <2> QED BY <1>2, <2>1, <2>2, <2>3 DEF Claim
<1>3. ASSUME NEW w \in Workers, Renewal(w) \/ Watch(w) PROVE Apart(v)'
  BY <1>0, <1>3 DEF Renewal, RenewSend, RenewLand, Watch, WatchRead, WatchLand, process, activity
<1>4. ASSUME NEW w \in Workers, Own(w) \/ PollThrows(w) PROVE Apart(v)'
  <2>1. \/ /\ \E l \in OwnLabels : pc' = [pc EXCEPT ![Poll(w)] = l]
           /\ pc[Poll(w)] \in OwnLabels /\ UNCHANGED <<job, cur>>
        \/ Release(w)
    BY <1>4 DEF Own, ExecDone, CheckCancel, CkptRead, CkptResult, CkptCas, CkptLost, Deliver,
       OwnerDefer, OwnerExhausted, FinalResult, FinalPut, FinalCas, Tail, PollThrows,
       Goto, OwnLabels, process
  <2>2. CASE Release(w)
    BY <1>0, <2>2, ApartKept, SMTT(40) DEF Release, Take, Polled, OwnLabels
  <2>3. CASE /\ \E l \in OwnLabels : pc' = [pc EXCEPT ![Poll(w)] = l]
             /\ pc[Poll(w)] \in OwnLabels /\ UNCHANGED <<job, cur>>
    BY <1>0, <2>3, ApartKept
  <2> QED BY <2>1, <2>2, <2>3
<1>5. ASSUME NEW w \in Workers, Sweep(w) PROVE Apart(v)'
  <2>1. CASE RecoverQuery(w) \/ RecoverDone(w)
    BY <1>0, <2>1, ApartKept, SMTT(40) DEF RecoverQuery, RecoverDone, Goto, OwnLabels, process
  <2>2. ASSUME NEW t \in Tasks, CancelRead(w, t) \/ RecoverRead(w, t) PROVE Apart(v)'
    BY <1>0, <2>2, ApartKept DEF CancelRead, RecoverRead, Take, Course, OwnLabels, process
  <2>3. ASSUME NEW t \in Tasks, ReapRead(w, t) PROVE Apart(v)'
    <3>1. /\ cur' = cur /\ status' = status /\ cur[w] # t /\ status[t].life # "pending"
          /\ pc' = [pc EXCEPT ![Reap(w)] = Course(t)] /\ job' = [job EXCEPT ![Reap(w)] = t]
      BY <2>3 DEF ReapRead, MayReap, Take, process, munin
    <3> QED BY <1>0, <3>1 DEF Apart
  <2>4. ASSUME NEW t \in Tasks, RetryRead(w, t) PROVE Apart(v)'
    <3>1. CASE MayRetry(w, t)
      <4>1. cur[w] # t /\ status[t].life # "pending"
        BY <3>1 DEF MayRetry, Untouched
      <4>2. /\ cur' = cur /\ status' = status
            /\ pc' = [pc EXCEPT ![Retry(w)] = "reclaim"] /\ job' = [job EXCEPT ![Retry(w)] = t]
        BY <2>4, <3>1 DEF RetryRead, Take, process, munin
      <4> QED BY <1>0, <4>1, <4>2 DEF Apart
    <3>2. CASE ~MayRetry(w, t)
      BY <1>0, <2>4, <3>2 DEF RetryRead, process
    <3> QED BY <3>1, <3>2
  <2>5. CASE RetryQuery(w) \/ ParentCancelled(w) \/ \E t \in Tasks : ClearCancel(w, t)
    BY <1>0, <2>5 DEF RetryQuery, ParentCancelled, ClearCancel, process, activity
  <2> QED BY <1>5, <2>1, <2>2, <2>3, <2>4, <2>5 DEF Sweep
<1>6. ASSUME NEW a \in Actors, Settle(a) \/ JobThrows(a) PROVE Apart(v)'
  <2>1. cur' = cur
    BY <1>6, SettleMoves DEF process
  <2>2. \A b \in Actors : b # a => pc'[b] = pc[b] /\ job'[b] = job[b]
    BY <1>6, SettleMoves
  <2>3. \/ pc'[a] \in Ongoing(pc[a]) /\ job'[a] = job[a]
        \/ pc'[a] \in Rest(a)
    BY <1>6, SettleMoves
  <2>4. pc[a] \in Terminalizing
    BY <1>6, SettleMoves
  <2>5. pc'[a] \notin OwnLabels
    BY <2>3 DEF Rest, Ongoing, Reconciling, OwnLabels
  <2>6. a \in {Reap(v), Retry(v)} => pc'[a] = "idle" \/ job'[a] = job[a]
    BY <2>3 DEF Rest, Reap, Retry
  <2>7. \A b \in {Reap(v), Retry(v)} : pc'[b] # "idle" => pc[b] # "idle" /\ job'[b] = job[b]
    BY <2>2, <2>4, <2>6 DEF Terminalizing
  <2>8. \/ pc'[Poll(v)] \notin OwnLabels
        \/ pc[Poll(v)] \in OwnLabels /\ job'[Poll(v)] = job[Poll(v)] /\ cur'[v] = cur[v]
    BY <2>1, <2>2, <2>5
  <2> QED BY <1>0, <2>1, <2>7, <2>8, ApartKept
<1>7. ASSUME NEW w \in Workers, Process(w) PROVE Apart(v)'
  <2>1. CASE Exit(w) \/ Crash(w)
    <3>1. Die(w)
      BY <2>1 DEF Exit, Crash
    <3>2. CASE v = w
      <4>1. \A a \in {Poll(v), Reap(v), Retry(v)} : pc'[a] = "idle"
        BY <3>1, <3>2, DieResets
      <4> QED BY <4>1 DEF Apart, OwnLabels
    <3>3. CASE v # w
      <4>1. \A a \in {Poll(v), Reap(v), Retry(v)} : pc'[a] = pc[a] /\ job'[a] = job[a]
        BY <3>1, <3>3, DieResets
      <4>2. cur'[v] = cur[v]
        BY <3>1, <3>3 DEF Die
      <4> QED BY <1>0, <4>1, <4>2, ApartKept
    <3> QED BY <3>2, <3>3
  <2>2. CASE Shutdown(w) \/ StopRead(w) \/ Restart(w)
    BY <1>0, <2>2, ApartKept DEF Shutdown, StopRead, Restart, Goto, Take, OwnLabels, process
  <2> QED BY <1>7, <2>1, <2>2 DEF Process
<1>8. CASE UNCHANGED vars
  BY <1>0, <1>8 DEF vars, process, activity
<1> QED BY <1>1, <1>2, <1>3, <1>4, <1>5, <1>6, <1>7, <1>8 DEF Next

(* Within a process, only the poller delivers its current task, and only   *)
(* one of the others reconciles, never that task.                          *)
LEMMA OneDelivers ==
    ASSUME ITyped, \A w \in Workers : Shape(w) /\ Apart(w)
    PROVE  OneDeliverer
<1> SUFFICES ASSUME NEW w \in Workers, NEW i \in Threads, NEW j \in Threads, i # j,
                    Delivering(<<w, i>>), Delivering(<<w, j>>)
             PROVE  job[<<w, i>>] # job[<<w, j>>]
  BY DEF OneDeliverer
<1>1. \A k \in Threads : <<w, k>> \in {Poll(w), Reap(w), Retry(w), Stop(w)}
  BY DEF Threads, Poll, Reap, Retry, Stop
<1>2. ~Delivering(Stop(w)) /\ pc[Reap(w)] # "deliver" /\ pc[Retry(w)] # "deliver"
  BY DEF Delivering, Shape, Places, Reconciling
<1>3. ~(Delivering(Reap(w)) /\ Delivering(Retry(w)))
  BY <1>2 DEF Delivering, Shape, ByPolicy, Reconciling
<1>4. ASSUME NEW a \in {Reap(w), Retry(w)}, Delivering(a), Delivering(Poll(w))
      PROVE  job[a] # job[Poll(w)]
  <2>1. pc[a] # "idle"
    BY <1>4 DEF Delivering
  <2>2. pc[Poll(w)] = "deliver"
    BY <1>4, <2>1 DEF Delivering, Shape, Booting, Reconciling
  <2> QED BY <2>1, <2>2 DEF Apart, OwnLabels
<1> QED BY <1>1, <1>2, <1>3, <1>4

(* All this holds at first, and every step keeps it.                       *)
LEMMA CkptInit == Init => ICkpt
<1> SUFFICES ASSUME Init PROVE ICkpt
  OBVIOUS
<1>1. ITyped /\ Candidate
  BY TypedInit DEF Init, Candidate
<1>2. Checkpoints
  BY DEF Init, Checkpoints, Untouched, CheckpointNotDiscarded, Undecided
<1>3. ASSUME NEW w \in Workers PROVE Shape(w) /\ Apart(w)
  BY ActorFacts DEF Init, Shape, Places, Booting, ByPolicy, Apart, OwnLabels, Reconciling
<1> QED BY <1>1, <1>2, <1>3 DEF ICkpt

LEMMA CkptStep == ICkpt /\ [Next]_vars => ICkpt'
<1> SUFFICES ASSUME ICkpt, [Next]_vars PROVE ICkpt'
  OBVIOUS
<1> USE DEF ICkpt
<1>1. ITyped'
  BY MuninStep, ProcessStep, ActivityStep, HistoryStep, OwningStep, WorkingStep
  DEF ITyped, TypeOK
<1>2. Candidate' /\ Checkpoints'
  BY CandidateStep, CheckpointsStep
<1>3. \A w \in Workers : Shape(w)' /\ Apart(w)'
  BY ShapeStep, ApartStep DEF Checkpoints
<1> QED BY <1>1, <1>2, <1>3

(* A checkpoint is reconciled or delivered by one activity of a process at *)
(* a time, and no path that has not tried to deliver it fails its task.    *)
THEOREM AlwaysCheckpointSafe == Spec => []CheckpointSafe
<1>1. ICkpt => CheckpointSafe
  BY OneDelivers DEF ICkpt, Checkpoints, CheckpointSafe
<1> QED BY CkptInit, CkptStep, <1>1, PTL DEF Spec

-----------------------------------------------------------------------------
(* FencedOwner.  From its checkpoint on, an owner whose read of the status *)
(* is current is still the one the status names: whoever reclaims the      *)
(* checkpoint, or renews a lease late, makes that read stale.              *)

AtFence(w) == pc[Poll(w)] \in {"deliver", "budget", "dres", "cas"}
Fenced(w) == AtFence(w) /\ Poll(w) \in fresh => status[cur[w]].owner = w
IFence == ICkpt /\ \A w \in Workers : Fenced(w)

(* A write of a status leaves the owner of another task fenced, and that   *)
(* of the task without a current read.                                     *)
LEMMA PutFenced ==
    ASSUME IFence, NEW t, NEW s, NEW keep, Put(t, s, keep), NEW w \in Workers,
           AtFence(w)' =>
              \/ AtFence(w) /\ cur'[w] = cur[w] /\ Poll(w) \notin keep
              \/ t \in Tasks /\ cur'[w] = t /\ s.owner = w
    PROVE  Fenced(w)'
<1> USE DEF IFence, ICkpt, ITyped, TypeOK, MuninOK
<1>1. status' = [status EXCEPT ![t] = s] /\ fresh' = {a \in fresh : job[a] # t} \cup keep
  BY DEF Put
<1> SUFFICES ASSUME AtFence(w)', Poll(w) \in fresh' PROVE status'[cur'[w]].owner = w
  BY DEF Fenced
<1>2. CASE AtFence(w) /\ cur'[w] = cur[w] /\ Poll(w) \notin keep
  <2>1. Poll(w) \in fresh /\ job[Poll(w)] # t
    BY <1>1, <1>2
  <2>2. cur[w] # t /\ cur[w] \in Tasks
    BY <1>2, <2>1 DEF Apart, AtFence, OwnLabels, Owning
  <2> QED BY <1>1, <1>2, <2>1, <2>2 DEF Fenced
<1>3. CASE t \in Tasks /\ cur'[w] = t /\ s.owner = w
  BY <1>1, <1>3
<1> QED BY <1>2, <1>3

(* So does a step that changes no owner and gives nobody a current read.   *)
SameOwner(t) == status'[t].owner = status[t].owner
LEMMA HoldFenced ==
    ASSUME IFence, \A t \in Tasks : SameOwner(t), NEW w \in Workers,
           AtFence(w)' /\ Poll(w) \in fresh' => AtFence(w) /\ Poll(w) \in fresh /\ cur'[w] = cur[w]
    PROVE  Fenced(w)'
  BY DEF IFence, ICkpt, ITyped, Owning, OwnLabels, AtFence, Fenced, SameOwner

LEMMA FenceStep == ASSUME IFence, [Next]_vars PROVE \A w \in Workers : Fenced(w)'
<1> SUFFICES ASSUME NEW v \in Workers PROVE Fenced(v)'
  OBVIOUS
<1> USE ActorFacts, ActorsApart DEF IFence, ICkpt, ITyped, TypeOK, ActivityOK, ProcessOK, AtFence
<1>0. UNCHANGED <<status, pc, fresh, cur>> => Fenced(v)'
  BY DEF Fenced
<1>1. ASSUME Operator PROVE Fenced(v)'
  <2>1. ASSUME NEW t \in Tasks, RequestCancel(t) PROVE Fenced(v)'
    BY <2>1, PutFenced DEF RequestCancel, process
  <2> QED BY <1>0, <1>1, <2>1 DEF Operator, RequestParentCancel, process, activity
<1>2. ASSUME NEW t \in Tasks, LeaseLapse(t) PROVE Fenced(v)'
  BY <1>2, HoldFenced DEF LeaseLapse, MuninOK, Entry, SameOwner, process, activity
<1>3. ASSUME NEW w \in Workers, Claim(w) PROVE Fenced(v)'
  <2>1. CASE ClaimCas(w) /\ Poll(w) \in fresh
    BY <2>1, PutFenced, SMTT(40) DEF ClaimCas, Goto
  <2>2. CASE ClaimAckLost(w)
    BY <2>2, PutFenced DEF ClaimAckLost, Take, Polled, process
  <2>3. CASE ClaimCas(w) /\ Poll(w) \notin fresh
    BY <2>3, HoldFenced DEF ClaimCas, Take, Polled, SameOwner
  <2>4. ASSUME NEW t \in Tasks, ClaimRead(w, t) PROVE Fenced(v)'
    BY <2>4, HoldFenced DEF ClaimRead, Take, SameOwner, munin, process
  <2> QED BY <1>3, <2>1, <2>2, <2>3, <2>4 DEF Claim
<1>4. ASSUME NEW w \in Workers, Renewal(w) \/ Watch(w) PROVE Fenced(v)'
  <2>1. CASE RenewLand(w)
    BY <2>1, PutFenced DEF RenewLand, process
  <2> QED BY <1>0, <1>4, <2>1
          DEF Renewal, RenewSend, Watch, WatchRead, WatchLand, munin, process, activity
<1>5. ASSUME NEW w \in Workers, Own(w) PROVE Fenced(v)'
  <2>1. CASE CkptCas(w)
    <3>1. cur[w] \in Tasks /\ Leased(w, "pending").owner = w
      BY <2>1 DEF CkptCas, Owning, OwnLabels, Leased
    <3>2. Put(cur[w], Leased(w, "pending"), {Poll(w)}) /\ cur' = cur
          /\ pc' = [pc EXCEPT ![Poll(w)] = "deliver"]
      BY <2>1 DEF CkptCas, Goto, process
    <3> QED BY <3>1, <3>2, PutFenced
  <2>2. CASE FinalPut(w)
    BY <2>2, PutFenced DEF FinalPut, Goto, process
  <2>3. CASE FinalCas(w) /\ Poll(w) \in fresh
    BY <2>3, PutFenced DEF FinalCas, Goto, process
  <2>4. CASE FinalCas(w) /\ Poll(w) \notin fresh
    BY <2>4, HoldFenced DEF FinalCas, Release, Take, Polled, SameOwner
  <2>5. CASE \/ ExecDone(w) \/ CheckCancel(w) \/ CkptRead(w) \/ CkptResult(w) \/ Deliver(w)
             \/ OwnerExhausted(w) \/ FinalResult(w)
    BY <2>5, HoldFenced DEF ExecDone, CheckCancel, CkptRead, CkptResult, Deliver,
       OwnerExhausted, FinalResult, Goto, SameOwner, munin, process
  <2>6. CASE CkptLost(w) \/ OwnerDefer(w) \/ Tail(w)
    BY <2>6, HoldFenced DEF CkptLost, OwnerDefer, Tail, Release, Take, Polled, SameOwner, munin
  <2> QED BY <1>5, <2>1, <2>2, <2>3, <2>4, <2>5, <2>6 DEF Own
<1>6. ASSUME NEW w \in Workers, Sweep(w) PROVE Fenced(v)'
  <2>1. ASSUME NEW t \in Tasks, ClearCancel(w, t) PROVE Fenced(v)'
    BY <2>1, PutFenced DEF ClearCancel, process
  <2>2. ASSUME NEW t \in Tasks, CancelRead(w, t) \/ ReapRead(w, t) PROVE Fenced(v)'
    BY <2>2, HoldFenced DEF CancelRead, ReapRead, Take, SameOwner, munin, process
  <2>3. ASSUME NEW t \in Tasks, RetryRead(w, t) PROVE Fenced(v)'
    BY <2>3, HoldFenced DEF RetryRead, Take, SameOwner, munin, process
  <2>4. ASSUME NEW t \in Tasks, RecoverRead(w, t) PROVE Fenced(v)'
    BY <2>4, HoldFenced DEF RecoverRead, Take, Course, SameOwner, munin, process
  <2>5. CASE RetryQuery(w) \/ RecoverQuery(w) \/ RecoverDone(w) \/ ParentCancelled(w)
    BY <2>5, HoldFenced DEF RetryQuery, RecoverQuery, RecoverDone, ParentCancelled, Goto,
       SameOwner, munin, process, activity
  <2> QED BY <1>6, <2>1, <2>2, <2>3, <2>4, <2>5 DEF Sweep
<1>7. ASSUME NEW a \in Actors, Settle(a) \/ JobThrows(a) PROVE Fenced(v)'
  <2>1. ~AtFence(v)' \/ (a # Poll(v) /\ AtFence(v) /\ cur'[v] = cur[v])
    BY <1>7, SettleMoves DEF Rest, Ongoing, Reconciling, process
  <2>2. \/ \E s, keep : Put(job[a], s, keep) /\ keep \subseteq {a}
        \/ UNCHANGED status /\ fresh' \subseteq fresh
    BY <1>7 DEF Settle, CancelCas, CancelResult, FailCas, FailResult, Reclaim, ReadBase,
       Redeliver, RecDefer, RecExhausted, RecResult, RecCas, JobThrows, munin
  <2>3. CASE UNCHANGED status /\ fresh' \subseteq fresh
    BY <2>1, <2>3, HoldFenced DEF SameOwner
  <2>4. ASSUME NEW s, NEW keep, Put(job[a], s, keep), keep \subseteq {a} PROVE Fenced(v)'
    BY <2>1, <2>4, PutFenced
  <2> QED BY <2>2, <2>3, <2>4
<1>8. ASSUME NEW w \in Workers, PollThrows(w) PROVE Fenced(v)'
  BY <1>8, HoldFenced DEF PollThrows, Release, Take, Polled, SameOwner, munin
<1>9. ASSUME NEW w \in Workers, Process(w) PROVE Fenced(v)'
  <2>1. CASE Exit(w) \/ Crash(w)
    <3>1. Die(w) /\ UNCHANGED status
      BY <2>1 DEF Exit, Crash, munin
    <3>2. IF v = w THEN pc'[Poll(v)] = "idle" ELSE pc'[Poll(v)] = pc[Poll(v)]
      BY <3>1, DieResets
    <3>3. (v # w => cur'[v] = cur[v]) /\ fresh' \subseteq fresh
      BY <3>1 DEF Die
    <3> QED BY <3>1, <3>2, <3>3, HoldFenced DEF SameOwner
  <2>2. CASE Shutdown(w) \/ Restart(w)
    BY <2>2, HoldFenced DEF Shutdown, Restart, Goto, SameOwner, munin
  <2>3. CASE StopRead(w)
    BY <2>3, HoldFenced DEF StopRead, Goto, Take, SameOwner, munin, process
  <2> QED BY <1>9, <2>1, <2>2, <2>3 DEF Process
<1>10. CASE UNCHANGED vars
  BY <1>0, <1>10 DEF vars, munin, process, activity
<1> QED BY <1>1, <1>2, <1>3, <1>4, <1>5, <1>6, <1>7, <1>8, <1>9, <1>10 DEF Next

(* Only the owner at its last swap, or its death, moves it from there.     *)
LEMMA LeavesCas ==
    ASSUME ITyped, [Next]_vars, NEW w \in Workers, pc[Poll(w)] = "cas", pc'[Poll(w)] # "cas"
    PROVE  FinalCas(w) \/ UNCHANGED status
<1> USE ActorFacts, ActorsApart DEF ITyped, TypeOK, ActivityOK
<1>1. ~Operator /\ ~(\E t \in Tasks : LeaseLapse(t)) /\ ~UNCHANGED vars
  BY DEF Operator, RequestCancel, RequestParentCancel, LeaseLapse, activity, vars
<1>2. ASSUME NEW v \in Workers, Renewal(v) \/ Watch(v) PROVE FALSE
  BY <1>2 DEF Renewal, RenewSend, RenewLand, Watch, WatchRead, WatchLand, activity
<1>3. ASSUME NEW v \in Workers, Claim(v) PROVE FALSE
  BY <1>3 DEF Claim, ClaimCas, ClaimAckLost, ClaimRead, Goto, Take
<1>4. ASSUME NEW v \in Workers, Own(v) \/ PollThrows(v) PROVE FinalCas(w)
  BY <1>4 DEF Own, ExecDone, CheckCancel, CkptRead, CkptResult, CkptCas, CkptLost, Deliver,
     OwnerDefer, OwnerExhausted, FinalResult, FinalPut, FinalCas, Tail, PollThrows, Executing,
     Watching, Release, Goto, Take
<1>5. ASSUME NEW v \in Workers, Sweep(v) PROVE UNCHANGED status
  BY <1>5 DEF Sweep, RetryQuery, RecoverQuery, RecoverDone, ParentCancelled, CancelRead,
     ClearCancel, ReapRead, RetryRead, RecoverRead, munin, activity
<1>6. ASSUME NEW a \in Actors, Settle(a) \/ JobThrows(a) PROVE FALSE
  BY <1>6, SettleMoves DEF Terminalizing
<1>7. ASSUME NEW v \in Workers, Process(v) PROVE UNCHANGED status
  BY <1>7 DEF Process, Shutdown, StopRead, Exit, Crash, Restart, munin
<1> QED BY <1>1, <1>2, <1>3, <1>4, <1>5, <1>6, <1>7 DEF Next

(* An owner whose checkpoint was reclaimed while it delivered gives up its *)
(* last write, however the reclaim, a late renewal and the delivery        *)
(* interleave.                                                             *)
THEOREM AlwaysFenced == Spec => FencedOwner
<1>1. Init => IFence
  <2> SUFFICES ASSUME Init PROVE \A w \in Workers : Fenced(w)
    BY CkptInit DEF IFence
  <2> QED BY ActorFacts DEF Init, Fenced
<1>2. IFence /\ [Next]_vars => IFence'
  BY CkptStep, FenceStep DEF IFence
<1>3. IFence /\ [Next]_vars =>
        [\A w \in Workers : LET t == cur[w] IN
            pc[Poll(w)] = "cas" /\ pc'[Poll(w)] # "cas" /\ status[t].owner # w
                => status'[t] = status[t]]_vars
  <2> SUFFICES ASSUME IFence, [Next]_vars, NEW w \in Workers, pc[Poll(w)] = "cas",
                      pc'[Poll(w)] # "cas", status[cur[w]].owner # w
               PROVE  status'[cur[w]] = status[cur[w]]
    OBVIOUS
  <2>1. Poll(w) \notin fresh
    BY DEF IFence, Fenced, AtFence
  <2>2. FinalCas(w) => UNCHANGED status
    BY <2>1 DEF FinalCas
  <2> QED BY <2>2, LeavesCas DEF IFence, ICkpt
<1> QED BY <1>1, <1>2, <1>3, PTL DEF Spec, FencedOwner

-----------------------------------------------------------------------------
(* DeliveredWhenRequired.  What an activity is about to write of a task is *)
(* backed: a success under require or defer has a delivery behind it, or   *)
(* has nothing to deliver.                                                 *)

Lenient(w) == policy[w] \notin {"require", "defer"}

Judged(w) ==
    /\ proc[w] = "down" => pc[Poll(w)] = "idle"
    /\ pc[Poll(w)] = "check" => val[Poll(w)] \in {"ok", "fail"}
    /\ pc[Poll(w)] \in {"res", "put"} =>
          /\ val[Poll(w)] \in {"ok", "fail", "cancelled"}
          /\ val[Poll(w)] = "ok" => policy[w] = "off" \/ cur[w] \notin Manifest
    /\ pc[Poll(w)] \in {"dres", "cas"} /\ val[Poll(w)] \in {"ok", "warn"} =>
          cur[w] \in delivered \/ Lenient(w)
Redone(a) ==
    pc[a] \in {"recRes", "recCas"} /\ val[a] \in {"ok", "warn"} =>
        job[a] \in delivered \/ Lenient(a[1])
IEarned == /\ ICkpt /\ (\A w \in Workers : Judged(w)) /\ \A a \in Actors : Redone(a)

(* What was delivered stays delivered.                                     *)
LEMMA DeliveredStays == ASSUME [Next]_vars PROVE delivered \subseteq delivered'
<1>1. ASSUME NEW w \in Workers, Own(w) \/ PollThrows(w) PROVE delivered \subseteq delivered'
  BY <1>1 DEF Own, ExecDone, CheckCancel, CkptRead, CkptResult, CkptCas, CkptLost, Deliver, Reach,
     OwnerDefer, OwnerExhausted, FinalResult, FinalPut, FinalCas, Tail, PollThrows, history
<1>2. ASSUME NEW a \in Actors, Settle(a) \/ JobThrows(a) PROVE delivered \subseteq delivered'
  BY <1>2 DEF Settle, CancelCas, CancelResult, FailCas, FailResult, Reclaim, ReadBase, Redeliver,
     Reach, RecDefer, RecExhausted, RecResult, RecCas, JobThrows, history
<1>3. ASSUME NEW w \in Workers, Claim(w) \/ Renewal(w) \/ Watch(w) \/ Sweep(w) \/ Process(w)
      PROVE  delivered \subseteq delivered'
  BY <1>3 DEF Claim, ClaimCas, ClaimAckLost, ClaimRead, Renewal, RenewSend, RenewLand, Watch,
     WatchRead, WatchLand, Sweep, RetryQuery, RecoverQuery, RecoverDone, ParentCancelled, CancelRead,
     ClearCancel, ReapRead, RetryRead, RecoverRead, Process, Shutdown, StopRead, Exit, Crash,
     Restart, history
<1>4. ASSUME Operator \/ (\E t \in Tasks : LeaseLapse(t)) \/ UNCHANGED vars
      PROVE  delivered \subseteq delivered'
  BY <1>4 DEF Operator, RequestCancel, RequestParentCancel, LeaseLapse, history, vars
<1> QED BY <1>1, <1>2, <1>3, <1>4 DEF Next

(* The steps that leave what a poller is about to write as it is.          *)
LEMMA JudgedKept ==
    ASSUME NEW w \in Workers, Judged(w), delivered \subseteq delivered', policy'[w] = policy[w],
           \/ pc'[Poll(w)] = pc[Poll(w)] /\ val'[Poll(w)] = val[Poll(w)] /\ cur'[w] = cur[w]
           \/ pc'[Poll(w)] \notin {"check", "res", "put", "dres", "cas"},
           proc'[w] = "down" => proc[w] = "down" /\ pc'[Poll(w)] = pc[Poll(w)]
    PROVE  Judged(w)'
  BY DEF Judged, Lenient

(* And what a reconciliation is about to write.                            *)
LEMMA RedoneKept ==
    ASSUME NEW a \in Actors, Redone(a), delivered \subseteq delivered', policy'[a[1]] = policy[a[1]],
           \/ pc'[a] \notin {"recRes", "recCas"}
           \/ pc[a] \in {"recRes", "recCas"} /\ val'[a] = val[a] /\ job'[a] = job[a]
    PROVE  Redone(a)'
  BY DEF Redone, Lenient

(* The owner's steps.                                                      *)
LEMMA OwnJudged ==
    ASSUME IEarned, [Next]_vars, NEW w \in Workers, Own(w) \/ PollThrows(w), NEW v \in Workers
    PROVE  Judged(v)'
<1> USE ActorFacts, ActorsApart DEF IEarned, ICkpt, ITyped, TypeOK, ActivityOK, ProcessOK
<1>1. UNCHANGED <<proc, policy>> /\ delivered \subseteq delivered'
  BY DeliveredStays DEF Own, ExecDone, CheckCancel, CkptRead, CkptResult, CkptCas, CkptLost, Deliver,
     OwnerDefer, OwnerExhausted, FinalResult, FinalPut, FinalCas, Tail, PollThrows, Release, process
<1>2. pc[Poll(w)] \in OwnLabels /\ proc[w] # "down" /\ cur[w] \in Tasks
  BY DEF Own, ExecDone, CheckCancel, CkptRead, CkptResult, CkptCas, CkptLost, Deliver, OwnerDefer,
     OwnerExhausted, FinalResult, FinalPut, FinalCas, Tail, PollThrows, Executing, Watching,
     OwnLabels, Judged, Owning
<1>3. CASE v # w
  <2>1. pc'[Poll(v)] = pc[Poll(v)] /\ val'[Poll(v)] = val[Poll(v)] /\ cur'[v] = cur[v]
    BY <1>3 DEF Own, ExecDone, CheckCancel, CkptRead, CkptResult, CkptCas, CkptLost, Deliver,
       OwnerDefer, OwnerExhausted, FinalResult, FinalPut, FinalCas, Tail, PollThrows, Release,
       Take, Goto, process
  <2> QED BY <1>1, <2>1, JudgedKept
<1>4. CASE v = w
  <2>1. CASE ExecDone(w)
    BY <1>1, <1>2, <1>4, <2>1 DEF ExecDone, Goto, Judged
  <2>2. CASE CheckCancel(w)
    BY <1>1, <1>2, <1>4, <2>2 DEF CheckCancel, Goto, Judged
  <2>3. CASE Deliver(w)
    <3>1. PICK k \in Deliveries :
             /\ Reach(cur[w], k) /\ UNCHANGED cur
             /\ val'[Poll(w)] \in {"cancelled", Judge(w, k)} /\ pc'[Poll(w)] \in {"budget", "dres"}
      BY <2>3 DEF Deliver, Goto
    <3>2. val'[Poll(w)] \in {"ok", "warn"} => cur[w] \in delivered' \/ Lenient(w)
      BY <3>1 DEF Judge, Reach, Deliveries, Lenient
    <3> QED BY <1>1, <1>2, <1>4, <3>1, <3>2 DEF Judged, Lenient
  <2>4. CASE OwnerExhausted(w)
    BY <1>1, <1>2, <1>4, <2>4 DEF OwnerExhausted, Goto, Judged
  <2>5. CASE FinalResult(w)
    BY <1>1, <1>2, <1>4, <2>5 DEF FinalResult, Goto, Judged, process, Lenient
  <2>6. CASE CkptRead(w) \/ CkptResult(w) \/ CkptCas(w) \/ FinalPut(w)
    BY <1>1, <1>2, <1>4, <2>6, JudgedKept DEF CkptRead, CkptResult, CkptCas, FinalPut, Goto, process
  <2>7. CASE FinalCas(w) \/ CkptLost(w) \/ OwnerDefer(w) \/ Tail(w) \/ PollThrows(w)
    BY <1>1, <1>2, <1>4, <2>7, JudgedKept, SMTT(40) DEF FinalCas, CkptLost, OwnerDefer, Tail, PollThrows,
       Release, Goto, Take, Polled
  <2> QED BY <2>1, <2>2, <2>3, <2>4, <2>5, <2>6, <2>7 DEF Own
<1> QED BY <1>3, <1>4

(* A reconciliation writes a success only of what it delivered.            *)
LEMMA SettleRedone ==
    ASSUME IEarned, [Next]_vars, NEW a \in Actors, Settle(a) \/ JobThrows(a), NEW b \in Actors
    PROVE  Redone(b)'
<1> USE DEF IEarned, ICkpt, ITyped, TypeOK, ActivityOK
<1>1. UNCHANGED policy /\ delivered \subseteq delivered'
  BY DeliveredStays, SettleMoves
<1>2. CASE b # a
  <2>1. pc'[b] = pc[b] /\ job'[b] = job[b]
    BY <1>2, SettleMoves
  <2>2. val'[b] = val[b]
    BY <1>2 DEF Settle, CancelCas, CancelResult, FailCas, FailResult, Reclaim, ReadBase, Redeliver,
       RecDefer, RecExhausted, RecResult, RecCas, JobThrows
  <2> QED BY <1>1, <2>1, <2>2, RedoneKept
<1>3. CASE b = a
  <2>1. CASE Redeliver(a)
    <3>1. CASE \E k \in Deliveries : Reach(job[a], k) /\ val' = [val EXCEPT ![a] = Judge(a[1], k)]
      BY <1>1, <1>3, <2>1, <3>1 DEF Redeliver, Judge, Reach, Deliveries, Redone, Lenient
    <3>2. CASE val' = [val EXCEPT ![a] = "fail"]
      BY <1>1, <1>3, <3>2 DEF Redone
    <3> QED BY <2>1, <3>1, <3>2 DEF Redeliver
  <2>2. CASE RecExhausted(a)
    BY <1>1, <1>3, <2>2 DEF RecExhausted, Redone
  <2>3. CASE RecResult(a)
    BY <1>1, <1>3, <2>3, RedoneKept DEF RecResult
  <2>4. CASE ~(Redeliver(a) \/ RecExhausted(a) \/ RecResult(a))
    <3>1. pc'[a] \notin {"recRes", "recCas"}
      BY <2>4 DEF Settle, CancelCas, CancelResult, FailCas, FailResult, Reclaim, ReadBase, RecDefer,
         RecCas, JobThrows, Goto, Take, Proceed, Abandon, Onward, Polled
    <3> QED BY <1>1, <1>3, <3>1, RedoneKept
  <2> QED BY <2>1, <2>2, <2>3, <2>4
<1> QED BY <1>2, <1>3

(* Every step keeps both.                                                  *)
LEMMA EarnedStep == IEarned /\ [Next]_vars => IEarned'
<1> SUFFICES ASSUME IEarned, [Next]_vars, NEW v \in Workers, NEW b \in Actors
             PROVE  Judged(v)' /\ Redone(b)'
  <2>1. \A v \in Workers : Poll(v) \in Actors
    BY ActorFacts
  <2>2. \A b \in Actors : b[1] \in Workers
    BY DEF Actors
  <2> QED BY CkptStep, <2>1, <2>2 DEF IEarned
<1> USE ActorFacts, ActorsApart DEF IEarned, ICkpt, ITyped, TypeOK, ActivityOK, ProcessOK
<1>a. delivered \subseteq delivered' /\ b[1] \in Workers
  BY DeliveredStays DEF Actors
<1>0. Judged(v) /\ Redone(b) /\ (UNCHANGED <<pc, val, cur, job, proc, policy>> => Judged(v)' /\ Redone(b)')
  BY <1>a, JudgedKept, RedoneKept
<1>1. CASE Operator \/ \E t \in Tasks : LeaseLapse(t)
  BY <1>0, <1>1 DEF Operator, RequestCancel, RequestParentCancel, LeaseLapse, process, activity
<1>2. ASSUME NEW w \in Workers, Claim(w) PROVE Judged(v)' /\ Redone(b)'
  <2>1. /\ UNCHANGED <<val, proc, policy>> /\ pc[Poll(w)] \notin {"recRes", "recCas"}
        /\ \E l \in {"claim", "fail", "run", "idle", "over", pc[Poll(w)]} :
              pc' = [pc EXCEPT ![Poll(w)] = l] /\ l \notin {"check", "res", "put", "dres", "cas"}
        /\ \A u \in Workers : u # w => cur'[u] = cur[u]
        /\ \A c \in Actors : c # Poll(w) => job'[c] = job[c]
    BY <1>2 DEF Claim, ClaimCas, ClaimAckLost, ClaimRead, Goto, Take, Polled, process
  <2>2. proc[w] # "down"
    BY <1>0, <1>2 DEF Claim, ClaimCas, ClaimAckLost, ClaimRead, Judged
  <2>3. Judged(v)'
    BY <1>a, <1>0, <2>1, <2>2, JudgedKept
  <2>4. Redone(b)'
    BY <1>a, <1>0, <2>1, RedoneKept
  <2> QED BY <2>3, <2>4
<1>3. ASSUME NEW w \in Workers, Renewal(w) \/ Watch(w) PROVE Judged(v)' /\ Redone(b)'
  BY <1>0, <1>3 DEF Renewal, RenewSend, RenewLand, Watch, WatchRead, WatchLand, process, activity
<1>4. ASSUME NEW w \in Workers, Own(w) \/ PollThrows(w) PROVE Judged(v)' /\ Redone(b)'
  <2>1. /\ UNCHANGED policy
        /\ \E l \in OwnLabels \cup {"idle", "over"} : pc' = [pc EXCEPT ![Poll(w)] = l]
        /\ \A c \in Actors : c # Poll(w) => job'[c] = job[c] /\ val'[c] = val[c]
    BY <1>4 DEF Own, ExecDone, CheckCancel, CkptRead, CkptResult, CkptCas, CkptLost, Deliver,
       OwnerDefer, OwnerExhausted, FinalResult, FinalPut, FinalCas, Tail, PollThrows, Release,
       Take, Goto, Polled, OwnLabels, process
  <2>2. Redone(b)'
    BY <1>a, <1>0, <2>1, RedoneKept DEF OwnLabels
  <2> QED BY <1>4, <2>2, OwnJudged
<1>5. ASSUME NEW w \in Workers, Sweep(w) PROVE Judged(v)' /\ Redone(b)'
  <2>1. /\ UNCHANGED <<val, cur, policy>>
        /\ \A u \in Workers : proc'[u] \in {"up", proc[u]}
    BY <1>5 DEF Sweep, RetryQuery, RecoverQuery, RecoverDone, ParentCancelled, CancelRead,
       ClearCancel, ReapRead, RetryRead, RecoverRead, process, activity
  <2>2. \A c \in Actors : \/ pc'[c] = pc[c] /\ job'[c] = job[c]
                          \/ /\ pc'[c] \in {"recover", "idle", "cancel", "reclaim", "fail"}
                             /\ pc[c] \in {"boot", "recover", "idle"}
    <3>1. CASE RetryQuery(w) \/ RecoverQuery(w) \/ RecoverDone(w) \/ ParentCancelled(w)
      BY <3>1 DEF RetryQuery, RecoverQuery, RecoverDone, ParentCancelled, Goto, activity
    <3>2. CASE \E t \in Tasks : CancelRead(w, t) \/ ClearCancel(w, t) \/ ReapRead(w, t)
      BY <3>2 DEF CancelRead, ClearCancel, ReapRead, Take, Course, activity
    <3>3. CASE \E t \in Tasks : RetryRead(w, t) \/ RecoverRead(w, t)
      BY <3>3 DEF RetryRead, RecoverRead, Take, Course
    <3> QED BY <1>5, <3>1, <3>2, <3>3 DEF Sweep
  <2>3. proc'[v] = "down" => proc[v] = "down" /\ pc'[Poll(v)] = pc[Poll(v)]
    <3>1. proc[v] = "down" => v # w \/ pc'[Poll(v)] = pc[Poll(v)]
      <4>1. CASE RetryQuery(w) \/ RecoverQuery(w) \/ RecoverDone(w) \/ ParentCancelled(w)
        BY <1>0, <4>1 DEF RetryQuery, RecoverQuery, RecoverDone, ParentCancelled, Goto, Judged, activity
      <4>2. CASE \E t \in Tasks : CancelRead(w, t) \/ ClearCancel(w, t) \/ ReapRead(w, t)
        BY <1>0, <4>2 DEF CancelRead, ClearCancel, ReapRead, Take, activity
      <4>3. CASE \E t \in Tasks : RetryRead(w, t) \/ RecoverRead(w, t)
        BY <1>0, <4>3 DEF RetryRead, RecoverRead, Take, Judged
      <4> QED BY <1>5, <4>1, <4>2, <4>3 DEF Sweep
    <3>2. v # w => pc'[Poll(v)] = pc[Poll(v)]
      <4>1. CASE RetryQuery(w) \/ RecoverQuery(w) \/ RecoverDone(w) \/ ParentCancelled(w)
        BY <4>1 DEF RetryQuery, RecoverQuery, RecoverDone, ParentCancelled, Goto, activity
      <4>2. CASE \E t \in Tasks : CancelRead(w, t) \/ ClearCancel(w, t) \/ ReapRead(w, t)
        BY <4>2 DEF CancelRead, ClearCancel, ReapRead, Take, activity
      <4>3. CASE \E t \in Tasks : RetryRead(w, t) \/ RecoverRead(w, t)
        BY <4>3 DEF RetryRead, RecoverRead, Take
      <4> QED BY <1>5, <4>1, <4>2, <4>3 DEF Sweep
    <3> QED BY <2>1, <3>1, <3>2
  <2>4. Judged(v)'
    BY <1>a, <1>0, <2>1, <2>2, <2>3, JudgedKept
  <2>5. Redone(b)'
    BY <1>a, <1>0, <2>1, <2>2, RedoneKept
  <2> QED BY <2>4, <2>5
<1>6. ASSUME NEW a \in Actors, Settle(a) \/ JobThrows(a) PROVE Judged(v)' /\ Redone(b)'
  <2>1. UNCHANGED <<proc, cur, policy>>
    BY <1>6, SettleMoves DEF process
  <2>2. CASE a = Poll(v)
    <3>1. pc'[Poll(v)] \notin {"check", "res", "put", "dres", "cas"}
      BY <1>6, <2>2, SettleMoves DEF Rest, Ongoing, Reconciling
    <3>2. proc[v] # "down"
      BY <1>0, <1>6, <2>2, SettleMoves DEF Judged, Terminalizing
    <3> QED BY <1>a, <1>0, <1>6, <2>1, <3>1, <3>2, JudgedKept, SettleRedone
  <2>3. CASE a # Poll(v)
    <3>1. pc'[Poll(v)] = pc[Poll(v)]
      BY <1>6, <2>3, SettleMoves
    <3>2. val'[Poll(v)] = val[Poll(v)]
      BY <1>6, <2>3 DEF Settle, CancelCas, CancelResult, FailCas, FailResult, Reclaim, ReadBase,
         Redeliver, RecDefer, RecExhausted, RecResult, RecCas, JobThrows
    <3> QED BY <1>a, <1>0, <1>6, <2>1, <3>1, <3>2, JudgedKept, SettleRedone
  <2> QED BY <2>2, <2>3
<1>7. ASSUME NEW w \in Workers, Process(w) PROVE Judged(v)' /\ Redone(b)'
  <2>1. CASE Exit(w) \/ Crash(w)
    <3>1. Die(w) /\ UNCHANGED policy
      BY <2>1 DEF Exit, Crash
    <3>2. IF v = w THEN pc'[Poll(v)] = "idle" ELSE pc'[Poll(v)] = pc[Poll(v)]
      BY <3>1, DieResets
    <3>3. v # w => cur'[v] = cur[v] /\ val'[Poll(v)] = val[Poll(v)] /\ proc'[v] = proc[v]
      BY <3>1 DEF Die, Poll
    <3>4. Judged(v)'
      BY <1>a, <1>0, <3>1, <3>2, <3>3, JudgedKept DEF Judged
    <3>5. \/ pc'[b] = "idle"
          \/ pc'[b] = pc[b] /\ val'[b] = val[b] /\ job'[b] = job[b]
      BY <3>1 DEF Die
    <3>6. Redone(b)'
      BY <1>a, <1>0, <3>1, <3>5, RedoneKept
    <3> QED BY <3>4, <3>6
  <2>2. CASE Shutdown(w) \/ StopRead(w)
    <3>1. /\ UNCHANGED <<val, cur, policy>>
          /\ \A u \in Workers : proc'[u] \in {"stopping", proc[u]}
          /\ \A u \in Workers : pc'[Poll(u)] = pc[Poll(u)]
          /\ \/ pc'[b] = pc[b] /\ job'[b] = job[b]
             \/ pc'[b] \in {"stop", "exit", "fail"}
      BY <2>2 DEF Shutdown, StopRead, Goto, Take, process
    <3> QED BY <1>a, <1>0, <3>1, JudgedKept, RedoneKept
  <2>3. CASE Restart(w)
    <3>1. /\ UNCHANGED <<val, cur, job>> /\ proc' = [proc EXCEPT ![w] = "booting"]
          /\ pc' = [pc EXCEPT ![Poll(w)] = "boot"]
          /\ \A u \in Workers : u # w => policy'[u] = policy[u]
          /\ proc[w] = "down"
      BY <2>3 DEF Restart, Goto, HistoryOK
    <3>2. Judged(v)'
      BY <1>a, <1>0, <3>1, JudgedKept DEF Judged
    <3>3. CASE b[1] = w
      <4>1. b \in {Poll(w), Reap(w), Retry(w), Stop(w)}
        BY <3>3 DEF Actors, Threads, Poll, Reap, Retry, Stop
      <4>2. pc'[b] \notin {"recRes", "recCas"}
        BY <3>1, <4>1, SMTT(40) DEF Shape, Places, Booting
      <4> QED BY <3>2, <4>2 DEF Redone
    <3>4. CASE b[1] # w
      <4>1. pc'[b] = pc[b] /\ policy'[b[1]] = policy[b[1]]
        BY <1>a, <3>1, <3>4 DEF Poll
      <4> QED BY <1>a, <1>0, <3>1, <3>2, <4>1, RedoneKept
    <3> QED BY <3>2, <3>3, <3>4
  <2> QED BY <1>7, <2>1, <2>2, <2>3 DEF Process
<1>8. CASE UNCHANGED vars
  BY <1>0, <1>8 DEF vars, process, activity
<1> QED BY <1>1, <1>2, <1>3, <1>4, <1>5, <1>6, <1>7, <1>8 DEF Next

(* A task is completed by its owner's last write or by a reconciliation.   *)
Completes(t) == status[t].life # "completed" /\ status'[t].life = "completed"
LEMMA CompletedBy ==
    ASSUME ITyped, [Next]_vars, NEW t \in Tasks, Completes(t)
    PROVE  \/ \E w \in Workers : /\ FinalPut(w) \/ (FinalCas(w) /\ Poll(w) \in fresh)
                                 /\ t = cur[w] /\ val[Poll(w)] \in {"ok", "warn"}
           \/ \E a \in Actors : /\ RecCas(a) /\ a \in fresh
                                /\ t = job[a] /\ val[a] \in {"ok", "warn"}
<1> USE DEF ITyped, TypeOK, MuninOK, Completes
<1>1. status' # status
  OBVIOUS
<1>2. \A u, s, k : Put(u, s, k) => u = t /\ s.life = "completed"
  <2> SUFFICES ASSUME NEW u, NEW s, NEW k, Put(u, s, k) PROVE u = t /\ s.life = "completed"
    OBVIOUS
  <2>1. status' = [status EXCEPT ![u] = s]
    BY DEF Put
  <2> QED BY <2>1
<1>3. ~Operator /\ ~(\E u \in Tasks : LeaseLapse(u)) /\ ~UNCHANGED vars
  <2>1. ASSUME NEW u \in Tasks, RequestCancel(u) PROVE FALSE
    BY <1>2, <2>1 DEF RequestCancel, Entry
  <2>2. ASSUME NEW u \in Tasks, LeaseLapse(u) PROVE FALSE
    BY <2>2 DEF LeaseLapse, Entry
  <2> QED BY <1>1, <2>1, <2>2 DEF Operator, RequestParentCancel, vars, munin
<1>4. ASSUME NEW w \in Workers,
             Claim(w) \/ Renewal(w) \/ Watch(w) \/ PollThrows(w) \/ Sweep(w) \/ Process(w)
      PROVE  FALSE
  <2>1. ~(\E d : Put(job[Poll(w)], Leased(w, d), {})) /\ ~Put(flight[w], Leased(w, "none"), {})
    BY <1>2, BuiltLives
  <2>2. ~(Claim(w) \/ Renewal(w))
    BY <1>1, <2>1 DEF Claim, ClaimCas, ClaimAckLost, ClaimRead, Renewal, RenewSend, RenewLand, munin
  <2>3. ~(\E u \in Tasks : ClearCancel(w, u))
    <3> SUFFICES ASSUME NEW u \in Tasks, ClearCancel(w, u) PROVE FALSE
      OBVIOUS
    <3>1. u = t /\ [status[u] EXCEPT !.cancel = FALSE].life = "completed"
      BY <1>2 DEF ClearCancel
    <3>2. status[u] \in Entry
      OBVIOUS
    <3> QED BY <3>1, <3>2 DEF Entry
  <2> QED BY <1>1, <1>4, <2>2, <2>3 DEF Watch, WatchRead, WatchLand, PollThrows, Sweep, RetryQuery,
             RecoverQuery, RecoverDone, ParentCancelled, CancelRead, ReapRead, RetryRead,
             RecoverRead, Process, Shutdown, StopRead, Exit, Crash, Restart, munin
<1>5. \A v : LifeOf(v) = "completed" => v \in {"ok", "warn"}
  BY DEF LifeOf
<1>6. ASSUME NEW w \in Workers, Own(w)
      PROVE  /\ FinalPut(w) \/ (FinalCas(w) /\ Poll(w) \in fresh)
             /\ t = cur[w] /\ val[Poll(w)] \in {"ok", "warn"}
  <2>1. ~CkptCas(w)
    BY <1>2, BuiltLives DEF CkptCas
  <2>2. FinalPut(w) \/ (FinalCas(w) /\ Poll(w) \in fresh)
    BY <1>1, <1>6, <2>1 DEF Own, ExecDone, CheckCancel, CkptRead, CkptResult, CkptLost, Deliver,
       OwnerDefer, OwnerExhausted, FinalResult, FinalCas, Tail, munin
  <2>3. t = cur[w] /\ LifeOf(val[Poll(w)]) = "completed"
    BY <1>2, <2>2, BuiltLives DEF FinalPut, FinalCas
  <2> QED BY <1>5, <2>2, <2>3
<1>7. ASSUME NEW a \in Actors, Settle(a) \/ JobThrows(a)
      PROVE  RecCas(a) /\ a \in fresh /\ t = job[a] /\ val[a] \in {"ok", "warn"}
  <2>1. /\ \A d : ~Put(job[a], Ended("cancelled", d), {}) /\ ~Put(job[a], Ended("failed", d), {})
        /\ ~Put(job[a], Leased(a[1], "pending"), {a})
    BY <1>2, BuiltLives
  <2>2. RecCas(a) /\ a \in fresh
    BY <1>1, <1>7, <2>1 DEF Settle, CancelCas, CancelResult, FailCas, FailResult, Reclaim, ReadBase,
       Redeliver, RecDefer, RecExhausted, RecResult, RecCas, JobThrows, munin
  <2>3. t = job[a] /\ LifeOf(val[a]) = "completed"
    BY <1>2, <2>2, BuiltLives DEF RecCas
  <2> QED BY <1>5, <2>2, <2>3
<1> QED BY <1>3, <1>4, <1>6, <1>7 DEF Next

(* Under require or defer no crash, retry, reconciliation or change of     *)
(* policy in between completes a task whose artefacts did not arrive.      *)
THEOREM AlwaysDelivered == Spec => DeliveredWhenRequired
<1>1. Init => IEarned
  <2> SUFFICES ASSUME Init PROVE (\A w \in Workers : Judged(w)) /\ \A a \in Actors : Redone(a)
    BY CkptInit DEF IEarned
  <2> QED BY ActorFacts DEF Init, Judged, Redone
<1>2. IEarned /\ [Next]_vars =>
        [\A a \in Actors, t \in Manifest :
            pc'[a] # pc[a] /\ policy[a[1]] \in {"require", "defer"}
                /\ status[t].life # "completed" /\ status'[t].life = "completed"
            => t \in delivered]_vars
  <2> SUFFICES ASSUME IEarned, [Next]_vars, NEW a \in Actors, NEW t \in Manifest,
                      pc'[a] # pc[a], policy[a[1]] \in {"require", "defer"}, Completes(t)
               PROVE  t \in delivered
    BY DEF Completes
  <2> USE ActorFacts DEF IEarned, ICkpt, ITyped, TypeOK, ActivityOK
  <2>1. t \in Tasks
    BY SubsetAssumption
  <2>2. ASSUME NEW w \in Workers, FinalPut(w) \/ (FinalCas(w) /\ Poll(w) \in fresh),
               t = cur[w], val[Poll(w)] \in {"ok", "warn"}
        PROVE  t \in delivered
    <3>1. a = Poll(w) /\ a[1] = w
      BY <2>2 DEF FinalPut, FinalCas, Goto, Poll
    <3> QED BY <2>2, <3>1 DEF FinalPut, FinalCas, Judged, Lenient
  <2>3. ASSUME NEW b \in Actors, RecCas(b), t = job[b], val[b] \in {"ok", "warn"}
        PROVE  t \in delivered
    <3>1. a = b
      BY <2>3, SettleMoves DEF Settle
    <3> QED BY <2>3, <3>1 DEF RecCas, Redone, Lenient
  <2> QED BY <2>1, <2>2, <2>3, CompletedBy
<1> QED BY <1>1, <1>2, EarnedStep, PTL DEF Spec, DeliveredWhenRequired
=============================================================================
