---------------------------- MODULE Experiments ----------------------------
(* The experiments that compare a challenger with the champion of a scope. *)
(* A tick of the cadence (src/learning/experiment-cadence.ts) packages what *)
(* the pool of rated tasks proposes, hands it to the store, and writes a    *)
(* summary of what has been decided. Calls to the store                     *)
(* (src/learning/experiment-store.ts) record runs, rate them, and promote.  *)
(* One scope and one change axis: the natural key of an experiment is its   *)
(* pair of configurations, its name is derived from what it was packaged    *)
(* from, so that a pool that has grown gives the same key another name.     *)
EXTENDS Naturals, FiniteSets, Sequences

CONSTANTS
    Names,      \* experiments
    Champion,   \* the configuration an experiment starts from
    Challenger, \* and the one it tries
    Pools,      \* what each pool of rated tasks proposes, best first
    Results,    \* the runs of each experiment that may be recorded
    Holdout,    \* the samples held out
    MinPairs,   \* gates.minMatchedPairs
    Ticks,      \* cadences
    Clients,    \* calls to the store that may overlap
    MaxLosses,  \* bound: deaths, lost answers, refused packagings
    Nothing

Products == {"unrated", "useful", "discarded"}
Samples == {r.sample : r \in UNION {Results[e] : e \in Names}}
Observations == [arm : {"champion", "challenger"}, sample : Samples, pass : BOOLEAN, product : Products]
Statuses == {"running", "promotion-ready", "rejected", "promoted"}
Documents == [status : Statuses, runs : SUBSET Observations]
Configurations == {Champion[e] : e \in Names} \cup {Challenger[e] : e \in Names}
Champions == [config : Configurations, by : Names \cup {Nothing}]

ASSUME ScopeAssumption ==
    /\ \A e \in Names : Results[e] \subseteq Observations
    /\ Pools \in Seq(Seq(Names)) /\ Pools # <<>> /\ MaxLosses \in Nat
\* Nothing is no document or experiment, and none is named as the champion's.
ASSUME NothingAssumption == Nothing \notin Documents \cup Champions \cup Statuses \cup Names /\ "champ" \notin Names

VARIABLES
    champ,      \* the champion document of the scope
    exps,       \* the experiment documents
    index,      \* the cadence index: experiments in flight
    summary,    \* the reviewable summaries
    pool,       \* the pool of rated tasks as it is now
    tick,       \* each cadence
    request,    \* each call
    current,    \* <<call, document>>: read and not written since
    losses

scopeVars == <<champ, exps, index, summary, pool, tick, request, current, losses>>
docs == <<champ, exps, index, summary>>

Key(e) == <<Champion[e], Challenger[e]>>
Tracked(e, entries) == \E f \in entries : Key(f) = Key(e)

----------------------------------------------------------------------------
(* evaluateLearningExperiment, for quality-rate: a run is a record with its *)
(* arm, sample, whether an independent verifier passed it, and the rating   *)
(* of its product.                                                          *)
Arm(a, runs) == {r \in runs : r.arm = a}
Paired(runs) ==
    {r \in runs : \E q \in runs : q.sample = r.sample /\ q.arm # r.arm}
Rated(runs)  == {r \in runs : r.product # "unrated"}
Passed(runs) == {r \in runs : r.pass}
Useful(runs) == {r \in runs : r.product = "useful"}
Size(runs)   == Cardinality(runs)

(* Of what share m of M and n of N are, the first is the smaller one. *)
Less(m, M, n, N) == m * N < n * M

Gathering(c, d) ==
    \/ Size(c) < MinPairs
    \/ ~\E r \in c : r.sample \in Holdout
    \/ 2 * Size(Rated(c)) < Size(c)
    \/ 2 * Size(Rated(d)) < Size(d)

Evaluate(runs) ==
    LET c == Arm("champion", Paired(runs))
        d == Arm("challenger", Paired(runs))
    IN IF Gathering(c, d) THEN "running"
       ELSE IF Size(Passed(d)) > Size(Passed(c))
               /\ ~Less(Size(Useful(d)), Size(Rated(d)), Size(Useful(c)), Size(Rated(c)))
            THEN "promotion-ready" ELSE "rejected"

(* A run of the challenger passed and its product was accepted. *)
Accepted(runs) == \E r \in runs : r.arm = "challenger" /\ r.pass /\ r.product = "useful"

Document(runs) == [status |-> Evaluate(runs), runs |-> runs]
Changed(doc, new) == Document((doc.runs \ new[1]) \cup new[2])
Decided == {"promotion-ready", "rejected"}
Status(e) == IF exps[e] = Nothing THEN Nothing ELSE exps[e].status

----------------------------------------------------------------------------
Unread(d) == current' = {f \in current : f[2] # d}
Loss == losses < MaxLosses /\ losses' = losses + 1
NoRequest == [at |-> "idle", e |-> Nothing, new |-> Nothing]
Resting == [at |-> "rest", e |-> Nothing, todo |-> {}]

(* observe, rate: the document is read, and swapped.  A lost race reads     *)
(* again: the same call over.                                               *)
ReadFor(c, e, at, new) ==
    /\ request[c] = NoRequest
    /\ request' = [request EXCEPT ![c] = [at |-> at, e |-> e, new |-> new]]
    /\ current' = current \cup {<<c, e>>}
    /\ UNCHANGED <<docs, pool, tick, losses>>

Observe(c) ==
    \E e \in Names : \E r \in Results[e] :
        /\ Status(e) = "running"
        /\ ~\E q \in exps[e].runs : q.arm = r.arm /\ q.sample = r.sample
        /\ ReadFor(c, e, "write", <<{}, {r}>>)

Rate(c) ==
    \E e \in Names : Status(e) = "running" /\
        \E r \in exps[e].runs, p \in {"useful", "discarded"} :
            /\ r.product = "unrated"
            /\ ReadFor(c, e, "write", <<{r}, {[r EXCEPT !.product = p]}>>)

(* The call ends, having written the documents of D. *)
EndRequest(c, D) ==
    /\ request' = [request EXCEPT ![c] = NoRequest]
    /\ current' = {f \in current : f[1] # c /\ f[2] \notin D}

WriteBlind(c) ==    \* mutant: without the version that was read
    /\ request[c].at = "write"
    /\ exps' = [exps EXCEPT ![request[c].e] = Changed(@, request[c].new)]
    /\ EndRequest(c, {request[c].e})
    /\ UNCHANGED <<champ, index, summary, pool, tick, losses>>

WriteRun(c) ==
    /\ request[c].at = "write"
    /\ LET e == request[c].e IN
         IF <<c, e>> \in current
         THEN exps' = [exps EXCEPT ![e] = Changed(@, request[c].new)] /\ EndRequest(c, {e})
         ELSE EndRequest(c, {}) /\ UNCHANGED exps
    /\ UNCHANGED <<champ, index, summary, pool, tick, losses>>

(* promote: the experiment, the champion, the swap of the champion, the     *)
(* swap of the experiment.  What an earlier call has half done is finished. *)
Promote(c) ==
    \E e \in Names :
        /\ Status(e) = "promotion-ready" /\ Accepted(exps[e].runs)
        /\ ReadFor(c, e, "crown", Nothing)

Crown(c) ==
    /\ request[c].at = "crown"
    /\ LET e == request[c].e IN
         IF champ.config = Champion[e]
         THEN /\ request' = [request EXCEPT ![c].at = "swap"]
              /\ current' = current \cup {<<c, "champ">>}
         ELSE IF champ = [config |-> Challenger[e], by |-> e]
              THEN request' = [request EXCEPT ![c].at = "mark"] /\ UNCHANGED current
              ELSE EndRequest(c, {})
    /\ UNCHANGED <<docs, pool, tick, losses>>

SwapBlind(c) ==     \* mutant: without the version that was read
    /\ request[c].at = "swap"
    /\ champ' = [config |-> Challenger[request[c].e], by |-> request[c].e] /\ Unread("champ")
    /\ request' = [request EXCEPT ![c].at = "mark"]
    /\ UNCHANGED <<exps, index, summary, pool, tick, losses>>

Swap(c) ==
    /\ request[c].at = "swap"
    /\ LET e == request[c].e IN
         IF <<c, "champ">> \in current
         THEN /\ champ' = [config |-> Challenger[e], by |-> e] /\ Unread("champ")
              /\ request' = [request EXCEPT ![c].at = "mark"]
         ELSE EndRequest(c, {}) /\ UNCHANGED champ
    /\ UNCHANGED <<exps, index, summary, pool, tick, losses>>

Mark(c) ==
    /\ request[c].at = "mark"
    /\ LET e == request[c].e IN
         IF <<c, e>> \in current
         THEN exps' = [exps EXCEPT ![e].status = "promoted"] /\ EndRequest(c, {e})
         ELSE EndRequest(c, {}) /\ UNCHANGED exps
    /\ UNCHANGED <<champ, index, summary, pool, tick, losses>>

----------------------------------------------------------------------------
(* A tick: the pool is loaded, the index is read, and the best proposal     *)
(* that is not in flight is packaged.                                       *)
Go(t, at) == tick' = [tick EXCEPT ![t].at = at]
Begin(t, at, e) == tick' = [tick EXCEPT ![t] = [at |-> at, e |-> e, todo |-> index]]

Load(t) ==
    /\ tick[t].at = "rest"
    /\ LET new == {i \in DOMAIN Pools[pool] : ~Tracked(Pools[pool][i], index)} IN
         \/ new = {} /\ Begin(t, "conclude", Nothing)
         \/ \E i \in new : (\A j \in new : i <= j) /\ Begin(t, "create", Pools[pool][i])
    /\ UNCHANGED <<docs, pool, request, current, losses>>

(* What the pool holds is refused, or the pool cannot be read. *)
RefusePackage(t) ==
    /\ tick[t].at = "create" /\ Loss /\ Go(t, "conclude")
    /\ UNCHANGED <<docs, pool, request, current>>

(* LearningExperimentStore.create *)
CreateRead(t) ==
    /\ tick[t].at = "create"
    /\ Go(t, IF exps[tick[t].e] = Nothing THEN "baseline" ELSE "append")
    /\ UNCHANGED <<docs, pool, request, current, losses>>

Baseline(t) ==
    /\ tick[t].at = "baseline"
    /\ Go(t, IF champ = Nothing THEN "seed"
             ELSE IF champ.config = Champion[tick[t].e] THEN "store" ELSE "conclude")
    /\ UNCHANGED <<docs, pool, request, current, losses>>

Seed(t) ==
    /\ tick[t].at = "seed"
    /\ champ' = [config |-> Champion[tick[t].e], by |-> Nothing] /\ Unread("champ")
    /\ Go(t, "store")
    /\ UNCHANGED <<exps, index, summary, pool, request, losses>>

Store(t) ==
    /\ tick[t].at = "store"
    /\ exps' = [exps EXCEPT ![tick[t].e] = Document({})] /\ Unread(tick[t].e)
    /\ Go(t, "append")
    /\ UNCHANGED <<champ, index, summary, pool, request, losses>>

(* appendCadenceIndexEntry: a key that is there is not entered again, and   *)
(* the tick concludes what it has packaged all the same.                    *)
Enter(t) ==
    /\ tick[t].at = "append"
    /\ LET e == tick[t].e IN
         /\ index' = IF Tracked(e, index) THEN index ELSE index \cup {e}
         /\ tick' = [tick EXCEPT ![t].at = "conclude", ![t].todo = @ \cup {e}]
    /\ UNCHANGED <<champ, exps, summary, pool, request, current, losses>>

After(t, e, at, next) == tick' = [tick EXCEPT ![t] = [at |-> at, e |-> next, todo |-> tick[t].todo \ {e}]]

ConcludeInFlight(t) ==  \* mutant: only what this tick has packaged
    /\ tick[t].at = "conclude"
    /\ \/ tick[t].todo = {} /\ tick' = [tick EXCEPT ![t] = Resting]
       \/ \E e \in tick[t].todo :
            IF e = tick[t].e /\ Status(e) \in Decided /\ summary[e] = Nothing
            THEN After(t, e, Status(e), e) ELSE After(t, e, "conclude", tick[t].e)
    /\ UNCHANGED <<docs, pool, request, current, losses>>

(* Each entry is observed; what is decided and has no summary gets one,     *)
(* after an export that may fail.                                           *)
ConcludeEntry(t) ==
    /\ tick[t].at = "conclude"
    /\ \/ tick[t].todo = {} /\ tick' = [tick EXCEPT ![t] = Resting]
       \/ \E e \in tick[t].todo :
            IF Status(e) \in Decided /\ summary[e] = Nothing
            THEN After(t, e, Status(e), e) ELSE After(t, e, "conclude", Nothing)
    /\ UNCHANGED <<docs, pool, request, current, losses>>

Summarize(t) ==
    /\ tick[t].at \in Decided
    /\ summary' = [summary EXCEPT ![tick[t].e] = IF @ = Nothing THEN tick[t].at ELSE @]
    /\ Go(t, "conclude")
    /\ UNCHANGED <<champ, exps, index, pool, request, current, losses>>

----------------------------------------------------------------------------
(* A process dies at any point; the timer starts the next tick.  A lost    *)
(* answer is a death after the write.                                       *)
TickDies(t) ==
    /\ tick[t].at # "rest" /\ Loss
    /\ tick' = [tick EXCEPT ![t] = Resting]
    /\ UNCHANGED <<docs, pool, request, current>>

CallDies(c) ==
    /\ request[c] # NoRequest /\ Loss /\ EndRequest(c, {})
    /\ UNCHANGED <<docs, pool, tick>>

(* More tasks are rated. *)
Grow ==
    /\ pool < Len(Pools) /\ pool' = pool + 1
    /\ UNCHANGED <<docs, tick, request, current, losses>>

Step(t) ==
    \/ Load(t) \/ CreateRead(t) \/ Baseline(t) \/ Seed(t) \/ Store(t)
    \/ Enter(t) \/ ConcludeEntry(t) \/ Summarize(t)

ScopeNext ==
    \/ \E t \in Ticks : Step(t) \/ RefusePackage(t) \/ TickDies(t)
    \/ \E c \in Clients : \/ Observe(c) \/ Rate(c) \/ WriteRun(c) \/ Promote(c)
                          \/ Crown(c) \/ Swap(c) \/ Mark(c) \/ CallDies(c)
    \/ Grow

(* A scope nobody has used, or one whose champion and one experiment are    *)
(* what an earlier tick and earlier calls have left.                        *)
ScopeInit ==
    /\ \/ champ = Nothing /\ exps = [e \in Names |-> Nothing] /\ index = {}
       \/ \E e \in Names, runs \in SUBSET UNION {Results[f] : f \in Names} :
            /\ runs \subseteq Results[e] /\ Evaluate(runs) = "promotion-ready"
            /\ \A q, r \in runs : q.arm = r.arm /\ q.sample = r.sample => q = r
            /\ champ = [config |-> Champion[e], by |-> Nothing]
            /\ exps = [f \in Names |-> IF f = e THEN Document(runs) ELSE Nothing]
            /\ index = {e}
    /\ summary = [e \in Names |-> Nothing]
    /\ pool = 1 /\ losses = 0
    /\ tick = [t \in Ticks |-> Resting]
    /\ request = [c \in Clients |-> NoRequest]
    /\ current = {}

ScopeSpec == ScopeInit /\ [][ScopeNext]_scopeVars /\ \A t \in Ticks : WF_scopeVars(Step(t))

----------------------------------------------------------------------------
(* The champion of a scope changes only to the challenger of an experiment  *)
(* that started from it, is stored as ready for promotion at that moment,   *)
(* and has an accepted run: whatever calls and ticks overlap, a stale       *)
(* experiment does not take the place of a newer champion.  The one that    *)
(* may be promoted already is that of a call which waited while another     *)
(* call promoted it and a second experiment led back to where it started.   *)
LedBack(e) ==
    /\ Status(e) = "promoted"
    /\ \E f \in Names \ {e} : /\ champ = [config |-> Champion[e], by |-> f]
                            /\ Challenger[f] = Champion[e] /\ Accepted(exps[f].runs)
ChampionSucceeds ==
    [][champ' # champ /\ champ # Nothing =>
        \E e \in Names : /\ champ.config = Champion[e]
                         /\ champ' = [config |-> Challenger[e], by |-> e]
                         /\ Status(e) = "promotion-ready" \/ LedBack(e)
                         /\ Accepted(exps[e].runs)]_scopeVars

(* What has been recorded of an experiment stays: no run is dropped, or     *)
(* changed but for its first rating, and once it is decided nothing changes *)
(* but that it is promoted, however calls of several processes overlap.     *)
RunsKept ==
    [][\A e \in Names : exps[e] # Nothing /\ exps'[e] # exps[e] =>
        /\ \A r \in exps[e].runs : \E q \in exps'[e].runs :
              q = r \/ (r.product = "unrated" /\ q = [r EXCEPT !.product = q.product])
        /\ exps[e].status \in Decided =>
              exps[e].status = "promotion-ready" /\ exps'[e] = [exps[e] EXCEPT !.status = "promoted"]]_scopeVars

(* An experiment that is decided gets its summary, and a true one, unless   *)
(* it is promoted before a tick sees it, or the tick that packaged it died  *)
(* before it stood in the index and the pool proposes something else now.   *)
Concludes ==
    \A e \in Names :
        Status(e) \in Decided
        ~> \/ Status(e) = "promoted" \/ summary[e] = Status(e)
           \/ e \notin index /\ e \notin {Pools[pool][i] : i \in DOMAIN Pools[pool]}

============================================================================
