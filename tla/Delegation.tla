----------------------------- MODULE Delegation -----------------------------
(***************************************************************************)
(* The broker's /v1/delegate/submit and /v1/delegate/await (src/broker):   *)
(* the start and end of its listener, the in-memory index of idempotency   *)
(* keys over a task stored under an id derived from the key, and the       *)
(* evidence about who collected a result, folded into a document beside    *)
(* the task by recorders nobody awaits.                                    *)
(*                                                                         *)
(* A key is scoped by its principal.  A payload is what hashPayload tells  *)
(* apart; the session of the submitter is not part of it.  Munin may apply *)
(* a write after the client has given up on it: such writes are on the     *)
(* wire.  What the dispatcher does to the task is TaskLifecycle's; here    *)
(* its lifecycle only advances.                                            *)
(***************************************************************************)
EXTENDS Naturals, FiniteSets

CONSTANTS
    Keys, Payloads,
    Sessions,       \* orchestrator sessions
    Submits, Polls, \* HTTP calls, each made once
    Anonymous,      \* the session of a client that names none
    Damaged,        \* a stored status whose envelope cannot be read or is invalid
    None,
    MaxSessions,    \* MAX_SESSION_IDS
    MaxBinds,       \* maxAttempts of the bind
    MaxEpoch,       \* bound on processes of the broker
    MaxFaults       \* bound on failed or unanswered Munin calls

ASSUME BoundAssumption == MaxSessions \in Nat /\ MaxBinds \in Nat /\ MaxEpoch \in Nat /\ MaxFaults \in Nat
ASSUME NamesAssumption == /\ Anonymous \notin Sessions /\ Damaged \notin Payloads
                          /\ None \notin Keys \cup Payloads \cup Sessions \cup {Anonymous, Damaged}

VARIABLES
    bind, binds, health,    \* the bind loop, its attempts, and what it last reported
    listener, stopping,     \* the open port, and shuttingDown
    entries, reserved,      \* the IdempotencyIndex
    noting,                 \* awaitWritesInFlight
    call, poll,             \* the handlers at work
    task, result, obs,      \* Munin: status, result-structured, await-observation
    wire, epoch, faults

process == <<bind, binds, health, listener, stopping>>
index == <<entries, reserved>>
munin == <<task, result, obs>>
bounds == <<epoch, faults>>
vars == <<process, index, noting, call, poll, munin, wire, bounds>>

NoCall == [pc |-> "new", key |-> None, payload |-> None, session |-> None, answer |-> "none"]
NoPoll == [pc |-> "new", key |-> None, session |-> None, answer |-> "none",
           note |-> "idle", whole |-> FALSE, prev |-> None, again |-> FALSE]
NoTask == [payload |-> None, session |-> None, life |-> "none"]

Writing(c) == call[c].pc = "create"
Flying(c) == call[c].pc \in {"create", "compare"}
-------------------------------------------------------------------------------
(* deriveAwaitObservation: evidence of one await of key k is folded into   *)
(* what was stored.  prev is None or the document that was read.           *)

Fold(k, prev, s, whole) ==
    LET old == IF prev = None THEN [handoff |-> FALSE, collected |-> FALSE, sessions |-> {}, n |-> 0] ELSE prev
        known == s # Anonymous /\ task[k].session # Anonymous
        new == s # Anonymous /\ s \notin old.sessions /\ Cardinality(old.sessions) < MaxSessions
    IN  [handoff |-> old.handoff \/ (whole /\ known /\ s # task[k].session),
         collected |-> old.collected \/ whole,
         sessions |-> old.sessions \cup (IF new THEN {s} ELSE {}),
         n |-> old.n]

Stored(k, doc) == obs' = [obs EXCEPT ![k] = [doc EXCEPT !.n = (IF obs[k] = None THEN 0 ELSE obs[k].n) + 1]]

Init ==
    /\ bind = "binding" /\ binds = 1 /\ health = "starting"
    /\ listener = FALSE /\ stopping = FALSE
    /\ entries = [k \in Keys |-> None] /\ reserved = [k \in Keys |-> FALSE]
    /\ noting = {}
    /\ call = [c \in Submits |-> NoCall] /\ poll = [q \in Polls |-> NoPoll]
    /\ task \in [Keys -> {NoTask, [NoTask EXCEPT !.payload = Damaged, !.life = "pending"]}]
    /\ result = [k \in Keys |-> FALSE] /\ obs = [k \in Keys |-> None]
    /\ wire = {} /\ epoch = 1 /\ faults = 0

-------------------------------------------------------------------------------
(* startBrokerWithRetry, and what index.ts does with the broker it gives.  *)

\* mutant: the listener of a bind that ended after the shutdown is kept
BoundAnyway ==
    /\ bind = "binding" /\ health' = "listening" /\ binds' = 0
    /\ bind' = "open" /\ listener' = TRUE
    /\ UNCHANGED <<stopping, index, noting, call, poll, munin, wire, bounds>>

Bound ==
    /\ bind = "binding" /\ health' = "listening" /\ binds' = 0
    /\ \/ ~stopping /\ bind' = "open" /\ listener' = TRUE
       \/ stopping /\ bind' = "closed" /\ UNCHANGED listener
    /\ UNCHANGED <<stopping, index, noting, call, poll, munin, wire, bounds>>

(* A permanent error, or the end of the budget.                            *)
BindFails ==
    /\ bind = "binding" /\ bind' = "failed" /\ health' = "failed"
    /\ UNCHANGED <<binds, listener, stopping, index, noting, call, poll, munin, wire, bounds>>

BindRetries ==
    /\ bind = "binding" /\ binds < MaxBinds /\ health' = "retrying"
    /\ bind' = IF stopping THEN "cancelled" ELSE "waiting"
    /\ UNCHANGED <<binds, listener, stopping, index, noting, call, poll, munin, wire, bounds>>

BindAgain ==
    /\ bind = "waiting" /\ bind' = "binding" /\ binds' = binds + 1
    /\ UNCHANGED <<health, listener, stopping, index, noting, call, poll, munin, wire, bounds>>

(* shutdown(): the retries are aborted and the running broker is closed,   *)
(* which lets the calls it has taken go on.                                *)
Shutdown ==
    /\ ~stopping /\ stopping' = TRUE /\ listener' = FALSE
    /\ bind' = CASE bind = "waiting" -> "cancelled" [] bind = "open" -> "closed" [] OTHER -> bind
    /\ UNCHANGED <<binds, health, index, noting, call, poll, munin, wire, bounds>>

CreateOf(c) == [of |-> "create", key |-> call[c].key, payload |-> call[c].payload, session |-> call[c].session]
NoteOf(q) == [of |-> "note", key |-> poll[q].key, prev |-> poll[q].prev,
              doc |-> Fold(poll[q].key, poll[q].prev, poll[q].session, poll[q].whole)]

(* The process ends, by a shutdown or a crash, and a new one starts.  A    *)
(* write it had sent may still be applied.                                 *)
Restart ==
    /\ epoch < MaxEpoch /\ epoch' = epoch + 1
    /\ bind' = "binding" /\ binds' = 1 /\ health' = "starting"
    /\ listener' = FALSE /\ stopping' = FALSE
    /\ entries' = [k \in Keys |-> None] /\ reserved' = [k \in Keys |-> FALSE] /\ noting' = {}
    /\ \E sent \in SUBSET ({CreateOf(c) : c \in {d \in Submits : Writing(d)}}
                           \cup {NoteOf(q) : q \in {p \in Polls : poll[p].note = "write"}}) :
           wire' = wire \cup sent
    /\ call' = [c \in Submits |-> IF Flying(c) THEN [call[c] EXCEPT !.pc = "dead"] ELSE call[c]]
    /\ poll' = [q \in Polls |->
                  [poll[q] EXCEPT !.pc = IF @ = "result" THEN "dead" ELSE @,
                                  !.note = IF @ \in {"read", "write"} THEN "done" ELSE @]]
    /\ UNCHANGED <<munin, faults>>

-------------------------------------------------------------------------------
(* createSubmitHandler, from the reservation on: a request that fails its  *)
(* validation is turned away before and changes nothing, as does one that  *)
(* finds its key in flight and may be repeated.                            *)

Answer(c, a) == call' = [call EXCEPT ![c].pc = "done", ![c].answer = a]
Record(k, p) == entries' = [entries EXCEPT ![k] = p] /\ reserved' = [reserved EXCEPT ![k] = FALSE]
Release(k) == reserved' = [reserved EXCEPT ![k] = FALSE] /\ UNCHANGED entries
Fault == faults < MaxFaults /\ faults' = faults + 1

(* IdempotencyIndex.reserve                                                *)

\* mutant: a known key is answered with its task whatever the payload
ReserveByKey(k, p) ==
    IF entries[k] # None THEN "reused" ELSE IF reserved[k] THEN "busy" ELSE "fresh"

Reserve(k, p) ==
    IF entries[k] # None THEN (IF entries[k] = p THEN "reused" ELSE "refused")
    ELSE IF reserved[k] THEN "busy" ELSE "fresh"

Submit(c) ==
    /\ listener /\ call[c].pc = "new"
    /\ \E k \in Keys, p \in Payloads, s \in Sessions :
         LET new == [pc |-> "create", key |-> k, payload |-> p, session |-> s, answer |-> "none"]
             found == Reserve(k, p)
         IN  \/ /\ found = "fresh" /\ call' = [call EXCEPT ![c] = new]
                /\ reserved' = [reserved EXCEPT ![k] = TRUE] /\ UNCHANGED entries
             \/ /\ found \in {"reused", "refused"} /\ call' = [call EXCEPT ![c] = [new EXCEPT !.pc = "done", !.answer = found]]
                /\ UNCHANGED index
    /\ UNCHANGED <<process, noting, poll, munin, wire, bounds>>

(* BrokerTaskStore.submit: create_if_absent.  An attempt that was applied  *)
(* but not answered is repeated by the client and meets its own task.      *)
Created(k, p, s) == task' = [task EXCEPT ![k] = [payload |-> p, session |-> s, life |-> "pending"]]

Create(c) ==
    LET k == call[c].key IN
    /\ Writing(c)
    /\ \/ /\ task[k] = NoTask /\ Created(k, call[c].payload, call[c].session)
          /\ Answer(c, "accepted") /\ Record(k, call[c].payload) /\ UNCHANGED faults
       \/ /\ task[k] = NoTask /\ Created(k, call[c].payload, call[c].session)
          /\ call' = [call EXCEPT ![c].pc = "compare"] /\ Fault /\ UNCHANGED index
       \/ /\ task[k] # NoTask
          /\ call' = [call EXCEPT ![c].pc = "compare"] /\ UNCHANGED <<task, index, faults>>
    /\ UNCHANGED <<process, noting, poll, result, obs, wire, epoch>>

(* Every attempt failed or went unanswered, and the last may come late.    *)

CreateFails(c) ==
    /\ Writing(c) /\ Answer(c, "error") /\ Release(call[c].key) /\ Fault
    /\ wire' \in {wire, wire \cup {CreateOf(c)}}
    /\ UNCHANGED <<process, noting, poll, munin, epoch>>

(* The task was there already: its envelope decides.                       *)

\* mutant: the session is part of what is compared
CompareSession(c) ==
    LET k == call[c].key IN
    /\ call[c].pc = "compare"
    /\ \/ /\ task[k].payload = call[c].payload /\ task[k].session = call[c].session /\ Answer(c, "reused") /\ Record(k, call[c].payload)
          /\ UNCHANGED faults
       \/ /\ (task[k].payload # call[c].payload \/ task[k].session # call[c].session) /\ Answer(c, "refused") /\ Release(k) /\ UNCHANGED faults
       \/ /\ Answer(c, "error") /\ Release(k) /\ Fault
    /\ UNCHANGED <<process, noting, poll, munin, wire, epoch>>

Compare(c) ==
    LET k == call[c].key IN
    /\ call[c].pc = "compare"
    /\ \/ /\ task[k].payload = call[c].payload /\ Answer(c, "reused") /\ Record(k, call[c].payload)
          /\ UNCHANGED faults
       \/ /\ task[k].payload # call[c].payload /\ Answer(c, "refused") /\ Release(k) /\ UNCHANGED faults
       \/ /\ Answer(c, "error") /\ Release(k) /\ Fault
    /\ UNCHANGED <<process, noting, poll, munin, wire, epoch>>

(* An entry of the index leaves its window; reserve and prune drop it.     *)
Lapse(k) ==
    /\ entries[k] # None /\ entries' = [entries EXCEPT ![k] = None]
    /\ UNCHANGED <<process, reserved, noting, call, poll, munin, wire, epoch, faults>>

-------------------------------------------------------------------------------
(* createAwaitHandler, and recordAwait as it starts: a recorder at work    *)
(* for the task turns the next one away.                                   *)

Says(q, k, s, pc, a, whole) ==
    LET turned == k \in noting IN
    /\ poll' = [poll EXCEPT ![q] = [pc |-> pc, key |-> k, session |-> s, answer |-> a,
                                    note |-> IF turned THEN "done" ELSE "read",
                                    whole |-> whole, prev |-> None, again |-> FALSE]]
    /\ noting' = noting \cup {k}

(* A task that is not there, or whose envelope tells no owner, changes     *)
(* nothing.                                                                *)
Poll(q) ==
    /\ listener /\ poll[q].pc = "new"
    /\ \E k \in Keys, s \in Sessions \cup {Anonymous} :
         LET quiet == [NoPoll EXCEPT !.key = k, !.session = s] IN
         \/ /\ task[k].payload \in Payloads /\ task[k].life # "completed"
            /\ Says(q, k, s, "done", "status", FALSE)
         \/ /\ task[k].payload \in Payloads /\ task[k].life = "completed"
            /\ poll' = [poll EXCEPT ![q] = [quiet EXCEPT !.pc = "result"]] /\ UNCHANGED noting
    /\ UNCHANGED <<process, index, call, munin, wire, bounds>>

\* mutant: the completed status is evidence before its result was read
CollectByStatus(q) ==
    LET k == poll[q].key IN
    /\ poll[q].pc = "result"
    /\ \/ /\ result[k] /\ Says(q, k, poll[q].session, "done", "result", TRUE)
       \/ /\ ~result[k] /\ Says(q, k, poll[q].session, "done", "retryable", TRUE)
    /\ UNCHANGED <<process, index, call, munin, wire, bounds>>

Collect(q) ==
    LET k == poll[q].key IN
    /\ poll[q].pc = "result"
    /\ \/ /\ result[k] /\ Says(q, k, poll[q].session, "done", "result", TRUE)
       \/ /\ ~result[k] /\ Says(q, k, poll[q].session, "done", "retryable", FALSE)
    /\ UNCHANGED <<process, index, call, munin, wire, bounds>>

(* A read of Munin throws out of the handler.                              *)
PollFails(q) ==
    /\ poll[q].pc = "result" /\ poll' = [poll EXCEPT ![q].pc = "done", ![q].answer = "error"] /\ Fault
    /\ UNCHANGED <<process, index, noting, call, munin, wire, epoch>>

(* recordAwait reads what is stored; a poll that shows nothing new ends.   *)
NoteEnds(q) ==
    /\ poll' = [poll EXCEPT ![q].note = "done"] /\ noting' = noting \ {poll[q].key}

NoteReads(q) ==
    LET k == poll[q].key
        next == Fold(k, obs[k], poll[q].session, poll[q].whole) IN
    /\ poll[q].note = "read"
    /\ \/ /\ obs[k] # None /\ next = obs[k] /\ NoteEnds(q) /\ UNCHANGED faults
       \/ /\ obs[k] = None \/ next # obs[k]
          /\ poll' = [poll EXCEPT ![q].note = "write", ![q].prev = obs[k]] /\ UNCHANGED <<noting, faults>>
       \/ NoteEnds(q) /\ Fault
    /\ UNCHANGED <<process, index, call, munin, wire, epoch>>

(* Munin takes a write without a precondition always, and one that names   *)
(* the document it read only while that is the one stored.                 *)

\* mutant: the observation is written whatever is stored
TakesAll(k, prev) == TRUE

Takes(k, prev) ==
    \/ prev = None
    \/ prev # None /\ obs[k] # None /\ obs[k].n = prev.n

(* A write that was refused or went unanswered is tried once more, from    *)
(* the read.                                                               *)
NoteFails(q) ==
    \/ ~poll[q].again /\ poll' = [poll EXCEPT ![q].note = "read", ![q].again = TRUE] /\ UNCHANGED noting
    \/ poll[q].again /\ NoteEnds(q)

NoteWrites(q) ==
    LET k == poll[q].key  w == NoteOf(q) IN
    /\ poll[q].note = "write"
    /\ \/ Takes(k, w.prev) /\ Stored(k, w.doc) /\ NoteEnds(q) /\ UNCHANGED <<wire, faults>>
       \/ ~Takes(k, w.prev) /\ NoteFails(q) /\ UNCHANGED <<obs, wire, faults>>
       \/ Takes(k, w.prev) /\ Stored(k, w.doc) /\ NoteFails(q) /\ Fault /\ UNCHANGED wire
       \/ wire' \in {wire, wire \cup {w}} /\ NoteFails(q) /\ Fault /\ UNCHANGED obs
    /\ UNCHANGED <<process, index, call, task, result, epoch>>

-------------------------------------------------------------------------------
(* Munin applies a late write, or never does.                              *)
Late(w) ==
    /\ wire' = wire \ {w}
    /\ \/ /\ w.of = "create" /\ task[w.key] = NoTask /\ Created(w.key, w.payload, w.session) /\ UNCHANGED obs
       \/ /\ w.of = "note" /\ Takes(w.key, w.prev) /\ Stored(w.key, w.doc) /\ UNCHANGED task
       \/ UNCHANGED <<task, obs>>
    /\ UNCHANGED <<process, index, noting, call, poll, result, bounds>>

(* The dispatcher: a claim, an end (failed stands for cancelled too), and  *)
(* the result, which may come late or never.                               *)
Lives(k, from, to) == task[k].payload \in Payloads /\ task[k].life = from /\ task' = [task EXCEPT ![k].life = to]
Work(k) ==
    /\ \/ Lives(k, "pending", "running") /\ UNCHANGED result
       \/ \E end \in {"completed", "failed"} : Lives(k, "running", end) /\ UNCHANGED result
       \/ task[k].life \in {"running", "completed"} /\ ~result[k] /\ result' = [result EXCEPT ![k] = TRUE] /\ UNCHANGED task
    /\ UNCHANGED <<process, index, noting, call, poll, obs, wire, bounds>>

CallStep(c) == Create(c) \/ CreateFails(c) \/ Compare(c)
PollStep(q) == Collect(q) \/ PollFails(q) \/ NoteReads(q) \/ NoteWrites(q)

Next ==
    \/ Bound \/ BindFails \/ BindRetries \/ BindAgain \/ Shutdown \/ Restart
    \/ \E c \in Submits : Submit(c) \/ CallStep(c)
    \/ \E q \in Polls : Poll(q) \/ PollStep(q)
    \/ \E k \in Keys : Lapse(k) \/ Work(k)
    \/ \E w \in wire : Late(w)

Spec == Init /\ [][Next]_vars

-------------------------------------------------------------------------------
Docs == [handoff : BOOLEAN, collected : BOOLEAN, sessions : SUBSET Sessions, n : Nat]
ASSUME NoDocAssumption == None \notin Docs
Kept == Payloads \cup {Damaged}

TypeOK ==
    /\ bind \in {"binding", "waiting", "open", "closed", "failed", "cancelled"} /\ binds \in Nat
    /\ health \in {"starting", "listening", "retrying", "failed"} /\ listener \in BOOLEAN /\ stopping \in BOOLEAN
    /\ entries \in [Keys -> Payloads \cup {None}] /\ reserved \in [Keys -> BOOLEAN] /\ noting \subseteq Keys
    /\ call \in [Submits -> [pc : {"new", "create", "compare", "done", "dead"}, key : Keys \cup {None},
                             payload : Payloads \cup {None}, session : Sessions \cup {None},
                             answer : {"none", "accepted", "reused", "refused", "error"}]]
    /\ poll \in [Polls -> [pc : {"new", "result", "done", "dead"}, key : Keys \cup {None},
                           session : Sessions \cup {Anonymous, None},
                           answer : {"none", "status", "result", "retryable", "error"},
                           note : {"idle", "read", "write", "done"}, whole : BOOLEAN,
                           prev : Docs \cup {None}, again : BOOLEAN]]
    /\ task \in [Keys -> [payload : Kept \cup {None}, session : Sessions \cup {None},
                          life : {"none", "pending", "running", "completed", "failed"}]]
    /\ \A k \in Keys : obs[k] # None => Cardinality(obs[k].sessions) <= MaxSessions
    /\ result \in [Keys -> BOOLEAN] /\ obs \in [Keys -> Docs \cup {None}]
    /\ wire \subseteq [of : {"create"}, key : Keys, payload : Payloads, session : Sessions]
                      \cup [of : {"note"}, key : Keys, prev : Docs \cup {None}, doc : Docs]
    /\ epoch \in Nat /\ faults \in Nat

(* Whoever was told that the task is accepted, or was there already, asked *)
(* for the task that is stored, so no two payloads of one key are both     *)
(* accepted, whatever was lost, restarted or forgotten in between.         *)
AcceptedAsAsked ==
    \A c \in Submits : call[c].answer \in {"accepted", "reused"} => task[call[c].key].payload = call[c].payload

(* A submission is refused only because of a task with another payload:    *)
(* no client is turned away by the late or lost effect of its own request. *)
RefusedForCause ==
    \A c \in Submits : call[c].answer = "refused" => task[call[c].key].payload \notin {None, call[c].payload}

(* A submission is answered by what became of its key, not of its call.    *)
AnsweredForCause == AcceptedAsAsked /\ RefusedForCause

(* The port is open exactly when the health report says so, until the      *)
(* shutdown closes it for good, a bind that ends later included.           *)
PortHonest == listener <=> health = "listening" /\ ~stopping

(* Stored evidence is true: a collected result was handed to some poll,    *)
(* and a durable handoff to a poll of another session than the submitter's.*)
EvidenceTrue ==
    \A k \in Keys : obs[k] # None =>
        /\ obs[k].collected => \E q \in Polls : poll[q].key = k /\ poll[q].answer = "result"
        /\ obs[k].handoff => \E q \in Polls : /\ poll[q].key = k /\ poll[q].answer = "result"
                                              /\ poll[q].session \notin {Anonymous, task[k].session}

(* What the broker tells of itself and of a hand-off is so.                *)
Honest == TypeOK /\ PortHonest /\ EvidenceTrue

Lost(k) ==
    /\ obs[k] # None
    /\ \/ obs[k].handoff /\ ~obs'[k].handoff
       \/ obs[k].collected /\ ~obs'[k].collected
       \/ ~(obs[k].sessions \subseteq obs'[k].sessions)

(* Stored evidence is only ever added to, by however many recorders and    *)
(* late writes: what a recorder has seen stored no write of its takes      *)
(* away.  Only a first write, sent when nothing was stored, can.           *)
FirstWrite(k) ==
    \/ \E w \in wire \ wire' : w.of = "note" /\ w.key = k /\ w.prev = None
    \/ \E q \in Polls : poll[q].note = "write" /\ poll[q].key = k /\ poll[q].prev = None /\ poll'[q] # poll[q]
EvidenceKept == [][\A k \in Keys : Lost(k) => FirstWrite(k)]_vars

(* What the broker tells is so, and what it has on record it keeps.        *)
EvidenceStands == []Honest /\ EvidenceKept
=============================================================================
