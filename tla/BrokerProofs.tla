---------------------------- MODULE BrokerProofs ----------------------------
(***************************************************************************)
(* What the broker answers and what it has on record of a hand-off is so,  *)
(* for every set of keys, payloads, sessions and calls, any number of      *)
(* restarts, of failed or late writes, and of sessions kept; and so are    *)
(* its ratings, for every set of reviewers, verdicts, rubrics and calls.   *)
(***************************************************************************)
EXTENDS Delegation, QualityLedger, FiniteSetTheorems, SequenceTheorems, TLAPS

-------------------------------------------------------------------------------
(* Submit and await (Delegation).                                           *)

Calls == [pc : {"new", "create", "compare", "done", "dead"}, key : Keys \cup {None},
          payload : Payloads \cup {None}, session : Sessions \cup {None},
          answer : {"none", "accepted", "reused", "refused", "error"}]
Polled == [pc : {"new", "result", "done", "dead"}, key : Keys \cup {None},
           session : Sessions \cup {Anonymous, None},
           answer : {"none", "status", "result", "retryable", "error"},
           note : {"idle", "read", "write", "done"}, whole : BOOLEAN,
           prev : Docs \cup {None}, again : BOOLEAN]
Tasks == [payload : Kept \cup {None}, session : Sessions \cup {None},
          life : {"none", "pending", "running", "completed", "failed"}]
Creates == [of : {"create"}, key : Keys, payload : Payloads, session : Sessions]
Notes == [of : {"note"}, key : Keys, prev : Docs \cup {None}, doc : Docs]

(* The evidence of a document, d, about the task of key k: some poll was   *)
(* given the result, and one of a session other than the submitter's.      *)
Given(ps, k) == \E q \in Polls : ps[q].key = k /\ ps[q].answer = "result"
Shared(ps, ts, k) ==
    \E q \in Polls : ps[q].key = k /\ ps[q].answer = "result" /\ ps[q].session \notin {Anonymous, ts[k].session}
Shows(d, k, ps, ts) ==
    /\ d.collected => Given(ps, k)
    /\ d.handoff => Shared(ps, ts, k)
    /\ ts[k].payload # None
    /\ IsFiniteSet(d.sessions) /\ Cardinality(d.sessions) <= MaxSessions

(* A document that was read is the one stored, o, or an older one; what is *)
(* written over it takes nothing away.                                     *)
Precedes(d, o) == o # None /\ d.n <= o.n /\ (d.n = o.n => d = o)
Adds(d, e) == (d.handoff => e.handoff) /\ (d.collected => e.collected) /\ d.sessions \subseteq e.sessions

(* A call asked for what it holds, has met a task when it compares, and    *)
(* was answered by the payload of the task.                                *)
CallGood(m, ts) ==
    /\ m.pc # "new" => m.key \in Keys /\ m.payload \in Payloads /\ m.session \in Sessions
    /\ m.pc # "done" => m.answer = "none"
    /\ m.pc = "compare" => ts[m.key].payload # None
    /\ m.answer \in {"accepted", "reused"} => ts[m.key].payload = m.payload
    /\ m.answer = "refused" => ts[m.key].payload \notin {None, m.payload}

(* A recorder is at work for a task that tells its owner, for a poll that  *)
(* was given the result if it says so, over a document that it has read.   *)
PollGood(m, ps, ts, os) ==
    /\ m.pc # "new" => m.key \in Keys /\ m.session # None
    /\ m.pc \in {"new", "result"} => m.answer = "none" /\ m.note = "idle" /\ m.prev = None
    /\ m.pc = "result" \/ m.note \in {"read", "write"} => ts[m.key].payload # None
    /\ m.whole => m.answer = "result"
    /\ m.prev # None => Shows(m.prev, m.key, ps, ts) /\ Precedes(m.prev, os[m.key])

(* So is a note on the wire.                                               *)
NoteGood(w, ps, ts, os) ==
    /\ Shows(w.doc, w.key, ps, ts)
    /\ w.prev # None => Precedes(w.prev, os[w.key]) /\ Adds(w.prev, w.doc)

TaskGood == \A k \in Keys : task[k].payload = None => task[k] = NoTask
EntryGood == \A k \in Keys : entries[k] # None => task[k].payload = entries[k]
PortGood ==
    /\ PortHonest
    /\ bind \in {"binding", "waiting"} => ~listener
    /\ bind = "waiting" => ~stopping

IInv ==
    /\ TypeOK /\ PortGood /\ TaskGood /\ EntryGood
    /\ \A c \in Submits : CallGood(call[c], task)
    /\ \A q \in Polls : PollGood(poll[q], poll, task, obs)
    /\ \A k \in Keys : obs[k] # None => Shows(obs[k], k, poll, task)
    /\ \A w \in wire : w.of = "note" => NoteGood(w, poll, task, obs)

LEMMA Implied == IInv => AnsweredForCause /\ Honest
<1> SUFFICES ASSUME IInv PROVE AnsweredForCause /\ Honest
  OBVIOUS
<1>1. AnsweredForCause
  BY DEF IInv, AnsweredForCause, AcceptedAsAsked, RefusedForCause, CallGood
<1>2. EvidenceTrue
  BY DEF IInv, EvidenceTrue, Shows, Given, Shared
<1> QED BY <1>1, <1>2 DEF IInv, Honest, PortGood

LEMMA Starts == Init => IInv
<1> SUFFICES ASSUME Init PROVE IInv
  OBVIOUS
<1> USE BoundAssumption, NamesAssumption
<1>1. TypeOK
  <2>1. NoCall \in Calls /\ NoPoll \in Polled
    BY DEF NoCall, NoPoll, Calls, Polled
  <2>2. NoTask \in Tasks /\ [NoTask EXCEPT !.payload = Damaged, !.life = "pending"] \in Tasks
    BY DEF NoTask, Tasks, Kept
  <2>3. call \in [Submits -> Calls] /\ poll \in [Polls -> Polled] /\ task \in [Keys -> Tasks]
    BY <2>1, <2>2 DEF Init
  <2> QED BY <2>3 DEF Init, TypeOK, Calls, Polled, Tasks
<1>2. PortGood
  BY DEF Init, PortGood, PortHonest
<1>3. TaskGood
  BY DEF Init, TaskGood, NoTask
<1>4. \A c \in Submits : CallGood(call[c], task)
  BY DEF Init, CallGood, NoCall
<1>5. \A q \in Polls : PollGood(poll[q], poll, task, obs)
  BY DEF Init, PollGood, NoPoll
<1> QED BY <1>1, <1>2, <1>3, <1>4, <1>5 DEF Init, IInv, EntryGood

(* What is read, and what an await adds, is shown by what is written.      *)
LEMMA FoldShows ==
    ASSUME NEW k \in Keys, NEW d \in Docs \cup {None}, NEW s \in Sessions \cup {Anonymous}, NEW whole \in BOOLEAN,
           NEW ps, task[k].payload # None,
           d # None => Shows(d, k, ps, task),
           whole => \E q \in Polls : ps[q].key = k /\ ps[q].answer = "result" /\ ps[q].session = s
    PROVE  /\ Fold(k, d, s, whole) \in Docs
           /\ Shows(Fold(k, d, s, whole), k, ps, task)
           /\ d # None => Adds(d, Fold(k, d, s, whole))
<1> DEFINE old == IF d = None THEN [handoff |-> FALSE, collected |-> FALSE, sessions |-> {}, n |-> 0] ELSE d
           known == s # Anonymous /\ task[k].session # Anonymous
           new == s # Anonymous /\ s \notin old.sessions /\ Cardinality(old.sessions) < MaxSessions
           more == IF new THEN {s} ELSE {}
           far == old.handoff \/ (whole /\ known /\ s # task[k].session)
           f == Fold(k, d, s, whole)
<1> USE BoundAssumption, NamesAssumption
<1>1. f = [handoff |-> far, collected |-> old.collected \/ whole, sessions |-> old.sessions \cup more, n |-> old.n]
  BY DEF Fold
<1>2. old \in Docs /\ (d # None => old = d)
  BY FS_EmptySet DEF Docs
<1>3. IsFiniteSet(old.sessions) /\ Cardinality(old.sessions) <= MaxSessions
  BY <1>2, FS_EmptySet DEF Shows
<1>4. IsFiniteSet(old.sessions \cup more) /\ Cardinality(old.sessions \cup more) <= MaxSessions
  <2>1. CASE new
    <3>1. Cardinality(old.sessions) \in Nat
      BY <1>3, FS_CardinalityType
    <3>2. s \notin old.sessions /\ Cardinality(old.sessions) < MaxSessions /\ more = {s}
      BY <2>1
    <3>3. IsFiniteSet(old.sessions \cup {s}) /\ Cardinality(old.sessions \cup {s}) = Cardinality(old.sessions) + 1
      BY <3>2, <1>3, FS_AddElement
    <3> HIDE DEF old, more
    <3> QED BY <3>1, <3>2, <3>3
  <2>2. CASE ~new
    BY <2>2, <1>3
  <2> QED BY <2>1, <2>2
<1>5. more \subseteq Sessions
  OBVIOUS
<1>6. (old.collected => Given(ps, k)) /\ (old.handoff => Shared(ps, task, k))
  BY DEF Shows
<1>7. (old.collected \/ whole => Given(ps, k)) /\ (far => Shared(ps, task, k))
  BY <1>6 DEF Given, Shared
<1>8. f \in Docs
  BY <1>1, <1>2, <1>5 DEF Docs
<1>9. Shows(f, k, ps, task)
  <2>1. /\ f.collected = (old.collected \/ whole) /\ f.handoff = far
        /\ f.sessions = old.sessions \cup more
    BY <1>1
  <2> HIDE DEF f, old, far, more
  <2> QED BY <2>1, <1>4, <1>7 DEF Shows
<1>10. d # None => Adds(d, f)
  <2> SUFFICES ASSUME d # None PROVE Adds(d, f)
    OBVIOUS
  <2>1. /\ f.collected = (d.collected \/ whole) /\ f.sessions = d.sessions \cup more
        /\ f.handoff = far /\ (d.handoff => far)
    BY <1>1, <1>2
  <2> HIDE DEF f, far, more
  <2> QED BY <2>1 DEF Adds
<1> HIDE DEF f
<1> QED BY <1>8, <1>9, <1>10 DEF f

-------------------------------------------------------------------------------
(* From state to state: what a poll was given and what a task tells of its *)
(* submission stays, and a document gives way to its successor only.       *)
Grows(ps, ts, qs, us) ==
    /\ \A q \in Polls : ps[q].answer = "result" => /\ qs[q].answer = "result" /\ qs[q].key = ps[q].key
                                                   /\ qs[q].session = ps[q].session
    /\ \A k \in Keys : ts[k].payload # None => us[k].payload = ts[k].payload /\ us[k].session = ts[k].session
Newer(os, rs) == \A k \in Keys : os[k] # None => rs[k] = os[k] \/ (rs[k] # None /\ rs[k].n = os[k].n + 1)

LEMMA ShowsStays ==
    ASSUME NEW d, NEW k \in Keys, NEW ps, NEW ts, NEW qs, NEW us, Grows(ps, ts, qs, us), Shows(d, k, ps, ts)
    PROVE  Shows(d, k, qs, us)
<1>1. Given(ps, k) => Given(qs, k)
  BY DEF Given, Grows
<1>2. Shared(ps, ts, k) => Shared(qs, us, k)
  BY DEF Shared, Grows, Shows
<1> QED BY <1>1, <1>2 DEF Shows, Grows

LEMMA PrecedesStays ==
    ASSUME NEW d \in Docs, NEW k \in Keys, NEW os \in [Keys -> Docs \cup {None}], NEW rs, Newer(os, rs), Precedes(d, os[k])
    PROVE  Precedes(d, rs[k])
<1>1. os[k] # None /\ os[k] \in Docs /\ os[k].n \in Nat /\ d.n \in Nat /\ d.n <= os[k].n
  BY DEF Precedes, Docs
<1>2. CASE rs[k] = os[k]
  BY <1>2
<1>3. CASE rs[k] # None /\ rs[k].n = os[k].n + 1
  BY <1>1, <1>3 DEF Precedes
<1> QED BY <1>1, <1>2, <1>3 DEF Newer

LEMMA CallStays ==
    ASSUME NEW m \in Calls, NEW ps, NEW ts, NEW qs, NEW us, Grows(ps, ts, qs, us), CallGood(m, ts)
    PROVE  CallGood(m, us)
<1>1. m.pc # "new" => m.key \in Keys /\ m.payload # None
  BY NamesAssumption DEF CallGood
<1> QED BY <1>1 DEF CallGood, Grows, Calls

LEMMA PollStays ==
    ASSUME NEW m \in Polled, NEW ps, NEW ts, NEW qs, NEW us,
           NEW os \in [Keys -> Docs \cup {None}], NEW rs,
           Grows(ps, ts, qs, us), Newer(os, rs), PollGood(m, ps, ts, os)
    PROVE  PollGood(m, qs, us, rs)
<1>1. m.pc = "result" \/ m.note \in {"read", "write"} \/ m.prev # None => m.key \in Keys
  BY DEF PollGood
<1>2. m.prev # None => Shows(m.prev, m.key, qs, us) /\ Precedes(m.prev, rs[m.key])
  <2> SUFFICES ASSUME m.prev # None PROVE Shows(m.prev, m.key, qs, us) /\ Precedes(m.prev, rs[m.key])
    OBVIOUS
  <2>1. m.prev \in Docs /\ m.key \in Keys /\ Shows(m.prev, m.key, ps, ts) /\ Precedes(m.prev, os[m.key])
    BY <1>1 DEF PollGood, Polled
  <2> QED BY <2>1, ShowsStays, PrecedesStays
<1>3. m.pc = "result" \/ m.note \in {"read", "write"} => us[m.key].payload # None
  BY <1>1 DEF PollGood, Grows
<1> QED BY <1>2, <1>3 DEF PollGood

LEMMA NoteStays ==
    ASSUME NEW w \in Notes, NEW ps, NEW ts, NEW qs, NEW us,
           NEW os \in [Keys -> Docs \cup {None}], NEW rs,
           Grows(ps, ts, qs, us), Newer(os, rs), NoteGood(w, ps, ts, os)
    PROVE  NoteGood(w, qs, us, rs)
<1>1. w.key \in Keys /\ w.prev \in Docs \cup {None}
  BY DEF Notes
<1> QED BY <1>1, ShowsStays, PrecedesStays DEF NoteGood

(* A step keeps the invariant that keeps what is not its own.              *)
LEMMA StepKeeps ==
    ASSUME IInv, TypeOK', PortGood', TaskGood', EntryGood',
           Grows(poll, task, poll', task'), Newer(obs, obs'),
           \A c \in Submits : call'[c] = call[c] \/ CallGood(call'[c], task'),
           \A q \in Polls : poll'[q] = poll[q] \/ PollGood(poll'[q], poll', task', obs'),
           \A k \in Keys : obs'[k] # None => obs'[k] = obs[k] \/ Shows(obs'[k], k, poll', task'),
           \A w \in wire' : w.of = "note" => w \in wire \/ NoteGood(w, poll', task', obs')
    PROVE  IInv'
<1>1. \A c \in Submits : CallGood(call'[c], task')
  <2> SUFFICES ASSUME NEW c \in Submits, call'[c] = call[c] PROVE CallGood(call'[c], task')
    OBVIOUS
  <2>1. call[c] \in Calls /\ CallGood(call[c], task)
    BY DEF IInv, TypeOK, Calls
  <2> QED BY <2>1, CallStays
<1>2. obs \in [Keys -> Docs \cup {None}]
  BY DEF IInv, TypeOK
<1>3. \A q \in Polls : PollGood(poll'[q], poll', task', obs')
  <2> SUFFICES ASSUME NEW q \in Polls, poll'[q] = poll[q] PROVE PollGood(poll'[q], poll', task', obs')
    OBVIOUS
  <2>1. poll[q] \in Polled /\ PollGood(poll[q], poll, task, obs)
    BY DEF IInv, TypeOK, Polled
  <2> QED BY <2>1, <1>2, PollStays
<1>4. \A k \in Keys : obs'[k] # None => Shows(obs'[k], k, poll', task')
  BY ShowsStays DEF IInv
<1>5. \A w \in wire' : w.of = "note" => NoteGood(w, poll', task', obs')
  <2> SUFFICES ASSUME NEW w \in wire, w.of = "note" PROVE NoteGood(w, poll', task', obs')
    OBVIOUS
  <2>1. w \in Notes /\ NoteGood(w, poll, task, obs)
    BY DEF IInv, TypeOK, Notes
  <2> QED BY <2>1, <1>2, NoteStays
<1> QED BY <1>1, <1>3, <1>4, <1>5 DEF IInv

LEMMA Alike == Grows(poll, task, poll, task) /\ Newer(obs, obs)
BY DEF Grows, Newer

-------------------------------------------------------------------------------
(* The listener.                                                           *)
LEMMA PortKeeps ==
    ASSUME IInv, Bound \/ BindFails \/ BindRetries \/ BindAgain \/ Shutdown
    PROVE  IInv'
<1>1. UNCHANGED <<index, noting, call, poll, munin, wire, bounds>>
  BY DEF Bound, BindFails, BindRetries, BindAgain, Shutdown
<1>2. TypeOK'
  <2>1. bind' \in {"binding", "waiting", "open", "closed", "failed", "cancelled"}
    BY DEF Bound, BindFails, BindRetries, BindAgain, Shutdown, IInv, TypeOK
  <2>2. binds' \in Nat
    BY DEF Bound, BindFails, BindRetries, BindAgain, Shutdown, IInv, TypeOK
  <2>3. health' \in {"starting", "listening", "retrying", "failed"}
    BY DEF Bound, BindFails, BindRetries, BindAgain, Shutdown, IInv, TypeOK
  <2>4. listener' \in BOOLEAN /\ stopping' \in BOOLEAN
    BY DEF Bound, BindFails, BindRetries, BindAgain, Shutdown, IInv, TypeOK
  <2> QED BY <1>1, <2>1, <2>2, <2>3, <2>4 DEF IInv, TypeOK, index, munin, bounds
<1>3. PortGood'
  <2>1. CASE Bound
    BY <2>1 DEF Bound, IInv, PortGood, PortHonest
  <2>2. CASE BindFails
    BY <2>2 DEF BindFails, IInv, PortGood, PortHonest
  <2>3. CASE BindRetries
    BY <2>3 DEF BindRetries, IInv, PortGood, PortHonest
  <2>4. CASE BindAgain
    BY <2>4 DEF BindAgain, IInv, PortGood, PortHonest
  <2>5. CASE Shutdown
    BY <2>5 DEF Shutdown, IInv, PortGood, PortHonest
  <2> QED BY <2>1, <2>2, <2>3, <2>4, <2>5
<1>4. TaskGood' /\ EntryGood'
  BY <1>1 DEF IInv, TaskGood, EntryGood, index, munin
<1> QED BY <1>1, <1>2, <1>3, <1>4, Alike, StepKeeps DEF index, munin

(* A write that a poll is about to send.                                   *)
LEMMA NoteSound ==
    ASSUME IInv, NEW q \in Polls, poll[q].note = "write"
    PROVE  /\ NoteOf(q) \in Notes /\ NoteOf(q).key = poll[q].key /\ NoteOf(q).prev = poll[q].prev
           /\ NoteGood(NoteOf(q), poll, task, obs)
<1> DEFINE m == poll[q]
<1>1. /\ m \in Polled /\ PollGood(m, poll, task, obs)
      /\ m.pc # "new" => m.key \in Keys /\ m.session \in Sessions \cup {Anonymous}
  BY DEF IInv, TypeOK, Polled, PollGood
<1>2. m.pc # "new" /\ m.key \in Keys /\ m.session \in Sessions \cup {Anonymous} /\ task[m.key].payload # None
  BY <1>1 DEF PollGood
<1>3. m.prev \in Docs \cup {None} /\ m.whole \in BOOLEAN
  BY <1>1 DEF Polled
<1>4. m.prev # None => Shows(m.prev, m.key, poll, task) /\ Precedes(m.prev, obs[m.key])
  BY <1>1 DEF PollGood
<1>5. m.whole => \E p \in Polls : poll[p].key = m.key /\ poll[p].answer = "result" /\ poll[p].session = m.session
  BY <1>1 DEF PollGood
<1> DEFINE f == Fold(m.key, m.prev, m.session, m.whole)
<1>6. f \in Docs /\ Shows(f, m.key, poll, task) /\ (m.prev # None => Adds(m.prev, f))
  <2> HIDE DEF m
  <2> QED BY <1>2, <1>3, <1>4, <1>5, FoldShows
<1>7. NoteOf(q) = [of |-> "note", key |-> m.key, prev |-> m.prev, doc |-> f]
  BY DEF NoteOf
<1> HIDE DEF m, f
<1>8. NoteOf(q) \in Notes
  BY <1>2, <1>3, <1>6, <1>7 DEF Notes
<1>9. NoteGood(NoteOf(q), poll, task, obs)
  BY <1>4, <1>6, <1>7 DEF NoteGood
<1> QED BY <1>7, <1>8, <1>9 DEF m

LEMMA CreateSound ==
    ASSUME IInv, NEW c \in Submits, Writing(c)
    PROVE  CreateOf(c) \in Creates
<1>1. call[c].key \in Keys /\ call[c].payload \in Payloads /\ call[c].session \in Sessions
  BY DEF IInv, CallGood, Writing
<1> QED BY <1>1 DEF CreateOf, Creates

(* A process that ends leaves what it has told: a poll, m, becomes n.      *)
Stops(m, n) ==
    /\ n \in Polled /\ n.answer = m.answer /\ n.key = m.key /\ n.session = m.session
    /\ n.prev = m.prev /\ n.whole = m.whole
    /\ n.pc = IF m.pc = "result" THEN "dead" ELSE m.pc
    /\ n.note \notin {"read", "write"} /\ (m.note = "idle" => n.note = "idle")

LEMMA RestartKeeps ==
    ASSUME IInv, Restart
    PROVE  IInv'
<1>1. wire' \subseteq Creates \cup Notes
      /\ \A w \in wire' : w.of = "note" => w \in wire \/ NoteGood(w, poll, task, obs)
  <2>1. PICK sent \in SUBSET ({CreateOf(c) : c \in {d \in Submits : Writing(d)}}
                              \cup {NoteOf(q) : q \in {p \in Polls : poll[p].note = "write"}}) :
                 wire' = wire \cup sent
    BY DEF Restart
  <2>2. \A w \in sent : w \in Creates \/ (w \in Notes /\ NoteGood(w, poll, task, obs))
    BY <2>1, NoteSound, CreateSound
  <2>3. wire \subseteq Creates \cup Notes
    BY DEF IInv, TypeOK, Creates, Notes
  <2>4. \A w \in Creates : w.of # "note"
    BY DEF Creates
  <2> QED BY <2>1, <2>2, <2>3, <2>4
<1>2. \A c \in Submits : /\ call'[c] \in Calls
                         /\ call'[c] = call[c] \/ CallGood(call'[c], task)
  <2> SUFFICES ASSUME NEW c \in Submits
               PROVE  call'[c] \in Calls /\ (call'[c] = call[c] \/ CallGood(call'[c], task))
    OBVIOUS
  <2>1. call[c] \in Calls /\ CallGood(call[c], task)
    BY DEF IInv, TypeOK, Calls
  <2>2. CASE Flying(c)
    <3>1. call'[c] = [call[c] EXCEPT !.pc = "dead"]
      BY <2>2 DEF Restart
    <3> QED BY <2>1, <2>2, <3>1 DEF Calls, CallGood, Flying
  <2>3. CASE ~Flying(c)
    BY <2>1, <2>3 DEF Restart
  <2> QED BY <2>2, <2>3
<1>3. \A q \in Polls : Stops(poll[q], poll'[q])
  <2> SUFFICES ASSUME NEW q \in Polls PROVE Stops(poll[q], poll'[q])
    OBVIOUS
  <2> DEFINE a == IF poll[q].pc = "result" THEN "dead" ELSE poll[q].pc
             b == IF poll[q].note \in {"read", "write"} THEN "done" ELSE poll[q].note
  <2>1. poll[q] \in Polled
    BY DEF IInv, TypeOK, Polled
  <2>2. poll'[q] = [poll[q] EXCEPT !.pc = a, !.note = b]
    BY DEF Restart
  <2>3. a \in {"new", "result", "done", "dead"} /\ b \in {"idle", "read", "write", "done"} /\ b \notin {"read", "write"}
    BY <2>1 DEF Polled
  <2>4. (poll[q].note = "idle" => b = "idle") /\ a = IF poll[q].pc = "result" THEN "dead" ELSE poll[q].pc
    OBVIOUS
  <2> HIDE DEF a, b
  <2>5. poll'[q].pc = a /\ poll'[q].note = b
    BY <2>1, <2>2, <2>3 DEF Polled
  <2>6. /\ poll'[q].answer = poll[q].answer /\ poll'[q].key = poll[q].key /\ poll'[q].session = poll[q].session
        /\ poll'[q].prev = poll[q].prev /\ poll'[q].whole = poll[q].whole
    BY <2>1, <2>2 DEF Polled
  <2>7. poll'[q] \in Polled
    <3>1. a \in {"new", "result", "done", "dead"} /\ b \in {"idle", "read", "write", "done"}
      BY <2>3
    <3> QED BY <2>1, <2>2, <3>1, ZenonT(40) DEF Polled
  <2> QED BY <2>3, <2>4, <2>5, <2>6, <2>7 DEF Stops
<1>4. UNCHANGED <<task, result, obs>> /\ Grows(poll, task, poll', task')
  BY <1>3 DEF Restart, munin, Grows, Stops
<1>5. \A q \in Polls : PollGood(poll'[q], poll', task', obs')
  <2> SUFFICES ASSUME NEW q \in Polls PROVE PollGood(poll'[q], poll', task', obs')
    OBVIOUS
  <2>1. poll[q] \in Polled /\ PollGood(poll[q], poll, task, obs) /\ obs \in [Keys -> Docs \cup {None}]
    BY DEF IInv, TypeOK, Polled
  <2>2. PollGood(poll[q], poll', task', obs')
    BY <2>1, <1>4, Alike, PollStays
  <2> QED BY <1>3, <2>1, <2>2 DEF PollGood, Polled, Stops
<1>6. TypeOK'
  <2>1. call' \in [Submits -> Calls] /\ poll' \in [Polls -> Polled]
    BY <1>2, <1>3 DEF Restart, Stops
  <2>2. noting' \subseteq Keys /\ epoch' \in Nat /\ faults' \in Nat /\ entries' \in [Keys -> Payloads \cup {None}]
    <3>1. noting' = {} /\ epoch' = epoch + 1 /\ faults' = faults /\ entries' = [k \in Keys |-> None]
      BY DEF Restart
    <3>2. epoch \in Nat /\ faults \in Nat
      BY DEF IInv, TypeOK
    <3> QED BY <3>1, <3>2
  <2>4. reserved' \in [Keys -> BOOLEAN]
    <3>1. reserved' = [k \in Keys |-> FALSE]
      BY DEF Restart
    <3> QED BY <3>1, Zenon
  <2>3. bind' = "binding" /\ binds' = 1 /\ health' = "starting" /\ listener' = FALSE /\ stopping' = FALSE
    BY DEF Restart
  <2> QED BY <1>1, <1>4, <2>1, <2>2, <2>3, <2>4 DEF IInv, TypeOK, Calls, Polled, Creates, Notes
<1>7. PortGood' /\ TaskGood' /\ EntryGood'
  BY <1>4 DEF Restart, IInv, PortGood, PortHonest, TaskGood, EntryGood
<1>8. \A w \in wire' : w.of = "note" => w \in wire \/ NoteGood(w, poll', task', obs')
  <2> SUFFICES ASSUME NEW w \in wire', w.of = "note", w \notin wire PROVE NoteGood(w, poll', task', obs')
    OBVIOUS
  <2>1. w \in Notes /\ NoteGood(w, poll, task, obs) /\ obs \in [Keys -> Docs \cup {None}]
    BY <1>1 DEF Creates, IInv, TypeOK
  <2> QED BY <2>1, <1>4, Alike, NoteStays
<1> QED BY <1>2, <1>4, <1>5, <1>6, <1>7, <1>8, Alike, StepKeeps

-------------------------------------------------------------------------------
(* The submissions.                                                        *)
LEMMA CallsKeep ==
    ASSUME IInv, UNCHANGED <<process, noting, poll, result, obs, epoch>>,
           NEW c \in Submits, NEW m \in Calls, call' = [call EXCEPT ![c] = m], CallGood(m, task'),
           entries' \in [Keys -> Payloads \cup {None}], reserved' \in [Keys -> BOOLEAN], EntryGood',
           task' \in [Keys -> Tasks], TaskGood', Grows(poll, task, poll', task'),
           wire' \subseteq wire \cup Creates, faults' \in Nat
    PROVE  IInv'
<1>1. call' \in [Submits -> Calls] /\ \A d \in Submits : call'[d] = call[d] \/ call'[d] = m
  BY DEF IInv, TypeOK, Calls
<1>2. wire' \subseteq Creates \cup Notes
  BY DEF IInv, TypeOK, Creates, Notes
<1>3. TypeOK'
  BY <1>1, <1>2 DEF IInv, TypeOK, Calls, Tasks, Creates, Notes, process
<1>4. PortGood'
  BY DEF IInv, PortGood, PortHonest, process
<1>5. \A w \in wire' : w.of = "note" => w \in wire
  BY DEF Creates
<1> QED BY <1>1, <1>3, <1>4, <1>5, Alike, StepKeeps

LEMMA SubmitKeeps ==
    ASSUME IInv, NEW c \in Submits, Submit(c)
    PROVE  IInv'
<1>1. PICK k \in Keys, p \in Payloads, s \in Sessions :
         LET new == [pc |-> "create", key |-> k, payload |-> p, session |-> s, answer |-> "none"]
             found == Reserve(k, p)
         IN  \/ /\ found = "fresh" /\ call' = [call EXCEPT ![c] = new]
                /\ reserved' = [reserved EXCEPT ![k] = TRUE] /\ UNCHANGED entries
             \/ /\ found \in {"reused", "refused"} /\ call' = [call EXCEPT ![c] = [new EXCEPT !.pc = "done", !.answer = found]]
                /\ UNCHANGED index
  BY DEF Submit
<1> DEFINE new == [pc |-> "create", key |-> k, payload |-> p, session |-> s, answer |-> "none"]
           m == [new EXCEPT !.pc = "done", !.answer = Reserve(k, p)]
<1>2. UNCHANGED <<process, noting, poll, munin, wire, bounds>> /\ UNCHANGED entries
  BY <1>1 DEF Submit, index
<1>3. UNCHANGED <<process, noting, poll, result, obs, epoch, task, wire, faults>>
  BY <1>2 DEF munin, bounds
<1>4. TaskGood' /\ EntryGood' /\ task' \in [Keys -> Tasks] /\ faults' \in Nat
      /\ entries' \in [Keys -> Payloads \cup {None}] /\ Grows(poll, task, poll', task')
  BY <1>2, <1>3, Alike DEF IInv, TypeOK, TaskGood, EntryGood, Tasks
<1>5. reserved \in [Keys -> BOOLEAN]
  BY DEF IInv, TypeOK
<1>6. new \in Calls /\ new.pc = "create" /\ new.key = k /\ new.payload = p /\ new.session = s /\ new.answer = "none"
  BY DEF Calls
<1>7. CASE call' = [call EXCEPT ![c] = new] /\ reserved' = [reserved EXCEPT ![k] = TRUE]
  <2>1. new \in Calls /\ CallGood(new, task')
    BY <1>6 DEF CallGood
  <2>2. reserved' \in [Keys -> BOOLEAN]
    BY <1>5, <1>7, Zenon
  <2> HIDE DEF new
  <2> QED BY <1>3, <1>4, <1>7, <2>1, <2>2, CallsKeep
<1>8. ASSUME Reserve(k, p) \in {"reused", "refused"}, call' = [call EXCEPT ![c] = m], UNCHANGED index
      PROVE  IInv'
  <2>1. /\ m \in Calls /\ m.pc = "done" /\ m.key = k /\ m.payload = p /\ m.session = s
        /\ m.answer = Reserve(k, p)
    <3> HIDE DEF new
    <3> QED BY <1>8, <1>6 DEF Calls
  <2>2. Reserve(k, p) = "reused" => task[k].payload = p
    BY DEF Reserve, IInv, EntryGood
  <2>3. Reserve(k, p) = "refused" => task[k].payload \notin {None, p}
    BY NamesAssumption DEF Reserve, IInv, EntryGood
  <2>4. reserved' \in [Keys -> BOOLEAN]
    BY <1>5, <1>8 DEF index
  <2> HIDE DEF m
  <2>5. CallGood(m, task')
    BY <1>3, <1>8, <2>1, <2>2, <2>3 DEF CallGood
  <2> QED BY <1>3, <1>4, <1>8, <2>1, <2>4, <2>5, CallsKeep
<1> QED BY <1>1, <1>7, <1>8

(* What a call at work answers with.                                       *)
LEMMA AnswerFits ==
    ASSUME IInv, NEW c \in Submits, Flying(c), NEW a \in {"accepted", "reused", "refused", "error"}, Answer(c, a)
    PROVE  \E m \in Calls : /\ call' = [call EXCEPT ![c] = m]
                            /\ m.pc = "done" /\ m.answer = a
                            /\ m.key \in Keys /\ m.payload \in Payloads /\ m.session \in Sessions
                            /\ m.key = call[c].key /\ m.payload = call[c].payload /\ m.session = call[c].session
<1>1. call[c] \in Calls /\ call[c].key \in Keys /\ call[c].payload \in Payloads /\ call[c].session \in Sessions
  BY DEF IInv, TypeOK, Calls, CallGood, Flying
<1>2. call' = [call EXCEPT ![c] = [call[c] EXCEPT !.pc = "done", !.answer = a]]
  BY <1>1 DEF Answer, IInv, TypeOK, Calls
<1> DEFINE m == [call[c] EXCEPT !.pc = "done", !.answer = a]
<1>3. /\ m \in Calls /\ m.key = call[c].key /\ m.payload = call[c].payload /\ m.session = call[c].session
      /\ m.pc = "done" /\ m.answer = a
  BY <1>1 DEF Calls
<1> HIDE DEF m
<1> QED BY <1>1, <1>2, <1>3 DEF m

LEMMA IndexFits ==
    ASSUME IInv, NEW k \in Keys, NEW p \in Payloads, Record(k, p) \/ Release(k)
    PROVE  entries' \in [Keys -> Payloads \cup {None}] /\ reserved' \in [Keys -> BOOLEAN]
<1>1. entries \in [Keys -> Payloads \cup {None}] /\ reserved \in [Keys -> BOOLEAN]
  BY DEF IInv, TypeOK
<1>2. reserved' = [reserved EXCEPT ![k] = FALSE]
  BY DEF Record, Release
<1>3. reserved' \in [Keys -> BOOLEAN]
  BY <1>1, <1>2, Zenon
<1> QED BY <1>1, <1>3 DEF Record, Release

(* A task that is created is what its submission asked for.                *)
LEMMA CreatedFits ==
    ASSUME IInv, NEW k \in Keys, NEW p \in Payloads, NEW s \in Sessions, task[k] = NoTask, Created(k, p, s),
           \A q \in Polls : poll'[q] = poll[q]
    PROVE  /\ task' \in [Keys -> Tasks] /\ TaskGood' /\ Grows(poll, task, poll', task')
           /\ task'[k].payload = p /\ \A j \in Keys : j # k => task'[j] = task[j]
<1>1. task \in [Keys -> Tasks] /\ TaskGood /\ task[k].payload = None
  BY DEF IInv, TypeOK, Tasks, NoTask
<1>2. [payload |-> p, session |-> s, life |-> "pending"] \in Tasks
  BY DEF Tasks, Kept
<1>3. task' \in [Keys -> Tasks] /\ task'[k].payload = p /\ \A j \in Keys : j # k => task'[j] = task[j]
  BY <1>1, <1>2 DEF Created
<1> QED BY <1>1, <1>3, NamesAssumption DEF TaskGood, Grows

LEMMA CreateKeeps ==
    ASSUME IInv, NEW c \in Submits, Create(c)
    PROVE  IInv'
<1> DEFINE k == call[c].key  p == call[c].payload  s == call[c].session
<1>1. /\ Flying(c) /\ call[c] \in Calls /\ call[c].pc = "create"
      /\ k \in Keys /\ p \in Payloads /\ s \in Sessions /\ call[c].answer = "none"
  BY DEF Create, Writing, Flying, IInv, TypeOK, Calls, CallGood
<1>2. /\ UNCHANGED <<process, noting, poll, result, obs, epoch>> /\ UNCHANGED wire
      /\ faults' \in Nat /\ entries \in [Keys -> Payloads \cup {None}] /\ reserved \in [Keys -> BOOLEAN]
  BY DEF Create, Fault, IInv, TypeOK
<1> DEFINE m == [call[c] EXCEPT !.pc = "compare"]
<1>3. /\ m \in Calls /\ m.pc = "compare" /\ m.key = k /\ m.payload = p /\ m.session = s /\ m.answer = "none"
      /\ [call EXCEPT ![c].pc = "compare"] = [call EXCEPT ![c] = m]
  BY <1>1 DEF IInv, TypeOK, Calls
<1>4. \A q \in Polls : poll'[q] = poll[q]
  BY <1>2
<1>5. ASSUME task[k] = NoTask, Created(k, p, s) PROVE
        /\ task' \in [Keys -> Tasks] /\ TaskGood' /\ Grows(poll, task, poll', task')
        /\ task'[k].payload = p /\ \A j \in Keys : j # k => task'[j] = task[j]
        /\ task[k].payload = None
  BY <1>1, <1>4, <1>5, CreatedFits DEF NoTask
<1> HIDE DEF k, p, s, m
<1>6. ASSUME task[k] = NoTask, Created(k, p, s), Answer(c, "accepted"), Record(k, p)
      PROVE  IInv'
  <2>1. PICK n \in Calls : /\ call' = [call EXCEPT ![c] = n] /\ n.key = k /\ n.payload = p /\ n.session = s
                           /\ n.pc = "done" /\ n.answer = "accepted"
    BY <1>1, <1>6, AnswerFits DEF k, p, s
  <2>2. CallGood(n, task')
    BY <1>1, <1>5, <1>6, <2>1 DEF CallGood
  <2>3. EntryGood'
    BY <1>1, <1>2, <1>5, <1>6 DEF EntryGood, Record, IInv
  <2> QED BY <1>1, <1>2, <1>5, <1>6, <2>1, <2>2, <2>3, IndexFits, CallsKeep
<1>7. ASSUME task[k] = NoTask, Created(k, p, s), call' = [call EXCEPT ![c] = m], UNCHANGED index
      PROVE  IInv'
  <2>1. CallGood(m, task')
    BY <1>1, <1>3, <1>5, <1>7, NamesAssumption DEF CallGood
  <2>2. EntryGood'
    BY <1>1, <1>2, <1>5, <1>7 DEF EntryGood, index, IInv
  <2> QED BY <1>2, <1>3, <1>5, <1>7, <2>1, <2>2, CallsKeep DEF index
<1>8. ASSUME task[k] # NoTask, UNCHANGED task, call' = [call EXCEPT ![c] = m], UNCHANGED index
      PROVE  IInv'
  <2>1. CallGood(m, task')
    BY <1>1, <1>3, <1>8 DEF CallGood, IInv, TaskGood
  <2>2. EntryGood' /\ TaskGood' /\ task' \in [Keys -> Tasks] /\ Grows(poll, task, poll', task')
    BY <1>2, <1>8, Alike DEF EntryGood, TaskGood, index, IInv, TypeOK, Tasks
  <2> QED BY <1>2, <1>3, <1>8, <2>1, <2>2, CallsKeep DEF index
<1> QED BY <1>3, <1>6, <1>7, <1>8 DEF Create, k, p, s

LEMMA CreateFailsKeeps ==
    ASSUME IInv, NEW c \in Submits, CreateFails(c)
    PROVE  IInv'
<1>1. /\ Flying(c) /\ Writing(c) /\ Answer(c, "error") /\ Release(call[c].key)
      /\ UNCHANGED <<process, noting, poll, munin, epoch>> /\ faults' \in Nat
      /\ wire' \subseteq wire \cup {CreateOf(c)}
  BY DEF CreateFails, Fault, Flying, Writing, IInv, TypeOK
<1>2. PICK n \in Calls : /\ call' = [call EXCEPT ![c] = n] /\ n.key = call[c].key
                         /\ n.key \in Keys /\ n.payload \in Payloads /\ n.session \in Sessions
                         /\ n.pc = "done" /\ n.answer = "error"
  BY <1>1, AnswerFits
<1>3. CallGood(n, task')
  BY <1>2 DEF CallGood
<1>4. wire' \subseteq wire \cup Creates
  BY <1>1, CreateSound
<1>5. UNCHANGED <<task, result, obs, entries>>
  BY <1>1 DEF munin, Release
<1>6. TaskGood' /\ EntryGood' /\ task' \in [Keys -> Tasks] /\ Grows(poll, task, poll', task')
  BY <1>1, <1>5, Alike DEF IInv, TypeOK, TaskGood, EntryGood, Tasks
<1> QED BY <1>1, <1>2, <1>3, <1>4, <1>5, <1>6, IndexFits, CallsKeep

LEMMA CompareKeeps ==
    ASSUME IInv, NEW c \in Submits, Compare(c)
    PROVE  IInv'
<1> DEFINE k == call[c].key  p == call[c].payload
<1>1. /\ Flying(c) /\ k \in Keys /\ p \in Payloads /\ task[k].payload # None
      /\ UNCHANGED <<process, noting, poll, munin, wire, epoch>> /\ faults' \in Nat
  BY DEF Compare, Fault, Flying, IInv, TypeOK, CallGood
<1>2. PICK a \in {"reused", "refused", "error"} :
         /\ Answer(c, a)
         /\ a = "reused" => task[k].payload = p /\ Record(k, p)
         /\ a = "refused" => task[k].payload # p
         /\ a # "reused" => Release(k)
  BY DEF Compare
<1>3. UNCHANGED <<task, result, obs>>
  BY <1>1 DEF munin
<1> HIDE DEF k, p
<1>4. PICK n \in Calls : /\ call' = [call EXCEPT ![c] = n] /\ n.key = k /\ n.payload = p
                         /\ n.key \in Keys /\ n.payload \in Payloads /\ n.session \in Sessions
                         /\ n.pc = "done" /\ n.answer = a
  BY <1>1, <1>2, AnswerFits DEF k, p
<1>5. CallGood(n, task')
  BY <1>1, <1>2, <1>3, <1>4 DEF CallGood
<1>6. EntryGood'
  BY <1>1, <1>2, <1>3 DEF IInv, TypeOK, EntryGood, Record, Release
<1>7. TaskGood' /\ task' \in [Keys -> Tasks] /\ Grows(poll, task, poll', task')
  BY <1>1, <1>3, Alike DEF IInv, TypeOK, TaskGood, Tasks
<1>8. entries' \in [Keys -> Payloads \cup {None}] /\ reserved' \in [Keys -> BOOLEAN]
  BY <1>1, <1>2, IndexFits
<1> QED BY <1>1, <1>3, <1>4, <1>5, <1>6, <1>7, <1>8, CallsKeep

LEMMA LapseKeeps ==
    ASSUME IInv, NEW k \in Keys, Lapse(k)
    PROVE  IInv'
<1>1. UNCHANGED <<process, reserved, noting, call, poll, munin, wire, epoch, faults>>
      /\ entries' = [entries EXCEPT ![k] = None]
  BY DEF Lapse
<1>2. TypeOK'
  BY <1>1 DEF IInv, TypeOK, process, munin
<1>3. PortGood' /\ TaskGood' /\ EntryGood'
  BY <1>1 DEF IInv, TypeOK, PortGood, PortHonest, TaskGood, EntryGood, process, munin
<1> QED BY <1>1, <1>2, <1>3, Alike, StepKeeps DEF munin

-------------------------------------------------------------------------------
(* The polls and their recorders.                                          *)
LEMMA PollsKeep ==
    ASSUME IInv, UNCHANGED <<process, index, call, task, result, epoch>>, noting' \subseteq Keys, faults' \in Nat,
           NEW q \in Polls, NEW m \in Polled, poll' = [poll EXCEPT ![q] = m], PollGood(m, poll, task, obs),
           poll[q].answer = "result" => m.answer = "result" /\ m.key = poll[q].key /\ m.session = poll[q].session,
           obs' \in [Keys -> Docs \cup {None}], Newer(obs, obs'),
           \A k \in Keys : obs'[k] # None => obs'[k] = obs[k] \/ Shows(obs'[k], k, poll, task),
           wire' \subseteq Creates \cup Notes,
           \A w \in wire' : w.of = "note" => w \in wire \/ NoteGood(w, poll, task, obs)
    PROVE  IInv'
<1>1. poll \in [Polls -> Polled] /\ obs \in [Keys -> Docs \cup {None}]
  BY DEF IInv, TypeOK, Polled
<1>2. poll' \in [Polls -> Polled] /\ poll'[q] = m /\ \A p \in Polls : p # q => poll'[p] = poll[p]
  BY <1>1
<1>3. Grows(poll, task, poll', task')
  BY <1>2 DEF Grows
<1>4. \A k \in Keys : obs'[k] # None => obs'[k] = obs[k] \/ Shows(obs'[k], k, poll', task')
  BY <1>3, ShowsStays
<1>5. PollGood(m, poll', task', obs')
  BY <1>1, <1>3, PollStays
<1>6. \A w \in wire' : w.of = "note" => w \in wire \/ NoteGood(w, poll', task', obs')
  <2> SUFFICES ASSUME NEW w \in wire', w.of = "note", w \notin wire PROVE NoteGood(w, poll', task', obs')
    OBVIOUS
  <2>1. w \in Notes /\ NoteGood(w, poll, task, obs)
    BY DEF Creates
  <2> QED BY <1>1, <1>3, <2>1, NoteStays
<1>7. \A k \in Keys : obs'[k] # None => Cardinality(obs'[k].sessions) <= MaxSessions
  BY <1>4 DEF Shows, IInv, TypeOK
<1>8. TypeOK'
  BY <1>2, <1>7 DEF IInv, TypeOK, Polled, Creates, Notes, process, index
<1>9. PortGood' /\ TaskGood' /\ EntryGood'
  BY DEF IInv, PortGood, PortHonest, TaskGood, EntryGood, process, index
<1> QED BY <1>2, <1>3, <1>4, <1>5, <1>6, <1>8, <1>9, StepKeeps

(* A step that changes a poll and the recorders alone.                     *)
LEMMA PollAloneKeeps ==
    ASSUME IInv, UNCHANGED <<process, index, call, munin, wire, epoch>>, noting' \subseteq Keys, faults' \in Nat,
           NEW q \in Polls, NEW m \in Polled, poll' = [poll EXCEPT ![q] = m], PollGood(m, poll, task, obs),
           poll[q].answer = "result" => m.answer = "result" /\ m.key = poll[q].key /\ m.session = poll[q].session
    PROVE  IInv'
<1>1. UNCHANGED <<task, result, obs>>
  BY DEF munin
<1>2. obs \in [Keys -> Docs \cup {None}] /\ wire \subseteq Creates \cup Notes
  BY DEF IInv, TypeOK, Creates, Notes
<1>3. /\ \A k \in Keys : obs'[k] # None => obs'[k] = obs[k]
      /\ \A w \in wire' : w \in wire
  BY <1>1
<1> QED BY <1>1, <1>2, <1>3, Alike, PollsKeep

LEMMA SaysFits ==
    ASSUME IInv, NEW q \in Polls, NEW k \in Keys, NEW s \in Sessions \cup {Anonymous},
           NEW a \in {"status", "result", "retryable"}, NEW whole \in BOOLEAN, whole => a = "result",
           task[k].payload # None, Says(q, k, s, "done", a, whole)
    PROVE  /\ noting' \subseteq Keys
           /\ \E m \in Polled : poll' = [poll EXCEPT ![q] = m] /\ PollGood(m, poll, task, obs)
<1> DEFINE note == IF k \in noting THEN "done" ELSE "read"
           m == [pc |-> "done", key |-> k, session |-> s, answer |-> a, note |-> note,
                 whole |-> whole, prev |-> None, again |-> FALSE]
<1>1. noting' \subseteq Keys
  BY DEF Says, IInv, TypeOK
<1>2. poll' = [poll EXCEPT ![q] = m]
  BY DEF Says
<1>3. note \in {"read", "done"}
  OBVIOUS
<1> HIDE DEF note
<1>4. m \in Polled
  BY <1>3 DEF Polled
<1>5. PollGood(m, poll, task, obs)
  BY <1>3, NamesAssumption DEF PollGood
<1> QED BY <1>1, <1>2, <1>4, <1>5

LEMMA PollKeeps ==
    ASSUME IInv, NEW q \in Polls, Poll(q)
    PROVE  IInv'
<1>1. PICK k \in Keys, s \in Sessions \cup {Anonymous} :
         LET quiet == [NoPoll EXCEPT !.key = k, !.session = s] IN
         \/ /\ task[k].payload \in Payloads /\ task[k].life # "completed"
            /\ Says(q, k, s, "done", "status", FALSE)
         \/ /\ task[k].payload \in Payloads /\ task[k].life = "completed"
            /\ poll' = [poll EXCEPT ![q] = [quiet EXCEPT !.pc = "result"]] /\ UNCHANGED noting
  BY DEF Poll
<1>2. /\ UNCHANGED <<process, index, call, munin, wire, epoch>> /\ faults' \in Nat
      /\ task[k].payload # None /\ poll[q].pc = "new"
  BY <1>1, NamesAssumption DEF Poll, bounds, IInv, TypeOK
<1>3. poll[q].answer # "result"
  BY <1>2 DEF IInv, PollGood
<1>4. CASE Says(q, k, s, "done", "status", FALSE)
  BY <1>2, <1>3, <1>4, SaysFits, PollAloneKeeps
<1> DEFINE m == [[NoPoll EXCEPT !.key = k, !.session = s] EXCEPT !.pc = "result"]
<1>5. /\ m \in Polled /\ m.pc = "result" /\ m.key = k /\ m.session = s /\ m.answer = "none" /\ m.note = "idle"
      /\ m.prev = None /\ ~m.whole
  BY DEF NoPoll, Polled
<1>6. CASE poll' = [poll EXCEPT ![q] = m] /\ UNCHANGED noting
  <2> HIDE DEF m
  <2>1. PollGood(m, poll, task, obs) /\ noting' \subseteq Keys
    BY <1>2, <1>5, <1>6, NamesAssumption DEF PollGood, IInv, TypeOK
  <2> QED BY <1>2, <1>3, <1>5, <1>6, <2>1, PollAloneKeeps
<1> QED BY <1>1, <1>4, <1>6

LEMMA CollectKeeps ==
    ASSUME IInv, NEW q \in Polls, Collect(q) \/ PollFails(q)
    PROVE  IInv'
<1> DEFINE k == poll[q].key  s == poll[q].session
<1>1. /\ UNCHANGED <<process, index, call, munin, wire, epoch>> /\ faults' \in Nat /\ poll[q].pc = "result"
      /\ poll[q] \in Polled /\ PollGood(poll[q], poll, task, obs)
  <2>1. poll[q] \in Polled /\ PollGood(poll[q], poll, task, obs) /\ faults \in Nat
    BY DEF IInv, TypeOK, Polled
  <2>2. UNCHANGED <<process, index, call, munin, wire, epoch>> /\ poll[q].pc = "result"
    BY DEF Collect, PollFails, bounds
  <2>3. faults' = faults \/ faults' = faults + 1
    BY DEF Collect, PollFails, Fault, bounds
  <2> QED BY <2>1, <2>2, <2>3
<1>2. /\ k \in Keys /\ s \in Sessions \cup {Anonymous} /\ task[k].payload # None /\ poll[q].answer # "result"
  BY <1>1 DEF PollGood, Polled
<1> HIDE DEF k, s
<1>3. ASSUME Says(q, k, s, "done", "result", TRUE) \/ Says(q, k, s, "done", "retryable", FALSE) PROVE IInv'
  <2>1. noting' \subseteq Keys /\ \E m \in Polled : poll' = [poll EXCEPT ![q] = m] /\ PollGood(m, poll, task, obs)
    BY <1>2, <1>3, SaysFits
  <2> QED BY <1>1, <1>2, <2>1, PollAloneKeeps
<1>4. CASE PollFails(q)
  <2> DEFINE m == [poll[q] EXCEPT !.pc = "done", !.answer = "error"]
  <2>1. poll' = [poll EXCEPT ![q] = m]
    BY <1>4 DEF PollFails, IInv, TypeOK, Polled
  <2>2. m \in Polled /\ PollGood(m, poll, task, obs)
    BY <1>1 DEF Polled, PollGood
  <2>3. noting' \subseteq Keys
    BY <1>4 DEF PollFails, IInv, TypeOK
  <2> HIDE DEF m
  <2> QED BY <1>1, <1>2, <2>1, <2>2, <2>3, PollAloneKeeps
<1> QED BY <1>3, <1>4 DEF Collect, k, s

(* What an awaiting recorder holds.                                        *)
LEMMA NoterFits ==
    ASSUME IInv, NEW q \in Polls, poll[q].note \in {"read", "write"}
    PROVE  /\ poll[q] \in Polled /\ PollGood(poll[q], poll, task, obs)
           /\ poll[q].pc # "new" /\ poll[q].key \in Keys /\ poll[q].session \in Sessions \cup {Anonymous}
           /\ poll[q].whole \in BOOLEAN /\ task[poll[q].key].payload # None
           /\ obs \in [Keys -> Docs \cup {None}] /\ faults \in Nat /\ noting \subseteq Keys
<1>1. /\ poll[q] \in Polled /\ PollGood(poll[q], poll, task, obs)
      /\ obs \in [Keys -> Docs \cup {None}] /\ faults \in Nat /\ noting \subseteq Keys
  BY DEF IInv, TypeOK, Polled
<1> QED BY <1>1 DEF PollGood, Polled

(* A recorder that ends, or tries once more, has taken nothing back.       *)
LEMMA EndsFit ==
    ASSUME IInv, NEW q \in Polls, poll[q].note \in {"read", "write"}, NoteEnds(q) \/ NoteFails(q)
    PROVE  /\ noting' \subseteq Keys
           /\ \E m \in Polled : /\ poll' = [poll EXCEPT ![q] = m] /\ PollGood(m, poll, task, obs)
                                /\ m.answer = poll[q].answer /\ m.key = poll[q].key /\ m.session = poll[q].session
<1>1. /\ poll[q] \in Polled /\ PollGood(poll[q], poll, task, obs) /\ poll[q].key \in Keys
      /\ task[poll[q].key].payload # None /\ noting \subseteq Keys /\ poll \in [Polls -> Polled]
      /\ poll[q].pc \notin {"new", "result"}
  BY NoterFits DEF IInv, TypeOK, Polled, PollGood
<1>2. noting' \subseteq Keys
  BY <1>1 DEF NoteEnds, NoteFails
<1> DEFINE d == [poll[q] EXCEPT !.note = "done"]
           r == [poll[q] EXCEPT !.note = "read", !.again = TRUE]
<1>3. poll' = [poll EXCEPT ![q] = d] \/ poll' = [poll EXCEPT ![q] = r]
  BY <1>1 DEF NoteEnds, NoteFails
<1>4. /\ d \in Polled /\ d.answer = poll[q].answer /\ d.key = poll[q].key /\ d.session = poll[q].session
      /\ d.pc = poll[q].pc /\ d.note = "done" /\ d.prev = poll[q].prev /\ d.whole = poll[q].whole
  BY <1>1 DEF Polled
<1>5. /\ r \in Polled /\ r.answer = poll[q].answer /\ r.key = poll[q].key /\ r.session = poll[q].session
      /\ r.pc = poll[q].pc /\ r.note = "read" /\ r.prev = poll[q].prev /\ r.whole = poll[q].whole
  BY <1>1 DEF Polled
<1> HIDE DEF d, r
<1>6. PollGood(d, poll, task, obs)
  BY <1>1, <1>4 DEF PollGood
<1>7. PollGood(r, poll, task, obs)
  BY <1>1, <1>5 DEF PollGood
<1> QED BY <1>2, <1>3, <1>4, <1>5, <1>6, <1>7

LEMMA NoteReadsKeeps ==
    ASSUME IInv, NEW q \in Polls, NoteReads(q)
    PROVE  IInv'
<1> DEFINE k == poll[q].key
           next == Fold(k, obs[k], poll[q].session, poll[q].whole)
<1>1. poll[q].note = "read" /\ UNCHANGED <<process, index, call, munin, wire, epoch>>
  BY DEF NoteReads
<1>2. /\ poll[q] \in Polled /\ PollGood(poll[q], poll, task, obs) /\ poll[q].pc \notin {"new", "result"}
      /\ k \in Keys /\ task[k].payload # None /\ obs \in [Keys -> Docs \cup {None}] /\ faults \in Nat
      /\ noting \subseteq Keys
  BY <1>1, NoterFits DEF PollGood
<1>3. ASSUME NoteEnds(q), faults' = faults \/ Fault PROVE IInv'
  <2>1. faults' \in Nat
    BY <1>2, <1>3 DEF Fault
  <2> QED BY <1>1, <1>3, <2>1, EndsFit, PollAloneKeeps
<1>4. ASSUME poll' = [poll EXCEPT ![q].note = "write", ![q].prev = obs[k]], UNCHANGED <<noting, faults>> PROVE IInv'
  <2> DEFINE m == [poll[q] EXCEPT !.note = "write", !.prev = obs[k]]
  <2>1. poll' = [poll EXCEPT ![q] = m]
    BY <1>4 DEF IInv, TypeOK, Polled
  <2>2. obs[k] \in Docs \cup {None}
    BY <1>2
  <2>3. /\ m \in Polled /\ m.answer = poll[q].answer /\ m.key = k /\ m.session = poll[q].session
        /\ m.pc = poll[q].pc /\ m.note = "write" /\ m.prev = obs[k] /\ m.whole = poll[q].whole
    <3> HIDE DEF k
    <3> QED BY <1>2, <2>2 DEF Polled, k
  <2>4. obs[k] # None => Shows(obs[k], k, poll, task) /\ Precedes(obs[k], obs[k])
    BY <1>2, <2>2 DEF IInv, Precedes, Docs
  <2> HIDE DEF m, k
  <2>5. PollGood(m, poll, task, obs)
    BY <1>2, <2>3, <2>4 DEF PollGood, k
  <2> QED BY <1>1, <1>2, <1>4, <2>1, <2>3, <2>5, PollAloneKeeps DEF k
<1> QED BY <1>3, <1>4 DEF NoteReads

(* What is stored next.                                                    *)
LEMMA StoredFits ==
    ASSUME IInv, NEW k \in Keys, NEW d \in Docs, Shows(d, k, poll, task), Stored(k, d)
    PROVE  /\ obs' \in [Keys -> Docs \cup {None}] /\ Newer(obs, obs')
           /\ \A j \in Keys : obs'[j] # None => obs'[j] = obs[j] \/ Shows(obs'[j], j, poll, task)
           /\ \A j \in Keys : j # k => obs'[j] = obs[j]
           /\ obs'[k] # None /\ Adds(d, obs'[k])
<1> DEFINE n == (IF obs[k] = None THEN 0 ELSE obs[k].n) + 1
           e == [d EXCEPT !.n = n]
<1>1. obs \in [Keys -> Docs \cup {None}]
  BY DEF IInv, TypeOK
<1>2. n \in Nat /\ (obs[k] # None => n = obs[k].n + 1)
  BY <1>1 DEF Docs
<1>3. obs' = [obs EXCEPT ![k] = e]
  BY DEF Stored
<1> HIDE DEF n
<1>4. /\ e \in Docs /\ e.n = n /\ e.handoff = d.handoff /\ e.collected = d.collected /\ e.sessions = d.sessions
  BY <1>2 DEF Docs
<1> HIDE DEF e
<1>5. e # None
  BY <1>4, NoDocAssumption
<1>6. Shows(e, k, poll, task) /\ Adds(d, e)
  BY <1>4 DEF Shows, Adds
<1>7. obs'[k] = e /\ \A j \in Keys : j # k => obs'[j] = obs[j]
  BY <1>1, <1>3
<1>8. obs' \in [Keys -> Docs \cup {None}] /\ Newer(obs, obs')
  BY <1>1, <1>2, <1>3, <1>4, <1>5, <1>7 DEF Newer
<1> QED BY <1>5, <1>6, <1>7, <1>8

LEMMA NoteWritesKeeps ==
    ASSUME IInv, NEW q \in Polls, NoteWrites(q)
    PROVE  IInv'
<1> DEFINE k == poll[q].key  w == NoteOf(q)
<1>1. poll[q].note = "write" /\ UNCHANGED <<process, index, call, task, result, epoch>>
  BY DEF NoteWrites
<1>2. /\ w \in Notes /\ w.key = k /\ NoteGood(w, poll, task, obs) /\ w.doc \in Docs /\ k \in Keys
      /\ Shows(w.doc, k, poll, task)
  BY <1>1, NoteSound DEF Notes, NoteGood
<1>3. /\ NoteEnds(q) \/ NoteFails(q)
      /\ faults' = faults \/ Fault
      /\ wire' \in {wire, wire \cup {w}}
      /\ Stored(k, w.doc) \/ UNCHANGED obs
  BY DEF NoteWrites
<1> HIDE DEF k, w
<1>4. faults' \in Nat
  BY <1>1, <1>3, NoterFits DEF Fault
<1>5. /\ obs' \in [Keys -> Docs \cup {None}] /\ Newer(obs, obs')
      /\ \A j \in Keys : obs'[j] # None => obs'[j] = obs[j] \/ Shows(obs'[j], j, poll, task)
  <2>1. CASE Stored(k, w.doc)
    BY <1>2, <2>1, StoredFits
  <2>2. CASE UNCHANGED obs
    BY <2>2, Alike DEF IInv, TypeOK
  <2> QED BY <1>3, <2>1, <2>2
<1>6. /\ wire' \subseteq Creates \cup Notes
      /\ \A v \in wire' : v.of = "note" => v \in wire \/ NoteGood(v, poll, task, obs)
  BY <1>2, <1>3 DEF IInv, TypeOK, Creates, Notes
<1>7. PICK m \in Polled : /\ poll' = [poll EXCEPT ![q] = m] /\ PollGood(m, poll, task, obs)
                          /\ m.answer = poll[q].answer /\ m.key = poll[q].key /\ m.session = poll[q].session
  BY <1>1, <1>3, EndsFit
<1>8. noting' \subseteq Keys
  BY <1>1, <1>3, EndsFit
<1> QED BY <1>1, <1>4, <1>5, <1>6, <1>7, <1>8, PollsKeep

-------------------------------------------------------------------------------
(* Munin and the dispatcher.                                               *)
LEMMA MuninKeeps ==
    ASSUME IInv, UNCHANGED <<process, index, noting, call, poll, bounds>>,
           wire' \subseteq wire, result' \in [Keys -> BOOLEAN],
           task' \in [Keys -> Tasks], TaskGood', EntryGood', Grows(poll, task, poll, task'),
           obs' \in [Keys -> Docs \cup {None}], Newer(obs, obs'),
           \A k \in Keys : obs'[k] # None => obs'[k] = obs[k] \/ Shows(obs'[k], k, poll, task)
    PROVE  IInv'
<1>1. \A k \in Keys : obs'[k] # None => obs'[k] = obs[k] \/ Shows(obs'[k], k, poll', task')
  BY ShowsStays
<1>2. \A k \in Keys : obs'[k] # None => Cardinality(obs'[k].sessions) <= MaxSessions
  BY DEF Shows, IInv, TypeOK
<1>3. TypeOK'
  BY <1>2 DEF IInv, TypeOK, Tasks, process, index, bounds
<1>4. PortGood'
  BY DEF IInv, PortGood, PortHonest, process
<1> QED BY <1>1, <1>3, <1>4, StepKeeps

LEMMA LateKeeps ==
    ASSUME IInv, NEW w \in wire, Late(w)
    PROVE  IInv'
<1>1. /\ UNCHANGED <<process, index, noting, call, poll, bounds>> /\ result' = result /\ wire' \subseteq wire
      /\ \/ /\ w.of = "create" /\ task[w.key] = NoTask /\ Created(w.key, w.payload, w.session) /\ UNCHANGED obs
         \/ /\ w.of = "note" /\ Stored(w.key, w.doc) /\ UNCHANGED task
         \/ UNCHANGED <<task, obs>>
  BY DEF Late
<1>2. /\ w \in Creates \cup Notes /\ (w.of = "note" => NoteGood(w, poll, task, obs))
      /\ result' \in [Keys -> BOOLEAN] /\ obs \in [Keys -> Docs \cup {None}] /\ task \in [Keys -> Tasks]
  BY <1>1 DEF IInv, TypeOK, Creates, Notes, Tasks
<1>3. CASE UNCHANGED <<task, obs>>
  <2>1. TaskGood' /\ EntryGood'
    BY <1>1, <1>3 DEF IInv, TaskGood, EntryGood, index
  <2> QED BY <1>1, <1>2, <1>3, <2>1, Alike, MuninKeeps
<1>4. CASE w.of = "note" /\ Stored(w.key, w.doc) /\ UNCHANGED task
  <2>1. w.key \in Keys /\ w.doc \in Docs /\ Shows(w.doc, w.key, poll, task)
    BY <1>2, <1>4 DEF Creates, Notes, NoteGood
  <2>2. TaskGood' /\ EntryGood'
    BY <1>1, <1>4 DEF IInv, TaskGood, EntryGood, index
  <2>3. /\ obs' \in [Keys -> Docs \cup {None}] /\ Newer(obs, obs')
        /\ \A j \in Keys : obs'[j] # None => obs'[j] = obs[j] \/ Shows(obs'[j], j, poll, task)
    BY <1>4, <2>1, StoredFits
  <2> QED BY <1>1, <1>2, <1>4, <2>2, <2>3, Alike, MuninKeeps
<1>5. CASE w.of = "create" /\ task[w.key] = NoTask /\ Created(w.key, w.payload, w.session) /\ UNCHANGED obs
  <2>1. w.key \in Keys /\ w.payload \in Payloads /\ w.session \in Sessions
    BY <1>2, <1>5 DEF Creates, Notes
  <2>2. /\ task' \in [Keys -> Tasks] /\ TaskGood' /\ Grows(poll, task, poll', task')
        /\ \A j \in Keys : j # w.key => task'[j] = task[j]
    BY <1>1, <1>5, <2>1, CreatedFits
  <2>3. EntryGood'
    BY <1>1, <1>5, <2>1, <2>2, NamesAssumption DEF IInv, TypeOK, EntryGood, index, NoTask
  <2> QED BY <1>1, <1>2, <1>5, <2>2, <2>3, Alike, MuninKeeps
<1> QED BY <1>1, <1>3, <1>4, <1>5

LEMMA WorkKeeps ==
    ASSUME IInv, NEW k \in Keys, Work(k)
    PROVE  IInv'
<1>1. /\ UNCHANGED <<process, index, noting, call, poll, bounds>> /\ wire' = wire /\ obs' = obs
      /\ \/ UNCHANGED task
         \/ \E life \in {"running", "completed", "failed"} :
               task[k].payload \in Payloads /\ task' = [task EXCEPT ![k].life = life]
  BY DEF Work, Lives
<1>2. result \in [Keys -> BOOLEAN] /\ obs \in [Keys -> Docs \cup {None}] /\ task \in [Keys -> Tasks]
  BY DEF IInv, TypeOK, Tasks
<1>3. result' \in [Keys -> BOOLEAN]
  <2>1. result' = result \/ result' = [result EXCEPT ![k] = TRUE]
    BY DEF Work
  <2>2. [result EXCEPT ![k] = TRUE] \in [Keys -> BOOLEAN]
    BY <1>2, Zenon
  <2> QED BY <1>2, <2>1, <2>2
<1>4. /\ task' \in [Keys -> Tasks]
      /\ \A j \in Keys : /\ task'[j].payload = task[j].payload /\ task'[j].session = task[j].session
                         /\ task[j].payload = None => task'[j] = task[j]
  BY <1>1, <1>2, NamesAssumption DEF Tasks
<1>5. TaskGood' /\ EntryGood' /\ Grows(poll, task, poll, task')
  BY <1>1, <1>4 DEF IInv, TaskGood, EntryGood, Grows, index
<1> QED BY <1>1, <1>2, <1>3, <1>4, <1>5, Alike, MuninKeeps

LEMMA Invariance ==
    ASSUME IInv, [Next]_vars
    PROVE  IInv'
<1>1. CASE Bound \/ BindFails \/ BindRetries \/ BindAgain \/ Shutdown
  BY <1>1, PortKeeps
<1>2. ASSUME NEW c \in Submits, Submit(c) \/ CallStep(c) PROVE IInv'
  BY <1>2, SubmitKeeps, CreateKeeps, CreateFailsKeeps, CompareKeeps DEF CallStep
<1>3. ASSUME NEW q \in Polls, Poll(q) \/ PollStep(q) PROVE IInv'
  BY <1>3, PollKeeps, CollectKeeps, NoteReadsKeeps, NoteWritesKeeps DEF PollStep
<1>4. ASSUME NEW k \in Keys, Lapse(k) \/ Work(k) PROVE IInv'
  BY <1>4, LapseKeeps, WorkKeeps
<1>5. CASE UNCHANGED vars
  <2>1. UNCHANGED <<process, index, noting, call, poll, bounds, wire, result, task, obs>>
    BY <1>5 DEF vars, munin
  <2>2. TaskGood' /\ EntryGood' /\ task' \in [Keys -> Tasks] /\ result' \in [Keys -> BOOLEAN]
        /\ obs' \in [Keys -> Docs \cup {None}]
    BY <2>1 DEF IInv, TypeOK, Tasks, TaskGood, EntryGood, index
  <2> QED BY <2>1, <2>2, Alike, MuninKeeps
<1> QED BY <1>1, <1>2, <1>3, <1>4, <1>5, RestartKeeps, LateKeeps DEF Next

(* A submission is accepted, or told of the task that is there, only when  *)
(* the task is what it asked for, and refused only because of another: for *)
(* ever, whatever was lost, late, forgotten or restarted.                  *)
THEOREM AlwaysAnswered == Spec => []AnsweredForCause
<1>1. IInv => AnsweredForCause
  BY Implied
<1> QED BY <1>1, Starts, Invariance, PTL DEF Spec

(* A step takes stored evidence away only if it is a first write that was  *)
(* sent when nothing was stored: a write names the document it read, whose *)
(* number is the stored one's only if it is that one.                      *)
LEMMA StepsKeepEvidence ==
    ASSUME IInv, [Next]_vars
    PROVE  \A k \in Keys : Lost(k) => FirstWrite(k)
<1> SUFFICES ASSUME NEW k \in Keys, Lost(k) PROVE FirstWrite(k)
  OBVIOUS
<1>1. obs[k] # None /\ obs'[k] # obs[k]
  BY DEF Lost
<1>2. (\E q \in Polls : NoteWrites(q)) \/ \E w \in wire : Late(w)
  BY <1>1 DEF Next, vars, munin, Bound, BindFails, BindRetries, BindAgain, Shutdown, Restart, Submit, CallStep,
              Create, CreateFails, Compare, Poll, PollStep, Collect, PollFails, NoteReads, Lapse, Work
<1>3. obs \in [Keys -> Docs \cup {None}]
  BY DEF IInv, TypeOK
<1>4. ASSUME NEW w \in Notes, NoteGood(w, poll, task, obs), w.prev # None, Takes(w.key, w.prev), Stored(w.key, w.doc)
      PROVE  FALSE
  <2>1. w.key \in Keys /\ w.doc \in Docs /\ w.prev \in Docs
    BY <1>4 DEF Notes
  <2>2. w.prev = obs[w.key] /\ Adds(w.prev, w.doc)
    BY <1>4 DEF NoteGood, Precedes, Takes
  <2>3. k = w.key /\ Adds(w.doc, obs'[k])
    BY <1>1, <1>4, <2>1, StoredFits DEF NoteGood
  <2> QED BY <2>2, <2>3 DEF Lost, Adds
<1>5. ASSUME NEW w \in wire, Late(w) PROVE FirstWrite(k)
  <2>1. w.of = "note" /\ Takes(w.key, w.prev) /\ Stored(w.key, w.doc) /\ w \in wire \ wire'
    BY <1>1, <1>5 DEF Late
  <2>2. w \in Notes /\ NoteGood(w, poll, task, obs)
    BY <2>1 DEF IInv, TypeOK, Notes
  <2>3. w.prev = None
    BY <1>4, <2>1, <2>2
  <2>4. w.key = k
    BY <1>1, <1>3, <2>1, <2>2 DEF Stored, Notes
  <2> QED BY <2>1, <2>3, <2>4 DEF FirstWrite
<1>6. ASSUME NEW q \in Polls, NoteWrites(q) PROVE FirstWrite(k)
  <2>1. poll[q].note = "write" /\ Takes(poll[q].key, NoteOf(q).prev) /\ Stored(poll[q].key, NoteOf(q).doc)
        /\ (NoteEnds(q) \/ NoteFails(q))
    BY <1>1, <1>6 DEF NoteWrites
  <2>2. /\ NoteOf(q) \in Notes /\ NoteOf(q).key = poll[q].key /\ NoteOf(q).prev = poll[q].prev
        /\ NoteGood(NoteOf(q), poll, task, obs)
    BY <2>1, NoteSound
  <2>3. poll[q].prev = None
    BY <1>4, <2>1, <2>2
  <2>4. poll[q].key = k
    BY <1>1, <1>3, <2>1, <2>2 DEF Stored, Notes
  <2>5. poll'[q].note # "write"
    <3>1. poll \in [Polls -> Polled]
      BY DEF IInv, TypeOK, Polled
    <3> QED BY <2>1, <3>1 DEF NoteEnds, NoteFails, Polled
  <2> QED BY <2>1, <2>3, <2>4, <2>5 DEF FirstWrite
<1> QED BY <1>2, <1>5, <1>6

(* What the broker tells is so, and what it has on record it keeps.        *)
THEOREM AlwaysStands == Spec => EvidenceStands
<1>1. IInv => Honest
  BY Implied
<1>2. IInv /\ [Next]_vars => [\A k \in Keys : Lost(k) => FirstWrite(k)]_vars
  BY StepsKeepEvidence
<1> QED BY <1>1, <1>2, Starts, Invariance, PTL DEF Spec, EvidenceStands, EvidenceKept

-------------------------------------------------------------------------------
(* Ratings (QualityLedger).                                                 *)

(* The ledger of ratings, for any reviewers, verdicts, rubrics and calls,  *)
(* any results, lost answers and late writes.                              *)

(* The receipts of a reviewer on a result, and those that count.           *)
Of(d, b, who) == {r \in Receipts(d) : r.who = who /\ r.of = b}
Standing(d, b, who) == {r \in Effective(d, b) : r.who = who}

(* Of the receipts of a reviewer on a result one stands, the latest.       *)
OneStands(d) ==
    \A b \in Nat, who \in Reviewers :
        Of(d, b, who) # {} =>
            \E x : Standing(d, b, who) = {x} /\ \A o \in Of(d, b, who) : At(o) <= At(x)

(* A receipt corrects at most one other.                                   *)
Single(f) == f = {} \/ \E i : f = {i}

Ledger(d, n) ==
    /\ d.n \in Nat /\ d.receipts \in Seq(Receipts(d))
    /\ \A r \in Receipts(d) : Receipt(r, n) /\ Single(r.fixes)

(* What may be appended to a ledger.                                       *)
Fits(d, r, n) == Receipt(r, n) /\ Single(r.fixes) /\ FoldReceipt(d, r) = "append"

Fields == {"pc", "who", "role", "verdict", "of", "at", "fixes", "rubric", "seen", "tries", "answer"}

(* A call that was begun asks for a receipt; one that writes has read the  *)
(* ledger as it is, or as it was before.                                   *)
RateGood(m, n, d) ==
    /\ DOMAIN m = Fields
    /\ m.pc # "new" =>
         /\ m.who \in Reviewers /\ m.role \in {"independent", "self"} /\ m.verdict \in Verdicts
         /\ m.of \in 1 .. n /\ m.at \in Nat /\ m.rubric \in Rubrics \cup {Unversioned}
         /\ m.fixes = {} <=> m.rubric = Unversioned
         /\ Single(m.fixes)
    /\ m.pc = "write" =>
         /\ Ledger(m.seen, n) /\ m.seen.n <= d.n
         /\ m.seen.n = d.n => m.seen = d
         /\ Fits(m.seen, Build(m, m.seen), n)

(* A write that may still be applied extends the ledger that is there, or  *)
(* comes too late.                                                         *)
AdriftGood(w, n, d) ==
    /\ w.n \in Nat /\ w.n <= d.n /\ \A r \in Receipts(w) : Receipt(r, n)
    /\ w.n = d.n => \E r : Fits(d, r, n) /\ w.receipts = Append(d.receipts, r)

LedgerInv ==
    /\ LedgerTypeOK /\ LedgerSound /\ Recorded
    /\ Ledger(doc, run) /\ OneStands(doc)
    /\ DOMAIN rate = Rates /\ \A c \in Rates : RateGood(rate[c], run, doc)
    /\ \A w \in adrift : AdriftGood(w, run, doc)

-------------------------------------------------------------------------------
(* What a receipt is made of.                                               *)

LEMMA ReceiptsAppended ==
    ASSUME NEW d, NEW r, d.receipts \in Seq(Receipts(d)), NEW e, e.receipts = Append(d.receipts, r)
    PROVE  /\ Receipts(e) = Receipts(d) \cup {r}
           /\ Len(d.receipts) \in Nat /\ Len(e.receipts) = Len(d.receipts) + 1
           /\ \A i \in 1..Len(d.receipts) : e.receipts[i] = d.receipts[i]
           /\ e.receipts[Len(d.receipts) + 1] = r
           /\ e.receipts \in Seq(Receipts(e))
<1> DEFINE s == d.receipts  S == Receipts(d) \cup {r}  t == Append(s, r)
<1>1. s \in Seq(S) /\ r \in S
  <2>1. s \in Seq(Receipts(d))
    OBVIOUS
  <2>2. Receipts(d) \subseteq S
    OBVIOUS
  <2> HIDE DEF s, S
  <2>3. s \in Seq(S)
    BY <2>1, <2>2, SeqMonotonic
  <2> QED BY <2>3 DEF S
<1>2. /\ Len(s) \in Nat /\ t \in Seq(S) /\ Len(t) = Len(s) + 1
      /\ (\A i \in 1..Len(s) : t[i] = s[i]) /\ t[Len(s) + 1] = r
  <2> HIDE DEF s, S
  <2> QED BY <1>1, AppendProperties, LenProperties
<1>3. e.receipts = t
  OBVIOUS
<1>4. \A i \in 1..Len(s) : s[i] \in Receipts(d)
  BY DEF Receipts
<1>5. Receipts(e) = {t[i] : i \in 1..(Len(s) + 1)}
  BY <1>2, <1>3 DEF Receipts
<1>6. Receipts(d) = {s[i] : i \in 1..Len(s)}
  BY DEF Receipts
<1> HIDE DEF t, s
<1>7. Receipts(e) = Receipts(d) \cup {r}
  BY <1>2, <1>5, <1>6, SMTT(40)
<1> QED BY <1>2, <1>3, <1>7 DEF s

(* The identity of a receipt tells everything but the time of an original. *)
LEMMA SameId ==
    ASSUME NEW o, NEW r, NEW n, Receipt(o, n), Receipt(r, n), Id(o) = Id(r)
    PROVE  o.who = r.who /\ o.role = r.role /\ o.verdict = r.verdict /\ o.of = r.of /\ o.fixes = r.fixes
<1>1. \A x : Receipt(x, n) => /\ Id(x).who = x.who /\ Id(x).role = x.role /\ Id(x).verdict = x.verdict
                           /\ Id(x).of = x.of /\ Id(x).fixes = x.fixes
  BY DEF Receipt, Id
<1> QED BY <1>1

LEMMA SameTimeless ==
    ASSUME NEW o, NEW r, NEW n, Receipt(o, n), Receipt(r, n), Timeless(o) = Timeless(r)
    PROVE  o.who = r.who /\ o.role = r.role /\ o.verdict = r.verdict /\ o.of = r.of /\ o.fixes = r.fixes
<1>1. \A x : Receipt(x, n) => /\ Timeless(x).who = x.who /\ Timeless(x).role = x.role
                           /\ Timeless(x).verdict = x.verdict /\ Timeless(x).of = x.of
                           /\ Timeless(x).fixes = x.fixes
  BY DEF Receipt, Timeless
<1> QED BY <1>1

(* What the verdicts of a fold say.                                        *)
LEMMA FoldFacts ==
    ASSUME NEW d, NEW r
    PROVE  /\ FoldReceipt(d, r) = "same" =>
                \E o \in Receipts(d) : Id(o) = Id(r) \/ Timeless(o) = Timeless(r)
           /\ FoldReceipt(d, r) = "append" =>
                /\ \A o \in Receipts(d) : Id(o) # Id(r)
                /\ r.fixes = {} => \A o \in Receipts(d) : ~(o.who = r.who /\ o.of = r.of)
                /\ r.fixes # {} => /\ \A o \in Receipts(d) : o.fixes # r.fixes
                                   /\ \E p \in Receipts(d) : Id(p) \in r.fixes /\ Chained(p, r)
<1> DEFINE held == \E o \in Receipts(d) : Id(o) = Id(r)
           verdict == \E o \in Receipts(d) : o.who = r.who /\ o.of = r.of
           first == {p \in Receipts(d) : Id(p) \in r.fixes}
           next == {o \in Receipts(d) : o.fixes = r.fixes}
           again == first # {} /\ \E o \in next : Timeless(o) = Timeless(r)
           follows == next = {} /\ \E p \in first : Chained(p, r)
<1>1. FoldReceipt(d, r) =
        CASE held -> "same"
          [] ~held /\ r.fixes = {} -> IF verdict THEN "conflict" ELSE "append"
          [] ~held /\ r.fixes # {} -> IF again THEN "same" ELSE IF follows THEN "append" ELSE "conflict"
  BY DEF FoldReceipt
<1>2. follows => /\ \A o \in Receipts(d) : o.fixes # r.fixes
                 /\ \E p \in Receipts(d) : Id(p) \in r.fixes /\ Chained(p, r)
  OBVIOUS
<1>3. again => \E o \in Receipts(d) : Timeless(o) = Timeless(r)
  OBVIOUS
<1> HIDE DEF again, follows, first, next
<1>4. CASE held
  <2>1. FoldReceipt(d, r) = "same"
    BY <1>1, <1>4
  <2> QED BY <1>4, <2>1
<1>5. CASE ~held /\ r.fixes = {}
  <2>1. FoldReceipt(d, r) = IF verdict THEN "conflict" ELSE "append"
    BY <1>1, <1>5
  <2> QED BY <1>5, <2>1
<1>6. CASE ~held /\ r.fixes # {}
  <2>1. FoldReceipt(d, r) = IF again THEN "same" ELSE IF follows THEN "append" ELSE "conflict"
    BY <1>1, <1>6
  <2> QED BY <1>2, <1>3, <1>6, <2>1
<1> QED BY <1>4, <1>5, <1>6

-------------------------------------------------------------------------------
(* The ledger grows by a receipt that fits.                                 *)

LedgerGrows(r) == Fits(doc, r, run) /\ doc' = [receipts |-> Append(doc.receipts, r), n |-> doc.n + 1]

LEMMA GrownFacts ==
    ASSUME Ledger(doc, run), NEW r, LedgerGrows(r)
    PROVE  /\ Receipts(doc') = Receipts(doc) \cup {r} /\ doc'.n = doc.n + 1
           /\ Len(doc.receipts) \in Nat /\ Len(doc'.receipts) = Len(doc.receipts) + 1
           /\ \A i \in 1..Len(doc.receipts) : doc'.receipts[i] = doc.receipts[i]
           /\ doc'.receipts[Len(doc.receipts) + 1] = r
           /\ doc'.receipts \in Seq(Receipts(doc'))
           /\ \A o \in Receipts(doc) : Id(o) # Id(r)
<1>1. doc'.receipts = Append(doc.receipts, r) /\ doc'.n = doc.n + 1
  BY DEF LedgerGrows
<1>2. doc.receipts \in Seq(Receipts(doc))
  BY DEF Ledger
<1>3. \A o \in Receipts(doc) : Id(o) # Id(r)
  BY FoldFacts DEF LedgerGrows, Fits
<1> DEFINE e == doc'
<1>4. e.receipts = Append(doc.receipts, r)
  BY <1>1
<1>5. e.n = doc.n + 1
  BY <1>1
<1> HIDE DEF e
<1>6. /\ Receipts(e) = Receipts(doc) \cup {r}
      /\ Len(doc.receipts) \in Nat /\ Len(e.receipts) = Len(doc.receipts) + 1
      /\ \A i \in 1..Len(doc.receipts) : e.receipts[i] = doc.receipts[i]
      /\ e.receipts[Len(doc.receipts) + 1] = r
      /\ e.receipts \in Seq(Receipts(e))
  BY <1>2, <1>4, ReceiptsAppended
<1> QED BY <1>3, <1>5, <1>6 DEF e

LEMMA SoundGrows ==
    ASSUME Ledger(doc, run), LedgerSound, NEW r, LedgerGrows(r)
    PROVE  LedgerSound'
<1> DEFINE rs == doc.receipts  ts == doc'.receipts  n == Len(rs)
<1>1. /\ n \in Nat /\ Len(ts) = n + 1 /\ (\A i \in 1..n : ts[i] = rs[i]) /\ ts[n + 1] = r
      /\ \A i \in 1..n : rs[i] \in Receipts(doc)
  BY GrownFacts DEF Receipts
<1>2. \A i \in 1..n : Id(rs[i]) # Id(r)
  BY <1>1, GrownFacts
<1>3. r.fixes = {} => \A i \in 1..n : ~(rs[i].who = r.who /\ rs[i].of = r.of)
  BY <1>1, FoldFacts DEF LedgerGrows, Fits
<1>4. r.fixes # {} => \A i \in 1..n : rs[i].fixes # r.fixes
  BY <1>1, FoldFacts DEF LedgerGrows, Fits
<1>5. r.fixes # {} => \E p \in 1..n : r.fixes = {Id(rs[p])} /\ Chained(rs[p], r)
  <2> SUFFICES ASSUME r.fixes # {} PROVE \E p \in 1..n : r.fixes = {Id(rs[p])} /\ Chained(rs[p], r)
    OBVIOUS
  <2>1. PICK p \in Receipts(doc) : Id(p) \in r.fixes /\ Chained(p, r)
    BY FoldFacts DEF LedgerGrows, Fits
  <2>2. r.fixes = {Id(p)}
    BY <2>1 DEF LedgerGrows, Fits, Single
  <2>3. PICK i \in 1..n : p = rs[i]
    BY <2>1 DEF Receipts
  <2> QED BY <2>1, <2>2, <2>3
<1>6. \A i, j \in 1..n :
        /\ i # j => Id(rs[i]) # Id(rs[j])
        /\ i # j /\ rs[i].fixes = {} /\ rs[j].fixes = {} => <<rs[i].who, rs[i].of>> # <<rs[j].who, rs[j].of>>
        /\ i # j /\ rs[i].fixes # {} => rs[i].fixes # rs[j].fixes
        /\ rs[j].fixes # {} => \E p \in 1 .. (j - 1) : rs[j].fixes = {Id(rs[p])} /\ Chained(rs[p], rs[j])
  BY DEF LedgerSound
<1> SUFFICES ASSUME NEW i \in 1..(n + 1), NEW j \in 1..(n + 1)
             PROVE  /\ i # j => Id(ts[i]) # Id(ts[j])
                    /\ i # j /\ ts[i].fixes = {} /\ ts[j].fixes = {} =>
                         <<ts[i].who, ts[i].of>> # <<ts[j].who, ts[j].of>>
                    /\ i # j /\ ts[i].fixes # {} => ts[i].fixes # ts[j].fixes
                    /\ ts[j].fixes # {} => \E p \in 1 .. (j - 1) : ts[j].fixes = {Id(ts[p])} /\ Chained(ts[p], ts[j])
  BY <1>1 DEF LedgerSound
<1> HIDE DEF rs, ts, n
<1>7. (i \in 1..n \/ i = n + 1) /\ (j \in 1..n \/ j = n + 1)
  BY <1>1
<1>8. i # j => Id(ts[i]) # Id(ts[j])
  BY <1>1, <1>2, <1>6, <1>7
<1>9. i # j /\ ts[i].fixes = {} /\ ts[j].fixes = {} => <<ts[i].who, ts[i].of>> # <<ts[j].who, ts[j].of>>
  BY <1>1, <1>3, <1>6, <1>7
<1>10. i # j /\ ts[i].fixes # {} => ts[i].fixes # ts[j].fixes
  BY <1>1, <1>4, <1>6, <1>7
<1>11. ts[j].fixes # {} => \E p \in 1 .. (j - 1) : ts[j].fixes = {Id(ts[p])} /\ Chained(ts[p], ts[j])
  <2>1. CASE j \in 1..n
    <3>1. \A p \in 1..(j - 1) : p \in 1..n
      BY <1>1, <2>1
    <3> QED BY <1>1, <1>6, <2>1, <3>1
  <2>2. CASE j = n + 1
    <3>1. j - 1 = n
      BY <1>1, <2>2
    <3> QED BY <1>1, <1>5, <2>2, <3>1
  <2> QED BY <1>7, <2>1, <2>2
<1> QED BY <1>8, <1>9, <1>10, <1>11

(* A correction names a receipt that is there.                             *)
LEMMA FixesThere ==
    ASSUME LedgerSound, NEW o \in Receipts(doc), NEW i \in o.fixes
    PROVE  \E p \in Receipts(doc) : i = Id(p)
<1>1. PICK j \in 1..Len(doc.receipts) : o = doc.receipts[j]
  BY DEF Receipts
<1>2. PICK p \in 1..(j - 1) : doc.receipts[j].fixes = {Id(doc.receipts[p])}
  BY <1>1 DEF LedgerSound
<1>3. i = Id(doc.receipts[p])
  BY <1>1, <1>2
<1>4. doc.receipts[p] \in Receipts(doc)
  BY <1>1, <1>2 DEF Receipts
<1> QED BY <1>3, <1>4

LEMMA StandsGrows ==
    ASSUME Ledger(doc, run), LedgerSound, OneStands(doc), NEW r, LedgerGrows(r)
    PROVE  OneStands(doc')
<1> DEFINE R == Receipts(doc)
<1>1. Receipts(doc') = R \cup {r} /\ \A o \in R : Id(o) # Id(r)
  BY GrownFacts
<1>2. \A o \in R : Id(r) \notin o.fixes
  BY <1>1, FixesThere
<1>3. /\ \A o \in R : At(o) \in Nat /\ Single(o.fixes)
      /\ At(r) \in Nat /\ Single(r.fixes)
  BY DEF Ledger, Receipt, LedgerGrows, Fits, At
<1> SUFFICES ASSUME NEW b \in Nat, NEW who \in Reviewers, Of(doc', b, who) # {}
             PROVE  \E x : Standing(doc', b, who) = {x} /\ \A o \in Of(doc', b, who) : At(o) <= At(x)
  BY DEF OneStands
<1> DEFINE all == Of(doc, b, who)  top == Standing(doc, b, who)
<1>4. all # {} => \E x : top = {x} /\ \A o \in all : At(o) <= At(x)
  BY DEF OneStands
<1>5. top = {y \in R : y.who = who /\ y.of = b /\ \A o \in R : o.of = b => Id(y) \notin o.fixes}
  BY DEF Standing, Effective
<1>6. Standing(doc', b, who) =
        {y \in R \cup {r} : y.who = who /\ y.of = b /\ \A o \in R \cup {r} : o.of = b => Id(y) \notin o.fixes}
  BY <1>1 DEF Standing, Effective
<1>7. all = {y \in R : y.who = who /\ y.of = b} /\ Of(doc', b, who) = {y \in R \cup {r} : y.who = who /\ y.of = b}
  BY <1>1 DEF Of
<1>8. r.fixes # {} =>
        \E p \in R : /\ r.fixes = {Id(p)} /\ p.who = r.who /\ p.of = r.of /\ At(p) < At(r)
                     /\ \A o \in R : Id(p) \notin o.fixes
  <2> SUFFICES ASSUME r.fixes # {}
               PROVE  \E p \in R : /\ r.fixes = {Id(p)} /\ p.who = r.who /\ p.of = r.of /\ At(p) < At(r)
                                   /\ \A o \in R : Id(p) \notin o.fixes
    OBVIOUS
  <2>1. PICK p \in R : Id(p) \in r.fixes /\ Chained(p, r)
    BY FoldFacts DEF LedgerGrows, Fits
  <2>2. r.fixes = {Id(p)}
    BY <1>3, <2>1 DEF Single
  <2>3. \A o \in R : o.fixes # r.fixes
    BY FoldFacts DEF LedgerGrows, Fits
  <2>4. \A o \in R : Id(p) \notin o.fixes
    BY <1>3, <2>2, <2>3 DEF Single
  <2>5. p.who = r.who /\ p.of = r.of /\ At(p) < At(r)
    BY <1>3, <2>1 DEF Chained, At
  <2> QED BY <2>2, <2>4, <2>5
<1>9. r.fixes = {} => \A o \in R : ~(o.who = r.who /\ o.of = r.of)
  BY FoldFacts DEF LedgerGrows, Fits
<1> HIDE DEF R, all, top
<1>10. CASE r.who = who /\ r.of = b /\ r.fixes = {}
  <2>1. all = {}
    BY <1>7, <1>9, <1>10
  <2>2. Of(doc', b, who) = {r}
    BY <1>7, <1>9, <1>10
  <2>3. Standing(doc', b, who) = {r}
    BY <1>2, <1>6, <1>9, <1>10
  <2> QED BY <1>3, <2>2, <2>3
<1>11. CASE r.who = who /\ r.of = b /\ r.fixes # {}
  <2>1. PICK p \in R : /\ r.fixes = {Id(p)} /\ p.who = who /\ p.of = b /\ At(p) < At(r)
                       /\ \A o \in R : Id(p) \notin o.fixes
    BY <1>8, <1>11
  <2>2. top = {p} /\ \A o \in all : At(o) <= At(p)
    <3>1. p \in top /\ all # {}
      BY <1>5, <1>7, <2>1
    <3> QED BY <1>4, <3>1
  <2>3. Standing(doc', b, who) = {r}
    <3>1. r \in Standing(doc', b, who)
      BY <1>1, <1>2, <1>6, <1>11, <2>1
    <3>2. ASSUME NEW y \in Standing(doc', b, who), y # r PROVE FALSE
      <4>1. y \in R /\ y \in top
        BY <1>5, <1>6, <3>2
      <4>2. y = p
        BY <2>2, <4>1
      <4> QED BY <1>6, <1>11, <2>1, <3>2, <4>2
    <3> QED BY <3>1, <3>2
  <2>4. \A o \in Of(doc', b, who) : At(o) <= At(r)
    <3>1. \A o \in all : At(o) \in Nat /\ At(o) <= At(p)
      BY <1>3, <1>7, <2>2 DEF R
    <3>2. At(p) \in Nat /\ At(r) \in Nat
      BY <1>3 DEF R
    <3>3. \A o \in Of(doc', b, who) : o \in all \/ o = r
      BY <1>7
    <3> QED BY <2>1, <3>1, <3>2, <3>3
  <2> QED BY <2>3, <2>4
<1>12. CASE ~(r.who = who /\ r.of = b)
  <2>1. Of(doc', b, who) = all
    BY <1>7, <1>12
  <2>2. Standing(doc', b, who) = top
    <3>1. \A y \in Standing(doc', b, who) : y \in top
      BY <1>5, <1>6, <1>12
    <3>2. ASSUME NEW y \in top PROVE y \in Standing(doc', b, who)
      <4>1. y \in R /\ y.who = who /\ y.of = b /\ \A o \in R : o.of = b => Id(y) \notin o.fixes
        BY <1>5
      <4>2. r.of = b => Id(y) \notin r.fixes
        <5> SUFFICES ASSUME r.of = b, Id(y) \in r.fixes PROVE FALSE
          OBVIOUS
        <5>1. PICK p \in R : r.fixes = {Id(p)} /\ p.who = r.who
          BY <1>8
        <5>2. Id(y) = Id(p)
          BY <5>1
        <5>3. y.who = p.who
          <6>1. Receipt(y, run) /\ Receipt(p, run)
            BY <4>1, <5>1 DEF R, Ledger
          <6> QED BY <5>2, <6>1, SameId
        <5> QED BY <1>12, <4>1, <5>1, <5>3
      <4> QED BY <1>6, <4>1, <4>2
    <3> QED BY <3>1, <3>2
  <2> QED BY <1>4, <2>1, <2>2
<1> QED BY <1>10, <1>11, <1>12

-------------------------------------------------------------------------------
(* What stays true of calls and of writes that are adrift.                  *)

LEMMA ReceiptStays ==
    ASSUME NEW n \in Nat, NEW k \in Nat, n <= k
    PROVE  /\ \A r : Receipt(r, n) => Receipt(r, k)
           /\ \A d : Ledger(d, n) => Ledger(d, k)
           /\ \A d, r : Fits(d, r, n) => Fits(d, r, k)
<1>1. \A r : Receipt(r, n) => Receipt(r, k)
  BY DEF Receipt
<1> QED BY <1>1 DEF Ledger, Fits

LEMMA GoodLasts ==
    ASSUME NEW m, NEW n \in Nat, NEW k \in Nat, n <= k, NEW d, NEW e,
           d.n \in Nat, e.n \in Nat, d.n <= e.n, e.n = d.n => e = d
    PROVE  /\ RateGood(m, n, d) => RateGood(m, k, e)
           /\ AdriftGood(m, n, d) => AdriftGood(m, k, e)
<1>1. ASSUME RateGood(m, n, d) PROVE RateGood(m, k, e)
  <2>1. m.pc = "write" => /\ Ledger(m.seen, k) /\ m.seen.n \in Nat /\ m.seen.n <= e.n
                          /\ m.seen.n = e.n => m.seen = e
                          /\ Fits(m.seen, Build(m, m.seen), k)
    BY <1>1, ReceiptStays DEF RateGood, Ledger
  <2>2. m.pc # "new" => m.of \in 1..k
    BY <1>1 DEF RateGood
  <2> QED BY <1>1, <2>1, <2>2 DEF RateGood
<1>2. ASSUME AdriftGood(m, n, d) PROVE AdriftGood(m, k, e)
  <2>1. m.n \in Nat /\ m.n <= e.n /\ \A r \in Receipts(m) : Receipt(r, k)
    BY <1>2, ReceiptStays DEF AdriftGood
  <2>2. m.n = e.n => \E r : Fits(e, r, k) /\ m.receipts = Append(e.receipts, r)
    <3> SUFFICES ASSUME m.n = e.n PROVE \E r : Fits(e, r, k) /\ m.receipts = Append(e.receipts, r)
      OBVIOUS
    <3>1. m.n = d.n /\ e = d
      BY <1>2 DEF AdriftGood
    <3>2. PICK r : Fits(d, r, n) /\ m.receipts = Append(d.receipts, r)
      BY <1>2, <3>1 DEF AdriftGood
    <3> QED BY <3>1, <3>2, ReceiptStays
  <2> QED BY <2>1, <2>2 DEF AdriftGood
<1> QED BY <1>1, <1>2

(* The ledger is left, or grows.                                           *)
LEMMA DocMoves ==
    ASSUME LedgerInv, UNCHANGED run, (UNCHANGED doc) \/ \E r : LedgerGrows(r)
    PROVE  /\ Ledger(doc', run) /\ LedgerSound' /\ OneStands(doc')
           /\ Receipts(doc) \subseteq Receipts(doc') /\ doc.n \in Nat /\ doc'.n \in Nat
           /\ doc.n <= doc'.n /\ (doc'.n = doc.n => doc' = doc)
<1>1. Ledger(doc, run) /\ LedgerSound /\ OneStands(doc) /\ doc.n \in Nat
  BY DEF LedgerInv, Ledger
<1>2. CASE UNCHANGED doc
  BY <1>1, <1>2 DEF LedgerSound
<1>3. CASE \E r : LedgerGrows(r)
  <2>1. PICK r : LedgerGrows(r)
    BY <1>3
  <2>2. /\ Receipts(doc') = Receipts(doc) \cup {r} /\ doc'.n = doc.n + 1
        /\ doc'.receipts \in Seq(Receipts(doc'))
    BY <1>1, <2>1, GrownFacts
  <2>3. Receipt(r, run) /\ Single(r.fixes)
    BY <2>1 DEF LedgerGrows, Fits
  <2>4. Ledger(doc', run)
    BY <1>1, <2>2, <2>3 DEF Ledger
  <2> QED BY <1>1, <2>1, <2>2, <2>4, SoundGrows, StandsGrows
<1> QED BY <1>2, <1>3

(* What is recorded of a call.                                             *)
Held(m, d) ==
    m.answer = 204 =>
        \E r \in Receipts(d) :
            /\ r.who = m.who /\ r.verdict = m.verdict /\ r.role = m.role
            /\ r.of = m.of /\ r.fixes = m.fixes
Stage(m) ==
    /\ m.pc \in {"new", "read", "write", "done"} /\ m.answer \in {0, 204, 409, 500}
    /\ m.answer = 0 <=> m.pc # "done"
    /\ m.tries \in 0 .. (MaxTries - 1)

(* One call steps, and the ledger is left or grows.                        *)
LEMMA LedgerMoves ==
    ASSUME LedgerInv, UNCHANGED run, (UNCHANGED doc) \/ \E r : LedgerGrows(r),
           NEW c \in Rates, NEW m, rate' = [rate EXCEPT ![c] = m],
           RateGood(m, run, doc'), Held(m, doc'), Stage(m),
           clock' \in 1 .. MaxClock, misses' \in 0 .. MaxMisses,
           \A w \in adrift' : w \in adrift \/ AdriftGood(w, run, doc')
    PROVE  LedgerInv'
<1>1. /\ Ledger(doc', run) /\ LedgerSound' /\ OneStands(doc')
      /\ Receipts(doc) \subseteq Receipts(doc') /\ doc.n \in Nat /\ doc'.n \in Nat
      /\ doc.n <= doc'.n /\ (doc'.n = doc.n => doc' = doc)
  BY DocMoves
<1>2. DOMAIN rate' = Rates /\ rate'[c] = m /\ \A x \in Rates \ {c} : rate'[x] = rate[x]
  BY DEF LedgerInv
<1>3. run \in Nat /\ run \in 1..(MaxRuns + 1)
  BY RatingBounds DEF LedgerInv, LedgerTypeOK
<1>4. \A x \in Rates : RateGood(rate'[x], run, doc')
  <2>1. \A x \in Rates : RateGood(rate[x], run, doc) => RateGood(rate[x], run, doc')
    BY <1>1, <1>3, GoodLasts
  <2> QED BY <1>2, <2>1 DEF LedgerInv
<1>5. \A w \in adrift' : AdriftGood(w, run, doc')
  <2>1. \A w \in adrift : AdriftGood(w, run, doc) => AdriftGood(w, run, doc')
    BY <1>1, <1>3, GoodLasts
  <2> QED BY <2>1 DEF LedgerInv
<1>6. \A x \in Rates : Stage(rate'[x])
  BY <1>2 DEF LedgerInv, LedgerTypeOK, Stage
<1>7. \A x \in Rates : Held(rate'[x], doc')
  <2>1. \A x \in Rates : Held(rate[x], doc)
    BY DEF LedgerInv, Recorded, Held
  <2>2. \A x \in Rates : Held(rate[x], doc) => Held(rate[x], doc')
    BY <1>1 DEF Held
  <2> QED BY <1>2, <2>1, <2>2
<1>8. Recorded'
  BY <1>7 DEF Recorded, Held
<1>9. LedgerTypeOK'
  <2>1. doc'.n \in Nat /\ doc'.receipts \in Seq(Receipts(doc')) /\ \A r \in Receipts(doc') : Receipt(r, run)
    BY <1>1 DEF Ledger
  <2>2. \A w \in adrift' : w.n \in Nat /\ \A r \in Receipts(w) : Receipt(r, run)
    BY <1>5 DEF AdriftGood
  <2>3. \A x \in Rates :
           /\ rate'[x].pc \in {"new", "read", "write", "done"} /\ rate'[x].answer \in {0, 204, 409, 500}
           /\ rate'[x].answer = 0 <=> rate'[x].pc # "done"
           /\ rate'[x].tries \in 0 .. (MaxTries - 1)
    BY <1>6 DEF Stage
  <2> QED BY <1>3, <2>1, <2>2, <2>3 DEF LedgerTypeOK
<1> QED BY <1>1, <1>2, <1>4, <1>5, <1>8, <1>9 DEF LedgerInv

-------------------------------------------------------------------------------
(* The steps.                                                               *)

(* What a call builds is the receipt it asks for.                          *)
LEMMA BuildFacts ==
    ASSUME NEW k, NEW n, NEW d, Ledger(d, n), NEW e, RateGood(k, n, e), k.pc # "new"
    PROVE  /\ Receipt(Build(k, d), n) /\ Single(Build(k, d).fixes)
           /\ Build(k, d).who = k.who /\ Build(k, d).role = k.role /\ Build(k, d).verdict = k.verdict
           /\ Build(k, d).of = k.of /\ Build(k, d).fixes = k.fixes
<1> DEFINE first == {r \in Receipts(d) : Id(r) \in k.fixes}
           past == \E r \in first : At(r) >= k.at
           at == IF past THEN (CHOOSE r \in first : TRUE).at + 1 ELSE k.at
<1>1. \A r \in first : r.at \in Nat
  BY DEF Ledger, Receipt
<1>2. at \in Nat
  <2>1. k.at \in Nat
    BY DEF RateGood
  <2>2. past => (CHOOSE r \in first : TRUE) \in first
    OBVIOUS
  <2> HIDE DEF first
  <2> QED BY <1>1, <2>1, <2>2
<1>3. Build(k, d) = [who |-> k.who, role |-> k.role, verdict |-> k.verdict, of |-> k.of,
                     fixes |-> k.fixes, rubric |-> k.rubric, at |-> at]
  BY DEF Build
<1> HIDE DEF at, first
<1>4. Build(k, d).who = k.who /\ Build(k, d).role = k.role /\ Build(k, d).verdict = k.verdict
      /\ Build(k, d).of = k.of /\ Build(k, d).fixes = k.fixes /\ Build(k, d).rubric = k.rubric
      /\ Build(k, d).at = at
      /\ DOMAIN Build(k, d) = {"who", "role", "verdict", "of", "fixes", "rubric", "at"}
  BY <1>3
<1> QED BY <1>2, <1>4 DEF Receipt, RateGood

(* A call asks for the same receipt at another point.                      *)
Like(m, k) ==
    /\ DOMAIN m = Fields
    /\ m.who = k.who /\ m.role = k.role /\ m.verdict = k.verdict /\ m.of = k.of
    /\ m.at = k.at /\ m.fixes = k.fixes /\ m.rubric = k.rubric

LEMMA LikeGood ==
    ASSUME NEW m, NEW k, NEW n, NEW d, NEW e, RateGood(k, n, d), k.pc # "new", Like(m, k),
           m.pc \in {"read", "done"}
    PROVE  RateGood(m, n, e)
BY DEF RateGood, Like

(* A call that is answered; told that its verdict is recorded, it is.      *)
LEMMA ReplyKeeps ==
    ASSUME LedgerInv, UNCHANGED <<run, clock>>, (UNCHANGED doc) \/ \E r : LedgerGrows(r),
           misses' \in 0 .. MaxMisses, \A w \in adrift' : w \in adrift \/ AdriftGood(w, run, doc'),
           NEW c \in Rates, rate[c].pc # "new", NEW code \in {204, 409, 500}, Reply(c, code),
           code = 204 => \E o \in Receipts(doc') :
               /\ o.who = rate[c].who /\ o.verdict = rate[c].verdict /\ o.role = rate[c].role
               /\ o.of = rate[c].of /\ o.fixes = rate[c].fixes
    PROVE  LedgerInv'
<1> DEFINE k == rate[c]  m == [k EXCEPT !.pc = "done", !.answer = code]
<1>1. RateGood(k, run, doc) /\ DOMAIN k = Fields /\ Stage(k) /\ k.pc # "new"
  BY DEF LedgerInv, RateGood, LedgerTypeOK, Stage
<1>2. rate' = [rate EXCEPT ![c] = m]
  BY DEF Reply, Set
<1>3. code = 204 => \E o \in Receipts(doc') :
          /\ o.who = k.who /\ o.verdict = k.verdict /\ o.role = k.role
          /\ o.of = k.of /\ o.fixes = k.fixes
  OBVIOUS
<1> HIDE DEF k
<1>4. Like(m, k) /\ m.pc = "done" /\ m.answer = code /\ m.tries = k.tries
  BY <1>1 DEF Fields, Like
<1> HIDE DEF m
<1>5. RateGood(m, run, doc')
  BY <1>1, <1>4, LikeGood
<1>6. Stage(m) /\ Held(m, doc')
  BY <1>1, <1>3, <1>4 DEF Stage, Held, Like
<1>7. clock' \in 1..MaxClock
  BY DEF LedgerInv, LedgerTypeOK
<1> QED BY <1>2, <1>5, <1>6, <1>7, LedgerMoves, ZenonT(40)

(* A call that tries again from the read, or gives up.                     *)
LEMMA RetryKeeps ==
    ASSUME LedgerInv, UNCHANGED <<run, clock, adrift>>, (UNCHANGED doc) \/ \E r : LedgerGrows(r),
           misses' \in 0 .. MaxMisses, NEW c \in Rates, rate[c].pc = "write", Retry(c)
    PROVE  LedgerInv'
<1> DEFINE k == rate[c]  m == [k EXCEPT !.pc = "read", !.tries = @ + 1]
<1>1. RateGood(k, run, doc) /\ DOMAIN k = Fields /\ Stage(k) /\ k.pc = "write"
  BY DEF LedgerInv, RateGood, LedgerTypeOK, Stage
<1>2. (k.tries + 1 < MaxTries /\ rate' = [rate EXCEPT ![c] = m]) \/ Reply(c, 500)
  BY DEF Retry, Set
<1>3. CASE Reply(c, 500)
  BY <1>3, ReplyKeeps
<1>4. CASE k.tries + 1 < MaxTries /\ rate' = [rate EXCEPT ![c] = m]
  <2> HIDE DEF k
  <2>1. Like(m, k) /\ m.pc = "read" /\ m.answer = k.answer /\ m.tries = k.tries + 1
    BY <1>1 DEF Fields, Like
  <2> HIDE DEF m
  <2>2. RateGood(m, run, doc')
    BY <1>1, <2>1, LikeGood
  <2>3. Stage(m) /\ m.answer = 0
    BY <1>1, <1>4, <2>1, RatingBounds DEF Stage
  <2>4. Held(m, doc')
    BY <2>3 DEF Held
  <2>5. clock' \in 1..MaxClock
    BY DEF LedgerInv, LedgerTypeOK
  <2> QED BY <1>4, <2>2, <2>3, <2>4, <2>5, LedgerMoves
<1> QED BY <1>2, <1>3, <1>4

(* A call that begins.                                                     *)
LEMMA BegunGood ==
    ASSUME NEW n \in Nat, NEW m, NEW d, DOMAIN m = Fields, m.pc = "read", m.answer = 0, m.tries = 0,
           m.of \in 1..n, m.who \in Reviewers, m.role \in {"independent", "self"}, m.verdict \in Verdicts,
           m.at \in Nat, Single(m.fixes), m.rubric \in Rubrics \cup {Unversioned},
           m.fixes = {} <=> m.rubric = Unversioned
    PROVE  RateGood(m, n, d) /\ Stage(m) /\ Held(m, d)
BY RatingBounds DEF RateGood, Stage, Held

LEMMA RateKeeps == ASSUME LedgerInv, NEW c \in Rates, Rate(c) PROVE LedgerInv'
<1> SUFFICES ASSUME NEW who \in Reviewers, NEW role \in {"independent", "self"}, NEW v \in Verdicts,
                    NEW later \in {0, 1}, NEW fixes \in {{}} \cup {{Id(r)} : r \in Receipts(doc)},
                    NEW rub \in Rubrics,
                    clock + later <= MaxClock, clock' = clock + later,
                    Set(c, Asked(who, role, v, clock + later, fixes, rub))
             PROVE  LedgerInv'
  BY Zenon DEF Rate
<1> DEFINE at == clock + later
           rubric == IF fixes = {} THEN Unversioned ELSE rub
           m == [NoRate EXCEPT !.pc = "read", !.who = who, !.role = role, !.verdict = v, !.of = run,
                               !.at = at, !.fixes = fixes, !.rubric = rubric]
<1>1. UNCHANGED <<run, doc, adrift, misses>>
  BY DEF Rate
<1>2. rate' = [rate EXCEPT ![c] = m]
  BY DEF Set, Asked
<1>3. at \in Nat /\ clock' \in 1..MaxClock
  BY RatingBounds DEF LedgerInv, LedgerTypeOK
<1>4. Single(fixes)
  BY DEF Single
<1>5. run \in Nat /\ run \in 1..run /\ misses' \in 0..MaxMisses
  BY <1>1, RatingBounds DEF LedgerInv, LedgerTypeOK
<1>6. rubric \in Rubrics \cup {Unversioned} /\ (fixes = {} <=> rubric = Unversioned)
  BY RubricAssumption
<1> HIDE DEF at, rubric
<1>7. /\ DOMAIN m = Fields /\ m.pc = "read" /\ m.answer = 0 /\ m.tries = 0
      /\ m.who = who /\ m.role = role /\ m.verdict = v /\ m.of = run /\ m.at = at
      /\ m.fixes = fixes /\ m.rubric = rubric
  BY DEF NoRate, Fields
<1> HIDE DEF m
<1>8. RateGood(m, run, doc) /\ Stage(m) /\ Held(m, doc)
  BY <1>3, <1>4, <1>5, <1>6, <1>7, BegunGood
<1> QED BY <1>1, <1>2, <1>3, <1>5, <1>8, LedgerMoves

LEMMA ReadKeeps == ASSUME LedgerInv, NEW c \in Rates, Read(c) PROVE LedgerInv'
<1> DEFINE k == rate[c]  b == Build(k, doc)  found == FoldReceipt(doc, b)
<1>1. UNCHANGED <<clock, run, doc, adrift, misses>> /\ k.pc = "read"
  BY DEF Read
<1>2. clock' \in 1..MaxClock /\ misses' \in 0..MaxMisses /\ Ledger(doc, run) /\ RateGood(k, run, doc) /\ Stage(k)
  BY <1>1 DEF LedgerInv, LedgerTypeOK, Stage
<1>3. /\ Receipt(b, run) /\ Single(b.fixes) /\ b.who = k.who /\ b.role = k.role
      /\ b.verdict = k.verdict /\ b.of = k.of /\ b.fixes = k.fixes
  BY <1>1, <1>2, BuildFacts
<1>4. \/ found = "same" /\ Reply(c, 204)
      \/ found = "conflict" /\ Reply(c, 409)
      \/ found = "append" /\ Set(c, [k EXCEPT !.pc = "write", !.seen = doc])
  BY DEF Read
<1>5. CASE found = "same" /\ Reply(c, 204)
  <2>1. PICK o \in Receipts(doc) : Id(o) = Id(b) \/ Timeless(o) = Timeless(b)
    BY <1>5, FoldFacts
  <2>2. o.who = b.who /\ o.role = b.role /\ o.verdict = b.verdict /\ o.of = b.of /\ o.fixes = b.fixes
    <3>1. Receipt(o, run)
      BY <1>2, <2>1 DEF Ledger
    <3> QED BY <1>3, <2>1, <3>1, SameId, SameTimeless
  <2>3. \E x \in Receipts(doc') :
           /\ x.who = k.who /\ x.verdict = k.verdict /\ x.role = k.role /\ x.of = k.of /\ x.fixes = k.fixes
    BY <1>1, <1>3, <2>1, <2>2
  <2> QED BY <1>1, <1>2, <1>5, <2>3, ReplyKeeps
<1>6. CASE found = "conflict" /\ Reply(c, 409)
  BY <1>1, <1>2, <1>6, ReplyKeeps
<1>7. CASE found = "append" /\ Set(c, [k EXCEPT !.pc = "write", !.seen = doc])
  <2> DEFINE m == [k EXCEPT !.pc = "write", !.seen = doc]
  <2>1. rate' = [rate EXCEPT ![c] = m]
    BY <1>7 DEF Set
  <2>2. DOMAIN k = Fields
    BY <1>2 DEF RateGood
  <2>3. Fits(doc, b, run)
    BY <1>3, <1>7 DEF Fits
  <2> HIDE DEF k
  <2>4. Like(m, k) /\ m.pc = "write" /\ m.answer = k.answer /\ m.tries = k.tries /\ m.seen = doc
    BY <2>2 DEF Fields, Like
  <2> HIDE DEF m
  <2>5. Build(m, doc) = b
    BY <2>4 DEF Build, Like
  <2>6. doc.n \in Nat
    BY <1>2 DEF Ledger
  <2>7. RateGood(m, run, doc)
    BY <1>1, <1>2, <2>3, <2>4, <2>5, <2>6 DEF RateGood, Like
  <2>8. Stage(m) /\ m.answer = 0
    BY <1>1, <1>2, <2>4 DEF Stage
  <2>9. Held(m, doc)
    BY <2>8 DEF Held
  <2> QED BY <1>1, <1>2, <2>1, <2>7, <2>8, <2>9, LedgerMoves
<1> QED BY <1>4, <1>5, <1>6, <1>7

(* What a call sends fits the ledger it has read.                          *)
LEMMA SentFacts ==
    ASSUME LedgerInv, NEW c \in Rates, rate[c].pc = "write"
    PROVE  /\ AdriftGood(Sent(c), run, doc)
           /\ Accepts(Sent(c)) /\ Apply(Sent(c)) =>
                 /\ \E r : LedgerGrows(r)
                 /\ \E o \in Receipts(doc') :
                       /\ o.who = rate[c].who /\ o.verdict = rate[c].verdict /\ o.role = rate[c].role
                       /\ o.of = rate[c].of /\ o.fixes = rate[c].fixes
<1> DEFINE k == rate[c]  b == Build(k, k.seen)  w == Sent(c)
<1>1. RateGood(k, run, doc) /\ k.pc = "write"
  BY DEF LedgerInv
<1>2. w = [n |-> k.seen.n, receipts |-> Append(k.seen.receipts, b)]
  BY DEF Sent
<1> HIDE DEF k, w
<1>3. /\ Ledger(k.seen, run) /\ k.seen.n <= doc.n /\ (k.seen.n = doc.n => k.seen = doc)
      /\ Fits(k.seen, b, run)
  BY <1>1 DEF RateGood
<1>4. b.who = k.who /\ b.role = k.role /\ b.verdict = k.verdict /\ b.of = k.of /\ b.fixes = k.fixes
  <2> DEFINE d == k.seen
  <2>1. Ledger(d, run) /\ k.pc # "new"
    BY <1>1, <1>3
  <2> HIDE DEF d
  <2>2. /\ Build(k, d).who = k.who /\ Build(k, d).role = k.role /\ Build(k, d).verdict = k.verdict
        /\ Build(k, d).of = k.of /\ Build(k, d).fixes = k.fixes
    BY <1>1, <2>1, BuildFacts
  <2> QED BY <2>2 DEF d
<1> HIDE DEF b
<1>5. w.n = k.seen.n /\ w.receipts = Append(k.seen.receipts, b)
  BY <1>2
<1>6. AdriftGood(w, run, doc)
  <2>1. Receipts(w) = Receipts(k.seen) \cup {b}
    <3>1. k.seen.receipts \in Seq(Receipts(k.seen))
      BY <1>3 DEF Ledger
    <3>2. w.receipts = Append(k.seen.receipts, b)
      BY <1>5
    <3> DEFINE d == k.seen
    <3>3. d.receipts \in Seq(Receipts(d)) /\ w.receipts = Append(d.receipts, b)
      BY <3>1, <3>2
    <3> HIDE DEF d
    <3>4. Receipts(w) = Receipts(d) \cup {b}
      BY <3>3, ReceiptsAppended
    <3> QED BY <3>4 DEF d
  <2>2. \A r \in Receipts(w) : Receipt(r, run)
    BY <1>3, <2>1 DEF Ledger, Fits
  <2>3. w.n \in Nat /\ w.n <= doc.n
    BY <1>3, <1>5 DEF Ledger
  <2>4. w.n = doc.n => Fits(doc, b, run) /\ w.receipts = Append(doc.receipts, b)
    BY <1>3, <1>5
  <2> QED BY <2>2, <2>3, <2>4 DEF AdriftGood
<1>7. ASSUME Accepts(w), Apply(w)
      PROVE  LedgerGrows(b) /\ b \in Receipts(doc')
  <2>1. LedgerGrows(b)
    BY <1>3, <1>5, <1>7 DEF Accepts, Apply, LedgerGrows
  <2>2. Ledger(doc, run)
    BY DEF LedgerInv
  <2> QED BY <2>1, <2>2, GrownFacts
<1>8. Accepts(w) /\ Apply(w) =>
        \E o \in Receipts(doc') :
            /\ o.who = k.who /\ o.verdict = k.verdict /\ o.role = k.role
            /\ o.of = k.of /\ o.fixes = k.fixes
  BY <1>4, <1>7
<1> QED BY <1>6, <1>7, <1>8 DEF k, w

LEMMA WriteKeeps == ASSUME LedgerInv, NEW c \in Rates, Write(c) PROVE LedgerInv' /\ ((UNCHANGED doc) \/ \E r : LedgerGrows(r))
<1> DEFINE w == Sent(c)
<1>1. UNCHANGED <<clock, run>> /\ rate[c].pc = "write" /\ rate[c].pc # "new"
  BY DEF Write
<1>2. AdriftGood(w, run, doc)
  BY <1>1, SentFacts
<1>3. Accepts(w) /\ Apply(w) =>
        /\ \E r : LedgerGrows(r)
        /\ \E o \in Receipts(doc') :
              /\ o.who = rate[c].who /\ o.verdict = rate[c].verdict /\ o.role = rate[c].role
              /\ o.of = rate[c].of /\ o.fixes = rate[c].fixes
  BY <1>1, SentFacts
<1>4. misses \in 0..MaxMisses
  BY DEF LedgerInv, LedgerTypeOK
<1>5. misses < MaxMisses /\ misses' = misses + 1 => misses' \in 0..MaxMisses
  BY <1>4, RatingBounds
<1>6. \/ Accepts(w) /\ Apply(w) /\ Reply(c, 204) /\ UNCHANGED <<adrift, misses>>
      \/ ~Accepts(w) /\ Retry(c) /\ UNCHANGED <<doc, adrift, misses>>
      \/ /\ misses < MaxMisses /\ misses' = misses + 1
         /\ Accepts(w) /\ Apply(w) /\ Retry(c) /\ UNCHANGED adrift
      \/ /\ misses < MaxMisses /\ misses' = misses + 1
         /\ Accepts(w) /\ Apply(w) /\ Reply(c, 500) /\ UNCHANGED adrift
      \/ /\ misses < MaxMisses /\ misses' = misses + 1
         /\ adrift' \in {adrift, adrift \cup {w}} /\ Reply(c, 500) /\ UNCHANGED doc
  BY Zenon DEF Write
<1> HIDE DEF w
<1>7. CASE Accepts(w) /\ Apply(w) /\ Reply(c, 204) /\ UNCHANGED <<adrift, misses>>
  <2>1. LedgerInv'
    BY <1>1, <1>3, <1>4, <1>7, ReplyKeeps
  <2> QED BY <1>3, <1>7, <2>1
<1>8. CASE ~Accepts(w) /\ Retry(c) /\ UNCHANGED <<doc, adrift, misses>>
  BY <1>1, <1>4, <1>8, RetryKeeps
<1>9. CASE /\ misses < MaxMisses /\ misses' = misses + 1
           /\ Accepts(w) /\ Apply(w) /\ Retry(c) /\ UNCHANGED adrift
  <2>1. LedgerInv'
    BY <1>1, <1>3, <1>5, <1>9, RetryKeeps
  <2> QED BY <1>3, <1>9, <2>1
<1>10. CASE /\ misses < MaxMisses /\ misses' = misses + 1
            /\ Accepts(w) /\ Apply(w) /\ Reply(c, 500) /\ UNCHANGED adrift
  <2>1. LedgerInv'
    BY <1>1, <1>3, <1>5, <1>10, ReplyKeeps
  <2> QED BY <1>3, <1>10, <2>1
<1>11. CASE /\ misses < MaxMisses /\ misses' = misses + 1
            /\ adrift' \in {adrift, adrift \cup {w}} /\ Reply(c, 500) /\ UNCHANGED doc
  <2>1. \A x \in adrift' : x \in adrift \/ AdriftGood(x, run, doc')
    BY <1>2, <1>11
  <2>2. LedgerInv'
    BY <1>1, <1>5, <1>11, <2>1, ReplyKeeps
  <2> QED BY <1>11, <2>2
<1> QED BY <1>6, <1>7, <1>8, <1>9, <1>10, <1>11

LEMMA LateWriteKeeps ==
    ASSUME LedgerInv, NEW w \in adrift, LateWrite(w)
    PROVE  LedgerInv' /\ ((UNCHANGED doc) \/ \E r : LedgerGrows(r))
<1>1. UNCHANGED <<clock, run, rate, misses>> /\ adrift' = adrift \ {w}
  BY DEF LateWrite
<1>2. (UNCHANGED doc) \/ \E r : LedgerGrows(r)
  <2>1. CASE Accepts(w) /\ Apply(w)
    <3>1. PICK r : Fits(doc, r, run) /\ w.receipts = Append(doc.receipts, r)
      BY <2>1 DEF Accepts, LedgerInv, AdriftGood
    <3>2. LedgerGrows(r)
      BY <2>1, <3>1 DEF Apply, LedgerGrows
    <3> QED BY <3>2
  <2>2. CASE UNCHANGED doc
    BY <2>2
  <2> QED BY <2>1, <2>2 DEF LateWrite
<1>3. /\ Ledger(doc', run) /\ LedgerSound' /\ OneStands(doc')
      /\ Receipts(doc) \subseteq Receipts(doc') /\ doc.n \in Nat /\ doc'.n \in Nat
      /\ doc.n <= doc'.n /\ (doc'.n = doc.n => doc' = doc)
  BY <1>1, <1>2, DocMoves
<1>4. run \in Nat
  BY RatingBounds DEF LedgerInv, LedgerTypeOK
<1>5. /\ \A x \in Rates : RateGood(rate[x], run, doc')
      /\ \A x \in adrift : AdriftGood(x, run, doc')
  BY <1>3, <1>4, GoodLasts DEF LedgerInv
<1>6. Recorded'
  BY <1>1, <1>3 DEF LedgerInv, Recorded
<1>7. LedgerTypeOK'
  <2>1. doc'.n \in Nat /\ doc'.receipts \in Seq(Receipts(doc')) /\ \A r \in Receipts(doc') : Receipt(r, run)
    BY <1>3 DEF Ledger
  <2> QED BY <1>1, <2>1 DEF LedgerInv, LedgerTypeOK
<1>8. LedgerInv'
  BY <1>1, <1>3, <1>5, <1>6, <1>7 DEF LedgerInv
<1> QED BY <1>2, <1>8

LEMMA RerunKeeps == ASSUME LedgerInv, Rerun PROVE LedgerInv'
<1>1. UNCHANGED <<clock, doc, rate, adrift, misses>> /\ run < MaxRuns /\ run' = run + 1
  BY DEF Rerun
<1>2. run \in Nat /\ run' \in Nat /\ run <= run' /\ run' \in 1..(MaxRuns + 1) /\ doc.n \in Nat
  BY <1>1, RatingBounds DEF LedgerInv, LedgerTypeOK
<1>3. Ledger(doc, run')
  BY <1>2, ReceiptStays DEF LedgerInv
<1>4. /\ \A x \in Rates : RateGood(rate[x], run', doc)
      /\ \A x \in adrift : AdriftGood(x, run', doc)
  BY <1>2, GoodLasts DEF LedgerInv
<1>5. Recorded' /\ LedgerSound'
  BY <1>1 DEF LedgerInv, Recorded, LedgerSound
<1>6. LedgerTypeOK'
  <2>1. \A r \in Receipts(doc) : Receipt(r, run')
    BY <1>3 DEF Ledger
  <2>2. \A w \in adrift : \A r \in Receipts(w) : Receipt(r, run')
    BY <1>4 DEF AdriftGood
  <2> QED BY <1>1, <1>2, <2>1, <2>2 DEF LedgerInv, LedgerTypeOK
<1> QED BY <1>1, <1>3, <1>4, <1>5, <1>6 DEF LedgerInv

LEMMA LedgerStarts == LedgerInit => LedgerInv
<1> SUFFICES ASSUME LedgerInit PROVE LedgerInv
  OBVIOUS
<1>1. clock = 1 /\ run = 1 /\ adrift = {} /\ misses = 0 /\ rate = [c \in Rates |-> NoRate]
  BY DEF LedgerInit
<1>2. doc.receipts = <<>> /\ doc.n \in Nat
  BY DEF LedgerInit, NoDoc
<1>3. Len(doc.receipts) = 0 /\ Receipts(doc) = {} /\ doc.receipts \in Seq(Receipts(doc))
  <2>1. Len(doc.receipts) = 0
    BY <1>2, EmptySeq
  <2>2. Receipts(doc) = {}
    BY <2>1 DEF Receipts
  <2> QED BY <1>2, <2>1, <2>2, EmptySeq
<1>4. Ledger(doc, run) /\ OneStands(doc) /\ LedgerSound
  BY <1>2, <1>3 DEF Ledger, OneStands, Of, LedgerSound
<1>5. /\ DOMAIN NoRate = Fields /\ NoRate.pc = "new" /\ NoRate.answer = 0 /\ NoRate.tries = 0
  BY DEF NoRate, Fields
<1>6. DOMAIN rate = Rates /\ \A c \in Rates : rate[c] = NoRate
  BY <1>1
<1>7. \A c \in Rates : RateGood(rate[c], run, doc)
  BY <1>5, <1>6 DEF RateGood
<1>8. LedgerTypeOK /\ Recorded
  BY <1>1, <1>2, <1>3, <1>5, <1>6, RatingBounds DEF LedgerTypeOK, Recorded
<1> QED BY <1>1, <1>4, <1>6, <1>7, <1>8 DEF LedgerInv

LEMMA LedgerSteps ==
    ASSUME LedgerInv, [LedgerNext]_ledgerVars
    PROVE  LedgerInv' /\ ((UNCHANGED doc) \/ \E r : LedgerGrows(r))
<1>1. CASE \E c \in Rates : Rate(c) \/ Read(c) \/ Write(c)
  <2>1. PICK c \in Rates : Rate(c) \/ Read(c) \/ Write(c)
    BY <1>1
  <2>2. CASE Rate(c)
    <3>1. UNCHANGED doc
      BY <2>2 DEF Rate
    <3> QED BY <2>2, <3>1, RateKeeps
  <2>3. CASE Read(c)
    <3>1. UNCHANGED doc
      BY <2>3 DEF Read
    <3> QED BY <2>3, <3>1, ReadKeeps
  <2>4. CASE Write(c)
    BY <2>4, WriteKeeps
  <2> QED BY <2>1, <2>2, <2>3, <2>4
<1>2. CASE \E w \in adrift : LateWrite(w)
  BY <1>2, LateWriteKeeps
<1>3. CASE Rerun
  <2>1. UNCHANGED doc
    BY <1>3 DEF Rerun
  <2> QED BY <1>3, <2>1, RerunKeeps
<1>4. CASE UNCHANGED ledgerVars
  BY <1>4 DEF ledgerVars, LedgerInv, LedgerTypeOK, LedgerSound, Recorded
<1> QED BY <1>1, <1>2, <1>3, <1>4 DEF LedgerNext

(* A summary is accepted only when every verdict that counts is.           *)
LEMMA AcceptedSummary ==
    ASSUME NEW d, NEW b, Summary(d, b) = "accepted"
    PROVE  \A r \in Effective(d, b) : r.verdict \in Accepting
<1> DEFINE counted == Effective(d, b)
           one == Cardinality({r.verdict : r \in counted}) = 1 /\ Cardinality({Cohort(r) : r \in counted}) = 1
           accept == \A r \in counted : r.verdict \in Accepting
<1>1. Summary(d, b) = CASE counted = {} -> "unrated"
                        [] counted # {} /\ ~one -> "conflicted"
                        [] OTHER -> IF accept THEN "accepted" ELSE "refused"
  BY DEF Summary
<1> HIDE DEF one, counted
<1>2. CASE counted = {}
  BY <1>2 DEF counted
<1>3. CASE counted # {} /\ ~one
  BY <1>1, <1>3
<1>4. CASE counted # {} /\ one
  <2>1. Summary(d, b) = IF accept THEN "accepted" ELSE "refused"
    BY <1>1, <1>4
  <2> QED BY <2>1 DEF counted
<1> QED BY <1>2, <1>3, <1>4

LEMMA LedgerImplied == LedgerInv => ReceiptsSound /\ Recorded
<1> SUFFICES ASSUME LedgerInv PROVE ReceiptsSound /\ Recorded
  OBVIOUS
<1>1. LatestCounts
  <2> SUFFICES ASSUME NEW b \in 1..run, NEW who \in Reviewers
               PROVE  /\ Of(doc, b, who) # {} => Cardinality(Standing(doc, b, who)) = 1
                      /\ \A r \in Standing(doc, b, who) : \A o \in Of(doc, b, who) : At(o) <= At(r)
                      /\ Summary(doc, b) = "accepted" =>
                           \A r \in Standing(doc, b, who) : r.verdict \in Accepting
    BY DEF LatestCounts, Of, Standing
  <2>1. b \in Nat
    OBVIOUS
  <2>2. Standing(doc, b, who) \subseteq Of(doc, b, who)
    BY DEF Standing, Of, Effective
  <2>3. Summary(doc, b) = "accepted" => \A r \in Standing(doc, b, who) : r.verdict \in Accepting
    BY AcceptedSummary DEF Standing
  <2>4. CASE Of(doc, b, who) = {}
    BY <2>2, <2>3, <2>4
  <2>5. CASE Of(doc, b, who) # {}
    <3>1. PICK x : Standing(doc, b, who) = {x} /\ \A o \in Of(doc, b, who) : At(o) <= At(x)
      BY <2>1, <2>5 DEF LedgerInv, OneStands
    <3>2. Cardinality(Standing(doc, b, who)) = 1
      BY <3>1, FS_Singleton
    <3> QED BY <2>3, <3>1, <3>2
  <2> QED BY <2>4, <2>5
<1> QED BY <1>1 DEF LedgerInv, ReceiptsSound

(* Whatever raters read and write at the same time, whatever answer of     *)
(* Munin is lost and whichever write comes late: the ledger keeps its      *)
(* rules, of each reviewer's verdicts on a result the latest counts, a     *)
(* receipt that was recorded stays, and a rater that was told so finds its *)
(* verdict there.                                                          *)
THEOREM ReceiptsAlwaysStand == LedgerSpec => ReceiptsStand
<1>1. LedgerInit => LedgerInv
  BY LedgerStarts
<1>2. LedgerInv /\ [LedgerNext]_ledgerVars => LedgerInv'
  BY LedgerSteps
<1>3. LedgerInv => ReceiptsSound /\ Recorded
  BY LedgerImplied
<1>4. LedgerInv /\ [LedgerNext]_ledgerVars =>
        [/\ Len(doc.receipts) <= Len(doc'.receipts)
         /\ \A i \in 1 .. Len(doc.receipts) : doc'.receipts[i] = doc.receipts[i]]_ledgerVars
  <2> SUFFICES ASSUME LedgerInv, [LedgerNext]_ledgerVars
               PROVE  /\ Len(doc.receipts) <= Len(doc'.receipts)
                      /\ \A i \in 1 .. Len(doc.receipts) : doc'.receipts[i] = doc.receipts[i]
    OBVIOUS
  <2>1. Ledger(doc, run) /\ Len(doc.receipts) \in Nat
    BY LenProperties DEF LedgerInv, Ledger
  <2>2. CASE UNCHANGED doc
    BY <2>1, <2>2
  <2>3. CASE \E r : LedgerGrows(r)
    BY <2>1, <2>3, GrownFacts
  <2> QED BY <2>2, <2>3, LedgerSteps
<1> QED BY <1>1, <1>2, <1>3, <1>4, PTL DEF LedgerSpec, ReceiptsStand, AppendOnly
=============================================================================
