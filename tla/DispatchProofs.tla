--------------------------- MODULE DispatchProofs ---------------------------
(***************************************************************************)
(* However many dispatchers poll, tasks are rewritten and workspaces move: *)
(* what runs was assessed and signed as it runs, private work stays with   *)
(* the runtimes trusted with it, and a group keeps its order.              *)
(***************************************************************************)
EXTENDS Dispatch, WellFoundedInduction, TLAPS

(* What a dispatcher holds.                                                *)
Snaps == [declared : Levels \cup {Undeclared}, effective : Levels, mismatch : BOOLEAN,
          detected : Levels, override : BOOLEAN]
Polls == [pc : {"idle", "listing", "chosen", "cancelling", "refusing", "assessing", "gating",
                "parking", "claiming", "claimed", "checked", "dispatched", "executing", "failing"},
          task : Tasks \cup {NoTask}, seen : SUBSET Tasks, version : Nat, doc : Documents,
          workspace : {Internal, Private, Rejected}, refs : {Public, Private}, snap : Snaps,
          runtime : Runtimes \cup {"none"}]

Typed ==
  /\ TypeOK
  /\ poll \in [Dispatchers -> Polls]
  /\ checkpoint \in [Tasks -> [bound : BOOLEAN, doc : Documents, snap : Snaps]]

(* From the choice of a task on a dispatcher is at a task.  While it only  *)
(* reads, a version that is still the one it read stands for a pending     *)
(* task with the document it read.                                         *)
Deciding == {"cancelling", "refusing", "assessing", "gating", "parking", "claiming"}
Reading(d) ==
  LET p == poll[d]
  IN /\ p.pc \notin {"idle", "listing"} => p.task \in Tasks
     /\ p.pc \in Deciding =>
          /\ p.version <= status[p.task].version
          /\ p.version = status[p.task].version =>
               status[p.task].state = "pending" /\ status[p.task].doc = p.doc

(* A document on its way to an executor was accepted, and its workspace.   *)
Accepted(d) ==
  poll[d].pc \in {"assessing", "gating", "claiming"} \cup Holding =>
    (d \in Strict => poll[d].doc.signed) /\ poll[d].workspace # Rejected

(* What it has claimed runs under its name, as it read it.                 *)
Claimed(d) ==
  poll[d].pc \in Holding =>
    /\ status[poll[d].task].state = "running"
    /\ status[poll[d].task].by = d
    /\ status[poll[d].task].doc = poll[d].doc

(* The declaration of a document that says no less, and the owner's word   *)
(* for it, or that of the checkpoint of its phase.                         *)
Waiver(t, doc) ==
  /\ doc.declared < Private
  /\ IF doc.phase THEN checkpoint[t].doc = doc /\ checkpoint[t].snap.override ELSE doc.owner

(* What makes an assessment right: it is of this document, it is overridden *)
(* only on a waiver, and it is private when the document is.                *)
Right(snap, t, doc) ==
  /\ snap.declared = doc.declared
  /\ snap.override => Waiver(t, doc)
  /\ (\/ doc.declared = Private
      \/ doc.prompt = "hard"
      \/ doc.prompt = "soft" /\ ~Waiver(t, doc)) => snap.effective = Private

Checkpointed == \A t \in Tasks : Right(checkpoint[t].snap, t, checkpoint[t].doc)

(* The owner's word passes over a private workspace or reference up to the *)
(* claim; once checked again, an assessment is private with them.          *)
Assessed(d) ==
  LET p == poll[d]
  IN /\ p.pc \in {"gating", "claiming"} \cup (Holding \ {"failing"}) =>
          /\ Right(p.snap, p.task, p.doc)
          /\ p.runtime \in Runtimes /\ p.snap.effective <= Ceiling(p.runtime)
     /\ p.pc \in {"checked", "dispatched", "executing"} =>
          (Private \in {p.workspace, p.refs} => p.snap.effective = Private)

Good(d) == Reading(d) /\ Accepted(d) /\ Claimed(d) /\ Assessed(d)

(* A dispatcher that has listed the pending tasks has seen every task it   *)
(* may not overtake, but for those that run; one that has chosen knows     *)
(* that its choice overtakes none.                                         *)
Ordered(d) ==
  /\ held[d] \subseteq Active
  /\ poll[d].pc = "listing" => \A u \in held[d] : u \in poll[d].seen \/ status[u].state = "running"
  /\ poll[d].pc \notin {"idle", "listing"} => \A u \in held[d] : ~Earlier(u, poll[d].task)

IInv == Typed /\ Checkpointed /\ \A d \in Dispatchers : Good(d) /\ Ordered(d)

-----------------------------------------------------------------------------
(* Assessments.                                                            *)

LEMMA MaxOfFour ==
  ASSUME NEW a \in Levels, NEW b \in Levels, NEW c \in Levels, NEW e \in Levels
  PROVE  /\ MaxOf({a, b, c, e}) \in {a, b, c, e}
         /\ \A n \in {a, b, c, e} : n <= MaxOf({a, b, c, e})
<1>1. \E n \in {a, b, c, e} : \A m \in {a, b, c, e} : m <= n
  BY DEF Levels, Public, Internal, Private
<1> QED BY <1>1 DEF MaxOf

LEMMA MaxOfTwo ==
  ASSUME NEW a \in Levels, NEW b \in Levels
  PROVE  MaxOf({a, b}) \in {a, b} /\ a <= MaxOf({a, b}) /\ b <= MaxOf({a, b})
<1>1. \E n \in {a, b} : \A m \in {a, b} : m <= n
  BY DEF Levels, Public, Internal, Private
<1> QED BY <1>1 DEF MaxOf

LEMMA LevelsOf ==
  /\ Levels = {0, 1, 2} /\ Undeclared = 3 /\ Public = 0 /\ Internal = 1 /\ Private = 2
  /\ Rejected = 4
  /\ \A doc \in Documents : /\ PromptLevel(doc) \in Levels
                            /\ doc.prompt # "plain" => PromptLevel(doc) = Private
                            /\ doc.declared \in Levels \cup {Undeclared}
                            /\ Declared(doc.declared) \in Levels
                            /\ doc.declared \in Levels => Declared(doc.declared) = doc.declared
  BY DEF Levels, Undeclared, Public, Internal, Private, Rejected, Documents, PromptLevel, Declared

(* What the first assessment gives.                                        *)
LEMMA FreshFacts ==
  ASSUME NEW doc \in Documents, NEW ws \in {Internal, Private}, NEW ref \in {Public, Private}
  PROVE  LET s == Fresh(doc, ws, ref)
         IN /\ s \in Snaps /\ s.declared = doc.declared
            /\ s.override => doc.declared < Private /\ doc.owner /\ ~doc.phase
            /\ (doc.declared = Private \/ doc.prompt = "hard"
                \/ (doc.prompt = "soft" /\ ~s.override)) => s.effective = Private
<1> DEFINE detected == MaxOf({Internal, ws, PromptLevel(doc), ref})
           override == /\ doc.owner /\ ~doc.phase /\ doc.declared # Undeclared
                       /\ doc.prompt # "hard" /\ detected > doc.declared
           top == MaxOf({detected, Declared(doc.declared)})
           effective == IF override THEN doc.declared ELSE top
<1>1. /\ detected \in Levels /\ PromptLevel(doc) <= detected
      /\ doc.prompt # "plain" => detected = Private
  <2>1. Internal \in Levels /\ ws \in Levels /\ ref \in Levels /\ PromptLevel(doc) \in Levels
    BY LevelsOf
  <2>2. /\ detected \in {Internal, ws, PromptLevel(doc), ref}
        /\ \A n \in {Internal, ws, PromptLevel(doc), ref} : n <= detected
    BY <2>1, MaxOfFour
  <2> QED BY <2>1, <2>2, LevelsOf
<1>2. top \in Levels /\ detected <= top /\ Declared(doc.declared) <= top
  <2>1. Declared(doc.declared) \in Levels
    BY LevelsOf
  <2>2. top \in {detected, Declared(doc.declared)} /\ detected <= top /\ Declared(doc.declared) <= top
    BY <1>1, <2>1, MaxOfTwo
  <2> QED BY <1>1, <2>1, <2>2
<1>3. Fresh(doc, ws, ref) = Snapshot(doc.declared, effective, detected, override)
  BY DEF Fresh
<1>4. override \in BOOLEAN /\ (override => doc.declared \in Levels /\ doc.declared < Private)
  BY <1>1, LevelsOf
<1>5. effective \in Levels
  BY <1>2, <1>4
<1> DEFINE mismatch == doc.declared # Undeclared /\ detected > doc.declared
           snap == [declared |-> doc.declared, effective |-> effective, mismatch |-> mismatch,
                    detected |-> IF mismatch THEN detected ELSE effective,
                    override |-> override /\ mismatch]
<1>6. Fresh(doc, ws, ref) = snap
  BY <1>3 DEF Snapshot
<1>7. override /\ mismatch <=> override
  OBVIOUS
<1>8. snap.override = override /\ snap.effective = effective /\ snap.declared = doc.declared
  BY <1>7
<1>9. snap \in Snaps
  BY <1>1, <1>4, <1>5, LevelsOf DEF Snaps
<1>10. (doc.declared = Private \/ doc.prompt = "hard" \/ (doc.prompt = "soft" /\ ~override)) => effective = Private
  BY <1>1, <1>2, <1>4, LevelsOf
<1> HIDE DEF snap, override, effective
<1> QED BY <1>4, <1>6, <1>8, <1>9, <1>10 DEF override

(* What an assessment on top of another one gives.                         *)
LEMMA AgainFacts ==
  ASSUME NEW doc \in Documents, NEW ws \in {Internal, Private}, NEW ref \in {Public, Private},
         NEW snap \in Snaps, snap.declared = doc.declared
  PROVE  LET s == Again(snap, doc, ws, ref)
         IN /\ s \in Snaps /\ s.declared = doc.declared
            /\ s.override => snap.override /\ s.effective = snap.effective /\ doc.prompt # "hard"
                             /\ Private \notin {ws, ref}
            /\ ~s.override => /\ snap.effective <= s.effective
                              /\ Private \in {ws, ref} => s.effective = Private
                              /\ doc.prompt # "plain" => s.effective = Private
<1> DEFINE declared == IF snap.declared = Undeclared THEN doc.declared ELSE snap.declared
           detected == MaxOf({snap.detected, ws, PromptLevel(doc), ref})
           mismatch == snap.mismatch \/ (declared # Undeclared /\ detected > declared)
           override == /\ snap.override /\ mismatch /\ snap.effective = declared
                       /\ doc.prompt # "hard" /\ Private \notin {ws, ref}
           top == MaxOf({snap.effective, ws, PromptLevel(doc), ref})
           effective == IF override THEN declared ELSE top
           new == [declared |-> declared, effective |-> effective, mismatch |-> mismatch,
                   detected |-> IF mismatch THEN detected ELSE effective, override |-> override]
<1>1. Again(snap, doc, ws, ref) = new
  BY DEF Again
<1>2. declared = doc.declared
  OBVIOUS
<1>a. /\ ws \in Levels /\ ref \in Levels /\ PromptLevel(doc) \in Levels
      /\ snap.detected \in Levels /\ snap.effective \in Levels
      /\ snap.mismatch \in BOOLEAN /\ snap.override \in BOOLEAN
  BY LevelsOf DEF Snaps
<1>3. detected \in Levels
  <2>1. detected \in {snap.detected, ws, PromptLevel(doc), ref}
    BY <1>a, MaxOfFour
  <2> QED BY <1>a, <2>1
<1>4. top \in Levels /\ \A n \in {snap.effective, ws, PromptLevel(doc), ref} : n <= top
  <2>1. /\ top \in {snap.effective, ws, PromptLevel(doc), ref}
        /\ \A n \in {snap.effective, ws, PromptLevel(doc), ref} : n <= top
    BY <1>a, MaxOfFour
  <2> QED BY <1>a, <2>1
<1>5. effective \in Levels /\ (override => effective = snap.effective)
  BY <1>a, <1>4
<1>6. mismatch \in BOOLEAN /\ override \in BOOLEAN
  BY <1>a
<1>7. new \in Snaps
  BY <1>2, <1>3, <1>5, <1>6, LevelsOf DEF Snaps
<1>8. ~override => /\ snap.effective <= effective
                   /\ Private \in {ws, ref} => effective = Private
                   /\ doc.prompt # "plain" => effective = Private
  BY <1>4, LevelsOf
<1>9. new.override = override /\ new.effective = effective /\ new.declared = declared
  OBVIOUS
<1>10. override => snap.override /\ doc.prompt # "hard" /\ Private \notin {ws, ref}
  OBVIOUS
<1> HIDE DEF new, override, effective, declared
<1> QED BY <1>1, <1>2, <1>5, <1>7, <1>8, <1>9, <1>10

LEMMA FreshRight ==
  ASSUME NEW t, NEW doc \in Documents, NEW ws \in {Internal, Private}, NEW ref \in {Public, Private}
  PROVE  Fresh(doc, ws, ref) \in Snaps /\ Right(Fresh(doc, ws, ref), t, doc)
  BY FreshFacts DEF Right, Waiver

(* The document may be private, and so may what it leads to.               *)
LEMMA AgainRight ==
  ASSUME NEW t, NEW doc \in Documents, NEW ws \in {Internal, Private}, NEW ref \in {Public, Private},
         NEW snap \in Snaps, Right(snap, t, doc)
  PROVE  LET s == Again(snap, doc, ws, ref)
         IN /\ s \in Snaps /\ Right(s, t, doc)
            /\ Private \in {ws, ref} => s.effective = Private
<1>1. snap.declared = doc.declared
  BY DEF Right
<1> DEFINE s == Again(snap, doc, ws, ref)
<1>2. /\ s \in Snaps /\ s.declared = doc.declared
      /\ s.override => snap.override /\ s.effective = snap.effective /\ doc.prompt # "hard"
                       /\ Private \notin {ws, ref}
      /\ ~s.override => /\ snap.effective <= s.effective
                        /\ Private \in {ws, ref} => s.effective = Private
                        /\ doc.prompt # "plain" => s.effective = Private
  BY <1>1, AgainFacts
<1>3. s.effective \in Levels /\ snap.effective \in Levels
  BY <1>2 DEF Snaps
<1> HIDE DEF s
<1>4. s.override => Right(s, t, doc) /\ Private \notin {ws, ref}
  BY <1>2 DEF Right
<1>5. ~s.override => Right(s, t, doc) /\ (Private \in {ws, ref} => s.effective = Private)
  BY <1>2, <1>3, LevelsOf DEF Right
<1> QED BY <1>2, <1>4, <1>5 DEF s

-----------------------------------------------------------------------------
(* Steps.                                                                  *)

LEMMA FirstOf ==
  ASSUME NEW S \in SUBSET Tasks, S # {}
  PROVE  First(S) \in S
<1>1. S \subseteq Nat
  BY TasksAssumption
<1>2. \E t \in S : \A u \in S : ~(<<u, t>> \in OpToRel(<, Nat))
  BY <1>1, WFMin, NatLessThanWellFounded
<1>3. \E t \in S : \A u \in S : t <= u
  <2>1. PICK t \in S : \A u \in S : ~(<<u, t>> \in OpToRel(<, Nat))
    BY <1>2
  <2>2. \A u \in S : ~(u < t)
    <3> SUFFICES ASSUME NEW u \in S, u < t PROVE FALSE
      OBVIOUS
    <3>1. <<u, t>> \in Nat \X Nat /\ <<u, t>>[1] < <<u, t>>[2]
      BY <1>1, <2>1
    <3>2. <<u, t>> \in OpToRel(<, Nat)
      BY <3>1 DEF OpToRel
    <3> QED BY <2>1, <3>2
  <2>3. t \in S
    BY <2>1, Zenon
  <2>4. \A u \in S : t <= u
    BY <1>1, <2>2, <2>3
  <2> QED BY <2>3, <2>4
<1> QED BY <1>3 DEF First

(* One status is written, and by whom: a task that runs only by the one    *)
(* that claimed it, which does not make it pending again.                  *)
Moves(ds) ==
  \A t \in Tasks :
    \/ status'[t] = status[t]
    \/ /\ status'[t].version = status[t].version + 1
       /\ status[t].state = "running" => status[t].by \in ds /\ status'[t].state # "pending"

Entry == [state : States, doc : Documents, version : Nat, by : Dispatchers \cup {Nobody},
          cancel : BOOLEAN]

LEMMA Moved ==
  ASSUME Typed, NEW t \in Tasks, NEW s, NEW ds,
         s.version = status[t].version + 1, s \in Entry,
         status[t].state = "running" => status[t].by \in ds /\ s.state # "pending",
         status' = [status EXCEPT ![t] = s]
  PROVE  status' \in [Tasks -> Entry] /\ Moves(ds) /\ status'[t] = s
<1>1. status \in [Tasks -> Entry]
  BY DEF Typed, TypeOK, Entry
<1> QED BY <1>1 DEF Moves

LEMMA WriteMoves ==
  ASSUME Typed, NEW t \in Tasks, NEW next \in States, NEW d \in Dispatchers \cup {Nobody}, NEW ds,
         status[t].state = "running" => status[t].by \in ds /\ next # "pending",
         status' = Written(t, next, d)
  PROVE  /\ status' \in [Tasks -> Entry] /\ Moves(ds)
         /\ status'[t].state = next /\ status'[t].doc = status[t].doc /\ status'[t].by = d
<1> DEFINE s == [status[t] EXCEPT !.state = next, !.version = @ + 1, !.by = d]
<1>1. status \in [Tasks -> Entry] /\ status[t] \in Entry
  BY DEF Typed, TypeOK, Entry
<1>2. status' = [status EXCEPT ![t] = s]
  BY <1>1 DEF Written
<1>3. status[t].version + 1 \in Nat
  BY <1>1 DEF Entry
<1>4. /\ s \in Entry /\ s.version = status[t].version + 1
      /\ s.state = next /\ s.doc = status[t].doc /\ s.by = d
  BY <1>1, <1>3, ZenonT(60) DEF Entry
<1> HIDE DEF s
<1>5. status' \in [Tasks -> Entry] /\ Moves(ds) /\ status'[t] = s
  BY <1>2, <1>4, Moved
<1> QED BY <1>4, <1>5

(* A poll step changes its own dispatcher and what it has claimed.         *)
Turn(d) ==
  /\ poll' = [poll EXCEPT ![d] = poll'[d]]
  /\ poll'[d] \in Polls
  /\ status' \in [Tasks -> Entry]
  /\ Moves({d})
  /\ UNCHANGED <<decision, checkpoint, World>>

(* What it does to the choice of a task and to what it has seen.           *)
Follows(d) ==
  \/ poll'[d].pc = "idle"
  \/ poll[d].pc = "idle" /\ poll'[d].pc = "listing" /\ poll'[d].seen = Pending /\ status' = status
  \/ poll[d].pc = "listing" /\ poll'[d].pc = "listing" /\ poll'[d].seen = poll[d].seen
  \/ /\ poll[d].pc = "listing" /\ poll'[d].pc # "listing"
     /\ \A u \in poll[d].seen \cup Running : ~Earlier(u, poll'[d].task)
  \/ poll[d].pc \notin {"idle", "listing"} /\ poll'[d].pc # "listing" /\ poll'[d].task = poll[d].task

LEMMA Quiet ==
  ASSUME Typed, NEW ds, status' = status
  PROVE  status' \in [Tasks -> Entry] /\ Moves(ds)
  BY DEF Typed, TypeOK, Entry, Moves

(* A step that only moves a dispatcher on.                                 *)
LEMMA TurnOf ==
  ASSUME Typed, NEW d \in Dispatchers, NEW q \in Polls, poll' = [poll EXCEPT ![d] = q],
         UNCHANGED <<Queue, World>>
  PROVE  Turn(d) /\ poll'[d] = q /\ status' = status
<1>1. poll'[d] = q
  BY DEF Typed
<1>2. status' = status
  BY DEF Queue
<1> QED BY <1>1, <1>2, Quiet DEF Turn, Queue

LEMMA TurnWith ==
  ASSUME Typed, NEW d \in Dispatchers, NEW q \in Polls, poll' = [poll EXCEPT ![d] = q],
         status' \in [Tasks -> Entry], Moves({d}), UNCHANGED <<decision, checkpoint, World>>
  PROVE  Turn(d) /\ poll'[d] = q
  BY DEF Typed, Turn

LEMMA RestingIs == Resting \in Polls
<1>1. Empty \in Documents
  <2>1. [runtime |-> "auto", declared |-> Undeclared, prompt |-> "plain", owner |-> FALSE,
         tools |-> FALSE, fallback |-> FALSE, phase |-> FALSE, gated |-> FALSE, signed |-> FALSE,
         valid |-> FALSE] \in Documents
    BY DEF Documents, Prompts
  <2> QED BY <2>1 DEF Empty
<1> QED BY <1>1 DEF Resting, Polls, Snaps, Blank, Levels, Undeclared, Public, Internal, Private, NoTask

LEMMA RestingTurn ==
  ASSUME Typed, NEW d \in Dispatchers, Rest(d),
         status' \in [Tasks -> Entry], Moves({d}), UNCHANGED <<decision, checkpoint, World>>
  PROVE  Turn(d) /\ Good(d)' /\ Follows(d)
<1>1. Turn(d) /\ poll'[d] = Resting
  BY RestingIs, TurnWith DEF Rest
<1>2. poll'[d].pc = "idle"
  BY <1>1 DEF Resting
<1> QED BY <1>1, <1>2 DEF Good, Reading, Accepted, Claimed, Assessed, Follows, Deciding, Holding

LEMMA PollOf ==
  ASSUME Typed, NEW d \in Dispatchers
  PROVE  poll[d] \in Polls
  BY DEF Typed

LEMMA ListPendingTurns ==
  ASSUME Typed, NEW d \in Dispatchers, ListPending(d)
  PROVE  Turn(d) /\ Good(d)' /\ Follows(d)
<1> DEFINE q == [poll[d] EXCEPT !.pc = "listing", !.seen = Pending]
<1>1. poll[d] \in Polls
  BY PollOf
<1>2. q \in Polls
  BY <1>1 DEF Polls, Pending
<1>3. poll' = [poll EXCEPT ![d] = q] /\ UNCHANGED <<Queue, World>>
  BY DEF ListPending, Typed
<1>4. Turn(d) /\ poll'[d] = q /\ status' = status
  BY <1>2, <1>3, TurnOf
<1>5. poll'[d].pc = "listing" /\ poll'[d].seen = Pending /\ poll[d].pc = "idle"
  <2>1. poll[d].pc = "idle"
    BY DEF ListPending
  <2> HIDE DEF q
  <2>2. q.pc = "listing" /\ q.seen = Pending
    BY <1>1 DEF q, Polls
  <2> QED BY <1>4, <2>1, <2>2
<1> QED BY <1>4, <1>5 DEF Good, Reading, Accepted, Claimed, Assessed, Follows, Deciding, Holding

LEMMA ListRunningTurns ==
  ASSUME Typed, NEW d \in Dispatchers, ListRunning(d)
  PROVE  Turn(d) /\ Good(d)' /\ Follows(d)
<1> DEFINE eligible == Eligible(poll[d].seen, Running)
           q == [poll[d] EXCEPT !.pc = "chosen", !.task = First(eligible), !.seen = {}]
<1>1. poll[d] \in Polls /\ poll[d].pc = "listing" /\ UNCHANGED <<Queue, World>>
  BY PollOf DEF ListRunning
<1>2. CASE eligible = {}
  <2>1. Rest(d) /\ UNCHANGED <<decision, checkpoint, World>> /\ status' = status
    BY <1>1, <1>2 DEF ListRunning, Queue
  <2> QED BY <2>1, Quiet, RestingTurn
<1>3. CASE eligible # {}
  <2>1. eligible \subseteq poll[d].seen /\ poll[d].seen \subseteq Tasks
    BY <1>1 DEF Eligible, Polls
  <2>2. First(eligible) \in eligible
    BY <1>3, <2>1, FirstOf
  <2>3. q \in Polls
    BY <1>1, <2>1, <2>2 DEF Polls
  <2>4. poll' = [poll EXCEPT ![d] = q]
    BY <1>1, <1>3 DEF ListRunning, Typed
  <2>5. Turn(d) /\ poll'[d] = q
    BY <1>1, <2>3, <2>4, TurnOf
  <2>6. poll'[d].pc = "chosen" /\ poll'[d].task = First(eligible)
    BY <1>1, <2>5 DEF Polls
  <2>7. \A u \in poll[d].seen \cup Running : ~Earlier(u, poll'[d].task)
    BY <2>2, <2>6 DEF Eligible
  <2>8. Follows(d)
    BY <1>1, <2>6, <2>7 DEF Follows
  <2>9. poll'[d].task \in Tasks
    BY <2>1, <2>2, <2>6
  <2> QED BY <2>5, <2>6, <2>8, <2>9 DEF Good, Reading, Accepted, Claimed, Assessed, Deciding, Holding
<1> QED BY <1>2, <1>3

LEMMA ReadTurns ==
  ASSUME Typed, NEW d \in Dispatchers, Good(d), Read(d)
  PROVE  Turn(d) /\ Good(d)' /\ Follows(d)
<1> DEFINE t == poll[d].task
           q(pc) == [poll[d] EXCEPT !.pc = pc, !.version = status[t].version,
                                    !.doc = status[t].doc, !.workspace = workspace[t]]
<1>1. /\ poll[d] \in Polls /\ poll[d].pc = "chosen" /\ UNCHANGED <<Queue, World>>
      /\ status' = status
  BY PollOf DEF Read, Queue
<1>2. t \in Tasks
  BY <1>1 DEF Good, Reading
<1>3. status[t] \in Entry /\ workspace[t] \in {Internal, Private, Rejected}
  BY <1>2 DEF Typed, TypeOK, Entry
<1>4. CASE Rest(d)
  BY <1>1, <1>4, Quiet, RestingTurn DEF Queue
<1>5. ASSUME NEW pc \in {"cancelling", "refusing", "assessing"}, status[t].state = "pending",
             poll' = [poll EXCEPT ![d].pc = pc, ![d].version = status[t].version,
                                  ![d].doc = status[t].doc, ![d].workspace = workspace[t]],
             pc = "assessing" => Acceptable(d, status[t].doc) /\ workspace[t] # Rejected
      PROVE  Turn(d) /\ Good(d)' /\ Follows(d)
  <2>1. poll' = [poll EXCEPT ![d] = q(pc)]
    BY <1>5 DEF Typed
  <2>2. q(pc) \in Polls
    BY <1>1, <1>3 DEF Polls, Entry
  <2>3. Turn(d) /\ poll'[d] = q(pc)
    BY <1>1, <2>1, <2>2, TurnOf
  <2>4. /\ poll'[d].pc = pc /\ poll'[d].version = status[t].version /\ poll'[d].doc = status[t].doc
        /\ poll'[d].workspace = workspace[t] /\ poll'[d].task = t
    BY <1>1, <2>3 DEF Polls
  <2>5. status[t].version \in Nat
    BY <1>3 DEF Entry
  <2>6. Reading(d)'
    <3>1. poll'[d].pc = pc /\ poll'[d].task \in Tasks /\ status'[poll'[d].task] = status[t]
      BY <1>1, <1>2, <2>4
    <3>2. poll'[d].version <= status[t].version
      BY <2>4, <2>5
    <3> HIDE DEF t
    <3> QED BY <1>5, <2>4, <3>1, <3>2 DEF Reading
  <2>7. Accepted(d)'
    BY <1>5, <2>4 DEF Accepted, Acceptable, Holding
  <2>8. Claimed(d)' /\ Assessed(d)'
    BY <1>5, <2>4 DEF Claimed, Assessed, Holding
  <2>9. Follows(d)
    BY <1>1, <2>4 DEF Follows
  <2> QED BY <2>3, <2>6, <2>7, <2>8, <2>9 DEF Good
<1> QED BY <1>4, <1>5 DEF Read

(* The route a document takes: whatever is admitted, what is chosen is.    *)
LEMMA Routed ==
  ASSUME NEW doc \in Documents, NEW level, NEW up \in SUBSET AutoRouted,
         {r \in Route(doc, level, up) : level <= Ceiling(r)} # {}
  PROVE  LET routed == Route(doc, level, up)
             chosen == CHOOSE r \in routed : TRUE
         IN routed # {} /\ chosen \in Runtimes /\ level <= Ceiling(chosen)
<1>1. CASE doc.runtime # "auto"
  <2>1. Route(doc, level, up) = {doc.runtime} /\ doc.runtime \in Runtimes
    BY <1>1 DEF Route, Documents
  <2> QED BY <2>1
<1>2. CASE doc.runtime = "auto"
  <2>1. Route(doc, level, up) \subseteq {r \in up : level <= Ceiling(r)}
    BY <1>2 DEF Route, Candidates
  <2>2. Route(doc, level, up) # {} /\ up \subseteq Runtimes
    BY DEF Runtimes
  <2> HIDE DEF Runtimes, AutoRouted
  <2> QED BY <2>1, <2>2
<1> QED BY <1>1, <1>2

LEMMA AssessmentRight ==
  ASSUME Typed, Checkpointed, NEW t \in Tasks, NEW doc \in Documents, NEW ws \in {Internal, Private},
         NEW ref \in {Public, Private}
  PROVE  Assessment(t, doc, ws, ref) \in Snaps /\ Right(Assessment(t, doc, ws, ref), t, doc)
<1>1. CASE Vouched(t, doc) = {}
  BY <1>1, FreshRight DEF Assessment
<1>2. CASE Vouched(t, doc) # {}
  <2>1. Vouched(t, doc) = {checkpoint[t].snap} /\ checkpoint[t].doc = doc
    BY <1>2 DEF Vouched
  <2>2. checkpoint[t].snap \in Snaps /\ Right(checkpoint[t].snap, t, doc)
    BY <2>1 DEF Typed, Checkpointed
  <2>3. Assessment(t, doc, ws, ref) = Again(checkpoint[t].snap, doc, ws, ref)
    BY <1>2, <2>1 DEF Assessment
  <2> QED BY <2>2, <2>3, AgainRight
<1> QED BY <1>1, <1>2

(* Who goes on deciding about the version it read.                         *)
LEMMA DecidesOn ==
  ASSUME Typed, NEW d \in Dispatchers, Good(d), status' = status,
         poll[d].pc \in {"assessing", "gating"},
         poll'[d].pc \in {"refusing", "gating", "claiming", "parking"},
         poll'[d].task = poll[d].task, poll'[d].version = poll[d].version,
         poll'[d].doc = poll[d].doc, poll'[d].workspace = poll[d].workspace
  PROVE  Reading(d)' /\ Accepted(d)' /\ Claimed(d)' /\ Follows(d)
<1>1. Reading(d)'
  BY DEF Good, Reading, Deciding
<1>2. Accepted(d)'
  BY DEF Good, Accepted
<1>3. Claimed(d)' /\ Follows(d)
  BY DEF Claimed, Follows, Holding
<1> QED BY <1>1, <1>2, <1>3

LEMMA AssessTurns ==
  ASSUME Typed, Checkpointed, NEW d \in Dispatchers, Good(d), Assess(d)
  PROVE  Turn(d) /\ Good(d)' /\ Follows(d) /\ poll'[d].pc \in {"refusing", "gating", "claiming"}
<1> DEFINE t == poll[d].task
           doc == poll[d].doc
           snap == Assessment(t, doc, poll[d].workspace, refs[t])
           routed(up) == Route(doc, snap.effective, up)
           admitted(up) == {r \in routed(up) : snap.effective <= Ceiling(r)}
           next(up) == IF admitted(up) = {} THEN "refusing" ELSE IF doc.gated THEN "gating" ELSE "claiming"
           runtime(up) == IF routed(up) = {} THEN "none" ELSE CHOOSE r \in routed(up) : TRUE
           q(up) == [poll[d] EXCEPT !.pc = next(up), !.snap = snap, !.refs = refs[t], !.runtime = runtime(up)]
<1>1. /\ poll[d] \in Polls /\ poll[d].pc = "assessing" /\ UNCHANGED <<Queue, World>>
      /\ refs[t] # Rejected /\ doc \in Documents
  BY PollOf DEF Assess, Polls
<1>2. t \in Tasks /\ poll[d].workspace \in {Internal, Private} /\ refs[t] \in {Public, Private}
  BY <1>1 DEF Good, Reading, Accepted, Typed, TypeOK, Polls
<1>3. snap \in Snaps /\ Right(snap, t, doc)
  BY <1>1, <1>2, AssessmentRight
<1>4. PICK up \in SUBSET AutoRouted :
        poll' = [poll EXCEPT ![d].pc = next(up), ![d].snap = snap, ![d].refs = refs[t], ![d].runtime = runtime(up)]
  BY DEF Assess
<1>5. up \in SUBSET AutoRouted
  BY <1>4, Zenon
<1>6. admitted(up) # {} =>
        routed(up) # {} /\ runtime(up) \in Runtimes /\ snap.effective <= Ceiling(runtime(up))
  BY <1>1, <1>5, Routed
<1>7. runtime(up) \in Runtimes \cup {"none"}
  <2>1. routed(up) \subseteq Runtimes
    BY <1>1, <1>5 DEF Route, Candidates, Documents, Runtimes
  <2> HIDE DEF routed
  <2> QED BY <2>1
<1>8. poll' = [poll EXCEPT ![d] = q(up)]
  BY <1>4 DEF Typed
<1> HIDE DEF snap, runtime, admitted
<1>9. q(up) \in Polls
  BY <1>1, <1>2, <1>3, <1>7 DEF Polls
<1>10. Turn(d) /\ poll'[d] = q(up) /\ status' = status
  BY <1>1, <1>8, <1>9, TurnOf
<1>11. /\ poll'[d].pc = next(up) /\ poll'[d].snap = snap /\ poll'[d].refs = refs[t]
       /\ poll'[d].runtime = runtime(up) /\ poll'[d].task = t /\ poll'[d].doc = doc
       /\ poll'[d].version = poll[d].version /\ poll'[d].workspace = poll[d].workspace
  BY <1>1, <1>10 DEF Polls
<1>12. next(up) \in {"refusing", "gating", "claiming"} /\ (next(up) # "refusing" => admitted(up) # {})
  OBVIOUS
<1> HIDE DEF next
<1>13. Reading(d)' /\ Accepted(d)' /\ Claimed(d)' /\ Follows(d)
  BY <1>1, <1>10, <1>11, <1>12, DecidesOn
<1>14. checkpoint' = checkpoint
  BY <1>1 DEF Queue
<1>15. Assessed(d)'
  BY <1>3, <1>6, <1>11, <1>12, <1>14 DEF Assessed, Right, Waiver, Holding
<1> QED BY <1>10, <1>11, <1>12, <1>13, <1>15 DEF Good

Codes == {"idle", "listing", "chosen", "cancelling", "refusing", "assessing", "gating", "parking",
          "claiming", "claimed", "checked", "dispatched", "executing", "failing"}

(* The rest of what a dispatcher holds is as it was.                       *)
SameBut(d, pc) ==
  /\ poll'[d].pc = pc /\ poll'[d].task = poll[d].task /\ poll'[d].seen = poll[d].seen
  /\ poll'[d].version = poll[d].version /\ poll'[d].doc = poll[d].doc
  /\ poll'[d].workspace = poll[d].workspace /\ poll'[d].refs = poll[d].refs
  /\ poll'[d].snap = poll[d].snap

LEMMA StepTurns ==
  ASSUME Typed, NEW d \in Dispatchers, NEW to \in Codes, poll' = [poll EXCEPT ![d].pc = to],
         status' \in [Tasks -> Entry], Moves({d}), UNCHANGED <<decision, checkpoint, World>>
  PROVE  Turn(d) /\ SameBut(d, to) /\ poll'[d].runtime = poll[d].runtime
<1> DEFINE q == [poll[d] EXCEPT !.pc = to]
<1>1. poll[d] \in Polls /\ poll' = [poll EXCEPT ![d] = q]
  BY PollOf DEF Typed
<1>2. q \in Polls
  BY <1>1 DEF Polls, Codes
<1>3. Turn(d) /\ poll'[d] = q
  BY <1>1, <1>2, TurnWith
<1> QED BY <1>1, <1>3 DEF Polls, SameBut

LEMMA BlockedTurns ==
  ASSUME Typed, NEW d \in Dispatchers, Good(d), Blocked(d)
  PROVE  Turn(d) /\ Good(d)' /\ Follows(d)
<1>1. /\ poll[d].pc = "assessing" /\ poll' = [poll EXCEPT ![d].pc = "refusing"]
      /\ status' = status /\ UNCHANGED <<decision, checkpoint, World>>
  BY DEF Blocked, Step, Queue
<1>2. Turn(d) /\ SameBut(d, "refusing")
  BY <1>1, Quiet, StepTurns DEF Codes
<1>3. Reading(d)' /\ Accepted(d)' /\ Claimed(d)' /\ Follows(d)
  BY <1>1, <1>2, DecidesOn DEF SameBut
<1> QED BY <1>2, <1>3 DEF Good, Assessed, Holding, SameBut

LEMMA GateTurns ==
  ASSUME Typed, NEW d \in Dispatchers, Good(d), Gate(d)
  PROVE  Turn(d) /\ Good(d)' /\ Follows(d)
<1>1. PICK to \in {"claiming", "refusing", "parking"} : Step(d, "gating", to)
  BY DEF Gate
<1>2. /\ poll[d].pc = "gating" /\ poll' = [poll EXCEPT ![d].pc = to]
      /\ status' = status /\ UNCHANGED <<decision, checkpoint, World>>
  BY <1>1 DEF Gate, Step, Queue
<1>3. to \in {"claiming", "refusing", "parking"} /\ to \in Codes
  BY <1>1 DEF Codes
<1>4. Turn(d) /\ SameBut(d, to) /\ poll'[d].runtime = poll[d].runtime
  BY <1>2, <1>3, Quiet, StepTurns
<1>5. Reading(d)' /\ Accepted(d)' /\ Claimed(d)' /\ Follows(d)
  BY <1>2, <1>3, <1>4, DecidesOn DEF SameBut
<1>6. Assessed(d)'
  BY <1>2, <1>3, <1>4 DEF Good, Assessed, Right, Waiver, Holding, SameBut
<1> QED BY <1>4, <1>5, <1>6 DEF Good

LEMMA WriteTurns ==
  ASSUME Typed, NEW d \in Dispatchers, Good(d), Write(d)
  PROVE  Turn(d) /\ Good(d)' /\ Follows(d)
<1> DEFINE t == poll[d].task
<1>1. PICK p \in {<<"refusing", "failed">>, <<"cancelling", "cancelled">>, <<"parking", "awaiting">>} :
        /\ poll[d].pc = p[1]
        /\ status' = IF Current(d, p[2]) THEN Written(t, p[2], Nobody) ELSE status
  BY DEF Write
<1>2. /\ p[2] \in {"failed", "cancelled", "awaiting"} /\ poll[d].pc \in {"refusing", "cancelling", "parking"}
      /\ Rest(d) /\ UNCHANGED <<decision, checkpoint, World>>
  BY <1>1 DEF Write
<1>3. t \in Tasks /\ (Current(d, p[2]) => status[t].state = "pending")
  BY <1>2 DEF Good, Reading, Deciding, Current
<1>4. CASE ~Current(d, p[2])
  BY <1>1, <1>2, <1>4, Quiet, RestingTurn
<1>5. CASE Current(d, p[2])
  <2>1. p[2] \in States /\ Nobody \in Dispatchers \cup {Nobody}
    BY <1>2 DEF States
  <2>2. status' = Written(t, p[2], Nobody) /\ status[t].state # "running"
    BY <1>1, <1>3, <1>5
  <2>3. status' \in [Tasks -> Entry] /\ Moves({d})
    BY <1>3, <2>1, <2>2, WriteMoves
  <2> QED BY <1>2, <2>3, RestingTurn
<1> QED BY <1>4, <1>5

LEMMA ClaimTurns ==
  ASSUME Typed, NEW d \in Dispatchers, Good(d), Claim(d)
  PROVE  Turn(d) /\ Good(d)' /\ Follows(d)
<1> DEFINE t == poll[d].task
<1>1. poll[d].pc = "claiming" /\ UNCHANGED <<decision, checkpoint, World>>
  BY DEF Claim
<1>2. /\ t \in Tasks
      /\ Current(d, "running") => status[t].state = "pending" /\ status[t].doc = poll[d].doc
  BY <1>1 DEF Good, Reading, Deciding, Current
<1>3. CASE ~Current(d, "running")
  BY <1>1, <1>3, Quiet, RestingTurn DEF Claim
<1>4. CASE Current(d, "running")
  <2>1. "running" \in States /\ d \in Dispatchers \cup {Nobody}
    BY DEF States
  <2>2. status' = Written(t, "running", d) /\ status[t].state # "running"
    BY <1>2, <1>4 DEF Claim
  <2>4. /\ status' \in [Tasks -> Entry] /\ Moves({d})
        /\ status'[t].state = "running" /\ status'[t].doc = status[t].doc /\ status'[t].by = d
    BY <1>2, <2>1, <2>2, WriteMoves
  <2>5. poll' = [poll EXCEPT ![d].pc = "claimed"]
    BY <1>4 DEF Claim
  <2>6. Turn(d) /\ SameBut(d, "claimed") /\ poll'[d].runtime = poll[d].runtime
    BY <1>1, <2>4, <2>5, StepTurns DEF Codes
  <2>7. Claimed(d)'
    BY <1>2, <1>4, <2>4, <2>6 DEF Claimed, SameBut
  <2>8. Reading(d)' /\ Accepted(d)' /\ Follows(d)
    BY <1>1, <1>2, <2>6 DEF Good, Reading, Accepted, Follows, SameBut, Deciding, Holding
  <2>9. Assessed(d)'
    BY <1>1, <2>6 DEF Good, Assessed, Right, Waiver, Holding, SameBut
  <2> QED BY <2>6, <2>7, <2>8, <2>9 DEF Good
<1> QED BY <1>3, <1>4

(* What holds a task goes on holding it.                                   *)
LEMMA HoldsOn ==
  ASSUME Typed, NEW d \in Dispatchers, Good(d), status' = status, poll[d].pc \in Holding,
         poll'[d].pc \in Holding, poll'[d].task = poll[d].task, poll'[d].doc = poll[d].doc,
         poll'[d].workspace # Rejected
  PROVE  Reading(d)' /\ Accepted(d)' /\ Claimed(d)' /\ Follows(d)
<1>1. Reading(d)'
  BY DEF Good, Reading, Deciding, Holding
<1>2. Accepted(d)'
  BY DEF Good, Accepted, Holding
<1>3. Claimed(d)'
  BY DEF Good, Claimed
<1>4. Follows(d)
  BY DEF Follows, Holding
<1> QED BY <1>1, <1>2, <1>3, <1>4

LEMMA FailingTurns ==
  ASSUME Typed, NEW d \in Dispatchers, Good(d), poll[d].pc \in Holding,
         poll' = [poll EXCEPT ![d].pc = "failing"], UNCHANGED <<Queue, World>>
  PROVE  Turn(d) /\ Good(d)' /\ Follows(d) /\ SameBut(d, "failing") /\ poll'[d].runtime = poll[d].runtime
<1>1. status' = status /\ UNCHANGED <<decision, checkpoint, World>>
  BY DEF Queue
<1>2. Turn(d) /\ SameBut(d, "failing") /\ poll'[d].runtime = poll[d].runtime
  BY <1>1, Quiet, StepTurns DEF Codes
<1>3. poll[d].workspace # Rejected
  BY DEF Good, Accepted
<1>4. Reading(d)' /\ Accepted(d)' /\ Claimed(d)' /\ Follows(d)
  BY <1>1, <1>2, <1>3, HoldsOn DEF SameBut, Holding
<1>5. Assessed(d)'
  BY <1>2 DEF Assessed, SameBut, Holding
<1> QED BY <1>2, <1>4, <1>5 DEF Good

(* What a check right before the next step establishes.                    *)
LEMMA RevalidateTurns ==
  ASSUME Typed, NEW d \in Dispatchers, Good(d), NEW from \in {"claimed", "checked"},
         NEW to \in {"checked", "dispatched"}, Revalidate(d, from, to)
  PROVE  /\ Turn(d) /\ Good(d)' /\ Follows(d)
         /\ poll'[d].pc # "failing" =>
              /\ poll'[d].pc = to /\ poll'[d].workspace = workspace[poll[d].task]
              /\ poll'[d].task = poll[d].task /\ poll'[d].doc = poll[d].doc
              /\ poll'[d].refs = poll[d].refs
<1> DEFINE t == poll[d].task
           doc == poll[d].doc
           ws == workspace[t]
           snap == Again(poll[d].snap, doc, ws, poll[d].refs)
           q == [poll[d] EXCEPT !.pc = to, !.workspace = ws, !.snap = snap]
           admitted == ws # Rejected /\ snap.effective <= Ceiling(poll[d].runtime)
<1>1. /\ poll[d] \in Polls /\ poll[d].pc = from /\ UNCHANGED <<Queue, World>> /\ status' = status
      /\ checkpoint' = checkpoint /\ from \in Holding \ {"failing"} /\ to \in Holding \ {"failing"}
  BY PollOf DEF Revalidate, Queue, Holding
<1>2. CASE ~admitted
  <2>1. poll' = [poll EXCEPT ![d].pc = "failing"]
    BY <1>2 DEF Revalidate, CurrentWorkspace
  <2>2. Turn(d) /\ Good(d)' /\ Follows(d) /\ SameBut(d, "failing")
    BY <1>1, <2>1, FailingTurns
  <2> QED BY <2>2 DEF SameBut
<1>3. CASE admitted
  <2>1. t \in Tasks /\ doc \in Documents /\ poll[d].refs \in {Public, Private} /\ poll[d].snap \in Snaps
    BY <1>1 DEF Good, Reading, Polls, Holding
  <2>2. ws \in {Internal, Private}
    BY <1>3, <2>1 DEF Typed, TypeOK
  <2>3. Right(poll[d].snap, t, doc) /\ poll[d].runtime \in Runtimes
    BY <1>1 DEF Good, Assessed
  <2>4. snap \in Snaps /\ Right(snap, t, doc) /\ (Private \in {ws, poll[d].refs} => snap.effective = Private)
    BY <2>1, <2>2, <2>3, AgainRight
  <2>5. poll' = [poll EXCEPT ![d] = q]
    BY <1>3 DEF Revalidate, CurrentWorkspace, Typed
  <2> HIDE DEF snap
  <2>6. q \in Polls
    BY <1>1, <2>1, <2>2, <2>4 DEF Polls
  <2>7. Turn(d) /\ poll'[d] = q
    BY <1>1, <2>5, <2>6, TurnOf
  <2>8. /\ poll'[d].pc = to /\ poll'[d].workspace = ws /\ poll'[d].snap = snap /\ poll'[d].task = t
        /\ poll'[d].doc = doc /\ poll'[d].refs = poll[d].refs /\ poll'[d].runtime = poll[d].runtime
    BY <1>1, <2>7 DEF Polls
  <2>9. ws # Rejected
    BY <1>3
  <2>10. Reading(d)' /\ Accepted(d)' /\ Claimed(d)' /\ Follows(d)
    BY <1>1, <2>8, <2>9, HoldsOn
  <2>11. Assessed(d)'
    BY <1>1, <1>3, <2>3, <2>4, <2>8 DEF Assessed, Right, Waiver
  <2> QED BY <2>7, <2>8, <2>10, <2>11 DEF Good
<1> QED BY <1>2, <1>3

LEMMA CheckOutTurns ==
  ASSUME Typed, NEW d \in Dispatchers, Good(d), CheckOut(d)
  PROVE  Turn(d) /\ Good(d)' /\ Follows(d)
<1>1. CASE Revalidate(d, "claimed", "checked")
  BY <1>1, RevalidateTurns
<1>2. CASE Step(d, "claimed", "failing") /\ UNCHANGED <<Queue, World>>
  BY <1>2, FailingTurns DEF Step, Holding
<1> QED BY <1>1, <1>2 DEF CheckOut

(* Claude in the place of Ollama.                                          *)
LEMMA SubstituteTurns ==
  ASSUME Typed, NEW d \in Dispatchers, Good(d), poll[d].pc \in {"dispatched", "executing"}, FallsBack(d),
         poll' = [poll EXCEPT ![d].pc = "executing", ![d].runtime = "claude"], UNCHANGED <<Queue, World>>
  PROVE  /\ Turn(d) /\ Good(d)' /\ Follows(d)
         /\ poll'[d].task = poll[d].task /\ poll'[d].doc = poll[d].doc
         /\ poll'[d].workspace = poll[d].workspace /\ poll'[d].refs = poll[d].refs
<1> DEFINE q == [poll[d] EXCEPT !.pc = "executing", !.runtime = "claude"]
<1>1. poll[d] \in Polls /\ poll' = [poll EXCEPT ![d] = q]
  BY PollOf DEF Typed
<1>2. q \in Polls
  BY <1>1 DEF Polls, Runtimes, AutoRouted
<1>3. Turn(d) /\ poll'[d] = q /\ status' = status /\ checkpoint' = checkpoint
  BY <1>1, <1>2, TurnOf DEF Queue
<1>4. SameBut(d, "executing") /\ poll'[d].runtime = "claude"
  BY <1>1, <1>3 DEF Polls, SameBut
<1>5. poll[d].workspace # Rejected
  BY DEF Good, Accepted, Holding
<1>6. Reading(d)' /\ Accepted(d)' /\ Claimed(d)' /\ Follows(d)
  BY <1>3, <1>4, <1>5, HoldsOn DEF SameBut, Holding
<1>7. "claude" \in Runtimes /\ poll[d].snap.effective <= Ceiling("claude")
  BY DEF FallsBack, Ceiling, Runtimes, AutoRouted
<1>8. Assessed(d)'
  BY <1>3, <1>4, <1>7 DEF Good, Assessed, Right, Waiver, Holding, SameBut
<1> QED BY <1>3, <1>4, <1>6, <1>8 DEF Good, SameBut

LEMMA StartTurns ==
  ASSUME Typed, NEW d \in Dispatchers, Good(d), Start(d)
  PROVE  Turn(d) /\ Good(d)' /\ Follows(d)
<1>1. poll[d].pc = "dispatched" /\ UNCHANGED <<Queue, World>> /\ status' = status /\ checkpoint' = checkpoint
  BY DEF Start, Step, Queue
<1>2. CASE poll' = [poll EXCEPT ![d].pc = "executing"]
  <2>1. Turn(d) /\ SameBut(d, "executing") /\ poll'[d].runtime = poll[d].runtime
    BY <1>1, <1>2, Quiet, StepTurns DEF Codes, Queue
  <2>2. poll[d].workspace # Rejected
    BY <1>1 DEF Good, Accepted, Holding
  <2>3. Reading(d)' /\ Accepted(d)' /\ Claimed(d)' /\ Follows(d)
    BY <1>1, <2>1, <2>2, HoldsOn DEF SameBut, Holding
  <2>4. Assessed(d)'
    BY <1>1, <2>1 DEF Good, Assessed, Right, Waiver, Holding, SameBut
  <2> QED BY <2>1, <2>3, <2>4 DEF Good
<1>3. CASE poll' = [poll EXCEPT ![d].pc = "failing"]
  BY <1>1, <1>3, FailingTurns DEF Holding
<1>4. CASE FallsBack(d) /\ poll' = [poll EXCEPT ![d].pc = "executing", ![d].runtime = "claude"]
  BY <1>1, <1>4, SubstituteTurns
<1> QED BY <1>2, <1>3, <1>4 DEF Start, Step

LEMMA FallBackTurns ==
  ASSUME Typed, NEW d \in Dispatchers, Good(d), FallBack(d)
  PROVE  Turn(d) /\ Good(d)' /\ Follows(d)
<1>1. poll' = [poll EXCEPT ![d].pc = "executing", ![d].runtime = "claude"]
  <2>1. poll[d] \in Polls /\ poll[d].pc = "executing"
    BY PollOf DEF FallBack
  <2>2. [poll[d] EXCEPT !.pc = "executing", !.runtime = "claude"] = [poll[d] EXCEPT !.runtime = "claude"]
    BY <2>1 DEF Polls
  <2> QED BY <2>2 DEF FallBack, Typed
<1> QED BY <1>1, SubstituteTurns DEF FallBack

LEMMA FinishTurns ==
  ASSUME Typed, NEW d \in Dispatchers, Good(d), Finish(d)
  PROVE  Turn(d) /\ Good(d)' /\ Follows(d)
<1> DEFINE t == poll[d].task
<1>1. PICK p \in {<<"executing", "completed">>, <<"executing", "failed">>, <<"failing", "failed">>} :
        poll[d].pc = p[1] /\ status' = Written(t, p[2], Nobody)
  BY DEF Finish
<1>2. /\ p[2] \in States /\ p[2] # "pending" /\ poll[d].pc \in Holding
      /\ Nobody \in Dispatchers \cup {Nobody} /\ Rest(d) /\ UNCHANGED <<decision, checkpoint, World>>
  BY <1>1 DEF Finish, States, Holding
<1>3. t \in Tasks /\ status[t].by = d
  BY <1>2 DEF Good, Reading, Claimed, Holding
<1>4. status' \in [Tasks -> Entry] /\ Moves({d})
  BY <1>1, <1>2, <1>3, WriteMoves
<1> QED BY <1>2, <1>4, RestingTurn

LEMMA PollTurns ==
  ASSUME Typed, Checkpointed, NEW d \in Dispatchers, Good(d), PollOnce(d)
  PROVE  Turn(d) /\ Good(d)' /\ Follows(d)
<1>1. CASE ListPending(d)
  BY <1>1, ListPendingTurns
<1>2. CASE ListRunning(d)
  BY <1>2, ListRunningTurns
<1>3. CASE Read(d)
  BY <1>3, ReadTurns
<1>4. CASE Assess(d)
  BY <1>4, AssessTurns
<1>5. CASE Blocked(d)
  BY <1>5, BlockedTurns
<1>6. CASE Gate(d)
  BY <1>6, GateTurns
<1>7. CASE Write(d)
  BY <1>7, WriteTurns
<1>8. CASE Claim(d)
  BY <1>8, ClaimTurns
<1>9. CASE CheckOut(d)
  BY <1>9, CheckOutTurns
<1>10. CASE Dispatch(d)
  BY <1>10, RevalidateTurns DEF Dispatch
<1>11. CASE Start(d)
  BY <1>11, StartTurns
<1>12. CASE FallBack(d)
  BY <1>12, FallBackTurns
<1>13. CASE Finish(d)
  BY <1>13, FinishTurns
<1> QED BY <1>1, <1>2, <1>3, <1>4, <1>5, <1>6, <1>7, <1>8, <1>9, <1>10, <1>11, <1>12, <1>13 DEF PollOnce

(* A dispatcher that takes no part in a step.                              *)
LEMMA Bystander ==
  ASSUME Typed, NEW e \in Dispatchers, NEW ds, e \notin ds, Good(e), Moves(ds),
         poll'[e] = poll[e], checkpoint' = checkpoint
  PROVE  Good(e)' /\ Follows(e)
<1>1. Reading(e)'
  <2>1. poll[e] \in Polls /\ (poll[e].pc \in Deciding => poll[e].task \in Tasks)
    BY PollOf DEF Good, Reading, Deciding
  <2>2. ASSUME poll[e].pc \in Deciding
        PROVE  /\ poll[e].version <= status'[poll[e].task].version
               /\ poll[e].version = status'[poll[e].task].version => status'[poll[e].task] = status[poll[e].task]
    <3>1. poll[e].version <= status[poll[e].task].version
      BY <2>2 DEF Good, Reading
    <3>2. poll[e].version \in Nat /\ status[poll[e].task].version \in Nat
      BY <2>1, <2>2 DEF Polls, Typed, TypeOK
    <3>3. \/ status'[poll[e].task] = status[poll[e].task]
          \/ status'[poll[e].task].version = status[poll[e].task].version + 1
      BY <2>1, <2>2 DEF Moves
    <3> QED BY <3>1, <3>2, <3>3
  <2> QED BY <2>2 DEF Good, Reading
<1>2. Claimed(e)'
  <2>1. ASSUME poll[e].pc \in Holding
        PROVE  status'[poll[e].task] = status[poll[e].task]
    <3>1. poll[e].task \in Tasks /\ status[poll[e].task].state = "running" /\ status[poll[e].task].by = e
      BY <2>1 DEF Good, Reading, Claimed, Holding
    <3> QED BY <3>1 DEF Moves
  <2> QED BY <2>1 DEF Good, Claimed
<1>3. Accepted(e)' /\ Assessed(e)'
  BY DEF Good, Accepted, Assessed, Right, Waiver
<1>4. Follows(e)
  BY DEF Follows
<1> QED BY <1>1, <1>2, <1>3, <1>4 DEF Good

(* What everybody else does.                                               *)
LEMMA OthersMove ==
  ASSUME Typed, NEW t \in Tasks, Others(t)
  PROVE  /\ status' \in [Tasks -> Entry] /\ Moves({}) /\ UNCHANGED <<poll, checkpoint>>
         /\ decision' \in [Tasks -> {"none", "approved", "rejected"}]
         /\ workspace' \in [Tasks -> {Internal, Private, Rejected}]
         /\ refs' \in [Tasks -> {Public, Private, Rejected}]
         /\ changes' \in 0..MaxChanges
<1>0. /\ decision \in [Tasks -> {"none", "approved", "rejected"}]
      /\ workspace \in [Tasks -> {Internal, Private, Rejected}]
      /\ refs \in [Tasks -> {Public, Private, Rejected}]
      /\ changes \in 0..MaxChanges /\ status \in [Tasks -> Entry]
  BY DEF Typed, TypeOK, Entry
<1>a. Change(t) => changes' \in 0..MaxChanges
  BY <1>0, ChangesAssumption DEF Change
<1>1. CASE Rewrite(t)
  <2>1. PICK doc \in Drafts[t] \ {status[t].doc} :
          status' = [status EXCEPT ![t].doc = doc, ![t].version = @ + 1]
    BY <1>1 DEF Rewrite
  <2>2. doc \in Drafts[t]
    BY <2>1, Zenon
  <2>3. doc \in Documents
    BY <2>2, DraftsAssumption
  <2> DEFINE s == [status[t] EXCEPT !.doc = doc, !.version = @ + 1]
  <2>4. status[t].version + 1 \in Nat
    BY <1>0 DEF Entry
  <2>5. s \in Entry /\ s.version = status[t].version + 1
    BY <1>0, <2>3, <2>4, ZenonT(60) DEF Entry
  <2>6. status' = [status EXCEPT ![t] = s]
    BY <1>0, <2>1
  <2>7. status[t].state # "running"
    BY <1>1 DEF Rewrite
  <2> HIDE DEF s
  <2>8. status' \in [Tasks -> Entry] /\ Moves({})
    BY <2>5, <2>6, <2>7, Moved
  <2> QED BY <1>0, <1>a, <1>1, <2>8 DEF Rewrite
<1>2. CASE RequestCancel(t)
  <2> DEFINE s == [status[t] EXCEPT !.cancel = TRUE, !.version = @ + 1]
  <2>4. status[t].version + 1 \in Nat
    BY <1>0 DEF Entry
  <2>5. s \in Entry /\ s.version = status[t].version + 1
    BY <1>0, <2>4, ZenonT(60) DEF Entry
  <2>6. status' = [status EXCEPT ![t] = s] /\ status[t].state # "running"
    BY <1>0, <1>2 DEF RequestCancel
  <2> HIDE DEF s
  <2>7. status' \in [Tasks -> Entry] /\ Moves({})
    BY <2>5, <2>6, Moved
  <2> QED BY <1>0, <1>a, <1>2, <2>7 DEF RequestCancel
<1>3. CASE Move(t)
  <2>1. status' = status /\ UNCHANGED <<poll, checkpoint, decision, refs>> /\ Change(t)
    BY <1>3 DEF Move, Queue
  <2>2. workspace' \in [Tasks -> {Internal, Private, Rejected}]
    BY <1>0, <1>3 DEF Move
  <2> QED BY <1>0, <1>a, <2>1, <2>2, Quiet
<1>4. CASE Reclassify(t)
  <2>1. status' = status /\ UNCHANGED <<poll, checkpoint, decision, workspace>> /\ Change(t)
    BY <1>4 DEF Reclassify, Queue
  <2>2. refs' \in [Tasks -> {Public, Private, Rejected}]
    BY <1>0, <1>4 DEF Reclassify
  <2> QED BY <1>0, <1>a, <2>1, <2>2, Quiet
<1>5. CASE Decide(t)
  <2>1. status' = status /\ UNCHANGED <<poll, checkpoint, workspace, refs, changes>>
    BY <1>5 DEF Decide, World
  <2>2. decision' \in [Tasks -> {"none", "approved", "rejected"}]
    BY <1>0, <1>5 DEF Decide
  <2> QED BY <1>0, <2>1, <2>2, Quiet
<1>6. CASE ApplyDecision(t)
  <2>1. PICK next \in {"pending", "failed"} : status' = Written(t, next, Nobody)
    BY <1>6 DEF ApplyDecision
  <2>2. next \in States /\ Nobody \in Dispatchers \cup {Nobody} /\ status[t].state # "running"
    BY <1>6, <2>1 DEF ApplyDecision, States
  <2>3. status' \in [Tasks -> Entry] /\ Moves({})
    BY <2>1, <2>2, WriteMoves
  <2> QED BY <1>0, <1>6, <2>3 DEF ApplyDecision, World
<1> QED BY <1>1, <1>2, <1>3, <1>4, <1>5, <1>6 DEF Others

LEMMA OrderKept ==
  ASSUME Typed, NEW e \in Dispatchers, NEW ds, Ordered(e), Follows(e), Watch, Moves(ds)
  PROVE  Ordered(e)'
<1>1. /\ poll'[e].pc = "idle" => held'[e] = {}
      /\ held'[e] \subseteq Active'
      /\ poll[e].pc # "idle" => held'[e] \subseteq held[e]
      /\ poll[e].pc = "idle" => held'[e] \subseteq Active
  BY DEF Watch
<1>2. CASE poll'[e].pc = "idle"
  BY <1>1, <1>2 DEF Ordered
<1>3. CASE poll[e].pc = "idle" /\ poll'[e].pc = "listing" /\ poll'[e].seen = Pending /\ status' = status
  BY <1>1, <1>3 DEF Ordered, Active, Pending, Running
<1>4. CASE poll[e].pc = "listing" /\ poll'[e].pc = "listing" /\ poll'[e].seen = poll[e].seen
  <2>1. ASSUME NEW u \in held'[e], u \notin poll[e].seen
        PROVE  status'[u].state = "running"
    <3>1. u \in Tasks /\ status[u].state = "running"
      BY <1>1, <1>4, <2>1 DEF Ordered, Active, Pending, Running
    <3>2. status'[u].state # "pending"
      BY <3>1 DEF Moves
    <3>3. status'[u].state \in {"pending", "running"}
      BY <1>1, <2>1 DEF Active, Pending, Running
    <3> QED BY <3>2, <3>3
  <2> QED BY <1>1, <1>4, <2>1 DEF Ordered
<1>5. CASE /\ poll[e].pc = "listing" /\ poll'[e].pc # "listing"
           /\ \A u \in poll[e].seen \cup Running : ~Earlier(u, poll'[e].task)
  <2>1. held'[e] \subseteq poll[e].seen \cup Running
    BY <1>1, <1>5 DEF Ordered, Active, Pending, Running
  <2> QED BY <1>1, <1>5, <2>1 DEF Ordered, Earlier
<1>6. CASE poll[e].pc \notin {"idle", "listing"} /\ poll'[e].pc # "listing" /\ poll'[e].task = poll[e].task
  BY <1>1, <1>6 DEF Ordered, Earlier
<1> QED BY <1>2, <1>3, <1>4, <1>5, <1>6 DEF Follows

-----------------------------------------------------------------------------
(* The invariant.                                                          *)

LEMMA StartsWell == Init => IInv
<1> SUFFICES ASSUME Init PROVE IInv
  OBVIOUS
<1>1. status \in [Tasks -> Entry] /\ \A t \in Tasks : status[t].doc \in Documents
  <2>1. \A t \in Tasks : status[t].doc \in Documents
    BY DraftsAssumption DEF Init
  <2>2. /\ status \in [Tasks -> [state : {"pending"}, doc : UNION {Drafts[t] : t \in Tasks},
                                version : {0}, by : {Nobody}, cancel : {FALSE}]]
        /\ UNION {Drafts[t] : t \in Tasks} \subseteq Documents
    BY DraftsAssumption DEF Init
  <2>3. \A t \in Tasks :
          status[t] \in [state : {"pending"}, doc : Documents, version : {0}, by : {Nobody}, cancel : {FALSE}]
    BY <2>2, Zenon
  <2>4. /\ {"pending"} \subseteq States /\ {0} \subseteq Nat /\ {FALSE} \subseteq BOOLEAN
        /\ {Nobody} \subseteq Dispatchers \cup {Nobody}
    BY DEF States
  <2>6. \A t \in Tasks : status[t] \in Entry
    BY <2>3, <2>4, ZenonT(60) DEF Entry
  <2>7. status \in [Tasks -> Entry]
    BY <2>2, <2>6, Zenon
  <2> QED BY <2>1, <2>7
<1>2. /\ \A d \in Dispatchers : poll[d] = Resting /\ held[d] = {}
      /\ poll = [d \in Dispatchers |-> Resting]
  BY DEF Init
<1>5. TypeOK
  <2>1. /\ decision \in [Tasks -> {"none", "approved", "rejected"}]
        /\ workspace \in [Tasks -> {Internal, Private, Rejected}]
        /\ refs \in [Tasks -> {Public, Private, Rejected}]
        /\ changes \in 0..MaxChanges
    BY ChangesAssumption DEF Init
  <2>2. \A d \in Dispatchers : held[d] \subseteq Tasks /\ poll[d].seen \subseteq Tasks
    BY <1>2 DEF Resting
  <2> QED BY <1>1, <2>1, <2>2 DEF TypeOK, Entry
<1> DEFINE plain(t) == [status[t].doc EXCEPT !.phase = FALSE]
           snap(t) == Fresh(plain(t), Internal, Public)
<1>6. \A t \in Tasks : checkpoint[t].doc = status[t].doc /\ checkpoint[t].snap = snap(t)
  BY Zenon DEF Init
<1>7. checkpoint = [t \in Tasks |-> [bound |-> status[t].doc.phase, doc |-> status[t].doc, snap |-> snap(t)]]
  BY DEF Init
<1>8. ASSUME NEW t \in Tasks
      PROVE  snap(t) \in Snaps /\ Right(snap(t), t, status[t].doc)
  <2>1. status[t].doc \in Documents
    BY <1>1
  <2>2. /\ plain(t) \in Documents /\ plain(t).declared = status[t].doc.declared
        /\ plain(t).prompt = status[t].doc.prompt /\ plain(t).owner = status[t].doc.owner
        /\ plain(t).phase = FALSE
    BY <2>1 DEF Documents
  <2>3. Internal \in {Internal, Private} /\ Public \in {Public, Private}
    OBVIOUS
  <2> HIDE DEF plain
  <2>4. /\ snap(t) \in Snaps /\ snap(t).declared = plain(t).declared
        /\ snap(t).override => plain(t).declared < Private /\ plain(t).owner /\ ~plain(t).phase
        /\ (plain(t).declared = Private \/ plain(t).prompt = "hard"
            \/ (plain(t).prompt = "soft" /\ ~snap(t).override)) => snap(t).effective = Private
    BY <2>2, <2>3, FreshFacts
  <2>5. checkpoint[t].doc = status[t].doc /\ checkpoint[t].snap = snap(t)
    BY <1>6, Zenon
  <2> HIDE DEF snap
  <2>6. snap(t).override => Waiver(t, status[t].doc)
    BY <2>2, <2>4, <2>5 DEF Waiver
  <2> QED BY <2>2, <2>4, <2>6 DEF Right
<1> HIDE DEF snap
<1>9. Typed
  <2>1. checkpoint \in [Tasks -> [bound : BOOLEAN, doc : Documents, snap : Snaps]]
    BY <1>1, <1>7, <1>8 DEF Documents
  <2> QED BY <1>2, <1>5, <2>1, RestingIs DEF Typed
<1>10. Checkpointed
  BY <1>6, <1>8 DEF Checkpointed
<1>11. ASSUME NEW d \in Dispatchers PROVE Good(d) /\ Ordered(d)
  <2>1. poll[d].pc = "idle" /\ held[d] = {}
    BY <1>2 DEF Resting
  <2> QED BY <2>1 DEF Good, Reading, Accepted, Claimed, Assessed, Ordered, Deciding, Holding
<1> QED BY <1>9, <1>10, <1>11 DEF IInv

LEMMA StaysTyped ==
  ASSUME Typed, Checkpointed, Watch, status' \in [Tasks -> Entry], poll' \in [Dispatchers -> Polls],
         checkpoint' = checkpoint,
         decision' \in [Tasks -> {"none", "approved", "rejected"}],
         workspace' \in [Tasks -> {Internal, Private, Rejected}],
         refs' \in [Tasks -> {Public, Private, Rejected}], changes' \in 0..MaxChanges
  PROVE  Typed' /\ Checkpointed'
<1>1. \A d \in Dispatchers : held'[d] \subseteq Tasks
  BY DEF Watch, Active, Pending, Running
<1>2. \A d \in Dispatchers : poll'[d].seen \subseteq Tasks
  BY DEF Polls
<1>3. TypeOK'
  BY <1>1, <1>2 DEF TypeOK, Entry
<1>4. Typed'
  BY <1>3 DEF Typed
<1>5. Checkpointed'
  BY DEF Checkpointed, Right, Waiver
<1> QED BY <1>4, <1>5

LEMMA KeepsWell ==
  ASSUME IInv, [Next]_vars
  PROVE  IInv'
<1>1. CASE UNCHANGED vars
  BY <1>1 DEF vars, IInv, Typed, TypeOK, Checkpointed, Good, Ordered, Reading, Accepted, Claimed, Assessed,
              Right, Waiver, Active, Pending, Running, Earlier
<1>2. ASSUME NEW d \in Dispatchers, PollOnce(d), Watch
      PROVE  IInv'
  <2>1. Turn(d) /\ Good(d)' /\ Follows(d)
    BY <1>2, PollTurns DEF IInv
  <2>2. /\ poll' = [poll EXCEPT ![d] = poll'[d]] /\ poll'[d] \in Polls /\ status' \in [Tasks -> Entry]
        /\ Moves({d}) /\ UNCHANGED <<decision, checkpoint, workspace, refs, changes>>
    BY <2>1 DEF Turn, World
  <2>3. poll' \in [Dispatchers -> Polls]
    BY <2>2 DEF IInv, Typed
  <2>4. Typed' /\ Checkpointed'
    BY <1>2, <2>2, <2>3, StaysTyped DEF IInv, Typed, TypeOK
  <2>5. ASSUME NEW e \in Dispatchers, e # d
        PROVE  Good(e)' /\ Follows(e)
    <3>1. poll'[e] = poll[e]
      BY <2>2, <2>5 DEF IInv, Typed
    <3>2. e \notin {d} /\ Typed /\ Good(e)
      BY <2>5 DEF IInv
    <3> QED BY <2>2, <3>1, <3>2, Bystander
  <2>6. ASSUME NEW e \in Dispatchers
        PROVE  Good(e)' /\ Ordered(e)'
    <3>1. Good(e)' /\ Follows(e)
      BY <2>1, <2>5
    <3>2. Typed /\ Ordered(e)
      BY DEF IInv
    <3> QED BY <1>2, <2>2, <3>1, <3>2, OrderKept
  <2> QED BY <2>4, <2>6 DEF IInv
<1>3. ASSUME NEW t \in Tasks, Others(t), Watch
      PROVE  IInv'
  <2>1. /\ status' \in [Tasks -> Entry] /\ Moves({}) /\ UNCHANGED <<poll, checkpoint>>
        /\ decision' \in [Tasks -> {"none", "approved", "rejected"}]
        /\ workspace' \in [Tasks -> {Internal, Private, Rejected}]
        /\ refs' \in [Tasks -> {Public, Private, Rejected}]
        /\ changes' \in 0..MaxChanges
    BY <1>3, OthersMove DEF IInv
  <2>2. poll' \in [Dispatchers -> Polls]
    BY <2>1 DEF IInv, Typed
  <2>3. Typed' /\ Checkpointed'
    BY <1>3, <2>1, <2>2, StaysTyped DEF IInv
  <2>4. ASSUME NEW e \in Dispatchers
        PROVE  Good(e)' /\ Ordered(e)'
    <3>1. Typed /\ Good(e) /\ Ordered(e) /\ e \notin {} /\ poll'[e] = poll[e]
      BY <2>1 DEF IInv
    <3>2. Good(e)' /\ Follows(e)
      BY <2>1, <3>1, Bystander
    <3> QED BY <1>3, <2>1, <3>1, <3>2, OrderKept
  <2> QED BY <2>3, <2>4 DEF IInv
<1> QED BY <1>1, <1>2, <1>3 DEF Next

LEMMA Inductive == Spec => []IInv
<1> QED BY StartsWell, KeepsWell, PTL DEF Spec

(* Whatever the dispatchers, submitters and approvers do, every entry and  *)
(* every dispatcher keeps its form.                                        *)
THEOREM TypeCorrect == Spec => []TypeOK
<1>1. IInv => TypeOK
  BY DEF IInv, Typed
<1> QED BY <1>1, Inductive, PTL

-----------------------------------------------------------------------------
(* Where private work goes.                                                *)

(* What makes work sensitive makes its assessment private.                 *)
LEMMA SensitiveIs ==
  ASSUME NEW d, NEW ws, NEW snap, Right(snap, poll[d].task, poll[d].doc),
         Private \in {ws, poll[d].refs} => snap.effective = Private, Sensitive(d, ws)
  PROVE  snap.effective = Private
  BY DEF Right, Sensitive, Waived, Waiver

LEMMA PrivateCeiling ==
  ASSUME NEW runtime \in Runtimes, Private <= Ceiling(runtime)
  PROVE  runtime \in {"ollama", "homeserver", "orchestrator"}
  BY DEF Ceiling, Private, Internal

(* The check before the executor is chosen.                                *)
LEMMA CheckedAtHome ==
  ASSUME IInv, NEW d \in Dispatchers, PollOnce(d), poll[d].pc = "checked", poll'[d].pc = "dispatched"
  PROVE  /\ workspace[poll[d].task] # Rejected
         /\ Sensitive(d, workspace[poll[d].task]) => poll'[d].runtime \in {"ollama", "homeserver", "orchestrator"}
<1>1. Typed /\ Good(d)
  BY DEF IInv
<1>2. Dispatch(d)
  BY <1>1, PollOf DEF PollOnce, ListPending, ListRunning, Read, Assess, Blocked, Gate, Write, Claim, CheckOut,
     Revalidate, Start, FallBack, Finish, Step, Rest, Typed, Resting
<1>3. /\ Good(d)' /\ poll'[d].workspace = workspace[poll[d].task] /\ poll'[d].task = poll[d].task
      /\ poll'[d].doc = poll[d].doc /\ poll'[d].refs = poll[d].refs
  BY <1>1, <1>2, RevalidateTurns DEF Dispatch
<1>4. checkpoint' = checkpoint
  BY <1>2 DEF Dispatch, Revalidate, Queue
<1>5. /\ Right(poll'[d].snap, poll[d].task, poll[d].doc)
      /\ poll'[d].runtime \in Runtimes /\ poll'[d].snap.effective <= Ceiling(poll'[d].runtime)
      /\ Private \in {workspace[poll[d].task], poll[d].refs} => poll'[d].snap.effective = Private
  BY <1>3, <1>4 DEF Good, Assessed, Right, Waiver, Holding
<1>6. workspace[poll[d].task] # Rejected
  BY <1>3 DEF Good, Accepted, Holding
<1> QED BY <1>5, <1>6, SensitiveIs, PrivateCeiling

(* An executor starts, or Claude comes in for Ollama.                      *)
LEMMA StartedAtHome ==
  ASSUME IInv, NEW d \in Dispatchers, PollOnce(d),
         poll[d].pc = "dispatched" \/ poll'[d].runtime # poll[d].runtime, poll'[d].pc = "executing"
  PROVE  Sensitive(d, poll[d].workspace) => Trusted(poll'[d].runtime)
<1>1. Typed /\ Good(d) /\ poll[d] \in Polls
  BY PollOf DEF IInv
<1>2. Start(d) \/ FallBack(d)
  <2>1. ~Rest(d)
    BY <1>1 DEF Rest, Resting, Typed
  <2>2. /\ poll \in [Dispatchers -> Polls]
        /\ \A to : poll' = [poll EXCEPT ![d].pc = to] => to = "executing" /\ poll'[d].runtime = poll[d].runtime
    BY <1>1 DEF Typed, Polls
  <2>3. ~ListPending(d)
    BY <2>2 DEF ListPending, Polls
  <2>4. ~ListRunning(d)
    BY <2>1, <2>2 DEF ListRunning, Polls
  <2>5. ~Read(d)
    BY <2>1, <2>2 DEF Read, Polls
  <2>6. ~Gate(d) /\ ~Blocked(d)
    BY <2>2 DEF Gate, Blocked, Step
  <2>7. ~Write(d) /\ ~Finish(d)
    BY <2>1 DEF Write, Finish
  <2>8. ~Claim(d)
    BY <2>1, <2>2 DEF Claim
  <2>9. ~Assess(d)
    BY <1>1, AssessTurns DEF IInv
  <2>10. ~CheckOut(d) /\ ~Dispatch(d)
    BY <2>2 DEF CheckOut, Dispatch, Revalidate, Step, Polls
  <2> QED BY <2>3, <2>4, <2>5, <2>6, <2>7, <2>8, <2>9, <2>10 DEF PollOnce
<1>3. poll[d].pc \in {"dispatched", "executing"}
  BY <1>2 DEF Start, FallBack, Step
<1>4. /\ Right(poll[d].snap, poll[d].task, poll[d].doc)
      /\ poll[d].runtime \in Runtimes /\ poll[d].snap.effective <= Ceiling(poll[d].runtime)
      /\ Private \in {poll[d].workspace, poll[d].refs} => poll[d].snap.effective = Private
  BY <1>1, <1>3 DEF Good, Assessed, Holding
<1>5. SUFFICES ASSUME Sensitive(d, poll[d].workspace) PROVE Trusted(poll'[d].runtime)
  OBVIOUS
<1>6. poll[d].snap.effective = Private /\ poll[d].runtime \in {"ollama", "homeserver", "orchestrator"}
  BY <1>4, <1>5, SensitiveIs, PrivateCeiling
<1>7. ~FallsBack(d)
  BY <1>6 DEF FallsBack, Private, Internal
<1>8. poll'[d].runtime = poll[d].runtime /\ (poll[d].runtime = "orchestrator" => Guarded(d))
  <2>1. poll \in [Dispatchers -> Polls] /\ Start(d)
    BY <1>1, <1>2, <1>7 DEF Typed, FallBack
  <2>2. Step(d, "dispatched", "executing") => poll'[d].runtime = poll[d].runtime
    BY <2>1 DEF Step, Polls
  <2>3. ~Step(d, "dispatched", "failing")
    BY <2>1 DEF Step, Polls
  <2> QED BY <1>7, <2>1, <2>2, <2>3 DEF Start
<1> QED BY <1>6, <1>8 DEF Trusted, Guarded

(* What a dispatcher has claimed runs under its name, is the document it   *)
(* assessed, and bears the signature a strict dispatcher asks for; and     *)
(* private work reaches only runtimes trusted with it, whatever changes    *)
(* between the admission of a task and the start of its executor.          *)
THEOREM AlwaysRunsSafely == Spec => RunsSafely
<1>1. IInv => RunsAsAssessed
  BY DEF IInv, Good, Claimed, Accepted, RunsAsAssessed
<1>2. ASSUME IInv, [Next]_vars
      PROVE  [\A d \in Dispatchers :
                LET t == poll[d].task
                    before == poll[d].pc
                    after == poll'[d].pc
                    runtime == poll'[d].runtime
                IN /\ (before = "checked" /\ after = "dispatched") =>
                        /\ workspace[t] # Rejected
                        /\ Sensitive(d, workspace[t]) => (Trusted(runtime) \/ runtime = "orchestrator")
                   /\ ((before = "dispatched" \/ runtime # poll[d].runtime) /\ after = "executing") =>
                        (Sensitive(d, poll[d].workspace) => Trusted(runtime))]_vars
  <2>1. SUFFICES ASSUME Next, NEW d \in Dispatchers
                 PROVE  /\ (poll[d].pc = "checked" /\ poll'[d].pc = "dispatched") =>
                             /\ workspace[poll[d].task] # Rejected
                             /\ Sensitive(d, workspace[poll[d].task]) =>
                                  (Trusted(poll'[d].runtime) \/ poll'[d].runtime = "orchestrator")
                        /\ ((poll[d].pc = "dispatched" \/ poll'[d].runtime # poll[d].runtime)
                            /\ poll'[d].pc = "executing") =>
                             (Sensitive(d, poll[d].workspace) => Trusted(poll'[d].runtime))
    BY <1>2
  <2>2. CASE PollOnce(d)
    BY <1>2, <2>2, CheckedAtHome, StartedAtHome DEF Trusted
  <2>3. CASE ~PollOnce(d)
    <3>1. poll'[d] = poll[d]
      <4>1. CASE \E e \in Dispatchers : PollOnce(e)
        <5>1. PICK e \in Dispatchers : PollOnce(e)
          BY <4>1
        <5>2. e \in Dispatchers /\ e # d
          BY <2>3, <5>1, Zenon
        <5>3. Turn(e)
          BY <1>2, <5>1, <5>2, PollTurns DEF IInv
        <5> QED BY <1>2, <5>2, <5>3 DEF Turn, IInv, Typed
      <4>2. CASE \E t \in Tasks : Others(t)
        BY <1>2, <4>2, OthersMove DEF IInv
      <4> QED BY <2>1, <4>1, <4>2 DEF Next
    <3> QED BY <3>1
  <2> QED BY <2>2, <2>3
<1>3. Spec => []RunsAsAssessed
  BY <1>1, Inductive, PTL
<1>4. Spec => PrivateStaysHome
  BY <1>2, Inductive, PTL DEF Spec, PrivateStaysHome
<1> QED BY <1>3, <1>4 DEF RunsSafely

(* A claim never overtakes an earlier task of its group that was pending   *)
(* or running when the dispatcher began to list and has been since.        *)
THEOREM AlwaysInOrder == Spec => InOrder
<1>1. ASSUME IInv, [Next]_vars
      PROVE  [\A d \in Dispatchers :
                poll[d].pc = "claiming" /\ poll'[d].pc = "claimed" =>
                  \A u \in held[d] : ~Earlier(u, poll[d].task)]_vars
  BY <1>1 DEF IInv, Ordered
<1> QED BY <1>1, Inductive, PTL DEF Spec, InOrder
=============================================================================
