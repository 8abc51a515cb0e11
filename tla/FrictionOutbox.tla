---------------------------- MODULE FrictionOutbox ----------------------------
(***************************************************************************)
(* The friction outbox (src/friction/outbox.ts): reports that could not be *)
(* written to Munin, and code-health requests about to be, wait in files   *)
(* of one directory that several processes share without a lock.  A file   *)
(* is claimed by a rename and given back by a link and an unlink; a crash  *)
(* or another process may come between any two of these.                   *)
(*                                                                         *)
(* A file of the model is its place (the pattern its name has), the report *)
(* in it and the unique part of its name.  One listing of the directory is *)
(* one step, and a part of the maintenance that finds nothing to do shares *)
(* it with the next.  The reports' ages, by which files are sorted, are    *)
(* arbitrary.  Bounds in bytes and foreign or damaged files are left out.  *)
(***************************************************************************)
EXTENDS Integers, FiniteSets

CONSTANTS
    Reports, Health,    \* reports, and those that are code-health requests
    Instances, Agents,  \* FrictionOutbox objects and the calls running on them
    InstanceOf,         \* [Agents -> Instances]
    Servers,            \* agents that are friction servers; the others are dispatchers
    Names,              \* unique parts of file names (process and uuid)
    MaxEntries,         \* maxEntries: of active files, and of quarantined ones
    MaxTries,           \* bound on the times one report is enqueued
    MaxFaults,          \* bound on crashes, failed calls and lost answers
    None

ASSUME ReportAssumption == Health \subseteq Reports /\ None \notin Reports
ASSUME AgentAssumption == InstanceOf \in [Agents -> Instances] /\ Servers \subseteq Agents
ASSUME NameAssumption == Names \subseteq Nat \ {0} /\ 1 \in Names
ASSUME BoundAssumption == MaxEntries \in Nat \ {0} /\ MaxTries \in Nat /\ MaxFaults \in Nat

VARIABLES
    files,      \* the directory and its quarantine
    munin,      \* reports Munin has stored
    refused,    \* requests Munin refuses for good
    marked,     \* requests with a marker under terminal/ (expired or refused)
    old,        \* requests past CODE_HEALTH_PENDING_TTL_MS
    ag,         \* the state of each agent's call
    stored,     \* reports of which an enqueue has returned stored:true
    tries, faults

vars == <<files, munin, refused, marked, old, ag, stored, tries, faults>>

(* "part" and "temp": a temporary file before and after its fsync.         *)
Places == {"part", "temp", "event", "claim", "quarantine"}
Reasons == {"", "overflow", "recovery", "restore"}
File(p, r, n, why) == [at |-> p, of |-> r, n |-> n, why |-> why]
Final(r) == File("event", r, 0, "")
NoFile == File("event", None, 0, "")
Active(fs) == {f \in fs : f.at # "quarantine"}
Shelf(fs) == fs \ Active(fs)
Event(f) == f.at \in {"event", "quarantine"}
Readable(f) == f.at \in {"temp", "event", "quarantine"}

(* A new name: its unique part is in no name on disk or in any call.       *)
Used == {f.n : f \in files} \cup UNION {{f.n : f \in ag[a].todo} \cup {ag[a].cur.n} : a \in Agents}
Unused == Names \ Used
Fresh == CHOOSE n \in Unused : TRUE

(* A call: what it does, the step it is at, what follows its maintenance,  *)
(* its report; the files listed and not come to, the one it is at; the     *)
(* entries it counts in the quarantine and, while it trims, outside it.    *)
Idle == [op |-> "idle", pc |-> "idle", after |-> "idle", of |-> None, todo |-> {}, cur |-> NoFile,
         shelf |-> 0, active |-> 0]
At(a, op, pc) == ag[a].op = op /\ ag[a].pc = pc
Set(a, s) == ag' = [ag EXCEPT ![a] = s]
Goto(a, l) == Set(a, [ag[a] EXCEPT !.pc = l])
Outside == UNCHANGED <<munin, refused, marked, old, stored, tries, faults>>

-----------------------------------------------------------------------------
(* runMaintenance: each part of it on a listing of its own; the one of the *)
(* admission check does not trim.                                          *)
Rank == [wait |-> 0, temps |-> 1, expire |-> 2, claims |-> 3, trim |-> 4, untrim |-> 5]
Maintenance == DOMAIN Rank \ {"wait"}
Listed(s, op, fs) ==
    CASE op = "temps"  -> {f \in fs : f.at = "temp"}
      [] op = "expire" -> {f \in fs : f.of \in Health \cap old /\ Readable(f)}
      [] op = "claims" -> {f \in fs : f.at = "claim"}
      [] op = "trim"   -> IF s.after = "check" \/ Cardinality(Active(fs)) <= MaxEntries THEN {}
                          ELSE {f \in fs : f.at = "event" /\ ~(s.after = "stored" /\ f.of = s.of)}
      [] op = "untrim" -> IF s.shelf <= MaxEntries THEN {} ELSE Shelf(fs)
      [] OTHER -> {f \in fs : Event(f)}

List(s, op, fs) ==
    [s EXCEPT !.op = op, !.pc = "item", !.todo = Listed(s, op, fs), !.cur = NoFile,
              !.active = IF op = "trim" THEN Cardinality(Active(fs)) ELSE 0]

(* What the maintenance was part of goes on.                               *)
After(s, fs) ==
    CASE s.after = "idle" -> Idle
      [] s.after = "replay" -> IF Listed(s, "replay", fs) = {} THEN Idle
                               ELSE List(Idle, "replay", fs)
      [] s.after = "check" -> [Idle EXCEPT !.op = "check", !.pc = "decide", !.of = s.of, !.todo = fs]
      [] OTHER -> [Idle EXCEPT !.op = s.after, !.pc = "begin", !.of = s.of, !.after = s.after]

Through(s) == CASE s.op = "trim" -> s.todo = {} \/ s.active <= MaxEntries
                [] s.op = "untrim" -> s.todo = {} \/ s.shelf <= MaxEntries
                [] OTHER -> s.todo = {}

(* A call with state s, done with one file, in the directory fs.           *)
Onward(s, fs) ==
    LET later == {op \in Maintenance : Rank[op] > Rank[s.op] /\ Listed(s, op, fs) # {}}
    IN  CASE s.op = "end" -> Idle
          [] s.op = "replay" -> IF s.todo = {} THEN Idle ELSE [s EXCEPT !.pc = "item", !.cur = NoFile]
          [] OTHER ->
               IF s.op # "wait" /\ ~Through(s) THEN [s EXCEPT !.pc = "item", !.cur = NoFile]
               ELSE IF later = {} THEN After(s, fs)
               ELSE List(s, CHOOSE op \in later : \A p \in later : Rank[op] <= Rank[p], fs)
NextItem(a) == Set(a, Onward(ag[a], files'))

Quiet(a) == \A b \in Agents : InstanceOf[b] = InstanceOf[a] => ag[b].op \notin Maintenance
StartNow(a, s) == Quiet(a) /\ Set(a, Onward([s EXCEPT !.shelf = Cardinality(Shelf(files))], files))
Waiting(after, r) == [Idle EXCEPT !.op = "wait", !.pc = "wait", !.after = after, !.of = r]
Maintain(a, after, r) == Set(a, Waiting(after, r))
Begin(a) == /\ At(a, "wait", "wait") /\ StartNow(a, ag[a])
            /\ UNCHANGED files /\ Outside

-----------------------------------------------------------------------------
(* The steps of a call on one file, cur.                                   *)

(* recoverValidClaim: link the claim to its content address ...            *)
Link(a) ==
    LET c == ag[a].cur IN
    /\ ag[a].pc = "link"
    /\ \/ c \notin files /\ UNCHANGED files /\ NextItem(a)
       \/ c \in files /\ Final(c.of) \notin files
          /\ files' = files \cup {Final(c.of)} /\ Goto(a, "drop")
       \/ c \in files /\ Final(c.of) \in files /\ Goto(a, "same") /\ UNCHANGED files
    /\ Outside

(* ... or, if something has that name, make sure that it is the same event *)
Same(a) ==
    /\ ag[a].pc = "same" /\ UNCHANGED files
    /\ IF Final(ag[a].cur.of) \in files THEN Goto(a, "drop") ELSE NextItem(a)
    /\ Outside

(* ... and remove the claim.  (removePendingFile too.)                     *)
Drop(a) ==
    /\ ag[a].pc = "drop"
    /\ files' = files \ {ag[a].cur}
    /\ NextItem(a)
    /\ Outside

(* finishClaim: into the quarantine, if the budget read before all this    *)
(* allows; otherwise the claim is given back.                              *)
ShelveOrDrop(a) ==  \* mutant: a full quarantine drops the event
    /\ ag[a].pc = "shelve"
    /\ files' = IF ag[a].shelf < MaxEntries /\ ag[a].cur \in files
                THEN (files \ {ag[a].cur}) \cup {File("quarantine", ag[a].cur.of, Fresh, "")}
                ELSE files \ {ag[a].cur}
    /\ NextItem(a) /\ Outside
Shelve(a) ==
    LET c == ag[a].cur IN
    /\ ag[a].pc = "shelve"
    /\ IF ag[a].shelf < MaxEntries /\ c \in files
       THEN /\ Unused # {}
            /\ files' = (files \ {c}) \cup {File("quarantine", c.of, Fresh, "")}
            /\ Set(a, Onward([ag[a] EXCEPT !.shelf = @ + 1,
                                 !.active = IF ag[a].op = "trim" THEN @ - 1 ELSE @], files'))
       ELSE Goto(a, "link") /\ UNCHANGED files
    /\ Outside

(* claimRootFile: if the file is still there, it is renamed to a claim.    *)
Claim(a, f, why, next) ==
    LET c == File("claim", f.of, Fresh, why)
        s == [ag[a] EXCEPT !.todo = @ \ {f}]
    IN  IF f \in files
        THEN /\ Unused # {} /\ files' = (files \ {f}) \cup {c}
             /\ Set(a, [s EXCEPT !.cur = c, !.pc = next, !.shelf = IF why = "restore" /\ @ > 0 THEN @ - 1 ELSE @])
        ELSE UNCHANGED files /\ Set(a, Onward(s, files))

Mark(a) ==
    /\ ag[a].pc = "mark" /\ UNCHANGED files
    /\ \/ marked' = marked \cup {ag[a].cur.of} /\ Goto(a, "clear") /\ UNCHANGED faults
       \/ faults < MaxFaults /\ faults' = faults + 1 /\ NextItem(a) /\ UNCHANGED marked
    /\ UNCHANGED <<munin, refused, old, stored, tries>>

(* removeMatchingCodeHealthFile, and acknowledgeCodeHealth: the content of *)
(* a claim is not read.                                                    *)
Clear(a) ==
    LET same == {f \in files : f.of = ag[a].cur.of /\ Readable(f)} IN
    /\ ag[a].pc = "clear"
    /\ IF same = {} THEN UNCHANGED files ELSE \E f \in same : files' = files \ {f}
    /\ NextItem(a)
    /\ Outside

-----------------------------------------------------------------------------
(* The parts of the maintenance.                                           *)
RecoverTemp(a) ==
    /\ At(a, "temps", "item")
    /\ \E f \in ag[a].todo : Claim(a, f, "recovery", "link")
    /\ Outside

Expire(a) ==
    /\ At(a, "expire", "item")
    /\ \E f \in ag[a].todo : Set(a, [ag[a] EXCEPT !.todo = @ \ {f}, !.cur = f, !.pc = "mark"])
    /\ UNCHANGED files /\ Outside

RecoverOwnKind(a) ==    \* mutant: overflow claims are left to whoever made them
    /\ At(a, "claims", "item")
    /\ \E f \in ag[a].todo :
           Set(a, IF f.why = "overflow" THEN Onward([ag[a] EXCEPT !.todo = @ \ {f}], files)
                  ELSE [ag[a] EXCEPT !.todo = @ \ {f}, !.cur = f, !.pc = "link"])
    /\ UNCHANGED files /\ Outside
RecoverClaim(a) ==
    /\ At(a, "claims", "item")
    /\ \E f \in ag[a].todo : Set(a, [ag[a] EXCEPT !.todo = @ \ {f}, !.cur = f,
                                         !.pc = IF f.why = "overflow" THEN "shelve" ELSE "link"])
    /\ UNCHANGED files /\ Outside

Trim(a) ==
    /\ At(a, "trim", "item")
    /\ \E f \in ag[a].todo : Claim(a, f, "overflow", "shelve")
    /\ Outside

Untrim(a) ==
    /\ At(a, "untrim", "item")
    /\ \E f \in ag[a].todo : Claim(a, f, "restore", "link")
    /\ Outside

-----------------------------------------------------------------------------
(* enqueue, and enqueueCodeHealth, which deliverCodeHealth follows with    *)
(* sendCodeHealthOnce.                                                     *)
Enqueue(a, r) ==
    /\ At(a, "idle", "idle") /\ tries[r] < MaxTries /\ r \notin stored /\ (a \in Servers <=> r \notin Health)
    /\ tries' = [tries EXCEPT ![r] = @ + 1]
    /\ StartNow(a, Waiting("check", r))
    /\ UNCHANGED <<files, munin, refused, marked, old, stored, faults>>

Terminal(a, r) == Set(a, [ag[a] EXCEPT !.op = "end", !.pc = "mark", !.cur = Final(r)])
StoredThen(a, r) ==
    /\ stored' = stored \cup {r}
    /\ IF r \in Health THEN Maintain(a, "send", r) ELSE Set(a, Idle)

(* The bound counts what was listed and what other calls on the instance   *)
(* have reserved and not yet written.  The identity of a claim is its name. *)
Named(fs) == {f.of : f \in {g \in fs : g.at # "claim"}}
Reserved(a) == {ag[b].of : b \in {c \in Agents : InstanceOf[c] = InstanceOf[a] /\ ag[c].after = "stored"}}
RoomFor(a, fs) ==
    Cardinality(Named(Active(fs))) + Cardinality({f \in fs : f.at = "claim"})
        + Cardinality(Reserved(a) \ Named(fs)) < MaxEntries

(* A temporary file of the same report is an error: it is taken for a      *)
(* collision of names before anything waits for it.                        *)
Decide(a) ==
    LET r == ag[a].of
        fs == ag[a].todo
        same == {f \in fs : f.of = r /\ f.at # "claim"}
    IN
    /\ At(a, "check", "decide")
    /\ \/ r \in Health \cap old /\ Terminal(a, r) /\ UNCHANGED stored
       \/ /\ r \notin Health \cap old
          /\ \/ /\ \E f \in same : Event(f)
                /\ StoredThen(a, r)
             \/ /\ same # {} /\ Final(r) \notin same /\ \E f \in same : ~Event(f)
                /\ Set(a, Idle) /\ UNCHANGED stored
             \/ /\ same = {} /\ ~RoomFor(a, fs)
                /\ Set(a, Idle) /\ UNCHANGED stored
             \/ /\ same = {} /\ RoomFor(a, fs)
                /\ Set(a, [Idle EXCEPT !.op = "make", !.pc = "open", !.of = r, !.after = "stored"])
                /\ UNCHANGED stored
    /\ UNCHANGED <<files, munin, refused, marked, old, tries, faults>>

Open(a) ==
    LET f == File("part", ag[a].of, Fresh, "") IN
    /\ At(a, "make", "open") /\ Unused # {}
    /\ files' = files \cup {f}
    /\ Set(a, [ag[a] EXCEPT !.pc = "fsync", !.cur = f])
    /\ Outside

Fsync(a) ==
    LET f == [ag[a].cur EXCEPT !.at = "temp"] IN
    /\ At(a, "make", "fsync")
    /\ files' = (files \ {ag[a].cur}) \cup {f}
    /\ Set(a, [ag[a] EXCEPT !.pc = "place", !.cur = f])
    /\ Outside

(* link(temp, final); if a sibling has recovered the temporary file, the   *)
(* event is waited for, but not for ever.                                  *)
Place(a) ==
    /\ At(a, "make", "place")
    /\ IF ag[a].cur \in files
       THEN files' = files \cup {Final(ag[a].of)} /\ Goto(a, "tidy")
       ELSE UNCHANGED files /\ Goto(a, "await")
    /\ Outside

Await(a) ==
    /\ At(a, "make", "await")
    /\ \/ Final(ag[a].of) \in files /\ Goto(a, "tidy")
       \/ Set(a, Idle)
    /\ UNCHANGED files /\ Outside

Tidy(a) ==
    /\ At(a, "make", "tidy")
    /\ files' = files \ {ag[a].cur}
    /\ Maintain(a, "stored", ag[a].of)
    /\ Outside

ReturnStored(a) ==
    /\ At(a, "stored", "begin")
    /\ StoredThen(a, ag[a].of)
    /\ UNCHANGED <<files, munin, refused, marked, old, tries, faults>>

-----------------------------------------------------------------------------
(* What a call of codeHealthAppend, or of write with createIfAbsent, may   *)
(* come to: done, refused for good, or nobody knows.                       *)
Accepted(r) == r \notin refused /\ munin' = munin \cup {r} /\ UNCHANGED faults
Refused(r) == r \in refused /\ UNCHANGED <<munin, faults>>
Ambiguous(r) == /\ faults < MaxFaults /\ faults' = faults + 1
                /\ munin' \in {munin, munin \cup ({r} \ refused)}

(* sendCodeHealthOnce with acknowledgeCodeHealth: only what is spooled.    *)
Send(a) ==
    LET r == ag[a].of IN
    /\ At(a, "send", "begin")
    /\ \/ r \in old /\ Terminal(a, r) /\ UNCHANGED <<munin, faults>>
       \/ r \notin old /\ (\A f \in files : ~(f.of = r /\ Event(f)))
          /\ Set(a, Idle) /\ UNCHANGED <<munin, faults>>
       \/ r \notin old /\ (\E f \in files : f.of = r /\ Event(f))
          /\ \/ Accepted(r) /\ Set(a, [ag[a] EXCEPT !.op = "end", !.pc = "clear", !.cur = Final(r)])
             \/ Refused(r) /\ Terminal(a, r)
             \/ Ambiguous(r) /\ Set(a, Idle)
    /\ UNCHANGED <<files, refused, marked, old, stored, tries>>

(* replay: a standalone server starts.                                     *)
Replay(a) == /\ At(a, "idle", "idle") /\ a \in Servers /\ StartNow(a, Waiting("replay", None))
             /\ UNCHANGED files /\ Outside

ReplayOne(a, f) ==
    LET r == f.of
        rest == ag[a].todo \ {f}
        then(l) == Set(a, [ag[a] EXCEPT !.todo = rest, !.cur = f, !.pc = l])
    IN
    /\ At(a, "replay", "item") /\ f \in ag[a].todo
    /\ \/ r \in old /\ then("mark") /\ UNCHANGED <<munin, faults>>
       \/ /\ r \notin old
          /\ \/ Accepted(r) /\ then("drop")
             \/ Refused(r) /\ then("mark")
             \/ Ambiguous(r) /\ Set(a, Onward([ag[a] EXCEPT !.todo = rest], files))
    /\ UNCHANGED <<files, refused, marked, old, stored, tries>>

-----------------------------------------------------------------------------
(* (Once it is settled, only copies are left, whose age makes little        *)
(* difference.)                                                            *)
Age(r) ==
    /\ r \in Health \ (old \cup munin \cup marked)
    /\ old' = old \cup {r}
    /\ UNCHANGED <<files, munin, refused, marked, ag, stored, tries, faults>>

(* The process of an instance dies in the middle of a call.                *)
Crash(i) ==
    /\ faults < MaxFaults /\ faults' = faults + 1
    /\ \E a \in Agents : InstanceOf[a] = i /\ ag[a] # Idle
    /\ ag' = [a \in Agents |-> IF InstanceOf[a] = i THEN Idle ELSE ag[a]]
    /\ UNCHANGED <<files, munin, refused, marked, old, stored, tries>>

(* An empty directory, or what a process that died has left in it.         *)
Init ==
    /\ \/ files = {} /\ faults = 0
       \/ faults = 1 /\ faults <= MaxFaults
          /\ \E r \in Reports : files \in {{File("part", r, 1, "")}, {Final(r)}}
    /\ refused \in SUBSET Health
    /\ munin = {} /\ marked = {} /\ old = {} /\ stored = {}
    /\ ag = [a \in Agents |-> Idle]
    /\ tries = [r \in Reports |-> 0]

Step(a) ==
    \/ Link(a) \/ Same(a) \/ Drop(a) \/ Shelve(a) \/ Mark(a) \/ Clear(a)
    \/ RecoverTemp(a) \/ Expire(a) \/ RecoverClaim(a) \/ Trim(a) \/ Untrim(a)
    \/ Decide(a) \/ Open(a) \/ Fsync(a) \/ Place(a) \/ Await(a) \/ Tidy(a)
    \/ ReturnStored(a) \/ Send(a)
    \/ \E f \in ag[a].todo : ReplayOne(a, f)

Next ==
    \/ \E a \in Agents :
          \/ Begin(a) \/ Step(a) \/ Replay(a)
          \/ \E r \in Reports : Enqueue(a, r)
    \/ \E r \in Reports : Age(r)
    \/ \E i \in Instances : Crash(i)

Spec == Init /\ [][Next]_vars

(* Friction servers keep being started, their calls run to an end, and the *)
(* queue of an instance's maintenance is first come first served.  Nothing *)
(* is asked of the dispatcher: it may hang between any two steps.          *)
Call(a) == Begin(a) \/ Step(a) \/ Replay(a)
Fairness == \A a \in Servers : SF_vars(Call(a))
FairSpec == Spec /\ Fairness

-----------------------------------------------------------------------------
Settled == munin \cup marked
Kept(r) == \E f \in files : f.of = r /\ f.at \in {"event", "claim", "quarantine"}

Files == [at : Places, of : Reports, n : Names \cup {0}, why : Reasons]
Calls == [op : {"idle", "wait", "check", "make", "stored", "send", "replay", "end"} \cup Maintenance,
          pc : {"idle", "wait", "item", "decide", "begin", "open", "fsync", "place", "await", "tidy",
                "link", "same", "drop", "shelve", "mark", "clear"},
          after : {"idle", "check", "stored", "send", "replay"},
          of : Reports \cup {None},
          todo : SUBSET Files, cur : Files \cup {NoFile},
          shelf : Nat, active : Int]

TypeOK ==
    /\ files \in SUBSET Files /\ IsFiniteSet(files)
    /\ \A f \in files : f.n = 0 \/ f.at = "event" => f = Final(f.of)
    /\ munin \in SUBSET Reports /\ refused \in SUBSET Health
    /\ marked \in SUBSET Reports /\ old \in SUBSET Health /\ stored \in SUBSET Reports
    /\ ag \in [Agents -> Calls]
    /\ tries \in [Reports -> 0..MaxTries] /\ faults \in 0..MaxFaults

(* A report of which someone was told that it is stored is in an event, a  *)
(* claim or the quarantine, or Munin has it, or a marker tells that it has *)
(* been given up.                                                          *)
NothingLost == \A r \in stored : Kept(r) \/ r \in Settled

(* No step removes the last such file of a report that is not settled,     *)
(* told or not: not one that drops a claim whose event another process has *)
(* claimed meanwhile, nor one that ends a delivery.                        *)
LastCopy == [][\A r \in Reports \ Settled' : Kept(r) => Kept(r)']_vars

(* In the end every file is delivered or given up, those in the quarantine *)
(* and the claims of dead processes too; only a temporary file that was    *)
(* never finished stays.                                                   *)
Drained == <>[](\A f \in files : f.at = "part")
=============================================================================
