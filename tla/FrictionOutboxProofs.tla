------------------------- MODULE FrictionOutboxProofs -------------------------
(***************************************************************************)
(* A report that has once been placed in the outbox is not lost, for any   *)
(* number of processes, calls, reports and crashes.  The files are shared  *)
(* without a lock, so what a call is about to remove must always be        *)
(* covered by a copy that no call is about to remove.                      *)
(***************************************************************************)
EXTENDS FrictionOutbox, FiniteSetTheorems, TLAPS

(* What a call relies on at each of its steps.                             *)
OnFile == {"fsync", "place", "await", "tidy", "link", "same", "drop", "shelve", "mark", "clear"}
Safely(r) == Kept(r) \/ r \in Settled
Control(a) ==
    /\ ag[a].pc \in OnFile => ag[a].cur \in Files
    /\ ag[a].after \in {"check", "stored", "send"} \/ ag[a].op \in {"check", "make", "stored", "send"}
          => ag[a].of \in Reports
    /\ ag[a].pc \in {"link", "same", "shelve"} => ag[a].cur.at = "claim"
    /\ ag[a].pc = "drop" => ag[a].cur.at = "claim" \/ ag[a].cur.of \in Settled
    /\ ag[a].pc = "clear" => ag[a].cur.of \in Settled
    /\ ag[a].pc = "fsync" => ag[a].cur.at = "part" /\ ag[a].cur.n # 0
    /\ ag[a].pc \in {"place", "await", "tidy"} => ag[a].cur.at = "temp"
    /\ ag[a].op = "claims" => \A f \in ag[a].todo : f.at = "claim"
    /\ ag[a].pc \in {"wait", "item", "link", "same", "drop", "shelve", "mark", "clear"}
          => ag[a].op \notin {"check", "make", "stored", "send"}
    /\ ag[a].op \in {"make", "stored"} => ag[a].after = "stored"
    /\ ag[a].op = "check" => \A f \in ag[a].todo : Event(f) => Safely(f.of)
    /\ ag[a].after = "stored" /\ ag[a].pc \notin {"open", "fsync", "place", "await"} => Safely(ag[a].of)

(* A copy of r that no call is about to remove.                            *)
Spare(g, r) ==
    /\ g \in files /\ g.of = r /\ g.at \in {"event", "claim", "quarantine"}
    /\ \A a \in Agents : ag[a].pc = "drop" => ag[a].cur # g
Spared(r) == \E g \in files : Spare(g, r)
Covered == \A r \in Reports \ Settled : Kept(r) => Spared(r)

Placed(f) == f.at \in {"event", "claim", "quarantine"}
StillSafe == /\ Settled \subseteq Settled'
             /\ \A r \in Reports \ Settled' : Kept(r) => Kept(r)'

IInv == TypeOK /\ (\A a \in Agents : Control(a)) /\ Covered /\ NothingLost

-----------------------------------------------------------------------------
(* A listing returns files of the directory; the one for claims, claims.   *)
LEMMA ListedFiles ==
    ASSUME NEW s, NEW op, NEW fs
    PROVE  /\ Listed(s, op, fs) \subseteq fs
           /\ op = "claims" => \A f \in Listed(s, op, fs) : f.at = "claim"
BY DEF Listed, Readable, Event, Shelf, Active

LEMMA FirstPart ==
    ASSUME NEW ops \in SUBSET Maintenance, ops # {}
    PROVE  \E op \in ops : \A p \in ops : Rank[op] <= Rank[p]
<1>m. Maintenance = {"temps", "expire", "claims", "trim", "untrim"}
    BY DEF Maintenance, Rank
<1>r. Rank["temps"] = 1 /\ Rank["expire"] = 2 /\ Rank["claims"] = 3 /\ Rank["trim"] = 4 /\ Rank["untrim"] = 5
    BY DEF Rank
<1>1. CASE "temps" \in ops
    BY <1>1, <1>m, <1>r
<1>2. CASE "temps" \notin ops /\ "expire" \in ops
    BY <1>2, <1>m, <1>r
<1>3. CASE "temps" \notin ops /\ "expire" \notin ops /\ "claims" \in ops
    BY <1>3, <1>m, <1>r
<1>4. CASE "temps" \notin ops /\ "expire" \notin ops /\ "claims" \notin ops /\ "trim" \in ops
    BY <1>4, <1>m, <1>r
<1>5. CASE ops = {"untrim"}
    BY <1>5, <1>r
<1>6. ops \subseteq {"temps", "expire", "claims", "trim", "untrim"}
    BY <1>m
<1> QED BY <1>1, <1>2, <1>3, <1>4, <1>5, <1>6

LEMMA ListTyped ==
    ASSUME NEW s \in Calls, NEW op \in Maintenance \cup {"replay"}, NEW fs \in SUBSET Files,
           IsFiniteSet(fs)
    PROVE  /\ List(s, op, fs) \in Calls
           /\ List(s, op, fs).pc = "item" /\ List(s, op, fs).op = op
           /\ List(s, op, fs).after = s.after /\ List(s, op, fs).of = s.of
           /\ op = "claims" => \A f \in List(s, op, fs).todo : f.at = "claim"
<1>1. Listed(s, op, fs) \in SUBSET Files
    BY ListedFiles
<1>c. Cardinality(Active(fs)) \in Int
    <2>1. Active(fs) \subseteq fs
        BY DEF Active
    <2> QED BY <2>1, FS_Subset, FS_CardinalityType
<1>2. DEFINE t == Listed(s, op, fs)
<1>3. op = "claims" => \A f \in t : f.at = "claim"
    BY ListedFiles
<1> HIDE DEF t
<1>4. t \in SUBSET Files
    BY <1>1 DEF t
<1> DEFINE n == IF op = "trim" THEN Cardinality(Active(fs)) ELSE 0
<1>n. n \in Int
    BY <1>c
<1>5. List(s, op, fs) = [s EXCEPT !.op = op, !.pc = "item", !.todo = t, !.cur = NoFile, !.active = n]
    BY DEF List, t
<1> HIDE DEF n
<1>6. List(s, op, fs) = [op |-> op, pc |-> "item", after |-> s.after, of |-> s.of, todo |-> t,
                         cur |-> NoFile, shelf |-> s.shelf, active |-> n]
    BY <1>5 DEF Calls
<1>7. List(s, op, fs) \in Calls
    BY <1>4, <1>6, <1>n DEF Calls
<1> QED BY <1>3, <1>6, <1>7

(* What is left of a call after one file: it is typed, holds no file, and  *)
(* has its report and what it has made of it still.                        *)
LEMMA OnwardTyped ==
    ASSUME NEW s \in Calls, NEW fs \in SUBSET Files, IsFiniteSet(fs)
    PROVE  LET t == Onward(s, fs) IN
           /\ t \in Calls
           /\ t.pc \in {"idle", "item", "decide", "begin"}
           /\ t.after = "stored" => s.after = "stored" /\ t.of = s.of
           /\ t.op \in {"make", "stored"} => t.after = "stored" \/ s.op \in {"make", "stored"}
           /\ t.pc = "item" => t.op \notin {"check", "make", "stored", "send"} \/ t.op = s.op
           /\ t.after \in {"check", "stored", "send"} \/ t.op \in {"check", "make", "stored", "send"}
                 => t.of = s.of /\ (s.after \in {"check", "stored", "send"}
                                      \/ s.op \in {"check", "make", "stored", "send"})
           /\ t.op = "check" => t.todo = fs \/ (s.op = "check" /\ t.todo \subseteq s.todo)
           /\ (s.op = "claims" => \A f \in s.todo : f.at = "claim")
                 => (t.op = "claims" => \A f \in t.todo : f.at = "claim")
<1> DEFINE t == Onward(s, fs)
           later == {op \in Maintenance : Rank[op] > Rank[s.op] /\ Listed(s, op, fs) # {}}
           first == CHOOSE op \in later : \A p \in later : Rank[op] <= Rank[p]
           item == [s EXCEPT !.pc = "item", !.cur = NoFile]
<1>i. Idle \in Calls /\ Idle.after = "idle" /\ Idle.op = "idle" /\ Idle.pc = "idle"
    <2>1. Idle = [op |-> "idle", pc |-> "idle", after |-> "idle", of |-> None, todo |-> {}, cur |-> NoFile,
                  shelf |-> 0, active |-> 0]
        BY DEF Idle
    <2> QED BY <2>1 DEF Calls
<1>1. /\ item \in Calls /\ item.pc = "item" /\ item.after = s.after /\ item.of = s.of
      /\ item.op = s.op /\ item.todo = s.todo
    BY DEF Calls
<1>2. later # {} => first \in Maintenance
    <2> SUFFICES ASSUME later # {} PROVE first \in later
        OBVIOUS
    <2>1. \E op \in later : \A p \in later : Rank[op] <= Rank[p]
        BY FirstPart
    <2> HIDE DEF later
    <2> QED BY <2>1
<1>3. CASE t = Idle
    BY <1>3, <1>i
<1>4. CASE t = item
    BY <1>4, <1>1
<1>5. CASE later # {} /\ t = List(s, first, fs)
    <2>m. Maintenance \cap {"check", "make", "stored", "send"} = {}
        BY DEF Maintenance, Rank
    <2>1. first \in Maintenance \cup {"replay"} /\ first \in Maintenance
        BY <1>5, <1>2
    <2>2. t = List(s, first, fs)
        BY <1>5
    <2> HIDE DEF first, later, t
    <2>3. /\ t \in Calls /\ t.pc = "item" /\ t.op = first /\ t.after = s.after /\ t.of = s.of
          /\ first = "claims" => \A f \in t.todo : f.at = "claim"
        BY <2>1, <2>2, ListTyped
    <2>4. t.op \notin {"check", "make", "stored", "send"}
        BY <2>1, <2>3, <2>m
    <2> QED BY <2>3, <2>4 DEF t
<1>6. CASE t = After(s, fs)
    <2>1. CASE s.after = "idle"
        BY <1>6, <2>1, <1>i DEF After
    <2>2. CASE s.after = "replay"
        <3>1. CASE t = Idle
            BY <3>1, <1>i
        <3>2. CASE t = List(Idle, "replay", fs)
            <4>1. List(Idle, "replay", fs) \in Calls /\ List(Idle, "replay", fs).pc = "item"
                  /\ List(Idle, "replay", fs).op = "replay" /\ List(Idle, "replay", fs).after = "idle"
                BY <1>i, ListTyped
            <4> QED BY <3>2, <4>1
        <3>3. t = Idle \/ t = List(Idle, "replay", fs)
            BY <2>2, <1>6 DEF After
        <3> QED BY <3>1, <3>2, <3>3
    <2>3. CASE s.after = "check"
        <3>1. t = [Idle EXCEPT !.op = "check", !.pc = "decide", !.of = s.of, !.todo = fs]
            BY <1>6, <2>3 DEF After
        <3> QED BY <3>1, <2>3, <1>i, ZenonT(60) DEF Calls, Idle
    <2>4. CASE s.after \in {"stored", "send"}
        <3>1. t = [Idle EXCEPT !.op = s.after, !.pc = "begin", !.of = s.of, !.after = s.after]
            BY <1>6, <2>4 DEF After
        <3> QED BY <3>1, <2>4, <1>i DEF Calls, Idle
    <2> QED BY <2>1, <2>2, <2>3, <2>4 DEF Calls
<1> HIDE DEF item
<1>7. t \in {Idle, item, After(s, fs)} \/ (later # {} /\ t = List(s, first, fs))
    BY DEF Onward, item
<1> HIDE DEF t
<1> QED BY <1>3, <1>4, <1>5, <1>6, <1>7 DEF t

-----------------------------------------------------------------------------
LEMMA FreshName ==
    ASSUME Unused # {}
    PROVE  /\ Fresh \in Names
           /\ \A f \in files : f.n # Fresh
           /\ \A a \in Agents : ag[a].cur.n # Fresh
BY DEF Fresh, Unused, Used

(* A step of one call keeps the invariant if what it removes is covered,   *)
(* what it adds is, and what it is going to remove is.                     *)
LEMMA OneCall ==
    ASSUME IInv, TypeOK', NEW a \in Agents,
           \A b \in Agents \ {a} : ag'[b] = ag[b],
           Settled \subseteq Settled',
           \A g \in files \ files' : \/ ~Placed(g) \/ g.of \in Settled' \/ Spared(g.of)'
                                     \/ ag[a].pc = "drop" /\ ag[a].cur = g,
           \A g \in files' \ files : ~Placed(g) \/ g.of \in Settled' \/ Spared(g.of)',
           ag'[a].pc = "drop" => \A r : ag'[a].cur.of = r => r \in Settled' \/ Spared(r)',
           (\A r \in Reports : Safely(r) => Safely(r)') => Control(a)',
           \A r \in stored' : r \in stored \/ Safely(r)
    PROVE  IInv' /\ StillSafe
<1>1. ASSUME NEW r \in Reports, r \notin Settled', Kept(r) PROVE Spared(r)'
    <2>1. PICK g \in files : Spare(g, r)
        BY <1>1 DEF IInv, Covered, Spared
    <2>2. CASE g \notin files'
        BY <1>1, <2>1, <2>2 DEF Spare, Placed
    <2>3. CASE g \in files' /\ ag'[a].pc = "drop" /\ ag'[a].cur = g
        BY <1>1, <2>1, <2>3 DEF Spare
    <2>4. CASE g \in files' /\ ~(ag'[a].pc = "drop" /\ ag'[a].cur = g)
        <3>1. Spare(g, r)'
            BY <2>1, <2>4 DEF Spare
        <3> QED BY <3>1, <2>4 DEF Spared
    <2> QED BY <2>2, <2>3, <2>4
<1>2. ASSUME NEW r \in Reports, r \notin Settled', ~Kept(r), Kept(r)' PROVE Spared(r)'
    <2>1. PICK g \in files' : g.of = r /\ g.at \in {"event", "claim", "quarantine"}
        BY <1>2 DEF Kept
    <2>2. g \notin files
        BY <1>2, <2>1 DEF Kept
    <2> QED BY <1>2, <2>1, <2>2 DEF Placed
<1>3. Covered'
    BY <1>1, <1>2 DEF Covered
<1>4. \A r : Spared(r)' => Kept(r)'
    BY DEF Spared, Spare, Kept
<1>5. StillSafe
    BY <1>1, <1>4 DEF StillSafe
<1>6. \A r \in Reports : Safely(r) => Safely(r)'
    BY <1>5 DEF StillSafe, Safely
<1>7. NothingLost'
    BY <1>6 DEF IInv, NothingLost, Safely, TypeOK
<1>8. ASSUME NEW b \in Agents, b # a PROVE Control(b)'
    <2>1. ag'[b] = ag[b] /\ Control(b)
        BY <1>8 DEF IInv
    <2>2. ag[b] \in Calls
        BY <1>8 DEF IInv, TypeOK
    <2>3. \A f \in ag[b].todo : f.of \in Reports
        BY <2>2 DEF Calls, Files
    <2> QED BY <2>1, <2>3, <1>6 DEF Control
<1>9. Control(a)'
    BY <1>6
<1> QED BY <1>3, <1>5, <1>7, <1>8, <1>9 DEF IInv

(* An event not settled is a spare copy: calls drop claims, and what is    *)
(* settled.                                                                *)
LEMMA FinalIsSpare ==
    ASSUME IInv, NEW a \in Agents, \A b \in Agents \ {a} : ag'[b] = ag[b],
           NEW r, Final(r) \in files', r \notin Settled,
           ag'[a].pc = "drop" => ag'[a].cur.at = "claim"
    PROVE  Spared(r)'
<1>1. Final(r).at = "event" /\ Final(r).of = r
    BY DEF Final, File
<1>2. ASSUME NEW b \in Agents, ag'[b].pc = "drop" PROVE ag'[b].cur # Final(r)
    BY <1>1, <1>2 DEF IInv, Control
<1>3. Spare(Final(r), r)'
    BY <1>1, <1>2 DEF Spare
<1> QED BY <1>3 DEF Spared

(* So is a file under a new name.                                          *)
LEMMA NewIsSpare ==
    ASSUME NEW a \in Agents, \A b \in Agents \ {a} : ag'[b] = ag[b],
           Unused # {}, NEW g \in files', g.n = Fresh, Placed(g), ag'[a].pc # "drop"
    PROVE  Spared(g.of)'
<1>1. ASSUME NEW b \in Agents, ag'[b].pc = "drop" PROVE ag'[b].cur # g
    BY <1>1, FreshName
<1>2. Spare(g, g.of)'
    BY <1>1 DEF Spare, Placed
<1> QED BY <1>2 DEF Spared

(* The directory, and the changes a step makes to it.                      *)
GoodFiles(fs) == /\ fs \in SUBSET Files /\ IsFiniteSet(fs)
                 /\ \A f \in fs : f.n = 0 \/ f.at = "event" => f = Final(f.of)

LEMMA Removal ==
    ASSUME TypeOK, NEW x
    PROVE  GoodFiles(files \ {x})
BY FS_RemoveElement DEF TypeOK, GoodFiles

LEMMA Addition ==
    ASSUME NEW fs, GoodFiles(fs), NEW x \in Files, x.n = 0 \/ x.at = "event" => x = Final(x.of)
    PROVE  GoodFiles(fs \cup {x})
BY FS_AddElement DEF GoodFiles

LEMMA FileFields ==
    ASSUME NEW p \in Places, NEW r \in Reports, NEW n \in Names \cup {0}, NEW why \in Reasons
    PROVE  /\ File(p, r, n, why) \in Files
           /\ File(p, r, n, why).at = p /\ File(p, r, n, why).of = r
           /\ File(p, r, n, why).n = n /\ File(p, r, n, why).why = why
BY DEF File, Files

LEMMA FinalFields ==
    ASSUME NEW r \in Reports
    PROVE  Final(r) \in Files /\ Final(r).at = "event" /\ Final(r).of = r
<1>1. "event" \in Places /\ "" \in Reasons
    BY DEF Places, Reasons
<1> QED BY <1>1 DEF Final, File, Files

LEMMA TypeStep ==
    ASSUME TypeOK, NEW a \in Agents, NEW s \in Calls, Set(a, s), GoodFiles(files'),
           munin' \in SUBSET Reports, marked' \in SUBSET Reports, stored' \in SUBSET Reports,
           tries' \in [Reports -> 0..MaxTries], faults' \in 0..MaxFaults,
           UNCHANGED <<refused, old>>
    PROVE  /\ TypeOK'
           /\ ag'[a] = s /\ \A b \in Agents \ {a} : ag'[b] = ag[b]
BY DEF TypeOK, Set, GoodFiles

(* What is said of a call that has done with a file.                       *)
LEMMA OnwardControl ==
    ASSUME NEW a \in Agents, GoodFiles(files'),
           NEW s \in Calls, s.op \notin {"check", "make", "stored", "send"},
           ag'[a] = Onward(s, files'),
           s.after \in {"check", "stored", "send"} => s.of \in Reports,
           s.op = "claims" => \A f \in s.todo : f.at = "claim",
           s.after = "stored" => Safely(s.of)'
    PROVE  Control(a)' /\ Onward(s, files') \in Calls /\ ag'[a].pc # "drop"
<1> DEFINE t == Onward(s, files')
<1>1. /\ t \in Calls
      /\ t.pc \in {"idle", "item", "decide", "begin"}
      /\ t.after = "stored" => s.after = "stored" /\ t.of = s.of
      /\ t.op \in {"make", "stored"} => t.after = "stored"
      /\ t.pc = "item" => t.op \notin {"check", "make", "stored", "send"}
      /\ t.after \in {"check", "stored", "send"} \/ t.op \in {"check", "make", "stored", "send"}
            => t.of \in Reports
      /\ t.op = "check" => t.todo = files'
      /\ t.op = "claims" => \A f \in t.todo : f.at = "claim"
    <2>1. files' \in SUBSET Files /\ IsFiniteSet(files')
        BY DEF GoodFiles
    <2> HIDE DEF t
    <2>2. LET u == t IN
           /\ u \in Calls
           /\ u.pc \in {"idle", "item", "decide", "begin"}
           /\ u.after = "stored" => s.after = "stored" /\ u.of = s.of
           /\ u.op \in {"make", "stored"} => u.after = "stored" \/ s.op \in {"make", "stored"}
           /\ u.pc = "item" => u.op \notin {"check", "make", "stored", "send"} \/ u.op = s.op
           /\ u.after \in {"check", "stored", "send"} \/ u.op \in {"check", "make", "stored", "send"}
                 => u.of = s.of /\ (s.after \in {"check", "stored", "send"}
                                      \/ s.op \in {"check", "make", "stored", "send"})
           /\ u.op = "check" => u.todo = files' \/ (s.op = "check" /\ u.todo \subseteq s.todo)
           /\ (s.op = "claims" => \A f \in s.todo : f.at = "claim")
                 => (u.op = "claims" => \A f \in u.todo : f.at = "claim")
        BY <2>1, OnwardTyped DEF t
    <2> QED BY <2>2
<1> HIDE DEF t
<1>2. ag'[a] = t
    BY DEF t
<1>3. \A f \in files' : Event(f) => Safely(f.of)'
    BY DEF Safely, Kept, Event, GoodFiles
<1>4. t.after = "stored" => \A r : r = t.of => Safely(r)'
    BY <1>1
<1>5. Control(a)'
    BY <1>1, <1>2, <1>3, <1>4 DEF Control, OnFile
<1> QED BY <1>1, <1>2, <1>5 DEF t

LEMMA CallStep ==
    ASSUME IInv, NEW a \in Agents, NEW s \in Calls, Set(a, s), GoodFiles(files'),
           munin' \in SUBSET Reports, marked' \in SUBSET Reports, stored' \in SUBSET Reports,
           tries' \in [Reports -> 0..MaxTries], faults' \in 0..MaxFaults,
           UNCHANGED <<refused, old>>,
           Settled \subseteq Settled',
           \A g \in files \ files' : \/ ~Placed(g) \/ g.of \in Settled' \/ Spared(g.of)'
                                     \/ ag[a].pc = "drop" /\ ag[a].cur = g,
           \A g \in files' \ files : ~Placed(g) \/ g.of \in Settled' \/ Spared(g.of)',
           s.pc = "drop" => s.cur.of \in Settled' \/ Spared(s.cur.of)',
           (\A r \in Reports : Safely(r) => Safely(r)') => Control(a)',
           \A r \in stored' : r \in stored \/ Safely(r)
    PROVE  IInv' /\ StillSafe
<1>1. TypeOK' /\ ag'[a] = s /\ \A b \in Agents \ {a} : ag'[b] = ag[b]
    BY TypeStep DEF IInv
<1>2. ag'[a].pc = "drop" => \A r : ag'[a].cur.of = r => r \in Settled' \/ Spared(r)'
    BY <1>1
<1> QED BY <1>1, <1>2, OneCall

(* A step after which the call goes on to its next file.                   *)
LEMMA NextStep ==
    ASSUME IInv, NEW a \in Agents, NEW s \in Calls, Set(a, Onward(s, files')), GoodFiles(files'),
           s.op \notin {"check", "make", "stored", "send"},
           s.after \in {"check", "stored", "send"} => s.of \in Reports,
           s.op = "claims" => \A f \in s.todo : f.at = "claim",
           s.after = "stored" => s.of \in Reports /\ Safely(s.of),
           munin' \in SUBSET Reports, marked' \in SUBSET Reports,
           tries' \in [Reports -> 0..MaxTries], faults' \in 0..MaxFaults,
           UNCHANGED <<refused, old, stored>>,
           Settled \subseteq Settled',
           \A g \in files \ files' : \/ ~Placed(g) \/ g.of \in Settled' \/ Spared(g.of)'
                                     \/ ag[a].pc = "drop" /\ ag[a].cur = g,
           \A g \in files' \ files : ~Placed(g) \/ g.of \in Settled' \/ Spared(g.of)'
    PROVE  IInv' /\ StillSafe
<1>1. PICK t : t = Onward(s, files')
    OBVIOUS
<1>2. t \in Calls /\ t.pc # "drop"
    <2>1. files' \in SUBSET Files /\ IsFiniteSet(files')
        BY DEF GoodFiles
    <2>2. Onward(s, files') \in Calls /\ Onward(s, files').pc \in {"idle", "item", "decide", "begin"}
        BY <2>1, OnwardTyped
    <2> QED BY <1>1, <2>2
<1>3. Set(a, t)
    BY <1>1
<1>4. ag'[a] = Onward(s, files')
    BY <1>1, <1>3 DEF Set, IInv, TypeOK
<1>5. (\A r \in Reports : Safely(r) => Safely(r)') => Control(a)'
    BY <1>4, OnwardControl
<1>6. stored' \in SUBSET Reports
    BY DEF IInv, TypeOK
<1> QED BY <1>2, <1>3, <1>5, <1>6, CallStep

-----------------------------------------------------------------------------
(* The steps of a call on the file it is at.                               *)
Working == {"link", "same", "drop", "shelve", "mark", "clear"}

LEMMA AtFile ==
    ASSUME IInv, NEW a \in Agents, ag[a].pc \in Working
    PROVE  /\ ag[a] \in Calls /\ ag[a].cur \in Files /\ ag[a].cur.of \in Reports
           /\ ag[a].op \notin {"check", "make", "stored", "send"}
           /\ ag[a].after \in {"check", "stored", "send"} => ag[a].of \in Reports
           /\ ag[a].op = "claims" => \A f \in ag[a].todo : f.at = "claim"
           /\ ag[a].after = "stored" => Safely(ag[a].of)
           /\ GoodFiles(files)
BY DEF IInv, Control, TypeOK, Working, OnFile, Files, GoodFiles

LEMMA GotoStep ==
    ASSUME IInv, NEW a \in Agents, ag[a].pc \in Working, NEW l \in Working, Goto(a, l),
           GoodFiles(files'), munin' \in SUBSET Reports, marked' \in SUBSET Reports,
           UNCHANGED <<refused, old, stored, tries, faults>>,
           Settled \subseteq Settled',
           \A g \in files \ files' : ~Placed(g),
           \A g \in files' \ files : ~Placed(g) \/ g.of \in Settled' \/ Spared(g.of)',
           l \in {"link", "same", "shelve"} => ag[a].cur.at = "claim",
           l = "drop" => \A r : r = ag[a].cur.of => ag[a].cur.at = "claim" /\ (r \in Settled' \/ Spared(r)'),
           l = "clear" => \A r : r = ag[a].cur.of => r \in Settled'
    PROVE  IInv' /\ StillSafe
<1>1. PICK s : s = [ag[a] EXCEPT !.pc = l]
    OBVIOUS
<1>2. /\ s \in Calls /\ s.pc = l /\ s.op = ag[a].op /\ s.after = ag[a].after /\ s.of = ag[a].of
      /\ s.todo = ag[a].todo /\ s.cur = ag[a].cur
    BY <1>1, AtFile DEF Calls, Working
<1>3. Set(a, s)
    BY <1>1 DEF Goto
<1>4. ag'[a] = s
    BY <1>3 DEF Set, IInv, TypeOK
<1>5. ASSUME \A r \in Reports : Safely(r) => Safely(r)' PROVE Control(a)'
    <2>1. /\ s.cur \in Files /\ s.op \notin {"check", "make", "stored", "send"}
          /\ s.after \in {"check", "stored", "send"} => s.of \in Reports
          /\ s.op = "claims" => \A f \in s.todo : f.at = "claim"
          /\ s.after = "stored" => Safely(s.of)
        BY <1>2, AtFile
    <2>2. s.after = "stored" => Safely(s.of)'
        BY <2>1, <1>5
    <2> QED BY <2>1, <2>2, <1>2, <1>4 DEF Control, Working, OnFile
<1>6. s.pc = "drop" => s.cur.of \in Settled' \/ Spared(s.cur.of)'
    BY <1>2
<1>7. stored' \in SUBSET Reports /\ tries' \in [Reports -> 0..MaxTries] /\ faults' \in 0..MaxFaults
      /\ \A r \in stored' : r \in stored
    BY DEF IInv, TypeOK
<1> QED BY <1>2, <1>3, <1>5, <1>6, <1>7, CallStep

(* What was done with the file removes at most what is settled, or what    *)
(* the call was to drop.                                                   *)
LEMMA DoneStep ==
    ASSUME IInv, NEW a \in Agents, ag[a].pc \in Working, NextItem(a),
           GoodFiles(files'), munin' \in SUBSET Reports, marked' \in SUBSET Reports,
           tries' \in [Reports -> 0..MaxTries], faults' \in 0..MaxFaults,
           UNCHANGED <<refused, old, stored>>,
           Settled \subseteq Settled',
           \A g \in files \ files' : ~Placed(g) \/ g.of \in Settled' \/ (ag[a].pc = "drop" /\ ag[a].cur = g),
           \A g \in files' : g \in files
    PROVE  IInv' /\ StillSafe
<1>1. PICK s : s = ag[a]
    OBVIOUS
<1>2. /\ s \in Calls /\ s.op \notin {"check", "make", "stored", "send"}
      /\ s.after \in {"check", "stored", "send"} => s.of \in Reports
      /\ s.op = "claims" => \A f \in s.todo : f.at = "claim"
      /\ s.after = "stored" => s.of \in Reports /\ Safely(s.of)
    BY <1>1, AtFile
<1>3. Set(a, Onward(s, files'))
    BY <1>1 DEF NextItem
<1> QED BY <1>2, <1>3, NextStep

LEMMA StillTyped ==
    ASSUME TypeOK
    PROVE  /\ munin \in SUBSET Reports /\ marked \in SUBSET Reports /\ GoodFiles(files)
           /\ tries \in [Reports -> 0..MaxTries] /\ faults \in 0..MaxFaults
           /\ stored \in SUBSET Reports
BY DEF TypeOK, GoodFiles

LEMMA LinkSteps ==
    ASSUME IInv, NEW a \in Agents, Link(a) \/ Same(a)
    PROVE  IInv' /\ StillSafe
<1>1. PICK c : c = ag[a].cur
    OBVIOUS
<1>2. /\ c \in Files /\ c.of \in Reports /\ c.at = "claim" /\ ag[a].pc \in {"link", "same"} /\ ag[a].pc \in Working
    BY <1>1, AtFile DEF IInv, Control, Link, Same, Working
<1>3. Final(c.of) \in Files /\ Final(c.of).at = "event" /\ Final(c.of).of = c.of
    BY <1>2, FinalFields
<1>u. UNCHANGED <<munin, refused, marked, old, stored, tries, faults>> /\ Settled' = Settled
    BY DEF Link, Same, Outside, Settled
<1>t. /\ munin' \in SUBSET Reports /\ marked' \in SUBSET Reports /\ GoodFiles(files)
      /\ tries' \in [Reports -> 0..MaxTries] /\ faults' \in 0..MaxFaults
    BY <1>u, StillTyped DEF IInv
<1>4. CASE UNCHANGED files /\ NextItem(a)
    BY <1>2, <1>4, <1>u, <1>t, DoneStep
<1>5. CASE Goto(a, "drop") /\ files' = files \cup {Final(c.of)}
    <2>1. GoodFiles(files')
        BY <1>5, <1>3, <1>t, Addition
    <2>2. /\ \A b \in Agents \ {a} : ag'[b] = ag[b]
          /\ ag'[a].pc = "drop" => ag'[a].cur.at = "claim"
        <3>1. ag[a] \in Calls /\ ag' = [ag EXCEPT ![a] = [ag[a] EXCEPT !.pc = "drop"]]
            BY <1>5, <1>2, AtFile DEF Goto, Set
        <3> QED BY <3>1, <1>1, <1>2 DEF IInv, TypeOK, Calls
    <2>3. c.of \in Settled' \/ Spared(c.of)'
        BY <1>5, <2>2, <1>u, FinalIsSpare
    <2>4. \A g \in files' \ files : g = Final(c.of)
        BY <1>5
    <2>5. \A r : r = ag[a].cur.of => ag[a].cur.at = "claim" /\ (r \in Settled' \/ Spared(r)')
        BY <2>3, <1>1, <1>2
    <2>6. \A g \in files' \ files : g.of \in Settled' \/ Spared(g.of)'
        BY <2>3, <2>4, <1>3
    <2>7. "drop" \in Working /\ \A g \in files : g \in files'
        BY <1>5 DEF Working
    <2> QED BY <1>5, <1>2, <2>1, <2>5, <2>6, <2>7, <1>u, <1>t, GotoStep
<1>6. CASE Goto(a, "same") /\ UNCHANGED files
    <2>1. "same" \in Working
        BY DEF Working
    <2> QED BY <1>6, <1>1, <1>2, <2>1, <1>u, <1>t, GotoStep
<1>7. CASE Goto(a, "drop") /\ Final(c.of) \in files /\ UNCHANGED files
    <2>1. files' = files \cup {Final(c.of)}
        BY <1>7
    <2> QED BY <1>5, <1>7, <2>1
<1> QED BY <1>1, <1>4, <1>5, <1>6, <1>7 DEF Link, Same

LEMMA DropStep ==
    ASSUME IInv, NEW a \in Agents, Drop(a) \/ Clear(a)
    PROVE  IInv' /\ StillSafe
<1>1. ag[a].pc \in Working /\ NextItem(a)
    BY DEF Drop, Clear, Working
<1>u. UNCHANGED <<munin, refused, marked, old, stored, tries, faults>> /\ Settled' = Settled
    BY DEF Drop, Clear, Outside, Settled
<1>t. /\ munin' \in SUBSET Reports /\ marked' \in SUBSET Reports /\ GoodFiles(files)
      /\ tries' \in [Reports -> 0..MaxTries] /\ faults' \in 0..MaxFaults
    BY <1>u, StillTyped DEF IInv
<1>2. CASE Drop(a)
    <2>1. GoodFiles(files') /\ files' = files \ {ag[a].cur} /\ ag[a].pc = "drop"
        BY <1>2, Removal DEF Drop, IInv
    <2> QED BY <1>1, <2>1, <1>u, <1>t, DoneStep
<1>3. CASE Clear(a)
    <2>1. CASE UNCHANGED files
        BY <1>1, <2>1, <1>u, <1>t, DoneStep
    <2>2. ASSUME NEW f \in files, f.of = ag[a].cur.of, files' = files \ {f} PROVE IInv' /\ StillSafe
        <3>1. ag[a].cur.of \in Settled'
            BY <1>3, <1>u DEF Clear, IInv, Control
        <3>2. GoodFiles(files')
            BY <2>2, Removal DEF IInv
        <3>3. \A g \in files \ files' : g.of \in Settled'
            BY <2>2, <3>1
        <3> QED BY <1>1, <2>2, <3>2, <3>3, <1>u, <1>t, DoneStep
    <2> QED BY <1>3, <2>1, <2>2 DEF Clear
<1> QED BY <1>2, <1>3

LEMMA MarkStep ==
    ASSUME IInv, NEW a \in Agents, Mark(a)
    PROVE  IInv' /\ StillSafe
<1>1. PICK r \in Reports : r = ag[a].cur.of
    BY AtFile DEF Mark, Working
<1>2. ag[a].pc \in Working /\ "clear" \in Working /\ UNCHANGED files /\ UNCHANGED <<munin, refused, old, stored, tries>>
    BY DEF Mark, Working
<1>t. /\ munin' \in SUBSET Reports /\ marked \in SUBSET Reports /\ GoodFiles(files')
      /\ tries' \in [Reports -> 0..MaxTries] /\ faults \in 0..MaxFaults
    BY <1>2, StillTyped DEF IInv
<1>3. CASE marked' = marked \cup {r} /\ Goto(a, "clear") /\ UNCHANGED faults
    <2>1. marked' \in SUBSET Reports /\ r \in Settled' /\ Settled \subseteq Settled'
        BY <1>3, <1>t, <1>2 DEF Settled
    <2>2. \A q : q = ag[a].cur.of => q \in Settled'
        BY <2>1, <1>1
    <2> QED BY <1>2, <1>3, <1>t, <2>1, <2>2, GotoStep
<1>4. CASE faults < MaxFaults /\ faults' = faults + 1 /\ NextItem(a) /\ UNCHANGED marked
    <2>1. faults' \in 0..MaxFaults /\ Settled \subseteq Settled'
        BY <1>4, <1>t, <1>2, BoundAssumption DEF Settled
    <2> QED BY <1>2, <1>4, <1>t, <2>1, DoneStep
<1> QED BY <1>1, <1>3, <1>4 DEF Mark

LEMMA NewFile ==
    ASSUME TypeOK, Unused # {}, NEW p \in Places \ {"event"}, NEW r \in Reports, NEW why \in Reasons
    PROVE  /\ File(p, r, Fresh, why) \in Files
           /\ File(p, r, Fresh, why).n = Fresh /\ Fresh \in Names
           /\ File(p, r, Fresh, why).at = p /\ File(p, r, Fresh, why).of = r
           /\ \A x : GoodFiles((files \ {x}) \cup {File(p, r, Fresh, why)})
           /\ GoodFiles(files \cup {File(p, r, Fresh, why)})
<1>1. Fresh \in Names /\ Fresh # 0
    BY FreshName, NameAssumption
<1>2. PICK f : f = File(p, r, Fresh, why)
    OBVIOUS
<1>3. f \in Files /\ f.n = Fresh /\ f.at = p /\ f.of = r
    BY <1>1, <1>2, FileFields
<1>4. \A x : GoodFiles((files \ {x}) \cup {f})
    BY <1>3, <1>1, Removal, Addition
<1>5. GoodFiles(files \cup {f})
    BY <1>3, <1>1, StillTyped, Addition
<1> QED BY <1>1, <1>2, <1>3, <1>4, <1>5

LEMMA OtherCalls ==
    ASSUME TypeOK, NEW a \in Agents, NEW s, Set(a, s)
    PROVE  ag'[a] = s /\ \A b \in Agents \ {a} : ag'[b] = ag[b]
BY DEF Set, TypeOK

LEMMA ShelveStep ==
    ASSUME IInv, NEW a \in Agents, Shelve(a)
    PROVE  IInv' /\ StillSafe
<1>1. PICK c \in Files : c = ag[a].cur
    BY AtFile DEF Shelve, Working
<1>2. ag[a].pc \in Working /\ "link" \in Working /\ c.at = "claim" /\ c.of \in Reports
    BY <1>1, AtFile DEF Shelve, IInv, Control, Working
<1>u. UNCHANGED <<munin, refused, marked, old, stored, tries, faults>> /\ Settled' = Settled
    BY DEF Shelve, Outside, Settled
<1>t. /\ munin' \in SUBSET Reports /\ marked' \in SUBSET Reports /\ GoodFiles(files)
      /\ tries' \in [Reports -> 0..MaxTries] /\ faults' \in 0..MaxFaults
    BY <1>u, StillTyped DEF IInv
<1>3. CASE Goto(a, "link") /\ UNCHANGED files
    BY <1>1, <1>2, <1>3, <1>u, <1>t, GotoStep
<1>4. CASE /\ Unused # {}
           /\ files' = (files \ {c}) \cup {File("quarantine", c.of, Fresh, "")}
           /\ Set(a, Onward([ag[a] EXCEPT !.shelf = @ + 1,
                                !.active = IF ag[a].op = "trim" THEN @ - 1 ELSE @], files'))
    <2>0. ag[a].shelf + 1 \in Nat /\ (IF ag[a].op = "trim" THEN ag[a].active - 1 ELSE ag[a].active) \in Int
        BY <1>2, AtFile DEF Calls
    <2>1. PICK n \in Nat, m \in Int : n = ag[a].shelf + 1 /\ m = IF ag[a].op = "trim" THEN ag[a].active - 1 ELSE ag[a].active
        BY <2>0
    <2>2. PICK s : s = [ag[a] EXCEPT !.shelf = n, !.active = m]
        OBVIOUS
    <2>3. /\ s \in Calls /\ s.op = ag[a].op /\ s.after = ag[a].after /\ s.of = ag[a].of /\ s.todo = ag[a].todo
        BY <1>2, <2>2, AtFile, ZenonT(60) DEF Calls
    <2>4. /\ s.op \notin {"check", "make", "stored", "send"}
          /\ s.after \in {"check", "stored", "send"} => s.of \in Reports
          /\ s.op = "claims" => \A f \in s.todo : f.at = "claim"
          /\ s.after = "stored" => s.of \in Reports /\ Safely(s.of)
        BY <1>2, <2>3, AtFile
    <2>5. Set(a, Onward(s, files'))
        BY <1>4, <2>1, <2>2
    <2>6. "quarantine" \in Places \ {"event"} /\ "" \in Reasons
        BY DEF Places, Reasons
    <2>7. PICK q : q = File("quarantine", c.of, Fresh, "")
        OBVIOUS
    <2>8. q.n = Fresh /\ q.at = "quarantine" /\ q.of = c.of /\ GoodFiles(files') /\ q \in files'
        <3>1. TypeOK /\ Unused # {}
            BY <1>4 DEF IInv
        <3>2. /\ File("quarantine", c.of, Fresh, "").n = Fresh
              /\ File("quarantine", c.of, Fresh, "").at = "quarantine"
              /\ File("quarantine", c.of, Fresh, "").of = c.of
            BY DEF File
        <3>3. GoodFiles((files \ {c}) \cup {File("quarantine", c.of, Fresh, "")})
            BY <3>1, <1>2, <2>6, NewFile
        <3> QED BY <3>2, <3>3, <1>4, <2>7
    <2>9. ag'[a].pc # "drop" /\ \A b \in Agents \ {a} : ag'[b] = ag[b]
        <3>1. PICK t : t = Onward(s, files')
            OBVIOUS
        <3>2. t.pc # "drop"
            BY <3>1, <2>3, <2>8, OnwardTyped DEF GoodFiles
        <3> QED BY <3>1, <3>2, <2>5, OtherCalls DEF IInv
    <2>10. Spared(c.of)'
        BY <1>4, <2>8, <2>9, NewIsSpare DEF Placed
    <2>11. /\ \A g \in files \ files' : g = c
           /\ \A g \in files' \ files : g = q
        BY <1>4, <2>7
    <2>12. /\ \A g \in files \ files' : Spared(g.of)'
           /\ \A g \in files' \ files : Spared(g.of)'
        BY <2>8, <2>10, <2>11
    <2> QED BY <1>u, <1>t, <2>3, <2>4, <2>5, <2>8, <2>12, NextStep
<1> QED BY <1>1, <1>3, <1>4 DEF Shelve

-----------------------------------------------------------------------------
(* The parts of the maintenance, and the replay.                           *)
LEMMA AtItem ==
    ASSUME IInv, NEW a \in Agents, ag[a].pc = "item"
    PROVE  /\ ag[a] \in Calls /\ ag[a].op \notin {"check", "make", "stored", "send"}
           /\ ag[a].todo \in SUBSET Files
           /\ ag[a].after \in {"check", "stored", "send"} => ag[a].of \in Reports
           /\ ag[a].op = "claims" => \A f \in ag[a].todo : f.at = "claim"
           /\ ag[a].after = "stored" => Safely(ag[a].of)
           /\ GoodFiles(files)
BY DEF IInv, Control, TypeOK, Calls, GoodFiles

(* The call turns to a file, or passes it over.                            *)
LEMMA PickStep ==
    ASSUME IInv, NEW a \in Agents, ag[a].pc = "item", NEW rest \in SUBSET ag[a].todo,
           NEW c \in Files, NEW l \in Working, NEW n \in Nat,
           Set(a, [ag[a] EXCEPT !.todo = rest, !.cur = c, !.pc = l, !.shelf = n]),
           GoodFiles(files'), munin' \in SUBSET Reports, faults' \in 0..MaxFaults,
           UNCHANGED <<refused, marked, old, stored, tries>>,
           Settled \subseteq Settled',
           \A g \in files \ files' : ~Placed(g) \/ g.of \in Settled' \/ Spared(g.of)',
           \A g \in files' \ files : ~Placed(g) \/ g.of \in Settled' \/ Spared(g.of)',
           l \in {"link", "same", "shelve"} => c.at = "claim",
           l \in {"drop", "clear"} => c.of \in Settled'
    PROVE  IInv' /\ StillSafe
<1>1. PICK s : s = [ag[a] EXCEPT !.todo = rest, !.cur = c, !.pc = l, !.shelf = n]
    OBVIOUS
<1>2. /\ s \in Calls /\ s.pc = l /\ s.op = ag[a].op /\ s.after = ag[a].after /\ s.of = ag[a].of
      /\ s.todo = rest /\ s.cur = c
    BY <1>1, AtItem, ZenonT(60) DEF Calls, Working
<1>3. Set(a, s) /\ ag'[a] = s
    BY <1>1, OtherCalls DEF IInv
<1>5. ASSUME \A r \in Reports : Safely(r) => Safely(r)' PROVE Control(a)'
    <2>1. /\ s.op \notin {"check", "make", "stored", "send"}
          /\ s.after \in {"check", "stored", "send"} => s.of \in Reports
          /\ s.op = "claims" => \A f \in s.todo : f.at = "claim"
          /\ s.after = "stored" => Safely(s.of)
        BY <1>2, AtItem
    <2>2. s.after = "stored" => Safely(s.of)'
        BY <2>1, <1>5
    <2> QED BY <2>1, <2>2, <1>2, <1>3 DEF Control, Working, OnFile
<1>6. s.pc = "drop" => s.cur.of \in Settled' \/ Spared(s.cur.of)'
    BY <1>2
<1>7. stored' \in SUBSET Reports /\ tries' \in [Reports -> 0..MaxTries] /\ marked' \in SUBSET Reports
      /\ \A r \in stored' : r \in stored
    BY DEF IInv, TypeOK
<1> QED BY <1>2, <1>3, <1>5, <1>6, <1>7, CallStep

LEMMA PassStep ==
    ASSUME IInv, NEW a \in Agents, ag[a].pc = "item", NEW rest \in SUBSET ag[a].todo,
           Set(a, Onward([ag[a] EXCEPT !.todo = rest], files)),
           munin' \in SUBSET Reports, faults' \in 0..MaxFaults,
           UNCHANGED <<files, refused, marked, old, stored, tries>>,
           Settled \subseteq Settled'
    PROVE  IInv' /\ StillSafe
<1>1. PICK s : s = [ag[a] EXCEPT !.todo = rest]
    OBVIOUS
<1>2. s \in Calls /\ s.op = ag[a].op /\ s.after = ag[a].after /\ s.of = ag[a].of /\ s.todo = rest
    BY <1>1, AtItem DEF Calls
<1>3. /\ s.op \notin {"check", "make", "stored", "send"}
      /\ s.after \in {"check", "stored", "send"} => s.of \in Reports
      /\ s.op = "claims" => \A f \in s.todo : f.at = "claim"
      /\ s.after = "stored" => s.of \in Reports /\ Safely(s.of)
    BY <1>2, AtItem
<1>4. Set(a, Onward(s, files'))
    BY <1>1
<1>5. /\ marked' \in SUBSET Reports /\ GoodFiles(files') /\ tries' \in [Reports -> 0..MaxTries]
    BY AtItem DEF IInv, TypeOK
<1> QED BY <1>2, <1>3, <1>4, <1>5, NextStep

LEMMA ClaimStep ==
    ASSUME IInv, NEW a \in Agents, ag[a].pc = "item", NEW f \in ag[a].todo,
           NEW why \in Reasons, NEW next \in {"link", "shelve"}, Claim(a, f, why, next), Outside
    PROVE  IInv' /\ StillSafe
<1>1. f \in Files /\ f.of \in Reports /\ ag[a] \in Calls
    BY AtItem DEF Files
<1>u. UNCHANGED <<munin, refused, marked, old, stored, tries, faults>> /\ Settled' = Settled
    BY DEF Outside, Settled
<1>t. /\ munin' \in SUBSET Reports /\ marked' \in SUBSET Reports /\ GoodFiles(files)
      /\ tries' \in [Reports -> 0..MaxTries] /\ faults' \in 0..MaxFaults
    BY <1>u, StillTyped DEF IInv
<1>r. PICK rest \in SUBSET ag[a].todo : rest = ag[a].todo \ {f}
    OBVIOUS
<1>2. CASE f \notin files
    <2>1. UNCHANGED files /\ Set(a, Onward([ag[a] EXCEPT !.todo = rest], files))
        BY <1>2, <1>r DEF Claim
    <2> QED BY <2>1, <1>u, <1>t, PassStep
<1>3. CASE f \in files
    <2>1. "claim" \in Places \ {"event"} /\ next \in Working
        BY DEF Places, Working
    <2>2. PICK c : c = File("claim", f.of, Fresh, why)
        OBVIOUS
    <2>3. /\ Unused # {} /\ files' = (files \ {f}) \cup {c}
          /\ Set(a, [[ag[a] EXCEPT !.todo = ag[a].todo \ {f}] EXCEPT !.cur = c, !.pc = next,
                        !.shelf = IF why = "restore" /\ @ > 0 THEN @ - 1 ELSE @])
        BY <1>3, <2>2 DEF Claim
    <2>4. /\ c.n = Fresh /\ c.at = "claim" /\ c.of = f.of
        BY <2>2 DEF File
    <2>5. GoodFiles(files')
        BY <1>1, <2>1, <2>2, <2>3, NewFile DEF IInv
    <2>c. c \in Files
        BY <2>3, <2>5 DEF GoodFiles
    <2>n. (IF why = "restore" /\ ag[a].shelf > 0 THEN ag[a].shelf - 1 ELSE ag[a].shelf) \in Nat
        BY <1>1 DEF Calls
    <2>6. PICK n \in Nat : n = IF why = "restore" /\ ag[a].shelf > 0 THEN ag[a].shelf - 1 ELSE ag[a].shelf
        BY <2>n
    <2>7. Set(a, [ag[a] EXCEPT !.todo = rest, !.cur = c, !.pc = next, !.shelf = n])
        BY <1>1, <1>r, <2>3, <2>6 DEF Calls
    <2>8. ag'[a].pc # "drop" /\ \A b \in Agents \ {a} : ag'[b] = ag[b]
        <3>1. PICK s : s = [ag[a] EXCEPT !.todo = rest, !.cur = c, !.pc = next, !.shelf = n]
            OBVIOUS
        <3>2. s.pc = next
            BY <1>1, <3>1 DEF Calls
        <3> QED BY <3>1, <3>2, <2>7, OtherCalls DEF IInv
    <2>9. Spared(c.of)'
        BY <2>3, <2>4, <2>8, NewIsSpare DEF Placed
    <2>10. /\ \A g \in files \ files' : g = f
           /\ \A g \in files' \ files : g = c
        BY <2>3
    <2>11. Spared(f.of)'
        BY <2>4, <2>9
    <2>12. /\ \A g \in files \ files' : Spared(g.of)'
           /\ \A g \in files' \ files : Spared(g.of)'
        BY <2>9, <2>10, <2>11
    <2>13. next \notin {"drop", "clear"}
        OBVIOUS
    <2> QED BY <1>u, <1>t, <2>1, <2>4, <2>5, <2>c, <2>7, <2>12, <2>13, PickStep
<1> QED BY <1>2, <1>3

LEMMA PartSteps ==
    ASSUME IInv, NEW a \in Agents, RecoverTemp(a) \/ Expire(a) \/ RecoverClaim(a) \/ Trim(a) \/ Untrim(a)
    PROVE  IInv' /\ StillSafe
<1>1. /\ {"link", "shelve", "mark"} \subseteq Working /\ {"recovery", "overflow", "restore"} \subseteq Reasons
    BY DEF Working, Reasons
<1>2. ag[a].pc = "item" /\ ag[a] \in Calls /\ ag[a].todo \subseteq Files /\ ag[a].shelf \in Nat
    <2>1. ag[a].pc = "item"
        BY DEF RecoverTemp, Expire, RecoverClaim, Trim, Untrim, At
    <2> QED BY <2>1, AtItem DEF Calls
<1>3. CASE RecoverTemp(a)
    BY <1>1, <1>2, <1>3, ClaimStep DEF RecoverTemp
<1>4. CASE Trim(a)
    BY <1>1, <1>2, <1>4, ClaimStep DEF Trim
<1>5. CASE Untrim(a)
    BY <1>1, <1>2, <1>5, ClaimStep DEF Untrim
<1>u. ASSUME Outside PROVE
        /\ UNCHANGED <<munin, refused, marked, old, stored, tries, faults>> /\ Settled' = Settled
        /\ munin' \in SUBSET Reports /\ marked' \in SUBSET Reports /\ GoodFiles(files)
        /\ tries' \in [Reports -> 0..MaxTries] /\ faults' \in 0..MaxFaults
    BY <1>u, StillTyped DEF IInv, Outside, Settled
<1>6. CASE Expire(a)
    <2>1. PICK f \in ag[a].todo : Set(a, [ag[a] EXCEPT !.todo = ag[a].todo \ {f}, !.cur = f, !.pc = "mark"])
        BY <1>2, <1>6 DEF Expire
    <2>2. PICK rest \in SUBSET ag[a].todo : rest = ag[a].todo \ {f}
        OBVIOUS
    <2>3. Set(a, [ag[a] EXCEPT !.todo = rest, !.cur = f, !.pc = "mark", !.shelf = ag[a].shelf])
        BY <1>2, <2>1, <2>2 DEF Calls
    <2>4. PICK n \in Nat : n = ag[a].shelf
        BY <1>2
    <2>0. PICK l \in Working : l = "mark"
        BY <1>1
    <2>5. Set(a, [ag[a] EXCEPT !.todo = rest, !.cur = f, !.pc = l, !.shelf = n])
        BY <2>0, <2>3, <2>4
    <2>6. Outside /\ UNCHANGED files /\ f \in Files
        BY <1>2, <1>6 DEF Expire
    <2>7. l \notin {"link", "same", "shelve", "drop", "clear"}
        BY <2>0
    <2> QED BY <1>2, <1>u, <2>5, <2>6, <2>7, PickStep
<1>7. CASE RecoverClaim(a)
    <2>1. PICK f \in ag[a].todo : Set(a, [ag[a] EXCEPT !.todo = ag[a].todo \ {f}, !.cur = f,
                                                  !.pc = IF f.why = "overflow" THEN "shelve" ELSE "link"])
        BY <1>2, <1>7 DEF RecoverClaim
    <2>2. PICK rest \in SUBSET ag[a].todo : rest = ag[a].todo \ {f}
        OBVIOUS
    <2>0. PICK l \in {"shelve", "link"} : l = IF f.why = "overflow" THEN "shelve" ELSE "link"
        OBVIOUS
    <2>3. Set(a, [ag[a] EXCEPT !.todo = rest, !.cur = f, !.pc = l, !.shelf = ag[a].shelf])
        BY <1>2, <2>0, <2>1, <2>2 DEF Calls
    <2>4. PICK n \in Nat : n = ag[a].shelf
        BY <1>2
    <2>5. Set(a, [ag[a] EXCEPT !.todo = rest, !.cur = f, !.pc = l, !.shelf = n])
        BY <2>3, <2>4
    <2>6. Outside /\ UNCHANGED files /\ f \in Files
        BY <1>2, <1>7 DEF RecoverClaim
    <2>7. f.at = "claim" /\ l \in Working
        BY <1>1, <1>2, <1>7, AtItem DEF RecoverClaim, At
    <2> QED BY <1>2, <1>u, <2>0, <2>5, <2>6, <2>7, PickStep
<1> QED BY <1>3, <1>4, <1>5, <1>6, <1>7

LEMMA WaitTyped ==
    ASSUME NEW w \in {"idle", "check", "stored", "send", "replay"}, NEW r \in Reports \cup {None}
    PROVE  /\ Waiting(w, r) \in Calls /\ Waiting(w, r).op = "wait" /\ Waiting(w, r).pc = "wait"
           /\ Waiting(w, r).after = w /\ Waiting(w, r).of = r /\ Waiting(w, r).todo = {}
<1>1. Waiting(w, r) = [op |-> "wait", pc |-> "wait", after |-> w, of |-> r, todo |-> {}, cur |-> NoFile,
                       shelf |-> 0, active |-> 0]
    <2>1. PICK i : i = Idle
        OBVIOUS
    <2>2. i = [op |-> "idle", pc |-> "idle", after |-> "idle", of |-> None, todo |-> {}, cur |-> NoFile,
               shelf |-> 0, active |-> 0]
        BY <2>1 DEF Idle
    <2>3. Waiting(w, r) = [i EXCEPT !.op = "wait", !.pc = "wait", !.after = w, !.of = r]
        BY <2>1 DEF Waiting
    <2> QED BY <2>2, <2>3
<1> QED BY <1>1 DEF Calls

LEMMA IdleTyped ==
    /\ Idle \in Calls /\ Idle.op = "idle" /\ Idle.pc = "idle" /\ Idle.after = "idle" /\ Idle.todo = {}
    /\ Idle.shelf = 0 /\ Idle.active = 0 /\ Idle.cur = NoFile
<1>1. Idle = [op |-> "idle", pc |-> "idle", after |-> "idle", of |-> None, todo |-> {}, cur |-> NoFile,
              shelf |-> 0, active |-> 0]
    BY DEF Idle
<1> QED BY <1>1 DEF Calls

LEMMA StartStep ==
    ASSUME IInv, NEW a \in Agents, NEW s0 \in Calls, s0.op = "wait",
           s0.after \in {"check", "stored", "send"} => s0.of \in Reports,
           s0.after = "stored" => s0.of \in Reports /\ Safely(s0.of),
           StartNow(a, s0), tries' \in [Reports -> 0..MaxTries],
           UNCHANGED <<files, munin, refused, marked, old, stored, faults>>
    PROVE  IInv' /\ StillSafe
<1>1. Shelf(files) \subseteq files /\ IsFiniteSet(files)
    BY DEF Shelf, IInv, TypeOK
<1>2. PICK n \in Nat : n = Cardinality(Shelf(files))
    BY <1>1, FS_Subset, FS_CardinalityType
<1>3. PICK s : s = [s0 EXCEPT !.shelf = n]
    OBVIOUS
<1>4. s \in Calls /\ s.op = "wait" /\ s.after = s0.after /\ s.of = s0.of
    BY <1>3 DEF Calls
<1>5. Set(a, Onward(s, files'))
    BY <1>2, <1>3 DEF StartNow
<1>6. /\ munin' \in SUBSET Reports /\ marked' \in SUBSET Reports /\ GoodFiles(files')
      /\ faults' \in 0..MaxFaults /\ Settled' = Settled
    BY StillTyped DEF IInv, Settled
<1> QED BY <1>4, <1>5, <1>6, NextStep

LEMMA StartSteps ==
    ASSUME IInv, NEW a \in Agents,
           Begin(a) \/ Replay(a) \/ \E r \in Reports : Enqueue(a, r)
    PROVE  IInv' /\ StillSafe
<1>1. CASE Begin(a)
    <2>1. PICK s \in Calls : s = ag[a]
        BY DEF IInv, TypeOK
    <2>2. /\ s.op = "wait" /\ StartNow(a, s)
          /\ s.after \in {"check", "stored", "send"} => s.of \in Reports
          /\ s.after = "stored" => s.of \in Reports /\ Safely(s.of)
        BY <1>1, <2>1 DEF Begin, At, IInv, Control
    <2>3. tries' \in [Reports -> 0..MaxTries] /\ UNCHANGED <<files, munin, refused, marked, old, stored, faults>>
        BY <1>1 DEF Begin, Outside, IInv, TypeOK
    <2> QED BY <2>2, <2>3, StartStep
<1>2. CASE Replay(a)
    <2>1. PICK s : s = Waiting("replay", None)
        OBVIOUS
    <2>2. s \in Calls /\ s.op = "wait" /\ s.after = "replay" /\ StartNow(a, s)
        BY <1>2, <2>1, WaitTyped DEF Replay
    <2>3. tries' \in [Reports -> 0..MaxTries] /\ UNCHANGED <<files, munin, refused, marked, old, stored, faults>>
        BY <1>2 DEF Replay, Outside, IInv, TypeOK
    <2> QED BY <2>2, <2>3, StartStep
<1>3. ASSUME NEW r \in Reports, Enqueue(a, r) PROVE IInv' /\ StillSafe
    <2>1. PICK s : s = Waiting("check", r)
        OBVIOUS
    <2>2. s \in Calls /\ s.op = "wait" /\ s.after = "check" /\ s.of = r /\ StartNow(a, s)
        BY <1>3, <2>1, WaitTyped DEF Enqueue
    <2>3. tries' \in [Reports -> 0..MaxTries] /\ UNCHANGED <<files, munin, refused, marked, old, stored, faults>>
        BY <1>3, BoundAssumption DEF Enqueue, IInv, TypeOK
    <2> QED BY <2>2, <2>3, StartStep
<1> QED BY <1>1, <1>2, <1>3

-----------------------------------------------------------------------------
(* An enqueue, and the delivery that follows it.                           *)

(* A step that only changes what the call is doing.                        *)
LEMMA OwnStep ==
    ASSUME IInv, NEW a \in Agents, NEW s \in Calls, Set(a, s),
           munin' \in SUBSET Reports, stored' \in SUBSET Reports, faults' \in 0..MaxFaults,
           UNCHANGED <<files, refused, marked, old, tries>>,
           Settled \subseteq Settled', s.pc # "drop",
           (\A r \in Reports : Safely(r) => Safely(r)') /\ ag'[a] = s => Control(a)',
           \A r \in stored' : r \in stored \/ Safely(r)
    PROVE  IInv' /\ StillSafe
<1>1. /\ marked' \in SUBSET Reports /\ GoodFiles(files') /\ tries' \in [Reports -> 0..MaxTries]
    BY StillTyped DEF IInv
<1>2. ag'[a] = s
    BY OtherCalls DEF IInv
<1> QED BY <1>1, <1>2, CallStep

LEMMA StoredStep ==
    ASSUME IInv, NEW a \in Agents, NEW r \in Reports, Safely(r), StoredThen(a, r),
           UNCHANGED <<files, munin, refused, marked, old, tries, faults>>
    PROVE  IInv' /\ StillSafe
<1>1. /\ munin' \in SUBSET Reports /\ stored' \in SUBSET Reports /\ faults' \in 0..MaxFaults
      /\ Settled' = Settled /\ \A q \in stored' : q \in stored \/ Safely(q)
    BY StillTyped DEF IInv, StoredThen, Settled
<1>2. CASE r \in Health
    <2>1. PICK w \in {"idle", "check", "stored", "send", "replay"} : w = "send"
        OBVIOUS
    <2>2. PICK s : s = Waiting(w, r)
        OBVIOUS
    <2>3. s \in Calls /\ s.pc = "wait" /\ s.op = "wait" /\ s.after = w /\ s.of = r
        BY <2>2, WaitTyped
    <2>4. Set(a, s)
        BY <1>2, <2>1, <2>2 DEF StoredThen, Maintain
    <2>5. ag'[a] = s => Control(a)'
        BY <2>1, <2>3 DEF Control, OnFile
    <2> QED BY <1>1, <2>3, <2>4, <2>5, OwnStep
<1>3. CASE r \notin Health
    <2>1. PICK s : s = Idle
        OBVIOUS
    <2>2. s \in Calls /\ s.pc = "idle" /\ s.op = "idle" /\ s.after = "idle"
        BY <2>1, IdleTyped
    <2>3. Set(a, s)
        BY <1>3, <2>1 DEF StoredThen
    <2>4. ag'[a] = s => Control(a)'
        BY <2>2 DEF Control, OnFile
    <2> QED BY <1>1, <2>2, <2>3, <2>4, OwnStep
<1> QED BY <1>2, <1>3

LEMMA TerminalStep ==
    ASSUME IInv, NEW a \in Agents, ag[a].pc \in {"decide", "begin"}, NEW r \in Reports, Terminal(a, r),
           munin' \in SUBSET Reports, faults' \in 0..MaxFaults,
           ag[a].after \in {"check", "stored", "send"} => ag[a].of \in Reports,
           UNCHANGED <<files, refused, marked, old, stored, tries>>,
           Settled \subseteq Settled'
    PROVE  IInv' /\ StillSafe
<1>0. PICK l \in Working : l = "mark"
    BY DEF Working
<1>1. PICK s : s = [ag[a] EXCEPT !.op = "end", !.pc = l, !.cur = Final(r)]
    OBVIOUS
<1>2. ag[a] \in Calls /\ "mark" \in Working
    BY DEF IInv, TypeOK, Working
<1>3. /\ s \in Calls /\ s.op = "end" /\ s.pc = l /\ s.cur = Final(r)
      /\ s.after = ag[a].after /\ s.of = ag[a].of
    <2>1. Final(r) \in Files
        BY FinalFields
    <2> QED BY <1>1, <1>2, <2>1 DEF Calls, Working
<1>4. Set(a, s)
    BY <1>0, <1>1 DEF Terminal
<1>5. ASSUME \A q \in Reports : Safely(q) => Safely(q)', ag'[a] = s PROVE Control(a)'
    <2>1. s.cur \in Files
        BY <1>3, FinalFields
    <2>2. s.after = "stored" => s.of \in Reports /\ Safely(s.of)
        BY <1>3 DEF IInv, Control
    <2>3. s.after = "stored" => Safely(s.of)'
        BY <2>2, <1>5
    <2> QED BY <1>0, <1>3, <1>5, <2>1, <2>3 DEF Control, OnFile
<1>6. stored' \in SUBSET Reports /\ \A q \in stored' : q \in stored
    BY StillTyped DEF IInv
<1> QED BY <1>0, <1>3, <1>4, <1>5, <1>6, OwnStep

LEMMA DecideStep ==
    ASSUME IInv, NEW a \in Agents, Decide(a)
    PROVE  IInv' /\ StillSafe
<1>1. PICK r \in Reports : r = ag[a].of
    BY DEF Decide, At, IInv, Control
<1>2. /\ ag[a] \in Calls /\ ag[a].pc = "decide" /\ ag[a].op = "check"
      /\ ag[a].after \in {"check", "stored", "send"} => ag[a].of \in Reports
      /\ UNCHANGED <<files, munin, refused, marked, old, tries, faults>>
    BY <1>1 DEF Decide, At, IInv, TypeOK
<1>3. /\ munin' \in SUBSET Reports /\ faults' \in 0..MaxFaults
      /\ Settled' = Settled /\ stored \in SUBSET Reports
    BY <1>2, StillTyped DEF IInv, Settled
<1>4. CASE Terminal(a, r) /\ UNCHANGED stored
    BY <1>2, <1>3, <1>4, TerminalStep
<1>5. CASE StoredThen(a, r) /\ \E f \in ag[a].todo : f.of = r /\ Event(f)
    <2>1. Safely(r)
        BY <1>2, <1>5 DEF IInv, Control
    <2> QED BY <1>2, <1>5, <2>1, StoredStep
<1>6. CASE Set(a, Idle) /\ UNCHANGED stored
    <2>1. PICK s : s = Idle
        OBVIOUS
    <2>2. s \in Calls /\ s.pc = "idle" /\ s.op = "idle" /\ s.after = "idle" /\ Set(a, s)
        BY <1>6, <2>1, IdleTyped
    <2>3. ag'[a] = s => Control(a)'
        BY <2>2 DEF Control, OnFile
    <2> QED BY <1>2, <1>3, <1>6, <2>2, <2>3, OwnStep
<1>7. CASE Set(a, [Idle EXCEPT !.op = "make", !.pc = "open", !.of = r, !.after = "stored"]) /\ UNCHANGED stored
    <2>1. PICK s : s = [Idle EXCEPT !.op = "make", !.pc = "open", !.of = r, !.after = "stored"]
        OBVIOUS
    <2>2. /\ s \in Calls /\ s.pc = "open" /\ s.op = "make" /\ s.after = "stored" /\ s.of = r /\ Set(a, s)
          /\ s.todo = {}
        <3>1. PICK i \in Calls : i = Idle
            BY IdleTyped
        <3>2. s = [i EXCEPT !.op = "make", !.pc = "open", !.of = r, !.after = "stored"]
            BY <2>1, <3>1
        <3> QED BY <1>7, <2>1, <3>1, <3>2, IdleTyped DEF Calls
    <2>3. ag'[a] = s => Control(a)'
        BY <2>2 DEF Control, OnFile
    <2> QED BY <1>2, <1>3, <1>7, <2>2, <2>3, OwnStep
<1> QED BY <1>1, <1>4, <1>5, <1>6, <1>7 DEF Decide, At

(* The steps that put a new event in place; none removes one.              *)
LEMMA MakeStep ==
    ASSUME IInv, NEW a \in Agents, NEW l \in {"open", "fsync", "place", "await", "tidy"},
           NEW k \in {"fsync", "place", "await", "tidy"}, NEW c \in Files,
           At(a, "make", l), Outside, GoodFiles(files'),
           Set(a, [ag[a] EXCEPT !.pc = k, !.cur = c]),
           \A g \in files \ files' : ~Placed(g),
           \A g \in files' \ files : ~Placed(g) \/ g = Final(ag[a].of),
           c.at = IF k = "fsync" THEN "part" ELSE "temp", k = "fsync" => c.n # 0,
           k = "tidy" => Final(ag[a].of) \in files'
    PROVE  IInv' /\ StillSafe
<1>1. PICK r \in Reports : r = ag[a].of
    BY DEF At, IInv, Control
<1>2. PICK s : s = [ag[a] EXCEPT !.pc = k, !.cur = c]
    OBVIOUS
<1>3. /\ s \in Calls /\ s.op = "make" /\ s.pc = k /\ s.cur = c /\ s.of = r /\ s.after = "stored" /\ s.todo = ag[a].todo
    <2>1. ag[a] \in Calls /\ ag[a].op = "make" /\ ag[a].after = "stored" /\ ag[a].of = r
        BY <1>1 DEF IInv, TypeOK, Control, At
    <2> QED BY <1>2, <2>1 DEF Calls
<1>4. Set(a, s) /\ ag'[a] = s /\ \A b \in Agents \ {a} : ag'[b] = ag[b]
    BY <1>2, OtherCalls DEF IInv
<1>5. Final(r).at = "event" /\ Final(r).of = r
    BY FinalFields
<1>6. /\ munin' \in SUBSET Reports /\ marked' \in SUBSET Reports /\ stored' \in SUBSET Reports
      /\ tries' \in [Reports -> 0..MaxTries] /\ faults' \in 0..MaxFaults
      /\ UNCHANGED <<refused, old, stored>> /\ Settled' = Settled
    BY StillTyped DEF IInv, Outside, Settled
<1>7. Final(r) \in files' => r \in Settled' \/ Spared(r)'
    BY <1>3, <1>4, <1>6, FinalIsSpare
<1>8. \A g \in files' \ files : ~Placed(g) \/ g.of \in Settled' \/ Spared(g.of)'
    BY <1>1, <1>5, <1>7
<1>9. Control(a)'
    <2>1. k = "tidy" => Safely(r)'
        <3>1. Final(r) \in files' => Kept(r)'
            BY <1>5 DEF Kept
        <3> QED BY <1>1, <3>1 DEF Safely
    <2> QED BY <1>3, <1>4, <2>1 DEF Control, OnFile
<1> QED BY <1>3, <1>4, <1>6, <1>8, <1>9, CallStep

LEMMA MakeSteps ==
    ASSUME IInv, NEW a \in Agents, Open(a) \/ Fsync(a) \/ Place(a) \/ Await(a)
    PROVE  IInv' /\ StillSafe
<1>1. PICK r \in Reports : r = ag[a].of
    BY DEF Open, Fsync, Place, Await, At, IInv, Control
<1>2. ag[a] \in Calls /\ ag[a].op = "make" /\ GoodFiles(files) /\ Outside
    BY StillTyped DEF Open, Fsync, Place, Await, At, IInv, TypeOK
<1>3. Final(r) \in Files /\ Final(r).n = 0 /\ Final(r).at = "event" /\ Final(r).of = r
    <2>1. Final(r).n = 0
        BY DEF Final, File
    <2> QED BY <2>1, FinalFields
<1>4. CASE Open(a)
    <2>1. PICK k \in {"fsync", "place", "await", "tidy"} : k = "fsync"
        OBVIOUS
    <2>2. PICK l \in {"open", "fsync", "place", "await", "tidy"} : l = "open"
        OBVIOUS
    <2>3. PICK f : f = File("part", r, Fresh, "")
        OBVIOUS
    <2>4. "part" \in Places \ {"event"} /\ "" \in Reasons /\ Unused # {} /\ TypeOK
        BY <1>4 DEF Places, Reasons, Open, IInv
    <2>5. GoodFiles(files \cup {File("part", r, Fresh, "")})
        BY <2>4, NewFile
    <2>6. f.at = "part" /\ f.n # 0
        BY <2>3, <2>4, FreshName, NameAssumption DEF File
    <2>7. files' = files \cup {f} /\ Set(a, [ag[a] EXCEPT !.pc = k, !.cur = f])
        BY <1>1, <1>4, <2>1, <2>3 DEF Open
    <2>8. GoodFiles(files') /\ f \in Files
        BY <2>3, <2>5, <2>7 DEF GoodFiles
    <2>9. \A g \in files' \ files : ~Placed(g)
        BY <2>6, <2>7 DEF Placed
    <2>10. At(a, "make", l) /\ \A g \in files : g \in files'
        BY <1>4, <2>2, <2>7 DEF Open
    <2> QED BY <1>2, <2>1, <2>6, <2>7, <2>8, <2>9, <2>10, MakeStep
<1>5. CASE Fsync(a)
    <2>1. PICK k \in {"fsync", "place", "await", "tidy"} : k = "place"
        OBVIOUS
    <2>2. PICK l \in {"open", "fsync", "place", "await", "tidy"} : l = "fsync"
        OBVIOUS
    <2>3. PICK c \in Files : c = ag[a].cur
        BY <1>5 DEF Fsync, At, IInv, Control, OnFile
    <2>4. c.at = "part"
        BY <1>5, <2>3 DEF Fsync, At, IInv, Control
    <2>5. PICK f : f = [c EXCEPT !.at = "temp"]
        OBVIOUS
    <2>6. f \in Files /\ f.at = "temp" /\ f.n = c.n
        BY <2>5 DEF Files, Places
    <2>7. files' = (files \ {c}) \cup {f} /\ Set(a, [ag[a] EXCEPT !.pc = k, !.cur = f])
        BY <1>5, <2>1, <2>3, <2>5 DEF Fsync
    <2>8. c.n # 0
        BY <1>5, <2>3 DEF Fsync, At, IInv, Control
    <2>9. GoodFiles(files')
        BY <2>6, <2>7, <2>8, Removal, Addition DEF IInv
    <2>10. /\ \A g \in files' \ files : ~Placed(g)
           /\ \A g \in files \ files' : ~Placed(g)
        BY <2>4, <2>6, <2>7 DEF Placed
    <2>11. At(a, "make", l)
        BY <1>5, <2>2 DEF Fsync
    <2> QED BY <1>2, <2>1, <2>6, <2>7, <2>9, <2>10, <2>11, MakeStep
<1>6. CASE (Place(a) \/ Await(a)) /\ \E k \in {"await", "tidy"} : Goto(a, k)
    <2>1. PICK k \in {"await", "tidy"} : Goto(a, k)
        BY <1>6
    <2>2. PICK l \in {"place", "await"} : At(a, "make", l)
        BY <1>6 DEF Place, Await
    <2>3. PICK c \in Files : c = ag[a].cur
        BY <2>2 DEF At, IInv, Control, OnFile
    <2>4. c.at = "temp"
        BY <2>2, <2>3 DEF At, IInv, Control
    <2>5. Set(a, [ag[a] EXCEPT !.pc = k, !.cur = c])
        BY <1>2, <2>1, <2>3 DEF Goto, Calls
    <2>6. files' = files \/ files' = files \cup {Final(r)}
        BY <1>1, <1>6 DEF Place, Await
    <2>7. GoodFiles(files')
        BY <1>2, <1>3, <2>6, Addition
    <2>8. ag'[a].pc = k
        BY <1>2, <2>1 DEF Goto, Set, IInv, TypeOK, Calls
    <2>9. k = "tidy" => Final(ag[a].of) \in files'
        <3>1. CASE Place(a)
            <4>1. CASE ag[a].cur \in files
                BY <3>1, <4>1 DEF Place
            <4>2. CASE ag[a].cur \notin files
                <5>1. Goto(a, "await")
                    BY <3>1, <4>2 DEF Place
                <5>2. ag'[a].pc = "await"
                    BY <1>2, <5>1 DEF Goto, Set, IInv, TypeOK, Calls
                <5> QED BY <5>2, <2>8
            <4> QED BY <4>1, <4>2
        <3>2. CASE Await(a)
            <4>1. CASE Final(ag[a].of) \in files
                BY <3>2, <4>1 DEF Await
            <4>2. CASE Set(a, Idle)
                <5>1. ag'[a] = Idle
                    BY <4>2, OtherCalls DEF IInv
                <5> QED BY <5>1, <2>8, IdleTyped
            <4> QED BY <3>2, <4>1, <4>2 DEF Await
        <3> QED BY <1>6, <3>1, <3>2
    <2>10. /\ \A g \in files' \ files : g = Final(ag[a].of)
           /\ \A g \in files : g \in files'
        BY <1>1, <2>6
    <2> QED BY <1>2, <2>2, <2>4, <2>5, <2>7, <2>9, <2>10, MakeStep
<1>7. CASE Set(a, Idle) /\ UNCHANGED files
    <2>1. PICK s : s = Idle
        OBVIOUS
    <2>2. s \in Calls /\ s.pc = "idle" /\ s.op = "idle" /\ s.after = "idle" /\ Set(a, s)
        BY <1>7, <2>1, IdleTyped
    <2>3. ag'[a] = s => Control(a)'
        BY <2>2 DEF Control, OnFile
    <2>4. /\ munin' \in SUBSET Reports /\ faults' \in 0..MaxFaults /\ stored' \in SUBSET Reports
          /\ Settled' = Settled /\ UNCHANGED <<files, refused, marked, old, tries, stored>>
        BY <1>2, <1>7, StillTyped DEF IInv, Settled, Outside
    <2> QED BY <2>2, <2>3, <2>4, OwnStep
<1> QED BY <1>4, <1>5, <1>6, <1>7 DEF Place, Await

LEMMA TidySteps ==
    ASSUME IInv, NEW a \in Agents, Tidy(a) \/ ReturnStored(a)
    PROVE  IInv' /\ StillSafe
<1>1. PICK r \in Reports : r = ag[a].of
    BY DEF Tidy, ReturnStored, At, IInv, Control
<1>2. Safely(r)
    BY <1>1 DEF Tidy, ReturnStored, At, IInv, Control
<1>3. CASE ReturnStored(a)
    BY <1>1, <1>2, <1>3, StoredStep DEF ReturnStored
<1>4. CASE Tidy(a)
    <2>1. PICK c : c = ag[a].cur
        OBVIOUS
    <2>2. c.at = "temp"
        BY <1>4, <2>1 DEF Tidy, At, IInv, Control
    <2>3. files' = files \ {c} /\ GoodFiles(files')
        BY <1>4, <2>1, Removal DEF Tidy, IInv
    <2>4. PICK w \in {"idle", "check", "stored", "send", "replay"} : w = "stored"
        OBVIOUS
    <2>5. PICK s : s = Waiting(w, r)
        OBVIOUS
    <2>6. s \in Calls /\ s.pc = "wait" /\ s.op = "wait" /\ s.after = w /\ s.of = r
        BY <2>5, WaitTyped
    <2>7. Set(a, s) /\ ag'[a] = s
        BY <1>1, <1>4, <2>4, <2>5, OtherCalls DEF Tidy, Maintain, IInv
    <2>8. /\ munin' \in SUBSET Reports /\ marked' \in SUBSET Reports /\ stored' \in SUBSET Reports
          /\ tries' \in [Reports -> 0..MaxTries] /\ faults' \in 0..MaxFaults
          /\ UNCHANGED <<refused, old, stored>> /\ Settled' = Settled
        BY <1>4, StillTyped DEF IInv, Settled, Tidy, Outside
    <2>9. \A g \in files \ files' : ~Placed(g)
        BY <2>2, <2>3 DEF Placed
    <2>10. ASSUME \A q \in Reports : Safely(q) => Safely(q)' PROVE Control(a)'
        <3>1. Safely(r)'
            BY <1>2, <2>10
        <3> QED BY <3>1, <2>4, <2>6, <2>7 DEF Control, OnFile
    <2> QED BY <2>3, <2>6, <2>7, <2>8, <2>9, <2>10, CallStep
<1> QED BY <1>3, <1>4

LEMMA AnswerTyped ==
    ASSUME TypeOK, NEW r \in Reports, Accepted(r) \/ Refused(r) \/ Ambiguous(r)
    PROVE  /\ munin' \in SUBSET Reports /\ faults' \in 0..MaxFaults
           /\ munin \subseteq munin' /\ (Accepted(r) => r \in munin')
BY BoundAssumption DEF TypeOK, Accepted, Refused, Ambiguous

LEMMA SendStep ==
    ASSUME IInv, NEW a \in Agents, Send(a)
    PROVE  IInv' /\ StillSafe
<1>1. PICK r \in Reports : r = ag[a].of
    BY DEF Send, At, IInv, Control
<1>2. /\ ag[a] \in Calls /\ ag[a].pc = "begin"
      /\ ag[a].after \in {"check", "stored", "send"} => ag[a].of \in Reports
      /\ UNCHANGED <<files, refused, marked, old, stored, tries>>
    BY <1>1 DEF Send, At, IInv, TypeOK
<1>3. UNCHANGED <<munin, faults>> \/ Accepted(r) \/ Refused(r) \/ Ambiguous(r)
    BY <1>1 DEF Send
<1>4. /\ munin' \in SUBSET Reports /\ faults' \in 0..MaxFaults /\ Settled \subseteq Settled'
      /\ Accepted(r) => r \in Settled'
    BY <1>2, <1>3, AnswerTyped, StillTyped DEF IInv, Settled
<1>5. CASE Terminal(a, r)
    BY <1>2, <1>4, <1>5, TerminalStep
<1>6. CASE Set(a, Idle)
    <2>1. PICK s : s = Idle
        OBVIOUS
    <2>2. s \in Calls /\ s.pc = "idle" /\ s.op = "idle" /\ s.after = "idle" /\ Set(a, s)
        BY <1>6, <2>1, IdleTyped
    <2>3. ag'[a] = s => Control(a)'
        BY <2>2 DEF Control, OnFile
    <2>4. stored' \in SUBSET Reports /\ \A q \in stored' : q \in stored
        BY <1>2, StillTyped DEF IInv
    <2> QED BY <1>2, <1>4, <2>2, <2>3, <2>4, OwnStep
<1>7. CASE Accepted(r) /\ Set(a, [ag[a] EXCEPT !.op = "end", !.pc = "clear", !.cur = Final(r)])
    <2>1. PICK s : s = [ag[a] EXCEPT !.op = "end", !.pc = "clear", !.cur = Final(r)]
        OBVIOUS
    <2>2. Final(r) \in Files /\ Final(r).of = r
        BY FinalFields
    <2>3. /\ s \in Calls /\ s.op = "end" /\ s.pc = "clear" /\ s.cur = Final(r)
          /\ s.after = ag[a].after /\ s.of = r
        BY <1>1, <1>2, <2>1, <2>2 DEF Calls
    <2>4. Set(a, s)
        BY <1>7, <2>1
    <2>5. ASSUME \A q \in Reports : Safely(q) => Safely(q)', ag'[a] = s PROVE Control(a)'
        <3>1. s.after = "stored" => Safely(r)'
            BY <1>1, <1>2, <2>3, <2>5 DEF IInv, Control
        <3> QED BY <1>4, <1>7, <2>2, <2>3, <2>5, <3>1 DEF Control, OnFile
    <2>6. stored' \in SUBSET Reports /\ \A q \in stored' : q \in stored
        BY <1>2, StillTyped DEF IInv
    <2> QED BY <1>2, <1>4, <2>3, <2>4, <2>5, <2>6, OwnStep
<1> QED BY <1>1, <1>5, <1>6, <1>7 DEF Send

LEMMA ReplayOneStep ==
    ASSUME IInv, NEW a \in Agents, NEW f \in ag[a].todo, ReplayOne(a, f)
    PROVE  IInv' /\ StillSafe
<1>1. /\ ag[a].pc = "item" /\ ag[a] \in Calls /\ f \in Files /\ f.of \in Reports /\ GoodFiles(files')
      /\ UNCHANGED <<files, refused, marked, old, stored, tries>>
    <2>1. ag[a].pc = "item" /\ UNCHANGED <<files, refused, marked, old, stored, tries>>
        BY DEF ReplayOne, At
    <2> QED BY <2>1, AtItem DEF Files
<1>2. PICK r \in Reports : r = f.of
    BY <1>1
<1>3. UNCHANGED <<munin, faults>> \/ Accepted(r) \/ Refused(r) \/ Ambiguous(r)
    BY <1>2 DEF ReplayOne
<1>4. /\ munin' \in SUBSET Reports /\ faults' \in 0..MaxFaults /\ Settled \subseteq Settled'
      /\ Accepted(r) => r \in Settled'
    BY <1>1, <1>3, AnswerTyped, StillTyped DEF IInv, Settled
<1>5. PICK rest \in SUBSET ag[a].todo : rest = ag[a].todo \ {f}
    OBVIOUS
<1>6. ASSUME NEW l \in {"drop", "mark"}, l = "drop" => r \in Settled',
             Set(a, [ag[a] EXCEPT !.todo = ag[a].todo \ {f}, !.cur = f, !.pc = l])
      PROVE  IInv' /\ StillSafe
    <2>1. PICK n \in Nat : n = ag[a].shelf
        BY <1>1 DEF Calls
    <2>2. Set(a, [ag[a] EXCEPT !.todo = rest, !.cur = f, !.pc = l, !.shelf = n])
        BY <1>1, <1>5, <1>6, <2>1 DEF Calls
    <2>3. /\ l \in Working
          /\ l \in {"drop", "clear"} => f.of \in Settled'
          /\ l \in {"link", "same", "shelve"} => f.at = "claim"
        BY <1>2, <1>6 DEF Working
    <2> QED BY <1>1, <1>4, <2>2, <2>3, PickStep
<1>7. CASE Set(a, Onward([ag[a] EXCEPT !.todo = rest], files))
    BY <1>1, <1>4, <1>7, PassStep
<1> QED BY <1>2, <1>4, <1>5, <1>6, <1>7 DEF ReplayOne

-----------------------------------------------------------------------------
LEMMA AgeStep ==
    ASSUME IInv, NEW r \in Reports, Age(r)
    PROVE  IInv' /\ StillSafe
<1>1. UNCHANGED <<files, munin, refused, marked, ag, stored, tries, faults>> /\ old' \in SUBSET Health
    BY DEF Age, IInv, TypeOK
<1>2. TypeOK' /\ Settled' = Settled
    BY <1>1 DEF IInv, TypeOK, Settled
<1>3. \A q : /\ Kept(q)' <=> Kept(q)
             /\ Safely(q)' <=> Safely(q)
             /\ Spared(q)' <=> Spared(q)
    BY <1>1, <1>2 DEF Kept, Safely, Spared, Spare
<1>4. \A a \in Agents : Control(a)'
    BY <1>1, <1>2, <1>3 DEF IInv, Control
<1>5. Covered' /\ NothingLost' /\ StillSafe
    BY <1>1, <1>2, <1>3 DEF IInv, Covered, NothingLost, StillSafe
<1> QED BY <1>2, <1>4, <1>5 DEF IInv

LEMMA CrashStep ==
    ASSUME IInv, NEW i \in Instances, Crash(i)
    PROVE  IInv' /\ StillSafe
<1>1. UNCHANGED <<files, munin, refused, marked, old, stored, tries>> /\ faults' \in 0..MaxFaults
    BY BoundAssumption DEF Crash, IInv, TypeOK
<1>2. ag' \in [Agents -> Calls] /\ \A a \in Agents : ag'[a] = ag[a] \/ ag'[a] = Idle
    BY IdleTyped DEF Crash, IInv, TypeOK
<1>3. TypeOK' /\ Settled' = Settled
    BY <1>1, <1>2 DEF IInv, TypeOK, Settled
<1>4. \A q : /\ Kept(q)' <=> Kept(q)
             /\ Safely(q)' <=> Safely(q)
    BY <1>1, <1>3 DEF Kept, Safely
<1>5. \A q : Spared(q) => Spared(q)'
    <2>1. ASSUME NEW q, NEW g \in files, Spare(g, q) PROVE Spare(g, q)'
        <3>1. ASSUME NEW a \in Agents, ag'[a].pc = "drop" PROVE ag'[a].cur # g
            BY <1>2, <2>1, <3>1, IdleTyped DEF Spare
        <3> QED BY <1>1, <2>1, <3>1 DEF Spare
    <2> QED BY <1>1, <2>1 DEF Spared
<1>6. ASSUME NEW a \in Agents PROVE Control(a)'
    <2>1. CASE ag'[a] = ag[a]
        <3>1. Control(a)
            BY DEF IInv
        <3> QED BY <2>1, <3>1, <1>3, <1>4 DEF Control
    <2>2. CASE ag'[a] = Idle
        BY <2>2, IdleTyped DEF Control, OnFile
    <2> QED BY <1>2, <2>1, <2>2
<1>7. Covered' /\ NothingLost' /\ StillSafe
    BY <1>1, <1>3, <1>4, <1>5 DEF IInv, Covered, NothingLost, StillSafe
<1> QED BY <1>3, <1>6, <1>7 DEF IInv

LEMMA StutterStep ==
    ASSUME IInv, UNCHANGED vars
    PROVE  IInv' /\ StillSafe
<1>1. UNCHANGED <<files, munin, refused, marked, old, ag, stored, tries, faults>>
    BY DEF vars
<1>2. TypeOK' /\ Settled' = Settled
    BY <1>1 DEF IInv, TypeOK, Settled
<1>3. \A q : /\ Kept(q)' <=> Kept(q)
             /\ Safely(q)' <=> Safely(q)
             /\ Spared(q)' <=> Spared(q)
    BY <1>1, <1>2 DEF Kept, Safely, Spared, Spare
<1>4. \A a \in Agents : Control(a)'
    BY <1>1, <1>2, <1>3 DEF IInv, Control
<1>5. Covered' /\ NothingLost' /\ StillSafe
    BY <1>1, <1>2, <1>3 DEF IInv, Covered, NothingLost, StillSafe
<1> QED BY <1>2, <1>4, <1>5 DEF IInv

LEMMA Invariance ==
    ASSUME IInv, [Next]_vars
    PROVE  IInv' /\ StillSafe
<1>1. ASSUME NEW a \in Agents, Step(a) PROVE IInv' /\ StillSafe
    BY <1>1, LinkSteps, DropStep, ShelveStep, MarkStep, PartSteps, DecideStep, MakeSteps, TidySteps,
       SendStep, ReplayOneStep DEF Step
<1>2. ASSUME NEW a \in Agents, Begin(a) \/ Replay(a) \/ \E r \in Reports : Enqueue(a, r)
      PROVE IInv' /\ StillSafe
    BY <1>2, StartSteps
<1> QED BY <1>1, <1>2, AgeStep, CrashStep, StutterStep DEF Next

(* What a dead process has left is whole, and no call is there to harm it. *)
LEMMA Initial == Init => IInv
<1> SUFFICES ASSUME Init PROVE IInv
    OBVIOUS
<1>1. GoodFiles(files)
    <2>1. CASE files = {}
        BY <2>1, FS_EmptySet DEF GoodFiles
    <2>2. ASSUME NEW r \in Reports, files = {File("part", r, 1, "")} PROVE GoodFiles(files)
        <3>1. File("part", r, 1, "") \in Files /\ File("part", r, 1, "").n = 1 /\ File("part", r, 1, "").at = "part"
            BY NameAssumption DEF File, Files, Places, Reasons
        <3>2. IsFiniteSet(files)
            BY <2>2, FS_Singleton
        <3>3. PICK f : f = File("part", r, 1, "")
            OBVIOUS
        <3>4. files = {f} /\ f \in Files /\ f.n = 1 /\ f.at = "part"
            BY <2>2, <3>1, <3>3
        <3> QED BY <3>2, <3>4 DEF GoodFiles
    <2>3. ASSUME NEW r \in Reports, files = {Final(r)} PROVE GoodFiles(files)
        <3>1. Final(r) \in Files /\ Final(r).of = r
            BY FinalFields
        <3> QED BY <2>3, <3>1, FS_Singleton DEF GoodFiles
    <2>4. files = {} \/ \E r \in Reports : files = {File("part", r, 1, "")} \/ files = {Final(r)}
        BY DEF Init
    <2> QED BY <2>1, <2>2, <2>3, <2>4
<1>f. faults \in 0..MaxFaults
    <2>1. faults = 0 \/ (faults = 1 /\ 1 <= MaxFaults)
        BY DEF Init
    <2>2. MaxFaults \in Nat
        BY BoundAssumption
    <2> QED BY <2>1, <2>2
<1>2. /\ ag = [a \in Agents |-> Idle] /\ stored = {} /\ munin = {} /\ marked = {} /\ old = {}
      /\ refused \in SUBSET Health /\ tries = [r \in Reports |-> 0] /\ faults \in 0..MaxFaults
    BY <1>f DEF Init
<1>3. TypeOK
    BY <1>1, <1>2, IdleTyped, BoundAssumption DEF TypeOK, GoodFiles
<1>4. \A a \in Agents : ag[a] = Idle
    BY <1>2
<1>5. \A a \in Agents : Control(a)
    BY <1>4, IdleTyped DEF Control, OnFile
<1>6. \A a \in Agents : ag[a].pc # "drop"
    BY <1>4, IdleTyped
<1>7. Covered
    BY <1>6 DEF Covered, Kept, Spared, Spare
<1>8. NothingLost
    BY <1>2 DEF NothingLost
<1> QED BY <1>3, <1>5, <1>7, <1>8 DEF IInv

LEMMA Inductive == Spec => []IInv
<1>1. IInv /\ [Next]_vars => IInv'
    BY Invariance
<1> QED BY Initial, <1>1, PTL DEF Spec

(* The directory, the calls and the ledgers are always well-formed.        *)
THEOREM TypeCorrect == Spec => []TypeOK
<1>1. IInv => TypeOK
    BY DEF IInv
<1> QED BY Inductive, <1>1, PTL

(* An outbox that has said stored:true (outbox.ts, enqueue) holds the      *)
(* report, or Munin does, or a marker says why not.                        *)
THEOREM NothingLostAlways == Spec => []NothingLost
<1>1. IInv => NothingLost
    BY DEF IInv
<1> QED BY Inductive, <1>1, PTL

(* No step of any process removes the last copy of an unsettled report.    *)
THEOREM LastCopyKept == Spec => LastCopy
<1>1. IInv /\ [Next]_vars => [\A r \in Reports \ Settled' : Kept(r) => Kept(r)']_vars
    BY Invariance DEF StillSafe
<1> QED BY Inductive, <1>1, PTL DEF LastCopy, Spec
=============================================================================
