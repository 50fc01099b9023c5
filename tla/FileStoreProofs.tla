-------------------------- MODULE FileStoreProofs --------------------------
(* Theorems about FileStore, for any number of processes, beacons, sources, *)
(* signals and operations.                                                  *)
EXTENDS FileStore, SequenceTheorems, TLAPS

Stages == {"down", "idle", "changed", "written", "saved"}
Owed == [seen : SUBSET Key, findings : SUBSET Finding, purged : SUBSET Sources]

LEMMA FreshType == Fresh \in Stored /\ Nothing \in Owed
BY DEF Fresh, Stored, Nothing, Owed

LEMMA FindingKey == \A f \in Finding : f.key \in Key
BY DEF Finding

(* The memory after each operation is a store again.                        *)
LEMMA ChangesTyped ==
  ASSUME NEW c \in Stored
  PROVE  /\ \A k \in Key : [c EXCEPT !.seen = @ \cup {key(k)}] \in Stored
         /\ \A f \in Finding :
              [c EXCEPT !.seen = @ \cup {key(f.key)}, !.findings = @ \cup {f}] \in Stored
         /\ \A id \in ClaimIds, who \in Claimants : [c EXCEPT !.claims[id] = who] \in Stored
         /\ \A src \in Sources : Without(c, src) \in Stored
<1>1. ASSUME NEW k \in Key PROVE [c EXCEPT !.seen = @ \cup {key(k)}] \in Stored
  BY DEF Stored
<1>2. ASSUME NEW f \in Finding
      PROVE [c EXCEPT !.seen = @ \cup {key(f.key)}, !.findings = @ \cup {f}] \in Stored
  BY FindingKey DEF Stored
<1>3. ASSUME NEW id \in ClaimIds, NEW who \in Claimants
      PROVE [c EXCEPT !.claims[id] = who] \in Stored
  BY DEF Stored
<1>4. ASSUME NEW src \in Sources PROVE Without(c, src) \in Stored
  BY DEF Stored, Without, RowsOf
<1> QED BY <1>1, <1>2, <1>3, <1>4

(* How a process leaves an operation, as a typed change.                    *)
LEMMA ReleaseType ==
  ASSUME TypeOK, NEW p \in Processes, Release(p)
  PROVE  /\ stage' \in [Processes -> Stages]
         /\ mem' \in [Processes -> Stored] /\ temp' \in [Processes -> Stored]
         /\ owed' \in [Processes -> Owed]
BY FreshType DEF TypeOK, Release, Stages, Owed

LEMMA CollectType ==
  ASSUME TypeOK, NEW p \in Processes, NEW due \in Owed, NEW src \in Sources,
         Collect(p, due, src)
  PROVE  owed' \in [Processes -> Owed] /\ gone' \subseteq Sources
BY DEF TypeOK, Collect, Owed

LEMMA ChangeType ==
  ASSUME TypeOK, NEW p \in Processes, NEW after \in Stored, Change(p, after)
  PROVE  /\ stage' \in [Processes -> Stages]
         /\ mem' \in [Processes -> Stored]
         /\ UNCHANGED <<temp, disk>>
BY DEF TypeOK, Change, Stages

LEMMA TypeInit == Init => TypeOK
BY FreshType DEF Init, TypeOK, Owed

LEMMA TypeStep == TypeOK /\ [Next]_vars => TypeOK'
<1> SUFFICES ASSUME TypeOK, [Next]_vars PROVE TypeOK'
  OBVIOUS
<1>1. CASE UNCHANGED vars
  BY <1>1 DEF vars, TypeOK
<1>2. ASSUME NEW p \in Processes,
             OpenFile(p) \/ Operation(p) \/ WriteTemp(p) \/ Rename(p)
               \/ SaveFails(p) \/ Return(p) \/ Exit(p)
      PROVE  TypeOK'
  <2>1. CASE OpenFile(p)
    <3>2. (IF p \in Purgers THEN Sources \ Collecting ELSE {}) \subseteq Sources
      OBVIOUS
    <3>3. owed' \in [Processes -> Owed]
      BY <2>1, <3>2 DEF OpenFile, TypeOK, Owed
    <3> QED BY <2>1, <3>3 DEF OpenFile, TypeOK, Owed
  <2>2. ASSUME NEW k \in Key, MarkSeen(p, k) PROVE TypeOK'
    <3>1. [Nothing EXCEPT !.seen = {k}] \in Owed /\ k[2] \in Sources
      BY DEF Nothing, Owed, Key
    <3> QED BY <2>2, <3>1, CollectType, ChangeType, ChangesTyped
            DEF MarkSeen, TypeOK, Owed, Stages
  <2>3. ASSUME NEW f \in Finding, Record(p, f) PROVE TypeOK'
    <3>1. [Nothing EXCEPT !.seen = {f.key}, !.findings = {f}] \in Owed /\ f.key[2] \in Sources
      BY FindingKey DEF Nothing, Owed, Key
    <3> QED BY <2>3, <3>1, CollectType, ChangeType, ChangesTyped
            DEF Record, TypeOK, Owed, Stages
  <2>4. ASSUME NEW id \in ClaimIds, NEW who \in Claimants, Claim(p, id, who) PROVE TypeOK'
    BY <2>4, ChangeType, ChangesTyped DEF Claim, TypeOK, Stages
  <2>5. ASSUME NEW src \in Sources, PurgeSource(p, src) PROVE TypeOK'
    <3>1. owed' \in [Processes -> Owed]
      BY <2>5 DEF PurgeSource, TypeOK, Owed
    <3>2. promised' \in [seen : SUBSET Key, findings : SUBSET Finding]
      BY <2>5 DEF PurgeSource, TypeOK
    <3> QED BY <2>5, <3>1, <3>2, ChangeType, ChangesTyped DEF PurgeSource, TypeOK, Owed, Stages
  <2>6. ASSUME NEW src \in Sources, PurgeNothing(p, src) PROVE TypeOK'
    BY <2>6 DEF PurgeNothing, TypeOK
  <2>7. CASE WriteTemp(p)
    BY <2>7 DEF WriteTemp, TypeOK
  <2>8. CASE Rename(p)
    BY <2>8, FreshType DEF Rename, TypeOK
  <2>9. CASE SaveFails(p)
    BY <2>9, ReleaseType DEF SaveFails, TypeOK, Stages, Owed
  <2>10. CASE Return(p)
    <3>1. /\ promised' \in [seen : SUBSET Key, findings : SUBSET Finding]
          /\ gone' \subseteq Sources
      BY <2>10 DEF Return, TypeOK
    <3> QED BY <2>10, <3>1, ReleaseType DEF Return, TypeOK, Stages, Owed
  <2>11. CASE Exit(p)
    BY <2>11, FreshType DEF Exit, TypeOK, Owed
  <2> QED BY <1>2, <2>1, <2>2, <2>3, <2>4, <2>5, <2>6, <2>7, <2>8, <2>9, <2>10, <2>11
          DEF Operation
<1> QED BY <1>1, <1>2 DEF Next

(* The variables always have their types, with any number of writers and    *)
(* whatever the beacons are called.                                         *)
THEOREM TypeCorrect == Spec => []TypeOK
BY TypeInit, TypeStep, PTL DEF Spec

-----------------------------------------------------------------------------
(* Joining three plain segments.                                            *)
LEMMA JoinThree ==
  ASSUME NEW b, NEW s, NEW i
  PROVE  <<b>> \o <<s, i>> = <<b, s, i>>
<1> DEFINE S == {b, s, i}
<1>1. <<b>> \in Seq(S) /\ Len(<<b>>) = 1
  OBVIOUS
<1>2. <<s, i>> \in Seq(S) /\ Len(<<s, i>>) = 2
  OBVIOUS
<1>3. <<b, s, i>> \in Seq(S) /\ Len(<<b, s, i>>) = 3
  OBVIOUS
<1> HIDE DEF S
<1>4. <<b>> \o <<s, i>> \in Seq(S)
  BY <1>1, <1>2
<1>5. Len(<<b>> \o <<s, i>>) = 3
  BY <1>1, <1>2
<1>6. (<<b>> \o <<s, i>>)[1] = b
  BY <1>1, <1>2
<1>7. (<<b>> \o <<s, i>>)[2] = s
  BY <1>1, <1>2
<1>8. (<<b>> \o <<s, i>>)[3] = i
  BY <1>1, <1>2
<1>9. \A n \in 1..3 : (<<b>> \o <<s, i>>)[n] = <<b, s, i>>[n]
  <2>1. \A n \in 1..3 : n = 1 \/ n = 2 \/ n = 3
    OBVIOUS
  <2>2. <<b, s, i>>[1] = b /\ <<b, s, i>>[2] = s /\ <<b, s, i>>[3] = i
    OBVIOUS
  <2> QED BY <2>1, <2>2, <1>6, <1>7, <1>8
<1>10. PICK q : q = <<b>> \o <<s, i>>
  OBVIOUS
<1>11. PICK t : t = <<b, s, i>>
  OBVIOUS
<1>12. q \in Seq(S) /\ t \in Seq(S) /\ Len(q) = Len(t) /\ \A n \in 1..Len(q) : q[n] = t[n]
  BY <1>3, <1>4, <1>5, <1>9, <1>10, <1>11
<1>13. q = t
  BY <1>12, SeqEqual
<1> QED BY <1>10, <1>11, <1>13
(* With plain names the joined key is the key: its second segment is its    *)
(* source.                                                                  *)
LEMMA PlainKey ==
  ASSUME PlainNames, NEW k \in Key
  PROVE  key(k) = k /\ Len(key(k)) = 3 /\ key(k)[2] = k[2]
<1>1. PICK b \in Beacons, s \in Sources, i \in Ids : k = <<b, s, i>>
  BY DEF Key
<1>2. key(k) = <<b>> \o <<s, i>>
  BY <1>1 DEF PlainNames, key
<1>3. <<b>> \o <<s, i>> = <<b, s, i>>
  BY JoinThree
<1> QED BY <1>1, <1>2, <1>3

-----------------------------------------------------------------------------
(* The invariant of a single writer. Fresh and Nothing are what a process   *)
(* starts and ends with.                                                    *)
LEMMA NoneOfFresh == \A src : NoneOf(Fresh, src)
BY DEF NoneOf, Fresh

LEMMA HoldsNothing ==
  \A c, rows : rows.seen = {} /\ rows.findings = {} => Holds(c, rows)
BY DEF Holds

LEMMA WriterInit == Init => WriterInv
<1> SUFFICES ASSUME Init PROVE WriterInv
  OBVIOUS
<1>1. \A p \in Processes : ~Up(p) /\ stage[p] = "down" /\ owed[p] = Nothing
  BY DEF Init, Up
<1>2. promised.seen = {} /\ promised.findings = {} /\ gone = {}
  BY DEF Init
<1>3. Nothing.seen = {} /\ Nothing.findings = {} /\ Nothing.purged = {}
  BY DEF Nothing
<1> QED BY <1>1, <1>2, <1>3, HoldsNothing
        DEF WriterInv, OneWriter, MemoryCurrent, PromiseKept, AckedDurable,
            PurgedGone, Unsaved

(* While p has the file open, every other process is down.                  *)
LEMMA OthersDown ==
  ASSUME WriterInv, NEW p \in Processes, Up(p)
  PROVE  \A q \in Processes : q # p =>
           stage[q] = "down" /\ owed[q] = Nothing /\ ~Unsaved(q)
BY DEF WriterInv, OneWriter, PromiseKept, Up, Unsaved

(* A step of p in which only p's own variables and the shared ones change   *)
(* keeps the invariant if p's part of it holds afterwards.                  *)
LEMMA OneProcess ==
  ASSUME WriterInv, NEW p \in Processes,
         \A q \in Processes : q # p =>
           ~Up(q) /\ stage'[q] = stage[q] /\ owed'[q] = Nothing,
         Up(p)' => /\ Holds(mem'[p], promised')
                   /\ \A src \in gone' : NoneOf(mem'[p], src)
                   /\ p \in Purgers /\ stage'[p] = "idle" => mem'[p] = disk'
                   /\ stage'[p] = "saved" => mem'[p] = disk'
                   /\ stage'[p] = "written" => temp'[p] = mem'[p],
         ~Up(p)' => owed'[p] = Nothing,
         stage'[p] = "idle" \/ p \in Purgers =>
           owed'[p].seen = {} /\ owed'[p].findings = {},
         p \in Pollers => owed'[p].purged = {},
         stage'[p] \in {"changed", "written"} =>
           /\ Holds(mem'[p], owed'[p])
           /\ \A src \in owed'[p].purged : NoneOf(mem'[p], src),
         stage'[p] = "saved" => /\ Holds(disk', owed'[p])
                                /\ \A src \in owed'[p].purged : NoneOf(disk', src),
         AckedDurable', PurgedGone'
  PROVE  WriterInv'
<1>1. \A q \in Processes : q # p => ~Up(q)' /\ stage'[q] = "down"
  BY DEF Up
<1>2. OneWriter'
  BY <1>1 DEF OneWriter
<1>3. MemoryCurrent'
  BY <1>1 DEF MemoryCurrent
<1>4. Nothing.seen = {} /\ Nothing.findings = {} /\ Nothing.purged = {}
  BY DEF Nothing
<1>5. PromiseKept'
  <2> SUFFICES ASSUME NEW q \in Processes
      PROVE /\ ~Up(q)' => owed'[q] = Nothing
            /\ stage'[q] = "idle" \/ q \in Purgers =>
                 owed'[q].seen = {} /\ owed'[q].findings = {}
            /\ q \in Pollers => owed'[q].purged = {}
            /\ Unsaved(q)' => /\ Holds(mem'[q], owed'[q])
                             /\ \A src \in owed'[q].purged : NoneOf(mem'[q], src)
            /\ stage'[q] = "saved" => /\ Holds(disk', owed'[q])
                                     /\ \A src \in owed'[q].purged : NoneOf(disk', src)
    BY DEF PromiseKept
  <2>1. CASE q = p
    BY <2>1 DEF Unsaved
  <2>2. CASE q # p
    BY <2>2, <1>1, <1>4 DEF Unsaved
  <2> QED BY <2>1, <2>2
<1> QED BY <1>2, <1>3, <1>5 DEF WriterInv

(* A new row keeps what the contents hold, and is a row of its own source.  *)
LEMMA RowAdded ==
  ASSUME PlainNames, NEW c \in Stored, NEW d \in Stored, NEW k \in Key,
         d.seen = c.seen \cup {key(k)},
         c.findings \subseteq d.findings,
         \A f \in d.findings : f \in c.findings \/ f.key = k
  PROVE  /\ \A rows : Holds(c, rows) => Holds(d, rows)
         /\ \A src : NoneOf(c, src) /\ src # k[2] => NoneOf(d, src)
<1>1. \A rows : Holds(c, rows) => Holds(d, rows)
  BY DEF Holds
<1>2. ASSUME NEW src, NoneOf(c, src), src # k[2] PROVE NoneOf(d, src)
  <2>1. \A j \in Key : j[2] = src => key(j) \notin d.seen
    <3> SUFFICES ASSUME NEW j \in Key, j[2] = src PROVE key(j) \notin d.seen
      OBVIOUS
    <3>1. key(j) # key(k)
      BY <1>2, PlainKey
    <3> QED BY <1>2, <3>1 DEF NoneOf
  <2>2. \A f \in d.findings : f.key[2] # src
    BY <1>2 DEF NoneOf
  <2> QED BY <2>1, <2>2 DEF NoneOf
<1> QED BY <1>1, <1>2

(* A purge takes the rows of its source and no others: the names of the     *)
(* beacons are plain, so the second segment of a key is its source.         *)
LEMMA RowsPurged ==
  ASSUME PlainNames, NEW c \in Stored, NEW src
  PROVE  /\ NoneOf(Without(c, src), src)
         /\ \A t : NoneOf(c, t) => NoneOf(Without(c, src), t)
         /\ \A rows, left : /\ Holds(c, rows) /\ rows.seen \subseteq Key
                            /\ left.seen = {k \in rows.seen : k[2] # src}
                            /\ left.findings = {f \in rows.findings : f.key[2] # src}
                            => Holds(Without(c, src), left)
<1>1. /\ Without(c, src).seen = {q \in c.seen : ~(Len(q) >= 3 /\ q[2] = src)}
      /\ Without(c, src).findings = {f \in c.findings : f.key[2] # src}
  BY DEF Without, RowsOf, Stored
<1>2. \A k \in Key : key(k) \in Without(c, src).seen <=> key(k) \in c.seen /\ k[2] # src
  BY <1>1, PlainKey
<1>3. NoneOf(Without(c, src), src)
  BY <1>1, <1>2 DEF NoneOf
<1>4. \A t : NoneOf(c, t) => NoneOf(Without(c, src), t)
  BY <1>1, <1>2 DEF NoneOf
<1>5. \A rows, left : /\ Holds(c, rows) /\ rows.seen \subseteq Key
                     /\ left.seen = {k \in rows.seen : k[2] # src}
                     /\ left.findings = {f \in rows.findings : f.key[2] # src}
                     => Holds(Without(c, src), left)
  BY <1>1, <1>2 DEF Holds
<1> QED BY <1>3, <1>4, <1>5

(* A purge that finds no row has none to take.                              *)
LEMMA NoRows ==
  ASSUME PlainNames, NEW c \in Stored, NEW src,
         RowsOf(c, src) = [seen |-> {}, findings |-> {}]
  PROVE  NoneOf(c, src)
<1>1. /\ {q \in c.seen : Len(q) >= 3 /\ q[2] = src} = {}
      /\ {f \in c.findings : f.key[2] = src} = {}
  BY DEF RowsOf
<1>2. \A k \in Key : k[2] = src => key(k) \notin c.seen
  BY <1>1, PlainKey
<1> QED BY <1>1, <1>2 DEF NoneOf

-----------------------------------------------------------------------------
(* One lemma for each kind of step.                                         *)
LEMMA OpenStep ==
  ASSUME SingleWriter, TypeOK, WriterInv, NEW p \in Processes, OpenFile(p)
  PROVE  WriterInv'
<1>1. \A q \in Processes : ~Up(q) /\ owed[q] = Nothing
  BY DEF OpenFile, WriterInv, PromiseKept
<1>2. /\ UNCHANGED <<temp, disk, promised, gone>>
      /\ mem'[p] = disk /\ stage'[p] = "idle" /\ Up(p)'
      /\ \A q \in Processes : q # p => stage'[q] = stage[q]
  BY DEF OpenFile, TypeOK, Up
<1>3. Nothing.seen = {} /\ Nothing.findings = {} /\ Nothing.purged = {}
  BY DEF Nothing
<1>4. /\ \A q \in Processes : q # p => owed'[q] = Nothing
      /\ owed'[p].seen = {} /\ owed'[p].findings = {}
      /\ p \in Pollers => owed'[p].purged = {}
  <2>1. owed' = [owed EXCEPT ![p] = [Nothing EXCEPT !.purged =
                  IF p \in Purgers THEN Sources \ Collecting ELSE {}]]
    BY <1>1 DEF OpenFile
  <2>2. p \in Pollers => p \notin Purgers
    BY ProcessAssumption
  <2> QED BY <1>1, <2>1, <2>2 DEF TypeOK, Nothing
<1>5. AckedDurable' /\ PurgedGone'
  BY <1>2 DEF WriterInv, AckedDurable, PurgedGone, Holds, NoneOf
<1>6. Holds(mem'[p], promised') /\ \A src \in gone' : NoneOf(mem'[p], src)
  BY <1>2 DEF WriterInv, AckedDurable, PurgedGone
<1> QED BY <1>1, <1>2, <1>4, <1>5, <1>6, OneProcess

(* MarkSeen and Record: a new row of a source.                              *)
LEMMA CollectStep ==
  ASSUME PlainNames, TypeOK, WriterInv, NEW p \in Pollers,
         NEW k \in Key, NEW after \in Stored, NEW due \in Owed,
         Change(p, after), Collect(p, due, k[2]), UNCHANGED promised,
         after.seen = mem[p].seen \cup {key(k)},
         mem[p].findings \subseteq after.findings,
         \A f \in after.findings : f \in mem[p].findings \/ f.key = k,
         Holds(after, due), due.purged = {}
  PROVE  WriterInv'
<1>1. /\ p \in Processes /\ p \notin Purgers
      /\ stage[p] = "idle" /\ Up(p) /\ mem[p] \in Stored
  BY ProcessAssumption DEF Processes, Change, Up, TypeOK
<1>2. /\ mem'[p] = after /\ stage'[p] = "changed" /\ Up(p)'
      /\ \A q \in Processes : q # p => stage'[q] = stage[q]
      /\ UNCHANGED <<disk, promised>>
  BY <1>1 DEF Change, TypeOK, Up
<1>3. owed'[p] = due /\ gone' = gone \ {k[2]}
  BY <1>1 DEF Collect
<1>4. \A q \in Processes : q # p => ~Up(q) /\ owed'[q] = Nothing
  <2> SUFFICES ASSUME NEW q \in Processes, q # p PROVE ~Up(q) /\ owed'[q] = Nothing
    OBVIOUS
  <2>1. ~Up(q) /\ owed[q] = Nothing
    BY <1>1, OthersDown DEF Up
  <2>2. owed'[q] = [Nothing EXCEPT !.purged = @ \ {k[2]}]
    BY <2>1 DEF Collect
  <2> QED BY <2>1, <2>2 DEF Nothing
<1>5. /\ Holds(after, promised)
      /\ \A src \in gone' : NoneOf(after, src)
  <2>1. Holds(mem[p], promised) /\ \A src \in gone : NoneOf(mem[p], src)
    BY <1>1 DEF WriterInv, MemoryCurrent
  <2> QED BY <1>1, <1>3, <2>1, RowAdded
<1>6. AckedDurable' /\ PurgedGone'
  BY <1>2, <1>3 DEF WriterInv, AckedDurable, PurgedGone, Holds, NoneOf
<1> QED BY <1>1, <1>2, <1>3, <1>4, <1>5, <1>6, OneProcess

LEMMA ClaimStep ==
  ASSUME TypeOK, WriterInv, NEW p \in Processes,
         NEW id \in ClaimIds, NEW who \in Claimants, Claim(p, id, who)
  PROVE  WriterInv'
<1>1. /\ p \notin Purgers /\ stage[p] = "idle" /\ Up(p) /\ mem[p] \in Stored
  BY ProcessAssumption DEF Claim, Change, Up, TypeOK
<1>2. /\ mem'[p].seen = mem[p].seen /\ mem'[p].findings = mem[p].findings
      /\ stage'[p] = "changed" /\ Up(p)'
      /\ \A q \in Processes : q # p => stage'[q] = stage[q]
      /\ UNCHANGED <<disk, promised, gone, owed>>
  BY <1>1 DEF Claim, Change, TypeOK, Stored, Up
<1>3. \A q \in Processes : q # p => ~Up(q) /\ owed'[q] = Nothing
  BY <1>1, <1>2, OthersDown DEF Up
<1>4. /\ owed[p].seen = {} /\ owed[p].findings = {} /\ owed[p].purged = {}
  BY <1>1 DEF WriterInv, PromiseKept, Claim
<1>5. /\ Holds(mem'[p], promised)
      /\ \A src \in gone : NoneOf(mem'[p], src)
  BY <1>1, <1>2 DEF WriterInv, MemoryCurrent, Holds, NoneOf
<1>6. AckedDurable' /\ PurgedGone'
  BY <1>2 DEF WriterInv, AckedDurable, PurgedGone, Holds, NoneOf
<1> QED BY <1>1, <1>2, <1>3, <1>4, <1>5, <1>6, HoldsNothing, OneProcess

LEMMA PurgeStep ==
  ASSUME PlainNames, TypeOK, WriterInv, NEW p \in Processes,
         NEW src \in Sources, PurgeSource(p, src)
  PROVE  WriterInv'
<1>1. /\ p \in Purgers /\ p \notin Pollers /\ stage[p] = "idle" /\ Up(p)
      /\ mem[p] \in Stored
  BY ProcessAssumption DEF PurgeSource, Change, Up, TypeOK
<1>2. /\ mem'[p] = Without(mem[p], src) /\ stage'[p] = "changed" /\ Up(p)'
      /\ \A q \in Processes : q # p => stage'[q] = stage[q]
      /\ UNCHANGED <<disk, gone>>
  BY <1>1 DEF PurgeSource, Change, TypeOK, Up
<1>3. /\ owed'[p].seen = {} /\ owed'[p].findings = {}
      /\ owed'[p].purged \subseteq {src}
      /\ \A q \in Processes : q # p => ~Up(q) /\ owed'[q] = Nothing
  BY <1>1, OthersDown DEF PurgeSource, TypeOK, WriterInv, PromiseKept, Up
<1>4. /\ promised'.seen = {k \in promised.seen : k[2] # src}
      /\ promised'.findings = {f \in promised.findings : f.key[2] # src}
      /\ promised.seen \subseteq Key
  BY DEF PurgeSource, TypeOK
<1>5. Holds(mem[p], promised) /\ \A t \in gone : NoneOf(mem[p], t)
  BY <1>1 DEF WriterInv, MemoryCurrent
<1>6. /\ Holds(mem'[p], promised')
      /\ \A t \in gone : NoneOf(mem'[p], t)
      /\ NoneOf(mem'[p], src)
  BY <1>1, <1>2, <1>4, <1>5, RowsPurged
<1>7. AckedDurable' /\ PurgedGone'
  BY <1>2, <1>4 DEF WriterInv, AckedDurable, PurgedGone, Holds, NoneOf
<1> QED BY <1>1, <1>2, <1>3, <1>6, <1>7, HoldsNothing, OneProcess

LEMMA PurgeNothingStep ==
  ASSUME PlainNames, TypeOK, WriterInv, NEW p \in Processes,
         NEW src \in Sources, PurgeNothing(p, src)
  PROVE  WriterInv'
<1>1. /\ p \in Purgers /\ p \notin Pollers /\ stage[p] = "idle" /\ Up(p)
      /\ mem[p] \in Stored
  BY ProcessAssumption DEF PurgeNothing, Up, TypeOK
<1>2. /\ stage'[p] = "saved" /\ Up(p)'
      /\ \A q \in Processes : q # p => stage'[q] = stage[q]
      /\ UNCHANGED <<mem, disk, promised, gone>>
  BY <1>1 DEF PurgeNothing, TypeOK, Up
<1>3. /\ owed'[p].seen = {} /\ owed'[p].findings = {}
      /\ owed'[p].purged \subseteq {src}
      /\ \A q \in Processes : q # p => ~Up(q) /\ owed'[q] = Nothing
  BY <1>1, OthersDown DEF PurgeNothing, TypeOK, WriterInv, PromiseKept, Up
<1>4. mem[p] = disk /\ NoneOf(disk, src)
  <2>1. mem[p] = disk
    BY <1>1 DEF WriterInv, MemoryCurrent
  <2> QED BY <1>1, <2>1, NoRows DEF PurgeNothing
<1>5. Holds(mem[p], promised) /\ \A t \in gone : NoneOf(mem[p], t)
  BY <1>1 DEF WriterInv, MemoryCurrent
<1>6. AckedDurable' /\ PurgedGone'
  BY <1>2 DEF WriterInv, AckedDurable, PurgedGone, Holds, NoneOf
<1> QED BY <1>1, <1>2, <1>3, <1>4, <1>5, <1>6, HoldsNothing, OneProcess

LEMMA WriteTempStep ==
  ASSUME TypeOK, WriterInv, NEW p \in Processes, WriteTemp(p)
  PROVE  WriterInv'
<1>1. /\ stage[p] = "changed" /\ Up(p)
      /\ temp'[p] = mem[p] /\ stage'[p] = "written" /\ Up(p)'
      /\ \A q \in Processes : q # p => stage'[q] = stage[q]
      /\ UNCHANGED <<mem, owed, disk, promised, gone>>
  BY DEF WriteTemp, TypeOK, Up
<1>2. \A q \in Processes : q # p => ~Up(q) /\ owed'[q] = Nothing
  BY <1>1, OthersDown DEF Up
<1>3. /\ Holds(mem[p], promised)
      /\ \A src \in gone : NoneOf(mem[p], src)
  BY <1>1 DEF WriterInv, MemoryCurrent
<1>4. /\ p \in Purgers => owed[p].seen = {} /\ owed[p].findings = {}
      /\ p \in Pollers => owed[p].purged = {}
      /\ Holds(mem[p], owed[p])
      /\ \A src \in owed[p].purged : NoneOf(mem[p], src)
  BY <1>1 DEF WriterInv, PromiseKept, Unsaved
<1>5. AckedDurable' /\ PurgedGone'
  BY <1>1 DEF WriterInv, AckedDurable, PurgedGone, Holds, NoneOf
<1> QED BY <1>1, <1>2, <1>3, <1>4, <1>5, OneProcess

(* The rename puts on the disk what the memory held when it was written,    *)
(* which is what it holds still.                                            *)
LEMMA RenameStep ==
  ASSUME TypeOK, WriterInv, NEW p \in Processes, Rename(p)
  PROVE  WriterInv'
<1>1. /\ stage[p] = "written" /\ Up(p)
      /\ disk' = temp[p] /\ stage'[p] = "saved" /\ Up(p)'
      /\ \A q \in Processes : q # p => stage'[q] = stage[q]
      /\ UNCHANGED <<mem, owed, promised, gone>>
  BY DEF Rename, TypeOK, Up
<1>2. \A q \in Processes : q # p => ~Up(q) /\ owed'[q] = Nothing
  BY <1>1, OthersDown DEF Up
<1>3. /\ Holds(mem[p], promised)
      /\ \A src \in gone : NoneOf(mem[p], src)
      /\ disk' = mem[p]
  BY <1>1 DEF WriterInv, MemoryCurrent
<1>4. /\ p \in Purgers => owed[p].seen = {} /\ owed[p].findings = {}
      /\ p \in Pollers => owed[p].purged = {}
      /\ Holds(mem[p], owed[p])
      /\ \A src \in owed[p].purged : NoneOf(mem[p], src)
  BY <1>1 DEF WriterInv, PromiseKept, Unsaved
<1>5. AckedDurable' /\ PurgedGone'
  BY <1>1, <1>3 DEF AckedDurable, PurgedGone, Holds, NoneOf
<1> QED BY <1>1, <1>2, <1>3, <1>4, <1>5, OneProcess

(* An operation that ends: what it owes is dropped or has been kept.        *)
LEMMA ReleaseStep ==
  ASSUME TypeOK, WriterInv, NEW p \in Processes, Up(p), Release(p),
         Holds(mem[p], promised'), \A src \in gone' : p \in Pollers => NoneOf(mem[p], src),
         UNCHANGED disk, AckedDurable', PurgedGone'
  PROVE  WriterInv'
<1>1. /\ stage'[p] = IF p \in Purgers THEN "down" ELSE "idle"
      /\ owed'[p] = Nothing
      /\ p \notin Purgers => mem'[p] = mem[p]
      /\ \A q \in Processes : q # p => stage'[q] = stage[q] /\ owed'[q] = owed[q]
  BY DEF Release, TypeOK
<1>2. \A q \in Processes : q # p => ~Up(q) /\ owed'[q] = Nothing
  BY <1>1, OthersDown DEF Up
<1>3. Nothing.seen = {} /\ Nothing.findings = {} /\ Nothing.purged = {}
  BY DEF Nothing
<1>4. Up(p)' => /\ p \in Pollers /\ p \notin Purgers /\ stage'[p] = "idle"
                /\ mem'[p] = mem[p]
  BY <1>1 DEF Up, Processes
<1> QED BY <1>1, <1>2, <1>3, <1>4, OneProcess

LEMMA SaveFailsStep ==
  ASSUME TypeOK, WriterInv, NEW p \in Processes, SaveFails(p)
  PROVE  WriterInv'
<1>1. Up(p) /\ Release(p) /\ UNCHANGED <<disk, promised, gone>>
  BY DEF SaveFails, Up
<1>2. /\ Holds(mem[p], promised)
      /\ \A src \in gone : NoneOf(mem[p], src)
  BY <1>1 DEF WriterInv, MemoryCurrent
<1>3. AckedDurable' /\ PurgedGone'
  BY <1>1 DEF WriterInv, AckedDurable, PurgedGone, Holds, NoneOf
<1> QED BY <1>1, <1>2, <1>3, ReleaseStep

(* The operation that returns has saved all it promises.                    *)
LEMMA ReturnStep ==
  ASSUME TypeOK, WriterInv, NEW p \in Processes, Return(p)
  PROVE  WriterInv'
<1>1. /\ stage[p] = "saved" /\ Up(p) /\ Release(p) /\ UNCHANGED disk
      /\ promised'.seen = promised.seen \cup owed[p].seen
      /\ promised'.findings = promised.findings \cup owed[p].findings
      /\ gone' = gone \cup owed[p].purged
  BY DEF Return, Up
<1>2. /\ Holds(mem[p], promised)
      /\ \A src \in gone : NoneOf(mem[p], src)
      /\ mem[p] = disk
  BY <1>1 DEF WriterInv, MemoryCurrent
<1>3. /\ p \in Pollers => owed[p].purged = {}
      /\ Holds(disk, owed[p])
      /\ \A src \in owed[p].purged : NoneOf(disk, src)
  BY <1>1 DEF WriterInv, PromiseKept
<1>4. Holds(disk, promised) /\ \A src \in gone : NoneOf(disk, src)
  BY DEF WriterInv, AckedDurable, PurgedGone
<1>5. Holds(mem[p], promised') /\ Holds(disk, promised')
  BY <1>1, <1>2, <1>3, <1>4 DEF Holds
<1>6. AckedDurable' /\ PurgedGone'
  BY <1>1, <1>3, <1>4, <1>5 DEF AckedDurable, PurgedGone, Holds, NoneOf
<1> QED BY <1>1, <1>2, <1>3, <1>5, <1>6, ReleaseStep

LEMMA ExitStep ==
  ASSUME TypeOK, WriterInv, NEW p \in Processes, Exit(p)
  PROVE  WriterInv'
<1>1. /\ Up(p) /\ stage'[p] = "down" /\ ~Up(p)' /\ owed'[p] = Nothing
      /\ \A q \in Processes : q # p => stage'[q] = stage[q] /\ owed'[q] = owed[q]
      /\ UNCHANGED <<disk, promised, gone>>
  BY DEF Exit, TypeOK, Up
<1>2. \A q \in Processes : q # p => ~Up(q) /\ owed'[q] = Nothing
  BY <1>1, OthersDown DEF Up
<1>3. Nothing.seen = {} /\ Nothing.findings = {} /\ Nothing.purged = {}
  BY DEF Nothing
<1>4. AckedDurable' /\ PurgedGone'
  BY <1>1 DEF WriterInv, AckedDurable, PurgedGone, Holds, NoneOf
<1> QED BY <1>1, <1>2, <1>3, <1>4, OneProcess

-----------------------------------------------------------------------------
(* Every step of the single writer keeps the invariant.                     *)
LEMMA OperationStep ==
  ASSUME PlainNames, TypeOK, WriterInv, NEW p \in Processes, Operation(p)
  PROVE  WriterInv'
<1>1. ASSUME NEW k \in Key, MarkSeen(p, k) PROVE WriterInv'
  <2> DEFINE after == [mem[p] EXCEPT !.seen = @ \cup {key(k)}]
             due == [Nothing EXCEPT !.seen = {k}]
  <2>1. p \in Pollers /\ Change(p, after) /\ Collect(p, due, k[2]) /\ UNCHANGED promised
    BY <1>1 DEF MarkSeen
  <2>2. mem[p] \in Stored
    BY DEF TypeOK
  <2>3. /\ after \in Stored /\ after.seen = mem[p].seen \cup {key(k)}
        /\ after.findings = mem[p].findings
    BY <2>2 DEF Stored
  <2>4. /\ due \in Owed /\ due.seen = {k} /\ due.findings = {} /\ due.purged = {}
    BY DEF Nothing, Owed
  <2>5. Holds(after, due)
    BY <2>3, <2>4 DEF Holds
  <2> HIDE DEF after, due
  <2> QED BY <2>1, <2>3, <2>4, <2>5, CollectStep
<1>2. ASSUME NEW f \in Finding, Record(p, f) PROVE WriterInv'
  <2> DEFINE after == [mem[p] EXCEPT !.seen = @ \cup {key(f.key)},
                                     !.findings = @ \cup {f}]
             due == [Nothing EXCEPT !.seen = {f.key}, !.findings = {f}]
  <2>1. p \in Pollers /\ Change(p, after) /\ Collect(p, due, f.key[2]) /\ UNCHANGED promised
    BY <1>2 DEF Record
  <2>2. mem[p] \in Stored /\ f.key \in Key
    BY FindingKey DEF TypeOK
  <2>3. /\ after \in Stored /\ after.seen = mem[p].seen \cup {key(f.key)}
        /\ after.findings = mem[p].findings \cup {f}
    BY <2>2 DEF Stored
  <2>4. /\ due \in Owed /\ due.seen = {f.key} /\ due.findings = {f} /\ due.purged = {}
    BY <2>2 DEF Nothing, Owed
  <2>5. Holds(after, due)
    BY <2>3, <2>4 DEF Holds
  <2> HIDE DEF after, due
  <2> QED BY <2>1, <2>2, <2>3, <2>4, <2>5, CollectStep
<1>3. ASSUME NEW id \in ClaimIds, NEW who \in Claimants, Claim(p, id, who)
      PROVE  WriterInv'
  BY <1>3, ClaimStep
<1>4. ASSUME NEW src \in Sources, PurgeSource(p, src) PROVE WriterInv'
  BY <1>4, PurgeStep
<1>5. ASSUME NEW src \in Sources, PurgeNothing(p, src) PROVE WriterInv'
  BY <1>5, PurgeNothingStep
<1> QED BY <1>1, <1>2, <1>3, <1>4, <1>5 DEF Operation

LEMMA WriterStep ==
  ASSUME SingleWriter, PlainNames, TypeOK, WriterInv, [Next]_vars
  PROVE  WriterInv'
<1>1. ASSUME NEW p \in Processes, OpenFile(p) PROVE WriterInv'
  BY <1>1, OpenStep
<1>2. ASSUME NEW p \in Processes, Operation(p) PROVE WriterInv'
  BY <1>2, OperationStep
<1>3. ASSUME NEW p \in Processes, WriteTemp(p) PROVE WriterInv'
  BY <1>3, WriteTempStep
<1>4. ASSUME NEW p \in Processes, Rename(p) PROVE WriterInv'
  BY <1>4, RenameStep
<1>5. ASSUME NEW p \in Processes, SaveFails(p) PROVE WriterInv'
  BY <1>5, SaveFailsStep
<1>6. ASSUME NEW p \in Processes, Return(p) PROVE WriterInv'
  BY <1>6, ReturnStep
<1>7. ASSUME NEW p \in Processes, Exit(p) PROVE WriterInv'
  BY <1>7, ExitStep
<1>8. CASE UNCHANGED vars
  BY <1>8 DEF vars, WriterInv, OneWriter, MemoryCurrent, PromiseKept, Up,
              Unsaved, AckedDurable, PurgedGone, Holds, NoneOf
<1> QED BY <1>1, <1>2, <1>3, <1>4, <1>5, <1>6, <1>7, <1>8 DEF Next

(* With one writer at a time and names without colons, the memory of the    *)
(* process that has the file open holds all that is promised.               *)
THEOREM WriterInvariant ==
  ASSUME SingleWriter, PlainNames
  PROVE  Spec => []WriterInv
<1>1. Init => WriterInv
  BY WriterInit
<1>2. TypeOK /\ WriterInv /\ [Next]_vars => WriterInv'
  BY WriterStep
<1> QED BY <1>1, <1>2, TypeCorrect, PTL DEF Spec

(* What MarkSeen or Record acknowledged is on the disk (saveLocked before   *)
(* the return), through every later operation, failed save and crash.       *)
THEOREM AcknowledgedIsDurable ==
  ASSUME SingleWriter, PlainNames
  PROVE  Spec => []AckedDurable
<1>1. WriterInv => AckedDurable
  BY DEF WriterInv
<1> QED BY <1>1, WriterInvariant, PTL

(* After PurgeSource returned without an error no row of the source is on   *)
(* the disk until one is collected anew.                                    *)
THEOREM PurgeIsFinal ==
  ASSUME SingleWriter, PlainNames
  PROVE  Spec => []PurgedGone
<1>1. WriterInv => PurgedGone
  BY DEF WriterInv
<1> QED BY <1>1, WriterInvariant, PTL

-----------------------------------------------------------------------------
(* The file store is a store. What its users see is the memory of the one   *)
(* process that has the file open, or the file.                             *)
LEMMA OpenIs ==
  ASSUME WriterInv
  PROVE  /\ \A p \in Processes : Up(p) => Open = mem[p]
         /\ (\A p \in Processes : ~Up(p)) => Open = disk
BY DEF WriterInv, OneWriter, Open

LEMMA OpenIsNext ==
  ASSUME WriterInv'
  PROVE  /\ \A p \in Processes : Up(p)' => Open' = mem'[p]
         /\ (\A p \in Processes : ~Up(p)') => Open' = disk'
BY DEF WriterInv, OneWriter, Open

(* The operations of the port, field by field.                              *)
LEMMA PortFields ==
  ASSUME NEW d, d = [seen |-> d.seen, findings |-> d.findings, claims |-> d.claims]
  PROVE  /\ \A k : Port!MarkedSeen(d, k) =
              [seen |-> d.seen \cup {k}, findings |-> d.findings, claims |-> d.claims]
         /\ \A f : [seen     |-> d.seen \cup {f.key},
                    findings |-> d.findings \cup {f},
                    claims   |-> d.claims] \in Port!Recorded(d, f)
         /\ \A id, who : Port!Claimed(d, id, who) =
              [seen |-> d.seen, findings |-> d.findings,
               claims |-> [d.claims EXCEPT ![id] = who]]
         /\ \A src : Port!Purged(d, src) =
              [seen     |-> {k \in d.seen : k[2] # src},
               findings |-> {f \in d.findings : f.key[2] # src},
               claims   |-> d.claims]
<1>1. \A k : Port!MarkedSeen(d, k) =
        [seen |-> d.seen \cup {k}, findings |-> d.findings, claims |-> d.claims]
  BY DEF Port!MarkedSeen
<1>2. \A f : [seen     |-> d.seen \cup {f.key},
              findings |-> d.findings \cup {f},
              claims   |-> d.claims] \in Port!Recorded(d, f)
  BY DEF Port!Recorded
<1>3. \A id, who : Port!Claimed(d, id, who) =
        [seen |-> d.seen, findings |-> d.findings,
         claims |-> [d.claims EXCEPT ![id] = who]]
  BY DEF Port!Claimed
<1>4. \A src : Port!Purged(d, src) =
        [seen     |-> {k \in d.seen : k[2] # src},
         findings |-> {f \in d.findings : f.key[2] # src},
         claims   |-> d.claims]
  BY DEF Port!Purged
<1> QED BY <1>1, <1>2, <1>3, <1>4

LEMMA DecodedFields ==
  ASSUME NEW c
  PROVE  /\ Decoded(c) = [seen     |-> Decoded(c).seen,
                          findings |-> Decoded(c).findings,
                          claims   |-> Decoded(c).claims]
         /\ Decoded(c).seen = {k \in Key : key(k) \in c.seen}
         /\ Decoded(c).findings = c.findings /\ Decoded(c).claims = c.claims
BY DEF Decoded

(* With plain names every change of the memory is one of them, seen through *)
(* the keys.                                                                *)
LEMMA MarkDecoded ==
  ASSUME PlainNames, NEW c \in Stored, NEW k \in Key, NEW after,
         after = [c EXCEPT !.seen = @ \cup {key(k)}]
  PROVE  Decoded(after) = Port!MarkedSeen(Decoded(c), k)
<1>1. /\ after.seen = c.seen \cup {key(k)}
      /\ after.findings = c.findings /\ after.claims = c.claims
  BY DEF Stored
<1>2. {j \in Key : key(j) \in after.seen}
        = {j \in Key : key(j) \in c.seen} \cup {k}
  BY <1>1, PlainKey
<1>3. Decoded(after).seen = Decoded(c).seen \cup {k}
  BY <1>2, DecodedFields, Zenon
<1>4. /\ Decoded(after).findings = Decoded(c).findings
      /\ Decoded(after).claims = Decoded(c).claims
  BY <1>1, DecodedFields
<1>5. Decoded(after) = [seen |-> Decoded(c).seen \cup {k},
                        findings |-> Decoded(c).findings,
                        claims |-> Decoded(c).claims]
  BY <1>3, <1>4, DecodedFields, Zenon
<1> QED BY <1>5, DecodedFields, PortFields

LEMMA RecordDecoded ==
  ASSUME PlainNames, NEW c \in Stored, NEW f \in Finding, NEW after,
         after = [c EXCEPT !.seen = @ \cup {key(f.key)}, !.findings = @ \cup {f}]
  PROVE  Decoded(after) \in Port!Recorded(Decoded(c), f)
<1>1. /\ after.seen = c.seen \cup {key(f.key)} /\ f.key \in Key
      /\ after.findings = c.findings \cup {f} /\ after.claims = c.claims
  BY FindingKey DEF Stored
<1>2. {j \in Key : key(j) \in after.seen}
        = {j \in Key : key(j) \in c.seen} \cup {f.key}
  BY <1>1, PlainKey
<1>3. Decoded(after).seen = Decoded(c).seen \cup {f.key}
  BY <1>2, DecodedFields, Zenon
<1>4. Decoded(after) = [seen |-> Decoded(c).seen \cup {f.key},
                        findings |-> Decoded(c).findings \cup {f},
                        claims |-> Decoded(c).claims]
  BY <1>1, <1>3, DecodedFields, Zenon
<1> QED BY <1>4, DecodedFields, PortFields

LEMMA ClaimDecoded ==
  ASSUME NEW c \in Stored, NEW id \in ClaimIds, NEW who \in Claimants, NEW after,
         after = [c EXCEPT !.claims[id] = who]
  PROVE  Decoded(after) = Port!Claimed(Decoded(c), id, who)
<1>1. /\ after.seen = c.seen /\ after.findings = c.findings
      /\ after.claims = [c.claims EXCEPT ![id] = who]
  BY DEF Stored
<1>2. /\ Decoded(after).seen = Decoded(c).seen
      /\ Decoded(after).findings = Decoded(c).findings
      /\ Decoded(after).claims = [Decoded(c).claims EXCEPT ![id] = who]
  BY <1>1, DecodedFields
<1>3. Decoded(after) = [seen |-> Decoded(c).seen,
                        findings |-> Decoded(c).findings,
                        claims |-> [Decoded(c).claims EXCEPT ![id] = who]]
  BY <1>2, DecodedFields, Zenon
<1> QED BY <1>3, DecodedFields, PortFields

LEMMA PurgeDecoded ==
  ASSUME PlainNames, NEW c \in Stored, NEW src, NEW after,
         after = Without(c, src)
  PROVE  Decoded(after) = Port!Purged(Decoded(c), src)
<1>1. /\ after.seen = {q \in c.seen : ~(Len(q) >= 3 /\ q[2] = src)}
      /\ after.findings = {f \in c.findings : f.key[2] # src}
      /\ after.claims = c.claims
  BY DEF Without, RowsOf, Stored
<1>2. {k \in Key : key(k) \in after.seen}
        = {k \in {j \in Key : key(j) \in c.seen} : k[2] # src}
  BY <1>1, PlainKey
<1>3. /\ Decoded(after).seen = {k \in Decoded(c).seen : k[2] # src}
      /\ Decoded(after).findings = {f \in Decoded(c).findings : f.key[2] # src}
      /\ Decoded(after).claims = Decoded(c).claims
  BY <1>1, <1>2, DecodedFields
<1>4. Decoded(after) = [seen     |-> {k \in Decoded(c).seen : k[2] # src},
                        findings |-> {f \in Decoded(c).findings : f.key[2] # src},
                        claims   |-> Decoded(c).claims]
  BY <1>3, DecodedFields, Zenon
<1> QED BY <1>4, DecodedFields, PortFields

(* What a step shows to the port's users: nothing, an operation whose save  *)
(* is still to come, the save of all the memory, or a restart.              *)
LEMMA PortMutates ==
  ASSUME PlainNames, TypeOK, WriterInv, WriterInv', NEW p \in Processes,
         NEW after, Change(p, after), Decoded(after) \in Port!Changed(Decoded(mem[p]))
  PROVE  Port!StoreNext
<1>1. Up(p) /\ Up(p)' /\ mem'[p] = after /\ UNCHANGED disk
  BY DEF Change, Up, TypeOK
<1>2. Open = mem[p] /\ Open' = after
  BY <1>1, OpenIs, OpenIsNext
<1>3. Decoded(disk)' = Decoded(disk) /\ Decoded(Open)' = Decoded(after)
  BY <1>1, <1>2 DEF Decoded
<1>4. Port!Lose(Decoded(after))
  BY <1>3 DEF Port!Lose
<1> QED BY <1>2, <1>4 DEF Port!StoreNext

LEMMA PortOperation ==
  ASSUME PlainNames, TypeOK, WriterInv, WriterInv', NEW p \in Processes,
         Operation(p)
  PROVE  [Port!StoreNext]_(Port!storeVars)
<1>1. mem[p] \in Stored
  BY DEF TypeOK
<1>2. ASSUME NEW k \in Key, MarkSeen(p, k) PROVE Port!StoreNext
  <2>1. PICK after : after = [mem[p] EXCEPT !.seen = @ \cup {key(k)}]
    OBVIOUS
  <2>2. Change(p, after)
    BY <1>2, <2>1 DEF MarkSeen
  <2>3. Decoded(after) = Port!MarkedSeen(Decoded(mem[p]), k)
    BY <1>1, <2>1, MarkDecoded
  <2>4. Decoded(after) \in Port!Changed(Decoded(mem[p]))
    BY <2>3 DEF Port!Changed, Port!Key, Key
  <2> QED BY <2>2, <2>4, PortMutates
<1>3. ASSUME NEW f \in Finding, Record(p, f) PROVE Port!StoreNext
  <2>1. PICK after : after = [mem[p] EXCEPT !.seen = @ \cup {key(f.key)},
                                            !.findings = @ \cup {f}]
    OBVIOUS
  <2>2. Change(p, after)
    BY <1>3, <2>1 DEF Record
  <2>3. Decoded(after) \in Port!Recorded(Decoded(mem[p]), f)
    BY <1>1, <2>1, RecordDecoded
  <2>4. f \in Port!Finding
    BY DEF Port!Finding, Port!Key, Finding, Key
  <2>5. Decoded(after) \in Port!Changed(Decoded(mem[p]))
    BY <2>3, <2>4 DEF Port!Changed
  <2> QED BY <2>2, <2>5, PortMutates
<1>4. ASSUME NEW id \in ClaimIds, NEW who \in Claimants, Claim(p, id, who)
      PROVE  Port!StoreNext
  <2>1. PICK after : after = [mem[p] EXCEPT !.claims[id] = who]
    OBVIOUS
  <2>2. Change(p, after)
    BY <1>4, <2>1 DEF Claim
  <2>3. Decoded(after) = Port!Claimed(Decoded(mem[p]), id, who)
    BY <1>1, <2>1, ClaimDecoded
  <2>4. Decoded(after) \in Port!Changed(Decoded(mem[p]))
    BY <2>3 DEF Port!Changed
  <2> QED BY <2>2, <2>4, PortMutates
<1>5. ASSUME NEW src \in Sources, PurgeSource(p, src) PROVE Port!StoreNext
  <2>1. Change(p, Without(mem[p], src))
    BY <1>5 DEF PurgeSource
  <2>2. Decoded(Without(mem[p], src)) = Port!Purged(Decoded(mem[p]), src)
    BY <1>1, PurgeDecoded
  <2>3. Decoded(Without(mem[p], src)) \in Port!Changed(Decoded(mem[p]))
    BY <2>2 DEF Port!Changed
  <2> QED BY <2>1, <2>3, PortMutates
<1>6. ASSUME NEW src \in Sources, PurgeNothing(p, src)
      PROVE  UNCHANGED Port!storeVars
  <2>1. Up(p) /\ Up(p)' /\ UNCHANGED <<mem, disk>>
    BY <1>6 DEF PurgeNothing, Up, TypeOK
  <2>2. Open' = Open
    BY <2>1, OpenIs, OpenIsNext
  <2> QED BY <2>1, <2>2 DEF Port!storeVars, Decoded
<1> QED BY <1>2, <1>3, <1>4, <1>5, <1>6 DEF Operation

(* The process that has the file open ends: its users are left with the     *)
(* disk, which a reopened store reads.                                      *)
LEMMA PortEnds ==
  ASSUME TypeOK, WriterInv, WriterInv', NEW p \in Processes, Up(p), ~Up(p)',
         \A q \in Processes : q # p => stage'[q] = stage[q], UNCHANGED disk
  PROVE  Port!StoreNext
<1>1. \A q \in Processes : ~Up(q)'
  BY OthersDown DEF Up
<1>2. Open' = disk
  BY <1>1, OpenIsNext
<1>3. Decoded(Open)' = Decoded(disk) /\ Decoded(disk)' = Decoded(disk)
  BY <1>2 DEF Decoded
<1> QED BY <1>3 DEF Port!StoreNext, Port!StoreRestart

LEMMA PortStep ==
  ASSUME PlainNames, SingleWriter, TypeOK, WriterInv, WriterInv', [Next]_vars
  PROVE  [Port!StoreNext]_(Port!storeVars)
<1>1. ASSUME Open' = Open, UNCHANGED disk PROVE UNCHANGED Port!storeVars
  BY <1>1 DEF Port!storeVars, Decoded
<1>2. ASSUME NEW p \in Processes, OpenFile(p) PROVE UNCHANGED Port!storeVars
  <2>1. (\A q \in Processes : ~Up(q)) /\ Up(p)' /\ mem'[p] = disk /\ UNCHANGED disk
    BY <1>2 DEF OpenFile, Up, TypeOK
  <2>2. Open = disk /\ Open' = disk
    BY <2>1, OpenIs, OpenIsNext
  <2> QED BY <1>1, <2>1, <2>2
<1>3. ASSUME NEW p \in Processes, Operation(p)
      PROVE  [Port!StoreNext]_(Port!storeVars)
  BY <1>3, PortOperation
<1>4. ASSUME NEW p \in Processes, WriteTemp(p) PROVE UNCHANGED Port!storeVars
  <2>1. Up(p) /\ Up(p)' /\ UNCHANGED <<mem, disk>>
    BY <1>4 DEF WriteTemp, Up, TypeOK
  <2> QED BY <1>1, <2>1, OpenIs, OpenIsNext
<1>5. ASSUME NEW p \in Processes, Rename(p) PROVE Port!StoreNext
  <2>1. Up(p) /\ Up(p)' /\ UNCHANGED mem /\ disk' = temp[p] /\ stage[p] = "written"
    BY <1>5 DEF Rename, Up, TypeOK
  <2>2. disk' = mem[p]
    BY <2>1 DEF WriterInv, MemoryCurrent
  <2>3. Open = mem[p] /\ Open' = mem[p]
    BY <2>1, OpenIs, OpenIsNext
  <2>4. Decoded(Open)' = Decoded(Open) /\ Decoded(disk)' = Decoded(Open)
    BY <2>2, <2>3 DEF Decoded
  <2> QED BY <2>4 DEF Port!StoreNext, Port!Persist
<1>6. ASSUME NEW p \in Processes, Up(p), Release(p), UNCHANGED disk
      PROVE  [Port!StoreNext]_(Port!storeVars)
  <2>1. /\ stage'[p] = IF p \in Purgers THEN "down" ELSE "idle"
        /\ p \notin Purgers => mem'[p] = mem[p]
        /\ \A q \in Processes : q # p => stage'[q] = stage[q]
    BY <1>6 DEF Release, TypeOK
  <2>2. CASE p \in Purgers
    BY <1>6, <2>1, <2>2, PortEnds DEF Up
  <2>3. CASE p \notin Purgers
    <3>1. Up(p)' /\ mem'[p] = mem[p]
      BY <2>1, <2>3 DEF Up
    <3> QED BY <1>1, <1>6, <3>1, OpenIs, OpenIsNext
  <2> QED BY <2>2, <2>3
<1>7. ASSUME NEW p \in Processes, SaveFails(p) \/ Return(p)
      PROVE  [Port!StoreNext]_(Port!storeVars)
  BY <1>6, <1>7 DEF SaveFails, Return, Up
<1>8. ASSUME NEW p \in Processes, Exit(p) PROVE Port!StoreNext
  <2>1. /\ Up(p) /\ ~Up(p)' /\ UNCHANGED disk
        /\ \A q \in Processes : q # p => stage'[q] = stage[q]
    BY <1>8 DEF Exit, Up, TypeOK
  <2> QED BY <2>1, PortEnds
<1>9. CASE UNCHANGED vars
  BY <1>1, <1>9 DEF vars, Open, Up
<1> QED BY <1>2, <1>3, <1>4, <1>5, <1>7, <1>8, <1>9 DEF Next

(* The file store implements the port: whatever its processes do, what its  *)
(* users see changes by the port's operations only, the disk takes over all *)
(* of it or nothing, and a restart sees the disk.                           *)
THEOREM ImplementsPort ==
  ASSUME SingleWriter, PlainNames
  PROVE  Spec => IsAStore
<1>1. Init => Port!StoreInit
  <2> SUFFICES ASSUME Init PROVE Port!StoreInit
    OBVIOUS
  <2>1. Open = Fresh /\ disk = Fresh
    BY DEF Init, Open, Up
  <2>2. Decoded(Fresh) = Port!EmptyStore
    BY DEF Decoded, Fresh, Port!EmptyStore
  <2> QED BY <2>1, <2>2 DEF Port!StoreInit
<1>2. TypeOK /\ WriterInv /\ WriterInv' /\ [Next]_vars
        => [Port!StoreNext]_(Port!storeVars)
  BY PortStep
<1> QED BY <1>1, <1>2, TypeCorrect, WriterInvariant, PTL
        DEF Spec, IsAStore, Port!StoreSpec
=============================================================================
