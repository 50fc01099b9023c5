--------------------------- MODULE AzureStoreProofs ---------------------------
(* Theorems about AzureStore, for any number of sessions, beacons, sources  *)
(* and signals.                                                             *)
EXTENDS AzureStore, TLAPS

States == WriterStates \cup PurgerStates

-----------------------------------------------------------------------------
(* Facts about keys, rows and the order of a purge.                         *)
LEMMA KeyFacts ==
  /\ \A f \in Finding : f.key \in Key
  /\ \A k \in Key : k[2] \in Sources
BY DEF Finding, Key

LEMMA RowFacts ==
  /\ \A k \in Key : /\ FindingRow(k) \in Rows /\ SeenRow(k) \in Rows
                    /\ FindingRow(k)[1] = "finding" /\ FindingRow(k)[2] = k
                    /\ SeenRow(k)[1] = "seen" /\ SeenRow(k)[2] = k
  /\ \A k, l \in Key : /\ FindingRow(k) # SeenRow(l)
                       /\ FindingRow(k) = FindingRow(l) => k = l
                       /\ SeenRow(k) = SeenRow(l) => k = l
  /\ \A r \in Rows : \E k \in Key : r \in {FindingRow(k), SeenRow(k)}
BY DEF Rows, FindingRow, SeenRow

LEMMA OrderFacts ==
  /\ DOMAIN PurgeOrder = 1 .. 2
  /\ PurgeOrder[1] = "finding" /\ PurgeOrder[2] = "seen"
  /\ \A table : ~Deleted(table, 1)
  /\ \A table : Deleted(table, 2) <=> table = "finding"
  /\ \A table : Deleted(table, 3) <=> table \in {"finding", "seen"}
BY DEF PurgeOrder, Deleted

LEMMA CommittedRows == TypeOK => Committed \subseteq Rows
BY KeyFacts, RowFacts DEF TypeOK, Committed

(* The states a session can be in.                                          *)
LEMMA StateFacts ==
  /\ Idle \in States
  /\ \A k \in Key : <<"novel", k>> \in States /\ <<"mark", k>> \in States
  /\ \A f \in Finding :
       {<<"insert", f>>, <<"check", f>>, <<"dedupe", f>>, <<"commit", f>>} \subseteq States
  /\ \A id \in ClaimIds, who \in Claimants : <<"claim", id, who>> \in States
  /\ \A src \in Sources, i \in 1 .. 3 : <<"purge", src, i>> \in States
BY DEF States, WriterStates, PurgerStates, Idle

-----------------------------------------------------------------------------
(* Types.                                                                   *)
LEMMA TypeInit == Init => TypeOK
BY StateFacts, NobodyAssumption DEF Init, TypeOK, States

LEMMA EndsType ==
  ASSUME TypeOK, NEW s \in Sessions, NEW others \in SUBSET Sessions, Ends(s, others)
  PROVE  /\ at' \in [Sessions -> States]
         /\ held' \in [Sessions -> SUBSET Rows]
         /\ beside' \subseteq Sessions
BY StateFacts DEF TypeOK, Ends, Goes, States

LEMMA OverlappingType ==
  \A src : Overlapping(Purgers, src) \in SUBSET Sessions
             /\ Overlapping(Writers, src) \in SUBSET Sessions
BY DEF Overlapping, Sessions

LEMMA WrittenType ==
  ASSUME TypeOK, NEW rows \in SUBSET Rows, Written(rows)
  PROVE  old' \in [Purgers -> SUBSET Rows] /\ gone' \subseteq Rows
BY DEF TypeOK, Written

LEMMA MarkType ==
  ASSUME TypeOK, NEW w \in Writers, NEW k \in Key, Seen(w, k) \/ MarkSeen(w, k)
  PROVE  TypeOK'
<1>0. w \in Sessions /\ {SeenRow(k)} \in SUBSET Rows /\ {} \in SUBSET Sessions
  BY RowFacts DEF Sessions
<1>1. CASE Seen(w, k)
  BY <1>1, <1>0, StateFacts DEF Seen, Goes, TypeOK, contents, States
<1>2. CASE AlreadyMarked(w, k)
  BY <1>2, <1>0, EndsType DEF AlreadyMarked, Answers, TypeOK, contents, States
<1>3. CASE MarkCheck(w, k)
  BY <1>3, <1>0, StateFacts DEF MarkCheck, Goes, TypeOK, contents, States
<1>4. CASE MarkInsert(w, k)
  BY <1>4, <1>0, EndsType, OverlappingType, WrittenType
     DEF MarkInsert, Answers, TypeOK, States
<1> QED
  BY <1>1, <1>2, <1>3, <1>4 DEF MarkSeen

LEMMA RecordType ==
  ASSUME TypeOK, NEW w \in Writers, NEW f \in Finding, Record(w, f)
  PROVE  TypeOK'
<1>0. /\ w \in Sessions /\ f.key \in Key
      /\ {FindingRow(f.key), SeenRow(f.key)} \in SUBSET Rows
      /\ held[w] \in SUBSET Rows
  BY RowFacts, KeyFacts DEF Sessions, TypeOK
<1>1. CASE UpdateFinding(w, f)
  BY <1>1, <1>0, StateFacts DEF UpdateFinding, Goes, TypeOK, contents, States
<1>2. CASE UpdateNone(w, f)
  BY <1>2, <1>0, StateFacts DEF UpdateNone, Goes, TypeOK, contents, States
<1>3. CASE InsertFinding(w, f)
  BY <1>3, <1>0, StateFacts DEF InsertFinding, Goes, TypeOK, contents, States
<1>4. CASE CheckSeen(w, f)
  BY <1>4, <1>0, StateFacts DEF CheckSeen, Goes, TypeOK, contents, States
<1>5. CASE InsertSeen(w, f)
  BY <1>5, <1>0, StateFacts DEF InsertSeen, Goes, TypeOK, contents, States
<1>6. CASE CommitRecord(w, f)
  BY <1>6, <1>0, EndsType, OverlappingType, WrittenType
     DEF CommitRecord, Answers, TypeOK, States
<1> QED
  BY <1>1, <1>2, <1>3, <1>4, <1>5, <1>6 DEF Record

LEMMA ClaimType ==
  ASSUME TypeOK, NEW w \in Writers, NEW id \in ClaimIds, NEW who \in Claimants,
         Claim(w, id, who)
  PROVE  TypeOK'
<1>0. w \in Sessions
  BY DEF Sessions
<1>1. CASE ClaimAgain(w, id, who)
  BY <1>1, <1>0 DEF ClaimAgain, TypeOK
<1>2. CASE ClaimNone(w, id, who)
  BY <1>2, <1>0, StateFacts DEF ClaimNone, Goes, TypeOK, contents, States
<1>3. CASE ClaimInsert(w, id, who)
  BY <1>3, <1>0, StateFacts DEF ClaimInsert, Goes, TypeOK, States
<1> QED
  BY <1>1, <1>2, <1>3 DEF Claim

LEMMA PurgeType ==
  ASSUME TypeOK, NEW p \in Purgers, NEW src \in Sources, PurgeSource(p, src)
  PROVE  TypeOK'
<1>0. p \in Sessions /\ Committed \subseteq Rows
  BY CommittedRows DEF Sessions
<1>1. CASE PurgeBegin(p, src)
  <2>0. 1 \in 1 .. 3
    OBVIOUS
  <2>1. <<"purge", src, 1>> \in States
    BY <2>0, StateFacts
  <2>2. at' \in [Sessions -> States] /\ old' \in [Purgers -> SUBSET Rows]
    BY <1>1, <1>0, <2>1 DEF PurgeBegin, Goes, TypeOK, States
  <2> QED
    BY <1>1, <2>2 DEF PurgeBegin, TypeOK, contents, States
<1>2. ASSUME NEW i \in 1 .. 2, Delete(p, src, i) PROVE TypeOK'
  <2>1. i + 1 \in 1 .. 3
    OBVIOUS
  <2> QED
    BY <1>2, <1>0, <2>1, StateFacts DEF Delete, Goes, TypeOK, contents, States
<1>3. CASE CommitPurge(p, src)
  BY <1>3, <1>0, EndsType, OverlappingType DEF CommitPurge, TypeOK, States
<1> QED
  BY <1>1, <1>2, <1>3 DEF PurgeSource

LEMMA RollbackType ==
  ASSUME TypeOK, NEW s \in Sessions, Rollback(s)
  PROVE  TypeOK'
BY EndsType DEF Rollback, TypeOK, contents, States

LEMMA TypeStep == TypeOK /\ [Next]_vars => TypeOK'
<1> SUFFICES ASSUME TypeOK, [Next]_vars PROVE TypeOK'
  OBVIOUS
<1>1. CASE UNCHANGED vars
  BY <1>1 DEF vars, contents, TypeOK
<1> QED
  BY <1>1, MarkType, RecordType, ClaimType, PurgeType, RollbackType DEF Next

(* The tables and the sessions' variables keep their types.                 *)
THEOREM TypeCorrect == Spec => []TypeOK
BY TypeInit, TypeStep, PTL DEF Spec
-----------------------------------------------------------------------------
(* The rows a session has locked.                                           *)
LEMMA LockedFrame ==
  ASSUME NEW s, at'[s] = at[s], held'[s] = held[s], LockedBy(s)
  PROVE  LockedBy(s)'
BY DEF LockedBy

LEMMA LockedInit == Init => Locked
BY DEF Init, Locked, LockedBy, Idle

(* A session without locks in a state that has none.                        *)
LEMMA LockedNothing ==
  ASSUME NEW s, held'[s] = {},
         \/ at'[s] = Idle
         \/ \E k \in Key : at'[s] \in {<<"novel", k>>, <<"mark", k>>}
         \/ \E f \in Finding : at'[s] = <<"insert", f>>
         \/ \E id, who : at'[s] = <<"claim", id, who>>
         \/ \E src : at'[s] = <<"purge", src, 1>>
  PROVE  LockedBy(s)'
BY DEF LockedBy, Idle

LEMMA LockedMark ==
  ASSUME TypeOK, Locked, NEW w \in Writers, NEW k \in Key,
         Seen(w, k) \/ MarkSeen(w, k)
  PROVE  LockedBy(w)'
<1>0. w \in Sessions /\ LockedBy(w) /\ w \in DOMAIN at /\ w \in DOMAIN held
  BY DEF Sessions, Locked, TypeOK
<1>1. CASE Seen(w, k)
  <2>1. held[w] = {}
    BY <1>0, <1>1 DEF Seen, LockedBy, Idle
  <2> QED
    BY <1>0, <1>1, <2>1, LockedNothing DEF Seen, Goes
<1>2. CASE AlreadyMarked(w, k)
  BY <1>0, <1>2, LockedNothing DEF AlreadyMarked, Ends, Goes
<1>3. CASE MarkCheck(w, k)
  <2>1. held[w] = {}
    BY <1>0, <1>3 DEF MarkCheck, LockedBy
  <2> QED
    BY <1>0, <1>3, <2>1, LockedNothing DEF MarkCheck, Goes
<1>4. CASE MarkInsert(w, k)
  BY <1>0, <1>4, LockedNothing DEF MarkInsert, Ends, Goes
<1> QED
  BY <1>1, <1>2, <1>3, <1>4 DEF MarkSeen

LEMMA LockedRecord ==
  ASSUME TypeOK, Locked, NEW w \in Writers, NEW f \in Finding, Record(w, f)
  PROVE  LockedBy(w)'
<1>0. w \in Sessions /\ LockedBy(w) /\ w \in DOMAIN at /\ w \in DOMAIN held
  BY DEF Sessions, Locked, TypeOK
<1>1. CASE UpdateFinding(w, f) \/ InsertFinding(w, f)
  <2>1. at'[w] = <<"check", f>> /\ held'[w] = {FindingRow(f.key)}
    BY <1>0, <1>1 DEF UpdateFinding, InsertFinding, Goes
  <2> QED
    BY <2>1 DEF LockedBy
<1>2. CASE UpdateNone(w, f)
  <2>1. held[w] = {}
    BY <1>0, <1>2 DEF UpdateNone, LockedBy
  <2> QED
    BY <1>0, <1>2, <2>1, LockedNothing DEF UpdateNone, Goes
<1>3. CASE CheckSeen(w, f)
  <2>1. held[w] = {FindingRow(f.key)}
    BY <1>0, <1>3 DEF CheckSeen, LockedBy
  <2>2. at'[w] \in {<<"commit", f>>, <<"dedupe", f>>} /\ held'[w] = held[w]
    BY <1>0, <1>3 DEF CheckSeen, Goes
  <2> QED
    BY <2>1, <2>2 DEF LockedBy
<1>4. CASE InsertSeen(w, f)
  <2>1. held[w] = {FindingRow(f.key)}
    BY <1>0, <1>4 DEF InsertSeen, LockedBy
  <2>2. at'[w] = <<"commit", f>> /\ held'[w] = held[w] \cup {SeenRow(f.key)}
    BY <1>0, <1>4 DEF InsertSeen, Goes
  <2> QED
    BY <2>1, <2>2 DEF LockedBy
<1>5. CASE CommitRecord(w, f)
  BY <1>0, <1>5, LockedNothing DEF CommitRecord, Ends, Goes
<1> QED
  BY <1>1, <1>2, <1>3, <1>4, <1>5 DEF Record

LEMMA LockedClaim ==
  ASSUME TypeOK, Locked, NEW w \in Writers, NEW id \in ClaimIds, NEW who \in Claimants,
         Claim(w, id, who)
  PROVE  LockedBy(w)'
<1>0. w \in Sessions /\ LockedBy(w) /\ w \in DOMAIN at /\ w \in DOMAIN held
  BY DEF Sessions, Locked, TypeOK
<1>1. held[w] = {} /\ held' = held
  BY <1>0 DEF Claim, ClaimAgain, ClaimNone, ClaimInsert, LockedBy, Idle
<1>2. at'[w] \in {Idle, <<"claim", id, who>>}
  BY <1>0 DEF Claim, ClaimAgain, ClaimNone, ClaimInsert, Goes
<1> QED
  BY <1>1, <1>2, LockedNothing

LEMMA LockedPurge ==
  ASSUME TypeOK, Locked, NEW p \in Purgers, NEW src \in Sources, PurgeSource(p, src)
  PROVE  LockedBy(p)'
<1>0. p \in Sessions /\ LockedBy(p) /\ p \in DOMAIN at /\ p \in DOMAIN held
  BY DEF Sessions, Locked, TypeOK
<1>1. CASE PurgeBegin(p, src)
  <2>1. held[p] = {}
    BY <1>0, <1>1 DEF PurgeBegin, LockedBy, Idle
  <2> QED
    BY <1>0, <1>1, <2>1, LockedNothing DEF PurgeBegin, Goes
<1>2. ASSUME NEW i \in 1 .. 2, Delete(p, src, i) PROVE LockedBy(p)'
  <2> DEFINE rows == Committed \cap RowsOf(PurgeOrder[i], src)
  <2>1. /\ at[p] = <<"purge", src, i>> /\ at'[p] = <<"purge", src, i + 1>>
        /\ held'[p] = held[p] \cup rows
    BY <1>0, <1>2 DEF Delete, Goes
  <2>2. \A r \in held[p] : r[2][2] = src /\ Deleted(r[1], i)
    BY <1>0, <2>1 DEF LockedBy
  <2>3. \A r \in held[p] : Deleted(r[1], i + 1)
    BY <2>2 DEF Deleted
  <2>4. \A r \in rows : r[2][2] = src /\ r[1] = PurgeOrder[i]
    BY DEF RowsOf
  <2>5. Deleted(PurgeOrder[i], i + 1)
    BY DEF Deleted
  <2>6. \A r \in held'[p] : r[2][2] = src /\ Deleted(r[1], i + 1)
    BY <2>1, <2>2, <2>3, <2>4, <2>5
  <2> HIDE DEF rows
  <2> QED
    BY <2>1, <2>6 DEF LockedBy, Deleted
<1>3. CASE CommitPurge(p, src)
  BY <1>0, <1>3, LockedNothing DEF CommitPurge, Ends, Goes
<1> QED
  BY <1>1, <1>2, <1>3 DEF PurgeSource

LEMMA LockedRollback ==
  ASSUME TypeOK, NEW s \in Sessions, Rollback(s)
  PROVE  LockedBy(s)'
<1>1. s \in DOMAIN at /\ s \in DOMAIN held
  BY DEF TypeOK
<1> QED
  BY <1>1, LockedNothing DEF Rollback, Ends, Goes

(* A step of Next is a step of one session.                                 *)
Acts(s) ==
  \/ /\ s \in Writers
     /\ \/ \E k \in Key : Seen(s, k) \/ MarkSeen(s, k)
        \/ \E f \in Finding : Record(s, f)
        \/ \E id \in ClaimIds, who \in Claimants : Claim(s, id, who)
  \/ s \in Purgers /\ \E src \in Sources : PurgeSource(s, src)
  \/ Rollback(s)

LEMMA SomebodyActs == Next => \E s \in Sessions : Acts(s)
BY DEF Next, Acts, Sessions

LEMMA ActsAlone ==
  ASSUME TypeOK, NEW s \in Sessions, Acts(s), NEW t \in Sessions, t # s
  PROVE  at'[t] = at[t] /\ held'[t] = held[t]
<1>0. at \in [Sessions -> States] /\ held \in [Sessions -> SUBSET Rows]
  BY DEF TypeOK, States
<1>1. CASE \E k \in Key : Seen(s, k) \/ MarkSeen(s, k)
  BY <1>0, <1>1 DEF Seen, MarkSeen, AlreadyMarked, MarkCheck, MarkInsert, Ends, Goes
<1>2. CASE \E f \in Finding : Record(s, f)
  BY <1>0, <1>2 DEF Record, UpdateFinding, UpdateNone, InsertFinding, CheckSeen,
                    InsertSeen, CommitRecord, Ends, Goes
<1>3. CASE \E id \in ClaimIds, who \in Claimants : Claim(s, id, who)
  BY <1>0, <1>3 DEF Claim, ClaimAgain, ClaimNone, ClaimInsert, Goes
<1>4. CASE \E src \in Sources : PurgeSource(s, src)
  BY <1>0, <1>4 DEF PurgeSource, PurgeBegin, Delete, CommitPurge, Ends, Goes
<1>5. CASE Rollback(s)
  BY <1>0, <1>5 DEF Rollback, Ends, Goes
<1> QED
  BY <1>1, <1>2, <1>3, <1>4, <1>5 DEF Acts

LEMMA LockedStep == TypeOK /\ Locked /\ [Next]_vars => Locked'
<1> SUFFICES ASSUME TypeOK, Locked, [Next]_vars PROVE Locked'
  OBVIOUS
<1>1. CASE UNCHANGED vars
  BY <1>1 DEF vars, Locked, LockedBy
<1>2. CASE Next
  <2>1. PICK s \in Sessions : Acts(s)
    BY <1>2, SomebodyActs
  <2>2. LockedBy(s)'
    BY <2>1, LockedMark, LockedRecord, LockedClaim, LockedPurge, LockedRollback DEF Acts
  <2>3. ASSUME NEW t \in Sessions, t # s PROVE LockedBy(t)'
    <3>1. LockedBy(t)
      BY DEF Locked
    <3> QED
      BY <2>1, <2>3, <3>1, ActsAlone, LockedFrame
  <2> QED
    BY <2>2, <2>3 DEF Locked
<1> QED
  BY <1>1, <1>2

LEMMA LockedAlways == Spec => [](TypeOK /\ Locked)
BY TypeInit, TypeStep, LockedInit, LockedStep, PTL DEF Spec

-----------------------------------------------------------------------------
(* Deadlock. Who holds a dedupe row needs nothing more.                     *)
LEMMA HolderOfSeen ==
  ASSUME TypeOK, Locked, NEW s \in Sessions, NEW r \in held[s], r[1] = "seen"
  PROVE  Needs(s) = {}
<1>1. LockedBy(s) /\ at[s] \in States
  BY DEF Locked, TypeOK, States
<1>2. \A f \in Finding : FindingRow(f.key)[1] = "finding"
  BY DEF FindingRow
<1>3. \/ \E f \in Finding : at[s] = <<"commit", f>>
      \/ \E src \in Sources, i \in 1 .. 3 : at[s] = <<"purge", src, i>>
  BY <1>1, <1>2 DEF LockedBy, States, WriterStates, PurgerStates, Idle
<1>4. CASE \E f \in Finding : at[s] = <<"commit", f>>
  BY <1>4 DEF Needs
<1>5. ASSUME NEW src \in Sources, NEW i \in 1 .. 3, at[s] = <<"purge", src, i>>
      PROVE  Needs(s) = {}
  <2>1. Deleted("seen", i)
    BY <1>1, <1>5 DEF LockedBy
  <2>2. i = 3
    BY <2>1, OrderFacts
  <2> QED
    BY <1>5, <2>2, OrderFacts DEF Needs
<1> QED
  BY <1>3, <1>4, <1>5

(* Who needs a finding's row holds nothing.                                 *)
LEMMA NeederOfFinding ==
  ASSUME TypeOK, Locked, NEW s \in Sessions, NEW r \in Needs(s), r[1] = "finding"
  PROVE  held[s] = {}
<1>1. LockedBy(s)
  BY DEF Locked
<1>2. \/ at[s][1] \in {"novel", "insert"}
      \/ \E src \in Sources : at[s] = <<"purge", src, 1>>
  BY OrderFacts DEF Needs
<1>3. CASE at[s][1] \in {"novel", "insert"}
  BY <1>1, <1>3 DEF LockedBy
<1>4. ASSUME NEW src \in Sources, at[s] = <<"purge", src, 1>> PROVE held[s] = {}
  <2>1. 1 \in 1 .. 3
    OBVIOUS
  <2> QED
    BY <1>1, <1>4, <2>1, OrderFacts DEF LockedBy
<1> QED
  BY <1>2, <1>3, <1>4

LEMMA OrderPreventsCircles == TypeOK /\ Locked => NoCircularWait
<1> SUFFICES ASSUME TypeOK, Locked, NEW S \in (SUBSET Sessions) \ {{}},
                    \A s \in S : \E t \in S : WaitsFor(s, t)
             PROVE  FALSE
  BY DEF NoCircularWait
<1>1. \A s \in S : \E t \in S : \E r \in Needs(s) : r \in held[t] /\ r \in Rows
  BY DEF WaitsFor, Needs
<1>2. \A s \in S : Needs(s) # {}
  BY <1>1
<1>3. \A s \in S : held[s] = {}
  <2> TAKE s \in S
  <2>1. PICK t \in S, r \in Needs(s) : r \in held[t] /\ r \in Rows
    BY <1>1
  <2>2. r[1] # "seen"
    BY <1>2, <2>1, HolderOfSeen
  <2>3. r[1] = "finding"
    BY <2>1, <2>2 DEF Rows
  <2> QED
    BY <2>3, NeederOfFinding
<1> QED
  BY <1>1, <1>3

(* No two or more sessions ever wait for each other in a circle, however    *)
(* many writers and purges work on the database: Record and PurgeSource go  *)
(* through the two tables in one order, and the other calls hold one lock.  *)
THEOREM NoDeadlock == Spec => []NoCircularWait
BY LockedAlways, OrderPreventsCircles, PTL

-----------------------------------------------------------------------------
(* What the steps make of the committed rows.                               *)
LEMMA RowsCommitted ==
  /\ \A k \in Key : SeenRow(k) \in Committed <=> k \in seen
  /\ \A k \in Key : FindingRow(k) \in Committed <=> \E f \in findings : f.key = k
  /\ TypeOK => Committed \subseteq Rows
BY CommittedRows DEF Committed, FindingRow, SeenRow

LEMMA MarkInsertCommits ==
  ASSUME NEW w, NEW k \in Key, MarkInsert(w, k)
  PROVE  Committed' = Committed \cup {SeenRow(k)}
BY DEF MarkInsert, Committed

LEMMA HeldByRecord ==
  ASSUME Locked, NEW w \in Sessions, NEW f \in Finding, at[w] = <<"commit", f>>
  PROVE  FindingRow(f.key) \in held[w]
         /\ held[w] \subseteq {FindingRow(f.key), SeenRow(f.key)}
BY DEF Locked, LockedBy

LEMMA CommitRecordCommits ==
  ASSUME TypeOK, Locked, NEW w \in Writers, NEW f \in Finding, CommitRecord(w, f)
  PROVE  Committed' = Committed \cup held[w]
<1>0. w \in Sessions /\ f.key \in Key
  BY KeyFacts DEF Sessions
<1>1. /\ FindingRow(f.key) \in held[w]
      /\ held[w] \subseteq {FindingRow(f.key), SeenRow(f.key)}
  BY <1>0, HeldByRecord DEF CommitRecord
<1>2. /\ findings' = {g \in findings : g.key # f.key} \cup {f}
      /\ seen' = seen \cup {k \in Key : SeenRow(k) \in held[w]}
  BY DEF CommitRecord
<1>3. {FindingRow(g.key) : g \in findings'}
        = {FindingRow(g.key) : g \in findings} \cup {FindingRow(f.key)}
  BY <1>2
<1>4. {k \in Key : SeenRow(k) \in held[w]} = {k \in {f.key} : SeenRow(k) \in held[w]}
  BY <1>0, <1>1, RowFacts
<1>5. {SeenRow(k) : k \in seen'}
        = {SeenRow(k) : k \in seen} \cup {r \in {SeenRow(f.key)} : r \in held[w]}
  BY <1>2, <1>4
<1>6. held[w] = {FindingRow(f.key)} \cup {r \in {SeenRow(f.key)} : r \in held[w]}
  BY <1>1
<1> QED
  BY <1>3, <1>5, <1>6 DEF Committed

LEMMA CommitPurgeCommits ==
  ASSUME TypeOK, NEW p, NEW src, CommitPurge(p, src)
  PROVE  Committed' = Committed \ held[p]
<1>1. /\ findings' = {f \in findings : FindingRow(f.key) \notin held[p]}
      /\ seen' = {k \in seen : SeenRow(k) \notin held[p]}
  BY DEF CommitPurge
<1>2. {FindingRow(f.key) : f \in findings'}
        = {FindingRow(f.key) : f \in findings} \ held[p]
  BY <1>1
<1>3. {SeenRow(k) : k \in seen'} = {SeenRow(k) : k \in seen} \ held[p]
  BY <1>1
<1> QED
  BY <1>2, <1>3 DEF Committed

(* The steps that commit nothing to seen or finding.                        *)
Quiet(s) ==
  \/ \E k \in Key : Seen(s, k) \/ AlreadyMarked(s, k) \/ MarkCheck(s, k)
  \/ \E f \in Finding : \/ UpdateFinding(s, f) \/ UpdateNone(s, f)
                        \/ InsertFinding(s, f) \/ CheckSeen(s, f) \/ InsertSeen(s, f)
  \/ \E id \in ClaimIds, who \in Claimants : Claim(s, id, who)
  \/ \E src \in Sources : PurgeBegin(s, src) \/ \E i \in 1 .. 2 : Delete(s, src, i)
  \/ Rollback(s)

LEMMA QuietKeeps ==
  ASSUME NEW s, Quiet(s)
  PROVE  /\ seen' = seen /\ findings' = findings /\ Committed' = Committed
         /\ gone' = gone
         /\ beside' = beside \/ beside' = beside \ {s}
<1>1. seen' = seen /\ findings' = findings /\ gone' = gone
  BY DEF Quiet, Seen, AlreadyMarked, MarkCheck, UpdateFinding, UpdateNone,
         InsertFinding, CheckSeen, InsertSeen, Claim, ClaimAgain, ClaimNone,
         ClaimInsert, PurgeBegin, Delete, Rollback, contents
<1>2. Committed' = Committed
  BY <1>1 DEF Committed
<1>3. beside' = beside \/ beside' = beside \ {s}
  BY DEF Quiet, Seen, AlreadyMarked, MarkCheck, UpdateFinding, UpdateNone,
         InsertFinding, CheckSeen, InsertSeen, Claim, ClaimAgain, ClaimNone,
         ClaimInsert, PurgeBegin, Delete, Rollback, Ends
<1> QED
  BY <1>1, <1>2, <1>3

LEMMA ActsQuietlyOrNot ==
  ASSUME NEW s, Acts(s)
  PROVE  \/ Quiet(s)
         \/ s \in Writers /\ \E k \in Key : MarkInsert(s, k)
         \/ s \in Writers /\ \E f \in Finding : CommitRecord(s, f)
         \/ s \in Purgers /\ \E src \in Sources : CommitPurge(s, src)
BY DEF Acts, Quiet, MarkSeen, Record, PurgeSource

-----------------------------------------------------------------------------
(* What was promised is kept, what was purged is gone.                      *)
LEMMA AckedStep ==
  ASSUME TypeOK, SessionInv, NEW s \in Sessions, Acts(s)
  PROVE  AckedDurable'
<1>0. Locked /\ MarksBoth /\ promised \subseteq Committed /\ promised \subseteq Rows
  BY DEF SessionInv, AckedDurable, TypeOK
<1>1. CASE Quiet(s)
  <2>1. CASE \E k \in Key : AlreadyMarked(s, k)
    <3>1. PICK k \in Key : AlreadyMarked(s, k)
      BY <2>1
    <3>2. SeenRow(k) \in Committed
      BY <3>1, RowsCommitted DEF AlreadyMarked
    <3> QED
      BY <1>0, <1>1, <3>1, <3>2, QuietKeeps DEF AlreadyMarked, Answers, AckedDurable
  <2>2. CASE ~\E k \in Key : AlreadyMarked(s, k)
    <3>1. promised' = promised
      BY <1>1, <2>2 DEF Quiet, Seen, MarkCheck, UpdateFinding, UpdateNone,
        InsertFinding, CheckSeen, InsertSeen, Claim, ClaimAgain, ClaimNone,
        ClaimInsert, PurgeBegin, Delete, Rollback
    <3> QED
      BY <1>0, <1>1, <3>1, QuietKeeps DEF AckedDurable
  <2> QED
    BY <2>1, <2>2
<1>2. ASSUME NEW k \in Key, MarkInsert(s, k) PROVE AckedDurable'
  BY <1>0, <1>2, MarkInsertCommits DEF MarkInsert, Answers, AckedDurable
<1>3. ASSUME s \in Writers, NEW f \in Finding, CommitRecord(s, f) PROVE AckedDurable'
  <2>1. FindingRow(f.key) \in held[s] /\ Committed' = Committed \cup held[s]
    BY <1>0, <1>3, HeldByRecord, CommitRecordCommits DEF CommitRecord
  <2>2. CASE s \in beside
    BY <1>0, <1>3, <2>1, <2>2 DEF CommitRecord, Answers, AckedDurable
  <2>3. CASE s \notin beside
    <3>1. f.key \in seen \/ SeenRow(f.key) \in held[s]
      BY <1>0, <1>3, <2>3 DEF MarksBoth, MarksBothIn, CommitRecord
    <3>2. SeenRow(f.key) \in Committed'
      BY <2>1, <3>1, KeyFacts, RowsCommitted
    <3> QED
      BY <1>0, <1>3, <2>1, <2>3, <3>2 DEF CommitRecord, Answers, AckedDurable
  <2> QED
    BY <2>2, <2>3
<1>4. ASSUME NEW src \in Sources, CommitPurge(s, src) PROVE AckedDurable'
  <2>1. Committed' = Committed \ held[s]
    BY <1>4, CommitPurgeCommits
  <2>2. 3 \in 1 .. 3 /\ LockedBy(s)
    BY <1>0 DEF Locked
  <2>3. \A r \in held[s] : r[2][2] = src
    BY <1>4, <2>2 DEF LockedBy, CommitPurge
  <2> QED
    BY <1>0, <1>4, <2>1, <2>3 DEF CommitPurge, AckedDurable
<1> QED
  BY <1>1, <1>2, <1>3, <1>4, ActsQuietlyOrNot

LEMMA GoneStep ==
  ASSUME TypeOK, SessionInv, NEW s \in Sessions, Acts(s)
  PROVE  PurgedGone'
<1>0. Locked /\ TakesAll /\ gone \cap Committed = {} /\ Committed \subseteq Rows
  BY CommittedRows DEF SessionInv, PurgedGone
<1>1. CASE Quiet(s)
  BY <1>0, <1>1, QuietKeeps DEF PurgedGone
<1>2. ASSUME NEW k \in Key, MarkInsert(s, k) PROVE PurgedGone'
  BY <1>0, <1>2, MarkInsertCommits DEF MarkInsert, Written, PurgedGone
<1>3. ASSUME s \in Writers, NEW f \in Finding, CommitRecord(s, f) PROVE PurgedGone'
  BY <1>0, <1>3, CommitRecordCommits DEF CommitRecord, Written, PurgedGone
<1>4. ASSUME s \in Purgers, NEW src \in Sources, CommitPurge(s, src) PROVE PurgedGone'
  <2>1. Committed' = Committed \ held[s]
    BY <1>4, CommitPurgeCommits
  <2>2. 3 \in 1 .. 3 /\ TakesAllIn(s)
    BY <1>0, <1>4 DEF TakesAll
  <2>3. \A r \in Rows : Deleted(r[1], 3)
    BY OrderFacts DEF Rows
  <2>4. old[s] \cap Committed \subseteq held[s]
    BY <1>0, <1>4, <2>2, <2>3 DEF TakesAllIn, CommitPurge
  <2> QED
    BY <1>0, <1>4, <2>1, <2>4 DEF CommitPurge, PurgedGone
<1> QED
  BY <1>1, <1>2, <1>3, <1>4, ActsQuietlyOrNot

-----------------------------------------------------------------------------
LEMMA NotQuietEnds ==
  ASSUME NEW s, Acts(s), ~Quiet(s)
  PROVE  \E others : Ends(s, others)
BY ActsQuietlyOrNot DEF MarkInsert, CommitRecord, CommitPurge

(* Only its own end makes a session forget what happened beside it.         *)
LEMMA KeepsBeside ==
  ASSUME NEW s, Acts(s), NEW t, t # s, t \in beside
  PROVE  t \in beside'
<1>1. CASE Quiet(s)
  BY <1>1, QuietKeeps
<1>2. CASE ~Quiet(s)
  <2>1. PICK others : Ends(s, others)
    BY <1>2, NotQuietEnds
  <2> QED
    BY <2>1 DEF Ends
<1> QED
  BY <1>1, <1>2

(* A record about to commit leaves a dedupe row.                            *)
LEMMA MarksStep ==
  ASSUME TypeOK, SessionInv, NEW s \in Sessions, Acts(s)
  PROVE  MarksBoth'
<1>0. Locked /\ MarksBoth /\ at \in [Sessions -> States] /\ held \in [Sessions -> SUBSET Rows]
  BY DEF SessionInv, TypeOK, States
<1> SUFFICES ASSUME NEW w \in Writers \ beside', NEW f \in Finding,
                    at'[w] = <<"commit", f>>
             PROVE  f.key \in seen' \/ SeenRow(f.key) \in held'[w]
  BY DEF MarksBoth, MarksBothIn
<1>a. w \in Sessions /\ f.key \in Key
  BY KeyFacts DEF Sessions
<1>1. CASE w = s
  <2>1. CASE Quiet(s)
    <3>1. \E g \in Finding : CheckSeen(s, g) \/ InsertSeen(s, g)
      <4>0. at'[s] = <<"commit", f>>
        BY <1>1
      <4>1. CASE \E k \in Key : Seen(s, k) \/ AlreadyMarked(s, k) \/ MarkCheck(s, k)
        BY <1>0, <4>0, <4>1 DEF Seen, AlreadyMarked, MarkCheck, Ends, Goes, Idle
      <4>2. CASE \E g \in Finding : UpdateFinding(s, g) \/ UpdateNone(s, g)
                                    \/ InsertFinding(s, g)
        BY <1>0, <4>0, <4>2 DEF UpdateFinding, UpdateNone, InsertFinding, Goes
      <4>3. CASE \E id \in ClaimIds, who \in Claimants : Claim(s, id, who)
        BY <1>0, <4>0, <4>3 DEF Claim, ClaimAgain, ClaimNone, ClaimInsert, Goes, Idle
      <4>4. CASE \E src \in Sources : PurgeBegin(s, src) \/ \E i \in 1 .. 2 : Delete(s, src, i)
        BY <1>0, <4>0, <4>4 DEF PurgeBegin, Delete, Goes
      <4>5. CASE Rollback(s)
        BY <1>0, <4>0, <4>5 DEF Rollback, Ends, Goes, Idle
      <4> QED
        BY <2>1, <4>1, <4>2, <4>3, <4>4, <4>5 DEF Quiet
    <3>2. PICK g \in Finding : CheckSeen(s, g) \/ InsertSeen(s, g)
      BY <3>1
    <3>3. g = f
      BY <1>0, <1>1, <1>a, <3>2 DEF CheckSeen, InsertSeen, Goes
    <3> QED
      BY <1>0, <1>1, <1>a, <3>2, <3>3 DEF CheckSeen, InsertSeen, Goes, contents
  <2>2. CASE ~Quiet(s)
    <3>1. at'[s] = Idle
      BY <1>0, <2>2, NotQuietEnds DEF Ends, Goes
    <3> QED
      BY <1>1, <3>1 DEF Idle
  <2> QED
    BY <2>1, <2>2
<1>2. CASE w # s
  <2>1. at[w] = <<"commit", f>> /\ held'[w] = held[w]
    BY <1>2, <1>a, ActsAlone
  <2>2. w \notin beside
    BY <1>2, KeepsBeside
  <2>3. f.key \in seen \/ SeenRow(f.key) \in held[w]
    BY <1>0, <2>1, <2>2 DEF MarksBoth, MarksBothIn
  <2>4. CASE Quiet(s)
    BY <2>1, <2>3, <2>4, QuietKeeps
  <2>5. CASE \E k \in Key : MarkInsert(s, k)
    BY <2>1, <2>3, <2>5 DEF MarkInsert
  <2>6. CASE \E g \in Finding : CommitRecord(s, g)
    BY <2>1, <2>3, <2>6 DEF CommitRecord
  <2>7. ASSUME NEW src \in Sources, CommitPurge(s, src)
        PROVE  f.key \in seen' \/ SeenRow(f.key) \in held'[w]
    <3>1. w \notin Overlapping(Writers, src)
      BY <1>2, <2>7 DEF CommitPurge, Ends
    <3>2. f.key[2] # src
      BY <2>1, <3>1 DEF Overlapping, About
    <3>3. SeenRow(f.key) \notin held[s]
      <4>1. LockedBy(s) /\ 3 \in 1 .. 3
        BY <1>0 DEF Locked
      <4> QED
        BY <2>7, <3>2, <4>1 DEF LockedBy, CommitPurge, SeenRow
    <3> QED
      BY <2>1, <2>3, <2>7, <3>3 DEF CommitPurge
  <2> QED
    BY <2>4, <2>5, <2>6, <2>7, ActsQuietlyOrNot
<1> QED
  BY <1>1, <1>2

-----------------------------------------------------------------------------
(* What a purge has to take, and what it has locked. A purge changes its    *)
(* state only by its own statements.                                        *)
LEMMA PurgerSteps ==
  ASSUME TypeOK, NEW p \in Purgers, Acts(p), NEW src, NEW i \in 1 .. 3,
         at'[p] = <<"purge", src, i>>
  PROVE  \/ i = 1 /\ src \in Sources /\ PurgeBegin(p, src)
         \/ i - 1 \in 1 .. 2 /\ src \in Sources /\ Delete(p, src, i - 1)
<1>0. at \in [Sessions -> States] /\ p \in Sessions /\ p \notin Writers
  BY SessionAssumption DEF TypeOK, States, Sessions
<1>1. PICK src2 \in Sources : PurgeSource(p, src2) \/ Rollback(p)
  <2>1. CASE Rollback(p)
    BY <1>0, <2>1 DEF Rollback, Ends, Goes, Idle
  <2> QED
    BY <1>0, <2>1 DEF Acts
<1>2. ~Rollback(p) /\ ~CommitPurge(p, src2)
  BY <1>0 DEF Rollback, CommitPurge, Ends, Goes, Idle
<1>3. CASE PurgeBegin(p, src2)
  <2>1. at'[p] = <<"purge", src2, 1>>
    BY <1>0, <1>3 DEF PurgeBegin, Goes
  <2> QED
    BY <1>3, <2>1
<1>4. ASSUME NEW j \in 1 .. 2, Delete(p, src2, j)
      PROVE  i - 1 \in 1 .. 2 /\ src \in Sources /\ Delete(p, src, i - 1)
  <2>1. at'[p] = <<"purge", src2, j + 1>>
    BY <1>0, <1>4 DEF Delete, Goes
  <2>2. src = src2 /\ i = j + 1 /\ j = i - 1
    BY <2>1
  <2> QED
    BY <1>4, <2>2
<1> QED
  BY <1>1, <1>2, <1>3, <1>4 DEF PurgeSource

(* Whoever else acts, what a purge has to take of the committed rows does   *)
(* not grow.                                                                *)
LEMMA OldShrinks ==
  ASSUME TypeOK, Locked, NEW s \in Sessions, Acts(s), NEW p \in Purgers, p # s
  PROVE  old'[p] \cap Committed' \subseteq old[p] \cap Committed
<1>0. old \in [Purgers -> SUBSET Rows]
  BY DEF TypeOK
<1>1. CASE Quiet(s)
  <2>1. old'[p] = old[p]
    BY <1>0, <1>1 DEF Quiet, Seen, AlreadyMarked, MarkCheck, UpdateFinding, UpdateNone,
       InsertFinding, CheckSeen, InsertSeen, Claim, ClaimAgain, ClaimNone,
       ClaimInsert, PurgeBegin, Delete, Rollback
  <2> QED
    BY <1>1, <2>1, QuietKeeps
<1>2. ASSUME NEW k \in Key, MarkInsert(s, k)
      PROVE  old'[p] \cap Committed' \subseteq old[p] \cap Committed
  BY <1>0, <1>2, MarkInsertCommits DEF MarkInsert, Written
<1>3. ASSUME s \in Writers, NEW f \in Finding, CommitRecord(s, f)
      PROVE  old'[p] \cap Committed' \subseteq old[p] \cap Committed
  BY <1>0, <1>3, CommitRecordCommits DEF CommitRecord, Written
<1>4. ASSUME NEW src \in Sources, CommitPurge(s, src)
      PROVE  old'[p] \cap Committed' \subseteq old[p] \cap Committed
  <2>1. old'[p] = old[p]
    BY <1>0, <1>4 DEF CommitPurge
  <2> QED
    BY <1>4, <2>1, CommitPurgeCommits
<1> QED
  BY <1>1, <1>2, <1>3, <1>4, ActsQuietlyOrNot

LEMMA DeletedNext ==
  ASSUME NEW i \in 1 .. 3, i - 1 \in 1 .. 2, NEW table, Deleted(table, i)
  PROVE  Deleted(table, i - 1) \/ table = PurgeOrder[i - 1]
BY DEF Deleted

LEMMA TakesStep ==
  ASSUME TypeOK, SessionInv, NEW s \in Sessions, Acts(s)
  PROVE  TakesAll'
<1>0. Locked /\ TakesAll /\ old \in [Purgers -> SUBSET Rows] /\ Committed \subseteq Rows
      /\ held \in [Sessions -> SUBSET Rows]
  BY CommittedRows DEF SessionInv, TypeOK
<1> SUFFICES ASSUME NEW p \in Purgers, NEW src \in Sources, NEW i \in 1 .. 3,
                    at'[p] = <<"purge", src, i>>, NEW r \in old'[p] \cap Committed'
             PROVE  r[2][2] = src /\ (Deleted(r[1], i) => r \in held'[p])
  BY DEF TakesAll, TakesAllIn, Deleted, PurgeOrder
<1>a. p \in Sessions
  BY DEF Sessions
<1>1. CASE p # s
  <2>1. at[p] = <<"purge", src, i>> /\ held'[p] = held[p]
    BY <1>1, <1>a, ActsAlone
  <2>2. r \in old[p] \cap Committed
    BY <1>0, <1>1, OldShrinks
  <2> QED
    BY <1>0, <2>1, <2>2 DEF TakesAll, TakesAllIn
<1>2. CASE p = s
  <2>1. CASE i = 1 /\ PurgeBegin(p, src)
    <3>1. r \in RowsOf("finding", src) \cup RowsOf("seen", src)
      BY <1>0, <2>1 DEF PurgeBegin
    <3>2. r[2][2] = src
      BY <3>1 DEF RowsOf
    <3>3. ~Deleted(r[1], i)
      BY <2>1, OrderFacts
    <3> QED
      BY <3>2, <3>3
  <2>2. CASE i - 1 \in 1 .. 2 /\ Delete(p, src, i - 1)
    <3>1. /\ r \in old[p] \cap Committed
          /\ at[p] = <<"purge", src, i - 1>>
          /\ held'[p] = held[p] \cup (Committed \cap RowsOf(PurgeOrder[i - 1], src))
      <4>1. Quiet(p)
        BY <2>2 DEF Quiet
      <4> QED
        BY <1>0, <1>a, <2>2, <4>1, QuietKeeps DEF Delete
    <3>2. i - 1 \in 1 .. 3 /\ TakesAllIn(p)
      BY <1>0, <2>2 DEF TakesAll
    <3>3. r[2][2] = src /\ (Deleted(r[1], i - 1) => r \in held[p])
      BY <3>1, <3>2 DEF TakesAllIn
    <3>4. r[1] = PurgeOrder[i - 1] => r \in Committed \cap RowsOf(PurgeOrder[i - 1], src)
      BY <1>0, <3>1, <3>3 DEF RowsOf
    <3> QED
      BY <2>2, <3>1, <3>3, <3>4, DeletedNext
  <2> QED
    BY <1>2, <2>1, <2>2, PurgerSteps
<1> QED
  BY <1>1, <1>2

LEMMA DeletesStep ==
  ASSUME TypeOK, SessionInv, NEW s \in Sessions, Acts(s)
  PROVE  DeletesAll'
<1>0. Locked /\ DeletesAll /\ Committed \subseteq Rows /\ held \in [Sessions -> SUBSET Rows]
  BY CommittedRows DEF SessionInv, TypeOK
<1> SUFFICES ASSUME NEW p \in Purgers \ beside', NEW src \in Sources, NEW i \in 1 .. 3,
                    at'[p] = <<"purge", src, i>>,
                    NEW r \in Committed', r[2][2] = src, Deleted(r[1], i)
             PROVE  r \in held'[p]
  BY DEF DeletesAll, DeletesAllIn, Deleted, PurgeOrder
<1>a. p \in Sessions
  BY DEF Sessions
<1>1. CASE p # s
  <2>1. /\ at[p] = <<"purge", src, i>> /\ held'[p] = held[p]
        /\ p \notin beside /\ About(p, src)
    BY <1>1, <1>a, ActsAlone, KeepsBeside DEF About
  <2>2. r \in Committed => r \in held[p]
    BY <1>0, <2>1 DEF DeletesAll, DeletesAllIn
  <2>3. \A others : Ends(s, others) => p \notin others
    BY <1>1 DEF Ends
  <2>4. CASE Quiet(s)
    BY <2>1, <2>2, <2>4, QuietKeeps
  <2>5. ASSUME NEW k \in Key, MarkInsert(s, k) PROVE r \in held'[p]
    <3>1. k[2] # src
      BY <2>1, <2>3, <2>5 DEF MarkInsert, Overlapping
    <3> QED
      BY <2>1, <2>2, <2>5, <3>1, MarkInsertCommits DEF SeenRow
  <2>6. ASSUME s \in Writers, NEW f \in Finding, CommitRecord(s, f) PROVE r \in held'[p]
    <3>1. f.key[2] # src
      BY <2>1, <2>3, <2>6 DEF CommitRecord, Overlapping
    <3>2. held[s] \subseteq {FindingRow(f.key), SeenRow(f.key)}
      BY <1>0, <2>6, HeldByRecord DEF CommitRecord
    <3> QED
      BY <1>0, <2>1, <2>2, <2>6, <3>1, <3>2, CommitRecordCommits DEF FindingRow, SeenRow
  <2>7. ASSUME NEW src2 \in Sources, CommitPurge(s, src2) PROVE r \in held'[p]
    BY <2>1, <2>2, <2>7, CommitPurgeCommits
  <2> QED
    BY <2>4, <2>5, <2>6, <2>7, ActsQuietlyOrNot
<1>2. CASE p = s
  <2>1. CASE i = 1 /\ PurgeBegin(p, src)
    BY <2>1, OrderFacts
  <2>2. CASE i - 1 \in 1 .. 2 /\ Delete(p, src, i - 1)
    <3>1. Quiet(p)
      BY <2>2 DEF Quiet
    <3>2. /\ r \in Committed /\ p \notin beside
          /\ at[p] = <<"purge", src, i - 1>>
          /\ held'[p] = held[p] \cup (Committed \cap RowsOf(PurgeOrder[i - 1], src))
      BY <1>0, <1>a, <2>2, <3>1, QuietKeeps DEF Delete
    <3>3. i - 1 \in 1 .. 3 /\ DeletesAllIn(p)
      BY <1>0, <2>2, <3>2 DEF DeletesAll
    <3>4. Deleted(r[1], i - 1) => r \in held[p]
      BY <3>2, <3>3 DEF DeletesAllIn
    <3>5. r[1] = PurgeOrder[i - 1] => r \in Committed \cap RowsOf(PurgeOrder[i - 1], src)
      BY <1>0, <3>2 DEF RowsOf
    <3> QED
      BY <2>2, <3>2, <3>4, <3>5, DeletedNext
  <2> QED
    BY <1>2, <2>1, <2>2, PurgerSteps
<1> QED
  BY <1>1, <1>2

-----------------------------------------------------------------------------
LEMMA SessionInit == Init => SessionInv
<1> SUFFICES ASSUME Init PROVE SessionInv
  OBVIOUS
<1>1. Committed = {}
  BY DEF Init, Committed
<1>2. \A s \in Sessions : at[s] = <<"idle">>
  BY DEF Init, Idle
<1>3. MarksBoth /\ TakesAll /\ DeletesAll
  BY <1>1, <1>2 DEF MarksBoth, MarksBothIn, TakesAll, TakesAllIn, DeletesAll,
                    DeletesAllIn, Sessions
<1> QED
  BY <1>1, <1>3, LockedInit DEF Init, SessionInv, AckedDurable, PurgedGone

LEMMA SessionStep == TypeOK /\ SessionInv /\ [Next]_vars => SessionInv'
<1> SUFFICES ASSUME TypeOK, SessionInv, [Next]_vars PROVE SessionInv'
  OBVIOUS
<1>1. Locked'
  BY LockedStep DEF SessionInv
<1>2. CASE UNCHANGED vars
  BY <1>1, <1>2 DEF vars, contents, SessionInv, MarksBoth, MarksBothIn, TakesAll,
     TakesAllIn, DeletesAll, DeletesAllIn, Deleted, PurgeOrder, AckedDurable,
     PurgedGone, Committed
<1>3. CASE Next
  BY <1>1, <1>3, SomebodyActs, MarksStep, TakesStep, DeletesStep, AckedStep, GoneStep
     DEF SessionInv
<1> QED
  BY <1>2, <1>3

LEMMA SessionAlways == Spec => [](TypeOK /\ SessionInv)
BY TypeInit, TypeStep, SessionInit, SessionStep, PTL DEF Spec

(* The invariant of the sessions is inductive, for any number of writers    *)
(* and purges.                                                              *)
THEOREM SessionInvariant == Spec => []SessionInv
BY SessionAlways, PTL

(* What MarkSeen and Record acknowledged is in the tables until a purge of  *)
(* its source commits.                                                      *)
THEOREM AcknowledgedIsDurable == Spec => []AckedDurable
BY SessionAlways, PTL DEF SessionInv

(* What a successful purge took stays away until somebody writes it anew,   *)
(* with any number of writers at work beside it.                            *)
THEOREM PurgeIsFinal == Spec => []PurgedGone
BY SessionAlways, PTL DEF SessionInv

-----------------------------------------------------------------------------
(* The refinement of the port.                                              *)
Tables == [seen |-> seen, findings |-> findings, claims |-> claims]

LEMMA QuietTables ==
  ASSUME TypeOK, NEW s, Quiet(s), ~UNCHANGED contents
  PROVE  \E id \in ClaimIds, who \in Claimants : Tables' = Port!Claimed(Tables, id, who)
<1>1. PICK id \in ClaimIds, who \in Claimants : ClaimAgain(s, id, who) \/ ClaimInsert(s, id, who)
  BY DEF Quiet, Seen, AlreadyMarked, MarkCheck, UpdateFinding, UpdateNone,
     InsertFinding, CheckSeen, InsertSeen, Claim, ClaimNone, PurgeBegin, Delete,
     Rollback, contents
<1>2. /\ seen' = seen /\ findings' = findings
      /\ claims' = [claims EXCEPT ![id] = who]
  BY <1>1 DEF ClaimAgain, ClaimInsert
<1> QED
  BY <1>2 DEF Tables, Port!Claimed

LEMMA MarkTables ==
  ASSUME NEW w, NEW k \in Key, MarkInsert(w, k)
  PROVE  Tables' = Port!MarkedSeen(Tables, k)
BY DEF MarkInsert, Tables, Port!MarkedSeen

LEMMA RecordTables ==
  ASSUME TypeOK, SessionInv, NEW w \in Writers, NEW f \in Finding,
         CommitRecord(w, f), w \notin beside
  PROVE  Tables' \in Port!Recorded(Tables, f)
<1>0. w \in Sessions /\ f.key \in Key /\ Locked /\ MarksBoth
  BY KeyFacts DEF Sessions, SessionInv
<1>1. held[w] \subseteq {FindingRow(f.key), SeenRow(f.key)}
  BY <1>0, HeldByRecord DEF CommitRecord
<1>2. f.key \in seen \/ SeenRow(f.key) \in held[w]
  BY <1>0 DEF MarksBoth, MarksBothIn, CommitRecord
<1>3. {k \in Key : SeenRow(k) \in held[w]} \subseteq {f.key}
  BY <1>0, <1>1, RowFacts
<1>4. seen' = seen \cup {f.key}
  BY <1>0, <1>2, <1>3 DEF CommitRecord
<1>5. findings' = {g \in findings : g.key # f.key} \cup {f} /\ claims' = claims
  BY DEF CommitRecord
<1> QED
  BY <1>4, <1>5 DEF Tables, Port!Recorded

LEMMA PurgeTables ==
  ASSUME TypeOK, SessionInv, NEW p \in Purgers, NEW src \in Sources,
         CommitPurge(p, src), p \notin beside
  PROVE  Tables' = Port!Purged(Tables, src)
<1>0. p \in Sessions /\ LockedBy(p) /\ DeletesAllIn(p) /\ 3 \in 1 .. 3
  BY DEF Sessions, SessionInv, Locked, DeletesAll
<1>1. \A r \in held[p] : r[2][2] = src
  BY <1>0 DEF LockedBy, CommitPurge
<1>2. \A r \in Committed : r[2][2] = src => r \in held[p]
  <2>1. \A r \in Committed : Deleted(r[1], 3)
    BY CommittedRows, OrderFacts DEF Rows
  <2> QED
    BY <1>0, <2>1 DEF DeletesAllIn, CommitPurge
<1>3. \A f \in findings : FindingRow(f.key) \in held[p] <=> f.key[2] = src
  BY <1>1, <1>2 DEF Committed, FindingRow
<1>4. \A k \in seen : SeenRow(k) \in held[p] <=> k[2] = src
  BY <1>1, <1>2 DEF Committed, SeenRow
<1>5. /\ seen' = {k \in seen : k[2] # src}
      /\ findings' = {f \in findings : f.key[2] # src}
      /\ claims' = claims
  BY <1>3, <1>4 DEF CommitPurge
<1> QED
  BY <1>5 DEF Tables, Port!Purged

LEMMA PortStep ==
  ASSUME TypeOK, SessionInv, [Next]_vars
  PROVE  [(\E s \in beside : Ending(s)) \/ Port!StoreNext]_contents
<1> SUFFICES ASSUME ~UNCHANGED contents, ~\E s \in beside : Ending(s)
             PROVE  Port!StoreNext
  OBVIOUS
<1>1. PICK s \in Sessions : Acts(s)
  BY SomebodyActs DEF vars
<1>2. SUFFICES Tables' \in Port!Changed(Tables)
  BY DEF Port!StoreNext, Port!Commit, Tables
<1>a. Port!Key = Key /\ Port!Finding = Finding
  BY DEF Port!Key, Port!Finding, Key, Finding
<1>3. CASE Quiet(s)
  BY <1>3, QuietTables DEF Port!Changed
<1>4. ASSUME NEW k \in Key, MarkInsert(s, k) PROVE Tables' \in Port!Changed(Tables)
  BY <1>a, <1>4, MarkTables DEF Port!Changed
<1>5. ASSUME s \in Writers, NEW f \in Finding, CommitRecord(s, f)
      PROVE  Tables' \in Port!Changed(Tables)
  <2>1. held[s] # {} /\ held'[s] = {}
    BY <1>5, HeldByRecord DEF CommitRecord, Ends, TypeOK, SessionInv
  <2>2. s \notin beside
    BY <2>1 DEF Ending
  <2> QED
    BY <1>a, <1>5, <2>2, RecordTables DEF Port!Changed
<1>6. ASSUME s \in Purgers, NEW src \in Sources, CommitPurge(s, src)
      PROVE  Tables' \in Port!Changed(Tables)
  <2>1. held[s] # {}
    BY <1>6 DEF CommitPurge, contents, TypeOK
  <2>2. s \notin beside
    BY <1>6, <2>1 DEF CommitPurge, Ends, Ending, TypeOK
  <2> QED
    BY <1>6, <2>2, PurgeTables DEF Port!Changed
<1> QED
  BY <1>1, <1>3, <1>4, <1>5, <1>6, ActsQuietlyOrNot

LEMMA PortInit == Init => Port!StoreInit
BY DEF Init, Port!StoreInit, Port!EmptyStore, EmptyStore

(* The database is a store of the Persistence port, whatever statements     *)
(* fall between those of an operation, except where a write and a purge of  *)
(* the same source ran side by side.                                        *)
THEOREM ImplementsPortApart == Spec => IsAStoreApart
BY PortInit, PortStep, SessionAlways, PTL DEF Spec, IsAStoreApart
=============================================================================
