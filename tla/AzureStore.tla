----------------------------- MODULE AzureStore -----------------------------
(* The Azure SQL store (internal/store/azuresql.go, schema.sql) under the   *)
(* sessions that use it: writers (a poll of one instance of the beacon;     *)
(* several instances may share the database) and purgers (-purge-source).   *)
(*                                                                          *)
(* A step is one SQL statement. Record and PurgeSource run two statements   *)
(* in a transaction at READ COMMITTED: rows they changed stay locked until  *)
(* the end, other sessions neither see nor change them, and rows they only  *)
(* read are free again at once. MarkSeen and Claim commit every statement.  *)
(* Any call may fail: the server, a duplicate key, the 15 s of opTimeout,   *)
(* the death of the process.                                                *)
EXTENDS StoreContents, Integers, Sequences

CONSTANTS
  Writers,   \* sessions that look up, mark, record and claim
  Purgers    \* sessions that purge

ASSUME SessionAssumption == Writers \cap Purgers = {}

Sessions == Writers \cup Purgers

VARIABLES
  seen, findings, claims,  \* the committed tables
  at,        \* what each session is doing: <<statement to come, subject>>
  held,      \* the rows each session's transaction has changed, and locked
  beside,    \* sessions in whose time an operation on the same source
             \* committed: a purge for a writer, a write for a purger
  old,       \* what each purge has to take: the rows there when it began
  promised,  \* rows a successful call said are kept, and no purge took
  gone       \* rows a successful purge took, not written since

contents == <<seen, findings, claims>>
vars == <<contents, at, held, beside, old, promised, gone>>

-----------------------------------------------------------------------------
(* Both tables of a source have the dedupe key as their primary key.        *)
Rows == {"finding", "seen"} \X Key
FindingRow(k) == <<"finding", k>>
SeenRow(k) == <<"seen", k>>

Committed == {FindingRow(f.key) : f \in findings} \cup {SeenRow(k) : k \in seen}

RowsOf(table, src) == {r \in Rows : r[1] = table /\ r[2][2] = src}

Idle == <<"idle">>

(* Mutant: the purge begins with the dedupe rows.                           *)
PurgeOrderReversed == <<"seen", "finding">>

(* The statements of a purge, in their order.                               *)
PurgeOrder == <<"finding", "seen">>

(* No other transaction has a lock on these rows.                           *)
Free(s, rows) == \A t \in Sessions \ {s} : held[t] \cap rows = {}

(* A session's operation is about this source.                              *)
About(s, src) ==
  \/ \E k \in Key : at[s] \in {<<"novel", k>>, <<"mark", k>>} /\ k[2] = src
  \/ \E f \in Finding : f.key[2] = src /\
       at[s] \in {<<"insert", f>>, <<"check", f>>, <<"dedupe", f>>, <<"commit", f>>}
  \/ \E i \in 1 .. 3 : at[s] = <<"purge", src, i>>

(* The purge that comes to statement i has been through this table.         *)
Deleted(table, i) == \E j \in 1 .. i - 1 : PurgeOrder[j] = table

(* The session goes on to its next statement.                               *)
Goes(s, to) == at' = [at EXCEPT ![s] = to]

(* The operation of s is over: its locks are free, and those of the other   *)
(* kind that work on the same source know that it happened beside them.     *)
Ends(s, others) ==
  /\ Goes(s, Idle)
  /\ held' = [held EXCEPT ![s] = {}]
  /\ beside' = (beside \cup others) \ {s}

Overlapping(kind, src) == {t \in kind : About(t, src)}

(* Rows were written: no purge has taken them, none has to.                 *)
Written(rows) == /\ gone' = gone \ rows
                 /\ old' = [p \in Purgers |-> old[p] \ rows]

(* The call reports success, or its answer is lost after it took effect.    *)
Answers(rows) == promised' \in {promised, promised \cup rows}

-----------------------------------------------------------------------------
Init ==
  /\ seen = {} /\ findings = {} /\ claims = [c \in ClaimIds |-> Nobody]
  /\ at = [s \in Sessions |-> Idle]
  /\ held = [s \in Sessions |-> {}]
  /\ beside = {}
  /\ old = [p \in Purgers |-> {}]
  /\ promised = {} /\ gone = {}

(* Seen: the engine marks and records only what this query did not find.    *)
Seen(w, k) ==
  /\ at[w] = Idle
  /\ k \notin seen
  /\ Goes(w, <<"novel", k>>)
  /\ UNCHANGED <<contents, held, beside, old, promised, gone>>

(* MarkSeen: IF NOT EXISTS (SELECT ...) -- another instance was faster ...  *)
AlreadyMarked(w, k) ==
  /\ at[w] = <<"novel", k>>
  /\ k \in seen
  /\ Ends(w, {})
  /\ Answers({SeenRow(k)})
  /\ UNCHANGED <<contents, old, gone>>

(* ... or nothing is there yet ...                                          *)
MarkCheck(w, k) ==
  /\ at[w] = <<"novel", k>>
  /\ k \notin seen
  /\ Goes(w, <<"mark", k>>)
  /\ UNCHANGED <<contents, held, beside, old, promised, gone>>

(* ... INSERT INTO seen, unless the key has come meanwhile: that is an      *)
(* error.                                                                   *)
MarkInsert(w, k) ==
  /\ at[w] = <<"mark", k>>
  /\ Free(w, {SeenRow(k)}) /\ k \notin seen
  /\ seen' = seen \cup {k}
  /\ Ends(w, Overlapping(Purgers, k[2]))
  /\ Written({SeenRow(k)})
  /\ Answers({SeenRow(k)})
  /\ UNCHANGED <<findings, claims>>

-----------------------------------------------------------------------------
(* Record: begin; UPDATE finding changes a row that is there ...            *)
UpdateFinding(w, f) ==
  /\ at[w] = <<"novel", f.key>>
  /\ FindingRow(f.key) \in Committed
  /\ Free(w, {FindingRow(f.key)})
  /\ held' = [held EXCEPT ![w] = {FindingRow(f.key)}]
  /\ Goes(w, <<"check", f>>)
  /\ UNCHANGED <<contents, beside, old, promised, gone>>

(* ... and otherwise, @@ROWCOUNT = 0 ...                                    *)
UpdateNone(w, f) ==
  /\ at[w] = <<"novel", f.key>>
  /\ FindingRow(f.key) \notin Committed
  /\ Goes(w, <<"insert", f>>)
  /\ UNCHANGED <<contents, held, beside, old, promised, gone>>

(* ... INSERT INTO finding.                                                 *)
InsertFinding(w, f) ==
  /\ at[w] = <<"insert", f>>
  /\ FindingRow(f.key) \notin Committed
  /\ Free(w, {FindingRow(f.key)})
  /\ held' = [held EXCEPT ![w] = {FindingRow(f.key)}]
  /\ Goes(w, <<"check", f>>)
  /\ UNCHANGED <<contents, beside, old, promised, gone>>

(* Mutant: Record does not mark the signal seen.                            *)
CheckNothing(w, f) ==
  /\ at[w] = <<"check", f>>
  /\ Goes(w, <<"commit", f>>)
  /\ UNCHANGED <<contents, held, beside, old, promised, gone>>

(* IF NOT EXISTS (SELECT ... FROM seen ...)                                 *)
CheckSeen(w, f) ==
  /\ at[w] = <<"check", f>>
  /\ Goes(w, <<IF f.key \in seen THEN "commit" ELSE "dedupe", f>>)
  /\ UNCHANGED <<contents, held, beside, old, promised, gone>>

(* INSERT INTO seen, in the same transaction.                               *)
InsertSeen(w, f) ==
  /\ at[w] = <<"dedupe", f>>
  /\ Free(w, {SeenRow(f.key)}) /\ f.key \notin seen
  /\ held' = [held EXCEPT ![w] = @ \cup {SeenRow(f.key)}]
  /\ Goes(w, <<"commit", f>>)
  /\ UNCHANGED <<contents, beside, old, promised, gone>>

(* Mutant: the dedupe row of the transaction is left out of the commit.     *)
CommitFindingOnly(w, f) ==
  /\ at[w] = <<"commit", f>>
  /\ findings' = {g \in findings : g.key # f.key} \cup {f}
  /\ Ends(w, Overlapping(Purgers, f.key[2]))
  /\ Written(held[w])
  /\ Answers(IF w \in beside THEN held[w]
             ELSE {FindingRow(f.key), SeenRow(f.key)})
  /\ UNCHANGED <<seen, claims>>

(* Commit: everybody sees both rows.                                        *)
CommitRecord(w, f) ==
  /\ at[w] = <<"commit", f>>
  /\ findings' = {g \in findings : g.key # f.key} \cup {f}
  /\ seen' = seen \cup {k \in Key : SeenRow(k) \in held[w]}
  /\ Ends(w, Overlapping(Purgers, f.key[2]))
  /\ Written(held[w])
  /\ Answers(IF w \in beside THEN held[w]
             ELSE {FindingRow(f.key), SeenRow(f.key)})
  /\ UNCHANGED claims

-----------------------------------------------------------------------------
(* Claim: UPDATE claim changes the row of the finding ...                   *)
ClaimAgain(w, id, who) ==
  /\ at[w] = Idle
  /\ claims[id] # Nobody
  /\ claims' = [claims EXCEPT ![id] = who]
  /\ UNCHANGED <<seen, findings, at, held, beside, old, promised, gone>>

(* ... or finds none ...                                                    *)
ClaimNone(w, id, who) ==
  /\ at[w] = Idle
  /\ claims[id] = Nobody
  /\ Goes(w, <<"claim", id, who>>)
  /\ UNCHANGED <<contents, held, beside, old, promised, gone>>

(* Mutant: the claimant and the finding change places in the INSERT.        *)
ClaimInsertSwapped(w, id, who) ==
  /\ at[w] = <<"claim", id, who>>
  /\ claims[id] = Nobody
  /\ claims' = [claims EXCEPT ![id] = id]
  /\ Goes(w, Idle)
  /\ UNCHANGED <<seen, findings, held, beside, old, promised, gone>>

(* ... and INSERT INTO claim follows: of two claimants the second fails.    *)
ClaimInsert(w, id, who) ==
  /\ at[w] = <<"claim", id, who>>
  /\ claims[id] = Nobody
  /\ claims' = [claims EXCEPT ![id] = who]
  /\ Goes(w, Idle)
  /\ UNCHANGED <<seen, findings, held, beside, old, promised, gone>>

-----------------------------------------------------------------------------
(* PurgeSource: begin. From here on nobody is promised the source's rows.   *)
PurgeBegin(p, src) ==
  /\ at[p] = Idle
  /\ Goes(p, <<"purge", src, 1>>)
  /\ old' = [old EXCEPT ![p] =
       Committed \cap (RowsOf("finding", src) \cup RowsOf("seen", src))]
  /\ UNCHANGED <<contents, held, beside, promised, gone>>

(* DELETE FROM finding / seen WHERE source = @p1: the statement takes the   *)
(* rows that are committed when it runs and waits for those that another    *)
(* transaction has changed.                                                 *)
Delete(p, src, i) ==
  LET rows == Committed \cap RowsOf(PurgeOrder[i], src) IN
  /\ at[p] = <<"purge", src, i>>
  /\ i \in DOMAIN PurgeOrder
  /\ Free(p, rows)
  /\ held' = [held EXCEPT ![p] = @ \cup rows]
  /\ Goes(p, <<"purge", src, i + 1>>)
  /\ UNCHANGED <<contents, beside, old, promised, gone>>

(* Mutant: only what has a finding loses its dedupe row.                    *)
CommitPurgeOfFound(p, src) ==
  /\ at[p] = <<"purge", src, 3>>
  /\ findings' = {f \in findings : FindingRow(f.key) \notin held[p]}
  /\ seen' = {k \in seen : FindingRow(k) \notin held[p]}
  /\ Ends(p, Overlapping(Writers, src))
  /\ promised' = {r \in promised : r[2][2] # src}
  /\ gone' \in {gone, gone \cup old[p]}
  /\ old' = [old EXCEPT ![p] = {}]
  /\ UNCHANGED claims

CommitPurge(p, src) ==
  /\ at[p] = <<"purge", src, 3>>
  /\ findings' = {f \in findings : FindingRow(f.key) \notin held[p]}
  /\ seen' = {k \in seen : SeenRow(k) \notin held[p]}
  /\ Ends(p, Overlapping(Writers, src))
  /\ promised' = {r \in promised : r[2][2] # src}
  /\ gone' \in {gone, gone \cup old[p]}
  /\ old' = [old EXCEPT ![p] = {}]
  /\ UNCHANGED claims

(* A statement fails, opTimeout passes, the session's process dies, or the  *)
(* engine goes no further with a novel signal: what is not committed is     *)
(* rolled back.                                                             *)
Rollback(s) ==
  /\ at[s] # Idle
  /\ Ends(s, {})
  /\ old' = [p \in Purgers |-> IF p = s THEN {} ELSE old[p]]
  /\ UNCHANGED <<contents, promised, gone>>

-----------------------------------------------------------------------------
MarkSeen(w, k) == AlreadyMarked(w, k) \/ MarkCheck(w, k) \/ MarkInsert(w, k)

Record(w, f) == \/ UpdateFinding(w, f) \/ UpdateNone(w, f)
                \/ InsertFinding(w, f)
                \/ CheckSeen(w, f) \/ InsertSeen(w, f)
                \/ CommitRecord(w, f)

Claim(w, id, who) == \/ ClaimAgain(w, id, who)
                     \/ ClaimNone(w, id, who) \/ ClaimInsert(w, id, who)

PurgeSource(p, src) == \/ PurgeBegin(p, src)
                       \/ \E i \in 1 .. 2 : Delete(p, src, i)
                       \/ CommitPurge(p, src)

Next ==
  \/ \E w \in Writers :
       \/ \E k \in Key : Seen(w, k) \/ MarkSeen(w, k)
       \/ \E f \in Finding : Record(w, f)
       \/ \E id \in ClaimIds, who \in Claimants : Claim(w, id, who)
  \/ \E p \in Purgers, src \in Sources : PurgeSource(p, src)
  \/ \E s \in Sessions : Rollback(s)

Spec == Init /\ [][Next]_vars

-----------------------------------------------------------------------------
WriterStates ==
  {Idle} \cup ({"novel", "mark"} \X Key)
         \cup ({"insert", "check", "dedupe", "commit"} \X Finding)
         \cup ({"claim"} \X ClaimIds \X Claimants)

PurgerStates == {Idle} \cup ({"purge"} \X Sources \X (1 .. 3))

TypeOK ==
  /\ seen \subseteq Key /\ findings \subseteq Finding
  /\ claims \in [ClaimIds -> Claimants \cup {Nobody}]
  /\ at \in [Sessions -> WriterStates \cup PurgerStates]
  /\ held \in [Sessions -> SUBSET Rows]
  /\ beside \subseteq Sessions
  /\ old \in [Purgers -> SUBSET Rows]
  /\ promised \subseteq Rows /\ gone \subseteq Rows

(* A row that MarkSeen or Record said is kept is there until a purge of its *)
(* source commits: no failed call, lost answer, duplicate key or other      *)
(* instance takes it away, and Record is never answered with only one of    *)
(* its two rows kept.                                                       *)
AckedDurable == promised \subseteq Committed

(* After a purge that reported success none of the rows that were there     *)
(* when it began is left, in either table and for any beacon, unless        *)
(* somebody wrote it anew; a writer that was waiting, or that the purge     *)
(* waited for, does not bring one back.                                     *)
PurgedGone == gone \cap Committed = {}

(* Why both hold. A session has locked the rows it has changed and no       *)
(* others; a transaction of Record about to commit leaves a dedupe row, its *)
(* own or an earlier one that no purge has taken since; of what a purge has *)
(* to take, the tables it has been through keep only rows it has locked,    *)
(* and while nobody writes beside it, so does its whole source.             *)
LockedBy(s) ==
  /\ at[s][1] \in {"idle", "novel", "mark", "insert", "claim"} => held[s] = {}
  /\ \A f \in Finding :
       /\ at[s] \in {<<"check", f>>, <<"dedupe", f>>} =>
            held[s] = {FindingRow(f.key)}
       /\ at[s] = <<"commit", f>> =>
            /\ FindingRow(f.key) \in held[s]
            /\ held[s] \subseteq {FindingRow(f.key), SeenRow(f.key)}
  /\ \A src \in Sources, i \in 1 .. 3 : at[s] = <<"purge", src, i>> =>
       \A r \in held[s] : r[2][2] = src /\ Deleted(r[1], i)

Locked == \A s \in Sessions : LockedBy(s)

MarksBothIn(w) == \A f \in Finding :
  at[w] = <<"commit", f>> => f.key \in seen \/ SeenRow(f.key) \in held[w]

MarksBoth == \A w \in Writers \ beside : MarksBothIn(w)

TakesAllIn(p) == \A src \in Sources, i \in 1 .. 3 :
  at[p] = <<"purge", src, i>> =>
    \A r \in old[p] \cap Committed :
      r[2][2] = src /\ (Deleted(r[1], i) => r \in held[p])

TakesAll == \A p \in Purgers : TakesAllIn(p)

DeletesAllIn(p) == \A src \in Sources, i \in 1 .. 3 :
  at[p] = <<"purge", src, i>> =>
    \A r \in Committed : r[2][2] = src /\ Deleted(r[1], i) => r \in held[p]

DeletesAll == \A p \in Purgers \ beside : DeletesAllIn(p)

SessionInv ==
  Locked /\ MarksBoth /\ TakesAll /\ DeletesAll /\ AckedDurable /\ PurgedGone

(* The rows a session's next statement may have to wait for. A scan may     *)
(* wait for rows it does not delete, a read for a row being changed: that   *)
(* depends on the server's options, so Delete and CheckSeen go on and only  *)
(* this definition counts them as waiting.                                  *)
Needs(s) ==
  {r \in Rows :
     \/ at[s][1] \in {"novel", "insert"} /\ r[1] = "finding"
     \/ at[s][1] \in {"novel", "mark", "check", "dedupe"} /\ r[1] = "seen"
     \/ \E src \in Sources, i \in DOMAIN PurgeOrder :
          at[s] = <<"purge", src, i>> /\ r[1] = PurgeOrder[i]}

WaitsFor(s, t) == s # t /\ Needs(s) \cap held[t] # {}

(* No sessions wait for each other in a circle, so that the server never    *)
(* has to break a deadlock by failing a Record after the post, or a purge:  *)
(* transactions that touch both tables go through them in the same order.   *)
NoCircularWait ==
  \A S \in (SUBSET Sessions) \ {{}} : \E s \in S : \A t \in S : ~WaitsFor(s, t)

-----------------------------------------------------------------------------
Port == INSTANCE StorePort WITH
  live    <- [seen |-> seen, findings |-> findings, claims |-> claims],
  durable <- [seen |-> seen, findings |-> findings, claims |-> claims],
  Volatile <- FALSE

Ending(s) == held[s] # {} /\ held'[s] = {}

(* The tables are a store of the port: what a statement or a transaction    *)
(* commits is one operation of the port on them, except where a write and a *)
(* purge of the same source ran side by side.                               *)
IsAStoreApart ==
  /\ Port!StoreInit
  /\ [][(\E s \in beside : Ending(s)) \/ Port!StoreNext]_contents

(* What the comment on PurgeSource wants its transaction for: a source's    *)
(* findings never stand without their dedupe rows.                          *)
FindingsAreSeen == \A f \in findings : f.key \in seen
=============================================================================
