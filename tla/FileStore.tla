----------------------------- MODULE FileStore -----------------------------
(* The JSON file store (internal/store/file.go) under the processes that    *)
(* open it: pollers (the one-shot run or the container loop, which mark,    *)
(* record and claim) and purgers (sos-beacon -purge-source, a process of    *)
(* its own that opens the file, purges one source and exits).               *)
(*                                                                          *)
(* Every operation runs under one mutex per process: it changes the memory, *)
(* writes the whole memory to a temporary file and renames it over the      *)
(* store. A process can fail or die between any two of those steps.         *)
EXTENDS StoreContents, Integers, Sequences

CONSTANTS
  Pollers,       \* processes that run beacons
  Purgers,       \* processes that run -purge-source
  Segments,      \* a beacon's name, cut at its colons
  SingleWriter   \* TRUE: nobody opens the file while another has it open

ASSUME ProcessAssumption == Pollers \cap Purgers = {}
ASSUME SingleWriterAssumption == SingleWriter \in BOOLEAN

Processes == Pollers \cup Purgers

VARIABLES
  stage,     \* where each process is in its current operation
  mem,       \* File.data of each process
  temp,      \* the temporary file each process has written
  owed,      \* what the running operation will have promised when it returns:
             \* rows that are kept, sources that are gone (before a purge runs:
             \* those nobody has collected from since it opened the file)
  disk,      \* the file at File.path
  promised,  \* what successful operations said is kept, and no purge took
  gone       \* sources a successful purge removed, not written since

vars == <<stage, mem, temp, owed, disk, promised, gone>>

-----------------------------------------------------------------------------
(* The dedupe key is the beacon's name, the source and the id joined with   *)
(* colons: as a sequence of segments, their concatenation.                  *)
key(k) == Segments[k[1]] \o <<k[2], k[3]>>

(* No beacon has a colon in its name.                                       *)
PlainNames == \A b \in Beacons : Segments[b] = <<b>>

Stored == [seen     : SUBSET {key(k) : k \in Key},
           findings : SUBSET Finding,
           claims   : [ClaimIds -> Claimants \cup {Nobody}]]

(* Mutant: without the nil guards of OpenFile.                              *)
FreshWithNilClaims == [seen |-> {}, findings |-> {}, claims |-> <<>>]

Fresh == [seen |-> {}, findings |-> {},
          claims |-> [c \in ClaimIds |-> Nobody]]

(* Mutant: the purge forgets the findings.                                  *)
RowsOfSeenOnly(c, src) ==
  [seen |-> {q \in c.seen : Len(q) >= 3 /\ q[2] = src}, findings |-> {}]

(* A key belongs to the source in its second segment, a finding to the      *)
(* source of its signal.                                                    *)
RowsOf(c, src) ==
  [seen     |-> {q \in c.seen : Len(q) >= 3 /\ q[2] = src},
   findings |-> {f \in c.findings : f.key[2] = src}]

(* Mutant: the purge clears the claim ledger too.                           *)
WithoutClaims(c, src) ==
  [c EXCEPT !.seen     = @ \ RowsOf(c, src).seen,
            !.findings = @ \ RowsOf(c, src).findings,
            !.claims   = Fresh.claims]

Without(c, src) ==
  [c EXCEPT !.seen     = @ \ RowsOf(c, src).seen,
            !.findings = @ \ RowsOf(c, src).findings]

Nothing == [seen |-> {}, findings |-> {}, purged |-> {}]

Up(p) == stage[p] # "down"

-----------------------------------------------------------------------------
Init ==
  /\ stage = [p \in Processes |-> "down"]
  /\ mem = [p \in Processes |-> Fresh]
  /\ temp = [p \in Processes |-> Fresh]
  /\ owed = [p \in Processes |-> Nothing]
  /\ disk = Fresh
  /\ promised = [seen |-> {}, findings |-> {}]
  /\ gone = {}

(* The sources some process is writing a new row of.                        *)
Collecting == {k[2] : k \in UNION {owed[q].seen : q \in Processes}}

(* OpenFile: the process reads the whole file; a missing file is an empty   *)
(* store.                                                                   *)
OpenFile(p) ==
  /\ ~Up(p)
  /\ SingleWriter => \A q \in Processes : ~Up(q)
  /\ mem' = [mem EXCEPT ![p] = disk]
  /\ stage' = [stage EXCEPT ![p] = "idle"]
  /\ owed' = [owed EXCEPT ![p].purged = IF p \in Purgers
                                           THEN Sources \ Collecting
                                           ELSE {}]
  /\ UNCHANGED <<temp, disk, promised, gone>>

(* Mutant: the save is left for later, the operation may return before it.  *)
ChangeWithoutSave(p, after) ==
  /\ stage[p] = "idle"
  /\ mem' = [mem EXCEPT ![p] = after]
  /\ stage' = [stage EXCEPT ![p] = "saved"]
  /\ UNCHANGED <<temp, disk>>

(* The start of every mutation: take the mutex, change the memory.          *)
Change(p, after) ==
  /\ stage[p] = "idle"
  /\ mem' = [mem EXCEPT ![p] = after]
  /\ stage' = [stage EXCEPT ![p] = "changed"]
  /\ UNCHANGED <<temp, disk>>

(* The operation p started brings rows of src: p will have promised due, and *)
(* a purge that runs at the same time does not answer for those rows.       *)
Collect(p, due, src) ==
  /\ owed' = [q \in Processes |->
               IF q = p THEN due ELSE [owed[q] EXCEPT !.purged = @ \ {src}]]
  /\ gone' = gone \ {src}

MarkSeen(p, k) ==
  /\ p \in Pollers
  /\ Change(p, [mem[p] EXCEPT !.seen = @ \cup {key(k)}])
  /\ Collect(p, [Nothing EXCEPT !.seen = {k}], k[2])
  /\ UNCHANGED promised

Record(p, f) ==
  /\ p \in Pollers
  /\ Change(p, [mem[p] EXCEPT !.seen = @ \cup {key(f.key)},
                              !.findings = @ \cup {f}])
  /\ Collect(p, [Nothing EXCEPT !.seen = {f.key}, !.findings = {f}], f.key[2])
  /\ UNCHANGED promised

Claim(p, id, who) ==
  /\ p \in Pollers
  /\ Change(p, [mem[p] EXCEPT !.claims[id] = who])
  /\ UNCHANGED <<owed, promised, gone>>

(* PurgeSource found rows: from here on nobody is promised them any more.   *)
PurgeSource(p, src) ==
  /\ p \in Purgers
  /\ RowsOf(mem[p], src) # [seen |-> {}, findings |-> {}]
  /\ Change(p, Without(mem[p], src))
  /\ owed' = [owed EXCEPT ![p].purged = @ \cap {src}]
  /\ promised' = [seen     |-> {k \in promised.seen : k[2] # src},
                  findings |-> {f \in promised.findings : f.key[2] # src}]
  /\ UNCHANGED gone

(* PurgeSource found none: it returns success and writes nothing.           *)
PurgeNothing(p, src) ==
  /\ p \in Purgers /\ stage[p] = "idle"
  /\ RowsOf(mem[p], src) = [seen |-> {}, findings |-> {}]
  /\ stage' = [stage EXCEPT ![p] = "saved"]
  /\ owed' = [owed EXCEPT ![p].purged = @ \cap {src}]
  /\ UNCHANGED <<mem, temp, disk, promised, gone>>

-----------------------------------------------------------------------------
(* Mutant: the store is truncated and written in place.                     *)
WriteInPlace(p) ==
  /\ stage[p] = "changed"
  /\ temp' = [temp EXCEPT ![p] = mem[p]]
  /\ disk' = Fresh
  /\ stage' = [stage EXCEPT ![p] = "written"]
  /\ UNCHANGED <<mem, owed, promised, gone>>

(* saveLocked: marshal the memory into a new temporary file ...             *)
WriteTemp(p) ==
  /\ stage[p] = "changed"
  /\ temp' = [temp EXCEPT ![p] = mem[p]]
  /\ stage' = [stage EXCEPT ![p] = "written"]
  /\ UNCHANGED <<mem, owed, disk, promised, gone>>

(* ... and rename it over the store, in one step.                           *)
Rename(p) ==
  /\ stage[p] = "written"
  /\ disk' = temp[p]
  /\ temp' = [temp EXCEPT ![p] = Fresh]
  /\ stage' = [stage EXCEPT ![p] = "saved"]
  /\ UNCHANGED <<mem, owed, promised, gone>>

(* The operation is over and the mutex free: a poller lives on, a purger    *)
(* exits.                                                                   *)
Release(p) ==
  /\ stage' = [stage EXCEPT ![p] = IF p \in Purgers THEN "down" ELSE "idle"]
  /\ mem' = [mem EXCEPT ![p] = IF p \in Purgers THEN Fresh ELSE @]
  /\ temp' = [temp EXCEPT ![p] = Fresh]
  /\ owed' = [owed EXCEPT ![p] = Nothing]

(* Any step of the save fails: the temporary file goes, the memory keeps    *)
(* the change, the caller gets an error.                                    *)
SaveFails(p) ==
  /\ stage[p] \in {"changed", "written"}
  /\ Release(p)
  /\ UNCHANGED <<disk, promised, gone>>

(* The operation returns without an error.                                  *)
Return(p) ==
  /\ stage[p] = "saved"
  /\ Release(p)
  /\ promised' = [seen     |-> promised.seen \cup owed[p].seen,
                  findings |-> promised.findings \cup owed[p].findings]
  /\ gone' = gone \cup owed[p].purged
  /\ UNCHANGED disk

(* The process ends, in the middle of an operation or between two: Close    *)
(* saves nothing.                                                           *)
Exit(p) ==
  /\ Up(p)
  /\ stage' = [stage EXCEPT ![p] = "down"]
  /\ mem' = [mem EXCEPT ![p] = Fresh]
  /\ temp' = [temp EXCEPT ![p] = Fresh]
  /\ owed' = [owed EXCEPT ![p] = Nothing]
  /\ UNCHANGED <<disk, promised, gone>>

-----------------------------------------------------------------------------
Operation(p) ==
  \/ \E k \in Key : MarkSeen(p, k)
  \/ \E f \in Finding : Record(p, f)
  \/ \E id \in ClaimIds, who \in Claimants : Claim(p, id, who)
  \/ \E src \in Sources : PurgeSource(p, src) \/ PurgeNothing(p, src)

Next == \E p \in Processes :
  \/ OpenFile(p)
  \/ Operation(p)
  \/ WriteTemp(p)
  \/ Rename(p)
  \/ SaveFails(p)
  \/ Return(p)
  \/ Exit(p)

Spec == Init /\ [][Next]_vars

-----------------------------------------------------------------------------
TypeOK ==
  /\ stage \in [Processes -> {"down", "idle", "changed", "written", "saved"}]
  /\ mem \in [Processes -> Stored]
  /\ temp \in [Processes -> Stored]
  /\ owed \in [Processes -> [seen     : SUBSET Key,
                             findings : SUBSET Finding,
                             purged   : SUBSET Sources]]
  /\ disk \in Stored
  /\ promised \in [seen : SUBSET Key, findings : SUBSET Finding]
  /\ gone \subseteq Sources

(* The contents keep these rows.                                           *)
Holds(c, rows) == /\ \A k \in rows.seen : key(k) \in c.seen
                  /\ rows.findings \subseteq c.findings

(* What a successful MarkSeen or Record said is kept stays on the disk      *)
(* until its source is purged: no later operation, failed save, crash or    *)
(* restart loses a dedupe row (a repeated post) or a finding.               *)
AckedDurable == Holds(disk, promised)

(* No row of the source is left.                                            *)
NoneOf(c, src) == /\ \A k \in Key : k[2] = src => key(k) \notin c.seen
                  /\ \A f \in c.findings : f.key[2] # src

(* After a purge that reported success nothing of the source comes back to  *)
(* the disk unless it is collected anew: no row survives under another      *)
(* beacon, and no process writes old rows over the purged file.             *)
PurgedGone == \A src \in gone : NoneOf(disk, src)

-----------------------------------------------------------------------------
(* Why both hold with one writer and plain names: a process that has the    *)
(* file open holds in memory all that is promised and nothing that is gone, *)
(* what it writes is what it holds, and what its operation will promise is  *)
(* in memory before the save and on the disk after it.                      *)
OneWriter == \A p, q \in Processes : Up(p) /\ Up(q) => p = q

MemoryCurrent == \A p \in Processes : Up(p) =>
  /\ Holds(mem[p], promised)
  /\ \A src \in gone : NoneOf(mem[p], src)
  /\ p \in Purgers /\ stage[p] = "idle" => mem[p] = disk
  /\ stage[p] = "saved" => mem[p] = disk
  /\ stage[p] = "written" => temp[p] = mem[p]

Unsaved(p) == stage[p] \in {"changed", "written"}

PromiseKept == \A p \in Processes :
  /\ ~Up(p) => owed[p] = Nothing
  /\ stage[p] = "idle" \/ p \in Purgers =>
       owed[p].seen = {} /\ owed[p].findings = {}
  /\ p \in Pollers => owed[p].purged = {}
  /\ Unsaved(p) => /\ Holds(mem[p], owed[p])
                   /\ \A src \in owed[p].purged : NoneOf(mem[p], src)
  /\ stage[p] = "saved" => /\ Holds(disk, owed[p])
                           /\ \A src \in owed[p].purged : NoneOf(disk, src)

WriterInv == OneWriter /\ MemoryCurrent /\ PromiseKept
               /\ AckedDurable /\ PurgedGone

-----------------------------------------------------------------------------
(* The port that the processes show their users: the memory of the process  *)
(* that has the file open, over the file.                                   *)
Decoded(c) == [seen     |-> {k \in Key : key(k) \in c.seen},
               findings |-> c.findings,
               claims   |-> c.claims]

Open == IF \E p \in Processes : Up(p)
        THEN mem[CHOOSE p \in Processes : Up(p)]
        ELSE disk

Port == INSTANCE StorePort WITH live <- Decoded(Open),
                                durable <- Decoded(disk),
                                Volatile <- TRUE

(* The file store is a store: whatever its processes do, its users see the  *)
(* operations of the port on one set of contents, the disk only ever takes  *)
(* over all of the memory, and a restart sees the disk.                     *)
IsAStore == Port!StoreSpec
=============================================================================
