--------------------------- MODULE StoreContents ---------------------------
(* What the Persistence port (internal/core/core.go) stores, and what each  *)
(* of its operations makes of it. The modules that describe a store, an     *)
(* adapter or a user of one share these definitions.                        *)

CONSTANTS
  Beacons,    \* the configured beacons
  Sources,    \* the platforms signals come from
  Ids,        \* the platforms' own ids of signals
  Verdicts,   \* what the classifier can answer
  ClaimIds,   \* findings somebody can claim
  Claimants,  \* who can claim them
  Nobody      \* the claimant of an unclaimed finding

ASSUME NobodyAssumption == Nobody \notin Claimants

(* Dedupe is scoped per beacon: the same (source, id) is a different key   *)
(* for every beacon.                                                       *)
Key == Beacons \X Sources \X Ids

(* A finding is the pointer the engine records: whose it is and how it was *)
(* judged. Titles, links and bodies are left out.                          *)
Finding == [key : Key, verdict : Verdicts]

Contents == [seen     : SUBSET Key,
             findings : SUBSET Finding,
             claims   : [ClaimIds -> Claimants \cup {Nobody}]]

EmptyStore == [seen |-> {}, findings |-> {},
               claims |-> [c \in ClaimIds |-> Nobody]]

-----------------------------------------------------------------------------
(* What each operation makes of the contents.                              *)

MarkedSeen(c, k) == [c EXCEPT !.seen = @ \cup {k}]

(* Record keeps the finding and marks its signal seen, as one change. The  *)
(* file adapter appends; the SQL adapter replaces an earlier finding of    *)
(* the same key. The port allows both.                                     *)
Recorded(c, f) ==
  {[seen     |-> c.seen \cup {f.key},
    findings |-> kept \cup {f},
    claims   |-> c.claims] :
     kept \in {c.findings, {g \in c.findings : g.key # f.key}}}

Claimed(c, id, who) == [c EXCEPT !.claims[id] = who]

(* PurgeSource takes everything that came from one source, across every    *)
(* beacon, and leaves the claims.                                          *)
Purged(c, src) ==
  [seen     |-> {k \in c.seen : k[2] # src},
   findings |-> {f \in c.findings : f.key[2] # src},
   claims   |-> c.claims]

PendingDigest(c, b) == {f \in c.findings : f.key[1] = b}
=============================================================================
