----------------------------- MODULE StorePort -----------------------------
(* What the Persistence port (internal/core/core.go) promises its users,    *)
(* whichever adapter is behind it, and what is left when every process that *)
(* uses the store dies.                                                     *)
(*                                                                          *)
(* "live" is what the users of the store read; "durable" is what a restart  *)
(* finds. The Azure SQL adapter keeps no copy in memory, so there the two   *)
(* are always the same. The file adapter changes its memory before it saves *)
(* it, so live can run ahead of durable until the next save succeeds or the *)
(* process dies: Volatile says which of the two kinds of store it is.       *)
EXTENDS StoreContents

CONSTANT Volatile  \* TRUE: a memory in front of the disk (file); FALSE: none

ASSUME VolatileAssumption == Volatile \in BOOLEAN

VARIABLES
  live,     \* what the users of the store see
  durable   \* what survives when they all die

storeVars == <<live, durable>>

(* The states an operation can lead the contents to.                       *)
Changed(c) ==
       {MarkedSeen(c, k) : k \in Key}
  \cup (UNION {Recorded(c, f) : f \in Finding})
  \cup {Claimed(c, id, who) : id \in ClaimIds, who \in Claimants}
  \cup {Purged(c, src) : src \in Sources}

StoreInit == live = EmptyStore /\ durable = EmptyStore

(* The operation took effect and is on the disk. It may still report an    *)
(* error: a commit whose answer is lost looks the same to the caller.      *)
Commit(after) == live' = after /\ durable' = after

(* The operation changed the memory and the save failed: the caller gets   *)
(* an error, readers get the new contents.                                 *)
Lose(after) == Volatile /\ live' = after /\ UNCHANGED durable

(* A save writes the whole memory, what earlier saves lost included.       *)
Persist == Volatile /\ durable' = live /\ UNCHANGED live

(* Every process that uses the store is gone; a new one reads the disk.    *)
StoreRestart == live' = durable /\ UNCHANGED durable

StoreNext == \/ \E after \in Changed(live) : Commit(after) \/ Lose(after)
             \/ Persist
             \/ StoreRestart

StoreSpec == StoreInit /\ [][StoreNext]_storeVars
=============================================================================
