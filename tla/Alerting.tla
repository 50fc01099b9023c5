------------------------------ MODULE Alerting ------------------------------
(* What a beacon promises its channel, whatever goes on inside the poll     *)
(* (internal/engine/engine.go): an alert is a signal a beacon may post. It  *)
(* is posted only if it deserves it and is neither posted nor settled; an   *)
(* alert every answer of the classifier would post is settled only after    *)
(* its post; and what is settled stays so through every restart, unless     *)
(* something failed on the way. Each failure costs what its action says and *)
(* no more, and afterwards the same promises hold for what is left.         *)
EXTENDS Integers

CONSTANTS
  Stories,    \* signals
  Alerts,     \* pairs of a beacon and a signal
  Story,      \* the signal of each alert
  Deserving,  \* alerts some answer of the classifier posts
  Hot,        \* alerts every answer of the classifier posts
  MaxFaults   \* bound: failures, crashes and purges

VARIABLES
  listed,     \* the signals the platforms have shown
  settled,    \* alerts the beacons will not look at again ...
  kept,       \* ... and those they will not after a restart either
  posts,      \* posts of each alert that are not forgotten
  faults      \* failures so far

vars == <<listed, settled, kept, posts, faults>>

Init ==
  /\ listed = {} /\ settled = {} /\ kept = {}
  /\ posts = [k \in Alerts |-> 0]
  /\ faults = 0

Forget(keys) == posts' = [k \in Alerts |-> IF k \in keys THEN 0 ELSE posts[k]]

Appear(s) ==
  /\ listed' = listed \cup {s}
  /\ UNCHANGED <<settled, kept, posts, faults>>

Open(k) == Story[k] \in listed /\ k \notin settled

Post(k) ==
  /\ Open(k) /\ k \in Deserving /\ posts[k] = 0
  /\ posts' = [posts EXCEPT ![k] = 1]
  /\ UNCHANGED <<listed, settled, kept, faults>>

Handled(k) == Open(k) /\ (k \in Hot => posts[k] = 1)

(* Posted and recorded, or not worth a post and marked.                     *)
Settle(k) ==
  /\ Handled(k)
  /\ settled' = settled \cup {k} /\ kept' = settled'
  /\ UNCHANGED <<listed, posts, faults>>

(* A clean restart: what was settled in memory only is open again, and its  *)
(* post forgotten with it.                                                  *)
Restart ==
  /\ settled' = kept
  /\ Forget(settled \ kept)
  /\ UNCHANGED <<listed, kept, faults>>

-----------------------------------------------------------------------------
Fault == faults < MaxFaults /\ faults' = faults + 1

(* A call fails: nothing happens, and the alert stays open ...              *)
Fail == Fault /\ UNCHANGED <<listed, settled, kept, posts>>

(* ... or its row is in memory only, or on the disk and nobody was told ... *)
SettleUnsure(k) ==
  /\ Fault
  /\ Handled(k)
  /\ settled' = settled \cup {k} /\ kept' \in {kept, settled'}
  /\ UNCHANGED <<listed, posts>>

(* ... or it was posted and there is no record of it.                       *)
LoseRecord(k) ==
  /\ Fault
  /\ k \notin settled /\ Forget({k})
  /\ UNCHANGED <<listed, settled, kept>>

(* A crash or a purge: the rows in "rest" are left, and the posts of the    *)
(* others are forgotten, as are some that were about to be recorded.        *)
LoseRows(rest, unrecorded) ==
  /\ Fault
  /\ settled' = rest /\ kept' = rest
  /\ Forget((settled \ rest) \cup unrecorded)
  /\ UNCHANGED listed

-----------------------------------------------------------------------------
Next ==
  \/ \E s \in Stories : Appear(s)
  \/ \E k \in Alerts : Post(k) \/ Settle(k)
  \/ Restart
  \/ Fail
  \/ \E k \in Alerts : SettleUnsure(k) \/ LoseRecord(k)
  \/ \E rest \in SUBSET kept, unrecorded \in SUBSET (Alerts \ settled) :
       LoseRows(rest, unrecorded)

Spec == Init /\ [][Next]_vars
=============================================================================
