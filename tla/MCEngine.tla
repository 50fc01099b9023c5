----------------------------- MODULE MCEngine ------------------------------
(* Instances of Engine for TLC: two beacons that share the Lobsters         *)
(* firehose. b1 also searches HN and configures a Lobsters tag. Which one   *)
(* has a max_age is up to the configuration.                                *)
EXTENDS Engine

CONSTANTS b1, b2,  \* beacons
          h1,      \* a story on HN, hot for whoever fetches it
          l1, l2   \* stories on Lobsters: l1 in b1's tag feed, l2 on topic

noise == [noise |-> TRUE, fit |-> 3]
cold == [noise |-> FALSE, fit |-> 1]
warm == [noise |-> FALSE, fit |-> 2]
hot == [noise |-> FALSE, fit |-> 3]

MCVerdicts == {noise, cold, warm, hot}

MCSourceOf == [s \in Ids |-> IF s = h1 THEN "hn" ELSE "lobsters"]

MCFetchers == [b \in Beacons |->
  IF b = b1 THEN <<"hn", "lobsters">> ELSE <<"lobsters">>]

MCKeywords == [b \in Beacons |-> {"latency"}]

MCHaystack == [s \in Ids |-> IF s = l1 THEN {} ELSE {"latency"}]

MCTagged == [b \in Beacons |-> IF b = b1 THEN Ids \cap {l1} ELSE {}]

(* HN's story is hot, l1 is hot for b1, l2 gets any answer; with two        *)
(* beacons l2 is hot for b1 and gets any answer for b2.                     *)
MCVerdictsOfTwo == [b \in Beacons |-> [s \in Ids |->
  IF s = l2 /\ b = b2 THEN MCVerdicts ELSE {hot}]]

MCVerdictsOf == [b \in Beacons |-> [s \in Ids |->
  IF s = l2 THEN MCVerdicts ELSE {hot}]]

(* Where l1 and l2 are all there is: the tagged one gets any answer, the    *)
(* other one is hot.                                                        *)
MCVerdictsOfTag == [b \in Beacons |-> [s \in Ids |->
  IF s = l1 THEN MCVerdicts ELSE {hot}]]

MCRealtime == [b \in Beacons |-> 3]
MCDigest == [b \in Beacons |-> 2]
=============================================================================
