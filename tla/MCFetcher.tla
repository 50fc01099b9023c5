----------------------------- MODULE MCFetcher -----------------------------
(* Three stories and pages of two. Keyword k1 finds a and b, k2 finds b and *)
(* c, k3 all; everything is on Lobsters' newest page, a and b carry the     *)
(* tag. The requests for k1 and for the newest page may fail in every poll. *)
(* c is stickied on Reddit, b has no id on HN.                              *)
EXTENDS Fetcher

CONSTANTS a, b, c

MCRequests == [x \in Adapters |-> IF x = "lobsters" THEN <<"newest", "tag">>
                                  ELSE IF x = "hn" THEN <<"", "k2", "k1", "k3">>
                                  ELSE <<"k1", "", "k2">>]

MCLists == [q \in Pages |-> CASE q = "k1" -> {a, b}
                              [] q = "tag" -> {a, b}
                              [] q = "k2" -> {b, c}
                              [] OTHER -> Ids]

MCUnusable == [x \in Adapters |-> CASE x = "hn" -> {b}
                                    [] x = "reddit" -> {c}
                                    [] OTHER -> {}]
=============================================================================
