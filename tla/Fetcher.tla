------------------------------- MODULE Fetcher -------------------------------
(* The adapters behind the Sources port (internal/sources: hn.go,           *)
(* lobsters.go, reddit.go) and the polls that call them.                    *)
(*                                                                          *)
(* A Fetch asks for a fixed sequence of pages: HN and Reddit one search per *)
(* keyword, Lobsters the newest page and then the page of the configured    *)
(* tags. The platforms go on publishing between two requests. A request can *)
(* fail; HN then returns what it has, the other two go on with the next     *)
(* page and report the first error at the end. Reddit needs a token, which  *)
(* it takes once per Fetch, keeps for the next, and drops on a 401.         *)
(*                                                                          *)
(* The signals of a Fetch are a set: each has its id, its mark and, for its *)
(* place in the answer, the request that brought it. Within a page the      *)
(* order of the signals makes no difference here.                           *)
EXTENDS Integers, FiniteSets, Sequences, Functions

CONSTANTS
  Adapters,   \* the adapters under study, of "hn", "lobsters", "reddit"
  Ids,        \* stories
  Blank,      \* the keyword nobody should have configured: the empty one
  Requests,   \* each adapter's keywords or feeds, in their order
  Lists,      \* the stories each page would list if pages had no end
  Narrowed,   \* feeds that are on topic by the operator's choice (tags)
  Unusable,   \* stories each adapter drops: without an id, stickied
  PageSize,   \* how many stories a page has
  Healthy,    \* pages whose requests do not fail on their own
  MaxFaults   \* bound: failed token exchanges and revoked tokens

Pages == (UNION {Range(Requests[a]) : a \in Adapters}) \ {Blank}

ASSUME FetcherAssumption ==
  /\ Adapters \subseteq {"hn", "lobsters", "reddit"}
  /\ \A a \in Adapters : Requests[a] \in Seq(Pages \cup {Blank})
  /\ PageSize \in Nat \ {0} /\ MaxFaults \in Nat
  /\ Lists \in [Pages -> SUBSET Ids]
  /\ Unusable \in [Adapters -> SUBSET Ids]
  /\ Narrowed \subseteq Pages /\ Healthy \subseteq Pages

VARIABLES
  adapter,    \* the adapter of this behaviour
  listing,    \* everything published, the newest last (environment)
  cancelled,  \* the context is cancelled (environment)
  phase,      \* "idle", "token" (before the first request), "request"
  next,       \* the next request; past the last one Fetch returns
  out,        \* the signals so far, with the request each came with first
  failed,     \* an error is to be reported
  cached,     \* Reddit.token: "none", or what the server thinks of it
  expired,    \* tokenTill has passed
  using,      \* the token this Fetch took
  began,      \* how much was published when this Fetch began (history)
  got,        \* the stories each page of this Fetch brought (history)
  refused,    \* a request of an earlier or this Fetch got a 401 for the
              \* last token (history)
  arrived,    \* every story a Fetch handed to the engine (history)
  faults      \* failed exchanges and revoked tokens so far

tokenVars == <<cached, expired, using, refused>>
historyVars == <<began, got, arrived>>
vars == <<adapter, listing, cancelled, phase, next, out, failed, tokenVars,
          historyVars, faults>>

-----------------------------------------------------------------------------
Asked == Requests[adapter]

(* A page when n stories were published: the newest ones it lists.          *)
Newer(q, i, n) == {j \in i + 1 .. n : listing[j] \in Lists[q]}

PageAt(q, n) ==
  {listing[i] : i \in {j \in 1 .. n : /\ listing[j] \in Lists[q]
                                     /\ Cardinality(Newer(q, j, n)) < PageSize}}

OnPage(q) == PageAt(q, Len(listing))

IdsOf(signals) == {sig.id : sig \in signals}

Arriving(page, narrowed) ==
  {[id |-> s, pre |-> narrowed, at |-> next] :
     s \in page \ (IdsOf(out) \cup Unusable[adapter])}

(* Mutant: a story that is there already is passed over, mark and all.      *)
MergedFirstWins(page, narrowed) == out \cup Arriving(page, narrowed)

Marked(sig, mark) == [id |-> sig.id, pre |-> sig.pre \/ mark, at |-> sig.at]

(* A page joins the signals: stories that are there already take over the   *)
(* page's mark, the usable others are added.                                *)
Merged(page, narrowed) ==
  {Marked(sig, narrowed /\ sig.id \in page) : sig \in out}
    \cup Arriving(page, narrowed)

Returning == phase = "request" /\ next > Len(Asked)
Requesting == phase = "request" /\ next <= Len(Asked) /\ Asked[next] # Blank

-----------------------------------------------------------------------------
Init ==
  /\ adapter \in Adapters
  /\ listing = <<>> /\ cancelled = FALSE
  /\ phase = "idle" /\ next = 1 /\ out = {} /\ failed = FALSE
  /\ cached = "none" /\ expired = FALSE /\ using = "none" /\ refused = FALSE
  /\ began = 0 /\ got = [q \in Pages |-> {}] /\ arrived = {}
  /\ faults = 0

(* The environment: somebody publishes; the process is told to stop; time   *)
(* passes; the server no longer takes a token it issued.                    *)
Publish(s) ==
  /\ s \notin Range(listing)
  /\ listing' = Append(listing, s)
  /\ UNCHANGED <<adapter, cancelled, phase, next, out, failed, tokenVars,
                 historyVars, faults>>

Cancel ==
  /\ ~cancelled /\ cancelled' = TRUE
  /\ UNCHANGED <<adapter, listing, phase, next, out, failed, tokenVars,
                 historyVars, faults>>

Expire ==
  /\ cached # "none" /\ ~expired
  /\ expired' = TRUE
  /\ UNCHANGED <<adapter, listing, cancelled, phase, next, out, failed,
                 cached, using, refused, historyVars, faults>>

Fault == faults < MaxFaults /\ faults' = faults + 1

Revoked(token) == IF token = "valid" THEN "revoked" ELSE token

Revoke ==
  /\ Fault
  /\ cached = "valid" \/ using = "valid"
  /\ cached' = Revoked(cached) /\ using' = Revoked(using)
  /\ UNCHANGED <<adapter, listing, cancelled, phase, next, out, failed,
                 expired, refused, historyVars>>

-----------------------------------------------------------------------------
(* A poll begins a Fetch: with a new fetcher, as runBeacon builds one for   *)
(* every poll, or with the one of the poll before, as the adapter allows.   *)
StartFetch(rebuilt) ==
  /\ phase = "idle"
  /\ phase' = IF adapter = "reddit" THEN "token" ELSE "request"
  /\ next' = 1 /\ out' = {} /\ failed' = FALSE
  /\ cached' = IF rebuilt THEN "none" ELSE cached
  /\ expired' = IF rebuilt THEN FALSE ELSE expired
  /\ began' = Len(listing) /\ got' = [q \in Pages |-> {}]
  /\ UNCHANGED <<adapter, listing, cancelled, using, refused, arrived, faults>>

(* accessToken: the cached one is good for this Fetch ...                   *)
CachedToken ==
  /\ phase = "token"
  /\ cached # "none" /\ ~expired
  /\ using' = cached
  /\ phase' = "request"
  /\ UNCHANGED <<adapter, listing, cancelled, next, out, failed, cached,
                 expired, refused, historyVars, faults>>

(* Mutant: an empty access_token is taken like any other.                   *)
ExchangeUnchecked ==
  /\ phase = "token"
  /\ cached = "none" \/ expired
  /\ ~cancelled
  /\ cached' \in {"valid", ""} /\ using' = cached' /\ expired' = FALSE
  /\ refused' = FALSE
  /\ phase' = "request"
  /\ UNCHANGED <<adapter, listing, cancelled, next, out, failed, historyVars,
                 faults>>

(* ... or a new one is asked for ...                                        *)
Exchange ==
  /\ phase = "token"
  /\ cached = "none" \/ expired
  /\ ~cancelled
  /\ cached' = "valid" /\ using' = "valid" /\ expired' = FALSE
  /\ refused' = FALSE
  /\ phase' = "request"
  /\ UNCHANGED <<adapter, listing, cancelled, next, out, failed, historyVars,
                 faults>>

(* ... and if there is none, Fetch returns with nothing but the error.      *)
ExchangeFails ==
  /\ phase = "token"
  /\ cached = "none" \/ expired
  /\ IF cancelled THEN UNCHANGED faults ELSE Fault
  /\ phase' = "request" /\ next' = Len(Asked) + 1 /\ failed' = TRUE
  /\ UNCHANGED <<adapter, listing, cancelled, out, tokenVars, historyVars>>

-----------------------------------------------------------------------------
(* An empty keyword is passed over.                                         *)
PassOver ==
  /\ phase = "request" /\ next <= Len(Asked) /\ Asked[next] = Blank
  /\ next' = next + 1
  /\ UNCHANGED <<adapter, listing, cancelled, phase, out, failed, tokenVars,
                 historyVars, faults>>

(* Mutant: the error of an earlier request is forgotten.                    *)
ReplyClearsError ==
  LET q == Asked[next]
  IN /\ Requesting /\ ~cancelled
     /\ adapter = "reddit" => using = "valid"
     /\ out' = Merged(OnPage(q), q \in Narrowed)
     /\ failed' = FALSE
     /\ got' = [got EXCEPT ![q] = @ \cup OnPage(q)]
     /\ next' = next + 1
     /\ UNCHANGED <<adapter, listing, cancelled, phase, tokenVars,
                    began, arrived, faults>>

(* The platform answers with the page as it is now.                         *)
Reply ==
  LET q == Asked[next]
  IN /\ Requesting /\ ~cancelled
     /\ adapter = "reddit" => using = "valid"
     /\ out' = Merged(OnPage(q), q \in Narrowed)
     /\ got' = [got EXCEPT ![q] = @ \cup OnPage(q)]
     /\ next' = next + 1
     /\ UNCHANGED <<adapter, listing, cancelled, phase, failed, tokenVars,
                    began, arrived, faults>>

(* Mutant: every adapter ends at the first failed request.                  *)
RequestFailsAndEnds ==
  /\ Requesting
  /\ cancelled \/ Asked[next] \notin Healthy
  /\ failed' = TRUE
  /\ next' = Len(Asked) + 1
  /\ UNCHANGED <<adapter, listing, cancelled, phase, out, tokenVars,
                 historyVars, faults>>

(* Mutant: the error is swallowed.                                          *)
RequestFailsSilently ==
  /\ Requesting
  /\ cancelled \/ Asked[next] \notin Healthy
  /\ next' = IF adapter = "hn" THEN Len(Asked) + 1 ELSE next + 1
  /\ UNCHANGED <<adapter, listing, cancelled, phase, out, failed, tokenVars,
                 historyVars, faults>>

(* A request fails: HN ends the Fetch there, the others go on.              *)
RequestFails ==
  /\ Requesting
  /\ cancelled \/ Asked[next] \notin Healthy
  /\ failed' = TRUE
  /\ next' = IF adapter = "hn" THEN Len(Asked) + 1 ELSE next + 1
  /\ UNCHANGED <<adapter, listing, cancelled, phase, out, tokenVars,
                 historyVars, faults>>

(* Mutant: the rejected token stays in the cache.                           *)
UnauthorizedKeepsToken ==
  /\ Requesting /\ ~cancelled
  /\ adapter = "reddit" /\ using = "revoked"
  /\ refused' = TRUE
  /\ failed' = TRUE
  /\ next' = next + 1
  /\ UNCHANGED <<adapter, listing, cancelled, phase, out, cached, expired,
                 using, historyVars, faults>>

(* Reddit answers 401: the token leaves the cache, and the rest of this     *)
(* Fetch goes on with it.                                                   *)
Unauthorized ==
  /\ Requesting /\ ~cancelled
  /\ adapter = "reddit" /\ using = "revoked"
  /\ cached' = "none" /\ expired' = FALSE
  /\ refused' = TRUE
  /\ failed' = TRUE
  /\ next' = next + 1
  /\ UNCHANGED <<adapter, listing, cancelled, phase, out, using, historyVars,
                 faults>>

(* In the pause before each of Reddit's keywords but the first the context  *)
(* is looked at. (An empty keyword in the first place counts as the first.) *)
CutShort ==
  /\ Requesting /\ cancelled
  /\ adapter = "reddit"
  /\ next > 1
  /\ failed' = TRUE
  /\ next' = Len(Asked) + 1
  /\ UNCHANGED <<adapter, listing, cancelled, phase, out, tokenVars,
                 historyVars, faults>>

(* Fetch returns, and the engine takes what there is, error or not.         *)
Return ==
  /\ Returning
  /\ phase' = "idle" /\ next' = 1
  /\ arrived' = arrived \cup IdsOf(out)
  /\ out' = {} /\ failed' = FALSE
  /\ began' = 0 /\ got' = [q \in Pages |-> {}]
  /\ using' = "none"
  /\ UNCHANGED <<adapter, listing, cancelled, cached, expired, refused, faults>>

-----------------------------------------------------------------------------
Poll ==
  \/ \E rebuilt \in BOOLEAN : StartFetch(rebuilt)
  \/ CachedToken \/ Exchange \/ ExchangeFails
  \/ PassOver \/ Reply \/ RequestFails \/ Unauthorized \/ CutShort
  \/ Return

Next ==
  \/ Poll
  \/ \E s \in Ids : Publish(s)
  \/ Cancel \/ Expire \/ Revoke

(* Polls go on: the loop starts the next one, and every request returns     *)
(* after 20 seconds at the latest (http.Client.Timeout).                    *)
Spec == Init /\ [][Next]_vars /\ WF_vars(Poll)

-----------------------------------------------------------------------------
Tokens == {"none", "valid", "revoked"}

TypeOK ==
  /\ adapter \in Adapters
  /\ listing \in Seq(Ids) /\ cancelled \in BOOLEAN
  /\ phase \in {"idle", "token", "request"}
  /\ next \in 1 .. Len(Asked) + 1
  /\ out \subseteq [id : Ids, pre : BOOLEAN, at : Nat \ {0}]
  /\ failed \in BOOLEAN /\ expired \in BOOLEAN /\ refused \in BOOLEAN
  /\ cached \in Tokens /\ using \in Tokens
  /\ began \in 0 .. Len(listing)
  /\ got \in [Pages -> SUBSET Ids]
  /\ arrived \subseteq Ids
  /\ faults \in 0 .. MaxFaults

(* Everything these pages have.                                             *)
Brought(pages) == UNION {pages[q] : q \in Pages}

(* Whatever fails, in whatever order stories appear on pages and leave      *)
(* them: a Fetch returns every usable story of every page it did get, each  *)
(* once, and a story is marked on topic exactly if one of the tag pages it  *)
(* got listed it (not if another page happened to list it first).           *)
AnswerIsUnion ==
  phase = "request" =>
    /\ \A x, y \in out : x.id = y.id => x = y
    /\ IdsOf(out) = Brought(got) \ Unusable[adapter]
    /\ \A x \in out : x.pre <=> \E q \in Narrowed : x.id \in got[q]

(* A Fetch that reports no error has left nothing out: a story that was on  *)
(* a page when the Fetch began, and still is, is in the answer, and marked  *)
(* if the page is a tag page. The engine's Fetch, which loses nothing and   *)
(* no mark, relies on it.                                                   *)
CompleteWithoutError ==
  Returning /\ ~failed =>
    \A n \in DOMAIN Asked : Asked[n] # Blank =>
      \A s \in (PageAt(Asked[n], began) \cap OnPage(Asked[n])) \ Unusable[adapter] :
        \E x \in out : x.id = s /\ (Asked[n] \in Narrowed => x.pre)

(* Why: each answered page brought what was on it throughout the Fetch.     *)
NothingMissed ==
  phase = "request" /\ ~failed =>
    \A n \in 1 .. next - 1 : Asked[n] # Blank =>
      PageAt(Asked[n], began) \cap OnPage(Asked[n]) \subseteq got[Asked[n]]

FreshStart ==
  phase = "token" =>
    next = 1 /\ out = {} /\ ~failed /\ got = [q \in Pages |-> {}]

FetchInv == FreshStart /\ NothingMissed

(* A token the server has rejected is not kept for a later Fetch: a rotated *)
(* secret does not lock a fetcher that lives on out for good.               *)
RejectedTokenDropped == refused => cached = "none"

(* A page that can be had keeps arriving although other pages fail in every *)
(* single poll: what it lists reaches the engine, or leaves the page first. *)
(* For HN the pages before it must be healthy too: one keyword that always  *)
(* fails hides all keywords after it.                                       *)
Reaches(n) == /\ Asked[n] \in Healthy
              /\ adapter = "hn" =>
                   \A m \in 1 .. n : Asked[m] \in Healthy \cup {Blank}

Waiting(q, s) ==
  /\ \E n \in DOMAIN Asked : Asked[n] = q /\ Reaches(n)
  /\ s \in OnPage(q) \ Unusable[adapter]

StoriesArrive == \A q \in Pages, s \in Ids :
  Waiting(q, s) ~> (s \in arrived \/ s \notin OnPage(q) \/ cancelled)
=============================================================================
