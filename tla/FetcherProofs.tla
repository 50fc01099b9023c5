---------------------------- MODULE FetcherProofs ----------------------------
(* What Fetcher promises, for any adapters, requests, pages and stories.    *)
EXTENDS Fetcher, FiniteSetTheorems, TLAPS

USE DEF tokenVars, historyVars

-----------------------------------------------------------------------------
(* Types.                                                                   *)
LEMMA AskedType ==
  ASSUME adapter \in Adapters
  PROVE  Asked \in Seq(Pages \cup {Blank}) /\ Len(Asked) \in Nat
BY FetcherAssumption DEF Asked

LEMMA AskedPage ==
  ASSUME TypeOK, Requesting
  PROVE  next \in 1 .. Len(Asked) /\ Asked[next] \in Pages
<1>1. next \in 1 .. Len(Asked)
  BY AskedType DEF TypeOK, Requesting
<1> QED BY <1>1, AskedType DEF TypeOK, Requesting

LEMMA OnPageType ==
  ASSUME listing \in Seq(Ids), NEW q, NEW n \in 0 .. Len(listing)
  PROVE  PageAt(q, n) \subseteq Ids
BY DEF PageAt

LEMMA MergedType ==
  ASSUME TypeOK, NEW page \in SUBSET Ids, NEW narrowed \in BOOLEAN
  PROVE  Merged(page, narrowed) \subseteq [id : Ids, pre : BOOLEAN, at : Nat \ {0}]
<1>1. next \in Nat \ {0}
  BY AskedType DEF TypeOK
<1>2. Arriving(page, narrowed) \subseteq [id : Ids, pre : BOOLEAN, at : Nat \ {0}]
  BY <1>1 DEF Arriving
<1>3. ASSUME NEW sig \in out
      PROVE  Marked(sig, narrowed /\ sig.id \in page)
               \in [id : Ids, pre : BOOLEAN, at : Nat \ {0}]
  <2>1. (sig.pre \/ (narrowed /\ sig.id \in page)) \in BOOLEAN
    OBVIOUS
  <2>2. sig.id \in Ids /\ sig.at \in Nat \ {0}
    BY DEF TypeOK
  <2> QED BY <2>1, <2>2 DEF Marked
<1> QED BY <1>2, <1>3 DEF Merged

LEMMA TypeInit == Init => TypeOK
<1> SUFFICES ASSUME Init PROVE TypeOK
  OBVIOUS
<1>1. Len(Asked) \in Nat /\ 1 \in 1 .. Len(Asked) + 1
  BY AskedType DEF Init
<1>2. Len(listing) = 0 /\ listing \in Seq(Ids)
  BY DEF Init
<1>3. 0 \in 0 .. MaxFaults /\ 0 \in 0 .. 0
  BY FetcherAssumption
<1> QED BY <1>1, <1>2, <1>3 DEF Init, TypeOK, Tokens

LEMMA TypeStep == TypeOK /\ [Next]_vars => TypeOK'
<1> SUFFICES ASSUME TypeOK, [Next]_vars PROVE TypeOK'
  OBVIOUS
<1>0. Len(Asked) \in Nat /\ adapter' = adapter /\ Asked' = Asked
  BY AskedType DEF TypeOK, Next, vars, Poll, StartFetch, CachedToken, Exchange,
     ExchangeFails, PassOver, Reply, RequestFails, Unauthorized, CutShort, Return,
     Publish, Cancel, Expire, Revoke, Asked
<1>1. CASE UNCHANGED vars
  BY <1>1, <1>0 DEF TypeOK, vars
<1>2. ASSUME NEW s \in Ids, Publish(s) PROVE TypeOK'
  <2>1. listing' \in Seq(Ids) /\ Len(listing') = Len(listing) + 1
    BY <1>2 DEF Publish, TypeOK
  <2> QED BY <1>2, <1>0, <2>1 DEF Publish, TypeOK
<1>3. CASE Cancel \/ Expire
  BY <1>3, <1>0 DEF Cancel, Expire, TypeOK
<1>4. CASE Revoke
  BY <1>4, <1>0, FetcherAssumption DEF Revoke, Revoked, Fault, TypeOK, Tokens
<1>5. ASSUME NEW rebuilt \in BOOLEAN, StartFetch(rebuilt) PROVE TypeOK'
  <2>1. cached' \in Tokens /\ expired' \in BOOLEAN
    BY <1>5 DEF StartFetch, TypeOK, Tokens
  <2>2. next' \in 1 .. Len(Asked') + 1 /\ began' \in 0 .. Len(listing')
    BY <1>5, <1>0 DEF StartFetch, TypeOK
  <2> QED BY <1>5, <2>1, <2>2 DEF StartFetch, TypeOK
<1>6. CASE CachedToken \/ Exchange
  BY <1>6, <1>0 DEF CachedToken, Exchange, TypeOK, Tokens
<1>7. CASE ExchangeFails
  BY <1>7, <1>0, FetcherAssumption DEF ExchangeFails, Fault, TypeOK
<1>8. CASE PassOver
  BY <1>8, <1>0 DEF PassOver, TypeOK
<1>9. CASE Reply
  <2>1. Asked[next] \in Pages /\ next + 1 \in 1 .. Len(Asked) + 1
    BY <1>9, <1>0, AskedPage DEF Reply
  <2>2. OnPage(Asked[next]) \subseteq Ids
    BY OnPageType DEF OnPage, TypeOK
  <2>3. out' \subseteq [id : Ids, pre : BOOLEAN, at : Nat \ {0}]
    <3>1. (Asked[next] \in Narrowed) \in BOOLEAN
      OBVIOUS
    <3>2. out' = Merged(OnPage(Asked[next]), Asked[next] \in Narrowed)
      BY <1>9 DEF Reply
    <3> QED BY <2>2, <3>1, <3>2, MergedType
  <2>4. got' \in [Pages -> SUBSET Ids]
    BY <1>9, <2>1, <2>2 DEF Reply, TypeOK
  <2> QED BY <1>9, <1>0, <2>1, <2>3, <2>4 DEF Reply, TypeOK
<1>10. CASE RequestFails \/ Unauthorized \/ CutShort
  <2>1. Requesting
    BY <1>10 DEF RequestFails, Unauthorized, CutShort
  <2>2. next + 1 \in 1 .. Len(Asked) + 1 /\ Len(Asked) + 1 \in 1 .. Len(Asked) + 1
    BY <1>0, <2>1, AskedPage
  <2>3. next' \in 1 .. Len(Asked') + 1
    BY <1>10, <1>0, <2>2 DEF RequestFails, Unauthorized, CutShort
  <2>4. /\ UNCHANGED <<listing, cancelled, phase, out, using, historyVars, faults>>
        /\ failed' \in BOOLEAN /\ expired' \in BOOLEAN /\ refused' \in BOOLEAN
        /\ cached' \in Tokens
    BY <1>10 DEF RequestFails, Unauthorized, CutShort, TypeOK, Tokens
  <2> QED BY <1>0, <2>3, <2>4 DEF TypeOK
<1>11. CASE Return
  <2>1. IdsOf(out) \subseteq Ids
    BY DEF IdsOf, TypeOK
  <2>2. next' \in 1 .. Len(Asked') + 1 /\ began' \in 0 .. Len(listing')
    BY <1>11, <1>0 DEF Return, TypeOK
  <2> QED BY <1>11, <2>1, <2>2 DEF Return, TypeOK, Tokens
<1> QED
  BY <1>1, <1>2, <1>3, <1>4, <1>5, <1>6, <1>7, <1>8, <1>9, <1>10, <1>11
  DEF Next, Poll

(* The variables of the adapters keep their types, the index of the next    *)
(* request included.                                                        *)
THEOREM TypeCorrect == Spec => []TypeOK
<1> QED BY TypeInit, TypeStep, PTL DEF Spec

-----------------------------------------------------------------------------
(* The token. A 401 empties the cache, and only an exchange fills it again. *)
THEOREM NoRejectedToken == Spec => []RejectedTokenDropped
<1>1. Init => RejectedTokenDropped
  BY DEF Init, RejectedTokenDropped
<1>2. RejectedTokenDropped /\ [Next]_vars => RejectedTokenDropped'
  BY DEF RejectedTokenDropped, Next, vars, Poll, StartFetch, CachedToken,
     Exchange, ExchangeFails, PassOver, Reply, RequestFails, Unauthorized,
     CutShort, Return, Publish, Cancel, Expire, Revoke, Revoked
<1> QED BY <1>1, <1>2, PTL DEF Spec

-----------------------------------------------------------------------------
(* The answer. What a page brings joins the signals and what is remembered  *)
(* of the pages in the same way.                                            *)
LEMMA MergedIds ==
  ASSUME NEW page, NEW narrowed
  PROVE  IdsOf(Merged(page, narrowed)) = IdsOf(out) \cup (page \ Unusable[adapter])
<1>1. ASSUME NEW x \in Merged(page, narrowed)
      PROVE  x.id \in IdsOf(out) \cup (page \ Unusable[adapter])
  BY DEF Merged, Arriving, Marked, IdsOf
<1>2. ASSUME NEW s \in IdsOf(out)
      PROVE  s \in IdsOf(Merged(page, narrowed))
  <2>1. PICK sig \in out : sig.id = s
    BY DEF IdsOf
  <2>2. Marked(sig, narrowed /\ sig.id \in page) \in Merged(page, narrowed)
    BY DEF Merged
  <2> QED BY <2>1, <2>2 DEF Marked, IdsOf
<1>3. ASSUME NEW s \in page \ Unusable[adapter], s \notin IdsOf(out)
      PROVE  s \in IdsOf(Merged(page, narrowed))
  <2>1. [id |-> s, pre |-> narrowed, at |-> next] \in Merged(page, narrowed)
    BY <1>3 DEF Merged, Arriving
  <2> QED BY <2>1 DEF IdsOf
<1> QED BY <1>1, <1>2, <1>3 DEF IdsOf

LEMMA MergedOnce ==
  ASSUME \A x, y \in out : x.id = y.id => x = y, NEW page, NEW narrowed,
         NEW x \in Merged(page, narrowed), NEW y \in Merged(page, narrowed),
         x.id = y.id
  PROVE  x = y
<1>1. CASE x.id \in IdsOf(out)
  <2>1. x \notin Arriving(page, narrowed) /\ y \notin Arriving(page, narrowed)
    BY <1>1 DEF Arriving
  <2>2. PICK v \in out : x = Marked(v, narrowed /\ v.id \in page)
    BY <2>1 DEF Merged
  <2>3. PICK w \in out : y = Marked(w, narrowed /\ w.id \in page)
    BY <2>1 DEF Merged
  <2>4. v.id = w.id
    BY <2>2, <2>3 DEF Marked
  <2> QED BY <2>2, <2>3, <2>4
<1>2. CASE x.id \notin IdsOf(out)
  <2>1. \A v \in out : x # Marked(v, narrowed /\ v.id \in page)
                         /\ y # Marked(v, narrowed /\ v.id \in page)
    BY <1>2 DEF Marked, IdsOf
  <2>2. x \in Arriving(page, narrowed) /\ y \in Arriving(page, narrowed)
    BY <2>1 DEF Merged
  <2> QED BY <2>2 DEF Arriving
<1> QED BY <1>1, <1>2

LEMMA InUnion ==
  ASSUME NEW pages, NEW s
  PROVE  s \in Brought(pages) <=> \E p \in Pages : s \in pages[p]
BY DEF Brought

LEMMA UnionGrows ==
  ASSUME NEW pages, pages \in [Pages -> SUBSET Ids], NEW q \in Pages, NEW page
  PROVE  Brought([pages EXCEPT ![q] = @ \cup page]) = Brought(pages) \cup page
<1> DEFINE after == [pages EXCEPT ![q] = @ \cup page]
<1>1. \A p \in Pages : after[p] = IF p = q THEN pages[p] \cup page ELSE pages[p]
  OBVIOUS
<1> HIDE DEF after
<1>2. ASSUME NEW s
      PROVE  s \in Brought(after)
               <=> s \in Brought(pages) \cup page
  <2>1. s \in Brought(after) <=> \E p \in Pages : s \in after[p]
    BY InUnion
  <2>2. s \in Brought(pages) <=> \E p \in Pages : s \in pages[p]
    BY InUnion
  <2>3. (\E p \in Pages : s \in after[p])
          <=> (\E p \in Pages : s \in pages[p]) \/ s \in page
    BY <1>1
  <2> HIDE DEF after
  <2> QED BY <2>1, <2>2, <2>3
<1>3. Brought(after) = Brought(pages) \cup page
  BY <1>2
<1> QED BY <1>3 DEF after

(* A signal is marked exactly if a tag page that came has it.               *)
LEMMA MergedMarks ==
  ASSUME NEW q \in Pages, NEW page, NEW pages, pages \in [Pages -> SUBSET Ids],
         IdsOf(out) = Brought(pages) \ Unusable[adapter],
         \A x \in out : x.pre <=> \E p \in Narrowed : x.id \in pages[p],
         NEW x \in Merged(page, q \in Narrowed)
  PROVE  x.pre <=> \E p \in Narrowed :
                     x.id \in [pages EXCEPT ![q] = @ \cup page][p]
<1> DEFINE after == [pages EXCEPT ![q] = @ \cup page]
<1>1. Narrowed \subseteq Pages
  BY FetcherAssumption
<1>2. \A p \in Pages : after[p] = IF p = q THEN pages[p] \cup page ELSE pages[p]
  OBVIOUS
<1> HIDE DEF after
<1>3. CASE x \in Arriving(page, q \in Narrowed)
  <2>1. x.id \in page /\ x.id \notin IdsOf(out) \cup Unusable[adapter]
    BY <1>3 DEF Arriving
  <2>2. x.pre <=> q \in Narrowed
    <3>1. PICK s \in page : x = [id |-> s, pre |-> q \in Narrowed, at |-> next]
      BY <1>3 DEF Arriving
    <3> QED BY <3>1
  <2>3. ASSUME NEW p \in Pages PROVE x.id \notin pages[p]
    <3>1. x.id \in pages[p] => x.id \in Brought(pages)
      BY InUnion
    <3> QED BY <2>1, <3>1
  <2> QED BY <1>1, <1>2, <2>1, <2>2, <2>3 DEF after
<1>4. CASE x \notin Arriving(page, q \in Narrowed)
  <2>1. PICK sig \in out : x = Marked(sig, q \in Narrowed /\ sig.id \in page)
    BY <1>4 DEF Merged
  <2>2. x.id = sig.id
    BY <2>1 DEF Marked
  <2>3. x.pre <=> sig.pre \/ (q \in Narrowed /\ sig.id \in page)
    BY <2>1 DEF Marked
  <2>4. sig.pre <=> \E p \in Narrowed : sig.id \in pages[p]
    OBVIOUS
  <2> QED BY <1>1, <1>2, <2>2, <2>3, <2>4 DEF after
<1> QED BY <1>3, <1>4

LEMMA AnswerStep ==
  TypeOK /\ FreshStart /\ AnswerIsUnion /\ [Next]_vars => AnswerIsUnion'
<1> SUFFICES ASSUME TypeOK, FreshStart, AnswerIsUnion, [Next]_vars,
                    phase' = "request"
             PROVE  AnswerIsUnion'
  BY DEF AnswerIsUnion
<1>1. CASE phase = "request" /\ UNCHANGED <<adapter, out, got>>
  <2>1. /\ \A x, y \in out : x.id = y.id => x = y
        /\ IdsOf(out) = Brought(got) \ Unusable[adapter]
        /\ \A x \in out : x.pre <=> \E q \in Narrowed : x.id \in got[q]
    BY <1>1 DEF AnswerIsUnion
  <2>2. IdsOf(out)' = IdsOf(out) /\ Brought(got)' = Brought(got)
    BY <1>1 DEF IdsOf, Brought
  <2>3. Unusable[adapter]' = Unusable[adapter]
    BY <1>1
  <2>4. (\A x, y \in out : x.id = y.id => x = y)'
    BY <1>1, <2>1
  <2>5. (\A x \in out : x.pre <=> \E q \in Narrowed : x.id \in got[q])'
    BY <1>1, <2>1
  <2>6. (IdsOf(out) = Brought(got) \ Unusable[adapter])'
    BY <2>1, <2>2, <2>3
  <2> QED BY <2>4, <2>5, <2>6 DEF AnswerIsUnion
<1>2. CASE out' = {} /\ got' = [q \in Pages |-> {}]
  <2>1. /\ out' = {} /\ IdsOf(out') = {} /\ Brought(got') = {}
    BY <1>2 DEF IdsOf, Brought
  <2> QED BY <2>1 DEF AnswerIsUnion
<1>3. CASE Reply
  <2>1. PICK p \in Pages : p = Asked[next]
    BY <1>3, AskedPage DEF Reply
  <2>2. /\ out' = Merged(OnPage(p), p \in Narrowed) /\ adapter' = adapter
        /\ got' = [got EXCEPT ![p] = @ \cup OnPage(p)] /\ phase = "request"
    BY <1>3, <2>1 DEF Reply, Requesting
  <2>3. /\ \A x, y \in out : x.id = y.id => x = y
        /\ IdsOf(out) = Brought(got) \ Unusable[adapter]
        /\ \A x \in out : x.pre <=> \E r \in Narrowed : x.id \in got[r]
        /\ got \in [Pages -> SUBSET Ids]
    BY <2>2 DEF AnswerIsUnion, TypeOK
  <2>4. \A x, y \in out' : x.id = y.id => x = y
    BY <2>2, <2>3, MergedOnce
  <2>5. IdsOf(out') = Brought(got') \ Unusable[adapter']
    <3>1. IdsOf(out') = IdsOf(out) \cup (OnPage(p) \ Unusable[adapter])
      BY <2>2, MergedIds
    <3>2. Brought(got') = Brought(got) \cup OnPage(p)
      BY <2>2, <2>3, UnionGrows
    <3>3. adapter' = adapter
      BY <2>2
    <3>4. IdsOf(out) = Brought(got) \ Unusable[adapter]
      BY <2>3
    <3> QED BY <3>1, <3>2, <3>3, <3>4
  <2>6. \A x \in out' : x.pre <=> \E r \in Narrowed : x.id \in got'[r]
    BY <2>2, <2>3, MergedMarks
  <2> QED BY <2>4, <2>5, <2>6 DEF AnswerIsUnion, IdsOf
<1>4. CASE phase = "token"
  <2>1. out = {} /\ got = [q \in Pages |-> {}]
    BY <1>4 DEF FreshStart
  <2>2. UNCHANGED <<out, got>>
    BY <1>4 DEF Next, vars, Poll, StartFetch, CachedToken, Exchange, ExchangeFails,
       PassOver, Reply, RequestFails, Unauthorized, CutShort, Return, Requesting,
       Returning, Publish, Cancel, Expire, Revoke
  <2> QED BY <1>2, <2>1, <2>2
<1>5. CASE phase = "idle"
  BY <1>2, <1>5 DEF Next, vars, Poll, StartFetch, CachedToken, Exchange,
     ExchangeFails, PassOver, Reply, RequestFails, Unauthorized, CutShort, Return,
     Requesting, Returning, Publish, Cancel, Expire, Revoke
<1>6. CASE phase = "request" /\ ~Reply
  BY <1>1, <1>6 DEF Next, vars, Poll, StartFetch, CachedToken, Exchange,
     ExchangeFails, PassOver, RequestFails, Unauthorized, CutShort, Return,
     Publish, Cancel, Expire, Revoke
<1> QED BY <1>3, <1>4, <1>5, <1>6 DEF TypeOK

-----------------------------------------------------------------------------
(* Completeness. What was on a page when the Fetch began and is on it now   *)
(* has been on it all the time: stories only move on as others come.        *)
LEMMA NewerFinite ==
  ASSUME NEW q, NEW i \in Nat, NEW n \in Nat
  PROVE  IsFiniteSet(Newer(q, i, n))
<1>1. IsFiniteSet(i + 1 .. n)
  BY FS_Interval
<1> QED BY <1>1, FS_Subset DEF Newer

LEMMA BeganStays ==
  ASSUME listing \in Seq(Ids), NEW s \in Ids, listing' = Append(listing, s),
         NEW q, NEW n \in 0 .. Len(listing)
  PROVE  PageAt(q, n)' = PageAt(q, n)
<1>1. \A i \in 1 .. n : listing'[i] = listing[i]
  OBVIOUS
<1>2. \A i \in 1 .. n : Newer(q, i, n)' = Newer(q, i, n)
  BY <1>1 DEF Newer
<1> QED BY <1>1, <1>2 DEF PageAt

LEMMA OnPageStays ==
  ASSUME TypeOK, NEW s \in Ids, Publish(s), NEW q
  PROVE  PageAt(q, began)' \cap OnPage(q)' \subseteq PageAt(q, began) \cap OnPage(q)
<1>0. PICK n \in Nat : n = Len(listing)
  BY DEF TypeOK
<1>1. /\ Len(listing) = n /\ Len(listing') = n + 1
      /\ listing \in Seq(Ids) /\ listing' = Append(listing, s)
      /\ began' = began /\ began \in 0 .. n /\ n \in Nat
      /\ PageSize \in Nat
      /\ \A i \in 1 .. n : listing[i] # s
  BY <1>0, FetcherAssumption DEF Publish, TypeOK, Range, historyVars
<1>2. PageAt(q, began)' = PageAt(q, began)
  BY <1>1, BeganStays
<1>3. ASSUME NEW x \in PageAt(q, began), x \in OnPage(q)'
      PROVE  x \in OnPage(q)
  <2>1. PICK i \in 1 .. began : x = listing[i]
    BY DEF PageAt
  <2>2. x # s
    BY <1>1, <2>1
  <2>3. PICK j \in 1 .. n + 1 :
          /\ x = listing'[j] /\ listing'[j] \in Lists[q]
          /\ Cardinality(Newer(q, j, n + 1)') < PageSize
    BY <1>1, <1>3 DEF OnPage, PageAt
  <2>4. j \in 1 .. n
    BY <1>1, <2>2, <2>3
  <2>5. x = listing[j] /\ listing[j] \in Lists[q]
    BY <1>1, <2>3, <2>4
  <2>6. Newer(q, j, n) \subseteq Newer(q, j, n + 1)'
    BY <1>1, <2>4 DEF Newer
  <2>7. Cardinality(Newer(q, j, n)) < PageSize
    <3>1. IsFiniteSet(Newer(q, j, n + 1)')
      <4>1. IsFiniteSet(j + 1 .. n + 1)
        BY <1>1, <2>4, FS_Interval
      <4> QED BY <4>1, FS_Subset DEF Newer
    <3>2. Cardinality(Newer(q, j, n)) <= Cardinality(Newer(q, j, n + 1)')
      BY <2>6, <3>1, FS_Subset
    <3>3. /\ Cardinality(Newer(q, j, n)) \in Nat
          /\ Cardinality(Newer(q, j, n + 1)') \in Nat
      BY <1>1, <2>4, <3>1, NewerFinite, FS_CardinalityType
    <3> QED BY <1>1, <2>3, <3>2, <3>3
  <2> QED BY <1>1, <2>4, <2>5, <2>7 DEF OnPage, PageAt
<1> QED BY <1>2, <1>3

LEMMA FetchInvStep == TypeOK /\ FetchInv /\ [Next]_vars => FetchInv'
<1> SUFFICES ASSUME TypeOK, FetchInv, [Next]_vars PROVE FetchInv'
  OBVIOUS
<1> USE DEF FetchInv
<1>1. FreshStart'
  BY DEF FreshStart, Next, vars, Poll, StartFetch, CachedToken, Exchange,
     ExchangeFails, PassOver, Reply, RequestFails, Unauthorized, CutShort, Return,
     Requesting, Returning, Publish, Cancel, Expire, Revoke
<1>2. NothingMissed'
  <2> SUFFICES ASSUME phase' = "request", ~failed', NEW n \in 1 .. next' - 1,
                      Asked'[n] # Blank
               PROVE  (PageAt(Asked[n], began) \cap OnPage(Asked[n]))'
                        \subseteq got'[Asked'[n]]
    BY DEF NothingMissed
  <2>0. Len(Asked) \in Nat /\ next \in Nat /\ next >= 1
    BY AskedType DEF TypeOK
  <2>7. ASSUME UNCHANGED <<adapter, listing, began>>
        PROVE  /\ OnPage(Asked[n])' = OnPage(Asked[n])
               /\ PageAt(Asked[n], began)' = PageAt(Asked[n], began)
    BY <2>7 DEF OnPage, PageAt, Newer, Asked
  <2>1. CASE \E s \in Ids : Publish(s)
    <3>1. PICK s \in Ids : Publish(s)
      BY <2>1
    <3>2. UNCHANGED <<adapter, phase, failed, next, got, began>>
      BY <3>1 DEF Publish
    <3>3. PageAt(Asked[n], began) \cap OnPage(Asked[n]) \subseteq got[Asked[n]]
      BY <3>2 DEF NothingMissed, Asked
    <3>4. Asked' = Asked
      BY <3>2 DEF Asked
    <3>5. PICK q : q = Asked[n]
      OBVIOUS
    <3>6. PageAt(q, began)' \cap OnPage(q)' \subseteq PageAt(q, began) \cap OnPage(q)
      BY <3>1, OnPageStays
    <3> QED BY <3>2, <3>3, <3>4, <3>5, <3>6
  <2>2. CASE Reply
    <3>1. /\ UNCHANGED <<adapter, listing, began, failed, phase>>
          /\ Requesting /\ next' = next + 1
          /\ got' = [got EXCEPT ![Asked[next]] = @ \cup OnPage(Asked[next])]
      BY <2>2 DEF Reply
    <3>2. Asked' = Asked /\ Asked[next] \in Pages
      BY <3>1, AskedPage DEF Asked
    <3>3. OnPage(Asked[n])' = OnPage(Asked[n]) /\ PageAt(Asked[n], began)' = PageAt(Asked[n], began)
      BY <2>7, <3>1
    <3>4. got[Asked[n]] \subseteq got'[Asked[n]]
      BY <3>1, <3>2 DEF TypeOK
    <3>5. CASE n = next
      BY <3>1, <3>2, <3>3, <3>5 DEF TypeOK
    <3>6. CASE n # next
      <4>1. n \in 1 .. next - 1
        BY <2>0, <3>1, <3>6
      <4>2. PageAt(Asked[n], began) \cap OnPage(Asked[n]) \subseteq got[Asked[n]]
        BY <3>1, <3>2, <4>1 DEF NothingMissed, Requesting
      <4> QED BY <3>2, <3>3, <3>4, <4>2
    <3> QED BY <3>5, <3>6
  <2>3. CASE phase # "request"
    <3>1. next' = 1
      BY <2>3 DEF FreshStart, TypeOK, Next, vars, Poll, StartFetch, CachedToken,
         Exchange, ExchangeFails, PassOver, Reply, RequestFails, Unauthorized,
         CutShort, Return, Requesting, Returning, Publish, Cancel, Expire, Revoke
    <3> QED BY <3>1
  <2>4. CASE PassOver
    <3>1. /\ UNCHANGED <<adapter, listing, began, failed, phase, got>>
          /\ next' = next + 1 /\ Asked[next] = Blank
      BY <2>4 DEF PassOver
    <3>2. Asked' = Asked
      BY <3>1 DEF Asked
    <3>3. n \in 1 .. next - 1
      BY <2>0, <3>1, <3>2
    <3> QED BY <2>7, <3>1, <3>2, <3>3 DEF NothingMissed
  <2>5. CASE UNCHANGED <<adapter, listing, began, failed, phase, got, next>>
    <3>1. Asked' = Asked
      BY <2>5 DEF Asked
    <3> QED BY <2>5, <2>7, <3>1 DEF NothingMissed
  <2> QED
    BY <2>1, <2>2, <2>3, <2>4, <2>5
    DEF Next, vars, Poll, StartFetch, CachedToken, Exchange, ExchangeFails,
        RequestFails, Unauthorized, CutShort, Return, Cancel, Expire, Revoke
<1> QED BY <1>1, <1>2

-----------------------------------------------------------------------------
LEMMA FetchInvariant == Spec => [](TypeOK /\ AnswerIsUnion /\ FetchInv)
<1>1. Init => TypeOK /\ AnswerIsUnion /\ FetchInv
  BY TypeInit DEF Init, AnswerIsUnion, FetchInv, FreshStart, NothingMissed
<1>2. TypeOK /\ AnswerIsUnion /\ FetchInv /\ [Next]_vars
        => TypeOK' /\ AnswerIsUnion' /\ FetchInv'
  BY TypeStep, AnswerStep, FetchInvStep DEF FetchInv
<1> QED BY <1>1, <1>2, PTL DEF Spec

(* Between two requests the signals are the marked union of the pages that  *)
(* came, whatever fails and whatever is published in between.               *)
THEOREM AnswerIsMarkedUnion == Spec => []AnswerIsUnion
<1> QED BY FetchInvariant, PTL

(* A Fetch begins with nothing, and each page it got brought all that has   *)
(* been on it throughout: the inductive invariant of completeness.          *)
THEOREM PagesMissNothing == Spec => []FetchInv
<1> QED BY FetchInvariant, PTL

(* No error means a complete answer: whatever was on one of the pages from  *)
(* the beginning of the Fetch to its end is in it, with the mark of the     *)
(* page, for any keywords, pages and stories.                               *)
THEOREM SilenceIsComplete == Spec => []CompleteWithoutError
<1>1. TypeOK /\ AnswerIsUnion /\ FetchInv => CompleteWithoutError
  <2> SUFFICES ASSUME TypeOK, AnswerIsUnion, FetchInv, Returning, ~failed,
                      NEW n \in DOMAIN Asked, Asked[n] # Blank,
                      NEW s \in (PageAt(Asked[n], began) \cap OnPage(Asked[n]))
                                  \ Unusable[adapter]
               PROVE  \E x \in out : x.id = s /\ (Asked[n] \in Narrowed => x.pre)
    BY DEF CompleteWithoutError
  <2>1. phase = "request" /\ n \in 1 .. next - 1 /\ Asked[n] \in Pages
    <3>1. n \in 1 .. Len(Asked) /\ Asked[n] \in Pages /\ Len(Asked) \in Nat
      BY AskedType DEF TypeOK
    <3> QED BY <3>1 DEF Returning, TypeOK
  <2>2. s \in got[Asked[n]]
    BY <2>1 DEF FetchInv, NothingMissed
  <2>3. s \in Brought(got)
    BY <2>1, <2>2 DEF Brought
  <2>4. s \in IdsOf(out)
    BY <2>1, <2>3 DEF AnswerIsUnion
  <2>5. PICK x \in out : x.id = s
    BY <2>4 DEF IdsOf
  <2>6. Asked[n] \in Narrowed => x.pre
    BY <2>1, <2>2, <2>5 DEF AnswerIsUnion
  <2> QED BY <2>5, <2>6
<1> QED BY <1>1, FetchInvariant, PTL
=============================================================================
