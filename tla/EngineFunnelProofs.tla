------------------------ MODULE EngineFunnelProofs --------------------------
(* The funnel of a poll adds up, for every number of beacons, processes,    *)
(* signals, sources and failures: a theorem about Engine.                   *)
EXTENDS EngineProofs

-----------------------------------------------------------------------------
(* Counting the signals of one source in a sequence of fetched signals.     *)
Places(s, src) == {n \in 1..Len(s) : SourceOf[s[n].sig] = src}

LEMMA PlacesFinite ==
  ASSUME NEW s \in Seq(Item), NEW src
  PROVE  IsFiniteSet(Places(s, src)) /\ Cardinality(Places(s, src)) \in Nat
<1>1. IsFiniteSet(1..Len(s))
  BY FS_Interval
<1>2. Places(s, src) \subseteq 1..Len(s)
  BY DEF Places
<1> QED BY <1>1, <1>2, FS_Subset, FS_CardinalityType

(* Two sets of numbers, one the other moved by k, have the same size.       *)
LEMMA Moved ==
  ASSUME NEW k \in Nat, NEW S \in SUBSET Nat, IsFiniteSet(S)
  PROVE  /\ IsFiniteSet({n + k : n \in S})
         /\ Cardinality({n + k : n \in S}) = Cardinality(S)
<1> DEFINE T == {n + k : n \in S}
           f == [n \in S |-> n + k]
<1>1. f \in Bijection(S, T)
  <2>1. f \in [S -> T] /\ \A t \in T : \E n \in S : f[n] = t
    OBVIOUS
  <2>2. \A m, n \in S : f[m] = f[n] => m = n
    OBVIOUS
  <2> HIDE DEF T, f
  <2> QED BY <2>1, <2>2 DEF Bijection, Injection, Surjection, IsInjective
<1> HIDE DEF T, f
<1>2. IsFiniteSet(T) /\ Cardinality(T) = Cardinality(S)
  BY <1>1, FS_Bijection DEF ExistsBijection
<1> QED BY <1>2 DEF T

(* Dropping the head of a sequence drops the head's source from the count.  *)
LEMMA CountTail ==
  ASSUME NEW s \in Seq(Item), s # <<>>, NEW src
  PROVE  Cardinality(Places(s, src)) =
           Cardinality(Places(Tail(s), src))
             + (IF SourceOf[Head(s).sig] = src THEN 1 ELSE 0)
<1> DEFINE first == {n \in {1} : SourceOf[Head(s).sig] = src}
           later == {n + 1 : n \in Places(Tail(s), src)}
<1>1. /\ Tail(s) \in Seq(Item) /\ Len(Tail(s)) = Len(s) - 1
      /\ Len(s) \in Nat \ {0} /\ Head(s) = s[1]
      /\ \A n \in 1..Len(Tail(s)) : Tail(s)[n] = s[n + 1]
  OBVIOUS
<1>2. Places(s, src) = first \cup later
  <2>1. ASSUME NEW n \in Places(s, src) PROVE n \in first \cup later
    <3>1. CASE n = 1
      BY <1>1, <2>1, <3>1 DEF Places
    <3>2. CASE n # 1
      <4>1. n - 1 \in Places(Tail(s), src) /\ n = (n - 1) + 1
        BY <1>1, <2>1, <3>2 DEF Places
      <4> QED BY <4>1
    <3> QED BY <3>1, <3>2
  <2>2. ASSUME NEW n \in first PROVE n \in Places(s, src)
    BY <1>1, <2>2 DEF Places
  <2>3. ASSUME NEW n \in Places(Tail(s), src) PROVE n + 1 \in Places(s, src)
    BY <1>1, <2>3 DEF Places
  <2> QED BY <2>1, <2>2, <2>3
<1>3. /\ IsFiniteSet(Places(Tail(s), src)) /\ Places(Tail(s), src) \subseteq Nat
      /\ \A n \in Places(Tail(s), src) : n >= 1
      /\ Cardinality(Places(Tail(s), src)) \in Nat
  <2>1. \A n \in Places(Tail(s), src) : n \in Nat /\ n >= 1
    BY <1>1 DEF Places
  <2> QED BY <2>1, <1>1, PlacesFinite
<1>4. IsFiniteSet(later) /\ Cardinality(later) = Cardinality(Places(Tail(s), src))
  <2>1. Places(Tail(s), src) \in SUBSET Nat /\ 1 \in Nat
    BY <1>3
  <2> QED BY <1>3, <2>1, Moved
<1>5. 1 \notin later
  BY <1>3
<1>6. Cardinality(later \cup {1}) = Cardinality(later) + 1
  BY <1>4, <1>5, FS_AddElement
<1>7. CASE SourceOf[Head(s).sig] = src
  <2>1. first \cup later = later \cup {1}
    BY <1>7
  <2>2. Cardinality(Places(s, src)) = Cardinality(later) + 1
    BY <1>2, <1>6, <2>1
  <2> HIDE DEF later
  <2> QED BY <1>3, <1>4, <1>7, <2>2
<1>8. CASE SourceOf[Head(s).sig] # src
  <2>1. first \cup later = later
    BY <1>8
  <2>2. Cardinality(Places(s, src)) = Cardinality(later)
    BY <1>2, <2>1
  <2> HIDE DEF later
  <2> QED BY <1>3, <1>4, <1>8, <2>2
<1> QED BY <1>7, <1>8

(* Appending signals that all come from one source.                         *)
AllFrom(got, from) == \A n \in 1..Len(got) : SourceOf[got[n].sig] = from

LEMMA CountAppend ==
  ASSUME NEW s \in Seq(Item), NEW got \in Seq(Item), NEW from, NEW src,
         AllFrom(got, from)
  PROVE  Cardinality(Places(s \o got, src)) =
           Cardinality(Places(s, src)) + (IF from = src THEN Len(got) ELSE 0)
<1> DEFINE added == {n + Len(s) : n \in Places(got, src)}
<1>1. /\ s \o got \in Seq(Item) /\ Len(s \o got) = Len(s) + Len(got)
      /\ Len(s) \in Nat /\ Len(got) \in Nat
      /\ \A n \in 1..Len(s) : (s \o got)[n] = s[n]
      /\ \A n \in 1..Len(got) : (s \o got)[n + Len(s)] = got[n]
  OBVIOUS
<1>2. Places(s \o got, src) = Places(s, src) \cup added
  <2>1. ASSUME NEW n \in Places(s \o got, src)
        PROVE  n \in Places(s, src) \cup added
    <3>1. CASE n <= Len(s)
      BY <1>1, <2>1, <3>1 DEF Places
    <3>2. CASE n > Len(s)
      <4>1. n - Len(s) \in 1..Len(got) /\ n = (n - Len(s)) + Len(s)
        BY <1>1, <2>1, <3>2 DEF Places
      <4>2. n - Len(s) \in Places(got, src)
        BY <1>1, <2>1, <4>1 DEF Places
      <4> QED BY <4>1, <4>2
    <3> QED BY <1>1, <2>1, <3>1, <3>2 DEF Places
  <2>2. ASSUME NEW n \in Places(s, src) PROVE n \in Places(s \o got, src)
    BY <1>1, <2>2 DEF Places
  <2>3. ASSUME NEW n \in Places(got, src) PROVE n + Len(s) \in Places(s \o got, src)
    BY <1>1, <2>3 DEF Places
  <2> QED BY <2>1, <2>2, <2>3
<1>3. /\ IsFiniteSet(Places(s, src)) /\ IsFiniteSet(Places(got, src))
      /\ Cardinality(Places(s, src)) \in Nat
      /\ Cardinality(Places(got, src)) \in Nat
  BY PlacesFinite
<1>4. \A n \in Places(got, src) : n \in Nat /\ n >= 1
  BY <1>1 DEF Places
<1>5. IsFiniteSet(added) /\ Cardinality(added) = Cardinality(Places(got, src))
  <2>1. Places(got, src) \in SUBSET Nat
    BY <1>4
  <2> QED BY <1>1, <1>3, <2>1, Moved
<1>6. Places(s, src) \cap added = {}
  BY <1>1, <1>4 DEF Places
<1>7. Cardinality(Places(s, src) \cup added) =
        Cardinality(Places(s, src)) + Cardinality(added)
  <2>1. Cardinality(Places(s, src) \cap added) = 0
    BY <1>6, FS_EmptySet
  <2> HIDE DEF added
  <2>2. Cardinality(Places(s, src) \cup added) =
          Cardinality(Places(s, src)) + Cardinality(added)
            - Cardinality(Places(s, src) \cap added)
    BY <1>3, <1>5, FS_Union
  <2>3. Cardinality(added) \in Nat
    BY <1>3, <1>5
  <2> QED BY <1>3, <2>1, <2>2, <2>3
<1>8. Cardinality(Places(got, src)) = IF from = src THEN Len(got) ELSE 0
  <2>1. CASE from = src
    <3>1. Places(got, src) = 1..Len(got)
      BY <2>1 DEF Places, AllFrom
    <3>2. Cardinality(1..Len(got)) = Len(got)
      <4>1. PICK m \in Nat : m = Len(got)
        BY <1>1
      <4>2. Cardinality(1..m) = IF 1 > m THEN 0 ELSE m - 1 + 1
        BY FS_Interval
      <4> QED BY <4>1, <4>2
    <3> QED BY <2>1, <3>1, <3>2
  <2>2. CASE from # src
    <3>1. Places(got, src) = {}
      BY <2>2 DEF Places, AllFrom
    <3> QED BY <2>2, <3>1, FS_EmptySet
  <2> QED BY <2>1, <2>2
<1> QED BY <1>2, <1>3, <1>5, <1>7, <1>8

-----------------------------------------------------------------------------
(* The funnel of one run and one source, as arithmetic: c is its tally, p   *)
(* what is pending, called and asked whether the current signal is of this  *)
(* source and the run is in one of the four calls, or awaits its verdict's  *)
(* fate.                                                                    *)
Balanced(c, p, called, asked) ==
  /\ c["stale"] + c["seen"] + c["filtered"] + c["classified"]
       <= c["fetched"] - p + called
  /\ c["fetched"] - p + called
       <= c["stale"] + c["seen"] + c["filtered"] + c["classified"] + c["errors"]
  /\ c["dropped"] + c["delivered"] + c["digest"] + asked <= c["classified"]
  /\ c["classified"]
       <= c["dropped"] + c["delivered"] + c["digest"] + asked + c["errors"]

Funnel(r, src) == Balanced(counts[r][src], Cardinality(Places(todo[r], src)),
                           AtCall(r, src, Calls),
                           AtCall(r, src, {"classify", "deliver"}))

LEMMA FunnelMeaning ==
  /\ FunnelBalanced <=> \A r \in Runs, src \in Sources : Funnel(r, src)
  /\ FunnelBalanced' <=> \A r \in Runs, src \in Sources : Funnel(r, src)'
BY DEF FunnelBalanced, Funnel, Balanced, Pending, Places, Calls

(* Tally e is tally c with d more under the outcomes O, counter by counter: *)
(* the nine terms the arithmetic below needs.                               *)
More(c, e, O, d) ==
  /\ c["fetched"] \in Nat /\ e["fetched"] = c["fetched"] + (IF "fetched" \in O THEN d ELSE 0)
  /\ c["stale"] \in Nat /\ e["stale"] = c["stale"] + (IF "stale" \in O THEN d ELSE 0)
  /\ c["seen"] \in Nat /\ e["seen"] = c["seen"] + (IF "seen" \in O THEN d ELSE 0)
  /\ c["filtered"] \in Nat /\ e["filtered"] = c["filtered"] + (IF "filtered" \in O THEN d ELSE 0)
  /\ c["classified"] \in Nat /\ e["classified"] = c["classified"] + (IF "classified" \in O THEN d ELSE 0)
  /\ c["delivered"] \in Nat /\ e["delivered"] = c["delivered"] + (IF "delivered" \in O THEN d ELSE 0)
  /\ c["digest"] \in Nat /\ e["digest"] = c["digest"] + (IF "digest" \in O THEN d ELSE 0)
  /\ c["dropped"] \in Nat /\ e["dropped"] = c["dropped"] + (IF "dropped" \in O THEN d ELSE 0)
  /\ c["errors"] \in Nat /\ e["errors"] = c["errors"] + (IF "errors" \in O THEN d ELSE 0)

LEMMA Gained ==
  ASSUME NEW c, NEW e, NEW O, NEW d,
         \A o \in Outcomes : c[o] \in Nat /\ e[o] = c[o] + (IF o \in O THEN d ELSE 0)
  PROVE  More(c, e, O, d)
BY DEF Outcomes, More

(* Whether a signal of the source is at a call, at the one or at the other. *)
AtAny(at, d) == IF at \in {"mark", "classify", "deliver", "record"} THEN d ELSE 0
AtAsked(at, d) == IF at \in {"classify", "deliver"} THEN d ELSE 0

(* The counters after a step that finishes a signal at the label "at" ...   *)
EndsAs(at, O) ==
  \/ at = "novelty" /\ O \in {{"stale"}, {"seen"}, {"errors"}}
  \/ at \in {"mark", "record"} /\ O \in {{}, {"errors"}}
  \/ at \in {"classify", "deliver"} /\ O = {"errors"}

LEMMA BalancedDone ==
  ASSUME NEW c, NEW e, NEW O, NEW d \in {0, 1}, NEW p \in Nat, NEW p2 \in Nat,
         p = p2 + d, NEW at, EndsAs(at, O), More(c, e, O, d),
         Balanced(c, p, AtAny(at, d), AtAsked(at, d))
  PROVE  Balanced(e, p2, 0, 0)
<1> USE DEF AtAny, AtAsked, EndsAs
<1>1. CASE at = "novelty" /\ O = {"stale"}
  BY <1>1 DEF More, Balanced
<1>2. CASE at = "novelty" /\ O = {"seen"}
  BY <1>2 DEF More, Balanced
<1>3. CASE at = "novelty" /\ O = {"errors"}
  BY <1>3 DEF More, Balanced
<1>4. CASE at \in {"mark", "record"} /\ O = {}
  BY <1>4 DEF More, Balanced
<1>5. CASE at \in {"mark", "record"} /\ O = {"errors"}
  BY <1>5 DEF More, Balanced
<1>6. CASE at \in {"classify", "deliver"} /\ O = {"errors"}
  BY <1>6 DEF More, Balanced
<1> QED BY <1>1, <1>2, <1>3, <1>4, <1>5, <1>6

(* ... and after one that takes it on to the next call.                     *)
GoesOnAs(at, to, O) ==
  \/ at = "novelty" /\ to = "classify" /\ O = {"classified"}
  \/ at = "novelty" /\ to = "mark" /\ O = {"filtered"}
  \/ at = "classify" /\ to = "mark" /\ O = {"dropped"}
  \/ at = "classify" /\ to = "deliver" /\ O = {}
  \/ at = "classify" /\ to = "record" /\ O = {"digest"}
  \/ at = "deliver" /\ to = "record" /\ O = {"delivered"}

LEMMA BalancedCall ==
  ASSUME NEW c, NEW e, NEW O, NEW d \in {0, 1}, NEW p \in Nat,
         NEW at, NEW to, GoesOnAs(at, to, O), More(c, e, O, d),
         Balanced(c, p, AtAny(at, d), AtAsked(at, d))
  PROVE  Balanced(e, p, AtAny(to, d), AtAsked(to, d))
<1> USE DEF AtAny, AtAsked, GoesOnAs
<1>1. CASE at = "novelty" /\ to = "classify" /\ O = {"classified"}
  BY <1>1 DEF More, Balanced
<1>2. CASE at = "novelty" /\ to = "mark" /\ O = {"filtered"}
  BY <1>2 DEF More, Balanced
<1>3. CASE at = "classify" /\ to = "mark" /\ O = {"dropped"}
  BY <1>3 DEF More, Balanced
<1>4. CASE at = "classify" /\ to = "deliver" /\ O = {}
  BY <1>4 DEF More, Balanced
<1>5. CASE at = "classify" /\ to = "record" /\ O = {"digest"}
  BY <1>5 DEF More, Balanced
<1>6. CASE at = "deliver" /\ to = "record" /\ O = {"delivered"}
  BY <1>6 DEF More, Balanced
<1> QED BY <1>1, <1>2, <1>3, <1>4, <1>5, <1>6

(* A run that a step does not touch keeps its funnel.                       *)
LEMMA SameFunnel ==
  ASSUME NEW r \in Runs, NEW src \in Sources, Funnel(r, src),
         pc'[r] = pc[r], todo'[r] = todo[r], counts'[r] = counts[r]
  PROVE  Funnel(r, src)'
BY DEF Funnel, AtCall, CurrentSource, Current, Places

(* A run between two polls has an empty funnel, before a step and after it. *)
LEMMA EmptyFunnel ==
  ASSUME NEW r \in Runs, NEW src \in Sources, pc[r] = "idle", todo[r] = <<>>,
         counts[r] = NoCounts
  PROVE  Funnel(r, src)
<1>1. Cardinality(Places(<<>>, src)) = 0
  <2>1. Places(<<>>, src) = {}
    BY DEF Places
  <2> QED BY <2>1, FS_EmptySet
<1>2. \A o \in Outcomes : counts[r][src][o] = 0
  BY DEF NoCounts
<1> QED BY <1>1, <1>2 DEF Funnel, Balanced, AtCall, Calls, Outcomes

LEMMA EmptyFunnelNext ==
  ASSUME NEW r \in Runs, NEW src \in Sources, pc'[r] = "idle", todo'[r] = <<>>,
         counts'[r] = NoCounts
  PROVE  Funnel(r, src)'
<1>1. Cardinality(Places(<<>>, src)) = 0
  <2>1. Places(<<>>, src) = {}
    BY DEF Places
  <2> QED BY <2>1, FS_EmptySet
<1>2. \A o \in Outcomes : counts'[r][src][o] = 0
  BY DEF NoCounts
<1>3. Cardinality(Places(todo[r], src))' = 0
  BY <1>1 DEF Places
<1> QED BY <1>2, <1>3 DEF Funnel, Balanced, AtCall, Calls, Outcomes

(* What counting does: the current signal's source gains one under each of  *)
(* the outcomes, nothing else changes.                                      *)
Gains(r, O) ==
  /\ \A q \in Runs : q # r => counts'[q] = counts[q]
  /\ \A src \in Sources, o \in Outcomes :
       counts'[r][src][o] = counts[r][src][o]
         + (IF o \in O /\ CurrentSource(r) = src THEN 1 ELSE 0)

LEMMA CountGain ==
  ASSUME TypeOK, NEW r \in Runs, todo[r] # <<>>, NEW O \in SUBSET Outcomes,
         Count(r, O)
  PROVE  Gains(r, O)
<1>1. CurrentSource(r) \in Sources
  BY CurrentType
<1>2. counts' = [counts EXCEPT ![r][CurrentSource(r)] =
                   [o \in Outcomes |-> @[o] + Ones(O)[o]]]
  BY DEF Count, Tally
<1>3. \A src \in Sources, o \in Outcomes : counts[r][src][o] \in Nat
  BY DEF TypeOK
<1>4. \A o \in Outcomes : Ones(O)[o] = IF o \in O THEN 1 ELSE 0
  BY DEF Ones
<1> HIDE DEF Ones
<1>5. \A q \in Runs : q # r => counts'[q] = counts[q]
  BY <1>1, <1>2 DEF TypeOK
<1>6. \A src \in Sources : src # CurrentSource(r) => counts'[r][src] = counts[r][src]
  BY <1>1, <1>2 DEF TypeOK
<1>7. counts'[r][CurrentSource(r)] =
        [o \in Outcomes |-> counts[r][CurrentSource(r)][o] + Ones(O)[o]]
  BY <1>1, <1>2 DEF TypeOK
<1> QED BY <1>1, <1>3, <1>4, <1>5, <1>6, <1>7 DEF Gains

LEMMA NoGain ==
  ASSUME TypeOK, NEW r \in Runs, UNCHANGED counts
  PROVE  Gains(r, {})
<1>1. \A src \in Sources, o \in Outcomes : counts[r][src][o] \in Nat
  BY DEF TypeOK
<1> QED BY <1>1 DEF Gains

(* The step that finishes a signal.                                         *)
LEMMA DoneFunnel ==
  ASSUME TypeInv, FunnelBalanced, NEW r \in Runs, todo[r] # <<>>, Done(r),
         NEW O \in SUBSET Outcomes, Gains(r, O), EndsAs(pc[r], O)
  PROVE  FunnelBalanced'
<1> SUFFICES ASSUME NEW q \in Runs, NEW src \in Sources PROVE Funnel(q, src)'
  BY FunnelMeaning
<1>1. Funnel(q, src) /\ Funnel(r, src)
  BY FunnelMeaning
<1>2. CASE q # r
  BY <1>1, <1>2, DoneOthers, SameFunnel DEF Gains
<1>3. CASE q = r
  <2>1. PICK d \in {0, 1} : d = IF CurrentSource(r) = src THEN 1 ELSE 0
    OBVIOUS
  <2>2. PICK p \in Nat, p2 \in Nat :
          /\ p = Cardinality(Places(todo[r], src))
          /\ p2 = Cardinality(Places(todo'[r], src))
          /\ p = p2 + d
    <3>1. todo[r] \in Seq(Item) /\ todo'[r] = Tail(todo[r])
          /\ Tail(todo[r]) \in Seq(Item)
      BY CurrentType DEF TypeInv, TypeOK, Done
    <3>2. Cardinality(Places(todo[r], src)) =
            Cardinality(Places(Tail(todo[r]), src))
              + (IF SourceOf[Head(todo[r]).sig] = src THEN 1 ELSE 0)
      BY <3>1, CountTail
    <3>3. d = IF SourceOf[Head(todo[r]).sig] = src THEN 1 ELSE 0
      BY <2>1 DEF CurrentSource, Current
    <3> QED BY <3>1, <3>2, <3>3, PlacesFinite
  <2>3. /\ AtCall(r, src, Calls)' = 0
        /\ AtCall(r, src, {"classify", "deliver"})' = 0
    BY DoneOthers DEF AtCall, Calls
  <2>4. Balanced(counts[r][src], p, AtAny(pc[r], d), AtAsked(pc[r], d))
    BY <1>1, <2>1, <2>2 DEF Funnel, AtCall, AtAny, AtAsked, Calls
  <2>5. More(counts[r][src], counts'[r][src], O, d)
    <3>1. \A o \in Outcomes :
            /\ counts[r][src][o] \in Nat
            /\ counts'[r][src][o] = counts[r][src][o] + (IF o \in O THEN d ELSE 0)
      BY <2>1 DEF Gains, TypeInv, TypeOK
    <3> QED BY <3>1, Gained
  <2>6. Balanced(counts'[r][src], p2, 0, 0)
    BY <2>2, <2>4, <2>5, BalancedDone
  <2>7. Cardinality(Places(todo[r], src))' = p2
    BY <2>2 DEF Places
  <2> QED BY <1>3, <2>3, <2>6, <2>7 DEF Funnel
<1> QED BY <1>2, <1>3

(* The step that takes the current signal on to its next call.              *)
LEMMA CallFunnel ==
  ASSUME TypeInv, FunnelBalanced, NEW r \in Runs, todo[r] # <<>>,
         UNCHANGED todo, NEW to, Call(r, to),
         NEW O \in SUBSET Outcomes, Gains(r, O), GoesOnAs(pc[r], to, O)
  PROVE  FunnelBalanced'
<1> SUFFICES ASSUME NEW q \in Runs, NEW src \in Sources PROVE Funnel(q, src)'
  BY FunnelMeaning
<1>1. Funnel(q, src) /\ Funnel(r, src)
  BY FunnelMeaning
<1>2. CASE q # r
  BY <1>1, <1>2, CallOthers, SameFunnel DEF Gains
<1>3. CASE q = r
  <2>1. PICK d \in {0, 1} : d = IF CurrentSource(r) = src THEN 1 ELSE 0
    OBVIOUS
  <2>2. PICK p \in Nat : p = Cardinality(Places(todo[r], src))
    BY PlacesFinite DEF TypeInv, TypeOK
  <2>3. /\ AtCall(r, src, Calls)' = AtAny(to, d)
        /\ AtCall(r, src, {"classify", "deliver"})' = AtAsked(to, d)
    <3>1. pc'[r] = to
      BY CallOthers
    <3>2. CurrentSource(r)' = CurrentSource(r)
      BY DEF CurrentSource, Current
    <3> QED BY <2>1, <3>1, <3>2 DEF AtCall, AtAny, AtAsked, Calls
  <2>4. Balanced(counts[r][src], p, AtAny(pc[r], d), AtAsked(pc[r], d))
    BY <1>1, <2>1, <2>2 DEF Funnel, AtCall, AtAny, AtAsked, Calls
  <2>5. More(counts[r][src], counts'[r][src], O, d)
    <3>1. \A o \in Outcomes :
            /\ counts[r][src][o] \in Nat
            /\ counts'[r][src][o] = counts[r][src][o] + (IF o \in O THEN d ELSE 0)
      BY <2>1 DEF Gains, TypeInv, TypeOK
    <3> QED BY <3>1, Gained
  <2>6. Balanced(counts'[r][src], p, AtAny(to, d), AtAsked(to, d))
    BY <2>1, <2>2, <2>4, <2>5, BalancedCall
  <2>7. Cardinality(Places(todo[r], src))' = p
    BY <2>2 DEF Places
  <2> QED BY <1>3, <2>3, <2>6, <2>7 DEF Funnel
<1> QED BY <1>2, <1>3

(* The answer of a fetcher: its signals are fetched and pending at once.    *)
LEMMA BalancedFetch ==
  ASSUME NEW c, NEW c2, NEW k \in Nat, NEW e \in Nat, NEW p \in Nat,
         \A o \in Outcomes : c[o] \in Nat,
         \A o \in Outcomes \ {"fetched", "errors"} : c2[o] = c[o],
         c2["fetched"] = c["fetched"] + k, c2["errors"] = c["errors"] + e,
         Balanced(c, p, 0, 0)
  PROVE  Balanced(c2, p + k, 0, 0)
<1>1. /\ c["fetched"] \in Nat /\ c["stale"] \in Nat /\ c["seen"] \in Nat
      /\ c["filtered"] \in Nat /\ c["classified"] \in Nat
      /\ c["delivered"] \in Nat /\ c["digest"] \in Nat
      /\ c["dropped"] \in Nat /\ c["errors"] \in Nat
  BY DEF Outcomes
<1>2. /\ c2["stale"] = c["stale"] /\ c2["seen"] = c["seen"]
      /\ c2["filtered"] = c["filtered"] /\ c2["classified"] = c["classified"]
      /\ c2["delivered"] = c["delivered"] /\ c2["digest"] = c["digest"]
      /\ c2["dropped"] = c["dropped"]
  BY DEF Outcomes
<1> QED BY <1>1, <1>2 DEF Balanced

LEMMA FetchedFunnel ==
  ASSUME TypeInv, FunnelBalanced, NEW r \in Runs, pc[r] = "fetch",
         NEW got \in Seq(Item), NEW e \in Nat, Fetched(r, got, e),
         AllFrom(got, Fetchers[r[2]][next[r]])
  PROVE  FunnelBalanced'
<1> DEFINE from == Fetchers[r[2]][next[r]]
<1> SUFFICES ASSUME NEW q \in Runs, NEW src \in Sources PROVE Funnel(q, src)'
  BY FunnelMeaning
<1>1. Funnel(q, src) /\ Funnel(r, src)
  BY FunnelMeaning
<1>2. from \in Sources
  <2>1. /\ r[2] \in Beacons /\ Fetchers[r[2]] \in Seq(Sources)
        /\ next[r] \in 1..Len(Fetchers[r[2]])
    BY EngineAssumption DEF Runs, TypeInv, TypeOK
  <2> QED BY <2>1
<1>3. /\ pc'[r] \in {"novelty", "fetch"} /\ todo'[r] = todo[r] \o got
      /\ \A s \in Runs : s # r => pc'[s] = pc[s] /\ todo'[s] = todo[s]
  BY DEF Fetched, Call, TypeInv, TypeOK
<1>4. /\ \A s \in Runs : s # r => counts'[s] = counts[s]
      /\ src # from => counts'[r][src] = counts[r][src]
      /\ counts'[r][from] =
           [o \in Outcomes |-> counts[r][from][o]
              + [Ones({}) EXCEPT !["fetched"] = Len(got), !["errors"] = e][o]]
  BY <1>2 DEF Fetched, Tally, TypeInv, TypeOK
<1>5. CASE q # r
  BY <1>1, <1>3, <1>4, <1>5, SameFunnel
<1>6. AllFrom(got, from)
  OBVIOUS
<1> HIDE DEF from
<1>7. CASE q = r
  <2> DEFINE k == IF from = src THEN Len(got) ELSE 0
             f == IF from = src THEN e ELSE 0
  <2>1. k \in Nat /\ f \in Nat
    <3>1. Len(got) \in Nat
      OBVIOUS
    <3> QED BY <3>1
  <2>2. /\ \A o \in Outcomes : counts[r][src][o] \in Nat
        /\ \A o \in Outcomes \ {"fetched", "errors"} :
             counts'[r][src][o] = counts[r][src][o]
        /\ counts'[r][src]["fetched"] = counts[r][src]["fetched"] + k
        /\ counts'[r][src]["errors"] = counts[r][src]["errors"] + f
    <3>1. \A o \in Outcomes : counts[r][src][o] \in Nat
      BY DEF TypeInv, TypeOK
    <3>2. CASE src # from
      <4>1. k = 0 /\ f = 0 /\ counts'[r][src] = counts[r][src]
        BY <1>4, <3>2
      <4>2. "fetched" \in Outcomes /\ "errors" \in Outcomes
        BY DEF Outcomes
      <4> HIDE DEF k, f
      <4> QED BY <3>1, <4>1, <4>2
    <3>3. CASE src = from
      <4> DEFINE gain == [Ones({}) EXCEPT !["fetched"] = Len(got), !["errors"] = e]
      <4>1. /\ gain["fetched"] = Len(got) /\ gain["errors"] = e
            /\ \A o \in Outcomes \ {"fetched", "errors"} : gain[o] = 0
            /\ "fetched" \in Outcomes /\ "errors" \in Outcomes
        BY DEF Ones, Outcomes
      <4> HIDE DEF gain
      <4>2. \A o \in Outcomes : counts'[r][src][o] = counts[r][src][o] + gain[o]
        BY <1>4, <3>3 DEF gain
      <4>3. k = Len(got) /\ f = e
        BY <3>3
      <4> HIDE DEF k, f
      <4> QED BY <3>1, <4>1, <4>2, <4>3
    <3> QED BY <3>1, <3>2, <3>3
  <2>3. PICK p \in Nat :
          /\ p = Cardinality(Places(todo[r], src))
          /\ p + k = Cardinality(Places(todo'[r], src))
    <3>1. todo[r] \in Seq(Item)
      BY DEF TypeInv, TypeOK
    <3>2. Cardinality(Places(todo[r], src)) \in Nat
      BY <3>1, PlacesFinite
    <3>3. Cardinality(Places(todo[r] \o got, src)) =
            Cardinality(Places(todo[r], src)) + k
      BY <1>6, <3>1, CountAppend
    <3> HIDE DEF k
    <3> QED BY <1>3, <2>1, <3>2, <3>3
  <2>4. /\ AtCall(r, src, Calls) = 0
        /\ AtCall(r, src, {"classify", "deliver"}) = 0
        /\ AtCall(r, src, Calls)' = 0
        /\ AtCall(r, src, {"classify", "deliver"})' = 0
    BY <1>3 DEF AtCall, Calls
  <2>5. Balanced(counts[r][src], p, 0, 0)
    BY <1>1, <2>3, <2>4 DEF Funnel
  <2> HIDE DEF k, f
  <2>6. Balanced(counts'[r][src], p + k, 0, 0)
    BY <2>1, <2>2, <2>5, BalancedFetch
  <2>7. Cardinality(Places(todo[r], src))' = p + k
    BY <2>3 DEF Places
  <2> QED BY <1>7, <2>4, <2>6, <2>7 DEF Funnel
<1> QED BY <1>5, <1>7

(* A sequence of all the items of a set whose signals have one source.      *)
LEMMA FromOneSource ==
  ASSUME NEW S \in SUBSET Ids, NEW T, NEW from,
         \A s \in S : SourceOf[s] = from,
         NEW got \in SetToSeqs({[sig |-> s, pre |-> s \in T] : s \in S})
  PROVE  got \in Seq(Item) /\ AllFrom(got, from)
<1> DEFINE items == {[sig |-> s, pre |-> s \in T] : s \in S}
<1>1. \A it \in items : SourceOf[it.sig] = from
  OBVIOUS
<1>2. items \in SUBSET Item
  BY ItemsOf
<1> HIDE DEF items
<1>3. got \in SetToSeqs(items)
  BY DEF items
<1>4. Cardinality(items) \in Nat
  BY <1>2, EngineAssumption, FS_Subset, FS_CardinalityType
<1>5. got \in [1..Cardinality(items) -> items]
  BY <1>3 DEF SetToSeqs
<1>6. got \in Seq(Item) /\ Len(got) = Cardinality(items)
  BY <1>2, <1>4, <1>5
<1> QED BY <1>1, <1>5, <1>6 DEF AllFrom

-----------------------------------------------------------------------------
LEMMA FunnelInit == Init => FunnelBalanced
<1> SUFFICES ASSUME Init PROVE FunnelBalanced
  OBVIOUS
<1>1. \A r \in Runs : pc[r] = "idle" /\ todo[r] = <<>> /\ counts[r] = NoCounts
  BY DEF Init
<1> QED BY <1>1, EmptyFunnel, FunnelMeaning

LEMMA FunnelStep == TypeInv /\ FunnelBalanced /\ [Next]_vars => FunnelBalanced'
<1> SUFFICES ASSUME TypeInv, FunnelBalanced, [Next]_vars PROVE FunnelBalanced'
  OBVIOUS
<1>1. CASE UNCHANGED <<pc, todo, counts>>
  BY <1>1, SameFunnel, FunnelMeaning
<1>2. ASSUME NEW s \in Ids, Publish(s) \/ LeavePage(s) \/ Age(s) PROVE FunnelBalanced'
  BY <1>1, <1>2 DEF Publish, LeavePage, Age, runVars
<1>3. ASSUME NEW r \in Runs, Step(r) PROVE FunnelBalanced'
  <2>1. CASE StartPoll(r)
    <3>1. \A q \in Runs : /\ q # r => pc'[q] = pc[q]
                          /\ todo'[q] = todo[q] /\ counts'[q] = counts[q]
      BY <2>1, CallOthers DEF StartPoll
    <3>2. \A src \in Sources, L \in {Calls, {"classify", "deliver"}} :
            AtCall(r, src, L) = 0 /\ AtCall(r, src, L)' = 0
      BY <2>1, CallOthers DEF StartPoll, AtCall, Calls
    <3>3. ASSUME NEW src \in Sources PROVE Funnel(r, src)'
      BY <2>1, <3>1, <3>2, FunnelMeaning DEF Funnel, Places
    <3>4. ASSUME NEW q \in Runs, q # r, NEW src \in Sources PROVE Funnel(q, src)'
      BY <3>1, <3>4, SameFunnel, FunnelMeaning
    <3> QED BY <3>3, <3>4, FunnelMeaning
  <2>2. CASE Fetch(r)
    <3>1. PICK got \in SetToSeqs({[sig |-> s, pre |-> s \in Tagged[r[2]]] :
                                    s \in Listed(r)}) : Fetched(r, got, 0)
      BY <2>2 DEF Fetch
    <3>2. Listed(r) \in SUBSET Ids
      BY DEF Listed, TypeInv, TypeOK
    <3>3. \A s \in Listed(r) : SourceOf[s] = Fetchers[r[2]][next[r]]
      BY DEF Listed
    <3>4. got \in Seq(Item) /\ AllFrom(got, Fetchers[r[2]][next[r]])
      BY <3>2, <3>3, FromOneSource
    <3>5. pc[r] = "fetch"
      BY <2>2 DEF Fetch
    <3> QED BY <3>1, <3>4, <3>5, FetchedFunnel
  <2>3. CASE FetchFails(r)
    <3>1. PICK part \in SUBSET Listed(r) :
            \E narrowed \in SUBSET (part \cap Tagged[r[2]]) :
              \E got \in SetToSeqs({[sig |-> s, pre |-> s \in narrowed] : s \in part}) :
                Fetched(r, got, 1)
      BY <2>3 DEF FetchFails
    <3>2. PICK narrowed :
            \E got \in SetToSeqs({[sig |-> s, pre |-> s \in narrowed] : s \in part}) :
              Fetched(r, got, 1)
      BY <3>1
    <3>3. PICK got \in SetToSeqs({[sig |-> s, pre |-> s \in narrowed] : s \in part}) :
            Fetched(r, got, 1)
      BY <3>2
    <3>4. part \in SUBSET Ids
      BY DEF Listed, TypeInv, TypeOK
    <3>5. \A s \in part : SourceOf[s] = Fetchers[r[2]][next[r]]
      BY DEF Listed
    <3>6. got \in Seq(Item) /\ AllFrom(got, Fetchers[r[2]][next[r]])
      BY <3>4, <3>5, FromOneSource
    <3>7. pc[r] = "fetch"
      BY <2>3 DEF FetchFails
    <3> QED BY <3>3, <3>6, <3>7, FetchedFunnel
  <2>4. CASE \/ Stale(r) \/ SeenFails(r) \/ AlreadySeen(r)
             \/ ClassifyFails(r) \/ DeliverFails(r)
    <3>1. PICK O \in SUBSET Outcomes :
            todo[r] # <<>> /\ Done(r) /\ Count(r, O) /\ EndsAs(pc[r], O)
      BY <2>4 DEF Stale, SeenFails, AlreadySeen, ClassifyFails, DeliverFails,
                  EndsAs, Outcomes, TypeInv, Busy, Calls
    <3> QED BY <3>1, CountGain, DoneFunnel DEF TypeInv
  <2>5. CASE MarkSeen(r) \/ MarkSeenFails(r) \/ Record(r)
    <3>1. /\ todo[r] # <<>> /\ Done(r) /\ UNCHANGED counts
          /\ EndsAs(pc[r], {})
      BY <2>5 DEF MarkSeen, MarkSeenFails, Record, EndsAs, TypeInv, Busy, Calls
    <3>2. Gains(r, {})
      BY <3>1, NoGain DEF TypeInv
    <3> QED BY <3>1, <3>2, DoneFunnel
  <2>6. CASE RecordFails(r)
    <3>1. /\ todo[r] # <<>> /\ Done(r) /\ Count(r, {"errors"})
          /\ EndsAs(pc[r], {"errors"}) /\ {"errors"} \in SUBSET Outcomes
      BY <2>6 DEF RecordFails, EndsAs, Outcomes, TypeInv, Busy, Calls
    <3> QED BY <3>1, CountGain, DoneFunnel DEF TypeInv
  <2>7. CASE Novel(r) \/ Deliver(r)
    <3>1. PICK O \in SUBSET Outcomes, to \in Labels :
            /\ todo[r] # <<>> /\ UNCHANGED todo /\ Call(r, to)
            /\ Count(r, O) /\ GoesOnAs(pc[r], to, O)
      BY <2>7 DEF Novel, Deliver, GoesOnAs, Outcomes, Labels, TypeInv, Busy, Calls
    <3> QED BY <3>1, CountGain, CallFunnel DEF TypeInv
  <2>8. CASE Classify(r)
    <3>1. todo[r] # <<>> /\ UNCHANGED todo /\ pc[r] = "classify"
      BY <2>8 DEF Classify, TypeInv, Busy, Calls
    <3>2. PICK v : Decide(r, v)
      BY <2>8 DEF Classify
    <3>3. PICK O \in SUBSET Outcomes, to \in Labels :
            Call(r, to) /\ Gains(r, O) /\ GoesOnAs(pc[r], to, O)
      <4>1. CASE Count(r, {"dropped"}) /\ Call(r, "mark")
        BY <3>1, <4>1, CountGain DEF GoesOnAs, Outcomes, Labels, TypeInv
      <4>2. CASE Call(r, "deliver") /\ UNCHANGED counts
        BY <3>1, <4>2, NoGain DEF GoesOnAs, Outcomes, Labels, TypeInv
      <4>3. CASE Count(r, {"digest"}) /\ Call(r, "record")
        BY <3>1, <4>3, CountGain DEF GoesOnAs, Outcomes, Labels, TypeInv
      <4> QED BY <3>2, <4>1, <4>2, <4>3 DEF Decide
    <3> QED BY <3>1, <3>3, CallFunnel
  <2>9. CASE FinishPoll(r)
    <3>1. /\ pc'[r] = "idle" /\ todo'[r] = <<>> /\ counts'[r] = NoCounts
          /\ \A q \in Runs : q # r => /\ pc'[q] = pc[q] /\ todo'[q] = todo[q]
                                      /\ counts'[q] = counts[q]
      BY <2>9, CallOthers DEF FinishPoll, TypeInv, TypeOK
    <3>2. ASSUME NEW src \in Sources PROVE Funnel(r, src)'
      BY <3>1, EmptyFunnelNext
    <3>3. ASSUME NEW q \in Runs, q # r, NEW src \in Sources PROVE Funnel(q, src)'
      BY <3>1, <3>3, SameFunnel, FunnelMeaning
    <3> QED BY <3>2, <3>3, FunnelMeaning
  <2> QED BY <1>3, <2>1, <2>2, <2>3, <2>4, <2>5, <2>6, <2>7, <2>8, <2>9 DEF Step
<1>4. ASSUME NEW i \in Instances, Crash(i) \/ Restart(i) PROVE FunnelBalanced'
  <2>1. \A r \in Runs :
          \/ pc'[r] = "idle" /\ todo'[r] = <<>> /\ counts'[r] = NoCounts
          \/ pc'[r] = pc[r] /\ todo'[r] = todo[r] /\ counts'[r] = counts[r]
    BY <1>4 DEF Crash, Restart, Gone
  <2>2. ASSUME NEW r \in Runs, NEW src \in Sources PROVE Funnel(r, src)'
    BY <2>1, EmptyFunnelNext, SameFunnel, FunnelMeaning
  <2> QED BY <2>2, FunnelMeaning
<1>5. ASSUME NEW src \in Sources, PurgeSource(src) PROVE FunnelBalanced'
  BY <1>1, <1>5 DEF PurgeSource, runVars
<1> QED BY <1>1, <1>2, <1>3, <1>4, <1>5 DEF Next, vars

(* The funnel the engine logs accounts for every fetched signal, whatever   *)
(* fails: none is dropped uncounted between two stages, none counted twice. *)
THEOREM FunnelAddsUp == Spec => []FunnelBalanced
<1>1. Init => TypeInv /\ FunnelBalanced
  BY TypeInit, FunnelInit
<1>2. TypeInv /\ FunnelBalanced /\ [Next]_vars => TypeInv' /\ FunnelBalanced'
  BY TypeStep, FunnelStep
<1> QED BY <1>1, <1>2, PTL DEF Spec
=============================================================================
