--------------------------- MODULE AssemblyProofs ---------------------------
(***************************************************************************)
(* Proofs about Assembly, for every process, every reply of the language   *)
(* model to it and every number of tries and repairs.                      *)
(*                                                                         *)
(* What the passes have in common is that they only append units and       *)
(* streams and rewrite what is there in place: a stream keeps its index,   *)
(* its tag and its recycle flag (Extends), and its ends stay units of the  *)
(* graph (GraphOK).  Each walk over the units is an instance of            *)
(* FoldInduction with this as its invariant (Keeps).                       *)
(***************************************************************************)
EXTENDS Assembly, FiniteSetTheorems, TLAPS

IsSequence(s) == \E S : s \in Seq(S)

(* A stream between units of U and the boundary. *)
Placed(s, U) == IsStream(s) /\ {s.src, s.dst} \subseteq U \cup {None}

GraphOK(g) ==
    /\ g = [units |-> g.units, streams |-> g.streams]
    /\ IsSequence(g.units) /\ IsSequence(g.streams)
    /\ \A i \in DOMAIN g.streams : Placed(g.streams[i], UnitTags(g))

Extends(g, h) ==
    /\ UnitTags(g) \subseteq UnitTags(h)
    /\ DOMAIN g.streams \subseteq DOMAIN h.streams
    /\ \A i \in DOMAIN g.streams :
          /\ h.streams[i].tag = g.streams[i].tag
          /\ g.streams[i].recycle => h.streams[i].recycle

Keeps(g, h) == GraphOK(h) /\ Extends(g, h)

-----------------------------------------------------------------------------
(* The walks, as instances of the induction over a fold.                   *)

FilteredUpTo(ctx, n, kept) ==
    /\ kept \in Seq(ctx.set \cap ToSet(ctx.seq))
    /\ \A i \in 1..n : ctx.seq[i] \in ctx.set => \E k \in DOMAIN kept : kept[k] = ctx.seq[i]
Filtering == INSTANCE FoldInduction WITH
    op <- LAMBDA ctx, kept, x : IF x \in ctx.set THEN Append(kept, x) ELSE kept,
    P <- LAMBDA ctx, n, kept : FilteredUpTo(ctx, n, kept)

Mixing == INSTANCE FoldInduction WITH
    op <- LAMBDA g, h, u : InsertMixer(h, u), P <- LAMBDA g, n, h : Keeps(g, h)
Splitting == INSTANCE FoldInduction WITH
    op <- LAMBDA g, h, u : InsertSplitter(h, u), P <- LAMBDA g, n, h : Keeps(g, h)
Completing == INSTANCE FoldInduction WITH
    op <- LAMBDA g, h, u : CompleteOutlets(h, u), P <- LAMBDA g, n, h : Keeps(g, h)
Vessels == INSTANCE FoldInduction WITH
    op <- LAMBDA g, h, u : RepairVessel(h, u), P <- LAMBDA g, n, h : Keeps(g, h)
Columns == INSTANCE FoldInduction WITH
    op <- LAMBDA g, h, u : RepairColumn(h, u), P <- LAMBDA g, n, h : Keeps(g, h)
Decanters == INSTANCE FoldInduction WITH
    op <- LAMBDA g, h, u : RepairDecanter(h, u), P <- LAMBDA g, n, h : Keeps(g, h)
Adding == INSTANCE FoldInduction WITH
    op <- LAMBDA g, h, u : AddOutlet(h, u), P <- LAMBDA g, n, h : Keeps(g, h)

-----------------------------------------------------------------------------
(* Sequences.                                                              *)

(* A sequence is a function on the indices up to its length. *)
LEMMA SeqFacts ==
    ASSUME NEW s, IsSequence(s)
    PROVE  Len(s) \in Nat /\ DOMAIN s = 1..Len(s) /\ s = [i \in 1..Len(s) |-> s[i]]
           /\ s \in Seq(ToSet(s))
<1>1. PICK S : s \in Seq(S)
  BY DEF IsSequence
<1>2. Len(s) \in Nat /\ DOMAIN s = 1..Len(s) /\ s = [i \in 1..Len(s) |-> s[i]]
  BY <1>1
<1>3. \A i \in 1..Len(s) : s[i] \in ToSet(s)
  BY <1>2, Zenon DEF ToSet
<1>4. s \in Seq(ToSet(s))
  BY <1>2, <1>3
<1> QED
  BY <1>2, <1>4

(* Rewriting every element in place gives a sequence as long. *)
LEMMA SeqMap ==
    ASSUME NEW s, IsSequence(s), NEW t, t = [i \in DOMAIN s |-> t[i]]
    PROVE  IsSequence(t) /\ DOMAIN t = DOMAIN s
<1>1. Len(s) \in Nat /\ DOMAIN s = 1..Len(s)
  BY SeqFacts
<1> DEFINE S == {t[i] : i \in DOMAIN s}
<1>2. DOMAIN t = DOMAIN s
  BY Zenon
<1>3. \A i \in 1..Len(s) : t[i] \in S
  BY <1>1
<1> HIDE DEF S
<1>4. t \in Seq(S)
  BY <1>1, <1>3
<1> QED
  BY <1>2, <1>4 DEF IsSequence

(* Append keeps the elements and adds one. *)
LEMMA SeqAppend ==
    ASSUME NEW s, IsSequence(s), NEW x
    PROVE  /\ IsSequence(Append(s, x))
           /\ DOMAIN Append(s, x) = DOMAIN s \cup {Len(s) + 1}
           /\ \A i \in DOMAIN s : Append(s, x)[i] = s[i]
           /\ Append(s, x)[Len(s) + 1] = x
<1>1. PICK S : s \in Seq(S)
  BY DEF IsSequence
<1>2. s \in Seq(S \cup {x})
  BY <1>1
<1>3. Append(s, x) \in Seq(S \cup {x}) /\ Len(Append(s, x)) = Len(s) + 1 /\ Len(s) \in Nat
  BY <1>2
<1>4. DOMAIN Append(s, x) = 1..(Len(s) + 1) /\ DOMAIN s = 1..Len(s)
  BY <1>2, <1>3
<1>5. DOMAIN Append(s, x) = DOMAIN s \cup {Len(s) + 1}
  BY <1>3, <1>4
<1>6. \A i \in 1..Len(s) : Append(s, x)[i] = s[i]
  BY <1>2
<1>7. Append(s, x)[Len(s) + 1] = x
  BY <1>2
<1> QED
  BY <1>3, <1>4, <1>5, <1>6, <1>7 DEF IsSequence

(* What is filtered out of a sequence is in it and in the set, and all of  *)
(* that is there.                                                          *)
LEMMA WithinIs ==
    ASSUME NEW seq, IsSequence(seq), NEW S
    PROVE  /\ Within(seq, S) \in Seq(S \cap ToSet(seq))
           /\ \A i \in DOMAIN seq : seq[i] \in S =>
                 \E k \in DOMAIN Within(seq, S) : Within(seq, S)[k] = seq[i]
<1> DEFINE ctx == [set |-> S, seq |-> seq]
           n == Len(seq)
<1>1. n \in Nat /\ DOMAIN seq = 1..n
  BY SeqFacts
<1>2. ctx.set = S /\ ctx.seq = seq
  OBVIOUS
<1> HIDE DEF ctx, n
<1>3. FilteredUpTo(ctx, 0, <<>>)
  BY <1>1 DEF FilteredUpTo
<1>4. ASSUME NEW i \in 1..n, NEW kept, FilteredUpTo(ctx, i - 1, kept)
      PROVE  FilteredUpTo(ctx, i, IF seq[i] \in ctx.set THEN Append(kept, seq[i]) ELSE kept)
  <2> DEFINE T == S \cap ToSet(seq)
  <2>1. kept \in Seq(T)
        /\ \A j \in 1..(i - 1) : seq[j] \in S => \E k \in DOMAIN kept : kept[k] = seq[j]
    BY <1>2, <1>4 DEF FilteredUpTo
  <2>2. seq[i] \in ToSet(seq)
    BY <1>1, Zenon DEF ToSet
  <2>3. \A j \in 1..i : j \in 1..(i - 1) \/ j = i
    BY <1>1
  <2>4. CASE seq[i] \notin S
    BY <1>2, <2>1, <2>3, <2>4 DEF FilteredUpTo
  <2>5. CASE seq[i] \in S
    <3>1. seq[i] \in T
      BY <2>2, <2>5
    <3> DEFINE next == Append(kept, seq[i])
    <3> HIDE DEF T
    <3>2. next \in Seq(T) /\ Len(next) = Len(kept) + 1 /\ next[Len(next)] = seq[i]
          /\ \A k \in DOMAIN kept : k \in DOMAIN next /\ next[k] = kept[k]
      BY <2>1, <3>1
    <3>3. Len(next) \in DOMAIN next
      BY <2>1, <3>2
    <3>4. \A j \in 1..i : seq[j] \in S => \E k \in DOMAIN next : next[k] = seq[j]
      BY <2>1, <2>3, <3>2, <3>3
    <3> HIDE DEF next
    <3>5. FilteredUpTo(ctx, i, next)
      BY <1>2, <3>2, <3>4 DEF FilteredUpTo, T
    <3> QED
      BY <1>2, <2>5, <3>5 DEF next
  <2> QED
    BY <2>4, <2>5
<1>5. FilteredUpTo(ctx, n, Filtering!FoldOf(ctx, <<>>, seq))
  BY <1>1, <1>3, <1>4, Filtering!FoldInvariant
<1>6. Within(seq, S) = Filtering!FoldOf(ctx, <<>>, seq)
  <2>1. Within(seq, ctx.set) = Filtering!FoldOf(ctx, <<>>, seq)
    BY Zenon DEF Within, Filtering!FoldOf, Filtering!FoldLeft, Filtering!MapThenFoldSet,
                 Filtering!Max, FoldLeft, MapThenFoldSet, Max
  <2> QED
    BY <1>2, <2>1
<1> DEFINE kept == Within(seq, S)
<1>7. FilteredUpTo(ctx, n, kept)
  BY <1>5, <1>6, Zenon
<1> HIDE DEF kept
<1>8. kept \in Seq(S \cap ToSet(seq))
      /\ \A i \in 1..n : seq[i] \in S => \E k \in DOMAIN kept : kept[k] = seq[i]
  BY <1>2, <1>7 DEF FilteredUpTo
<1> QED
  BY <1>1, <1>8 DEF kept

-----------------------------------------------------------------------------
(* Numbers a pass writes.                                                  *)

(* The least member of a non-empty set of naturals is one. *)
LEMMA MinIn ==
    ASSUME NEW T, T \subseteq Nat, T # {}
    PROVE  Min(T) \in T /\ \A m \in T : Min(T) <= m
<1>1. \E n \in T : \A m \in T : n <= m
  BY Filtering!NatMin
<1> QED
  BY <1>1 DEF Min

(* What SelectInSeq finds is an index, and nothing is index 0. *)
LEMMA FirstIndex ==
    ASSUME NEW seq, Len(seq) \in Nat, NEW I, I \subseteq 1..Len(seq)
    PROVE  (IF I # {} THEN Min(I) ELSE 0) \in Nat
           /\ (I # {} => (IF I # {} THEN Min(I) ELSE 0) - 1 \in Nat)
<1>1. CASE I = {}
  BY <1>1
<1>2. CASE I # {}
  <2>1. I \subseteq Nat
    OBVIOUS
  <2>2. Min(I) \in I
    BY <1>2, <2>1, MinIn
  <2> DEFINE m == Min(I)
  <2>3. m \in 1..Len(seq)
    BY <2>2
  <2> HIDE DEF m
  <2>4. m \in Nat /\ m - 1 \in Nat
    BY <2>3
  <2> QED
    BY <1>2, <2>4 DEF m
<1> QED
  BY <1>1, <1>2

(* There is always a free port. *)
LEMMA FreePortIs ==
    ASSUME NEW used, IsFiniteSet(used)
    PROVE  FreePort(used) \in Nat
<1> DEFINE c == Cardinality(used)
           all == 1..(c + 1)
<1>1. c \in Nat
  BY FS_CardinalityType
<1>2. IsFiniteSet(all) /\ Cardinality(all) = c + 1
  <2> HIDE DEF c
  <2>1. IsFiniteSet(1..(c + 1)) /\ Cardinality(1..(c + 1)) = IF 1 > c + 1 THEN 0 ELSE (c + 1) - 1 + 1
    BY <1>1, FS_Interval
  <2> QED
    BY <1>1, <2>1
<1>3. all \ used # {}
  <2> SUFFICES ASSUME all \subseteq used PROVE FALSE
    OBVIOUS
  <2>1. Cardinality(all) <= c
    BY FS_Subset
  <2> HIDE DEF c
  <2> QED
    BY <1>1, <1>2, <2>1
<1>4. all \ used \subseteq Nat
  <2> HIDE DEF c
  <2> QED
    BY <1>1
<1>5. Min(all \ used) \in Nat
  BY <1>3, <1>4, MinIn
<1> QED
  BY <1>5 DEF FreePort

(* The image of a sequence is finite. *)
LEMMA ImageFinite ==
    ASSUME NEW n \in Nat, NEW f, DOMAIN f = 1..n
    PROVE  IsFiniteSet({f[i] : i \in 1..n})
<1> DEFINE S == {f[i] : i \in 1..n}
           g == [i \in 1..n |-> f[i]]
<1>1. g \in Surjection(1..n, S)
  BY DEF Surjection
<1>2. ExistsSurjection(1..n, S)
  BY <1>1, Zenon DEF ExistsSurjection
<1> QED
  BY <1>2, FS_NatSurjection

-----------------------------------------------------------------------------
(* What a pass keeps.                                                      *)

(* Keeps composes. *)
LEMMA KeepsTrans ==
    ASSUME NEW g, NEW h, NEW k, Keeps(g, h), Keeps(h, k)
    PROVE  Keeps(g, k)
<1>1. GraphOK(k) /\ UnitTags(g) \subseteq UnitTags(k)
      /\ DOMAIN g.streams \subseteq DOMAIN k.streams
  BY DEF Keeps, Extends
<1>2. ASSUME NEW i \in DOMAIN g.streams
      PROVE  k.streams[i].tag = g.streams[i].tag
             /\ (g.streams[i].recycle => k.streams[i].recycle)
  <2>1. i \in DOMAIN h.streams
    BY DEF Keeps, Extends
  <2>2. h.streams[i].tag = g.streams[i].tag /\ (g.streams[i].recycle => h.streams[i].recycle)
    BY DEF Keeps, Extends
  <2>3. k.streams[i].tag = h.streams[i].tag /\ (h.streams[i].recycle => k.streams[i].recycle)
    BY <2>1 DEF Keeps, Extends
  <2> QED
    BY <2>2, <2>3
<1> QED
  BY <1>1, <1>2, Zenon DEF Keeps, Extends

(* A graph keeps itself. *)
LEMMA KeepsRefl ==
    ASSUME NEW g, GraphOK(g)
    PROVE  Keeps(g, g)
BY DEF Keeps, Extends

(* A stream of the graph is sound and lies between its units. *)
LEMMA StreamOf ==
    ASSUME NEW g, GraphOK(g), NEW s \in ToSet(g.streams)
    PROVE  Placed(s, UnitTags(g)) /\ \E i \in DOMAIN g.streams : s = g.streams[i]
BY DEF ToSet, GraphOK

(* Streams rewritten in place. *)
LEMMA InPlace ==
    ASSUME NEW g, GraphOK(g), NEW h, NEW t, h = [units |-> g.units, streams |-> t],
           t = [i \in DOMAIN g.streams |-> t[i]],
           \A i \in DOMAIN g.streams :
              /\ Placed(t[i], UnitTags(g)) /\ t[i].tag = g.streams[i].tag
              /\ g.streams[i].recycle => t[i].recycle
    PROVE  Keeps(g, h)
<1>1. h.units = g.units /\ h.streams = t
  OBVIOUS
<1>2. UnitTags(h) = UnitTags(g)
  BY <1>1, Zenon DEF UnitTags
<1>3. IsSequence(t) /\ DOMAIN t = DOMAIN g.streams
  BY SeqMap DEF GraphOK
<1>4. GraphOK(h)
  BY <1>1, <1>2, <1>3 DEF GraphOK
<1>5. Extends(g, h)
  BY <1>1, <1>2, <1>3 DEF Extends
<1> QED
  BY <1>4, <1>5 DEF Keeps

(* A stream appended. *)
LEMMA OneMore ==
    ASSUME NEW g, GraphOK(g), NEW s, Placed(s, UnitTags(g))
    PROVE  Keeps(g, [g EXCEPT !.streams = Append(@, s)])
<1> DEFINE t == Append(g.streams, s)
           h == [units |-> g.units, streams |-> t]
<1>1. [g EXCEPT !.streams = Append(@, s)] = h
  BY DEF GraphOK
<1>2. IsSequence(t) /\ DOMAIN t = DOMAIN g.streams \cup {Len(g.streams) + 1}
      /\ (\A i \in DOMAIN g.streams : t[i] = g.streams[i]) /\ t[Len(g.streams) + 1] = s
  BY SeqAppend DEF GraphOK
<1>3. h.units = g.units /\ h.streams = t
  OBVIOUS
<1> HIDE DEF t
<1>4. UnitTags(h) = UnitTags(g)
  BY <1>3, Zenon DEF UnitTags
<1>5. GraphOK(h)
  <2>1. \A i \in DOMAIN t : Placed(t[i], UnitTags(g))
    BY <1>2 DEF GraphOK
  <2> HIDE DEF h
  <2> QED
    BY <1>2, <1>3, <1>4, <2>1 DEF GraphOK, h
<1>6. Extends(g, h)
  <2> HIDE DEF h
  <2> QED
    BY <1>2, <1>3, <1>4 DEF Extends
<1> QED
  BY <1>1, <1>5, <1>6 DEF Keeps

(* A unit and a stream appended, the others rewritten in place. *)
LEMMA Inserted ==
    ASSUME NEW g, GraphOK(g), NEW u, NEW t, NEW s,
           t = [i \in DOMAIN g.streams |-> t[i]],
           Placed(s, UnitTags(g) \cup {u.tag}),
           \A i \in DOMAIN g.streams :
              /\ Placed(t[i], UnitTags(g) \cup {u.tag}) /\ t[i].tag = g.streams[i].tag
              /\ g.streams[i].recycle => t[i].recycle
    PROVE  Keeps(g, [units |-> Append(g.units, u), streams |-> Append(t, s)])
<1> DEFINE all == Append(g.units, u)
           us == Append(t, s)
           h == [units |-> all, streams |-> us]
           tags == UnitTags(g) \cup {u.tag}
<1>1. IsSequence(all) /\ DOMAIN all = DOMAIN g.units \cup {Len(g.units) + 1}
      /\ (\A i \in DOMAIN g.units : all[i] = g.units[i]) /\ all[Len(g.units) + 1] = u
  BY SeqAppend DEF GraphOK
<1>2. IsSequence(t) /\ DOMAIN t = DOMAIN g.streams
  BY SeqMap DEF GraphOK
<1>3. IsSequence(us) /\ DOMAIN us = DOMAIN t \cup {Len(t) + 1}
      /\ (\A i \in DOMAIN t : us[i] = t[i]) /\ us[Len(t) + 1] = s
  BY <1>2, SeqAppend
<1> HIDE DEF us, all
<1>4. h.units = all /\ h.streams = us
  OBVIOUS
<1>5. UnitTags(h) = tags
  <2>1. ToSet(all) = ToSet(g.units) \cup {u}
    BY <1>1 DEF ToSet
  <2> QED
    BY <1>4, <2>1, Zenon DEF UnitTags
<1> HIDE DEF tags
<1>6. \A i \in DOMAIN us : Placed(us[i], tags)
  BY <1>2, <1>3 DEF tags
<1>7. GraphOK(h)
  <2>1. h = [units |-> h.units, streams |-> h.streams]
    BY <1>4
  <2> HIDE DEF h
  <2> QED
    BY <1>1, <1>3, <1>4, <1>5, <1>6, <2>1 DEF GraphOK
<1>8. Extends(g, h)
  <2>1. UnitTags(g) \subseteq UnitTags(h)
    BY <1>5 DEF tags
  <2> HIDE DEF h
  <2> QED
    BY <1>2, <1>3, <1>4, <2>1 DEF Extends
<1> QED
  BY <1>7, <1>8 DEF Keeps, h, us, all

-----------------------------------------------------------------------------
(* The passes of normalise, one by one.                                    *)

(* The outlets of a unit are a sequence of its streams. *)
LEMMA OutletsAre ==
    ASSUME NEW g, GraphOK(g), NEW tag
    PROVE  /\ IsSequence(Outlets(g, tag))
           /\ \A i \in DOMAIN Outlets(g, tag) :
                 /\ Outlets(g, tag)[i] \in ToSet(g.streams)
                 /\ IsStream(Outlets(g, tag)[i])
           /\ \A s \in ToSet(g.streams) : s.src = tag =>
                 \E k \in DOMAIN Outlets(g, tag) : Outlets(g, tag)[k] = s
<1> DEFINE S == {s \in ToSet(g.streams) : s.src = tag}
<1> DEFINE outs == Within(g.streams, S)
<1>1. IsSequence(g.streams)
  BY DEF GraphOK
<1>2. outs \in Seq(S \cap ToSet(g.streams))
      /\ \A i \in DOMAIN g.streams : g.streams[i] \in S =>
            \E k \in DOMAIN outs : outs[k] = g.streams[i]
  <2> DEFINE list == g.streams
  <2> HIDE DEF S, list
  <2>1. Within(list, S) \in Seq(S \cap ToSet(list))
    BY <1>1, WithinIs, Zenon DEF list
  <2>2. \A i \in DOMAIN list : list[i] \in S =>
              \E k \in DOMAIN Within(list, S) : Within(list, S)[k] = list[i]
    <3>0. IsSequence(list)
      BY <1>1 DEF list
    <3> SUFFICES ASSUME NEW i \in DOMAIN list, list[i] \in S
                 PROVE  \E k \in DOMAIN Within(list, S) : Within(list, S)[k] = list[i]
      OBVIOUS
    <3> QED
      BY <3>0, WithinIs, Zenon
  <2> QED
    BY <2>1, <2>2, Zenon DEF list
<1>3. Outlets(g, tag) = outs
  BY DEF Outlets
<1> HIDE DEF outs
<1>4. \A i \in DOMAIN outs : outs[i] \in ToSet(g.streams)
  BY <1>2
<1>5. \A i \in DOMAIN outs : IsStream(outs[i])
  BY <1>4, StreamOf DEF Placed
<1>6. \A s \in S : \E k \in DOMAIN outs : outs[k] = s
  BY <1>2 DEF ToSet
<1>7. IsSequence(outs)
  BY <1>2 DEF IsSequence
<1> QED
  BY <1>3, <1>4, <1>5, <1>6, <1>7

(* New ports and phases disturb nothing else. *)
LEMMA RelabelKeeps ==
    ASSUME NEW g, GraphOK(g), NEW ports,
           \A t \in DOMAIN ports : ports[t][1] \in Nat /\ ports[t][2] \in Phases
    PROVE  Keeps(g, Relabel(g, ports))
<1> DEFINE New(s) == IF s.tag \in DOMAIN ports
                       THEN [s EXCEPT !.port = ports[s.tag][1], !.phase = ports[s.tag][2]] ELSE s
           t == [i \in DOMAIN g.streams |-> New(g.streams[i])]
<1>1. Relabel(g, ports) = [units |-> g.units, streams |-> t]
  <2>1. Relabel(g, ports) = [g EXCEPT !.streams = t]
    BY Zenon DEF Relabel
  <2>2. g = [units |-> g.units, streams |-> g.streams]
    BY DEF GraphOK
  <2> HIDE DEF t
  <2> QED
    BY <2>1, <2>2
<1>2. ASSUME NEW i \in DOMAIN g.streams
      PROVE  /\ Placed(t[i], UnitTags(g)) /\ t[i].tag = g.streams[i].tag
             /\ g.streams[i].recycle => t[i].recycle
  <2> DEFINE s == g.streams[i]
  <2>1. Placed(s, UnitTags(g))
    BY DEF GraphOK
  <2>2. t[i] = New(s)
    OBVIOUS
  <2> HIDE DEF t, s
  <2>3. CASE s.tag \notin DOMAIN ports
    BY <2>1, <2>2, <2>3 DEF s
  <2>4. CASE s.tag \in DOMAIN ports
    <3>1. New(s) = [tag |-> s.tag, src |-> s.src, dst |-> s.dst, port |-> ports[s.tag][1],
                    phase |-> ports[s.tag][2], recycle |-> s.recycle, target |-> s.target,
                    words |-> s.words, sound |-> s.sound]
      BY <2>1, <2>4 DEF Placed, IsStream
    <3>2. ports[s.tag][1] \in Nat /\ ports[s.tag][2] \in Phases
      BY <2>4
    <3>3. Placed(New(s), UnitTags(g)) /\ New(s).tag = s.tag /\ New(s).recycle = s.recycle
      <4> HIDE DEF New
      <4> QED
        BY <2>1, <3>1, <3>2 DEF Placed, IsStream
    <3> QED
      BY <2>2, <3>3 DEF s
  <2> QED
    BY <2>3, <2>4
<1>3. t = [i \in DOMAIN g.streams |-> t[i]]
  OBVIOUS
<1> HIDE DEF t
<1> QED
  BY <1>1, <1>2, <1>3, InPlace

(* A stream made by a pass is one. *)
LEMMA StreamPlaced ==
    ASSUME NEW tag, NEW U, NEW src \in U \cup {None}, NEW dst \in U \cup {None},
           NEW port \in Nat, NEW phase \in Phases, NEW words
    PROVE  Placed(Stream(tag, src, dst, port, phase, words), U)
BY DEF Placed, IsStream, Stream

(* A new product of a unit. *)
LEMMA ProductKeeps ==
    ASSUME NEW g, GraphOK(g), NEW u, u.tag \in UnitTags(g), NEW suffix,
           NEW port \in Nat, NEW phase \in Phases, NEW words
    PROVE  Keeps(g, Product(g, u, suffix, port, phase, words))
<1> DEFINE s == Stream(UniqueTag(g, u.tag \o suffix), u.tag, None, port, phase, words)
<1>1. Placed(s, UnitTags(g))
  BY StreamPlaced
<1> HIDE DEF s
<1>2. Keeps(g, [g EXCEPT !.streams = Append(@, s)])
  BY <1>1, OneMore
<1> QED
  BY <1>2 DEF Product, s

(* _insert_mixers at one unit. *)
LEMMA MixerKeeps ==
    ASSUME NEW g, GraphOK(g), NEW u, u.tag \in UnitTags(g)
    PROVE  Keeps(g, InsertMixer(g, u))
<1> DEFINE mixer == "MIX-" \o u.tag
           inlets == Inlets(g, u.tag) \cup {s \in Recycles(g) : s.target = u.tag /\ s.dst = None}
           t == [i \in DOMAIN g.streams |->
                    IF g.streams[i] \in inlets THEN [g.streams[i] EXCEPT !.dst = mixer]
                    ELSE g.streams[i]]
           unit == [tag |-> mixer, type |-> "Mixer"]
           out == Stream("S-" \o mixer \o "-OUT", mixer, u.tag, 0, "mixed", {})
<1>1. InsertMixer(g, u) = g
      \/ InsertMixer(g, u) = [units |-> Append(g.units, unit), streams |-> Append(t, out)]
  BY Zenon DEF InsertMixer
<1>2. unit.tag = mixer
  OBVIOUS
<1>3. Placed(out, UnitTags(g) \cup {mixer})
  <2> HIDE DEF mixer
  <2>1. 0 \in Nat /\ "mixed" \in Phases
    BY DEF Phases
  <2> QED
    BY <2>1, StreamPlaced
<1>4. ASSUME NEW i \in DOMAIN g.streams
      PROVE  /\ Placed(t[i], UnitTags(g) \cup {mixer}) /\ t[i].tag = g.streams[i].tag
             /\ g.streams[i].recycle => t[i].recycle
  <2> HIDE DEF mixer, inlets
  <2> DEFINE s == g.streams[i]
             new == [s EXCEPT !.dst = mixer]
  <2>1. Placed(s, UnitTags(g))
    BY DEF GraphOK
  <2>2. t[i] = s \/ t[i] = new
    OBVIOUS
  <2> HIDE DEF t, s
  <2>3. new = [tag |-> s.tag, src |-> s.src, dst |-> mixer, port |-> s.port,
               phase |-> s.phase, recycle |-> s.recycle, target |-> s.target,
               words |-> s.words, sound |-> s.sound]
    BY <2>1 DEF Placed, IsStream
  <2> HIDE DEF new
  <2>4. Placed(new, UnitTags(g) \cup {mixer}) /\ new.tag = s.tag /\ new.recycle = s.recycle
    BY <2>1, <2>3 DEF Placed, IsStream
  <2> QED
    BY <2>1, <2>2, <2>4 DEF s, Placed
<1>5. t = [i \in DOMAIN g.streams |-> t[i]]
  OBVIOUS
<1> HIDE DEF t, out, unit, mixer
<1>6. Keeps(g, [units |-> Append(g.units, unit), streams |-> Append(t, out)])
  BY <1>2, <1>3, <1>4, <1>5, Inserted
<1> QED
  BY <1>1, <1>6, KeepsRefl

(* _insert_splitters at one unit. *)
LEMMA SplitterKeeps ==
    ASSUME NEW g, GraphOK(g), NEW u, u.tag \in UnitTags(g)
    PROVE  Keeps(g, InsertSplitter(g, u))
<1> DEFINE splitter == "SPL-" \o u.tag
           products == Products(g, u.tag)
           Port(s) == SelectInSeq(products, LAMBDA p : p = s) - 1
           Moved(s) == [s EXCEPT !.src = splitter, !.port = Port(s)]
           t == [i \in DOMAIN g.streams |->
                    IF Contains(products, g.streams[i]) THEN Moved(g.streams[i])
                    ELSE g.streams[i]]
           unit == [tag |-> splitter, type |-> "Splitter"]
           out == Stream("S-" \o u.tag \o "-SPL", u.tag, splitter, 0, "mixed", {})
<1>1. InsertSplitter(g, u) = g
      \/ InsertSplitter(g, u) = [units |-> Append(g.units, unit), streams |-> Append(t, out)]
  BY Zenon DEF InsertSplitter
<1>2. unit.tag = splitter
  OBVIOUS
<1>3. Placed(out, UnitTags(g) \cup {splitter})
  <2> HIDE DEF splitter
  <2>1. 0 \in Nat /\ "mixed" \in Phases
    BY DEF Phases
  <2> QED
    BY <2>1, StreamPlaced
<1>4. Len(products) \in Nat
  <2> DEFINE S == {s \in ToSet(g.streams) : s.src = u.tag /\ ~s.recycle}
  <2>1. products = Within(g.streams, S)
    BY Zenon DEF Products
  <2> HIDE DEF S, products
  <2>2. IsSequence(products)
    BY <2>1, WithinIs DEF IsSequence, GraphOK
  <2> QED
    BY <2>2, SeqFacts
<1>5. ASSUME NEW s, Contains(products, s)
      PROVE  Port(s) \in Nat
  <2> HIDE DEF products
  <2> DEFINE I == {i \in 1..Len(products) : products[i] = s}
  <2>1. I # {}
    BY <1>5 DEF Contains
  <2>2. SelectInSeq(products, LAMBDA p : p = s) = IF I # {} THEN Min(I) ELSE 0
    BY Zenon DEF SelectInSeq
  <2>3. (IF I # {} THEN Min(I) ELSE 0) - 1 \in Nat
    BY <1>4, <2>1, FirstIndex
  <2> QED
    BY <2>2, <2>3
<1>6. ASSUME NEW i \in DOMAIN g.streams
      PROVE  /\ Placed(t[i], UnitTags(g) \cup {splitter}) /\ t[i].tag = g.streams[i].tag
             /\ g.streams[i].recycle => t[i].recycle
  <2> DEFINE s == g.streams[i]
             new == Moved(s)
             port == Port(s)
  <2>1. Placed(s, UnitTags(g))
    BY DEF GraphOK
  <2>2. t[i] = s \/ (Contains(products, s) /\ t[i] = new)
    BY Zenon
  <2>3. CASE Contains(products, s) /\ t[i] = new
    <3>1. port \in Nat
      <4> HIDE DEF products, Port
      <4> QED
        BY <1>5, <2>3, Zenon
    <3> HIDE DEF splitter, port, Port, products
    <3>2. new = [tag |-> s.tag, src |-> splitter, dst |-> s.dst, port |-> port,
                 phase |-> s.phase, recycle |-> s.recycle, target |-> s.target,
                 words |-> s.words, sound |-> s.sound]
      <4>1. new = [s EXCEPT !.src = splitter, !.port = port]
        BY DEF port
      <4> HIDE DEF new, s
      <4> QED
        BY <2>1, <4>1 DEF Placed, IsStream
    <3> HIDE DEF new, s
    <3>3. Placed(new, UnitTags(g) \cup {splitter}) /\ new.tag = s.tag /\ new.recycle = s.recycle
      BY <2>1, <3>1, <3>2 DEF Placed, IsStream
    <3> HIDE DEF t
    <3> QED
      BY <2>3, <3>3 DEF s
  <2>4. CASE t[i] = s
    <3> HIDE DEF t
    <3> QED
      BY <2>1, <2>4 DEF Placed
  <2> QED
    BY <2>2, <2>3, <2>4
<1>7. t = [i \in DOMAIN g.streams |-> t[i]]
  BY Zenon
<1> HIDE DEF t, out, unit, splitter
<1>8. Keeps(g, [units |-> Append(g.units, unit), streams |-> Append(t, out)])
  BY <1>2, <1>3, <1>6, <1>7, Inserted
<1> QED
  BY <1>1, <1>8, KeepsRefl

(* A product after which another follows. *)
LEMMA TwoProducts ==
    ASSUME NEW g, NEW h, Keeps(g, h), NEW u, u.tag \in UnitTags(g), NEW suffix,
           NEW port \in Nat, NEW phase \in Phases, NEW words
    PROVE  Keeps(g, Product(h, u, suffix, port, phase, words))
<1>1. GraphOK(h) /\ u.tag \in UnitTags(h)
  BY DEF Keeps, Extends
<1>2. Keeps(h, Product(h, u, suffix, port, phase, words))
  BY <1>1, ProductKeeps
<1> QED
  BY <1>2, KeepsTrans

(* _complete_separator_outlets at one unit. *)
LEMMA OutletsKeep ==
    ASSUME NEW g, GraphOK(g), NEW u, u.tag \in UnitTags(g)
    PROVE  Keeps(g, CompleteOutlets(g, u))
<1> DEFINE outs == Outlets(g, u.tag)
           used == {s.port : s \in ToSet(outs)}
           free == FreePort(used)
           next == FreePort(used \cup {free})
           low == IF outs[1].port = 0 THEN 1 ELSE 0
           dist == Product(g, u, "-DIST", low, "mixed", {"top"})
           bottom == Product(g, u, "-BOT", low, "mixed", {"bot"})
           one == Product(g, u, "-L2", free, "liquid", {})
           two == Product(Product(g, u, "-L1", free, "liquid", {}), u, "-L2", next, "liquid", {})
<1>1. CompleteOutlets(g, u) \in {dist, bottom, one, two, g}
  <2> DEFINE liquids == {i \in DOMAIN outs : ~Named(outs[i], {"gas"})}
             label == IF Named(outs[1], {"bot"}) THEN <<"-DIST", {"top"}>> ELSE <<"-BOT", {"bot"}>>
             column == Product(g, u, label[1], low, "mixed", label[2])
  <2>1. CompleteOutlets(g, u) =
           CASE u.type = "Column" /\ Len(outs) = 1 -> column
             [] u.type = "Decanter" /\ Len(outs) > 0 /\ Cardinality(liquids) = 1 -> one
             [] u.type = "Decanter" /\ Len(outs) > 0 /\ liquids = {} -> two
             [] OTHER -> g
    BY Zenon DEF CompleteOutlets
  <2>2. column = dist \/ column = bottom
    <3>1. CASE Named(outs[1], {"bot"})
      <4>1. label[1] = "-DIST" /\ label[2] = {"top"}
        BY <3>1
      <4> QED
        BY <4>1, Zenon
    <3>2. CASE ~Named(outs[1], {"bot"})
      <4>1. label[1] = "-BOT" /\ label[2] = {"bot"}
        BY <3>2
      <4> QED
        BY <4>1, Zenon
    <3> QED
      BY <3>1, <3>2
  <2>3. CASE u.type = "Column" /\ Len(outs) = 1
    <3>1. CompleteOutlets(g, u) = column
      <4> HIDE DEF column, one, two, liquids, outs
      <4> QED
        BY <2>1, <2>3
    <3> QED
      BY <2>2, <3>1, Zenon
  <2>4. CASE ~(u.type = "Column" /\ Len(outs) = 1)
    <3> HIDE DEF column, one, two, liquids, outs
    <3> QED
      BY <2>1, <2>4
  <2> QED
    BY <2>3, <2>4
<1>2. IsFiniteSet(used)
  <2>1. IsSequence(outs)
    BY OutletsAre
  <2> HIDE DEF outs
  <2>2. Len(outs) \in Nat /\ DOMAIN outs = 1..Len(outs)
    BY <2>1, SeqFacts
  <2> DEFINE f == [i \in 1..Len(outs) |-> outs[i].port]
  <2>3. used = {f[i] : i \in 1..Len(outs)}
    BY <2>2 DEF ToSet
  <2>4. DOMAIN f = 1..Len(outs)
    OBVIOUS
  <2> HIDE DEF f
  <2> QED
    BY <2>2, <2>3, <2>4, ImageFinite
<1>3. free \in Nat /\ next \in Nat /\ low \in Nat
  <2> HIDE DEF used
  <2>1. free \in Nat
    BY <1>2, FreePortIs
  <2>2. IsFiniteSet(used \cup {free})
    BY <1>2, FS_AddElement
  <2> QED
    BY <2>1, <2>2, FreePortIs
<1>4. "mixed" \in Phases /\ "liquid" \in Phases
  BY DEF Phases
<1> HIDE DEF outs, used, free, next, low
<1>5. Keeps(g, dist) /\ Keeps(g, bottom) /\ Keeps(g, one)
      /\ Keeps(g, Product(g, u, "-L1", free, "liquid", {}))
  BY <1>3, <1>4, ProductKeeps, Zenon
<1>6. Keeps(g, two)
  BY <1>3, <1>4, <1>5, TwoProducts, Zenon
<1>7. Keeps(g, g)
  BY KeepsRefl
<1> HIDE DEF dist, bottom, one, two
<1> QED
  BY <1>1, <1>5, <1>6, <1>7

(* _repair_vessel_ports at one unit. *)
LEMMA VesselKeeps ==
    ASSUME NEW g, GraphOK(g), NEW u
    PROVE  Keeps(g, RepairVessel(g, u))
<1> DEFINE outs == ToSet(Outlets(g, u.tag))
           At(p) == CHOOSE s \in outs : s.port = p
           ports == Swapped(At(0), At(1))
<1>1. RepairVessel(g, u) = g \/ RepairVessel(g, u) = Relabel(g, ports)
  BY Zenon DEF RepairVessel
<1>2. \A t \in DOMAIN ports : ports[t][1] \in Nat /\ ports[t][2] \in Phases
  <2> HIDE DEF At
  <2> QED
    BY DEF Swapped, Phases
<1> HIDE DEF ports
<1>3. Keeps(g, Relabel(g, ports))
  BY <1>2, RelabelKeeps
<1> QED
  BY <1>1, <1>3, KeepsRefl

(* _repair_column_ports at one unit. *)
LEMMA ColumnKeeps ==
    ASSUME NEW g, GraphOK(g), NEW u
    PROVE  Keeps(g, RepairColumn(g, u))
<1> DEFINE outs == Outlets(g, u.tag)
           Tells(words) == Named(outs[1], words) # Named(outs[2], words)
           bottoms == CASE Tells({"bot"}) -> IF Named(outs[1], {"bot"}) THEN 1 ELSE 2
                        [] ~Tells({"bot"}) /\ Tells({"top"}) -> IF Named(outs[1], {"top"}) THEN 2 ELSE 1
                        [] OTHER -> 0
           ports == [t \in {outs[1].tag, outs[2].tag} |->
                        IF t = outs[bottoms].tag THEN <<1, "liquid">>
                        ELSE <<0, outs[3 - bottoms].phase>>]
<1>1. RepairColumn(g, u) = g \/ (Len(outs) = 2 /\ bottoms # 0 /\ RepairColumn(g, u) = Relabel(g, ports))
  BY Zenon DEF RepairColumn
<1>2. ASSUME Len(outs) = 2, bottoms # 0
      PROVE  \A t \in DOMAIN ports : ports[t][1] \in Nat /\ ports[t][2] \in Phases
  <2>1. bottoms \in {0, 1, 2}
    <3> HIDE DEF outs
    <3> DEFINE A == Tells({"bot"})
               B == ~Tells({"bot"}) /\ Tells({"top"})
    <3>1. CASE A
      BY <3>1
    <3>2. CASE B
      BY <3>2
    <3>3. CASE ~A /\ ~B
      BY <3>3
    <3> QED
      BY <3>1, <3>2, <3>3
  <2>2. bottoms \in {1, 2}
    BY <1>2, <2>1
  <2>3. DOMAIN outs = 1..2
    BY <1>2, OutletsAre, SeqFacts
  <2> HIDE DEF bottoms
  <2>4. 3 - bottoms \in DOMAIN outs
    BY <2>2, <2>3
  <2>5. outs[3 - bottoms].phase \in Phases
    BY <2>4, OutletsAre DEF IsStream
  <2>6. "liquid" \in Phases
    BY DEF Phases
  <2> HIDE DEF outs
  <2> QED
    BY <2>5, <2>6
<1> HIDE DEF ports, bottoms
<1>3. ASSUME Len(outs) = 2, bottoms # 0 PROVE Keeps(g, Relabel(g, ports))
  BY <1>2, <1>3, RelabelKeeps
<1> QED
  BY <1>1, <1>3, KeepsRefl

(* _repair_decanter_ports at one unit. *)
LEMMA DecanterKeeps ==
    ASSUME NEW g, GraphOK(g), NEW u
    PROVE  Keeps(g, RepairDecanter(g, u))
<1> DEFINE outs == Outlets(g, u.tag)
           IsVapour(s) == Named(s, {"gas"}) /\ ~Named(s, LiquidWords)
           vapours == {s \in ToSet(outs) : IsVapour(s)}
           liquids == Within(outs, ToSet(outs) \ vapours)
           first == {liquids[i].tag : i \in DOMAIN liquids \cap {1, 2}}
           last == IF vapours = {} THEN {}
                   ELSE {outs[Max({i \in DOMAIN outs : outs[i] \in vapours})].tag}
           Port(t) == SelectInSeq(liquids, LAMBDA s : s.tag = t)
           ports == [t \in first \cup last |->
                        IF t \in first THEN <<Port(t), "liquid">> ELSE <<0, "vapour">>]
<1>1. RepairDecanter(g, u) = g \/ RepairDecanter(g, u) = Relabel(g, ports)
  BY Zenon DEF RepairDecanter
<1>2. ASSUME NEW t PROVE Port(t) \in Nat
  <2>1. IsSequence(outs)
    BY OutletsAre
  <2>2. IsSequence(liquids)
    BY <2>1, WithinIs DEF IsSequence
  <2>3. Len(liquids) \in Nat
    BY <2>2, SeqFacts
  <2> HIDE DEF liquids
  <2> DEFINE I == {i \in 1..Len(liquids) : liquids[i].tag = t}
  <2>4. Port(t) = IF I # {} THEN Min(I) ELSE 0
    BY Zenon DEF SelectInSeq
  <2>5. (IF I # {} THEN Min(I) ELSE 0) \in Nat
    BY <2>3, FirstIndex
  <2> QED
    BY <2>4, <2>5
<1>3. \A t \in DOMAIN ports : ports[t][1] \in Nat /\ ports[t][2] \in Phases
  <2> HIDE DEF Port, first, last
  <2> QED
    BY <1>2 DEF Phases
<1> HIDE DEF ports
<1>4. Keeps(g, Relabel(g, ports))
  BY <1>3, RelabelKeeps
<1> QED
  BY <1>1, <1>4, KeepsRefl

(* The deterministic repair's missing outlet at one unit. *)
LEMMA AddOutletKeeps ==
    ASSUME NEW g, GraphOK(g), NEW u, u.tag \in UnitTags(g)
    PROVE  Keeps(g, AddOutlet(g, u))
<1>1. \/ AddOutlet(g, u) = g
      \/ AddOutlet(g, u) = Product(g, u, "_LIQUIDOUT", 1, "liquid", {"liq"})
      \/ AddOutlet(g, u) = Product(g, u, "_VAPOUROUT", 0, "vapour", {"gas"})
  BY Zenon DEF AddOutlet
<1>2. "vapour" \in Phases /\ "liquid" \in Phases /\ 0 \in Nat /\ 1 \in Nat
  BY DEF Phases
<1>3. /\ Keeps(g, Product(g, u, "_LIQUIDOUT", 1, "liquid", {"liq"}))
      /\ Keeps(g, Product(g, u, "_VAPOUROUT", 0, "vapour", {"gas"}))
  BY <1>2, ProductKeeps, Zenon
<1> QED
  BY <1>1, <1>3, KeepsRefl, Zenon

-----------------------------------------------------------------------------
(* The passes over all streams.                                            *)

(* What a pass over the streams must do at one stream. *)
Kept(g, s, new) ==
    /\ Placed(new, UnitTags(g)) /\ new.tag = s.tag
    /\ s.recycle => new.recycle

(* A pass over the streams keeps the graph if it keeps every stream. *)
LEMMA StreamsKept ==
    ASSUME NEW g, GraphOK(g), NEW t, t = [i \in DOMAIN g.streams |-> t[i]],
           \A i \in DOMAIN g.streams : Kept(g, g.streams[i], t[i])
    PROVE  Keeps(g, [g EXCEPT !.streams = t])
<1>1. [g EXCEPT !.streams = t] = [units |-> g.units, streams |-> t]
  <2>1. g = [units |-> g.units, streams |-> g.streams]
    BY DEF GraphOK
  <2> QED
    BY <2>1
<1>2. \A i \in DOMAIN g.streams :
         /\ Placed(t[i], UnitTags(g)) /\ t[i].tag = g.streams[i].tag
         /\ g.streams[i].recycle => t[i].recycle
  BY Zenon DEF Kept
<1> QED
  BY <1>1, <1>2, InPlace

(* A new port, a new phase, and a recycle flag set, keep a stream. *)
LEMMA PortKept ==
    ASSUME NEW g, NEW s, Placed(s, UnitTags(g)), NEW port \in Nat
    PROVE  Kept(g, s, [s EXCEPT !.port = port])
<1> DEFINE new == [s EXCEPT !.port = port]
<1>1. new = [tag |-> s.tag, src |-> s.src, dst |-> s.dst, port |-> port,
             phase |-> s.phase, recycle |-> s.recycle, target |-> s.target,
             words |-> s.words, sound |-> s.sound]
  BY DEF Placed, IsStream
<1> HIDE DEF new
<1>2. Kept(g, s, new)
  BY <1>1 DEF Placed, IsStream, Kept
<1> QED
  BY <1>2 DEF new

(* See PortKept. *)
LEMMA PhaseKept ==
    ASSUME NEW g, NEW s, Placed(s, UnitTags(g)), NEW phase \in Phases
    PROVE  Kept(g, s, [s EXCEPT !.phase = phase])
<1> DEFINE new == [s EXCEPT !.phase = phase]
<1>1. new = [tag |-> s.tag, src |-> s.src, dst |-> s.dst, port |-> s.port,
             phase |-> phase, recycle |-> s.recycle, target |-> s.target,
             words |-> s.words, sound |-> s.sound]
  BY DEF Placed, IsStream
<1> HIDE DEF new
<1>2. Kept(g, s, new)
  BY <1>1 DEF Placed, IsStream, Kept
<1> QED
  BY <1>2 DEF new

(* See PortKept. *)
LEMMA FlagKept ==
    ASSUME NEW g, NEW s, Placed(s, UnitTags(g)), NEW target
    PROVE  Kept(g, s, [s EXCEPT !.recycle = TRUE, !.target = target])
<1> DEFINE new == [s EXCEPT !.recycle = TRUE, !.target = target]
<1>1. new = [tag |-> s.tag, src |-> s.src, dst |-> s.dst, port |-> s.port,
             phase |-> s.phase, recycle |-> TRUE, target |-> target,
             words |-> s.words, sound |-> s.sound]
  <2>1. s = [tag |-> s.tag, src |-> s.src, dst |-> s.dst, port |-> s.port,
             phase |-> s.phase, recycle |-> s.recycle, target |-> s.target,
             words |-> s.words, sound |-> s.sound]
    BY DEF Placed, IsStream
  <2> DEFINE yes == TRUE
             flagged == [s EXCEPT !.recycle = yes]
             result == [tag |-> s.tag, src |-> s.src, dst |-> s.dst, port |-> s.port,
                        phase |-> s.phase, recycle |-> yes, target |-> target,
                        words |-> s.words, sound |-> s.sound]
  <2> HIDE DEF yes
  <2>2. flagged = [tag |-> s.tag, src |-> s.src, dst |-> s.dst, port |-> s.port,
                   phase |-> s.phase, recycle |-> yes, target |-> s.target,
                   words |-> s.words, sound |-> s.sound]
    BY <2>1
  <2>3. new = [flagged EXCEPT !.target = target]
    BY Zenon DEF yes
  <2>4. [flagged EXCEPT !.target = target] = result
    <3> HIDE DEF flagged
    <3> QED
      BY <2>2
  <2> QED
    BY <2>3, <2>4, Zenon DEF yes
<1> HIDE DEF new
<1>2. Kept(g, s, new)
  BY <1>1 DEF Placed, IsStream, Kept
<1> QED
  BY <1>2 DEF new

(* A stream left as it is is kept. *)
LEMMA SameKept ==
    ASSUME NEW g, NEW s, Placed(s, UnitTags(g))
    PROVE  Kept(g, s, s)
BY DEF Kept

(* The phase of an outlet port is a phase or unknown. *)
LEMMA OutletPhaseIs ==
    ASSUME NEW g, NEW s, OutletPhase(g, s) # "any"
    PROVE  OutletPhase(g, s) \in Phases
<1> DEFINE type == TypeOf(g, s.src)
           phases == OutletPhases(type)
<1>1. OutletPhase(g, s) = phases[s.port] /\ s.port \in DOMAIN phases
  BY Zenon DEF OutletPhase
<1> HIDE DEF type
<1>2. \A p \in DOMAIN phases : phases[p] \in {"vapour", "liquid", "any"}
  <2>1. CASE type = "Vessel"
    BY <2>1 DEF OutletPhases
  <2>2. CASE type = "Decanter"
    BY <2>2 DEF OutletPhases
  <2>3. CASE type \in {"Column", "Splitter"}
    BY <2>3 DEF OutletPhases
  <2>4. CASE type \in {"Compressor", "Expander"}
    BY <2>4 DEF OutletPhases
  <2>5. CASE type = "Pump"
    BY <2>5 DEF OutletPhases
  <2>6. CASE type \notin {"Vessel", "Decanter", "Column", "Splitter", "Compressor", "Expander", "Pump"}
    BY <2>6 DEF OutletPhases
  <2> QED
    BY <2>1, <2>2, <2>3, <2>4, <2>5, <2>6
<1> HIDE DEF phases
<1>3. OutletPhase(g, s) \in {"vapour", "liquid", "any"}
  BY <1>1, <1>2
<1> QED
  BY <1>3 DEF Phases

(* _propagate_phases. *)
LEMMA PropagateKeeps ==
    ASSUME NEW g, GraphOK(g)
    PROVE  Keeps(g, PropagatePhases(g))
<1> DEFINE t == [i \in DOMAIN g.streams |-> Phased(g, g.streams[i])]
<1>1. ASSUME NEW i \in DOMAIN g.streams PROVE Kept(g, g.streams[i], t[i])
  <2> DEFINE s == g.streams[i]
             phase == OutletPhase(g, s)
  <2>1. Placed(s, UnitTags(g))
    BY DEF GraphOK
  <2>2. t[i] = s \/ (phase # "any" /\ t[i] = [s EXCEPT !.phase = phase])
    <3>1. t[i] = Phased(g, s)
      BY Zenon
    <3>2. Phased(g, s) = s \/ (phase # "any" /\ Phased(g, s) = [s EXCEPT !.phase = phase])
      BY Zenon DEF Phased
    <3> QED
      BY <3>1, <3>2, Zenon
  <2>3. phase # "any" => phase \in Phases
    BY OutletPhaseIs
  <2>4. phase \in Phases => Kept(g, s, [s EXCEPT !.phase = phase])
    <3> HIDE DEF phase, s
    <3> QED
      BY <2>1, PhaseKept, Zenon
  <2>5. Kept(g, s, s)
    <3> HIDE DEF s
    <3> QED
      BY <2>1, SameKept, Zenon
  <2> QED
    BY <2>2, <2>3, <2>4, <2>5, Zenon
<1>2. t = [i \in DOMAIN g.streams |-> t[i]]
  BY Zenon
<1>3. PropagatePhases(g) = [g EXCEPT !.streams = t]
  BY Zenon DEF PropagatePhases
<1> HIDE DEF t
<1> QED
  BY <1>1, <1>2, <1>3, StreamsKept

(* PORT_REPAIR gives every outlet a port. *)
LEMMA FixedPortIs ==
    ASSUME NEW g, GraphOK(g), NEW s, s \in ToSet(g.streams)
    PROVE  FixedPort(g, s) \in Nat
<1> DEFINE outs == Outlets(g, s.src)
           rest == {x \in ToSet(outs) : x.phase \notin {"vapour", "liquid"}}
           unphased == Within(outs, rest)
           Find == SelectInSeq(unphased, LAMBDA x : x = s)
           high == s.port >= MaxOutlets(TypeOf(g, s.src))
           vessel == TypeOf(g, s.src) = "Vessel"
<1>1. FixedPort(g, s) =
         IF ~vessel THEN IF high THEN 0 ELSE s.port
         ELSE CASE s.phase = "vapour" -> 0 [] s.phase = "liquid" -> 1 [] OTHER -> Find - 1
  BY Zenon DEF FixedPort
<1>2. s.port \in Nat
  BY StreamOf DEF Placed, IsStream
<1>3. ASSUME s.phase # "vapour", s.phase # "liquid" PROVE Find - 1 \in Nat
  <2>1. IsSequence(outs)
    BY OutletsAre
  <2>2. \E k \in DOMAIN outs : outs[k] = s
    BY OutletsAre
  <2> HIDE DEF outs
  <2>3. PICK k \in DOMAIN outs : outs[k] = s
    BY <2>2
  <2>4. s \in rest
    BY <1>3, <2>3 DEF ToSet
  <2> HIDE DEF rest
  <2>5. unphased \in Seq(rest \cap ToSet(outs))
        /\ \E j \in DOMAIN unphased : unphased[j] = s
    BY <2>1, <2>3, <2>4, WithinIs
  <2> HIDE DEF unphased
  <2>6. Len(unphased) \in Nat /\ DOMAIN unphased = 1..Len(unphased)
    BY <2>5
  <2> DEFINE I == {i \in 1..Len(unphased) : unphased[i] = s}
  <2>7. Find = IF I # {} THEN Min(I) ELSE 0
    BY Zenon DEF SelectInSeq
  <2>8. I # {}
    BY <2>5, <2>6
  <2>9. (IF I # {} THEN Min(I) ELSE 0) - 1 \in Nat
    BY <2>6, <2>8, FirstIndex
  <2> QED
    BY <2>7, <2>9
<1> HIDE DEF Find, high, vessel
<1>4. CASE ~vessel
  BY <1>1, <1>2, <1>4
<1>5. CASE vessel /\ s.phase = "vapour"
  BY <1>1, <1>5
<1>6. CASE vessel /\ s.phase = "liquid"
  BY <1>1, <1>6
<1>7. CASE vessel /\ s.phase # "vapour" /\ s.phase # "liquid"
  BY <1>1, <1>3, <1>7
<1> QED
  BY <1>4, <1>5, <1>6, <1>7

(* fix_port_violations. *)
LEMMA FixPortsKeep ==
    ASSUME NEW g, GraphOK(g)
    PROVE  Keeps(g, FixPorts(g))
<1> DEFINE New(s) == IF s.src = None THEN s ELSE [s EXCEPT !.port = FixedPort(g, s)]
           t == [i \in DOMAIN g.streams |-> New(g.streams[i])]
<1>1. ASSUME NEW i \in DOMAIN g.streams PROVE Kept(g, g.streams[i], t[i])
  <2> DEFINE s == g.streams[i]
             port == FixedPort(g, s)
  <2>1. Placed(s, UnitTags(g))
    BY DEF GraphOK
  <2>2. t[i] = s \/ t[i] = [s EXCEPT !.port = port]
    BY Zenon
  <2>3. port \in Nat
    BY FixedPortIs DEF ToSet
  <2>4. Kept(g, s, [s EXCEPT !.port = port])
    <3> HIDE DEF port, s
    <3> QED
      BY <2>1, <2>3, PortKept, Zenon
  <2>5. Kept(g, s, s)
    <3> HIDE DEF s
    <3> QED
      BY <2>1, SameKept, Zenon
  <2> QED
    BY <2>2, <2>4, <2>5, Zenon
<1>2. t = [i \in DOMAIN g.streams |-> t[i]]
  BY Zenon
<1>3. FixPorts(g) = [g EXCEPT !.streams = t]
  BY Zenon DEF FixPorts
<1> HIDE DEF t
<1> QED
  BY <1>1, <1>2, <1>3, StreamsKept

(* The deterministic repair of a cycle. *)
LEMMA RepropagateKeeps ==
    ASSUME NEW g, GraphOK(g), NEW cycle
    PROVE  Keeps(g, Repropagate(g, cycle))
<1> DEFINE New(s) == IF s \in cycle /\ ~s.recycle /\ s.tag \in DOMAIN origin
                       THEN [s EXCEPT !.recycle = TRUE, !.target = origin[s.tag]] ELSE s
           t == [i \in DOMAIN g.streams |-> New(g.streams[i])]
<1>1. ASSUME NEW i \in DOMAIN g.streams PROVE Kept(g, g.streams[i], t[i])
  <2> DEFINE s == g.streams[i]
             target == origin[s.tag]
  <2>1. Placed(s, UnitTags(g))
    BY DEF GraphOK
  <2>2. t[i] = s \/ t[i] = [s EXCEPT !.recycle = TRUE, !.target = target]
    BY Zenon
  <2>4. Kept(g, s, [s EXCEPT !.recycle = TRUE, !.target = target])
    <3> HIDE DEF target, s
    <3> QED
      BY <2>1, FlagKept, Zenon
  <2>5. Kept(g, s, s)
    <3> HIDE DEF s
    <3> QED
      BY <2>1, SameKept, Zenon
  <2> QED
    BY <2>2, <2>4, <2>5, Zenon
<1>2. t = [i \in DOMAIN g.streams |-> t[i]]
  BY Zenon
<1>3. Repropagate(g, cycle) = [g EXCEPT !.streams = t]
  BY Zenon DEF Repropagate
<1> HIDE DEF t
<1> QED
  BY <1>1, <1>2, <1>3, StreamsKept

-----------------------------------------------------------------------------
(* The walks, and normalise as a whole.                                    *)

(* The units of a graph are visited with tags it has. *)
LEMMA UnitOf ==
    ASSUME NEW g, GraphOK(g)
    PROVE  /\ Len(g.units) \in Nat /\ DOMAIN g.units = 1..Len(g.units)
           /\ \A i \in 1..Len(g.units) : g.units[i].tag \in UnitTags(g)
<1>1. Len(g.units) \in Nat /\ DOMAIN g.units = 1..Len(g.units)
  BY SeqFacts DEF GraphOK
<1>2. \A i \in 1..Len(g.units) : g.units[i] \in ToSet(g.units)
  BY <1>1, Zenon DEF ToSet
<1> QED
  BY <1>1, <1>2, Zenon DEF UnitTags

(* The mixers. *)
LEMMA MixingKeeps ==
    ASSUME NEW g, GraphOK(g)
    PROVE  Keeps(g, OverUnits(g, InsertMixer))
<1>1. Keeps(g, g)
  BY KeepsRefl
<1>2. ASSUME NEW i \in 1..Len(g.units), NEW h, Keeps(g, h)
      PROVE  Keeps(g, InsertMixer(h, g.units[i]))
  <2>1. g.units[i].tag \in UnitTags(h) /\ GraphOK(h)
    BY <1>2, UnitOf DEF Keeps, Extends
  <2>2. Keeps(h, InsertMixer(h, g.units[i]))
    BY <2>1, MixerKeeps
  <2> QED
    BY <1>2, <2>2, KeepsTrans
<1>3. Keeps(g, Mixing!FoldOf(g, g, g.units))
  BY <1>1, <1>2, UnitOf, Mixing!FoldInvariant
<1>4. OverUnits(g, InsertMixer) = Mixing!FoldOf(g, g, g.units)
  BY Zenon DEF OverUnits, Mixing!FoldOf, Mixing!FoldLeft, Mixing!MapThenFoldSet,
               Mixing!Max, FoldLeft, MapThenFoldSet, Max
<1> QED
  BY <1>3, <1>4, Zenon

(* The splitters. *)
LEMMA SplittingKeeps ==
    ASSUME NEW g, GraphOK(g)
    PROVE  Keeps(g, OverUnits(g, InsertSplitter))
<1>1. Keeps(g, g)
  BY KeepsRefl
<1>2. ASSUME NEW i \in 1..Len(g.units), NEW h, Keeps(g, h)
      PROVE  Keeps(g, InsertSplitter(h, g.units[i]))
  <2>1. g.units[i].tag \in UnitTags(h) /\ GraphOK(h)
    BY <1>2, UnitOf DEF Keeps, Extends
  <2>2. Keeps(h, InsertSplitter(h, g.units[i]))
    BY <2>1, SplitterKeeps
  <2> QED
    BY <1>2, <2>2, KeepsTrans
<1>3. Keeps(g, Splitting!FoldOf(g, g, g.units))
  BY <1>1, <1>2, UnitOf, Splitting!FoldInvariant
<1>4. OverUnits(g, InsertSplitter) = Splitting!FoldOf(g, g, g.units)
  BY Zenon DEF OverUnits, Splitting!FoldOf, Splitting!FoldLeft, Splitting!MapThenFoldSet,
               Splitting!Max, FoldLeft, MapThenFoldSet, Max
<1> QED
  BY <1>3, <1>4, Zenon

(* The missing outlets. *)
LEMMA CompletingKeeps ==
    ASSUME NEW g, GraphOK(g)
    PROVE  Keeps(g, OverUnits(g, CompleteOutlets))
<1>1. Keeps(g, g)
  BY KeepsRefl
<1>2. ASSUME NEW i \in 1..Len(g.units), NEW h, Keeps(g, h)
      PROVE  Keeps(g, CompleteOutlets(h, g.units[i]))
  <2>1. g.units[i].tag \in UnitTags(h) /\ GraphOK(h)
    BY <1>2, UnitOf DEF Keeps, Extends
  <2>2. Keeps(h, CompleteOutlets(h, g.units[i]))
    BY <2>1, OutletsKeep
  <2> QED
    BY <1>2, <2>2, KeepsTrans
<1>3. Keeps(g, Completing!FoldOf(g, g, g.units))
  BY <1>1, <1>2, UnitOf, Completing!FoldInvariant
<1>4. OverUnits(g, CompleteOutlets) = Completing!FoldOf(g, g, g.units)
  BY Zenon DEF OverUnits, Completing!FoldOf, Completing!FoldLeft, Completing!MapThenFoldSet,
               Completing!Max, FoldLeft, MapThenFoldSet, Max
<1> QED
  BY <1>3, <1>4, Zenon

(* The vessels' ports. *)
LEMMA VesselsKeeps ==
    ASSUME NEW g, GraphOK(g)
    PROVE  Keeps(g, OverUnits(g, RepairVessel))
<1>1. Keeps(g, g)
  BY KeepsRefl
<1>2. ASSUME NEW i \in 1..Len(g.units), NEW h, Keeps(g, h)
      PROVE  Keeps(g, RepairVessel(h, g.units[i]))
  <2>1. g.units[i].tag \in UnitTags(h) /\ GraphOK(h)
    BY <1>2, UnitOf DEF Keeps, Extends
  <2>2. Keeps(h, RepairVessel(h, g.units[i]))
    BY <2>1, VesselKeeps
  <2> QED
    BY <1>2, <2>2, KeepsTrans
<1>3. Keeps(g, Vessels!FoldOf(g, g, g.units))
  BY <1>1, <1>2, UnitOf, Vessels!FoldInvariant
<1>4. OverUnits(g, RepairVessel) = Vessels!FoldOf(g, g, g.units)
  BY Zenon DEF OverUnits, Vessels!FoldOf, Vessels!FoldLeft, Vessels!MapThenFoldSet,
               Vessels!Max, FoldLeft, MapThenFoldSet, Max
<1> QED
  BY <1>3, <1>4, Zenon

(* The columns' ports. *)
LEMMA ColumnsKeeps ==
    ASSUME NEW g, GraphOK(g)
    PROVE  Keeps(g, OverUnits(g, RepairColumn))
<1>1. Keeps(g, g)
  BY KeepsRefl
<1>2. ASSUME NEW i \in 1..Len(g.units), NEW h, Keeps(g, h)
      PROVE  Keeps(g, RepairColumn(h, g.units[i]))
  <2>1. g.units[i].tag \in UnitTags(h) /\ GraphOK(h)
    BY <1>2, UnitOf DEF Keeps, Extends
  <2>2. Keeps(h, RepairColumn(h, g.units[i]))
    BY <2>1, ColumnKeeps
  <2> QED
    BY <1>2, <2>2, KeepsTrans
<1>3. Keeps(g, Columns!FoldOf(g, g, g.units))
  BY <1>1, <1>2, UnitOf, Columns!FoldInvariant
<1>4. OverUnits(g, RepairColumn) = Columns!FoldOf(g, g, g.units)
  BY Zenon DEF OverUnits, Columns!FoldOf, Columns!FoldLeft, Columns!MapThenFoldSet,
               Columns!Max, FoldLeft, MapThenFoldSet, Max
<1> QED
  BY <1>3, <1>4, Zenon

(* The decanters' ports. *)
LEMMA DecantersKeeps ==
    ASSUME NEW g, GraphOK(g)
    PROVE  Keeps(g, OverUnits(g, RepairDecanter))
<1>1. Keeps(g, g)
  BY KeepsRefl
<1>2. ASSUME NEW i \in 1..Len(g.units), NEW h, Keeps(g, h)
      PROVE  Keeps(g, RepairDecanter(h, g.units[i]))
  <2>1. g.units[i].tag \in UnitTags(h) /\ GraphOK(h)
    BY <1>2, UnitOf DEF Keeps, Extends
  <2>2. Keeps(h, RepairDecanter(h, g.units[i]))
    BY <2>1, DecanterKeeps
  <2> QED
    BY <1>2, <2>2, KeepsTrans
<1>3. Keeps(g, Decanters!FoldOf(g, g, g.units))
  BY <1>1, <1>2, UnitOf, Decanters!FoldInvariant
<1>4. OverUnits(g, RepairDecanter) = Decanters!FoldOf(g, g, g.units)
  BY Zenon DEF OverUnits, Decanters!FoldOf, Decanters!FoldLeft, Decanters!MapThenFoldSet,
               Decanters!Max, FoldLeft, MapThenFoldSet, Max
<1> QED
  BY <1>3, <1>4, Zenon

(* The outlets of the deterministic repair. *)
LEMMA AddingKeeps ==
    ASSUME NEW g, GraphOK(g)
    PROVE  Keeps(g, OverUnits(g, AddOutlet))
<1>1. Keeps(g, g)
  BY KeepsRefl
<1>2. ASSUME NEW i \in 1..Len(g.units), NEW h, Keeps(g, h)
      PROVE  Keeps(g, AddOutlet(h, g.units[i]))
  <2>1. g.units[i].tag \in UnitTags(h) /\ GraphOK(h)
    BY <1>2, UnitOf DEF Keeps, Extends
  <2>2. Keeps(h, AddOutlet(h, g.units[i]))
    BY <2>1, AddOutletKeeps
  <2> QED
    BY <1>2, <2>2, KeepsTrans
<1>3. Keeps(g, Adding!FoldOf(g, g, g.units))
  BY <1>1, <1>2, UnitOf, Adding!FoldInvariant
<1>4. OverUnits(g, AddOutlet) = Adding!FoldOf(g, g, g.units)
  BY Zenon DEF OverUnits, Adding!FoldOf, Adding!FoldLeft, Adding!MapThenFoldSet,
               Adding!Max, FoldLeft, MapThenFoldSet, Max
<1> QED
  BY <1>3, <1>4, Zenon

(* normalise keeps every unit, every stream, its tag and its recycle flag, *)
(* and the streams run between units of the graph.                         *)
THEOREM NormaliseKeeps ==
    ASSUME NEW g, GraphOK(g)
    PROVE  Keeps(g, Normalise(g))
<1> DEFINE mixed == OverUnits(g, InsertMixer)
           split == OverUnits(mixed, InsertSplitter)
           whole == OverUnits(split, CompleteOutlets)
           vessels == OverUnits(whole, RepairVessel)
           columns == OverUnits(vessels, RepairColumn)
           decanters == OverUnits(columns, RepairDecanter)
<1>0. Normalise(g) = PropagatePhases(decanters)
  BY Zenon DEF Normalise
<1>1. Keeps(g, mixed)
  BY MixingKeeps, Zenon
<1> HIDE DEF mixed
<1>2. Keeps(g, split)
  BY <1>1, SplittingKeeps, KeepsTrans, Zenon DEF Keeps
<1> HIDE DEF split
<1>3. Keeps(g, whole)
  BY <1>2, CompletingKeeps, KeepsTrans, Zenon DEF Keeps
<1> HIDE DEF whole
<1>4. Keeps(g, vessels)
  BY <1>3, VesselsKeeps, KeepsTrans, Zenon DEF Keeps
<1> HIDE DEF vessels
<1>5. Keeps(g, columns)
  BY <1>4, ColumnsKeeps, KeepsTrans, Zenon DEF Keeps
<1> HIDE DEF columns
<1>6. Keeps(g, decanters)
  BY <1>5, DecantersKeeps, KeepsTrans, Zenon DEF Keeps
<1> HIDE DEF decanters
<1>7. Keeps(g, PropagatePhases(decanters))
  BY <1>6, PropagateKeeps, KeepsTrans, Zenon DEF Keeps
<1> QED
  BY <1>0, <1>7, Zenon

(* So does the deterministic topology repair. *)
THEOREM TopologyRepairKeeps ==
    ASSUME GraphOK(graph), NEW h \in RepairedTopologies
    PROVE  Keeps(graph, h)
<1> DEFINE g == OverUnits(graph, AddOutlet)
<1>1. Keeps(graph, g)
  BY AddingKeeps, Zenon
<1>2. h = g \/ \E c \in Cycles(g) : h = Repropagate(g, c)
  BY Zenon DEF RepairedTopologies
<1> HIDE DEF g
<1>3. \A c : Keeps(graph, Repropagate(g, c))
  BY <1>1, RepropagateKeeps, KeepsTrans, Zenon DEF Keeps
<1> QED
  BY <1>1, <1>2, <1>3, Zenon

-----------------------------------------------------------------------------
(* The invariant.                                                          *)

(* The streams the extractor accepted, and what later stages do to them.   *)
Listed(list) ==
    /\ IsSequence(list)
    /\ \A i \in DOMAIN list : Placed(list[i], SheetTags)
    /\ \A i, j \in DOMAIN list : list[i].tag = list[j].tag => i = j

(* recycle_origin: the target of every recycle, by tag. *)
Recorded(list) ==
    /\ DOMAIN origin = {list[i].tag : i \in {j \in DOMAIN list : list[j].recycle}}
    /\ \A i \in DOMAIN list :
          list[i].recycle => list[i].target \in SheetTags /\ origin[list[i].tag] = list[i].target

(* The streams of the topology are the first of the graph. *)
Carries(g) ==
    /\ DOMAIN streams \subseteq DOMAIN g.streams
    /\ \A i \in DOMAIN streams :
          /\ g.streams[i].tag = streams[i].tag
          /\ streams[i].recycle => g.streams[i].recycle

(* The recycles a unit had, and those it has. *)
SourceIn(list, tag) == (CHOOSE s \in ToSet(list) : s.tag = tag).src
Before(list, u) == {t \in DOMAIN origin : SourceIn(list, t) = u}
Remaining(list, u) == {s \in ToSet(list) : s.recycle /\ s.src = u}
KeptOnce(list, u) ==
    /\ Before(list, u) # {} => Cardinality(Remaining(list, u)) = 1
    /\ \A s \in Remaining(list, u), t \in Before(list, u) :
          Position(origin[t]) < Position(u) => Position(s.target) < Position(u)

HasGraph == {"validate", "topology_repair", "map", "solve", "repair"}
NotYetSolved == {"extract", "guards", "build", "validate", "topology_repair", "map"}

CountsOK ==
    /\ pc \in Stages /\ tries \in 0..MaxTries /\ repairs \in 0..MaxRepairs
    /\ pc = "extract" => tries < MaxTries
TopologyOK ==
    /\ sheet \in Sheets /\ Listed(streams)
    /\ pc = "extract" => streams = <<>> /\ origin = <<>>
    /\ pc = "guards" => Recorded(streams)
GuardedOK ==
    pc \notin {"extract", "guards"} /\ sheet.trigger => \A u \in SheetTags : KeptOnce(streams, u)
GraphSound ==
    /\ pc \in HasGraph \/ graph # None \/ flowsheet # None => GraphOK(graph) /\ Carries(graph)
    /\ pc \in {"extract", "guards", "build"} => graph = None
FlowsheetOK ==
    /\ flowsheet # None \/ pc = "solve" \/ repairs > 0 => flowsheet = ToDwsim(graph)
    /\ pc \in NotYetSolved => flowsheet = None /\ repairs = 0

AssemblyInv == CountsOK /\ TopologyOK /\ GuardedOK /\ GraphSound /\ FlowsheetOK

-----------------------------------------------------------------------------
(* Extraction.                                                             *)

(* The units of a process have tags, None is not one. *)
LEMMA SheetFacts ==
    ASSUME sheet \in Sheets
    PROVE  /\ IsSequence(sheet.units) /\ None \notin SheetTags
           /\ \A near \in DOMAIN sheet.near : sheet.near[near] \in SheetTags
           /\ \A reply \in sheet.replies \ {None} :
                 IsSequence(reply) /\ \A i \in DOMAIN reply : IsStream(reply[i])
<1> DEFINE tags == {u.tag : u \in ToSet(sheet.units)}
<1>1. /\ sheet.units \in Seq(ToSet(sheet.units)) /\ None \notin tags
      /\ \A near \in DOMAIN sheet.near : sheet.near[near] \in tags
      /\ \A reply \in sheet.replies \ {None} :
            reply \in Seq(ToSet(reply)) /\ \A i \in DOMAIN reply : IsStream(reply[i])
  BY SheetsAssumption, Zenon
<1>2. tags = SheetTags
  BY Zenon DEF SheetTags
<1> HIDE DEF tags
<1> QED
  BY <1>1, <1>2, Zenon DEF IsSequence

(* A reference is snapped to a unit or dropped. *)
LEMMA SnapIs ==
    ASSUME sheet \in Sheets, NEW ref
    PROVE  Snap(ref) \in SheetTags \cup {None}
BY SheetFacts DEF Snap

(* A parsed stream keeps its form when its tag and ends are rewritten. *)
LEMMA Rewritten ==
    ASSUME NEW s, IsStream(s), NEW t, t = s \/ \E tag : t = [s EXCEPT !.tag = tag],
           NEW U, NEW src \in U \cup {None}, NEW dst \in U \cup {None}
    PROVE  Placed([t EXCEPT !.src = src, !.dst = dst], U)
<1>1. IsStream(t)
  <2>1. CASE t = s
    BY <2>1
  <2>2. CASE \E tag : t = [s EXCEPT !.tag = tag]
    <3>1. PICK tag : t = [s EXCEPT !.tag = tag]
      BY <2>2
    <3>2. t = [tag |-> tag, src |-> s.src, dst |-> s.dst, port |-> s.port,
               phase |-> s.phase, recycle |-> s.recycle, target |-> s.target,
               words |-> s.words, sound |-> s.sound]
      BY <3>1 DEF IsStream
    <3> QED
      BY <3>2 DEF IsStream
  <2> QED
    BY <2>1, <2>2
<1> DEFINE half == [t EXCEPT !.src = src]
           new == [t EXCEPT !.src = src, !.dst = dst]
<1>2. half = [tag |-> t.tag, src |-> src, dst |-> t.dst, port |-> t.port,
              phase |-> t.phase, recycle |-> t.recycle, target |-> t.target,
              words |-> t.words, sound |-> t.sound]
  BY <1>1 DEF IsStream
<1>3. new = [half EXCEPT !.dst = dst]
  BY Zenon
<1>4. new = [tag |-> t.tag, src |-> src, dst |-> dst, port |-> t.port,
             phase |-> t.phase, recycle |-> t.recycle, target |-> t.target,
             words |-> t.words, sound |-> t.sound]
  <2> HIDE DEF half
  <2> QED
    BY <1>2, <1>3
<1> HIDE DEF new
<1>5. Placed(new, U)
  BY <1>1, <1>4 DEF Placed, IsStream
<1> QED
  BY <1>5 DEF new

(* What the extractor makes of a reply lies between units and boundary. *)
LEMMA ReplyPlaced ==
    ASSUME sheet \in Sheets, NEW reply \in sheet.replies, reply # None
    PROVE  LET list == ReconcileRefs(DedupeTags(reply))
           IN  IsSequence(list) /\ \A i \in DOMAIN list : Placed(list[i], SheetTags)
<1>1. IsSequence(reply) /\ \A i \in DOMAIN reply : IsStream(reply[i])
  BY SheetFacts
<1> DEFINE Same(i) == {j \in DOMAIN reply : reply[j].tag = reply[i].tag}
           Numbered(i) == reply[i].tag \o "-" \o ToString(Cardinality({j \in Same(i) : j <= i}))
           tagged == [i \in DOMAIN reply |->
                         IF Cardinality(Same(i)) = 1 THEN reply[i]
                         ELSE [reply[i] EXCEPT !.tag = Numbered(i)]]
           snapped == [i \in DOMAIN tagged |->
                         [tagged[i] EXCEPT !.src = Snap(@), !.dst = Snap(@)]]
           list == Attached(snapped)
<1>2. ReconcileRefs(DedupeTags(reply)) = list
  <2>1. DedupeTags(reply) = tagged
    BY Zenon DEF DedupeTags
  <2> HIDE DEF tagged
  <2> QED
    BY <2>1, Zenon DEF ReconcileRefs
<1>3. \A i \in DOMAIN reply : tagged[i] = reply[i] \/ \E t : tagged[i] = [reply[i] EXCEPT !.tag = t]
  <2> HIDE DEF Numbered, Same
  <2> QED
    BY Zenon
<1>4. DOMAIN tagged = DOMAIN reply /\ DOMAIN snapped = DOMAIN tagged
      /\ snapped = [i \in DOMAIN reply |-> snapped[i]]
  <2>1. DOMAIN tagged = DOMAIN reply
    BY Zenon
  <2> HIDE DEF tagged
  <2> QED
    BY <2>1, Zenon
<1> HIDE DEF tagged
<1>5. ASSUME NEW i \in DOMAIN reply PROVE Placed(snapped[i], SheetTags)
  <2> DEFINE t == tagged[i]
             src == Snap(t.src)
             dst == Snap(t.dst)
  <2>1. src \in SheetTags \cup {None} /\ dst \in SheetTags \cup {None}
    BY SnapIs
  <2>2. snapped[i] = [t EXCEPT !.src = src, !.dst = dst]
    BY <1>4, Zenon
  <2>3. IsStream(reply[i])
    BY <1>1
  <2>4. t = reply[i] \/ \E tag : t = [reply[i] EXCEPT !.tag = tag]
    BY <1>3
  <2> DEFINE raw == reply[i]
  <2> HIDE DEF t, src, dst, snapped, raw
  <2>5. IsStream(raw) /\ (t = raw \/ \E tag : t = [raw EXCEPT !.tag = tag])
    BY <2>3, <2>4, Zenon DEF raw
  <2>6. Placed([t EXCEPT !.src = src, !.dst = dst], SheetTags)
    BY <2>1, <2>5, Rewritten, Zenon
  <2> QED
    BY <2>2, <2>6, Zenon
<1> HIDE DEF snapped
<1>6. IsSequence(snapped)
  BY <1>1, <1>4, SeqMap
<1> DEFINE S == {s \in ToSet(snapped) : s.src # None \/ s.dst # None}
<1>7. list = Within(snapped, S)
  BY Zenon DEF Attached
<1>8. list \in Seq(S \cap ToSet(snapped))
  <2> HIDE DEF S, list
  <2> QED
    BY <1>6, <1>7, WithinIs, Zenon
<1> HIDE DEF list, S
<1>9. \A s \in ToSet(snapped) : Placed(s, SheetTags)
  BY <1>4, <1>5 DEF ToSet
<1>10. IsSequence(list) /\ \A i \in DOMAIN list : Placed(list[i], SheetTags)
  BY <1>8, <1>9 DEF IsSequence
<1> QED
  BY <1>2, <1>10, Zenon

(* The stream with a tag of a list that has it once. *)
LEMMA TheStream ==
    ASSUME NEW list, \A i, j \in DOMAIN list : list[i].tag = list[j].tag => i = j,
           NEW i \in DOMAIN list
    PROVE  (CHOOSE s \in ToSet(list) : s.tag = list[i].tag) = list[i]
<1> DEFINE s0 == CHOOSE s \in ToSet(list) : s.tag = list[i].tag
<1>1. list[i] \in ToSet(list)
  BY Zenon DEF ToSet
<1>2. s0 \in ToSet(list) /\ s0.tag = list[i].tag
  BY <1>1, Zenon
<1> HIDE DEF s0
<1>3. PICK j \in DOMAIN list : s0 = list[j]
  BY <1>2 DEF ToSet
<1>4. j = i
  BY <1>2, <1>3
<1> QED
  BY <1>3, <1>4 DEF s0

(* The recorded targets of an accepted list. *)
LEMMA RecordedAfter ==
    ASSUME NEW list, Acceptable(list),
           origin' = [t \in {list[i].tag : i \in {j \in DOMAIN list : list[j].recycle}}
                        |-> (CHOOSE s \in ToSet(list) : s.tag = t).target],
           SheetTags' = SheetTags, streams' = list
    PROVE  Recorded(streams)'
<1> DEFINE T == {list[i].tag : i \in {j \in DOMAIN list : list[j].recycle}}
<1>1. DOMAIN origin' = T
  BY Zenon
<1>2. \A i, j \in DOMAIN list : list[i].tag = list[j].tag => i = j
  BY Zenon DEF Acceptable
<1>3. ASSUME NEW i \in DOMAIN list, list[i].recycle
      PROVE  list[i].target \in SheetTags /\ origin'[list[i].tag] = list[i].target
  <2>1. list[i].tag \in T
    BY <1>3, Zenon
  <2>2. origin'[list[i].tag] = (CHOOSE s \in ToSet(list) : s.tag = list[i].tag).target
    BY <2>1, Zenon
  <2>3. (CHOOSE s \in ToSet(list) : s.tag = list[i].tag) = list[i]
    BY <1>2, TheStream
  <2>4. list[i].target \in SheetTags
    BY <1>3, Zenon DEF Acceptable
  <2> QED
    BY <2>2, <2>3, <2>4, Zenon
<1> QED
  BY <1>1, <1>3, Zenon DEF Recorded

-----------------------------------------------------------------------------
(* The guards.                                                             *)

(* What a guard does to a stream: it stays where it is. *)
Guarded(s, new) ==
    /\ Placed(new, SheetTags) /\ new.tag = s.tag /\ new.src = s.src

(* A stream whose recycle is dropped. *)
LEMMA ClearIs ==
    ASSUME NEW s, Placed(s, SheetTags)
    PROVE  Guarded(s, Clear(s)) /\ ~Clear(s).recycle
<1> DEFINE no == FALSE
           half == [s EXCEPT !.recycle = no]
           new == [tag |-> s.tag, src |-> s.src, dst |-> s.dst, port |-> s.port,
                   phase |-> s.phase, recycle |-> no, target |-> None,
                   words |-> s.words, sound |-> s.sound]
<1>1. Clear(s) = [half EXCEPT !.target = None]
  BY Zenon DEF Clear
<1> HIDE DEF no
<1>2. half = [tag |-> s.tag, src |-> s.src, dst |-> s.dst, port |-> s.port,
              phase |-> s.phase, recycle |-> no, target |-> s.target,
              words |-> s.words, sound |-> s.sound]
  BY DEF Placed, IsStream
<1> HIDE DEF half
<1>3. Clear(s) = new
  BY <1>1, <1>2
<1>4. Guarded(s, new)
  BY DEF Guarded, Placed, IsStream, no
<1>5. ~new.recycle
  BY DEF no
<1> QED
  BY <1>3, <1>4, <1>5, Zenon

(* A stream whose target is resolved. *)
LEMMA ResolvedIs ==
    ASSUME NEW s, Placed(s, SheetTags)
    PROVE  Guarded(s, ResolveTarget(s)) /\ (s.target \in SheetTags => ResolveTarget(s) = s)
           /\ (~s.recycle => ResolveTarget(s) = s)
<1>1. Guarded(s, s)
  BY DEF Guarded
<1>2. ASSUME NEW target PROVE Guarded(s, [s EXCEPT !.target = target])
  <2> DEFINE new == [s EXCEPT !.target = target]
  <2>1. new = [tag |-> s.tag, src |-> s.src, dst |-> s.dst, port |-> s.port,
               phase |-> s.phase, recycle |-> s.recycle, target |-> target,
               words |-> s.words, sound |-> s.sound]
    BY DEF Placed, IsStream
  <2> HIDE DEF new
  <2>2. Guarded(s, new)
    BY <2>1 DEF Guarded, Placed, IsStream
  <2> QED
    BY <2>2 DEF new
<1>3. Guarded(s, Clear(s))
  BY ClearIs
<1>4. \/ ResolveTarget(s) = s \/ ResolveTarget(s) = Clear(s)
      \/ \E target : ResolveTarget(s) = [s EXCEPT !.target = target]
  BY Zenon DEF ResolveTarget
<1>5. Guarded(s, ResolveTarget(s))
  BY <1>1, <1>2, <1>3, <1>4, Zenon
<1>6. s.target \in SheetTags \/ ~s.recycle => ResolveTarget(s) = s
  BY Zenon DEF ResolveTarget
<1> QED
  BY <1>5, <1>6

(* A pass of the guards over the list. *)
LEMMA GuardedList ==
    ASSUME NEW list, Listed(list), NEW t, t = [i \in DOMAIN list |-> t[i]],
           \A i \in DOMAIN list : Guarded(list[i], t[i])
    PROVE  Listed(t) /\ DOMAIN t = DOMAIN list
<1>1. IsSequence(t) /\ DOMAIN t = DOMAIN list
  BY SeqMap DEF Listed
<1>2. \A i \in DOMAIN list : Placed(t[i], SheetTags) /\ t[i].tag = list[i].tag
  BY Zenon DEF Guarded
<1>3. \A i, j \in DOMAIN list : list[i].tag = list[j].tag => i = j
  BY Zenon DEF Listed
<1> QED
  BY <1>1, <1>2, <1>3 DEF Listed

Guarding(list) == PhraseGuard(DedupeRecycles([i \in DOMAIN list |-> ResolveTarget(list[i])]))

(* The three guards together keep the list. *)
LEMMA GuardsKeep ==
    ASSUME NEW list, Listed(list)
    PROVE  Listed(Guarding(list))
<1> DEFINE first == [i \in DOMAIN list |-> ResolveTarget(list[i])]
           second == DedupeRecycles(first)
           third == PhraseGuard(second)
<1>0. Guarding(list) = third
  BY Zenon DEF Guarding
<1>1. Listed(first)
  <2>1. \A i \in DOMAIN list : Guarded(list[i], first[i])
    BY ResolvedIs DEF Listed
  <2>2. first = [i \in DOMAIN list |-> first[i]]
    OBVIOUS
  <2> HIDE DEF first
  <2> QED
    BY <2>1, <2>2, GuardedList
<1> HIDE DEF first
<1>2. Listed(second)
  <2> DEFINE t == [i \in DOMAIN first |-> IF Redundant(first, i) THEN Clear(first[i]) ELSE first[i]]
  <2>1. \A i \in DOMAIN first : Guarded(first[i], t[i])
    <3>1. \A i \in DOMAIN first : Placed(first[i], SheetTags)
      BY <1>1, Zenon DEF Listed
    <3>2. \A i \in DOMAIN first : Guarded(first[i], Clear(first[i])) /\ Guarded(first[i], first[i])
      BY <3>1, ClearIs DEF Guarded
    <3>3. \A i \in DOMAIN first : t[i] = first[i] \/ t[i] = Clear(first[i])
      OBVIOUS
    <3> HIDE DEF t
    <3> QED
      BY <3>2, <3>3, Zenon
  <2>2. t = [i \in DOMAIN first |-> t[i]]
    BY Zenon
  <2>3. second = t
    BY Zenon DEF DedupeRecycles
  <2> HIDE DEF t, second
  <2> QED
    BY <1>1, <2>1, <2>2, <2>3, GuardedList
<1> HIDE DEF second
<1>3. Listed(third)
  <2> DEFINE t == [i \in DOMAIN second |-> IF sheet.trigger THEN second[i] ELSE Clear(second[i])]
  <2>1. \A i \in DOMAIN second : Guarded(second[i], t[i])
    <3>1. \A i \in DOMAIN second : Placed(second[i], SheetTags)
      BY <1>2, Zenon DEF Listed
    <3>2. \A i \in DOMAIN second :
             Guarded(second[i], Clear(second[i])) /\ Guarded(second[i], second[i])
      BY <3>1, ClearIs DEF Guarded
    <3>3. \A i \in DOMAIN second : t[i] = second[i] \/ t[i] = Clear(second[i])
      OBVIOUS
    <3> HIDE DEF t
    <3> QED
      BY <3>2, <3>3, Zenon
  <2>2. t = [i \in DOMAIN second |-> t[i]]
    BY Zenon
  <2>3. third = t
    BY Zenon DEF PhraseGuard
  <2> HIDE DEF t, third
  <2> QED
    BY <1>2, <2>1, <2>2, <2>3, GuardedList
<1> QED
  BY <1>0, <1>3, Zenon

(* With a trigger phrase and targets that are units, the guards clear what *)
(* is redundant and nothing else.                                          *)
LEMMA OnlyRedundantCleared ==
    ASSUME NEW list, Listed(list), sheet.trigger,
           \A i \in DOMAIN list : list[i].recycle => list[i].target \in SheetTags
    PROVE  Guarding(list) =
             [i \in DOMAIN list |-> IF Redundant(list, i) THEN Clear(list[i]) ELSE list[i]]
<1> DEFINE first == [i \in DOMAIN list |-> ResolveTarget(list[i])]
           second == [i \in DOMAIN list |-> IF Redundant(list, i) THEN Clear(list[i]) ELSE list[i]]
<1>1. first = list
  <2>1. \A i \in DOMAIN list : ResolveTarget(list[i]) = list[i]
    BY ResolvedIs DEF Listed
  <2>2. first = [i \in DOMAIN list |-> list[i]]
    BY <2>1, Zenon
  <2>3. list = [i \in DOMAIN list |-> list[i]]
    <3>1. IsSequence(list)
      BY Zenon DEF Listed
    <3> QED
      BY <3>1, SeqFacts
  <2> HIDE DEF first
  <2> QED
    BY <2>2, <2>3
<1>2. DedupeRecycles(first) = second
  <2> HIDE DEF first
  <2>1. DedupeRecycles(list) = second
    BY Zenon DEF DedupeRecycles
  <2> HIDE DEF second
  <2> QED
    BY <1>1, <2>1
<1>3. PhraseGuard(second) = second
  <2>1. PhraseGuard(second) = [i \in DOMAIN second |-> IF sheet.trigger THEN second[i] ELSE Clear(second[i])]
    BY Zenon DEF PhraseGuard
  <2>2. second = [i \in DOMAIN second |-> second[i]]
    BY Zenon
  <2> HIDE DEF second
  <2>3. [i \in DOMAIN second |-> IF sheet.trigger THEN second[i] ELSE Clear(second[i])]
          = [i \in DOMAIN second |-> second[i]]
    OBVIOUS
  <2> QED
    BY <2>1, <2>2, <2>3, Zenon
<1>4. Guarding(list) = PhraseGuard(DedupeRecycles(first))
  BY Zenon DEF Guarding
<1> HIDE DEF first, second
<1>5. Guarding(list) = second
  BY <1>2, <1>3, <1>4, Zenon
<1> QED
  BY <1>5, Zenon DEF second

(* The position of a unit in the list is a number. *)
LEMMA PositionIs ==
    ASSUME sheet \in Sheets, NEW tag
    PROVE  Position(tag) \in Nat
<1> DEFINE I == {i \in 1..Len(sheet.units) : sheet.units[i].tag = tag}
<1>1. Position(tag) = IF I # {} THEN Min(I) ELSE 0
  BY Zenon DEF Position, SelectInSeq
<1>2. Len(sheet.units) \in Nat
  BY SheetFacts, SeqFacts
<1>3. (IF I # {} THEN Min(I) ELSE 0) \in Nat
  BY <1>2, FirstIndex
<1> QED
  BY <1>1, <1>3

(* Of two recycles from one unit the one with the earlier target comes     *)
(* first: a target before the unit also comes before any after it.         *)
LEMMA RanksByPosition ==
    ASSUME sheet \in Sheets, NEW s, NEW t, s.src = t.src
    PROVE  RanksBelow(s, t) <=> Position(s.target) < Position(t.target)
<1> DEFINE p == Position(s.target)
           q == Position(t.target)
           here == Position(s.src)
<1>1. p \in Nat /\ q \in Nat /\ here \in Nat
  BY PositionIs
<1>2. RanksBelow(s, t) <=> IF (p >= here) # (q >= here) THEN ~(p >= here) ELSE p < q
  BY DEF RanksBelow
<1> HIDE DEF p, q, here
<1>3. RanksBelow(s, t) <=> p < q
  BY <1>1, <1>2
<1> QED
  BY <1>3 DEF p, q

(* The recycles of one unit. *)
Of(list, u) == {i \in DOMAIN list : list[i].recycle /\ list[i].src = u}

(* Exactly one of them is not redundant, and no other has an earlier       *)
(* target: the first of those with the earliest.                           *)
LEMMA OneIsKept ==
    ASSUME sheet \in Sheets, NEW list, Listed(list), NEW u \in SheetTags, Of(list, u) # {}
    PROVE  \E m \in Of(list, u) :
              /\ \A i \in Of(list, u) :
                    /\ Position(list[m].target) <= Position(list[i].target)
                    /\ Redundant(list, i) <=> i # m
<1> DEFINE R == Of(list, u)
           At(i) == Position(list[i].target)
           places == {At(i) : i \in R}
<1>1. \A i \in R : i \in DOMAIN list /\ i \in Nat /\ list[i].recycle /\ list[i].src = u /\ u # None
  <2>1. IsSequence(list)
    BY Zenon DEF Listed
  <2>2. Len(list) \in Nat /\ DOMAIN list = 1..Len(list)
    BY <2>1, SeqFacts
  <2>3. u # None
    BY SheetFacts
  <2> QED
    BY <2>2, <2>3 DEF Of
<1>2. \A i \in R : At(i) \in Nat
  BY PositionIs
<1>3. \A i \in R : Redundant(list, i) <=>
         \E j \in R : j # i /\ (At(j) < At(i) \/ (j < i /\ ~(At(i) < At(j))))
  <2> TAKE i \in R
  <2>1. Redundant(list, i) <=>
           \E j \in DOMAIN list : /\ list[j].recycle /\ list[j].src = list[i].src /\ j # i
                                  /\ RanksBelow(list[j], list[i]) \/ (j < i /\ ~RanksBelow(list[i], list[j]))
    BY <1>1, Zenon DEF Redundant
  <2>2. \A j : j \in R <=> j \in DOMAIN list /\ list[j].recycle /\ list[j].src = list[i].src
    BY <1>1 DEF Of
  <2>3. \A j \in R : /\ RanksBelow(list[j], list[i]) <=> At(j) < At(i)
                     /\ RanksBelow(list[i], list[j]) <=> At(i) < At(j)
    BY <1>1, RanksByPosition
  <2> HIDE DEF R, At
  <2> QED
    BY <2>1, <2>2, <2>3, Zenon
<1> HIDE DEF R, At
<1>4. PICK p \in places : \A q \in places : p <= q
  <2>1. places \subseteq Nat
    BY <1>2
  <2>2. places # {}
    BY DEF R
  <2> HIDE DEF places
  <2> QED
    BY <2>1, <2>2, Filtering!NatMin
<1> DEFINE lowest == {i \in R : At(i) = p}
<1>5. PICK m \in lowest : \A i \in lowest : m <= i
  <2>1. lowest \subseteq Nat
    BY <1>1
  <2>2. lowest # {}
    BY <1>4
  <2> HIDE DEF lowest
  <2> QED
    BY <2>1, <2>2, Filtering!NatMin
<1>6. m \in R /\ m \in Nat /\ At(m) = p /\ p \in Nat
  BY <1>1, <1>2, <1>5
<1>7. \A i \in R : At(m) <= At(i)
  BY <1>4, <1>6
<1>8. \A i \in R : i # m => At(m) < At(i) \/ (m < i /\ At(m) = At(i))
  <2> SUFFICES ASSUME NEW i \in R, i # m PROVE At(m) < At(i) \/ (m < i /\ At(m) = At(i))
    OBVIOUS
  <2>1. CASE At(i) = p
    <3>1. m <= i /\ i \in Nat
      BY <1>1, <1>5, <2>1
    <3> QED
      BY <1>6, <2>1, <3>1
  <2>2. CASE At(i) # p
    <3>1. At(m) <= At(i) /\ At(i) \in Nat
      BY <1>2, <1>7
    <3> QED
      BY <1>6, <2>2, <3>1
  <2> QED
    BY <2>1, <2>2
<1>9. \A i \in R : i # m => Redundant(list, i)
  <2> SUFFICES ASSUME NEW i \in R, i # m PROVE Redundant(list, i)
    OBVIOUS
  <2>1. At(m) < At(i) \/ (m < i /\ ~(At(i) < At(m)))
    <3>1. At(i) \in Nat /\ At(m) \in Nat
      BY <1>2, <1>6
    <3> QED
      BY <1>8, <3>1
  <2> QED
    BY <1>3, <1>6, <2>1
<1>10. ~Redundant(list, m)
  <2> SUFFICES ASSUME NEW j \in R, j # m, At(j) < At(m) \/ (j < m /\ ~(At(m) < At(j)))
               PROVE  FALSE
    BY <1>3, <1>6
  <2>1. At(j) \in Nat /\ At(m) \in Nat /\ j \in Nat
    BY <1>1, <1>2, <1>6
  <2> QED
    BY <1>6, <1>8, <2>1
<1> QED
  BY <1>6, <1>7, <1>9, <1>10 DEF R, At

(* So the guards leave one recycle to every unit that had any. *)
LEMMA GuardsKeepOne ==
    ASSUME sheet \in Sheets, NEW list, Listed(list), Recorded(list), sheet.trigger,
           NEW u \in SheetTags
    PROVE  KeptOnce(Guarding(list), u)
<1> DEFINE new == [i \in DOMAIN list |-> IF Redundant(list, i) THEN Clear(list[i]) ELSE list[i]]
<1>1. Guarding(list) = new
  <2>1. \A i \in DOMAIN list : list[i].recycle => list[i].target \in SheetTags
    BY Zenon DEF Recorded
  <2> HIDE DEF new
  <2> QED
    BY <2>1, OnlyRedundantCleared DEF new
<1>2. DOMAIN new = DOMAIN list
  BY Zenon
<1>3. \A i \in DOMAIN list : new[i].tag = list[i].tag /\ new[i].src = list[i].src
  <2>1. \A i \in DOMAIN list : Guarded(list[i], Clear(list[i]))
    BY ClearIs DEF Listed
  <2>2. \A i \in DOMAIN list : new[i] = list[i] \/ new[i] = Clear(list[i])
    OBVIOUS
  <2> HIDE DEF new
  <2> QED
    BY <2>1, <2>2, Zenon DEF Guarded
<1>4. \A i \in DOMAIN list : new[i].recycle => ~Redundant(list, i) /\ new[i] = list[i]
  <2>1. \A i \in DOMAIN list : ~Clear(list[i]).recycle
    BY ClearIs DEF Listed
  <2> QED
    BY <2>1, Zenon
<1>5. \A i \in DOMAIN list : ~Redundant(list, i) => new[i] = list[i]
  BY Zenon
<1> HIDE DEF new
<1>6. \A i, j \in DOMAIN new : new[i].tag = new[j].tag => i = j
  BY <1>2, <1>3 DEF Listed
<1>7. ASSUME NEW t \in Before(new, u)
      PROVE  \E i \in Of(list, u) : t = list[i].tag /\ origin[t] = list[i].target
  <2>1. t \in DOMAIN origin /\ (CHOOSE s \in ToSet(new) : s.tag = t).src = u
    BY Zenon, <1>7 DEF Before, SourceIn
  <2>2. t \in {list[i].tag : i \in {j \in DOMAIN list : list[j].recycle}}
    BY <2>1, Zenon DEF Recorded
  <2>3. PICK i \in DOMAIN list : list[i].recycle /\ t = list[i].tag
    BY <2>2
  <2>4. (CHOOSE s \in ToSet(new) : s.tag = new[i].tag) = new[i]
    BY <1>2, <1>6, TheStream
  <2>5. new[i].tag = t /\ new[i].src = u
    <3>1. new[i].tag = t
      BY <1>3, <2>3
    <3> QED
      BY <2>1, <2>4, <3>1, Zenon
  <2>6. i \in Of(list, u)
    BY <1>3, <2>3, <2>5 DEF Of
  <2>7. origin[t] = list[i].target
    BY <2>3, Zenon DEF Recorded
  <2> QED
    BY <2>3, <2>6, <2>7
<1>8. CASE Of(list, u) = {}
  <2>1. Before(new, u) = {}
    BY <1>7, <1>8
  <2>2. Before(Guarding(list), u) = {}
    BY <1>1, <2>1
  <2> QED
    BY <2>2, Zenon DEF KeptOnce
<1>9. CASE Of(list, u) # {}
  <2>1. PICK m \in Of(list, u) :
           \A i \in Of(list, u) :
              /\ Position(list[m].target) <= Position(list[i].target)
              /\ Redundant(list, i) <=> i # m
    BY <1>9, OneIsKept
  <2>2. m \in DOMAIN list /\ list[m].recycle /\ list[m].src = u /\ new[m] = list[m]
    BY <1>5, <2>1 DEF Of
  <2>3. Remaining(new, u) = {list[m]}
    <3>1. ASSUME NEW s \in Remaining(new, u) PROVE s = list[m]
      <4>1. PICK i \in DOMAIN new : s = new[i] /\ new[i].recycle /\ new[i].src = u
        BY <3>1 DEF Remaining, ToSet
      <4>2. i \in Of(list, u) /\ ~Redundant(list, i) /\ new[i] = list[i]
        BY <1>2, <1>3, <1>4, <4>1 DEF Of
      <4> QED
        BY <2>1, <4>1, <4>2
    <3>2. list[m] \in Remaining(new, u)
      <4>1. list[m] \in ToSet(new)
        BY <1>2, <2>2 DEF ToSet
      <4> QED
        BY <2>2, <4>1 DEF Remaining
    <3> QED
      BY <3>1, <3>2
  <2>4. Cardinality(Remaining(new, u)) = 1
    BY <2>3, FS_Singleton
  <2>5. ASSUME NEW s \in Remaining(new, u), NEW t \in Before(new, u),
               Position(origin[t]) < Position(u)
        PROVE  Position(s.target) < Position(u)
    <3>1. PICK i \in Of(list, u) : t = list[i].tag /\ origin[t] = list[i].target
      BY <1>7
    <3>2. s = list[m]
      BY <2>3
    <3> DEFINE a == Position(s.target)
               b == Position(origin[t])
               c == Position(u)
    <3>3. a \in Nat /\ b \in Nat /\ c \in Nat
      BY PositionIs
    <3>4. a <= b
      BY <2>1, <3>1, <3>2
    <3>5. b < c
      BY <2>5
    <3> HIDE DEF a, b, c
    <3>6. a < c
      BY <3>3, <3>4, <3>5
    <3> QED
      BY <3>6 DEF a, c
  <2>6. KeptOnce(new, u)
    BY <2>4, <2>5, Zenon DEF KeptOnce
  <2> QED
    BY <1>1, <2>6
<1> QED
  BY <1>8, <1>9

-----------------------------------------------------------------------------
(* The builder.                                                            *)

(* The graph it makes carries the streams of the topology, and normalise   *)
(* keeps that.                                                             *)
LEMMA CarriesOn ==
    ASSUME NEW g, GraphOK(g), Carries(g), NEW h, Keeps(g, h)
    PROVE  GraphOK(h) /\ Carries(h)
<1>1. ASSUME NEW i \in DOMAIN streams
      PROVE  i \in DOMAIN h.streams /\ h.streams[i].tag = streams[i].tag
             /\ (streams[i].recycle => h.streams[i].recycle)
  BY Zenon DEF Carries, Keeps, Extends
<1> QED
  BY <1>1, Zenon DEF Carries, Keeps

(* See CarriesOn. *)
LEMMA BuiltIs ==
    ASSUME sheet \in Sheets, Listed(streams)
    PROVE  GraphOK(Built(streams)) /\ Carries(Built(streams))
<1> DEFINE Earlier(i) == {j \in 1..(i - 1) : streams[j].src = streams[i].src}
           Port(i) ==
              IF streams[i].src # None
                 /\ MaxOutlets((CHOOSE u \in ToSet(sheet.units) : u.tag = streams[i].src).type) > 1
                THEN Cardinality(Earlier(i)) ELSE 0
           t == [i \in DOMAIN streams |-> [streams[i] EXCEPT !.port = Port(i)]]
           g == [units |-> sheet.units, streams |-> t]
<1>1. Built(streams) = g
  BY Zenon DEF Built
<1>2. IsSequence(streams) /\ Len(streams) \in Nat /\ DOMAIN streams = 1..Len(streams)
  BY SeqFacts DEF Listed
<1>3. ASSUME NEW i \in DOMAIN streams PROVE Port(i) \in Nat
  <2>1. i \in Nat /\ i >= 1
    BY <1>2
  <2>2. IsFiniteSet(1..(i - 1))
    BY <2>1, FS_Interval
  <2>3. Earlier(i) \in SUBSET (1..(i - 1))
    OBVIOUS
  <2> HIDE DEF Earlier
  <2>4. Cardinality(Earlier(i)) \in Nat
    BY <2>2, <2>3, FS_Subset, FS_CardinalityType
  <2>5. Port(i) = Cardinality(Earlier(i)) \/ Port(i) = 0
    BY Zenon
  <2> HIDE DEF Port
  <2> QED
    BY <2>4, <2>5
<1> HIDE DEF Port
<1>4. ASSUME NEW i \in DOMAIN streams
      PROVE  /\ Placed(t[i], SheetTags) /\ t[i].tag = streams[i].tag
             /\ t[i].recycle = streams[i].recycle
  <2> DEFINE s == streams[i]
             port == Port(i)
             new == [s EXCEPT !.port = port]
  <2>1. Placed(s, SheetTags) /\ port \in Nat
    BY <1>3 DEF Listed
  <2>2. t[i] = new
    OBVIOUS
  <2> HIDE DEF s, port
  <2>3. new = [tag |-> s.tag, src |-> s.src, dst |-> s.dst, port |-> port,
               phase |-> s.phase, recycle |-> s.recycle, target |-> s.target,
               words |-> s.words, sound |-> s.sound]
    BY <2>1 DEF Placed, IsStream
  <2> HIDE DEF new, t
  <2>4. Placed(new, SheetTags) /\ new.tag = s.tag /\ new.recycle = s.recycle
    BY <2>1, <2>3 DEF Placed, IsStream
  <2> QED
    BY <2>2, <2>4 DEF s
<1>5. t = [i \in DOMAIN streams |-> t[i]] /\ DOMAIN t = DOMAIN streams
  OBVIOUS
<1> HIDE DEF t
<1>6. IsSequence(t)
  BY <1>2, <1>5, SeqMap
<1>7. g.units = sheet.units /\ g.streams = t
  OBVIOUS
<1>8. UnitTags(g) = SheetTags
  BY <1>7, Zenon DEF UnitTags, SheetTags
<1>9. GraphOK(g)
  <2>1. g = [units |-> g.units, streams |-> g.streams]
    BY <1>7
  <2>2. IsSequence(sheet.units)
    BY SheetFacts
  <2> HIDE DEF g
  <2> QED
    BY <1>4, <1>5, <1>6, <1>7, <1>8, <2>1, <2>2 DEF GraphOK
<1>10. Carries(g)
  <2> HIDE DEF g
  <2> QED
    BY <1>4, <1>5, <1>7 DEF Carries
<1> HIDE DEF g
<1> QED
  BY <1>1, <1>9, <1>10

-----------------------------------------------------------------------------
(* What the steps leave as it was.                                         *)

PlaceIn(units, tag) == SelectInSeq(units, LAMBDA u : u.tag = tag)

(* The units of the process stay. *)
LEMMA SheetStays ==
    ASSUME sheet' = sheet
    PROVE  SheetTags' = SheetTags /\ \A tag : Position(tag)' = Position(tag)
<1>1. SheetTags' = SheetTags
  BY DEF SheetTags
<1>2. ASSUME NEW tag PROVE Position(tag)' = Position(tag)
  <2>1. Position(tag) = PlaceIn(sheet.units, tag)
    BY Zenon DEF Position, PlaceIn
  <2>2. Position(tag)' = PlaceIn(sheet'.units, tag)
    BY Zenon DEF Position, PlaceIn, SelectInSeq
  <2> QED
    BY <2>1, <2>2, Zenon
<1> QED
  BY <1>1, <1>2, Zenon

(* So what was said of a list of streams can be said of it afterwards. *)
LEMMA ListedStays ==
    ASSUME sheet' = sheet, NEW list, streams' = list, Listed(list)
    PROVE  Listed(streams)'
BY SheetStays DEF Listed

(* See ListedStays. *)
LEMMA KeptStays ==
    ASSUME sheet' = sheet, origin' = origin, NEW list, streams' = list,
           NEW u, KeptOnce(list, u)
    PROVE  KeptOnce(streams, u)'
<1>1. Before(streams, u)' = Before(list, u)
  <2>1. Before(streams, u)' = {t \in DOMAIN origin' : SourceIn(streams', t) = u}
    BY Zenon DEF Before
  <2> QED
    BY <2>1 DEF Before
<1>2. Remaining(streams, u)' = Remaining(list, u)
  <2>1. Remaining(streams, u)' = {s \in ToSet(streams') : s.recycle /\ s.src = u}
    BY Zenon DEF Remaining
  <2> QED
    BY <2>1 DEF Remaining
<1> DEFINE B == Before(list, u)
           R == Remaining(list, u)
<1>3. (B # {} => Cardinality(R) = 1)
      /\ \A s \in R, t \in B : Position(origin[t]) < Position(u) => Position(s.target) < Position(u)
  BY Zenon DEF KeptOnce
<1>4. \A s \in R, t \in B :
         /\ (Position(origin[t]))' = Position(origin[t])
         /\ Position(u)' = Position(u) /\ Position(s.target)' = Position(s.target)
  <2>1. \A x : Position(x)' = Position(x)
    BY SheetStays, Zenon
  <2>2. \A t : (Position(origin[t]))' = Position(origin[t])
    <3> TAKE t
    <3>1. (Position(origin[t]))' = PlaceIn(sheet'.units, origin'[t])
      BY Zenon DEF Position, PlaceIn, SelectInSeq
    <3>2. Position(origin[t]) = PlaceIn(sheet.units, origin[t])
      BY Zenon DEF Position, PlaceIn
    <3> QED
      BY <3>1, <3>2, Zenon
  <2> QED
    BY <2>1, <2>2, Zenon
<1> HIDE DEF B, R
<1>5. (B # {} => Cardinality(R) = 1)
      /\ \A s \in R, t \in B :
            (Position(origin[t]))' < Position(u)' => Position(s.target)' < Position(u)'
  BY <1>3, <1>4
<1>6. Before(streams, u)' = B /\ Remaining(streams, u)' = R
  BY <1>1, <1>2 DEF B, R
<1> QED
  BY <1>5, <1>6, Zenon DEF KeptOnce

(* What is said of the topology once the guards have run. *)
LEMMA TopologyStays ==
    ASSUME AssemblyInv, pc \notin {"extract", "guards"}, pc' \notin {"extract", "guards"},
           sheet' = sheet, streams' = streams, origin' = origin
    PROVE  TopologyOK' /\ GuardedOK'
<1>1. sheet' \in Sheets /\ Listed(streams)'
  BY ListedStays DEF AssemblyInv, TopologyOK
<1>2. ASSUME sheet'.trigger, NEW u \in SheetTags' PROVE KeptOnce(streams, u)'
  <2>1. u \in SheetTags /\ sheet.trigger
    BY <1>2, SheetStays
  <2>2. KeptOnce(streams, u)
    BY <2>1 DEF AssemblyInv, GuardedOK
  <2> QED
    BY <2>2, KeptStays
<1> QED
  BY <1>1, <1>2 DEF TopologyOK, GuardedOK

(* What is said of the graph when a pass has changed it. *)
LEMMA GraphCarried ==
    ASSUME GraphOK(graph), Carries(graph), Keeps(graph, graph'), streams' = streams
    PROVE  GraphOK(graph)' /\ Carries(graph)'
<1>1. GraphOK(graph') /\ Carries(graph')
  BY CarriesOn
<1> QED
  BY <1>1 DEF GraphOK, Carries

(* A graph, its topology and its flowsheet left as they are. *)
LEMMA GraphStays ==
    ASSUME AssemblyInv, graph' = graph, streams' = streams, pc \in HasGraph,
           pc' \notin {"extract", "guards", "build"}
    PROVE  GraphSound'
<1>1. GraphOK(graph) /\ Carries(graph)
  BY DEF AssemblyInv, GraphSound
<1>2. GraphOK(graph)' /\ Carries(graph)'
  BY <1>1 DEF GraphOK, Carries
<1> QED
  BY <1>2 DEF GraphSound

-----------------------------------------------------------------------------
(* The steps.                                                              *)

(* The initial state satisfies the invariant. *)
LEMMA AssemblyInit ==
    ASSUME Init
    PROVE  AssemblyInv
<1>1. CountsOK
  BY TriesAssumption DEF Init, CountsOK, Stages
<1>2. IsSequence(<<>>) /\ DOMAIN <<>> = {}
  <2>1. <<>> \in Seq({})
    OBVIOUS
  <2>2. DOMAIN <<>> = {}
    OBVIOUS
  <2> QED
    BY <2>1, <2>2, Zenon DEF IsSequence
<1>3. TopologyOK
  BY <1>2 DEF Init, TopologyOK, Listed
<1> QED
  BY <1>1, <1>3 DEF Init, AssemblyInv, GuardedOK, GraphSound, FlowsheetOK, HasGraph

(* Extract. *)
LEMMA ExtractStep ==
    ASSUME AssemblyInv, Extract
    PROVE  AssemblyInv'
<1>1. /\ pc = "extract" /\ sheet \in Sheets /\ sheet' = sheet
      /\ streams = <<>> /\ origin = <<>> /\ tries \in 0..MaxTries /\ tries < MaxTries
      /\ repairs \in 0..MaxRepairs /\ Listed(streams)
      /\ graph' = graph /\ flowsheet' = flowsheet /\ repairs' = repairs
      /\ graph = None /\ flowsheet = None /\ repairs = 0
  BY DEF AssemblyInv, CountsOK, TopologyOK, GraphSound, FlowsheetOK, NotYetSolved, Extract, given
<1>2. PICK reply \in sheet.replies :
        LET list == ReconcileRefs(DedupeTags(reply))
        IN  IF reply # None /\ Acceptable(list)
              THEN /\ streams' = list
                   /\ origin' = [t \in {list[i].tag : i \in {j \in DOMAIN list : list[j].recycle}}
                                   |-> (CHOOSE s \in ToSet(list) : s.tag = t).target]
                   /\ pc' = "guards"
                   /\ UNCHANGED <<tries, outcome>>
              ELSE /\ tries' = tries + 1
                   /\ IF tries' = MaxTries
                        THEN pc' = "done" /\ outcome' = "PLAN_FAILED"
                        ELSE UNCHANGED <<pc, outcome>>
                   /\ UNCHANGED <<streams, origin>>
  BY Zenon DEF Extract
<1> DEFINE list == ReconcileRefs(DedupeTags(reply))
<1>3. CASE reply # None /\ Acceptable(list)
  <2>1. /\ streams' = list
        /\ origin' = [t \in {list[i].tag : i \in {j \in DOMAIN list : list[j].recycle}}
                        |-> (CHOOSE s \in ToSet(list) : s.tag = t).target]
        /\ pc' = "guards" /\ tries' = tries
    BY <1>2, <1>3, Zenon
  <2>2. Listed(list)
    <3>1. IsSequence(list) /\ \A i \in DOMAIN list : Placed(list[i], SheetTags)
      BY <1>1, <1>3, ReplyPlaced, Zenon
    <3>2. \A i, j \in DOMAIN list : list[i].tag = list[j].tag => i = j
      BY <1>3, Zenon DEF Acceptable
    <3> QED
      BY <3>1, <3>2, Zenon DEF Listed
  <2>3. Acceptable(list)
    BY <1>3
  <2> HIDE DEF list
  <2>4. Recorded(streams)'
    BY <1>1, <2>1, <2>3, RecordedAfter, SheetStays, Zenon
  <2>5. Listed(streams)'
    BY <1>1, <2>1, <2>2, ListedStays
  <2>6. CountsOK'
    BY <1>1, <2>1 DEF CountsOK, Stages
  <2>7. TopologyOK'
    BY <1>1, <2>1, <2>4, <2>5 DEF TopologyOK
  <2>8. GuardedOK' /\ GraphSound' /\ FlowsheetOK'
    BY <1>1, <2>1 DEF GuardedOK, GraphSound, FlowsheetOK, HasGraph, NotYetSolved
  <2> QED
    BY <2>6, <2>7, <2>8 DEF AssemblyInv
<1>4. CASE ~(reply # None /\ Acceptable(list))
  <2>1. /\ tries' = tries + 1 /\ streams' = streams /\ origin' = origin
        /\ pc' = IF tries' = MaxTries THEN "done" ELSE pc
    <3>1. CASE reply = None
      BY <1>2, <3>1, Zenon
    <3>2. CASE reply # None
      BY <1>2, <1>4, <3>2, Zenon
    <3> QED
      BY <3>1, <3>2
  <2>2. CountsOK'
    BY <1>1, <2>1, TriesAssumption DEF CountsOK, Stages
  <2>3. Listed(streams)'
    BY <1>1, <2>1, ListedStays
  <2>4. pc' \in {"done", "extract"}
    BY <1>1, <2>1
  <2>5. TopologyOK'
    BY <1>1, <2>1, <2>3, <2>4 DEF TopologyOK
  <2>6. \A u : KeptOnce(streams, u)'
    <3> TAKE u
    <3>1. Before(streams, u)' = {} /\ Remaining(streams, u)' = {}
      BY <1>1, <2>1 DEF Before, Remaining, ToSet
    <3> QED
      BY <3>1, Zenon DEF KeptOnce
  <2>7. GuardedOK'
    BY <2>6, Zenon DEF GuardedOK
  <2>8. GraphSound' /\ FlowsheetOK'
    BY <1>1, <2>4 DEF GraphSound, FlowsheetOK, HasGraph, NotYetSolved
  <2> QED
    BY <2>2, <2>5, <2>7, <2>8 DEF AssemblyInv
<1> QED
  BY <1>3, <1>4

(* Guards. *)
LEMMA GuardsStep ==
    ASSUME AssemblyInv, Guards
    PROVE  AssemblyInv'
<1>1. /\ pc = "guards" /\ pc' = "build" /\ sheet \in Sheets /\ sheet' = sheet
      /\ Listed(streams) /\ Recorded(streams)
      /\ graph = None /\ flowsheet = None /\ repairs = 0
      /\ origin' = origin /\ tries' = tries /\ graph' = graph /\ flowsheet' = flowsheet
      /\ repairs' = repairs
  BY DEF AssemblyInv, TopologyOK, GraphSound, FlowsheetOK, NotYetSolved, Guards, given
<1>2. streams' = Guarding(streams)
  BY Zenon DEF Guards, Guarding
<1>3. Listed(Guarding(streams))
  BY <1>1, GuardsKeep
<1>4. sheet.trigger => \A u \in SheetTags : KeptOnce(Guarding(streams), u)
  BY <1>1, GuardsKeepOne
<1> DEFINE list == Guarding(streams)
<1>5. streams' = list /\ Listed(list) /\ (sheet.trigger => \A u \in SheetTags : KeptOnce(list, u))
  BY <1>2, <1>3, <1>4
<1> HIDE DEF list
<1>6. Listed(streams)'
  BY <1>1, <1>5, ListedStays
<1>7. ASSUME sheet'.trigger, NEW u \in SheetTags' PROVE KeptOnce(streams, u)'
  <2>1. u \in SheetTags /\ sheet.trigger
    BY <1>1, <1>7, SheetStays
  <2>2. KeptOnce(list, u)
    BY <1>5, <2>1
  <2> QED
    BY <1>1, <1>5, <2>2, KeptStays, Zenon
<1>8. TopologyOK'
  BY <1>1, <1>6 DEF TopologyOK
<1>9. GuardedOK'
  BY <1>7, Zenon DEF GuardedOK
<1>10. CountsOK'
  BY <1>1 DEF AssemblyInv, CountsOK, Stages
<1>11. GraphSound' /\ FlowsheetOK'
  BY <1>1 DEF GraphSound, FlowsheetOK, HasGraph, NotYetSolved
<1> QED
  BY <1>8, <1>9, <1>10, <1>11 DEF AssemblyInv

(* Build. *)
LEMMA BuildStep ==
    ASSUME AssemblyInv, Build
    PROVE  AssemblyInv'
<1>1. /\ pc = "build" /\ sheet \in Sheets /\ sheet' = sheet /\ Listed(streams)
      /\ graph = None /\ flowsheet = None /\ repairs = 0
      /\ origin' = origin /\ tries' = tries /\ streams' = streams
      /\ flowsheet' = flowsheet /\ repairs' = repairs
  BY DEF AssemblyInv, TopologyOK, GraphSound, FlowsheetOK, NotYetSolved, Build, given, stage1
<1>2. \/ pc' = "crash" /\ graph' = graph
      \/ pc' = "validate" /\ graph' = Normalise(Built(streams))
  BY Zenon DEF Build
<1>3. TopologyOK' /\ GuardedOK'
  BY <1>1, <1>2, TopologyStays
<1>4. CountsOK'
  BY <1>1, <1>2 DEF AssemblyInv, CountsOK, Stages
<1>5. FlowsheetOK'
  BY <1>1, <1>2 DEF FlowsheetOK, NotYetSolved
<1>6. GraphSound'
  <2>1. CASE pc' = "crash" /\ graph' = graph
    BY <1>1, <2>1 DEF GraphSound, HasGraph
  <2>2. CASE pc' = "validate" /\ graph' = Normalise(Built(streams))
    <3>1. GraphOK(Built(streams)) /\ Carries(Built(streams))
      BY <1>1, BuiltIs
    <3>2. GraphOK(Normalise(Built(streams))) /\ Carries(Normalise(Built(streams)))
      BY <3>1, NormaliseKeeps, CarriesOn, Zenon
    <3>3. GraphOK(graph') /\ Carries(graph')
      BY <2>2, <3>2, Zenon
    <3>4. GraphOK(graph)' /\ Carries(graph)'
      BY <1>1, <3>3 DEF GraphOK, Carries
    <3> QED
      BY <2>2, <3>4 DEF GraphSound
  <2> QED
    BY <1>2, <2>1, <2>2
<1> QED
  BY <1>3, <1>4, <1>5, <1>6 DEF AssemblyInv

(* Validate. *)
LEMMA ValidateStep ==
    ASSUME AssemblyInv, Validate
    PROVE  AssemblyInv'
<1>1. /\ pc = "validate" /\ pc' \in {"map", "topology_repair", "done"} /\ sheet' = sheet
      /\ flowsheet = None /\ repairs = 0
      /\ origin' = origin /\ tries' = tries /\ streams' = streams /\ graph' = graph
      /\ flowsheet' = flowsheet /\ repairs' = repairs
  BY DEF AssemblyInv, FlowsheetOK, NotYetSolved, Validate, given, stage1
<1>2. TopologyOK' /\ GuardedOK'
  BY <1>1, TopologyStays
<1>3. CountsOK'
  BY <1>1 DEF AssemblyInv, CountsOK, Stages
<1>4. FlowsheetOK'
  BY <1>1 DEF FlowsheetOK, NotYetSolved
<1>5. GraphSound'
  BY <1>1, GraphStays DEF HasGraph
<1> QED
  BY <1>2, <1>3, <1>4, <1>5 DEF AssemblyInv

(* TopologyRepair. *)
LEMMA TopologyRepairStep ==
    ASSUME AssemblyInv, TopologyRepair
    PROVE  AssemblyInv'
<1>1. /\ pc = "topology_repair" /\ pc' \in {"map", "repair", "done"} /\ sheet' = sheet
      /\ flowsheet = None /\ repairs = 0 /\ GraphOK(graph) /\ Carries(graph)
      /\ origin' = origin /\ tries' = tries /\ streams' = streams
      /\ flowsheet' = flowsheet /\ repairs' = repairs /\ graph' \in RepairedTopologies
  BY DEF AssemblyInv, GraphSound, HasGraph, FlowsheetOK, NotYetSolved, TopologyRepair,
         given, stage1
<1>2. TopologyOK' /\ GuardedOK'
  BY <1>1, TopologyStays
<1>3. CountsOK'
  BY <1>1 DEF AssemblyInv, CountsOK, Stages
<1>4. FlowsheetOK'
  BY <1>1 DEF FlowsheetOK, NotYetSolved
<1>5. \A h \in RepairedTopologies : Keeps(graph, h)
  BY <1>1, TopologyRepairKeeps
<1>6. Keeps(graph, graph')
  BY <1>1, <1>5
<1>7. GraphSound'
  BY <1>1, <1>6, GraphCarried DEF GraphSound
<1> QED
  BY <1>2, <1>3, <1>4, <1>7 DEF AssemblyInv

(* Map. *)
LEMMA MapStep ==
    ASSUME AssemblyInv, Map
    PROVE  AssemblyInv'
<1>1. /\ pc = "map" /\ sheet' = sheet
      /\ flowsheet = None /\ repairs = 0 /\ GraphOK(graph) /\ Carries(graph)
      /\ origin' = origin /\ tries' = tries /\ streams' = streams /\ repairs' = repairs
  BY DEF AssemblyInv, GraphSound, HasGraph, FlowsheetOK, NotYetSolved, Map, given, stage1
<1>2. \/ pc' = "done" /\ graph' = graph /\ flowsheet' = flowsheet
      \/ pc' = "done" /\ graph' = Normalise(graph) /\ flowsheet' = flowsheet
      \/ pc' = "solve" /\ graph' = Normalise(graph) /\ flowsheet' = ToDwsim(graph')
  BY Zenon DEF Map
<1>3. TopologyOK' /\ GuardedOK'
  BY <1>1, <1>2, TopologyStays
<1>4. CountsOK'
  BY <1>1, <1>2 DEF AssemblyInv, CountsOK, Stages
<1>5. FlowsheetOK'
  BY <1>1, <1>2 DEF FlowsheetOK, NotYetSolved
<1>6. GraphSound'
  <2>1. CASE graph' = graph
    BY <1>1, <1>2, <2>1, GraphStays DEF HasGraph
  <2>2. CASE graph' = Normalise(graph)
    <3>1. Keeps(graph, graph')
      BY <1>1, <2>2, NormaliseKeeps, Zenon
    <3> QED
      BY <1>1, <1>2, <3>1, GraphCarried DEF GraphSound
  <2> QED
    BY <1>2, <2>1, <2>2
<1> QED
  BY <1>3, <1>4, <1>5, <1>6 DEF AssemblyInv

(* Solve. *)
LEMMA SolveStep ==
    ASSUME AssemblyInv, Solve
    PROVE  AssemblyInv'
<1>1. /\ pc = "solve" /\ sheet' = sheet /\ flowsheet = ToDwsim(graph)
      /\ origin' = origin /\ tries' = tries /\ streams' = streams /\ graph' = graph
      /\ flowsheet' = flowsheet /\ repairs \in 0..MaxRepairs
  BY DEF AssemblyInv, CountsOK, FlowsheetOK, Solve, given, stage1
<1>2. \/ pc' = "done" /\ repairs' = repairs
      \/ repairs < MaxRepairs /\ pc' = "repair" /\ repairs' = repairs + 1
  BY DEF Solve
<1>3. TopologyOK' /\ GuardedOK'
  BY <1>1, <1>2, TopologyStays
<1>4. CountsOK'
  BY <1>1, <1>2, TriesAssumption DEF AssemblyInv, CountsOK, Stages
<1>5. flowsheet' = ToDwsim(graph')
  BY <1>1, Zenon
<1>6. FlowsheetOK'
  BY <1>1, <1>2, <1>5 DEF FlowsheetOK, NotYetSolved
<1>7. GraphSound'
  BY <1>1, <1>2, GraphStays DEF HasGraph
<1> QED
  BY <1>3, <1>4, <1>6, <1>7 DEF AssemblyInv

(* Repair. *)
LEMMA RepairStep ==
    ASSUME AssemblyInv, Repair
    PROVE  AssemblyInv'
<1>1. /\ pc = "repair" /\ pc' = "solve" /\ sheet' = sheet
      /\ GraphOK(graph) /\ Carries(graph)
      /\ origin' = origin /\ tries' = tries /\ streams' = streams /\ repairs' = repairs
      /\ flowsheet' = ToDwsim(graph')
  BY DEF AssemblyInv, GraphSound, HasGraph, Repair, given, stage1
<1>2. PICK repaired \in {graph, Normalise(graph), FixPorts(graph)} : graph' = Normalise(repaired)
  BY Zenon DEF Repair
<1>3. TopologyOK' /\ GuardedOK'
  BY <1>1, TopologyStays
<1>4. CountsOK'
  BY <1>1 DEF AssemblyInv, CountsOK, Stages
<1>5. FlowsheetOK'
  BY <1>1 DEF FlowsheetOK, NotYetSolved
<1>6. Keeps(graph, repaired)
  BY <1>1, <1>2, KeepsRefl, NormaliseKeeps, FixPortsKeep, Zenon
<1>7. Keeps(repaired, Normalise(repaired))
  BY <1>6, NormaliseKeeps, Zenon DEF Keeps
<1>8. Keeps(graph, graph')
  BY <1>2, <1>6, <1>7, KeepsTrans, Zenon
<1>9. GraphSound'
  BY <1>1, <1>8, GraphCarried DEF GraphSound
<1> QED
  BY <1>3, <1>4, <1>5, <1>9 DEF AssemblyInv

(* A step that changes nothing. *)
LEMMA AssemblyStutter ==
    ASSUME AssemblyInv, UNCHANGED vars
    PROVE  AssemblyInv'
<1>1. /\ pc' = pc /\ sheet' = sheet /\ tries' = tries /\ streams' = streams /\ origin' = origin
      /\ graph' = graph /\ flowsheet' = flowsheet /\ repairs' = repairs
  BY DEF vars, given, stage1
<1>2. CountsOK'
  BY <1>1 DEF AssemblyInv, CountsOK
<1>3. Listed(streams)'
  BY <1>1, ListedStays DEF AssemblyInv, TopologyOK
<1>4. Recorded(streams) => Recorded(streams)'
  BY <1>1, SheetStays DEF Recorded
<1>5. TopologyOK'
  BY <1>1, <1>3, <1>4 DEF AssemblyInv, TopologyOK
<1>6. ASSUME pc \notin {"extract", "guards"}, sheet'.trigger, NEW u \in SheetTags'
      PROVE  KeptOnce(streams, u)'
  <2>1. u \in SheetTags /\ sheet.trigger
    BY <1>1, <1>6, SheetStays
  <2>2. KeptOnce(streams, u)
    BY <1>6, <2>1 DEF AssemblyInv, GuardedOK
  <2> QED
    BY <1>1, <2>2, KeptStays
<1>7. GuardedOK'
  BY <1>1, <1>6 DEF GuardedOK
<1>8. GraphSound'
  BY <1>1 DEF AssemblyInv, GraphSound, GraphOK, Carries
<1>9. ToDwsim(graph') = ToDwsim(graph)
  BY <1>1, Zenon
<1>10. FlowsheetOK'
  BY <1>1, <1>9 DEF AssemblyInv, FlowsheetOK
<1> QED
  BY <1>2, <1>5, <1>7, <1>8, <1>10 DEF AssemblyInv

(* The invariant holds in every reachable state. *)
THEOREM AssemblyInvariance == Spec => []AssemblyInv
<1>1. Init => AssemblyInv
  BY AssemblyInit
<1>2. AssemblyInv /\ [Next]_vars => AssemblyInv'
  BY ExtractStep, GuardsStep, BuildStep, ValidateStep, TopologyRepairStep, MapStep, SolveStep,
     RepairStep, AssemblyStutter DEF Next
<1> QED
  BY <1>1, <1>2, PTL DEF Spec

(* Whatever the model replies and whatever the passes insert, split or     *)
(* rewire, every stream of the graph runs between units of the graph, with *)
(* a port and a phase, and the flowsheet is that of the graph.             *)
THEOREM AssemblyTypeCorrect == Spec => []TypeOK
<1>1. AssemblyInv => TypeOK
  <2> SUFFICES ASSUME AssemblyInv PROVE TypeOK
    OBVIOUS
  <2>1. pc \in Stages /\ tries \in 0..MaxTries /\ repairs \in 0..MaxRepairs
    BY DEF AssemblyInv, CountsOK
  <2>2. ASSUME graph # None, NEW s \in ToSet(graph.streams)
        PROVE  /\ {s.src, s.dst} \subseteq UnitTags(graph) \cup {None}
               /\ s.port \in Nat /\ s.phase \in Phases
    <3>1. GraphOK(graph)
      BY <2>2 DEF AssemblyInv, GraphSound
    <3> QED
      BY <3>1, StreamOf DEF Placed, IsStream
  <2>3. flowsheet # None \/ pc = "solve" \/ repairs > 0 => flowsheet.units = UnitTags(graph)
    <3>1. ToDwsim(graph).units = UnitTags(graph)
      BY DEF ToDwsim
    <3> QED
      BY <3>1 DEF AssemblyInv, FlowsheetOK
  <2> QED
    BY <2>1, <2>2, <2>3, Zenon DEF TypeOK
<1> QED
  BY <1>1, AssemblyInvariance, PTL

(* Where the description speaks of a recycle the guards leave exactly one  *)
(* to every unit that had any, an upstream one if there was one, and it is *)
(* a recycle block of the flowsheet in the end, however often normalise,   *)
(* the topology repair and the port repair have run.                       *)
THEOREM RecyclesAreKept == Spec => []RecycleKept
<1>1. AssemblyInv => RecycleKept
  <2> SUFFICES ASSUME AssemblyInv, pc \notin {"extract", "guards"}, sheet.trigger,
                      NEW u \in SheetTags
               PROVE  LET before == {t \in DOMAIN origin : SourceOf(t) = u}
                          kept == {s \in ToSet(streams) : s.recycle /\ s.src = u}
                      IN  /\ before # {} => Cardinality(kept) = 1
                          /\ \A s \in kept, t \in before :
                                Position(origin[t]) < Position(u) => Position(s.target) < Position(u)
                          /\ flowsheet # None => \A s \in kept : <<s.tag, Sent(s)>> \in flowsheet.blocks
    BY Zenon DEF RecycleKept
  <2> DEFINE before == {t \in DOMAIN origin : SourceOf(t) = u}
             kept == {s \in ToSet(streams) : s.recycle /\ s.src = u}
  <2>1. before = Before(streams, u) /\ kept = Remaining(streams, u)
    <3>1. \A t : SourceOf(t) = SourceIn(streams, t)
      BY Zenon DEF SourceOf, SourceIn
    <3> QED
      BY <3>1 DEF Before, Remaining
  <2>2. KeptOnce(streams, u)
    BY DEF AssemblyInv, GuardedOK
  <2>3. ASSUME flowsheet # None, NEW s \in kept PROVE <<s.tag, Sent(s)>> \in flowsheet.blocks
    <3>1. flowsheet = ToDwsim(graph)
      BY <2>3 DEF AssemblyInv, FlowsheetOK
    <3>2. PICK i \in DOMAIN streams : s = streams[i] /\ s.recycle
      BY <2>3 DEF ToSet
    <3>3. GraphOK(graph) /\ Carries(graph)
      BY <2>3 DEF AssemblyInv, GraphSound
    <3> DEFINE x == graph.streams[i]
    <3>4. x \in ToSet(graph.streams) /\ x.tag = s.tag /\ x.recycle
      <4>1. i \in DOMAIN graph.streams
        BY <3>3 DEF Carries
      <4> QED
        BY <3>2, <3>3, <4>1 DEF Carries, ToSet
    <3> HIDE DEF x
    <3>5. x \in Recycles(graph)
      BY <3>4, Zenon DEF Recycles
    <3>6. Sent(x) = Sent(s)
      BY <3>2, <3>4, Zenon DEF Sent
    <3>7. <<x.tag, Sent(x)>> \in ToDwsim(graph).blocks
      <4>1. ToDwsim(graph).blocks = {<<y.tag, Sent(y)>> : y \in Recycles(graph)}
        BY DEF ToDwsim
      <4> QED
        BY <3>5, <4>1, Zenon
    <3> QED
      BY <3>1, <3>4, <3>6, <3>7, Zenon
  <2> HIDE DEF before, kept
  <2>4. before # {} => Cardinality(kept) = 1
    BY <2>1, <2>2, Zenon DEF KeptOnce
  <2>5. \A s \in kept, t \in before :
           Position(origin[t]) < Position(u) => Position(s.target) < Position(u)
    BY <2>1, <2>2, Zenon DEF KeptOnce
  <2> QED
    BY <2>3, <2>4, <2>5, Zenon DEF before, kept
<1> QED
  BY <1>1, AssemblyInvariance, PTL

-----------------------------------------------------------------------------
(* The connections of a valid graph.  That every name stands for one thing *)
(* is assumed here: it is a fact about strings.                            *)

Apart(g) == \A m, n \in Names(g) : m.name = n.name => m = n

(* Streams with one tag are one stream, and no name of a stream, of an     *)
(* initial guess or of a dead end is one of another kind.                  *)
LEMMA NamesTell ==
    ASSUME NEW g, Apart(g)
    PROVE  /\ \A i, j \in DOMAIN g.streams : g.streams[i].tag = g.streams[j].tag => i = j
           /\ \A i \in DOMAIN g.streams, k \in DOMAIN g.units : g.streams[i].tag # g.units[k].tag
           /\ \A i \in DOMAIN g.streams, k \in DOMAIN g.units :
                 g.streams[i].recycle => Sent(g.streams[i]) # g.units[k].tag
           /\ \A i, j \in DOMAIN g.streams :
                 g.streams[i].recycle => Sent(g.streams[i]) # g.streams[j].tag
           /\ \A d \in OpenOutlets(g), k \in DOMAIN g.units : d[2] # g.units[k].tag
           /\ \A d \in OpenOutlets(g), i \in DOMAIN g.streams : d[2] # g.streams[i].tag
           /\ \A d \in OpenOutlets(g), i \in DOMAIN g.streams :
                 g.streams[i].recycle => d[2] # Sent(g.streams[i])
<1> DEFINE Unit(k) == [kind |-> "unit", of |-> k, name |-> g.units[k].tag]
           Str(i) == [kind |-> "stream", of |-> i, name |-> g.streams[i].tag]
           Guess(i) == [kind |-> "init", of |-> i, name |-> Sent(g.streams[i])]
           End(d) == [kind |-> "end", of |-> <<d[1], d[3]>>, name |-> d[2]]
<1>1. /\ \A k \in DOMAIN g.units : Unit(k) \in Names(g)
      /\ \A i \in DOMAIN g.streams : Str(i) \in Names(g)
      /\ \A i \in DOMAIN g.streams : g.streams[i].recycle => Guess(i) \in Names(g)
      /\ \A d \in OpenOutlets(g) : End(d) \in Names(g)
  BY Zenon DEF Names
<1>2. /\ \A k : Unit(k).name = g.units[k].tag /\ Unit(k).kind = "unit"
      /\ \A i : Str(i).name = g.streams[i].tag /\ Str(i).kind = "stream" /\ Str(i).of = i
      /\ \A i : Guess(i).name = Sent(g.streams[i]) /\ Guess(i).kind = "init"
      /\ \A d : End(d).name = d[2] /\ End(d).kind = "end"
  OBVIOUS
<1>3. \A m, n \in Names(g) : m.name = n.name => m = n
  BY DEF Apart
<1> HIDE DEF Unit, Str, Guess, End
<1>4. ASSUME NEW m \in Names(g), NEW n \in Names(g), m.kind # n.kind PROVE m.name # n.name
  BY <1>3, <1>4
<1>5. ASSUME NEW i \in DOMAIN g.streams, NEW j \in DOMAIN g.streams,
             g.streams[i].tag = g.streams[j].tag
      PROVE  i = j
  <2>1. Str(i) \in Names(g) /\ Str(j) \in Names(g) /\ Str(i).name = Str(j).name
    BY <1>1, <1>2, <1>5, Zenon
  <2>2. Str(i) = Str(j)
    BY <1>3, <2>1, Zenon
  <2>3. Str(i).of = i /\ Str(j).of = j
    BY <1>2, Zenon
  <2> QED
    BY <2>2, <2>3
<1>6. \A i \in DOMAIN g.streams, k \in DOMAIN g.units : g.streams[i].tag # g.units[k].tag
  BY <1>1, <1>2, <1>4
<1>7. \A i \in DOMAIN g.streams, k \in DOMAIN g.units :
         g.streams[i].recycle => Sent(g.streams[i]) # g.units[k].tag
  BY <1>1, <1>2, <1>4
<1>8. \A i, j \in DOMAIN g.streams :
         g.streams[i].recycle => Sent(g.streams[i]) # g.streams[j].tag
  BY <1>1, <1>2, <1>4
<1>9. \A d \in OpenOutlets(g), k \in DOMAIN g.units : d[2] # g.units[k].tag
  BY <1>1, <1>2, <1>4
<1>10. \A d \in OpenOutlets(g), i \in DOMAIN g.streams : d[2] # g.streams[i].tag
  BY <1>1, <1>2, <1>4
<1>11. \A d \in OpenOutlets(g), i \in DOMAIN g.streams :
          g.streams[i].recycle => d[2] # Sent(g.streams[i])
  BY <1>1, <1>2, <1>4
<1> QED
  BY <1>5, <1>6, <1>7, <1>8, <1>9, <1>10, <1>11

(* A connection leaves a unit for a stream, brings a stream to a unit, or  *)
(* leaves a reactor for a dead end.                                        *)
Leaves(g, w, i) == g.streams[i].src # None
                   /\ w = <<g.streams[i].src, g.streams[i].tag, g.streams[i].port, 0>>
Enters(g, w, i) == g.streams[i].dst # None
                   /\ w = <<Sent(g.streams[i]), g.streams[i].dst, 0, InletPort(g, i)>>

(* See Leaves and Enters; which of them it is shows at its unit end. *)
LEMMA WireKinds ==
    ASSUME NEW g, GraphOK(g), Apart(g), NEW w \in ToDwsim(g).wires
    PROVE  /\ \/ w \in OpenOutlets(g)
              \/ \E i \in DOMAIN g.streams : Leaves(g, w, i) \/ Enters(g, w, i)
           /\ w[1] \in UnitTags(g) =>
                 w \in OpenOutlets(g) \/ \E i \in DOMAIN g.streams : Leaves(g, w, i)
           /\ w[2] \in UnitTags(g) => \E i \in DOMAIN g.streams : Enters(g, w, i)
<1>1. w \in Wires(g) \cup OpenOutlets(g)
  BY DEF ToDwsim
<1>2. \/ w \in OpenOutlets(g)
      \/ \E i \in DOMAIN g.streams : Leaves(g, w, i) \/ Enters(g, w, i)
  BY <1>1 DEF Wires, Leaves, Enters, ToSet
<1>3. \A u \in UnitTags(g) : \E k \in DOMAIN g.units : u = g.units[k].tag
  BY DEF UnitTags, ToSet
<1>4. ASSUME NEW i \in DOMAIN g.streams, Enters(g, w, i), w[1] \in UnitTags(g) PROVE FALSE
  <2>1. w[1] = Sent(g.streams[i])
    BY <1>4 DEF Enters
  <2> QED
    BY <1>3, <1>4, <2>1, NamesTell DEF Sent
<1>5. ASSUME NEW i \in DOMAIN g.streams, Leaves(g, w, i), w[2] \in UnitTags(g) PROVE FALSE
  <2>1. w[2] = g.streams[i].tag
    BY <1>5 DEF Leaves
  <2> QED
    BY <1>3, <1>5, <2>1, NamesTell
<1>6. ASSUME w \in OpenOutlets(g), w[2] \in UnitTags(g) PROVE FALSE
  BY <1>3, <1>6, NamesTell
<1> QED
  BY <1>2, <1>4, <1>5, <1>6

(* The unit a tag names, and its type. *)
LEMMA TypeIs ==
    ASSUME NEW g, NEW tag \in UnitTags(g)
    PROVE  \E u \in ToSet(g.units) : u.tag = tag /\ u.type = TypeOf(g, tag)
BY DEF UnitTags, TypeOf

(* A set of indices that contains another and one more is larger. *)
LEMMA MoreIndices ==
    ASSUME NEW n \in Nat, NEW S \in SUBSET (1..n), NEW T \in SUBSET S, NEW x \in S, x \notin T
    PROVE  Cardinality(T) # Cardinality(S)
<1>1. IsFiniteSet(1..n)
  BY FS_Interval
<1>2. IsFiniteSet(S)
  BY <1>1, FS_Subset
<1> QED
  BY <1>2, FS_Subset

(* Every outlet port is used once. *)
LEMMA SourcesApart ==
    ASSUME NEW g, GraphOK(g), Apart(g), Valid(g),
           NEW w \in ToDwsim(g).wires, NEW x \in ToDwsim(g).wires,
           w[1] \in UnitTags(g), w[1] = x[1], w[3] = x[3]
    PROVE  w = x
<1>1. \A d \in OpenOutlets(g) : \A i \in DOMAIN g.streams :
         \A y : Leaves(g, y, i) => ~(y[1] = d[1] /\ y[3] = d[3])
  <2>1. \A y : \A i \in DOMAIN g.streams : Leaves(g, y, i) => y \in Wires(g)
    BY DEF Wires, Leaves, ToSet
  <2> QED
    BY <2>1 DEF OpenOutlets
<1>2. \A d, e \in OpenOutlets(g) : d[1] = e[1] /\ d[3] = e[3] => d = e
  <2> SUFFICES ASSUME NEW d \in DeadEnds(g), NEW e \in DeadEnds(g), d[1] = e[1], d[3] = e[3]
               PROVE  d = e
    BY DEF OpenOutlets
  <2> DEFINE End(u, p) == <<u, u \o "-OUT" \o ToString(p), p, 0>>
  <2>1. ASSUME NEW y \in DeadEnds(g) PROVE y = End(y[1], y[3])
    <3> HIDE DEF End
    <3>1. DeadEnds(g) = {End(u, p) : u \in {a.tag : a \in {b \in ToSet(g.units) :
                                         b.type = "ConversionReactor"}}, p \in {0, 1}}
      BY DEF DeadEnds, End
    <3>2. PICK u, p : y = End(u, p)
      BY <3>1
    <3>3. y = <<u, u \o "-OUT" \o ToString(p), p, 0>>
      BY <3>2 DEF End
    <3>4. y[1] = u /\ y[3] = p
      BY <3>3
    <3> QED
      BY <3>2, <3>4, Zenon
  <2> HIDE DEF End
  <2> QED
    BY <2>1
<1>3. ASSUME NEW i \in DOMAIN g.streams, NEW j \in DOMAIN g.streams,
             Leaves(g, w, i), Leaves(g, x, j)
      PROVE  w = x
  <2> DEFINE s == g.streams[i]
             t == g.streams[j]
  <2>1. s \in ToSet(g.streams) /\ t \in ToSet(g.streams)
    BY DEF ToSet
  <2>2. s.src # None /\ s.src = t.src /\ s.port = t.port
    BY <1>3 DEF Leaves
  <2>3. s = t
    BY <2>1, <2>2 DEF Valid, PortsDistinct
  <2> QED
    BY <1>3, <2>3 DEF Leaves
<1>4. w \in OpenOutlets(g) \/ \E i \in DOMAIN g.streams : Leaves(g, w, i)
  BY WireKinds
<1>5. x \in OpenOutlets(g) \/ \E i \in DOMAIN g.streams : Leaves(g, x, i)
  BY WireKinds
<1> QED
  BY <1>1, <1>2, <1>3, <1>4, <1>5

(* Every inlet port is used once: a unit with one inlet has one, and a     *)
(* mixer numbers its inlets.                                               *)
LEMMA DestinationsApart ==
    ASSUME NEW g, GraphOK(g), Apart(g), Valid(g),
           NEW w \in ToDwsim(g).wires, NEW x \in ToDwsim(g).wires,
           w[2] \in UnitTags(g), w[2] = x[2], w[4] = x[4]
    PROVE  w = x
<1>1. PICK i \in DOMAIN g.streams : Enters(g, w, i)
  BY WireKinds
<1>2. PICK j \in DOMAIN g.streams : Enters(g, x, j)
  BY WireKinds
<1> DEFINE s == g.streams[i]
           t == g.streams[j]
           dst == s.dst
<1>3. s.dst = dst /\ t.dst = dst /\ dst \in UnitTags(g) /\ InletPort(g, i) = InletPort(g, j)
  BY <1>1, <1>2 DEF Enters
<1>4. s \in ToSet(g.streams) /\ t \in ToSet(g.streams)
  BY DEF ToSet
<1>5. PICK u \in ToSet(g.units) : u.tag = dst /\ u.type = TypeOf(g, dst)
  BY <1>3, TypeIs
<1>6. ASSUME s = t PROVE w = x
  <2>1. InletPort(g, i) = InletPort(g, j)
    BY <1>3
  <2> QED
    BY <1>1, <1>2, <1>6, <2>1 DEF Enters
<1>7. CASE MaxInlets(TypeOf(g, dst)) = 1
  <2>1. Cardinality(Inlets(g, dst)) \in 1..1
    BY <1>5, <1>7 DEF Valid, InletsFit
  <2>2. s \in Inlets(g, dst) /\ t \in Inlets(g, dst)
    BY <1>3, <1>4 DEF Inlets
  <2>3. IsFiniteSet(Inlets(g, dst))
    <3>1. Len(g.streams) \in Nat /\ DOMAIN g.streams = 1..Len(g.streams)
      BY SeqFacts DEF GraphOK
    <3>2. ToSet(g.streams) = {g.streams[k] : k \in 1..Len(g.streams)}
      BY <3>1 DEF ToSet
    <3>3. IsFiniteSet(ToSet(g.streams))
      BY <3>1, <3>2, ImageFinite
    <3>4. Inlets(g, dst) \subseteq ToSet(g.streams)
      BY DEF Inlets
    <3> QED
      BY <3>3, <3>4, FS_Subset
  <2>4. s = t
    <3>1. Cardinality(Inlets(g, dst)) = 1
      BY <2>1
    <3>2. PICK y : Inlets(g, dst) = {y}
      BY <2>3, <3>1, FS_Singleton
    <3> QED
      BY <2>2, <3>2
  <2> QED
    BY <1>6, <2>4
<1>8. CASE MaxInlets(TypeOf(g, dst)) # 1
  <2> DEFINE Earlier(k) == {m \in 1..(k - 1) : g.streams[m].dst = dst}
  <2>1. Cardinality(Earlier(i)) = Cardinality(Earlier(j))
    <3>1. InletPort(g, i) = Cardinality(Earlier(i))
      BY <1>3, <1>8, Zenon DEF InletPort
    <3>2. InletPort(g, j) = Cardinality(Earlier(j))
      BY <1>3, <1>8, Zenon DEF InletPort
    <3> QED
      BY <1>3, <3>1, <3>2
  <2>2. DOMAIN g.streams = 1..Len(g.streams) /\ Len(g.streams) \in Nat
    BY SeqFacts DEF GraphOK
  <2>3. ASSUME NEW a \in DOMAIN g.streams, NEW b \in DOMAIN g.streams, a < b,
               g.streams[a].dst = dst
        PROVE  Cardinality(Earlier(a)) # Cardinality(Earlier(b))
    <3>1. Earlier(b) \in SUBSET (1..Len(g.streams)) /\ Earlier(a) \in SUBSET Earlier(b)
          /\ a \in Earlier(b) /\ a \notin Earlier(a)
      BY <2>2, <2>3
    <3> HIDE DEF Earlier
    <3> QED
      BY <2>2, <3>1, MoreIndices
  <2> HIDE DEF Earlier
  <2>4. ~(i < j) /\ ~(j < i)
    BY <1>3, <2>1, <2>3
  <2>5. i = j
    BY <2>2, <2>4
  <2> QED
    BY <1>6, <2>5
<1> QED
  BY <1>7, <1>8

(* A unit that feeds another does so by a stream of the graph that is no   *)
(* recycle.                                                                *)
LEMMA FeedsByStream ==
    ASSUME NEW g, GraphOK(g), Apart(g), NEW u \in UnitTags(g), NEW v \in UnitTags(g),
           Feeds(ToDwsim(g), v, u)
    PROVE  \E s \in Between(g) : ~s.recycle /\ s.src = v /\ s.dst = u
<1>1. PICK w \in ToDwsim(g).wires, x \in ToDwsim(g).wires :
         w[1] = v /\ w[2] = x[1] /\ x[2] = u
  BY DEF Feeds
<1>2. PICK j \in DOMAIN g.streams : Enters(g, x, j)
  BY <1>1, WireKinds
<1> DEFINE t == g.streams[j]
<1>3. w[2] = Sent(t) /\ t.dst = u /\ u # None
  BY <1>1, <1>2 DEF Enters
<1>4. w \notin OpenOutlets(g)
  BY <1>3, NamesTell DEF Sent
<1>5. PICK i \in DOMAIN g.streams : Leaves(g, w, i)
  BY <1>1, <1>4, WireKinds
<1>6. g.streams[i].tag = Sent(t) /\ g.streams[i].src = v /\ v # None
  BY <1>1, <1>3, <1>5 DEF Leaves
<1>7. ~t.recycle
  BY <1>6, NamesTell
<1>8. i = j
  BY <1>6, <1>7, NamesTell DEF Sent
<1>9. t \in ToSet(g.streams)
  BY DEF ToSet
<1> QED
  BY <1>3, <1>6, <1>7, <1>8, <1>9 DEF Between

(* A loop without a recycle would be a set of units every one of which is  *)
(* fed from within.  A least such set is the set of the sources of the     *)
(* streams within it, so these form a cycle.                               *)
StreamsWithin(g, L) == {s \in Between(g) : ~s.recycle /\ s.src \in L /\ s.dst \in L}
FedFromWithin(g, L) == \A u \in L : \E s \in StreamsWithin(g, L) : s.dst = u

(* See FedFromWithin. *)
LEMMA NoLoops ==
    ASSUME NEW g, GraphOK(g), Acyclic(g), NEW L \in SUBSET UnitTags(g), L # {}
    PROVE  ~FedFromWithin(g, L)
<1> SUFFICES ASSUME FedFromWithin(g, L) PROVE FALSE
  OBVIOUS
<1> DEFINE Loops == {M \in SUBSET UnitTags(g) : M # {} /\ FedFromWithin(g, M)}
           Sizes == {Cardinality(M) : M \in Loops}
<1>1. IsFiniteSet(UnitTags(g))
  <2>1. Len(g.units) \in Nat /\ DOMAIN g.units = 1..Len(g.units)
    BY UnitOf
  <2> DEFINE f == [k \in 1..Len(g.units) |-> g.units[k].tag]
  <2>2. UnitTags(g) = {f[k] : k \in 1..Len(g.units)}
    BY <2>1 DEF UnitTags, ToSet
  <2>3. DOMAIN f = 1..Len(g.units)
    OBVIOUS
  <2> HIDE DEF f
  <2> QED
    BY <2>1, <2>2, <2>3, ImageFinite
<1>2. \A M \in Loops : IsFiniteSet(M) /\ Cardinality(M) \in Nat
  BY <1>1, FS_Subset, FS_CardinalityType
<1>3. L \in Loops
  OBVIOUS
<1>4. Sizes # {} /\ Sizes \subseteq Nat
  BY <1>2, <1>3
<1>5. PICK n \in Sizes : \A m \in Sizes : n <= m
  BY <1>4, Filtering!NatMin
<1>6. PICK M \in Loops : Cardinality(M) = n
  OBVIOUS
<1> DEFINE E == StreamsWithin(g, M)
           S == {s.src : s \in E}
<1>7. M \in SUBSET UnitTags(g) /\ M # {} /\ \A u \in M : \E s \in E : s.dst = u
  BY <1>6 DEF FedFromWithin
<1>8. \A s \in E : s \in Between(g) /\ ~s.recycle /\ s.src \in M /\ s.dst \in M
  BY DEF StreamsWithin
<1>9. S \subseteq M /\ S # {}
  BY <1>7, <1>8
<1>10. FedFromWithin(g, S)
  <2> SUFFICES ASSUME NEW u \in S PROVE \E s \in StreamsWithin(g, S) : s.dst = u
    BY DEF FedFromWithin
  <2>1. PICK s \in E : s.dst = u
    BY <1>7, <1>9
  <2>2. s.src \in S
    BY <2>1
  <2> QED
    BY <1>8, <2>1, <2>2 DEF StreamsWithin
<1>11. S = M
  <2>1. S \in Loops
    BY <1>7, <1>9, <1>10
  <2>2. Cardinality(M) <= Cardinality(S)
    BY <1>5, <1>6, <2>1
  <2>3. IsFiniteSet(M) /\ IsFiniteSet(S) /\ Cardinality(M) \in Nat /\ Cardinality(S) \in Nat
    BY <1>2, <1>6, <2>1
  <2>4. S # M => Cardinality(S) < Cardinality(M)
    BY <1>9, <2>3, FS_Subset
  <2> QED
    BY <2>2, <2>3, <2>4
<1>12. {s.dst : s \in E} = M
  BY <1>7, <1>8
<1>13. E # {}
  BY <1>7
<1>14. Closed(E)
  BY <1>11, <1>12, <1>13 DEF Closed
<1>15. E \in SUBSET {s \in Between(g) : ~s.recycle}
  BY <1>8
<1> QED
  BY <1>14, <1>15 DEF Acyclic

(* The connections of a valid graph use every port once, and every loop of *)
(* them passes a recycle block.                                            *)
THEOREM ValidIsSound ==
    ASSUME NEW g, GraphOK(g), Apart(g), Valid(g)
    PROVE  /\ \A w, x \in ToDwsim(g).wires : w # x =>
                 /\ w[1] \in UnitTags(g) => <<w[1], w[3]>> # <<x[1], x[3]>>
                 /\ w[2] \in UnitTags(g) => <<w[2], w[4]>> # <<x[2], x[4]>>
           /\ \A loop \in (SUBSET UnitTags(g)) \ {{}} :
                 \E u \in loop : \A v \in loop : ~Feeds(ToDwsim(g), v, u)
<1>1. ASSUME NEW w \in ToDwsim(g).wires, NEW x \in ToDwsim(g).wires, w # x
      PROVE  /\ w[1] \in UnitTags(g) => <<w[1], w[3]>> # <<x[1], x[3]>>
             /\ w[2] \in UnitTags(g) => <<w[2], w[4]>> # <<x[2], x[4]>>
  <2>1. w[1] \in UnitTags(g) => ~(w[1] = x[1] /\ w[3] = x[3])
    BY <1>1, SourcesApart
  <2>2. w[2] \in UnitTags(g) => ~(w[2] = x[2] /\ w[4] = x[4])
    BY <1>1, DestinationsApart
  <2> QED
    BY <2>1, <2>2
<1>2. ASSUME NEW loop \in (SUBSET UnitTags(g)) \ {{}},
             \A u \in loop : \E v \in loop : Feeds(ToDwsim(g), v, u)
      PROVE  FALSE
  <2>1. FedFromWithin(g, loop)
    <3> SUFFICES ASSUME NEW u \in loop PROVE \E s \in StreamsWithin(g, loop) : s.dst = u
      BY DEF FedFromWithin
    <3>1. PICK v \in loop : Feeds(ToDwsim(g), v, u)
      BY <1>2
    <3>2. PICK s \in Between(g) : ~s.recycle /\ s.src = v /\ s.dst = u
      BY <3>1, FeedsByStream
    <3> QED
      BY <3>2 DEF StreamsWithin
  <2>2. Acyclic(g)
    BY DEF Valid
  <2> QED
    BY <2>1, <2>2, NoLoops
<1> QED
  BY <1>1, <1>2

(* A flowsheet that counts as valid is that of a valid graph. *)
Judged == flowsheet # None /\ valid => Valid(graph)

(* Validation is of the graph the flowsheet is made from: Stage 3 writes   *)
(* no flowsheet it refuses, and a repair judges what it has rewritten.     *)
THEOREM FlowsheetsAreJudged == Spec => []Judged
<1>1. Init => Judged
  BY DEF Init, Judged
<1>2. ASSUME AssemblyInv, Judged, [Next]_vars PROVE Judged'
  <2>1. ASSUME Extract \/ Guards \/ Build \/ Validate \/ TopologyRepair PROVE Judged'
    <3>1. pc \in NotYetSolved /\ flowsheet' = flowsheet
      <4>1. ASSUME Extract PROVE pc = "extract" /\ flowsheet' = flowsheet
        BY <4>1, Zenon DEF Extract
      <4>2. ASSUME Guards \/ Build \/ Validate
            PROVE  pc \in {"guards", "build", "validate"} /\ flowsheet' = flowsheet
        BY <4>2 DEF Guards, Build, Validate
      <4>3. ASSUME TopologyRepair PROVE pc = "topology_repair" /\ flowsheet' = flowsheet
        BY <4>3, Zenon DEF TopologyRepair, stage1
      <4> QED
        BY <2>1, <4>1, <4>2, <4>3 DEF NotYetSolved
    <3>2. flowsheet = None
      BY <1>2, <3>1 DEF AssemblyInv, FlowsheetOK
    <3> QED
      BY <3>1, <3>2 DEF Judged
  <2>2. ASSUME Map PROVE Judged'
    <3>0. pc = "map"
      BY <2>2, Zenon DEF Map
    <3>1. flowsheet = None
      BY <1>2, <3>0 DEF AssemblyInv, FlowsheetOK, NotYetSolved
    <3>2. flowsheet' = flowsheet \/ (valid' => Valid(graph'))
      BY <2>2, Zenon DEF Map
    <3>3. Valid(graph') => Valid(graph)'
      OBVIOUS
    <3> QED
      BY <3>1, <3>2, <3>3 DEF Judged
  <2>3. ASSUME Solve \/ UNCHANGED vars PROVE Judged'
    <3>1. flowsheet' = flowsheet /\ valid' = valid /\ graph' = graph
      BY <2>3 DEF Solve, vars
    <3>2. Valid(graph) => Valid(graph)'
      BY <3>1, Zenon
    <3> QED
      BY <1>2, <3>1, <3>2 DEF Judged
  <2>4. ASSUME Repair PROVE Judged'
    <3>1. valid' = Valid(graph')
      BY <2>4, Zenon DEF Repair
    <3> QED
      BY <3>1, Zenon DEF Judged
  <2> QED
    BY <1>2, <2>1, <2>2, <2>3, <2>4 DEF Next
<1> QED
  BY <1>1, <1>2, AssemblyInvariance, PTL DEF Spec

(* Where every name stands for one thing, a flowsheet that counts as valid *)
(* uses every port once, and every loop of it passes a recycle block,      *)
(* whatever the model replied and however often it has been repaired.      *)
THEOREM FlowsheetsAreSound == Spec /\ []NamesApart => []FlowsheetSound
<1>1. AssemblyInv /\ Judged /\ NamesApart => FlowsheetSound
  <2> SUFFICES ASSUME AssemblyInv, Judged, NamesApart, flowsheet # None, valid
               PROVE  FlowsheetSound
    BY Zenon DEF FlowsheetSound
  <2>1. flowsheet = ToDwsim(graph) /\ GraphOK(graph) /\ Valid(graph)
    BY DEF AssemblyInv, FlowsheetOK, GraphSound, Judged
  <2>2. Apart(graph)
    <3>1. \A m, n \in Names(graph) : m.name = n.name => m = n
      BY Zenon DEF NamesApart
    <3> QED
      BY <3>1, Zenon DEF Apart
  <2>3. flowsheet.units = UnitTags(graph)
    BY <2>1 DEF ToDwsim
  <2>4. \A w, x \in flowsheet.wires : w # x =>
           /\ w[1] \in flowsheet.units => <<w[1], w[3]>> # <<x[1], x[3]>>
           /\ w[2] \in flowsheet.units => <<w[2], w[4]>> # <<x[2], x[4]>>
    BY <2>1, <2>2, <2>3, ValidIsSound
  <2>5. \A loop \in (SUBSET flowsheet.units) \ {{}} :
           \E u \in loop : \A v \in loop : ~Feeds(flowsheet, v, u)
    BY <2>1, <2>2, <2>3, ValidIsSound
  <2> QED
    BY <2>4, <2>5, Zenon DEF FlowsheetSound
<1> QED
  BY <1>1, AssemblyInvariance, FlowsheetsAreJudged, PTL

=============================================================================
