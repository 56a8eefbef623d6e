-------------------------- MODULE EtwFilterProofs --------------------------
(***************************************************************************)
(* Proofs about EtwFilter, for any sets of processes, files, IRPs,         *)
(* timestamps and categories, and traces of any length.  The first part    *)
(* says of each operator of EtwExtraction which fields of the context it   *)
(* leaves alone and what it makes of the others; the second sums that up   *)
(* for each kind of record; the third proves the inductive invariant.      *)
(***************************************************************************)
EXTENDS EtwFilter, TLAPS, FiniteSetTheorems, SequenceTheorems, WellFoundedInduction

\* d is a context that differs from c in the fields F at most.
Same(c, d, F) == DOMAIN d = ContextFields /\ \A f \in ContextFields \ F : d[f] = c[f]

---------------------------------------------------------------------------
(***************************************************************************)
(* Sequences                                                               *)
(***************************************************************************)
LEMMA Least ==
  ASSUME NEW S, S \subseteq Nat, S # {}
  PROVE  \E j \in S : \A k \in S : j <= k
<1>1. PICK j \in S : \A k \in S : ~(<<k, j>> \in OpToRel(<, Nat))
  BY NatLessThanWellFounded, WFMin
<1>2. \A k \in S : ~(k < j)
  BY <1>1, Zenon DEF OpToRel
<1> QED
  BY <1>2

LEMMA RemoveAtProperties ==
  ASSUME NEW T, NEW s \in Seq(T), NEW j \in 1 .. Len(s)
  PROVE  /\ RemoveAt(s, j) \in Seq(T)
         /\ Len(RemoveAt(s, j)) = Len(s) - 1
         /\ \A k \in 1 .. Len(s) - 1 : RemoveAt(s, j)[k] = IF k < j THEN s[k] ELSE s[k + 1]
<1> DEFINE a == SubSeq(s, 1, j - 1)
           b == SubSeq(s, j + 1, Len(s))
<1>1. /\ a \in Seq(T) /\ Len(a) = j - 1
      /\ \A k \in 1 .. j - 1 : a[k] = s[k]
  BY SubSeqProperties
<1>2. /\ b \in Seq(T) /\ Len(b) = Len(s) - j
      /\ \A k \in 1 .. Len(s) - j : b[k] = s[j + k]
  BY SubSeqProperties
<1> HIDE DEF a, b
<1>3. /\ a \o b \in Seq(T)
      /\ Len(a \o b) = Len(a) + Len(b)
      /\ \A k \in 1 .. Len(a) + Len(b) :
           (a \o b)[k] = IF k <= Len(a) THEN a[k] ELSE b[k - Len(a)]
  BY <1>1, <1>2, ConcatProperties
<1>4. RemoveAt(s, j) = a \o b
  BY DEF RemoveAt, a, b
<1>5. Len(RemoveAt(s, j)) = Len(s) - 1
  <2>1. Len(a \o b) = (j - 1) + (Len(s) - j)
    BY <1>1, <1>2, <1>3
  <2>2. Len(s) \in Nat
    BY LenProperties
  <2>3. Len(RemoveAt(s, j)) = Len(a \o b)
    BY <1>4
  <2> QED
    BY <2>1, <2>2, <2>3
<1>6. ASSUME NEW k \in 1 .. Len(s) - 1
      PROVE  RemoveAt(s, j)[k] = IF k < j THEN s[k] ELSE s[k + 1]
  <2>1. RemoveAt(s, j)[k] = IF k <= Len(a) THEN a[k] ELSE b[k - Len(a)]
    BY <1>1, <1>2, <1>3, <1>4
  <2>2. CASE k < j
    BY <2>1, <2>2, <1>1
  <2>3. CASE ~(k < j)
    <3>1. k - (j - 1) \in 1 .. Len(s) - j
      BY <2>3
    <3>2. b[k - (j - 1)] = s[j + (k - (j - 1))]
      BY <3>1, <1>2
    <3> QED
      BY <2>1, <2>3, <3>2, <1>1
  <2> QED
    BY <2>2, <2>3
<1> QED
  BY <1>3, <1>4, <1>5, <1>6

---------------------------------------------------------------------------
(***************************************************************************)
(* Images and pending stacks                                               *)
(***************************************************************************)
LEMMA SkipFacts ==
  ASSUME NEW c, IsContext(c), NEW d, d = [c EXCEPT !.out = {}]
  PROVE  IsContext(d) /\ Same(c, d, {"out"}) /\ d.out = {}
<1>1. Same(c, d, {"out"}) /\ d.out = {}
  BY DEF Same, ContextFields, IsContext
<1> QED
  BY <1>1 DEF Same, ContextFields, IsContext

LEMMA ModuleFacts ==
  ASSUME NEW c, IsContext(c), NEW e \in EventRecords, NEW d, d = update_module_map(c, e)
  PROVE  IsContext(d) /\ Same(c, d, {"modules"})
<1>1. Same(c, d, {"modules"})
  BY DEF update_module_map, Same, ContextFields, IsContext
<1>2. d.modules \in [Pids -> [Bases -> Opt(Images)]]
  <2>1. CASE e.base = None
    BY <2>1 DEF update_module_map, IsContext
  <2>2. CASE e.base # None
    <3>1. e.base \in Bases /\ e.image \in Opt(Images) /\ ProcessPid(e) \in Pids
      BY <2>2 DEF EventRecords, ProcessPid, Opt
    <3>2. d.modules = [c.modules EXCEPT ![ProcessPid(e)][e.base] = e.image]
      BY <2>2 DEF update_module_map, IsContext, ContextFields
    <3> QED
      BY <3>1, <3>2 DEF IsContext
  <2> QED
    BY <2>1, <2>2
<1> QED
  BY <1>1, <1>2 DEF Same, ContextFields, IsContext

LEMMA MatchingFacts ==
  ASSUME NEW c, IsContext(c), NEW stamp \in Stamps, NEW pid, NEW tid,
         NEW j, j = MatchingStack(c, stamp, pid, tid)
  PROVE  /\ j \in 0 .. Len(c.stacks[stamp])
         /\ j # 0 => c.stacks[stamp][j].pid = pid
<1> DEFINE s     == c.stacks[stamp]
           same  == {k \in DOMAIN s : s[k].pid = pid}
           exact == {k \in same : s[k].tid = tid}
           first(S) == CHOOSE k \in S : \A m \in S : k <= m
<1>1. s \in Seq(StackRecords) /\ DOMAIN s = 1 .. Len(s) /\ Len(s) \in Nat
  BY DEF IsContext
<1>2. j = IF exact # {} THEN first(exact) ELSE IF same # {} THEN first(same) ELSE 0
  BY DEF MatchingStack
<1>3. ASSUME NEW S, S \subseteq same, S # {}
      PROVE  first(S) \in S
  <2>1. S \subseteq Nat
    BY <1>1, <1>3
  <2>2. \E k \in S : \A m \in S : k <= m
    BY <2>1, <1>3, Least
  <2> QED
    BY <2>2
<1>4. exact \subseteq same
  OBVIOUS
<1>5. j = 0 \/ j \in same
  <2> HIDE DEF same, exact, first
  <2> QED
    BY <1>2, <1>3, <1>4
<1> QED
  BY <1>1, <1>5

LEMMA TakeFacts ==
  ASSUME NEW c, IsContext(c), NEW stamp \in Stamps, NEW pid, NEW tid,
         NEW d, d = take_matching_pending_stack(c, stamp, pid, tid)
  PROVE  /\ IsContext(d)
         /\ Same(c, d, {"stacks"})
         /\ StacksBounded(c) => StacksBounded(d)
         /\ \A tree : StacksIn(c, tree) => StacksIn(d, tree)
         /\ \A tree : StacksIn(c, tree) /\ pid \notin tree => d = c
<1> DEFINE j == MatchingStack(c, stamp, pid, tid)
           s == c.stacks[stamp]
<1>1. j \in 0 .. Len(s) /\ (j # 0 => s[j].pid = pid)
  BY MatchingFacts
<1>2. s \in Seq(StackRecords) /\ DOMAIN s = 1 .. Len(s) /\ Len(s) \in Nat
  BY DEF IsContext
<1>3. d = IF j = 0 THEN c ELSE [c EXCEPT !.stacks[stamp] = RemoveAt(s, j)]
  BY DEF take_matching_pending_stack
<1> HIDE DEF j
<1>4. CASE j = 0
  BY <1>3, <1>4 DEF Same, IsContext
<1>5. CASE j # 0
  <2>1. j \in 1 .. Len(s)
    BY <1>1, <1>2, <1>5
  <2> DEFINE t == RemoveAt(s, j)
  <2>2. /\ t \in Seq(StackRecords) /\ Len(t) = Len(s) - 1
        /\ DOMAIN t = 1 .. Len(s) - 1
        /\ \A k \in 1 .. Len(s) - 1 : t[k] = IF k < j THEN s[k] ELSE s[k + 1]
    <3>1. /\ t \in Seq(StackRecords) /\ Len(t) = Len(s) - 1
          /\ \A k \in 1 .. Len(s) - 1 : t[k] = IF k < j THEN s[k] ELSE s[k + 1]
      BY <1>2, <2>1, RemoveAtProperties
    <3> HIDE DEF t
    <3> QED
      BY <3>1, <1>2
  <2> HIDE DEF t
  <2>3. d = [c EXCEPT !.stacks[stamp] = t]
    BY <1>3, <1>5 DEF t
  <2>4. Same(c, d, {"stacks"}) /\ d.stacks = [c.stacks EXCEPT ![stamp] = t]
    BY <2>3 DEF Same, IsContext, ContextFields
  <2>5. IsContext(d)
    <3>1. d.stacks \in [Stamps -> Seq(StackRecords)]
      BY <2>2, <2>4 DEF IsContext
    <3> QED
      BY <3>1, <2>4 DEF IsContext, Same, ContextFields
  <2>6. \A x \in Stamps : d.stacks[x] = IF x = stamp THEN t ELSE c.stacks[x]
    BY <2>4 DEF IsContext
  <2>7. d.order = c.order
    BY <2>4 DEF Same, ContextFields
  <2>8. ASSUME StacksBounded(c) PROVE StacksBounded(d)
    <3>1. Len(t) <= MaxPerStamp /\ (t # << >> => s # << >>)
      <4>1. Len(s) <= MaxPerStamp
        BY <2>8 DEF StacksBounded
      <4>2. Len(t) <= MaxPerStamp
        BY <4>1, <2>2, <1>2, ExtractionAssumption
      <4>3. s # << >>
        BY <2>1, <1>2
      <4> QED
        BY <4>2, <4>3
    <3> QED
      BY <2>8, <3>1, <2>6, <2>7 DEF StacksBounded
  <2>9. ASSUME NEW tree, StacksIn(c, tree) PROVE StacksIn(d, tree)
    <3>1. \A k \in DOMAIN s : s[k].pid \in tree
      BY <2>9 DEF StacksIn
    <3>2. ASSUME NEW k \in DOMAIN t PROVE t[k].pid \in tree
      <4>1. k \in DOMAIN s /\ k + 1 \in DOMAIN s
        BY <2>2, <1>2
      <4>2. t[k] = s[k] \/ t[k] = s[k + 1]
        BY <2>2
      <4> QED
        BY <4>1, <4>2, <3>1
    <3> QED
      BY <3>2, <2>6, <2>9 DEF StacksIn
  <2>10. ASSUME NEW tree, StacksIn(c, tree), pid \notin tree PROVE FALSE
    <3>1. s[j].pid \in tree
      BY <2>10, <2>1, <1>2 DEF StacksIn
    <3> QED
      BY <3>1, <2>10, <1>1, <1>5
  <2> QED
    BY <2>4, <2>5, <2>8, <2>9, <2>10
<1> QED
  BY <1>4, <1>5

LEMMA InRange ==
  ASSUME NEW f, NEW k \in DOMAIN f
  PROVE  f[k] \in Range(f)
  BY DEF Range

LEMMA EvictFacts ==
  ASSUME NEW c, IsContext(c), NEW stamp \in Stamps, c.stacks[stamp] = << >>,
         NEW d, d = EvictStack(c, stamp)
  PROVE  /\ IsContext(d)
         /\ Same(c, d, {"stacks", "order"})
         /\ d.stacks[stamp] = << >>
         /\ stamp \in Range(d.order)
         /\ StacksBounded(c) => StacksBounded(d)
         /\ \A tree : StacksIn(c, tree) => StacksIn(d, tree)
<1>0. /\ c.order \in Seq(Stamps) /\ Len(c.order) \in Nat
      /\ c.stacks \in [Stamps -> Seq(StackRecords)]
      /\ MaxStamps \in Nat \ {0} /\ MaxPerStamp \in Nat \ {0}
  BY ExtractionAssumption DEF IsContext
<1>1. CASE Len(c.order) >= MaxStamps
  <2> DEFINE h == Head(c.order)
             t == Tail(c.order)
             o == Append(t, stamp)
  <2>1. /\ h \in Stamps /\ t \in Seq(Stamps) /\ Len(t) = Len(c.order) - 1
        /\ DOMAIN c.order = 1 .. Len(c.order)
        /\ c.order[1] = h /\ \A k \in 1 .. Len(t) : t[k] = c.order[k + 1]
    <3>1. c.order # << >>
      BY <1>0, <1>1
    <3> QED
      BY <3>1, <1>0, HeadTailProperties
  <2> HIDE DEF h, t
  <2>2. /\ o \in Seq(Stamps) /\ Len(o) = Len(c.order) /\ DOMAIN o = 1 .. Len(c.order)
        /\ o[Len(c.order)] = stamp /\ \A k \in 1 .. Len(t) : o[k] = t[k]
    BY <2>1, <1>0, AppendProperties
  <2>3. d = [c EXCEPT !.order = o, !.stacks[h] = << >>]
    BY <1>1 DEF EvictStack, h, t
  <2> HIDE DEF o
  <2>4. /\ Same(c, d, {"stacks", "order"})
        /\ d.order = o /\ d.stacks = [c.stacks EXCEPT ![h] = << >>]
    BY <2>3 DEF Same, IsContext, ContextFields
  <2>5. \A x \in Stamps : d.stacks[x] = IF x = h THEN << >> ELSE c.stacks[x]
    BY <2>4, <1>0
  <2>6. IsContext(d)
    <3>1. d.stacks \in [Stamps -> Seq(StackRecords)] /\ d.order \in Seq(Stamps)
      BY <2>1, <2>2, <2>4, <1>0
    <3> QED
      BY <3>1, <2>4 DEF IsContext, Same, ContextFields
  <2>7. stamp \in Range(d.order)
    <3>1. Len(c.order) \in DOMAIN o
      BY <2>2, <1>0, <1>1
    <3> QED
      BY <3>1, <2>2, <2>4, InRange
  <2>8. ASSUME StacksBounded(c) PROVE StacksBounded(d)
    <3>1. Len(d.order) <= MaxStamps
      BY <2>8, <2>2, <2>4 DEF StacksBounded
    <3>2. ASSUME NEW x \in Stamps
          PROVE  /\ Len(d.stacks[x]) <= MaxPerStamp
                 /\ d.stacks[x] # << >> => x \in Range(d.order)
      <4>1. CASE x = h
        BY <4>1, <2>5, <1>0
      <4>2. CASE x # h
        <5>1. d.stacks[x] = c.stacks[x]
          BY <4>2, <2>5
        <5>2. ASSUME c.stacks[x] # << >> PROVE x \in Range(o)
          <6>1. PICK k \in 1 .. Len(c.order) : c.order[k] = x
            BY <2>8, <5>2, <2>1 DEF StacksBounded, Range
          <6>2. k # 1
            BY <6>1, <4>2, <2>1
          <6>3. k - 1 \in 1 .. Len(t)
            BY <6>1, <6>2, <2>1, <1>0
          <6>4. t[k - 1] = c.order[(k - 1) + 1] /\ (k - 1) + 1 = k
            BY <6>1, <6>3, <2>1
          <6>5. o[k - 1] = t[k - 1]
            BY <6>3, <2>2
          <6>6. k - 1 \in DOMAIN o
            BY <6>1, <6>2, <2>2, <1>0
          <6> QED
            BY <6>1, <6>4, <6>5, <6>6, InRange
        <5> QED
          BY <5>1, <5>2, <2>8, <2>4 DEF StacksBounded
      <4> QED
        BY <4>1, <4>2
    <3> QED
      BY <3>1, <3>2 DEF StacksBounded
  <2>9. d.stacks[stamp] = << >>
    BY <2>5
  <2>10. ASSUME NEW tree, StacksIn(c, tree) PROVE StacksIn(d, tree)
    BY <2>10, <2>5 DEF StacksIn
  <2> QED
    BY <2>4, <2>6, <2>7, <2>8, <2>9, <2>10
<1>2. CASE ~(Len(c.order) >= MaxStamps)
  <2> DEFINE o == Append(c.order, stamp)
  <2>1. /\ o \in Seq(Stamps) /\ Len(o) = Len(c.order) + 1 /\ DOMAIN o = 1 .. Len(c.order) + 1
        /\ o[Len(c.order) + 1] = stamp /\ \A k \in 1 .. Len(c.order) : o[k] = c.order[k]
        /\ DOMAIN c.order = 1 .. Len(c.order)
    BY <1>0, AppendProperties
  <2>2. d = [c EXCEPT !.order = o]
    BY <1>2 DEF EvictStack
  <2> HIDE DEF o
  <2>3. Same(c, d, {"order"}) /\ d.order = o
    BY <2>2 DEF Same, IsContext, ContextFields
  <2>4. Same(c, d, {"stacks", "order"}) /\ d.stacks = c.stacks
    BY <2>3 DEF Same, ContextFields
  <2>5. IsContext(d)
    BY <2>1, <2>3 DEF Same, IsContext, ContextFields
  <2>6. stamp \in Range(d.order)
    <3>1. Len(c.order) + 1 \in DOMAIN o
      BY <2>1, <1>0
    <3> QED
      BY <3>1, <2>1, <2>3, InRange
  <2>7. ASSUME StacksBounded(c) PROVE StacksBounded(d)
    <3>1. Len(d.order) <= MaxStamps
      BY <2>1, <2>3, <1>0, <1>2
    <3>2. ASSUME NEW x \in Range(c.order) PROVE x \in Range(o)
      <4>1. PICK k \in 1 .. Len(c.order) : c.order[k] = x
        BY <2>1 DEF Range
      <4>2. k \in DOMAIN o
        BY <2>1, <1>0
      <4>3. o[k] = x
        BY <4>1, <2>1
      <4> QED
        BY <4>2, <4>3, InRange
    <3> QED
      BY <2>7, <3>1, <3>2, <2>3, <2>4 DEF StacksBounded
  <2> QED
    BY <2>4, <2>5, <2>6, <2>7 DEF StacksIn
<1> QED
  BY <1>1, <1>2

LEMMA CacheStackFacts ==
  ASSUME NEW c, IsContext(c), NEW s, s.stamp \in Stamps, s.pid \in Pids,
         s.tid \in Opt(Tids), s.address \in Opt(Bases),
         NEW d, d = cache_pending_stack(c, s)
  PROVE  /\ IsContext(d)
         /\ Same(c, d, {"stacks", "order"})
         /\ StacksBounded(c) => StacksBounded(d)
         /\ Rooted /\ StacksIn(c, c.tree) => StacksIn(d, c.tree)
         /\ Rooted /\ s.pid \notin c.tree => d = c
<1> DEFINE room == IF c.stacks[s.stamp] = << >> THEN EvictStack(c, s.stamp) ELSE c
           full == Len(room.stacks[s.stamp]) >= MaxPerStamp
           x    == [pid |-> s.pid, tid |-> s.tid, address |-> s.address]
           t    == Append(room.stacks[s.stamp], x)
<1>1. CASE Rooted /\ s.pid \notin c.tree
  BY <1>1 DEF cache_pending_stack, Same, IsContext
<1>2. CASE ~(Rooted /\ s.pid \notin c.tree)
  <2>1. d = IF full THEN room ELSE [room EXCEPT !.stacks[s.stamp] = t]
    BY <1>2 DEF cache_pending_stack
  <2>2. /\ IsContext(room)
        /\ Same(c, room, {"stacks", "order"})
        /\ StacksBounded(c) => StacksBounded(room) /\ s.stamp \in Range(room.order)
        /\ \A tree : StacksIn(c, tree) => StacksIn(room, tree)
    <3>1. CASE c.stacks[s.stamp] = << >>
      BY <3>1, EvictFacts
    <3>2. CASE c.stacks[s.stamp] # << >>
      BY <3>2 DEF Same, IsContext, StacksBounded
    <3> QED
      BY <3>1, <3>2
  <2> HIDE DEF room
  <2>3. CASE full
    BY <2>1, <2>2, <2>3, <1>2
  <2>4. CASE ~full
    <3>1. room.stacks \in [Stamps -> Seq(StackRecords)]
      BY <2>2 DEF IsContext
    <3>2. x \in StackRecords
      BY DEF StackRecords
    <3> DEFINE u == room.stacks[s.stamp]
    <3>3. u \in Seq(StackRecords) /\ Len(u) \in Nat /\ DOMAIN u = 1 .. Len(u)
      BY <3>1
    <3> HIDE DEF x
    <3>4. /\ t \in Seq(StackRecords) /\ Len(t) = Len(u) + 1 /\ DOMAIN t = 1 .. Len(u) + 1
          /\ t[Len(u) + 1] = x /\ \A k \in 1 .. Len(u) : t[k] = u[k]
      BY <3>2, <3>3, AppendProperties
    <3> HIDE DEF t
    <3>5. d = [room EXCEPT !.stacks[s.stamp] = t]
      BY <2>1, <2>4
    <3>6. Same(room, d, {"stacks"}) /\ d.stacks = [room.stacks EXCEPT ![s.stamp] = t]
      BY <3>5, <2>2 DEF Same, IsContext, ContextFields
    <3>7. \A y \in Stamps : d.stacks[y] = IF y = s.stamp THEN t ELSE room.stacks[y]
      BY <3>6, <3>1
    <3>8. IsContext(d)
      <4>1. d.stacks \in [Stamps -> Seq(StackRecords)]
        BY <3>6, <3>4, <3>1
      <4> QED
        BY <4>1, <3>6, <2>2 DEF Same, IsContext, ContextFields
    <3>9. Same(c, d, {"stacks", "order"}) /\ d.order = room.order
      BY <3>6, <2>2 DEF Same, ContextFields
    <3>10. ASSUME StacksBounded(c) PROVE StacksBounded(d)
      <4>1. Len(t) <= MaxPerStamp
        BY <3>4, <3>3, <2>4, ExtractionAssumption
      <4>2. StacksBounded(room) /\ s.stamp \in Range(room.order)
        BY <3>10, <2>2
      <4> QED
        BY <4>1, <4>2, <3>7, <3>9 DEF StacksBounded
    <3>11. ASSUME Rooted, StacksIn(c, c.tree) PROVE StacksIn(d, c.tree)
      <4>1. StacksIn(room, c.tree)
        BY <3>11, <2>2
      <4>2. x.pid \in c.tree
        BY <3>11, <1>2 DEF x
      <4>3. ASSUME NEW k \in DOMAIN t PROVE t[k].pid \in c.tree
        <5>1. k \in DOMAIN u \/ k = Len(u) + 1
          BY <3>3, <3>4
        <5>2. ASSUME k \in DOMAIN u PROVE u[k].pid \in c.tree
          BY <5>2, <4>1 DEF StacksIn
        <5> QED
          BY <5>1, <5>2, <4>2, <3>3, <3>4
      <4> QED
        BY <4>1, <4>3, <3>7 DEF StacksIn
    <3> QED
      BY <3>8, <3>9, <3>10, <3>11, <1>2
  <2> QED
    BY <2>3, <2>4
<1> QED
  BY <1>1, <1>2

\* q is the pending record p, whatever became of its stack.
SameIo(p, q) ==
  /\ p = None <=> q = None
  /\ p # None => /\ q.pid = p.pid /\ q.irp = p.irp /\ q.path = p.path
                 /\ q.end = p.end /\ q.ghost = p.ghost

LEMMA StackWalkFacts ==
  ASSUME NEW c, IsContext(c), NEW s \in EventRecords, s.pid \in Pids,
         NEW d, d = process_stack_walk_event(c, s)
  PROVE  /\ IsContext(d)
         /\ Same(c, d, {"stacks", "order", "pending"})
         /\ StacksBounded(c) => StacksBounded(d)
         /\ Rooted /\ StacksIn(c, c.tree) => StacksIn(d, c.tree)
         /\ \A i \in Irps : SameIo(c.pending[i], d.pending[i])
         /\ Rooted /\ PendingIn(c, c.tree) /\ s.pid \notin c.tree => d = c
<1> DEFINE targets == AttachTargets(c, s)
           first == IF s.target \in targets THEN s.target ELSE CHOOSE i \in targets : TRUE
<1>0. /\ s.stamp \in Stamps /\ s.tid \in Opt(Tids) /\ s.address \in Opt(Bases)
  BY DEF EventRecords
<1>1. \A i \in targets : i \in Irps /\ c.pending[i] # None /\ c.pending[i].pid = s.pid
  BY DEF AttachTargets
<1>2. targets # {} => first \in targets
  OBVIOUS
<1>3. d = IF targets # {}
          THEN [c EXCEPT !.pending[first].stack = @ \cup {s.address}]
          ELSE cache_pending_stack(c, s)
  BY DEF process_stack_walk_event
<1> HIDE DEF targets, first
<1>4. CASE targets = {}
  <2>1. d = cache_pending_stack(c, s)
    BY <1>3, <1>4
  <2>2. /\ IsContext(d)
        /\ Same(c, d, {"stacks", "order"})
        /\ StacksBounded(c) => StacksBounded(d)
        /\ Rooted /\ StacksIn(c, c.tree) => StacksIn(d, c.tree)
        /\ Rooted /\ s.pid \notin c.tree => d = c
    BY <2>1, <1>0, CacheStackFacts
  <2>3. d.pending = c.pending
    BY <2>2 DEF Same, ContextFields
  <2>4. Same(c, d, {"stacks", "order", "pending"})
    BY <2>2 DEF Same
  <2> QED
    BY <2>2, <2>3, <2>4 DEF SameIo
<1>5. CASE targets # {}
  <2>1. first \in Irps /\ c.pending[first] # None /\ c.pending[first].pid = s.pid
    BY <1>1, <1>2, <1>5
  <2> DEFINE p == c.pending[first]
             S == p.stack \cup {s.address}
             q == [p EXCEPT !.stack = S]
  <2>2. p \in FileRecords
    BY <2>1 DEF IsContext, Opt
  <2>3. S \in SUBSET Opt(Bases)
    BY <2>2, <1>0 DEF FileRecords
  <2>4. d = [c EXCEPT !.pending = [c.pending EXCEPT ![first] = q]]
    BY <1>3, <1>5
  <2> HIDE DEF S
  <2>5. q \in FileRecords /\ SameIo(p, q)
    <3>1. q \in FileRecords
      BY <2>2, <2>3 DEF FileRecords
    <3>2. p # None /\ q # None
      BY <2>1, <3>1, NoneAssumption
    <3> QED
      BY <3>1, <3>2, <2>2 DEF FileRecords, SameIo
  <2> HIDE DEF p, q
  <2>6. Same(c, d, {"pending"}) /\ d.pending = [c.pending EXCEPT ![first] = q]
    BY <2>4 DEF Same, IsContext, ContextFields
  <2>7. \A i \in Irps : d.pending[i] = IF i = first THEN q ELSE c.pending[i]
    BY <2>6 DEF IsContext
  <2>8. IsContext(d)
    <3>1. d.pending \in [Irps -> Opt(FileRecords)]
      BY <2>5, <2>6 DEF IsContext, Opt
    <3> QED
      BY <3>1, <2>6 DEF Same, IsContext, ContextFields
  <2>9. d.stacks = c.stacks /\ d.order = c.order
    BY <2>6 DEF Same, ContextFields
  <2>10. Same(c, d, {"stacks", "order", "pending"})
    BY <2>6 DEF Same
  <2>11. \A i \in Irps : SameIo(c.pending[i], d.pending[i])
    BY <2>5, <2>7 DEF SameIo, p
  <2>12. ASSUME PendingIn(c, c.tree) PROVE s.pid \in c.tree
    BY <2>1, <2>12 DEF PendingIn
  <2> QED
    BY <2>8, <2>9, <2>10, <2>11, <2>12 DEF StacksBounded, StacksIn
<1> QED
  BY <1>4, <1>5

---------------------------------------------------------------------------
(***************************************************************************)
(* File records                                                            *)
(***************************************************************************)
LEMMA DecodedFacts ==
  ASSUME NEW c, IsContext(c), NEW e \in EventRecords, e.op \in Opcodes,
         NEW r, r = decoded_file_event(c, e)
  PROVE  /\ r \in FileRecords
         /\ r.op = e.op /\ r.pid = ProcessPid(e) /\ r.irp = e.irp /\ r.object = e.object
         /\ r.key = e.key /\ r.path = e.path /\ r.end = None /\ r.ghost = e.ghost
<1>1. ProcessPid(e) \in Pids /\ e.stamp \in Stamps
  BY DEF ProcessPid, EventRecords, Opt
<1> DEFINE A == TakenAddresses(c, e.stamp, ProcessPid(e), e.tid)
           S == IF e.op = "op_end" THEN {} ELSE e.stack \cup A
           src == IF e.path = None THEN None ELSE "record"
<1>2. A \in SUBSET Opt(Bases)
  <2> DEFINE j == MatchingStack(c, e.stamp, ProcessPid(e), e.tid)
  <2>1. j \in 0 .. Len(c.stacks[e.stamp])
    BY <1>1, MatchingFacts
  <2>2. A = IF j = 0 THEN {} ELSE {c.stacks[e.stamp][j].address}
    BY DEF TakenAddresses
  <2> HIDE DEF j
  <2>3. c.stacks[e.stamp] \in Seq(StackRecords)
    BY <1>1 DEF IsContext
  <2>4. ASSUME j # 0 PROVE c.stacks[e.stamp][j].address \in Opt(Bases)
    <3>1. c.stacks[e.stamp][j] \in StackRecords
      BY <2>1, <2>3, <2>4, ElementOfSeq
    <3> QED
      BY <3>1 DEF StackRecords
  <2> QED
    BY <2>2, <2>4
<1>3. S \in SUBSET Opt(Bases)
  BY <1>2 DEF EventRecords, Opt
<1>4. src \in Opt({"record", "file_object_cache", "file_key_cache"})
  BY DEF Opt
<1>5. r = [op |-> e.op, pid |-> ProcessPid(e), tid |-> e.tid, stamp |-> e.stamp,
           irp |-> e.irp, object |-> e.object, key |-> e.key, path |-> e.path,
           source |-> src, stack |-> S, end |-> None, ghost |-> e.ghost]
  BY DEF decoded_file_event
<1> HIDE DEF S, src
<1>6. None \in Opt(Completions)
  BY DEF Opt
<1> QED
  BY <1>1, <1>3, <1>4, <1>5, <1>6 DEF FileRecords, EventRecords

LEMMA ResolveFacts ==
  ASSUME NEW c, IsContext(c), NEW r \in FileRecords, NEW q, q = resolve_file_path(c, r)
  PROVE  /\ q \in FileRecords
         /\ q.op = r.op /\ q.pid = r.pid /\ q.irp = r.irp /\ q.object = r.object
         /\ q.key = r.key /\ q.end = r.end /\ q.ghost = r.ghost
         /\ \/ q.path = r.path
            \/ r.object \in Objects /\ q.path = c.byObject[r.object]
            \/ r.key \in Keys /\ q.path = c.byKey[r.key]
<1>0. /\ r.object \in Opt(Objects) /\ r.key \in Opt(Keys)
      /\ c.byObject \in [Objects -> Opt(Paths)] /\ c.byKey \in [Keys -> Opt(Paths)]
  BY DEF FileRecords, IsContext
<1>1. ASSUME NEW path \in Opt(Paths), NEW source \in {"file_object_cache", "file_key_cache"},
             q = [r EXCEPT !.path = path, !.source = source]
      PROVE  /\ q \in FileRecords /\ q.path = path
             /\ q.op = r.op /\ q.pid = r.pid /\ q.irp = r.irp /\ q.object = r.object
             /\ q.key = r.key /\ q.end = r.end /\ q.ghost = r.ghost
  <2>1. source \in Opt({"record", "file_object_cache", "file_key_cache"})
    BY DEF Opt
  <2> QED
    BY <1>1, <2>1 DEF FileRecords
<1>2. CASE r.path # None
  BY <1>2 DEF resolve_file_path
<1>3. CASE r.path = None /\ r.object # None /\ c.byObject[r.object] # None
  <2>1. r.object \in Objects /\ c.byObject[r.object] \in Opt(Paths)
    BY <1>0, <1>3 DEF Opt
  <2>2. q = [r EXCEPT !.path = c.byObject[r.object], !.source = "file_object_cache"]
    BY <1>3 DEF resolve_file_path
  <2> QED
    BY <2>1, <2>2, <1>1
<1>4. CASE /\ r.path = None /\ ~(r.object # None /\ c.byObject[r.object] # None)
           /\ r.key # None /\ c.byKey[r.key] # None
  <2>1. r.key \in Keys /\ c.byKey[r.key] \in Opt(Paths)
    BY <1>0, <1>4 DEF Opt
  <2>2. q = [r EXCEPT !.path = c.byKey[r.key], !.source = "file_key_cache"]
    BY <1>4 DEF resolve_file_path
  <2> QED
    BY <2>1, <2>2, <1>1
<1>5. CASE /\ r.path = None /\ ~(r.object # None /\ c.byObject[r.object] # None)
           /\ ~(r.key # None /\ c.byKey[r.key] # None)
  BY <1>5 DEF resolve_file_path
<1> QED
  BY <1>2, <1>3, <1>4, <1>5

LEMMA CachePathFacts ==
  ASSUME NEW c, IsContext(c), NEW r \in FileRecords, NEW d, d = cache_file_path(c, r)
  PROVE  /\ IsContext(d)
         /\ Same(c, d, {"byObject", "byKey"})
         /\ \A o \in Objects : d.byObject[o] = IF r.path # None /\ o = r.object
                                               THEN r.path ELSE c.byObject[o]
         /\ \A k \in Keys : d.byKey[k] = IF r.path # None /\ k = r.key
                                         THEN r.path ELSE c.byKey[k]
<1>1. CASE r.path = None
  BY <1>1 DEF cache_file_path, Same, IsContext
<1>2. CASE r.path # None
  <2> DEFINE f == [o \in Objects |-> IF o = r.object THEN r.path ELSE c.byObject[o]]
             g == [k \in Keys |-> IF k = r.key THEN r.path ELSE c.byKey[k]]
  <2>1. d = [c EXCEPT !.byObject = f, !.byKey = g]
    BY <1>2 DEF cache_file_path
  <2>2. f \in [Objects -> Opt(Paths)] /\ g \in [Keys -> Opt(Paths)]
    BY DEF IsContext, FileRecords
  <2>3. /\ \A o \in Objects : f[o] = IF o = r.object THEN r.path ELSE c.byObject[o]
        /\ \A k \in Keys : g[k] = IF k = r.key THEN r.path ELSE c.byKey[k]
    OBVIOUS
  <2> HIDE DEF f, g
  <2>4. Same(c, d, {"byObject", "byKey"}) /\ d.byObject = f /\ d.byKey = g
    BY <2>1 DEF Same, IsContext, ContextFields
  <2>5. IsContext(d)
    BY <2>2, <2>4 DEF Same, IsContext, ContextFields
  <2> QED
    BY <1>2, <2>3, <2>4, <2>5
<1> QED
  BY <1>1, <1>2

LEMMA RemovePathFacts ==
  ASSUME NEW c, IsContext(c), NEW r \in FileRecords, NEW d, d = remove_file_path(c, r)
  PROVE  /\ IsContext(d)
         /\ Same(c, d, {"byObject", "byKey"})
         /\ \A o \in Objects : d.byObject[o] = IF o = r.object THEN None ELSE c.byObject[o]
         /\ \A k \in Keys : d.byKey[k] = IF k = r.key THEN None ELSE c.byKey[k]
<1> DEFINE f == [o \in Objects |-> IF o = r.object THEN None ELSE c.byObject[o]]
           g == [k \in Keys |-> IF k = r.key THEN None ELSE c.byKey[k]]
<1>1. d = [c EXCEPT !.byObject = f, !.byKey = g]
  BY DEF remove_file_path
<1>2. f \in [Objects -> Opt(Paths)] /\ g \in [Keys -> Opt(Paths)]
  BY DEF IsContext, Opt
<1>3. /\ \A o \in Objects : f[o] = IF o = r.object THEN None ELSE c.byObject[o]
      /\ \A k \in Keys : g[k] = IF k = r.key THEN None ELSE c.byKey[k]
  OBVIOUS
<1> HIDE DEF f, g
<1>4. Same(c, d, {"byObject", "byKey"}) /\ d.byObject = f /\ d.byKey = g
  BY <1>1 DEF Same, IsContext, ContextFields
<1>5. IsContext(d)
  BY <1>2, <1>4 DEF Same, IsContext, ContextFields
<1> QED
  BY <1>3, <1>4, <1>5

\* q is the row written for the file record r.
IsRow(q, r) ==
  /\ "op" \in DOMAIN q
  /\ q.op = r.op /\ q.pid = r.pid /\ q.irp = r.irp
  /\ q.path = r.path /\ q.end = r.end /\ q.ghost = r.ghost

LEMMA FileRowFacts ==
  ASSUME NEW c, NEW r \in FileRecords
  PROVE  IsRow(FileRow(c, r), r)
<1> DEFINE S == stack_frames_from_addresses(c, r.stack, r.pid)
<1>1. FileRow(c, r) = [r EXCEPT !.stack = S]
  BY DEF FileRow
<1> HIDE DEF S
<1> QED
  BY <1>1 DEF IsRow, FileRecords

LEMMA WriteFacts ==
  ASSUME NEW c, IsContext(c), c.out = {}, NEW r \in FileRecords,
         NEW d, d = write_file_event(c, r)
  PROVE  /\ IsContext(d)
         /\ Same(c, d, {"out", "written"})
         /\ d.written = c.written + 1
         /\ \E q : d.out = {q} /\ IsRow(q, r)
<1> DEFINE q == FileRow(c, r)
<1>1. IsRow(q, r)
  BY FileRowFacts
<1>2. d = [c EXCEPT !.out = @ \cup {q}, !.written = @ + 1]
  BY DEF write_file_event
<1> HIDE DEF q
<1>3. /\ Same(c, d, {"out", "written"})
      /\ d.written = c.written + 1 /\ d.out = c.out \cup {q}
  BY <1>2 DEF Same, IsContext, ContextFields
<1>4. d.out = {q}
  BY <1>3
<1>5. d.written \in Nat
  BY <1>3 DEF IsContext
<1>6. IsContext(d)
  BY <1>3, <1>5 DEF Same, IsContext, ContextFields
<1> QED
  BY <1>1, <1>3, <1>4, <1>6

LEMMA CompleteFacts ==
  ASSUME NEW c, IsContext(c), c.out = {}, NEW r \in FileRecords,
         r.irp \in Irps, c.pending[r.irp] # None,
         NEW d, d = Complete(c, r)
  PROVE  /\ IsContext(d)
         /\ Same(c, d, {"out", "written", "matched", "pending"})
         /\ d.written = c.written + 1
         /\ d.pending = [c.pending EXCEPT ![r.irp] = None]
         /\ \E p \in FileRecords : \E q :
              /\ d.out = {q} /\ IsRow(q, p)
              /\ p.pid = c.pending[r.irp].pid /\ p.irp = c.pending[r.irp].irp
              /\ p.path = c.pending[r.irp].path /\ p.ghost = c.pending[r.irp].ghost
              /\ p.end.ghost = r.ghost
<1> DEFINE x == [pid |-> r.pid, tid |-> r.tid, ghost |-> r.ghost]
           w == c.pending[r.irp]
           p == [w EXCEPT !.end = x]
           m == write_file_event(c, p)
<1>1. w \in FileRecords
  BY DEF IsContext, Opt
<1>2. x \in Opt(Completions) /\ x.ghost = r.ghost
  BY DEF FileRecords, Completions, Opt
<1>3. d = [m EXCEPT !.matched = @ + 1, !.pending[r.irp] = None]
  BY DEF Complete
<1> HIDE DEF x
<1>4. /\ p \in FileRecords
      /\ p.pid = w.pid /\ p.irp = w.irp /\ p.path = w.path /\ p.ghost = w.ghost
      /\ p.end.ghost = r.ghost
  BY <1>1, <1>2 DEF FileRecords
<1> HIDE DEF p
<1>5. /\ IsContext(m)
      /\ Same(c, m, {"out", "written"})
      /\ m.written = c.written + 1
      /\ \E q : m.out = {q} /\ IsRow(q, p)
  BY <1>4, WriteFacts
<1> HIDE DEF m
<1>6. /\ Same(m, d, {"matched", "pending"})
      /\ d.matched = m.matched + 1 /\ d.pending = [m.pending EXCEPT ![r.irp] = None]
  BY <1>3, <1>5 DEF Same, IsContext, ContextFields
<1>7. IsContext(d)
  <2>1. d.matched \in Nat
    BY <1>5, <1>6 DEF IsContext
  <2>2. d.pending \in [Irps -> Opt(FileRecords)]
    BY <1>5, <1>6 DEF IsContext, Opt
  <2> QED
    BY <2>1, <2>2, <1>5, <1>6 DEF Same, IsContext, ContextFields
<1>8. Same(c, d, {"out", "written", "matched", "pending"})
  BY <1>5, <1>6 DEF Same
<1>9. d.written = c.written + 1 /\ d.out = m.out /\ m.pending = c.pending
  BY <1>5, <1>6 DEF Same, ContextFields
<1> QED
  BY <1>4, <1>5, <1>6, <1>7, <1>8, <1>9

\* An OP_END record completes what is pending under its IRP, or writes nothing.
LEMMA OpEndFacts ==
  ASSUME NEW c, IsContext(c), c.out = {}, NEW r \in FileRecords, NEW d, d = OpEnd(c, r)
  PROVE  /\ IsContext(d)
         /\ Same(c, d, {"out", "written", "matched", "unmatched", "ignored", "pending"})
         /\ \/ /\ d.out = {} /\ d.written = c.written /\ d.pending = c.pending
               /\ r.irp \in Irps => c.pending[r.irp] = None
            \/ /\ r.irp \in Irps /\ c.pending[r.irp] # None
               /\ d.written = c.written + 1
               /\ d.pending = [c.pending EXCEPT ![r.irp] = None]
               /\ \E p \in FileRecords : \E q :
                    /\ d.out = {q} /\ IsRow(q, p)
                    /\ p.pid = c.pending[r.irp].pid /\ p.irp = c.pending[r.irp].irp
                    /\ p.path = c.pending[r.irp].path /\ p.ghost = c.pending[r.irp].ghost
                    /\ p.end.ghost = r.ghost
<1>0. r.irp = None \/ r.irp \in Irps
  BY DEF FileRecords, Opt
<1>1. CASE r.irp # None /\ c.pending[r.irp] # None
  <2>1. d = Complete(c, r) /\ r.irp \in Irps
    BY <1>0, <1>1 DEF OpEnd
  <2>2. /\ IsContext(d)
        /\ Same(c, d, {"out", "written", "matched", "pending"})
        /\ d.written = c.written + 1
        /\ d.pending = [c.pending EXCEPT ![r.irp] = None]
        /\ \E p \in FileRecords : \E q :
             /\ d.out = {q} /\ IsRow(q, p)
             /\ p.pid = c.pending[r.irp].pid /\ p.irp = c.pending[r.irp].irp
             /\ p.path = c.pending[r.irp].path /\ p.ghost = c.pending[r.irp].ghost
             /\ p.end.ghost = r.ghost
    BY <2>1, <1>1, CompleteFacts
  <2>3. Same(c, d, {"out", "written", "matched", "unmatched", "ignored", "pending"})
    BY <2>2 DEF Same
  <2> QED
    BY <1>1, <2>1, <2>2, <2>3
<1>2. CASE ~(r.irp # None /\ c.pending[r.irp] # None)
  <2>1. \/ d = [c EXCEPT !.unmatched = @ + 1]
        \/ d = [c EXCEPT !.ignored = @ \ {r.irp}]
    BY <1>2 DEF OpEnd
  <2>2. \/ Same(c, d, {"unmatched"}) /\ d.unmatched = c.unmatched + 1
        \/ Same(c, d, {"ignored"}) /\ d.ignored = c.ignored \ {r.irp}
    BY <2>1 DEF Same, IsContext, ContextFields
  <2>3. d.unmatched \in Nat /\ d.ignored \subseteq Irps
    BY <2>2 DEF Same, IsContext, ContextFields
  <2>4. Same(c, d, {"unmatched", "ignored"})
    BY <2>2 DEF Same
  <2>5. IsContext(d)
    BY <2>3, <2>4 DEF Same, IsContext, ContextFields
  <2>6. Same(c, d, {"out", "written", "matched", "unmatched", "ignored", "pending"})
    BY <2>4 DEF Same
  <2>7. d.out = c.out /\ d.written = c.written /\ d.pending = c.pending
    BY <2>4 DEF Same, ContextFields
  <2> QED
    BY <2>5, <2>6, <2>7, <1>2, ExtractionAssumption
<1> QED
  BY <1>1, <1>2

LEMMA CloseFacts ==
  ASSUME NEW c, IsContext(c), c.out = {}, NEW r \in FileRecords, NEW d, d = Close(c, r)
  PROVE  /\ IsContext(d)
         /\ Same(c, d, {"out", "written", "reused", "ignored", "pending", "byObject", "byKey"})
         /\ d.written = c.written + 1
         /\ \A i \in Irps : d.pending[i] = IF i = r.irp THEN None ELSE c.pending[i]
         /\ \E q : d.out = {q} /\ IsRow(q, r)
         /\ \A o \in Objects : d.byObject[o] = IF o = r.object THEN None ELSE c.byObject[o]
         /\ \A k \in Keys : d.byKey[k] = IF k = r.key THEN None ELSE c.byKey[k]
<1> DEFINE hit   == IF c.pending[r.irp] # None THEN 1 ELSE 0
           taken == IF r.irp = None
                    THEN c
                    ELSE [c EXCEPT !.reused = @ + hit, !.pending[r.irp] = None,
                                   !.ignored = @ \cup {r.irp}]
           m == write_file_event(taken, r)
<1>0. r.irp = None \/ r.irp \in Irps
  BY DEF FileRecords, Opt
<1>1. d = remove_file_path(m, r)
  BY DEF Close
<1>2. /\ IsContext(taken) /\ Same(c, taken, {"reused", "pending", "ignored"})
      /\ \A i \in Irps : taken.pending[i] = IF i = r.irp THEN None ELSE c.pending[i]
  <2>1. CASE r.irp = None
    <3>1. taken = c /\ \A i \in Irps : i # r.irp
      BY <2>1, ExtractionAssumption
    <3> HIDE DEF taken
    <3> QED
      BY <3>1 DEF Same, IsContext
  <2>2. CASE r.irp # None
    <3>1. r.irp \in Irps
      BY <2>2, <1>0
    <3>2. taken = [c EXCEPT !.reused = @ + hit, !.pending[r.irp] = None,
                            !.ignored = @ \cup {r.irp}]
      BY <2>2
    <3>3. hit \in Nat
      OBVIOUS
    <3> HIDE DEF hit, taken
    <3>4. /\ Same(c, taken, {"reused", "pending", "ignored"})
          /\ taken.reused = c.reused + hit
          /\ taken.pending = [c.pending EXCEPT ![r.irp] = None]
          /\ taken.ignored = c.ignored \cup {r.irp}
      BY <3>2 DEF Same, IsContext, ContextFields
    <3>5. taken.reused \in Nat /\ taken.ignored \subseteq Irps
      BY <3>1, <3>3, <3>4 DEF IsContext
    <3>6. taken.pending \in [Irps -> Opt(FileRecords)]
      BY <3>1, <3>4 DEF IsContext, Opt
    <3>7. \A i \in Irps : taken.pending[i] = IF i = r.irp THEN None ELSE c.pending[i]
      BY <3>1, <3>4 DEF IsContext
    <3>8. IsContext(taken)
      BY <3>4, <3>5, <3>6 DEF Same, IsContext, ContextFields
    <3> QED
      BY <3>4, <3>7, <3>8
  <2> QED
    BY <2>1, <2>2
<1> HIDE DEF taken
<1>3. taken.out = {} /\ taken.written = c.written
  BY <1>2 DEF Same, ContextFields
<1>4. /\ IsContext(m)
      /\ Same(taken, m, {"out", "written"})
      /\ m.written = c.written + 1
      /\ \E q : m.out = {q} /\ IsRow(q, r)
  BY <1>2, <1>3, WriteFacts
<1> HIDE DEF m
<1>5. /\ IsContext(d)
      /\ Same(m, d, {"byObject", "byKey"})
      /\ \A o \in Objects : d.byObject[o] = IF o = r.object THEN None ELSE m.byObject[o]
      /\ \A k \in Keys : d.byKey[k] = IF k = r.key THEN None ELSE m.byKey[k]
  <2>1. IsContext(m)
    BY <1>4
  <2> QED
    BY <2>1, <1>1, RemovePathFacts
<1>6. Same(c, d, {"out", "written", "reused", "ignored", "pending", "byObject", "byKey"})
  BY <1>2, <1>4, <1>5 DEF Same
<1>7. d.written = m.written /\ d.out = m.out /\ d.pending = m.pending
  BY <1>5 DEF Same, ContextFields
<1>8. m.pending = taken.pending /\ m.byObject = taken.byObject /\ m.byKey = taken.byKey
  BY <1>4 DEF Same, ContextFields
<1>9. taken.byObject = c.byObject /\ taken.byKey = c.byKey
  BY <1>2 DEF Same, ContextFields
<1>10. \A i \in Irps : d.pending[i] = IF i = r.irp THEN None ELSE c.pending[i]
  BY <1>2, <1>7, <1>8
<1>11. /\ \A o \in Objects : d.byObject[o] = IF o = r.object THEN None ELSE c.byObject[o]
       /\ \A k \in Keys : d.byKey[k] = IF k = r.key THEN None ELSE c.byKey[k]
  BY <1>5, <1>8, <1>9
<1> QED
  BY <1>4, <1>5, <1>6, <1>7, <1>10, <1>11

LEMMA HoldFacts ==
  ASSUME NEW c, IsContext(c), c.out = {}, NEW r \in FileRecords, r.irp \in Irps,
         NEW d, d = Hold(c, r)
  PROVE  /\ IsContext(d)
         /\ Same(c, d, {"out", "written", "reused", "pending"})
         /\ d.pending = [c.pending EXCEPT ![r.irp] = r]
         /\ \/ c.pending[r.irp] = None /\ d.out = {} /\ d.written = c.written
            \/ /\ c.pending[r.irp] # None /\ d.written = c.written + 1
               /\ \E q : d.out = {q} /\ IsRow(q, c.pending[r.irp])
<1>1. CASE c.pending[r.irp] = None
  <2>1. d = [c EXCEPT !.pending[r.irp] = r]
    BY <1>1 DEF Hold
  <2>2. Same(c, d, {"pending"}) /\ d.pending = [c.pending EXCEPT ![r.irp] = r]
    BY <2>1 DEF Same, IsContext, ContextFields
  <2>3. d.pending \in [Irps -> Opt(FileRecords)]
    BY <2>2 DEF IsContext, Opt
  <2>4. IsContext(d)
    BY <2>2, <2>3 DEF Same, IsContext, ContextFields
  <2>5. d.out = c.out /\ d.written = c.written
    BY <2>2 DEF Same, ContextFields
  <2>6. Same(c, d, {"out", "written", "reused", "pending"})
    BY <2>2 DEF Same
  <2> QED
    BY <1>1, <2>2, <2>4, <2>5, <2>6
<1>2. CASE c.pending[r.irp] # None
  <2> DEFINE p == c.pending[r.irp]
             m == write_file_event(c, p)
  <2>1. p \in FileRecords
    BY <1>2 DEF IsContext, Opt
  <2>2. d = [m EXCEPT !.reused = @ + 1, !.pending[r.irp] = r]
    BY <1>2 DEF Hold
  <2>3. /\ IsContext(m)
        /\ Same(c, m, {"out", "written"})
        /\ m.written = c.written + 1
        /\ \E q : m.out = {q} /\ IsRow(q, p)
    BY <2>1, WriteFacts
  <2> HIDE DEF m, p
  <2>4. /\ Same(m, d, {"reused", "pending"})
        /\ d.reused = m.reused + 1 /\ d.pending = [m.pending EXCEPT ![r.irp] = r]
    BY <2>2, <2>3 DEF Same, IsContext, ContextFields
  <2>5. d.reused \in Nat
    BY <2>3, <2>4 DEF IsContext
  <2>6. d.pending \in [Irps -> Opt(FileRecords)]
    BY <2>3, <2>4 DEF IsContext, Opt
  <2>7. IsContext(d)
    BY <2>3, <2>4, <2>5, <2>6 DEF Same, IsContext, ContextFields
  <2>8. d.out = m.out /\ d.written = m.written /\ m.pending = c.pending
    BY <2>3, <2>4 DEF Same, ContextFields
  <2>9. Same(c, d, {"out", "written", "reused", "pending"})
    BY <2>3, <2>4 DEF Same
  <2> QED
    BY <1>2, <2>3, <2>4, <2>7, <2>8, <2>9 DEF p
<1> QED
  BY <1>1, <1>2

LEMMA BeginFacts ==
  ASSUME NEW c, IsContext(c), c.out = {}, NEW r \in FileRecords, NEW d, d = Begin(c, r)
  PROVE  /\ IsContext(d)
         /\ Same(c, d, {"out", "written", "reused", "pending", "byObject", "byKey"})
         /\ \/ /\ r.irp \in Irps
               /\ d.pending = [c.pending EXCEPT ![r.irp] = r]
               /\ \/ c.pending[r.irp] = None /\ d.out = {} /\ d.written = c.written
                  \/ /\ c.pending[r.irp] # None /\ d.written = c.written + 1
                     /\ \E q : d.out = {q} /\ IsRow(q, c.pending[r.irp])
            \/ /\ r.irp = None
               /\ d.pending = c.pending /\ d.written = c.written + 1
               /\ \E q : d.out = {q} /\ IsRow(q, r)
         /\ \A o \in Objects : d.byObject[o] = IF r.op = "cleanup" /\ o = r.object
                                               THEN None ELSE c.byObject[o]
         /\ \A k \in Keys : d.byKey[k] = IF r.op = "cleanup" /\ k = r.key
                                         THEN None ELSE c.byKey[k]
<1> DEFINE held == IF r.irp # None THEN Hold(c, r) ELSE write_file_event(c, r)
           Held(m) == \/ /\ r.irp \in Irps
                         /\ m.pending = [c.pending EXCEPT ![r.irp] = r]
                         /\ \/ c.pending[r.irp] = None /\ m.out = {} /\ m.written = c.written
                            \/ /\ c.pending[r.irp] # None /\ m.written = c.written + 1
                               /\ \E q : m.out = {q} /\ IsRow(q, c.pending[r.irp])
                      \/ /\ r.irp = None
                         /\ m.pending = c.pending /\ m.written = c.written + 1
                         /\ \E q : m.out = {q} /\ IsRow(q, r)
<1>0. r.irp = None \/ r.irp \in Irps
  BY DEF FileRecords, Opt
<1>1. /\ IsContext(held) /\ Held(held)
      /\ Same(c, held, {"out", "written", "reused", "pending"})
  <2>1. CASE r.irp = None
    <3>1. held = write_file_event(c, r)
      BY <2>1
    <3> HIDE DEF held
    <3>2. /\ IsContext(held)
          /\ Same(c, held, {"out", "written"})
          /\ held.written = c.written + 1
          /\ \E q : held.out = {q} /\ IsRow(q, r)
      BY <3>1, WriteFacts
    <3>3. held.pending = c.pending /\ Same(c, held, {"out", "written", "reused", "pending"})
      BY <3>2 DEF Same, ContextFields
    <3> QED
      BY <2>1, <3>2, <3>3
  <2>2. CASE r.irp # None
    <3>1. held = Hold(c, r) /\ r.irp \in Irps
      BY <2>2, <1>0
    <3> HIDE DEF held
    <3> QED
      BY <3>1, HoldFacts
  <2> QED
    BY <2>1, <2>2
<1>2. d = IF r.op = "cleanup" THEN remove_file_path(held, r) ELSE held
  BY DEF Begin
<1> HIDE DEF held
<1>3. held.byObject = c.byObject /\ held.byKey = c.byKey
  BY <1>1 DEF Same, ContextFields
<1>4. CASE r.op = "cleanup"
  <2>1. d = remove_file_path(held, r)
    BY <1>2, <1>4
  <2>2. /\ IsContext(d)
        /\ Same(held, d, {"byObject", "byKey"})
        /\ \A o \in Objects : d.byObject[o] = IF o = r.object THEN None ELSE held.byObject[o]
        /\ \A k \in Keys : d.byKey[k] = IF k = r.key THEN None ELSE held.byKey[k]
    <3>1. IsContext(held)
      BY <1>1
    <3> QED
      BY <3>1, <2>1, RemovePathFacts
  <2>3. Same(c, d, {"out", "written", "reused", "pending", "byObject", "byKey"})
    BY <1>1, <2>2 DEF Same
  <2>4. d.pending = held.pending /\ d.out = held.out /\ d.written = held.written
    BY <2>2 DEF Same, ContextFields
  <2>5. Held(d)
    BY <1>1, <2>4
  <2>6. /\ \A o \in Objects : d.byObject[o] = IF o = r.object THEN None ELSE c.byObject[o]
        /\ \A k \in Keys : d.byKey[k] = IF k = r.key THEN None ELSE c.byKey[k]
    BY <2>2, <1>3
  <2> QED
    BY <1>4, <2>2, <2>3, <2>5, <2>6
<1>5. CASE r.op # "cleanup"
  <2>1. d = held
    BY <1>2, <1>5
  <2>2. Same(c, d, {"out", "written", "reused", "pending", "byObject", "byKey"})
    BY <1>1, <2>1 DEF Same
  <2> QED
    BY <1>1, <1>3, <1>5, <2>1, <2>2
<1> QED
  BY <1>4, <1>5

\* d is c after the first record e of an I/O, which was decoded to r: r is pending and
\* what was pending under its IRP is written, or (without an IRP, or if e is a CLOSE)
\* r itself is written; the caches know the path of e, or forget it.
Begun(c, d, e, r) ==
  /\ r \in FileRecords
  /\ r.op = e.op /\ r.pid = ProcessPid(e) /\ r.irp = e.irp /\ r.end = None /\ r.ghost = e.ghost
  /\ \/ r.path = e.path
     \/ e.object \in Objects /\ r.path = c.byObject[e.object]
     \/ e.key \in Keys /\ r.path = c.byKey[e.key]
  /\ \/ /\ e.irp \in Irps /\ e.op # "close"
        /\ d.pending = [c.pending EXCEPT ![e.irp] = r]
        /\ \/ c.pending[e.irp] = None /\ d.out = {} /\ d.written = c.written
           \/ /\ c.pending[e.irp] # None /\ d.written = c.written + 1
              /\ \E q : d.out = {q} /\ IsRow(q, c.pending[e.irp])
     \/ /\ e.irp = None \/ e.op = "close"
        /\ \A i \in Irps : d.pending[i] = IF i = e.irp THEN None ELSE c.pending[i]
        /\ d.written = c.written + 1
        /\ \E q : d.out = {q} /\ IsRow(q, r)
  /\ \A o \in Objects : d.byObject[o] =
       IF o = e.object /\ e.op \in {"cleanup", "close"} THEN None
       ELSE IF o = e.object /\ e.path # None THEN e.path ELSE c.byObject[o]
  /\ \A k \in Keys : d.byKey[k] =
       IF k = e.key /\ e.op \in {"cleanup", "close"} THEN None
       ELSE IF k = e.key /\ e.path # None THEN e.path ELSE c.byKey[k]

\* The fields a file record may change, the stacks aside.
FileFields == {"out", "written", "matched", "unmatched", "reused", "ignored", "pending",
               "byObject", "byKey"}

LEMMA FileIoFacts ==
  ASSUME NEW c, IsContext(c), c.out = {}, NEW e \in EventRecords,
         e.op \in Opcodes \ {"op_end"}, "file" \in Presets,
         Rooted => ProcessPid(e) \in c.tree,
         NEW d, d = process_file_io_event(c, e)
  PROVE  /\ IsContext(d)
         /\ Same(c, d, FileFields \cup {"stacks"})
         /\ StacksBounded(c) => StacksBounded(d)
         /\ \A tree : StacksIn(c, tree) => StacksIn(d, tree)
         /\ \E r : Begun(c, d, e, r)
<1> DEFINE r      == decoded_file_event(c, e)
           taken  == take_matching_pending_stack(c, e.stamp, ProcessPid(e), e.tid)
           cached == cache_file_path(taken, r)
           path   == resolve_file_path(cached, r)
<1>1. /\ r \in FileRecords
      /\ r.op = e.op /\ r.pid = ProcessPid(e) /\ r.irp = e.irp /\ r.object = e.object
      /\ r.key = e.key /\ r.path = e.path /\ r.end = None /\ r.ghost = e.ghost
  BY DecodedFacts
<1>2. e.stamp \in Stamps
  BY DEF EventRecords
<1>3. d = IF ~file_event_allowed(taken, r) THEN taken
          ELSE IF e.op = "close" THEN Close(cached, path) ELSE Begin(cached, path)
  BY DEF process_file_io_event
<1> HIDE DEF r
<1>4. /\ IsContext(taken)
      /\ Same(c, taken, {"stacks"})
      /\ StacksBounded(c) => StacksBounded(taken)
      /\ \A tree : StacksIn(c, tree) => StacksIn(taken, tree)
  BY <1>2, TakeFacts
<1> HIDE DEF taken
<1>5. /\ taken.tree = c.tree /\ taken.byObject = c.byObject /\ taken.byKey = c.byKey
      /\ taken.pending = c.pending /\ taken.out = {} /\ taken.written = c.written
  BY <1>4 DEF Same, ContextFields
<1>6. /\ IsContext(cached)
      /\ Same(taken, cached, {"byObject", "byKey"})
      /\ \A o \in Objects : cached.byObject[o] = IF e.path # None /\ o = e.object
                                                 THEN e.path ELSE c.byObject[o]
      /\ \A k \in Keys : cached.byKey[k] = IF e.path # None /\ k = e.key
                                           THEN e.path ELSE c.byKey[k]
  BY <1>1, <1>4, <1>5, CachePathFacts
<1> HIDE DEF cached
<1>7. /\ cached.pending = c.pending /\ cached.out = {} /\ cached.written = c.written
      /\ cached.stacks = taken.stacks /\ cached.order = taken.order
  BY <1>5, <1>6 DEF Same, ContextFields
<1>8. /\ path \in FileRecords
      /\ path.op = e.op /\ path.pid = ProcessPid(e) /\ path.irp = e.irp
      /\ path.object = e.object /\ path.key = e.key /\ path.end = None /\ path.ghost = e.ghost
      /\ \/ path.path = e.path
         \/ e.object \in Objects /\ path.path = cached.byObject[e.object]
         \/ e.key \in Keys /\ path.path = cached.byKey[e.key]
  BY <1>1, <1>6, ResolveFacts
<1> HIDE DEF path
<1>9. \/ path.path = e.path
      \/ e.object \in Objects /\ path.path = c.byObject[e.object]
      \/ e.key \in Keys /\ path.path = c.byKey[e.key]
  BY <1>6, <1>8
<1>10. d = IF e.op = "close" THEN Close(cached, path) ELSE Begin(cached, path)
  BY <1>1, <1>3, <1>5 DEF file_event_allowed
<1>11. /\ IsContext(d)
       /\ Same(cached, d, FileFields)
       /\ \/ /\ e.irp \in Irps /\ e.op # "close"
             /\ d.pending = [c.pending EXCEPT ![e.irp] = path]
             /\ \/ c.pending[e.irp] = None /\ d.out = {} /\ d.written = c.written
                \/ /\ c.pending[e.irp] # None /\ d.written = c.written + 1
                   /\ \E q : d.out = {q} /\ IsRow(q, c.pending[e.irp])
          \/ /\ e.irp = None \/ e.op = "close"
             /\ \A i \in Irps : d.pending[i] = IF i = e.irp THEN None ELSE c.pending[i]
             /\ d.written = c.written + 1
             /\ \E q : d.out = {q} /\ IsRow(q, path)
       /\ \A o \in Objects : d.byObject[o] = IF e.op \in {"cleanup", "close"} /\ o = e.object
                                             THEN None ELSE cached.byObject[o]
       /\ \A k \in Keys : d.byKey[k] = IF e.op \in {"cleanup", "close"} /\ k = e.key
                                       THEN None ELSE cached.byKey[k]
  <2>1. CASE e.op = "close"
    <3>1. d = Close(cached, path)
      BY <1>10, <2>1
    <3>2. /\ IsContext(d)
          /\ Same(cached, d,
                  {"out", "written", "reused", "ignored", "pending", "byObject", "byKey"})
          /\ d.written = cached.written + 1
          /\ \A i \in Irps : d.pending[i] = IF i = path.irp THEN None ELSE cached.pending[i]
          /\ \E q : d.out = {q} /\ IsRow(q, path)
          /\ \A o \in Objects : d.byObject[o] = IF o = path.object
                                                THEN None ELSE cached.byObject[o]
          /\ \A k \in Keys : d.byKey[k] = IF k = path.key THEN None ELSE cached.byKey[k]
      BY <3>1, <1>6, <1>7, <1>8, CloseFacts
    <3>3. Same(cached, d, FileFields)
      BY <3>2 DEF Same, FileFields
    <3> QED
      BY <2>1, <3>2, <3>3, <1>7, <1>8
  <2>2. CASE e.op # "close"
    <3>1. d = Begin(cached, path)
      BY <1>10, <2>2
    <3>2. /\ IsContext(d)
          /\ Same(cached, d, {"out", "written", "reused", "pending", "byObject", "byKey"})
          /\ \/ /\ path.irp \in Irps
                /\ d.pending = [cached.pending EXCEPT ![path.irp] = path]
                /\ \/ /\ cached.pending[path.irp] = None
                      /\ d.out = {} /\ d.written = cached.written
                   \/ /\ cached.pending[path.irp] # None /\ d.written = cached.written + 1
                      /\ \E q : d.out = {q} /\ IsRow(q, cached.pending[path.irp])
             \/ /\ path.irp = None
                /\ d.pending = cached.pending /\ d.written = cached.written + 1
                /\ \E q : d.out = {q} /\ IsRow(q, path)
          /\ \A o \in Objects : d.byObject[o] = IF path.op = "cleanup" /\ o = path.object
                                                THEN None ELSE cached.byObject[o]
          /\ \A k \in Keys : d.byKey[k] = IF path.op = "cleanup" /\ k = path.key
                                          THEN None ELSE cached.byKey[k]
      <4>1. IsContext(cached) /\ cached.out = {} /\ path \in FileRecords
        BY <1>6, <1>7, <1>8
      <4> QED
        BY <3>1, <4>1, BeginFacts
    <3>3. Same(cached, d, FileFields)
      BY <3>2 DEF Same, FileFields
    <3>4. \A i \in Irps : e.irp = None => i # e.irp
      BY ExtractionAssumption
    <3>5. \/ /\ e.irp \in Irps
             /\ d.pending = [c.pending EXCEPT ![e.irp] = path]
             /\ \/ c.pending[e.irp] = None /\ d.out = {} /\ d.written = c.written
                \/ /\ c.pending[e.irp] # None /\ d.written = c.written + 1
                   /\ \E q : d.out = {q} /\ IsRow(q, c.pending[e.irp])
          \/ /\ e.irp = None
             /\ \A i \in Irps : d.pending[i] = IF i = e.irp THEN None ELSE c.pending[i]
             /\ d.written = c.written + 1
             /\ \E q : d.out = {q} /\ IsRow(q, path)
      BY <3>2, <3>4, <1>7, <1>8
    <3>6. /\ \A o \in Objects : d.byObject[o] = IF e.op = "cleanup" /\ o = e.object
                                                THEN None ELSE cached.byObject[o]
          /\ \A k \in Keys : d.byKey[k] = IF e.op = "cleanup" /\ k = e.key
                                          THEN None ELSE cached.byKey[k]
      BY <3>2, <1>8
    <3> QED
      BY <2>2, <3>2, <3>3, <3>5, <3>6
  <2> QED
    BY <2>1, <2>2
<1>12. Same(c, d, FileFields \cup {"stacks"})
  BY <1>4, <1>6, <1>11 DEF Same, FileFields
<1>13. d.stacks = taken.stacks /\ d.order = taken.order
  BY <1>7, <1>11 DEF Same, FileFields, ContextFields
<1>14. /\ StacksBounded(c) => StacksBounded(d)
       /\ \A tree : StacksIn(c, tree) => StacksIn(d, tree)
  BY <1>4, <1>13 DEF StacksBounded, StacksIn
<1>15. \A o \in Objects : d.byObject[o] =
         IF o = e.object /\ e.op \in {"cleanup", "close"} THEN None
         ELSE IF o = e.object /\ e.path # None THEN e.path ELSE c.byObject[o]
  BY <1>6, <1>11
<1>16. \A k \in Keys : d.byKey[k] =
         IF k = e.key /\ e.op \in {"cleanup", "close"} THEN None
         ELSE IF k = e.key /\ e.path # None THEN e.path ELSE c.byKey[k]
  BY <1>6, <1>11
<1>17. Begun(c, d, e, path)
  BY <1>8, <1>9, <1>11, <1>15, <1>16 DEF Begun
<1> QED
  BY <1>11, <1>12, <1>14, <1>17

---------------------------------------------------------------------------
(***************************************************************************)
(* event_record_callback, by kind of record                                *)
(***************************************************************************)
LEMMA TreeFacts ==
  ASSUME NEW tree, tree \subseteq Pids, NEW e \in EventRecords
  PROVE  /\ TreeAfter(tree, e) \subseteq Pids
         /\ tree \subseteq TreeAfter(tree, e)
         /\ e.kind # "process" => TreeAfter(tree, e) = tree
         /\ ~process_tree_allows_event(tree, e) => TreeAfter(tree, e) = tree
  BY DEF TreeAfter, ProcessPid, EventRecords, Opt

\* The row of a record that is not file I/O.
IsPlainRow(q, e) ==
  /\ "op" \notin DOMAIN q /\ "kind" \in DOMAIN q
  /\ q.kind = e.kind /\ q.pid = ProcessPid(e) /\ q.ghost = e.ghost

LEMMA ExtractedFacts ==
  ASSUME NEW c, IsContext(c), c.out = {}, NEW e \in EventRecords,
         process_tree_allows_event(c.tree, e), NEW d, d = write_extracted_event(c, e)
  PROVE  /\ IsContext(d)
         /\ Same(c, d, {"tree", "stacks", "out", "written"})
         /\ StacksBounded(c) => StacksBounded(d)
         /\ \A tree : StacksIn(c, tree) => StacksIn(d, tree)
         /\ d.tree = TreeAfter(c.tree, e)
         /\ d.written = c.written + 1
         /\ \E q : d.out = {q} /\ IsPlainRow(q, e)
<1> DEFINE pid    == ProcessPid(e)
           frames == stack_frames_from_addresses(
                         c, e.stack \cup TakenAddresses(c, e.stamp, pid, e.tid), pid)
           row    == [kind |-> e.kind, pid |-> pid, tid |-> e.tid, stack |-> frames,
                      ghost |-> e.ghost]
           taken  == take_matching_pending_stack(c, e.stamp, pid, e.tid)
           t      == TreeAfter(taken.tree, e)
<1>1. d = [taken EXCEPT !.tree = t, !.out = @ \cup {row}, !.written = @ + 1]
  BY DEF write_extracted_event
<1>2. IsPlainRow(row, e)
  <2> HIDE DEF frames
  <2> QED
    BY DEF IsPlainRow
<1> HIDE DEF row
<1>3. /\ IsContext(taken)
      /\ Same(c, taken, {"stacks"})
      /\ StacksBounded(c) => StacksBounded(taken)
      /\ \A tree : StacksIn(c, tree) => StacksIn(taken, tree)
  <2>1. e.stamp \in Stamps
    BY DEF EventRecords
  <2> QED
    BY <2>1, TakeFacts
<1> HIDE DEF taken
<1>4. taken.tree = c.tree /\ taken.out = {} /\ taken.written = c.written
  BY <1>3 DEF Same, ContextFields
<1>5. t = TreeAfter(c.tree, e) /\ t \subseteq Pids
  BY <1>4, TreeFacts DEF IsContext
<1> HIDE DEF t
<1>6. /\ Same(taken, d, {"tree", "out", "written"})
      /\ d.tree = t /\ d.out = taken.out \cup {row} /\ d.written = taken.written + 1
  BY <1>1, <1>3 DEF Same, IsContext, ContextFields
<1>7. d.out = {row} /\ d.written = c.written + 1 /\ d.written \in Nat
  BY <1>4, <1>6 DEF IsContext
<1>8. IsContext(d)
  BY <1>3, <1>5, <1>6, <1>7 DEF Same, IsContext, ContextFields
<1>9. Same(c, d, {"tree", "stacks", "out", "written"})
  BY <1>3, <1>6 DEF Same
<1>10. d.stacks = taken.stacks /\ d.order = taken.order
  BY <1>6 DEF Same, ContextFields
<1>11. /\ StacksBounded(c) => StacksBounded(d)
       /\ \A tree : StacksIn(c, tree) => StacksIn(d, tree)
  BY <1>3, <1>10 DEF StacksBounded, StacksIn
<1> QED
  BY <1>2, <1>5, <1>6, <1>7, <1>8, <1>9, <1>11

(***************************************************************************)
(* What a record e can do to a context c, d being the context after it.    *)
(***************************************************************************)
IsFileIo(e) == e.kind = "file" /\ e.op # None

\* The records of the machine: those of the file provider have no pid of their own.
GoodEvent(e) ==
  /\ e \in EventRecords
  /\ e.kind = "stack" => e.pid \in Pids
  /\ e.op # None => e.kind = "file" /\ e.pid = None

\* It is not of an output category or not of the tree.
Passed(c, d, e) ==
  /\ Same(c, d, {"modules", "out"})
  /\ d.out = {}
  /\ \/ e.kind \notin Presets
     \/ ~process_tree_allows_event(c.tree, e) /\ e.op # "op_end"

Walked(c, d, e) ==
  /\ e.kind = "stack"
  /\ Same(c, d, {"stacks", "order", "pending", "out"})
  /\ d.out = {}
  /\ \A i \in Irps : SameIo(c.pending[i], d.pending[i])

Extracted(c, d, e) ==
  /\ ~IsFileIo(e) /\ e.kind \in Presets /\ process_tree_allows_event(c.tree, e)
  /\ Same(c, d, {"tree", "modules", "stacks", "out", "written"})
  /\ d.written = c.written + 1
  /\ \E q : d.out = {q} /\ IsPlainRow(q, e)

\* What is pending under the IRP, if anything, is written with its completion.
Completed(c, d, e) ==
  /\ IsFileIo(e) /\ e.op = "op_end" /\ e.kind \in Presets
  /\ Same(c, d, {"out", "written", "matched", "unmatched", "ignored", "pending"})
  /\ \/ /\ d.out = {} /\ d.written = c.written /\ d.pending = c.pending
        /\ e.irp \in Irps => c.pending[e.irp] = None
     \/ /\ e.irp \in Irps /\ c.pending[e.irp] # None
        /\ d.written = c.written + 1
        /\ d.pending = [c.pending EXCEPT ![e.irp] = None]
        /\ \E p \in FileRecords : \E q :
             /\ d.out = {q} /\ IsRow(q, p)
             /\ p.pid = c.pending[e.irp].pid /\ p.irp = c.pending[e.irp].irp
             /\ p.path = c.pending[e.irp].path /\ p.ghost = c.pending[e.irp].ghost
             /\ p.end.ghost = e.ghost

Started(c, d, e) ==
  /\ IsFileIo(e) /\ e.op # "op_end" /\ e.kind \in Presets
  /\ process_tree_allows_event(c.tree, e)
  /\ Same(c, d, FileFields \cup {"stacks"})
  /\ \E r : Begun(c, d, e, r)

LEMMA PassedFacts ==
  ASSUME NEW c, ContextInv(c), NEW d, IsContext(d), NEW e, Passed(c, d, e)
  PROVE  ContextInv(d) /\ d.tree = c.tree
<1>1. /\ d.tree = c.tree /\ d.pending = c.pending /\ d.stacks = c.stacks
      /\ d.order = c.order /\ d.byObject = c.byObject /\ d.byKey = c.byKey
  BY DEF Passed, Same, ContextFields
<1> QED
  BY <1>1 DEF ContextInv, StacksBounded, PendingFiled, PendingIn, StacksIn, FilesOff

LEMMA WalkedFacts ==
  ASSUME NEW c, ContextInv(c), NEW e, GoodEvent(e), e.kind = "stack",
         NEW d, d = event_record_callback(c, e)
  PROVE  ContextInv(d) /\ Walked(c, d, e) /\ d.tree = c.tree
<1> DEFINE x == [c EXCEPT !.out = {}]
<1>1. d = process_stack_walk_event(x, e)
  BY DEF event_record_callback
<1>2. IsContext(x) /\ Same(c, x, {"out"}) /\ x.out = {}
  BY SkipFacts DEF ContextInv
<1> HIDE DEF x
<1>3. /\ IsContext(d)
      /\ Same(x, d, {"stacks", "order", "pending"})
      /\ StacksBounded(x) => StacksBounded(d)
      /\ Rooted /\ StacksIn(x, x.tree) => StacksIn(d, x.tree)
      /\ \A i \in Irps : SameIo(x.pending[i], d.pending[i])
  BY <1>1, <1>2, StackWalkFacts DEF GoodEvent
<1>4. /\ x.tree = c.tree /\ x.pending = c.pending /\ x.stacks = c.stacks
      /\ x.order = c.order /\ x.byObject = c.byObject /\ x.byKey = c.byKey
  BY <1>2 DEF Same, ContextFields
<1>5. /\ d.tree = c.tree /\ d.out = {} /\ d.byObject = c.byObject /\ d.byKey = c.byKey
  BY <1>2, <1>3, <1>4 DEF Same, ContextFields
<1>6. Same(c, d, {"stacks", "order", "pending", "out"})
  BY <1>2, <1>3 DEF Same
<1>7. \A i \in Irps : SameIo(c.pending[i], d.pending[i])
  BY <1>3, <1>4
<1>8. StacksBounded(d) /\ (Rooted => StacksIn(d, d.tree))
  BY <1>3, <1>4, <1>5 DEF ContextInv, StacksBounded, StacksIn
<1>9. PendingFiled(d) /\ (Rooted => PendingIn(d, d.tree)) /\ FilesOff(d)
  BY <1>5, <1>7 DEF ContextInv, PendingFiled, PendingIn, FilesOff, SameIo
<1> QED
  BY <1>3, <1>5, <1>6, <1>7, <1>8, <1>9 DEF ContextInv, Walked

LEMMA ExtractedOrPassed ==
  ASSUME NEW c, ContextInv(c), NEW e, GoodEvent(e), e.kind # "stack", ~IsFileIo(e),
         NEW d, d = event_record_callback(c, e)
  PROVE  /\ ContextInv(d)
         /\ Extracted(c, d, e) \/ Passed(c, d, e)
         /\ d.tree = IF e.kind \in Presets THEN TreeAfter(c.tree, e) ELSE c.tree
<1> DEFINE x == [c EXCEPT !.out = {}]
           image == IF e.kind = "image" /\ process_tree_allows_event(x.tree, e)
                    THEN update_module_map(x, e) ELSE x
<1>1. d = IF e.kind \in Presets THEN write_extracted_event(image, e) ELSE image
  BY DEF event_record_callback, IsFileIo
<1>2. IsContext(x) /\ Same(c, x, {"out"}) /\ x.out = {}
  BY SkipFacts DEF ContextInv
<1>3. e \in EventRecords
  BY DEF GoodEvent
<1> HIDE DEF x
<1>4. IsContext(image) /\ Same(x, image, {"modules"})
  <2>1. CASE e.kind = "image" /\ process_tree_allows_event(x.tree, e)
    <3>1. image = update_module_map(x, e)
      BY <2>1
    <3> HIDE DEF image
    <3> QED
      BY <3>1, <1>2, <1>3, ModuleFacts
  <2>2. CASE ~(e.kind = "image" /\ process_tree_allows_event(x.tree, e))
    BY <2>2, <1>2 DEF Same, IsContext
  <2> QED
    BY <2>1, <2>2
<1> HIDE DEF image
<1>5. Same(c, image, {"modules", "out"}) /\ image.out = {} /\ image.tree = c.tree
  BY <1>2, <1>4 DEF Same, ContextFields
<1>6. CASE e.kind \in Presets /\ process_tree_allows_event(c.tree, e)
  <2>1. /\ IsContext(d)
        /\ Same(image, d, {"tree", "stacks", "out", "written"})
        /\ StacksBounded(image) => StacksBounded(d)
        /\ \A tree : StacksIn(image, tree) => StacksIn(d, tree)
        /\ d.tree = TreeAfter(image.tree, e)
        /\ d.written = image.written + 1
        /\ \E q : d.out = {q} /\ IsPlainRow(q, e)
    BY <1>1, <1>3, <1>4, <1>5, <1>6, ExtractedFacts
  <2>2. /\ image.pending = c.pending /\ image.stacks = c.stacks /\ image.order = c.order
        /\ image.byObject = c.byObject /\ image.byKey = c.byKey /\ image.written = c.written
    BY <1>5 DEF Same, ContextFields
  <2>3. d.pending = c.pending /\ d.byObject = c.byObject /\ d.byKey = c.byKey
    BY <2>1, <2>2 DEF Same, ContextFields
  <2>4. d.tree = TreeAfter(c.tree, e) /\ c.tree \subseteq d.tree
    BY <2>1, <1>3, <1>5, TreeFacts DEF ContextInv, IsContext
  <2>5. StacksBounded(d)
    BY <2>1, <2>2 DEF ContextInv, StacksBounded
  <2>6. Rooted => StacksIn(d, d.tree)
    <3>1. Rooted => StacksIn(image, c.tree)
      BY <2>2 DEF ContextInv, StacksIn
    <3>2. Rooted => StacksIn(d, c.tree)
      BY <2>1, <3>1
    <3> QED
      BY <3>2, <2>4 DEF StacksIn
  <2>7. PendingFiled(d) /\ (Rooted => PendingIn(d, d.tree)) /\ FilesOff(d)
    BY <2>3, <2>4 DEF ContextInv, PendingFiled, PendingIn, FilesOff
  <2>8. Same(c, d, {"tree", "modules", "stacks", "out", "written"})
    BY <1>5, <2>1 DEF Same
  <2>9. Extracted(c, d, e)
    BY <1>6, <2>1, <2>2, <2>8 DEF Extracted
  <2> QED
    BY <1>6, <2>1, <2>4, <2>5, <2>6, <2>7, <2>9 DEF ContextInv
<1>7. CASE ~(e.kind \in Presets /\ process_tree_allows_event(c.tree, e))
  <2>1. d = image
    BY <1>1, <1>5, <1>7 DEF write_extracted_event
  <2>2. e.op # "op_end"
    BY NoneAssumption DEF IsFileIo, GoodEvent, Opcodes
  <2>3. Passed(c, d, e)
    BY <1>5, <1>7, <2>1, <2>2 DEF Passed
  <2>4. ContextInv(d) /\ d.tree = c.tree
    BY <1>4, <2>1, <2>3, PassedFacts
  <2>5. e.kind \in Presets => TreeAfter(c.tree, e) = c.tree
    BY <1>7 DEF TreeAfter
  <2> QED
    BY <2>3, <2>4, <2>5
<1> QED
  BY <1>6, <1>7

LEMMA FileDispatch ==
  ASSUME NEW c, ContextInv(c), NEW e, GoodEvent(e), IsFileIo(e), "file" \in Presets,
         NEW d, d = event_record_callback(c, e)
  PROVE  /\ e \in EventRecords /\ e.op \in Opcodes /\ ProcessPid(e) = e.hdr
         /\ \E x : /\ IsContext(x) /\ Same(c, x, {"out"}) /\ x.out = {}
                   /\ x = [c EXCEPT !.out = {}]
                   /\ d = process_file_io_event(x, e)
<1> DEFINE x == [c EXCEPT !.out = {}]
<1>1. d = process_file_io_event(x, e)
  BY DEF event_record_callback, IsFileIo
<1>2. IsContext(x) /\ Same(c, x, {"out"}) /\ x.out = {}
  BY SkipFacts DEF ContextInv
<1>3. e \in EventRecords /\ e.op \in Opcodes
  BY DEF GoodEvent, IsFileIo, EventRecords, Opt
<1>4. ProcessPid(e) = e.hdr
  BY DEF GoodEvent, IsFileIo, ProcessPid
<1> HIDE DEF x
<1> QED
  BY <1>1, <1>2, <1>3, <1>4 DEF x

LEMMA CompletedFacts ==
  ASSUME NEW c, ContextInv(c), NEW e, GoodEvent(e), IsFileIo(e), e.op = "op_end",
         "file" \in Presets, NEW d, d = event_record_callback(c, e)
  PROVE  ContextInv(d) /\ Completed(c, d, e) /\ d.tree = c.tree
<1>1. e \in EventRecords /\ e.op \in Opcodes
  BY FileDispatch
<1>2. PICK x : /\ IsContext(x) /\ Same(c, x, {"out"}) /\ x.out = {}
               /\ d = process_file_io_event(x, e)
  BY FileDispatch
<1> DEFINE r == decoded_file_event(x, e)
<1>3. d = OpEnd(x, r)
  BY <1>2 DEF process_file_io_event
<1>4. r \in FileRecords /\ r.irp = e.irp /\ r.ghost = e.ghost
  BY <1>1, <1>2, DecodedFacts
<1> HIDE DEF r
<1>5. /\ x.pending = c.pending /\ x.written = c.written /\ x.tree = c.tree
      /\ x.stacks = c.stacks /\ x.order = c.order
      /\ x.byObject = c.byObject /\ x.byKey = c.byKey
  BY <1>2 DEF Same, ContextFields
<1>6. /\ IsContext(d)
      /\ Same(x, d, {"out", "written", "matched", "unmatched", "ignored", "pending"})
      /\ \/ /\ d.out = {} /\ d.written = x.written /\ d.pending = x.pending
            /\ r.irp \in Irps => x.pending[r.irp] = None
         \/ /\ r.irp \in Irps /\ x.pending[r.irp] # None
            /\ d.written = x.written + 1
            /\ d.pending = [x.pending EXCEPT ![r.irp] = None]
            /\ \E p \in FileRecords : \E q :
                 /\ d.out = {q} /\ IsRow(q, p)
                 /\ p.pid = x.pending[r.irp].pid /\ p.irp = x.pending[r.irp].irp
                 /\ p.path = x.pending[r.irp].path /\ p.ghost = x.pending[r.irp].ghost
                 /\ p.end.ghost = r.ghost
  BY <1>2, <1>3, <1>4, OpEndFacts
<1>7. Same(c, d, {"out", "written", "matched", "unmatched", "ignored", "pending"})
  BY <1>2, <1>6 DEF Same
<1>8. Completed(c, d, e)
  <2>1. e.kind \in Presets
    BY DEF IsFileIo
  <2> QED
    BY <2>1, <1>4, <1>5, <1>6, <1>7 DEF Completed
<1>9. /\ d.tree = c.tree /\ d.stacks = c.stacks /\ d.order = c.order
      /\ d.byObject = c.byObject /\ d.byKey = c.byKey
  BY <1>7 DEF Same, ContextFields
<1>10. \A i \in Irps : d.pending[i] = None \/ d.pending[i] = c.pending[i]
  BY <1>5, <1>6 DEF IsContext
<1>11. StacksBounded(d) /\ (Rooted => StacksIn(d, d.tree))
  BY <1>9 DEF ContextInv, StacksBounded, StacksIn
<1>12. PendingFiled(d) /\ (Rooted => PendingIn(d, d.tree)) /\ FilesOff(d)
  BY <1>9, <1>10 DEF ContextInv, PendingFiled, PendingIn, FilesOff
<1> QED
  BY <1>6, <1>8, <1>9, <1>11, <1>12 DEF ContextInv

LEMMA StartedFacts ==
  ASSUME NEW c, ContextInv(c), NEW e, GoodEvent(e), IsFileIo(e), e.op # "op_end",
         "file" \in Presets, process_tree_allows_event(c.tree, e),
         NEW d, d = event_record_callback(c, e)
  PROVE  ContextInv(d) /\ Started(c, d, e) /\ d.tree = c.tree
<1>1. e \in EventRecords /\ e.op \in Opcodes \ {"op_end"} /\ ProcessPid(e) = e.hdr
  BY FileDispatch
<1>2. PICK x : /\ IsContext(x) /\ Same(c, x, {"out"}) /\ x.out = {}
               /\ d = process_file_io_event(x, e)
  BY FileDispatch
<1>3. /\ x.pending = c.pending /\ x.written = c.written /\ x.tree = c.tree
      /\ x.stacks = c.stacks /\ x.order = c.order
      /\ x.byObject = c.byObject /\ x.byKey = c.byKey
  BY <1>2 DEF Same, ContextFields
<1>4. Rooted => ProcessPid(e) \in c.tree
  BY <1>1 DEF process_tree_allows_event, IsFileIo
<1>5. /\ IsContext(d)
      /\ Same(x, d, FileFields \cup {"stacks"})
      /\ StacksBounded(x) => StacksBounded(d)
      /\ \A tree : StacksIn(x, tree) => StacksIn(d, tree)
      /\ \E r : Begun(x, d, e, r)
  BY <1>1, <1>2, <1>3, <1>4, FileIoFacts
<1>6. PICK r : Begun(x, d, e, r)
  BY <1>5
<1>7. Begun(c, d, e, r)
  BY <1>3, <1>6 DEF Begun
<1>8. Same(c, d, FileFields \cup {"stacks"})
  BY <1>2, <1>5 DEF Same, FileFields
<1>9. Started(c, d, e)
  BY <1>7, <1>8 DEF Started, IsFileIo
<1>10. d.tree = c.tree
  BY <1>8 DEF Same, ContextFields, FileFields
<1>11. StacksBounded(d) /\ (Rooted => StacksIn(d, d.tree))
  <2>1. StacksBounded(x) /\ (Rooted => StacksIn(x, c.tree))
    BY <1>3 DEF ContextInv, StacksBounded, StacksIn
  <2> QED
    BY <2>1, <1>5, <1>10
<1>12. /\ r \in FileRecords /\ r.irp = e.irp /\ r.end = None
       /\ Rooted => r.pid \in c.tree
  BY <1>4, <1>7 DEF Begun
<1>13. \A i \in Irps : \/ d.pending[i] = None \/ d.pending[i] = c.pending[i]
                       \/ i = e.irp /\ d.pending[i] = r
  BY <1>7 DEF Begun, ContextInv, IsContext
<1>14. PendingFiled(d) /\ (Rooted => PendingIn(d, d.tree)) /\ FilesOff(d)
  BY <1>10, <1>12, <1>13 DEF ContextInv, PendingFiled, PendingIn, FilesOff
<1> QED
  BY <1>5, <1>9, <1>10, <1>11, <1>14 DEF ContextInv

\* A file record of a process outside the tree takes no stack: none is kept for it.
LEMMA FilePassed ==
  ASSUME NEW c, ContextInv(c), NEW e, GoodEvent(e), IsFileIo(e),
         \/ "file" \notin Presets
         \/ ~process_tree_allows_event(c.tree, e) /\ e.op # "op_end",
         NEW d, d = event_record_callback(c, e)
  PROVE  ContextInv(d) /\ Passed(c, d, e) /\ d.tree = c.tree /\ d = Skip(c)
<1> DEFINE x == [c EXCEPT !.out = {}]
<1>1. d = process_file_io_event(x, e)
  BY DEF event_record_callback, IsFileIo
<1>2. IsContext(x) /\ Same(c, x, {"out"}) /\ x.out = {}
  BY SkipFacts DEF ContextInv
<1>3. x = Skip(c)
  BY DEF Skip
<1> HIDE DEF x
<1>4. d = x
  <2>1. CASE "file" \notin Presets
    BY <2>1, <1>1 DEF process_file_io_event
  <2>2. CASE "file" \in Presets
    <3> DEFINE taken == take_matching_pending_stack(x, e.stamp, ProcessPid(e), e.tid)
               r     == decoded_file_event(x, e)
    <3>1. e \in EventRecords /\ e.op \in Opcodes \ {"op_end"} /\ ProcessPid(e) = e.hdr
      BY <2>2, FileDispatch
    <3>2. x.tree = c.tree /\ x.stacks = c.stacks
      BY <1>2 DEF Same, ContextFields
    <3>3. Rooted /\ ProcessPid(e) \notin c.tree
      BY <2>2, <3>1 DEF process_tree_allows_event, IsFileIo
    <3>4. StacksIn(x, c.tree)
      BY <3>2, <3>3 DEF ContextInv, StacksIn
    <3>5. e.stamp \in Stamps
      BY <3>1 DEF EventRecords
    <3>6. taken = x
      BY <1>2, <3>3, <3>4, <3>5, TakeFacts
    <3>7. r.pid = ProcessPid(e)
      BY <1>2, <3>1, DecodedFacts
    <3>8. d = IF ~file_event_allowed(taken, r) THEN taken
              ELSE IF e.op = "close"
              THEN Close(cache_file_path(taken, r), resolve_file_path(cache_file_path(taken, r), r))
              ELSE Begin(cache_file_path(taken, r), resolve_file_path(cache_file_path(taken, r), r))
      BY <1>1, <2>2, <3>1 DEF process_file_io_event
    <3> HIDE DEF taken, r
    <3> QED
      BY <3>2, <3>3, <3>6, <3>7, <3>8 DEF file_event_allowed
  <2> QED
    BY <2>1, <2>2
<1>5. Passed(c, d, e)
  <2>1. Same(c, d, {"modules", "out"}) /\ d.out = {}
    BY <1>2, <1>4 DEF Same
  <2> QED
    BY <2>1 DEF Passed, IsFileIo
<1> QED
  BY <1>2, <1>3, <1>4, <1>5, PassedFacts

\* What event_record_callback does, and that it maintains ContextInv.
LEMMA CallbackFacts ==
  ASSUME NEW c, ContextInv(c), NEW e, GoodEvent(e), NEW d, d = event_record_callback(c, e)
  PROVE  /\ ContextInv(d)
         /\ d.tree = IF e.kind \in Presets THEN TreeAfter(c.tree, e) ELSE c.tree
         /\ c.tree \subseteq d.tree
         /\ \/ Passed(c, d, e) \/ Walked(c, d, e) \/ Extracted(c, d, e)
            \/ Completed(c, d, e) \/ Started(c, d, e)
<1>1. e \in EventRecords /\ c.tree \subseteq Pids
  BY DEF GoodEvent, ContextInv, IsContext
<1>2. /\ c.tree \subseteq TreeAfter(c.tree, e)
      /\ e.kind # "process" => TreeAfter(c.tree, e) = c.tree
  BY <1>1, TreeFacts
<1>3. CASE e.kind = "stack"
  BY <1>2, <1>3, WalkedFacts
<1>4. CASE e.kind # "stack" /\ ~IsFileIo(e)
  BY <1>2, <1>4, ExtractedOrPassed
<1>5. CASE IsFileIo(e)
  <2>1. e.kind # "process"
    BY <1>5 DEF IsFileIo
  <2>2. CASE \/ "file" \notin Presets
             \/ ~process_tree_allows_event(c.tree, e) /\ e.op # "op_end"
    BY <1>2, <1>5, <2>1, <2>2, FilePassed
  <2>3. CASE "file" \in Presets /\ e.op = "op_end"
    BY <1>2, <1>5, <2>1, <2>3, CompletedFacts
  <2>4. CASE "file" \in Presets /\ e.op # "op_end" /\ process_tree_allows_event(c.tree, e)
    BY <1>2, <1>5, <2>1, <2>4, StartedFacts
  <2> QED
    BY <2>2, <2>3, <2>4
<1> QED
  BY <1>3, <1>4, <1>5

LEMMA SkipInv ==
  ASSUME NEW c, ContextInv(c), NEW d, d = Skip(c)
  PROVE  ContextInv(d) /\ Same(c, d, {"out"}) /\ d.out = {} /\ d.tree = c.tree
<1>1. IsContext(d) /\ Same(c, d, {"out"}) /\ d.out = {}
  BY SkipFacts DEF Skip, ContextInv
<1>2. /\ d.tree = c.tree /\ d.pending = c.pending /\ d.stacks = c.stacks
      /\ d.order = c.order /\ d.byObject = c.byObject /\ d.byKey = c.byKey
  BY <1>1 DEF Same, ContextFields
<1> QED
  BY <1>1, <1>2 DEF ContextInv, StacksBounded, PendingFiled, PendingIn, StacksIn, FilesOff

\* The relogger keeps every record that would change the context, and its tree grows as
\* the tree of the extraction does.
LEMMA FilterFacts ==
  ASSUME NEW c, ContextInv(c), NEW e, GoodEvent(e)
  PROVE  /\ ~Keep(c.tree, e) => event_record_callback(c, e) = Skip(c)
         /\ FilterTree(c.tree, e) = event_record_callback(c, e).tree
<1>1. e \in EventRecords /\ c.tree \subseteq Pids
  BY DEF GoodEvent, ContextInv, IsContext
<1>2. "stack" \notin Presets
  BY PresetsAssumption DEF Categories
<1>3. e.kind # "process" => TreeAfter(c.tree, e) = c.tree
  BY <1>1, TreeFacts
<1>4. ASSUME ~Keep(c.tree, e) PROVE event_record_callback(c, e) = Skip(c)
  <2>1. /\ ~keep_stack_walk_for_filter(c.tree, e)
        /\ ~keep_file_completion_for_filter(c.tree, e)
        /\ ~KeepForOutputOrModules(e) \/ ~process_tree_allows_event(c.tree, e)
    BY <1>4 DEF Keep, NeedsTree
  <2>2. CASE e.kind = "stack"
    <3> DEFINE x == [c EXCEPT !.out = {}]
    <3>1. event_record_callback(c, e) = process_stack_walk_event(x, e)
      BY <2>2 DEF event_record_callback
    <3>2. IsContext(x) /\ Same(c, x, {"out"})
      BY SkipFacts DEF ContextInv
    <3>3. x = Skip(c)
      BY DEF Skip
    <3> HIDE DEF x
    <3>4. x.tree = c.tree /\ x.pending = c.pending
      BY <3>2 DEF Same, ContextFields
    <3>5. Rooted /\ e.pid \notin c.tree /\ e.pid \in Pids
      BY <2>1, <2>2 DEF keep_stack_walk_for_filter, GoodEvent
    <3>6. PendingIn(x, x.tree)
      BY <3>4, <3>5 DEF ContextInv, PendingIn
    <3> QED
      BY <3>1, <3>2, <3>3, <3>4, <3>5, <3>6, <1>1, StackWalkFacts
  <2>3. CASE IsFileIo(e)
    <3>1. \/ "file" \notin Presets
          \/ ~process_tree_allows_event(c.tree, e) /\ e.op # "op_end"
      BY <2>1, <2>3 DEF keep_file_completion_for_filter, KeepForOutputOrModules, IsFileIo
    <3> QED
      BY <2>3, <3>1, FilePassed
  <2>4. CASE e.kind # "stack" /\ ~IsFileIo(e)
    <3> DEFINE x == [c EXCEPT !.out = {}]
    <3>1. x.tree = c.tree
      <4>1. Same(c, x, {"out"})
        BY SkipFacts DEF ContextInv
      <4> HIDE DEF x
      <4> QED
        BY <4>1 DEF Same, ContextFields
    <3>2. x = Skip(c)
      BY DEF Skip
    <3>3. event_record_callback(c, e) =
            LET image == IF e.kind = "image" /\ process_tree_allows_event(x.tree, e)
                         THEN update_module_map(x, e) ELSE x
            IN  IF e.kind \in Presets THEN write_extracted_event(image, e) ELSE image
      BY <2>4 DEF event_record_callback, IsFileIo
    <3> HIDE DEF x
    <3>4. ~(e.kind = "image" /\ process_tree_allows_event(x.tree, e))
      BY <2>1, <3>1 DEF KeepForOutputOrModules
    <3>5. e.kind \in Presets => ~process_tree_allows_event(x.tree, e)
      BY <2>1, <3>1 DEF KeepForOutputOrModules
    <3>6. event_record_callback(c, e) =
            IF e.kind \in Presets THEN write_extracted_event(x, e) ELSE x
      BY <3>3, <3>4
    <3> QED
      BY <3>2, <3>5, <3>6 DEF write_extracted_event
  <2> QED
    BY <2>2, <2>3, <2>4
<1>5. FilterTree(c.tree, e) = event_record_callback(c, e).tree
  <2>1. event_record_callback(c, e).tree =
          IF e.kind \in Presets THEN TreeAfter(c.tree, e) ELSE c.tree
    BY CallbackFacts
  <2>2. CASE e.kind = "process"
    BY <2>1, <2>2 DEF FilterTree, NeedsTree, KeepForOutputOrModules,
                      keep_stack_walk_for_filter, keep_file_completion_for_filter
  <2>3. CASE e.kind # "process"
    BY <2>1, <2>3, <1>3 DEF FilterTree
  <2> QED
    BY <2>2, <2>3
<1> QED
  BY <1>4, <1>5

LEMMA FlushFacts ==
  ASSUME NEW c, ContextInv(c), NEW d, d = flush_pending_file_events(c)
  PROVE  /\ ContextInv(d)
         /\ d.tree = c.tree
         /\ \A i \in Irps : d.pending[i] = None
         /\ d.byObject = c.byObject /\ d.byKey = c.byKey
         /\ d.written = c.written + Cardinality({i \in Irps : c.pending[i] # None})
         /\ \A q \in d.out : \E i \in Irps : c.pending[i] # None /\ IsRow(q, c.pending[i])
         /\ \A i \in Irps : c.pending[i] # None => \E q \in d.out : IsRow(q, c.pending[i])
<1> DEFINE left == {i \in Irps : c.pending[i] # None}
           card == Cardinality(left)
           none == [i \in Irps |-> None]
           rows == {FileRow(c, c.pending[i]) : i \in left}
<1>1. d = [c EXCEPT !.incomplete = @ + card, !.pending = none, !.written = @ + card,
                    !.out = rows]
  BY DEF flush_pending_file_events
<1>2. card \in Nat
  <2>1. IsFiniteSet(left)
    BY ExtractionAssumption, FS_Subset
  <2> HIDE DEF left
  <2> QED
    BY <2>1, FS_CardinalityType
<1>3. none \in [Irps -> Opt(FileRecords)] /\ \A i \in Irps : none[i] = None
  BY DEF Opt
<1>4. \A i \in left : i \in Irps /\ c.pending[i] # None /\ c.pending[i] \in FileRecords
  BY DEF ContextInv, IsContext, Opt
<1>5. \A i \in left : IsRow(FileRow(c, c.pending[i]), c.pending[i])
  BY <1>4, FileRowFacts
<1>6. /\ \A q \in rows : \E i \in Irps : c.pending[i] # None /\ IsRow(q, c.pending[i])
      /\ \A i \in Irps : c.pending[i] # None => \E q \in rows : IsRow(q, c.pending[i])
  BY <1>5
<1> HIDE DEF card, none, rows
<1>7. /\ Same(c, d, {"incomplete", "pending", "written", "out"})
      /\ d.incomplete = c.incomplete + card /\ d.written = c.written + card
      /\ d.pending = none /\ d.out = rows
  BY <1>1 DEF Same, ContextInv, IsContext, ContextFields
<1>8. d.incomplete \in Nat /\ d.written \in Nat
  BY <1>2, <1>7 DEF ContextInv, IsContext
<1>9. IsContext(d)
  BY <1>3, <1>7, <1>8 DEF Same, ContextInv, IsContext, ContextFields
<1>10. /\ d.tree = c.tree /\ d.stacks = c.stacks /\ d.order = c.order
       /\ d.byObject = c.byObject /\ d.byKey = c.byKey
  BY <1>7 DEF Same, ContextFields
<1>11. \A i \in Irps : d.pending[i] = None
  BY <1>3, <1>7
<1>12. ContextInv(d)
  BY <1>9, <1>10, <1>11
     DEF ContextInv, StacksBounded, PendingFiled, PendingIn, StacksIn, FilesOff
<1>13. d.written = c.written + Cardinality({i \in Irps : c.pending[i] # None})
  BY <1>7 DEF card
<1> QED
  BY <1>6, <1>7, <1>10, <1>11, <1>12, <1>13

---------------------------------------------------------------------------
(***************************************************************************)
(* The steps of the machine                                                *)
(***************************************************************************)
\* The part of the invariant that is about the readers alone.
ReaderInv ==
  /\ ContextInv(raw) /\ ContextInv(filt) /\ FilterFaithful
  /\ ftree \subseteq Pids
  /\ faults \subseteq Faults
  /\ n \in Nat /\ n <= MaxEvents /\ seen \in Nat /\ seen <= n
  /\ done \in BOOLEAN

\* The record e was lost, or the consumer of the raw trace has handled it.
Handled(e, member, new) ==
  /\ faults \cup new \subseteq faults'
  /\ ~done /\ done' = done
  /\ \/ "lost" \in faults' /\ raw' = Skip(raw)
     \/ /\ raw' = event_record_callback(raw, e)
        /\ raw'.tree = IF e.kind \in Presets THEN TreeAfter(raw.tree, e) ELSE raw.tree
        /\ raw.tree \subseteq raw'.tree
        /\ seen' = IF member /\ e.kind \in Presets /\ e.op # "op_end" THEN seen + 1 ELSE seen
        /\ \/ Passed(raw, raw', e) \/ Walked(raw, raw', e) \/ Extracted(raw, raw', e)
           \/ Completed(raw, raw', e) \/ Started(raw, raw', e)

LEMMA EmitStep ==
  ASSUME ReaderInv, NEW e, GoodEvent(e), NEW member, NEW new, Emit(e, member, new)
  PROVE  ReaderInv' /\ Handled(e, member, new)
<1>1. /\ ContextInv(raw) /\ ContextInv(filt)
  BY DEF ReaderInv
<1>2. n' = n + 1 /\ ~done /\ done' = done /\ n' \in Nat /\ n' <= MaxEvents
  BY FilterAssumption DEF Emit, ReaderInv
<1>3. CASE Lose(new)
  <2>1. ContextInv(raw') /\ ContextInv(filt')
    BY <1>1, <1>3, SkipInv DEF Lose
  <2>2. FilterFaithful'
    <3>1. ASSUME ~Happened({"inject"})' PROVE filt' = raw' /\ ftree' = raw'.tree
      <4>1. filt = raw /\ ftree = raw.tree
        BY <1>3, <3>1 DEF Lose, ReaderInv, FilterFaithful, Happened
      <4>2. raw'.tree = raw.tree
        BY <1>1, <1>3, SkipInv DEF Lose
      <4> QED
        BY <4>1, <4>2, <1>3 DEF Lose
    <3> QED
      BY <3>1 DEF FilterFaithful
  <2>3. faults \cup new \subseteq faults' /\ "lost" \in faults' /\ faults' \subseteq Faults
    BY <1>3 DEF Lose, MayFault, ReaderInv
  <2>4. seen' \in Nat /\ seen' <= n' /\ ftree' \subseteq Pids
    BY <1>2, <1>3 DEF Lose, ReaderInv
  <2>5. ReaderInv'
    BY <1>2, <2>1, <2>2, <2>3, <2>4 DEF ReaderInv
  <2>6. Handled(e, member, new)
    BY <1>2, <1>3, <2>3 DEF Handled, Lose
  <2> QED
    BY <2>5, <2>6
<1>4. CASE Deliver(e, member, new)
  <2>1. /\ raw' = event_record_callback(raw, e)
        /\ ftree' = FilterTree(ftree, e)
        /\ seen' = IF member /\ e.kind \in Presets /\ e.op # "op_end" THEN seen + 1 ELSE seen
    BY <1>4 DEF Deliver
  <2>2. /\ ContextInv(raw')
        /\ raw'.tree = IF e.kind \in Presets THEN TreeAfter(raw.tree, e) ELSE raw.tree
        /\ raw.tree \subseteq raw'.tree
        /\ \/ Passed(raw, raw', e) \/ Walked(raw, raw', e) \/ Extracted(raw, raw', e)
           \/ Completed(raw, raw', e) \/ Started(raw, raw', e)
    BY <1>1, <2>1, CallbackFacts
  <2>3. ContextInv(filt')
    <3>1. filt' = event_record_callback(filt, e) \/ filt' = Skip(filt)
      BY <1>4 DEF Deliver
    <3> QED
      BY <1>1, <3>1, CallbackFacts, SkipInv
  <2>4. faults \cup new \subseteq faults' /\ faults' \subseteq Faults
    BY <1>4 DEF Deliver, MayFault, ReaderInv
  <2>5. FilterFaithful'
    <3>1. ASSUME ~Happened({"inject"})' PROVE filt' = raw' /\ ftree' = raw'.tree
      <4>1. filt = raw /\ ftree = raw.tree
        BY <2>4, <3>1 DEF ReaderInv, FilterFaithful, Happened
      <4>2. filt' = IF Keep(ftree, e) THEN event_record_callback(filt, e) ELSE Skip(filt)
        BY <1>4, <3>1 DEF Deliver, Happened
      <4>3. /\ ~Keep(raw.tree, e) => event_record_callback(raw, e) = Skip(raw)
            /\ FilterTree(raw.tree, e) = event_record_callback(raw, e).tree
        BY <1>1, FilterFacts
      <4> QED
        BY <2>1, <4>1, <4>2, <4>3
    <3> QED
      BY <3>1 DEF FilterFaithful
  <2>6. ftree' \subseteq Pids
    <3>1. e \in EventRecords /\ ftree \subseteq Pids
      BY DEF GoodEvent, ReaderInv
    <3>2. TreeAfter(ftree, e) \subseteq Pids
      BY <3>1, TreeFacts
    <3> QED
      BY <2>1, <3>1, <3>2 DEF FilterTree
  <2>7. seen' \in Nat /\ seen' <= n'
    BY <1>2, <2>1 DEF ReaderInv
  <2>8. ReaderInv'
    BY <1>2, <2>2, <2>3, <2>4, <2>5, <2>6, <2>7 DEF ReaderInv
  <2>9. Handled(e, member, new)
    BY <1>2, <2>1, <2>2, <2>4 DEF Handled
  <2> QED
    BY <2>8, <2>9
<1> QED
  BY <1>3, <1>4 DEF Emit

LEMMA SilentStep ==
  ASSUME ReaderInv, NEW new, Silent(new)
  PROVE  /\ ReaderInv' /\ faults \cup new \subseteq faults' /\ raw' = Skip(raw)
         /\ ~done /\ done' = done /\ seen' = seen
<1>1. ContextInv(raw) /\ ContextInv(filt)
  BY DEF ReaderInv
<1>2. /\ raw' = Skip(raw) /\ filt' = Skip(filt) /\ faults' = faults \cup new
      /\ n' = n + 1 /\ n < MaxEvents /\ ~done /\ done' = done /\ seen' = seen /\ ftree' = ftree
  BY DEF Silent
<1>3. ContextInv(raw') /\ ContextInv(filt') /\ raw'.tree = raw.tree
  BY <1>1, <1>2, SkipInv
<1>4. FilterFaithful'
  BY <1>2, <1>3 DEF ReaderInv, FilterFaithful, Happened
<1>5. faults' \subseteq Faults
  BY <1>2 DEF Silent, MayFault, ReaderInv
<1>6. n' \in Nat /\ n' <= MaxEvents /\ seen' <= n'
  BY <1>2, FilterAssumption DEF ReaderInv
<1>7. ReaderInv'
  BY <1>2, <1>3, <1>4, <1>5, <1>6 DEF ReaderInv
<1> QED
  BY <1>2, <1>7

LEMMA FinishStep ==
  ASSUME ReaderInv, Finish
  PROVE  ReaderInv'
<1>1. /\ raw' = flush_pending_file_events(raw) /\ filt' = flush_pending_file_events(filt)
      /\ ftree' = ftree /\ faults' = faults /\ n' = n /\ seen' = seen /\ done' = TRUE
  BY DEF Finish
<1>2. ContextInv(raw') /\ ContextInv(filt') /\ raw'.tree = raw.tree
  BY <1>1, FlushFacts DEF ReaderInv
<1>3. FilterFaithful'
  BY <1>1, <1>2 DEF ReaderInv, FilterFaithful, Happened
<1> QED
  BY <1>1, <1>2, <1>3 DEF ReaderInv

(***************************************************************************)
(* The records the machine emits are those event_record_callback expects.  *)
(***************************************************************************)
\* The machine's own variables.
MachineType ==
  /\ live \subseteq used /\ kin \subseteq used /\ used \subseteq Pids
  /\ files \in [Objects -> FileStates]
  /\ inflight \subseteq Irps
  /\ gen \in [Irps -> {0, 1}]

LEMMA EventShape ==
  \E s \in Stamps :
    Event = [kind |-> "none", hdr |-> ZeroPid, pid |-> None, parent |-> None, tid |-> None,
             stamp |-> s, stack |-> {}, ghost |-> None, base |-> None, image |-> None,
             op |-> None, irp |-> None, object |-> None, key |-> None, path |-> None,
             address |-> None, target |-> None]
<1>1. (CHOOSE s \in Stamps : TRUE) \in Stamps
  BY FilterAssumption
<1> QED
  BY <1>1 DEF Event

LEMMA EventType == Event \in EventRecords
  BY EventShape, ExtractionAssumption DEF EventRecords, Opt, Ghosts

\* The records of Machine and of Completion, as EtwFilter writes them.
StartEvent(p, q) ==
  [Event EXCEPT !.kind = "process", !.hdr = q, !.pid = p, !.parent = q, !.ghost = [by |-> q]]

EndEvent(p) ==
  [Event EXCEPT !.kind = "process", !.hdr = p, !.pid = p, !.ghost = [by |-> p]]

OtherEvent(p, owner, kind, s) ==
  [Event EXCEPT !.kind = kind, !.hdr = p, !.pid = owner, !.tid = "t",
                !.stamp = s, !.ghost = [by |-> p]]

ImageEvent(p, owner, base, image) ==
  [Event EXCEPT !.kind = "image", !.hdr = p, !.pid = owner, !.base = base,
                !.image = image, !.ghost = [by |-> p]]

StackEvent(p, tid, stamp, address, target) ==
  [Event EXCEPT !.kind = "stack", !.pid = p, !.tid = tid, !.stamp = stamp,
                !.address = address, !.target = target]

CompletionEvent(p, irp) ==
  [Event EXCEPT !.kind = "file", !.hdr = p, !.tid = "t", !.op = "op_end",
                !.irp = irp, !.ghost = [names |-> {}, gen |-> gen[irp]]]

\* A record of file I/O, with another key and path than those of its file.
Showing(r, key, path) == [r EXCEPT !.key = key, !.path = path]

LEMMA ByGhost ==
  ASSUME NEW p \in Pids, NEW g, g = [by |-> p]
  PROVE  g \in Ghosts /\ g.by = p
  BY DEF Ghosts, Opt

LEMMA ProcessEvents ==
  ASSUME NEW p \in Pids, NEW q \in Pids, NEW e, e = StartEvent(p, q) \/ e = EndEvent(p)
  PROVE  /\ GoodEvent(e) /\ ~IsFileIo(e)
         /\ e.kind = "process" /\ e.pid = p /\ e.op # "op_end"
         /\ e = StartEvent(p, q) => e.parent = q /\ e.ghost.by = q
         /\ e = EndEvent(p) => e.parent = None /\ e.ghost.by = p
<1>1. e \in EventRecords
  <2>1. p \in Opt(Pids) /\ q \in Opt(Pids) /\ [by |-> p] \in Ghosts /\ [by |-> q] \in Ghosts
    BY ByGhost DEF Opt
  <2>2. CASE e = StartEvent(p, q)
    BY <2>1, <2>2, EventType DEF EventRecords, Categories, StartEvent
  <2>3. CASE e = EndEvent(p)
    BY <2>1, <2>3, EventType DEF EventRecords, Categories, EndEvent
  <2> QED
    BY <2>2, <2>3
<1>2. /\ e.kind = "process" /\ e.pid = p /\ e.op = None
      /\ e = StartEvent(p, q) => e.parent = q /\ e.ghost.by = q
      /\ e = EndEvent(p) => e.parent = None /\ e.ghost.by = p
  <2>1. LET x == StartEvent(p, q)
        IN  x.kind = "process" /\ x.pid = p /\ x.op = None /\ x.parent = q /\ x.ghost.by = q
    BY DEF Event, StartEvent
  <2>2. LET x == EndEvent(p)
        IN  x.kind = "process" /\ x.pid = p /\ x.op = None /\ x.parent = None /\ x.ghost.by = p
    BY DEF Event, EndEvent
  <2> QED
    BY <2>1, <2>2
<1> QED
  BY <1>1, <1>2, NoneAssumption DEF GoodEvent, IsFileIo, Opcodes

LEMMA OtherEvents ==
  ASSUME NEW p \in Pids, NEW kind \in Categories \ {"process", "image"}, NEW s \in Stamps,
         NEW owner \in Opt(Pids), kind \in PayloadNames \/ owner = None,
         NEW e, e = OtherEvent(p, owner, kind, s)
  PROVE  /\ GoodEvent(e) /\ ~IsFileIo(e)
         /\ e.kind = kind /\ e.hdr = p /\ e.op # "op_end" /\ e.ghost.by = p
         /\ ProcessPid(e) = p \/ kind \in PayloadNames
<1> DEFINE g == [by |-> p]
<1>1. g \in Ghosts /\ g.by = p
  BY ByGhost
<1> HIDE DEF g
<1>2. e = [Event EXCEPT !.kind = kind, !.hdr = p, !.pid = owner, !.tid = "t",
                        !.stamp = s, !.ghost = g]
  BY DEF OtherEvent, g
<1>3. e \in EventRecords
  <2> DEFINE x == [Event EXCEPT !.kind = kind, !.hdr = p, !.pid = owner]
  <2>1. "t" \in Opt(Tids)
    BY FilterAssumption DEF Opt
  <2>2. x \in EventRecords
    BY EventType DEF EventRecords
  <2>3. e = [x EXCEPT !.tid = "t", !.stamp = s, !.ghost = g]
    BY <1>2 DEF Event
  <2> HIDE DEF x
  <2> QED
    BY <1>1, <2>1, <2>2, <2>3, ZenonT(40) DEF EventRecords
<1>4. e.kind = kind /\ e.hdr = p /\ e.op = None /\ e.pid = owner /\ e.ghost = g
  BY <1>2 DEF Event
<1> QED
  BY <1>1, <1>3, <1>4, NoneAssumption DEF GoodEvent, IsFileIo, Opcodes, Categories, ProcessPid

LEMMA ImageEvents ==
  ASSUME NEW p \in Pids, NEW owner \in Pids, NEW base \in Bases,
         NEW image \in Images \cup {None},
         NEW e, e = ImageEvent(p, owner, base, image)
  PROVE  /\ GoodEvent(e) /\ ~IsFileIo(e)
         /\ e.kind = "image" /\ e.hdr = p /\ e.op # "op_end" /\ e.ghost.by = p
<1> DEFINE g == [by |-> p]
<1>1. g \in Ghosts /\ g.by = p
  BY ByGhost
<1> HIDE DEF g
<1>2. e = [Event EXCEPT !.kind = "image", !.hdr = p, !.pid = owner, !.base = base,
                        !.image = image, !.ghost = g]
  BY DEF ImageEvent, g
<1>3. e \in EventRecords
  <2> DEFINE x == [Event EXCEPT !.kind = "image", !.hdr = p, !.pid = owner]
  <2>1. owner \in Opt(Pids) /\ base \in Opt(Bases) /\ image \in Opt(Images)
    BY DEF Opt
  <2>2. x \in EventRecords
    BY <2>1, EventType DEF EventRecords, Categories
  <2>3. e = [x EXCEPT !.base = base, !.image = image, !.ghost = g]
    BY <1>2 DEF Event
  <2> HIDE DEF x
  <2> QED
    BY <1>1, <2>1, <2>2, <2>3, ZenonT(40) DEF EventRecords
<1>4. e.kind = "image" /\ e.hdr = p /\ e.op = None /\ e.ghost = g
  BY <1>2 DEF Event
<1> QED
  BY <1>1, <1>3, <1>4, NoneAssumption DEF GoodEvent, IsFileIo, Opcodes

LEMMA StackEvents ==
  ASSUME NEW p \in Pids, NEW tid \in Tids, NEW stamp \in Stamps, NEW address \in Bases,
         NEW target \in Irps,
         NEW e, e = StackEvent(p, tid, stamp, address, target)
  PROVE  GoodEvent(e) /\ e.kind = "stack" /\ ~IsFileIo(e)
<1>1. e \in EventRecords
  <2>1. /\ p \in Opt(Pids) /\ tid \in Opt(Tids)
        /\ address \in Opt(Bases) /\ target \in Opt(Irps)
    BY DEF Opt
  <2> QED
    BY <2>1, EventType DEF EventRecords, StackEvent
<1>2. e.kind = "stack" /\ e.op = None /\ e.pid = p
  BY DEF Event, StackEvent
<1> QED
  BY <1>1, <1>2, NoneAssumption DEF GoodEvent, IsFileIo, Opcodes

LEMMA CompletionEvents ==
  ASSUME MachineType, NEW p \in Pids, NEW irp \in Irps,
         NEW e, e = CompletionEvent(p, irp)
  PROVE  /\ GoodEvent(e) /\ IsFileIo(e)
         /\ e.kind = "file" /\ e.hdr = p /\ e.op = "op_end" /\ e.irp = irp
         /\ e.ghost.gen = gen[irp]
<1> DEFINE g == [names |-> {}, gen |-> gen[irp]]
<1>1. g \in Ghosts /\ g.gen = gen[irp]
  BY DEF Ghosts, Opt, MachineType
<1> HIDE DEF g
<1>2. e = [Event EXCEPT !.kind = "file", !.hdr = p, !.tid = "t", !.op = "op_end",
                        !.irp = irp, !.ghost = g]
  BY DEF g, CompletionEvent
<1>3. e \in EventRecords
  <2> DEFINE x == [Event EXCEPT !.kind = "file", !.hdr = p, !.tid = "t"]
  <2>1. "t" \in Opt(Tids) /\ "op_end" \in Opt(Opcodes) /\ irp \in Opt(Irps)
    BY FilterAssumption DEF Opt, Opcodes
  <2>2. x \in EventRecords
    BY <2>1, EventType DEF EventRecords, Categories
  <2> DEFINE y == [x EXCEPT !.op = "op_end", !.irp = irp]
  <2>3. e = [y EXCEPT !.ghost = g]
    BY <1>2 DEF Event
  <2> HIDE DEF x
  <2>4. y \in EventRecords
    BY <2>1, <2>2 DEF EventRecords
  <2> HIDE DEF y
  <2>5. [y EXCEPT !.ghost = g] \in EventRecords
    BY <1>1, <2>4 DEF EventRecords
  <2> QED
    BY <2>3, <2>5
<1>4. /\ e.kind = "file" /\ e.hdr = p /\ e.op = "op_end" /\ e.irp = irp /\ e.ghost = g
      /\ e.pid = None
  BY <1>2 DEF Event
<1> QED
  BY <1>1, <1>3, <1>4, NoneAssumption DEF GoodEvent, IsFileIo, Opcodes

\* The record of an I/O that begins; key, path and object vary with its opcode.
LEMMA FileEvents ==
  ASSUME MachineType, NEW p \in Pids, NEW op \in Opcodes \ {"op_end"},
         NEW irp \in Opt(Irps), NEW o \in Opt(Objects), NEW file \in FileStates,
         NEW stamp \in Stamps, NEW key \in Opt(Keys), NEW path \in Opt(Paths),
         NEW e, \/ /\ e = FileRecord(p, op, irp, o, file, stamp)
                   /\ key = file.key /\ path = None
                \/ e = Showing(FileRecord(p, op, irp, o, file, stamp), key, path)
  PROVE  /\ GoodEvent(e) /\ IsFileIo(e)
         /\ e.kind = "file" /\ e.hdr = p /\ ProcessPid(e) = p /\ e.op = op /\ e.op # "op_end"
         /\ e.irp = irp /\ e.object = o /\ e.key = key /\ e.path = path
         /\ e.ghost.names = file.names
         /\ irp \in Irps => e.ghost.gen = 1 - gen[irp]
<1> DEFINE g == [names |-> file.names, gen |-> IF irp = None THEN None ELSE 1 - gen[irp]]
           r == FileRecord(p, op, irp, o, file, stamp)
<1>1. /\ g \in Ghosts /\ g.names = file.names
      /\ irp \in Irps => g.gen = 1 - gen[irp]
  <2>1. irp # None => irp \in Irps /\ 1 - gen[irp] \in {0, 1}
    BY DEF Opt, MachineType
  <2>2. irp \in Irps => irp # None
    BY ExtractionAssumption
  <2>3. file.names \in SUBSET Paths
    BY DEF FileStates
  <2>4. (IF irp = None THEN None ELSE 1 - gen[irp]) \in Opt({0, 1})
    BY <2>1 DEF Opt
  <2>5. g \in [names : SUBSET Paths, gen : Opt({0, 1})]
    BY <2>3, <2>4
  <2> QED
    BY <2>2, <2>5 DEF Ghosts, Opt
<1> HIDE DEF g
<1>2. r = [Event EXCEPT !.kind = "file", !.hdr = p, !.tid = "t", !.stamp = stamp, !.op = op,
                        !.irp = irp, !.object = o, !.key = file.key, !.ghost = g]
  BY DEF FileRecord, g
<1>3. op \in Opcodes /\ op # None /\ file.key \in Opt(Keys) /\ "t" \in Opt(Tids)
  BY NoneAssumption, FilterAssumption DEF FileStates, Opt
<1>4. r \in EventRecords
  <2> DEFINE x == [Event EXCEPT !.kind = "file", !.hdr = p, !.tid = "t", !.stamp = stamp]
             y == [x EXCEPT !.op = op, !.irp = irp, !.object = o]
  <2>1. op \in Opt(Opcodes)
    BY <1>3 DEF Opt
  <2>2. x \in EventRecords
    BY <1>3, EventType DEF EventRecords, Categories
  <2>3. r = [y EXCEPT !.key = file.key, !.ghost = g]
    BY <1>2 DEF Event
  <2> HIDE DEF x
  <2>4. y \in EventRecords
    BY <2>1, <2>2 DEF EventRecords
  <2> HIDE DEF y
  <2> QED
    BY <1>1, <1>3, <2>3, <2>4, ZenonT(40) DEF EventRecords
<1>5. /\ r.kind = "file" /\ r.hdr = p /\ r.op = op /\ r.irp = irp /\ r.ghost = g
      /\ r.pid = None /\ r.object = o /\ r.key = file.key /\ r.path = None
  BY <1>2 DEF Event
<1> HIDE DEF r
<1>6. \/ e = r /\ key = file.key /\ path = None
      \/ e = [r EXCEPT !.key = key, !.path = path]
  BY DEF r, Showing
<1>7. e \in EventRecords
  <2>1. CASE e = [r EXCEPT !.key = key, !.path = path]
    BY <1>4, <2>1 DEF EventRecords
  <2> QED
    BY <1>4, <1>6, <2>1
<1>8. /\ e.kind = "file" /\ e.hdr = p /\ e.op = op /\ e.irp = irp /\ e.ghost = g
      /\ e.pid = None /\ e.object = o /\ e.key = key /\ e.path = path
  <2>1. CASE e = [r EXCEPT !.key = key, !.path = path]
    BY <1>4, <1>5, <2>1 DEF EventRecords
  <2> QED
    BY <1>5, <1>6, <2>1
<1> QED
  BY <1>1, <1>3, <1>7, <1>8 DEF GoodEvent, IsFileIo, ProcessPid

---------------------------------------------------------------------------
(***************************************************************************)
(* What one record changes.  The lemmas of this part are about a step in   *)
(* which a record e was handled and the machine did to its processes and   *)
(* to its IRPs what the next two definitions say.                          *)
(***************************************************************************)
\* e is not about a process; member says if its issuer is the root or a descendant.
NoProcess(e, member) ==
  /\ e.kind # "process"
  /\ live' = live /\ kin' = kin /\ used' = used
  /\ e.kind # "stack" => ProcessPid(e) = e.hdr \/ e.kind \in PayloadNames
  /\ e.kind # "stack" /\ ~IsFileIo(e) => e.ghost.by = e.hdr
  /\ e.kind \in Presets /\ e.op # "op_end" => e.hdr \in live /\ (member <=> e.hdr \in kin)

\* I/O begins under an IRP that is free and ends under one that is not.
IrpUse(e) ==
  /\ ~IsFileIo(e) => inflight' = inflight /\ gen' = gen
  /\ IsFileIo(e) /\ e.op = "op_end" =>
       /\ e.irp \in Irps /\ inflight' = inflight \ {e.irp} /\ gen' = gen
       /\ e.ghost.gen = gen[e.irp]
  /\ IsFileIo(e) /\ e.op # "op_end" =>
       /\ \A i \in Irps : i # e.irp => /\ i \in inflight => i \in inflight'
                                       /\ gen'[i] = gen[i]
       /\ e.irp \in Irps => /\ e.irp \notin inflight /\ e.irp \in inflight'
                            /\ e.ghost.gen = gen'[e.irp]

\* The rows of a step in which a record was handled.
LEMMA RowFacts ==
  ASSUME ReaderInv, NEW e, GoodEvent(e), NEW member, NEW new, Handled(e, member, new),
         NEW q, q \in raw'.out
  PROVE  \/ Extracted(raw, raw', e) /\ IsPlainRow(q, e)
         \/ \E i \in Irps :
              /\ raw.pending[i] # None
              /\ "op" \in DOMAIN q
              /\ q.pid = raw.pending[i].pid /\ q.irp = i
              /\ q.path = raw.pending[i].path /\ q.ghost = raw.pending[i].ghost
              /\ \/ q.end = None
                 \/ Completed(raw, raw', e) /\ i = e.irp /\ q.end.ghost = e.ghost
         \/ /\ Started(raw, raw', e)
            /\ \E r : /\ Begun(raw, raw', e, r)
                      /\ "op" \in DOMAIN q
                      /\ q.pid = ProcessPid(e) /\ q.irp = e.irp /\ q.end = None
                      /\ q.path = r.path /\ q.ghost = e.ghost
<1>0. ContextInv(raw) /\ raw.pending \in [Irps -> Opt(FileRecords)]
  BY DEF ReaderInv, ContextInv, IsContext
<1>1. raw' # Skip(raw)
  BY <1>0, SkipInv
<1>2. \/ Passed(raw, raw', e) \/ Walked(raw, raw', e) \/ Extracted(raw, raw', e)
      \/ Completed(raw, raw', e) \/ Started(raw, raw', e)
  BY <1>1 DEF Handled
<1>3. ~Passed(raw, raw', e) /\ ~Walked(raw, raw', e)
  BY DEF Passed, Walked
<1>4. CASE Extracted(raw, raw', e)
  BY <1>4 DEF Extracted
<1>5. CASE Completed(raw, raw', e)
  <2>0. PICK p \in FileRecords :
             \E x : /\ raw'.out = {x} /\ IsRow(x, p)
                   /\ p.pid = raw.pending[e.irp].pid /\ p.irp = raw.pending[e.irp].irp
                   /\ p.path = raw.pending[e.irp].path
                   /\ p.ghost = raw.pending[e.irp].ghost
                   /\ p.end.ghost = e.ghost
    BY <1>5 DEF Completed
  <2>1. PICK x : /\ raw'.out = {x} /\ IsRow(x, p)
                 /\ p.pid = raw.pending[e.irp].pid /\ p.irp = raw.pending[e.irp].irp
                 /\ p.path = raw.pending[e.irp].path
                 /\ p.ghost = raw.pending[e.irp].ghost
                 /\ p.end.ghost = e.ghost
    BY <2>0
  <2>2. e.irp \in Irps /\ raw.pending[e.irp] # None
    BY <1>5 DEF Completed
  <2>3. raw.pending[e.irp].irp = e.irp
    BY <1>0, <2>2 DEF ContextInv, PendingFiled
  <2> QED
    BY <1>5, <2>1, <2>2, <2>3 DEF IsRow
<1>6. CASE Started(raw, raw', e)
  <2>1. PICK r : Begun(raw, raw', e, r)
    BY <1>6 DEF Started
  <2>2. CASE \E x : raw'.out = {x} /\ IsRow(x, r)
    <3>1. IsRow(q, r)
      BY <2>2
    <3>2. /\ r.pid = ProcessPid(e) /\ r.irp = e.irp /\ r.end = None
          /\ r.ghost = e.ghost
      BY <2>1 DEF Begun
    <3>3. /\ "op" \in DOMAIN q
          /\ q.pid = ProcessPid(e) /\ q.irp = e.irp /\ q.end = None
          /\ q.path = r.path /\ q.ghost = e.ghost
      BY <3>1, <3>2 DEF IsRow
    <3> QED
      BY <1>6, <2>1, <3>3
  <2>3. CASE /\ e.irp \in Irps /\ raw.pending[e.irp] # None
             /\ \E x : raw'.out = {x} /\ IsRow(x, raw.pending[e.irp])
    <3>1. raw.pending[e.irp].irp = e.irp /\ raw.pending[e.irp].end = None
      BY <1>0, <2>3 DEF ContextInv, PendingFiled
    <3> QED
      BY <2>3, <3>1 DEF IsRow
  <2> QED
    BY <2>1, <2>2, <2>3 DEF Begun
<1> QED
  BY <1>2, <1>3, <1>4, <1>5, <1>6

\* Only a record of a process changes the tree.
LEMMA TreeKept ==
  ASSUME ReaderInv, NEW e, GoodEvent(e), e.kind # "process", NEW member, NEW new,
         Handled(e, member, new)
  PROVE  raw'.tree = raw.tree
<1>1. e \in EventRecords /\ raw.tree \subseteq Pids
  BY DEF GoodEvent, ReaderInv, ContextInv, IsContext
<1>2. TreeAfter(raw.tree, e) = raw.tree
  BY <1>1, TreeFacts
<1>3. raw' = Skip(raw) => raw'.tree = raw.tree
  BY SkipInv DEF ReaderInv
<1> QED
  BY <1>2, <1>3 DEF Handled

\* What happened before still has happened.
LEMMA FaultsKept ==
  ASSUME NEW F, ~Happened(F)', faults \subseteq faults'
  PROVE  ~Happened(F)
  BY DEF Happened

\* What OnlyTree says of the row q of a step.
InTree(q) ==
  /\ q.pid \in kin' \/ ("op" \notin DOMAIN q /\ q.kind \in PayloadNames)
  /\ "op" \notin DOMAIN q => q.ghost.by \in kin'

LEMMA TreeStep ==
  ASSUME ReaderInv, TreeFollowed, TreeIsKin, AllKin,
         NEW e, GoodEvent(e), NEW member, NEW new, Handled(e, member, new),
         NoProcess(e, member)
  PROVE  TreeFollowed' /\ TreeIsKin' /\ AllKin' /\ OnlyTree'
<1>1. raw'.tree = raw.tree /\ kin' = kin /\ used' = used /\ faults \subseteq faults'
  BY TreeKept DEF NoProcess, Handled
<1>2. TreeFollowed'
  BY <1>1, FaultsKept DEF TreeFollowed, Happened
<1>3. TreeIsKin'
  BY <1>1 DEF TreeIsKin, Happened
<1>4. AllKin'
  BY <1>1 DEF AllKin
<1>5. OnlyTree'
  <2> SUFFICES ASSUME ~Happened({"pid", "lost"})', Rooted, NEW q \in raw'.out
               PROVE  InTree(q)
    BY DEF OnlyTree, InTree
  <2>1. raw.tree \subseteq kin
    BY <1>1 DEF TreeIsKin, Happened
  <2>2. PendingIn(raw, raw.tree)
    BY DEF ReaderInv, ContextInv
  <2>3. CASE Extracted(raw, raw', e) /\ IsPlainRow(q, e)
    <3>1. e.hdr \in raw.tree /\ e.kind # "stack"
      <4>1. "stack" \notin Presets
        BY PresetsAssumption DEF Categories
      <4> QED
        BY <2>3, <4>1 DEF Extracted, process_tree_allows_event, NoProcess
    <3>2. ~IsFileIo(e)
      BY <2>3 DEF Extracted
    <3> QED
      BY <1>1, <2>1, <2>3, <3>1, <3>2 DEF NoProcess, IsPlainRow, InTree
  <2>4. CASE /\ "op" \in DOMAIN q
             /\ \E i \in Irps : raw.pending[i] # None /\ q.pid = raw.pending[i].pid
    BY <1>1, <2>1, <2>2, <2>4 DEF PendingIn, InTree
  <2>5. CASE Started(raw, raw', e) /\ "op" \in DOMAIN q /\ q.pid = ProcessPid(e)
    <3>1. e.kind = "file" /\ process_tree_allows_event(raw.tree, e)
      BY <2>5 DEF Started, IsFileIo
    <3>2. e.hdr \in raw.tree /\ ProcessPid(e) = e.hdr
      BY <3>1 DEF process_tree_allows_event, NoProcess, PayloadNames
    <3> QED
      BY <1>1, <2>1, <2>5, <3>2 DEF InTree
  <2> QED
    BY <2>3, <2>4, <2>5, RowFacts
<1> QED
  BY <1>2, <1>3, <1>4, <1>5

\* What is pending after a record: all the same I/O as before, but for the IRP of the
\* record, if it is one of file I/O.
LEMMA PendingFacts ==
  ASSUME ReaderInv, NEW e, GoodEvent(e), NEW member, NEW new, Handled(e, member, new)
  PROVE  /\ \A i \in Irps : (IsFileIo(e) => i # e.irp) =>
               SameIo(raw.pending[i], raw'.pending[i])
         /\ IsFileIo(e) /\ e.irp \in Irps /\ "lost" \notin faults' =>
              \/ raw'.pending[e.irp] = None
              \/ Passed(raw, raw', e) /\ raw'.pending[e.irp] = raw.pending[e.irp]
              \/ /\ Started(raw, raw', e)
                 /\ Begun(raw, raw', e, raw'.pending[e.irp])
<1>0. /\ ContextInv(raw) /\ raw.pending \in [Irps -> Opt(FileRecords)]
  BY DEF ReaderInv, ContextInv, IsContext
<1>1. CASE "lost" \in faults' /\ raw' = Skip(raw)
  <2>1. raw'.pending = raw.pending
    <3>1. Same(raw, raw', {"out"})
      BY <1>0, <1>1, SkipInv
    <3> QED
      BY <3>1 DEF Same, ContextFields
  <2> QED
    BY <1>1, <2>1 DEF SameIo
<1>2. CASE Passed(raw, raw', e)
  <2>1. raw'.pending = raw.pending
    BY <1>2 DEF Passed, Same, ContextFields
  <2> QED
    BY <1>2, <2>1 DEF SameIo
<1>3. CASE Walked(raw, raw', e)
  BY <1>3 DEF Walked, IsFileIo
<1>4. CASE Extracted(raw, raw', e)
  <2>1. raw'.pending = raw.pending
    BY <1>4 DEF Extracted, Same, ContextFields
  <2> QED
    BY <1>4, <2>1 DEF Extracted, SameIo
<1>5. CASE Completed(raw, raw', e)
  BY <1>0, <1>5 DEF Completed, SameIo
<1>6. CASE Started(raw, raw', e)
  <2>1. PICK r : Begun(raw, raw', e, r)
    BY <1>6 DEF Started
  <2>2. IsFileIo(e)
    BY <1>6 DEF Started
  <2>3. CASE e.irp \in Irps /\ raw'.pending = [raw.pending EXCEPT ![e.irp] = r]
    <3>1. raw'.pending[e.irp] = r
      BY <1>0, <2>3
    <3>2. \A i \in Irps : i # e.irp => raw'.pending[i] = raw.pending[i]
      BY <1>0, <2>3
    <3> QED
      BY <1>6, <2>1, <2>2, <3>1, <3>2 DEF SameIo
  <2>4. CASE \A i \in Irps : raw'.pending[i] = IF i = e.irp THEN None ELSE raw.pending[i]
    BY <2>2, <2>4 DEF SameIo
  <2> QED
    BY <2>1, <2>3, <2>4 DEF Begun
<1> QED
  BY <1>1, <1>2, <1>3, <1>4, <1>5, <1>6 DEF Handled

LEMMA IrpStep ==
  ASSUME ReaderInv, PendingInFlight, NEW e, GoodEvent(e), NEW member, NEW new,
         Handled(e, member, new), IrpUse(e)
  PROVE  PendingInFlight' /\ PairedRight'
<1>1. SUFFICES ASSUME ~Happened({"lost"})'
               PROVE  PendingInFlight' /\ PairedRight'
  BY DEF PendingInFlight, PairedRight
<1>2. "lost" \notin faults' /\ faults \subseteq faults'
  BY <1>1 DEF Happened, Handled
<1>3. \A i \in Irps : raw.pending[i] # None => /\ i \in inflight
                                               /\ raw.pending[i].ghost.gen = gen[i]
  BY <1>2 DEF PendingInFlight, Pending, Happened
<1>4. \A i \in Irps : (IsFileIo(e) => i # e.irp) => SameIo(raw.pending[i], raw'.pending[i])
  BY PendingFacts
<1>5. ASSUME NEW i \in Irps, raw'.pending[i] # None
      PROVE  i \in inflight' /\ raw'.pending[i].ghost.gen = gen'[i]
  <2>1. CASE ~IsFileIo(e) \/ i # e.irp
    <3>1. SameIo(raw.pending[i], raw'.pending[i])
      BY <1>4, <2>1
    <3>2. i \in inflight /\ raw.pending[i].ghost.gen = gen[i]
          /\ raw'.pending[i].ghost = raw.pending[i].ghost
      BY <1>3, <1>5, <3>1 DEF SameIo
    <3>3. i \in inflight' /\ gen'[i] = gen[i]
      BY <2>1, <3>2 DEF IrpUse
    <3> QED
      BY <3>2, <3>3
  <2>2. CASE IsFileIo(e) /\ i = e.irp
    <3>1. CASE Passed(raw, raw', e) /\ raw'.pending[i] = raw.pending[i]
      <4>1. i \in inflight
        BY <1>3, <1>5, <3>1
      <4>2. e.op = "op_end"
        BY <2>2, <4>1 DEF IrpUse
      <4>3. "file" \notin Presets
        BY <2>2, <3>1, <4>2 DEF Passed, IsFileIo
      <4> QED
        BY <1>5, <3>1, <4>3 DEF ReaderInv, ContextInv, FilesOff
    <3>2. CASE Started(raw, raw', e) /\ Begun(raw, raw', e, raw'.pending[i])
      <4>1. raw'.pending[i].ghost = e.ghost /\ e.op # "op_end"
        BY <3>2 DEF Begun, Started
      <4> QED
        BY <2>2, <4>1 DEF IrpUse
    <3> QED
      BY <1>2, <1>5, <2>2, <3>1, <3>2, PendingFacts
  <2> QED
    BY <2>1, <2>2
<1>6. PendingInFlight'
  BY <1>5 DEF PendingInFlight, Pending
<1>7. ASSUME NEW q \in raw'.out, "op" \in DOMAIN q, q.end # None
      PROVE  q.end.ghost.gen = q.ghost.gen
  <2>1. ~IsPlainRow(q, e)
    BY <1>7 DEF IsPlainRow
  <2>2. PICK i \in Irps : /\ raw.pending[i] # None /\ q.ghost = raw.pending[i].ghost
                          /\ Completed(raw, raw', e) /\ i = e.irp /\ q.end.ghost = e.ghost
    BY <1>7, <2>1, RowFacts
  <2>3. e.ghost.gen = gen[e.irp]
    BY <2>2 DEF IrpUse, Completed
  <2> QED
    BY <1>3, <2>2, <2>3
<1>8. PairedRight'
  BY <1>7 DEF PairedRight
<1> QED
  BY <1>6, <1>8

\* A pending record leaves the map only into a row, or under a CLOSE that has its IRP.
LEMMA LeavesIntoRow ==
  ASSUME ReaderInv, NEW e, GoodEvent(e), NEW member, NEW new, Handled(e, member, new),
         NEW i \in Irps, raw.pending[i] # None,
         raw'.pending[i] = None \/ raw'.pending[i].ghost # raw.pending[i].ghost
  PROVE  \E r \in raw'.out : /\ "op" \in DOMAIN r
                             /\ r.irp = i
                             /\ r.ghost = raw.pending[i].ghost \/ r.op = "close"
<1>0. /\ raw.pending \in [Irps -> Opt(FileRecords)]
      /\ raw.pending[i].irp = i
  BY DEF ReaderInv, ContextInv, IsContext, PendingFiled
<1>1. ~SameIo(raw.pending[i], raw'.pending[i])
  BY DEF SameIo
<1>2. IsFileIo(e) /\ i = e.irp
  BY <1>1, PendingFacts
<1>3. raw' # Skip(raw) /\ ~Passed(raw, raw', e)
  <2>1. ContextInv(raw)
    BY DEF ReaderInv
  <2>2. Same(raw, raw', {"out"}) => raw'.pending = raw.pending
    BY DEF Same, ContextFields
  <2>3. Same(raw, raw', {"modules", "out"}) => raw'.pending = raw.pending
    BY DEF Same, ContextFields
  <2>4. raw'.pending # raw.pending
    BY <1>1 DEF SameIo
  <2> QED
    BY <2>1, <2>2, <2>3, <2>4, SkipInv DEF Passed
<1>4. Completed(raw, raw', e) \/ Started(raw, raw', e)
  <2>1. ~Walked(raw, raw', e) /\ ~Extracted(raw, raw', e)
    BY <1>2 DEF Walked, Extracted, IsFileIo
  <2> QED
    BY <1>3, <2>1 DEF Handled
<1>5. CASE Completed(raw, raw', e)
  <2>0. PICK p \in FileRecords :
          \E q : /\ raw'.out = {q} /\ IsRow(q, p)
                /\ p.irp = raw.pending[e.irp].irp /\ p.ghost = raw.pending[e.irp].ghost
    BY <1>2, <1>5 DEF Completed
  <2>1. PICK q : /\ raw'.out = {q} /\ IsRow(q, p)
                 /\ p.irp = raw.pending[e.irp].irp /\ p.ghost = raw.pending[e.irp].ghost
    BY <2>0
  <2> QED
    BY <1>0, <1>2, <2>1 DEF IsRow
<1>6. CASE Started(raw, raw', e)
  <2>1. PICK r : Begun(raw, raw', e, r)
    BY <1>6 DEF Started
  <2>2. CASE e.op # "close"
    <3>1. PICK q : raw'.out = {q} /\ IsRow(q, raw.pending[e.irp])
      <4>1. e.irp # None
        BY <1>2, ExtractionAssumption
      <4> QED
        BY <1>2, <2>1, <2>2, <4>1 DEF Begun
    <3> QED
      BY <1>0, <1>2, <3>1 DEF IsRow
  <2>3. CASE e.op = "close"
    <3>1. PICK q : raw'.out = {q} /\ IsRow(q, r)
      BY <2>1, <2>3 DEF Begun
    <3> QED
      BY <1>2, <2>1, <2>3, <3>1 DEF IsRow, Begun
  <2> QED
    BY <2>2, <2>3
<1> QED
  BY <1>4, <1>5, <1>6

\* One more or one less of the IRPs has a pending record.
LEMMA Counting ==
  ASSUME NEW S, NEW T, S \subseteq Irps, T \subseteq Irps, NEW i \in Irps
  PROVE  /\ Cardinality(S) \in Nat
         /\ i \notin S /\ T = S \cup {i} => Cardinality(T) = Cardinality(S) + 1
         /\ i \in S /\ T = S \ {i} => Cardinality(T) = Cardinality(S) - 1
<1>1. IsFiniteSet(S)
  BY ExtractionAssumption, FS_Subset
<1>2. Cardinality(S) \in Nat
  BY <1>1, FS_CardinalityType
<1>3. ASSUME i \notin S, T = S \cup {i} PROVE Cardinality(T) = Cardinality(S) + 1
  BY <1>1, <1>3, FS_AddElement
<1>4. ASSUME i \in S, T = S \ {i} PROVE Cardinality(T) = Cardinality(S) - 1
  BY <1>1, <1>4, FS_RemoveElement
<1> QED
  BY <1>2, <1>3, <1>4

\* The machine and the adapter agree on which records are of the tree.
MemberRight(e, member) ==
  /\ ~Happened({"lost", "pid"})' /\ "process" \in Presets
  /\ e.kind \in Presets /\ e.op # "op_end"
  => (member <=> process_tree_allows_event(raw.tree, e))

LEMMA CountStep ==
  ASSUME ReaderInv, PendingInFlight, RowPerRecord, NEW e, GoodEvent(e), NEW member, NEW new,
         Handled(e, member, new), IrpUse(e), MemberRight(e, member)
  PROVE  RowPerRecord'
<1> DEFINE S == {i \in Irps : raw.pending[i] # None}
           T == {i \in Irps : raw'.pending[i] # None}
<1>1. SUFFICES ASSUME ~Happened({"lost", "pid"})', "process" \in Presets
               PROVE  seen' = raw'.written + Cardinality(T)
  BY DEF RowPerRecord
<1>2. "lost" \notin faults' /\ faults \subseteq faults'
  BY <1>1 DEF Happened, Handled
<1>3. seen = raw.written + Cardinality(S)
  BY <1>1, <1>2 DEF RowPerRecord, Happened
<1>4. /\ raw.pending \in [Irps -> Opt(FileRecords)] /\ raw.written \in Nat
      /\ ContextInv(raw)
  BY DEF ReaderInv, ContextInv, IsContext
<1>5. S \subseteq Irps /\ T \subseteq Irps
  OBVIOUS
<1>6. Cardinality(S) \in Nat
  BY <1>5, ExtractionAssumption, FS_Subset, FS_CardinalityType
<1>7. seen' = IF member /\ e.kind \in Presets /\ e.op # "op_end" THEN seen + 1 ELSE seen
  BY <1>2 DEF Handled
<1>8. e.kind \in Presets /\ e.op # "op_end" =>
        (member <=> process_tree_allows_event(raw.tree, e))
  BY <1>1 DEF MemberRight
<1>9. CASE Passed(raw, raw', e)
  <2>1. raw'.pending = raw.pending /\ raw'.written = raw.written
    BY <1>9 DEF Passed, Same, ContextFields
  <2>2. seen' = seen
    BY <1>7, <1>8, <1>9 DEF Passed
  <2> QED
    BY <1>3, <2>1, <2>2
<1>10. CASE Walked(raw, raw', e)
  <2>1. \A i \in Irps : raw.pending[i] # None <=> raw'.pending[i] # None
    BY <1>10 DEF Walked, SameIo
  <2>2. raw'.written = raw.written
    BY <1>10 DEF Walked, Same, ContextFields
  <2>3. seen' = seen
    <3>1. "stack" \notin Presets
      BY PresetsAssumption DEF Categories
    <3> QED
      BY <1>7, <1>10, <3>1 DEF Walked
  <2>4. T = S
    BY <2>1
  <2> QED
    BY <1>3, <2>2, <2>3, <2>4
<1>11. CASE Extracted(raw, raw', e)
  <2>1. raw'.pending = raw.pending
    BY <1>11 DEF Extracted, Same, ContextFields
  <2>2. raw'.written = raw.written + 1
    BY <1>11 DEF Extracted
  <2>3. seen' = seen + 1
    <3>1. e.op # "op_end"
      BY <1>11, NoneAssumption DEF Extracted, GoodEvent, IsFileIo, Opcodes
    <3> QED
      BY <1>7, <1>8, <1>11, <3>1 DEF Extracted
  <2>4. T = S
    BY <2>1
  <2> HIDE DEF S, T
  <2> QED
    BY <1>3, <1>4, <1>6, <2>2, <2>3, <2>4
<1>12. CASE Completed(raw, raw', e)
  <2>1. seen' = seen
    BY <1>7, <1>12 DEF Completed
  <2>2. CASE raw'.written = raw.written /\ raw'.pending = raw.pending
    BY <1>3, <2>1, <2>2
  <2>3. CASE /\ e.irp \in Irps /\ raw.pending[e.irp] # None
             /\ raw'.written = raw.written + 1
             /\ raw'.pending = [raw.pending EXCEPT ![e.irp] = None]
    <3>1. T = S \ {e.irp} /\ e.irp \in S
      BY <1>4, <2>3
    <3> HIDE DEF S, T
    <3>2. Cardinality(T) = Cardinality(S) - 1
      BY <1>5, <2>3, <3>1, Counting
    <3> QED
      BY <1>3, <1>4, <1>6, <2>1, <2>3, <3>2
  <2> QED
    BY <1>12, <2>2, <2>3 DEF Completed
<1>13. CASE Started(raw, raw', e)
  <2>1. seen' = seen + 1
    BY <1>7, <1>8, <1>13 DEF Started
  <2>2. PICK r : Begun(raw, raw', e, r)
    BY <1>13 DEF Started
  <2>3. e.irp \in Irps => raw.pending[e.irp] = None
    BY <1>2, <1>13 DEF IrpUse, PendingInFlight, Pending, Happened, Started
  <2>4. r \in FileRecords /\ r # None
    BY <2>2, NoneAssumption DEF Begun
  <2>5. CASE /\ e.irp \in Irps /\ raw'.pending = [raw.pending EXCEPT ![e.irp] = r]
             /\ raw'.written = raw.written
    <3>1. T = S \cup {e.irp} /\ e.irp \notin S
      BY <1>4, <2>3, <2>4, <2>5
    <3> HIDE DEF S, T
    <3>2. Cardinality(T) = Cardinality(S) + 1
      BY <1>5, <2>5, <3>1, Counting
    <3> QED
      BY <1>3, <1>4, <1>6, <2>1, <2>5, <3>2
  <2>6. CASE /\ \A i \in Irps : raw'.pending[i] = IF i = e.irp THEN None ELSE raw.pending[i]
             /\ raw'.written = raw.written + 1
    <3>1. T = S
      BY <2>3, <2>6
    <3> HIDE DEF S, T
    <3> QED
      BY <1>3, <1>4, <1>6, <2>1, <2>6, <3>1
  <2> QED
    BY <2>2, <2>3, <2>5, <2>6 DEF Begun
<1> QED
  <2>1. \/ Passed(raw, raw', e) \/ Walked(raw, raw', e) \/ Extracted(raw, raw', e)
        \/ Completed(raw, raw', e) \/ Started(raw, raw', e)
    BY <1>2 DEF Handled
  <2> QED
    BY <2>1, <1>9, <1>10, <1>11, <1>12, <1>13

\* Records that are not about processes are judged by the process that issued them.
LEMMA MemberStep ==
  ASSUME MachineType, TreeFollowed, TreeIsKin, AllKin, NEW e, NEW member, NEW new,
         Handled(e, member, new), NoProcess(e, member)
  PROVE  MemberRight(e, member)
<1> SUFFICES ASSUME ~Happened({"lost", "pid"})', "process" \in Presets,
                    e.kind \in Presets, e.op # "op_end"
             PROVE  member <=> process_tree_allows_event(raw.tree, e)
  BY DEF MemberRight
<1>1. ~Happened({"lost"}) /\ ~Happened({"pid", "lost"})
  BY DEF Happened, Handled
<1>2. e.hdr \in live /\ (member <=> e.hdr \in kin) /\ e.kind # "process"
  BY DEF NoProcess
<1>3. CASE Rooted
  <2>1. kin = raw.tree
    BY <1>1, <1>3 DEF TreeFollowed, TreeIsKin
  <2> QED
    BY <1>2, <1>3, <2>1 DEF process_tree_allows_event
<1>4. CASE ~Rooted
  <2>1. e.hdr \in kin
    BY <1>2, <1>4 DEF AllKin, MachineType
  <2> QED
    BY <1>2, <1>4, <2>1 DEF process_tree_allows_event
<1> QED
  BY <1>3, <1>4

(***************************************************************************)
(* Paths.  Mess is what spoils them.                                       *)
(***************************************************************************)
Mess == {"create", "foreign", "delete", "lost"}

\* What a cache would say of the file of record e is true.
TrueRecord(e) ==
  IsFileIo(e) /\ e.op # "op_end" =>
    /\ e.path \in Opt(e.ghost.names)
    /\ e.object \in Objects => raw.byObject[e.object] \in Opt(e.ghost.names)
    /\ e.key \in Keys => raw.byKey[e.key] \in Opt(e.ghost.names)

TruePending ==
  \A i \in Irps : Pending(i) => raw.pending[i].path \in Opt(raw.pending[i].ghost.names)

TrueObjects ==
  \A o \in Objects : raw.byObject[o] # None => OpenInTree(o) /\ raw.byObject[o] \in files[o].names

TrueKeys ==
  \A k \in Keys : raw.byKey[k] # None =>
    \E o \in Objects : OpenInTree(o) /\ files[o].key = k /\ raw.byKey[k] \in files[o].names

LEMMA CacheParts == CachesTrue <=> (~Happened(Mess) => TrueObjects /\ TrueKeys /\ TruePending)
  BY DEF CachesTrue, TrueObjects, TrueKeys, TruePending, Mess, Opt

LEMMA CachePartsNext ==
  CachesTrue' <=> (~Happened(Mess)' => TrueObjects' /\ TrueKeys' /\ TruePending')
  BY DEF CachesTrue, TrueObjects, TrueKeys, TruePending, Mess, Opt

LEMMA PathRows ==
  ASSUME ReaderInv, TruePending, NEW e, GoodEvent(e), NEW member, NEW new,
         Handled(e, member, new), "lost" \notin faults', TrueRecord(e)
  PROVE  PathTrue' /\ TruePending'
<1>1. ASSUME NEW r, Begun(raw, raw', e, r), Started(raw, raw', e)
      PROVE  r.path \in Opt(e.ghost.names) /\ r.ghost = e.ghost
  BY <1>1 DEF Begun, TrueRecord, Started
<1>2. ASSUME NEW q \in raw'.out, "op" \in DOMAIN q
      PROVE  q.path \in Opt(q.ghost.names)
  <2>1. ~IsPlainRow(q, e)
    BY <1>2 DEF IsPlainRow
  <2>2. CASE \E i \in Irps : /\ raw.pending[i] # None
                             /\ q.path = raw.pending[i].path /\ q.ghost = raw.pending[i].ghost
    BY <2>2 DEF TruePending, Pending
  <2>3. CASE /\ Started(raw, raw', e)
             /\ \E r : Begun(raw, raw', e, r) /\ q.path = r.path /\ q.ghost = e.ghost
    BY <1>1, <2>3
  <2> QED
    BY <2>1, <2>2, <2>3, RowFacts
<1>3. ASSUME NEW i \in Irps, raw'.pending[i] # None
      PROVE  raw'.pending[i].path \in Opt(raw'.pending[i].ghost.names)
  <2>1. CASE SameIo(raw.pending[i], raw'.pending[i])
    BY <1>3, <2>1 DEF SameIo, TruePending, Pending
  <2>2. CASE ~SameIo(raw.pending[i], raw'.pending[i])
    <3>1. IsFileIo(e) /\ i = e.irp
      BY <2>2, PendingFacts
    <3>2. raw'.pending[i] # raw.pending[i]
      BY <2>2 DEF SameIo
    <3>3. Started(raw, raw', e) /\ Begun(raw, raw', e, raw'.pending[i])
      BY <1>3, <3>1, <3>2, PendingFacts
    <3> QED
      BY <1>1, <3>3
  <2> QED
    BY <2>1, <2>2
<1> QED
  BY <1>2, <1>3 DEF PathTrue, TruePending, Pending, Opt

\* Without a record of I/O that begins, the caches stay; a lost record changes nothing.
LEMMA CachesKept ==
  ASSUME ReaderInv, NEW e, GoodEvent(e), NEW member, NEW new, Handled(e, member, new)
  PROVE  /\ raw.tree \subseteq raw'.tree
         /\ \/ Started(raw, raw', e)
            \/ /\ raw'.byObject = raw.byObject /\ raw'.byKey = raw.byKey
               /\ Passed(raw, raw', e) \/ ~IsFileIo(e) \/ e.op = "op_end" \/ "lost" \in faults'
<1>1. CASE "lost" \in faults' /\ raw' = Skip(raw)
  <2>1. Same(raw, raw', {"out"}) /\ raw'.tree = raw.tree
    BY <1>1, SkipInv DEF ReaderInv
  <2> QED
    BY <1>1, <2>1 DEF Same, ContextFields
<1>2. CASE Passed(raw, raw', e)
  <2>1. Same(raw, raw', {"modules", "out"})
    BY <1>2 DEF Passed
  <2> QED
    BY <1>2, <2>1 DEF Same, ContextFields
<1>3. CASE Walked(raw, raw', e)
  <2>1. Same(raw, raw', {"stacks", "order", "pending", "out"}) /\ ~IsFileIo(e)
    BY <1>3 DEF Walked, IsFileIo
  <2> QED
    BY <2>1 DEF Same, ContextFields
<1>4. CASE Extracted(raw, raw', e) /\ raw.tree \subseteq raw'.tree
  <2>1. Same(raw, raw', {"tree", "modules", "stacks", "out", "written"}) /\ ~IsFileIo(e)
    BY <1>4 DEF Extracted
  <2> QED
    BY <1>4, <2>1 DEF Same, ContextFields
<1>5. CASE Completed(raw, raw', e)
  <2>1. /\ Same(raw, raw', {"out", "written", "matched", "unmatched", "ignored", "pending"})
        /\ e.op = "op_end"
    BY <1>5 DEF Completed
  <2> QED
    BY <2>1 DEF Same, ContextFields
<1> QED
  BY <1>1, <1>2, <1>3, <1>4, <1>5 DEF Handled

\* What is open stays open under its key, and keeps the names it had.
FilesKept ==
  \A o \in Objects : /\ files'[o].state = files[o].state
                     /\ files'[o].key = files[o].key
                     /\ files'[o].pid = files[o].pid
                     /\ files[o].names \subseteq files'[o].names

\* Objects and keys stay true as long as neither they nor the open files change.
LEMMA CachesSame ==
  ASSUME TrueObjects, TrueKeys, raw.tree \subseteq raw'.tree, FilesKept,
         \A o \in Objects : raw'.byObject[o] \in {None, raw.byObject[o]},
         \A k \in Keys : raw'.byKey[k] \in {None, raw.byKey[k]}
  PROVE  TrueObjects' /\ TrueKeys'
<1>1. \A o \in Objects : OpenInTree(o) => OpenInTree(o)'
  BY DEF OpenInTree, FilesKept
<1> QED
  BY <1>1 DEF TrueObjects, TrueKeys, FilesKept

\* Records that do not begin I/O.
LEMMA PathsKept ==
  ASSUME ReaderInv, KeysFit, CachesTrue, NEW e, GoodEvent(e), NEW member, NEW new,
         Handled(e, member, new), ~IsFileIo(e) \/ e.op = "op_end", files' = files
  PROVE  KeysFit' /\ CachesTrue' /\ PathTrue'
<1>1. KeysFit'
  BY DEF KeysFit
<1>2. ASSUME ~Happened(Mess)' PROVE TrueObjects' /\ TrueKeys' /\ TruePending' /\ PathTrue'
  <2>1. "lost" \notin faults' /\ ~Happened(Mess)
    BY <1>2 DEF Happened, Mess, Handled
  <2>2. TrueObjects /\ TrueKeys /\ TruePending
    BY <2>1, CacheParts
  <2>3. raw'.byObject = raw.byObject /\ raw'.byKey = raw.byKey /\ raw.tree \subseteq raw'.tree
    BY CachesKept DEF Started
  <2>4. TrueObjects' /\ TrueKeys'
    BY <2>2, <2>3, CachesSame DEF FilesKept
  <2>5. TrueRecord(e)
    BY DEF TrueRecord
  <2> QED
    BY <2>1, <2>2, <2>4, <2>5, PathRows
<1>3. ASSUME Happened(Mess)' PROVE PathTrue'
  BY <1>3 DEF PathTrue, Mess
<1> QED
  BY <1>1, <1>2, <1>3, CachePartsNext

---------------------------------------------------------------------------
(***************************************************************************)
(* The steps                                                               *)
(***************************************************************************)
LEMMA InvParts ==
  IInv <=> /\ ReaderInv /\ MachineType
           /\ TreeFollowed /\ TreeIsKin /\ AllKin /\ OnlyTree
           /\ PendingInFlight /\ PairedRight /\ KeysFit /\ CachesTrue /\ PathTrue
           /\ RowPerRecord /\ Flushed
  BY DEF IInv, TypeOK, ReaderInv, MachineType, ContextInv

LEMMA InvPartsNext ==
  IInv' <=> /\ ReaderInv' /\ MachineType'
            /\ TreeFollowed' /\ TreeIsKin' /\ AllKin' /\ OnlyTree'
            /\ PendingInFlight' /\ PairedRight' /\ KeysFit' /\ CachesTrue' /\ PathTrue'
            /\ RowPerRecord' /\ Flushed'
  BY DEF IInv, TypeOK, ReaderInv, MachineType, ContextInv

\* A step with a record that is not about a process: the paths are left to show.
LEMMA RecordStep ==
  ASSUME IInv, NEW e, GoodEvent(e), NEW member, NEW new, ReaderInv', Handled(e, member, new),
         NoProcess(e, member), IrpUse(e), MachineType', KeysFit' /\ CachesTrue' /\ PathTrue'
  PROVE  IInv' /\ \A i \in Irps : WrittenWhenGone(i)
<1>1. /\ ReaderInv /\ MachineType /\ TreeFollowed /\ TreeIsKin /\ AllKin
      /\ PendingInFlight /\ RowPerRecord
  BY InvParts
<1>2. TreeFollowed' /\ TreeIsKin' /\ AllKin' /\ OnlyTree'
  BY <1>1, TreeStep
<1>3. PendingInFlight' /\ PairedRight'
  BY <1>1, IrpStep
<1>4. MemberRight(e, member)
  BY <1>1, MemberStep
<1>5. RowPerRecord'
  BY <1>1, <1>4, CountStep
<1>6. \A i \in Irps : WrittenWhenGone(i)
  BY <1>1, LeavesIntoRow DEF WrittenWhenGone
<1>7. Flushed'
  BY DEF Flushed, Handled
<1> QED
  BY <1>2, <1>3, <1>5, <1>6, <1>7, InvPartsNext

LEMMA OtherStep ==
  ASSUME IInv, NEW p \in Pids, NEW owner \in Pids \cup {None},
         NEW kind \in Categories \ {"process", "image"}, Other(p, owner, kind)
  PROVE  IInv' /\ \A i \in Irps : WrittenWhenGone(i)
<1>1. PICK s \in Stamps : Emit(OtherEvent(p, owner, kind, s), p \in kin, {})
  BY DEF Other, OtherEvent
<1> DEFINE e == OtherEvent(p, owner, kind, s)
<1>2. Emit(e, p \in kin, {})
  BY <1>1
<1>3. /\ GoodEvent(e) /\ ~IsFileIo(e)
      /\ e.kind = kind /\ e.hdr = p /\ e.op # "op_end" /\ e.ghost.by = p
      /\ ProcessPid(e) = p \/ kind \in PayloadNames
  <2>1. owner \in Opt(Pids) /\ (kind \in PayloadNames \/ owner = None)
    BY DEF Other, Opt
  <2> QED
    BY <2>1, OtherEvents
<1> HIDE DEF e
<1>4. /\ ReaderInv /\ MachineType /\ KeysFit /\ CachesTrue
  BY InvParts
<1>5. ReaderInv' /\ Handled(e, p \in kin, {})
  BY <1>2, <1>3, <1>4, EmitStep
<1>6. /\ p \in live /\ live' = live /\ kin' = kin /\ used' = used
      /\ files' = files /\ inflight' = inflight /\ gen' = gen
  BY DEF Other, machine
<1>7. NoProcess(e, p \in kin) /\ IrpUse(e) /\ MachineType'
  BY <1>3, <1>4, <1>6 DEF NoProcess, IrpUse, MachineType
<1>8. KeysFit' /\ CachesTrue' /\ PathTrue'
  BY <1>3, <1>4, <1>5, <1>6, PathsKept
<1> QED
  BY <1>3, <1>5, <1>7, <1>8, RecordStep

LEMMA ImageStep ==
  ASSUME IInv, NEW p \in Pids, NEW owner \in Pids, NEW base \in Bases,
         NEW image \in Images \cup {None}, ImageRecord(p, owner, base, image)
  PROVE  IInv' /\ \A i \in Irps : WrittenWhenGone(i)
<1> DEFINE e == ImageEvent(p, owner, base, image)
<1>1. /\ Emit(e, p \in kin, {})
      /\ p \in live /\ live' = live /\ kin' = kin /\ used' = used
      /\ files' = files /\ inflight' = inflight /\ gen' = gen
  BY DEF ImageRecord, machine, ImageEvent
<1>2. /\ GoodEvent(e) /\ ~IsFileIo(e)
      /\ e.kind = "image" /\ e.hdr = p /\ e.op # "op_end" /\ e.ghost.by = p
  BY ImageEvents
<1> HIDE DEF e
<1>3. /\ ReaderInv /\ MachineType /\ KeysFit /\ CachesTrue
  BY InvParts
<1>4. ReaderInv' /\ Handled(e, p \in kin, {})
  BY <1>1, <1>2, <1>3, EmitStep
<1>5. NoProcess(e, p \in kin) /\ IrpUse(e) /\ MachineType'
  BY <1>1, <1>2, <1>3 DEF NoProcess, IrpUse, MachineType, PayloadNames
<1>6. KeysFit' /\ CachesTrue' /\ PathTrue'
  BY <1>1, <1>2, <1>3, <1>4, PathsKept
<1> QED
  BY <1>2, <1>4, <1>5, <1>6, RecordStep

LEMMA StackStep ==
  ASSUME IInv, NEW p \in Pids, NEW tid \in Tids, NEW stamp \in Stamps, NEW address \in Bases,
         NEW target \in Irps, StackWalk(p, tid, stamp, address, target)
  PROVE  IInv' /\ \A i \in Irps : WrittenWhenGone(i)
<1> DEFINE e == StackEvent(p, tid, stamp, address, target)
<1>1. /\ Emit(e, FALSE, {})
      /\ live' = live /\ kin' = kin /\ used' = used
      /\ files' = files /\ inflight' = inflight /\ gen' = gen
  BY DEF StackWalk, machine, StackEvent
<1>2. GoodEvent(e) /\ e.kind = "stack" /\ ~IsFileIo(e)
  BY StackEvents
<1> HIDE DEF e
<1>3. /\ ReaderInv /\ MachineType /\ KeysFit /\ CachesTrue
  BY InvParts
<1>4. ReaderInv' /\ Handled(e, FALSE, {})
  BY <1>1, <1>2, <1>3, EmitStep
<1>5. "stack" \notin Presets
  BY PresetsAssumption DEF Categories
<1>6. NoProcess(e, FALSE) /\ IrpUse(e) /\ MachineType'
  BY <1>1, <1>2, <1>3, <1>5 DEF NoProcess, IrpUse, MachineType
<1>7. KeysFit' /\ CachesTrue' /\ PathTrue'
  BY <1>1, <1>2, <1>3, <1>4, PathsKept
<1> QED
  BY <1>2, <1>4, <1>6, <1>7, RecordStep

LEMMA CompletionStep ==
  ASSUME IInv, NEW p \in Pids, NEW irp \in Irps, Completion(p, irp)
  PROVE  IInv' /\ \A i \in Irps : WrittenWhenGone(i)
<1> DEFINE e == CompletionEvent(p, irp)
<1>1. /\ Emit(e, FALSE, {})
      /\ live' = live /\ kin' = kin /\ used' = used
      /\ files' = files /\ inflight' = inflight \ {irp} /\ gen' = gen
  BY DEF Completion, CompletionEvent
<1>2. /\ ReaderInv /\ MachineType /\ KeysFit /\ CachesTrue
  BY InvParts
<1>3. /\ GoodEvent(e) /\ IsFileIo(e)
      /\ e.kind = "file" /\ e.hdr = p /\ e.op = "op_end" /\ e.irp = irp
      /\ e.ghost.gen = gen[irp]
  BY <1>2, CompletionEvents
<1> HIDE DEF e
<1>4. ReaderInv' /\ Handled(e, FALSE, {})
  BY <1>1, <1>2, <1>3, EmitStep
<1>5. ProcessPid(e) = e.hdr
  BY <1>3 DEF GoodEvent, IsFileIo, ProcessPid
<1>6. NoProcess(e, FALSE) /\ IrpUse(e) /\ MachineType'
  BY <1>1, <1>2, <1>3, <1>5 DEF NoProcess, IrpUse, MachineType
<1>7. KeysFit' /\ CachesTrue' /\ PathTrue'
  BY <1>1, <1>2, <1>3, <1>4, PathsKept
<1> QED
  BY <1>3, <1>4, <1>6, <1>7, RecordStep

\* Nothing is recorded of what the machine does to its processes.
LEMMA SkipStep ==
  ASSUME IInv, ReaderInv', raw' = Skip(raw), seen' = seen, faults \subseteq faults',
         ~done /\ done' = done, files' = files, inflight' = inflight, gen' = gen
  PROVE  /\ OnlyTree' /\ PendingInFlight' /\ PairedRight' /\ KeysFit' /\ CachesTrue'
         /\ PathTrue' /\ RowPerRecord' /\ Flushed' /\ raw'.tree = raw.tree
         /\ \A i \in Irps : WrittenWhenGone(i)
<1>1. Same(raw, raw', {"out"}) /\ raw'.out = {} /\ raw'.tree = raw.tree
  BY SkipInv, InvParts DEF ReaderInv
<1>2. /\ raw'.pending = raw.pending /\ raw'.byObject = raw.byObject
      /\ raw'.byKey = raw.byKey /\ raw'.written = raw.written
  BY <1>1 DEF Same, ContextFields
<1>3. OnlyTree' /\ PairedRight' /\ PathTrue'
  BY <1>1 DEF OnlyTree, PairedRight, PathTrue
<1>4. PendingInFlight'
  BY <1>2, InvParts DEF PendingInFlight, Pending, Happened
<1>5. KeysFit'
  BY InvParts DEF KeysFit
<1>6. CachesTrue'
  BY <1>1, <1>2, InvParts DEF CachesTrue, Pending, OpenInTree, Happened
<1>7. RowPerRecord'
  BY <1>2, InvParts DEF RowPerRecord, Happened
<1>8. \A i \in Irps : WrittenWhenGone(i)
  BY <1>2 DEF WrittenWhenGone
<1>9. Flushed'
  BY DEF Flushed
<1> QED
  BY <1>1, <1>3, <1>4, <1>5, <1>6, <1>7, <1>8, <1>9

\* A record about a process, given what becomes of the tree and who is of it.
LEMMA ProcessStep ==
  ASSUME IInv, NEW e, GoodEvent(e), ~IsFileIo(e), e.kind = "process", NEW member, NEW new,
         ReaderInv', Handled(e, member, new), MachineType', MemberRight(e, member),
         files' = files, inflight' = inflight, gen' = gen,
         TreeFollowed' /\ TreeIsKin' /\ AllKin',
         ~Happened({"pid", "lost"})' /\ Rooted /\ process_tree_allows_event(raw.tree, e) =>
           ProcessPid(e) \in kin' /\ e.ghost.by \in kin',
         ~Happened({"pid", "lost"})' => kin \subseteq kin'
  PROVE  IInv' /\ \A i \in Irps : WrittenWhenGone(i)
<1>1. /\ ReaderInv /\ MachineType /\ TreeIsKin
      /\ PendingInFlight /\ RowPerRecord /\ KeysFit /\ CachesTrue
  BY InvParts
<1>2. IrpUse(e)
  BY DEF IrpUse
<1>3. PendingInFlight' /\ PairedRight'
  BY <1>1, <1>2, IrpStep
<1>4. RowPerRecord'
  BY <1>1, <1>2, CountStep
<1>5. KeysFit' /\ CachesTrue' /\ PathTrue'
  BY <1>1, PathsKept
<1>6. OnlyTree'
  <2> SUFFICES ASSUME ~Happened({"pid", "lost"})', Rooted, NEW q \in raw'.out
               PROVE  InTree(q)
    BY DEF OnlyTree, InTree
  <2>1. raw.tree \subseteq kin /\ kin \subseteq kin'
    BY <1>1 DEF TreeIsKin, Happened, Handled
  <2>2. CASE Extracted(raw, raw', e) /\ IsPlainRow(q, e)
    BY <2>2 DEF Extracted, IsPlainRow, InTree
  <2>3. CASE /\ "op" \in DOMAIN q
             /\ \E i \in Irps : raw.pending[i] # None /\ q.pid = raw.pending[i].pid
    BY <1>1, <2>1, <2>3 DEF ReaderInv, ContextInv, PendingIn, InTree
  <2>4. ~Started(raw, raw', e)
    BY DEF Started
  <2> QED
    BY <1>1, <2>2, <2>3, <2>4, RowFacts
<1>7. \A i \in Irps : WrittenWhenGone(i)
  BY <1>1, LeavesIntoRow DEF WrittenWhenGone
<1>8. Flushed'
  BY DEF Flushed, Handled
<1> QED
  BY <1>3, <1>4, <1>5, <1>6, <1>7, <1>8, InvPartsNext

LEMMA ProcessStartStep ==
  ASSUME IInv, NEW p \in Pids, NEW parent \in Pids, ProcessStart(p, parent)
  PROVE  IInv' /\ \A i \in Irps : WrittenWhenGone(i)
<1> DEFINE e   == StartEvent(p, parent)
           new == IF p \in used THEN {"pid"} ELSE {}
<1>1. /\ ReaderInv /\ MachineType /\ TreeFollowed /\ TreeIsKin /\ AllKin
  BY InvParts
<1>2. /\ parent \in live /\ live' = live \cup {p} /\ used' = used \cup {p}
      /\ kin' = IF parent \in kin THEN kin \cup {p} ELSE kin \ {p}
      /\ files' = files /\ inflight' = inflight /\ gen' = gen
  BY DEF ProcessStart
<1>3. MachineType'
  BY <1>1, <1>2 DEF MachineType
<1>4. IF "process" \in Presets THEN Emit(e, parent \in kin, new) ELSE Silent(new)
  BY DEF ProcessStart, ProcessRecord, StartEvent
<1>5. /\ GoodEvent(e) /\ ~IsFileIo(e)
      /\ e.kind = "process" /\ e.pid = p /\ e.op # "op_end"
      /\ e.parent = parent /\ e.ghost.by = parent
  BY ProcessEvents
<1>6. p \in used => "pid" \in new
  OBVIOUS
<1> HIDE DEF e, new
<1>7. AllKin'
  BY <1>1, <1>2 DEF AllKin, MachineType
<1>9. ASSUME "pid" \notin faults', faults \cup new \subseteq faults'
      PROVE  p \notin used /\ p \notin kin /\ kin \subseteq kin'
  BY <1>1, <1>2, <1>6, <1>9 DEF MachineType
<1>10. CASE "process" \notin Presets
  <2>1. /\ ReaderInv' /\ faults \cup new \subseteq faults' /\ raw' = Skip(raw) /\ seen' = seen
        /\ ~done /\ done' = done
    BY <1>1, <1>4, <1>10, SilentStep
  <2>2. /\ OnlyTree' /\ PendingInFlight' /\ PairedRight' /\ KeysFit' /\ CachesTrue'
        /\ PathTrue' /\ RowPerRecord' /\ Flushed' /\ raw'.tree = raw.tree
        /\ \A i \in Irps : WrittenWhenGone(i)
    BY <1>2, <2>1, SkipStep
  <2>3. TreeFollowed'
    BY <1>10 DEF TreeFollowed
  <2>4. TreeIsKin'
    BY <1>1, <1>9, <2>1, <2>2 DEF TreeIsKin, Happened
  <2> QED
    BY <1>3, <1>7, <2>1, <2>2, <2>3, <2>4, InvPartsNext
<1>11. CASE "process" \in Presets
  <2>1. ReaderInv' /\ Handled(e, parent \in kin, new)
    BY <1>1, <1>4, <1>5, <1>11, EmitStep
  <2>2. faults \cup new \subseteq faults'
    BY <2>1 DEF Handled
  <2>3. ASSUME "lost" \notin faults' PROVE raw'.tree = TreeAfter(raw.tree, e)
    BY <1>5, <1>11, <2>1, <2>3 DEF Handled
  <2>4. ProcessPid(e) = p
    BY <1>5, ExtractionAssumption DEF ProcessPid
  <2>5. process_tree_allows_event(raw.tree, e) <=> ~Rooted \/ p \in raw.tree \/ parent \in raw.tree
    BY <1>5, <2>4, ExtractionAssumption DEF process_tree_allows_event
  <2>6. TreeFollowed'
    <3> SUFFICES ASSUME "lost" \notin faults', Rooted PROVE kin' \subseteq raw'.tree
      BY DEF TreeFollowed, Happened
    <3>1. kin \subseteq raw.tree
      BY <1>1, <1>11, <2>2 DEF TreeFollowed, Happened
    <3>2. raw'.tree = IF p \in raw.tree \/ parent \in raw.tree THEN raw.tree \cup {p} ELSE raw.tree
      BY <1>5, <2>3, <2>4, <2>5 DEF TreeAfter
    <3> QED
      BY <1>2, <3>1, <3>2
  <2>7. TreeIsKin'
    <3> SUFFICES ASSUME ~Happened({"pid", "lost"})', Rooted PROVE raw'.tree \subseteq kin'
      BY DEF TreeIsKin
    <3>1. raw.tree \subseteq kin
      BY <1>1, <2>2 DEF TreeIsKin, Happened
    <3>2. raw'.tree = IF p \in raw.tree \/ parent \in raw.tree THEN raw.tree \cup {p} ELSE raw.tree
      BY <1>5, <2>3, <2>4, <2>5 DEF TreeAfter, Happened
    <3>3. p \notin kin /\ kin \subseteq kin'
      BY <1>9, <2>2 DEF Happened
    <3> QED
      BY <1>2, <3>1, <3>2, <3>3
  <2>8. ~Happened({"pid", "lost"})' => kin \subseteq kin'
    BY <1>9, <2>2 DEF Happened
  <2>9. ~Happened({"pid", "lost"})' /\ Rooted /\ process_tree_allows_event(raw.tree, e) =>
          ProcessPid(e) \in kin' /\ e.ghost.by \in kin'
    <3> SUFFICES ASSUME ~Happened({"pid", "lost"})', Rooted,
                        p \in raw.tree \/ parent \in raw.tree
                 PROVE  p \in kin' /\ parent \in kin'
      BY <1>5, <2>4, <2>5
    <3>1. raw.tree \subseteq kin
      BY <1>1, <2>2 DEF TreeIsKin, Happened
    <3>2. p \notin kin
      BY <1>9, <2>2 DEF Happened
    <3> QED
      BY <1>2, <3>1, <3>2
  <2>10. MemberRight(e, parent \in kin)
    <3> SUFFICES ASSUME ~Happened({"lost", "pid"})'
                 PROVE  parent \in kin <=> process_tree_allows_event(raw.tree, e)
      BY DEF MemberRight
    <3>1. p \notin kin
      BY <1>9, <2>2 DEF Happened
    <3>2. CASE Rooted
      <4>1. kin = raw.tree
        BY <1>1, <1>11, <2>2, <3>2 DEF TreeFollowed, TreeIsKin, Happened
      <4> QED
        BY <2>5, <3>1, <3>2, <4>1
    <3>3. CASE ~Rooted
      BY <1>1, <1>2, <2>5, <3>3 DEF AllKin, MachineType
    <3> QED
      BY <3>2, <3>3
  <2> QED
    BY <1>2, <1>3, <1>5, <1>7, <2>1, <2>6, <2>7, <2>8, <2>9, <2>10, ProcessStep
<1> QED
  BY <1>10, <1>11

LEMMA ProcessEndStep ==
  ASSUME IInv, NEW p \in Pids, ProcessEnd(p)
  PROVE  IInv' /\ \A i \in Irps : WrittenWhenGone(i)
<1> DEFINE e == EndEvent(p)
<1>1. /\ ReaderInv /\ MachineType /\ TreeFollowed /\ TreeIsKin /\ AllKin
  BY InvParts
<1>2. /\ p \in live /\ live' = live \ {p} /\ used' = used /\ kin' = kin
      /\ files' = files /\ inflight' = inflight /\ gen' = gen
  BY DEF ProcessEnd
<1>3. MachineType'
  BY <1>1, <1>2 DEF MachineType
<1>4. IF "process" \in Presets THEN Emit(e, p \in kin, {}) ELSE Silent({})
  BY DEF ProcessEnd, ProcessRecord, EndEvent
<1>5. /\ GoodEvent(e) /\ ~IsFileIo(e)
      /\ e.kind = "process" /\ e.pid = p /\ e.op # "op_end"
      /\ e.parent = None /\ e.ghost.by = p
  BY ProcessEvents
<1> HIDE DEF e
<1>6. AllKin'
  BY <1>1, <1>2 DEF AllKin
<1>7. CASE "process" \notin Presets
  <2>1. /\ ReaderInv' /\ faults \subseteq faults' /\ raw' = Skip(raw) /\ seen' = seen
        /\ ~done /\ done' = done
    BY <1>1, <1>4, <1>7, SilentStep
  <2>2. /\ OnlyTree' /\ PendingInFlight' /\ PairedRight' /\ KeysFit' /\ CachesTrue'
        /\ PathTrue' /\ RowPerRecord' /\ Flushed' /\ raw'.tree = raw.tree
        /\ \A i \in Irps : WrittenWhenGone(i)
    BY <1>2, <2>1, SkipStep
  <2>3. TreeFollowed' /\ TreeIsKin'
    BY <1>1, <1>2, <1>7, <2>1, <2>2 DEF TreeFollowed, TreeIsKin, Happened
  <2> QED
    BY <1>3, <1>6, <2>1, <2>2, <2>3, InvPartsNext
<1>8. CASE "process" \in Presets
  <2>1. ReaderInv' /\ Handled(e, p \in kin, {})
    BY <1>1, <1>4, <1>5, <1>8, EmitStep
  <2>2. faults \subseteq faults'
    BY <2>1 DEF Handled
  <2>3. ProcessPid(e) = p
    BY <1>5, ExtractionAssumption DEF ProcessPid
  <2>4. process_tree_allows_event(raw.tree, e) <=> ~Rooted \/ p \in raw.tree
    BY <1>5, <2>3 DEF process_tree_allows_event
  <2>5. raw'.tree = raw.tree
    <3>1. raw' = Skip(raw) => raw'.tree = raw.tree
      BY <1>1, SkipInv DEF ReaderInv
    <3>2. TreeAfter(raw.tree, e) = raw.tree
      BY <2>3, <2>4 DEF TreeAfter
    <3> QED
      BY <2>1, <3>1, <3>2 DEF Handled
  <2>6. TreeFollowed' /\ TreeIsKin'
    BY <1>1, <1>2, <2>2, <2>5 DEF TreeFollowed, TreeIsKin, Happened
  <2>7. ~Happened({"pid", "lost"})' /\ Rooted /\ process_tree_allows_event(raw.tree, e) =>
          ProcessPid(e) \in kin' /\ e.ghost.by \in kin'
    BY <1>1, <1>2, <1>5, <2>2, <2>3, <2>4 DEF TreeIsKin, Happened
  <2>8. MemberRight(e, p \in kin)
    <3> SUFFICES ASSUME ~Happened({"lost", "pid"})'
                 PROVE  p \in kin <=> process_tree_allows_event(raw.tree, e)
      BY DEF MemberRight
    <3>1. CASE Rooted
      <4>1. kin = raw.tree
        BY <1>1, <1>8, <2>2, <3>1 DEF TreeFollowed, TreeIsKin, Happened
      <4> QED
        BY <2>4, <3>1, <4>1
    <3>2. CASE ~Rooted
      BY <1>1, <1>2, <2>4, <3>2 DEF AllKin, MachineType
    <3> QED
      BY <3>1, <3>2
  <2> QED
    BY <1>2, <1>3, <1>5, <1>6, <2>1, <2>6, <2>7, <2>8, ProcessStep
<1> QED
  BY <1>7, <1>8

(***************************************************************************)
(* File I/O that begins                                                    *)
(***************************************************************************)
LEMMA UseIrpFacts ==
  ASSUME MachineType, NEW irp \in Opt(Irps), UseIrp(irp)
  PROVE  /\ inflight' \subseteq Irps /\ gen' \in [Irps -> {0, 1}]
         /\ irp \in Irps => /\ irp \notin inflight /\ irp \in inflight'
                            /\ gen'[irp] = 1 - gen[irp]
         /\ \A i \in Irps : i # irp => (i \in inflight => i \in inflight') /\ gen'[i] = gen[i]
<1>1. \A i \in Irps : gen[i] \in {0, 1}
  BY DEF MachineType
<1>2. irp = None \/ irp \in Irps
  BY DEF Opt
<1>3. irp \in Irps => irp # None
  BY ExtractionAssumption
<1>4. inflight' = IF irp = None THEN inflight ELSE inflight \cup {irp}
  BY DEF UseIrp
<1>5. gen' = [i \in Irps |-> IF i = irp THEN 1 - gen[i] ELSE gen[i]]
  BY DEF UseIrp
<1>6. gen' \in [Irps -> {0, 1}]
  BY <1>1, <1>5
<1>7. inflight' \subseteq Irps
  BY <1>2, <1>4 DEF MachineType
<1> QED
  BY <1>3, <1>4, <1>5, <1>6, <1>7 DEF UseIrp

\* What is known of the record of I/O that begins in process p.
Begins(e, p, op, irp, o, key, path, truth) ==
  /\ GoodEvent(e) /\ IsFileIo(e)
  /\ e.kind = "file" /\ e.hdr = p /\ ProcessPid(e) = p /\ e.op = op /\ e.op # "op_end"
  /\ e.irp = irp /\ e.object = o /\ e.key = key /\ e.path = path /\ e.ghost.names = truth

\* Such a step, given what becomes of the caches when nothing has spoilt them.
LEMMA BeginStep ==
  ASSUME IInv, NEW e, NEW p \in Pids, NEW op, NEW irp, NEW o, NEW key, NEW path, NEW truth,
         Begins(e, p, op, irp, o, key, path, truth), p \in live,
         NEW new, ReaderInv', Handled(e, p \in kin, new),
         live' = live, kin' = kin, used' = used, IrpUse(e), MachineType', KeysFit',
         ~Happened(Mess)' /\ TrueObjects /\ TrueKeys =>
           TrueRecord(e) /\ TrueObjects' /\ TrueKeys'
  PROVE  IInv' /\ \A i \in Irps : WrittenWhenGone(i)
<1>1. ReaderInv /\ CachesTrue
  BY InvParts
<1>2. GoodEvent(e) /\ IsFileIo(e)
  BY DEF Begins
<1>3. NoProcess(e, p \in kin)
  BY DEF NoProcess, Begins
<1>4. CachesTrue' /\ PathTrue'
  <2>1. CASE Happened(Mess)'
    BY <2>1 DEF CachesTrue, PathTrue, Mess
  <2>2. CASE ~Happened(Mess)'
    <3>1. "lost" \notin faults' /\ ~Happened(Mess)
      BY <2>2 DEF Happened, Mess, Handled
    <3>2. TrueObjects /\ TrueKeys /\ TruePending
      BY <1>1, <3>1, CacheParts
    <3>3. TrueRecord(e) /\ TrueObjects' /\ TrueKeys'
      BY <2>2, <3>2
    <3>4. PathTrue' /\ TruePending'
      BY <1>1, <1>2, <3>1, <3>2, <3>3, PathRows
    <3> QED
      BY <3>3, <3>4, CachePartsNext
  <2> QED
    BY <2>1, <2>2
<1> QED
  BY <1>2, <1>3, <1>4, RecordStep

\* The caches after such a record: its object and its key are forgotten or learned.
LEMMA BegunCaches ==
  ASSUME ReaderInv, NEW e, NEW p, NEW op, NEW irp, NEW o, NEW key, NEW path, NEW truth,
         Begins(e, p, op, irp, o, key, path, truth),
         NEW member, NEW new, Handled(e, member, new), "lost" \notin faults'
  PROVE  /\ raw'.tree = raw.tree
         /\ \/ /\ Rooted => p \in raw.tree
               /\ "file" \in Presets
               /\ \A x \in Objects : raw'.byObject[x] =
                    IF x = o /\ op \in {"cleanup", "close"} THEN None
                    ELSE IF x = o /\ path # None THEN path ELSE raw.byObject[x]
               /\ \A k \in Keys : raw'.byKey[k] =
                    IF k = key /\ op \in {"cleanup", "close"} THEN None
                    ELSE IF k = key /\ path # None THEN path ELSE raw.byKey[k]
            \/ /\ "file" \notin Presets \/ (Rooted /\ p \notin raw.tree)
               /\ raw'.byObject = raw.byObject /\ raw'.byKey = raw.byKey
<1>1. GoodEvent(e) /\ IsFileIo(e) /\ e.kind = "file" /\ e.hdr = p /\ e.op # "op_end"
  BY DEF Begins
<1>2. raw'.tree = raw.tree
  BY <1>1, TreeKept
<1>3. process_tree_allows_event(raw.tree, e) <=> ~Rooted \/ p \in raw.tree
  BY <1>1 DEF process_tree_allows_event
<1>4. CASE Started(raw, raw', e)
  <2>1. PICK r : Begun(raw, raw', e, r)
    BY <1>4 DEF Started
  <2>2. "file" \in Presets /\ (Rooted => p \in raw.tree)
    BY <1>1, <1>3, <1>4 DEF Started
  <2>3. /\ \A x \in Objects : raw'.byObject[x] =
             IF x = e.object /\ e.op \in {"cleanup", "close"} THEN None
             ELSE IF x = e.object /\ e.path # None THEN e.path ELSE raw.byObject[x]
        /\ \A k \in Keys : raw'.byKey[k] =
             IF k = e.key /\ e.op \in {"cleanup", "close"} THEN None
             ELSE IF k = e.key /\ e.path # None THEN e.path ELSE raw.byKey[k]
    BY <2>1 DEF Begun
  <2>4. e.object = o /\ e.key = key /\ e.path = path /\ e.op = op
    BY DEF Begins
  <2> QED
    BY <1>2, <2>2, <2>3, <2>4
<1>5. CASE /\ Passed(raw, raw', e)
           /\ raw'.byObject = raw.byObject /\ raw'.byKey = raw.byKey
  BY <1>1, <1>2, <1>3, <1>5 DEF Passed
<1> QED
  BY <1>1, <1>4, <1>5, CachesKept

\* The key cache is right about a file that is in use.
LEMMA KeyTrue ==
  ASSUME KeysFit, TrueKeys, NEW o \in Objects, files[o].state # "free", files[o].key \in Keys
  PROVE  raw.byKey[files[o].key] \in Opt(files[o].names)
  BY DEF KeysFit, TrueKeys, OpenInTree, Opt

\* An entry of a cache is of another file if this one is not open in the tree.
LEMMA OthersStay ==
  ASSUME TrueObjects, TrueKeys, NEW o \in Objects, raw'.tree = raw.tree,
         \A x \in Objects \ {o} : files'[x] = files[x],
         \/ ~OpenInTree(o)
         \/ files[o].key \in Keys => raw'.byKey[files[o].key] = None,
         \A x \in Objects \ {o} : raw'.byObject[x] \in {None, raw.byObject[x]},
         \A k \in Keys : raw'.byKey[k] \in {None, raw.byKey[k]}
  PROVE  /\ \A x \in Objects \ {o} : raw'.byObject[x] # None =>
              OpenInTree(x)' /\ raw'.byObject[x] \in files'[x].names
         /\ ~OpenInTree(o) => raw.byObject[o] = None
         /\ TrueKeys'
<1>1. \A x \in Objects \ {o} : OpenInTree(x) => OpenInTree(x)'
  BY DEF OpenInTree
<1>2. ~OpenInTree(o) => raw.byObject[o] = None
  BY DEF TrueObjects
<1>3. \A x \in Objects \ {o} : raw'.byObject[x] # None =>
        OpenInTree(x)' /\ raw'.byObject[x] \in files'[x].names
  BY <1>1 DEF TrueObjects
<1>4. ASSUME NEW k \in Keys, raw'.byKey[k] # None
      PROVE  \E x \in Objects : /\ OpenInTree(x)' /\ files'[x].key = k
                                /\ raw'.byKey[k] \in files'[x].names
  <2>1. PICK x \in Objects : OpenInTree(x) /\ files[x].key = k /\ raw.byKey[k] \in files[x].names
    BY <1>4 DEF TrueKeys
  <2>2. x # o
    BY <1>4, <2>1
  <2> QED
    BY <1>1, <1>4, <2>1, <2>2
<1> QED
  BY <1>2, <1>3, <1>4 DEF TrueKeys

\* The names of a control block: those of the files that use it, and its path.
LEMMA NamesFacts ==
  ASSUME MachineType, KeysFit, NEW key, NEW path \in Paths, KeyFits(key, path),
         NEW names, names = NamesOf(key, path)
  PROVE  /\ names \in SUBSET Paths /\ path \in names
         /\ \A x \in Objects : files[x].state # "free" =>
              /\ files[x].key = key <=> files[x].path = path
              /\ files[x].key = key => files[x].names = names
<1>1. \A x \in Objects : files[x].names \subseteq Paths
  BY DEF MachineType, FileStates
<1>2. names \in SUBSET Paths /\ path \in names
  BY <1>1 DEF NamesOf, InUse
<1>3. ASSUME NEW x \in Objects, files[x].state # "free", files[x].key = key
      PROVE  files[x].names = names
  <2>1. files[x].path = path /\ path \in files[x].names
    BY <1>3 DEF KeyFits, KeysFit
  <2>2. \A y \in InUse(key) : files[y].names = files[x].names
    BY <1>3 DEF InUse, KeysFit
  <2>3. x \in InUse(key)
    BY <1>3 DEF InUse
  <2> QED
    BY <2>1, <2>2, <2>3 DEF NamesOf
<1> QED
  BY <1>2, <1>3 DEF KeyFits

LEMMA CreateStep ==
  ASSUME IInv, NEW p \in Pids, NEW irp \in Opt(Irps), NEW o \in Objects, NEW path \in Paths,
         NEW key \in Keys, NEW shown \in BOOLEAN, NEW fails \in BOOLEAN, NEW stamp \in Stamps,
         Create(p, irp, o, path, key, shown, fails, stamp)
  PROVE  IInv' /\ \A i \in Irps : WrittenWhenGone(i)
<1> DEFINE names == NamesOf(key, path)
           file == [state |-> "open", path |-> path, names |-> names, key |-> key, pid |-> p]
           show == IF shown THEN path ELSE None
           e    == Showing(FileRecord(p, "create", irp, o, file, stamp), None, show)
           new  == IF fails THEN {"create"} ELSE {}
<1>1. /\ ReaderInv /\ MachineType /\ KeysFit
  BY InvParts
<1>2. /\ p \in live /\ live' = live /\ kin' = kin /\ used' = used
      /\ files[o].state = "free" /\ KeyFits(key, path) /\ UseIrp(irp)
      /\ files' = [files EXCEPT ![o] = IF fails THEN @ ELSE file]
  BY DEF Create
<1>3. Emit(e, p \in kin, new)
  BY DEF Create, Showing
<1>4. fails => "create" \in new
  OBVIOUS
<1>0. /\ names \in SUBSET Paths /\ path \in names
      /\ \A x \in Objects : files[x].state # "free" =>
           /\ files[x].key = key <=> files[x].path = path
           /\ files[x].key = key => files[x].names = names
  BY <1>1, <1>2, NamesFacts
<1> HIDE DEF names
<1>5. /\ file \in FileStates
      /\ file.state = "open" /\ file.path = path /\ file.key = key /\ file.pid = p
      /\ file.names = names
  BY <1>0 DEF FileStates, Opt
<1>6. show \in Opt(Paths) /\ None \in Opt(Keys) /\ show \in {None, path}
  BY DEF Opt
<1> HIDE DEF file, show, new
<1>7. /\ Begins(e, p, "create", irp, o, None, show, names)
      /\ irp \in Irps => e.ghost.gen = 1 - gen[irp]
  <2> DEFINE r == FileRecord(p, "create", irp, o, file, stamp)
  <2>1. "create" \in Opcodes \ {"op_end"} /\ o \in Opt(Objects)
    BY DEF Opcodes, Opt
  <2>2. e = Showing(r, None, show)
    OBVIOUS
  <2> HIDE DEF e
  <2>3. /\ GoodEvent(e) /\ IsFileIo(e)
        /\ e.kind = "file" /\ e.hdr = p /\ ProcessPid(e) = p /\ e.op = "create"
        /\ e.irp = irp /\ e.object = o /\ e.key = None /\ e.path = show
        /\ e.ghost.names = file.names
        /\ irp \in Irps => e.ghost.gen = 1 - gen[irp]
    BY <1>1, <1>5, <1>6, <2>1, <2>2, FileEvents
  <2> QED
    BY <1>5, <2>3 DEF Begins
<1> HIDE DEF e
<1>8. ReaderInv' /\ Handled(e, p \in kin, new)
  BY <1>1, <1>3, <1>7, EmitStep DEF Begins
<1>9. files \in [Objects -> FileStates] /\ files' \in [Objects -> FileStates]
  BY <1>1, <1>2, <1>5 DEF MachineType
<1>10. MachineType' /\ IrpUse(e)
  BY <1>1, <1>2, <1>7, <1>9, UseIrpFacts DEF MachineType, IrpUse, Begins
<1>11. KeysFit'
  BY <1>0, <1>1, <1>2, <1>5, <1>9 DEF KeysFit
<1>12. ASSUME ~Happened(Mess)', TrueObjects, TrueKeys
       PROVE  TrueRecord(e) /\ TrueObjects' /\ TrueKeys'
  <2>1. "lost" \notin faults' /\ ~fails
    BY <1>4, <1>8, <1>12 DEF Happened, Mess, Handled
  <2>2. files'[o] = file /\ \A x \in Objects \ {o} : files'[x] = files[x]
    BY <1>2, <1>9, <2>1
  <2>3. ~OpenInTree(o)
    BY <1>2 DEF OpenInTree
  <2>4. \A k \in Keys : k # None
    BY ExtractionAssumption
  <2>5. /\ raw'.tree = raw.tree
        /\ \/ /\ Rooted => p \in raw.tree
              /\ \A x \in Objects : raw'.byObject[x] =
                   IF x = o /\ show # None THEN show ELSE raw.byObject[x]
              /\ \A k \in Keys : raw'.byKey[k] = raw.byKey[k]
           \/ raw'.byObject = raw.byObject /\ raw'.byKey = raw.byKey
    BY <1>1, <1>7, <1>8, <2>1, <2>4, BegunCaches
  <2>6. /\ \A x \in Objects \ {o} : raw'.byObject[x] = raw.byObject[x]
        /\ \A k \in Keys : raw'.byKey[k] = raw.byKey[k]
    BY <2>5
  <2>7. /\ \A x \in Objects \ {o} : raw'.byObject[x] # None =>
             OpenInTree(x)' /\ raw'.byObject[x] \in files'[x].names
        /\ raw.byObject[o] = None
        /\ TrueKeys'
    BY <1>12, <2>2, <2>3, <2>5, <2>6, OthersStay
  <2>8. raw'.byObject[o] # None => OpenInTree(o)' /\ raw'.byObject[o] \in files'[o].names
    BY <1>0, <1>5, <1>6, <2>2, <2>5, <2>7 DEF OpenInTree
  <2>9. TrueRecord(e)
    BY <1>0, <1>6, <1>7, <2>4, <2>7 DEF TrueRecord, Begins, Opt
  <2> QED
    BY <2>7, <2>8, <2>9 DEF TrueObjects
<1> QED
  BY <1>2, <1>7, <1>8, <1>10, <1>11, <1>12, BeginStep

\* The record of I/O on a file that is in use: a cached path of it is the right one.
LEMMA UseEvents ==
  ASSUME IInv, NEW p \in Pids, NEW op \in {"read", "rename", "cleanup", "close"},
         NEW irp \in Opt(Irps), NEW o \in Objects, NEW stamp \in Stamps, files[o].state # "free",
         NEW e, e = FileRecord(p, op, irp, o, files[o], stamp)
  PROVE  /\ Begins(e, p, op, irp, o, files[o].key, None, files[o].names)
         /\ irp \in Irps => e.ghost.gen = 1 - gen[irp]
         /\ TrueObjects /\ TrueKeys => TrueRecord(e)
<1>1. MachineType /\ KeysFit
  BY InvParts
<1>2. files[o] \in FileStates
  BY <1>1 DEF MachineType
<1>3. /\ op \in Opcodes \ {"op_end"} /\ o \in Opt(Objects)
      /\ files[o].key \in Opt(Keys) /\ None \in Opt(Paths)
  BY <1>2 DEF Opcodes, Opt, FileStates
<1>4. /\ GoodEvent(e) /\ IsFileIo(e)
      /\ e.kind = "file" /\ e.hdr = p /\ ProcessPid(e) = p /\ e.op = op /\ e.op # "op_end"
      /\ e.irp = irp /\ e.object = o /\ e.key = files[o].key /\ e.path = None
      /\ e.ghost.names = files[o].names
      /\ irp \in Irps => e.ghost.gen = 1 - gen[irp]
  BY <1>1, <1>2, <1>3, FileEvents
<1>5. ASSUME TrueObjects, TrueKeys PROVE TrueRecord(e)
  <2>1. raw.byObject[o] \in Opt(files[o].names)
    BY <1>5 DEF TrueObjects, Opt
  <2>2. files[o].key \in Keys => raw.byKey[files[o].key] \in Opt(files[o].names)
    BY <1>1, <1>5, KeyTrue
  <2> QED
    BY <1>4, <2>1, <2>2 DEF TrueRecord, Opt
<1> QED
  BY <1>4, <1>5 DEF Begins

LEMMA IoStep ==
  ASSUME IInv, NEW p \in Pids, NEW irp \in Opt(Irps), NEW o \in Objects, NEW stamp \in Stamps,
         Io(p, irp, o, stamp)
  PROVE  IInv' /\ \A i \in Irps : WrittenWhenGone(i)
<1> DEFINE e == FileRecord(p, "read", irp, o, files[o], stamp)
<1>1. /\ ReaderInv /\ MachineType /\ KeysFit
  BY InvParts
<1>2. /\ p \in live /\ live' = live /\ kin' = kin /\ used' = used
      /\ files[o].state = "open" /\ UseIrp(irp) /\ files' = files
  BY DEF Io
<1>3. Emit(e, p \in kin, {})
  BY DEF Io
<1>4. /\ Begins(e, p, "read", irp, o, files[o].key, None, files[o].names)
      /\ irp \in Irps => e.ghost.gen = 1 - gen[irp]
      /\ TrueObjects /\ TrueKeys => TrueRecord(e)
  BY <1>2, UseEvents
<1> HIDE DEF e
<1>5. ReaderInv' /\ Handled(e, p \in kin, {})
  BY <1>1, <1>3, <1>4, EmitStep DEF Begins
<1>6. MachineType' /\ IrpUse(e)
  BY <1>1, <1>2, <1>4, UseIrpFacts DEF MachineType, IrpUse, Begins
<1>7. KeysFit'
  BY <1>1, <1>2 DEF KeysFit
<1>8. ASSUME ~Happened(Mess)', TrueObjects, TrueKeys
      PROVE  TrueRecord(e) /\ TrueObjects' /\ TrueKeys'
  <2>1. "lost" \notin faults'
    BY <1>8 DEF Happened, Mess
  <2>2. /\ raw'.tree = raw.tree
        /\ \A x \in Objects : raw'.byObject[x] = raw.byObject[x]
        /\ \A k \in Keys : raw'.byKey[k] = raw.byKey[k]
    BY <1>1, <1>4, <1>5, <2>1, BegunCaches
  <2> QED
    BY <1>2, <1>4, <1>8, <2>2, CachesSame DEF FilesKept
<1> QED
  BY <1>2, <1>4, <1>5, <1>6, <1>7, <1>8, BeginStep

LEMMA RenameStep ==
  ASSUME IInv, NEW p \in Pids, NEW irp \in Opt(Irps), NEW o \in Objects, NEW path \in Paths,
         NEW stamp \in Stamps, Rename(p, irp, o, path, stamp)
  PROVE  IInv' /\ \A i \in Irps : WrittenWhenGone(i)
<1> DEFINE e == FileRecord(p, "rename", irp, o, files[o], stamp)
           U == InUse(files[o].key)
<1>1. /\ ReaderInv /\ MachineType /\ KeysFit
  BY InvParts
<1>2. /\ p \in live /\ live' = live /\ kin' = kin /\ used' = used
      /\ files[o].state = "open" /\ UseIrp(irp)
      /\ \A x \in Objects \ U : files[x].state # "free" => files[x].path # path
      /\ files' = [x \in Objects |-> IF x \in U
                     THEN [files[x] EXCEPT !.path = path, !.names = @ \cup {path}] ELSE files[x]]
  BY DEF Rename
<1>3. Emit(e, p \in kin, {})
  BY DEF Rename
<1>4. /\ Begins(e, p, "rename", irp, o, files[o].key, None, files[o].names)
      /\ irp \in Irps => e.ghost.gen = 1 - gen[irp]
      /\ TrueObjects /\ TrueKeys => TrueRecord(e)
  BY <1>2, UseEvents
<1> HIDE DEF e
<1>5. ReaderInv' /\ Handled(e, p \in kin, {})
  BY <1>1, <1>3, <1>4, EmitStep DEF Begins
<1>6. \A x \in Objects : x \in U <=> files[x].state # "free" /\ files[x].key = files[o].key
  BY DEF InUse
<1> HIDE DEF U
<1>7. ASSUME NEW x \in Objects
      PROVE  /\ files'[x] \in FileStates
             /\ files'[x].state = files[x].state /\ files'[x].key = files[x].key
             /\ files'[x].pid = files[x].pid
             /\ x \in U => files'[x].path = path /\ files'[x].names = files[x].names \cup {path}
             /\ x \notin U => files'[x] = files[x]
  <2>1. files[x] \in FileStates /\ path \in Opt(Paths)
    BY <1>1 DEF MachineType, Opt
  <2>2. CASE x \in U
    <3> DEFINE names == files[x].names \cup {path}
    <3>1. files'[x] = [files[x] EXCEPT !.path = path, !.names = names]
      BY <1>2, <2>2
    <3>2. names \in SUBSET Paths
      BY <2>1 DEF FileStates
    <3> HIDE DEF names
    <3>3. /\ files'[x] \in FileStates
          /\ files'[x].state = files[x].state /\ files'[x].key = files[x].key
          /\ files'[x].pid = files[x].pid
          /\ files'[x].path = path /\ files'[x].names = names
      BY <2>1, <3>1, <3>2 DEF FileStates
    <3> QED
      BY <2>2, <3>3 DEF names
  <2>3. CASE x \notin U
    BY <1>2, <2>1, <2>3
  <2> QED
    BY <2>2, <2>3
<1>8. FilesKept
  BY <1>7 DEF FilesKept
<1>9. files' \in [Objects -> FileStates]
  <2>1. DOMAIN files' = Objects /\ files' = [x \in Objects |-> files'[x]]
    BY <1>2
  <2> QED
    BY <1>7, <2>1
<1>10. MachineType' /\ IrpUse(e)
  BY <1>1, <1>2, <1>4, <1>9, UseIrpFacts DEF MachineType, IrpUse, Begins
<1>11. KeysFit'
  <2> SUFFICES ASSUME NEW x \in Objects, NEW y \in Objects,
                      files[x].state # "free", files[y].state # "free"
               PROVE  /\ files'[x].path \in files'[x].names
                      /\ files[x].key = files[y].key <=> files'[x].path = files'[y].path
                      /\ files[x].key = files[y].key => files'[x].names = files'[y].names
    BY <1>7 DEF KeysFit
  <2>1. /\ files[x].path \in files[x].names
        /\ files[x].key = files[y].key <=> files[x].path = files[y].path
        /\ files[x].key = files[y].key => files[x].names = files[y].names
    BY <1>1 DEF KeysFit
  <2>2. files'[x].path \in files'[x].names
    BY <1>7, <2>1
  <2>3. CASE x \in U /\ y \in U
    BY <1>6, <1>7, <2>1, <2>2, <2>3
  <2>4. CASE x \notin U /\ y \notin U
    BY <1>7, <2>1, <2>2, <2>4
  <2>5. CASE x \in U /\ y \notin U
    <3>1. files[x].key # files[y].key
      BY <1>6, <2>5
    <3>2. files'[x].path = path /\ files'[y].path # path
      BY <1>2, <1>7, <2>5
    <3> QED
      BY <2>2, <3>1, <3>2
  <2>6. CASE x \notin U /\ y \in U
    <3>1. files[x].key # files[y].key
      BY <1>6, <2>6
    <3>2. files'[x].path # path /\ files'[y].path = path
      BY <1>2, <1>7, <2>6
    <3> QED
      BY <2>2, <3>1, <3>2
  <2> QED
    BY <2>3, <2>4, <2>5, <2>6
<1>12. ASSUME ~Happened(Mess)', TrueObjects, TrueKeys
       PROVE  TrueRecord(e) /\ TrueObjects' /\ TrueKeys'
  <2>1. "lost" \notin faults'
    BY <1>12 DEF Happened, Mess
  <2>2. /\ raw'.tree = raw.tree
        /\ \A x \in Objects : raw'.byObject[x] = raw.byObject[x]
        /\ \A k \in Keys : raw'.byKey[k] = raw.byKey[k]
    BY <1>1, <1>4, <1>5, <2>1, BegunCaches
  <2> QED
    BY <1>4, <1>8, <1>12, <2>2, CachesSame
<1> QED
  BY <1>2, <1>4, <1>5, <1>10, <1>11, <1>12, BeginStep

LEMMA CleanupStep ==
  ASSUME IInv, NEW p \in Pids, NEW irp \in Opt(Irps), NEW o \in Objects, NEW stamp \in Stamps,
         Cleanup(p, irp, o, stamp)
  PROVE  IInv' /\ \A i \in Irps : WrittenWhenGone(i)
<1> DEFINE e   == FileRecord(p, "cleanup", irp, o, files[o], stamp)
           new == IF p = files[o].pid THEN {} ELSE {"foreign"}
<1>1. /\ ReaderInv /\ MachineType /\ KeysFit
  BY InvParts
<1>2. /\ p \in live /\ live' = live /\ kin' = kin /\ used' = used
      /\ files[o].state = "open" /\ UseIrp(irp)
      /\ files' = [files EXCEPT ![o].state = "cleaned"]
  BY DEF Cleanup
<1>3. Emit(e, p \in kin, new)
  BY DEF Cleanup
<1>4. /\ Begins(e, p, "cleanup", irp, o, files[o].key, None, files[o].names)
      /\ irp \in Irps => e.ghost.gen = 1 - gen[irp]
      /\ TrueObjects /\ TrueKeys => TrueRecord(e)
  BY <1>2, UseEvents
<1>5. p # files[o].pid => "foreign" \in new
  OBVIOUS
<1> HIDE DEF e, new
<1>6. ReaderInv' /\ Handled(e, p \in kin, new)
  BY <1>1, <1>3, <1>4, EmitStep DEF Begins
<1>7. /\ files \in [Objects -> FileStates] /\ files' \in [Objects -> FileStates]
      /\ files'[o].state = "cleaned" /\ files'[o].key = files[o].key
      /\ files'[o].path = files[o].path /\ files'[o].names = files[o].names
      /\ \A x \in Objects \ {o} : files'[x] = files[x]
  BY <1>1, <1>2 DEF MachineType, FileStates
<1>8. MachineType' /\ IrpUse(e)
  BY <1>1, <1>2, <1>4, <1>7, UseIrpFacts DEF MachineType, IrpUse, Begins
<1>9. KeysFit'
  BY <1>1, <1>2, <1>7 DEF KeysFit
<1>10. ASSUME ~Happened(Mess)', TrueObjects, TrueKeys
       PROVE  TrueRecord(e) /\ TrueObjects' /\ TrueKeys'
  <2>1. "lost" \notin faults' /\ p = files[o].pid
    BY <1>5, <1>6, <1>10 DEF Happened, Mess, Handled
  <2>2. raw'.tree = raw.tree
    BY <1>1, <1>4, <1>6, <2>1, BegunCaches
  <2>3. /\ raw'.byObject[o] = None
        /\ files[o].key \in Keys /\ OpenInTree(o) => raw'.byKey[files[o].key] = None
        /\ \A x \in Objects \ {o} : raw'.byObject[x] \in {None, raw.byObject[x]}
        /\ \A k \in Keys : raw'.byKey[k] \in {None, raw.byKey[k]}
    <3>1. CASE /\ \A x \in Objects : raw'.byObject[x] =
                    IF x = o THEN None ELSE raw.byObject[x]
               /\ \A k \in Keys : raw'.byKey[k] =
                    IF k = files[o].key THEN None ELSE raw.byKey[k]
      BY <3>1
    <3>2. CASE /\ "file" \notin Presets
               /\ raw'.byObject = raw.byObject /\ raw'.byKey = raw.byKey
      BY <1>1, <3>2 DEF ReaderInv, ContextInv, FilesOff
    <3>3. CASE /\ Rooted /\ p \notin raw.tree
               /\ raw'.byObject = raw.byObject /\ raw'.byKey = raw.byKey
      <4>1. ~OpenInTree(o)
        BY <2>1, <3>3 DEF OpenInTree
      <4> QED
        BY <1>10, <3>3, <4>1 DEF TrueObjects
    <3> QED
      BY <1>1, <1>4, <1>6, <2>1, <3>1, <3>2, <3>3, BegunCaches
  <2>4. /\ \A x \in Objects \ {o} : raw'.byObject[x] # None =>
             OpenInTree(x)' /\ raw'.byObject[x] \in files'[x].names
        /\ TrueKeys'
    BY <1>7, <1>10, <2>2, <2>3, OthersStay
  <2> QED
    BY <1>4, <1>10, <2>3, <2>4 DEF TrueObjects
<1> QED
  BY <1>2, <1>4, <1>6, <1>8, <1>9, <1>10, BeginStep

LEMMA CloseStep ==
  ASSUME IInv, NEW p \in Pids, NEW irp \in Opt(Irps), NEW o \in Objects, NEW stamp \in Stamps,
         CloseFile(p, irp, o, stamp)
  PROVE  IInv' /\ \A i \in Irps : WrittenWhenGone(i)
<1> DEFINE e == FileRecord(p, "close", irp, o, files[o], stamp)
<1>1. /\ ReaderInv /\ MachineType /\ KeysFit
  BY InvParts
<1>2. /\ p \in live /\ live' = live /\ kin' = kin /\ used' = used
      /\ files[o].state = "cleaned" /\ UseIrp(irp)
      /\ files' = [files EXCEPT ![o].state = "free"]
  BY DEF CloseFile
<1>3. Emit(e, p \in kin, {})
  BY DEF CloseFile
<1>4. /\ Begins(e, p, "close", irp, o, files[o].key, None, files[o].names)
      /\ irp \in Irps => e.ghost.gen = 1 - gen[irp]
      /\ TrueObjects /\ TrueKeys => TrueRecord(e)
  BY <1>2, UseEvents
<1> HIDE DEF e
<1>5. ReaderInv' /\ Handled(e, p \in kin, {})
  BY <1>1, <1>3, <1>4, EmitStep DEF Begins
<1>6. /\ files \in [Objects -> FileStates] /\ files' \in [Objects -> FileStates]
      /\ files'[o].state = "free"
      /\ \A x \in Objects \ {o} : files'[x] = files[x]
  BY <1>1, <1>2 DEF MachineType, FileStates
<1>7. MachineType' /\ IrpUse(e)
  BY <1>1, <1>2, <1>4, <1>6, UseIrpFacts DEF MachineType, IrpUse, Begins
<1>8. KeysFit'
  BY <1>1, <1>6 DEF KeysFit
<1>9. ASSUME ~Happened(Mess)', TrueObjects, TrueKeys
      PROVE  TrueRecord(e) /\ TrueObjects' /\ TrueKeys'
  <2>1. "lost" \notin faults'
    BY <1>9 DEF Happened, Mess
  <2>2. ~OpenInTree(o)
    BY <1>2 DEF OpenInTree
  <2>3. /\ raw'.tree = raw.tree
        /\ \A x \in Objects : raw'.byObject[x] \in {None, raw.byObject[x]}
        /\ \A k \in Keys : raw'.byKey[k] \in {None, raw.byKey[k]}
    BY <1>1, <1>4, <1>5, <2>1, BegunCaches
  <2>4. /\ \A x \in Objects \ {o} : raw'.byObject[x] # None =>
             OpenInTree(x)' /\ raw'.byObject[x] \in files'[x].names
        /\ raw.byObject[o] = None
        /\ TrueKeys'
    BY <1>6, <1>9, <2>2, <2>3, OthersStay
  <2>5. raw'.byObject[o] = None
    BY <2>3, <2>4
  <2> QED
    BY <1>4, <1>9, <2>4, <2>5 DEF TrueObjects
<1> QED
  BY <1>2, <1>4, <1>5, <1>7, <1>8, <1>9, BeginStep

\* The records that name a control block.
LEMMA NameEvents ==
  ASSUME IInv, NEW p \in Pids, NEW o \in Objects, NEW stamp \in Stamps,
         NEW r, r = FileRecord(p, "name", None, None, files[o], stamp)
  PROVE  /\ [r EXCEPT !.path = files[o].path] = Showing(r, files[o].key, files[o].path)
         /\ Begins(Showing(r, files[o].key, files[o].path), p, "name", None, None, files[o].key,
                   files[o].path, files[o].names)
<1> DEFINE e == Showing(r, files[o].key, files[o].path)
<1>1. MachineType
  BY InvParts
<1>2. files[o] \in FileStates
  BY <1>1 DEF MachineType
<1>3. /\ "name" \in Opcodes \ {"op_end"} /\ None \in Opt(Objects) /\ None \in Opt(Irps)
      /\ files[o].key \in Opt(Keys) /\ files[o].path \in Opt(Paths) /\ None \in Opt(Paths)
  BY <1>2 DEF Opcodes, Opt, FileStates
<1>4. GoodEvent(r) /\ r.key = files[o].key
  BY <1>1, <1>2, <1>3, FileEvents
<1>5. [r EXCEPT !.path = files[o].path] = Showing(r, files[o].key, files[o].path)
  BY <1>4 DEF GoodEvent, EventRecords, Showing
<1>6. e = Showing(r, files[o].key, files[o].path)
  OBVIOUS
<1> HIDE DEF e
<1>7. /\ GoodEvent(e) /\ IsFileIo(e)
      /\ e.kind = "file" /\ e.hdr = p /\ ProcessPid(e) = p /\ e.op = "name" /\ e.op # "op_end"
      /\ e.irp = None /\ e.object = None /\ e.key = files[o].key /\ e.path = files[o].path
      /\ e.ghost.names = files[o].names
  BY <1>1, <1>2, <1>3, <1>6, FileEvents
<1>8. Begins(e, p, "name", None, None, files[o].key, files[o].path, files[o].names)
  BY <1>7 DEF Begins
<1> QED
  BY <1>5, <1>6, <1>8

LEMMA NameStep ==
  ASSUME IInv, NEW p \in Pids, NEW o \in Objects, NEW stamp \in Stamps, Name(p, o, stamp)
  PROVE  IInv' /\ \A i \in Irps : WrittenWhenGone(i)
<1> DEFINE r == FileRecord(p, "name", None, None, files[o], stamp)
           e == Showing(r, files[o].key, files[o].path)
<1>1. /\ ReaderInv /\ MachineType /\ KeysFit
  BY InvParts
<1>2. /\ p \in live /\ live' = live /\ kin' = kin /\ used' = used
      /\ files[o].state = "open" /\ files[o].pid = p
      /\ files' = files /\ inflight' = inflight /\ gen' = gen
  BY DEF Name, machine
<1>3. Emit([r EXCEPT !.path = files[o].path], p \in kin, {})
  BY DEF Name
<1> HIDE DEF r
<1>4. /\ [r EXCEPT !.path = files[o].path] = e
      /\ Begins(e, p, "name", None, None, files[o].key, files[o].path, files[o].names)
  BY NameEvents DEF r
<1>5. Emit(e, p \in kin, {})
  BY <1>3, <1>4
<1> HIDE DEF e
<1>6. ReaderInv' /\ Handled(e, p \in kin, {})
  BY <1>1, <1>4, <1>5, EmitStep DEF Begins
<1>7. None \notin Irps /\ None \notin Objects
  BY ExtractionAssumption
<1>8. MachineType' /\ IrpUse(e)
  BY <1>1, <1>2, <1>4, <1>7 DEF MachineType, IrpUse, Begins
<1>9. KeysFit'
  BY <1>1, <1>2 DEF KeysFit
<1>10. files[o].path \in files[o].names
  BY <1>1, <1>2 DEF KeysFit
<1>11. ASSUME ~Happened(Mess)', TrueObjects, TrueKeys
       PROVE  TrueRecord(e) /\ TrueObjects' /\ TrueKeys'
  <2>1. "lost" \notin faults'
    BY <1>11 DEF Happened, Mess
  <2>2. /\ raw'.tree = raw.tree
        /\ \A x \in Objects : raw'.byObject[x] = raw.byObject[x]
        /\ \/ /\ Rooted => p \in raw.tree
              /\ \A k \in Keys : raw'.byKey[k] =
                   IF k = files[o].key /\ files[o].path # None THEN files[o].path ELSE raw.byKey[k]
           \/ raw'.byKey = raw.byKey
    BY <1>1, <1>4, <1>6, <1>7, <2>1, BegunCaches
  <2>3. files[o].key \in Keys => raw.byKey[files[o].key] \in Opt(files[o].names)
    BY <1>1, <1>2, <1>11, KeyTrue
  <2>4. TrueRecord(e)
    BY <1>4, <1>7, <1>10, <2>3 DEF TrueRecord, Begins, Opt
  <2>5. \A x \in Objects : OpenInTree(x)' <=> OpenInTree(x)
    BY <1>2, <2>2 DEF OpenInTree
  <2>6. TrueObjects'
    BY <1>2, <1>11, <2>2, <2>5 DEF TrueObjects
  <2>7. (Rooted => p \in raw.tree) => OpenInTree(o)
    BY <1>2 DEF OpenInTree
  <2>8. ASSUME NEW k \in Keys, raw'.byKey[k] # None
        PROVE  \E x \in Objects : /\ OpenInTree(x)' /\ files'[x].key = k
                                  /\ raw'.byKey[k] \in files'[x].names
    <3>1. CASE raw'.byKey[k] = raw.byKey[k]
      BY <1>2, <1>11, <2>5, <2>8, <3>1 DEF TrueKeys
    <3>2. CASE /\ Rooted => p \in raw.tree
               /\ k = files[o].key /\ raw'.byKey[k] = files[o].path
      BY <1>2, <1>10, <2>5, <2>7, <3>2
    <3> QED
      BY <2>2, <3>1, <3>2
  <2>9. TrueKeys'
    BY <2>8 DEF TrueKeys
  <2> QED
    BY <2>4, <2>6, <2>9
<1> QED
  BY <1>2, <1>4, <1>6, <1>8, <1>9, <1>11, BeginStep

LEMMA NameDeleteStep ==
  ASSUME IInv, NEW p \in Pids, NEW o \in Objects, NEW stamp \in Stamps, NameDelete(p, o, stamp)
  PROVE  IInv' /\ \A i \in Irps : WrittenWhenGone(i)
<1> DEFINE r == FileRecord(p, "name", None, None, files[o], stamp)
           e == Showing(r, files[o].key, files[o].path)
<1>1. /\ ReaderInv /\ MachineType /\ KeysFit
  BY InvParts
<1>2. /\ p \in live /\ live' = live /\ kin' = kin /\ used' = used
      /\ files' = [files EXCEPT ![o] = Free] /\ inflight' = inflight /\ gen' = gen
  BY DEF NameDelete
<1>3. Emit([r EXCEPT !.path = files[o].path], p \in kin, {"delete"})
  BY DEF NameDelete
<1> HIDE DEF r
<1>4. /\ [r EXCEPT !.path = files[o].path] = e
      /\ Begins(e, p, "name", None, None, files[o].key, files[o].path, files[o].names)
  BY NameEvents DEF r
<1>5. Emit(e, p \in kin, {"delete"})
  BY <1>3, <1>4
<1> HIDE DEF e
<1>6. ReaderInv' /\ Handled(e, p \in kin, {"delete"})
  BY <1>1, <1>4, <1>5, EmitStep DEF Begins
<1>7. Free \in FileStates /\ Free.state = "free"
  BY DEF Free, FileStates, Opt
<1>8. /\ files' \in [Objects -> FileStates] /\ files'[o].state = "free"
      /\ \A x \in Objects \ {o} : files'[x] = files[x]
  BY <1>1, <1>2, <1>7 DEF MachineType
<1>9. None \notin Irps
  BY ExtractionAssumption
<1>10. MachineType' /\ IrpUse(e)
  BY <1>1, <1>2, <1>4, <1>8, <1>9 DEF MachineType, IrpUse, Begins
<1>11. KeysFit'
  BY <1>1, <1>8 DEF KeysFit
<1>12. Happened(Mess)'
  BY <1>6 DEF Happened, Mess, Handled
<1> QED
  BY <1>2, <1>4, <1>6, <1>10, <1>11, <1>12, BeginStep

---------------------------------------------------------------------------
\* The end of the trace, and the steps that change nothing.
LEMMA EndStep ==
  ASSUME IInv, Finish
  PROVE  IInv' /\ \A i \in Irps : WrittenWhenGone(i)
<1>1. /\ ReaderInv /\ MachineType /\ TreeFollowed /\ TreeIsKin /\ AllKin
      /\ PendingInFlight /\ KeysFit /\ CachesTrue /\ RowPerRecord
  BY InvParts
<1>2. /\ raw' = flush_pending_file_events(raw) /\ faults' = faults /\ seen' = seen
      /\ live' = live /\ kin' = kin /\ used' = used
      /\ files' = files /\ inflight' = inflight /\ gen' = gen
  BY DEF Finish, machine
<1>3. ReaderInv' /\ MachineType'
  BY <1>1, <1>2, FinishStep DEF MachineType
<1>4. ContextInv(raw)
  BY <1>1 DEF ReaderInv
<1>5. /\ raw'.tree = raw.tree
      /\ \A i \in Irps : raw'.pending[i] = None
      /\ raw'.byObject = raw.byObject /\ raw'.byKey = raw.byKey
      /\ raw'.written = raw.written + Cardinality({i \in Irps : raw.pending[i] # None})
      /\ \A q \in raw'.out : \E i \in Irps : raw.pending[i] # None /\ IsRow(q, raw.pending[i])
      /\ \A i \in Irps : raw.pending[i] # None =>
            \E q \in raw'.out : IsRow(q, raw.pending[i])
  BY <1>2, <1>4, FlushFacts
<1>6. TreeFollowed' /\ TreeIsKin' /\ AllKin'
  BY <1>1, <1>2, <1>5 DEF TreeFollowed, TreeIsKin, AllKin, Happened
<1>7. OnlyTree'
  <2> SUFFICES ASSUME ~Happened({"pid", "lost"})', Rooted, NEW q \in raw'.out
               PROVE  "op" \in DOMAIN q /\ q.pid \in kin'
    BY DEF OnlyTree
  <2>1. raw.tree \subseteq kin
    BY <1>1, <1>2 DEF TreeIsKin, Happened
  <2>2. PICK i \in Irps : /\ raw.pending[i] # None /\ q.pid = raw.pending[i].pid
                          /\ "op" \in DOMAIN q
    BY <1>5 DEF IsRow
  <2> QED
    BY <1>2, <1>4, <2>1, <2>2 DEF ContextInv, PendingIn
<1>8. PendingInFlight'
  BY <1>5 DEF PendingInFlight, Pending
<1>9. PairedRight'
  <2>1. ASSUME NEW q \in raw'.out PROVE q.end = None
    <3>1. PICK i \in Irps : raw.pending[i] # None /\ q.end = raw.pending[i].end
      BY <1>5 DEF IsRow
    <3> QED
      BY <1>4, <3>1 DEF ContextInv, PendingFiled
  <2> QED
    BY <2>1 DEF PairedRight
<1>10. KeysFit'
  BY <1>1, <1>2 DEF KeysFit
<1>11. CachesTrue'
  BY <1>1, <1>2, <1>5 DEF CachesTrue, OpenInTree, Pending, Happened
<1>12. PathTrue'
  <2> SUFFICES ASSUME ~Happened({"create", "foreign", "delete", "lost"})', NEW q \in raw'.out
               PROVE  q.path \in Opt(q.ghost.names)
    BY DEF PathTrue, Opt
  <2>1. PICK i \in Irps : /\ raw.pending[i] # None
                          /\ q.path = raw.pending[i].path /\ q.ghost = raw.pending[i].ghost
    BY <1>5 DEF IsRow
  <2> QED
    BY <1>1, <1>2, <2>1 DEF CachesTrue, Pending, Happened, Opt
<1>13. RowPerRecord'
  <2> DEFINE S == {i \in Irps : raw.pending[i] # None}
             T == {i \in Irps : raw'.pending[i] # None}
  <2>1. T = {}
    BY <1>5
  <2>2. Cardinality(T) = 0
    BY <2>1, FS_EmptySet
  <2>3. Cardinality(S) \in Nat
    <3>1. S \subseteq Irps
      OBVIOUS
    <3> QED
      BY <3>1, ExtractionAssumption, FS_Subset, FS_CardinalityType
  <2>4. raw.written \in Nat
    BY <1>4 DEF ContextInv, IsContext
  <2>5. ASSUME ~Happened({"lost", "pid"})', "process" \in Presets
        PROVE  seen' = raw.written + Cardinality(S)
    BY <1>1, <1>2, <2>5 DEF RowPerRecord, Happened
  <2>6. raw'.written = raw.written + Cardinality(S)
    BY <1>5
  <2>7. ~Happened({"lost", "pid"})' /\ "process" \in Presets =>
          seen' = raw'.written + Cardinality(T)
    <3> HIDE DEF S, T
    <3> QED
      BY <2>2, <2>3, <2>4, <2>5, <2>6
  <2> QED
    BY <2>7 DEF RowPerRecord
<1>14. ASSUME NEW i \in Irps, raw.pending[i] # None
       PROVE  \E q \in raw'.out : /\ "op" \in DOMAIN q /\ q.irp = i
                                  /\ q.ghost = raw.pending[i].ghost
  BY <1>4, <1>5, <1>14 DEF ContextInv, PendingFiled, IsRow
<1>15. \A i \in Irps : WrittenWhenGone(i)
  BY <1>14 DEF WrittenWhenGone
<1>16. Flushed'
  BY <1>5 DEF Flushed, Pending
<1> QED
  BY <1>3, <1>6, <1>7, <1>8, <1>9, <1>10, <1>11, <1>12, <1>13, <1>15, <1>16, InvPartsNext

LEMMA StutterStep ==
  ASSUME IInv, UNCHANGED vars
  PROVE  IInv' /\ \A i \in Irps : WrittenWhenGone(i)
<1>1. /\ raw' = raw /\ filt' = filt /\ ftree' = ftree /\ done' = done /\ n' = n
      /\ faults' = faults /\ live' = live /\ kin' = kin /\ used' = used /\ files' = files
      /\ inflight' = inflight /\ gen' = gen /\ seen' = seen
  BY DEF vars, readers, machine
<1>2. ReaderInv' /\ MachineType'
  BY <1>1, InvParts DEF ReaderInv, MachineType, FilterFaithful, Happened
<1>3. TreeFollowed' /\ TreeIsKin' /\ AllKin' /\ OnlyTree'
  BY <1>1, InvParts DEF TreeFollowed, TreeIsKin, AllKin, OnlyTree, Happened
<1>4. PendingInFlight' /\ PairedRight'
  BY <1>1, InvParts DEF PendingInFlight, PairedRight, Pending, Happened
<1>5. KeysFit' /\ CachesTrue' /\ PathTrue'
  BY <1>1, InvParts DEF KeysFit, CachesTrue, PathTrue, Pending, OpenInTree, Happened
<1>6. RowPerRecord'
  BY <1>1, InvParts DEF RowPerRecord, Happened
<1>7. \A i \in Irps : WrittenWhenGone(i)
  BY <1>1 DEF WrittenWhenGone
<1>8. Flushed'
  BY <1>1, InvParts DEF Flushed, Pending
<1> QED
  BY <1>2, <1>3, <1>4, <1>5, <1>6, <1>7, <1>8, InvPartsNext

LEMMA NewContextFacts ==
  /\ ContextInv(NewContext)
  /\ NewContext.tree = IF Rooted THEN {RootPid} ELSE {}
  /\ NewContext.out = {} /\ NewContext.written = 0
  /\ \A i \in Irps : NewContext.pending[i] = None
  /\ \A o \in Objects : NewContext.byObject[o] = None
  /\ \A k \in Keys : NewContext.byKey[k] = None
<1> DEFINE c == NewContext
<1>1. /\ DOMAIN c = ContextFields
      /\ c.tree = IF Rooted THEN {RootPid} ELSE {}
      /\ c.modules = [p \in Pids |-> [b \in Bases |-> None]]
      /\ c.pending = [i \in Irps |-> None] /\ c.ignored = {}
      /\ c.byObject = [o \in Objects |-> None] /\ c.byKey = [k \in Keys |-> None]
      /\ c.stacks = [s \in Stamps |-> << >>] /\ c.order = << >>
      /\ c.matched = 0 /\ c.unmatched = 0 /\ c.incomplete = 0 /\ c.reused = 0
      /\ c.written = 0 /\ c.out = {}
  BY DEF NewContext, ContextFields
<1> HIDE DEF c
<1>2. /\ c.modules \in [Pids -> [Bases -> Opt(Images)]]
      /\ c.pending \in [Irps -> Opt(FileRecords)]
      /\ c.byObject \in [Objects -> Opt(Paths)] /\ c.byKey \in [Keys -> Opt(Paths)]
  BY <1>1 DEF Opt
<1>3. c.stacks \in [Stamps -> Seq(StackRecords)] /\ c.order \in Seq(Stamps)
  BY <1>1
<1>4. c.tree \subseteq Pids
  BY <1>1, ExtractionAssumption
<1>5. IsContext(c)
  BY <1>1, <1>2, <1>3, <1>4 DEF IsContext
<1>6. StacksBounded(c)
  <2>1. Len(c.order) = 0 /\ \A s \in Stamps : c.stacks[s] = << >> /\ Len(c.stacks[s]) = 0
    BY <1>1
  <2> QED
    BY <2>1, ExtractionAssumption DEF StacksBounded
<1>7. StacksIn(c, c.tree)
  BY <1>1 DEF StacksIn
<1>8. PendingFiled(c) /\ PendingIn(c, c.tree) /\ FilesOff(c)
  BY <1>1 DEF PendingFiled, PendingIn, FilesOff
<1>9. ContextInv(c)
  BY <1>5, <1>6, <1>7, <1>8 DEF ContextInv
<1> QED
  BY <1>1, <1>9 DEF c

LEMMA InitInv ==
  ASSUME Init
  PROVE  IInv
<1>1. /\ raw = NewContext /\ filt = NewContext /\ ftree = NewContext.tree /\ done = FALSE
      /\ n = 0 /\ faults = {} /\ live = {RootPid, ZeroPid} /\ used = {RootPid, ZeroPid}
      /\ kin = IF Rooted THEN {RootPid} ELSE {RootPid, ZeroPid}
      /\ inflight = {} /\ gen = [i \in Irps |-> 0] /\ seen = 0
  BY DEF Init
<1>2. PICK S \in SUBSET Objects, p \in Paths, k \in Keys :
        files = [o \in Objects |-> IF o \in S
                  THEN [state |-> "open", path |-> p, names |-> {p}, key |-> k, pid |-> RootPid]
                  ELSE Free]
  BY DEF Init
<1>3. /\ [state |-> "open", path |-> p, names |-> {p}, key |-> k, pid |-> RootPid] \in FileStates
      /\ Free \in FileStates /\ Free.state = "free"
  BY ExtractionAssumption DEF FileStates, Free, Opt
<1>4. ReaderInv
  <2>1. ContextInv(raw) /\ ContextInv(filt) /\ ftree \subseteq Pids
    BY <1>1, NewContextFacts DEF ContextInv, IsContext
  <2>2. FilterFaithful
    BY <1>1 DEF FilterFaithful
  <2>3. n \in Nat /\ n <= MaxEvents /\ seen \in Nat /\ seen <= n
    BY <1>1, FilterAssumption
  <2>4. done \in BOOLEAN /\ faults \subseteq Faults
    BY <1>1
  <2> QED
    BY <2>1, <2>2, <2>3, <2>4 DEF ReaderInv
<1>5. MachineType
  <2>1. files \in [Objects -> FileStates]
    BY <1>2, <1>3
  <2>2. gen \in [Irps -> {0, 1}]
    BY <1>1
  <2> QED
    BY <1>1, <2>1, <2>2, ExtractionAssumption DEF MachineType
<1>6. TreeFollowed /\ TreeIsKin /\ AllKin
  BY <1>1, NewContextFacts DEF TreeFollowed, TreeIsKin, AllKin
<1>7. OnlyTree /\ PairedRight /\ PathTrue
  BY <1>1, NewContextFacts DEF OnlyTree, PairedRight, PathTrue
<1>8. PendingInFlight /\ CachesTrue
  BY <1>1, NewContextFacts DEF PendingInFlight, CachesTrue, Pending
<1>9. KeysFit
  <2>1. \A o \in Objects : files[o].state # "free" =>
          files[o].key = k /\ files[o].path = p /\ files[o].names = {p}
    BY <1>2, <1>3
  <2> QED
    BY <2>1 DEF KeysFit
<1>10. RowPerRecord
  <2>1. {i \in Irps : raw.pending[i] # None} = {}
    BY <1>1, NewContextFacts
  <2>2. Cardinality({i \in Irps : raw.pending[i] # None}) = 0
    BY <2>1, FS_EmptySet
  <2> QED
    BY <1>1, <2>2, NewContextFacts DEF RowPerRecord
<1>11. Flushed
  BY <1>1 DEF Flushed
<1> QED
  BY <1>4, <1>5, <1>6, <1>7, <1>8, <1>9, <1>10, <1>11, InvParts

---------------------------------------------------------------------------
(***************************************************************************)
(* The theorems                                                            *)
(***************************************************************************)
LEMMA NextInv ==
  ASSUME IInv, [Next]_vars
  PROVE  IInv' /\ \A i \in Irps : WrittenWhenGone(i)
<1>1. CASE Machine
  BY <1>1, ProcessStartStep, ProcessEndStep, OtherStep, ImageStep, StackStep DEF Machine
<1>2. CASE FileIo
  <2>1. PICK p \in Pids, o \in Objects, s \in Stamps :
          \/ \E irp \in Irps \cup {None}, path \in Paths, key \in Keys, shown, fails \in BOOLEAN :
               Create(p, irp, o, path, key, shown, fails, s)
          \/ \E irp \in Irps \cup {None} :
               Io(p, irp, o, s) \/ Cleanup(p, irp, o, s) \/ CloseFile(p, irp, o, s)
          \/ \E irp \in Irps \cup {None}, path \in Paths : Rename(p, irp, o, path, s)
          \/ Name(p, o, s)
          \/ NameDelete(p, o, s)
    BY <1>2 DEF FileIo
  <2>2. Irps \cup {None} = Opt(Irps)
    BY DEF Opt
  <2>3. CASE \E irp \in Irps \cup {None}, path \in Paths, key \in Keys,
                shown, fails \in BOOLEAN : Create(p, irp, o, path, key, shown, fails, s)
    BY <2>2, <2>3, CreateStep
  <2>4. CASE \E irp \in Irps \cup {None} :
               Io(p, irp, o, s) \/ Cleanup(p, irp, o, s) \/ CloseFile(p, irp, o, s)
    BY <2>2, <2>4, IoStep, CleanupStep, CloseStep
  <2>5. CASE Name(p, o, s) \/ NameDelete(p, o, s)
    BY <2>5, NameStep, NameDeleteStep
  <2>6. CASE \E irp \in Irps \cup {None}, path \in Paths : Rename(p, irp, o, path, s)
    BY <2>2, <2>6, RenameStep
  <2> QED
    BY <2>1, <2>3, <2>4, <2>5, <2>6
<1>3. CASE \E p \in Pids, irp \in Irps : Completion(p, irp)
  BY <1>3, CompletionStep
<1>4. CASE Finish
  BY <1>4, EndStep
<1>5. CASE Quiet \/ UNCHANGED vars
  BY <1>5, StutterStep DEF Quiet
<1> QED
  BY <1>1, <1>2, <1>3, <1>4, <1>5 DEF Next

\* The invariant IInv holds, whatever the processes, files and IRPs are and however many
\* of them there are, and whatever faults happen in whatever order.
THEOREM EtwInvariance == Spec => []IInv
<1>1. Init => IInv
  BY InitInv
<1>2. IInv /\ [Next]_vars => IInv'
  BY NextInv
<1> QED
  BY <1>1, <1>2, PTL DEF Spec

\* Both extraction contexts keep their type, and so does the machine.
THEOREM EtwTypeCorrect == Spec => []TypeOK
<1>1. IInv => TypeOK
  BY DEF IInv
<1> QED
  BY <1>1, EtwInvariance, PTL

\* The second extraction, da_etw_extract_file_events on the trace that
\* FilteringReloggerCallback left over, gives what the first one gave, record by record:
\* the filter drops nothing that the extraction would still have needed.
THEOREM FilterDropsNothingNeeded == Spec => []FilterFaithful
<1>1. IInv => FilterFaithful
  BY DEF IInv
<1> QED
  BY <1>1, EtwInvariance, PTL

\* The caches of resolve_file_path never name another file, or one that is gone: a path
\* in a row is one its file has, or had before a rename.
THEOREM PathsAreTrue == Spec => []PathTrue
<1>1. IInv => PathTrue
  BY DEF IInv
<1> QED
  BY <1>1, EtwInvariance, PTL

\* process_file_io_event merges into a row the completion of the row's own I/O.
THEOREM CompletionsPairRight == Spec => []PairedRight
<1>1. IInv => PairedRight
  BY DEF IInv
<1> QED
  BY <1>1, EtwInvariance, PTL

\* process_tree_allows_event and file_event_allowed let through no record logged in a
\* process that is neither the root nor a descendant of it; nor does a row name one, but
\* for threads, images and network I/O, whose payload names a process nobody asks about.
THEOREM RowsOfTheTree == Spec => []OnlyTree
<1>1. IInv => OnlyTree
  BY DEF IInv
<1> QED
  BY <1>1, EtwInvariance, PTL

\* process_tree_pids grows with every descendant of the root.
THEOREM TreeIsFollowed == Spec => []TreeFollowed
<1>1. IInv => TreeFollowed
  BY DEF IInv
<1> QED
  BY <1>1, EtwInvariance, PTL

\* cache_pending_stack keeps pending_stacks_by_timestamp within its bounds, and evicts
\* the stacks of a timestamp together with the timestamp.
THEOREM StackCacheBounded == Spec => []CacheBounded
<1>1. IInv => CacheBounded
  BY DEF IInv, ContextInv, CacheBounded
<1> QED
  BY <1>1, EtwInvariance, PTL

\* Each enabled record of the tree is one row of events/*.jsonl or waits in
\* pending_file_irps, and flush_pending_file_events makes rows of those that wait.
THEOREM OneRowPerRecord == Spec => []RowPerRecord
<1>1. IInv => RowPerRecord
  BY DEF IInv
<1> QED
  BY <1>1, EtwInvariance, PTL

\* The finding about events/*.jsonl holds of every trace: run_realtime_consumer and
\* da_etw_extract_file_events both write a row for each event, so each event has two.
THEOREM EveryEventTwice == Spec => []TwoRowsPerEvent
<1>1. IInv => TwoRowsPerEvent
  <2> SUFFICES ASSUME IInv, done, ~Happened({"lost", "pid", "inject"}), "process" \in Presets
               PROVE  raw.written = seen /\ filt.written = seen
    BY DEF TwoRowsPerEvent
  <2>1. {i \in Irps : raw.pending[i] # None} = {}
    BY DEF IInv, Flushed, Pending
  <2>2. Cardinality({i \in Irps : raw.pending[i] # None}) = 0
    BY <2>1, FS_EmptySet
  <2>3. seen = raw.written + Cardinality({i \in Irps : raw.pending[i] # None})
    BY DEF IInv, RowPerRecord, Happened
  <2>4. filt = raw
    BY DEF IInv, FilterFaithful, Happened
  <2>5. raw.written \in Nat
    BY DEF IInv, TypeOK, IsContext
  <2> QED
    BY <2>2, <2>3, <2>4, <2>5
<1> QED
  BY <1>1, EtwInvariance, PTL

\* A record leaves pending_file_irps only into a row, or under a CLOSE that reuses its
\* IRP, even if records were lost.
THEOREM PendingIsNeverLost == Spec => NothingLost
<1>1. IInv /\ [Next]_vars => [\A i \in Irps : WrittenWhenGone(i)]_vars
  BY NextInv
<1> QED
  BY <1>1, EtwInvariance, PTL DEF Spec, NothingLost
=============================================================================
