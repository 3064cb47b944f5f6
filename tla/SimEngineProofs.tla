-------------------------- MODULE SimEngineProofs --------------------------
(***************************************************************************)
(* Proofs about SimEngine: the list of events stays ordered, and when the  *)
(* limits leave room for the clock's lag, each job has the one active      *)
(* structure and the one event that its state calls for.                   *)
(***************************************************************************)
EXTENDS SimEngine, SumsProofs

LEMMA Constants ==
  /\ IsFiniteSet(Job) /\ NoJob \notin Job
  /\ \A j \in Job : Arrival[j] \in Nat /\ Wall[j] \in Nat /\ Limit[j] \in Nat
  /\ Year \in Nat /\ Rejected \subseteq Job
  /\ CompDelay \in Nat /\ LimitDelay \in Nat /\ Grace \in Nat
  /\ Quantum \in Nat \ {0} /\ Period \in Nat \ {0}
  /\ Lag \in Nat /\ StartDelay \in Nat /\ BackfillTime \in Nat /\ MaxTime \in Nat
BY EngineAssumption

-----------------------------------------------------------------------------
(* The list *)

InOrder(q) == \A i, k \in DOMAIN q : i < k => q[i].when <= q[k].when
Listed(q) == {q[i] : i \in DOMAIN q}

\* Numbers that come with all smaller ones are counted by the greatest.
LEMMA Initial ==
  ASSUME NEW n \in Nat, NEW S \in SUBSET (1..n), \A i \in S : \A k \in 1..i : k \in S
  PROVE  Cardinality(S) \in 0..n /\ S = 1..Cardinality(S)
<1>1. CASE S = {}
  <2>1. Cardinality(S) = 0  BY <1>1, FS_EmptySet
  <2>. QED  BY <1>1, <2>1
<1>2. CASE S # {}
  <2>. DEFINE T == {m \in 0..n : n - m \in S}
  <2>1. PICK i \in S : TRUE  BY <1>2
  <2>2. n - i \in 0..n /\ n - (n - i) = i  OBVIOUS
  <2>3. n - i \in T /\ T \in SUBSET Nat
    <3>1. \A m \in T : m \in Nat  OBVIOUS
    <3>2. n - i \in T  BY <2>2
    <3>. HIDE DEF T
    <3>. QED  BY <3>1, <3>2
  <2>5. PICK m \in T : \A l \in T : m <= l
    <3>. HIDE DEF T
    <3>. QED  BY <2>3, LeastNatural
  <2>6. \A l \in T : ~(l < m)
    <3>. HIDE DEF T
    <3>1. \A l \in T : l \in Nat /\ m \in Nat  BY <2>3
    <3>. QED  BY <2>5, <3>1
  <2>7. n - m \in S /\ m \in 0..n  OBVIOUS
  <2>8. \A k \in S : k <= n - m
    <3>1. SUFFICES ASSUME NEW k \in S PROVE k <= n - m  OBVIOUS
    <3>2. n - k \in 0..n /\ n - (n - k) = k  OBVIOUS
    <3>3. n - k \in T  BY <3>2
    <3>4. ~(n - k < m)  BY <2>6, <3>3
    <3>. QED  BY <2>7, <3>4
  <2>. HIDE DEF T
  <2>9. S = 1..(n - m)
    <3>1. \A k \in S : k \in 1..(n - m)  BY <2>7, <2>8
    <3>2. \A k \in 1..(n - m) : k \in S  BY <2>7
    <3>. QED  BY <3>1, <3>2
  <2>10. n - m \in 1..n  BY <2>7
  <2>11. Cardinality(1..(n - m)) = n - m
    <3>1. 1 \in Int /\ n - m \in Int  BY <2>10
    <3>2. Cardinality(1..(n - m)) = IF 1 > n - m THEN 0 ELSE n - m - 1 + 1  BY <3>1, FS_Interval
    <3>. QED  BY <2>10, <3>2
  <2>. QED  BY <2>9, <2>10, <2>11
<1>. QED  BY <1>1, <1>2

\* Where sim_insert_event2 puts an event: behind those due no later, before the rest.
LEMMA InsertAt ==
  ASSUME NEW q \in Seq(Event), InOrder(q), NEW e \in Event
  PROVE  \E n \in 0..Len(q) :
           /\ InsertEvent(q, e) = [i \in 1..(Len(q) + 1) |-> IF i <= n THEN q[i] ELSE IF i = n + 1 THEN e ELSE q[i - 1]]
           /\ \A i \in DOMAIN q : IF i <= n THEN q[i].when <= e.when ELSE e.when < q[i].when
<1>. DEFINE S == {i \in DOMAIN q : \A k \in 1..i : q[k].when <= e.when}
            n == Cardinality(S)
<1>1. DOMAIN q = 1..Len(q) /\ Len(q) \in Nat  OBVIOUS
<1>2. \A i \in DOMAIN q : q[i].when \in Nat  BY DEF Event
<1>3. e.when \in Nat  BY DEF Event
<1>4. S \in SUBSET (1..Len(q)) /\ \A i \in S : \A k \in 1..i : k \in S
  <2>1. SUFFICES ASSUME NEW i \in S, NEW k \in 1..i PROVE k \in S  BY <1>1
  <2>2. k \in DOMAIN q /\ \A l \in 1..k : l \in 1..i  BY <1>1
  <2>. QED  BY <2>2
<1>. HIDE DEF S
<1>5. n \in 0..Len(q) /\ S = 1..n  BY <1>1, <1>4, Initial
<1>. HIDE DEF n
<1>6. \A i \in DOMAIN q : i <= n => q[i].when <= e.when
  <2>1. SUFFICES ASSUME NEW i \in DOMAIN q, i <= n PROVE q[i].when <= e.when  OBVIOUS
  <2>2. i \in S /\ i \in 1..i  BY <1>1, <1>5, <2>1
  <2>. QED  BY <2>2 DEF S
<1>7. \A i \in DOMAIN q : ~(i <= n) => e.when < q[i].when
  <2>1. SUFFICES ASSUME NEW i \in DOMAIN q, ~(i <= n) PROVE e.when < q[i].when  OBVIOUS
  <2>2. i \notin S  BY <1>1, <1>5, <2>1
  <2>3. PICK k \in 1..i : ~(q[k].when <= e.when)  BY <2>2 DEF S
  <2>4. k \in DOMAIN q  BY <1>1
  <2>5. q[k].when <= q[i].when
    <3>1. CASE k = i  BY <1>2, <3>1
    <3>2. CASE k # i
      <4>1. k < i  BY <1>1, <3>2
      <4>. QED  BY <2>4, <4>1 DEF InOrder
    <3>. QED  BY <3>1, <3>2
  <2>. QED  BY <1>2, <1>3, <2>3, <2>4, <2>5
<1>8. InsertEvent(q, e) = [i \in 1..(Len(q) + 1) |-> IF i <= n THEN q[i] ELSE IF i = n + 1 THEN e ELSE q[i - 1]]
  BY DEF InsertEvent, n, S
<1>. QED  BY <1>5, <1>6, <1>7, <1>8

LEMMA InsertKeeps ==
  ASSUME NEW q \in Seq(Event), InOrder(q), NEW e \in Event
  PROVE  /\ InsertEvent(q, e) \in Seq(Event) /\ InOrder(InsertEvent(q, e))
         /\ Listed(InsertEvent(q, e)) = Listed(q) \union {e}
<1>1. PICK n \in 0..Len(q) :
        /\ InsertEvent(q, e) = [i \in 1..(Len(q) + 1) |-> IF i <= n THEN q[i] ELSE IF i = n + 1 THEN e ELSE q[i - 1]]
        /\ \A i \in DOMAIN q : IF i <= n THEN q[i].when <= e.when ELSE e.when < q[i].when
  BY InsertAt
<1>. DEFINE L == Len(q)
            p == InsertEvent(q, e)
<1>2. /\ L \in Nat /\ DOMAIN q = 1..L /\ n \in 0..L
      /\ \A i \in 1..L : q[i] \in Event /\ q[i].when \in Nat
      /\ e.when \in Nat
  BY DEF Event
<1>. HIDE DEF p
<1>3. /\ DOMAIN p = 1..(L + 1)
      /\ \A i \in 1..n : p[i] = q[i]
      /\ p[n + 1] = e
      /\ \A i \in (n + 2)..(L + 1) : p[i] = q[i - 1]
  BY <1>1, <1>2 DEF p
<1>4. \A i \in 1..(L + 1) : i \in 1..n \/ i = n + 1 \/ (i \in (n + 2)..(L + 1) /\ i - 1 \in (n + 1)..L)
  BY <1>2
<1>5. p \in Seq(Event)
  <2>1. \A i \in 1..(L + 1) : p[i] \in Event
    BY <1>2, <1>3, <1>4
  <2>2. p = [i \in 1..(L + 1) |-> p[i]]  BY <1>1, <1>3 DEF p
  <2>3. L + 1 \in Nat  BY <1>2
  <2>. QED  BY <2>1, <2>2, <2>3
<1>6. InOrder(p)
  <2>1. SUFFICES ASSUME NEW i \in 1..(L + 1), NEW k \in 1..(L + 1), i < k PROVE p[i].when <= p[k].when
    BY <1>3 DEF InOrder
  <2>2. \A x, y \in 1..L : x < y => q[x].when <= q[y].when  BY <1>2 DEF InOrder
  <2>3. \A x \in 1..L : (x <= n => q[x].when <= e.when) /\ (x > n => e.when <= q[x].when)
    <3>1. SUFFICES ASSUME NEW x \in 1..L
                   PROVE  (x <= n => q[x].when <= e.when) /\ (x > n => e.when <= q[x].when)
      OBVIOUS
    <3>2. IF x <= n THEN q[x].when <= e.when ELSE e.when < q[x].when  BY <1>1, <1>2
    <3>3. q[x].when \in Nat /\ e.when \in Nat /\ x \in Nat /\ n \in Nat  BY <1>2
    <3>. HIDE DEF L
    <3>. QED  BY <3>2, <3>3
  <2>4. CASE i \in 1..n /\ k \in 1..n  BY <1>2, <1>3, <2>1, <2>2, <2>4
  <2>5. CASE i \in 1..n /\ k = n + 1  BY <1>2, <1>3, <2>3, <2>5
  <2>6. CASE i \in 1..n /\ k \in (n + 2)..(L + 1)
    <3>1. p[i] = q[i] /\ p[k] = q[k - 1] /\ i \in 1..L /\ k - 1 \in 1..L /\ i < k - 1
      BY <1>2, <1>3, <2>6
    <3>. QED  BY <2>2, <3>1
  <2>7. CASE i = n + 1 /\ k \in (n + 2)..(L + 1)
    <3>1. p[i] = e /\ p[k] = q[k - 1] /\ k - 1 \in 1..L /\ k - 1 > n
      BY <1>2, <1>3, <2>7
    <3>. QED  BY <2>3, <3>1
  <2>8. CASE i \in (n + 2)..(L + 1) /\ k \in (n + 2)..(L + 1)
    <3>1. p[i] = q[i - 1] /\ p[k] = q[k - 1] /\ i - 1 \in 1..L /\ k - 1 \in 1..L /\ i - 1 < k - 1
      BY <1>2, <1>3, <2>1, <2>8
    <3>. QED  BY <2>2, <3>1
  <2>. QED  BY <1>2, <1>4, <2>1, <2>4, <2>5, <2>6, <2>7, <2>8
<1>7. Listed(p) = Listed(q) \union {e}
  <2>1. \A i \in 1..(L + 1) : p[i] = e \/ \E k \in 1..L : p[i] = q[k]
    <3>1. SUFFICES ASSUME NEW i \in 1..(L + 1) PROVE p[i] = e \/ \E k \in 1..L : p[i] = q[k]  OBVIOUS
    <3>2. CASE i \in 1..n  BY <1>2, <1>3, <3>2
    <3>3. CASE i = n + 1  BY <1>3, <3>3
    <3>4. CASE i \in (n + 2)..(L + 1) /\ i - 1 \in (n + 1)..L
      <4>1. p[i] = q[i - 1] /\ i - 1 \in 1..L  BY <1>2, <1>3, <3>4
      <4>. QED  BY <4>1
    <3>. QED  BY <1>4, <3>2, <3>3, <3>4
  <2>2. \A k \in 1..L : \E i \in 1..(L + 1) : p[i] = q[k]
    <3>1. SUFFICES ASSUME NEW k \in 1..L PROVE \E i \in 1..(L + 1) : p[i] = q[k]  OBVIOUS
    <3>2. CASE k <= n
      <4>1. k \in 1..n /\ k \in 1..(L + 1)  BY <1>2, <3>2
      <4>. QED  BY <1>3, <4>1
    <3>3. CASE k > n
      <4>1. k + 1 \in (n + 2)..(L + 1) /\ k + 1 \in 1..(L + 1) /\ (k + 1) - 1 = k  BY <1>2, <3>3
      <4>2. p[k + 1] = q[(k + 1) - 1]  BY <1>3, <4>1
      <4>. QED  BY <4>1, <4>2
    <3>. QED  BY <1>2, <3>2, <3>3
  <2>3. n + 1 \in 1..(L + 1)  BY <1>2
  <2>. HIDE DEF L
  <2>4. \A x : x \in Listed(p) <=> \E i \in 1..(L + 1) : x = p[i]  BY <1>3 DEF Listed
  <2>5. \A x : x \in Listed(q) <=> \E k \in 1..L : x = q[k]  BY <1>2 DEF Listed
  <2>. QED  BY <1>3, <2>1, <2>2, <2>3, <2>4, <2>5
<1>. QED  BY <1>5, <1>6, <1>7 DEF p

LEMMA TailKeeps ==
  ASSUME NEW q \in Seq(Event), InOrder(q), q # << >>
  PROVE  /\ Tail(q) \in Seq(Event) /\ InOrder(Tail(q))
         /\ Listed(q) = Listed(Tail(q)) \union {Head(q)}
         /\ Head(q) \in Event /\ \A e \in Listed(q) : Head(q).when <= e.when
<1>. DEFINE L == Len(q)
            t == Tail(q)
<1>1. /\ L \in Nat /\ L > 0 /\ DOMAIN q = 1..L /\ Head(q) = q[1]
      /\ \A i \in 1..L : q[i] \in Event /\ q[i].when \in Nat
  BY DEF Event
<1>2. t \in Seq(Event) /\ DOMAIN t = 1..(L - 1) /\ \A i \in 1..(L - 1) : t[i] = q[i + 1]
  BY <1>1
<1>. HIDE DEF t, L
<1>3. \A x, y \in 1..L : x < y => q[x].when <= q[y].when  BY <1>1 DEF InOrder
<1>4. InOrder(t)
  <2>1. SUFFICES ASSUME NEW i \in 1..(L - 1), NEW k \in 1..(L - 1), i < k PROVE t[i].when <= t[k].when
    BY <1>2 DEF InOrder
  <2>2. i + 1 \in 1..L /\ k + 1 \in 1..L /\ i + 1 < k + 1  BY <1>1, <2>1
  <2>. QED  BY <1>2, <1>3, <2>2
<1>5. Listed(q) = Listed(t) \union {Head(q)}
  <2>1. \A i \in 1..L : i = 1 \/ i - 1 \in 1..(L - 1)  BY <1>1
  <2>2. \A i \in 1..L : q[i] = Head(q) \/ \E k \in 1..(L - 1) : q[i] = t[k]
    <3>1. SUFFICES ASSUME NEW i \in 1..L, i # 1 PROVE \E k \in 1..(L - 1) : q[i] = t[k]  BY <1>1
    <3>2. i - 1 \in 1..(L - 1) /\ (i - 1) + 1 = i  BY <1>1, <2>1, <3>1
    <3>3. t[i - 1] = q[(i - 1) + 1]  BY <1>2, <3>2
    <3>. QED  BY <3>2, <3>3
  <2>3. \A k \in 1..(L - 1) : k + 1 \in 1..L  BY <1>1
  <2>4. 1 \in 1..L  BY <1>1
  <2>5. \A x : x \in Listed(q) <=> \E i \in 1..L : x = q[i]  BY <1>1 DEF Listed
  <2>6. \A x : x \in Listed(t) <=> \E k \in 1..(L - 1) : x = t[k]  BY <1>2 DEF Listed
  <2>7. \A x : x \in Listed(t) => x \in Listed(q)  BY <1>2, <2>3, <2>5, <2>6
  <2>8. \A x : x \in Listed(q) => x \in Listed(t) \/ x = Head(q)  BY <2>2, <2>5, <2>6
  <2>9. Head(q) \in Listed(q)  BY <1>1, <2>4, <2>5
  <2>. QED  BY <2>7, <2>8, <2>9
<1>6. \A e \in Listed(q) : Head(q).when <= e.when
  <2>1. SUFFICES ASSUME NEW i \in 1..L PROVE q[1].when <= q[i].when  BY <1>1 DEF Listed
  <2>2. 1 \in 1..L  BY <1>1
  <2>. QED  BY <1>1, <1>3, <2>2
<1>. QED  BY <1>1, <1>2, <1>4, <1>5, <1>6 DEF t

\* Two events of the same job's submission, or with the same pointer.
SameKey(e, f) == (e.type = "submit" <=> f.type = "submit") /\ e.what = f.what
Distinct(q) == \A i, k \in DOMAIN q : SameKey(q[i], q[k]) => i = k

LEMMA InsertDistinct ==
  ASSUME NEW q \in Seq(Event), InOrder(q), Distinct(q), NEW e \in Event,
         \A f \in Listed(q) : ~SameKey(e, f)
  PROVE  Distinct(InsertEvent(q, e))
<1>1. PICK n \in 0..Len(q) :
        InsertEvent(q, e) = [i \in 1..(Len(q) + 1) |-> IF i <= n THEN q[i] ELSE IF i = n + 1 THEN e ELSE q[i - 1]]
  BY InsertAt
<1>. DEFINE L == Len(q)
            p == InsertEvent(q, e)
            Old(i) == IF i <= n THEN i ELSE i - 1
<1>2. L \in Nat /\ DOMAIN q = 1..L /\ n \in 0..L /\ DOMAIN p = 1..(L + 1)  BY <1>1
<1>3. \A i \in 1..(L + 1) : IF i = n + 1 THEN p[i] = e ELSE p[i] = q[Old(i)] /\ Old(i) \in 1..L
  BY <1>1, <1>2
<1>4. \A i \in 1..L : ~SameKey(e, q[i]) /\ ~SameKey(q[i], e)
  <2>1. \A i \in 1..L : q[i] \in Listed(q)  BY <1>2 DEF Listed
  <2>. QED  BY <2>1 DEF SameKey
<1>5. \A i, k \in 1..(L + 1) : i # n + 1 /\ k # n + 1 /\ Old(i) = Old(k) => i = k
  BY <1>2
<1>. HIDE DEF p, L, Old
<1>6. ASSUME NEW i \in 1..(L + 1), NEW k \in 1..(L + 1), SameKey(p[i], p[k])
      PROVE  i = k
  <2>1. CASE i = n + 1 /\ k = n + 1  BY <2>1
  <2>2. CASE i = n + 1 /\ k # n + 1  BY <1>3, <1>4, <1>6, <2>2
  <2>3. CASE i # n + 1 /\ k = n + 1  BY <1>3, <1>4, <1>6, <2>3
  <2>4. CASE i # n + 1 /\ k # n + 1
    <3>1. /\ Old(i) \in DOMAIN q /\ Old(k) \in DOMAIN q
          /\ SameKey(q[Old(i)], q[Old(k)])
      BY <1>2, <1>3, <1>6, <2>4
    <3>. QED  BY <1>5, <2>4, <3>1 DEF Distinct
  <2>. QED  BY <2>1, <2>2, <2>3, <2>4
<1>. QED  BY <1>2, <1>6 DEF Distinct, p

LEMMA TailDistinct ==
  ASSUME NEW q \in Seq(Event), InOrder(q), Distinct(q), q # << >>
  PROVE  Distinct(Tail(q)) /\ \A f \in Listed(Tail(q)) : ~SameKey(f, Head(q))
<1>. DEFINE L == Len(q)
            t == Tail(q)
<1>1. L \in Nat /\ L > 0 /\ DOMAIN q = 1..L /\ Head(q) = q[1]  OBVIOUS
<1>2. DOMAIN t = 1..(L - 1) /\ \A i \in 1..(L - 1) : t[i] = q[i + 1]  BY <1>1
<1>. HIDE DEF t, L
<1>3. Distinct(t)
  <2>1. SUFFICES ASSUME NEW i \in 1..(L - 1), NEW k \in 1..(L - 1), SameKey(t[i], t[k]) PROVE i = k
    BY <1>2 DEF Distinct
  <2>2. i + 1 \in 1..L /\ k + 1 \in 1..L  BY <1>1
  <2>3. i + 1 = k + 1  BY <1>1, <1>2, <2>1, <2>2 DEF Distinct
  <2>. QED  BY <2>3
<1>4. \A f \in Listed(t) : ~SameKey(f, Head(q))
  <2>1. SUFFICES ASSUME NEW i \in 1..(L - 1), SameKey(t[i], Head(q)) PROVE FALSE
    BY <1>2 DEF Listed
  <2>2. i + 1 \in 1..L /\ 1 \in 1..L /\ i + 1 # 1  BY <1>1
  <2>. QED  BY <1>1, <1>2, <2>1, <2>2 DEF Distinct
<1>. QED  BY <1>3, <1>4 DEF t

-----------------------------------------------------------------------------
(* Type correctness, and the order of the list *)

ListInv == TypeOK /\ Ordered

LEMMA OrderedIs == Ordered <=> InOrder(events)
BY DEF Ordered, InOrder

\* the event that is due
LEMMA DueIs ==
  ASSUME ListInv, NEW type, Due(type)
  PROVE  /\ pc = "events" /\ events # << >> /\ events \in Seq(Event) /\ InOrder(events)
         /\ Head(events) \in Event /\ Head(events).type = type /\ Head(events).when \in Nat /\ Head(events).when <= now
         /\ type = "submit" => Head(events).what \in Job
         /\ type \in {"complete", "epilog"} => Head(events).what \in Addr
         /\ Tail(events) \in Seq(Event) /\ InOrder(Tail(events))
<1>1. pc = "events" /\ events # << >> /\ events \in Seq(Event) /\ InOrder(events)
  BY OrderedIs DEF ListInv, TypeOK, Due
<1>2. Head(events) \in Event /\ Tail(events) \in Seq(Event) /\ InOrder(Tail(events))
  BY <1>1, TailKeeps
<1>3. Head(events).type = type /\ Head(events).when <= now  BY DEF Due
<1>. QED  BY <1>1, <1>2, <1>3 DEF Event

\* what the steps do to the structures keeps their type
LEMMA CellType ==
  ASSUME TypeOK, NEW a \in Addr
  PROVE  /\ heap[a] \in Cell /\ heap[a].used \in BOOLEAN /\ heap[a].id \in Job \union {NoJob}
         /\ heap[a].job \in Job \union {NoJob} /\ heap[a].start \in Nat
         /\ heap[a].comp \in BOOLEAN /\ heap[a].kill \in BOOLEAN
BY DEF TypeOK, Cell

LEMMA HeapTypes ==
  ASSUME TypeOK
  PROVE  /\ \A id : Removed(id) \in [Addr -> Cell] /\ MarkedComp(id) \in [Addr -> Cell]
         /\ \A j : [a \in Addr |-> IF a \in Find(j) THEN [heap[a] EXCEPT !.start = now] ELSE heap[a]] \in [Addr -> Cell]
         /\ \A j : [a \in Addr |-> IF a \in Find(j) THEN [heap[a] EXCEPT !.kill = TRUE] ELSE heap[a]] \in [Addr -> Cell]
<1>1. \A a \in Addr : /\ heap[a] \in Cell
                      /\ [heap[a] EXCEPT !.used = FALSE] \in Cell /\ [heap[a] EXCEPT !.comp = TRUE] \in Cell
                      /\ [heap[a] EXCEPT !.start = now] \in Cell /\ [heap[a] EXCEPT !.kill = TRUE] \in Cell
  <2>1. \A c \in Cell : [c EXCEPT !.used = FALSE] \in Cell  BY DEF Cell
  <2>2. \A c \in Cell : [c EXCEPT !.comp = TRUE] \in Cell  BY DEF Cell
  <2>3. \A c \in Cell : [c EXCEPT !.kill = TRUE] \in Cell  BY DEF Cell
  <2>4. \A c \in Cell, n \in Nat : [c EXCEPT !.start = n] \in Cell  BY DEF Cell
  <2>5. now \in Nat /\ \A a \in Addr : heap[a] \in Cell  BY DEF TypeOK
  <2>. QED  BY <2>1, <2>2, <2>3, <2>4, <2>5
<1>2. \A id : Removed(id) \in [Addr -> Cell]  BY <1>1 DEF Removed
<1>3. \A id : MarkedComp(id) \in [Addr -> Cell]  BY <1>1 DEF MarkedComp
<1>. QED  BY <1>1, <1>2, <1>3

\* an event that is inserted
LEMMA InsertList ==
  ASSUME ListInv, NEW q \in Seq(Event), InOrder(q),
         NEW when \in Nat, NEW type \in {"complete", "epilog"}, NEW a \in Addr
  PROVE  LET e == [when |-> when, type |-> type, what |-> a] IN
         /\ e \in Event /\ e.when = when /\ e.type = type /\ e.what = a
         /\ InsertEvent(q, e) \in Seq(Event) /\ InOrder(InsertEvent(q, e))
         /\ Listed(InsertEvent(q, e)) = Listed(q) \union {e}
<1>. DEFINE e == [when |-> when, type |-> type, what |-> a]
<1>1. e \in Event  BY DEF Event
<1>2. e.when = when /\ e.type = type /\ e.what = a  OBVIOUS
<1>. HIDE DEF e
<1>3. /\ InsertEvent(q, e) \in Seq(Event) /\ InOrder(InsertEvent(q, e))
      /\ Listed(InsertEvent(q, e)) = Listed(q) \union {e}
  BY <1>1, InsertKeeps
<1>. QED  BY <1>1, <1>2, <1>3 DEF e

LEMMA TraceIs ==
  ASSUME NEW q \in Traces
  PROVE  /\ q \in Seq(Event) /\ InOrder(q) /\ Distinct(q)
         /\ \A e \in Listed(q) : e.type = "submit"
         /\ \A j \in Job : \E e \in Listed(q) : e.type = "submit" /\ e.what = j
<1>. DEFINE n == Cardinality(Job)
<1>1. n \in Nat  BY Constants, FS_CardinalityType
<1>2. PICK o \in [1..n -> Job] :
        /\ \A j \in Job : \E i \in DOMAIN o : o[i] = j
        /\ \A i, k \in DOMAIN o : i < k => Arrival[o[i]] <= Arrival[o[k]]
        /\ q = [i \in DOMAIN o |-> [when |-> Arrival[o[i]], type |-> "submit", what |-> o[i]]]
  BY DEF Traces
<1>3. o \in Injection(1..n, Job)
  <2>1. o \in Surjection(1..n, Job)  BY <1>2 DEF Surjection
  <2>2. IsFiniteSet(1..n) /\ Cardinality(1..n) = n
    <3>1. 1 \in Int /\ n \in Int  BY <1>1
    <3>2. IsFiniteSet(1..n) /\ Cardinality(1..n) = IF 1 > n THEN 0 ELSE n - 1 + 1  BY <3>1, FS_Interval
    <3>. QED  BY <1>1, <3>2
  <2>. QED  BY <2>1, <2>2, FS_SurjSameCardinalityImpliesInj
<1>. HIDE DEF n
<1>4. /\ DOMAIN q = 1..n
      /\ \A i \in 1..n : /\ q[i] \in Event /\ q[i].when = Arrival[o[i]] /\ q[i].type = "submit" /\ q[i].what = o[i]
                         /\ o[i] \in Job
  <2>1. \A i \in 1..n : o[i] \in Job /\ Arrival[o[i]] \in Nat  BY <1>2, Constants
  <2>. QED  BY <1>2, <2>1 DEF Event
<1>5. q \in Seq(Event)
  <2>1. q = [i \in 1..n |-> q[i]]  BY <1>2, <1>4
  <2>. QED  BY <1>1, <1>4, <2>1
<1>6. InOrder(q)  BY <1>2, <1>4 DEF InOrder
<1>7. Distinct(q)
  <2>1. SUFFICES ASSUME NEW i \in 1..n, NEW k \in 1..n, q[i].what = q[k].what PROVE i = k
    BY <1>4 DEF Distinct, SameKey
  <2>2. o[i] = o[k]  BY <1>4, <2>1
  <2>. QED  BY <1>2, <1>3, <2>2 DEF Injection, IsInjective
<1>8. \A e \in Listed(q) : e.type = "submit"  BY <1>4 DEF Listed
<1>9. \A j \in Job : \E e \in Listed(q) : e.type = "submit" /\ e.what = j
  <2>1. SUFFICES ASSUME NEW j \in Job PROVE \E e \in Listed(q) : e.type = "submit" /\ e.what = j  OBVIOUS
  <2>2. PICK i \in 1..n : o[i] = j  BY <1>2
  <2>3. q[i] \in Listed(q) /\ q[i].type = "submit" /\ q[i].what = j  BY <1>4, <2>2 DEF Listed
  <2>. QED  BY <2>3
<1>. QED  BY <1>5, <1>6, <1>7, <1>8, <1>9

LEMMA InitList == Init => ListInv
<1>. SUFFICES ASSUME Init PROVE ListInv  OBVIOUS
<1>1. events \in Seq(Event) /\ InOrder(events)  BY TraceIs DEF Init
<1>2. heap \in [Addr -> Cell]  BY DEF Init, Cell, Free
<1>3. /\ pc \in {"events", "sched", "exit", "skip", "loop", "background", "done"} /\ depth \in {1, 2}
      /\ now \in Nat /\ swept \in Nat /\ sleepTill \in Nat /\ lastCheck \in Nat /\ allDone \in Nat
  BY Constants DEF Init
<1>4. slurm \in [Job -> SlurmState] /\ startAt \in [Job -> Nat] /\ endAt \in [Job -> Nat] /\ timedOut \subseteq Job
  BY DEF Init, SlurmState
<1>. QED  BY <1>1, <1>2, <1>3, <1>4, OrderedIs DEF ListInv, TypeOK

\* the handlers write a well-typed list, structures and records
JobsTyped ==
  /\ events' \in Seq(Event) /\ InOrder(events')
  /\ heap' \in [Addr -> Cell] /\ slurm' \in [Job -> SlurmState]
  /\ startAt' \in [Job -> Nat] /\ endAt' \in [Job -> Nat] /\ timedOut' \subseteq Job

LEMMA JobsKeep ==
  ASSUME ListInv, JobsTyped, UNCHANGED <<loop, now, swept>>
  PROVE  ListInv'
<1>1. TypeOK'  BY DEF ListInv, TypeOK, JobsTyped, loop
<1>2. Ordered'  BY DEF JobsTyped, Ordered, InOrder
<1>. QED  BY <1>1, <1>2 DEF ListInv

LEMMA FoundIn == ASSUME NEW j, Find(j) # {} PROVE (CHOOSE a \in Find(j) : TRUE) \in Find(j) /\ Find(j) \subseteq Addr
BY DEF Find

LEMMA SubmitList ==
  ASSUME ListInv, SubmitJob
  PROVE  JobsTyped
<1>1. Due("submit")  BY DEF SubmitJob
<1>. DEFINE j == Head(events).what
<1>2. j \in Job /\ Tail(events) \in Seq(Event) /\ InOrder(Tail(events))  BY <1>1, DueIs
<1>. HIDE DEF j
<1>3. PICK a \in Addr :
        /\ heap' = [heap EXCEPT ![a] = [used |-> TRUE, job |-> j, id |-> IF j \in Rejected THEN NoJob ELSE j,
                                        start |-> 0, comp |-> FALSE, kill |-> FALSE]]
        /\ slurm' = IF j \in Rejected THEN slurm ELSE [slurm EXCEPT ![j] = "pending"]
  BY DEF SubmitJob, j
<1>4. heap' \in [Addr -> Cell]
  <2>1. [used |-> TRUE, job |-> j, id |-> IF j \in Rejected THEN NoJob ELSE j,
         start |-> 0, comp |-> FALSE, kill |-> FALSE] \in Cell
    BY <1>2 DEF Cell
  <2>. QED  BY <1>3, <2>1 DEF ListInv, TypeOK
<1>5. slurm' \in [Job -> SlurmState]  BY <1>2, <1>3 DEF ListInv, TypeOK, SlurmState
<1>. QED  BY <1>2, <1>4, <1>5 DEF SubmitJob, JobsTyped, ListInv, TypeOK

\* the handlers of the completion and the epilog, for the id they read
LEMMA HandlersList ==
  ASSUME ListInv, NEW type \in {"complete", "epilog"}, Due(type), NEW id \in ReadId(Head(events).what),
         \/ Known(id) /\ CompleteRunning(id)
         \/ Known(id) /\ FinishEpilog(id)
         \/ DropActive(id),
         UNCHANGED <<startAt, timedOut>>
  PROVE  JobsTyped
<1>1. Tail(events) \in Seq(Event) /\ InOrder(Tail(events))  BY DueIs
<1>2. /\ heap \in [Addr -> Cell] /\ slurm \in [Job -> SlurmState] /\ startAt \in [Job -> Nat]
      /\ endAt \in [Job -> Nat] /\ timedOut \subseteq Job /\ now \in Nat
  BY DEF ListInv, TypeOK
<1>3. Known(id) => id \in Job
  <2>1. Head(events).what \in Addr  BY DueIs
  <2>. QED  BY <2>1, CellType DEF ListInv, ReadId, Known
<1>4. Removed(id) \in [Addr -> Cell] /\ MarkedComp(id) \in [Addr -> Cell]  BY HeapTypes DEF ListInv
<1>5. CASE DropActive(id)  BY <1>1, <1>2, <1>4, <1>5 DEF DropActive, JobsTyped
<1>6. CASE Known(id) /\ FinishEpilog(id)
  <2>1. slurm' \in [Job -> SlurmState]  BY <1>2, <1>3, <1>6 DEF FinishEpilog, SlurmState
  <2>. QED  BY <1>1, <1>2, <1>4, <1>6, <2>1 DEF FinishEpilog, JobsTyped
<1>7. CASE Known(id) /\ CompleteRunning(id)
  <2>1. endAt' \in [Job -> Nat] /\ slurm' \in [Job -> SlurmState] /\ heap' \in [Addr -> Cell]
    BY <1>2, <1>3, <1>4, <1>7 DEF CompleteRunning, SlurmState
  <2>2. events' = Tail(events) \/ events' = WithEpilog(Tail(events), id)
    BY <1>7 DEF CompleteRunning, AfterTerminate
  <2>3. WithEpilog(Tail(events), id) \in Seq(Event) /\ InOrder(WithEpilog(Tail(events), id))
    <3>1. CASE \E a \in Find(id) : ~heap[a].comp
      <4>. DEFINE a == CHOOSE b \in Find(id) : TRUE
      <4>1. a \in Addr  BY <3>1, FoundIn
      <4>2. WithEpilog(Tail(events), id) = InsertEvent(Tail(events), [when |-> now + CompDelay, type |-> "epilog", what |-> a])
        BY <3>1 DEF WithEpilog
      <4>3. now + CompDelay \in Nat  BY <1>2, Constants
      <4>. DEFINE q == Tail(events)
                  w == now + CompDelay
      <4>4. q \in Seq(Event) /\ InOrder(q) /\ w \in Nat  BY <1>1, <4>3
      <4>. HIDE DEF a, q, w
      <4>5. LET e == [when |-> w, type |-> "epilog", what |-> a]
            IN  InsertEvent(q, e) \in Seq(Event) /\ InOrder(InsertEvent(q, e))
        BY <4>1, <4>4, InsertList
      <4>. QED  BY <4>2, <4>5 DEF q, w
    <3>2. CASE ~(\E a \in Find(id) : ~heap[a].comp)  BY <1>1, <3>2 DEF WithEpilog
    <3>. QED  BY <3>1, <3>2
  <2>. QED  BY <1>1, <1>2, <2>1, <2>2, <2>3 DEF JobsTyped
<1>. QED  BY <1>5, <1>6, <1>7

LEMMA StartList ==
  ASSUME ListInv, NEW j \in Job, StartJob(j)
  PROVE  JobsTyped
<1>1. /\ heap \in [Addr -> Cell] /\ slurm \in [Job -> SlurmState] /\ startAt \in [Job -> Nat]
      /\ endAt \in [Job -> Nat] /\ timedOut \subseteq Job /\ now \in Nat
      /\ events \in Seq(Event) /\ InOrder(events)
  BY OrderedIs DEF ListInv, TypeOK
<1>2. heap' \in [Addr -> Cell]  BY HeapTypes DEF ListInv, StartJob
<1>3. slurm' \in [Job -> SlurmState] /\ startAt' \in [Job -> Nat]  BY <1>1 DEF StartJob, SlurmState
<1>4. AfterLaunch(j) \in Seq(Event) /\ InOrder(AfterLaunch(j))
  <2>1. CASE Find(j) # {} /\ Wall[j] < Year
    <3>. DEFINE a == CHOOSE b \in Find(j) : TRUE
    <3>1. a \in Addr  BY <2>1, FoundIn
    <3>2. AfterLaunch(j) = InsertEvent(events, [when |-> CompletionTime(j), type |-> "complete", what |-> a])
      BY <2>1 DEF AfterLaunch
    <3>3. CompletionTime(j) \in Nat  BY <1>1, Constants DEF CompletionTime
    <3>. HIDE DEF a
    <3>. QED  BY <1>1, <3>1, <3>2, <3>3, InsertList
  <2>2. CASE ~(Find(j) # {} /\ Wall[j] < Year)  BY <1>1, <2>2 DEF AfterLaunch
  <2>. QED  BY <2>1, <2>2
<1>. QED  BY <1>1, <1>2, <1>3, <1>4 DEF StartJob, JobsTyped

LEMMA TimeOutList ==
  ASSUME ListInv, NEW j \in Job, TimeOut(j)
  PROVE  JobsTyped
<1>1. /\ heap \in [Addr -> Cell] /\ slurm \in [Job -> SlurmState] /\ startAt \in [Job -> Nat]
      /\ endAt \in [Job -> Nat] /\ timedOut \subseteq Job /\ now \in Nat
      /\ events \in Seq(Event) /\ InOrder(events)
  BY OrderedIs DEF ListInv, TypeOK
<1>2. heap' \in [Addr -> Cell]  BY HeapTypes DEF ListInv, TimeOut
<1>3. slurm' \in [Job -> SlurmState] /\ endAt' \in [Job -> Nat] /\ timedOut' \subseteq Job
  BY <1>1 DEF TimeOut, SlurmState
<1>4. events' \in Seq(Event) /\ InOrder(events')
  <2>1. CASE \E a \in Find(j) : ~heap[a].kill
    <3>1. KillPayload(j) \in Addr  BY <2>1, FoundIn DEF KillPayload
    <3>2. events' = InsertEvent(events, [when |-> now + LimitDelay, type |-> "complete", what |-> KillPayload(j)])
      BY <2>1 DEF TimeOut
    <3>3. now + LimitDelay \in Nat  BY <1>1, Constants
    <3>. QED  BY <1>1, <3>1, <3>2, <3>3, InsertList
  <2>2. CASE ~(\E a \in Find(j) : ~heap[a].kill)  BY <1>1, <2>2 DEF TimeOut
  <2>. QED  BY <2>1, <2>2
<1>. QED  BY <1>1, <1>2, <1>3, <1>4 DEF TimeOut, JobsTyped

LEMMA LoopList ==
  ASSUME ListInv,
         \/ EventsDone \/ EnterMiniLoop \/ SchedDone \/ CheckExit \/ SkipTime \/ NoSkip
         \/ LoopEnd \/ BackgroundDone \/ Elapse \/ UNCHANGED vars
  PROVE  ListInv'
<1>1. /\ pc \in {"events", "sched", "exit", "skip", "loop", "background", "done"} /\ depth \in {1, 2}
      /\ now \in Nat /\ swept \in Nat /\ sleepTill \in Nat /\ lastCheck \in Nat /\ allDone \in Nat
      /\ Grace \in Nat /\ Quantum \in Nat
  BY Constants DEF ListInv, TypeOK
<1>2. CASE BackgroundDone
  <2>1. slurm' \in [Job -> SlurmState]  BY <1>2 DEF BackgroundDone, ListInv, TypeOK, SlurmState
  <2>2. /\ pc' \in {"events", "sched"} /\ depth' \in {1, 2} /\ sleepTill' \in Nat /\ lastCheck' \in Nat
    BY <1>1, <1>2 DEF BackgroundDone
  <2>3. TypeOK'  BY <1>2, <2>1, <2>2 DEF BackgroundDone, ListInv, TypeOK
  <2>. QED  BY <1>2, <2>3 DEF BackgroundDone, ListInv, Ordered
<1>3. CASE ~BackgroundDone
  <2>1. UNCHANGED jobs
    BY <1>3 DEF EventsDone, EnterMiniLoop, SchedDone, CheckExit, SkipTime, NoSkip, LoopEnd, Elapse, vars
  <2>2. /\ pc' \in {"events", "sched", "exit", "skip", "loop", "background", "done"} /\ depth' \in {1, 2}
        /\ now' \in Nat /\ swept' \in Nat /\ sleepTill' \in Nat /\ lastCheck' \in Nat /\ allDone' \in Nat
    <3>1. CASE EventsDone  BY <1>1, <3>1 DEF EventsDone
    <3>2. CASE EnterMiniLoop \/ SchedDone \/ NoSkip  BY <1>1, <3>2 DEF EnterMiniLoop, SchedDone, NoSkip
    <3>3. CASE CheckExit  BY <1>1, <3>3 DEF CheckExit
    <3>4. CASE SkipTime
      <4>1. PICK t \in (now + 1)..SkipTarget : now' = t /\ swept' = IF t > swept THEN t ELSE swept
        BY <3>4 DEF SkipTime
      <4>2. t \in Int /\ t >= now + 1  OBVIOUS
      <4>. QED  BY <1>1, <3>4, <4>1, <4>2 DEF SkipTime
    <3>5. CASE LoopEnd  BY <1>1, <3>5 DEF LoopEnd
    <3>6. CASE Elapse  BY <1>1, <3>6 DEF Elapse, loop
    <3>7. CASE UNCHANGED vars  BY <1>1, <3>7 DEF vars, loop
    <3>. QED  BY <1>3, <3>1, <3>2, <3>3, <3>4, <3>5, <3>6, <3>7
  <2>. QED  BY <2>1, <2>2 DEF ListInv, TypeOK, Ordered, jobs
<1>. QED  BY <1>2, <1>3

LEMMA NextList ==
  ASSUME ListInv, [Next]_vars
  PROVE  ListInv'
<1>1. CASE SubmitJob  BY <1>1, SubmitList, JobsKeep DEF SubmitJob
<1>2. CASE CompleteJob
  <2>1. PICK id \in ReadId(Head(events).what) :
          \/ Known(id) /\ CompleteRunning(id)
          \/ Known(id) /\ FinishEpilog(id)
          \/ DropActive(id)
    BY <1>2 DEF CompleteJob
  <2>2. Due("complete") /\ UNCHANGED <<startAt, timedOut>> /\ UNCHANGED <<loop, now, swept>>
    BY <1>2 DEF CompleteJob
  <2>. QED  BY <2>1, <2>2, HandlersList, JobsKeep
<1>3. CASE EpilogComplete
  <2>1. PICK id \in ReadId(Head(events).what) :
          \/ Known(id) /\ CompleteRunning(id)
          \/ Known(id) /\ FinishEpilog(id)
          \/ DropActive(id)
    BY <1>3 DEF EpilogComplete
  <2>2. Due("epilog") /\ UNCHANGED <<startAt, timedOut>> /\ UNCHANGED <<loop, now, swept>>
    BY <1>3 DEF EpilogComplete
  <2>. QED  BY <2>1, <2>2, HandlersList, JobsKeep
<1>4. ASSUME NEW j \in Job, StartJob(j) PROVE ListInv'  BY <1>4, StartList, JobsKeep DEF StartJob
<1>5. ASSUME NEW j \in Job, TimeOut(j) PROVE ListInv'  BY <1>5, TimeOutList, JobsKeep DEF TimeOut
<1>. QED  BY <1>1, <1>2, <1>3, <1>4, <1>5, LoopList DEF Next, Thread, Exited

THEOREM ListInvariance == Spec => []ListInv
<1>1. Init => ListInv  BY InitList
<1>2. ListInv /\ [Next]_vars => ListInv'  BY NextList
<1>. QED  BY <1>1, <1>2, PTL DEF Spec

\* sim_insert_event2 and the handlers keep the list in order of time, whatever
\* the trace, the limits and the delays are.
THEOREM ListStaysOrdered == Spec => []Ordered
<1>1. ListInv => Ordered  BY DEF ListInv
<1>. QED  BY <1>1, ListInvariance, PTL

-----------------------------------------------------------------------------
(* The accounts of a job.  A limit leaves room for the walltime and the lag *)
(* of the clock, or the job is meant to run to its limit.                   *)

Headroom ==
  \A j \in Job : IF Wall[j] >= Year THEN Wall[j] >= Limit[j]
                 ELSE Wall[j] + Lag < Limit[j] /\ Lag + 1 < Limit[j]

\* a submission in the list is of a job nothing else knows; any other event
\* points to the structure of a job that runs, and then is its completion, or
\* that is completing
EventOK(e) ==
  /\ e.type = "submit" =>
       slurm[e.what] = "absent" /\ \A a \in Addr : heap[a].used => heap[a].job # e.what
  /\ e.type # "submit" =>
       LET c == heap[e.what] IN
       /\ c.used /\ c.id = c.job /\ slurm[c.job] \in {"running", "completing"}
       /\ slurm[c.job] = "running" =>
            e.type = "complete" /\ e.when = startAt[c.job] + Wall[c.job] /\ Wall[c.job] < Year

\* a structure in use is the only one of its job, which Slurm refused or has
\* not finished with
CellOK(a) ==
  LET c == heap[a] IN
  c.used =>
    /\ c.job \in Job
    /\ \/ c.job \in Rejected /\ c.id = NoJob /\ slurm[c.job] = "absent"
       \/ /\ c.id = c.job /\ slurm[c.job] \in {"pending", "running", "completing"}
          /\ slurm[c.job] # "completing" => ~c.comp /\ ~c.kill
    /\ \A b \in Addr : heap[b].used /\ heap[b].job = c.job => b = a

\* no job is lost, and the completion of a running one is not overdue by more
\* than the pass over the events that is under way
JobOK(j) ==
  /\ slurm[j] = "absent" =>
       \/ \E e \in Listed(events) : e.type = "submit" /\ e.what = j
       \/ \E a \in Addr : heap[a].used /\ heap[a].job = j
  /\ slurm[j] \in {"pending", "running"} => \E a \in Addr : heap[a].used /\ heap[a].id = j
  /\ slurm[j] = "running" /\ Wall[j] < Year =>
       /\ \E e \in Listed(events) : e.type = "complete" /\ heap[e.what].id = j
       /\ startAt[j] + Wall[j] >= swept \/ startAt[j] + 1 >= swept
  /\ slurm[j] \in {"completing", "done", "purged"} =>
       endAt[j] >= startAt[j] + (IF Wall[j] < Limit[j] THEN Wall[j] ELSE Limit[j])
  /\ j \in timedOut => Wall[j] >= Limit[j]

ClockOK == swept <= now + 1 /\ now <= swept + Lag

EngineInv ==
  /\ ListInv /\ Distinct(events)
  /\ \A e \in Listed(events) : EventOK(e)
  /\ \A a \in Addr : CellOK(a)
  /\ \A j \in Job : JobOK(j)
  /\ ClockOK
  /\ pc = "done" => AllDone

LEMMA Types ==
  ASSUME EngineInv
  PROVE  /\ now \in Nat /\ swept \in Nat /\ events \in Seq(Event) /\ InOrder(events)
         /\ heap \in [Addr -> Cell] /\ slurm \in [Job -> SlurmState]
         /\ startAt \in [Job -> Nat] /\ endAt \in [Job -> Nat] /\ timedOut \subseteq Job
         /\ \A a \in Addr : heap[a].id \in Job \union {NoJob} /\ heap[a].used \in BOOLEAN
         /\ \A e \in Listed(events) : /\ e \in Event /\ e.when \in Nat /\ e.type \in {"submit", "complete", "epilog"}
                                      /\ IF e.type = "submit" THEN e.what \in Job ELSE e.what \in Addr
<1>1. TypeOK /\ InOrder(events)  BY OrderedIs DEF EngineInv, ListInv
<1>2. \A e \in Listed(events) : e \in Event  BY <1>1 DEF Listed, TypeOK
<1>3. \A e \in Event : /\ e.when \in Nat /\ e.type \in {"submit", "complete", "epilog"}
                       /\ IF e.type = "submit" THEN e.what \in Job ELSE e.what \in Addr
  BY DEF Event
<1>. QED  BY <1>1, <1>2, <1>3, CellType DEF TypeOK

\* The structures in use that carry the id of a job are one at most.
LEMMA FindIs ==
  ASSUME EngineInv, NEW j \in Job, NEW a \in Addr, heap[a].used, heap[a].id = j
  PROVE  /\ Find(j) = {a} /\ heap[a].job = j /\ (CHOOSE b \in Find(j) : TRUE) = a
         /\ slurm[j] \in {"pending", "running", "completing"}
<1>1. \A b \in Addr : heap[b].used /\ heap[b].id = j =>
        heap[b].job = j /\ slurm[j] \in {"pending", "running", "completing"}
  BY Constants DEF EngineInv, CellOK
<1>2. \A b \in Find(j) : b = a  BY <1>1 DEF EngineInv, CellOK, Find
<1>3. a \in Find(j)  BY DEF Find
<1>. QED  BY <1>1, <1>2, <1>3

\* The head of the list and the rest.
LEMMA HeadIs ==
  ASSUME EngineInv, NEW type, Due(type)
  PROVE  LET e == Head(events)  rest == Listed(Tail(events)) IN
         /\ e \in Listed(events) /\ e.type = type /\ e.when <= now /\ EventOK(e)
         /\ Listed(events) = rest \union {e}
         /\ \A f \in rest : EventOK(f) /\ ~SameKey(f, e)
         /\ Tail(events) \in Seq(Event) /\ InOrder(Tail(events)) /\ Distinct(Tail(events))
<1>1. /\ events # << >> /\ events \in Seq(Event) /\ InOrder(events) /\ Distinct(events)
      /\ Head(events).type = type /\ Head(events).when <= now
  BY DueIs DEF EngineInv
<1>2. /\ Listed(events) = Listed(Tail(events)) \union {Head(events)}
      /\ Tail(events) \in Seq(Event) /\ InOrder(Tail(events)) /\ Distinct(Tail(events))
      /\ \A f \in Listed(Tail(events)) : ~SameKey(f, Head(events))
  BY <1>1, TailKeeps, TailDistinct
<1>3. \A f \in Listed(events) : EventOK(f)  BY DEF EngineInv
<1>. QED  BY <1>1, <1>2, <1>3

\* The completion or the epilog that is due: its structure is in use, and the
\* job runs or is completing.
LEMMA DueJob ==
  ASSUME EngineInv, NEW type \in {"complete", "epilog"}, Due(type)
  PROVE  LET a == Head(events).what  j == heap[a].job IN
         /\ a \in Addr /\ j \in Job /\ heap[a].used /\ heap[a].id = j
         /\ ReadId(a) = {j} /\ Known(j) /\ Find(j) = {a} /\ (CHOOSE b \in Find(j) : TRUE) = a
         /\ slurm[j] \in {"running", "completing"}
         /\ slurm[j] = "running" => /\ type = "complete" /\ startAt[j] + Wall[j] <= now /\ Wall[j] < Year
                                    /\ ~heap[a].comp
         /\ \A f \in Listed(Tail(events)) : f.type # "submit" => f.what # a
<1>. DEFINE e == Head(events)
            a == e.what
            j == heap[a].job
<1>1. /\ e \in Listed(events) /\ e.type = type /\ e.when <= now /\ EventOK(e)
      /\ \A f \in Listed(Tail(events)) : ~SameKey(f, e)
  BY HeadIs
<1>2. a \in Addr  BY DueIs DEF EngineInv
<1>. HIDE DEF e
<1>3. /\ heap[a].used /\ heap[a].id = j /\ slurm[j] \in {"running", "completing"}
      /\ slurm[j] = "running" => /\ type = "complete" /\ startAt[j] + Wall[j] <= now /\ Wall[j] < Year
  BY <1>1 DEF EventOK
<1>4. j \in Job /\ (slurm[j] = "running" => ~heap[a].comp)
  BY <1>2, <1>3, Constants DEF EngineInv, CellOK
<1>5. ReadId(a) = {j}  BY <1>3 DEF ReadId
<1>6. Known(j)  BY <1>3, <1>4, Constants DEF Known
<1>7. Find(j) = {a} /\ (CHOOSE b \in Find(j) : TRUE) = a  BY <1>2, <1>3, <1>4, FindIs
<1>8. \A f \in Listed(Tail(events)) : f.type # "submit" => f.what # a  BY <1>1 DEF SameKey
<1>. QED  BY <1>2, <1>3, <1>4, <1>5, <1>6, <1>7, <1>8 DEF e

\* the invariant after a step, part by part
LEMMA EngineIs ==
  ASSUME ListInv', Distinct(events)', \A e \in Listed(events') : EventOK(e)',
         \A a \in Addr : CellOK(a)', \A j \in Job : JobOK(j)', ClockOK', pc' = "done" => AllDone'
  PROVE  EngineInv'
BY DEF EngineInv

LEMMA SubmitEngine ==
  ASSUME EngineInv, SubmitJob
  PROVE  EngineInv'
<1>1. Due("submit") /\ events' = Tail(events) /\ UNCHANGED <<loop, now, swept, startAt, endAt, timedOut>>
  BY DEF SubmitJob
<1>2. ListInv'  BY SubmitList, JobsKeep DEF EngineInv, SubmitJob
<1>. DEFINE e == Head(events)
            j == e.what
            rest == Listed(Tail(events))
<1>3. /\ e \in Listed(events) /\ e.type = "submit" /\ EventOK(e)
      /\ Listed(events) = rest \union {e} /\ \A f \in rest : EventOK(f) /\ ~SameKey(f, e)
      /\ Distinct(Tail(events))
  BY <1>1, HeadIs
<1>4. j \in Job  BY <1>1, DueIs DEF EngineInv
<1>. DEFINE new == [used |-> TRUE, job |-> j, id |-> IF j \in Rejected THEN NoJob ELSE j,
                    start |-> 0, comp |-> FALSE, kill |-> FALSE]
<1>5. PICK a \in Addr :
        /\ ~heap[a].used /\ heap' = [heap EXCEPT ![a] = new]
        /\ slurm' = IF j \in Rejected THEN slurm ELSE [slurm EXCEPT ![j] = "pending"]
  BY DEF SubmitJob
<1>. HIDE DEF e, j, rest
<1>6. slurm[j] = "absent" /\ \A b \in Addr : heap[b].used => heap[b].job # j
  BY <1>3 DEF EventOK, j
<1>7. /\ \A b \in Addr : b # a => heap'[b] = heap[b]
      /\ heap'[a].used /\ heap'[a].job = j /\ heap'[a].id = (IF j \in Rejected THEN NoJob ELSE j)
      /\ ~heap'[a].comp /\ ~heap'[a].kill
      /\ \A k \in Job : k # j => slurm'[k] = slurm[k]
      /\ slurm'[j] = IF j \in Rejected THEN "absent" ELSE "pending"
  BY <1>4, <1>5, <1>6, Types
<1>8. \A f \in rest : EventOK(f)'
  <2>1. SUFFICES ASSUME NEW f \in rest PROVE EventOK(f)'  OBVIOUS
  <2>2. EventOK(f) /\ ~SameKey(f, e) /\ f \in Listed(events)  BY <1>3
  <2>3. CASE f.type = "submit"
    <3>1. f.what # j /\ f.what \in Job  BY <1>3, <2>2, <2>3, Types DEF SameKey, j
    <3>. QED  BY <1>7, <2>2, <2>3, <3>1 DEF EventOK
  <2>4. CASE f.type # "submit"
    <3>. DEFINE c == heap[f.what]
    <3>1. f.what \in Addr /\ c.used /\ f.what # a  BY <1>5, <2>2, <2>4, Types DEF EventOK
    <3>2. c.job \in Job /\ c.job # j  BY <1>6, <3>1 DEF EngineInv, CellOK
    <3>3. heap'[f.what] = c /\ slurm'[c.job] = slurm[c.job]  BY <1>7, <3>1, <3>2
    <3>. QED  BY <1>1, <2>2, <2>4, <3>3 DEF EventOK
  <2>. QED  BY <2>3, <2>4
<1>9. \A b \in Addr : CellOK(b)'
  <2>1. SUFFICES ASSUME NEW b \in Addr, heap'[b].used PROVE CellOK(b)'  BY DEF CellOK
  <2>2. CASE b = a  BY <1>4, <1>6, <1>7, <2>2 DEF CellOK
  <2>3. CASE b # a
    <3>1. heap'[b] = heap[b] /\ heap[b].used /\ CellOK(b)  BY <1>7, <2>1, <2>3 DEF EngineInv
    <3>2. heap[b].job \in Job /\ heap[b].job # j  BY <1>6, <3>1 DEF CellOK
    <3>. QED  BY <1>7, <3>1, <3>2 DEF CellOK
  <2>. QED  BY <2>2, <2>3
<1>10. \A k \in Job : JobOK(k)'
  <2>1. SUFFICES ASSUME NEW k \in Job PROVE JobOK(k)'  OBVIOUS
  <2>2. JobOK(k) /\ Listed(events') = rest  BY <1>1 DEF EngineInv, rest
  <2>3. CASE k = j
    <3>1. k \notin timedOut' \/ Wall[k] >= Limit[k]  BY <1>1, <2>2 DEF JobOK
    <3>2. slurm'[k] = "absent" => \E b \in Addr : heap'[b].used /\ heap'[b].job = k  BY <1>7, <2>3
    <3>3. slurm'[k] = "pending" => \E b \in Addr : heap'[b].used /\ heap'[b].id = k  BY <1>7, <2>3
    <3>4. slurm'[k] \in {"absent", "pending"}  BY <1>7, <2>3
    <3>. QED  BY <1>1, <3>1, <3>2, <3>3, <3>4 DEF JobOK
  <2>4. CASE k # j
    <3>1. slurm'[k] = slurm[k]  BY <1>7, <2>4
    <3>2. \A b \in Addr : heap[b].used => heap'[b] = heap[b]  BY <1>5, <1>7
    <3>3. slurm[k] = "absent" => \/ \E f \in rest : f.type = "submit" /\ f.what = k
                                 \/ \E b \in Addr : heap'[b].used /\ heap'[b].job = k
      <4>1. \A f \in Listed(events) : f.type = "submit" /\ f.what = k => f \in rest
        BY <1>3, <2>4 DEF j
      <4>. QED  BY <2>2, <3>2, <4>1 DEF JobOK
    <3>4. slurm[k] \in {"pending", "running"} => \E b \in Addr : heap'[b].used /\ heap'[b].id = k
      BY <2>2, <3>2 DEF JobOK
    <3>5. slurm[k] = "running" /\ Wall[k] < Year => \E f \in rest : f.type = "complete" /\ heap'[f.what].id = k
      <4>1. \A f \in Listed(events) : f.type = "complete" => f \in rest /\ f.what \in Addr /\ heap[f.what].used
        BY <1>3, Types DEF EngineInv, EventOK
      <4>. QED  BY <2>2, <3>2, <4>1 DEF JobOK
    <3>. QED  BY <1>1, <2>2, <3>1, <3>3, <3>4, <3>5 DEF JobOK
  <2>. QED  BY <2>3, <2>4
<1>11. ClockOK' /\ pc' # "done"  BY <1>1 DEF EngineInv, ClockOK, loop, Due
<1>. QED  BY <1>1, <1>2, <1>3, <1>8, <1>9, <1>10, <1>11, EngineIs DEF rest

\* A step on one structure in use, and on the job it belongs to, leaves the
\* accounts of the others alone.
LEMMA Frame ==
  ASSUME EngineInv, NEW j \in Job, NEW a \in Addr, heap[a].used, heap[a].id = j,
         \A b \in Addr : b # a => heap'[b] = heap[b],
         heap'[a].job = j,
         \A k \in Job : k # j =>
           /\ slurm'[k] = slurm[k] /\ startAt'[k] = startAt[k] /\ endAt'[k] = endAt[k]
           /\ k \in timedOut' => k \in timedOut,
         swept' = swept,
         \A f \in Listed(events) : f.type = "submit" \/ f.what # a => f \in Listed(events')
  PROVE  /\ \A f \in Listed(events) : f.type = "submit" \/ f.what # a => EventOK(f)'
         /\ \A b \in Addr : b # a => CellOK(b)'
         /\ \A k \in Job : k # j => JobOK(k)'
<1>1. /\ heap[a].job = j /\ slurm[j] \in {"pending", "running", "completing"}
      /\ \A b \in Addr : heap[b].used /\ heap[b].job = j => b = a
      /\ \A b \in Addr : heap[b].used /\ heap[b].id = j => b = a
  <2>1. heap[a].job = j /\ Find(j) = {a} /\ slurm[j] \in {"pending", "running", "completing"}  BY FindIs
  <2>2. \A b \in Addr : heap[b].used /\ heap[b].job = j => b = a  BY <2>1 DEF EngineInv, CellOK
  <2>. QED  BY <2>1, <2>2 DEF Find
<1>2. ASSUME NEW f \in Listed(events), f.type = "submit" \/ f.what # a
      PROVE  EventOK(f)'
  <2>1. EventOK(f)  BY DEF EngineInv
  <2>2. CASE f.type = "submit"
    <3>1. f.what \in Job /\ slurm[f.what] = "absent"  BY <2>1, <2>2, Types DEF EventOK
    <3>2. f.what # j  BY <1>1, <3>1
    <3>. QED  BY <2>1, <2>2, <3>1, <3>2 DEF EventOK
  <2>3. CASE f.type # "submit"
    <3>. DEFINE k == heap[f.what].job
    <3>1. f.what \in Addr /\ heap[f.what].used /\ f.what # a  BY <1>2, <2>1, <2>3, Types DEF EventOK
    <3>2. k \in Job /\ k # j  BY <1>1, <3>1 DEF EngineInv, CellOK
    <3>3. heap'[f.what] = heap[f.what] /\ slurm'[k] = slurm[k] /\ startAt'[k] = startAt[k]
      BY <3>1, <3>2
    <3>. QED  BY <2>1, <2>3, <3>3 DEF EventOK
  <2>. QED  BY <2>2, <2>3
<1>3. ASSUME NEW b \in Addr, b # a
      PROVE  CellOK(b)'
  <2>1. SUFFICES ASSUME heap'[b].used PROVE CellOK(b)'  BY DEF CellOK
  <2>2. heap'[b] = heap[b] /\ heap[b].used /\ CellOK(b)  BY <1>3, <2>1 DEF EngineInv
  <2>3. heap[b].job \in Job /\ heap[b].job # j  BY <1>1, <1>3, <2>2 DEF CellOK
  <2>. QED  BY <2>2, <2>3 DEF CellOK
<1>4. ASSUME NEW k \in Job, k # j
      PROVE  JobOK(k)'
  <2>1. /\ JobOK(k) /\ slurm'[k] = slurm[k] /\ startAt'[k] = startAt[k] /\ endAt'[k] = endAt[k]
        /\ k \in timedOut' => k \in timedOut
    BY <1>4 DEF EngineInv
  <2>2. slurm[k] = "absent" => \/ \E f \in Listed(events') : f.type = "submit" /\ f.what = k
                               \/ \E b \in Addr : heap'[b].used /\ heap'[b].job = k
    BY <1>1, <1>4, <2>1 DEF JobOK
  <2>3. slurm[k] \in {"pending", "running"} => \E b \in Addr : heap'[b].used /\ heap'[b].id = k
    BY <1>4, <2>1 DEF JobOK
  <2>4. slurm[k] = "running" /\ Wall[k] < Year =>
          \E f \in Listed(events') : f.type = "complete" /\ heap'[f.what].id = k
    <3>1. \A f \in Listed(events) : f.type = "complete" => f.what \in Addr
      BY Types
    <3>2. \A f \in Listed(events) : f.type = "complete" /\ heap[f.what].id = k => f.what # a
      BY <1>4
    <3>. QED  BY <2>1, <3>1, <3>2 DEF JobOK
  <2>. QED  BY <2>1, <2>2, <2>3, <2>4 DEF JobOK
<1>. QED  BY <1>2, <1>3, <1>4

\* A job that has run for its wall time has run for as long as it was meant to.
LEMMA RanItsTime ==
  \A s, w, l, n \in Nat : s + w <= n => n >= s + (IF w < l THEN w ELSE l)
OBVIOUS

\* The job is done with, and its structure freed.
LEMMA GoneEngine ==
  ASSUME EngineInv, NEW type \in {"complete", "epilog"}, Due(type), ListInv',
         NEW a, a = Head(events).what, NEW j, j = heap[a].job,
         events' = Tail(events), heap' = Removed(j),
         NEW s \in {"done", "completing"}, slurm' = [slurm EXCEPT ![j] = s],
         endAt' = IF slurm[j] = "running" THEN [endAt EXCEPT ![j] = now] ELSE endAt,
         UNCHANGED <<loop, now, swept, startAt, timedOut>>
  PROVE  EngineInv'
<1>. DEFINE rest == Listed(Tail(events))
<1>1. /\ a \in Addr /\ j \in Job /\ heap[a].used /\ heap[a].id = j /\ Find(j) = {a}
      /\ slurm[j] \in {"running", "completing"}
      /\ slurm[j] = "running" => startAt[j] + Wall[j] <= now
      /\ \A f \in rest : f.type # "submit" => f.what # a
  BY DueJob
<1>2. /\ Listed(events) = rest \union {Head(events)} /\ Head(events).type # "submit"
      /\ Distinct(Tail(events))
  BY HeadIs
<1>3. /\ \A b \in Addr : b # a => heap'[b] = heap[b]
      /\ ~heap'[a].used /\ heap'[a].job = j
  BY <1>1, Types DEF Removed, Cell
<1>4. /\ \A k \in Job : k # j => slurm'[k] = slurm[k] /\ endAt'[k] = endAt[k]
      /\ slurm'[j] = s /\ endAt'[j] = IF slurm[j] = "running" THEN now ELSE endAt[j]
  BY <1>1, Types
<1>5. /\ \A f \in Listed(events) : f.type = "submit" \/ f.what # a => EventOK(f)'
      /\ \A b \in Addr : b # a => CellOK(b)'
      /\ \A k \in Job : k # j => JobOK(k)'
  <2>1. \A f \in Listed(events) : f.type = "submit" \/ f.what # a => f \in Listed(events')
    BY <1>2
  <2>2. j \in Job /\ a \in Addr /\ heap[a].used /\ heap[a].id = j  BY <1>1
  <2>3. /\ \A b \in Addr : b # a => heap'[b] = heap[b]
        /\ heap'[a].job = j /\ swept' = swept
    BY <1>3
  <2>4. \A k \in Job : k # j =>
          /\ slurm'[k] = slurm[k] /\ startAt'[k] = startAt[k] /\ endAt'[k] = endAt[k]
          /\ k \in timedOut' => k \in timedOut
    BY <1>4
  <2>. QED  BY <2>1, <2>2, <2>3, <2>4, Frame
<1>6. \A f \in Listed(events') : EventOK(f)'  BY <1>1, <1>2, <1>5
<1>7. CellOK(a)'  BY <1>3 DEF CellOK
<1>8. JobOK(j)'
  <2>1. JobOK(j) /\ startAt'[j] = startAt[j] /\ (j \in timedOut' <=> j \in timedOut)
    BY <1>1 DEF EngineInv
  <2>2. startAt[j] \in Nat /\ endAt[j] \in Nat /\ now \in Nat /\ Wall[j] \in Nat /\ Limit[j] \in Nat
    BY <1>1, Types, Constants
  <2>. DEFINE meant == IF Wall[j] < Limit[j] THEN Wall[j] ELSE Limit[j]
  <2>3. startAt[j] + Wall[j] <= now => now >= startAt[j] + meant  BY <2>2, RanItsTime
  <2>4. slurm[j] = "completing" => endAt[j] >= startAt[j] + meant  BY <2>1 DEF JobOK
  <2>5. j \in timedOut => Wall[j] >= Limit[j]  BY <2>1 DEF JobOK
  <2>. HIDE DEF meant
  <2>6. endAt'[j] >= startAt[j] + meant
    <3>1. CASE slurm[j] = "running"
      <4>1. endAt'[j] = now /\ startAt[j] + Wall[j] <= now  BY <1>1, <1>4, <3>1
      <4>2. now >= startAt[j] + meant  BY <2>3, <4>1
      <4>. QED  BY <4>1, <4>2
    <3>2. CASE slurm[j] = "completing"
      <4>1. endAt'[j] = endAt[j]  BY <1>4, <3>2
      <4>. QED  BY <2>4, <3>2, <4>1
    <3>. QED  BY <1>1, <3>1, <3>2
  <2>7. slurm'[j] \in {"done", "completing"}  BY <1>4
  <2>8. endAt'[j] >= startAt'[j] + meant /\ (j \in timedOut' => Wall[j] >= Limit[j])
    BY <2>1, <2>5, <2>6
  <2>. QED  BY <2>7, <2>8 DEF JobOK, meant
<1>9. ClockOK' /\ pc' # "done"  BY DEF EngineInv, ClockOK, loop, Due
<1>. QED  BY <1>2, <1>5, <1>6, <1>7, <1>8, <1>9, EngineIs

\* A step that puts an event of one job into the list, and the job in the state
\* that the event is for.
LEMMA InsertEngine ==
  ASSUME EngineInv, ListInv', NEW j \in Job, NEW a \in Addr, heap[a].used, heap[a].id = j,
         \A b \in Addr : b # a => heap'[b] = heap[b],
         heap'[a].used, heap'[a].id = j, heap'[a].job = j,
         \A k \in Job : k # j =>
           /\ slurm'[k] = slurm[k] /\ startAt'[k] = startAt[k] /\ endAt'[k] = endAt[k]
           /\ k \in timedOut' => k \in timedOut,
         UNCHANGED <<loop, now, swept>>, pc # "done",
         NEW q \in Seq(Event), InOrder(q), Distinct(q),
         \A f \in Listed(q) : f \in Listed(events) /\ (f.type = "submit" \/ f.what # a),
         \A f \in Listed(events) : f.type = "submit" \/ f.what # a => f \in Listed(q),
         NEW when \in Nat, NEW type \in {"complete", "epilog"},
         events' = InsertEvent(q, [when |-> when, type |-> type, what |-> a]),
         \/ slurm'[j] = "running" /\ type = "complete" /\ when = startAt'[j] + Wall[j] /\ Wall[j] < Year
              /\ ~heap'[a].comp /\ ~heap'[a].kill /\ startAt'[j] + 1 >= swept /\ (j \in timedOut' => j \in timedOut)
         \/ slurm'[j] = "completing" /\ (j \in timedOut' => j \in timedOut \/ Wall[j] >= Limit[j])
              /\ endAt'[j] >= startAt'[j] + (IF Wall[j] < Limit[j] THEN Wall[j] ELSE Limit[j])
  PROVE  EngineInv'
<1>. DEFINE e == [when |-> when, type |-> type, what |-> a]
<1>1. /\ e \in Event /\ e.when = when /\ e.type = type /\ e.what = a
      /\ Listed(events') = Listed(q) \union {e}
  BY InsertList DEF EngineInv
<1>2. Distinct(events)'
  <2>1. \A f \in Listed(q) : ~SameKey(e, f)  BY <1>1 DEF SameKey
  <2>. HIDE DEF e
  <2>2. Distinct(InsertEvent(q, e))  BY <1>1, <2>1, InsertDistinct
  <2>. QED  BY <2>2 DEF e
<1>. HIDE DEF e
<1>3. /\ \A f \in Listed(events) : f.type = "submit" \/ f.what # a => EventOK(f)'
      /\ \A b \in Addr : b # a => CellOK(b)'
      /\ \A k \in Job : k # j => JobOK(k)'
  <2>1. \A f \in Listed(events) : f.type = "submit" \/ f.what # a => f \in Listed(events')  BY <1>1
  <2>. QED  BY <2>1, Frame
<1>4. EventOK(e)'  BY <1>1 DEF EventOK
<1>5. \A f \in Listed(events') : EventOK(f)'  BY <1>1, <1>3, <1>4
<1>6. CellOK(a)'
  <2>1. heap[a].job = j  BY FindIs
  <2>2. \A b \in Addr : heap[b].used /\ heap[b].job = j => b = a  BY <2>1 DEF EngineInv, CellOK
  <2>. QED  BY <2>2 DEF CellOK
<1>7. JobOK(j)'
  <2>1. JobOK(j)  BY DEF EngineInv
  <2>2. swept' = swept /\ (j \in timedOut => Wall[j] >= Limit[j])  BY <2>1 DEF JobOK
  <2>3. e \in Listed(events') /\ heap'[e.what].id = j  BY <1>1
  <2>4. CASE slurm'[j] = "running"  BY <1>1, <2>2, <2>3, <2>4 DEF JobOK
  <2>5. CASE slurm'[j] = "completing"  BY <2>2, <2>5 DEF JobOK
  <2>. QED  BY <2>4, <2>5
<1>8. ClockOK' /\ pc' # "done"  BY DEF EngineInv, ClockOK, loop
<1>. QED  BY <1>2, <1>3, <1>5, <1>6, <1>7, <1>8, EngineIs

\* The job ends, and a node has yet to finish its epilog.
LEMMA MarkedEngine ==
  ASSUME EngineInv, NEW type \in {"complete", "epilog"}, Due(type), ListInv',
         NEW a, a = Head(events).what, NEW j, j = heap[a].job, slurm[j] = "running",
         CompleteRunning(j), slurm'[j] = "completing",
         UNCHANGED <<loop, now, swept, startAt, timedOut>>
  PROVE  EngineInv'
<1>. DEFINE q == Tail(events)
<1>1. /\ a \in Addr /\ j \in Job /\ heap[a].used /\ heap[a].id = j /\ Find(j) = {a}
      /\ (CHOOSE b \in Find(j) : TRUE) = a
      /\ startAt[j] + Wall[j] <= now /\ ~heap[a].comp
      /\ \A f \in Listed(q) : f.type # "submit" => f.what # a
  BY DueJob
<1>act. /\ events' = WithEpilog(Tail(events), j) /\ heap' = MarkedComp(j)
        /\ slurm' = [slurm EXCEPT ![j] = "completing"] /\ endAt' = [endAt EXCEPT ![j] = now]
  BY <1>1, Types DEF CompleteRunning, AfterTerminate
<1>2. /\ Listed(events) = Listed(q) \union {Head(events)} /\ Head(events).type # "submit"
      /\ q \in Seq(Event) /\ InOrder(q) /\ Distinct(q)
  BY HeadIs
<1>3. /\ \A b \in Addr : b # a => heap'[b] = heap[b]
      /\ heap'[a].used /\ heap'[a].job = j /\ heap'[a].id = j
  BY <1>act, <1>1, Types DEF MarkedComp, Cell
<1>4. /\ \A k \in Job : k # j => slurm'[k] = slurm[k] /\ endAt'[k] = endAt[k]
      /\ slurm'[j] = "completing" /\ endAt'[j] = now
  BY <1>act, <1>1, Types
<1>5. events' = InsertEvent(q, [when |-> now + CompDelay, type |-> "epilog", what |-> a])
  BY <1>act, <1>1 DEF WithEpilog
<1>6. now + CompDelay \in Nat  BY Types, Constants
<1>7. endAt'[j] >= startAt[j] + (IF Wall[j] < Limit[j] THEN Wall[j] ELSE Limit[j])
  <2>1. startAt[j] \in Nat /\ now \in Nat /\ Wall[j] \in Nat /\ Limit[j] \in Nat  BY <1>1, Types, Constants
  <2>2. endAt'[j] = now /\ startAt[j] + Wall[j] <= now  BY <1>1, <1>4
  <2>3. now >= startAt[j] + (IF Wall[j] < Limit[j] THEN Wall[j] ELSE Limit[j])
    BY <2>1, <2>2, RanItsTime
  <2>. QED  BY <2>2, <2>3
<1>8. pc # "done"  BY DEF Due
<1>9. /\ \A f \in Listed(q) : f \in Listed(events) /\ (f.type = "submit" \/ f.what # a)
      /\ \A f \in Listed(events) : f.type = "submit" \/ f.what # a => f \in Listed(q)
  BY <1>1, <1>2
<1>. HIDE DEF q
<1>. DEFINE when == now + CompDelay
<1>. HIDE DEF when
<1>10. when \in Nat /\ events' = InsertEvent(q, [when |-> when, type |-> "epilog", what |-> a])
  BY <1>5, <1>6 DEF when
<1>11. j \in Job /\ a \in Addr /\ heap[a].used /\ heap[a].id = j  BY <1>1
<1>12. \A k \in Job : k # j =>
         /\ slurm'[k] = slurm[k] /\ startAt'[k] = startAt[k] /\ endAt'[k] = endAt[k]
         /\ k \in timedOut' => k \in timedOut
  BY <1>4
<1>13. /\ slurm'[j] = "completing" /\ (j \in timedOut' => j \in timedOut)
       /\ endAt'[j] >= startAt'[j] + (IF Wall[j] < Limit[j] THEN Wall[j] ELSE Limit[j])
  BY <1>4, <1>7
<1>14. q \in Seq(Event) /\ InOrder(q) /\ Distinct(q)  BY <1>2
<1>. QED  BY <1>3, <1>8, <1>9, <1>10, <1>11, <1>12, <1>13, <1>14, InsertEngine

LEMMA StartEngine ==
  ASSUME EngineInv, NEW j \in Job, StartJob(j)
  PROVE  EngineInv'
<1>1. ListInv'  BY StartList, JobsKeep DEF EngineInv, StartJob
<1>2. slurm[j] = "pending" /\ pc # "done" /\ UNCHANGED <<loop, now, swept, endAt, timedOut>>  BY DEF StartJob
<1>3. PICK a \in Addr : heap[a].used /\ heap[a].id = j  BY <1>2 DEF EngineInv, JobOK
<1>4. Find(j) = {a} /\ heap[a].job = j /\ (CHOOSE b \in Find(j) : TRUE) = a  BY <1>3, FindIs
<1>5. ~heap[a].comp /\ ~heap[a].kill  BY <1>2, <1>3, <1>4, Constants DEF EngineInv, CellOK
<1>6. \A f \in Listed(events) : f.type = "submit" \/ f.what # a
  BY <1>2, <1>4 DEF EngineInv, EventOK
<1>7. /\ \A b \in Addr : b # a => heap'[b] = heap[b]
      /\ heap'[a].used /\ heap'[a].job = j /\ heap'[a].id = j /\ ~heap'[a].comp /\ ~heap'[a].kill
  <2>1. heap' = [b \in Addr |-> IF b \in Find(j) THEN [heap[b] EXCEPT !.start = now] ELSE heap[b]]
    BY DEF StartJob
  <2>2. \A b \in Addr : heap'[b] = IF b = a THEN [heap[b] EXCEPT !.start = now] ELSE heap[b]
    BY <1>4, <2>1
  <2>3. heap[a] \in Cell  BY Types
  <2>4. \A c \in Cell : LET d == [c EXCEPT !.start = now] IN
          d.used = c.used /\ d.job = c.job /\ d.id = c.id /\ d.comp = c.comp /\ d.kill = c.kill
    BY DEF Cell
  <2>5. heap'[a] = [heap[a] EXCEPT !.start = now]  BY <2>2
  <2>6. /\ heap'[a].used = heap[a].used /\ heap'[a].job = heap[a].job /\ heap'[a].id = heap[a].id
        /\ heap'[a].comp = heap[a].comp /\ heap'[a].kill = heap[a].kill
    BY <2>3, <2>4, <2>5
  <2>. QED  BY <1>3, <1>4, <1>5, <2>2, <2>6
<1>8. /\ \A k \in Job : k # j => slurm'[k] = slurm[k] /\ startAt'[k] = startAt[k]
      /\ slurm'[j] = "running" /\ startAt'[j] = now
  BY Types DEF StartJob
<1>9. now + 1 >= swept /\ now \in Nat /\ swept \in Nat /\ Wall[j] \in Nat /\ Year \in Nat
  BY Types, Constants DEF EngineInv, ClockOK
<1>10. CASE Wall[j] < Year
  <2>. DEFINE when == now + Wall[j]
  <2>1. when \in Nat /\ when = startAt'[j] + Wall[j]  BY <1>8, <1>9
  <2>2. events' = InsertEvent(events, [when |-> when, type |-> "complete", what |-> a])
    BY <1>4, <1>10 DEF StartJob, AfterLaunch, CompletionTime
  <2>. HIDE DEF when
  <2>3. events \in Seq(Event) /\ InOrder(events) /\ Distinct(events)  BY Types DEF EngineInv
  <2>4. startAt'[j] + 1 >= swept /\ (j \in timedOut' => j \in timedOut)  BY <1>2, <1>8, <1>9
  <2>. QED  BY <1>1, <1>2, <1>3, <1>6, <1>7, <1>8, <1>10, <2>1, <2>2, <2>3, <2>4, InsertEngine
<1>11. CASE ~(Wall[j] < Year)
  <2>1. events' = events  BY <1>11 DEF StartJob, AfterLaunch
  <2>2. /\ \A f \in Listed(events) : EventOK(f)'
        /\ \A b \in Addr : b # a => CellOK(b)'
        /\ \A k \in Job : k # j => JobOK(k)'
    BY <1>2, <1>3, <1>6, <1>7, <1>8, <2>1, Frame
  <2>3. CellOK(a)'
    <3>1. \A b \in Addr : heap[b].used /\ heap[b].job = j => b = a  BY <1>3, <1>4 DEF EngineInv, CellOK
    <3>. QED  BY <1>7, <1>8, <3>1 DEF CellOK
  <2>4. JobOK(j)'
    <3>1. j \in timedOut' => Wall[j] >= Limit[j]  BY <1>2 DEF EngineInv, JobOK
    <3>. QED  BY <1>7, <1>8, <1>11, <3>1 DEF JobOK
  <2>5. ClockOK' /\ pc' # "done" /\ Distinct(events)'  BY <1>2, <2>1 DEF EngineInv, ClockOK, loop, Distinct
  <2>. QED  BY <1>1, <2>1, <2>2, <2>3, <2>4, <2>5, EngineIs
<1>. QED  BY <1>10, <1>11

\* A check of the time limits finds jobs that are meant to run to their limit only.
LEMMA ExpiredIs ==
  ASSUME EngineInv, Headroom, NEW j \in Expired
  PROVE  j \in Job /\ slurm[j] = "running" /\ startAt[j] + Limit[j] <= now /\ ~(Wall[j] < Year) /\ Wall[j] >= Limit[j]
<1>1. j \in Job /\ slurm[j] = "running" /\ startAt[j] + Limit[j] <= now  BY DEF Expired
<1>2. /\ startAt[j] \in Nat /\ now \in Nat /\ swept \in Nat /\ Wall[j] \in Nat /\ Limit[j] \in Nat /\ Year \in Nat /\ Lag \in Nat
      /\ now <= swept + Lag
  BY <1>1, Types, Constants DEF EngineInv, ClockOK
<1>3. Wall[j] < Year => startAt[j] + Wall[j] >= swept \/ startAt[j] + 1 >= swept
  BY <1>1 DEF EngineInv, JobOK
<1>4. IF Wall[j] >= Year THEN Wall[j] >= Limit[j] ELSE Wall[j] + Lag < Limit[j] /\ Lag + 1 < Limit[j]
  BY <1>1 DEF Headroom
<1>. QED  BY <1>1, <1>2, <1>3, <1>4

LEMMA TimeOutEngine ==
  ASSUME EngineInv, Headroom, NEW j \in Job, TimeOut(j)
  PROVE  EngineInv'
<1>1. ListInv'  BY TimeOutList, JobsKeep DEF EngineInv, TimeOut
<1>2. /\ pc # "done" /\ UNCHANGED <<loop, now, swept, startAt>>
      /\ slurm[j] = "running" /\ startAt[j] + Limit[j] <= now /\ ~(Wall[j] < Year) /\ Wall[j] >= Limit[j]
  BY ExpiredIs DEF TimeOut
<1>3. PICK a \in Addr : heap[a].used /\ heap[a].id = j  BY <1>2 DEF EngineInv, JobOK
<1>4. Find(j) = {a} /\ heap[a].job = j /\ (CHOOSE b \in Find(j) : TRUE) = a  BY <1>3, FindIs
<1>5. ~heap[a].kill  BY <1>2, <1>3, <1>4, Constants DEF EngineInv, CellOK
<1>6. \A f \in Listed(events) : f.type = "submit" \/ f.what # a
  BY <1>2, <1>4 DEF EngineInv, EventOK
<1>7. /\ \A b \in Addr : b # a => heap'[b] = heap[b]
      /\ heap'[a].used /\ heap'[a].job = j /\ heap'[a].id = j
  BY <1>3, <1>4, Types DEF TimeOut, Cell
<1>8. /\ \A k \in Job : k # j =>
           slurm'[k] = slurm[k] /\ endAt'[k] = endAt[k] /\ (k \in timedOut' => k \in timedOut)
      /\ slurm'[j] = "completing" /\ endAt'[j] = now
  BY Types DEF TimeOut
<1>9. endAt'[j] >= startAt'[j] + (IF Wall[j] < Limit[j] THEN Wall[j] ELSE Limit[j])
  <2>1. startAt[j] \in Nat /\ now \in Nat /\ Wall[j] \in Nat /\ Limit[j] \in Nat  BY Types, Constants
  <2>. QED  BY <1>2, <1>8, <2>1
<1>. DEFINE when == now + LimitDelay
<1>10. when \in Nat  BY Types, Constants
<1>11. events' = InsertEvent(events, [when |-> when, type |-> "complete", what |-> a])
  BY <1>4, <1>5 DEF TimeOut, KillPayload
<1>. HIDE DEF when
<1>12. events \in Seq(Event) /\ InOrder(events) /\ Distinct(events)  BY Types DEF EngineInv
<1>. QED  BY <1>1, <1>2, <1>3, <1>6, <1>7, <1>8, <1>9, <1>10, <1>11, <1>12, InsertEngine

\* No completion is due before the head of the list.
LEMMA HeadFirst ==
  ASSUME EngineInv, NEW t \in Nat, events # << >> => t <= Head(events).when,
         NEW j \in Job, slurm[j] = "running", Wall[j] < Year
  PROVE  startAt[j] + Wall[j] >= t
<1>1. PICK e \in Listed(events) : e.type = "complete" /\ heap[e.what].id = j  BY DEF EngineInv, JobOK
<1>2. e.when = startAt[j] + Wall[j]  BY <1>1 DEF EngineInv, EventOK
<1>3. events # << >> /\ events \in Seq(Event) /\ InOrder(events)
  <2>1. events \in Seq(Event) /\ InOrder(events)  BY Types
  <2>2. PICK i \in DOMAIN events : e = events[i]  BY <1>1 DEF Listed
  <2>. QED  BY <2>1, <2>2
<1>4. Head(events).when <= e.when /\ Head(events).when \in Nat  BY <1>3, TailKeeps DEF Event
<1>5. e.when \in Nat /\ t \in Nat  BY <1>1, Types
<1>. QED  BY <1>2, <1>3, <1>4, <1>5

\* A step of the loop or of the clock leaves the jobs alone.
LEMMA QuietEngine ==
  ASSUME EngineInv, ListInv', UNCHANGED jobs, ClockOK', pc' = "done" => AllDone',
         \/ swept' = swept
         \/ swept' \in Nat /\ (events # << >> => swept' <= Head(events).when)
  PROVE  EngineInv'
<1>1. \A f \in Listed(events') : EventOK(f)'  BY DEF EngineInv, EventOK, jobs
<1>2. \A a \in Addr : CellOK(a)'  BY DEF EngineInv, CellOK, jobs
<1>3. ASSUME NEW j \in Job PROVE JobOK(j)'
  <2>1. JobOK(j)  BY DEF EngineInv
  <2>2. slurm[j] = "running" /\ Wall[j] < Year => startAt[j] + Wall[j] >= swept' \/ startAt[j] + 1 >= swept'
    <3>1. CASE swept' = swept  BY <2>1, <3>1 DEF JobOK
    <3>2. CASE swept' \in Nat /\ (events # << >> => swept' <= Head(events).when)
      <4>. DEFINE t == swept'
      <4>1. t \in Nat /\ (events # << >> => t <= Head(events).when)  BY <3>2
      <4>. HIDE DEF t
      <4>2. slurm[j] = "running" /\ Wall[j] < Year => startAt[j] + Wall[j] >= t  BY <4>1, HeadFirst
      <4>. QED  BY <4>2 DEF t
    <3>. QED  BY <3>1, <3>2
  <2>. QED  BY <2>1, <2>2 DEF JobOK, jobs
<1>4. Distinct(events)'  BY DEF EngineInv, Distinct, jobs
<1>. QED  BY <1>1, <1>2, <1>3, <1>4, EngineIs

LEMMA PurgeEngine ==
  ASSUME EngineInv, BackgroundDone
  PROVE  EngineInv'
<1>1. ListInv'  BY LoopList DEF EngineInv
<1>2. /\ UNCHANGED <<now, swept, events, heap, startAt, endAt, timedOut>> /\ pc' # "done"
      /\ \A j \in Job : slurm'[j] = slurm[j] \/ (slurm[j] = "done" /\ slurm'[j] = "purged")
  <2>1. PICK old \in SUBSET {j \in Job : slurm[j] = "done"} :
          slurm' = [j \in Job |-> IF j \in old THEN "purged" ELSE slurm[j]]
    BY DEF BackgroundDone
  <2>2. \A j \in Job : slurm'[j] = slurm[j] \/ (slurm[j] = "done" /\ slurm'[j] = "purged")  BY <2>1
  <2>3. UNCHANGED <<now, swept, events, heap, startAt, endAt, timedOut>>  BY DEF BackgroundDone
  <2>4. pc' # "done"  BY DEF BackgroundDone
  <2>. QED  BY <2>2, <2>3, <2>4
<1>3. ASSUME NEW f \in Listed(events) PROVE EventOK(f)'
  <2>1. EventOK(f)  BY DEF EngineInv
  <2>2. CASE f.type = "submit"
    <3>1. f.what \in Job  BY <2>2, Types
    <3>. QED  BY <1>2, <2>1, <2>2, <3>1 DEF EventOK
  <2>3. CASE f.type # "submit"
    <3>1. f.what \in Addr /\ heap[f.what].used  BY <2>1, <2>3, Types DEF EventOK
    <3>2. heap[f.what].job \in Job  BY <3>1 DEF EngineInv, CellOK
    <3>. QED  BY <1>2, <2>1, <2>3, <3>2 DEF EventOK
  <2>. QED  BY <2>2, <2>3
<1>4. \A a \in Addr : CellOK(a)'
  <2>1. SUFFICES ASSUME NEW a \in Addr, heap[a].used PROVE CellOK(a)'  BY <1>2 DEF CellOK
  <2>2. heap[a].job \in Job /\ CellOK(a)  BY <2>1 DEF EngineInv, CellOK
  <2>3. slurm'[heap[a].job] = slurm[heap[a].job]  BY <1>2, <2>1, <2>2 DEF CellOK
  <2>. QED  BY <1>2, <2>2, <2>3 DEF CellOK
<1>5. \A j \in Job : JobOK(j)'
  <2>1. SUFFICES ASSUME NEW j \in Job PROVE JobOK(j)'  OBVIOUS
  <2>2. JobOK(j) /\ (slurm'[j] = slurm[j] \/ (slurm[j] = "done" /\ slurm'[j] = "purged"))  BY <1>2 DEF EngineInv
  <2>. QED  BY <1>2, <2>2 DEF JobOK
<1>6. ClockOK' /\ Distinct(events)'  BY <1>2 DEF EngineInv, ClockOK, Distinct
<1>. QED  BY <1>1, <1>2, <1>3, <1>4, <1>5, <1>6, EngineIs

LEMMA LoopEngine ==
  ASSUME EngineInv,
         \/ EventsDone \/ EnterMiniLoop \/ SchedDone \/ CheckExit \/ SkipTime \/ NoSkip
         \/ LoopEnd \/ Elapse \/ UNCHANGED vars
  PROVE  EngineInv'
<1>1. ListInv'  BY LoopList DEF EngineInv
<1>2. UNCHANGED jobs
  BY DEF EventsDone, EnterMiniLoop, SchedDone, CheckExit, SkipTime, NoSkip, LoopEnd, Elapse, vars
<1>3. now \in Nat /\ swept \in Nat /\ Lag \in Nat /\ swept <= now + 1 /\ now <= swept + Lag
  BY Types, Constants DEF EngineInv, ClockOK
<1>4. CASE EventsDone
  <2>1. swept' = now + 1 /\ now' = now /\ pc' # "done" /\ (events # << >> => now < Head(events).when)
    <3>1. events # << >> => Head(events).when \in Nat  BY Types, TailKeeps DEF Event
    <3>. QED  BY <1>3, <1>4, <3>1 DEF EventsDone
  <2>2. events # << >> => swept' <= Head(events).when
    <3>1. events # << >> => Head(events).when \in Nat  BY Types, TailKeeps DEF Event
    <3>. QED  BY <1>3, <2>1, <3>1
  <2>3. ClockOK' /\ swept' \in Nat  BY <1>3, <2>1 DEF ClockOK
  <2>. QED  BY <1>1, <1>2, <2>1, <2>2, <2>3, QuietEngine
<1>5. CASE SkipTime
  <2>1. PICK t \in (now + 1)..SkipTarget : now' = t /\ swept' = IF t > swept THEN t ELSE swept
    BY <1>5 DEF SkipTime
  <2>2. t \in Int /\ t >= now + 1 /\ t <= SkipTarget  BY <2>1
  <2>3. swept' = t /\ swept' \in Nat  BY <1>3, <2>1, <2>2
  <2>4. events # << >> => swept' <= Head(events).when
    <3>1. events # << >> => Head(events).when \in Nat  BY Types, TailKeeps DEF Event
    <3>2. sleepTill \in Nat  BY DEF EngineInv, ListInv, TypeOK
    <3>. QED  BY <2>2, <2>3, <3>1, <3>2 DEF SkipTarget
  <2>5. ClockOK'  BY <1>3, <2>1, <2>2, <2>3 DEF ClockOK
  <2>6. pc' # "done"  BY <1>5 DEF SkipTime
  <2>. QED  BY <1>1, <1>2, <2>3, <2>4, <2>5, <2>6, QuietEngine
<1>6. CASE CheckExit
  <2>1. UNCHANGED <<now, swept>> /\ (pc' = "done" => AllDone)  BY <1>6 DEF CheckExit
  <2>2. AllDone => AllDone'  BY <1>2 DEF AllDone, jobs
  <2>3. ClockOK'  BY <2>1 DEF EngineInv, ClockOK
  <2>. QED  BY <1>1, <1>2, <2>1, <2>2, <2>3, QuietEngine
<1>7. CASE Elapse
  <2>1. now' = now + 1 /\ swept' = swept /\ now < swept + Lag /\ pc' # "done"  BY <1>7 DEF Elapse, loop
  <2>2. ClockOK'  BY <1>3, <2>1 DEF ClockOK
  <2>. QED  BY <1>1, <1>2, <2>1, <2>2, QuietEngine
<1>8. CASE EnterMiniLoop \/ SchedDone \/ NoSkip \/ LoopEnd
  <2>1. UNCHANGED <<now, swept>> /\ pc' # "done"  BY <1>8 DEF EnterMiniLoop, SchedDone, NoSkip, LoopEnd
  <2>2. ClockOK'  BY <2>1 DEF EngineInv, ClockOK
  <2>. QED  BY <1>1, <1>2, <2>1, <2>2, QuietEngine
<1>9. CASE UNCHANGED vars
  <2>1. UNCHANGED <<now, swept, pc>>  BY <1>9 DEF vars, loop
  <2>2. ClockOK' /\ (pc' = "done" => AllDone')  BY <1>2, <2>1 DEF EngineInv, ClockOK, AllDone, jobs
  <2>. QED  BY <1>1, <1>2, <2>1, <2>2, QuietEngine
<1>. QED  BY <1>4, <1>5, <1>6, <1>7, <1>8, <1>9

LEMMA InitEngine == Init => EngineInv
<1>. SUFFICES ASSUME Init PROVE EngineInv  OBVIOUS
<1>1. ListInv  BY InitList
<1>2. /\ now = 1 /\ swept = 1 /\ pc # "done" /\ timedOut = {}
      /\ \A a \in Addr : ~heap[a].used
      /\ \A j \in Job : slurm[j] = "absent"
  BY DEF Init, Free
<1>3. /\ Distinct(events) /\ \A e \in Listed(events) : e.type = "submit"
      /\ \A j \in Job : \E e \in Listed(events) : e.type = "submit" /\ e.what = j
  BY TraceIs DEF Init
<1>4. \A e \in Listed(events) : e.what \in Job
  <2>1. events \in Seq(Event)  BY <1>1 DEF ListInv, TypeOK
  <2>2. \A e \in Listed(events) : e \in Event  BY <2>1 DEF Listed
  <2>. QED  BY <1>3, <2>2 DEF Event
<1>5. \A e \in Listed(events) : EventOK(e)  BY <1>2, <1>3, <1>4 DEF EventOK
<1>6. \A a \in Addr : CellOK(a)  BY <1>2 DEF CellOK
<1>7. \A j \in Job : JobOK(j)  BY <1>2, <1>3 DEF JobOK
<1>8. ClockOK  BY <1>2, Constants DEF ClockOK
<1>. QED  BY <1>1, <1>2, <1>3, <1>5, <1>6, <1>7, <1>8 DEF EngineInv

\* The id that the event gives is that of the job the event is of, so that the
\* handlers find the job and never drop its structure only.
LEMMA HandlersEngine ==
  ASSUME EngineInv, CompleteJob \/ EpilogComplete
  PROVE  EngineInv'
<1>1. PICK type \in {"complete", "epilog"} :
        /\ Due(type) /\ UNCHANGED <<loop, now, swept, startAt, timedOut>>
        /\ \E id \in ReadId(Head(events).what) :
             \/ type = "complete" /\ Known(id) /\ slurm[id] = "running" /\ CompleteRunning(id)
             \/ Known(id) /\ slurm[id] = "completing" /\ FinishEpilog(id)
             \/ (Known(id) => slurm[id] \notin {"running", "completing"}) /\ DropActive(id)
             \/ type = "epilog" /\ (Known(id) => slurm[id] # "completing") /\ DropActive(id)
  <2>1. CASE CompleteJob  BY <2>1 DEF CompleteJob
  <2>2. CASE EpilogComplete  BY <2>2 DEF EpilogComplete
  <2>. QED  BY <2>1, <2>2
<1>. DEFINE a == Head(events).what
            j == heap[a].job
<1>2. /\ j \in Job /\ ReadId(a) = {j} /\ Known(j) /\ slurm[j] \in {"running", "completing"}
      /\ slurm[j] = "running" => type = "complete"
  BY <1>1, DueJob
<1>. HIDE DEF a
<1>3. \/ slurm[j] = "running" /\ CompleteRunning(j)
      \/ slurm[j] = "completing" /\ FinishEpilog(j)
  BY <1>1, <1>2 DEF a
<1>4. ListInv'
  <2>1. JobsTyped  BY <1>1, <1>2, <1>3, HandlersList DEF a, EngineInv
  <2>. QED  BY <1>1, <2>1, JobsKeep DEF EngineInv
<1>. HIDE DEF j
<1>5. a = Head(events).what /\ j = heap[a].job  BY DEF a, j
<1>6. CASE slurm[j] = "running" /\ CompleteRunning(j)
  <2>1. CASE /\ slurm' = [slurm EXCEPT ![j] = "done"]
             /\ heap' = Removed(j) /\ events' = AfterTerminate(Tail(events), j)
    <3>1. events' = Tail(events) /\ endAt' = [endAt EXCEPT ![j] = now]
      BY <1>6, <2>1 DEF AfterTerminate, CompleteRunning
    <3>2. endAt' = IF slurm[j] = "running" THEN [endAt EXCEPT ![j] = now] ELSE endAt  BY <1>6, <3>1
    <3>. QED  BY <1>1, <1>4, <1>5, <2>1, <3>1, <3>2, GoneEngine
  <2>2. CASE /\ slurm' = [slurm EXCEPT ![j] = "completing"]
             /\ heap' = MarkedComp(j) /\ events' = WithEpilog(AfterTerminate(Tail(events), j), j)
    <3>1. slurm'[j] = "completing"  BY <1>2, <2>2, Types
    <3>. QED  BY <1>1, <1>4, <1>5, <1>6, <3>1, MarkedEngine
  <2>. QED  BY <1>6, <2>1, <2>2 DEF CompleteRunning
<1>7. CASE slurm[j] = "completing" /\ FinishEpilog(j)
  <2>1. PICK s \in {"done", "completing"} : slurm' = [slurm EXCEPT ![j] = s]  BY <1>7 DEF FinishEpilog
  <2>2. heap' = Removed(j) /\ events' = Tail(events) /\ endAt' = endAt  BY <1>7 DEF FinishEpilog
  <2>3. endAt' = IF slurm[j] = "running" THEN [endAt EXCEPT ![j] = now] ELSE endAt  BY <1>7, <2>2
  <2>. QED  BY <1>1, <1>4, <1>5, <2>1, <2>2, <2>3, GoneEngine
<1>. QED  BY <1>3, <1>6, <1>7

LEMMA NextEngine ==
  ASSUME EngineInv, Headroom, [Next]_vars
  PROVE  EngineInv'
<1>1. CASE SubmitJob  BY <1>1, SubmitEngine
<1>2. CASE CompleteJob \/ EpilogComplete  BY <1>2, HandlersEngine
<1>3. CASE \E j \in Job : StartJob(j)  BY <1>3, StartEngine
<1>4. CASE \E j \in Job : TimeOut(j)  BY <1>4, TimeOutEngine
<1>5. CASE BackgroundDone  BY <1>5, PurgeEngine
<1>. QED  BY <1>1, <1>2, <1>3, <1>4, <1>5, LoopEngine DEF Next, Thread, Exited

THEOREM EngineInvariance == ASSUME Headroom PROVE Spec => []EngineInv
<1>1. Init => EngineInv  BY InitEngine
<1>2. EngineInv /\ [Next]_vars => EngineInv'  BY NextEngine
<1>. QED  BY <1>1, <1>2, PTL DEF Spec

\* The handlers free a sim_job_t only when no other event of the job is in the
\* list (sim_remove_active_sim_job), if the limits leave room for the lag.
THEOREM EventsPointToActiveJobs == ASSUME Headroom PROVE Spec => []NoDangling
<1>1. EngineInv => NoDangling  BY DEF EngineInv, EventOK, NoDangling, Listed
<1>. QED  BY <1>1, EngineInvariance, PTL

LEMMA RunningIs ==
  ASSUME EngineInv
  PROVE  RunningCompletes
<1>. SUFFICES ASSUME NEW j \in Job, slurm[j] = "running"
              PROVE  /\ Cardinality(Find(j)) = 1
                     /\ Cardinality({i \in DOMAIN events : events[i].type = "complete" /\ events[i].what \in Find(j)})
                          = IF Wall[j] < Year THEN 1 ELSE 0
                     /\ \A i \in DOMAIN events :
                          (events[i].type = "complete" /\ events[i].what \in Find(j)) => events[i].when = startAt[j] + Wall[j]
  BY DEF RunningCompletes
<1>1. PICK a \in Addr : heap[a].used /\ heap[a].id = j  BY DEF EngineInv, JobOK
<1>2. Find(j) = {a} /\ heap[a].job = j  BY <1>1, FindIs
<1>3. \A i \in DOMAIN events : events[i].type # "submit" /\ events[i].what = a =>
        events[i].when = startAt[j] + Wall[j] /\ Wall[j] < Year
  BY <1>2 DEF EngineInv, EventOK, Listed
<1>4. Cardinality(Find(j)) = 1  BY <1>2, FS_Singleton
<1>. DEFINE S == {i \in DOMAIN events : events[i].type = "complete" /\ events[i].what \in Find(j)}
<1>5. CASE Wall[j] < Year
  <2>1. PICK i \in DOMAIN events : events[i].type = "complete" /\ heap[events[i].what].id = j
    BY <1>5 DEF EngineInv, JobOK, Listed
  <2>2. events[i].what = a
    <3>1. events[i].what \in Addr /\ heap[events[i].what].used
      BY <2>1, Types DEF EngineInv, EventOK, Listed
    <3>. QED  BY <1>2, <2>1, <3>1 DEF Find
  <2>3. \A k \in S : k = i  BY <1>2, <2>1, <2>2 DEF EngineInv, Distinct, SameKey
  <2>4. S = {i}  BY <1>2, <2>1, <2>2, <2>3
  <2>5. Cardinality(S) = 1  BY <2>4, FS_Singleton
  <2>. QED  BY <1>2, <1>3, <1>4, <1>5, <2>5
<1>6. CASE ~(Wall[j] < Year)
  <2>1. S = {}  BY <1>2, <1>3, <1>6
  <2>2. Cardinality(S) = 0  BY <2>1, FS_EmptySet
  <2>. QED  BY <1>2, <1>3, <1>4, <1>6, <2>2
<1>. QED  BY <1>5, <1>6

\* What Slurm, the active list and the event list hold of a job agree, although
\* submit_job, sim_insert_event_comp_job and the epilog change them one by one.
THEOREM AccountsAgree == ASSUME Headroom PROVE Spec => []Accounted
<1>1. EngineInv => ActiveUnfinished  BY Constants DEF EngineInv, CellOK, ActiveUnfinished
<1>2. EngineInv => TypeOK  BY DEF EngineInv, ListInv
<1>3. EngineInv => Accounted  BY <1>1, <1>2, RunningIs DEF Accounted
<1>. QED  BY <1>3, EngineInvariance, PTL

\* A job holds its nodes for its walltime or to its limit (sim_jobs.h:11).
THEOREM JobsRunTheirWalltime == ASSUME Headroom PROVE Spec => []RunsItsWalltime
<1>1. EngineInv => RunsItsWalltime  BY DEF EngineInv, JobOK, RunsItsWalltime
<1>. QED  BY <1>1, EngineInvariance, PTL

\* job_time_limit never gets in before a completion that is due.
THEOREM TimeoutsAreMeant == ASSUME Headroom PROVE Spec => []NoFalseTimeout
<1>1. EngineInv => NoFalseTimeout  BY Types DEF EngineInv, JobOK, NoFalseTimeout
<1>. QED  BY <1>1, EngineInvariance, PTL

\* The simulator's exit leaves no job behind, submitted or not, unless Slurm
\* keeps it in COMPLETING.
THEOREM ExitLeavesNothing == ASSUME Headroom PROVE Spec => []ExitComplete
<1>1. ASSUME EngineInv PROVE ExitComplete
  <2>. SUFFICES ASSUME pc = "done", NEW j \in Job
                PROVE  events = << >> /\ slurm[j] \in {"completing", "done", "purged"}
    BY <1>1 DEF ExitComplete, EngineInv, AllDone
  <2>1. AllDone /\ JobOK(j)  BY <1>1 DEF EngineInv
  <2>2. Listed(events) = {} /\ \A a \in Addr : ~heap[a].used  BY <2>1 DEF AllDone, Listed
  <2>3. slurm[j] # "absent"  BY <2>1, <2>2 DEF JobOK
  <2>4. slurm[j] \in SlurmState /\ slurm[j] \notin {"pending", "running"}  BY <1>1, <2>1, Types DEF AllDone
  <2>. QED  BY <2>1, <2>3, <2>4 DEF AllDone, SlurmState
<1>. QED  BY <1>1, EngineInvariance, PTL

=============================================================================
