-------------------------- MODULE FilmListsProofs --------------------------
(***************************************************************************)
(* Theorems about FilmLists.  IInv says that what a request has read is    *)
(* still so until another request changes the list (Fresh).  Every commit  *)
(* is summed up by Does: on what is so no row is in its way, whatever is   *)
(* so it keeps the order of the others, and it makes or closes one gap.    *)
(* GInv adds where gaps can be.                                            *)
(***************************************************************************)
EXTENDS FilmLists, FiniteSetTheorems, WellFoundedInduction, TLAPS

Ops == {"add", "add_last", "remove", "move", "edit", "approve", "approve_save", "reject",
        "reject_normalize"}

\* A request that puts its item somewhere has a place for it, and one that finds
\* its item has a place where that was.
IsJob(j) ==
  \/ j = Idle
  \/ /\ DOMAIN j = {"op", "film", "at", "to", "trusted"}
     /\ j.op \in Ops /\ j.film \in Films
     /\ j.at \in 0 .. MaxOrder /\ j.to \in 0 .. MaxOrder + 1 /\ j.trusted \in BOOLEAN
     /\ j.op \in {"add", "add_last", "move", "edit", "approve", "approve_save"} => j.to # 0
     /\ j.op \notin {"add", "add_last"} => j.at # 0

TypeInv ==
  /\ order \in [Films -> 0 .. MaxOrder]
  /\ approved \subseteq OnList(order)
  /\ DOMAIN job = Threads /\ \A t \in Threads : IsJob(job[t])
  /\ stale \subseteq {t \in Threads : job[t] # Idle} /\ gone \subseteq stale
  /\ torn \in BOOLEAN /\ skipped \in BOOLEAN

\* A place that is no further than just after the item of a film of S.
Reached(n, S) == n = 1 \/ \E g \in S : order[g] = n - 1

\* What the request j has read is still so.
IsSo(j) ==
  /\ j.op \in {"add", "add_last"} => order[j.film] = 0
  /\ j.op = "add" => Reached(j.to, Films)
  /\ j.op = "add_last" => Reached(j.to, Films) /\ \A g \in Films : order[g] < j.to
  /\ j.op \in {"remove", "move", "edit", "approve", "reject"} => order[j.film] = j.at
  /\ j.op = "move" => j.to # j.at /\ \E g \in Films : order[g] >= j.to
  /\ j.op = "edit" => j.to = j.at
  /\ j.op = "approve" => /\ j.trusted <=> j.film \in approved
                         /\ Reached(j.to, approved)
  /\ j.op = "approve_save" => order[j.film] # 0 /\ \A g \in Films : order[g] # j.to
  /\ j.op = "reject_normalize" => order[j.film] = 0 /\ \A g \in Films : order[g] # j.at

Fresh == \A t \in Threads \ stale : job[t] # Idle => IsSo(job[t])

\* The orders are 1 .. n, or all of them but one that is kept free of a film's.
InSequence(o) ==
  \E n \in Nat : (\A f \in Films : o[f] <= n) /\ \A k \in 1 .. n : \E g \in Films : o[g] = k
GapAt(o, hole, x) ==
  \E n \in Nat : /\ hole \in 1 .. n
                 /\ \A f \in Films \ {x} : o[f] <= n /\ o[f] # hole
                 /\ \A k \in (1 .. n) \ {hole} : \E g \in Films \ {x} : o[g] = k

Mid(t)    == job[t].op \in {"approve_save", "reject_normalize"}
HoleOf(j) == IF j.op = "approve_save" THEN j.to ELSE j.at
InOrder ==
  \/ (\A t \in Threads : ~Mid(t)) /\ InSequence(order)
  \/ \E t \in Threads : /\ Mid(t) /\ \A u \in Threads \ {t} : ~Mid(u)
                        /\ GapAt(order, HoleOf(job[t]), job[t].film)

IInv == TypeInv /\ Distinct(order) /\ Fresh
GInv == IInv /\ (~torn /\ ~skipped /\ stale = {} => InOrder)

-----------------------------------------------------------------------------
(* The places that requests choose *)

\* A set of numbers that has a bound has a greatest.
LEMMA Greatest ==
  ASSUME NEW S, S \subseteq Nat, S # {}, NEW b \in Nat, \A n \in S : n <= b
  PROVE  Max(S) \in S /\ \A n \in S : n <= Max(S)
<1> DEFINE D == {b - n : n \in S}
<1>1. D \subseteq Nat /\ D # {}
  <2>1. ASSUME NEW n \in S PROVE b - n \in Nat
    <3>1. n \in Nat /\ n <= b
      OBVIOUS
    <3> QED
      BY <3>1
  <2> QED
    BY <2>1
<1>2. PICK d \in D : \A c \in D : ~(<<c, d>> \in OpToRel(<, Nat))
  <2> HIDE DEF D
  <2> QED
    BY <1>1, NatLessThanWellFounded, WFMin
<1>3. PICK m \in S : d = b - m
  BY <1>2
<1>4. ASSUME NEW n \in S PROVE m >= n
  <2>1. b - n \in D /\ b - n \in Nat /\ d \in Nat
    BY <1>1, <1>2
  <2>2. ~(b - n < d)
    BY <1>2, <2>1 DEF OpToRel
  <2>3. n \in Nat /\ m \in Nat
    OBVIOUS
  <2> QED
    BY <1>3, <2>1, <2>2, <2>3
<1>5. Max(S) \in S /\ \A n \in S : Max(S) >= n
  BY <1>4 DEF Max
<1>6. \A n \in S : n \in Nat
  OBVIOUS
<1> QED
  BY <1>5, <1>6

LEMMA HighestIsReached ==
  ASSUME TypeInv, NEW S \in SUBSET Films
  PROVE  /\ Highest(S) \in 0 .. MaxOrder /\ \A f \in S : order[f] <= Highest(S)
         /\ Highest(S) = 0 \/ \E f \in S : order[f] = Highest(S)
<1> DEFINE T == {order[f] : f \in S} \cup {0}
<1>1. \A n \in T : n \in 0 .. MaxOrder
  BY FilmAssumption DEF TypeInv
<1>2. Max(T) \in T /\ \A n \in T : n <= Max(T)
  <2>1. T \subseteq Nat /\ T # {} /\ MaxOrder \in Nat /\ \A n \in T : n <= MaxOrder
    BY <1>1, FilmAssumption
  <2> HIDE DEF T
  <2> QED
    BY <2>1, Greatest
<1>3. Highest(S) = Max(T)
  BY DEF Highest
<1>4. \A f \in S : order[f] \in T
  OBVIOUS
<1>5. Max(T) = 0 \/ \E f \in S : order[f] = Max(T)
  BY <1>2
<1> HIDE DEF T
<1> QED
  BY <1>1, <1>2, <1>3, <1>4, <1>5

\* The least of two.
LEMMA Least ==
  ASSUME NEW m \in Nat, NEW n \in Nat
  PROVE  Min({m, n}) \in {m, n} /\ Min({m, n}) <= m /\ Min({m, n}) <= n
<1>1. \E x \in {m, n} : \A y \in {m, n} : x =< y
  <2>1. CASE m <= n
    BY <2>1
  <2>2. CASE n <= m
    BY <2>2
  <2> QED
    BY <2>1, <2>2
<1>2. Min({m, n}) \in {m, n} /\ \A y \in {m, n} : Min({m, n}) =< y
  BY <1>1 DEF Min
<1> QED
  BY <1>2

-----------------------------------------------------------------------------
(* A request begins with what is so *)

\* Nobody else's request, and nothing that it has read, changes.
LEMMA BeginIsFresh ==
  ASSUME IInv, NEW t \in Threads, NEW op \in Ops, NEW f \in Films, NEW to \in 0 .. MaxOrder + 1,
         NEW trusted \in BOOLEAN, Begin(t, op, f, to, trusted),
         op \in {"add", "add_last", "move", "edit", "approve", "approve_save"} => to # 0,
         op \notin {"add", "add_last"} => order[f] # 0,
         IsSo([op |-> op, film |-> f, at |-> order[f], to |-> to, trusted |-> trusted])
  PROVE  IInv' /\ t \notin stale
<1>1. PICK j : j = [op |-> op, film |-> f, at |-> order[f], to |-> to, trusted |-> trusted]
  OBVIOUS
<1>2. /\ job[t] = Idle /\ job' = [job EXCEPT ![t] = j]
      /\ UNCHANGED <<order, approved, curation, stale, gone, torn, skipped, refused>>
  BY <1>1 DEF Begin, list, history
<1>3. t \notin stale
  BY <1>2 DEF IInv, TypeInv
<1>4. IsJob(j) /\ j # Idle
  BY <1>1 DEF IsJob, Idle, Ops, IInv, TypeInv
<1>5. DOMAIN job = Threads /\ job'[t] = j /\ \A u \in Threads : u # t => job'[u] = job[u]
  BY <1>2 DEF IInv, TypeInv
<1>6. TypeInv'
  BY <1>2, <1>4, <1>5 DEF IInv, TypeInv
<1>7. Fresh'
  <2> SUFFICES ASSUME NEW u \in Threads, u \notin stale, job'[u] # Idle PROVE IsSo(job[u])'
    BY <1>2 DEF Fresh
  <2>1. IsSo(job'[u])
    BY <1>1, <1>3, <1>5 DEF IInv, Fresh
  <2> QED
    BY <1>2, <2>1 DEF IsSo, Reached
<1> QED
  BY <1>2, <1>3, <1>6, <1>7 DEF IInv, Distinct, OnList

LEMMA BeginIInv ==
  ASSUME IInv, NEW t \in Threads, BeginSome(t)
  PROVE  /\ IInv' /\ t \notin stale
         /\ UNCHANGED <<order, approved, stale, torn, skipped, refused>>
         /\ job[t] = Idle /\ job' = [job EXCEPT ![t] = job'[t]] /\ ~Mid(t)'
<1>0. /\ order \in [Films -> 0 .. MaxOrder] /\ approved \subseteq Films /\ DOMAIN job = Threads
      /\ MaxOrder \in Nat /\ \A f \in approved : order[f] # 0
  BY FilmAssumption DEF IInv, TypeInv, OnList
<1>1. ASSUME NEW S \in SUBSET Films
      PROVE  /\ Highest(S) + 1 \in 1 .. MaxOrder + 1 /\ Reached(Highest(S) + 1, S)
             /\ \A g \in S : order[g] < Highest(S) + 1
  <2>1. /\ Highest(S) \in 0 .. MaxOrder /\ \A f \in S : order[f] <= Highest(S)
        /\ Highest(S) = 0 \/ \E f \in S : order[f] = Highest(S)
    BY HighestIsReached DEF IInv
  <2>2. (Highest(S) + 1) - 1 = Highest(S)
    BY <2>1
  <2>3. Highest(S) + 1 \in 1 .. MaxOrder + 1 /\ \A g \in S : order[g] < Highest(S) + 1
    BY <1>0, <2>1
  <2>4. Reached(Highest(S) + 1, S)
    BY <2>1, <2>2 DEF Reached
  <2> QED
    BY <2>3, <2>4
<1>2. ASSUME NEW op \in Ops \ {"approve_save", "reject_normalize"}, NEW f \in Films,
             NEW to, NEW trusted, Begin(t, op, f, to, trusted)
      PROVE  /\ UNCHANGED <<order, approved, stale, torn, skipped, refused>>
             /\ job[t] = Idle /\ job' = [job EXCEPT ![t] = job'[t]] /\ ~Mid(t)'
  BY <1>0, <1>2 DEF Begin, list, history, Mid
<1>3. ASSUME NEW f \in Films, NEW trusted \in BOOLEAN, AddBegin(t, f, trusted)
      PROVE  \E op \in {"add", "add_last"}, to \in 1 .. MaxOrder + 1, b \in BOOLEAN :
               /\ Begin(t, op, f, to, b) /\ order[f] = 0 /\ Reached(to, Films)
               /\ op = "add_last" => \A g \in Films : order[g] < to
  <2>1. CASE curation = "curated"
    <3>1. Begin(t, "add_last", f, Highest(Films) + 1, trusted)
      BY <1>3, <2>1 DEF AddBegin
    <3> QED
      BY <1>1, <1>3, <3>1 DEF AddBegin
  <2>2. CASE curation # "curated"
    <3>1. Begin(t, "add", f, Highest(approved) + 1, TRUE)
      BY <1>3, <2>2 DEF AddBegin
    <3>2. Reached(Highest(approved) + 1, Films)
      BY <1>0, <1>1 DEF Reached
    <3> QED
      BY <1>0, <1>1, <1>3, <3>1, <3>2 DEF AddBegin
  <2> QED
    BY <2>1, <2>2
<1>4. ASSUME NEW f \in Films, NEW n \in 1 .. MaxOrder, MoveBegin(t, f, n)
      PROVE  \E to \in 1 .. MaxOrder : /\ Begin(t, "move", f, to, TRUE) /\ to # order[f]
                                       /\ \E g \in Films : order[g] >= to
  <2>1. PICK h : h = Highest(approved)
    OBVIOUS
  <2>2. /\ h \in 0 .. MaxOrder /\ order[f] <= h
        /\ h = 0 \/ \E g \in approved : order[g] = h
    BY <1>0, <1>4, <2>1, HighestIsReached DEF MoveBegin, IInv
  <2>3. h # 0 /\ h \in Nat /\ n \in Nat
    BY <1>0, <1>4, <2>2 DEF MoveBegin
  <2>4. PICK to : to = Min({n, h})
    OBVIOUS
  <2>5. to \in {n, h} /\ to <= h
    BY <2>3, <2>4, Least
  <2>6. to \in 1 .. MaxOrder
    BY <1>0, <2>2, <2>3, <2>5
  <2>7. Begin(t, "move", f, to, TRUE) /\ to # order[f]
    BY <1>4, <2>1, <2>4 DEF MoveBegin
  <2>8. \E g \in Films : order[g] >= to
    BY <1>0, <2>2, <2>3, <2>5
  <2> QED
    BY <2>6, <2>7, <2>8
<1>5. IInv' /\ t \notin stale
  <2>1. ASSUME NEW f \in Films, NEW trusted \in BOOLEAN, AddBegin(t, f, trusted)
        PROVE  IInv' /\ t \notin stale
    <3>1. PICK op \in {"add", "add_last"}, to \in 1 .. MaxOrder + 1, b \in BOOLEAN :
            /\ Begin(t, op, f, to, b) /\ order[f] = 0 /\ Reached(to, Films)
            /\ op = "add_last" => \A g \in Films : order[g] < to
      BY <1>3, <2>1
    <3>2. IsSo([op |-> op, film |-> f, at |-> order[f], to |-> to, trusted |-> b])
      BY <3>1 DEF IsSo
    <3>3. to \in 0 .. MaxOrder + 1 /\ to # 0 /\ op \in Ops
      BY <1>0 DEF Ops
    <3> QED
      BY <3>1, <3>2, <3>3, BeginIsFresh
  <2>2. ASSUME NEW f \in Films, NEW n \in 1 .. MaxOrder, MoveBegin(t, f, n)
        PROVE  IInv' /\ t \notin stale
    <3>1. PICK to \in 1 .. MaxOrder : /\ Begin(t, "move", f, to, TRUE) /\ to # order[f]
                                      /\ \E g \in Films : order[g] >= to
      BY <1>4, <2>2
    <3>2. IsSo([op |-> "move", film |-> f, at |-> order[f], to |-> to, trusted |-> TRUE])
      BY <3>1 DEF IsSo
    <3>3. to \in 0 .. MaxOrder + 1 /\ to # 0 /\ "move" \in Ops /\ order[f] # 0
      BY <1>0, <2>2 DEF Ops, MoveBegin
    <3> QED
      BY <3>1, <3>2, <3>3, BeginIsFresh
  <2>3. ASSUME NEW f \in Films, NEW op \in {"remove", "reject"}, order[f] # 0,
               Begin(t, op, f, 0, TRUE)
        PROVE  IInv' /\ t \notin stale
    <3>1. IsSo([op |-> op, film |-> f, at |-> order[f], to |-> 0, trusted |-> TRUE])
      BY <2>3 DEF IsSo
    <3>2. 0 \in 0 .. MaxOrder + 1 /\ op \in Ops
      BY <1>0 DEF Ops
    <3> QED
      BY <2>3, <3>1, <3>2, BeginIsFresh
  <2>4. ASSUME NEW f \in Films, EditBegin(t, f)
        PROVE  IInv' /\ t \notin stale
    <3>1. PICK n : n = order[f]
      OBVIOUS
    <3>2. n \in 0 .. MaxOrder + 1 /\ n # 0 /\ "edit" \in Ops
      BY <1>0, <2>4, <3>1 DEF Ops, EditBegin
    <3>4. Begin(t, "edit", f, n, TRUE)
      BY <2>4, <3>1 DEF EditBegin
    <3>3. IsSo([op |-> "edit", film |-> f, at |-> order[f], to |-> n, trusted |-> TRUE])
      BY <3>1 DEF IsSo
    <3> QED
      BY <3>1, <3>2, <3>3, <3>4, BeginIsFresh
  <2>5. ASSUME NEW f \in Films, ApproveBegin(t, f)
        PROVE  IInv' /\ t \notin stale
    <3>1. PICK n : n = Highest(approved) + 1
      OBVIOUS
    <3>2. PICK b : b = (f \in approved)
      OBVIOUS
    <3>3. n \in 1 .. MaxOrder + 1 /\ Reached(n, approved)
      BY <1>0, <1>1, <3>1
    <3>4. /\ n \in 0 .. MaxOrder + 1 /\ n # 0 /\ "approve" \in Ops /\ order[f] # 0
          /\ b \in BOOLEAN /\ Begin(t, "approve", f, n, b)
      BY <1>0, <2>5, <3>1, <3>2, <3>3 DEF Ops, ApproveBegin
    <3>5. IsSo([op |-> "approve", film |-> f, at |-> order[f], to |-> n, trusted |-> b])
      BY <3>2, <3>3 DEF IsSo
    <3> QED
      BY <3>4, <3>5, BeginIsFresh
  <2> QED
    BY <1>0, <2>1, <2>2, <2>3, <2>4, <2>5 DEF BeginSome, RemoveBegin, RejectBegin
<1>6. \E op \in Ops \ {"approve_save", "reject_normalize"}, f \in Films : \E to, b :
        Begin(t, op, f, to, b)
  BY DEF BeginSome, AddBegin, MoveBegin, RemoveBegin, EditBegin, ApproveBegin, RejectBegin, Ops
<1> QED
  BY <1>2, <1>5, <1>6

-----------------------------------------------------------------------------
(* What the helpers make of a table of orders *)

\* Other films than x come in the same order as before, as far as none of them
\* share a place.
KeepsOrder(p, o, x) ==
  \A f, g \in (OnList(p) \cap OnList(o)) \ {x} : p[f] < p[g] => o[f] < o[g]

\* Not to fall behind is enough where places are not shared.
LEMMA WeaklyKept ==
  ASSUME NEW p \in [Films -> Nat], NEW o \in [Films -> Nat], NEW x, Distinct(o),
         \A f, g \in (OnList(p) \cap OnList(o)) \ {x} : p[f] < p[g] => o[f] <= o[g]
  PROVE  KeepsOrder(p, o, x)
<1> SUFFICES ASSUME NEW f \in (OnList(p) \cap OnList(o)) \ {x},
                    NEW g \in (OnList(p) \cap OnList(o)) \ {x}, p[f] < p[g]
             PROVE  o[f] < o[g]
  BY DEF KeepsOrder
<1>1. f \in Films /\ g \in Films /\ f # g
  BY DEF OnList
<1>2. o[f] \in Nat /\ o[g] \in Nat /\ o[f] <= o[g]
  BY <1>1
<1>3. o[f] # o[g]
  BY <1>1 DEF Distinct
<1> QED
  BY <1>2, <1>3

\* Room is made by moving a stretch one place up, and taken by moving it down.
LEMMA RoomKeepsOrder ==
  ASSUME NEW p \in [Films -> Nat], NEW o \in [Films -> Nat], NEW x, Distinct(o),
         NEW s \in Nat, NEW e \in Nat,
         \/ \A g \in Films \ {x} : o[g] = IF p[g] >= s /\ p[g] < e THEN p[g] + 1 ELSE p[g]
         \/ \A g \in Films \ {x} : o[g] = IF p[g] > s /\ p[g] <= e THEN p[g] - 1 ELSE p[g]
  PROVE  KeepsOrder(p, o, x)
<1>1. ASSUME NEW f \in (OnList(p) \cap OnList(o)) \ {x},
             NEW g \in (OnList(p) \cap OnList(o)) \ {x}, p[f] < p[g]
      PROVE  o[f] <= o[g]
  <2>1. f \in Films \ {x} /\ g \in Films \ {x} /\ p[f] \in Nat /\ p[g] \in Nat
    BY DEF OnList
  <2> QED
    BY <1>1, <2>1
<1> QED
  BY <1>1, WeaklyKept

\* x comes in at place n.
LEMMA Inserted ==
  ASSUME NEW p \in [Films -> Nat], Distinct(p), NEW x \in Films, p[x] = 0,
         NEW n \in Nat, n # 0, NEW o \in [Films -> Nat], o[x] = n,
         \A g \in Films \ {x} : o[g] = IF p[g] >= n THEN p[g] + 1 ELSE p[g]
  PROVE  /\ Distinct(o)
         /\ InSequence(p) /\ (n = 1 \/ \E g \in Films : p[g] = n - 1) => InSequence(o)
<1>1. Distinct(o)
  <2> SUFFICES ASSUME NEW f \in Films, NEW g \in Films, o[f] # 0, o[g] # 0, f # g
               PROVE  o[f] # o[g]
    BY DEF Distinct, OnList
  <2>1. p[f] \in Nat /\ p[g] \in Nat
    OBVIOUS
  <2>2. CASE f = x \/ g = x
    BY <2>1, <2>2
  <2>3. CASE f # x /\ g # x
    <3>1. p[f] = 0 \/ p[g] = 0 \/ p[f] # p[g]
      BY DEF Distinct, OnList
    <3> QED
      BY <2>1, <2>3, <3>1
  <2> QED
    BY <2>2, <2>3
<1>2. ASSUME InSequence(p), n = 1 \/ \E g \in Films : p[g] = n - 1
      PROVE  InSequence(o)
  <2>1. PICK m \in Nat : /\ \A f \in Films : p[f] <= m
                         /\ \A k \in 1 .. m : \E g \in Films : p[g] = k
    BY <1>2 DEF InSequence
  <2>2. n <= m + 1
    BY <1>2, <2>1
  <2>3. \A f \in Films : o[f] <= m + 1
    BY <2>1, <2>2
  <2>4. ASSUME NEW k \in 1 .. m + 1 PROVE \E g \in Films : o[g] = k
    <3>1. CASE k = n
      BY <3>1
    <3>2. CASE k < n
      <4>1. k \in 1 .. m
        BY <2>2, <3>2
      <4>2. PICK g \in Films : p[g] = k
        BY <2>1, <4>1
      <4> QED
        BY <3>2, <4>2
    <3>3. CASE k > n
      <4>1. k - 1 \in 1 .. m /\ k - 1 >= n
        BY <2>2, <3>3
      <4>2. PICK g \in Films : p[g] = k - 1
        BY <2>1, <4>1
      <4>3. g # x /\ o[g] = (k - 1) + 1
        BY <4>1, <4>2
      <4> QED
        BY <4>3
    <3> QED
      BY <3>1, <3>2, <3>3
  <2>5. m + 1 \in Nat
    BY <2>1
  <2> QED
    BY <2>3, <2>4, <2>5 DEF InSequence
<1> QED
  BY <1>1, <1>2

\* x goes from its place to another.
LEMMA MovedTable ==
  ASSUME NEW p \in [Films -> Nat], Distinct(p), NEW x \in Films, p[x] # 0,
         NEW n \in Nat, n # 0, n # p[x], NEW o \in [Films -> Nat], o[x] = n,
         \A g \in Films \ {x} :
           o[g] = IF p[x] > n THEN (IF p[g] >= n /\ p[g] < p[x] THEN p[g] + 1 ELSE p[g])
                  ELSE (IF p[g] > p[x] /\ p[g] <= n THEN p[g] - 1 ELSE p[g])
  PROVE  /\ Distinct(o)
         /\ InSequence(p) /\ (\E g \in Films : p[g] >= n) => InSequence(o)
<1>1. \A g \in Films \ {x} : p[g] # p[x] /\ p[g] \in Nat
  BY DEF Distinct, OnList
<1>2. Distinct(o)
  <2> SUFFICES ASSUME NEW f \in Films, NEW g \in Films, o[f] # 0, o[g] # 0, f # g
               PROVE  o[f] # o[g]
    BY DEF Distinct, OnList
  <2>1. p[f] \in Nat /\ p[g] \in Nat /\ p[x] \in Nat
    OBVIOUS
  <2>2. CASE f = x
    BY <1>1, <2>1, <2>2
  <2>3. CASE g = x
    BY <1>1, <2>1, <2>3
  <2>4. CASE f # x /\ g # x
    <3>1. p[f] = 0 \/ p[g] = 0 \/ p[f] # p[g]
      BY DEF Distinct, OnList
    <3>2. p[f] # p[x] /\ p[g] # p[x]
      BY <1>1, <2>4
    <3> QED
      BY <2>1, <2>4, <3>1, <3>2
  <2> QED
    BY <2>2, <2>3, <2>4
<1>3. ASSUME InSequence(p), \E g \in Films : p[g] >= n
      PROVE  InSequence(o)
  <2>1. PICK m \in Nat : /\ \A f \in Films : p[f] <= m
                         /\ \A k \in 1 .. m : \E g \in Films : p[g] = k
    BY <1>3 DEF InSequence
  <2>2. n <= m /\ p[x] <= m /\ p[x] \in Nat
    BY <1>3, <2>1
  <2>3. \A f \in Films : o[f] <= m
    <3> SUFFICES ASSUME NEW f \in Films PROVE o[f] <= m
      OBVIOUS
    <3>1. CASE f = x
      BY <2>2, <3>1
    <3>2. CASE f # x
      BY <1>1, <2>1, <2>2, <3>2
    <3> QED
      BY <3>1, <3>2
  <2>4. ASSUME NEW k \in 1 .. m, NEW i \in 1 .. m, i # p[x],
               k = IF p[x] > n THEN (IF i >= n /\ i < p[x] THEN i + 1 ELSE i)
                   ELSE (IF i > p[x] /\ i <= n THEN i - 1 ELSE i)
        PROVE  \E g \in Films : o[g] = k
    <3>1. PICK g \in Films : p[g] = i
      BY <2>1
    <3> QED
      BY <2>4, <3>1
  <2>5. ASSUME NEW k \in 1 .. m PROVE \E g \in Films : o[g] = k
    <3>1. CASE k = n
      BY <3>1
    <3>2. CASE k # n
      <4>1. PICK i \in Int : i = IF p[x] > n THEN (IF k > n /\ k <= p[x] THEN k - 1 ELSE k)
                                 ELSE (IF k >= p[x] /\ k < n THEN k + 1 ELSE k)
        OBVIOUS
      <4>2. i \in 1 .. m /\ i # p[x]
        BY <2>2, <3>2, <4>1
      <4>3. k = IF p[x] > n THEN (IF i >= n /\ i < p[x] THEN i + 1 ELSE i)
                ELSE (IF i > p[x] /\ i <= n THEN i - 1 ELSE i)
        BY <2>2, <3>2, <4>1
      <4> QED
        BY <2>4, <4>2, <4>3
    <3> QED
      BY <3>1, <3>2
  <2> QED
    BY <2>1, <2>3, <2>5 DEF InSequence
<1> QED
  BY <1>2, <1>3

\* As many films are between two places as there are places between them, where
\* none of those is free.
LEMMA Between ==
  ASSUME NEW o \in [Films -> Nat], Distinct(o), NEW a \in Nat, NEW b \in Nat, a < b,
         \A k \in a + 1 .. b - 1 : \E g \in Films : o[g] = k
  PROVE  Cardinality({g \in Films : o[g] > a /\ o[g] < b}) = b - a - 1
<1> DEFINE G == {g \in Films : o[g] > a /\ o[g] < b}
           I == a + 1 .. b - 1
           at == [g \in G |-> o[g]]
<1>1. IsFiniteSet(G)
  BY FilmAssumption, FS_Subset
<1>2. at \in [G -> I] /\ \A g \in G : at[g] = o[g]
  OBVIOUS
<1>3. \A f, g \in G : at[f] = at[g] => f = g
  BY <1>2 DEF Distinct, OnList
<1>4. \A k \in I : \E g \in G : at[g] = k
  <2> SUFFICES ASSUME NEW k \in I PROVE \E g \in G : at[g] = k
    OBVIOUS
  <2>1. PICK g \in Films : o[g] = k
    OBVIOUS
  <2>2. g \in G
    BY <2>1
  <2> QED
    BY <1>2, <2>1, <2>2
<1>5. ExistsBijection(G, I)
  <2> HIDE DEF at, G, I
  <2>1. at \in Injection(G, I)
    BY <1>2, <1>3 DEF Injection, IsInjective
  <2>2. at \in Surjection(G, I)
    BY <1>2, <1>4 DEF Surjection
  <2> QED
    BY <2>1, <2>2 DEF ExistsBijection, Bijection
<1>6. Cardinality(I) = Cardinality(G)
  <2> HIDE DEF G, I
  <2> QED
    BY <1>1, <1>5, FS_Bijection
<1>7. Cardinality(I) = b - a - 1
  <2>1. a + 1 \in Int /\ b - 1 \in Int /\ (a + 1 > b - 1 <=> b - a - 1 = 0)
    OBVIOUS
  <2> QED
    BY <2>1, FS_Interval
<1> QED
  BY <1>6, <1>7

\* In sequence, the orders are the numbers up to that of the items.
LEMMA CountedInSequence ==
  ASSUME NEW o \in [Films -> Nat], Distinct(o), InSequence(o)
  PROVE  {o[f] : f \in OnList(o)} = 1 .. Cardinality(OnList(o))
<1>1. PICK n \in Nat : /\ \A f \in Films : o[f] <= n
                       /\ \A k \in 1 .. n : \E g \in Films : o[g] = k
  BY DEF InSequence
<1>2. {o[f] : f \in OnList(o)} = 1 .. n
  BY <1>1 DEF OnList
<1>3. Cardinality({g \in Films : o[g] > 0 /\ o[g] < n + 1}) = n
  <2>1. n + 1 \in Nat /\ 0 < n + 1 /\ (n + 1) - 0 - 1 = n /\ (n + 1) - 1 = n /\ 0 + 1 = 1
    BY <1>1
  <2>2. \A k \in 0 + 1 .. (n + 1) - 1 : \E g \in Films : o[g] = k
    BY <1>1, <2>1
  <2>3. 0 \in Nat
    OBVIOUS
  <2>4. Cardinality({g \in Films : o[g] > 0 /\ o[g] < n + 1}) = (n + 1) - 0 - 1
    BY <2>1, <2>2, <2>3, Between
  <2> QED
    BY <2>1, <2>4
<1>4. {g \in Films : o[g] > 0 /\ o[g] < n + 1} = OnList(o)
  BY <1>1 DEF OnList
<1> QED
  BY <1>2, <1>3, <1>4

\* Normalizing keeps films after start apart and in their order, and never
\* moves one before start.
LEMMA NormalizedGrows ==
  ASSUME NEW o \in [Films -> Nat], NEW start \in Nat
  PROVE  /\ Normalized(o, start) \in [Films -> Nat]
         /\ \A f \in Films : o[f] <= start => Normalized(o, start)[f] = o[f]
         /\ \A f \in Films : o[f] > start => Normalized(o, start)[f] >= start
         /\ \A f, g \in Films : o[f] > start /\ o[f] < o[g]
                                => Normalized(o, start)[f] < Normalized(o, start)[g]
<1> DEFINE Below(f) == {g \in Films : o[g] > start /\ o[g] < o[f]}
           N == Normalized(o, start)
<1>1. \A f \in Films : N[f] = IF o[f] > start THEN start + Cardinality(Below(f)) ELSE o[f]
  BY DEF Normalized
<1>2. \A f \in Films : IsFiniteSet(Below(f)) /\ Cardinality(Below(f)) \in Nat
  <2> SUFFICES ASSUME NEW f \in Films
               PROVE  IsFiniteSet(Below(f)) /\ Cardinality(Below(f)) \in Nat
    OBVIOUS
  <2>1. Below(f) \in SUBSET Films
    OBVIOUS
  <2> QED
    BY <2>1, FilmAssumption, FS_Subset, FS_CardinalityType
<1>3. ASSUME NEW f \in Films, NEW g \in Films, o[f] > start, o[f] < o[g]
      PROVE  Cardinality(Below(f)) < Cardinality(Below(g))
  <2>1. Below(f) \in SUBSET Below(g) /\ f \in Below(g) /\ f \notin Below(f)
    BY <1>3
  <2> HIDE DEF Below
  <2>2. /\ Cardinality(Below(f)) <= Cardinality(Below(g))
        /\ Cardinality(Below(g)) = Cardinality(Below(f)) => Below(g) = Below(f)
    BY <1>2, <2>1, FS_Subset
  <2> QED
    BY <1>2, <2>1, <2>2
<1>4. DOMAIN N = Films /\ N = [f \in Films |-> N[f]]
  BY DEF Normalized
<1> HIDE DEF Below, N
<1>5. \A f \in Films : N[f] \in Nat
  BY <1>1, <1>2
<1>6. N \in [Films -> Nat]
  BY <1>4, <1>5
<1>7. \A f \in Films : o[f] > start => N[f] >= start
  BY <1>1, <1>2
<1>8. \A f, g \in Films : o[f] > start /\ o[f] < o[g] => N[f] < N[g]
  <2> SUFFICES ASSUME NEW f \in Films, NEW g \in Films, o[f] > start, o[f] < o[g]
               PROVE  N[f] < N[g]
    OBVIOUS
  <2>1. o[g] > start /\ N[f] = start + Cardinality(Below(f)) /\ N[g] = start + Cardinality(Below(g))
    BY <1>1
  <2> QED
    BY <1>2, <1>3, <2>1
<1> QED
  BY <1>1, <1>6, <1>7, <1>8 DEF N

LEMMA NormalizedTable ==
  ASSUME NEW o \in [Films -> Nat], Distinct(o), NEW start \in Nat, NEW x
  PROVE  /\ (\A g \in Films : o[g] # start) => Distinct(Normalized(o, start))
         /\ Distinct(Normalized(o, start)) => KeepsOrder(o, Normalized(o, start), x)
         /\ start # 0 => OnList(Normalized(o, start)) = OnList(o)
<1>1. PICK N : N = Normalized(o, start)
  OBVIOUS
<1>2. /\ N \in [Films -> Nat]
      /\ \A f \in Films : o[f] <= start => N[f] = o[f]
      /\ \A f \in Films : o[f] > start => N[f] >= start
      /\ \A f, g \in Films : o[f] > start /\ o[f] < o[g] => N[f] < N[g]
  BY <1>1, NormalizedGrows
<1>3. ASSUME \A g \in Films : o[g] # start PROVE Distinct(N)
  <2>1. ASSUME NEW f \in Films, NEW g \in Films, o[f] < o[g] PROVE N[f] # N[g]
    <3>1. o[f] \in Nat /\ o[g] \in Nat /\ N[f] \in Nat /\ N[g] \in Nat /\ o[f] # start
      BY <1>2, <1>3
    <3>2. CASE o[f] > start
      BY <1>2, <2>1, <3>1, <3>2
    <3>3. CASE o[f] < start
      <4>1. N[f] = o[f] /\ (N[g] = o[g] \/ N[g] >= start)
        BY <1>2, <3>1, <3>3
      <4> QED
        BY <2>1, <3>1, <3>3, <4>1
    <3> QED
      BY <3>1, <3>2, <3>3
  <2>2. ASSUME NEW f \in Films, N[f] # 0, o[f] = 0 PROVE FALSE
    BY <1>2, <2>2
  <2>3. ASSUME NEW f \in OnList(N), NEW g \in OnList(N), f # g PROVE N[f] # N[g]
    <3>1. f \in Films /\ g \in Films /\ o[f] # 0 /\ o[g] # 0
      BY <2>2 DEF OnList
    <3>2. o[f] # o[g] /\ o[f] \in Nat /\ o[g] \in Nat
      BY <2>3, <3>1 DEF Distinct, OnList
    <3> QED
      BY <2>1, <3>1, <3>2
  <2> QED
    BY <2>3 DEF Distinct
<1>4. ASSUME Distinct(N) PROVE KeepsOrder(o, N, x)
  <2>1. ASSUME NEW f \in Films, NEW g \in Films, o[f] < o[g] PROVE N[f] <= N[g]
    <3>1. o[f] \in Nat /\ o[g] \in Nat /\ N[f] \in Nat /\ N[g] \in Nat
      BY <1>2
    <3>2. CASE o[f] > start
      BY <1>2, <2>1, <3>1, <3>2
    <3>3. CASE o[f] <= start
      <4>1. N[f] = o[f] /\ (N[g] = o[g] \/ N[g] >= start)
        BY <1>2, <3>1, <3>3
      <4> QED
        BY <2>1, <3>1, <3>3, <4>1
    <3> QED
      BY <3>1, <3>2, <3>3
  <2> QED
    BY <1>2, <1>4, <2>1, WeaklyKept DEF OnList
<1>5. ASSUME start # 0 PROVE OnList(N) = OnList(o)
  <2> SUFFICES ASSUME NEW f \in Films PROVE N[f] # 0 <=> o[f] # 0
    BY DEF OnList
  <2>1. CASE o[f] <= start
    BY <1>2, <2>1
  <2>2. CASE o[f] > start
    <3>1. N[f] \in Nat /\ N[f] >= start /\ o[f] \in Nat
      BY <1>2, <2>2
    <3> QED
      BY <1>5, <2>2, <3>1
  <2>3. o[f] \in Nat
    OBVIOUS
  <2> QED
    BY <2>1, <2>2, <2>3
<1> QED
  BY <1>1, <1>3, <1>4, <1>5

\* Normalizing from a gap closes it.
LEMMA NormalizedCloses ==
  ASSUME NEW o \in [Films -> Nat], Distinct(o), NEW x \in Films, o[x] = 0, NEW hole \in Nat,
         GapAt(o, hole, x)
  PROVE  InSequence(Normalized(o, hole))
<1>1. PICK n \in Nat : /\ hole \in 1 .. n
                       /\ \A f \in Films \ {x} : o[f] <= n /\ o[f] # hole
                       /\ \A k \in (1 .. n) \ {hole} : \E g \in Films \ {x} : o[g] = k
  BY DEF GapAt
<1>2. PICK N : N = Normalized(o, hole)
  OBVIOUS
<1>3. ASSUME NEW f \in Films PROVE N[f] = IF o[f] > hole THEN o[f] - 1 ELSE o[f]
  <2>1. CASE o[f] <= hole
    BY <1>2, <2>1, NormalizedGrows
  <2>2. CASE o[f] > hole
    <3>1. o[f] \in Nat /\ o[f] <= n
      BY <1>1, <2>2
    <3>2. \A k \in hole + 1 .. o[f] - 1 : \E g \in Films : o[g] = k
      BY <1>1, <3>1
    <3>3. Cardinality({g \in Films : o[g] > hole /\ o[g] < o[f]}) = o[f] - hole - 1
      BY <2>2, <3>1, <3>2, Between
    <3>4. N[f] = hole + Cardinality({g \in Films : o[g] > hole /\ o[g] < o[f]})
      BY <1>2, <2>2 DEF Normalized
    <3>5. hole + (o[f] - hole - 1) = o[f] - 1
      BY <3>1
    <3> QED
      BY <2>2, <3>3, <3>4, <3>5
  <2>3. o[f] \in Nat
    OBVIOUS
  <2> QED
    BY <2>1, <2>2, <2>3
<1>4. n - 1 \in Nat
  BY <1>1
<1>5. ASSUME NEW f \in Films PROVE N[f] <= n - 1
  <2>1. o[f] \in Nat /\ (o[f] = 0 \/ (o[f] <= n /\ o[f] # hole))
    BY <1>1
  <2> QED
    BY <1>1, <1>3, <2>1
<1>6. ASSUME NEW k \in 1 .. n - 1 PROVE \E g \in Films : N[g] = k
  <2>1. CASE k < hole
    <3>1. k \in (1 .. n) \ {hole}
      BY <1>1, <2>1
    <3>2. PICK g \in Films : o[g] = k
      BY <1>1, <3>1
    <3> QED
      BY <1>3, <2>1, <3>2
  <2>2. CASE k >= hole
    <3>1. k + 1 \in (1 .. n) \ {hole} /\ k + 1 > hole /\ (k + 1) - 1 = k
      BY <1>1, <2>2
    <3>2. PICK g \in Films : o[g] = k + 1
      BY <1>1, <3>1
    <3>3. N[g] = (k + 1) - 1
      BY <1>3, <3>1, <3>2
    <3> QED
      BY <3>1, <3>3
  <2> QED
    BY <2>1, <2>2
<1> QED
  BY <1>2, <1>4, <1>5, <1>6 DEF InSequence

-----------------------------------------------------------------------------
(* What each commit does *)

\* t commits o and a, if they keep films apart and the row is free, and goes on
\* with next.  On fresh data it always can, and it makes or closes a gap.
Does(t, free, o, a, next) ==
  /\ Commit(t, free, o, a, next)
  /\ o \in [Films -> Nat] /\ a \in SUBSET OnList(o)
  /\ Distinct(o) => KeepsOrder(order, o, job[t].film)
  /\ t \notin stale => free /\ Distinct(o)
  /\ next # Idle =>
       /\ IsJob(next) /\ next.op \in {"approve_save", "reject_normalize"} /\ ~Mid(t)
       /\ t \notin stale /\ order' = o /\ approved' = a => IsSo(next)'
       /\ t \notin stale /\ ~skipped' => o # order
  /\ /\ t \notin stale /\ ~skipped'
     /\ IF Mid(t) THEN GapAt(order, HoleOf(job[t]), job[t].film) ELSE InSequence(order)
     => IF next = Idle THEN InSequence(o) ELSE GapAt(o, HoleOf(next), next.film)

LEMMA JobFacts ==
  ASSUME IInv, NEW t \in Threads, job[t].op \in Ops
  PROVE  /\ job[t] # Idle /\ IsJob(job[t]) /\ job[t].film \in Films
         /\ job[t].at \in 0 .. MaxOrder /\ job[t].to \in 0 .. MaxOrder + 1
         /\ job[t].at \in Nat /\ job[t].to \in Nat /\ MaxOrder \in Nat
         /\ job[t].op \in {"add", "add_last", "move", "edit", "approve", "approve_save"}
              => job[t].to # 0
         /\ job[t].op \notin {"add", "add_last"} => job[t].at # 0
         /\ t \notin stale => IsSo(job[t]) /\ t \notin gone
         /\ order \in [Films -> Nat] /\ Distinct(order) /\ approved \subseteq OnList(order)
         /\ \A g \in Films : order[g] <= MaxOrder /\ order[g] \in Nat
<1>1. job[t] # Idle
  BY DEF Ops, Idle
<1>2. IsJob(job[t])
  BY DEF IInv, TypeInv
<1>3. MaxOrder \in Nat /\ order \in [Films -> 0 .. MaxOrder]
  BY FilmAssumption DEF IInv, TypeInv
<1> QED
  BY <1>1, <1>2, <1>3 DEF IsJob, IInv, TypeInv, Fresh

LEMMA AddDoes ==
  ASSUME IInv, NEW t \in Threads, Add(t), UNCHANGED skipped
  PROVE  \E free, o, a, next : Does(t, free, o, a, next)
<1>1. job[t].op \in {"add", "add_last"} /\ job[t].op \in Ops /\ ~Mid(t)
  BY DEF Add, Ops, Mid
<1>2. PICK j : j = job[t]
  OBVIOUS
<1>3. PICK room : room = IF j.op = "add" THEN Incremented(order, j.to, MaxOrder + 1) ELSE order
  OBVIOUS
<1>4. PICK o : o = [room EXCEPT ![j.film] = j.to]
  OBVIOUS
<1>5. PICK a : a = IF j.trusted THEN approved \cup {j.film} ELSE approved
  OBVIOUS
<1>6. Commit(t, order[j.film] = 0, o, a, Idle)
  BY <1>2, <1>3, <1>4, <1>5 DEF Add, Saved
<1>7. /\ j.film \in Films /\ j.to \in Nat /\ j.to # 0 /\ MaxOrder \in Nat
      /\ t \notin stale => IsSo(j) /\ t \notin gone
      /\ order \in [Films -> Nat] /\ Distinct(order) /\ approved \subseteq OnList(order)
      /\ \A g \in Films : order[g] <= MaxOrder /\ order[g] \in Nat
  BY <1>1, <1>2, JobFacts
<1>8. room \in [Films -> Nat]
  BY <1>3, <1>7 DEF Incremented
<1>9. /\ o \in [Films -> Nat] /\ o[j.film] = j.to
      /\ \A g \in Films \ {j.film} :
           o[g] = IF j.op = "add" /\ order[g] >= j.to /\ order[g] < MaxOrder + 1
                  THEN order[g] + 1 ELSE order[g]
  BY <1>3, <1>4, <1>7, <1>8 DEF Incremented
<1>10. a \in SUBSET OnList(o)
  <2>1. \A g \in Films : order[g] # 0 => o[g] # 0
    BY <1>7, <1>9
  <2>2. o[j.film] # 0
    BY <1>7, <1>9
  <2> QED
    BY <1>5, <1>7, <2>1, <2>2 DEF OnList
<1>11. ASSUME Distinct(o) PROVE KeepsOrder(order, o, j.film)
  <2>1. CASE j.op = "add"
    <3>1. /\ MaxOrder + 1 \in Nat
          /\ \A g \in Films \ {j.film} :
               o[g] = IF order[g] >= j.to /\ order[g] < MaxOrder + 1 THEN order[g] + 1 ELSE order[g]
      BY <1>7, <1>9, <2>1
    <3> QED
      BY <1>7, <1>9, <1>11, <3>1, RoomKeepsOrder
  <2>2. CASE j.op # "add"
    <3>1. \A f, g \in (OnList(order) \cap OnList(o)) \ {j.film} : order[f] < order[g] => o[f] <= o[g]
      BY <1>7, <1>9, <2>2 DEF OnList
    <3> QED
      BY <1>7, <1>9, <1>11, <3>1, WeaklyKept
  <2> QED
    BY <2>1, <2>2
<1>12. ASSUME t \notin stale
       PROVE  /\ order[j.film] = 0 /\ Distinct(o)
              /\ InSequence(order) => InSequence(o)
  <2>1. /\ order[j.film] = 0 /\ Reached(j.to, Films)
        /\ j.op = "add_last" => \A g \in Films : order[g] < j.to
    BY <1>1, <1>2, <1>7, <1>12 DEF IsSo
  <2>2. \A g \in Films \ {j.film} : o[g] = IF order[g] >= j.to THEN order[g] + 1 ELSE order[g]
    BY <1>1, <1>2, <1>7, <1>9, <2>1
  <2> QED
    BY <1>7, <1>9, <2>1, <2>2, Inserted DEF Reached
<1>13. Does(t, order[j.film] = 0, o, a, Idle)
  BY <1>1, <1>2, <1>6, <1>9, <1>10, <1>11, <1>12 DEF Does
<1> QED
  BY <1>13

LEMMA MoveDoes ==
  ASSUME IInv, NEW t \in Threads, Move(t), UNCHANGED skipped
  PROVE  \E free, o, a, next : Does(t, free, o, a, next)
<1>1. job[t].op = "move" /\ job[t].op \in Ops /\ ~Mid(t)
  BY DEF Move, Ops, Mid
<1>2. PICK j : j = job[t]
  OBVIOUS
<1>3. PICK cleared : cleared = [order EXCEPT ![j.film] = 0]
  OBVIOUS
<1>4. PICK room : room = IF j.at > j.to THEN Incremented(cleared, j.to, j.at)
                         ELSE Decremented(cleared, j.at, j.to)
  OBVIOUS
<1>5. PICK o : o = [room EXCEPT ![j.film] = j.to]
  OBVIOUS
<1>6. Commit(t, RowIsFree(t), o, approved \cup {j.film}, Idle)
  BY <1>2, <1>3, <1>4, <1>5 DEF Move, Saved
<1>7. /\ j.film \in Films /\ j.to \in Nat /\ j.to # 0 /\ j.at \in Nat /\ j.at # 0
      /\ t \notin stale => IsSo(j) /\ t \notin gone
      /\ order \in [Films -> Nat] /\ Distinct(order) /\ approved \subseteq OnList(order)
      /\ \A g \in Films : order[g] \in Nat
  BY <1>1, <1>2, JobFacts
<1>8. /\ cleared \in [Films -> Nat] /\ cleared[j.film] = 0
      /\ \A g \in Films \ {j.film} : cleared[g] = order[g]
  BY <1>3, <1>7
<1>9. /\ room \in [Films -> Nat]
      /\ \A g \in Films \ {j.film} :
           room[g] = IF j.at > j.to
                     THEN (IF order[g] >= j.to /\ order[g] < j.at THEN order[g] + 1 ELSE order[g])
                     ELSE (IF order[g] > j.at /\ order[g] <= j.to THEN order[g] - 1 ELSE order[g])
  <2>1. CASE j.at > j.to
    BY <1>4, <1>7, <1>8, <2>1 DEF Incremented
  <2>2. CASE ~(j.at > j.to)
    <3>1. \A g \in Films : cleared[g] > j.at => cleared[g] - 1 \in Nat
      BY <1>7, <1>8
    <3>2. room = Decremented(cleared, j.at, j.to)
      BY <1>4, <2>2
    <3> QED
      BY <1>7, <1>8, <2>2, <3>1, <3>2 DEF Decremented
  <2> QED
    BY <2>1, <2>2
<1>10. /\ o \in [Films -> Nat] /\ o[j.film] = j.to
       /\ \A g \in Films \ {j.film} : o[g] = room[g]
  BY <1>5, <1>7, <1>9
<1>11. approved \cup {j.film} \in SUBSET OnList(o)
  <2>1. \A g \in Films : order[g] # 0 => o[g] # 0
    <3> SUFFICES ASSUME NEW g \in Films, order[g] # 0 PROVE o[g] # 0
      OBVIOUS
    <3>1. CASE g = j.film
      BY <1>7, <1>10, <3>1
    <3>2. CASE g # j.film
      BY <1>7, <1>9, <1>10, <3>2
    <3> QED
      BY <3>1, <3>2
  <2>2. o[j.film] # 0
    BY <1>7, <1>10
  <2> QED
    BY <1>7, <2>1, <2>2 DEF OnList
<1>12. ASSUME Distinct(o) PROVE KeepsOrder(order, o, j.film)
  <2>1. \/ \A g \in Films \ {j.film} : o[g] = IF order[g] >= j.to /\ order[g] < j.at
                                              THEN order[g] + 1 ELSE order[g]
        \/ \A g \in Films \ {j.film} : o[g] = IF order[g] > j.at /\ order[g] <= j.to
                                              THEN order[g] - 1 ELSE order[g]
    BY <1>9, <1>10
  <2>2. CASE \A g \in Films \ {j.film} : o[g] = IF order[g] >= j.to /\ order[g] < j.at
                                              THEN order[g] + 1 ELSE order[g]
    BY <1>7, <1>10, <1>12, <2>2, RoomKeepsOrder
  <2>3. CASE \A g \in Films \ {j.film} : o[g] = IF order[g] > j.at /\ order[g] <= j.to
                                              THEN order[g] - 1 ELSE order[g]
    BY <1>7, <1>10, <1>12, <2>3, RoomKeepsOrder
  <2> QED
    BY <2>1, <2>2, <2>3
<1>13. ASSUME t \notin stale
       PROVE  /\ RowIsFree(t) /\ Distinct(o)
              /\ InSequence(order) => InSequence(o)
  <2>1. /\ order[j.film] = j.at /\ j.to # j.at /\ \E g \in Films : order[g] >= j.to
    BY <1>1, <1>2, <1>7, <1>13 DEF IsSo
  <2>2. RowIsFree(t)
    BY <1>7, <1>13 DEF RowIsFree
  <2>3. \A g \in Films \ {j.film} :
          o[g] = IF order[j.film] > j.to
                 THEN (IF order[g] >= j.to /\ order[g] < order[j.film] THEN order[g] + 1 ELSE order[g])
                 ELSE (IF order[g] > order[j.film] /\ order[g] <= j.to THEN order[g] - 1 ELSE order[g])
    BY <1>9, <1>10, <2>1
  <2> QED
    BY <1>7, <1>10, <2>1, <2>2, <2>3, MovedTable
<1>14. Does(t, RowIsFree(t), o, approved \cup {j.film}, Idle)
  BY <1>1, <1>2, <1>6, <1>10, <1>11, <1>12, <1>13 DEF Does
<1> QED
  BY <1>14

\* A film that has left the list leaves a gap where it was.
LEMMA GapOfOne ==
  ASSUME NEW p \in [Films -> Nat], Distinct(p), NEW x \in Films, p[x] # 0, InSequence(p),
         NEW o \in [Films -> Nat], \A g \in Films \ {x} : o[g] = p[g]
  PROVE  GapAt(o, p[x], x)
<1>1. PICK n \in Nat : /\ \A f \in Films : p[f] <= n
                       /\ \A k \in 1 .. n : \E g \in Films : p[g] = k
  BY DEF InSequence
<1>2. p[x] \in 1 .. n
  <2>1. p[x] \in Nat /\ p[x] <= n
    BY <1>1
  <2> QED
    BY <2>1
<1>3. \A f \in Films \ {x} : o[f] <= n /\ o[f] # p[x]
  BY <1>1 DEF Distinct, OnList
<1>4. ASSUME NEW k \in (1 .. n) \ {p[x]} PROVE \E g \in Films \ {x} : o[g] = k
  BY <1>1
<1> QED
  BY <1>2, <1>3, <1>4 DEF GapAt

\* Taking one film off the table changes nothing for others.
LEMMA TakenOff ==
  ASSUME IInv, NEW t \in Threads, job[t].op \in Ops,
         NEW o, o = Without(t, order), NEW a, a = StillApproved(t)
  PROVE  /\ o \in [Films -> Nat] /\ Distinct(o) /\ a \in SUBSET OnList(o)
         /\ \A g \in Films \ {job[t].film} : o[g] = order[g]
         /\ t \notin gone => o[job[t].film] = 0
         /\ KeepsOrder(order, o, job[t].film)
<1>1. /\ job[t].film \in Films /\ order \in [Films -> Nat] /\ Distinct(order)
      /\ approved \subseteq OnList(order)
  BY JobFacts
<1>2. CASE t \in gone
  BY <1>1, <1>2 DEF Without, StillApproved, KeepsOrder
<1>3. CASE t \notin gone
  <2>1. o = [order EXCEPT ![job[t].film] = 0] /\ a = approved \ {job[t].film}
    BY <1>3 DEF Without, StillApproved
  <2> QED
    BY <1>1, <2>1 DEF Distinct, OnList, KeepsOrder
<1> QED
  BY <1>2, <1>3

LEMMA RemoveDoes ==
  ASSUME IInv, NEW t \in Threads, Remove(t), UNCHANGED skipped
  PROVE  \E free, o, a, next : Does(t, free, o, a, next)
<1>1. job[t].op = "remove" /\ job[t].op \in Ops /\ ~Mid(t)
  BY DEF Remove, Ops, Mid
<1>2. PICK j : j = job[t]
  OBVIOUS
<1>3. PICK p : p = Without(t, order)
  OBVIOUS
<1>4. PICK a : a = StillApproved(t)
  OBVIOUS
<1>5. PICK o : o = Normalized(p, j.at)
  OBVIOUS
<1>6. Commit(t, TRUE, o, a, Idle)
  BY <1>2, <1>3, <1>4, <1>5 DEF Remove
<1>7. /\ j.film \in Films /\ j.at \in Nat /\ j.at # 0
      /\ t \notin stale => IsSo(j) /\ t \notin gone
      /\ order \in [Films -> Nat] /\ Distinct(order)
  BY <1>1, <1>2, JobFacts
<1>8. /\ p \in [Films -> Nat] /\ Distinct(p) /\ a \in SUBSET OnList(p)
      /\ \A g \in Films \ {j.film} : p[g] = order[g]
      /\ t \notin gone => p[j.film] = 0
      /\ KeepsOrder(order, p, j.film)
  BY <1>1, <1>2, <1>3, <1>4, TakenOff
<1>9. /\ o \in [Films -> Nat] /\ OnList(o) = OnList(p)
      /\ (\A g \in Films : p[g] # j.at) => Distinct(o)
      /\ Distinct(o) => KeepsOrder(p, o, j.film)
  BY <1>5, <1>7, <1>8, NormalizedGrows, NormalizedTable
<1>10. Distinct(o) => KeepsOrder(order, o, j.film)
  BY <1>8, <1>9 DEF KeepsOrder, OnList
<1>11. ASSUME t \notin stale
       PROVE  Distinct(o) /\ (InSequence(order) => InSequence(o))
  <2>1. order[j.film] = j.at /\ p[j.film] = 0
    BY <1>1, <1>2, <1>7, <1>8, <1>11 DEF IsSo
  <2>2. \A g \in Films : p[g] # j.at
    BY <1>7, <1>8, <2>1 DEF Distinct, OnList
  <2>3. ASSUME InSequence(order) PROVE InSequence(o)
    <3>1. GapAt(p, j.at, j.film)
      <4>1. GapAt(p, order[j.film], j.film)
        BY <1>7, <1>8, <2>1, <2>3, GapOfOne
      <4> QED
        BY <2>1, <4>1
    <3> QED
      BY <1>5, <1>7, <1>8, <2>1, <3>1, NormalizedCloses
  <2> QED
    BY <1>9, <2>2, <2>3
<1>12. Does(t, TRUE, o, a, Idle)
  BY <1>1, <1>2, <1>6, <1>8, <1>9, <1>10, <1>11 DEF Does
<1> QED
  BY <1>12

LEMMA EditDoes ==
  ASSUME IInv, NEW t \in Threads, Edit(t), UNCHANGED skipped
  PROVE  \E free, o, a, next : Does(t, free, o, a, next)
<1>1. job[t].op = "edit" /\ job[t].op \in Ops /\ ~Mid(t)
  BY DEF Edit, Ops, Mid
<1>2. PICK j : j = job[t]
  OBVIOUS
<1>3. PICK o : o = [order EXCEPT ![j.film] = j.to]
  OBVIOUS
<1>4. Commit(t, RowIsFree(t), o, approved \cup {j.film}, Idle)
  BY <1>2, <1>3 DEF Edit, Saved
<1>5. /\ j.film \in Films /\ j.to \in Nat /\ j.to # 0
      /\ t \notin stale => IsSo(j) /\ t \notin gone
      /\ order \in [Films -> Nat] /\ Distinct(order) /\ approved \subseteq OnList(order)
  BY <1>1, <1>2, JobFacts
<1>6. /\ o \in [Films -> Nat] /\ o[j.film] = j.to
      /\ \A g \in Films \ {j.film} : o[g] = order[g]
  BY <1>3, <1>5
<1>7. approved \cup {j.film} \in SUBSET OnList(o)
  BY <1>5, <1>6 DEF OnList
<1>8. KeepsOrder(order, o, j.film)
  BY <1>6 DEF KeepsOrder, OnList
<1>9. t \notin stale => RowIsFree(t) /\ o = order
  <2> SUFFICES ASSUME t \notin stale PROVE RowIsFree(t) /\ o = order
    OBVIOUS
  <2>1. order[j.film] = j.at /\ j.to = j.at
    BY <1>1, <1>2, <1>5 DEF IsSo
  <2> QED
    BY <1>3, <1>5, <2>1 DEF RowIsFree
<1>10. Does(t, RowIsFree(t), o, approved \cup {j.film}, Idle)
  BY <1>1, <1>2, <1>4, <1>5, <1>6, <1>7, <1>8, <1>9 DEF Does
<1> QED
  BY <1>10

LEMMA ApproveSaveDoes ==
  ASSUME IInv, NEW t \in Threads, ApproveSave(t), UNCHANGED skipped
  PROVE  \E free, o, a, next : Does(t, free, o, a, next)
<1>1. job[t].op = "approve_save" /\ job[t].op \in Ops /\ Mid(t)
  BY DEF ApproveSave, Ops, Mid
<1>2. PICK j : j = job[t]
  OBVIOUS
<1>3. PICK o : o = [order EXCEPT ![j.film] = j.to]
  OBVIOUS
<1>4. Commit(t, RowIsFree(t), o, approved \cup {j.film}, Idle)
  BY <1>2, <1>3 DEF ApproveSave, Saved
<1>5. /\ j.film \in Films /\ j.to \in Nat /\ j.to # 0
      /\ t \notin stale => IsSo(j) /\ t \notin gone
      /\ order \in [Films -> Nat] /\ Distinct(order) /\ approved \subseteq OnList(order)
  BY <1>1, <1>2, JobFacts
<1>6. /\ o \in [Films -> Nat] /\ o[j.film] = j.to
      /\ \A g \in Films \ {j.film} : o[g] = order[g]
  BY <1>3, <1>5
<1>7. approved \cup {j.film} \in SUBSET OnList(o)
  BY <1>5, <1>6 DEF OnList
<1>8. KeepsOrder(order, o, j.film)
  BY <1>6 DEF KeepsOrder, OnList
<1>9. ASSUME t \notin stale PROVE RowIsFree(t) /\ Distinct(o)
  <2>1. \A g \in Films : order[g] # j.to
    BY <1>1, <1>2, <1>5, <1>9 DEF IsSo
  <2> QED
    BY <1>5, <1>6, <1>9, <2>1 DEF RowIsFree, Distinct, OnList
<1>10. ASSUME GapAt(order, j.to, j.film) PROVE InSequence(o)
  <2>1. PICK n \in Nat : /\ j.to \in 1 .. n
                         /\ \A f \in Films \ {j.film} : order[f] <= n /\ order[f] # j.to
                         /\ \A k \in (1 .. n) \ {j.to} : \E g \in Films \ {j.film} : order[g] = k
    BY <1>10 DEF GapAt
  <2>2. \A f \in Films : o[f] <= n
    BY <1>5, <1>6, <2>1
  <2>3. ASSUME NEW k \in 1 .. n PROVE \E g \in Films : o[g] = k
    BY <1>5, <1>6, <2>1
  <2> QED
    BY <2>1, <2>2, <2>3 DEF InSequence
<1>11. HoleOf(job[t]) = j.to
  BY <1>1, <1>2 DEF HoleOf
<1>12. Does(t, RowIsFree(t), o, approved \cup {j.film}, Idle)
  BY <1>1, <1>2, <1>4, <1>6, <1>7, <1>8, <1>9, <1>10, <1>11 DEF Does
<1> QED
  BY <1>12

LEMMA RejectNormalizeDoes ==
  ASSUME IInv, NEW t \in Threads, RejectNormalize(t), UNCHANGED skipped
  PROVE  \E free, o, a, next : Does(t, free, o, a, next)
<1>1. job[t].op = "reject_normalize" /\ job[t].op \in Ops /\ Mid(t)
  BY DEF RejectNormalize, Ops, Mid
<1>2. PICK j : j = job[t]
  OBVIOUS
<1>3. PICK o : o = Normalized(order, j.at)
  OBVIOUS
<1>4. Commit(t, TRUE, o, approved, Idle)
  BY <1>2, <1>3 DEF RejectNormalize
<1>5. /\ j.film \in Films /\ j.at \in Nat /\ j.at # 0
      /\ t \notin stale => IsSo(j) /\ t \notin gone
      /\ order \in [Films -> Nat] /\ Distinct(order) /\ approved \subseteq OnList(order)
  BY <1>1, <1>2, JobFacts
<1>6. /\ o \in [Films -> Nat] /\ OnList(o) = OnList(order)
      /\ (\A g \in Films : order[g] # j.at) => Distinct(o)
      /\ Distinct(o) => KeepsOrder(order, o, j.film)
  BY <1>3, <1>5, NormalizedGrows, NormalizedTable
<1>7. ASSUME t \notin stale
      PROVE  Distinct(o) /\ (GapAt(order, j.at, j.film) => InSequence(o))
  <2>1. order[j.film] = 0 /\ \A g \in Films : order[g] # j.at
    BY <1>1, <1>2, <1>5, <1>7 DEF IsSo
  <2> QED
    BY <1>3, <1>5, <1>6, <2>1, NormalizedCloses
<1>8. HoleOf(job[t]) = j.at
  BY <1>1, <1>2 DEF HoleOf
<1>9. Does(t, TRUE, o, approved, Idle)
  BY <1>1, <1>2, <1>4, <1>5, <1>6, <1>7, <1>8 DEF Does
<1> QED
  BY <1>9

LEMMA RejectDoes ==
  ASSUME IInv, NEW t \in Threads, Reject(t), UNCHANGED skipped
  PROVE  \E free, o, a, next : Does(t, free, o, a, next)
<1>1. job[t].op = "reject" /\ job[t].op \in Ops /\ ~Mid(t)
  BY DEF Reject, Ops, Mid
<1>2. PICK j : j = job[t]
  OBVIOUS
<1>3. PICK o : o = Without(t, order)
  OBVIOUS
<1>4. PICK a : a = StillApproved(t)
  OBVIOUS
<1>5. PICK next : next = [j EXCEPT !.op = "reject_normalize"]
  OBVIOUS
<1>6. Commit(t, TRUE, o, a, next)
  BY <1>2, <1>3, <1>4, <1>5 DEF Reject
<1>7. /\ j.film \in Films /\ j.at \in Nat /\ j.at # 0 /\ IsJob(j) /\ j # Idle
      /\ t \notin stale => IsSo(j) /\ t \notin gone
      /\ order \in [Films -> Nat] /\ Distinct(order)
  BY <1>1, <1>2, JobFacts
<1>8. /\ o \in [Films -> Nat] /\ Distinct(o) /\ a \in SUBSET OnList(o)
      /\ \A g \in Films \ {j.film} : o[g] = order[g]
      /\ t \notin gone => o[j.film] = 0
      /\ KeepsOrder(order, o, j.film)
  BY <1>1, <1>2, <1>3, <1>4, TakenOff
<1>9. /\ next.op = "reject_normalize" /\ next.film = j.film /\ next.at = j.at
      /\ next.to = j.to /\ next.trusted = j.trusted
      /\ DOMAIN next = {"op", "film", "at", "to", "trusted"}
  BY <1>5, <1>7 DEF IsJob
<1>10. IsJob(next)
  BY <1>7, <1>9 DEF IsJob, Ops
<1>11. ASSUME t \notin stale
       PROVE  /\ order[j.film] = j.at /\ o[j.film] = 0
              /\ \A g \in Films : o[g] # j.at
              /\ InSequence(order) => GapAt(o, j.at, j.film)
  <2>1. order[j.film] = j.at /\ o[j.film] = 0
    BY <1>1, <1>2, <1>7, <1>8, <1>11 DEF IsSo
  <2>2. \A g \in Films : o[g] # j.at
    BY <1>7, <1>8, <2>1 DEF Distinct, OnList
  <2>3. ASSUME InSequence(order) PROVE GapAt(o, j.at, j.film)
    <3>1. GapAt(o, order[j.film], j.film)
      BY <1>7, <1>8, <2>1, <2>3, GapOfOne
    <3> QED
      BY <2>1, <3>1
  <2> QED
    BY <2>1, <2>2, <2>3
<1>12. ASSUME t \notin stale, order' = o, approved' = a PROVE IsSo(next)'
  BY <1>9, <1>11, <1>12 DEF IsSo
<1>13. t \notin stale => o # order
  BY <1>7, <1>11
<1>14. HoleOf(next) = j.at
  BY <1>9 DEF HoleOf
<1>15. next # Idle
  BY <1>9 DEF Idle
<1>16. Does(t, TRUE, o, a, next)
  BY <1>1, <1>2, <1>6, <1>8, <1>9, <1>10, <1>11, <1>12, <1>13, <1>14, <1>15 DEF Does
<1> QED
  BY <1>16

LEMMA ApproveDoes ==
  ASSUME IInv, NEW t \in Threads, Approve(t)
  PROVE  \E free, o, a, next : Does(t, free, o, a, next)
<1>1. job[t].op = "approve" /\ job[t].op \in Ops /\ ~Mid(t)
  BY DEF Approve, Ops, Mid
<1>2. PICK j : j = job[t]
  OBVIOUS
<1>3. PICK o : o = Incremented(order, j.to, MaxOrder + 1)
  OBVIOUS
<1>5. PICK next : next = [j EXCEPT !.op = "approve_save"]
  OBVIOUS
<1>6. /\ Commit(t, TRUE, o, approved, next)
      /\ skipped' = (skipped \/ j.trusted \/ order[j.film] # Highest(Films))
  BY <1>2, <1>3, <1>5 DEF Approve
<1>7. /\ j.film \in Films /\ j.to \in Nat /\ j.to # 0 /\ j.at # 0 /\ IsJob(j) /\ j # Idle
      /\ MaxOrder \in Nat
      /\ t \notin stale => IsSo(j) /\ t \notin gone
      /\ order \in [Films -> Nat] /\ Distinct(order) /\ approved \subseteq OnList(order)
      /\ \A g \in Films : order[g] <= MaxOrder /\ order[g] \in Nat
  BY <1>1, <1>2, JobFacts
<1>8. /\ o \in [Films -> Nat]
      /\ \A g \in Films : o[g] = IF order[g] >= j.to THEN order[g] + 1 ELSE order[g]
  BY <1>3, <1>7 DEF Incremented
<1>9. Distinct(o) /\ approved \in SUBSET OnList(o)
  <2>1. ASSUME NEW f \in Films, NEW g \in Films, o[f] # 0, o[g] # 0, f # g PROVE o[f] # o[g]
    <3>1. order[f] = 0 \/ order[g] = 0 \/ order[f] # order[g]
      BY <1>7, <2>1 DEF Distinct, OnList
    <3> QED
      BY <1>7, <1>8, <2>1, <3>1
  <2>2. \A g \in Films : order[g] # 0 => o[g] # 0
    BY <1>7, <1>8
  <2> QED
    BY <1>7, <2>1, <2>2 DEF Distinct, OnList
<1>10. KeepsOrder(order, o, j.film)
  BY <1>7, <1>8 DEF KeepsOrder, OnList
<1>11. /\ next.op = "approve_save" /\ next.film = j.film /\ next.at = j.at
       /\ next.to = j.to /\ next.trusted = j.trusted
       /\ DOMAIN next = {"op", "film", "at", "to", "trusted"}
  BY <1>5, <1>7 DEF IsJob
<1>12. IsJob(next) /\ next # Idle
  BY <1>7, <1>11 DEF IsJob, Ops, Idle
<1>13. ASSUME t \notin stale, order' = o, approved' = approved PROVE IsSo(next)'
  <2>1. order[j.film] = j.at
    BY <1>1, <1>2, <1>7, <1>13 DEF IsSo
  <2>2. o[j.film] # 0 /\ \A g \in Films : o[g] # j.to
    BY <1>7, <1>8, <2>1
  <2> QED
    BY <1>11, <1>13, <2>2 DEF IsSo
\* Out of turn is only an approval of what is not pending and last.
<1>14. ASSUME t \notin stale, ~skipped'
       PROVE  j.to <= order[j.film] /\ \A g \in Films \ {j.film} : order[g] < order[j.film]
  <2>1. /\ order[j.film] = j.at /\ (j.trusted <=> j.film \in approved)
        /\ Reached(j.to, approved)
    BY <1>1, <1>2, <1>7, <1>14 DEF IsSo
  <2>2. j.film \notin approved /\ order[j.film] = Highest(Films)
    BY <1>6, <1>14, <2>1
  <2>3. \A g \in Films : order[g] <= order[j.film]
    BY <2>2, HighestIsReached DEF IInv
  <2>4. \A g \in Films \ {j.film} : order[g] < order[j.film]
    <3> SUFFICES ASSUME NEW g \in Films \ {j.film} PROVE order[g] < order[j.film]
      OBVIOUS
    <3>1. order[g] # order[j.film]
      BY <1>7, <2>1 DEF Distinct, OnList
    <3> QED
      BY <1>7, <2>3, <3>1
  <2>5. j.to <= order[j.film]
    <3>1. CASE j.to = 1
      BY <1>7, <2>1, <3>1
    <3>2. CASE \E g \in approved : order[g] = j.to - 1
      <4>1. PICK g \in approved : order[g] = j.to - 1
        BY <3>2
      <4>2. g \in Films \ {j.film}
        BY <1>7, <2>2 DEF OnList
      <4> QED
        BY <1>7, <2>4, <4>1, <4>2
    <3> QED
      BY <2>1, <3>1, <3>2 DEF Reached
  <2> QED
    BY <2>4, <2>5
<1>15. ASSUME t \notin stale, ~skipped' PROVE o # order
  <2>1. o[j.film] = order[j.film] + 1
    BY <1>7, <1>8, <1>14, <1>15
  <2> QED
    BY <1>7, <2>1
<1>16. ASSUME t \notin stale, ~skipped', InSequence(order) PROVE GapAt(o, j.to, j.film)
  <2>1. PICK n \in Nat : /\ \A f \in Films : order[f] <= n
                         /\ \A k \in 1 .. n : \E g \in Films : order[g] = k
    BY <1>16 DEF InSequence
  <2>2. n = order[j.film] /\ j.to \in 1 .. n
    <3>1. j.to <= order[j.film] /\ \A g \in Films \ {j.film} : order[g] < order[j.film]
      BY <1>14, <1>16
    <3>2. order[j.film] <= n /\ n \in 1 .. n
      BY <1>7, <2>1, <3>1
    <3>3. PICK g \in Films : order[g] = n
      BY <2>1, <3>2
    <3> QED
      BY <1>7, <2>1, <3>1, <3>2, <3>3
  <2>3. \A f \in Films \ {j.film} : o[f] <= n /\ o[f] # j.to
    BY <1>7, <1>8, <1>14, <1>16, <2>2
  <2>4. ASSUME NEW k \in (1 .. n) \ {j.to} PROVE \E g \in Films \ {j.film} : o[g] = k
    <3>1. CASE k < j.to
      <4>1. PICK g \in Films : order[g] = k
        BY <2>1
      <4>2. g # j.film
        BY <2>2, <3>1, <4>1
      <4> QED
        BY <1>7, <1>8, <3>1, <4>1, <4>2
    <3>2. CASE k > j.to
      <4>1. k - 1 \in 1 .. n /\ k - 1 < n /\ k - 1 >= j.to
        BY <1>7, <2>2, <3>2
      <4>2. PICK g \in Films : order[g] = k - 1
        BY <2>1, <4>1
      <4>3. g # j.film
        BY <2>2, <4>1, <4>2
      <4>4. o[g] = (k - 1) + 1
        BY <1>8, <4>1, <4>2
      <4> QED
        BY <4>3, <4>4
    <3> QED
      BY <1>7, <3>1, <3>2
  <2> QED
    BY <2>1, <2>2, <2>3, <2>4 DEF GapAt
<1>17. HoleOf(next) = j.to
  BY <1>11 DEF HoleOf
<1>18. Does(t, TRUE, o, approved, next)
  BY <1>1, <1>2, <1>6, <1>8, <1>9, <1>10, <1>11, <1>12, <1>13, <1>15, <1>16, <1>17 DEF Does
<1> QED
  BY <1>18

LEMMA ContinueDoes ==
  ASSUME IInv, NEW t \in Threads, Continue(t)
  PROVE  /\ job[t] # Idle
         /\ \E free, o, a, next : Does(t, free, o, a, next)
<1>1. job[t].op \in Ops
  BY DEF Continue, Add, Remove, Move, Edit, Approve, ApproveSave, Reject, RejectNormalize, Ops
<1>2. job[t] # Idle
  BY <1>1, JobFacts
<1> QED
  BY <1>2, AddDoes, RemoveDoes, MoveDoes, EditDoes, ApproveDoes, ApproveSaveDoes, RejectDoes,
     RejectNormalizeDoes DEF Continue

-----------------------------------------------------------------------------
(* The invariant is kept *)

\* Whoever is not made stale by a commit has a list that did not change.
LEMMA CommitParts ==
  ASSUME IInv, NEW t \in Threads, job[t] # Idle, NEW free, NEW o \in [Films -> Nat],
         NEW a, NEW next, Commit(t, free, o, a, next)
  PROVE  /\ \/ free /\ Distinct(o) /\ order' = o /\ approved' = a /\ job' = [job EXCEPT ![t] = next]
            \/ /\ ~(free /\ Distinct(o)) /\ UNCHANGED <<order, approved>>
               /\ job' = [job EXCEPT ![t] = Idle]
         /\ \A u \in Threads \ {t} :
              /\ job'[u] = job[u]
              /\ u \notin stale' => u \notin stale
              /\ u \notin stale' /\ job[u] # Idle => UNCHANGED <<order, approved>>
         /\ t \notin stale' /\ job'[t] # Idle =>
              t \notin stale /\ next # Idle /\ job'[t] = next /\ order' = o /\ approved' = a
         /\ t \in stale' => job'[t] # Idle
         /\ stale' \subseteq stale \cup Others(t) \cup {t} /\ gone' \subseteq stale'
         /\ torn' = (torn \/ t \in stale)
         /\ (refused' = refused) \/ (t \notin stale /\ ~(free /\ Distinct(o)))
<1>1. DOMAIN job = Threads /\ gone \subseteq stale /\ stale \subseteq Threads
  BY DEF IInv, TypeInv
<1>2. PICK ok \in BOOLEAN : ok = (free /\ Distinct(o))
  OBVIOUS
<1>3. PICK cut : cut = {u \in Others(t) : order[job[u].film] # 0 /\ o[job[u].film] = 0}
  OBVIOUS
<1>4. /\ IF ok THEN order' = o /\ approved' = a ELSE UNCHANGED <<order, approved>>
      /\ job' = [job EXCEPT ![t] = IF ok THEN next ELSE Idle]
      /\ stale' = (IF ok /\ <<o, a>> # <<order, approved>> THEN stale \cup Others(t) ELSE stale)
                    \ (IF ok /\ next # Idle THEN {} ELSE {t})
      /\ gone' = (IF ok THEN gone \cup cut ELSE gone) \ (IF ok /\ next # Idle THEN {} ELSE {t})
      /\ torn' = (torn \/ t \in stale)
      /\ refused' = IF ok \/ t \in stale THEN refused ELSE refused \cup {t}
  BY <1>2, <1>3 DEF Commit, list
<1>5. \A u \in Threads : u \in Others(t) <=> u # t /\ job[u] # Idle
  BY DEF Others
<1>6. cut # {} => o # order
  BY <1>3
<1>7. cut \subseteq Others(t)
  BY <1>3
<1>8. \/ free /\ Distinct(o) /\ order' = o /\ approved' = a /\ job' = [job EXCEPT ![t] = next]
      \/ /\ ~(free /\ Distinct(o)) /\ UNCHANGED <<order, approved>>
         /\ job' = [job EXCEPT ![t] = Idle]
  BY <1>2, <1>4
<1>9. \A u \in Threads \ {t} :
        /\ job'[u] = job[u]
        /\ u \notin stale' => u \notin stale
        /\ u \notin stale' /\ job[u] # Idle => UNCHANGED <<order, approved>>
  BY <1>1, <1>4, <1>5
<1>10. t \notin stale' /\ job'[t] # Idle =>
         t \notin stale /\ next # Idle /\ job'[t] = next /\ order' = o /\ approved' = a
  BY <1>1, <1>4
<1>11. t \in stale' => job'[t] # Idle
  BY <1>1, <1>4
<1>12. stale' \subseteq stale \cup Others(t) \cup {t}
  BY <1>4
<1>13. gone' \subseteq stale'
  BY <1>1, <1>4, <1>6, <1>7
<1>14. torn' = (torn \/ t \in stale)
  BY <1>4
<1>15. (refused' = refused) \/ (t \notin stale /\ ~(free /\ Distinct(o)))
  BY <1>2, <1>4
<1> QED
  BY <1>8, <1>9, <1>10, <1>11, <1>12, <1>13, <1>14, <1>15

LEMMA ContinueIInv ==
  ASSUME IInv, NEW t \in Threads, Continue(t), \A f \in Films : order'[f] <= MaxOrder
  PROVE  IInv'
<1>1. PICK free, o, a, next : Does(t, free, o, a, next)
  BY ContinueDoes
<1>2. /\ Commit(t, free, o, a, next) /\ o \in [Films -> Nat] /\ a \in SUBSET OnList(o)
      /\ next # Idle => /\ IsJob(next)
                        /\ t \notin stale /\ order' = o /\ approved' = a => IsSo(next)'
      /\ job[t] # Idle
  BY <1>1, ContinueDoes DEF Does
<1>3. /\ order \in [Films -> 0 .. MaxOrder] /\ approved \subseteq OnList(order)
      /\ DOMAIN job = Threads /\ (\A u \in Threads : IsJob(job[u])) /\ Distinct(order)
      /\ stale \subseteq {u \in Threads : job[u] # Idle}
      /\ torn \in BOOLEAN /\ skipped \in BOOLEAN /\ MaxOrder \in Nat
  BY FilmAssumption DEF IInv, TypeInv
<1>4. order' \in [Films -> 0 .. MaxOrder]
  <2>1. CASE order' = o
    BY <1>2, <1>3, <2>1
  <2>2. CASE order' = order
    BY <1>3, <2>2
  <2> QED
    BY <1>2, <2>1, <2>2, CommitParts
<1>5. approved' \subseteq OnList(order') /\ Distinct(order)'
  <2>1. CASE Distinct(o) /\ order' = o /\ approved' = a
    BY <1>2, <2>1 DEF Distinct, OnList
  <2>2. CASE UNCHANGED <<order, approved>>
    BY <1>3, <2>2 DEF Distinct, OnList
  <2> QED
    BY <1>2, <2>1, <2>2, CommitParts
<1>6. DOMAIN job' = Threads /\ \A u \in Threads : IsJob(job'[u])
  <2>1. IsJob(Idle)
    BY DEF IsJob
  <2>2. IsJob(next)
    BY <1>2, <2>1
  <2>3. PICK n : job' = [job EXCEPT ![t] = n] /\ IsJob(n)
    BY <1>2, <2>1, <2>2, CommitParts
  <2> QED
    BY <1>3, <2>3
<1>7. stale' \subseteq {u \in Threads : job'[u] # Idle} /\ gone' \subseteq stale'
  <2>1. /\ stale' \subseteq stale \cup Others(t) \cup {t} /\ gone' \subseteq stale'
        /\ t \in stale' => job'[t] # Idle
        /\ \A u \in Threads \ {t} : job'[u] = job[u]
    BY <1>2, CommitParts
  <2>2. stale \cup Others(t) \subseteq {u \in Threads : job[u] # Idle}
    BY <1>3 DEF Others
  <2> QED
    BY <2>1, <2>2
<1>8. torn' \in BOOLEAN /\ skipped' \in BOOLEAN
  <2>1. torn' \in BOOLEAN
    BY <1>2, <1>3, CommitParts
  <2>2. skipped' \in BOOLEAN
    BY <1>3 DEF Continue, Approve
  <2> QED
    BY <2>1, <2>2
<1>9. Fresh'
  <2> SUFFICES ASSUME NEW u \in Threads, u \notin stale', job'[u] # Idle PROVE IsSo(job[u])'
    BY DEF Fresh
  <2>1. CASE u = t
    <3>1. t \notin stale /\ next # Idle /\ job'[t] = next /\ order' = o /\ approved' = a
      BY <1>2, <2>1, CommitParts
    <3>2. IsSo(next)'
      BY <1>2, <3>1
    <3> QED
      BY <2>1, <3>1, <3>2 DEF IsSo, Reached
  <2>2. CASE u # t
    <3>1. job'[u] = job[u] /\ u \notin stale /\ UNCHANGED <<order, approved>>
      BY <1>2, <2>2, CommitParts
    <3>2. IsSo(job[u])
      BY <3>1 DEF IInv, Fresh
    <3> QED
      BY <3>1, <3>2 DEF IsSo, Reached
  <2> QED
    BY <2>1, <2>2
<1>10. TypeInv'
  BY <1>4, <1>5, <1>6, <1>7, <1>8 DEF TypeInv
<1> QED
  BY <1>5, <1>9, <1>10 DEF IInv

LEMMA InitIInv == Init => IInv
<1> SUFFICES ASSUME Init PROVE IInv
  OBVIOUS
<1>1. /\ order = [f \in Films |-> 0] /\ approved = {} /\ job = [t \in Threads |-> Idle]
      /\ stale = {} /\ gone = {} /\ torn = FALSE /\ skipped = FALSE
  BY DEF Init
<1>2. MaxOrder \in Nat
  BY FilmAssumption
<1>3. TypeInv
  <2>1. order \in [Films -> 0 .. MaxOrder]
    BY <1>1, <1>2
  <2>2. DOMAIN job = Threads /\ \A t \in Threads : IsJob(job[t])
    BY <1>1 DEF IsJob
  <2>3. torn \in BOOLEAN /\ skipped \in BOOLEAN /\ stale = {} /\ gone = {} /\ approved = {}
    BY <1>1
  <2> QED
    BY <2>1, <2>2, <2>3 DEF TypeInv
<1>4. Distinct(order) /\ Fresh
  BY <1>1 DEF Distinct, OnList, Fresh
<1> QED
  BY <1>3, <1>4 DEF IInv

\* Other steps leave the list as it is.
LEMMA RestIInv ==
  ASSUME IInv, \/ \E t \in Threads : Crash(t)
               \/ \E c \in Curations : EditList(c)
               \/ UNCHANGED vars
  PROVE  IInv' /\ UNCHANGED <<order, approved, refused>>
<1>1. /\ UNCHANGED <<order, approved, skipped, refused>>
      /\ torn' \in {torn, TRUE}
  BY DEF Crash, EditList, vars, list, history
<1>2. \/ UNCHANGED <<job, stale, gone>>
      \/ \E t \in Threads : job' = [job EXCEPT ![t] = Idle] /\ stale' = stale \ {t} /\ gone' = gone \ {t}
  BY DEF Crash, EditList, vars, list, history
<1>3. ASSUME NEW u \in Threads, u \notin stale', job'[u] # Idle
      PROVE  job'[u] = job[u] /\ u \notin stale
  BY <1>2, <1>3 DEF IInv, TypeInv
<1>4. Fresh'
  BY <1>1, <1>3 DEF IInv, Fresh, IsSo, Reached
<1>5. DOMAIN job' = Threads /\ \A u \in Threads : IsJob(job'[u])
  <2>1. IsJob(Idle)
    BY DEF IsJob
  <2> QED
    BY <1>2, <2>1 DEF IInv, TypeInv
<1>6. stale' \subseteq {u \in Threads : job'[u] # Idle} /\ gone' \subseteq stale'
  BY <1>2 DEF IInv, TypeInv
<1>7. torn' \in BOOLEAN /\ skipped' \in BOOLEAN
  BY <1>1 DEF IInv, TypeInv
<1>8. order' \in [Films -> 0 .. MaxOrder] /\ approved' \subseteq OnList(order') /\ Distinct(order)'
  BY <1>1 DEF IInv, TypeInv, Distinct, OnList
<1> QED
  BY <1>1, <1>4, <1>5, <1>6, <1>7, <1>8 DEF IInv, TypeInv

LEMMA NextIInv == IInv /\ [Next]_vars => IInv'
<1> SUFFICES ASSUME IInv, [Next]_vars PROVE IInv'
  OBVIOUS
<1>1. ASSUME NEW t \in Threads, BeginSome(t) PROVE IInv'
  BY <1>1, BeginIInv
<1>2. ASSUME NEW t \in Threads, Continue(t), Next PROVE IInv'
  BY <1>2, ContinueIInv DEF Next
<1> QED
  BY <1>1, <1>2, RestIInv DEF Next

-----------------------------------------------------------------------------
(* Sequence *)

\* Whoever comes or goes is not in the middle of a curator's request.
LEMMA MidsKept ==
  ASSUME InOrder, UNCHANGED order, NEW t \in Threads, NEW j,
         DOMAIN job = Threads, job' = [job EXCEPT ![t] = j], ~Mid(t), ~Mid(t)'
  PROVE  InOrder'
<1>1. \A u \in Threads \ {t} : job'[u] = job[u] /\ (Mid(u)' <=> Mid(u))
  BY DEF Mid
<1>2. CASE (\A u \in Threads : ~Mid(u)) /\ InSequence(order)
  <2>1. \A u \in Threads : ~Mid(u)'
    BY <1>1, <1>2
  <2>2. InSequence(order)'
    BY <1>2 DEF InSequence
  <2> QED
    BY <2>1, <2>2 DEF InOrder
<1>3. ASSUME NEW x \in Threads, Mid(x), \A u \in Threads \ {x} : ~Mid(u),
             GapAt(order, HoleOf(job[x]), job[x].film)
      PROVE  InOrder'
  <2>1. x # t /\ Mid(x)' /\ \A u \in Threads \ {x} : ~Mid(u)'
    BY <1>1, <1>3
  <2>2. PICK h, f : h = HoleOf(job[x]) /\ f = job[x].film
    OBVIOUS
  <2>3. GapAt(order, h, f)'
    BY <1>3, <2>2 DEF GapAt
  <2>4. HoleOf(job'[x]) = h /\ job'[x].film = f
    BY <1>1, <2>1, <2>2
  <2>5. GapAt(order', HoleOf(job'[x]), job'[x].film)
    BY <2>3, <2>4 DEF GapAt
  <2> QED
    BY <2>1, <2>5 DEF InOrder, HoleOf
<1> QED
  BY <1>2, <1>3 DEF InOrder

LEMMA IdleIsNotMid == \A t \in Threads : job[t] = Idle => ~Mid(t)
BY DEF Mid, Idle

LEMMA ContinueInOrder ==
  ASSUME GInv, NEW t \in Threads, Continue(t), ~torn', ~skipped', stale' = {}
  PROVE  InOrder'
<1>1. PICK free, o, a, next : Does(t, free, o, a, next)
  BY ContinueDoes DEF GInv
<1>2. IInv /\ job[t] # Idle /\ DOMAIN job = Threads
  BY ContinueDoes DEF GInv, IInv, TypeInv
<1>3. Commit(t, free, o, a, next) /\ o \in [Films -> Nat]
  BY <1>1 DEF Does
<1>4. t \notin stale /\ ~torn /\ \A u \in Threads \ {t} : u \notin stale
  BY <1>2, <1>3, CommitParts
<1>5. ~skipped
  BY DEF Continue, Approve
<1>6. stale = {} /\ InOrder
  <2>1. stale \subseteq Threads
    BY <1>2 DEF IInv, TypeInv
  <2> QED
    BY <1>4, <1>5, <2>1 DEF GInv
<1>7. order' = o /\ job' = [job EXCEPT ![t] = next]
  <2>1. free /\ Distinct(o)
    BY <1>1, <1>4 DEF Does
  <2>2. \/ free /\ Distinct(o) /\ order' = o /\ job' = [job EXCEPT ![t] = next]
        \/ ~(free /\ Distinct(o))
    BY <1>2, <1>3, CommitParts
  <2> QED
    BY <2>1, <2>2
<1>8. \A u \in Threads \ {t} : job'[u] = job[u] /\ (job[u] # Idle => o = order)
  BY <1>2, <1>3, <1>7, CommitParts
<1>9. (IF Mid(t) THEN GapAt(order, HoleOf(job[t]), job[t].film) ELSE InSequence(order))
      => IF next = Idle THEN InSequence(o) ELSE GapAt(o, HoleOf(next), next.film)
  BY <1>1, <1>4 DEF Does
<1>10. CASE next = Idle
  <2>1. ~Mid(t)'
    BY <1>2, <1>7, <1>10 DEF Mid, Idle
  <2>2. ASSUME InSequence(o), \A u \in Threads \ {t} : ~Mid(u)
        PROVE  InOrder'
    <3>1. \A u \in Threads : ~Mid(u)'
      BY <1>8, <2>1, <2>2 DEF Mid
    <3>2. InSequence(order)'
      BY <1>7, <2>2 DEF InSequence
    <3> QED
      BY <3>1, <3>2 DEF InOrder
  <2>3. CASE Mid(t)
    <3>1. GapAt(order, HoleOf(job[t]), job[t].film) /\ \A u \in Threads \ {t} : ~Mid(u)
      BY <1>6, <2>3 DEF InOrder
    <3>2. InSequence(o)
      BY <1>9, <1>10, <2>3, <3>1
    <3> QED
      BY <2>2, <3>1, <3>2
  <2>4. CASE ~Mid(t) /\ o = order
    BY <1>2, <1>6, <1>7, <2>1, <2>4, MidsKept
  <2>5. CASE ~Mid(t) /\ o # order
    <3>1. \A u \in Threads : ~Mid(u)
      BY <1>8, <2>5, IdleIsNotMid
    <3>2. InSequence(order)
      BY <1>6, <3>1 DEF InOrder
    <3> QED
      BY <1>9, <1>10, <2>2, <2>5, <3>1, <3>2
  <2> QED
    BY <2>3, <2>4, <2>5
<1>11. CASE next # Idle
  <2>1. ~Mid(t) /\ o # order /\ next.op \in {"approve_save", "reject_normalize"}
    BY <1>1, <1>4, <1>11 DEF Does
  <2>2. \A u \in Threads : ~Mid(u)
    BY <1>8, <2>1, IdleIsNotMid
  <2>3. GapAt(o, HoleOf(next), next.film)
    BY <1>6, <1>9, <1>11, <2>1, <2>2 DEF InOrder
  <2>4. job'[t] = next
    BY <1>2, <1>7
  <2>5. Mid(t)' /\ \A u \in Threads \ {t} : ~Mid(u)'
    BY <1>8, <2>1, <2>2, <2>4 DEF Mid
  <2>6. GapAt(order', HoleOf(job'[t]), job'[t].film)
    BY <1>7, <2>3, <2>4
  <2> QED
    BY <2>5, <2>6 DEF InOrder, GapAt, HoleOf
<1> QED
  BY <1>10, <1>11

LEMMA NextGInv == GInv /\ [Next]_vars => GInv'
<1> SUFFICES ASSUME GInv, [Next]_vars PROVE GInv'
  OBVIOUS
<1>1. IInv'
  BY NextIInv DEF GInv
<1>2. ASSUME ~torn', ~skipped', stale' = {} PROVE InOrder'
  <2>1. ASSUME NEW t \in Threads, BeginSome(t) PROVE InOrder'
    <3>1. /\ UNCHANGED <<order, stale, torn, skipped>> /\ job[t] = Idle
          /\ job' = [job EXCEPT ![t] = job'[t]] /\ ~Mid(t)'
      BY <2>1, BeginIInv DEF GInv
    <3>2. ~Mid(t) /\ InOrder /\ DOMAIN job = Threads
      BY <1>2, <3>1, IdleIsNotMid DEF GInv, IInv, TypeInv
    <3>3. PICK j : job' = [job EXCEPT ![t] = j]
      BY <3>1
    <3> QED
      BY <3>1, <3>2, <3>3, MidsKept
  <2>2. ASSUME NEW t \in Threads, Continue(t) PROVE InOrder'
    BY <1>2, <2>2, ContinueInOrder
  <2>3. ASSUME NEW t \in Threads, Crash(t) PROVE FALSE
    BY <1>2, <2>3 DEF Crash
  <2>4. CASE (\E c \in Curations : EditList(c)) \/ UNCHANGED vars
    <3>1. UNCHANGED <<order, job, stale, torn, skipped>>
      BY <2>4 DEF EditList, vars, list, history
    <3> QED
      BY <1>2, <3>1 DEF GInv, InOrder, InSequence, GapAt, Mid, HoleOf
  <2> QED
    BY <2>1, <2>2, <2>3, <2>4 DEF Next
<1> QED
  BY <1>1, <1>2 DEF GInv

-----------------------------------------------------------------------------
\* list.py:283 "takes special care with the unique ordering per list": a
\* request that has the list to itself never runs into the unique constraint,
\* however the orders were left by earlier requests.
THEOREM CareSuffices == Spec => []CarefulWithOrder
<1>1. Init => IInv /\ CarefulWithOrder
  BY InitIInv DEF Init, CarefulWithOrder
<1>2. IInv /\ CarefulWithOrder /\ [Next]_vars => IInv' /\ CarefulWithOrder'
  <2> SUFFICES ASSUME IInv, CarefulWithOrder, [Next]_vars PROVE refused' = {}
    BY NextIInv DEF CarefulWithOrder
  <2>1. ASSUME NEW t \in Threads, Continue(t) PROVE refused' = {}
    <3>1. PICK free, o, a, next : Does(t, free, o, a, next)
      BY <2>1, ContinueDoes
    <3>2. /\ Commit(t, free, o, a, next) /\ o \in [Films -> Nat] /\ job[t] # Idle
          /\ t \notin stale => free /\ Distinct(o)
      BY <2>1, <3>1, ContinueDoes DEF Does
    <3>3. t \in stale \/ (free /\ Distinct(o))
      BY <3>2
    <3>4. refused' = refused
      BY <3>2, <3>3 DEF Commit
    <3> QED
      BY <3>4 DEF CarefulWithOrder
  <2> QED
    BY <2>1, BeginIInv, RestIInv DEF Next, CarefulWithOrder
<1> QED
  BY <1>1, <1>2, PTL DEF Spec

\* list.py:361 "gives each film in a list the proper sequential order number":
\* the orders have a gap only after a request wrote what another had changed
\* since it read it, or after an approval out of turn.
THEOREM GapsHaveReasons == Spec => []GapsAreExplained
<1>1. Init => GInv
  <2> SUFFICES ASSUME Init PROVE IInv /\ InOrder
    BY DEF GInv
  <2>1. IInv
    BY InitIInv
  <2>2. \A t \in Threads : ~Mid(t)
    BY IdleIsNotMid DEF Init, Mid, Idle
  <2>3. 0 \in Nat /\ (\A f \in Films : order[f] <= 0) /\ 1 .. 0 = {}
    BY DEF Init
  <2>4. InSequence(order)
    BY <2>3 DEF InSequence
  <2> QED
    BY <2>1, <2>2, <2>4 DEF InOrder
<1>2. GInv => GapsAreExplained
  <2> SUFFICES ASSUME GInv, Quiet, ~torn, ~skipped PROVE Sequential
    BY DEF GapsAreExplained
  <2>1. stale = {}
    BY DEF GInv, IInv, TypeInv, Quiet
  <2>2. InSequence(order)
    BY <2>1, IdleIsNotMid DEF GInv, InOrder, Quiet
  <2>3. order \in [Films -> Nat] /\ Distinct(order)
    BY FilmAssumption DEF GInv, IInv, TypeInv
  <2> QED
    BY <2>2, <2>3, CountedInSequence DEF Sequential
<1> QED
  BY <1>1, <1>2, NextGInv, PTL DEF Spec

\* No step puts two films in another order than before, save for one film that
\* the step is about, whatever the interleaving.
THEOREM OrderIsKept == Spec => OthersKeepTheirOrder
<1>1. IInv /\ [Next]_vars
      => [\E x \in Films \cup {NoFilm} :
            \A f, g \in (OnList(order) \cap OnList(order')) \ {x} :
              order[f] < order[g] => order'[f] < order'[g]]_vars
  <2> SUFFICES ASSUME IInv, Next
               PROVE  \E x \in Films \cup {NoFilm} :
                        \A f, g \in (OnList(order) \cap OnList(order')) \ {x} :
                          order[f] < order[g] => order'[f] < order'[g]
    OBVIOUS
  <2>1. CASE UNCHANGED order
    BY <2>1
  <2>2. ASSUME NEW t \in Threads, Continue(t), order' # order
        PROVE  \E x \in Films : KeepsOrder(order, order', x)
    <3>1. PICK free, o, a, next : Does(t, free, o, a, next)
      BY <2>2, ContinueDoes
    <3>2. /\ Commit(t, free, o, a, next) /\ o \in [Films -> Nat] /\ job[t] # Idle
          /\ Distinct(o) => KeepsOrder(order, o, job[t].film)
      BY <2>2, <3>1, ContinueDoes DEF Does
    <3>3. order' = o /\ Distinct(o)
      BY <2>2, <3>2, CommitParts
    <3>4. job[t].film \in Films
      BY <3>2 DEF IInv, TypeInv, IsJob
    <3> QED
      BY <3>2, <3>3, <3>4 DEF KeepsOrder
  <2> QED
    BY <2>1, <2>2, BeginIInv, RestIInv DEF Next, KeepsOrder
<1> QED
  BY <1>1, InitIInv, NextIInv, PTL DEF Spec, OthersKeepTheirOrder
=============================================================================
