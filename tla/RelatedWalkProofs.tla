-------------------------- MODULE RelatedWalkProofs --------------------------
(***************************************************************************)
(* The walk of MessageStore::related_message_ids returns exactly the       *)
(* linked endpoints, for every finite table, group and starting endpoint.  *)
(***************************************************************************)
EXTENDS RelatedWalk, FiniteSetTheorems, TLAPS

(* The ends of the rows in the table are points the queue ranges over. *)
LEMMA EndsArePoints ==
    ASSUME rows \subseteq RowUniverse, NEW r \in rows
    PROVE  Ends(r) \subseteq Points
BY DEF Points

(***************************************************************************)
(* A visit pushes an endpoint if and only if it is unseen and shares a     *)
(* row with the visited one; how often does not matter.                    *)
(***************************************************************************)
LEMMA PushesPositive ==
    ASSUME rows \subseteq RowUniverse, NEW e, NEW x
    PROVE  /\ Pushes(e, x) \in Nat
           /\ Pushes(e, x) > 0 <=>
                 x \notin seen \cup {e} /\ \E r \in Touching(rows, group, e) : x \in Ends(r)
<1> DEFINE H == {r \in Touching(rows, group, e) : x \in Ends(r)}
<1>1. H \subseteq RowUniverse
  BY DEF Touching
<1>2. IsFiniteSet(H)
  BY <1>1, RowsAssumption, FS_Subset
<1>3. Cardinality(H) \in Nat /\ (Cardinality(H) = 0 <=> H = {})
  BY <1>2, FS_CardinalityType, FS_EmptySet
<1>4. H # {} <=> \E r \in Touching(rows, group, e) : x \in Ends(r)
  OBVIOUS
<1> HIDE DEF H
<1>5. Pushes(e, x) = IF x \in seen \cup {e} THEN 0 ELSE Cardinality(H)
  BY DEF Pushes, H
<1>6. H # {} <=> Cardinality(H) > 0
  BY <1>3
<1> QED
  BY <1>3, <1>4, <1>5, <1>6

(* What a visit does to the set of waiting endpoints. *)
LEMMA VisitWaiting ==
    ASSUME TypeOK, NEW e \in Points, queue[e] > 0, Visit(e), UNCHANGED <<rows, group, start>>
    PROVE  /\ queue' \in [Points -> Nat]
           /\ Waiting \ {e} \subseteq Waiting'
           /\ \A x \in Waiting' : x \in Waiting \/ \E r \in Touching(rows, group, e) : x \in Ends(r)
           /\ \A r \in Touching(rows, group, e) : Ends(r) \subseteq seen' \cup Waiting'
<1>1. \A x \in Points : Pushes(e, x) \in Nat
  BY PushesPositive DEF TypeOK
<1>2. \A x \in Points : queue'[x] = (IF x = e THEN queue[x] - 1 ELSE queue[x]) + Pushes(e, x)
  BY DEF Visit
<1>3. queue' \in [Points -> Nat]
  <2>1. \A x \in Points : (IF x = e THEN queue[x] - 1 ELSE queue[x]) \in Nat
    BY DEF TypeOK
  <2>2. \A x \in Points : (IF x = e THEN queue[x] - 1 ELSE queue[x]) + Pushes(e, x) \in Nat
    BY <2>1, <1>1
  <2> QED
    BY <2>2 DEF Visit
<1>4. Waiting \ {e} \subseteq Waiting'
  BY <1>1, <1>2 DEF Waiting, TypeOK
<1>5. \A x \in Waiting' : x \in Waiting \/ Pushes(e, x) > 0
  BY <1>1, <1>2 DEF Waiting, TypeOK
<1>6. \A x \in Points : Pushes(e, x) > 0 => x \in Waiting'
  BY <1>1, <1>2 DEF Waiting, TypeOK
<1>7. ASSUME NEW r \in Touching(rows, group, e), NEW x \in Ends(r)
      PROVE  x \in seen' \cup Waiting'
  <2>1. x \in Points
    BY EndsArePoints DEF Touching, TypeOK
  <2>2. CASE x \in seen \cup {e}
    BY <2>2 DEF Visit
  <2>3. CASE x \notin seen \cup {e}
    BY <2>1, <2>3, <1>6, PushesPositive DEF TypeOK
  <2> QED
    BY <2>2, <2>3
<1> QED
  BY <1>3, <1>4, <1>5, <1>7, PushesPositive DEF TypeOK

(* What popping an endpoint seen before does to it. *)
LEMMA SkipWaiting ==
    ASSUME TypeOK, NEW e \in Points, queue[e] > 0, Skip(e), UNCHANGED <<rows, group, start>>
    PROVE  /\ queue' \in [Points -> Nat]
           /\ Waiting \ {e} \subseteq Waiting'
           /\ Waiting' \subseteq Waiting
BY DEF TypeOK, Skip, Waiting

(***************************************************************************)
(* The invariant of the loop holds initially: only the start waits.        *)
(***************************************************************************)
LEMMA WalkInit == Init => WalkInv
<1> SUFFICES ASSUME Init PROVE WalkInv
  OBVIOUS
<1>1. Waiting = {start}
  BY DEF Init, Waiting
<1>2. TypeOK
  BY DEF Init, TypeOK
<1>3. Frontier
  BY <1>1 DEF Init, Frontier
<1>4. OnlyRelated
  BY <1>1 DEF Init, OnlyRelated
<1> QED
  BY <1>2, <1>3, <1>4 DEF WalkInv

(* Every iteration preserves it. *)
LEMMA WalkStep == WalkInv /\ [Next]_vars => WalkInv'
<1> SUFFICES ASSUME WalkInv, [Next]_vars PROVE WalkInv'
  OBVIOUS
<1> USE DEF WalkInv
<1>1. ASSUME NEW e \in Points, queue[e] > 0, Skip(e), UNCHANGED <<rows, group, start>>
      PROVE  WalkInv'
  <2>1. TypeOK'
    BY <1>1, SkipWaiting DEF TypeOK, Skip
  <2>2. seen' \cup Waiting' = seen \cup Waiting
    BY <1>1, SkipWaiting DEF Skip
  <2>3. Frontier'
    BY <1>1, <2>2 DEF Frontier, Skip
  <2>4. OnlyRelated'
    BY <1>1, <2>2 DEF OnlyRelated
  <2> QED
    BY <2>1, <2>3, <2>4
<1>2. ASSUME NEW e \in Points, queue[e] > 0, Visit(e), UNCHANGED <<rows, group, start>>
      PROVE  WalkInv'
  <2>0. e \in Waiting
    BY <1>2 DEF Waiting
  <2>1. TypeOK'
    BY <1>2, VisitWaiting DEF TypeOK, Visit
  <2>2. seen \cup Waiting \subseteq seen' \cup Waiting'
    BY <1>2, VisitWaiting DEF Visit
  <2>3. Frontier'
    <3>1. ASSUME NEW r \in rows, r.group = group, Ends(r) \cap seen' # {}
          PROVE  Ends(r) \subseteq seen' \cup Waiting'
      <4>1. CASE e \in Ends(r)
        BY <1>2, <3>1, <4>1, VisitWaiting DEF Touching
      <4>2. CASE e \notin Ends(r)
        <5>1. Ends(r) \cap seen # {}
          BY <1>2, <3>1, <4>2 DEF Visit
        <5> QED
          BY <5>1, <3>1, <2>2 DEF Frontier
      <4> QED
        BY <4>1, <4>2
    <3> QED
      BY <1>2, <2>2, <3>1 DEF Frontier
  <2>4. OnlyRelated'
    <3>1. ASSUME NEW S \in SUBSET Reach(rows, start), start \in S, Closed(rows, group, S)
          PROVE  seen' \cup Waiting' \subseteq S
      <4>1. seen \cup Waiting \subseteq S
        BY <3>1 DEF OnlyRelated
      <4>2. \A r \in Touching(rows, group, e) : Ends(r) \subseteq S
        BY <2>0, <3>1, <4>1 DEF Touching, Ends, Closed
      <4> QED
        BY <1>2, <2>0, <4>1, <4>2, VisitWaiting DEF Visit
    <3> QED
      BY <1>2, <3>1 DEF OnlyRelated
  <2> QED
    BY <2>1, <2>3, <2>4
<1>3. ASSUME UNCHANGED vars PROVE WalkInv'
  BY <1>3 DEF vars, TypeOK, Frontier, OnlyRelated, Waiting
<1> QED
  BY <1>1, <1>2, <1>3 DEF Next, Pop, Finished

(***************************************************************************)
(* When nothing waits, what was seen is closed under the rows of the group *)
(* (Frontier) and inside every closed set (OnlyRelated): it is the least.  *)
(***************************************************************************)
LEMMA WalkResult == WalkInv => WalkExact
<1> SUFFICES ASSUME WalkInv, Waiting = {} PROVE seen = Related(rows, group, start)
  BY DEF WalkExact
<1> USE DEF WalkInv
<1>1. Closed(rows, group, Reach(rows, start)) /\ start \in Reach(rows, start)
  BY DEF Closed, Reach, Ends
<1>2. seen \subseteq Reach(rows, start)
  BY <1>1 DEF OnlyRelated
<1>3. start \in seen /\ Closed(rows, group, seen)
  BY DEF Frontier, Closed, Ends
<1>4. seen \subseteq Related(rows, group, start)
  BY <1>2 DEF OnlyRelated, Related
<1>5. Related(rows, group, start) \subseteq seen
  BY <1>2, <1>3 DEF Related
<1> QED
  BY <1>4, <1>5

(* The loop invariant, and with it the type of the walk's state, always    *)
(* holds.                                                                  *)
THEOREM WalkInvariant == Spec => []WalkInv
BY WalkInit, WalkStep, PTL DEF Spec

(* related_message_ids returns the endpoints linked to the one it is asked *)
(* about, all of them and no other.                                        *)
THEOREM WalkCorrect == Spec => []WalkExact
BY WalkInvariant, WalkResult, PTL
=============================================================================
