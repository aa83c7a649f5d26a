----------------------------- MODULE RelatedWalk -----------------------------
(***************************************************************************)
(* MessageStore::related_message_ids (store.rs): the breadth-first walk    *)
(* over message_routes that a recall uses to find every endpoint linked to *)
(* the recalled one.  The connection mutex is held for the whole walk, so  *)
(* the rows do not change under it; they, the group and the starting       *)
(* endpoint are chosen initially and the walk is the only process.         *)
(*                                                                         *)
(* queue is the VecDeque as a bag: how many times each endpoint waits in   *)
(* it.  An endpoint may wait several times, which is what the `continue`   *)
(* of the loop is for.  The order of the deque is left open: Pop takes any *)
(* waiting endpoint, the front being one of them.                          *)
(***************************************************************************)
EXTENDS MessageStore, FiniteSets

CONSTANTS Groups,        \* the group keys
          RowUniverse    \* the rows the table may hold

ASSUME RowsAssumption ==
    /\ IsFiniteSet(RowUniverse)
    /\ RowUniverse \subseteq Row(Groups)

VARIABLES rows, group, start, seen, queue
vars == <<rows, group, start, seen, queue>>

Points == UNION {Ends(r) : r \in RowUniverse}

Init ==
    /\ rows \in SUBSET RowUniverse
    /\ group \in Groups
    /\ start \in Points
    /\ seen = {}
    /\ queue = [x \in Points |-> IF x = start THEN 1 ELSE 0]

(* Mutant: rows of every group are walked. *)
PushesAnyGroup(e, x) ==
    IF x \in seen \cup {e} THEN 0 ELSE Cardinality({r \in rows : {x, e} \subseteq Ends(r)})

(* How many rows of the query result push x: only unseen ends are pushed. *)
Pushes(e, x) ==
    IF x \in seen \cup {e} THEN 0
    ELSE Cardinality({r \in Touching(rows, group, e) : x \in Ends(r)})

(* Mutant: the entry is looked at without being taken off the queue. *)
SkipInPlace(e) == e \in seen /\ UNCHANGED <<seen, queue>>

(* `if !seen.insert(..) { continue; }` *)
Skip(e) ==
    /\ e \in seen
    /\ queue' = [queue EXCEPT ![e] = @ - 1]
    /\ UNCHANGED seen

(* A new endpoint: both ends of every row touching it are queued. *)
Visit(e) ==
    /\ e \notin seen
    /\ seen' = seen \cup {e}
    /\ queue' = [x \in Points |->
                    (IF x = e THEN queue[x] - 1 ELSE queue[x]) + Pushes(e, x)]

Pop(e) ==
    /\ queue[e] > 0
    /\ Skip(e) \/ Visit(e)
    /\ UNCHANGED <<rows, group, start>>

Waiting == {x \in Points : queue[x] > 0}

(* `while let Some(..) = queue.pop_front()` has nothing left to pop. *)
Finished ==
    /\ Waiting = {}
    /\ UNCHANGED vars

Next == (\E e \in Points : Pop(e)) \/ Finished

Spec == Init /\ [][Next]_vars /\ WF_vars(Next)

----------------------------------------------------------------------------
TypeOK ==
    /\ rows \subseteq RowUniverse
    /\ group \in Groups
    /\ start \in Points
    /\ seen \subseteq Points
    /\ queue \in [Points -> Nat]

(***************************************************************************)
(* When the loop ends, the set it returns is exactly the set of endpoints  *)
(* linked to the starting one through rows of the group: none of another   *)
(* group, none missed, whatever the order the rows come back in.           *)
(***************************************************************************)
WalkExact == Waiting = {} => seen = Related(rows, group, start)

(* The inductive invariant behind it. *)
Frontier ==
    /\ start \in seen \cup Waiting
    /\ \A r \in rows : r.group = group /\ Ends(r) \cap seen # {} => Ends(r) \subseteq seen \cup Waiting

OnlyRelated ==
    \A S \in SUBSET Reach(rows, start) :
        start \in S /\ Closed(rows, group, S) => seen \cup Waiting \subseteq S

WalkInv == TypeOK /\ Frontier /\ OnlyRelated

(***************************************************************************)
(* The walk ends, cycles and duplicate queue entries notwithstanding: the  *)
(* connection mutex every other store call waits for is released.          *)
(***************************************************************************)
WalkEnds == <>[](Waiting = {})
=============================================================================
