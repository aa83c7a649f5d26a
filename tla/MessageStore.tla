---------------------------- MODULE MessageStore ----------------------------
(***************************************************************************)
(* The SQLite store of src/src/store.rs as operators over its two tables.  *)
(* Every method of MessageStore holds the connection mutex for its whole   *)
(* body, so a call is one atomic step of whoever makes it and the methods  *)
(* are pure operators here; the modules that call them own the tables.     *)
(*                                                                         *)
(*   message_routes     a set of rows [id, group, src, dst]                *)
(*   recalled_messages  a set of pairs <<group, endpoint>>                 *)
(*                                                                         *)
(* The columns sender, preview and created_at are left out: no decision of *)
(* the bridge reads them back (retention is the subject of its own model). *)
(***************************************************************************)
EXTENDS Integers

(* message.rs, enum Platform *)
Platform == {"QQ", "Discord", "Telegram", "Matrix"}

(* A message id on its platform.  Ids are only unique per platform. *)
Endpoint == Platform \X Nat

Row(Groups) == [id : Nat, group : Groups, src : Endpoint, dst : Endpoint]

Ends(r) == {r.src, r.dst}

(* Mutants of the WHERE clause: the dst columns forgotten, or the platform *)
(* columns.                                                                *)
TouchingBySource(rows, g, e) == {r \in rows : r.group = g /\ r.src = e}
TouchingById(rows, g, e) == {r \in rows : r.group = g /\ \E x \in Ends(r) : x[2] = e[2]}

(* The WHERE clause query and related_message_ids share. *)
Touching(rows, g, e) == {r \in rows : r.group = g /\ e \in Ends(r)}

(* query: both ends of the latest matching row; the empty set is None. *)
Query(rows, g, e) ==
    LET hits == Touching(rows, g, e)
    IN  UNION {Ends(r) : r \in {h \in hits : \A k \in hits : k.id <= h.id}}

(* ReplyRecord::id_on: the id the record knows on platform p, if any. *)
IdOn(record, p) == {e \in record : e[1] = p}

(***************************************************************************)
(* What related_message_ids returns: the least set holding e that every    *)
(* row of the group enters or leaves as a whole.  Module RelatedWalk is    *)
(* the loop that computes it.                                              *)
(***************************************************************************)
Closed(rows, g, S) == \A r \in rows : r.group = g => (r.src \in S <=> r.dst \in S)

Reach(rows, e) == {e} \cup UNION {Ends(r) : r \in rows}

Related(rows, g, e) ==
    {x \in Reach(rows, e) :
        \A S \in SUBSET Reach(rows, e) : e \in S /\ Closed(rows, g, S) => x \in S}

(* is_source_message *)
IsSource(rows, g, e) == \E r \in rows : r.group = g /\ r.src = e

(* Mutants: one route per source, as under an upsert; the two ends swapped. *)
InsertOrReplace(rows, id, g, src, dst) ==
    {r \in rows : r.src # src} \cup {[id |-> id, group |-> g, src |-> src, dst |-> dst]}
InsertSwapped(rows, id, g, src, dst) ==
    rows \cup {[id |-> id, group |-> g, src |-> dst, dst |-> src]}

(* insert: AUTOINCREMENT gives the row the next id. *)
Insert(rows, id, g, src, dst) ==
    rows \cup {[id |-> id, group |-> g, src |-> src, dst |-> dst]}

(* mark_recalled (INSERT OR REPLACE under a unique index) and is_recalled *)
MarkRecalled(markers, g, e) == markers \cup {<<g, e>>}

IsRecalled(markers, g, e) == <<g, e>> \in markers
=============================================================================
