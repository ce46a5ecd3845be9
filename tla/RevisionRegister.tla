-------------------------- MODULE RevisionRegister --------------------------
(***************************************************************************)
(* What the document store promises its owners: one register per document  *)
(* that only moves forward (the header of server/store.js). A document is  *)
(* replaced by a higher revision, a tombstone by a higher revision too; at *)
(* the same revision only a deletion replaces, and only a live document.   *)
(***************************************************************************)
EXTENDS Document

CONSTANT Documents   \* the documents and tombstones owners send

VARIABLE register    \* [Key -> Doc \cup {NoRow}]

\* d may replace cur.
Supersedes(d, cur) ==
  \/ cur = NoRow
  \/ d.revision > cur.revision
  \/ d.revision = cur.revision /\ d.deleted /\ ~cur.deleted

Init == register = [k \in Key |-> NoRow]

Put(d) ==
  /\ Supersedes(d, register[d.key])
  /\ register' = [register EXCEPT ![d.key] = d]

\* A deletion that names no revision takes the stored one, or 0 for an unseen document.
Delete(k) ==
  Put(Tombstone(k, IF register[k] = NoRow THEN 0 ELSE register[k].revision))

Next == (\E d \in Documents : Put(d)) \/ (\E k \in Key : Delete(k))

Spec == Init /\ [][Next]_register
=============================================================================
