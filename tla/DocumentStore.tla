--------------------------- MODULE DocumentStore ---------------------------
(***************************************************************************)
(* What the document index promises its readers (docs/model-routing-       *)
(* index-recovery.md): a document is replaced in one step, whatever        *)
(* crashes, failures and cancellations the replacement meets on the way,   *)
(* and a removal may stop half-way but never leaves passages whose parents *)
(* are gone.  A document is a function from the parts it is kept in to     *)
(* the version each part holds.                                            *)
(***************************************************************************)
EXTENDS Naturals

CONSTANTS
  Docs,          \* documents
  Versions       \* what a replacement can write

VARIABLE content \* document -> the parts its readers are served

Gone == 0

Parts == {"active", "desired", "parents", "notes"}

\* A document just replaced: every part holds the version but the notes,
\* which are computed again when they are asked for.
Whole(v) == [p \in Parts |-> IF p = "notes" THEN Gone ELSE v]

Empty == [p \in Parts |-> Gone]

DocInit == content = [d \in Docs |-> Empty]

Replace(d, v) == content' = [content EXCEPT ![d] = Whole(v)]

\* The passages go first, then the parents, then the notes.
Remove(d, p) ==
  /\ p \in {"active", "parents", "notes"}
  /\ p # "active" => content[d]["active"] = Gone
  /\ content' = [content EXCEPT ![d][p] = Gone]

DocNext == \E d \in Docs : (\E v \in Versions : Replace(d, v)) \/ (\E p \in Parts : Remove(d, p))

DocSpec == DocInit /\ [][DocNext]_content

=============================================================================
