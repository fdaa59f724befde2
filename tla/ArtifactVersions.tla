-------------------------- MODULE ArtifactVersions --------------------------
(***************************************************************************)
(* The versions of an artifact, api/routes/artifacts.py over the table of  *)
(* db/models.py: a row names the row it was edited from, and a new version *)
(* is one more than the largest of its lineage.  The route walks the       *)
(* lineage with one query after another and inserts at the end, without a  *)
(* lock and without a unique index, so the queries of two edits interleave *)
(* and each sees what the other has committed by then.                     *)
(*                                                                         *)
(* An artifact is its place in the order of insertion (a UUID in the code, *)
(* which is unique without being ordered).  Contents, hashes and messages  *)
(* are not modelled.                                                       *)
(***************************************************************************)
EXTENDS Naturals, Sequences, FiniteSetsExt

CONSTANTS
    Editors,        \* requests to create_artifact_version
    MaxArtifacts    \* bound on the rows that are ever inserted

VARIABLES
    artifacts,      \* the rows, in the order of insertion
    editor          \* the coroutines of create_artifact_version

versionVars == <<artifacts, editor>>

\* A row: parent 0 is none.  "unseen" is a history variable: the rows that were
\* inserted while the one who made this row was at work.
Row(parent, version, unseen) ==
    [parent |-> parent, version |-> version, unseen |-> unseen]

NoEdit == [pc |-> "idle", parent |-> 0, lineage |-> {}, todo |-> <<>>, max |-> 0, since |-> 0]

VersionsInit ==
    /\ artifacts = <<>>
    /\ editor = [e \in Editors |-> NoEdit]

Rows == DOMAIN artifacts

\* The walk along parent_id.  A row never changes its parent and is never
\* deleted, so that the queries of one walk make no difference.
Ancestors ==
    LET up[a \in Rows] ==
            IF artifacts[a].parent = 0 THEN {a} ELSE {a} \cup up[artifacts[a].parent]
    IN up

Root(a) == CHOOSE b \in Ancestors[a] : artifacts[b].parent = 0

Children(a) == {b \in Rows : artifacts[b].parent = a}

\* What lists, shows and compares the versions of an artifact goes by: the rows
\* that have its root among their ancestors.
Lineage(a) == {b \in Rows : Root(a) \in Ancestors[b]}

\* get_artifact_version: one_or_none raises when there are two.
GetVersion(a, v) ==
    LET found == {b \in Lineage(a) : artifacts[b].version = v}
    IN IF found = {} THEN "not found"
       ELSE IF Cardinality(found) = 1 THEN "found"
       ELSE "multiple results"

(***************************************************************************)
(* Actions.                                                                *)
(***************************************************************************)

\* What an agent produced: a root, with the version the table gives it.
StoreArtifact ==
    /\ Len(artifacts) < MaxArtifacts
    /\ artifacts' = Append(artifacts, Row(0, 1, {}))
    /\ UNCHANGED editor

\* create_artifact_version up to the first query for children: the artifact and
\* the walk to its root.
BeginEdit(e, a) ==
    /\ editor[e].pc = "idle"
    /\ editor' = [editor EXCEPT ![e] =
                      [pc |-> "walking", parent |-> a, lineage |-> {Root(a)},
                       todo |-> <<{Root(a)}>>, max |-> artifacts[Root(a)].version,
                       since |-> Len(artifacts)]]
    /\ UNCHANGED artifacts

\* Rows that were pushed together.
Level(rows) == IF rows = {} THEN <<>> ELSE <<rows>>

\* to_process.pop and the query for its children.  The list is a stack, and the
\* children of one row come in an order of the database's.
VisitChildren(e) ==
    /\ editor[e].pc = "walking"
    /\ editor[e].todo # <<>>
    /\ LET depth == Len(editor[e].todo)
           top == editor[e].todo[depth]
       IN \E a \in top :
             LET new == Children(a) \ editor[e].lineage
             IN editor' = [editor EXCEPT
                    ![e].lineage = @ \cup new,
                    ![e].todo = SubSeq(@, 1, depth - 1) \o Level(top \ {a}) \o Level(new),
                    ![e].max = Max({@} \cup {artifacts[b].version : b \in new})]
    /\ UNCHANGED artifacts

\* The version of a child of "parent", when "max" is the largest of the lineage.
NextVersionOfParent(parent, max) == artifacts[parent].version + 1

NextVersion(parent, max) == max + 1

InsertVersion(e) ==
    /\ editor[e].pc = "walking"
    /\ editor[e].todo = <<>>
    /\ Len(artifacts) < MaxArtifacts
    /\ artifacts' = Append(artifacts,
           Row(editor[e].parent,
               NextVersion(editor[e].parent, editor[e].max),
               (editor[e].since + 1)..Len(artifacts)))
    /\ editor' = [editor EXCEPT ![e] = NoEdit]

VersionsNext ==
    \/ StoreArtifact
    \/ \E e \in Editors :
          \/ \E a \in Rows : BeginEdit(e, a)
          \/ VisitChildren(e)
          \/ InsertVersion(e)

VersionsSpec == VersionsInit /\ [][VersionsNext]_versionVars

(***************************************************************************)
(* Properties.                                                             *)
(***************************************************************************)

\* A version is larger than the one it was edited from, and two artifacts of a
\* lineage have the same version only when the one was inserted while the other
\* was being edited; otherwise what asks for a version by its number gets it.
VersionsTellApart ==
    \A a \in Rows :
        /\ artifacts[a].parent # 0 =>
               artifacts[a].version > artifacts[artifacts[a].parent].version
        /\ GetVersion(a, artifacts[a].version) # "found" =>
               \E b, c \in Lineage(a) :
                   /\ artifacts[b].version = artifacts[a].version
                   /\ artifacts[c].version = artifacts[a].version
                   /\ b \in artifacts[c].unseen
=============================================================================
