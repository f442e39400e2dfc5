----------------------------- MODULE HierarchyTree -----------------------------
(***************************************************************************)
(* The entity hierarchy of one tenant: HierarchyService creates nodes one   *)
(* by one or from a CSV file, and reads subtrees, which it finds by         *)
(* comparing paths.  update and softDelete change no column that any of     *)
(* this reads, and move changes nothing, see MoveAccepted.                  *)
(*                                                                         *)
(* A code is unique in a tenant and never changes, and a node is never      *)
(* deleted: the node is named by its code.  A path, in the code the codes   *)
(* from the root joined with dots, is the sequence of what is between its   *)
(* dots, its labels.  One label may begin with another, and a code from a   *)
(* file may have dots in it: then it is several labels, and two nodes may   *)
(* have one path.                                                           *)
(***************************************************************************)
EXTENDS FormulaOrder

CONSTANTS
    Codes,
    Labels,
    LabelsOf,       \* the labels of a code
    BeginsWith,     \* the pairs <<l, m>>: m is the label l and some more characters
    Seeded,         \* the nodes there are from the start
    Imports,        \* the CSV files users upload: sequences of rows
    NoCode          \* an empty parent

NodeTypes == {"GROUP", "COMPANY", "BUSINESS_UNIT", "REGION", "FACILITY", "PROCESS", "PRODUCT_LINE"}
EntityTypes == {"GROUP", "LEGAL_ENTITY", "DIVISION", "SITE", "DEPARTMENT"}

Row == [code : Codes, parentCode : Codes \cup {NoCode}, type : NodeTypes]
Node == [parent : Codes \cup {NoCode}, path : Seq(Labels), type : EntityTypes]

VARIABLES
    node,       \* the nodes by their code
    uploaded    \* the import just done: the nodes before it, and its rows (history)

vars == <<node, uploaded>>

Dotted(code) == Len(LabelsOf[code]) > 1

\* The path of a node is that of its parent and its code.
PathsFollow(nodes) ==
    \A c \in DOMAIN nodes :
        LET p == nodes[c].parent
        IN IF p = NoCode THEN nodes[c].path = LabelsOf[c]
           ELSE p \in DOMAIN nodes /\ nodes[c].path = nodes[p].path \o LabelsOf[c]

\* A group is a root.
GroupsAreRoots(nodes) == \A c \in DOMAIN nodes : nodes[c].type = "GROUP" => nodes[c].parent = NoCode

\* What the constants are assumed to be: the nodes there are from the start are a tree.
HierarchyAssumption ==
    /\ NoCode \notin Codes
    /\ LabelsOf \in [Codes -> Seq(Labels) \ {<<>>}]
    /\ \A c, d \in Codes : LabelsOf[c] = LabelsOf[d] => c = d
    /\ BeginsWith \subseteq Labels \X Labels
    /\ Imports \subseteq Seq(Row)
    /\ DOMAIN Seeded \subseteq Codes
    /\ Seeded \in [DOMAIN Seeded -> Node]
    /\ PathsFollow(Seeded) /\ GroupsAreRoots(Seeded)

NoImport == [before |-> <<>>, rows |-> <<>>]

TypeOK ==
    /\ DOMAIN node \subseteq Codes
    /\ \A c \in DOMAIN node : node[c] \in Node

Init == node = Seeded /\ uploaded = NoImport

-------------------------------------------------------------------------------
(* Types.  A request names a NodeType; the row has the EntityType.           *)

mapNodeTypeToEntityType(t) ==
    CASE t = "GROUP" -> "GROUP"
      [] t = "COMPANY" -> "LEGAL_ENTITY"
      [] t = "BUSINESS_UNIT" -> "DIVISION"
      [] t \in {"REGION", "FACILITY"} -> "SITE"
      [] t \in {"PROCESS", "PRODUCT_LINE"} -> "DEPARTMENT"

ALLOWED_PARENTS(t) ==
    CASE t = "COMPANY" -> {"GROUP"}
      [] t = "BUSINESS_UNIT" -> {"GROUP", "COMPANY"}
      [] t = "REGION" -> {"COMPANY", "BUSINESS_UNIT"}
      [] t = "FACILITY" -> {"COMPANY", "BUSINESS_UNIT", "REGION"}
      [] t \in {"PROCESS", "PRODUCT_LINE"} -> {"BUSINESS_UNIT", "FACILITY"}
      [] OTHER -> {}

\* validateParentChild, of the parent's row and the child's request: the parent's type
\* is an EntityType, and only GROUP is in both enumerations.
MayBeRoot(type) == type \in {"GROUP", "COMPANY"}
MayBeChild(type, parent) == parent.type \in ALLOWED_PARENTS(type)

\* move asks the same of the node's row.  Only a GROUP, which is a root, may become a
\* root, and nothing a child: no move that is let through changes anything.
MoveAccepted(n, parent) ==
    IF parent = NoCode THEN MayBeRoot(n.type) ELSE MayBeChild(n.type, node[parent])

-------------------------------------------------------------------------------
\* The row of a node under parent, or of a root, in a table of nodes.
NewPath(nodes, code, parent) ==
    IF parent = NoCode THEN LabelsOf[code] ELSE nodes[parent].path \o LabelsOf[code]

NewNode(nodes, code, parent, type) ==
    [parent |-> parent, path |-> NewPath(nodes, code, parent), type |-> mapNodeTypeToEntityType(type)]

With(nodes, code, n) == [c \in (DOMAIN nodes) \cup {code} |-> IF c = code THEN n ELSE nodes[c]]

\* create; a code with a dot, a path that is taken and a code that is taken, here or
\* elsewhere in the tree, are refused.
Create(code, parent, type) ==
    /\ ~Dotted(code)
    /\ code \notin DOMAIN node
    /\ IF parent = NoCode THEN MayBeRoot(type)
       ELSE parent \in DOMAIN node /\ MayBeChild(type, node[parent])
    /\ \A c \in DOMAIN node : node[c].path # NewPath(node, code, parent)
    /\ node' = With(node, code, NewNode(node, code, parent, type))
    /\ uploaded' = NoImport

-------------------------------------------------------------------------------
(* bulkImport                                                                *)

\* topoSort, which is the search of FormulaOrder along parentCode.
AsFormula(r) == [id |-> r, out |-> r.code,
                 in |-> IF r.parentCode = NoCode THEN <<>> ELSE <<r.parentCode>>]
Sorted(rows) ==
    LET s == TopoSort([i \in DOMAIN rows |-> AsFormula(rows[i])])
    IN [rows |-> [i \in DOMAIN s.done |-> s.done[i].id], cycle |-> s.cycle]

\* One row, of whose code nothing is asked: t.nodes are the nodes there are, t.aborted whether an INSERT has failed, after
\* which the database refuses all others.  A row whose parent is not there, or may not
\* be, is left out; without a parent any type will do.
ImportRow(t, r) ==
    IF \/ t.aborted
       \/ /\ r.parentCode # NoCode
          /\ \/ r.parentCode \notin DOMAIN t.nodes
             \/ ~MayBeChild(r.type, t.nodes[r.parentCode])
    THEN t
    ELSE IF r.code \in DOMAIN t.nodes THEN [t EXCEPT !.aborted = TRUE]
    ELSE [t EXCEPT !.nodes = With(@, r.code, NewNode(@, r.code, r.parentCode, r.type))]

\* The rows in turn.
ImportRows(nodes, rows) ==
    LET after[i \in 0 .. Len(rows)] ==
            IF i = 0 THEN [nodes |-> nodes, aborted |-> FALSE] ELSE ImportRow(after[i - 1], rows[i])
    IN after[Len(rows)]

\* The nodes there are after an import of rows into nodes: a transaction with a failed
\* INSERT is rolled back, and a cycle throws.
Imported(nodes, rows) ==
    LET sorted == Sorted(rows)
        t == ImportRows(nodes, sorted.rows)
    IN IF sorted.cycle \/ t.aborted THEN nodes ELSE t.nodes

BulkImport(rows) ==
    /\ node' = Imported(node, rows)
    /\ uploaded' = [before |-> node, rows |-> rows]

-------------------------------------------------------------------------------
Next == \/ \E code \in Codes, type \in NodeTypes :
              \E parent \in Codes \cup {NoCode} : Create(code, parent, type)
        \/ \E rows \in Imports : BulkImport(rows)

Spec == Init /\ [][Next]_vars

-------------------------------------------------------------------------------
(* Reads.                                                                    *)

\* p.startsWith(q): the labels of q, the last of which the label of p may only begin with.
StartsWith(p, q) ==
    /\ Len(q) <= Len(p)
    /\ \A i \in 1 .. Len(q) - 1 : p[i] = q[i]
    /\ p[Len(q)] = q[Len(q)] \/ <<q[Len(q)], p[Len(q)]>> \in BeginsWith

\* list with a scopeNodeId compares paths as strings.
ListScope(code) == {c \in DOMAIN node : StartsWith(node[c].path, node[code].path)}

\* rollup puts a dot after the path.
RollupByPrefix(code) == ListScope(code)

Rollup(code) ==
    {c \in DOMAIN node :
        c = code \/ (Len(node[c].path) > Len(node[code].path)
                     /\ SubSeq(node[c].path, 1, Len(node[code].path)) = node[code].path)}

-------------------------------------------------------------------------------
(* Properties.                                                               *)

\* The path of a node is that of its parent and its code, wherever the node and its
\* parent came from, and the parent is there: an import attaches rows to nodes of the
\* same file, in any order, or of the table.
PathsFollowParents == PathsFollow(node)

\* rollup, which compares paths, misses nobody: it sums the node and all whose parents
\* lead to it.  It sums nobody else, and not a sibling whose code begins with the node's,
\* unless a file brought a code with a dot into the tree.
RollupIsSubtree ==
    \A c \in DOMAIN node : \A d \in (DOMAIN node) \ {c} :
        /\ node[d].parent \in Rollup(c) => d \in Rollup(c)
        /\ d \in Rollup(c) => \/ node[d].parent \in Rollup(c)
                              \/ \E e \in DOMAIN node : Dotted(e)

\* A move that is let through leaves the node where it is: its path and its children's
\* are right without the rewriting of paths that move has for other cases.
MovesChangeNothing ==
    \A c \in DOMAIN node : \A parent \in (DOMAIN node) \cup {NoCode} :
        MoveAccepted(node[c], parent) => node[c].parent = parent

\* The order of the rows of a file does not matter: it adds the same nodes in any order,
\* if no code is in it twice.
ImportIsOrderFree ==
    LET rows == uploaded.rows
    IN (\A i, j \in DOMAIN rows : rows[i].code = rows[j].code => i = j) =>
          \A s \in [DOMAIN rows -> Range(rows)] : Range(s) = Range(rows) =>
              Imported(uploaded.before, s) = Imported(uploaded.before, rows)

\* The tree and its paths agree: the four properties of them.
HierarchyIsSound == PathsFollowParents /\ RollupIsSubtree /\ MovesChangeNothing /\ ImportIsOrderFree
===============================================================================
