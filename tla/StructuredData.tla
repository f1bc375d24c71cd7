--------------------------- MODULE StructuredData ---------------------------
(***************************************************************************)
(* What apps/validator extracts from a page (extractor_service.py).        *)
(*                                                                         *)
(* Microdata: the elements of a page are numbered in document order, so a  *)
(* parent comes before its children; 0 is the document.  An element may    *)
(* open an item (itemscope) and may be a property (itemprop) under one or  *)
(* more names.  RDFa is the same walk over typeof and property.  JSON-LD:  *)
(* the values of a parsed block form such a tree as well.                  *)
(***************************************************************************)
EXTENDS Integers, FiniteSets, FiniteSetsExt, Sequences, SequencesExt, Sums

CONSTANT MaxNames      \* bound: the names that one property lists

ASSUME NamesAssumption == MaxNames \in Nat

Root == 0

\* The trees with n nodes, each labelled from a set.
Trees(n, Labels) == {[parent |-> p, label |-> l] :
                        p \in {q \in [1..n -> 0..(n - 1)] : \A i \in 1..n : q[i] < i},
                        l \in [1..n -> Labels]}

Nodes(tree) == DOMAIN tree.parent

\* The ancestors of every node, itself excluded; Root among them.
Ancestors(tree) ==
    LET a[i \in 0..Cardinality(Nodes(tree))] ==
            IF i = Root THEN {} ELSE {tree.parent[i]} \cup a[tree.parent[i]]
    IN  a

-----------------------------------------------------------------------------
\* names: how many an element lists; none for an empty itemprop or no itemprop.
MarkupLabels == [scope : BOOLEAN, names : 0..MaxNames]

Scopes(page) == {i \in Nodes(page) : page.label[i].scope}

NamesOf(page, i) == page.label[i].names

Properties(page) == {i \in Nodes(page) : NamesOf(page, i) > 0}

\* _nearest_scope: the closest ancestor that opens an item, Root for none.
NearestScope(page, i) == Max((Ancestors(page)[i] \cap Scopes(page)) \cup {Root})

\* Mutant: every property below a scope is taken for one of its own.
PropertiesBelow(page, scope) == {i \in Properties(page) : scope \in Ancestors(page)[i]}

\* find_all(itemprop) below the scope, the properties of nested items skipped.
PropertiesOf(page, scope) == {i \in Properties(page) : /\ scope \in Ancestors(page)[i]
                                                       /\ NearestScope(page, i) = scope}

\* The top-level items: what extract_microdata and extract_rdfa return.
TopScopes(page) == {s \in Scopes(page) : NearestScope(page, s) = Root}

\* _parse_microdata_item, _parse_rdfa_item: how often node i is recorded in the
\* dictionary of the item a scope opens, the items nested in it included.  The
\* value of a property is assigned once for each of its names.
Recorded(page, i) ==
    LET n == Cardinality(Nodes(page))
        \* what is nested in a scope comes later in the document
        in[scope \in 1..n] ==
            SumTo([p \in 1..n |-> IF p \notin PropertiesOf(page, scope) THEN 0
                                  ELSE NamesOf(page, p) * ((IF p = i THEN 1 ELSE 0)
                                           + (IF p \in Scopes(page) THEN in[p] ELSE 0))],
                  n)
    IN  in

\* In the whole of what is returned.
TimesExtracted(page, i) ==
    LET n == Cardinality(Nodes(page)) IN
    SumTo([s \in 1..n |-> IF s \notin TopScopes(page) THEN 0
                          ELSE (IF s = i THEN 1 ELSE 0) + Recorded(page, i)[s]],
          n)

-----------------------------------------------------------------------------
\* A JSON value: a list, an object, one with a list under @graph and without or
\* with a @type of its own, or neither list nor object.
JsonLabels == {"list", "object", "graph", "typed graph", "scalar"}

Children(json, i) == {k \in Nodes(json) : json.parent[k] = i}

\* _flatten_json_ld of the first node: the list of the objects it yields, which the
\* entries of a list or a @graph extend in turn.  No node: no block.
FlattenJsonLd(json) ==
    LET n == Cardinality(Nodes(json))
        f[i \in 1..n] ==
            LET entries == FlattenSeq([k \in 1..n |-> IF k \in Children(json, i) THEN f[k]
                                                      ELSE <<>>])
            IN  CASE json.label[i] = "list" -> entries
                  [] json.label[i] = "graph" -> entries
                  [] json.label[i] = "typed graph" -> Append(entries, i)
                  [] json.label[i] = "object" -> <<i>>
                  [] OTHER -> <<>>
    IN  IF n = 0 THEN <<>> ELSE f[1]

\* What it ought to yield, said without the recursion: the objects below the
\* block through lists and @graph only, a typed container beside its entries.
JsonObjects(json) ==
    {i \in Nodes(json) :
        /\ json.label[i] \in {"object", "typed graph"}
        /\ \A k \in Ancestors(json)[i] \ {Root} :
              json.label[k] \in {"list", "graph", "typed graph"}}

-----------------------------------------------------------------------------
\* Every node belongs to one tree, whose root is its first node.
Rooted(tree) == \A i \in Nodes(tree) \ {1} : tree.parent[i] # Root

\* A list holds the members of a set, each of them once.
ListsOnce(list, set) == ToSet(list) = set /\ Len(list) = Cardinality(set)

\* How often a node belongs into what is returned, said upwards from it: a top-level
\* item once, a property once under each of its names whenever its item is there,
\* and nothing that lies outside every item.
TimesNamed(page) ==
    LET u[i \in 1..Cardinality(Nodes(page))] ==
            LET scope == NearestScope(page, i) IN
            CASE scope # Root -> NamesOf(page, i) * u[scope]
              [] scope = Root /\ i \in Scopes(page) -> 1
              [] OTHER -> 0
    IN  u

\* Everything is extracted as often as it is named, no more and no less.
ExtractedAsNamed(page) ==
    \A i \in Nodes(page) : TimesExtracted(page, i) = TimesNamed(page)[i]

\* Every item nested in another is captured within it.
NestedCaptured(page) ==
    \A s \in Scopes(page) \ TopScopes(page) : TimesExtracted(page, s) > 0
=============================================================================
