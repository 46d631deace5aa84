------------------------------ MODULE XmlNodes ------------------------------
(***************************************************************************)
(* tinyxml: the tree of TiXmlNode objects, linked by parent, prev, next,   *)
(* firstChild and lastChild, under every order of the calls that change it *)
(* and copy it.                                                            *)
(*                                                                         *)
(* Callers keep the promises the comments of tinyxml.h ask for: a node     *)
(* that is linked is given to LinkEndChild no more, nor a node that the    *)
(* new parent is under; only a node without a parent is deleted.           *)
(***************************************************************************)
EXTENDS Naturals, SequencesExt, FiniteSets

CONSTANTS
  Nodes,   \* the objects there may be
  Null,    \* the null pointer
  Values   \* names of elements and texts

ASSUME NodesAssumption == IsFiniteSet(Nodes) /\ Null \notin Nodes

VARIABLE node  \* the fields of each object

Kinds == {"document", "element", "text"}
Free ==
  [kind |-> "free", value |-> Null, error |-> FALSE, parent |-> Null, prev |-> Null,
   next |-> Null, firstChild |-> Null, lastChild |-> Null]

Constructed(kind, value) == [Free EXCEPT !.kind = kind, !.value = value]

Live == {n \in Nodes : node[n].kind # "free"}
Containers == {n \in Live : node[n].kind # "text"}

TypeOK ==
  node \in [Nodes ->
    [kind : Kinds \cup {"free"}, value : Values \cup {Null}, error : BOOLEAN,
     parent : Nodes \cup {Null}, prev : Nodes \cup {Null}, next : Nodes \cup {Null},
     firstChild : Nodes \cup {Null}, lastChild : Nodes \cup {Null}]]
-----------------------------------------------------------------------------
(***************************************************************************)
(* Walking the links                                                       *)
(***************************************************************************)
\* The nodes from start on along a link; one more than there are if it is a ring.
Chain(nodes, link, start) ==
  LET longer == [s \in Seq(Nodes) |->
        IF s = <<>> \/ nodes[Last(s)][link] = Null THEN s ELSE Append(s, nodes[Last(s)][link])]
      walk[k \in Nat] ==
        IF k = 0 THEN IF start = Null THEN <<>> ELSE <<start>> ELSE longer[walk[k - 1]]
  IN  walk[Cardinality(Nodes)]

Elems(s) == {s[i] : i \in DOMAIN s}
Children(n) == Chain(node, "next", node[n].firstChild)
Ancestors(n) == Chain(node, "parent", node[n].parent)

\* What the destructor of n deletes: n and, child by child, what is under it.
Subtree(n) ==
  LET more == [S \in SUBSET Nodes |-> S \cup UNION {Elems(Children(m)) : m \in S}]
      reach[k \in Nat] == IF k = 0 THEN {n} ELSE more[reach[k - 1]]
  IN  reach[Cardinality(Nodes)]

Following(n) == Chain(node, "next", node[n].next)
Preceding(n) == Chain(node, "prev", node[n].prev)

Named(v) == {m \in Nodes : node[m].value = v}
OfElements == {m \in Nodes : node[m].kind = "element"}

\* Where a loop over the list s that looks for a node of S stops.
FirstIn(s, S) ==
  LET found == {i \in DOMAIN s : s[i] \in S}
  IN  IF found = {} THEN Null ELSE s[CHOOSE i \in found : \A j \in found : i <= j]

FirstChild(n, v) == FirstIn(Children(n), Named(v))
LastChild(n, v) == FirstIn(Chain(node, "prev", node[n].lastChild), Named(v))

\* A slip: the next sibling, whatever its value.
NextSiblingOfAny(n, v) == FirstIn(Following(n), Nodes)

NextSibling(n, v) == FirstIn(Following(n), Named(v))
PreviousSibling(n, v) == FirstIn(Preceding(n), Named(v))
FirstChildElement(n, v) == FirstIn(Children(n), Named(v) \cap OfElements)
NextSiblingElement(n, v) == FirstIn(Following(n), Named(v) \cap OfElements)
FirstElement(n) == FirstIn(Children(n), OfElements)
NextElement(n) == FirstIn(Following(n), OfElements)

\* TiXmlHandle: the child reached by count steps from the first one.
Steps(first, step, count) ==
  LET next == [m \in Nodes \cup {Null} |-> IF m = Null THEN Null ELSE step[m]]
      at[k \in Nat] == IF k = 0 THEN first ELSE next[at[k - 1]]
  IN  at[count]

ChildHandle(n, count) == Steps(node[n].firstChild, [m \in Nodes |-> node[m].next], count)
NamedChildHandle(n, v, count) ==
  Steps(FirstChild(n, v), [m \in Nodes |-> NextSibling(m, v)], count)
ElementHandle(n, count) == Steps(FirstElement(n), [m \in Nodes |-> NextElement(m)], count)
NamedElementHandle(n, v, count) ==
  Steps(FirstChildElement(n, v), [m \in Nodes |-> NextSiblingElement(m, v)], count)

GetDocument(n) == FirstIn(<<n>> \o Ancestors(n), {m \in Nodes : node[m].kind = "document"})

\* SetError on the document of n, if it has one.
SetError(nodes, n) ==
  IF GetDocument(n) = Null THEN nodes ELSE [nodes EXCEPT ![GetDocument(n)].error = TRUE]
-----------------------------------------------------------------------------
(***************************************************************************)
(* Changing the links                                                      *)
(***************************************************************************)
\* The fields of m; nothing if m is the null pointer.
With(nodes, m, field, to) == IF m = Null THEN nodes ELSE [nodes EXCEPT ![m][field] = to]

Deleted(nodes, S) == [m \in Nodes |-> IF m \in S THEN Free ELSE nodes[m]]

\* x stands between the neighbours before and after in the list of n.
Between(nodes, n, before, x, after) ==
  LET linked == [nodes EXCEPT ![x].parent = n, ![x].prev = before, ![x].next = after]
      left == IF before = Null THEN With(linked, n, "firstChild", x)
              ELSE With(linked, before, "next", x)
  IN  IF after = Null THEN With(left, n, "lastChild", x) ELSE With(left, after, "prev", x)

\* A slip: the end of the list is forgotten.
UnlinkedNotLast(nodes, n, x) ==
  LET left == With(nodes, nodes[x].next, "prev", nodes[x].prev)
  IN  IF nodes[x].prev = Null THEN With(left, n, "firstChild", nodes[x].next)
      ELSE With(left, nodes[x].prev, "next", nodes[x].next)

\* x is taken out of the list of n.
Unlinked(nodes, n, x) ==
  LET left == IF nodes[x].next = Null THEN With(nodes, n, "lastChild", nodes[x].prev)
              ELSE With(nodes, nodes[x].next, "prev", nodes[x].prev)
  IN  IF nodes[x].prev = Null THEN With(left, n, "firstChild", nodes[x].next)
      ELSE With(left, nodes[x].prev, "next", nodes[x].next)

\* A slip: the clone keeps the value it was constructed with.
CopiesUnnamed(nodes, f) ==
  LET image(m) == IF m \in DOMAIN f THEN f[m] ELSE Null
      copied(m) ==
        [node[m] EXCEPT !.value = Null, !.parent = image(@), !.prev = image(@),
                        !.next = image(@), !.firstChild = image(@), !.lastChild = image(@)]
  IN  [k \in Nodes |->
        IF \E m \in DOMAIN f : f[m] = k THEN copied(CHOOSE m \in DOMAIN f : f[m] = k)
        ELSE nodes[k]]

\* Clone and CopyTo: children are cloned in their order and linked at the end. f
\* gives each node that is cloned its copy.
Copies(nodes, f) ==
  LET image(m) == IF m \in DOMAIN f THEN f[m] ELSE Null
      copied(m) ==
        [node[m] EXCEPT !.parent = image(@), !.prev = image(@), !.next = image(@),
                        !.firstChild = image(@), !.lastChild = image(@)]
  IN  [k \in Nodes |->
        IF \E m \in DOMAIN f : f[m] = k THEN copied(CHOOSE m \in DOMAIN f : f[m] = k)
        ELSE nodes[k]]

\* Every way to allocate a copy for each of the nodes in S, outside of the nodes in use.
Allocations(S, used) ==
  {f \in [S -> Nodes \ used] : \A a, b \in S : f[a] = f[b] => a = b}
-----------------------------------------------------------------------------
(***************************************************************************)
(* The calls                                                               *)
(***************************************************************************)
Document(x) == node[x].kind = "document"

\* A document's value is the name of its file, which no walk looks at.
New(n, kind, value) ==
  /\ n \notin Live
  /\ kind = "document" <=> value = Null
  /\ node' = [node EXCEPT ![n] = Constructed(kind, value)]

SetValue(n, value) ==
  /\ n \in Live /\ ~Document(n)
  /\ node' = [node EXCEPT ![n].value = value]

\* The node itself is linked; a document is deleted instead.
LinkEndChild(n, x) ==
  /\ n \in Containers /\ x \in Live
  /\ node[x].parent = Null /\ x # n /\ x \notin Elems(Ancestors(n))
  /\ node' = IF Document(x) THEN SetError(Deleted(node, Subtree(x)), n)
             ELSE Between(node, n, node[n].lastChild, x, Null)

\* A copy of x is linked in front of, or behind, a child.
Insert(n, before, x, after) ==
  \/ /\ Document(x)
     /\ node' = SetError(node, n)
  \/ /\ ~Document(x)
     /\ \E f \in Allocations(Subtree(x), Live) :
          node' = Between(Copies(node, f), n, before, f[x], after)

InsertEndChild(n, x) ==
  /\ n \in Containers /\ x \in Live
  /\ Insert(n, node[n].lastChild, x, Null)

InsertBeforeChild(n, beforeThis, x) ==
  /\ n \in Containers /\ x \in Live
  /\ beforeThis \in Live /\ node[beforeThis].parent = n
  /\ Insert(n, node[beforeThis].prev, x, beforeThis)

InsertAfterChild(n, afterThis, x) ==
  /\ n \in Containers /\ x \in Live
  /\ afterThis \in Live /\ node[afterThis].parent = n
  /\ Insert(n, afterThis, x, node[afterThis].next)

\* The copy is made before the child is deleted: it may be a copy of what goes.
ReplaceChild(n, replaceThis, x) ==
  /\ n \in Containers /\ x \in Live
  /\ replaceThis \in Live /\ node[replaceThis].parent = n
  /\ \/ /\ Document(x)
        /\ node' = SetError(node, n)
     \/ /\ ~Document(x)
        /\ \E f \in Allocations(Subtree(x), Live) :
             node' = Deleted(Between(Copies(node, f), n, node[replaceThis].prev, f[x],
                                     node[replaceThis].next),
                             Subtree(replaceThis))

RemoveChild(n, x) ==
  /\ n \in Containers /\ x \in Live /\ node[x].parent = n
  /\ node' = Deleted(Unlinked(node, n, x), Subtree(x))

\* The children are deleted and with them what is under them.
Under(n) == Subtree(n) \ {n}
Cleared(n) ==
  [Deleted(node, Under(n)) EXCEPT ![n].firstChild = Null, ![n].lastChild = Null]

Clear(n) ==
  /\ n \in Containers
  /\ node' = Cleared(n)

\* operator=: what n held is deleted first, its memory may be given to the copies. Of
\* two nodes one under the other, the code would read what it has just deleted.
Assign(n, x) ==
  /\ n \in Containers /\ x \in Containers /\ node[n].kind = node[x].kind
  /\ n \notin Subtree(x) /\ x \notin Subtree(n)
  /\ \E f \in Allocations(Under(x), Live \ Under(n)) :
       LET copies == Copies(Cleared(n), f)
           image(m) == IF m = Null THEN Null ELSE f[m]
       IN  node' = [m \in Nodes |->
             CASE m = n ->
                    [copies[n] EXCEPT
                       !.value = node[x].value,
                       !.error = node[x].error,
                       !.firstChild = image(node[x].firstChild),
                       !.lastChild = image(node[x].lastChild)]
               [] \E c \in Elems(Children(x)) : f[c] = m -> [copies[m] EXCEPT !.parent = n]
               [] OTHER -> copies[m]]

Clone(x) ==
  /\ x \in Live
  /\ \E f \in Allocations(Subtree(x), Live) : node' = Copies(node, f)

Delete(x) ==
  /\ x \in Live /\ node[x].parent = Null
  /\ node' = Deleted(node, Subtree(x))

Init == node = [n \in Nodes |-> Free]

Next ==
  \/ \E n \in Nodes, kind \in Kinds, value \in Values \cup {Null} : New(n, kind, value)
  \/ \E n \in Nodes, value \in Values : SetValue(n, value)
  \/ \E n, x \in Nodes : LinkEndChild(n, x)
  \/ \E n, x \in Nodes : InsertEndChild(n, x)
  \/ \E n, b, x \in Nodes : InsertBeforeChild(n, b, x)
  \/ \E n, a, x \in Nodes : InsertAfterChild(n, a, x)
  \/ \E n, r, x \in Nodes : ReplaceChild(n, r, x)
  \/ \E n, x \in Nodes : RemoveChild(n, x)
  \/ \E n \in Nodes : Clear(n)
  \/ \E n, x \in Nodes : Assign(n, x)
  \/ \E x \in Nodes : Clone(x)
  \/ \E x \in Nodes : Delete(x)

vars == node
Spec == Init /\ [][Next]_vars
-----------------------------------------------------------------------------
(***************************************************************************)
(* Correctness                                                             *)
(***************************************************************************)
Pointers(n) ==
  {node[n].parent, node[n].prev, node[n].next, node[n].firstChild, node[n].lastChild}

\* No node that is in use points to one that was deleted.
NoDangling == \A n \in Live : Pointers(n) \subseteq Live \cup {Null}

\* The children of a node are the same read from the first to the last and back, and
\* each knows its parent: after any insertion, replacement or removal at an end.
LinksMatch ==
  \A n \in Live :
    /\ Chain(node, "prev", node[n].lastChild) = Reverse(Children(n))
    /\ \A m \in Elems(Children(n)) : node[m].parent = n

\* Every node is found from its root, so that deleting the root deletes it, and no node
\* is under itself.
Reachable ==
  \A n \in Live :
    /\ node[n].parent # Null => n \in Elems(Children(node[n].parent))
    /\ node[n].parent = Null => node[n].prev = Null /\ node[n].next = Null
    /\ n \notin Elems(Ancestors(n))

\* tinyxml.cpp: "A document can never be a child", whatever copies a tree.
DocumentOnTop == \A n \in Live : Document(n) => node[n].parent = Null

\* The node of S in the list s that comes after count others.
Nth(s, S, count) ==
  LET before(i) == {j \in 1..(i - 1) : s[j] \in S}
      found == {i \in DOMAIN s : s[i] \in S /\ Cardinality(before(i)) = count}
  IN  IF found = {} THEN Null ELSE s[CHOOSE i \in found : TRUE]

\* Steps back from the last child of a name.
Back(n, v, count) ==
  Steps(LastChild(n, v), [m \in Nodes |-> PreviousSibling(m, v)], count)

Navigates(count) ==
  \A n \in Containers, v \in Values :
    /\ ChildHandle(n, count) = Nth(Children(n), Nodes, count)
    /\ NamedChildHandle(n, v, count) = Nth(Children(n), Named(v), count)
    /\ ElementHandle(n, count) = Nth(Children(n), OfElements, count)
    /\ NamedElementHandle(n, v, count) = Nth(Children(n), Named(v) \cap OfElements, count)
    /\ Back(n, v, count) = Nth(Reverse(Children(n)), Named(v), count)

\* Stepping with NextSibling or NextSiblingElement from the first child visits the
\* children asked for, all of them, in their order; stepping back visits the same.
Navigation == \A count \in 0..2 : Navigates(count)

\* What holds of the objects between any two calls.
Consistent == TypeOK /\ NoDangling /\ LinksMatch /\ Reachable /\ DocumentOnTop

\* The linked objects are the ordered trees their operations promise: a copy equals its
\* source, and nothing else changes.
Labels == [n \in Nodes |-> IF n \in Live THEN <<node[n].kind, node[n].value>> ELSE <<>>]
Lists == [n \in Nodes |-> IF n \in Live THEN Children(n) ELSE <<>>]

Tree == INSTANCE OrderedTree WITH NoLabel <- <<>>, label <- Labels, children <- Lists

ImplementsOrderedTree == Tree!Spec
=============================================================================
