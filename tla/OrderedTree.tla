---------------------------- MODULE OrderedTree ----------------------------
(***************************************************************************)
(* What a forest of XML nodes promises, without pointers: a node has a     *)
(* label and a list of children, a copy is equal to what was copied, and   *)
(* nothing but the trees an operation names is changed.                    *)
(***************************************************************************)
EXTENDS Naturals, Sequences

CONSTANTS Nodes, NoLabel

VARIABLES label, children

vars == <<label, children>>

Live == {n \in Nodes : label[n] # NoLabel}
Elems(s) == {s[i] : i \in DOMAIN s}
Roots == Live \ UNION {Elems(children[n]) : n \in Live}

\* The nodes in S and all under them: what is in every set that has the nodes in S and
\* the children of its members.
Reached(S) ==
  LET links == UNION {{m} \X Elems(children[m]) : m \in Nodes}
      closed == {R \in SUBSET Nodes : S \subseteq R /\ \A e \in links : e[1] \in R => e[2] \in R}
  IN  {n \in Nodes : \A R \in closed : n \in R}

\* Every way to choose a new node for each of the nodes in S.
Choices(S, new) == {f \in [S -> new] : \A a, b \in S : f[a] = f[b] => a = b}

\* The nodes that f maps have copies: with the same labels and with copies of their
\* children, in their order.
Copied(f) ==
  \A m \in DOMAIN f :
    /\ label'[f[m]] = label[m]
    /\ children'[f[m]] = [i \in DOMAIN children[m] |-> f[children[m][i]]]

Image(f) == {f[m] : m \in DOMAIN f}
Kept(S) == \A m \in S : label'[m] = label[m] /\ children'[m] = children[m]
Gone(S) == \A m \in S : label'[m] = NoLabel /\ children'[m] = <<>>

Init == label = [n \in Nodes |-> NoLabel] /\ children = [n \in Nodes |-> <<>>]

\* A node is created, or an existing one labelled again.
Label(n) ==
  /\ n \in Live'
  /\ label' = [label EXCEPT ![n] = label'[n]]
  /\ UNCHANGED children

Attach(n, x) ==
  /\ n \in Live /\ x \in Roots /\ n \notin Reached({x})
  /\ children' = [children EXCEPT ![n] = Append(@, x)]
  /\ UNCHANGED label

\* The children from i to j of n go, and copies of the given nodes take their place;
\* n itself may be given another label.
Splice(n, i, j, sources) ==
  LET s == children[n]
      kept == Live \ Reached({s[k] : k \in i..j})
  IN  /\ Len(children'[n]) = Len(s) - (j + 1 - i) + Len(sources)
      /\ \E f \in Choices(Reached(Elems(sources)), Nodes \ kept) :
        /\ children'[n] = SubSeq(s, 1, i - 1) \o [k \in DOMAIN sources |-> f[sources[k]]]
                            \o SubSeq(s, j + 1, Len(s))
        /\ Copied(f)
        /\ Kept(kept \ {n})
        /\ Gone(Nodes \ (kept \cup Image(f)))

\* A copy of x is put into n, or takes the place of a child of n.
Insert(n, x) ==
  /\ n \in Live /\ x \in Live /\ label'[n] = label[n]
  /\ \E i \in 1..Len(children[n]) + 1 : \E j \in {i - 1, i} \cap 0..Len(children[n]) :
       Splice(n, i, j, <<x>>)

\* A copy of x that is nobody's child.
Clone(x) ==
  /\ x \in Live
  /\ \E f \in Choices(Reached({x}), Nodes \ Live) :
       Copied(f) /\ Kept(Live) /\ Gone(Nodes \ (Live \cup Image(f)))

RemoveChildren(n) ==
  /\ n \in Live /\ label'[n] = label[n]
  /\ \E i, j \in DOMAIN children[n] : Splice(n, i, j, <<>>)

Assign(n, x) ==
  /\ n \in Live /\ x \in Live /\ label'[n] = label[x]
  /\ Splice(n, 1, Len(children[n]), children[x])

\* A tree that is nobody's child is deleted.
Delete(x) == x \in Roots /\ Kept(Live \ Reached({x})) /\ Gone(Nodes \ (Live \ Reached({x})))

Next ==
  \/ \E n \in Nodes : Label(n) \/ Clone(n) \/ RemoveChildren(n) \/ Delete(n)
  \/ \E n, x \in Nodes : Attach(n, x) \/ Insert(n, x) \/ Assign(n, x)

Spec == Init /\ [][Next]_vars
=============================================================================
