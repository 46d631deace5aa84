---------------------------- MODULE MCXmlNodes -----------------------------
(***************************************************************************)
(* Small instances of XmlNodes. Which objects are used for which nodes     *)
(* does not matter.                                                        *)
(***************************************************************************)
EXTENDS XmlNodes, TLC

Symmetry == Permutations(Nodes)
=============================================================================
