---------------------------- MODULE MCLogModule ----------------------------
(***************************************************************************)
(* Small instances of LogModule.  A unit of <Size> is two bytes and an int *)
(* has four bits, so that a <Size> up to 3 fits in an int.                 *)
(***************************************************************************)
EXTENDS LogModule

CONSTANTS p1, p2, t1, t2

TwoProcs == [t \in Threads |-> IF t = t1 THEN p1 ELSE p2]
OneProc == [t \in Threads |-> p1]

Cfg(section, limit, files, first, rootLog) ==
  [readable |-> TRUE, section |-> section, size |-> limit, num |-> files,
   index |-> first, rootLog |-> rootLog, rootIndex |-> 0]

\* Three files, two files started at the second, one file, a missing <Size>,
\* a missing <Num>, a negative <Num>, no section for the program, a <Size> whose
\* limit wraps to a negative one.
Configs ==
  {Cfg(TRUE, 1, 3, 0, TRUE), Cfg(TRUE, 1, 2, 1, FALSE), Cfg(TRUE, 1, 1, 0, FALSE),
   Cfg(TRUE, 0, 2, 0, FALSE), Cfg(TRUE, 1, 0, 0, FALSE), Cfg(TRUE, 1, -1, 0, FALSE),
   Cfg(FALSE, 1, 2, 0, TRUE), Cfg(TRUE, 4, 2, 0, FALSE)}

TwoFiles == {Cfg(TRUE, 1, 2, 0, TRUE)}
Saved == {Cfg(TRUE, 1, 2, 0, TRUE), Cfg(TRUE, 1, 2, 0, FALSE)}
=============================================================================
