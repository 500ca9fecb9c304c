------------------------------ MODULE MCPackage ------------------------------
(* PackageLoad on a package of 36 units with fields small, at the ends of  *)
(* the package and so large that a sum with them wraps at 64.              *)
EXTENDS PackageLoad

MCSizes == {5, 36}
MCCounts == {0, 1, 2, 3, 62}
MCOffsets == {0, 16, 61}
MCLengths == {0, 2, 12, 60}
=============================================================================
