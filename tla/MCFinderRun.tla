---------------------------- MODULE MCFinderRun ----------------------------
(* Two of the eight -SLInit names: the first and the last of the list.     *)
EXTENDS FinderRun

MCVariableNames == <<"bServerSku", "bInitialized">>

Packed(major, minor, build, revision) ==
  <<major * Half + minor, build * Half + revision>>

(* Windows 7, 8, 11 at both sides of the revision the choice asks for, and *)
(* the next release of Windows 11.                                         *)
MCFileVersions ==
  {Packed(6, 1, 7601, 17514), Packed(6, 2, 9200, 16384), Packed(10, 0, 26100, 8375),
   Packed(10, 0, 26100, 8376), Packed(10, 0, 28000, 1575)}
=============================================================================
