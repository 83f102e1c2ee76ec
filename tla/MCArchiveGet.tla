---------------------------- MODULE MCArchiveGet ----------------------------
(***************************************************************************)
(* Instances of ArchiveGet for TLC.                                        *)
(***************************************************************************)
EXTENDS ArchiveGet

\* All contents agree, or the second repository has another last segment
SameOrOther == {{}, {<<R, N>>}}
=============================================================================
