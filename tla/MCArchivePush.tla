---------------------------- MODULE MCArchivePush ----------------------------
(***************************************************************************)
(* Instances of ArchivePush for TLC.                                       *)
(***************************************************************************)
EXTENDS ArchivePush

\* No other cluster has pushed, or one has pushed the last segment
NoneOrLast == {{}, {<<R, N>>}}
=============================================================================
