---------------------------- MODULE MCMigrations ----------------------------
(***************************************************************************)
(* The last migrations of the repository at this commit: authorization and *)
(* workforce-access both bring a version 38.                               *)
(***************************************************************************)
EXTENDS Migrations

CONSTANTS release, immediateRevocation, legacyConstraint, fixedRoles, partTime, path

Migration(v, s) ==
  [version |-> v, checksum |-> s, name |-> path, range |-> AnyApplication,
   complete |-> TRUE, destructive |-> FALSE, approved |-> TRUE, drops |-> FALSE]
Replacing(m) == [m EXCEPT !.destructive = TRUE, !.drops = TRUE]

MCCatalogue == [r \in {release} |->
  {Replacing(Migration(36, immediateRevocation)), Replacing(Migration(37, legacyConstraint)),
   Replacing(Migration(38, fixedRoles)), Migration(38, partTime)}]
MCReviewedChecksums == [v \in {} |-> path]
MCApplicationVersions == {<<0, 0, 0>>}
=============================================================================
