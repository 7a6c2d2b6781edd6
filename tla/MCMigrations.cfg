SPECIFICATION MigrationsSpec
CONSTANTS
  release = release
  immediateRevocation = immediateRevocation
  legacyConstraint = legacyConstraint
  fixedRoles = fixedRoles
  partTime = partTime
  Runners = {release}
  MigrationVersions = {36, 37, 38}
  Checksums = {immediateRevocation, legacyConstraint, fixedRoles, partTime}
  path = path
  FileNames = {path}
  ReviewedChecksums <- MCReviewedChecksums
  ApplicationVersions <- MCApplicationVersions
  Catalogue <- MCCatalogue
  EvidenceFrom = 36
  NoRunner = NoRunner
INVARIANTS ReleaseMigrates
CHECK_DEADLOCK FALSE
