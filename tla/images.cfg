SPECIFICATION Spec
CONSTANTS
  Dists <- MCDists
  Assets <- MCAssets
  Manifest <- MCManifest
  Filters <- MCFilters
  Tools = {t1, t2}
  MayStop = TRUE
  MayDelete = TRUE
INVARIANTS TypeOK PartialHasCause ReadyStaysLinked
