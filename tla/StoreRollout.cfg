SPECIFICATION Spec
CONSTANTS
    k1 = k1  k2 = k2  group = group  low = low  high = high  raw = raw  odd = odd
    plain = plain  withDefault = withDefault  withoutKey = withoutKey  lax = lax  h1 = h1  h2 = h2  h3 = h3
    Absent = Absent  Bad = Bad  NoItem = NoItem  Free = Free  NoCatalogue = NoCatalogue
    Keys = {k1, k2}  Values = {low, high, raw, odd}  Groups = {group}
    Hashes = {h1, h2, h3}
    Hash <- MCHash  KeysOf <- MCKeysOf  GroupOf <- MCGroupOf  DefaultOf <- MCDefaultOf
    Canon <- MCCanon  Admitted <- MCAdmitted
    GroupRule <- MCGroupRule  CatalogueRule <- MCCatalogueRule
    Procs = {p1, p2}
    BatchSize = 1
    Releases = {lax, withDefault, withoutKey}
    Validated = {}
    Requests <- RolloutRequests
    Documents <- MCDocuments
    Keeps = {0, 1}
    MaxVersion = 2
SYMMETRY Symmetry
INVARIANTS
    TypeOK AuditTrail SnapshotsRebuildable VersionsGapless
    OverridesFitCatalogue CallsAreCurrent
PROPERTIES
    ConditionalRestoreIsExact RefinesVersionedStore
