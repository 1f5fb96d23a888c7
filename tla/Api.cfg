SPECIFICATION ApiSpec
CONSTANTS
    k1 = k1  k2 = k2  group = group  other = other  low = low  high = high  raw = raw  odd = odd
    plain = plain  withDefault = withDefault  withoutKey = withoutKey  lax = lax  h1 = h1  h2 = h2  h3 = h3
    admin = admin  web = web
    Absent = Absent  Bad = Bad  NoItem = NoItem  Free = Free  NoCatalogue = NoCatalogue
    Keys = {k1, k2}  Values = {low, high}  Groups = {group, other}
    Hashes = {h1, h2, h3}
    Hash <- MCHash  KeysOf <- MCKeysOf  GroupOf <- ApiGroupOf  DefaultOf <- MCDefaultOf
    Canon <- MCCanon  Admitted <- MCAdmitted
    GroupRule <- MCGroupRule  CatalogueRule <- MCCatalogueRule
    Procs = {admin, web}
    BatchSize = 1
    Releases = {lax, withoutKey}
    Validated = {lax}
    Requests <- ApiRequests
    Documents <- RefusedDocument
    Keeps = {0}
    MaxVersion = 2
    Shown <- ApiShown  ByName = {web}  Editable <- ApiEditable  Admins = {admin}
INVARIANTS
    ApiTypeOK AnswersAreTrue
PROPERTIES
    OnlySeenIsReplaced RequestsStayWithin
