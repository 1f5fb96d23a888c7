SPECIFICATION Spec
CONSTANTS
    k1 = k1  k2 = k2  group = group  low = low  high = high  raw = raw  junk = junk  code = code  hash = hash
    admin = admin  panel = panel
    Absent = Absent  Bad = Bad  NoItem = NoItem
    Keys = {k1, k2}  Values = {low, high, raw, junk}  Groups = {group}  Releases = {code}  Hashes = {hash}
    Hash <- MCHash  KeysOf <- MCKeysOf  GroupOf <- MCGroupOf  DefaultOf <- MCDefaultOf
    Canon <- MCCanon  Admitted <- MCAdmitted  Validated = {}
    GroupRule <- MCGroupRule  CatalogueRule <- MCCatalogueRule
    Editors = {editor}
    Sites = {admin, panel}
    Panels = {panel}
    Demanding = {admin}
    FormKeys <- MCFormKeys  Clean <- MCClean  Unchecked <- MCUnchecked
    Requests <- MCRequests
    Release = code
    MaxVersion = 3
INVARIANTS
    TypeOK
PROPERTIES
    OnlyToldIsReplaced UntouchedIsNamed SavedAsSubmitted
