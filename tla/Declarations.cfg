SPECIFICATION Spec
CONSTANTS
    None = None
    Absent = Absent
    coerce <- MCCoerce
    validate <- MCValidate
    to_json <- MCToJson
    describe <- MCDescribe
    admits <- MCAdmits
    plain <- MCPlain
    exact <- MCExact
    whole <- MCWhole
    json_schema <- MCJsonSchema
    satisfies <- MCSatisfies
    json_value <- MCJsonValue
    BuiltInTypes <- MCBuiltInTypes
    depth <- MCDepth
    JsonValues <- MCJsonValues
    Length <- MCLength
    Matches <- MCMatches
    Precise = 4
    Largest = 8
    General = 0
    Releases <- MCReleases
    Declared <- MCDeclared
    Lines <- MCLines
    Json <- MCJson
    Raws <- MCRaws
INVARIANTS
    TypeOK ReadersGetValues SchemaIsExact VersionIsExact
PROPERTIES
    EditsNothing RestoresValues ChangesObeyRules
