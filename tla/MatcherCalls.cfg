SPECIFICATION Spec
CONSTANTS
  Callers = {c1, c2}
  None = None
  Singletons <- MCSingletons
  Scripts <- MCScripts
  Regions <- MCRegions
  LikelySubtags <- MCLikelySubtags
  Aliases <- MCNoAliases
  ScriptAlias <- MCNoAliases
  TerritoryAlias <- MCNoAliases
  VariantAlias <- MCNoAliases
  TypeAlias <- MCNoAliases
  SubdivisionAlias <- MCNoAliases
  UnicodeKeys <- MCUnicodeKeys
  FieldKeys <- MCFieldKeys
  Alphabet <- MCAlphabet
  Rules <- MCRules
  ParadigmLocales <- MCParadigmLocales
  Threshold = 838
  Resources <- MCResources
  Calls <- MCCalls
  LongTags <- MCLongTags
  Default <- MCDefault
INVARIANTS
  TypeOK
  CacheCoherent
  AnswersCorrect
PROPERTIES
  ImplementsService
