SPECIFICATION Spec
CONSTANTS
  Singletons <- MCSingletons
  Scripts <- MCScripts
  Regions <- MCRegions
  LikelySubtags <- MCLikelySubtags
  Rules <- MCRules
  ParadigmLocales <- MCParadigmLocales
  Threshold = 838
  Supported <- MCSupported
  Default <- MCDefault
  RequestLists <- MCRequestLists
  ExtensionKeys <- MCExtensionKeys
  KeyData <- MCKeyData
  OptionValues <- MCOptionValues
  Aliases <- MCAliases
  ScriptAlias <- MCScriptAlias
  TerritoryAlias <- MCTerritoryAlias
  VariantAlias <- MCVariantAlias
  TypeAlias <- MCTypeAlias
  SubdivisionAlias <- MCSubdivisionAlias
  UnicodeKeys <- MCUnicodeKeys
  FieldKeys <- MCFieldKeys
  Alphabet <- MCAlphabet
  Identifiers <- MCIdentifiers
  Overrides <- MCOverrides
INVARIANTS
  DataLocaleServes
  KeywordsAgree
  LookupImpliesBestFit
  ZeroDistanceIsEquivalence
  NormalFormsSettle
PROPERTIES
  ResolvedLocaleRoundTrips
