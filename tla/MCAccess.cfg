SPECIFICATION SuiteSpec
CONSTANTS
  Parts = {"exchange", "backend", "jwt", "opaque"}
  ExchangeRoutes <- ExchangeTable
  Incoming <- ExchangeIncoming
  Edits <- ExchangeEdits
  Lifetimes <- ExchangeLifetimes
  MinCacheTTL = 2
  DefaultExpiresIn = 1
  MaxExpiresIn = 3
  ExchangeTimeout = 1
  NumExchanges = 2
  DefaultCacheMaxSize = 1
  MaxEdits <- ExchangeMaxEdits
  MaxExchangeTime = 2
  Versions <- BackendVersions
  Callers <- BackendCallers
  Requests <- BackendRequests
  KeyFiles <- BackendKeyFiles
  Severed <- BackendSplit
  Listed <- BackendListed
  MinTokenTTL = 2
  MaxBackendTime = 2
  KeyType <- JwtKeyType
  AlgFamily <- JwtAlgFamily
  Routes <- JwtRoutes
  Headers <- JwtHeaders
  Tokens <- JwtTokenTable
  KeySets <- JwtKeySets
  NumCalls = 2
  CacheSizes = {1, 2}
  FetchTimeout = 1
  MaxClock = 4
  OpaqueRoutes <- OpaqueTable
  OpaqueHeaders <- OpaqueTraffic
  Providers <- OpaqueProviders
  Matches <- OpaqueMatches
  Results <- OpaqueResults
  NumOpaque = 2
  OpaqueTimeout = 1
  MaxOpaqueTime = 3
INVARIANTS CallerDue CredentialDue
CHECK_DEADLOCK FALSE
