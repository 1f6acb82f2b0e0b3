SPECIFICATION NginxSpec
CONSTANTS
  Hosts <- MCHosts
  AnyHost <- NoHost
  Chars = {"/", "a", "b"}
  MaxLen = 3
  MaxRoutes = 3
  HostBonus = 4
  Names = {"Connection", "Upgrade", "Te", "Accept", "X-Trace", "X-API-Key", "Authorization", "X-A", "X-B", "X-Request-ID"}
  Keys = {"api_key"}
  Client = "client"
  Proxy = "proxy"
  MaxAttempts = 2
  Tokens <- MCTokens
  Addresses = {"client", "proxy", "other"}
  Fields = {"Connection", "Te", "Trailer", "Server", "X-Powered-By", "Content-Type", "X-Request-ID", "Access-Control-Allow-Origin", "X-Sum", "X-End"}
  MaxPlugins = 3
  MaxText = 6
INVARIANT PartialFilesWork
CHECK_DEADLOCK FALSE
