------------------------------- MODULE Plugins -------------------------------
(***************************************************************************)
(* The built-in plugins (internal/plugin/plugins, internal/pluginreg): for *)
(* each, whether New accepts a configuration, and what its handler does    *)
(* with a request.  A handler refuses the request with a status or calls   *)
(* the next handler with a request; Pass and Refuse are these two          *)
(* outcomes, and an operator gives the set of those the plugin may have.   *)
(*                                                                         *)
(* A value of a configuration has a Go type, which New asserts.  A key, a  *)
(* token and an address are members of small sets, and a list of ranges is *)
(* the list of the addresses in them.                                      *)
(***************************************************************************)
EXTENDS Outbound, Config

CONSTANTS Tokens,      \* what the bearer tokens hold: [token -> [secret, alg, live, claims]]
          Addresses    \* strings that net.ParseIP accepts

\* A configuration value that is not a string, and a CIDR that does not parse.
NotString == <<"not a string">>
Unparsable == <<"unparsable">>

Pass(r) == {[status |-> 0, request |-> r]}
Refuse(r, status) == {[status |-> status, request |-> r]}

stringOr(v, def) == IF v \in {<<>>, NotString} THEN def ELSE v
floatVal(v) == IF v.type = "float64" THEN v.val ELSE 0
stringMap(map) == RestrictValues(map, LAMBDA v : v # NotString)
stringList(list) == Range(list) \ {NotString}

\* The header, parameter or address that a string names.
NameIn(v) == v[1]
NamesIn(list) == {NameIn(v) : v \in stringList(list)}
-----------------------------------------------------------------------------
\* KeyAuthPlugin.New fails without keys; those that are no strings or empty are
\* left out.
KeyAuthNew(c) == c.keys # <<>>

KeyHeader(c) == NameIn(stringOr(c.header, <<"X-API-Key">>))
KeyQuery(c) == NameIn(stringOr(c.query, <<"api_key">>))

\* The key comes from the header or else from the query.
ValidKey(c, r) ==
  LET key == IF Get(r.header, KeyHeader(c)) # <<>> THEN Get(r.header, KeyHeader(c))
             ELSE Get(r.query, KeyQuery(c))
  IN  key \in stringList(c.keys) \ {<<>>}

\* Variant of KeyAuth: the key is hidden in the header only.
KeyAuthHeader(c, r) ==
  IF ~ValidKey(c, r) THEN Refuse(r, 401)
  ELSE IF ~c.hide_credentials THEN Pass(r)
  ELSE Pass([r EXCEPT !.header = Del(@, {KeyHeader(c)})])

KeyAuth(c, r) ==
  IF ~ValidKey(c, r) THEN Refuse(r, 401)
  ELSE IF ~c.hide_credentials THEN Pass(r)
  ELSE Pass([r EXCEPT !.header = Del(@, {KeyHeader(c)}), !.query = Del(@, {KeyQuery(c)})])

\* JWTPlugin.New accepts the three algorithms in any case of letters.
JWTNew(c) == stringOr(c.secret, <<>>) # <<>> /\ stringOr(c.algorithm, <<"HS256">>) \in {<<"HS256">>, <<"hs256">>}

\* jwt.Parse: the signature, the algorithm (as it is spelt) and the expiry.
Verifies(c, t) ==
  t.secret = c.secret /\ t.alg = stringOr(c.algorithm, <<"HS256">>) /\ t.live

\* The loop over the map: claims that the token has become headers.
Claimed(h, claims, map, order) ==
  Loop(LAMBDA g, k : IF k \in DOMAIN claims THEN Put(g, NameIn(map[k]), claims[k]) ELSE g, h, order)

\* extractBearerToken and the handler.
JWT(c, r) ==
  LET v   == Get(r.header, "Authorization")
      map == stringMap(c.claims_to_headers)
  IN  IF v \notin DOMAIN Tokens THEN Refuse(r, 401)
      ELSE IF ~Verifies(c, Tokens[v]) THEN Refuse(r, 401)
      ELSE UNION {Pass([r EXCEPT !.header = Claimed(@, Tokens[v].claims, map, order)]) : order \in Orders(DOMAIN map)}

\* IPRestrictionPlugin.New and parseCIDRList.
IPRestrictionNew(c) == Unparsable \notin stringList(c.allow) \cup stringList(c.deny)

\* The first address of X-Forwarded-For if it is one, else the peer's.
parseClientIP(r) ==
  IF r.xff # <<>> /\ r.xff[1][1] \in Addresses THEN r.xff[1][1] ELSE Client

IPRestriction(c, r) ==
  LET ip    == parseClientIP(r)
      allow == NamesIn(c.allow)
  IN  IF ip \in NamesIn(c.deny) \/ (allow # {} /\ ip \notin allow) THEN Refuse(r, 403) ELSE Pass(r)

\* RateLimitPlugin.New asserts float64 for the rate.
RateLimitNew(c) == c.requests_per_second.type = "float64" /\ c.requests_per_second.val > 0

\* The burst of the limiter: int(rps) when the one configured is no positive float64.
PluginBurst(c) ==
  IF floatVal(c.burst) > 0 THEN floatVal(c.burst) ELSE c.requests_per_second.val \div PerSecond

\* NewIPRateLimit on the first request of a client: its bucket holds the burst.
Limit(burst, r) == IF burst > 0 THEN Pass(r) ELSE Refuse(r, 429)

\* The edits of a transformer's configuration.
Transforms(c) ==
  LET rename == stringMap(c.rename_headers)
  IN  [remove |-> NamesIn(c.remove_headers), add |-> stringMap(c.add_headers),
       rename |-> [old \in DOMAIN rename |-> NameIn(rename[old])]]

RequestTransformer(c, r) ==
  LET query == PutAll(Del(r.query, NamesIn(c.remove_query)), stringMap(c.add_query))
  IN  UNION {Pass([r EXCEPT !.header = h, !.query = query]) : h \in applyTransforms(r.header, Transforms(c))}
-----------------------------------------------------------------------------
\* pluginreg.Default.
Registry == {"key-auth", "jwt", "ip-restriction", "request-header-transformer",
             "response-header-transformer", "rate-limit"}

\* p.New(pc.Config) returns no error.
New(pc) ==
  CASE pc.Name = "key-auth" -> KeyAuthNew(pc.Config)
    [] pc.Name = "jwt" -> JWTNew(pc.Config)
    [] pc.Name = "ip-restriction" -> IPRestrictionNew(pc.Config)
    [] pc.Name = "rate-limit" -> RateLimitNew(pc.Config)
    [] OTHER -> TRUE

\* The handler of the plugin; a response transformer only wraps the writer.
Handle(pc, r) ==
  CASE pc.Name = "key-auth" -> KeyAuth(pc.Config, r)
    [] pc.Name = "jwt" -> JWT(pc.Config, r)
    [] pc.Name = "ip-restriction" -> IPRestriction(pc.Config, r)
    [] pc.Name = "rate-limit" -> Limit(PluginBurst(pc.Config), r)
    [] pc.Name = "request-header-transformer" -> RequestTransformer(pc.Config, r)
    [] pc.Name = "response-header-transformer" -> Pass(r)

\* What the writer of a plugin makes of the headers of a response, each of hs; only a
\* response transformer has one.
Written(hs, pc) ==
  IF pc.Name = "response-header-transformer"
  THEN UNION {applyTransforms(h, Transforms(pc.Config)) : h \in hs} ELSE hs

\* What headers may become behind these plugins; the innermost writes first.
WrittenBehind(h, met) == Loop(Written, {h}, Backwards(met))

-----------------------------------------------------------------------------
\* The reference: what a request transformer is to make of a request's headers.
EditedBy(h, pc) ==
  IF pc.Name = "request-header-transformer" THEN Edited(h, Transforms(pc.Config)) ELSE h
EditedBehind(h, met) == Loop(EditedBy, h, met)

\* The headers and the query parameters a plugin may write.
Writes(pc) ==
  CASE pc.Name = "jwt" -> {NameIn(v) : v \in Range(stringMap(pc.Config.claims_to_headers))}
    [] pc.Name = "request-header-transformer" ->
         DOMAIN Transforms(pc.Config).add \cup Range(Transforms(pc.Config).rename)
    [] OTHER -> {}
WritesQuery(pc) ==
  IF pc.Name = "request-header-transformer" THEN DOMAIN stringMap(pc.Config.add_query) ELSE {}
=============================================================================
