---------------------------- MODULE GatewayProofs ----------------------------
(***************************************************************************)
(* Proofs about a request on its way through the gateway, for every        *)
(* configuration, request and response: any number of routes and plugins,  *)
(* of transformers one behind the other, and of attempts.  ServeSpec       *)
(* starts with any configuration.                                          *)
(*                                                                         *)
(* One invariant, IInv, carries all of it, because the parts need each     *)
(* other: which edits were made follows from which plugins were met, those *)
(* depend on the route that was found, and what an attempt carries on the  *)
(* request behind the last plugin.                                         *)
(***************************************************************************)
EXTENDS GatewayLemmas

-----------------------------------------------------------------------------
\* What the variables hold.
Shapes ==
  /\ IsConfig(conf) /\ routes = buildRoutes(conf)
  /\ front \in {"router", "gateway"}
  /\ IsResponse(answer)
  /\ Shape(client) /\ Shape(in)
  /\ IsFun(w, Fields) /\ w["Trailer"] = <<>>
  /\ attempts \in Nat

\* How the stages follow on each other.
Phases ==
  /\ stage \in {"front", "global", "route", "engine", "done"}
  /\ stage = "front" => front = "router" /\ todo = <<>> /\ ran = <<>> /\ in = client
  /\ stage \in {"front", "global"} => result = "pending"
  /\ stage \in {"route", "engine"} => result = "handled"
  /\ stage = "engine" => todo = <<>> /\ orig = in
  /\ attempts > 0 => stage \in {"engine", "done"} /\ orig = in

\* The plugins the request has met and those in front of it, in one line.
InLine ==
  /\ ran \in Seq(Wanted) /\ todo \in Seq(Wanted) /\ Behind(ran, todo)
  /\ stage \in {"global", "route", "engine"} => Covers(Wanted, ran, todo)
  /\ \A e \in Wanted, k \in 1..Len(ran) : Before(e, ran[k]) => \E j \in 1..Len(ran) : ran[j] = e
  /\ attempts > 0 => \A e \in Wanted : \E k \in 1..Len(ran) : ran[k] = e

\* The request is on its way or was sent on; it was not refused.
Going == stage # "done" \/ attempts > 0

\* The header is what the transformers are to make of it.
EditInv == Going /\ stage # "front" /\ OnlyEdits => in.header = Expected

\* A hidden key is there only if a plugin further in wrote it.
HideInv ==
  Going =>
    \A k \in 1..Len(ran) :
      Met[k].Name = "key-auth" /\ Met[k].Config.hide_credentials =>
        /\ KeyHeader(Met[k].Config) \in Present(in.header) =>
             \E j \in k + 1..Len(ran) : KeyHeader(Met[k].Config) \in Writes(Met[j])
        /\ KeyQuery(Met[k].Config) \in Present(in.query) =>
             \E j \in k + 1..Len(ran) : KeyQuery(Met[k].Config) \in WritesQuery(Met[j])

\* Every attempt is made from the request as it reached the engine.
OutInv ==
  attempts > 0 =>
    /\ out.header = IF isWebSocketUpgrade(in)
                    THEN Put(Put(removeHopByHopHeaders(in.header), "Connection", <<"Upgrade">>),
                             "Upgrade", <<"websocket">>)
                    ELSE removeHopByHopHeaders(in.header)
    /\ out.query = in.query
    /\ out.proto = IF in.tls THEN "https" ELSE "http"
    /\ out.xff = IF in.xff = <<>> THEN <<<<Client>>>> ELSE <<Append(in.xff[1], Client)>>

\* The inductive invariant.
IInv ==
  /\ Shapes /\ Phases /\ MatchInv /\ InLine /\ EditInv /\ HideInv /\ OutInv
  /\ AnsweredAsWritten /\ TrailersPropagated
-----------------------------------------------------------------------------
\* The route that handles a request is one of the configuration.
LEMMA Chosen ==
  ASSUME Shapes, MatchInv
  PROVE  /\ conf.Proxy.Routes \in Seq(Range(conf.Proxy.Routes))
         /\ Len(routes) = Len(conf.Proxy.Routes)
         /\ result = "handled" => best \in 1..Len(conf.Proxy.Routes)
<1> DEFINE rs == conf.Proxy.Routes
<1>1. rs \in Seq(Range(rs))
  BY DEF Shapes, IsConfig, IsSeq
<1>2. DOMAIN routes = DOMAIN rs
  BY DEF Shapes, buildRoutes
<1>3. Len(routes) = Len(rs)
  <2>1. routes \in Seq(Entries)
    BY DEF MatchInv, Typed
  <2> HIDE DEF rs
  <2> QED BY <1>1, <1>2, <2>1, SMTT(20), Z3T(20)
<1>4. result = "handled" => best \in 1..Len(routes)
  BY SMTT(20), Z3T(20) DEF MatchInv, Typed, ResultInv
<1> QED BY <1>1, <1>3, <1>4

\* Every plugin that is wanted is registered.
LEMMA WantedPlugin ==
  ASSUME NEW e \in Wanted
  PROVE  Entry(e).Name \in Registry
<1>1. CASE e[1] = "global"
  <2>1. PICK k \in UsableIn(conf.Plugins) : e = <<"global", k>>
    BY <1>1, SMTT(20), Z3T(20) DEF Wanted
  <2> QED BY <2>1 DEF Entry, UsableIn, Usable, Registered
<1>2. CASE e[1] # "global"
  <2>1. PICK k \in UsableIn(conf.Proxy.Routes[best].Plugins) : e = <<"route", k>>
    BY <1>2, SMTT(20), Z3T(20) DEF Wanted
  <2> QED BY <2>1 DEF Entry, UsableIn, Usable, Registered
<1> QED BY <1>1, <1>2

\* The plugins met.
LEMMA MetPlugins ==
  ASSUME Shapes, MatchInv, InLine
  PROVE  /\ Len(ran) \in Nat /\ Len(Met) = Len(ran) /\ DOMAIN Met = 1..Len(ran)
         /\ Met \in Seq({Entry(e) : e \in Wanted})
         /\ \A k \in 1..Len(ran) : Met[k] = Entry(ran[k]) /\ Met[k].Name \in Registry
<1>1. ran \in Seq(Wanted)
  BY DEF InLine
<1>2. Len(ran) \in Nat /\ DOMAIN ran = 1..Len(ran) /\ \A k \in 1..Len(ran) : ran[k] \in Wanted
  BY <1>1, SMTT(20), Z3T(20)
<1>3. Met = [k \in 1..Len(ran) |-> Entry(ran[k])]
  BY <1>2 DEF Met
<1>4. Met \in [1..Len(ran) -> {Entry(e) : e \in Wanted}]
  BY <1>2, <1>3
<1>5. \A k \in 1..Len(ran) : Met[k].Name \in Registry
  BY <1>2, <1>3, WantedPlugin
<1> QED BY <1>2, <1>3, <1>4, <1>5, SMTT(20), Z3T(20)

\* An entry stands for the same plugin as long as the request is under way: best
\* changes only while all plugins met are global ones.
LEMMA MetStays ==
  ASSUME Phases, InLine, ran' = ran, conf' = conf, best' = best \/ stage = "global"
  PROVE  Met' = Met
<1>1. Len(ran) \in Nat /\ DOMAIN ran = 1..Len(ran) /\ \A k \in 1..Len(ran) : ran[k] \in Wanted
  BY SMTT(20), Z3T(20) DEF InLine
<1>2. ASSUME NEW k \in 1..Len(ran) PROVE Entry(ran[k])' = Entry(ran[k])
  <2>1. CASE best' = best
    BY <2>1, SMTT(20), Z3T(20) DEF Entry
  <2>2. CASE stage = "global"
    <3>1. ran[k][1] = "global"
      BY <2>2, <1>1, SMTT(20), Z3T(20) DEF Wanted, Phases
    <3> QED BY <3>1 DEF Entry
  <2> QED BY <2>1, <2>2
<1>3. Met = [k \in 1..Len(ran) |-> Entry(ran[k])]
  BY <1>1 DEF Met
<1>4. Met' = [k \in 1..Len(ran) |-> Entry(ran[k])']
  BY <1>1 DEF Met
<1> QED BY <1>2, <1>3, <1>4

\* The step meets no further plugin that has a writer.
StillMet ==
  /\ \A k \in 1..Len(ran) : k \in DOMAIN Met' /\ Met'[k] = Met[k]
  /\ \A k \in DOMAIN Met' : Answers(Met'[k]) => k \in 1..Len(ran)

\* The plugins that have a writer stay the same ones.
LEMMA SameMet ==
  ASSUME Shapes, MatchInv, InLine, Met' = Met
  PROVE  StillMet
BY MetPlugins, ZenonT(60) DEF StillMet

\* A response that has passed the writers of the plugins met is answered as written,
\* also when a plugin that has no writer was met since.
LEMMA Answering ==
  ASSUME Shapes, MatchInv, InLine, NEW h, NEW sent, Filtered(sent, h, Fields, Met, 1), answer' = answer,
         front' = front, StillMet,
         \A n \in Fields \ Present(answer.trailer) :
           reply'.header[n] \in {Laid(sent[n], n), Laid(sent[n] \o <<>>, n)}
  PROVE  AnsweredAsWritten'
<1> DEFINE T(k) == Transforms(Met[k].Config)
<1>0. Len(Met) = Len(ran) /\ Len(ran) \in Nat
  BY MetPlugins
<1>1. ASSUME NEW k \in Outer' PROVE k \in 1..Len(ran) /\ Answers(Met[k]) /\ Edit(k)' = T(k)
  BY SMTT(20), Z3T(20) DEF Outer, Answers, Edit, StillMet
<1>2. ASSUME NEW k \in 1..Len(ran), Answers(Met[k]) PROVE k \in Outer'
  BY <1>2 DEF Outer, Answers, StillMet
<1>3. ASSUME NEW k \in Outer', NEW n \in Fields \ Present(answer.trailer),
             \A j \in Outer' : j < k => n \notin Mentions(Edit(j)')
      PROVE  /\ n \in DOMAIN T(k).add => reply'.header[n] = <<T(k).add[n]>>
             /\ n \in T(k).remove /\ n \notin DOMAIN T(k).add \cup Range(T(k).rename)
                  => reply'.header[n] = Overlaid(NoHeader(Fields))[n]
  <2>1. \A j \in 1..Len(Met) : j < k /\ Answers(Met[j]) => n \notin Mentions(T(j))
    BY <1>0, <1>1, <1>2, <1>3, ZenonT(60)
  <2>2. k \in 1..Len(Met) /\ Answers(Met[k])
    BY <1>0, <1>1, ZenonT(60)
  <2>3. /\ n \in DOMAIN T(k).add => sent[n] = <<T(k).add[n]>>
        /\ n \in T(k).remove /\ n \notin DOMAIN T(k).add \cup Range(T(k).rename) => sent[n] = <<>>
    BY <2>1, <2>2 DEF Filtered
  <2>4. <<>> \o <<>> = <<>> /\ \A x : <<x>> \o <<>> = <<x>> /\ <<x>> # <<>>
    BY SMTT(20), Z3T(20)
  <2>5. reply'.header[n] \in {Laid(sent[n], n), Laid(sent[n] \o <<>>, n)}
    BY ZenonT(60)
  <2>6. Laid(<<>>, n) = Overlaid(NoHeader(Fields))[n] /\ \A x : Laid(<<x>>, n) = <<x>>
    BY <2>4, ZenonT(60) DEF Laid
  <2> HIDE DEF T
  <2> QED BY <2>3, <2>4, <2>5, <2>6, ZenonT(60)
<1> HIDE DEF T
<1>4. ASSUME NEW k \in Outer'
      PROVE  LET t    == Edit(k)'
                 mine == {n \in Fields \ Present(answer.trailer) : \A j \in Outer' : j < k => n \notin Mentions(Edit(j)')}
             IN  /\ \A n \in mine \cap DOMAIN t.add : reply'.header[n] = <<t.add[n]>>
                 /\ \A n \in mine \cap t.remove :
                      n \notin DOMAIN t.add \cup Range(t.rename) => reply'.header[n] = Overlaid(NoHeader(Fields))[n]
  <2>1. Edit(k)' = T(k)
    BY <1>1
  <2> QED BY <2>1, <1>3, ZenonT(60)
<1>5. Overlaid(NoHeader(Fields))' = Overlaid(NoHeader(Fields))
  BY ZenonT(60) DEF Overlaid
<1> QED BY <1>4, <1>5, SMTT(20), Z3T(20) DEF AnsweredAsWritten

\* An error page passes the writers too.
LEMMA ErrorAnswers ==
  ASSUME Shapes, MatchInv, InLine, NEW status, NEW h, IsFun(h, Fields), Error(status, h), StillMet,
         answer' = answer, front' = front
  PROVE  stage' = "done" /\ AnsweredAsWritten' /\ TrailersPropagated'
<1> DEFINE page == Put(h, "Content-Type", <<"text/plain">>)
<1>1. PICK sent \in WriteHeader(page) : reply' = Reply(status, Overlaid(sent), <<>>, "own")
  BY DEF Error
<1>2. IsFun(page, Fields)
  BY DEF IsFun, Put
<1>3. Filtered(sent, page, Fields, Met, 1)
  <2> HIDE DEF page
  <2> DEFINE S == {Entry(e) : e \in Wanted}
  <2>1. Met \in Seq(S)
    BY MetPlugins
  <2>2. sent \in WrittenBehind(page, Met)
    BY <1>1 DEF WriteHeader
  <2> HIDE DEF S
  <2> QED BY <1>2, <2>1, <2>2, WriteLoop, ZenonT(60)
<1>4. reply'.header = Overlaid(sent) /\ reply'.body = "own"
  BY <1>1, ZenonT(60) DEF Reply
<1>5. AnsweredAsWritten'
  <2> HIDE DEF page
  <2>1. DOMAIN sent = Fields
    BY <1>3, ZenonT(60) DEF Filtered, IsFun
  <2>2. \A n \in Fields : reply'.header[n] = Laid(sent[n], n)
    BY <1>4, <2>1, OverlaidHeader, ZenonT(60)
  <2> QED BY <1>3, <2>2, Answering, ZenonT(60)
<1>6. TrailersPropagated'
  BY <1>4 DEF TrailersPropagated
<1> QED BY <1>5, <1>6, ZenonT(60) DEF Error

\* The middleware in front of the plugins: request id, limiter, CORS.
LEMMA EnterStep ==
  ASSUME IInv, Enter
  PROVE  IInv'
<1>0. /\ stage = "front" /\ front = "router" /\ todo = <<>> /\ ran = <<>> /\ in = client /\ result = "pending"
      /\ attempts = 0
  BY SMTT(20), Z3T(20) DEF IInv, Enter, Phases, Shapes
<1>1. /\ UNCHANGED <<vars, orig, out, attempts, given, conf, ran>>
      /\ in' = [in EXCEPT !.header = RequestID(in.header)]
  BY DEF Enter
<1>2. \/ stage' = "done" /\ Error(429, w) /\ w' = w /\ todo' = todo
      \/ stage' = "done" /\ reply' = Reply(204, Overlaid(CORS(w)), <<>>, "own") /\ w' = w /\ todo' = todo
      \/ stage' = "global" /\ w' = CORS(w) /\ todo' = Places("global", UseGlobal(conf.Plugins))
  BY DEF Enter, Error
<1>3. MatchInv'
  BY <1>1, MatchStep DEF IInv
<1>4. in'.header = RequestID(in.header) /\ DOMAIN in' = DOMAIN in /\ in'.query = in.query
  BY <1>1 DEF IInv, Shapes, Shape
<1>5. Shapes'
  <2>1. Shape(in')
    BY <1>4, FrontHeaders, ZenonT(60) DEF IInv, Shapes, Shape
  <2>2. IsFun(w', Fields) /\ w'["Trailer"] = <<>>
    BY <1>2, FrontHeaders, GatewayConfig, ZenonT(60) DEF IInv, Shapes
  <2> QED BY <1>1, <2>1, <2>2, ZenonT(60) DEF IInv, Shapes, given, vars, request
<1>6. Phases'
  BY <1>0, <1>1, <1>2, ZenonT(60) DEF IInv, Phases, given, vars, request
<1>7. Wanted' = Wanted /\ Wanted = {<<"global", k>> : k \in UsableIn(conf.Plugins)}
  BY <1>0, <1>1 DEF Wanted, given, vars, request
<1>8. ran' = <<>> /\ ran' \in Seq(Wanted) /\ Len(ran') = 0 /\ 1..0 = {} /\ Len(<<>>) = 0 /\ <<>> \in Seq(Wanted)
  BY <1>0, <1>1, SMTT(20), Z3T(20)
<1>9. InLine'
  <2>1. CASE stage' = "done" /\ todo' = todo
    BY <2>1, <1>0, <1>1, <1>7, <1>8, SMTT(20), Z3T(20) DEF InLine, Behind
  <2>2. CASE stage' = "global" /\ todo' = Places("global", UseGlobal(conf.Plugins))
    <3> DEFINE list == conf.Plugins
    <3>1. IsSeq(list) /\ Len(list) \in Nat
      BY SMTT(20), Z3T(20) DEF IInv, Shapes, IsConfig, IsSeq
    <3>2. Chain(UseGlobal(list), 1..Len(list), list)
      BY <3>1, UseLoop, ZenonT(60)
    <3> HIDE DEF list
    <3>3. Line(todo', "global", list)
      BY <2>2, <3>1, <3>2, ChainLine, ZenonT(60) DEF list
    <3>4. Wanted' = {<<"global", k>> : k \in UsableIn(list)}
      BY <1>7 DEF list
    <3>5. attempts' = 0
      BY <1>0, <1>1, ZenonT(60)
    <3>6. Behind(ran', todo')
      BY <1>8, <3>3 DEF Line, Behind
    <3>7. Covers(Wanted', ran', todo') /\ todo' \in Seq(Wanted')
      BY <3>3, <3>4, Zenon DEF Line, Covers
    <3> QED BY <1>8, <2>2, <3>5, <3>6, <3>7, <1>7, SMTT(20), Z3T(20) DEF InLine
  <2> QED BY <1>2, <2>1, <2>2, ZenonT(60)
<1>10. Met' = <<>>
  BY <1>8, SMTT(20), Z3T(20) DEF Met
<1>11. EditInv'
  <2>1. Arrived' = in'.header
    BY <1>0, <1>1, <1>4, ZenonT(60) DEF Arrived, given
  <2>2. EditedBehind(Arrived', <<>>) = Arrived'
    BY EditFold, FoldEmpty, ZenonT(60)
  <2>3. Expected' = Arrived'
    BY <1>10, <2>2, ZenonT(60) DEF Expected
  <2> QED BY <2>1, <2>3 DEF EditInv
<1>12. HideInv'
  BY <1>8 DEF HideInv
<1>13. OutInv'
  BY <1>0, <1>1, SMTT(20), Z3T(20) DEF OutInv
<1>14. AnsweredAsWritten'
  BY <1>10, SMTT(20), Z3T(20) DEF AnsweredAsWritten, Outer
<1>15. TrailersPropagated'
  BY <1>2, SMTT(20), Z3T(20) DEF TrailersPropagated, Error, Reply
<1> QED BY <1>3, <1>5, <1>6, <1>9, <1>11, <1>12, <1>13, <1>14, <1>15, ZenonT(60) DEF IInv

\* The order is one.
LEMMA OneBefore ==
  ASSUME Shapes, MatchInv
  PROVE  \A d, e \in Wanted : Before(d, e) => ~Before(e, d)
<1>1. ASSUME NEW list, IsSeq(list), NEW k \in UsableIn(list) PROVE k \in Nat
  <2>1. k \in DOMAIN list
    BY DEF UsableIn
  <2> QED BY <2>1, <1>1, SMTT(20), Z3T(20) DEF IsSeq
<1>2. ASSUME NEW e \in Wanted PROVE e[1] \in {"global", "route"} /\ e[2] \in Nat
  <2>1. CASE e[1] = "global"
    <3>1. PICK k \in UsableIn(conf.Plugins) : e = <<"global", k>>
      BY <2>1, SMTT(20), Z3T(20) DEF Wanted
    <3>2. k \in Nat
      BY <1>1 DEF Shapes, IsConfig
    <3> QED BY <3>1, <3>2, ZenonT(60)
  <2>2. CASE e[1] # "global"
    <3>1. PICK k \in UsableIn(conf.Proxy.Routes[best].Plugins) : e = <<"route", k>> /\ result = "handled"
      BY <2>2, SMTT(20), Z3T(20) DEF Wanted
    <3>2. conf.Proxy.Routes[best] \in Range(conf.Proxy.Routes)
      BY <3>1, Chosen, SMTT(20), Z3T(20) DEF Range
    <3>3. k \in Nat
      BY <3>2, <1>1, ZenonT(60) DEF Shapes, IsConfig
    <3> QED BY <3>1, <3>3, ZenonT(60)
  <2> QED BY <2>1, <2>2, ZenonT(60)
<1>3. ASSUME NEW d \in Wanted, NEW e \in Wanted, Before(d, e), Before(e, d) PROVE FALSE
  <2>1. d[1] \in {"global", "route"} /\ d[2] \in Nat /\ e[1] \in {"global", "route"} /\ e[2] \in Nat
    BY <1>2
  <2> QED BY <2>1, <1>3, SMTT(20), Z3T(20) DEF Before
<1> QED BY <1>3

\* A plugin's handler passes the request on, edited, or refuses it.
LEMMA RunPluginStep ==
  ASSUME IInv, RunPlugin
  PROVE  IInv'
<1> DEFINE e == Head(todo)
           pc == Entry(e)
<1>1. /\ UNCHANGED <<vars, orig, out, attempts, given, conf, w>>
      /\ ran' = Append(ran, e) /\ todo' = Tail(todo)
      /\ stage \in {"global", "route"} /\ todo # <<>>
  BY DEF RunPlugin
<1>2. /\ front' = front /\ client' = client /\ answer' = answer /\ best' = best /\ result' = result
      /\ conf' = conf /\ w' = w /\ attempts' = attempts /\ routes' = routes
  BY <1>1, ZenonT(60) DEF given, vars, request
<1>3. attempts = 0
  BY <1>1, SMTT(20), Z3T(20) DEF IInv, Phases, Shapes
<1>4. PICK o \in Handle(pc, in) :
        /\ in' = o.request
        /\ IF o.status = 0 THEN stage' = stage /\ reply' = reply ELSE Error(o.status, w)
  BY DEF RunPlugin
<1>5. e \in Wanted /\ Len(ran) \in Nat /\ ran \in Seq(Wanted)
  BY <1>1, SMTT(20), Z3T(20) DEF IInv, InLine
<1>6. pc.Name \in Registry
  <2> HIDE DEF e
  <2> QED BY <1>5, WantedPlugin, ZenonT(60) DEF IInv
<1> DEFINE N == Len(ran)
<1>7. /\ Len(ran') = N + 1 /\ N \in Nat /\ 1..N + 1 = 1..N \cup {N + 1} /\ \A k \in 1..N : ran'[k] = ran[k]
      /\ ran'[N + 1] = e /\ DOMAIN ran' = 1..N + 1
  BY <1>1, <1>5, SMTT(20), Z3T(20)
<1> DEFINE S == {Entry(x) : x \in Wanted}
<1>8. Met \in Seq(S) /\ Len(Met) = N /\ pc \in S
  BY <1>5, MetPlugins, ZenonT(60) DEF IInv
<1> HIDE DEF S, e
<1>9. Met' = Append(Met, pc)
  <2>1. Met' = [k \in 1..N + 1 |-> Entry(ran[k])']
    BY <1>7, ZenonT(60) DEF Met
  <2>2. \A k : Entry(ran[k])' = Entry(ran'[k])
    BY <1>2 DEF Entry
  <2>3. Met' = [k \in 1..N + 1 |-> Entry(ran'[k])]
    BY <2>1, <2>2, ZenonT(60)
  <2>4. \A k \in 1..N : Met[k] = Entry(ran[k])
    BY MetPlugins DEF IInv
  <2> HIDE DEF pc
  <2>5. Append(Met, pc) = [k \in 1..N + 1 |-> IF k \in 1..N THEN Met[k] ELSE pc]
    <3> DEFINE a == Append(Met, pc)
    <3>1. /\ a \in Seq(S) /\ Len(a) = N + 1 /\ a[N + 1] = pc
          /\ \A k \in 1..N : a[k] = Met[k]
      BY <1>8, SMTT(20), Z3T(20)
    <3>2. N + 1 \notin 1..N
      BY <1>7, SMTT(20), Z3T(20)
    <3> HIDE DEF a
    <3>3. a = [k \in 1..N + 1 |-> a[k]]
      BY <3>1, SMTT(20), Z3T(20)
    <3>4. \A k \in 1..N + 1 : a[k] = IF k \in 1..N THEN Met[k] ELSE pc
      BY <1>7, <3>1, <3>2, ZenonT(60)
    <3>5. a = [k \in 1..N + 1 |-> IF k \in 1..N THEN Met[k] ELSE pc]
      BY <3>3, <3>4, ZenonT(60)
    <3> QED BY <3>5 DEF a
  <2>6. ASSUME NEW k \in 1..N + 1 PROVE Entry(ran'[k]) = IF k \in 1..N THEN Met[k] ELSE pc
    BY <1>7, <2>4, ZenonT(60) DEF pc
  <2> QED BY <2>3, <2>5, <2>6, ZenonT(60)
<1> HIDE DEF pc
<1>10. /\ DOMAIN Met' = 1..N + 1 /\ Met'[N + 1] = pc
       /\ \A k \in 1..N : Met'[k] = Met[k]
  BY <1>7, <1>8, <1>9, SMTT(20), Z3T(20)
<1>11. /\ Handed(pc, in, o)
       /\ o.status = 0 /\ pc.Name = "key-auth" /\ pc.Config.hide_credentials =>
            /\ KeyHeader(pc.Config) \in Names => o.request.header[KeyHeader(pc.Config)] = <<>>
            /\ KeyQuery(pc.Config) \in Keys => o.request.query[KeyQuery(pc.Config)] = <<>>
       /\ /\ pc.Name \notin {"jwt", "key-auth"}
          /\ pc.Name = "request-header-transformer" => Apart(Transforms(pc.Config))
          => o.request.header = EditedBy(in.header, pc)
       /\ pc.Name = "response-header-transformer" => o.status = 0
  <2>1. Shape(in)
    BY DEF IInv, Shapes
  <2> QED BY <1>4, <1>6, <2>1, PluginHands, ZenonT(60)
<1>12. MatchInv'
  BY <1>1, MatchStep, ZenonT(60) DEF IInv
<1>13. Shapes'
  BY <1>2, <1>4, <1>11, ZenonT(60) DEF IInv, Shapes, Handed
<1>14. stage' \in {stage, "done"}
  BY <1>4, ZenonT(60) DEF Error
<1>15. Phases'
  BY <1>1, <1>2, <1>3, <1>14, ZenonT(60) DEF IInv, Phases
<1>16. InLine'
  <2>1. Wanted' = Wanted
    BY <1>2, ZenonT(60) DEF Wanted
  <2>2. Behind(ran, todo) /\ Covers(Wanted, ran, todo) /\ todo \in Seq(Wanted)
    BY <1>1, ZenonT(60) DEF IInv, InLine
  <2>3. ran' \in Seq(Wanted) /\ todo' \in Seq(Wanted) /\ Behind(ran', todo') /\ Covers(Wanted, ran', todo')
    BY <1>1, <1>5, <2>2, NextInLine, ZenonT(60) DEF e
  <2>4. \A x \in Wanted, k \in 1..Len(ran') : Before(x, ran'[k]) => \E j \in 1..Len(ran') : ran'[j] = x
    BY <2>3, NoneSkipped, OneBefore, ZenonT(60) DEF IInv
  <2> QED BY <1>2, <1>3, <2>1, <2>3, <2>4, SMTT(20), Z3T(20) DEF InLine
<1>17. EditInv'
  <2> SUFFICES ASSUME Going', stage' # "front", OnlyEdits' PROVE in'.header = Expected'
    BY DEF EditInv
  <2>1. Going /\ stage # "front"
    BY <1>1, ZenonT(60) DEF Going
  <2>2. /\ OnlyEdits
        /\ pc.Name \notin {"jwt", "key-auth"}
        /\ pc.Name = "request-header-transformer" => Apart(Transforms(pc.Config))
    <3>1. DOMAIN Met = 1..N
      BY MetPlugins, ZenonT(60) DEF IInv
    <3> QED BY <3>1, <1>7, <1>10, ZenonT(60) DEF OnlyEdits, Edit
  <2>3. in.header = Expected
    BY <2>1, <2>2, ZenonT(60) DEF IInv, EditInv
  <2>4. Expected' = EditedBy(Expected, pc)
    <3>1. Arrived' = Arrived
      BY <1>2, ZenonT(60) DEF Arrived
    <3>2. EditedBehind(Arrived, Append(Met, pc)) = EditedBy(EditedBehind(Arrived, Met), pc)
      BY <1>8, EditMore, ZenonT(60)
    <3> QED BY <1>9, <3>1, <3>2, ZenonT(60) DEF Expected
  <2> QED BY <1>4, <1>11, <2>2, <2>3, <2>4, ZenonT(60)
<1>18. HideInv'
  <2> SUFFICES ASSUME Going', NEW k \in 1..N + 1, Met'[k].Name = "key-auth", Met'[k].Config.hide_credentials
               PROVE  /\ KeyHeader(Met'[k].Config) \in Present(in'.header) =>
                           \E j \in k + 1..N + 1 : KeyHeader(Met'[k].Config) \in Writes(Met'[j])
                      /\ KeyQuery(Met'[k].Config) \in Present(in'.query) =>
                           \E j \in k + 1..N + 1 : KeyQuery(Met'[k].Config) \in WritesQuery(Met'[j])
    BY <1>7, ZenonT(60) DEF HideInv
  <2> DEFINE H == KeyHeader(Met'[k].Config)
             Q == KeyQuery(Met'[k].Config)
  <2>1. o.status = 0 /\ Going
    BY <1>1, <1>2, <1>3, <1>4, SMTT(20), Z3T(20) DEF Going, Error
  <2>2. DOMAIN in'.header = Names /\ DOMAIN in'.query = Keys /\ DOMAIN in.header = Names /\ DOMAIN in.query = Keys
    BY <1>13 DEF IInv, Shapes, Shape, IsFun
  <2>3. CASE k = N + 1
    BY <2>1, <2>2, <2>3, <1>4, <1>10, <1>11, ZenonT(60) DEF Present
  <2>4. CASE k \in 1..N
    <3>1. Met'[k] = Met[k]
      BY <2>4, <1>10, ZenonT(60)
    <3>2. /\ H \in Present(in.header) => \E j \in k + 1..N : H \in Writes(Met[j])
          /\ Q \in Present(in.query) => \E j \in k + 1..N : Q \in WritesQuery(Met[j])
      BY <2>1, <2>4, <3>1, ZenonT(60) DEF IInv, HideInv
    <3>3. /\ N + 1 \in k + 1..N + 1
          /\ \A j \in k + 1..N : j \in k + 1..N + 1 /\ j \in 1..N
      BY <2>4, <1>7, SMTT(20), Z3T(20)
    <3>4. H \in Present(in'.header) => H \in Present(in.header) \/ H \in Writes(pc)
      BY <1>4, <1>11, <2>2, ZenonT(60) DEF Handed, Present
    <3>5. Q \in Present(in'.query) => Q \in Present(in.query) \/ Q \in WritesQuery(pc)
      BY <1>4, <1>11, <2>2, ZenonT(60) DEF Handed, Present
    <3> HIDE DEF H, Q
    <3>6. H \in Present(in'.header) => \E j \in k + 1..N + 1 : H \in Writes(Met'[j])
      BY <3>2, <3>3, <3>4, <1>10, ZenonT(60)
    <3>7. Q \in Present(in'.query) => \E j \in k + 1..N + 1 : Q \in WritesQuery(Met'[j])
      BY <3>2, <3>3, <3>5, <1>10, ZenonT(60)
    <3> QED BY <3>6, <3>7, ZenonT(60) DEF H, Q
  <2> QED BY <1>7, <2>3, <2>4, ZenonT(60)
<1>19. OutInv'
  BY <1>2, <1>3, SMTT(20), Z3T(20) DEF OutInv
<1>20. AnsweredAsWritten' /\ TrailersPropagated'
  <2>1. CASE o.status = 0
    BY <2>1, <1>1, <1>4, Zenon DEF AnsweredAsWritten, TrailersPropagated
  <2>2. CASE o.status # 0
    <3>1. ~Answers(pc)
      BY <2>2, <1>11, ZenonT(60) DEF Answers
    <3>2. StillMet
      BY <1>7, <1>10, <3>1, ZenonT(60) DEF StillMet
    <3>3. Error(o.status, w) /\ IsFun(w, Fields)
      BY <2>2, <1>4, ZenonT(60) DEF IInv, Shapes
    <3>4. Shapes /\ MatchInv /\ InLine
      BY DEF IInv
    <3> QED BY <1>2, <3>2, <3>3, <3>4, ErrorAnswers, ZenonT(60)
  <2> QED BY <2>1, <2>2
<1> QED BY <1>12, <1>13, <1>15, <1>16, <1>17, <1>18, <1>19, <1>20, ZenonT(60) DEF IInv

\* Steps that touch neither the request nor the lines of plugins.
LEMMA RequestStays ==
  ASSUME IInv, stage \in {"global", "route", "engine"}, UNCHANGED <<ran, front, client, in>>, Met' = Met
  PROVE  EditInv' /\ HideInv'
<1>1. Going /\ stage # "front"
  BY DEF Going
<1>2. Expected' = Expected
  BY ZenonT(60) DEF Expected, Arrived
<1>3. OnlyEdits' = OnlyEdits
  BY DEF OnlyEdits, Edit
<1>4. EditInv'
  BY <1>1, <1>2, <1>3, ZenonT(60) DEF IInv, EditInv
<1>5. HideInv'
  BY <1>1, ZenonT(60) DEF IInv, HideInv
<1> QED BY <1>4, <1>5

\* Nor does the line of plugins change.
LEMMA LineStays ==
  ASSUME IInv, stage \in {"global", "route", "engine"}, UNCHANGED <<ran, todo>>, Wanted' = Wanted,
         attempts' > 0 => stage = "engine"
  PROVE  InLine'
<1>1. Covers(Wanted, ran, todo)
  BY DEF IInv, InLine
<1>2. stage = "engine" => \A e \in Wanted : \E k \in 1..Len(ran) : ran[k] = e
  <2>1. Len(<<>>) = 0 /\ 1..0 = {}
    BY SMTT(20), Z3T(20)
  <2> QED BY <1>1, <2>1 DEF IInv, Phases, Covers
<1> QED BY <1>1, <1>2, ZenonT(60) DEF IInv, InLine

\* A turn of the scan.
LEMMA ScanStep ==
  ASSUME IInv, Scan
  PROVE  IInv'
<1>1. /\ stage = "global" /\ Consider
      /\ UNCHANGED <<outbound, given, conf, stage, chain, w, reply>>
  BY ZenonT(60) DEF Scan, Matching
<1>2. /\ UNCHANGED <<orig, in, out, attempts, front, client, answer, conf, stage, todo, ran, w, reply>>
      /\ routes' = routes /\ result' = result /\ result = "pending" /\ attempts = 0
  BY <1>1, SMTT(20), Z3T(20) DEF outbound, given, chain, Consider, request, IInv, Phases, Shapes
<1>3. MatchInv'
  BY <1>1, MatchStep, ZenonT(60) DEF IInv
<1>4. Met' = Met
  BY <1>1, <1>2, MetStays, ZenonT(60) DEF IInv
<1>5. Wanted' = Wanted
  BY <1>2, ZenonT(60) DEF Wanted
<1>6. InLine'
  BY <1>1, <1>2, <1>5, LineStays, SMTT(20), Z3T(20)
<1>7. EditInv' /\ HideInv'
  BY <1>1, <1>2, <1>4, RequestStays, ZenonT(60)
<1>8. Shapes' /\ Phases' /\ OutInv' /\ AnsweredAsWritten' /\ TrailersPropagated'
  BY <1>1, <1>2, Zenon DEF IInv, Shapes, Phases, OutInv, AnsweredAsWritten, TrailersPropagated
<1> QED BY <1>3, <1>6, <1>7, <1>8, ZenonT(60) DEF IInv

\* The route is found, and its plugins join the line; or there is none.
LEMMA DispatchStep ==
  ASSUME IInv, Dispatch
  PROVE  IInv'
<1>1. /\ stage = "global" /\ todo = <<>> /\ ServeHTTP
      /\ UNCHANGED <<outbound, given, conf, ran, w>>
  BY ZenonT(60) DEF Dispatch, Matching
<1>2. /\ UNCHANGED <<orig, in, out, attempts, front, client, answer, conf, ran, w, routes, best>>
      /\ result = "pending" /\ attempts = 0 /\ result' \in {"notFound", "handled"}
  BY <1>1, SMTT(20), Z3T(20) DEF outbound, given, ServeHTTP, request, IInv, Phases, Shapes
<1>3. MatchInv'
  BY <1>1, MatchStep, ZenonT(60) DEF IInv
<1>4. Met' = Met
  BY <1>1, <1>2, MetStays, ZenonT(60) DEF IInv
<1>5. EditInv' /\ HideInv'
  BY <1>1, <1>2, <1>4, RequestStays, ZenonT(60)
<1>6. Shapes' /\ OutInv'
  BY <1>2, ZenonT(60) DEF IInv, Shapes, OutInv
<1>7. CASE result' = "notFound"
  <2>1. Error(404, w) /\ todo' = todo
    BY <1>7, ZenonT(60) DEF Dispatch
  <2>2. Wanted' = Wanted
    BY <1>2, <1>7, ZenonT(60) DEF Wanted
  <2>3. InLine'
    BY <1>1, <1>2, <2>1, <2>2, LineStays, SMTT(20), Z3T(20)
  <2>4. Shapes /\ MatchInv /\ InLine /\ IsFun(w, Fields)
    BY ZenonT(60) DEF IInv, Shapes
  <2>5. stage' = "done" /\ AnsweredAsWritten' /\ TrailersPropagated'
    BY <1>2, <1>4, <2>1, <2>4, SameMet, ErrorAnswers, ZenonT(60)
  <2>6. Phases'
    BY <1>2, <2>5, SMTT(20), Z3T(20) DEF Phases
  <2> QED BY <1>3, <1>5, <1>6, <2>3, <2>5, <2>6, ZenonT(60) DEF IInv
<1>8. CASE result' = "handled"
  <2> DEFINE list == conf.Proxy.Routes[best].Plugins
  <2>1. todo' = Places("route", buildPluginChain(list)) /\ stage' = "route"
    BY <1>8, ZenonT(60) DEF Dispatch
  <2>2. IsSeq(list) /\ Len(list) \in Nat
    <3>1. best \in 1..Len(conf.Proxy.Routes) /\ conf.Proxy.Routes \in Seq(Range(conf.Proxy.Routes))
      <4>1. best \in 1..Len(routes)
        BY <1>1, <1>8, SMTT(20), Z3T(20) DEF ServeHTTP, IInv, MatchInv, Typed
      <4> QED BY <4>1, Chosen, ZenonT(60) DEF IInv
    <3>2. conf.Proxy.Routes[best] \in Range(conf.Proxy.Routes)
      BY <3>1, SMTT(20), Z3T(20)
    <3> QED BY <3>2, SMTT(20), Z3T(20) DEF IInv, Shapes, IsConfig, IsSeq
  <2>3. Chain(buildPluginChain(list), 1..Len(list), list)
    BY <2>2, BuildLoop, ZenonT(60)
  <2>4. Wanted' = Wanted \cup {<<"route", k>> : k \in UsableIn(list)}
    BY <1>2, <1>8, ZenonT(60) DEF Wanted
  <2> HIDE DEF list
  <2>5. Line(todo', "route", list)
    BY <2>1, <2>2, <2>3, ChainLine, ZenonT(60)
  <2>6. /\ ran \in Seq(Wanted) /\ Behind(ran, todo)
        /\ \A e \in Wanted : \E k \in 1..Len(ran) : ran[k] = e
    <3>1. Len(<<>>) = 0 /\ 1..0 = {}
      BY SMTT(20), Z3T(20)
    <3> QED BY <1>1, <3>1, ZenonT(60) DEF IInv, InLine, Covers
  <2>7. \A k \in 1..Len(ran) : ran[k][1] = "global"
    BY <1>2, <2>6, SMTT(20), Z3T(20) DEF Wanted
  <2>8. Behind(ran', todo')
    BY <1>2, <2>5, <2>6, <2>7, SMTT(20), Z3T(20) DEF Behind, Line, Before
  <2>9. Covers(Wanted', ran', todo') /\ todo' \in Seq(Wanted') /\ ran' \in Seq(Wanted')
    <3> DEFINE R == {<<"route", k>> : k \in UsableIn(list)}
    <3>1. todo' \in Seq(R) /\ \A e \in R : \E j \in 1..Len(todo') : todo'[j] = e
      BY <2>5, Zenon DEF Line
    <3> HIDE DEF R
    <3>2. Wanted' = Wanted \cup R
      BY <2>4, ZenonT(60) DEF R
    <3>3. Covers(Wanted', ran', todo')
      BY <1>2, <2>6, <3>1, <3>2, ZenonT(60) DEF Covers
    <3>4. todo' \in Seq(Wanted') /\ ran' \in Seq(Wanted')
      BY <1>2, <2>6, <3>1, <3>2, SMTT(20), Z3T(20)
    <3> QED BY <3>3, <3>4
  <2>10. \A x \in Wanted', k \in 1..Len(ran') : Before(x, ran'[k]) => \E j \in 1..Len(ran') : ran'[j] = x
    <3>1. ASSUME NEW x \in Wanted', NEW k \in 1..Len(ran), Before(x, ran[k]) PROVE x \in Wanted
      BY <2>4, <2>7, <3>1, SMTT(20), Z3T(20) DEF Before
    <3> QED BY <3>1, <2>6, <1>2, ZenonT(60)
  <2>11. InLine'
    BY <1>2, <2>8, <2>9, <2>10, SMTT(20), Z3T(20) DEF InLine
  <2>12. Phases' /\ AnsweredAsWritten' /\ TrailersPropagated'
    BY <1>2, <1>8, <2>1, SMTT(20), Z3T(20) DEF Phases, AnsweredAsWritten, TrailersPropagated
  <2> QED BY <1>3, <1>5, <1>6, <2>11, <2>12, ZenonT(60) DEF IInv
<1> QED BY <1>2, <1>7, <1>8, ZenonT(60)

\* The engine takes the request, or refuses it.
LEMMA EnterEngineStep ==
  ASSUME IInv, EnterEngine
  PROVE  IInv'
<1>1. /\ stage = "route" /\ todo = <<>> /\ orig' = in
      /\ UNCHANGED <<vars, in, attempts, given, conf, chain, w>>
  BY ZenonT(60) DEF EnterEngine
<1>2. /\ UNCHANGED <<in, attempts, front, client, answer, conf, todo, ran, w, routes, best, result>>
      /\ result = "handled" /\ attempts = 0
  <2>1. UNCHANGED <<in, attempts, front, client, answer, conf, todo, ran, w, routes, best, result>>
    BY <1>1, ZenonT(60) DEF given, chain, vars, request
  <2>2. result = "handled" /\ ~(attempts > 0) /\ attempts \in Nat
    BY <1>1, ZenonT(60) DEF IInv, Phases, Shapes
  <2> QED BY <2>1, <2>2, SMTT(20), Z3T(20)
<1>3. MatchInv'
  BY <1>1, MatchStep, ZenonT(60) DEF IInv
<1>4. Met' = Met
  BY <1>2, MetStays, ZenonT(60) DEF IInv
<1>5. EditInv' /\ HideInv'
  BY <1>1, <1>2, <1>4, RequestStays, ZenonT(60)
<1>6. Shapes' /\ OutInv'
  <2>1. Shapes'
    BY <1>2, Zenon DEF IInv, Shapes
  <2>2. ~(attempts' > 0)
    BY <1>2, SMTT(20), Z3T(20)
  <2> QED BY <2>1, <2>2, Zenon DEF OutInv
<1>7. Wanted' = Wanted
  BY <1>2, ZenonT(60) DEF Wanted
<1>8. InLine'
  BY <1>1, <1>2, <1>7, LineStays, SMTT(20), Z3T(20)
<1>9. Shapes /\ MatchInv /\ InLine /\ IsFun(w, Fields)
  BY DEF IInv, Shapes
<1>10. stage' \in {"engine", "done"} /\ AnsweredAsWritten' /\ TrailersPropagated'
  <2>1. CASE Error(503, w) \/ Error(500, w)
    BY <1>2, <1>4, <1>9, <2>1, SameMet, ErrorAnswers, ZenonT(60)
  <2>2. CASE ~NotHijacker /\ reply' = Reply(200, Overlaid(w), <<>>, "own") /\ stage' = "done"
    <3>1. Outer' = {}
      BY <1>4, <2>2, ZenonT(60) DEF Outer, NotHijacker
    <3>2. reply'.body = "own"
      BY <2>2, ZenonT(60) DEF Reply
    <3> QED BY <2>2, <3>1, <3>2, ZenonT(60) DEF AnsweredAsWritten, TrailersPropagated
  <2>3. CASE stage' = "engine"
    BY <2>3, ZenonT(60) DEF AnsweredAsWritten, TrailersPropagated
  <2> QED BY <2>1, <2>2, <2>3, ZenonT(60) DEF EnterEngine
<1>11. Phases'
  BY <1>1, <1>2, <1>10, ZenonT(60) DEF Phases
<1> QED BY <1>3, <1>5, <1>6, <1>8, <1>10, <1>11, ZenonT(60) DEF IInv

\* An attempt is made from the request as it reached the engine.
LEMMA AttemptStep ==
  ASSUME IInv, Attempt
  PROVE  IInv'
<1>1. /\ stage = "engine"
      /\ UNCHANGED <<vars, given, conf, stage, chain, w, reply>>
  BY DEF Attempt
<1>2. PICK u \in Targets : forward(u) \/ writeUpstreamHandshake(u)
  BY DEF Attempt
<1>3. /\ UNCHANGED <<orig, in, front, client, answer, conf, stage, todo, ran, w, reply, routes, best, result>>
      /\ result = "handled" /\ orig = in /\ attempts' \in Nat /\ todo = <<>>
  BY <1>1, <1>2, OutboundConfig, SMTT(20), Z3T(20)
     DEF given, chain, vars, request, IInv, Phases, Shapes, forward, writeUpstreamHandshake
<1>4. MatchInv'
  BY <1>1, MatchStep, ZenonT(60) DEF IInv
<1>5. Met' = Met
  BY <1>3, MetStays, ZenonT(60) DEF IInv
<1>6. EditInv' /\ HideInv'
  BY <1>1, <1>3, <1>5, RequestStays, ZenonT(60)
<1>7. Shapes' /\ Phases' /\ AnsweredAsWritten' /\ TrailersPropagated'
  BY <1>1, <1>3, Zenon DEF IInv, Shapes, Phases, AnsweredAsWritten, TrailersPropagated
<1>8. Wanted' = Wanted
  BY <1>3, ZenonT(60) DEF Wanted
<1>9. InLine'
  BY <1>1, <1>3, <1>8, LineStays, ZenonT(60)
<1>10. {"header", "query", "xff", "tls", "proto", "host", "forwardedHost"} \subseteq DOMAIN in
  BY DEF IInv, Shapes, Shape
<1>11. OutInv'
  <2> DEFINE xff == IF in.xff = <<>> THEN <<<<Client>>>> ELSE <<Append(in.xff[1], Client)>>
             hand == Put(Put(removeHopByHopHeaders(in.header), "Connection", <<"Upgrade">>), "Upgrade", <<"websocket">>)
  <2>1. ASSUME NEW h
        PROVE  LET r == appendForwardHeaders([[in EXCEPT !.host = u] EXCEPT !.header = h])
               IN  r.header = h /\ r.query = in.query /\ r.xff = xff /\ r.proto = IF in.tls THEN "https" ELSE "http"
    BY <1>10, ZenonT(60) DEF appendForwardHeaders
  <2>2. CASE forward(u)
    <3>1. out' = appendForwardHeaders([[in EXCEPT !.host = u] EXCEPT !.header = removeHopByHopHeaders(in.header)])
      BY <2>2, <1>10, ZenonT(60) DEF forward, prepareOutboundRequest, rewriteRequest, cloneRequest
    <3>2. ~isWebSocketUpgrade(in)
      BY <2>2 DEF forward
    <3> HIDE DEF xff
    <3>3. out'.header = removeHopByHopHeaders(in.header) /\ out'.query = in.query /\ out'.xff = xff
          /\ out'.proto = IF in.tls THEN "https" ELSE "http"
      BY <2>1, <3>1, Zenon
    <3> QED BY <3>2, <3>3, <1>3, ZenonT(60) DEF OutInv, xff
  <2>3. CASE writeUpstreamHandshake(u)
    <3>1. out' = appendForwardHeaders([[in EXCEPT !.host = u] EXCEPT !.header = hand])
      BY <2>3, <1>10 DEF writeUpstreamHandshake, rewriteRequest, cloneRequest
    <3>2. isWebSocketUpgrade(in)
      BY <2>3 DEF writeUpstreamHandshake
    <3> HIDE DEF xff, hand
    <3>3. out'.header = hand /\ out'.query = in.query /\ out'.xff = xff
          /\ out'.proto = IF in.tls THEN "https" ELSE "http"
      BY <2>1, <3>1, Zenon
    <3> QED BY <3>2, <3>3, <1>3, ZenonT(60) DEF OutInv, xff, hand
  <2> QED BY <1>2, <2>2, <2>3, ZenonT(60)
<1> QED BY <1>4, <1>6, <1>7, <1>9, <1>11, ZenonT(60) DEF IInv

\* The engine's answers: the request has passed all plugins and stays as it is.
LEMMA EngineEnds ==
  ASSUME IInv, stage = "engine", stage' = "done", UNCHANGED <<vars, outbound, given, conf, chain, w>>
  PROVE  Shapes' /\ Phases' /\ MatchInv' /\ InLine' /\ EditInv' /\ HideInv' /\ OutInv' /\ Met' = Met
<1>1. UNCHANGED <<orig, in, out, attempts, front, client, answer, conf, todo, ran, w, routes, best, result>>
  BY DEF outbound, given, chain, vars, request
<1>2. MatchInv'
  BY MatchStep, ZenonT(60) DEF IInv
<1>3. Met' = Met
  BY <1>1, MetStays, ZenonT(60) DEF IInv
<1>4. EditInv' /\ HideInv'
  BY <1>1, <1>3, RequestStays, ZenonT(60)
<1>5. Wanted' = Wanted
  BY <1>1, ZenonT(60) DEF Wanted
<1>6. InLine'
  BY <1>1, <1>5, LineStays, ZenonT(60)
<1>7. Shapes' /\ Phases' /\ OutInv'
  BY <1>1, Zenon DEF IInv, Shapes, Phases, OutInv, isWebSocketUpgrade
<1> QED BY <1>2, <1>3, <1>4, <1>6, <1>7, ZenonT(60)

\* The engine gives up.
LEMMA BadGatewayStep ==
  ASSUME IInv, BadGateway
  PROVE  IInv'
<1>1. stage = "engine" /\ Error(502, w) /\ UNCHANGED <<vars, outbound, given, conf, chain, w>>
  BY DEF BadGateway
<1>2. stage' = "done" /\ answer' = answer /\ front' = front
  BY <1>1, ZenonT(60) DEF Error, given
<1>3. Shapes' /\ Phases' /\ MatchInv' /\ InLine' /\ EditInv' /\ HideInv' /\ OutInv' /\ Met' = Met
  BY <1>1, <1>2, EngineEnds, ZenonT(60)
<1>4. Shapes /\ MatchInv /\ InLine /\ IsFun(w, Fields)
  BY DEF IInv, Shapes
<1>5. AnsweredAsWritten' /\ TrailersPropagated'
  BY <1>1, <1>2, <1>3, <1>4, SameMet, ErrorAnswers, ZenonT(60)
<1> QED BY <1>3, <1>5, ZenonT(60) DEF IInv

\* The response of an upstream goes back through the writers.
LEMMA writeResponseStep ==
  ASSUME IInv, writeResponse
  PROVE  IInv'
<1> DEFINE left == removeHopByHopHeaders(answer.header)
           merged == copyHeaders(w, left)
           trailer == answer.trailer
           announced == answer.announced
<1>1. stage = "engine" /\ stage' = "done" /\ UNCHANGED <<vars, outbound, given, conf, chain, w>>
  BY DEF writeResponse
<1>2. answer' = answer /\ w' = w /\ front' = front
  BY <1>1, ZenonT(60) DEF given
<1>3. Shapes' /\ Phases' /\ MatchInv' /\ InLine' /\ EditInv' /\ HideInv' /\ OutInv' /\ Met' = Met
  BY <1>1, EngineEnds
<1>4. PICK order \in Orders(announced) : \E sent \in WriteHeader(Declared(merged, order)), body \in {"whole", "broken"} :
        LET final == Overlaid(IF body = "broken" THEN sent ELSE copyHeaders(sent, trailer))
        IN  reply' = Reply(answer.status, IF front = "router" THEN final ELSE sent,
                           [n \in {v[1] : v \in Range(sent["Trailer"])} |-> final[n]], body)
  BY Zenon DEF writeResponse, declareTrailers
<1> DEFINE declared == Declared(merged, order)
<1>5. PICK sent \in WriteHeader(declared), body \in {"whole", "broken"} :
        LET final == Overlaid(IF body = "broken" THEN sent ELSE copyHeaders(sent, trailer))
        IN  reply' = Reply(answer.status, IF front = "router" THEN final ELSE sent,
                           [n \in {v[1] : v \in Range(sent["Trailer"])} |-> final[n]], body)
  BY <1>4, Zenon
<1> DEFINE copied == IF body = "broken" THEN sent ELSE copyHeaders(sent, trailer)
           final == Overlaid(copied)
           dom == {v[1] : v \in Range(sent["Trailer"])}
<1>6. /\ reply'.header = IF front = "router" THEN final ELSE sent
      /\ reply'.trailer = [n \in dom |-> final[n]]
      /\ reply'.body = body
  BY <1>5, Zenon DEF Reply
<1>7. /\ IsFun(answer.header, Fields) /\ DOMAIN answer.header = Fields
      /\ IsFun(trailer, Fields) /\ DOMAIN trailer = Fields /\ \A n \in Fields : \E V : trailer[n] \in Seq(V)
  BY Zenon DEF IInv, Shapes, IsResponse, IsHeader, IsFun
<1>8. IsFun(w, Fields) /\ DOMAIN w = Fields /\ w["Trailer"] = <<>>
  BY ZenonT(60) DEF IInv, Shapes, IsFun
<1>a. announced \subseteq Fields \ {"Trailer"}
  BY ZenonT(60) DEF IInv, Shapes, IsResponse
<1> HIDE DEF trailer, announced
<1>9. left = [n \in Fields |-> IF n \in hopByHopHeaders THEN <<>> ELSE answer.header[n]]
  <2> DEFINE h == answer.header
  <2>1. IsFun(h, Fields) /\ "Connection" \in Fields
    BY <1>7, GatewayConfig, Zenon
  <2> HIDE DEF h
  <2>2. removeHopByHopHeaders(h) = [n \in Fields |-> IF n \in hopByHopHeaders THEN <<>> ELSE h[n]]
    BY <2>1, HopByHop, SMTT(20), Z3T(20)
  <2> QED BY <2>2 DEF h
<1>10. <<>> \o <<>> = <<>>
  BY SMTT(20), Z3T(20)
<1>11. merged = [n \in Fields |-> w[n] \o left[n]]
  <2> HIDE DEF left
  <2> QED BY <1>8 DEF copyHeaders
<1>12. left["Trailer"] = <<>> /\ \A n \in Fields \ Present(answer.header) : left[n] = <<>>
  BY <1>7, <1>9, GatewayConfig, Zenon DEF Present, hopByHopHeaders
<1> HIDE DEF left
<1>13. /\ IsFun(merged, Fields) /\ merged["Trailer"] = <<>>
       /\ \A n \in Fields \ (Present(answer.header) \cup Present(w)) : merged[n] = <<>>
  BY <1>8, <1>10, <1>11, <1>12, GatewayConfig, ZenonT(60) DEF IsFun, Present
<1> HIDE DEF merged
<1>14. /\ order \in Seq(announced)
       /\ \A x \in announced : \E k \in 1..Len(order) : order[k] = x
  <2>1. Lists(order, announced)
    BY <1>4, OrderOf, Zenon
  <2> QED BY <2>1, Zenon DEF Lists
<1>15. /\ IsFun(declared, Fields)
       /\ \A n \in Fields : n # "Trailer" => declared[n] = merged[n]
       /\ declared["Trailer"] = [j \in 1..Len(order) |-> <<order[j]>>]
  <2>1. "Trailer" \in Fields
    BY GatewayConfig, ZenonT(60)
  <2>2. ASSUME NEW h, IsFun(h, Fields), h["Trailer"] = <<>>
        PROVE  /\ IsFun(Declared(h, order), Fields)
               /\ \A n \in Fields : n # "Trailer" => Declared(h, order)[n] = h[n]
               /\ Declared(h, order)["Trailer"] = [j \in 1..Len(order) |-> <<order[j]>>]
    BY <1>14, <2>1, <2>2, DeclareLoop, SMTT(20), Z3T(20)
  <2> QED BY <1>13, <2>2, Zenon
<1> HIDE DEF declared
<1>16. Filtered(sent, declared, Fields, Met, 1)
  <2> DEFINE S == {Entry(e) : e \in Wanted}
  <2>1. Met \in Seq(S)
    BY MetPlugins, ZenonT(60) DEF IInv
  <2>2. sent \in WrittenBehind(declared, Met)
    BY <1>5, ZenonT(60) DEF WriteHeader
  <2> HIDE DEF S
  <2> QED BY <1>15, <2>1, <2>2, WriteLoop, ZenonT(60)
<1>17. DOMAIN sent = Fields
  BY <1>16, ZenonT(60) DEF Filtered, IsFun
<1>18. DOMAIN copied = Fields /\ \A n \in Fields : copied[n] \in {sent[n], sent[n] \o trailer[n]}
  BY <1>17, ZenonT(60) DEF copyHeaders
<1>b. \A n \in Fields : final[n] = Laid(copied[n], n)
  <2> HIDE DEF copied
  <2> QED BY <1>18, OverlaidHeader, ZenonT(60)
<1>19. AnsweredAsWritten'
  <2>1. Shapes /\ MatchInv /\ InLine
    BY ZenonT(60) DEF IInv
  <2>2. \A n \in Fields \ Present(trailer) : trailer[n] = <<>>
    BY <1>7 DEF Present
  <2> HIDE DEF final, copied
  <2>3. \A n \in Fields \ Present(answer.trailer) : copied[n] \in {sent[n], sent[n] \o <<>>}
    BY <1>18, <2>2, ZenonT(60) DEF trailer
  <2>4. front # "router" => \A n \in Fields : Laid(sent[n], n) = sent[n]
    BY <1>17, OverlaidHeader, ZenonT(60)
  <2>5. \A n \in Fields \ Present(answer.trailer) :
          reply'.header[n] \in {Laid(sent[n], n), Laid(sent[n] \o <<>>, n)}
    BY <1>6, <1>b, <2>3, <2>4, ZenonT(60)
  <2> QED BY <1>2, <1>3, <1>16, <2>1, <2>5, SameMet, Answering, ZenonT(60)
<1>20. TrailersPropagated'
  <2> SUFFICES ASSUME reply'.body = "whole",
                      NEW n \in (Present(trailer) \cap announced) \ (Present(answer.header) \cup Present(w)),
                      \A k \in Outer' : {n, "Trailer"} \cap Mentions(Edit(k)') = {}
               PROVE  n \in DOMAIN reply'.trailer /\ reply'.trailer[n] = trailer[n]
    BY <1>2, ZenonT(60) DEF TrailersPropagated, trailer, announced
  <2>1. n \in Fields /\ n # "Trailer" /\ "Trailer" \in Fields /\ trailer[n] # <<>>
    BY <1>a, GatewayConfig, ZenonT(60) DEF Present
  <2>2. ASSUME NEW k \in 1..Len(Met), Answers(Met[k])
        PROVE  n \notin Mentions(Transforms(Met[k].Config)) /\ "Trailer" \notin Mentions(Transforms(Met[k].Config))
    <3>1. k \in Outer' /\ Edit(k)' = Transforms(Met[k].Config)
      BY <1>3, <2>2, MetPlugins, ZenonT(60) DEF IInv, Outer, Answers, Edit
    <3> QED BY <3>1, ZenonT(60)
  <2>3. sent[n] = declared[n] /\ sent["Trailer"] = declared["Trailer"]
    BY <2>1, <2>2, <1>16, Zenon DEF Filtered
  <2>4. sent[n] = <<>>
    BY <2>1, <2>3, <1>13, <1>15, ZenonT(60)
  <2>5. n \in dom
    <3>1. PICK k \in 1..Len(order) : order[k] = n
      BY <1>14, ZenonT(60)
    <3>2. sent["Trailer"] = [j \in 1..Len(order) |-> <<order[j]>>]
      BY <2>3, <1>15, ZenonT(60)
    <3>3. <<n>> \in Range(sent["Trailer"])
      BY <3>1, <3>2, ZenonT(60) DEF Range
    <3>4. <<n>>[1] = n
      BY ZenonT(60)
    <3> QED BY <3>3, <3>4, ZenonT(60)
  <2>6. copied[n] = sent[n] \o trailer[n]
    BY <1>6, <1>17, <2>1, ZenonT(60) DEF copyHeaders
  <2>7. final[n] = trailer[n]
    <3>1. PICK V : trailer[n] \in Seq(V)
      BY <1>7, <2>1, ZenonT(60)
    <3>2. <<>> \o trailer[n] = trailer[n]
      BY <3>1, SMTT(20), Z3T(20)
    <3> HIDE DEF final, copied
    <3> QED BY <1>b, <2>1, <2>4, <2>6, <3>2, ZenonT(60) DEF Laid
  <2> HIDE DEF final, dom
  <2> QED BY <1>6, <2>5, <2>7, ZenonT(60)
<1> QED BY <1>3, <1>19, <1>20, ZenonT(60) DEF IInv

\* A step of nothing.
LEMMA NoStep ==
  ASSUME IInv, UNCHANGED gateway
  PROVE  IInv'
<1>1. /\ UNCHANGED vars
      /\ UNCHANGED <<orig, in, out, attempts, front, client, answer, conf, stage, todo, ran, w, reply, routes, best, result>>
  BY ZenonT(60) DEF gateway, outbound, given, chain, vars, request
<1>2. MatchInv'
  BY <1>1, MatchStep, ZenonT(60) DEF IInv
<1>3. Met' = Met
  BY <1>1, MetStays DEF IInv
<1>4. Wanted' = Wanted /\ Expected' = Expected /\ OnlyEdits' = OnlyEdits /\ Going' = Going
  BY <1>1, <1>3, Zenon DEF Wanted, Expected, Arrived, OnlyEdits, Edit, Going
<1>5. Shapes' /\ Phases' /\ InLine'
  BY <1>1, <1>4, Zenon DEF IInv, Shapes, Phases, InLine
<1>6. EditInv' /\ HideInv' /\ OutInv'
  BY <1>1, <1>3, <1>4, Zenon DEF IInv, EditInv, HideInv, OutInv
<1>7. Outer' = Outer /\ \A k : Edit(k)' = Edit(k)
  BY <1>3 DEF Outer, Edit
<1>8. AnsweredAsWritten'
  <2>1. Overlaid(NoHeader(Fields))' = Overlaid(NoHeader(Fields))
    BY <1>1, ZenonT(60) DEF Overlaid
  <2> QED BY <1>1, <1>7, <2>1, ZenonT(60) DEF IInv, AnsweredAsWritten
<1>9. TrailersPropagated'
  BY <1>1, <1>7, Zenon DEF IInv, TrailersPropagated
<1> QED BY <1>2, <1>5, <1>6, <1>8, <1>9, ZenonT(60) DEF IInv

\* A request at the door.
LEMMA InvInit == ServeInit => IInv
<1> SUFFICES ASSUME ServeInit PROVE IInv
  BY ZenonT(60)
<1> USE DEF ServeInit
<1>1. MatchInv
  BY MatchInit, ZenonT(60)
<1>2. /\ in = client /\ orig = client /\ attempts = 0 /\ ran = <<>> /\ todo = <<>> /\ result = "pending"
      /\ stage = IF front = "router" THEN "front" ELSE "global"
  BY DEF OutboundInit, MatchStart, Door
<1>3. Shape(client)
  BY Zenon DEF IsRequest, Request, IsHeader, Shape, IsFun
<1>4. IsFun(w, Fields) /\ w["Trailer"] = <<>>
  BY GatewayConfig DEF NoHeader, IsFun
<1>5. Shapes
  BY <1>2, <1>3, <1>4, Zenon DEF Shapes
<1>6. Phases
  BY <1>2, SMTT(20), Z3T(20) DEF Phases
<1>7. Len(ran) = 0 /\ Len(todo) = 0 /\ 1..0 = {} /\ ran \in Seq(Wanted) /\ todo \in Seq(Wanted)
  BY <1>2, SMTT(20), Z3T(20)
<1>8. stage \in {"global", "route", "engine"} => Wanted = {}
  BY <1>2, ZenonT(60) DEF Wanted
<1>9. InLine
  BY <1>2, <1>7, <1>8, SMTT(20), Z3T(20) DEF InLine, Behind, Covers
<1>10. Met = <<>>
  BY <1>2, SMTT(20), Z3T(20) DEF Met
<1>11. EditInv
  <2>1. EditedBehind(client.header, <<>>) = client.header
    BY EditFold, FoldEmpty, ZenonT(60)
  <2> QED BY <1>2, <1>10, <2>1, ZenonT(60) DEF EditInv, Expected, Arrived
<1>12. HideInv /\ OutInv
  <2>1. 1..Len(ran) = {} /\ ~(attempts > 0)
    BY <1>2, <1>7, SMTT(20), Z3T(20)
  <2>2. HideInv
    BY <2>1, Zenon DEF HideInv
  <2>3. OutInv
    BY <2>1, Zenon DEF OutInv
  <2> QED BY <2>2, <2>3, ZenonT(60)
<1>13. AnsweredAsWritten /\ TrailersPropagated
  BY <1>2, Zenon DEF AnsweredAsWritten, TrailersPropagated
<1> QED BY <1>1, <1>5, <1>6, <1>9, <1>11, <1>12, <1>13, ZenonT(60) DEF IInv

\* Every step of the gateway preserves the invariant.
LEMMA InvStep == IInv /\ [ServeNext]_gateway => IInv'
<1> SUFFICES ASSUME IInv, [ServeNext]_gateway PROVE IInv'
  OBVIOUS
<1>1. CASE Enter
  BY <1>1, EnterStep, ZenonT(60)
<1>2. CASE RunPlugin
  BY <1>2, RunPluginStep, ZenonT(60)
<1>3. CASE Scan
  BY <1>3, ScanStep
<1>4. CASE Dispatch
  BY <1>4, DispatchStep, ZenonT(60)
<1>5. CASE EnterEngine
  BY <1>5, EnterEngineStep
<1>6. CASE Attempt
  BY <1>6, AttemptStep
<1>7. CASE BadGateway
  BY <1>7, BadGatewayStep
<1>8. CASE writeResponse
  BY <1>8, writeResponseStep
<1>9. CASE UNCHANGED gateway
  BY <1>9, NoStep, ZenonT(60)
<1> QED BY <1>1, <1>2, <1>3, <1>4, <1>5, <1>6, <1>7, <1>8, <1>9, ZenonT(60) DEF ServeNext

\* What every request meets.
LEMMA Invariance == ServeSpec => []IInv
<1> QED BY InvInit, InvStep, PTL DEF ServeSpec
-----------------------------------------------------------------------------
\* The line in front of the engine is empty: all plugins were met, in order.
LEMMA LineImplies == IInv => RunsInOrder
<1> SUFFICES ASSUME IInv PROVE RunsInOrder
  BY ZenonT(60)
<1>1. ran \in Seq(Wanted)
  BY DEF IInv, InLine
<1>2. DOMAIN ran = 1..Len(ran) /\ \A k \in 1..Len(ran) : ran[k] \in Wanted
  BY <1>1, SMTT(20), Z3T(20)
<1>3. \A e : e \in Range(ran) <=> \E k \in 1..Len(ran) : ran[k] = e
  BY <1>2, Zenon DEF Range
<1>4. Range(ran) \subseteq Wanted
  BY <1>2, <1>3, ZenonT(60)
<1>5. \A j, k \in DOMAIN ran : j < k => Before(ran[j], ran[k])
  BY <1>2, ZenonT(60) DEF IInv, InLine, Behind
<1>6. \A e \in Wanted, k \in DOMAIN ran : Before(e, ran[k]) => e \in Range(ran)
  BY <1>2, <1>3, ZenonT(60) DEF IInv, InLine
<1>7. attempts > 0 => Wanted \subseteq Range(ran)
  BY <1>3, ZenonT(60) DEF IInv, InLine
<1> QED BY <1>4, <1>5, <1>6, <1>7, ZenonT(60) DEF RunsInOrder

\* The headers of an attempt, name by name.
LEMMA SentHeader ==
  ASSUME IInv, attempts > 0
  PROVE  /\ DOMAIN out.header = Names /\ DOMAIN in.header = Names /\ orig = in
         /\ \A n \in Names \ hopByHopHeaders : out.header[n] = in.header[n]
         /\ \A n \in hopByHopHeaders \cap Names :
              out.header[n] = <<>> \/ (isWebSocketUpgrade(in) /\ n \in {"Connection", "Upgrade"})
<1> DEFINE left == removeHopByHopHeaders(in.header)
<1>1. IsFun(in.header, Names) /\ DOMAIN in.header = Names /\ orig = in
  BY ZenonT(60) DEF IInv, Shapes, Shape, IsFun, Phases
<1>2. left = [n \in Names |-> IF n \in hopByHopHeaders THEN <<>> ELSE in.header[n]]
  BY <1>1, HopByHop, OutboundConfig, SMTT(20), Z3T(20)
<1>3. out.header = IF isWebSocketUpgrade(in)
                   THEN Put(Put(left, "Connection", <<"Upgrade">>), "Upgrade", <<"websocket">>)
                   ELSE left
  BY DEF IInv, OutInv
<1> HIDE DEF left
<1>4. {"Connection", "Upgrade"} \subseteq hopByHopHeaders
  BY DEF hopByHopHeaders
<1>5. CASE isWebSocketUpgrade(in)
  <2>1. out.header = Put(Put(left, "Connection", <<"Upgrade">>), "Upgrade", <<"websocket">>)
    BY <1>3, <1>5, ZenonT(60)
  <2>2. /\ DOMAIN out.header = Names
        /\ \A n \in Names : n \notin {"Connection", "Upgrade"} => out.header[n] = left[n]
    BY <1>2, <2>1, ZenonT(60) DEF Put
  <2> QED BY <1>1, <1>2, <1>4, <1>5, <2>2, Zenon
<1>6. CASE ~isWebSocketUpgrade(in)
  BY <1>1, <1>2, <1>3, <1>6, ZenonT(60)
<1> QED BY <1>5, <1>6, ZenonT(60)

\* What an attempt carries, seen from the request it was made from.
LEMMA OutImplies == IInv => Sanitized /\ ForwardedOnce
<1> SUFFICES ASSUME IInv, attempts > 0 PROVE Sanitized /\ ForwardedOnce
  BY ZenonT(60) DEF Sanitized, ForwardedOnce
<1>1. Sanitized
  BY SentHeader, ZenonT(60) DEF Sanitized, Present
<1>2. Append(<<>>, Client) = <<Client>>
  BY SMTT(20), Z3T(20)
<1>3. ForwardedOnce
  BY <1>2, SentHeader, ZenonT(60) DEF ForwardedOnce, IInv, OutInv
<1> QED BY <1>1, <1>3

\* The edits are in the attempt but for what is hop-by-hop.
LEMMA EditImplies == IInv => TransformedAsWritten
<1> SUFFICES ASSUME IInv, attempts > 0, OnlyEdits,
                    NEW n \in DOMAIN Expected \ (hopByHopHeaders \cup Listed(Expected))
             PROVE  out.header[n] = Expected[n]
  BY ZenonT(60) DEF TransformedAsWritten
<1>1. in.header = Expected
  BY DEF IInv, EditInv, Going, Phases
<1> QED BY <1>1, SentHeader, ZenonT(60)

\* A key in an attempt was in the request that reached the engine.
LEMMA HideImplies == IInv => HiddenCredentials
<1> SUFFICES ASSUME IInv, attempts > 0, NEW k \in DOMAIN Met,
                    Met[k].Name = "key-auth", Met[k].Config.hide_credentials
             PROVE  /\ KeyHeader(Met[k].Config) \in Present(out.header) \ {"Connection", "Upgrade"} =>
                          \E p \in {Met[j] : j \in k + 1..Len(ran)} : KeyHeader(Met[k].Config) \in Writes(p)
                    /\ KeyQuery(Met[k].Config) \in Present(out.query) =>
                          \E p \in {Met[j] : j \in k + 1..Len(ran)} : KeyQuery(Met[k].Config) \in WritesQuery(p)
  BY ZenonT(60) DEF HiddenCredentials
<1>1. k \in 1..Len(ran)
  BY MetPlugins, ZenonT(60) DEF IInv
<1>2. Present(out.header) \ {"Connection", "Upgrade"} \subseteq Present(in.header)
  BY SentHeader, ZenonT(60) DEF Present
<1>3. out.query = in.query
  BY DEF IInv, OutInv
<1>4. /\ KeyHeader(Met[k].Config) \in Present(in.header) =>
            \E j \in k + 1..Len(ran) : KeyHeader(Met[k].Config) \in Writes(Met[j])
      /\ KeyQuery(Met[k].Config) \in Present(in.query) =>
            \E j \in k + 1..Len(ran) : KeyQuery(Met[k].Config) \in WritesQuery(Met[j])
  BY <1>1, Zenon DEF IInv, HideInv, Going
<1> QED BY <1>2, <1>3, <1>4, Zenon

\* match (gateway.go:85-115) finds the first of the best routes in every table, for a
\* request that may have met any global plugins before: a named host beats any path,
\* and then the longer prefix wins.
THEOREM RoutesRight == ServeSpec => []RightRoute
<1>1. IInv => RightRoute
  BY MatchImplies DEF IInv
<1> QED BY <1>1, Invariance, PTL

\* For every configuration, whatever is disabled, unknown or refused in between: the
\* plugins run in the order of the configuration, none is skipped, and no attempt is
\* made before all have run (router.go, gateway.go:139-168).
THEOREM PluginsRunInOrder == ServeSpec => []RunsInOrder
<1> QED BY LineImplies, Invariance, PTL

\* However many attempts the engine makes, each is sent without the hop-by-hop headers
\* but those that a handshake sets, and with all others as they came
\* (headers.go:17-61, tunnel.go:99-116).
THEOREM AttemptsAreSanitized == ServeSpec => []Sanitized
<1>1. IInv => Sanitized
  BY OutImplies, ZenonT(60)
<1> QED BY <1>1, Invariance, PTL

\* Each attempt has this proxy in the forwarding headers once: an attempt is made from
\* the request as it came, and retries do not pile entries up (request.go:11-55).
THEOREM AttemptsAreForwardedOnce == ServeSpec => []ForwardedOnce
<1>1. IInv => ForwardedOnce
  BY OutImplies, ZenonT(60)
<1> QED BY <1>1, Invariance, PTL

\* Any number of transformers, global and of the route, one behind the other: an
\* upstream gets the request as the edits, read one after the other, leave it
\* (request_transformer.go).
THEOREM EditsArrive == ServeSpec => []TransformedAsWritten
<1> QED BY EditImplies, Invariance, PTL

\* A key that key-auth strips reaches no upstream, whatever plugins the request meets
\* before and after, unless one of them writes it again (key_auth.go).
THEOREM CredentialsAreHidden == ServeSpec => []HiddenCredentials
<1> QED BY HideImplies, Invariance, PTL

\* Every response written behind response transformers carries their edits, of any
\* number of them, error pages and refusals included; the outermost has the last
\* word, and only the id that RequestID sets outside of http.TimeoutHandler is out of
\* their reach (response_transformer.go:54-89, router.go:25-27).
THEOREM AnswersAreEdited == ServeSpec => []AnsweredAsWritten
<1>1. IInv => AnsweredAsWritten
  BY ZenonT(60) DEF IInv
<1> QED BY <1>1, Invariance, PTL

\* The trailers that the upstream has announced are declared before its headers are
\* written and copied after the body, through any number of writers (copier.go:8-54).
THEOREM TrailersArrive == ServeSpec => []TrailersPropagated
<1>1. IInv => TrailersPropagated
  BY DEF IInv
<1> QED BY <1>1, Invariance, PTL
==============================================================================
