------------------------------- MODULE OAuthProofs -------------------------------
(***************************************************************************)
(* What the OAuth store guarantees for any number of clients, codes,       *)
(* tokens and concurrent requests, and any lifetimes.                      *)
(***************************************************************************)
EXTENDS OAuth, TLAPS

\* What each kind of request record holds.
LEMMA RequestKinds ==
  ASSUME NEW s \in Request
  PROVE  /\ s.pc \in {"idle", "client", "login", "store", "consume", "check",
                      "mint", "grant"}
         /\ s.pc \in {"client", "login"} =>
              s.client \in Clients /\ s.challenge \in Proof
         /\ s.pc = "store" => s.code \in Codes /\ s.ac \in AuthCode
         /\ s.pc \in {"consume", "check", "mint", "grant"} => s.form \in TokenForm
         /\ s.pc = "check" => s.ac \in AuthCode
         /\ s.pc = "grant" => s.token \in Tokens /\ s.t \in Token
  BY DEF Request, Idle

\* A request record made by a handler is one of those.
LEMMA RequestRecords ==
  /\ Idle \in Request
  /\ \A c \in Clients, ch \in Proof :
       [pc |-> "client", client |-> c, challenge |-> ch] \in Request
  /\ \A k \in Codes, ac \in AuthCode : [pc |-> "store", code |-> k, ac |-> ac] \in Request
  /\ \A form \in TokenForm :
       /\ [pc |-> "consume", form |-> form] \in Request
       /\ [pc |-> "mint", form |-> form] \in Request
       /\ \A ac \in AuthCode : [pc |-> "check", form |-> form, ac |-> ac] \in Request
       /\ \A k \in Tokens, t \in Token :
            [pc |-> "grant", form |-> form, token |-> k, t |-> t] \in Request
<1>1. Idle \in Request
  BY DEF Request
<1>2. ASSUME NEW c \in Clients, NEW ch \in Proof
      PROVE  [pc |-> "client", client |-> c, challenge |-> ch] \in Request
  BY DEF Request
<1>3. ASSUME NEW k \in Codes, NEW ac \in AuthCode
      PROVE  [pc |-> "store", code |-> k, ac |-> ac] \in Request
  BY DEF Request
<1>4. ASSUME NEW form \in TokenForm
      PROVE  /\ [pc |-> "consume", form |-> form] \in Request
             /\ [pc |-> "mint", form |-> form] \in Request
  BY DEF Request
<1>5. ASSUME NEW form \in TokenForm, NEW ac \in AuthCode
      PROVE  [pc |-> "check", form |-> form, ac |-> ac] \in Request
  BY DEF Request
<1>6. ASSUME NEW form \in TokenForm, NEW k \in Tokens, NEW t \in Token
      PROVE  [pc |-> "grant", form |-> form, token |-> k, t |-> t] \in Request
  BY DEF Request
<1> QED
  BY <1>1, <1>2, <1>3, <1>4, <1>5, <1>6

LEMMA ClientToLogin ==
  ASSUME NEW s \in Request, s.pc = "client"
  PROVE  [s EXCEPT !.pc = "login"] \in Request
<1>1. s \in [pc : {"client", "login"}, client : Clients, challenge : Proof]
  BY DEF Request, Idle
<1> QED
  BY <1>1 DEF Request

LEMMA PutType ==
  ASSUME NEW K, NEW V, NEW f, DOMAIN f \subseteq K, f \in [DOMAIN f -> V],
         NEW k \in K, NEW v \in V
  PROVE  /\ DOMAIN Put(f, k, v) = DOMAIN f \cup {k}
         /\ DOMAIN Put(f, k, v) \subseteq K
         /\ Put(f, k, v) \in [DOMAIN Put(f, k, v) -> V]
         /\ Put(f, k, v)[k] = v
         /\ \A x \in DOMAIN f \ {k} : Put(f, k, v)[x] = f[x]
  BY DEF Put

LEMMA RestrictType ==
  ASSUME NEW K, NEW V, NEW f, DOMAIN f \subseteq K, f \in [DOMAIN f -> V],
         NEW S, S \subseteq DOMAIN f
  PROVE  /\ DOMAIN Restrict(f, S) = S
         /\ DOMAIN Restrict(f, S) \subseteq K
         /\ Restrict(f, S) \in [DOMAIN Restrict(f, S) -> V]
         /\ \A x \in S : Restrict(f, S)[x] = f[x]
  BY DEF Restrict

LEMMA NextTick ==
  ASSUME NEW n \in Nat, NEW d \in Nat, NEW p \in Nat \ {0}
  PROVE  (n + p) - ((n - d) % p) \in Nat
<1>1. (n - d) % p \in 0..(p - 1)
  OBVIOUS
<1> QED
  BY <1>1

LEMMA GoOnType ==
  ASSUME TypeOK, NEW r \in Requests, NEW s \in Request, GoOn(r, s)
  PROVE  req' \in [Requests -> Request]
  BY DEF TypeOK, GoOn

LEMMA AnswerType ==
  ASSUME TypeOK, NEW r \in Requests, Answer(r)
  PROVE  req' \in [Requests -> Request]
  BY GoOnType, RequestRecords DEF Answer

-----------------------------------------------------------------------------
LEMMA InitType == Init => TypeOK
  BY OAuthAssumption DEF Init, TypeOK, Empty, Time, Request

\* A handler's step keeps the types.
LEMMA HandlerType ==
  ASSUME TypeOK, NEW r \in Requests, Handler(r)
  PROVE  TypeOK'
<1> DEFINE s == req[r]
<1> s \in Request
  BY DEF TypeOK
<1>1. CASE CheckClient(r)
  <2>1. [s EXCEPT !.pc = "login"] \in Request
    BY <1>1, ClientToLogin DEF CheckClient
  <2>2. req' \in [Requests -> Request]
    BY <1>1, <2>1, GoOnType, AnswerType DEF CheckClient
  <2> QED
    BY <1>1, <2>2 DEF CheckClient, TypeOK, storeVars
<1>2. CASE LoginFails(r)
  <2>1. req' \in [Requests -> Request]
    BY <1>2, AnswerType DEF LoginFails
  <2> QED
    BY <1>2, <2>1 DEF LoginFails, TypeOK, storeVars
<1>3. CASE CheckCredentials(r)
  <2> DEFINE ac == [client |-> s.client, challenge |-> s.challenge, exp |-> now + CodeTTL]
  <2>1. s.client \in Clients /\ s.challenge \in Proof
    BY <1>3, RequestKinds DEF CheckCredentials
  <2>2. now + CodeTTL \in Nat
    BY OAuthAssumption DEF TypeOK, Time
  <2>3. ac \in AuthCode
    BY <2>1, <2>2 DEF AuthCode
  <2>4. PICK k \in Codes : GoOn(r, [pc |-> "store", code |-> k, ac |-> ac])
    BY <1>3 DEF CheckCredentials
  <2>5. [pc |-> "store", code |-> k, ac |-> ac] \in Request
    BY <2>3, RequestRecords
  <2>6. req' \in [Requests -> Request]
    BY <2>4, <2>5, GoOnType
  <2> QED
    BY <1>3, <2>6 DEF CheckCredentials, TypeOK, storeVars
<1>4. CASE StoreAuthCode(r)
  <2>1. s.code \in Codes /\ s.ac \in AuthCode
    BY <1>4, RequestKinds DEF StoreAuthCode
  <2>2. req' \in [Requests -> Request]
    BY <1>4, AnswerType DEF StoreAuthCode
  <2>3. /\ DOMAIN authCodes' \subseteq Codes
        /\ authCodes' \in [DOMAIN authCodes' -> AuthCode]
    <3>1. authCodes' = Put(authCodes, s.code, s.ac)
      BY <1>4 DEF StoreAuthCode
    <3> HIDE DEF s
    <3>2. DOMAIN authCodes \subseteq Codes /\ authCodes \in [DOMAIN authCodes -> AuthCode]
      BY DEF TypeOK
    <3> DEFINE put == Put(authCodes, s.code, s.ac)
    <3>3. /\ DOMAIN put \subseteq Codes
          /\ put \in [DOMAIN put -> AuthCode]
      BY <2>1, <3>2, PutType, ZenonT(60)
    <3> QED
      BY <3>1, <3>3
  <2> QED
    BY <1>4, <2>1, <2>2, <2>3 DEF StoreAuthCode, TypeOK
<1>5. CASE ConsumeAuthCode(r)
  <2>1. s.form \in TokenForm /\ s.form.code \in Codes
    BY <1>5, RequestKinds DEF ConsumeAuthCode, TokenForm
  <2>2. s.form.code \in DOMAIN authCodes =>
          [pc |-> "check", form |-> s.form, ac |-> authCodes[s.form.code]] \in Request
    BY <2>1, RequestRecords DEF TypeOK
  <2>3. req' \in [Requests -> Request]
    BY <1>5, <2>2, GoOnType, AnswerType DEF ConsumeAuthCode
  <2>4. /\ DOMAIN authCodes' \subseteq Codes
        /\ authCodes' \in [DOMAIN authCodes' -> AuthCode]
    <3> DEFINE rest == DOMAIN authCodes \ {s.form.code}
    <3>1. authCodes' = Restrict(authCodes, rest)
      BY <1>5 DEF ConsumeAuthCode
    <3>2. rest \subseteq DOMAIN authCodes
      OBVIOUS
    <3> HIDE DEF rest
    <3>3. DOMAIN authCodes \subseteq Codes /\ authCodes \in [DOMAIN authCodes -> AuthCode]
      BY DEF TypeOK
    <3>4. /\ DOMAIN Restrict(authCodes, rest) \subseteq Codes
          /\ Restrict(authCodes, rest) \in [DOMAIN Restrict(authCodes, rest) -> AuthCode]
      BY <3>2, <3>3, RestrictType
    <3> QED
      BY <3>1, <3>4
  <2> QED
    BY <1>5, <2>3, <2>4 DEF ConsumeAuthCode, TypeOK
<1>6. CASE CheckCode(r)
  <2>1. [pc |-> "mint", form |-> s.form] \in Request
    BY <1>6, RequestKinds, RequestRecords DEF CheckCode
  <2>2. req' \in [Requests -> Request]
    BY <1>6, <2>1, GoOnType, AnswerType DEF CheckCode
  <2> QED
    BY <1>6, <2>2 DEF CheckCode, TypeOK, storeVars
<1>7. CASE MintToken(r)
  <2> DEFINE t == [client |-> s.form.client, exp |-> now + TTL]
  <2>1. s.form \in TokenForm /\ s.form.client \in Clients
    BY <1>7, RequestKinds DEF MintToken, TokenForm
  <2>2. now + TTL \in Int
    BY OAuthAssumption DEF TypeOK, Time, TTL
  <2>3. t \in Token
    BY <2>1, <2>2 DEF Token
  <2>4. PICK k \in Tokens : GoOn(r, [pc |-> "grant", form |-> s.form, token |-> k, t |-> t])
    BY <1>7 DEF MintToken
  <2>5. [pc |-> "grant", form |-> s.form, token |-> k, t |-> t] \in Request
    BY <2>1, <2>3, RequestRecords
  <2>6. req' \in [Requests -> Request]
    BY <2>4, <2>5, GoOnType
  <2> QED
    BY <1>7, <2>6 DEF MintToken, TypeOK, storeVars
<1>8. CASE StoreToken(r)
  <2>1. s.token \in Tokens /\ s.t \in Token /\ s.form \in TokenForm
    BY <1>8, RequestKinds DEF StoreToken
  <2>2. req' \in [Requests -> Request]
    BY <1>8, AnswerType DEF StoreToken
  <2>3. DOMAIN tokens' \subseteq Tokens /\ tokens' \in [DOMAIN tokens' -> Token]
    <3>1. tokens' = Put(tokens, s.token, s.t)
      BY <1>8 DEF StoreToken
    <3> HIDE DEF s
    <3>2. DOMAIN tokens \subseteq Tokens /\ tokens \in [DOMAIN tokens -> Token]
      BY DEF TypeOK
    <3> QED
      BY <2>1, <3>1, <3>2, PutType, ZenonT(60)
  <2> QED
    BY <1>8, <2>1, <2>2, <2>3 DEF StoreToken, TypeOK
<1> QED
  BY <1>1, <1>2, <1>3, <1>4, <1>5, <1>6, <1>7, <1>8 DEF Handler

\* So does the arrival of a request ...
LEMMA ArrivalType ==
  ASSUME TypeOK, Arrival
  PROVE  TypeOK'
<1>1. ASSUME NEW c \in Clients, HandleRegister(c) PROVE TypeOK'
  BY <1>1 DEF HandleRegister, TypeOK
<1>2. ASSUME NEW r \in Requests, NEW c \in Clients, NEW ch \in Proof,
             HandleAuthorizePost(r, c, ch)
      PROVE  TypeOK'
  <2>1. req' \in [Requests -> Request]
    BY <1>2, GoOnType, RequestRecords DEF HandleAuthorizePost
  <2> QED
    BY <1>2, <2>1 DEF HandleAuthorizePost, TypeOK, storeVars
<1>3. ASSUME NEW r \in Requests, NEW form \in TokenForm, HandleToken(r, form)
      PROVE  TypeOK'
  <2>1. req' \in [Requests -> Request]
    BY <1>3, GoOnType, RequestRecords DEF HandleToken
  <2> QED
    BY <1>3, <2>1 DEF HandleToken, TypeOK, storeVars
<1>4. \A c \in Clients, code \in Codes, v \in Proof :
        [code |-> code, client |-> c, verifier |-> v, asked |-> now] \in TokenForm
  BY DEF TokenForm, TypeOK
<1> QED
  BY <1>1, <1>2, <1>3, <1>4 DEF Arrival

\* ... and whatever happens without one.
LEMMA BackgroundType ==
  ASSUME TypeOK, Cleanup \/ Tick \/ Restart
  PROVE  TypeOK'
<1> now \in Nat /\ due \in Nat
  BY OAuthAssumption DEF TypeOK, Time
<1>1. CASE Cleanup
  <2>1. due' \in Nat
    BY <1>1, NextTick, OAuthAssumption DEF Cleanup
  <2>2. Live(authCodes) \subseteq DOMAIN authCodes /\ Live(tokens) \subseteq DOMAIN tokens
    BY DEF Live
  <2>3. /\ DOMAIN authCodes' \subseteq Codes
        /\ authCodes' \in [DOMAIN authCodes' -> AuthCode]
    <3>1. authCodes' = Restrict(authCodes, Live(authCodes))
      BY <1>1 DEF Cleanup
    <3>2. DOMAIN authCodes \subseteq Codes /\ authCodes \in [DOMAIN authCodes -> AuthCode]
      BY DEF TypeOK
    <3> DEFINE live == Restrict(authCodes, Live(authCodes))
    <3>3. /\ DOMAIN live \subseteq Codes
          /\ live \in [DOMAIN live -> AuthCode]
      BY <2>2, <3>2, RestrictType
    <3> QED
      BY <3>1, <3>3
  <2>4. DOMAIN tokens' \subseteq Tokens /\ tokens' \in [DOMAIN tokens' -> Token]
    <3>1. tokens' = Restrict(tokens, Live(tokens))
      BY <1>1 DEF Cleanup
    <3>2. DOMAIN tokens \subseteq Tokens /\ tokens \in [DOMAIN tokens -> Token]
      BY DEF TypeOK
    <3> DEFINE live == Restrict(tokens, Live(tokens))
    <3>3. /\ DOMAIN live \subseteq Tokens
          /\ live \in [DOMAIN live -> Token]
      BY <2>2, <3>2, RestrictType
    <3> QED
      BY <3>1, <3>3
  <2> QED
    BY <1>1, <2>1, <2>3, <2>4 DEF Cleanup, TypeOK
<1>2. CASE Tick
  <2>1. now' \in Time
    BY <1>2, OAuthAssumption DEF Tick, Time
  <2> QED
    BY <1>2, <2>1 DEF Tick, TypeOK, storeVars
<1>3. CASE Restart
  <2>1. req' \in [Requests -> Request]
    BY <1>3, RequestRecords DEF Restart
  <2>2. due' \in Nat
    BY <1>3, OAuthAssumption DEF Restart
  <2> QED
    BY <1>3, <2>1, <2>2 DEF Restart, TypeOK, Empty
<1> QED
  BY <1>1, <1>2, <1>3

LEMMA NextType ==
  ASSUME TypeOK, [Next]_vars
  PROVE  TypeOK'
<1>1. CASE UNCHANGED vars
  BY <1>1 DEF vars, storeVars, TypeOK
<1> QED
  BY <1>1, HandlerType, ArrivalType, BackgroundType DEF Next

\* The store and every request in progress keep their types.
THEOREM TypeCorrect == Spec => []TypeOK
<1> QED
  BY InitType, NextType, PTL DEF Spec

-----------------------------------------------------------------------------
(* A code is in one place at a time.                                       *)

\* Past consumeAuthCode, before the token is stored: request r is spending k.
Holds(r, k) == req[r].pc \in {"check", "mint", "grant"} /\ req[r].form.code = k

\* A login has made k, and its handler is about to store it.
Carries(r, k) == req[r].pc = "store" /\ req[r].code = k

Stored(k) == k \in DOMAIN authCodes
Issued(k) == \E l \in logins : l.code = k
Spent(k) == \E g \in grants : g.form.code = k

\* k is on its way into the store, in the store, with one request, or spent.
InOnePlace(k) ==
  /\ \A r, q \in Requests : Holds(r, k) /\ Holds(q, k) => r = q
  /\ \A r, q \in Requests : Carries(r, k) /\ Carries(q, k) => r = q
  /\ \A r \in Requests : Carries(r, k) => ~ Issued(k)
  /\ \A r \in Requests : Holds(r, k) => ~ Stored(k) /\ ~ Spent(k)
  /\ Stored(k) => ~ Spent(k)
  /\ Stored(k) \/ Spent(k) \/ (\E r \in Requests : Holds(r, k)) => Issued(k)

CodesInOnePlace == OneTokenPerCode /\ \A k \in Codes : InOnePlace(k)

\* Only the request that moves changes its place.
LEMMA OthersStay ==
  ASSUME TypeOK, NEW r \in Requests, NEW s, GoOn(r, s)
  PROVE  req'[r] = s /\ \A q \in Requests \ {r} : req'[q] = req[q]
  BY DEF TypeOK, GoOn

\* Every code stays in one place when a handler moves ...
LEMMA HandlerKeepsPlaces ==
  ASSUME TypeOK, NEW r \in Requests, Handler(r), NEW k \in Codes, InOnePlace(k)
  PROVE  InOnePlace(k)'
<1> DEFINE s == req[r]
<1> USE DEF Holds, Carries, Stored, Issued, Spent, InOnePlace
<1>1. CASE CheckClient(r)
  <2>1. s \in Request /\ s.pc = "client"
    BY <1>1 DEF CheckClient, TypeOK
  <2>2. s \in [pc : {"client", "login"}, client : Clients, challenge : Proof]
    BY <2>1 DEF Request, Idle
  <2>3. [s EXCEPT !.pc = "login"].pc = "login"
    BY <2>2
  <2>4. req'[r].pc \in {"login", "idle"}
    <3>1. CASE GoOn(r, [s EXCEPT !.pc = "login"])
      BY <3>1, <2>3, OthersStay
    <3>2. CASE GoOn(r, Idle)
      BY <3>2, OthersStay DEF Idle
    <3> QED
      BY <1>1, <3>1, <3>2 DEF CheckClient, Answer
  <2>5. \A q \in Requests \ {r} : req'[q] = req[q]
    BY <1>1, OthersStay DEF CheckClient, Answer
  <2> QED
    BY <1>1, <2>1, <2>4, <2>5 DEF CheckClient, storeVars
<1>2. CASE LoginFails(r)
  BY <1>2, OthersStay DEF LoginFails, Answer, Idle, storeVars
<1>3. CASE CheckCredentials(r)
  BY <1>3, OthersStay DEF CheckCredentials, storeVars
<1>4. CASE StoreAuthCode(r)
  <2>1. /\ s.pc = "store" /\ req'[r].pc = "idle"
        /\ \A q \in Requests \ {r} : req'[q] = req[q]
    BY <1>4, OthersStay DEF StoreAuthCode, Answer, Idle
  <2>2. Stored(k)' <=> Stored(k) \/ k = s.code
    BY <1>4 DEF StoreAuthCode, Put
  <2>3. Issued(k)' <=> Issued(k) \/ k = s.code
    <3> DEFINE l == [code |-> s.code, ac |-> s.ac]
    <3>1. logins' = logins \cup {l}
      BY <1>4 DEF StoreAuthCode
    <3>2. l.code = s.code
      OBVIOUS
    <3> HIDE DEF l
    <3> QED
      BY <3>1, <3>2
  <2>4. Spent(k)' <=> Spent(k)
    BY <1>4 DEF StoreAuthCode
  <2>5. k = s.code => ~ Spent(k) /\ \A q \in Requests : ~ Holds(q, k) /\ (q # r => ~ Carries(q, k))
    BY <2>1
  <2> QED
    BY <2>1, <2>2, <2>3, <2>4, <2>5
<1>5. CASE ConsumeAuthCode(r)
  BY <1>5, OthersStay DEF ConsumeAuthCode, Answer, Idle, Restrict
<1>6. CASE CheckCode(r)
  BY <1>6, OthersStay DEF CheckCode, Answer, Idle, storeVars
<1>7. CASE MintToken(r)
  BY <1>7, OthersStay DEF MintToken, storeVars
<1>8. CASE StoreToken(r)
  <2>1. /\ s.pc = "grant" /\ req'[r].pc = "idle"
        /\ \A q \in Requests \ {r} : req'[q] = req[q]
    BY <1>8, OthersStay DEF StoreToken, Answer, Idle
  <2>2. Spent(k)' <=> Spent(k) \/ k = s.form.code
    <3> DEFINE g == [form |-> s.form, token |-> s.token]
    <3>1. grants' = grants \cup {g}
      BY <1>8 DEF StoreToken
    <3>2. g.form.code = s.form.code
      OBVIOUS
    <3> HIDE DEF g
    <3> QED
      BY <3>1, <3>2
  <2>3. (Stored(k)' <=> Stored(k)) /\ (Issued(k)' <=> Issued(k))
    BY <1>8 DEF StoreToken
  <2> QED
    BY <2>1, <2>2, <2>3
<1> QED
  BY <1>1, <1>2, <1>3, <1>4, <1>5, <1>6, <1>7, <1>8 DEF Handler

\* ... and whatever else happens.
LEMMA OthersKeepPlaces ==
  ASSUME TypeOK, Arrival \/ Cleanup \/ Tick \/ Restart,
         NEW k \in Codes, InOnePlace(k)
  PROVE  InOnePlace(k)'
<1> USE DEF Holds, Carries, Stored, Issued, Spent, InOnePlace
<1>1. ASSUME NEW c \in Clients, HandleRegister(c) PROVE InOnePlace(k)'
  BY <1>1 DEF HandleRegister
<1>2. ASSUME NEW r \in Requests, NEW c \in Clients, NEW ch \in Proof,
             HandleAuthorizePost(r, c, ch)
      PROVE  InOnePlace(k)'
  BY <1>2, OthersStay DEF HandleAuthorizePost, storeVars
<1>3. ASSUME NEW r \in Requests, NEW form, HandleToken(r, form)
      PROVE  InOnePlace(k)'
  BY <1>3, OthersStay DEF HandleToken, storeVars
<1>4. CASE Cleanup
  BY <1>4 DEF Cleanup, Restrict, Live
<1>5. CASE Tick
  BY <1>5 DEF Tick, storeVars
<1>6. CASE Restart
  BY <1>6 DEF Restart, Empty, Idle
<1> QED
  BY <1>1, <1>2, <1>3, <1>4, <1>5, <1>6 DEF Arrival

\* Only StoreToken spends a code, and it holds it alone.
LEMMA GrantsStayApart ==
  ASSUME TypeOK, CodesInOnePlace, Next
  PROVE  OneTokenPerCode'
<1>1. ASSUME NEW r \in Requests, StoreToken(r) PROVE OneTokenPerCode'
  <2> DEFINE k == req[r].form.code
  <2>1. req[r] \in Request /\ req[r].pc = "grant"
    BY <1>1 DEF StoreToken, TypeOK
  <2>2. k \in Codes
    BY <2>1, RequestKinds DEF TokenForm
  <2>3. ~ Spent(k)
    BY <2>1, <2>2 DEF CodesInOnePlace, InOnePlace, Holds
  <2> QED
    BY <1>1, <2>3 DEF StoreToken, OneTokenPerCode, Spent, CodesInOnePlace
<1>2. CASE UNCHANGED grants
  BY <1>2 DEF OneTokenPerCode, CodesInOnePlace
<1>3. UNCHANGED grants \/ \E r \in Requests : StoreToken(r)
  BY DEF Next, Arrival, HandleRegister, HandleAuthorizePost, HandleToken,
         Handler, CheckClient, LoginFails, CheckCredentials, StoreAuthCode,
         ConsumeAuthCode, CheckCode, MintToken, Cleanup, Tick, Restart
<1> QED
  BY <1>1, <1>2, <1>3

LEMMA CodesInOnePlaceStep ==
  ASSUME TypeOK, CodesInOnePlace, [Next]_vars
  PROVE  CodesInOnePlace'
<1>1. CASE UNCHANGED vars
  BY <1>1 DEF vars, storeVars, CodesInOnePlace, OneTokenPerCode, InOnePlace,
              Holds, Carries, Stored, Issued, Spent
<1>2. CASE Next
  <2>1. ASSUME NEW k \in Codes PROVE InOnePlace(k)'
    <3>1. InOnePlace(k)
      BY DEF CodesInOnePlace
    <3> QED
      BY <1>2, <3>1, HandlerKeepsPlaces, OthersKeepPlaces DEF Next
  <2>2. OneTokenPerCode'
    BY <1>2, GrantsStayApart
  <2> QED
    BY <2>1, <2>2 DEF CodesInOnePlace
<1> QED
  BY <1>1, <1>2

LEMMA InitInOnePlace == Init => CodesInOnePlace
  BY DEF Init, CodesInOnePlace, OneTokenPerCode, InOnePlace, Holds, Carries,
         Stored, Issued, Spent, Idle, Empty

\* store.go: a code is "single-use".
THEOREM OneTokenPerCodeAlways == Spec => []OneTokenPerCode
<1>1. Init => CodesInOnePlace
  BY InitInOnePlace
<1>2. TypeOK /\ CodesInOnePlace /\ [Next]_vars => CodesInOnePlace'
  BY CodesInOnePlaceStep
<1>3. CodesInOnePlace => OneTokenPerCode
  BY DEF CodesInOnePlace
<1> QED
  BY <1>1, <1>2, <1>3, TypeCorrect, PTL DEF Spec

-----------------------------------------------------------------------------
(* Every token can be traced to the login that earned it.                  *)

\* Login l entitles the request that sent this form to a token.
Entitles(l, form) ==
  /\ l.code = form.code
  /\ l.ac.client = form.client
  /\ form.asked <= l.ac.exp
  /\ l.ac.challenge # None => form.verifier = l.ac.challenge

\* What a request in progress holds is what the store had.
Honest(r) ==
  /\ req[r].pc \in {"consume", "check", "mint", "grant"} => req[r].form.asked <= now
  /\ req[r].pc = "check" => [code |-> req[r].form.code, ac |-> req[r].ac] \in logins
  /\ req[r].pc \in {"mint", "grant"} => \E l \in logins : Entitles(l, req[r].form)
  /\ req[r].pc = "grant" => req[r].t.client = req[r].form.client

Traced ==
  /\ \A k \in DOMAIN authCodes : [code |-> k, ac |-> authCodes[k]] \in logins
  /\ \A r \in Requests : Honest(r)
  /\ \A g \in grants : \E l \in logins : Entitles(l, g.form)
  /\ \A token \in DOMAIN tokens :
       \E g \in grants : g.token = token /\ tokens[token].client = g.form.client

\* No code is issued twice.
LoginsUnique == \A l, m \in logins : l.code = m.code => l = m

LEMMA LoginsUniqueStep ==
  ASSUME TypeOK, CodesInOnePlace, LoginsUnique, [Next]_vars
  PROVE  LoginsUnique'
<1>1. ASSUME NEW r \in Requests, StoreAuthCode(r) PROVE LoginsUnique'
  <2> DEFINE k == req[r].code
             l == [code |-> k, ac |-> req[r].ac]
  <2>1. req[r] \in Request /\ req[r].pc = "store"
    BY <1>1 DEF StoreAuthCode, TypeOK
  <2>2. k \in Codes
    BY <2>1, RequestKinds
  <2>3. ~ Issued(k)
    BY <2>1, <2>2 DEF CodesInOnePlace, InOnePlace, Carries
  <2>4. logins' = logins \cup {l} /\ l.code = k
    BY <1>1 DEF StoreAuthCode
  <2> HIDE DEF l, k
  <2> QED
    BY <2>3, <2>4 DEF LoginsUnique, Issued
<1>2. CASE UNCHANGED logins
  BY <1>2 DEF LoginsUnique
<1>3. UNCHANGED logins \/ \E r \in Requests : StoreAuthCode(r)
  BY DEF Next, Arrival, HandleRegister, HandleAuthorizePost, HandleToken,
         Handler, CheckClient, LoginFails, CheckCredentials, StoreToken,
         ConsumeAuthCode, CheckCode, MintToken, Cleanup, Tick, Restart, vars
<1> QED
  BY <1>1, <1>2, <1>3

\* The form a handler works on, and the code record it took, have their types.
LEMMA HonestTypes ==
  ASSUME TypeOK, NEW r \in Requests
  PROVE  /\ now \in Nat
         /\ req[r].pc \in {"consume", "check", "mint", "grant"} =>
              req[r].form \in TokenForm /\ req[r].form.asked \in Nat
         /\ req[r].pc = "check" => req[r].ac \in AuthCode /\ req[r].ac.exp \in Nat
<1>1. req[r] \in Request
  BY DEF TypeOK
<1> QED
  BY <1>1, RequestKinds, OAuthAssumption DEF TypeOK, TokenForm, AuthCode, Time

\* A request that does not move stays honest while logins only grow and the
\* clock does not go back.
LEMMA StaysHonest ==
  ASSUME TypeOK, NEW q \in Requests, Honest(q), req'[q] = req[q],
         logins \subseteq logins', now' \in Nat, now <= now'
  PROVE  Honest(q)'
<1>1. req[q].pc \in {"consume", "check", "mint", "grant"} => req[q].form.asked <= now'
  BY HonestTypes DEF Honest
<1>2. req[q].pc \in {"mint", "grant"} => \E l \in logins' : Entitles(l, req[q].form)
  BY DEF Honest
<1> QED
  BY <1>1, <1>2 DEF Honest, Entitles

LEMMA IdleIsHonest ==
  ASSUME NEW q \in Requests,
         req'[q].pc \notin {"consume", "check", "mint", "grant"}
  PROVE  Honest(q)'
  BY DEF Honest

LEMMA HandlerKeepsTraces ==
  ASSUME TypeOK, Traced, NEW r \in Requests, Handler(r)
  PROVE  Traced'
<1> DEFINE s == req[r]
<1> now' = now /\ logins \subseteq logins' /\ now \in Nat /\ now <= now'
  BY HonestTypes DEF Handler, CheckClient, LoginFails, CheckCredentials, StoreToken,
     StoreAuthCode, ConsumeAuthCode, CheckCode, MintToken
<1>0. ASSUME NEW s2, GoOn(r, s2), Honest(r)' PROVE \A q \in Requests : Honest(q)'
  BY <1>0, OthersStay, StaysHonest DEF Traced
<1>1. CASE CheckClient(r)
  <2>1. s \in Request /\ s.pc = "client"
    BY <1>1 DEF CheckClient, TypeOK
  <2>2. s \in [pc : {"client", "login"}, client : Clients, challenge : Proof]
    BY <2>1 DEF Request, Idle
  <2>3. [s EXCEPT !.pc = "login"].pc = "login"
    BY <2>2
  <2>4. ASSUME GoOn(r, [s EXCEPT !.pc = "login"])
      PROVE  \A q \in Requests : Honest(q)'
    BY <2>3, <2>4, <1>0, OthersStay, IdleIsHonest
  <2>5. ASSUME GoOn(r, Idle)
      PROVE  \A q \in Requests : Honest(q)'
    BY <2>5, <1>0, OthersStay, IdleIsHonest DEF Idle
  <2>6. \A q \in Requests : Honest(q)'
    BY <1>1, <2>4, <2>5 DEF CheckClient, Answer
  <2> QED
    BY <1>1, <2>6 DEF CheckClient, Traced, storeVars
<1>2. CASE LoginFails(r)
  <2>1. \A q \in Requests : Honest(q)'
    BY <1>2, <1>0, OthersStay, IdleIsHonest DEF LoginFails, Answer, Idle
  <2> QED
    BY <1>2, <2>1 DEF LoginFails, Traced, storeVars
<1>3. CASE CheckCredentials(r)
  <2>1. \A q \in Requests : Honest(q)'
    BY <1>3, <1>0, OthersStay, IdleIsHonest DEF CheckCredentials
  <2> QED
    BY <1>3, <2>1 DEF CheckCredentials, Traced, storeVars
<1>4. CASE StoreAuthCode(r)
  <2>1. \A q \in Requests : Honest(q)'
    BY <1>4, <1>0, OthersStay, IdleIsHonest DEF StoreAuthCode, Answer, Idle
  <2>2. \A k \in DOMAIN authCodes' : [code |-> k, ac |-> authCodes'[k]] \in logins'
    BY <1>4 DEF StoreAuthCode, Put, Traced
  <2> QED
    BY <1>4, <2>1, <2>2 DEF StoreAuthCode, Traced, Entitles
<1>5. CASE ConsumeAuthCode(r)
  <2>1. s.pc = "consume" /\ s.form.asked <= now
    BY <1>5 DEF ConsumeAuthCode, Traced, Honest
  <2>2. ASSUME s.form.code \in DOMAIN authCodes
      PROVE  \A q \in Requests : Honest(q)'
    <3> DEFINE next == [pc |-> "check", form |-> s.form, ac |-> authCodes[s.form.code]]
    <3>1. GoOn(r, next)
      BY <1>5, <2>2 DEF ConsumeAuthCode
    <3>2. [code |-> s.form.code, ac |-> authCodes[s.form.code]] \in logins'
      BY <1>5, <2>2 DEF ConsumeAuthCode, Traced
    <3>3. Honest(r)'
      BY <1>5, <2>1, <3>1, <3>2, OthersStay DEF ConsumeAuthCode, Honest
    <3> QED
      BY <3>1, <3>3, <1>0
  <2>3. ASSUME s.form.code \notin DOMAIN authCodes
      PROVE  \A q \in Requests : Honest(q)'
    BY <1>5, <2>3, <1>0, OthersStay, IdleIsHonest DEF ConsumeAuthCode, Answer, Idle
  <2>4. \A q \in Requests : Honest(q)'
    BY <2>2, <2>3
  <2>5. \A k \in DOMAIN authCodes' : [code |-> k, ac |-> authCodes'[k]] \in logins'
    BY <1>5 DEF ConsumeAuthCode, Restrict, Traced
  <2> QED
    BY <1>5, <2>4, <2>5 DEF ConsumeAuthCode, Traced
<1>6. CASE CheckCode(r)
  <2> DEFINE l == [code |-> s.form.code, ac |-> s.ac]
  <2>1. s.pc = "check" /\ l \in logins /\ s.form.asked <= now
    BY <1>6 DEF CheckCode, Traced, Honest
  <2>2. s.form.asked \in Nat /\ s.ac.exp \in Nat
    BY <2>1, HonestTypes
  <2>3. ASSUME Redeemable(s.ac, s.form)
      PROVE  \A q \in Requests : Honest(q)'
    <3>1. GoOn(r, [pc |-> "mint", form |-> s.form])
      BY <1>6, <2>3 DEF CheckCode
    <3>2. Entitles(l, s.form)
      BY <2>1, <2>2, <2>3 DEF Redeemable, Entitles, VerifyPKCE
    <3>3. Honest(r)'
      BY <1>6, <2>1, <3>1, <3>2, OthersStay DEF CheckCode, Honest, Entitles
    <3> QED
      BY <3>1, <3>3, <1>0
  <2>4. ASSUME ~ Redeemable(s.ac, s.form)
      PROVE  \A q \in Requests : Honest(q)'
    BY <1>6, <2>4, <1>0, OthersStay, IdleIsHonest DEF CheckCode, Answer, Idle
  <2>5. \A q \in Requests : Honest(q)'
    BY <2>3, <2>4
  <2> QED
    BY <1>6, <2>5 DEF CheckCode, Traced, storeVars
<1>7. CASE MintToken(r)
  <2>1. s.pc = "mint" /\ s.form.asked <= now /\ \E l \in logins : Entitles(l, s.form)
    BY <1>7 DEF MintToken, Traced, Honest
  <2>2. PICK k \in Tokens :
          GoOn(r, [pc |-> "grant", form |-> s.form, token |-> k,
                   t |-> [client |-> s.form.client, exp |-> now + TTL]])
    BY <1>7 DEF MintToken
  <2>3. Honest(r)'
    BY <1>7, <2>1, <2>2, OthersStay DEF MintToken, Honest, Entitles
  <2>4. \A q \in Requests : Honest(q)'
    BY <2>2, <2>3, <1>0
  <2> QED
    BY <1>7, <2>4 DEF MintToken, Traced, storeVars
<1>8. CASE StoreToken(r)
  <2> DEFINE g == [form |-> s.form, token |-> s.token]
  <2>1. /\ s.pc = "grant" /\ s.t.client = s.form.client
        /\ \E l \in logins : Entitles(l, s.form)
    BY <1>8 DEF StoreToken, Traced, Honest
  <2>2. \A q \in Requests : Honest(q)'
    BY <1>8, <1>0, OthersStay, IdleIsHonest DEF StoreToken, Answer, Idle
  <2>3. grants' = grants \cup {g} /\ g.form = s.form /\ g.token = s.token
    BY <1>8 DEF StoreToken
  <2> HIDE DEF g
  <2>4. \A h \in grants' : \E l \in logins' : Entitles(l, h.form)
    BY <1>8, <2>1, <2>3 DEF StoreToken, Traced
  <2>5. ASSUME NEW token \in DOMAIN tokens'
        PROVE  \E h \in grants' : h.token = token /\ tokens'[token].client = h.form.client
    <3>1. CASE token = s.token
      BY <1>8, <2>1, <2>3, <3>1 DEF StoreToken, Put
    <3>2. CASE token # s.token
      <4>1. token \in DOMAIN tokens /\ tokens'[token] = tokens[token]
        BY <1>8, <3>2 DEF StoreToken, Put
      <4> QED
        BY <2>3, <4>1 DEF Traced
    <3> QED
      BY <3>1, <3>2
  <2> QED
    BY <1>8, <2>2, <2>4, <2>5 DEF StoreToken, Traced, Entitles
<1> QED
  BY <1>1, <1>2, <1>3, <1>4, <1>5, <1>6, <1>7, <1>8 DEF Handler

LEMMA OthersKeepTraces ==
  ASSUME TypeOK, Traced, Arrival \/ Cleanup \/ Tick \/ Restart
  PROVE  Traced'
<1>1. ASSUME NEW c \in Clients, HandleRegister(c) PROVE Traced'
  BY <1>1 DEF HandleRegister, Traced, Honest, Entitles
<1>2. ASSUME NEW r \in Requests, NEW s, GoOn(r, s), Honest(r)', now' = now,
             logins' = logins
      PROVE  \A q \in Requests : Honest(q)'
  BY <1>2, OthersStay, StaysHonest, HonestTypes DEF Traced
<1>3. ASSUME NEW r \in Requests, NEW c \in Clients, NEW ch \in Proof,
             HandleAuthorizePost(r, c, ch)
      PROVE  Traced'
  <2>1. \A q \in Requests : Honest(q)'
    BY <1>2, <1>3, OthersStay, IdleIsHonest DEF HandleAuthorizePost
  <2> QED
    BY <1>3, <2>1 DEF HandleAuthorizePost, Traced, storeVars
<1>4. ASSUME NEW r \in Requests, NEW form, HandleToken(r, form) PROVE Traced'
  <2>1. Honest(r)'
    BY <1>4, OthersStay, HonestTypes DEF HandleToken, Honest
  <2>2. \A q \in Requests : Honest(q)'
    BY <1>2, <1>4, <2>1 DEF HandleToken
  <2> QED
    BY <1>4, <2>2 DEF HandleToken, Traced, storeVars
<1>5. CASE Cleanup
  BY <1>5 DEF Cleanup, Restrict, Live, Traced, Honest, Entitles
<1>6. CASE Tick
  <2>1. now \in Nat /\ now' = now + 1
    BY <1>6, OAuthAssumption DEF Tick, TypeOK, Time
  <2>2. \A q \in Requests : Honest(q)'
    BY <1>6, <2>1, StaysHonest DEF Tick, Traced
  <2> QED
    BY <1>6, <2>2 DEF Tick, Traced, storeVars
<1>7. CASE Restart
  BY <1>7 DEF Restart, Empty, Idle, Traced, Honest, Entitles
<1> QED
  BY <1>1, <1>3, <1>4, <1>5, <1>6, <1>7 DEF Arrival

LEMMA TracedStep ==
  ASSUME TypeOK, Traced, [Next]_vars
  PROVE  Traced'
<1>1. CASE UNCHANGED vars
  BY <1>1 DEF vars, storeVars, Traced, Honest, Entitles
<1> QED
  BY <1>1, HandlerKeepsTraces, OthersKeepTraces DEF Next

LEMMA HistoryAlways == Spec => [](Traced /\ LoginsUnique /\ CodesInOnePlace)
<1>1. Init => Traced /\ LoginsUnique
  BY DEF Init, Traced, LoginsUnique, Honest, Idle, Empty
<1>2. Init => CodesInOnePlace
  BY InitInOnePlace
<1> DEFINE History == Traced /\ LoginsUnique /\ CodesInOnePlace
<1>3. TypeOK /\ History /\ [Next]_vars => History'
  BY TracedStep, LoginsUniqueStep, CodesInOnePlaceStep
<1> QED
  BY <1>1, <1>2, <1>3, TypeCorrect, PTL DEF Spec

\* A token in the store was bought with a code that a login stored for the
\* same client, by a request that answered the code's challenge.
THEOREM TokensEarnedAlways == Spec => []TokensEarned
<1>1. Traced => TokensEarned
  BY DEF Traced, TokensEarned, Entitles
<1> QED
  BY <1>1, HistoryAlways, PTL

\* No token is given for a request that came after its code had expired.
THEOREM NoLateGrantAlways == Spec => []NoLateGrant
<1>1. Traced /\ LoginsUnique => NoLateGrant
  BY DEF Traced, LoginsUnique, NoLateGrant, Entitles
<1> QED
  BY <1>1, HistoryAlways, PTL

-----------------------------------------------------------------------------
(* A token in the store is never overwritten and never dropped early.      *)

\* A token that is about to be stored is nobody else's.
Fresh(r) ==
  req[r].pc = "grant" =>
    /\ \A g \in grants : g.token # req[r].token
    /\ \A q \in Requests \ {r} : req[q].pc = "grant" => req[q].token # req[r].token

TokensFresh == \A r \in Requests : Fresh(r)

LEMMA TokensFreshStep ==
  ASSUME TypeOK, TokensFresh, [Next]_vars
  PROVE  TokensFresh'
<1> USE DEF TokensFresh, Fresh
\* A request that moves to another state than "grant" leaves the rest fresh.
<1>1. ASSUME NEW r \in Requests, NEW s, GoOn(r, s), s.pc # "grant", grants' = grants
      PROVE  TokensFresh'
  BY <1>1, OthersStay
<1>2. ASSUME NEW r \in Requests, Handler(r) PROVE TokensFresh'
  <2> DEFINE s == req[r]
  <2>1. CASE CheckClient(r)
    <3>1. s \in [pc : {"client", "login"}, client : Clients, challenge : Proof]
      BY <2>1 DEF CheckClient, TypeOK, Request, Idle
    <3>2. [s EXCEPT !.pc = "login"].pc # "grant" /\ Idle.pc # "grant"
      BY <3>1 DEF Idle
    <3>3. GoOn(r, [s EXCEPT !.pc = "login"]) \/ GoOn(r, Idle)
      BY <2>1 DEF CheckClient, Answer
    <3>4. grants' = grants
      BY <2>1 DEF CheckClient
    <3> QED
      BY <1>1, <3>2, <3>3, <3>4
  <2>2. CASE LoginFails(r)
    BY <1>1, <2>2 DEF LoginFails, Answer, Idle
  <2>3. CASE CheckCredentials(r)
    BY <1>1, <2>3 DEF CheckCredentials
  <2>4. CASE StoreAuthCode(r)
    BY <1>1, <2>4 DEF StoreAuthCode, Answer, Idle
  <2>5. CASE ConsumeAuthCode(r)
    BY <1>1, <2>5 DEF ConsumeAuthCode, Answer, Idle
  <2>6. CASE CheckCode(r)
    BY <1>1, <2>6 DEF CheckCode, Answer, Idle
  <2>7. CASE MintToken(r)
    <3>1. PICK k \in Tokens :
            /\ \A g \in grants : g.token # k
            /\ \A q \in Requests : req[q].pc = "grant" => req[q].token # k
            /\ GoOn(r, [pc |-> "grant", form |-> s.form, token |-> k,
                        t |-> [client |-> s.form.client, exp |-> now + TTL]])
      BY <2>7 DEF MintToken
    <3>2. req'[r].token = k /\ \A q \in Requests \ {r} : req'[q] = req[q]
      BY <3>1, OthersStay
    <3> QED
      BY <2>7, <3>1, <3>2 DEF MintToken
  <2>8. CASE StoreToken(r)
    <3> DEFINE g == [form |-> s.form, token |-> s.token]
    <3>1. grants' = grants \cup {g} /\ g.token = s.token /\ s.pc = "grant"
      BY <2>8 DEF StoreToken
    <3>2. req'[r].pc = "idle" /\ \A q \in Requests \ {r} : req'[q] = req[q]
      BY <2>8, OthersStay DEF StoreToken, Answer, Idle
    <3> HIDE DEF g
    <3> QED
      BY <3>1, <3>2
  <2> QED
    BY <1>2, <2>1, <2>2, <2>3, <2>4, <2>5, <2>6, <2>7, <2>8 DEF Handler
<1>3. CASE Arrival
  <2>1. CASE \E c \in Clients : HandleRegister(c)
    BY <2>1 DEF HandleRegister
  <2>2. ASSUME NEW r \in Requests, NEW c \in Clients, NEW ch \in Proof,
               HandleAuthorizePost(r, c, ch)
        PROVE  TokensFresh'
    BY <1>1, <2>2 DEF HandleAuthorizePost
  <2>3. ASSUME NEW r \in Requests, NEW form, HandleToken(r, form) PROVE TokensFresh'
    BY <1>1, <2>3 DEF HandleToken
  <2> QED
    BY <1>3, <2>1, <2>2, <2>3 DEF Arrival
<1>4. CASE Cleanup \/ Tick \/ UNCHANGED vars
  BY <1>4 DEF Cleanup, Tick, vars
<1>5. CASE Restart
  BY <1>5 DEF Restart, Idle
<1> QED
  BY <1>2, <1>3, <1>4, <1>5 DEF Next

\* A token the middleware accepts stays accepted until it expires.
THEOREM NoEarlyRevocationAlways == Spec => NoEarlyRevocation
<1> DEFINE Kept(token) ==
      ValidateToken(token) /\ now' <= tokens[token].exp => ValidateToken(token)'
<1>1. ASSUME TypeOK, Traced, TokensFresh, Next, ~ Restart, NEW token \in Tokens
      PROVE  Kept(token)
  <2>1. CASE UNCHANGED tokens
    BY <2>1 DEF ValidateToken
  <2>2. CASE Cleanup
    BY <2>2 DEF Cleanup, Restrict, Live, ValidateToken
  <2>3. ASSUME NEW r \in Requests, StoreToken(r) PROVE Kept(token)
    <3>1. req[r].token \notin DOMAIN tokens
      BY <1>1, <2>3 DEF StoreToken, TokensFresh, Fresh, Traced
    <3> QED
      BY <2>3, <3>1 DEF StoreToken, Put, ValidateToken
  <2>4. UNCHANGED tokens \/ Cleanup \/ \E r \in Requests : StoreToken(r)
    BY <1>1 DEF Next, Arrival, HandleRegister, HandleAuthorizePost, HandleToken,
         Handler, CheckClient, LoginFails, CheckCredentials, StoreAuthCode,
         ConsumeAuthCode, CheckCode, MintToken, Tick, storeVars
  <2> QED
    BY <2>1, <2>2, <2>3, <2>4
<1>2. Init => TokensFresh
  BY DEF Init, TokensFresh, Fresh, Idle
<1>3. TypeOK /\ TokensFresh /\ [Next]_vars => TokensFresh'
  BY TokensFreshStep
<1>4. TypeOK /\ Traced /\ TokensFresh /\ [Next]_vars =>
        [~ Restart => \A token \in Tokens : Kept(token)]_vars
  BY <1>1
<1> QED
  BY <1>2, <1>3, <1>4, TypeCorrect, HistoryAlways, PTL DEF Spec, NoEarlyRevocation
-----------------------------------------------------------------------------
(* The store and the handlers implement the abstract grant.  A code's fate *)
(* is read off four facts, Stored, InHand, Spent and Issued; a step of     *)
(* OAuth is described by how it changes them.                              *)

\* What holds at every step, from OAuthProofs.
Known == TypeOK /\ Traced /\ CodesInOnePlace /\ TokensFresh

LEMMA KnownAlways == Spec => []Known
<1>1. Init => TokensFresh
  BY DEF Init, TokensFresh, Fresh, Idle
<1>2. TypeOK /\ TokensFresh /\ [Next]_vars => TokensFresh'
  BY TokensFreshStep
<1> QED
  BY <1>1, <1>2, TypeCorrect, HistoryAlways, PTL DEF Spec, Known

\* Where a code is, in the invariant's words.
LEMMA InHandIsHeld ==
  ASSUME NEW k
  PROVE  InHand(k) <=> \E r \in Requests : Holds(r, k)
  BY DEF InHand, Holds

\* Exactly one of the four ways, in this order.
LEMMA Places ==
  ASSUME CodesInOnePlace, NEW k \in Codes
  PROVE  /\ FateOf(k) \in {"new", "offered", "taken", "sold", "lost"}
         /\ FateOf(k) = "offered" <=> Stored(k)
         /\ FateOf(k) = "taken" <=> InHand(k)
         /\ FateOf(k) = "sold" <=> Spent(k)
         /\ FateOf(k) = "new" <=> ~ Issued(k)
  BY InHandIsHeld DEF CodesInOnePlace, InOnePlace, FateOf, Stored, Spent, Issued

\* Nothing the fate depends on changes: the grant stutters.
LEMMA GrantStutters ==
  ASSUME UNCHANGED <<logins, grants>>,
         \A k \in Codes : (Stored(k)' <=> Stored(k)) /\ (InHand(k)' <=> InHand(k))
  PROVE  UNCHANGED Promise!vars
<1>1. \A k \in Codes : FateOf(k)' = FateOf(k)
  BY DEF FateOf, Stored
<1> QED
  BY <1>1 DEF Promise!vars

\* A request that stays outside or inside the hands of a redeeming handler.
LEMMA HandsStay ==
  ASSUME TypeOK, NEW r \in Requests, NEW s, GoOn(r, s), NEW k,
         \/ /\ req[r].pc \notin {"check", "mint", "grant"}
            /\ s.pc \notin {"check", "mint", "grant"}
         \/ /\ req[r].pc \in {"check", "mint", "grant"}
            /\ s.pc \in {"check", "mint", "grant"}
            /\ s.form = req[r].form
  PROVE  InHand(k)' <=> InHand(k)
  BY OthersStay DEF InHand

\* A request that answers lets its code go; nobody else holds it.
LEMMA HandsLetGo ==
  ASSUME TypeOK, CodesInOnePlace, NEW r \in Requests, Answer(r),
         req[r].pc \in {"check", "mint", "grant"}, NEW k \in Codes
  PROVE  InHand(k)' <=> InHand(k) /\ k # req[r].form.code
<1>1. \A q \in Requests : Holds(q, k) /\ Holds(r, k) => q = r
  BY DEF CodesInOnePlace, InOnePlace
<1> QED
  BY <1>1, OthersStay DEF Answer, Idle, InHand, Holds

-----------------------------------------------------------------------------
LEMMA GrantInit == Init => Promise!Init
<1> SUFFICES ASSUME Init PROVE Promise!Init
  OBVIOUS
<1>1. \A k \in Codes : FateOf(k) = "new"
  BY DEF Init, FateOf, InHand, Idle, Empty
<1> QED
  BY <1>1 DEF Init, Promise!Init

\* The steps of a login before its code is stored, and of a token request
\* before it has its code and between check and grant.
LEMMA QuietHandlers ==
  ASSUME Known, NEW r \in Requests,
         \/ CheckClient(r) \/ LoginFails(r) \/ CheckCredentials(r) \/ MintToken(r)
  PROVE  UNCHANGED Promise!vars
<1> USE DEF Known
<1> DEFINE s == req[r]
<1>1. s \in Request
  BY DEF TypeOK
<1>2. CASE CheckClient(r)
  <2>1. s \in [pc : {"client", "login"}, client : Clients, challenge : Proof]
    BY <1>1, <1>2 DEF CheckClient, Request, Idle
  <2>2. [s EXCEPT !.pc = "login"].pc = "login"
    BY <2>1
  <2>3. ASSUME NEW k \in Codes PROVE InHand(k)' <=> InHand(k)
    <3>1. CASE GoOn(r, [s EXCEPT !.pc = "login"])
      BY <1>2, <2>2, <3>1, HandsStay DEF CheckClient
    <3>2. CASE GoOn(r, Idle)
      BY <1>2, <3>2, HandsStay DEF CheckClient, Idle
    <3> QED
      BY <1>2, <3>1, <3>2 DEF CheckClient, Answer
  <2> QED
    BY <1>2, <2>3, GrantStutters DEF CheckClient, storeVars, Stored
<1>3. CASE LoginFails(r)
  <2>1. \A k \in Codes : InHand(k)' <=> InHand(k)
    BY <1>3, HandsStay DEF LoginFails, Answer, Idle
  <2> QED
    BY <1>3, <2>1, GrantStutters DEF LoginFails, storeVars, Stored
<1>4. CASE CheckCredentials(r)
  <2>1. \A k \in Codes : InHand(k)' <=> InHand(k)
    BY <1>4, HandsStay DEF CheckCredentials
  <2> QED
    BY <1>4, <2>1, GrantStutters DEF CheckCredentials, storeVars, Stored
<1>5. CASE MintToken(r)
  <2>1. \A k \in Codes : InHand(k)' <=> InHand(k)
    BY <1>5, HandsStay DEF MintToken
  <2> QED
    BY <1>5, <2>1, GrantStutters DEF MintToken, storeVars, Stored
<1> QED
  BY <1>2, <1>3, <1>4, <1>5

\* Storing a code offers it.
LEMMA StoreOffers ==
  ASSUME Known, NEW r \in Requests, StoreAuthCode(r)
  PROVE  Promise!Next
<1> USE DEF Known
<1>1. req[r] \in Request /\ req[r].pc = "store"
  BY DEF StoreAuthCode, TypeOK
<1>2. PICK k \in Codes, c \in Clients : k = req[r].code /\ c = req[r].ac.client
  BY <1>1, RequestKinds DEF AuthCode
<1> DEFINE l == [code |-> k, ac |-> req[r].ac]
<1>3. FateOf(k) = "new"
  <2>1. ~ Issued(k)
    BY <1>1, <1>2 DEF CodesInOnePlace, InOnePlace, Carries
  <2> QED
    BY <2>1, Places
<1>4. \A j \in Codes : InHand(j)' <=> InHand(j)
  BY <1>1, HandsStay DEF StoreAuthCode, Answer, Idle
<1>5. FateOf(k)' = "offered"
  BY <1>2 DEF StoreAuthCode, Put, FateOf
<1>6. l.code = k /\ l.ac.client = c
  BY <1>2
<1>7. logins' = logins \cup {l}
  BY <1>2 DEF StoreAuthCode
<1>8. ASSUME NEW j \in Codes, j # k PROVE FateOf(j)' = FateOf(j)
  <2>1. (\E m \in logins' : m.code = j) <=> (\E m \in logins : m.code = j)
    BY <1>6, <1>7, <1>8
  <2> QED
    BY <1>2, <1>4, <1>8, <2>1 DEF StoreAuthCode, Put, FateOf
<1>9. {[code |-> m.code, client |-> m.ac.client] : m \in logins'}
        = {[code |-> m.code, client |-> m.ac.client] : m \in logins}
            \cup {[code |-> k, client |-> c]}
  <2> HIDE DEF l
  <2> QED
    BY <1>6, <1>7
<1>10. grants' = grants
  BY DEF StoreAuthCode
<1> HIDE DEF l
<1>11. Promise!Moves(k, "new", "offered")
  BY <1>3, <1>5, <1>8 DEF Promise!Moves
<1>12. Promise!Offer(k, c)
  BY <1>9, <1>10, <1>11 DEF Promise!Offer
<1> QED
  BY <1>12 DEF Promise!Next

\* Consuming a code that is stored takes it; any other leaves all as it is.
LEMMA ConsumeTakes ==
  ASSUME Known, NEW r \in Requests, ConsumeAuthCode(r)
  PROVE  Promise!Next \/ UNCHANGED Promise!vars
<1> USE DEF Known
<1>1. req[r] \in Request /\ req[r].pc = "consume"
  BY DEF ConsumeAuthCode, TypeOK
<1>2. PICK k \in Codes : k = req[r].form.code
  BY <1>1, RequestKinds DEF TokenForm
<1>3. CASE ~ Stored(k)
  <2>1. \A j \in Codes : InHand(j)' <=> InHand(j)
    BY <1>1, <1>2, <1>3, HandsStay DEF ConsumeAuthCode, Answer, Idle, Stored
  <2>2. \A j \in Codes : Stored(j)' <=> Stored(j)
    BY <1>2, <1>3 DEF ConsumeAuthCode, Restrict, Stored
  <2> QED
    BY <2>1, <2>2, GrantStutters DEF ConsumeAuthCode
<1>4. CASE Stored(k)
  <2>1. FateOf(k) = "offered"
    BY <1>4, Places
  <2>2. GoOn(r, [pc |-> "check", form |-> req[r].form, ac |-> authCodes[k]])
    BY <1>2, <1>4 DEF ConsumeAuthCode, Stored
  <2>3. \A j : InHand(j)' <=> InHand(j) \/ j = k
    BY <1>1, <1>2, <2>2, OthersStay DEF InHand
  <2>4. \A j : Stored(j)' <=> Stored(j) /\ j # k
    BY <1>2 DEF ConsumeAuthCode, Restrict, Stored
  <2>5. UNCHANGED <<logins, grants>>
    BY DEF ConsumeAuthCode
  <2>6. FateOf(k)' = "taken"
    BY <2>3, <2>4 DEF FateOf, Stored
  <2>7. \A j \in Codes : j # k => FateOf(j)' = FateOf(j)
    BY <2>3, <2>4, <2>5 DEF FateOf, Stored
  <2>8. Promise!Take(k)
    BY <2>1, <2>5, <2>6, <2>7 DEF Promise!Take, Promise!Moves
  <2> QED
    BY <2>8 DEF Promise!Next
<1> QED
  BY <1>3, <1>4

\* Codes that are neither stored nor in anyone's hand any more, all others
\* staying as they are, are lost.
LEMMA Loses ==
  ASSUME Known, UNCHANGED <<logins, grants>>,
         \A k \in Codes : (Stored(k)' => Stored(k)) /\ (InHand(k)' => InHand(k))
  PROVE  Promise!Next
<1> USE DEF Known
<1> DEFINE S == {k \in Codes : \/ Stored(k) /\ ~ Stored(k)'
                               \/ InHand(k) /\ ~ InHand(k)'}
<1>1. \A k \in S : FateOf(k) \in {"offered", "taken"}
  BY Places
<1>2. ASSUME NEW k \in S PROVE FateOf(k)' = "lost"
  <2>1. ~ Stored(k)' /\ ~ InHand(k)' /\ ~ Spent(k) /\ Issued(k)
    BY InHandIsHeld DEF CodesInOnePlace, InOnePlace
  <2> QED
    BY <2>1 DEF FateOf, Stored, Spent, Issued
<1>3. \A k \in Codes \ S : FateOf(k)' = FateOf(k)
  BY DEF FateOf, Stored
<1>4. S \in SUBSET Codes
  OBVIOUS
<1> HIDE DEF S
<1>5. Promise!Lose(S)
  BY <1>1, <1>2, <1>3, <1>4 DEF Promise!Lose
<1> QED
  BY <1>4, <1>5 DEF Promise!Next

\* A code that is refused is lost; one that is accepted stays taken.
LEMMA CheckKeepsOrLoses ==
  ASSUME Known, NEW r \in Requests, CheckCode(r)
  PROVE  Promise!Next \/ UNCHANGED Promise!vars
<1> USE DEF Known
<1>1. req[r].pc = "check"
  BY DEF CheckCode
<1>2. CASE Answer(r)
  <2>1. \A k \in Codes : InHand(k)' => InHand(k)
    BY <1>1, <1>2, HandsLetGo
  <2> QED
    BY <2>1, Loses DEF CheckCode, storeVars, Stored
<1>3. CASE GoOn(r, [pc |-> "mint", form |-> req[r].form])
  <2>1. \A k \in Codes : InHand(k)' <=> InHand(k)
    BY <1>1, <1>3, HandsStay
  <2> QED
    BY <2>1, GrantStutters DEF CheckCode, storeVars, Stored
<1> QED
  BY <1>2, <1>3 DEF CheckCode

\* Storing a token sells it for the code, to the client the code was for.
LEMMA StoreSells ==
  ASSUME Known, NEW r \in Requests, StoreToken(r)
  PROVE  Promise!Next
<1> USE DEF Known
<1>1. req[r] \in Request /\ req[r].pc = "grant"
  BY DEF StoreToken, TypeOK
<1>2. PICK k \in Codes, c \in Clients, t \in Tokens :
        k = req[r].form.code /\ c = req[r].form.client /\ t = req[r].token
  BY <1>1, RequestKinds DEF TokenForm
<1> DEFINE g == [form |-> req[r].form, token |-> t]
<1>3. FateOf(k) = "taken"
  BY <1>1, <1>2, Places DEF InHand
<1>4. \E l \in logins : l.code = k /\ l.ac.client = c
  BY <1>1, <1>2 DEF Traced, Honest, Entitles
<1>5. \A h \in grants : h.token # t
  BY <1>1, <1>2 DEF TokensFresh, Fresh
<1>6. \A j \in Codes : InHand(j)' <=> InHand(j) /\ j # k
  BY <1>1, <1>2, HandsLetGo DEF StoreToken
<1>7. grants' = grants \cup {g} /\ g.form = req[r].form /\ g.token = t
  BY <1>2 DEF StoreToken
<1>8. UNCHANGED <<authCodes, logins>>
  BY DEF StoreToken
<1>9. FateOf(k)' = "sold"
  <2>1. ~ Stored(k)
    BY <1>2, <1>3, Places
  <2> QED
    BY <1>2, <1>6, <1>7, <1>8, <2>1 DEF FateOf, Stored
<1>10. ASSUME NEW j \in Codes, j # k PROVE FateOf(j)' = FateOf(j)
  <2>1. (\E h \in grants' : h.form.code = j) <=> (\E h \in grants : h.form.code = j)
    BY <1>2, <1>7, <1>10
  <2> QED
    BY <1>6, <1>8, <1>10, <2>1 DEF FateOf
<1> DEFINE sale(h) == [code |-> h.form.code, client |-> h.form.client, token |-> h.token]
<1>11. {sale(h) : h \in grants'} = {sale(h) : h \in grants} \cup
          {[code |-> k, client |-> c, token |-> t]}
  <2>1. sale(g) = [code |-> k, client |-> c, token |-> t]
    BY <1>2, <1>7
  <2> HIDE DEF g, sale
  <2> QED
    BY <1>7, <2>1
<1>12. \A h \in {sale(x) : x \in grants} : h.token # t
  BY <1>5
<1>13. [code |-> k, client |-> c]
         \in {[code |-> l.code, client |-> l.ac.client] : l \in logins}
  <2>1. PICK l \in logins : l.code = k /\ l.ac.client = c
    BY <1>4
  <2> QED
    BY <2>1
<1>14. Promise!Moves(k, "taken", "sold")
  BY <1>3, <1>9, <1>10 DEF Promise!Moves
<1>15. Promise!Sell(k, c, t)
  <2> HIDE DEF g
  <2> QED
    BY <1>8, <1>11, <1>12, <1>13, <1>14 DEF Promise!Sell
<1> QED
  BY <1>15 DEF Promise!Next

\* Any other step leaves every code where it is, or loses some.
LEMMA OthersKeepGrant ==
  ASSUME Known, Arrival \/ Cleanup \/ Tick \/ Restart
  PROVE  Promise!Next \/ UNCHANGED Promise!vars
<1> USE DEF Known
<1>1. ASSUME NEW c \in Clients, HandleRegister(c) PROVE UNCHANGED Promise!vars
  BY <1>1, GrantStutters DEF HandleRegister, InHand, Stored
<1>2. ASSUME NEW r \in Requests, NEW c \in Clients, NEW ch \in Proof,
             HandleAuthorizePost(r, c, ch)
      PROVE  UNCHANGED Promise!vars
  <2>1. \A k \in Codes : InHand(k)' <=> InHand(k)
    BY <1>2, HandsStay DEF HandleAuthorizePost, Idle
  <2> QED
    BY <1>2, <2>1, GrantStutters DEF HandleAuthorizePost, storeVars, Stored
<1>3. ASSUME NEW r \in Requests, NEW form, HandleToken(r, form)
      PROVE  UNCHANGED Promise!vars
  <2>1. \A k \in Codes : InHand(k)' <=> InHand(k)
    BY <1>3, HandsStay DEF HandleToken, Idle
  <2> QED
    BY <1>3, <2>1, GrantStutters DEF HandleToken, storeVars, Stored
<1>4. CASE Tick
  BY <1>4, GrantStutters DEF Tick, storeVars, InHand, Stored
<1>5. CASE Cleanup
  BY <1>5, Loses DEF Cleanup, Restrict, Live, InHand, Stored
<1>6. CASE Restart
  BY <1>6, Loses DEF Restart, Empty, Idle, InHand, Stored
<1> QED
  BY <1>1, <1>2, <1>3, <1>4, <1>5, <1>6 DEF Arrival

LEMMA GrantStep ==
  ASSUME Known, [Next]_vars
  PROVE  [Promise!Next]_Promise!vars
<1>1. CASE UNCHANGED vars
  BY <1>1, GrantStutters DEF vars, storeVars, InHand, Stored
<1>2. ASSUME NEW r \in Requests, Handler(r) PROVE [Promise!Next]_Promise!vars
  BY <1>2, QuietHandlers, StoreOffers, ConsumeTakes, CheckKeepsOrLoses, StoreSells
     DEF Handler
<1> QED
  BY <1>1, <1>2, OthersKeepGrant DEF Next

\* The store and the handlers implement the authorization code grant.
THEOREM GrantImplemented == Spec => ImplementsGrant
<1>1. Known /\ [Next]_vars => [Promise!Next]_Promise!vars
  BY GrantStep
<1> QED
  BY <1>1, GrantInit, KnownAlways, PTL DEF Spec, ImplementsGrant, Promise!Spec
=============================================================================
