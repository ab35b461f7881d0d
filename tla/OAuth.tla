--------------------------------- MODULE OAuth ---------------------------------
(***************************************************************************)
(* internal/oauth: the in-memory store, the handlers of /register,         *)
(* /authorize and /token, and the cleanup goroutine.  Every request runs   *)
(* on a goroutine of its own and takes the store's lock once or twice, so  *)
(* a handler is a sequence of steps; the clock moves, other handlers run   *)
(* and the server may die between any two of them.                         *)
(*                                                                         *)
(* randomHex never repeats itself.  S256 is injective, so a verifier is    *)
(* identified with the challenge it answers.                               *)
(***************************************************************************)
EXTENDS Integers, FiniteSets, Functions

CONSTANTS
  Clients,       \* client ids that can be registered
  Codes,         \* authorization codes randomHex can return
  Tokens,        \* access tokens randomHex can return
  Requests,      \* requests served at the same time
  Verifiers,     \* PKCE verifiers, and the challenges made from them
  None,          \* an absent challenge or verifier
  CodeTTL,       \* lifetime of a code: five minutes
  TokenTTL,      \* cfg.TokenTTL
  DefaultTTL,    \* lifetime of a token when TokenTTL is 0: one hour
  CleanupEvery,  \* period of the cleanup ticker
  MaxTime        \* bound on the clock

ASSUME OAuthAssumption ==
  /\ None \notin Verifiers
  /\ CodeTTL \in Nat /\ TokenTTL \in Int /\ DefaultTTL \in Nat
  /\ CleanupEvery \in Nat \ {0} /\ MaxTime \in Nat

VARIABLES
  now,        \* the clock
  clients,    \* store.clients
  authCodes,  \* store.authCodes
  tokens,     \* store.tokens
  req,        \* what each request in progress holds and does next
  due,        \* when the cleanup ticker fires next
  logins,     \* history: the codes stored after a login, with their data
  grants      \* history: the tokens stored, with the request that earned them

storeVars == <<clients, authCodes, tokens>>
vars == <<now, storeVars, req, due, logins, grants>>

Proof == Verifiers \cup {None}
Time == 0..MaxTime
AuthCode == [client : Clients, challenge : Proof, exp : Nat]
Token == [client : Clients, exp : Int]

\* A token request as it arrived, and when.
TokenForm == [code : Codes, client : Clients, verifier : Proof, asked : Time]

Idle == [pc |-> "idle"]
Request ==
  {Idle}
  \cup [pc : {"client", "login"}, client : Clients, challenge : Proof]
  \cup [pc : {"store"}, code : Codes, ac : AuthCode]
  \cup [pc : {"consume", "mint"}, form : TokenForm]
  \cup [pc : {"check"}, form : TokenForm, ac : AuthCode]
  \cup [pc : {"grant"}, form : TokenForm, token : Tokens, t : Token]

PartialFunctions(S, T) == UNION {[D -> T] : D \in SUBSET S}

TypeOK ==
  /\ now \in Time
  /\ clients \subseteq Clients
  /\ DOMAIN authCodes \subseteq Codes
  /\ authCodes \in [DOMAIN authCodes -> AuthCode]
  /\ DOMAIN tokens \subseteq Tokens
  /\ tokens \in [DOMAIN tokens -> Token]
  /\ req \in [Requests -> Request]
  /\ due \in Nat
  /\ logins \subseteq [code : Codes, ac : AuthCode]
  /\ grants \subseteq [form : TokenForm, token : Tokens]

Empty == [x \in {} |-> x]

Init ==
  /\ now = 0
  /\ clients = {}
  /\ authCodes = Empty /\ tokens = Empty
  /\ req = [r \in Requests |-> Idle]
  /\ due = CleanupEvery
  /\ logins = {} /\ grants = {}

\* The handler of request r goes on at state s, or answers (Idle).
GoOn(r, s) == req' = [req EXCEPT ![r] = s]
Answer(r) == GoOn(r, Idle)

\* s.m[k] = v of a Go map.
Put(f, k, v) == [x \in DOMAIN f \cup {k} |-> IF x = k THEN v ELSE f[x]]

-----------------------------------------------------------------------------
\* handleRegister: a new client id.
HandleRegister(c) ==
  /\ c \notin clients
  /\ clients' = clients \cup {c}
  /\ UNCHANGED <<now, authCodes, tokens, req, due, logins, grants>>

\* handleAuthorizePost, the form: the login page was filled in for client c.
HandleAuthorizePost(r, c, ch) ==
  /\ req[r] = Idle
  /\ GoOn(r, [pc |-> "client", client |-> c, challenge |-> ch])
  /\ UNCHANGED <<now, storeVars, due, logins, grants>>

\* getClient: an unknown client is turned away.
CheckClient(r) ==
  /\ req[r].pc = "client"
  /\ IF req[r].client \in clients THEN GoOn(r, [req[r] EXCEPT !.pc = "login"])
                                  ELSE Answer(r)
  /\ UNCHANGED <<now, storeVars, due, logins, grants>>

\* checkCredentials rejects the user ...
LoginFails(r) ==
  /\ req[r].pc = "login"
  /\ Answer(r)
  /\ UNCHANGED <<now, storeVars, due, logins, grants>>

\* ... or accepts: a fresh code, good for five minutes from now.
CheckCredentials(r) ==
  /\ req[r].pc = "login"
  /\ \E code \in Codes :
       /\ \A l \in logins : l.code # code
       /\ \A q \in Requests : req[q].pc = "store" => req[q].code # code
       /\ GoOn(r, [pc |-> "store", code |-> code,
                   ac |-> [client |-> req[r].client,
                           challenge |-> req[r].challenge,
                           exp |-> now + CodeTTL]])
  /\ UNCHANGED <<now, storeVars, due, logins, grants>>

\* storeAuthCode; then the redirect, or an error page if the redirect URI
\* does not parse: the code stays in the store either way.
StoreAuthCode(r) ==
  /\ req[r].pc = "store"
  /\ authCodes' = Put(authCodes, req[r].code, req[r].ac)
  /\ logins' = logins \cup {[code |-> req[r].code, ac |-> req[r].ac]}
  /\ Answer(r)
  /\ UNCHANGED <<now, clients, tokens, due, grants>>

-----------------------------------------------------------------------------
\* handleToken, the form: some client asks for a token, with a code that may
\* be unknown, spent, expired or another client's.
HandleToken(r, form) ==
  /\ req[r] = Idle
  /\ form.asked = now
  /\ GoOn(r, [pc |-> "consume", form |-> form])
  /\ UNCHANGED <<now, storeVars, due, logins, grants>>

\* Mutant: the code is read and left in the store.
ConsumeAuthCodeKeeps(r) ==
  LET form == req[r].form IN
  /\ req[r].pc = "consume"
  /\ IF form.code \in DOMAIN authCodes
     THEN GoOn(r, [pc |-> "check", form |-> form, ac |-> authCodes[form.code]])
     ELSE Answer(r)
  /\ UNCHANGED <<now, storeVars, due, logins, grants>>

\* Mutant: an unknown code is not turned away.
ConsumeAuthCodeUnchecked(r) ==
  LET form == req[r].form IN
  /\ req[r].pc = "consume"
  /\ GoOn(r, [pc |-> "check", form |-> form,
              ac |-> IF form.code \in DOMAIN authCodes
                     THEN authCodes[form.code] ELSE None])
  /\ authCodes' = Restrict(authCodes, DOMAIN authCodes \ {form.code})
  /\ UNCHANGED <<now, clients, tokens, due, logins, grants>>

\* consumeAuthCode looks the code up and deletes it, under one lock.
ConsumeAuthCode(r) ==
  LET form == req[r].form IN
  /\ req[r].pc = "consume"
  /\ IF form.code \in DOMAIN authCodes
     THEN GoOn(r, [pc |-> "check", form |-> form, ac |-> authCodes[form.code]])
     ELSE Answer(r)
  /\ authCodes' = Restrict(authCodes, DOMAIN authCodes \ {form.code})
  /\ UNCHANGED <<now, clients, tokens, due, logins, grants>>

VerifyPKCE(verifier, challenge) == verifier = challenge

\* Mutant: any client may redeem the code.
RedeemableByAnyone(ac, form) ==
  /\ now <= ac.exp
  /\ ac.challenge # None =>
       form.verifier # None /\ VerifyPKCE(form.verifier, ac.challenge)

\* Mutant: a code does not expire.
RedeemableForever(ac, form) ==
  /\ ac.client = form.client
  /\ ac.challenge # None =>
       form.verifier # None /\ VerifyPKCE(form.verifier, ac.challenge)

\* The checks of handleToken on the code it has taken out of the store.
Redeemable(ac, form) ==
  /\ now <= ac.exp
  /\ ac.client = form.client
  /\ ac.challenge # None =>
       form.verifier # None /\ VerifyPKCE(form.verifier, ac.challenge)

CheckCode(r) ==
  /\ req[r].pc = "check"
  /\ IF Redeemable(req[r].ac, req[r].form)
     THEN GoOn(r, [pc |-> "mint", form |-> req[r].form])
     ELSE Answer(r)
  /\ UNCHANGED <<now, storeVars, due, logins, grants>>

TTL == IF TokenTTL = 0 THEN DefaultTTL ELSE TokenTTL

\* A fresh token, good for TTL from now.
MintToken(r) ==
  /\ req[r].pc = "mint"
  /\ \E token \in Tokens :
       /\ \A g \in grants : g.token # token
       /\ \A q \in Requests : req[q].pc = "grant" => req[q].token # token
       /\ GoOn(r, [pc |-> "grant", form |-> req[r].form, token |-> token,
                   t |-> [client |-> req[r].form.client, exp |-> now + TTL]])
  /\ UNCHANGED <<now, storeVars, due, logins, grants>>

\* storeToken and the answer, which the client may or may not receive.
StoreToken(r) ==
  /\ req[r].pc = "grant"
  /\ tokens' = Put(tokens, req[r].token, req[r].t)
  /\ grants' = grants \cup {[form |-> req[r].form, token |-> req[r].token]}
  /\ Answer(r)
  /\ UNCHANGED <<now, clients, authCodes, due, logins>>

-----------------------------------------------------------------------------
\* validateToken, as the Bearer middleware sees it at this moment.
ValidateToken(token) == token \in DOMAIN tokens /\ now <= tokens[token].exp

\* Mutant: what expires at this very moment goes too.
LiveStrictly(m) == {k \in DOMAIN m : now < m[k].exp}

\* The entries of a store map that have not expired.
Live(m) == {k \in DOMAIN m : now <= m[k].exp}

\* Mutant: tokens are not cleaned up.
CleanupCodesOnly ==
  /\ now >= due
  /\ due' = (now + CleanupEvery) - ((now - due) % CleanupEvery)
  /\ authCodes' = Restrict(authCodes, Live(authCodes))
  /\ UNCHANGED <<now, clients, tokens, req, logins, grants>>

\* cleanup, when the ticker fires; a tick the goroutine was late for is
\* dropped, the next one keeps the ticker's phase.
Cleanup ==
  /\ now >= due
  /\ due' = (now + CleanupEvery) - ((now - due) % CleanupEvery)
  /\ authCodes' = Restrict(authCodes, Live(authCodes))
  /\ tokens' = Restrict(tokens, Live(tokens))
  /\ UNCHANGED <<now, clients, req, logins, grants>>

Tick ==
  /\ now < MaxTime
  /\ now' = now + 1
  /\ UNCHANGED <<storeVars, req, due, logins, grants>>

\* The process dies and is started again: nothing is persisted.
Restart ==
  /\ clients' = {}
  /\ authCodes' = Empty /\ tokens' = Empty
  /\ req' = [r \in Requests |-> Idle]
  /\ due' = now + CleanupEvery
  /\ UNCHANGED <<now, logins, grants>>

Handler(r) ==
  \/ CheckClient(r) \/ LoginFails(r) \/ CheckCredentials(r) \/ StoreAuthCode(r)
  \/ ConsumeAuthCode(r) \/ CheckCode(r) \/ MintToken(r) \/ StoreToken(r)

Arrival ==
  \/ \E c \in Clients : HandleRegister(c)
  \/ \E r \in Requests :
       \/ \E c \in Clients, ch \in Proof : HandleAuthorizePost(r, c, ch)
       \/ \E c \in Clients, code \in Codes, v \in Proof :
            HandleToken(r, [code |-> code, client |-> c, verifier |-> v,
                            asked |-> now])

Next ==
  \/ Arrival \/ (\E r \in Requests : Handler(r)) \/ Cleanup \/ Tick \/ Restart

\* Time passes and the cleanup goroutine gets to run; nobody owes a request.
Spec == Init /\ [][Next]_vars /\ WF_vars(Tick) /\ WF_vars(Cleanup)

-----------------------------------------------------------------------------
\* store.go: a code is "single-use".  However many requests present it at the
\* same time, and however often a client retries, it buys one token at most.
OneTokenPerCode ==
  \A g, h \in grants : g.form.code = h.form.code => g.token = h.token

\* A token in the store was bought with a code that a login stored for the
\* same client, by a request that answered the code's challenge.
TokensEarned ==
  \A token \in DOMAIN tokens :
    \E g \in grants, l \in logins :
      /\ g.token = token
      /\ g.form.code = l.code
      /\ tokens[token].client = l.ac.client
      /\ l.ac.challenge # None => g.form.verifier = l.ac.challenge

\* A request that arrives after its code has expired gets no token, however
\* long the cleanup goroutine leaves the code in the store.
NoLateGrant ==
  \A g \in grants, l \in logins :
    g.form.code = l.code => g.form.asked <= l.ac.exp

\* A token the middleware accepts stays accepted until it expires: no handler
\* and no cleanup revokes it early; only a restart does.
NoEarlyRevocation ==
  [][~ Restart =>
       \A token \in Tokens :
         ValidateToken(token) /\ now' <= tokens[token].exp
           => ValidateToken(token)']_vars

\* Time for one more cleanup after e, before the model's clock ends.
TimeAfter(e) == e + CleanupEvery < MaxTime /\ now + CleanupEvery < MaxTime

\* "cleanup removes all expired auth codes and tokens": what the store holds
\* goes once it has expired, also a code no redirect ever delivered and an
\* entry that was stored late.
ExpiredEntriesGo ==
  /\ \A code \in Codes :
       code \in DOMAIN authCodes /\ TimeAfter(authCodes[code].exp)
         ~> code \notin DOMAIN authCodes
  /\ \A token \in Tokens :
       token \in DOMAIN tokens /\ TimeAfter(tokens[token].exp)
         ~> token \notin DOMAIN tokens

-----------------------------------------------------------------------------
\* The abstract grant, read off the store, the requests and the histories.
InHand(k) == \E r \in Requests :
               req[r].pc \in {"check", "mint", "grant"} /\ req[r].form.code = k

FateOf(k) ==
  IF k \in DOMAIN authCodes THEN "offered"
  ELSE IF InHand(k) THEN "taken"
  ELSE IF \E g \in grants : g.form.code = k THEN "sold"
  ELSE IF \E l \in logins : l.code = k THEN "lost"
  ELSE "new"

Promise == INSTANCE Grant WITH
  fate <- [k \in Codes |-> FateOf(k)],
  offers <- {[code |-> l.code, client |-> l.ac.client] : l \in logins},
  sales <- {[code |-> g.form.code, client |-> g.form.client, token |-> g.token] :
              g \in grants}

\* The store and the handlers implement the grant: whatever requests, cleanup
\* and restarts do between two steps of a handler, a code only moves on along
\* its way and ends with one token, for its own client, or with none.
ImplementsGrant == Promise!Spec
=============================================================================
