----------------------------- MODULE WebProofs ------------------------------
(***************************************************************************)
(* What is proved of the web application: for each of its parts the        *)
(* invariant its property rests on, that every step keeps it, and the      *)
(* property, for any users, wallets, handlers, transactions and prices and *)
(* any interleaving. The parts share no state; each has a section of its   *)
(* own.                                                                    *)
(***************************************************************************)
EXTENDS
  SignIn, CachedReads, QuoteIssue, FillRecords, PreparedActions, TradeTicket, SeriesSlots,
  ExecutionReadiness, FiniteSetTheorems, WellFoundedInduction, TLAPS

----------------------------------------------------------------------------
(* Signing in: a session stands for one signature, of its own wallet, over *)
(* a nonce issued for it.                                                  *)

(* Rows carry the mark that they were used; attempts and handlers are      *)
(* records per attempt and handler.                                        *)
TableTyped ==
  /\ authNonces = [n \in DOMAIN authNonces |-> authNonces[n]]
  /\ \A n \in DOMAIN authNonces : "used" \in DOMAIN authNonces[n]

AttemptTyped ==
  /\ attempt = [a \in Attempts |-> attempt[a]]
  /\ handler = [h \in Handlers |-> handler[h]]

(* What a handler has read was sent, and signed by the wallet it names.    *)
RequestsChecked ==
  \A h \in Handlers : handler[h].at = "read" =>
    handler[h].request \in sent /\ handler[h].request.signer = handler[h].request.wallet

(* The nonce of a session was sent, so it is never issued again, and if    *)
(* its row still exists the row is used up.                                *)
NoncesSpent ==
  \A t \in tokens :
    t.nonce \in DOMAIN authNonces => authNonces[t.nonce].used

(* The cookie was set by a session minted for its wallet.                  *)
CookieMinted == cookie.wallet # None => \E t \in tokens : t.wallet = cookie.wallet

(* A request is nothing but its wallet, its nonce and its signer.          *)
SentTyped == \A r \in sent : r = [wallet |-> r.wallet, nonce |-> r.nonce, signer |-> r.signer]

(* The strengthening: every part is needed by a step that mints or issues. *)
SignInInv == /\ TableTyped /\ AttemptTyped /\ RequestsChecked /\ NoncesSpent /\ CookieMinted /\ SentTyped
        /\ SessionsAreProven

(* At the start no nonce exists and no wallet is signed in.                *)
LEMMA SignInInvInit == SignInInit => SignInInv
<1>. SUFFICES ASSUME SignInInit PROVE SignInInv OBVIOUS
<1>. USE DEF SignInInit
<1>1. TableTyped BY DEF TableTyped
<1>2. AttemptTyped BY DEF AttemptTyped
<1>3. RequestsChecked BY DEF RequestsChecked, Free
<1>4. NoncesSpent /\ CookieMinted /\ SessionsAreProven /\ SentTyped
  BY DEF NoncesSpent, CookieMinted, SessionsAreProven, SentTyped, NoCookie
<1>. QED BY <1>1, <1>2, <1>3, <1>4 DEF SignInInv

(* A step of the browser that mints no session and sends nothing.          *)
LEMMA BrowserStep ==
  ASSUME SignInInv, UNCHANGED <<now, authNonces, sent, handler, tokens>>, AttemptTyped',
         CookieMinted', sessionWallet' # None => \E t \in tokens : t.wallet = sessionWallet'
  PROVE  SignInInv'
<1>. USE DEF SignInInv
<1>1. TableTyped' BY DEF TableTyped
<1>2. RequestsChecked' /\ NoncesSpent' /\ SentTyped' BY DEF RequestsChecked, NoncesSpent, SentTyped
<1>3. SessionsAreProven' BY DEF SessionsAreProven
<1>. QED BY <1>1, <1>2, <1>3

(* Every step of the browser, of a handler and of the clock keeps the      *)
(* invariant.                                                              *)
LEMMA SignInInvNext == SignInInv /\ [SignInNext]_signInVars => SignInInv'
<1>. SUFFICES ASSUME SignInInv, [SignInNext]_signInVars PROVE SignInInv' OBVIOUS
<1>. USE DEF SignInInv
<1>a. /\ attempt = [a \in Attempts |-> attempt[a]]
      /\ handler = [h \in Handlers |-> handler[h]]
  BY DEF AttemptTyped
<1>b. sessionWallet # None => \E t \in tokens : t.wallet = sessionWallet
  BY DEF SessionsAreProven
<1>c. CookieMinted BY DEF SignInInv
<1>1. CASE UNCHANGED signInVars
  <2>1. AttemptTyped' /\ CookieMinted' BY <1>1 DEF signInVars, AttemptTyped, CookieMinted
  <2>. QED BY <1>1, <1>b, <2>1, BrowserStep DEF signInVars
<1>2. CASE Tick
  <2>1. UNCHANGED <<authNonces, cookie, sessionWallet, attempt, sent, handler, tokens>>
    BY <1>2 DEF Tick
  <2>2. TableTyped' BY <2>1 DEF TableTyped
  <2>3. AttemptTyped' BY <2>1 DEF AttemptTyped
  <2>4. RequestsChecked' /\ NoncesSpent' /\ CookieMinted' /\ SentTyped' /\ SessionsAreProven'
    BY <2>1 DEF RequestsChecked, NoncesSpent, CookieMinted, SentTyped, SessionsAreProven
  <2>. QED BY <2>2, <2>3, <2>4
<1>3. CASE onSessionExpired
  <2>1. AttemptTyped' /\ CookieMinted' BY <1>3 DEF onSessionExpired, AttemptTyped, CookieMinted
  <2>. QED BY <1>3, <2>1, BrowserStep DEF onSessionExpired
<1>4. ASSUME NEW wallet \in Wallets \union {None}, SwitchWallet(wallet) PROVE SignInInv'
  <2>1. /\ UNCHANGED <<now, authNonces, sent, handler, tokens>> /\ sessionWallet' = None
        /\ cookie' = NoCookie \/ cookie' = cookie
    BY <1>4 DEF SwitchWallet
  <2>2. AttemptTyped' BY <1>4, <2>1, <1>a DEF SwitchWallet, AttemptTyped
  <2>3. CookieMinted' BY <2>1, <1>c DEF CookieMinted, NoCookie
  <2>. QED BY <2>1, <2>2, <2>3, BrowserStep
<1>5. ASSUME NEW a \in Attempts, signIn(a) PROVE SignInInv'
  <2>1. AttemptTyped' /\ CookieMinted' BY <1>5, <1>a, <1>c DEF signIn, AttemptTyped, CookieMinted
  <2>. QED BY <1>5, <1>b, <2>1, BrowserStep DEF signIn
<1>6. ASSUME NEW a \in Attempts, CheckSession(a) PROVE SignInInv'
  <2>1. UNCHANGED <<now, authNonces, cookie, sent, handler, tokens>>
    BY <1>6 DEF CheckSession
  <2>2. \/ sessionWallet' = sessionWallet
        \/ sessionWallet' \in {cookie.wallet, None}
    BY <1>6 DEF CheckSession, Active, readSessionWallet
  <2>3. AttemptTyped' BY <1>6, <1>a DEF CheckSession, Active, AttemptTyped
  <2>4. CookieMinted' BY <2>1, <1>c DEF CookieMinted
  <2>5. sessionWallet' # None => \E t \in tokens : t.wallet = sessionWallet'
    BY <2>2, <1>b, <1>c DEF CookieMinted
  <2>. QED BY <2>1, <2>3, <2>4, <2>5, BrowserStep
<1>7. ASSUME NEW a \in Attempts, IssueNonce(a) PROVE SignInInv'
  <2>1. PICK nonce \in Nonces :
          LET kept == {n \in DOMAIN authNonces : authNonces[n].expiresAt + NONCE_RETENTION >= now}
          IN /\ \A request \in sent : request.nonce # nonce
             /\ authNonces' = [n \in kept \union {nonce} |->
                  IF n = nonce THEN [expiresAt |-> now + AUTH_NONCE_TTL, used |-> FALSE]
                               ELSE authNonces[n]]
             /\ attempt' = [attempt EXCEPT ![a].nonce = nonce, ![a].at = "sign"]
    BY <1>7 DEF IssueNonce
  <2>2. UNCHANGED <<now, cookie, sessionWallet, sent, handler, tokens>>
    BY <1>7 DEF IssueNonce
  <2>3. TableTyped' BY <2>1, <2>2 DEF TableTyped
  <2>4. AttemptTyped' BY <2>1, <2>2, <1>a DEF AttemptTyped
  <2>5. NoncesSpent'
    <3>. SUFFICES ASSUME NEW t \in tokens, t.nonce \in DOMAIN authNonces'
                  PROVE  authNonces'[t.nonce].used
      BY <2>2 DEF NoncesSpent
    <3>1. t.nonce # nonce
      <4>1. [wallet |-> t.wallet, nonce |-> t.nonce, signer |-> t.wallet] \in sent
        BY DEF SessionsAreProven
      <4>. QED BY <2>1, <4>1
    <3>2. t.nonce \in DOMAIN authNonces /\ authNonces'[t.nonce] = authNonces[t.nonce]
      BY <2>1, <3>1
    <3>. QED BY <3>2 DEF NoncesSpent
  <2>6. RequestsChecked' /\ CookieMinted' /\ SentTyped' /\ SessionsAreProven'
    BY <2>2 DEF RequestsChecked, CookieMinted, SentTyped, SessionsAreProven
  <2>. QED BY <2>3, <2>4, <2>5, <2>6
<1>8. ASSUME NEW a \in Attempts, Sign(a) PROVE SignInInv'
  <2>1. /\ UNCHANGED <<now, authNonces, cookie, sessionWallet, handler, tokens>>
        /\ attempt' = [attempt EXCEPT ![a].at = "verify"]
        /\ \E w, n, x : sent' = sent \union {[wallet |-> w, nonce |-> n, signer |-> x]}
    BY <1>8 DEF Sign
  <2>2. sent \subseteq sent' BY <2>1
  <2>3. TableTyped' BY <2>1 DEF TableTyped
  <2>4. AttemptTyped' BY <2>1, <1>a DEF AttemptTyped
  <2>5. RequestsChecked' /\ NoncesSpent' /\ CookieMinted'
    BY <2>1, <2>2 DEF RequestsChecked, NoncesSpent, CookieMinted
  <2>6. SentTyped' BY <2>1 DEF SentTyped
  <2>7. SessionsAreProven' BY <2>1, <2>2 DEF SessionsAreProven
  <2>. QED BY <2>3, <2>4, <2>5, <2>6, <2>7
<1>9. ASSUME NEW a \in Attempts, GiveUp(a) PROVE SignInInv'
  <2>1. UNCHANGED <<now, authNonces, cookie, sent, handler, tokens>>
    BY <1>9 DEF GiveUp
  <2>2. sessionWallet' \in {sessionWallet, None} BY <1>9 DEF GiveUp, Failed
  <2>3. AttemptTyped' BY <1>9, <1>a, <2>1 DEF GiveUp, Failed, AttemptTyped
  <2>4. CookieMinted' BY <2>1, <1>c DEF CookieMinted
  <2>. QED BY <2>1, <2>2, <2>3, <2>4, <1>b, BrowserStep
<1>10. ASSUME NEW a \in Attempts, ReceiveSession(a) PROVE SignInInv'
  <2>1. UNCHANGED <<now, authNonces, sent, handler, tokens>>
    BY <1>10 DEF ReceiveSession
  <2>2. PICK token \in tokens :
          /\ token.wallet = attempt[a].wallet
          /\ cookie' = [wallet |-> token.wallet, expiresAt |-> token.expiresAt]
    BY <1>10 DEF ReceiveSession
  <2>3. sessionWallet' = token.wallet BY <1>10, <2>2 DEF ReceiveSession, Active
  <2>4. AttemptTyped' BY <1>10, <1>a, <2>1 DEF ReceiveSession, Active, AttemptTyped
  <2>5. CookieMinted' BY <2>1, <2>2 DEF CookieMinted
  <2>. QED BY <2>1, <2>3, <2>4, <2>5, BrowserStep
<1>11. ASSUME NEW h \in Handlers, NEW request \in sent, ReadNonce(h, request) PROVE SignInInv'
  <2>1. /\ UNCHANGED <<now, authNonces, cookie, sessionWallet, attempt, sent, tokens>>
        /\ request.signer = request.wallet
        /\ handler' = [handler EXCEPT ![h] = [at |-> "read", request |-> request]]
    BY <1>11 DEF ReadNonce
  <2>2. TableTyped' BY <2>1 DEF TableTyped
  <2>3. AttemptTyped' BY <2>1, <1>a DEF AttemptTyped
  <2>4. RequestsChecked' BY <2>1, <1>a DEF RequestsChecked
  <2>5. NoncesSpent' /\ CookieMinted' /\ SentTyped' /\ SessionsAreProven'
    BY <2>1 DEF NoncesSpent, CookieMinted, SentTyped, SessionsAreProven
  <2>. QED BY <2>2, <2>3, <2>4, <2>5
<1>12. ASSUME NEW h \in Handlers, ConsumeNonce(h) PROVE SignInInv'
  <2>. DEFINE request == handler[h].request
  <2>1. /\ handler[h].at = "read"
        /\ handler' = [handler EXCEPT ![h] = Free]
        /\ UNCHANGED <<now, cookie, sessionWallet, attempt, sent>>
    BY <1>12 DEF ConsumeNonce
  <2>2. request \in sent /\ request.signer = request.wallet
    BY <2>1 DEF RequestsChecked
  <2>3. AttemptTyped' BY <2>1, <1>a DEF AttemptTyped
  <2>4. RequestsChecked' BY <2>1, <1>a DEF RequestsChecked, Free
  <2>5. SentTyped' BY <2>1 DEF SentTyped
  <2>6. CASE ~Consumable(request.nonce)
    <3>1. UNCHANGED <<authNonces, tokens>> BY <1>12, <2>6 DEF ConsumeNonce
    <3>2. TableTyped' BY <3>1, <2>1 DEF TableTyped
    <3>3. NoncesSpent' /\ CookieMinted' /\ SessionsAreProven'
      BY <3>1, <2>1 DEF NoncesSpent, CookieMinted, SessionsAreProven
    <3>. QED BY <2>3, <2>4, <2>5, <3>2, <3>3
  <2>7. CASE Consumable(request.nonce)
    <3>. DEFINE newest == [id |-> Cardinality(tokens), wallet |-> request.wallet,
                           nonce |-> request.nonce, expiresAt |-> now + SESSION_TTL]
    <3>1. /\ authNonces' = [authNonces EXCEPT ![request.nonce].used = TRUE]
          /\ tokens' = tokens \union {newest}
      BY <1>12, <2>7 DEF ConsumeNonce
    <3>2. request.nonce \in DOMAIN authNonces /\ ~authNonces[request.nonce].used
      BY <2>7 DEF Consumable
    <3>3. newest.nonce = request.nonce /\ newest.wallet = request.wallet OBVIOUS
    <3>4. [wallet |-> newest.wallet, nonce |-> newest.nonce, signer |-> newest.wallet] \in sent
      BY <2>2, <3>3 DEF SentTyped
    <3>. HIDE DEF newest
    <3>5. \A n \in DOMAIN authNonces :
            /\ "used" \in DOMAIN authNonces'[n]
            /\ authNonces[n].used => authNonces'[n].used
            /\ n = request.nonce => authNonces'[n].used
      <4>1. \A n \in DOMAIN authNonces : n # request.nonce => authNonces'[n] = authNonces[n]
        BY <3>1 DEF TableTyped
      <4>2. authNonces'[request.nonce] = [authNonces[request.nonce] EXCEPT !.used = TRUE]
        BY <3>1, <3>2 DEF TableTyped
      <4>3. "used" \in DOMAIN authNonces[request.nonce]
        BY <3>2 DEF TableTyped
      <4>4. authNonces'[request.nonce].used /\ "used" \in DOMAIN authNonces'[request.nonce]
        BY <4>2, <4>3
      <4>. SUFFICES ASSUME NEW n \in DOMAIN authNonces
           PROVE /\ "used" \in DOMAIN authNonces'[n]
                 /\ authNonces[n].used => authNonces'[n].used
                 /\ n = request.nonce => authNonces'[n].used
        OBVIOUS
      <4>5. CASE n = request.nonce BY <4>5, <4>4
      <4>6. CASE n # request.nonce BY <4>6, <4>1 DEF TableTyped
      <4>. QED BY <4>5, <4>6
    <3>6. DOMAIN authNonces' = DOMAIN authNonces
          /\ authNonces' = [n \in DOMAIN authNonces' |-> authNonces'[n]]
      BY <3>1 DEF TableTyped
    <3>7. TableTyped' BY <3>5, <3>6, <2>1 DEF TableTyped
    <3>8. NoncesSpent' BY <3>1, <3>3, <3>5, <3>6 DEF NoncesSpent
    <3>9. CookieMinted' BY <3>1, <2>1, <1>c DEF CookieMinted
    <3>10. SessionsAreProven'
      <4>1. \A t \in tokens : t.nonce # newest.nonce
        BY <3>2, <3>3 DEF NoncesSpent
      <4>2. \A s, t \in tokens' : s.nonce = t.nonce => s = t
        BY <4>1, <3>1 DEF SessionsAreProven
      <4>. QED BY <4>2, <3>1, <3>4, <2>1 DEF SessionsAreProven
    <3>. QED BY <2>3, <2>4, <2>5, <3>7, <3>8, <3>9, <3>10
  <2>. QED BY <2>6, <2>7
<1>. QED BY <1>1, <1>2, <1>3, <1>4, <1>5, <1>6, <1>7, <1>8, <1>9, <1>10, <1>11, <1>12 DEF SignInNext

(* A nonce mints at most one session, and only for a wallet that signed it,*)
(* however requests overlap and repeat (verify/route.ts 58-64); the browser*)
(* is signed in only as a wallet that has one.                             *)
THEOREM SessionsAreProvenHolds == SignInSpec => []SessionsAreProven
<1>1. SignInInv => SessionsAreProven BY DEF SignInInv
<1>. QED BY SignInInvInit, SignInInvNext, <1>1, PTL DEF SignInSpec

----------------------------------------------------------------------------
(* The cached reads.                                                       *)

(* What a cache reports of its entries fits how it dates them: an age      *)
(* fixed at completion comes with a date from upstream, and only an age    *)
(* taken when asked may do without one.                                    *)
LEMMA CachesAreOfTwoKinds ==
  ASSUME NEW c \in Caches
  PROVE  /\ c.ttl \in Nat /\ c.staleTtl \in Nat /\ c.ttl <= c.staleTtl
         /\ \/ c.age = "frozen" /\ c.dated = "upstream"
            \/ c.age = "asked" /\ c.dated = "fetch"
         /\ c.expiry \in {"completion", "request"}
<1>. USE CacheDurationsAssumption DEF Ticker
<1>. DEFINE Fits(d) ==
       /\ d.ttl \in Nat /\ d.staleTtl \in Nat /\ d.ttl <= d.staleTtl
       /\ \/ d.age = "frozen" /\ d.dated = "upstream"
          \/ d.age = "asked" /\ d.dated = "fetch"
       /\ d.expiry \in {"completion", "request"}
<1>1. Fits(Ticker) OBVIOUS
<1>2. Fits(Undated(UNIVERSE_TTL)) /\ Fits(Undated(PAIR_TTL)) BY DEF Undated
<1>3. Fits(Bars) BY DEF Bars
<1>4. Fits(Volatility) BY DEF Volatility
<1>5. Fits(statusCache) BY DEF statusCache
<1>6. Fits(getVsolAddressLookupTableAccount) BY DEF getVsolAddressLookupTableAccount, Undated
<1>. HIDE DEF Fits, Ticker
<1>7. \A g \in Categories :
        /\ getMarketSnapshot(g) \subseteq {Ticker, Undated(UNIVERSE_TTL), Undated(PAIR_TTL)}
        /\ getMarketBars(g) \subseteq {Bars}
        /\ getMarketRealizedVolatility(g) \subseteq {Volatility}
  BY DEF Categories, getMarketSnapshot, getMarketBars, getMarketRealizedVolatility,
         getPreIpoPair, getHyperliquidUniverse, getCoinbaseSnapshot, getPythSnapshot,
         getPreIpoMarketBars, getHyperliquidMarketBars, getCoinbaseMarketBars, getPythMarketBars,
         getPreIpoRealizedVolatility, getHyperliquidRealizedVolatility,
         getCoinbaseRealizedVolatility, getPythRealizedVolatility
<1>8. c \in {Ticker, Undated(UNIVERSE_TTL), Undated(PAIR_TTL), Bars, Volatility, statusCache,
             getVsolAddressLookupTableAccount}
  <2>. DEFINE Reads(g) == getMarketSnapshot(g) \union getMarketBars(g)
                            \union getMarketRealizedVolatility(g)
  <2>1. Providers = UNION {Reads(g) : g \in Categories} BY Zenon DEF Providers
  <2>2. CASE c \in Providers
    <3>. HIDE DEF Reads
    <3>1. PICK g \in Categories : c \in Reads(g) BY <2>1, <2>2
    <3>. QED BY <1>7, <3>1 DEF Reads
  <2>3. CASE c \in {statusCache, getVsolAddressLookupTableAccount} BY <2>3
  <2>. QED BY <2>2, <2>3 DEF Caches
<1>9. Fits(c) BY <1>1, <1>2, <1>3, <1>4, <1>5, <1>6, <1>8
<1>. QED BY <1>9 DEF Fits

(* The slack a cache is allowed: nothing when ages are taken on asking,    *)
(* the longest life of an entry when they are fixed at completion.         *)
Slack == IF cache.age = "frozen" THEN cache.staleTtl ELSE 0

(* An entry dates no later than its fetch began or, with a frozen age, is  *)
(* gone before it is older than its age and the slack.                     *)
EntryIsDated(e) ==
  /\ e.expiresAt \in Nat /\ e.fetchedAt \in Nat /\ e.age \in Nat /\ e.trueTime \in Nat
  /\ cache.age = "frozen" => e.expiresAt <= e.trueTime + e.age + cache.staleTtl
  /\ cache.age = "asked" => e.fetchedAt <= e.trueTime

CallerRecord ==
  [at : {"away", "waiting", "answered"}, asked : Nat, age : Nat, trueTime : Nat]

FetchRecord == [now : Nat, waiters : SUBSET Callers, current : BOOLEAN]

FetchesTyped == fetching \subseteq FetchRecord /\ \A r \in fetching : r.now <= clock

CacheInv ==
  /\ clock \in Nat /\ cache \in Caches
  /\ caller \in [Callers -> CallerRecord]
  /\ FetchesTyped
  /\ \A c \in Callers : caller[c].asked <= clock
  /\ EntryIsDated(entry)
  /\ AgesAreHonest

(* At the start nothing is cached and nobody waits.                        *)
LEMMA CacheInvInit == CacheInit => CacheInv
<1>. SUFFICES ASSUME CacheInit PROVE CacheInv OBVIOUS
<1>1. Away \in CallerRecord /\ Away.at = "away" /\ Away.asked = 0 BY DEF Away, CallerRecord
<1>2. caller \in [Callers -> CallerRecord] /\ \A c \in Callers : caller[c] = Away
  BY <1>1 DEF CacheInit
<1>3. EntryIsDated(entry)
  BY CachesAreOfTwoKinds DEF CacheInit, EntryIsDated, NoEntry
<1>. QED BY <1>1, <1>2, <1>3 DEF CacheInit, CacheInv, AgesAreHonest, FetchesTyped

(* What a caller is told of an entry that is well dated.                   *)
LEMMA AnswersAreHonest ==
  ASSUME CacheInv, NEW e, EntryIsDated(e), NEW since \in Nat,
         cache.age = "frozen" => since <= e.trueTime + e.age + cache.staleTtl
  PROVE  /\ Answered(since, e) \in CallerRecord
         /\ Answered(since, e).asked = since
         /\ Answered(since, e).asked
              <= Answered(since, e).trueTime + Answered(since, e).age + Slack
<1>1. cache.staleTtl \in Nat /\ (cache.age = "frozen" \/ cache.age = "asked")
  BY CachesAreOfTwoKinds DEF CacheInv
<1>2. ClaimedAge(e, since) \in Nat BY <1>1 DEF ClaimedAge, EntryIsDated
<1>3. since <= e.trueTime + ClaimedAge(e, since) + Slack
  BY <1>1 DEF ClaimedAge, EntryIsDated, Slack
<1>. QED BY <1>2, <1>3 DEF Answered, CallerRecord, EntryIsDated

(* Asking, a fetch that ends either way, and the clock keep it.            *)
LEMMA CacheInvNext == CacheInv /\ [CacheNext]_cacheVars => CacheInv'
<1>. SUFFICES ASSUME CacheInv, [CacheNext]_cacheVars PROVE CacheInv' OBVIOUS
<1>. USE DEF CacheInv
<1>1. /\ cache.ttl \in Nat /\ cache.staleTtl \in Nat /\ cache.ttl <= cache.staleTtl
      /\ \/ cache.age = "frozen" /\ cache.dated = "upstream"
         \/ cache.age = "asked" /\ cache.dated = "fetch"
      /\ cache.expiry \in {"completion", "request"}
  BY CachesAreOfTwoKinds
<1>2. CASE CacheTick
  <2>1. UNCHANGED <<cache, entry, fetching, caller>> /\ clock' = clock + 1 BY <1>2 DEF CacheTick
  <2>2. EntryIsDated(entry)' /\ AgesAreHonest' BY <2>1 DEF EntryIsDated, AgesAreHonest
  <2>3. clock' \in Nat /\ clock <= clock' BY <2>1
  <2>4. \A c \in Callers : caller[c].asked \in Nat BY DEF CallerRecord
  <2>. QED BY <2>1, <2>2, <2>3, <2>4 DEF FetchesTyped, FetchRecord
<1>3. ASSUME NEW c \in Callers, Get(c) PROVE CacheInv'
  <2>1. UNCHANGED <<clock, cache, entry>> BY <1>3 DEF Get
  <2>2. EntryIsDated(entry)' BY <2>1 DEF EntryIsDated
  <2>. DEFINE w == [at |-> "waiting", asked |-> clock, age |-> 0, trueTime |-> 0]
              a == IF IsFresh(entry, clock) THEN Answered(clock, entry)
                   ELSE IF failure > clock THEN Away ELSE w
  <2>3. /\ caller' = [caller EXCEPT ![c] = a]
        /\ a \in CallerRecord
        /\ a.asked <= clock
        /\ a.at = "answered" => a.asked <= a.trueTime + a.age + Slack
    <3>1. caller' = [caller EXCEPT ![c] = a] BY <1>3 DEF Get
    <3>2. CASE IsFresh(entry, clock)
      <4>1. cache.age = "frozen" => clock <= entry.trueTime + entry.age + cache.staleTtl
        BY <1>1, <3>2 DEF IsFresh, EntryIsDated
      <4>. QED BY <3>1, <3>2, <4>1, AnswersAreHonest
    <3>3. CASE ~IsFresh(entry, clock) /\ failure > clock
      <4>1. Away \in CallerRecord /\ Away.at = "away" /\ Away.asked = 0 BY DEF Away, CallerRecord
      <4>. QED BY <3>1, <3>3, <4>1
    <3>4. CASE ~IsFresh(entry, clock) /\ ~(failure > clock)
      <4>1. w \in CallerRecord /\ w.at = "waiting" /\ w.asked = clock BY DEF CallerRecord
      <4>. HIDE DEF w
      <4>. QED BY <3>1, <3>4, <4>1
    <3>. QED BY <3>2, <3>3, <3>4
  <2>. HIDE DEF a
  <2>4. /\ caller' \in [Callers -> CallerRecord]
        /\ \A d \in Callers : caller'[d] = IF d = c THEN a ELSE caller[d]
    BY <2>3
  <2>5. FetchesTyped'
    <3>. DEFINE grown == {[r EXCEPT !.waiters = @ \union {c}] : r \in Joinable}
                started == [now |-> clock, waiters |-> {c}, current |-> TRUE]
    <3>1. fetching' \in {fetching, (fetching \ Joinable) \union grown, fetching \union {started}}
      BY <1>3 DEF Get
    <3>2. grown \subseteq FetchRecord /\ \A r \in grown : r.now <= clock
      BY DEF Joinable, FetchesTyped, FetchRecord
    <3>3. started \in FetchRecord /\ started.now = clock BY DEF FetchRecord
    <3>. HIDE DEF grown, started
    <3>. QED BY <2>1, <3>1, <3>2, <3>3 DEF FetchesTyped
  <2>6. AgesAreHonest' BY <2>1, <2>3, <2>4 DEF AgesAreHonest, Slack
  <2>. QED BY <2>1, <2>2, <2>3, <2>4, <2>5, <2>6
<1>d. ASSUME NEW left \in SUBSET fetching, DropInFlight(left), clock' = clock
      PROVE  FetchesTyped'
  <2>1. \A r \in fetching' : \E f \in left : r = [f EXCEPT !.current = FALSE]
    BY <1>d DEF DropInFlight
  <2>2. \A f \in FetchRecord : /\ [f EXCEPT !.current = FALSE] \in FetchRecord
                               /\ [f EXCEPT !.current = FALSE].now = f.now
    BY DEF FetchRecord
  <2>3. \A r \in fetching' : r \in FetchRecord /\ r.now <= clock
    <3>. SUFFICES ASSUME NEW r \in fetching' PROVE r \in FetchRecord /\ r.now <= clock OBVIOUS
    <3>1. PICK f \in left : r = [f EXCEPT !.current = FALSE] BY <2>1
    <3>. QED BY <2>2, <3>1 DEF FetchesTyped
  <2>. QED BY <1>d, <2>3 DEF FetchesTyped
<1>4. ASSUME NEW request \in fetching, Fail(request) PROVE CacheInv'
  <2>1. UNCHANGED <<clock, cache>> /\ FetchesTyped'
    BY <1>4, <1>d DEF Fail
  <2>2. Away \in CallerRecord /\ Away.at = "away" /\ Away.asked = 0 BY DEF Away, CallerRecord
  <2>3. /\ caller' \in [Callers -> CallerRecord]
        /\ \A c \in Callers : caller'[c] = caller[c] \/ caller'[c] = Away
    BY <1>4, <2>2 DEF Fail
  <2>4. EntryIsDated(entry)'
    BY <1>1, <1>4, <2>1 DEF Fail, EntryIsDated, NoEntry
  <2>5. AgesAreHonest' BY <2>1, <2>2, <2>3 DEF AgesAreHonest
  <2>. QED BY <2>1, <2>2, <2>3, <2>4, <2>5
<1>5. ASSUME NEW request \in fetching, NEW publishTime \in 0 .. clock, NEW isLive \in BOOLEAN,
             Complete(request, publishTime, isLive)
      PROVE  CacheInv'
  <2>1. UNCHANGED <<clock, cache>> /\ FetchesTyped'
    BY <1>5, <1>d DEF Complete
  <2>2. /\ entry'.expiresAt \in Nat /\ entry'.expiresAt <= clock + cache.staleTtl
        /\ entry'.fetchedAt = request.now
        /\ entry'.age = clock - publishTime
        /\ entry'.trueTime = IF cache.dated = "upstream" THEN publishTime ELSE clock
    BY <1>1, <1>5 DEF Complete, FetchesTyped, FetchRecord
  <2>3. EntryIsDated(entry')
    BY <1>1, <2>2 DEF EntryIsDated, FetchesTyped, FetchRecord
  <2>4. \A c \in Callers : caller'[c] = IF c \in request.waiters
                                        THEN Answered(caller[c].asked, entry') ELSE caller[c]
    BY <1>5 DEF Complete
  <2>5. \A c \in Callers :
          LET a == Answered(caller[c].asked, entry')
          IN /\ a \in CallerRecord /\ a.asked = caller[c].asked
             /\ a.asked <= a.trueTime + a.age + Slack
    <3>. SUFFICES ASSUME NEW c \in Callers
                  PROVE  LET a == Answered(caller[c].asked, entry')
                         IN /\ a \in CallerRecord /\ a.asked = caller[c].asked
                            /\ a.asked <= a.trueTime + a.age + Slack
      OBVIOUS
    <3>1. caller[c].asked \in Nat /\ caller[c].asked <= clock BY DEF CallerRecord
    <3>2. cache.age = "frozen" => caller[c].asked <= entry'.trueTime + entry'.age + cache.staleTtl
      BY <1>1, <2>2, <3>1
    <3>. QED BY <2>3, <3>1, <3>2, AnswersAreHonest
  <2>6. caller' \in [Callers -> CallerRecord] BY <1>5, <2>4, <2>5 DEF Complete
  <2>7. AgesAreHonest' BY <2>1, <2>4, <2>5 DEF AgesAreHonest, Slack
  <2>8. \A c \in Callers : caller'[c].asked <= clock BY <2>4, <2>5
  <2>9. EntryIsDated(entry)' BY <2>1, <2>3 DEF EntryIsDated
  <2>. QED BY <2>1, <2>6, <2>7, <2>8, <2>9
<1>6. CASE Invalidate
  <2>1. UNCHANGED <<clock, cache, caller>> /\ entry' = NoEntry /\ FetchesTyped'
    BY <1>6, <1>d DEF Invalidate
  <2>2. EntryIsDated(entry)' BY <1>1, <2>1 DEF EntryIsDated, NoEntry
  <2>3. AgesAreHonest' BY <2>1 DEF AgesAreHonest
  <2>. QED BY <2>1, <2>2, <2>3
<1>7. CASE UNCHANGED cacheVars
  BY <1>7 DEF cacheVars, EntryIsDated, AgesAreHonest, FetchesTyped
<1>. QED BY <1>2, <1>3, <1>4, <1>5, <1>6, <1>7 DEF CacheNext

(* No cached price is staler than its age says: not at all when the age is *)
(* taken on asking, by no more than an entry's life when it was fixed at   *)
(* completion (the ttl caches of app/lib/*-market-data.ts, ttl-cache.ts).  *)
THEOREM AgesAreHonestHolds == CacheSpec => []AgesAreHonest
<1>1. CacheSpec => []CacheInv BY CacheInvInit, CacheInvNext, PTL DEF CacheSpec
<1>. QED BY <1>1, PTL DEF CacheInv

----------------------------------------------------------------------------
(* Issuing an executable quote.                                            *)

PastCheck == {"price", "list", "send", "build", "record"}

QuoteRequest ==
  [at : {"limit"} \union PastCheck, user : Users, maxPayout : Payouts, requestedAt : Nat,
   missing : SUBSET {"market", "binding"}, pool : [assets : Nat, locked : Nat]]

SeriesAccounts ==
  [market : {"absent", "open"}, binding : {"absent", "enabled", "disabled"},
   assets : Nat, locked : Nat]

\* Requests and accounts have their fields, and only so much was issued.
QuotesTyped ==
  /\ quoteTime \in Nat
  /\ quotedSeries \in SeriesAccounts
  /\ quoting \in [QuoteHandlers -> {NoRequest} \union QuoteRequest]
  /\ IsFiniteSet(issued)
  /\ \A q \in issued : q.createdAt \in Nat
  /\ IsFiniteSet(quoteRows)

\* A request came in by now, and not long ago if its caller's rows are still to be read.
RequestsAreTimely ==
  \A h \in QuoteHandlers :
    /\ quoting[h].at # "free" => quoting[h].requestedAt <= quoteTime
    /\ quoting[h].at = "limit" => quoteTime <= quoting[h].requestedAt + LIMIT_WAIT

\* An issued quote has its row, until it is too old for any request to count.
RowsAreKept ==
  \A q \in issued : q \in quoteRows \/ q.createdAt + QUOTE_TTL + ROW_RETENTION < quoteTime

\* The requests of one stretch of time that are past the check.
Passed(user, from, length) ==
  {h \in QuoteHandlers :
     /\ quoting[h].at \in PastCheck
     /\ quoting[h].user = user
     /\ quoting[h].requestedAt \in from..(from + length - 1)}

\* What has been issued, and what may still be.
WithinFrom(user, from, length, limit) ==
  Cardinality(QuotesDated(user, from, length)) + Cardinality(Passed(user, from, length))
    <= limit + Cardinality(QuoteHandlers) - 1

Within(length, limit) ==
  \A user \in Users, from \in Nat : WithinFrom(user, from, length, limit)

QuotesInv ==
  /\ QuotesTyped
  /\ RequestsAreTimely
  /\ RowsAreKept
  /\ Within(MINUTE, EXECUTABLE_QUOTES_PER_MINUTE_LIMIT)
  /\ Within(HOUR, EXECUTABLE_QUOTES_PER_HOUR_LIMIT)

(* At the start no quote is issued and no request is under way.            *)
LEMMA QuotesInvInit == QuoteInit => QuotesInv
<1>. SUFFICES ASSUME QuoteInit PROVE QuotesInv OBVIOUS
<1>. USE QuoteAssumption DEF QuoteInit
<1>1. NoRequest.at = "free" BY DEF NoRequest
<1>2. QuotesTyped BY FS_EmptySet DEF QuotesTyped, SeriesAccounts
<1>3. RequestsAreTimely /\ RowsAreKept BY <1>1 DEF RequestsAreTimely, RowsAreKept
<1>4. ASSUME NEW length \in Nat, NEW limit \in Nat PROVE Within(length, limit)
  <2>. SUFFICES ASSUME NEW user \in Users, NEW from \in Nat
                PROVE  WithinFrom(user, from, length, limit)
    BY DEF Within
  <2>1. QuotesDated(user, from, length) = {} BY DEF QuotesDated
  <2>2. Passed(user, from, length) = {} BY <1>1 DEF Passed, PastCheck
  <2>3. Cardinality({}) = 0 BY FS_EmptySet
  <2>4. Cardinality(QuoteHandlers) \in Nat /\ Cardinality(QuoteHandlers) # 0
    BY FS_CardinalityType, FS_EmptySet
  <2>5. /\ Cardinality(QuotesDated(user, from, length)) = 0
        /\ Cardinality(Passed(user, from, length)) = 0
    BY <2>1, <2>2, <2>3
  <2>. QED BY <2>4, <2>5 DEF WithinFrom
<1>. QED BY <1>2, <1>3, <1>4 DEF QuotesInv

(* Both counts are natural numbers, and requests past the check are        *)
(* handlers.                                                               *)
LEMMA CountsTyped ==
  ASSUME QuotesTyped, NEW user, NEW from, NEW length
  PROVE  /\ IsFiniteSet(QuotesDated(user, from, length)) /\ IsFiniteSet(Passed(user, from, length))
         /\ Cardinality(QuotesDated(user, from, length)) \in Nat
         /\ Cardinality(Passed(user, from, length)) \in Nat
         /\ Cardinality(Passed(user, from, length)) <= Cardinality(QuoteHandlers)
         /\ Cardinality(QuoteHandlers) \in Nat
<1>1. QuotesDated(user, from, length) \subseteq issued BY DEF QuotesDated
<1>2. Passed(user, from, length) \subseteq QuoteHandlers BY DEF Passed
<1>. QED BY <1>1, <1>2, QuoteAssumption, FS_Subset, FS_CardinalityType DEF QuotesTyped

(* A request that stops, or goes on past the check, adds to neither.       *)
LEMMA WithinKept ==
  ASSUME QuotesInv, issued' = issued, NEW length \in Nat, NEW limit \in Nat, Within(length, limit),
         \A h \in QuoteHandlers : quoting'[h].at \in PastCheck =>
           /\ quoting[h].at \in PastCheck
           /\ quoting'[h].user = quoting[h].user
           /\ quoting'[h].requestedAt = quoting[h].requestedAt
  PROVE  Within(length, limit)'
<1>. SUFFICES ASSUME NEW user \in Users, NEW from \in Nat
              PROVE  WithinFrom(user, from, length, limit)'
  BY DEF Within
<1>1. QuotesDated(user, from, length)' = QuotesDated(user, from, length) BY DEF QuotesDated
<1>2. Passed(user, from, length)' \subseteq Passed(user, from, length) BY DEF Passed
<1>3. /\ Cardinality(Passed(user, from, length)') <= Cardinality(Passed(user, from, length))
      /\ Cardinality(Passed(user, from, length)') \in Nat
  BY <1>2, CountsTyped, FS_Subset, FS_CardinalityType DEF QuotesInv
<1>4. Cardinality(QuotesDated(user, from, length)) + Cardinality(Passed(user, from, length))
        <= limit + Cardinality(QuoteHandlers) - 1
  BY DEF Within, WithinFrom
<1>. QED BY <1>1, <1>3, <1>4, CountsTyped DEF QuotesInv, WithinFrom

(* A request counts every quote dated as it is: whatever has been deleted  *)
(* of them was deleted long after the request had read its rows.           *)
LEMMA RecentAreCounted ==
  ASSUME QuotesInv, NEW h \in QuoteHandlers, quoting[h].at = "limit",
         NEW length \in Nat, length <= HOUR, NEW from \in Nat,
         quoting[h].requestedAt \in from..(from + length - 1)
  PROVE  QuotesDated(quoting[h].user, from, length)
           \subseteq {row \in recentRows(quoting[h].user, quoting[h].requestedAt) :
                        row.createdAt + length > quoting[h].requestedAt}
<1>. DEFINE since == quoting[h].requestedAt
<1>. SUFFICES ASSUME NEW q \in QuotesDated(quoting[h].user, from, length)
              PROVE  /\ q \in quoteRows /\ q.user = quoting[h].user
                     /\ q.createdAt + HOUR >= since /\ q.createdAt + length > since
  BY DEF recentRows
<1>. USE QuoteAssumption
<1>1. q \in issued /\ q.user = quoting[h].user /\ q.createdAt \in from..(from + length - 1)
  BY DEF QuotesDated
<1>2. q.createdAt \in Nat /\ since \in Nat /\ quoteTime \in Nat
  BY <1>1 DEF QuotesInv, QuotesTyped
<1>3. since <= quoteTime /\ quoteTime <= since + LIMIT_WAIT BY DEF QuotesInv, RequestsAreTimely
<1>4. q.createdAt + length > since BY <1>1, <1>2
<1>5. q \in quoteRows \/ q.createdAt + QUOTE_TTL + ROW_RETENTION < quoteTime
  BY <1>1 DEF QuotesInv, RowsAreKept
<1>6. q \in quoteRows BY <1>2, <1>3, <1>4, <1>5
<1>. QED BY <1>1, <1>2, <1>4, <1>6

(* Passing the check, one request joins those under way.                   *)
LEMMA WithinAdmitted ==
  ASSUME QuotesInv, NEW h \in QuoteHandlers, quoting[h].at = "limit", issued' = issued,
         quoting' = [quoting EXCEPT ![h].at = "price"],
         NEW length \in Nat, length <= HOUR, NEW limit \in Nat, Within(length, limit),
         Cardinality({row \in recentRows(quoting[h].user, quoting[h].requestedAt) :
                        row.createdAt + length > quoting[h].requestedAt}) < limit
  PROVE  Within(length, limit)'
<1>. SUFFICES ASSUME NEW user \in Users, NEW from \in Nat
              PROVE  WithinFrom(user, from, length, limit)'
  BY DEF Within
<1>. DEFINE since == quoting[h].requestedAt
            recent == {row \in recentRows(quoting[h].user, since) : row.createdAt + length > since}
<1>1. QuotesDated(user, from, length)' = QuotesDated(user, from, length) BY DEF QuotesDated
<1>2. Passed(user, from, length)' \subseteq QuoteHandlers BY DEF Passed
<1>3. /\ Cardinality(Passed(user, from, length)') <= Cardinality(QuoteHandlers)
      /\ Cardinality(Passed(user, from, length)') \in Nat /\ Cardinality(QuoteHandlers) \in Nat
  BY <1>2, QuoteAssumption, FS_Subset, FS_CardinalityType
<1>4. Cardinality(QuotesDated(user, from, length)) \in Nat BY CountsTyped DEF QuotesInv
<1>5. quoting[h] \in QuoteRequest /\ quoting[h].at # "free" BY DEF QuotesInv, QuotesTyped, NoRequest
<1>6. CASE user = quoting[h].user /\ since \in from..(from + length - 1)
  <2>1. QuotesDated(user, from, length) \subseteq recent BY <1>6, RecentAreCounted
  <2>2. IsFiniteSet(recent)
    <3>1. recent \subseteq quoteRows BY DEF recentRows
    <3>. QED BY <3>1, FS_Subset DEF QuotesInv, QuotesTyped
  <2>3. Cardinality(QuotesDated(user, from, length)) <= Cardinality(recent) /\ Cardinality(recent) \in Nat
    BY <2>1, <2>2, FS_Subset, FS_CardinalityType
  <2>4. Cardinality(recent) < limit OBVIOUS
  <2>. HIDE DEF recent
  <2>. QED BY <1>1, <1>3, <1>4, <2>3, <2>4 DEF WithinFrom
<1>7. CASE ~(user = quoting[h].user /\ since \in from..(from + length - 1))
  <2>1. /\ quoting'[h].user = quoting[h].user /\ quoting'[h].requestedAt = since
        /\ \A g \in QuoteHandlers \ {h} : quoting'[g] = quoting[g]
    BY <1>5 DEF QuotesInv, QuotesTyped, QuoteRequest
  <2>2. Passed(user, from, length)' \subseteq Passed(user, from, length)
    BY <1>7, <2>1 DEF Passed
  <2>3. /\ Cardinality(Passed(user, from, length)') <= Cardinality(Passed(user, from, length))
        /\ Cardinality(Passed(user, from, length)) \in Nat
    BY <2>2, CountsTyped, FS_Subset DEF QuotesInv
  <2>4. Cardinality(QuotesDated(user, from, length)) + Cardinality(Passed(user, from, length))
          <= limit + Cardinality(QuoteHandlers) - 1
    BY DEF Within, WithinFrom
  <2>. QED BY <1>1, <1>3, <1>4, <2>3, <2>4 DEF WithinFrom
<1>. QED BY <1>6, <1>7

(* A request that returns its quote leaves those under way.                *)
LEMMA WithinInserted ==
  ASSUME QuotesInv, NEW h \in QuoteHandlers, InsertRow(h),
         NEW length \in Nat, NEW limit \in Nat, Within(length, limit)
  PROVE  Within(length, limit)'
<1>. SUFFICES ASSUME NEW user \in Users, NEW from \in Nat
              PROVE  WithinFrom(user, from, length, limit)'
  BY DEF Within
<1>. DEFINE row == [id |-> Cardinality(issued) + 1, user |-> quoting[h].user,
                    createdAt |-> quoting[h].requestedAt]
            D == QuotesDated(user, from, length)
            P == Passed(user, from, length)
<1>1. /\ issued' = issued \union {row} /\ quoting[h].at = "record"
      /\ quoting' = [quoting EXCEPT ![h] = NoRequest]
  BY DEF InsertRow, Stop
<1>2. Cardinality(D) + Cardinality(P) <= limit + Cardinality(QuoteHandlers) - 1
  BY DEF Within, WithinFrom
<1>3. /\ IsFiniteSet(D) /\ IsFiniteSet(P) /\ Cardinality(QuoteHandlers) \in Nat
      /\ Cardinality(D) \in Nat /\ Cardinality(P) \in Nat
  BY CountsTyped DEF QuotesInv
<1>4. P' \subseteq P \ {h}
  <2>1. \A g \in QuoteHandlers : quoting'[g] = IF g = h THEN NoRequest ELSE quoting[g]
    BY <1>1 DEF QuotesInv, QuotesTyped
  <2>2. NoRequest.at \notin PastCheck BY DEF NoRequest, PastCheck
  <2>. QED BY <2>1, <2>2 DEF Passed
<1>5. CASE user = quoting[h].user /\ quoting[h].requestedAt \in from..(from + length - 1)
  <2>1. h \in P BY <1>1, <1>5 DEF Passed, PastCheck
  <2>2. D' \subseteq D \union {row} BY <1>1 DEF QuotesDated
  <2>. HIDE DEF row, D, P
  <2>3. /\ Cardinality(P \ {h}) = Cardinality(P) - 1 /\ IsFiniteSet(P \ {h})
    BY <1>3, <2>1, FS_RemoveElement
  <2>4. Cardinality(P') <= Cardinality(P) - 1 /\ Cardinality(P') \in Nat
    BY <1>4, <2>3, FS_Subset, FS_CardinalityType
  <2>5. /\ Cardinality(D \union {row}) <= Cardinality(D) + 1 /\ IsFiniteSet(D \union {row})
        /\ Cardinality(D \union {row}) \in Nat
    <3>1. IsFiniteSet(D \union {row}) BY <1>3, FS_AddElement
    <3>2. Cardinality(D \union {row}) \in Nat BY <3>1, FS_CardinalityType
    <3>3. row \in D => D \union {row} = D OBVIOUS
    <3>4. row \notin D => Cardinality(D \union {row}) = Cardinality(D) + 1 BY <1>3, FS_AddElement
    <3>. QED BY <1>3, <3>1, <3>2, <3>3, <3>4
  <2>6. Cardinality(D') <= Cardinality(D) + 1 /\ Cardinality(D') \in Nat
    BY <1>3, <2>2, <2>5, FS_Subset, FS_CardinalityType
  <2>7. Cardinality(D') + Cardinality(P') <= limit + Cardinality(QuoteHandlers) - 1
    BY <1>2, <1>3, <2>4, <2>6
  <2>. QED BY <2>7 DEF D, P, WithinFrom
<1>6. CASE ~(user = quoting[h].user /\ quoting[h].requestedAt \in from..(from + length - 1))
  <2>1. D' = D
    <3>1. row.user = quoting[h].user /\ row.createdAt = quoting[h].requestedAt OBVIOUS
    <3>. HIDE DEF row
    <3>. QED BY <1>1, <1>6, <3>1 DEF QuotesDated
  <2>2. Cardinality(P') <= Cardinality(P) /\ Cardinality(P') \in Nat
    BY <1>3, <1>4, FS_Subset, FS_CardinalityType
  <2>3. Cardinality(D') + Cardinality(P') <= limit + Cardinality(QuoteHandlers) - 1
    BY <1>2, <1>3, <2>1, <2>2
  <2>. QED BY <2>3 DEF WithinFrom
<1>. QED BY <1>5, <1>6

(* A handler's step that issues nothing and lets nobody past the check.    *)
LEMMA RequestsGoOn ==
  ASSUME QuotesInv, NEW h \in QuoteHandlers, UNCHANGED <<quoteTime, quoteRows, issued>>,
         quotedSeries' \in SeriesAccounts,
         NEW request \in {NoRequest} \union QuoteRequest,
         quoting' = [quoting EXCEPT ![h] = request],
         request.at = "limit" => request.requestedAt = quoteTime,
         request.at \in PastCheck =>
           /\ quoting[h].at \in PastCheck
           /\ request.user = quoting[h].user /\ request.requestedAt = quoting[h].requestedAt
  PROVE  QuotesInv'
<1>. USE QuoteAssumption
<1>1. QuotesTyped' BY DEF QuotesInv, QuotesTyped
<1>2. \A g \in QuoteHandlers : quoting'[g] = IF g = h THEN request ELSE quoting[g]
  BY DEF QuotesInv, QuotesTyped
<1>3. RequestsAreTimely'
  <2>1. request.at # "free" => request.at = "limit" \/ request.at \in PastCheck
    BY DEF NoRequest, QuoteRequest
  <2>2. "free" \notin PastCheck /\ "limit" \notin PastCheck BY DEF PastCheck
  <2>3. quoteTime \in Nat BY DEF QuotesInv, QuotesTyped
  <2>. QED BY <1>2, <2>1, <2>2, <2>3 DEF QuotesInv, RequestsAreTimely
<1>4. RowsAreKept' BY DEF QuotesInv, RowsAreKept
<1>5. \A g \in QuoteHandlers : quoting'[g].at \in PastCheck =>
        /\ quoting[g].at \in PastCheck
        /\ quoting'[g].user = quoting[g].user
        /\ quoting'[g].requestedAt = quoting[g].requestedAt
  BY <1>2
<1>6. Within(MINUTE, EXECUTABLE_QUOTES_PER_MINUTE_LIMIT)' BY <1>5, WithinKept DEF QuotesInv
<1>7. Within(HOUR, EXECUTABLE_QUOTES_PER_HOUR_LIMIT)' BY <1>5, WithinKept DEF QuotesInv
<1>. QED BY <1>1, <1>3, <1>4, <1>6, <1>7 DEF QuotesInv

\* A request that is under way has its fields.
LEMMA RequestUnderWay ==
  ASSUME QuotesInv, NEW h \in QuoteHandlers, quoting[h].at # "free"
  PROVE  quoting[h] \in QuoteRequest
BY DEF QuotesInv, QuotesTyped, NoRequest

(* A request that stops leaves its handler free.                           *)
LEMMA Stopping ==
  ASSUME QuotesInv, NEW h \in QuoteHandlers, Stop(h),
         UNCHANGED <<quoteTime, quoteRows, quotedSeries, issued>>
  PROVE  QuotesInv'
<1>1. NoRequest.at = "free" BY DEF NoRequest
<1>2. "free" \notin PastCheck BY DEF PastCheck
<1>. QED BY <1>1, <1>2, RequestsGoOn DEF Stop, QuotesInv, QuotesTyped

(* A request past the check goes on to a later step.                       *)
LEMMA GoingOn ==
  ASSUME QuotesInv, NEW h \in QuoteHandlers, quoting[h].at \in PastCheck,
         NEW step \in PastCheck, Goto(h, step),
         quotedSeries' \in SeriesAccounts,
         UNCHANGED <<quoteTime, quoteRows, issued>>
  PROVE  QuotesInv'
<1>. DEFINE request == [quoting[h] EXCEPT !.at = step]
<1>1. quoting[h] \in QuoteRequest BY RequestUnderWay DEF PastCheck
<1>2. /\ request \in QuoteRequest /\ request.at = step
      /\ request.user = quoting[h].user /\ request.requestedAt = quoting[h].requestedAt
  BY <1>1 DEF QuoteRequest
<1>3. quoting' = [quoting EXCEPT ![h] = request] BY DEF Goto
<1>4. "limit" \notin PastCheck BY DEF PastCheck
<1>. HIDE DEF request
<1>. QED BY <1>2, <1>3, <1>4, RequestsGoOn

(* The check lets a request on only below both limits.                     *)
LEMMA QuotesInvCheckLimit ==
  ASSUME QuotesInv, NEW h \in QuoteHandlers, CheckLimit(h)
  PROVE  QuotesInv'
<1>. DEFINE recent == recentRows(quoting[h].user, quoting[h].requestedAt)
            counted(length) == {row \in recent : row.createdAt + length > quoting[h].requestedAt}
            limited == checkExecutableQuoteRateLimit(recent, quoting[h].requestedAt).limited
<1>. USE QuoteAssumption
<1>1. quoting[h].at = "limit" /\ UNCHANGED <<quoteTime, quoteRows, quotedSeries, issued>>
  BY DEF CheckLimit
<1>2. CASE limited
  <2>1. Stop(h) BY <1>2 DEF CheckLimit
  <2>. QED BY <1>1, <2>1, Stopping
<1>3. CASE ~limited
  <2>1. quoting' = [quoting EXCEPT ![h].at = "price"] BY <1>3 DEF CheckLimit, Goto
  <2>2. /\ ~(Cardinality(counted(MINUTE)) >= EXECUTABLE_QUOTES_PER_MINUTE_LIMIT)
        /\ ~(Cardinality(counted(HOUR)) >= EXECUTABLE_QUOTES_PER_HOUR_LIMIT)
    BY <1>3 DEF checkExecutableQuoteRateLimit
  <2>3. \A length : Cardinality(counted(length)) \in Nat
    <3>. SUFFICES ASSUME NEW length PROVE Cardinality(counted(length)) \in Nat OBVIOUS
    <3>1. counted(length) \subseteq quoteRows BY DEF recentRows
    <3>2. IsFiniteSet(quoteRows) BY DEF QuotesInv, QuotesTyped
    <3>. QED BY <3>1, <3>2, FS_Subset, FS_CardinalityType
  <2>4. /\ Cardinality(counted(MINUTE)) < EXECUTABLE_QUOTES_PER_MINUTE_LIMIT
        /\ Cardinality(counted(HOUR)) < EXECUTABLE_QUOTES_PER_HOUR_LIMIT
    <3>1. Cardinality(counted(MINUTE)) \in Nat /\ Cardinality(counted(HOUR)) \in Nat BY <2>3
    <3>. HIDE DEF counted
    <3>. QED BY <2>2, <3>1
  <2>5. Within(MINUTE, EXECUTABLE_QUOTES_PER_MINUTE_LIMIT)'
    BY <1>1, <2>1, <2>4, WithinAdmitted DEF QuotesInv
  <2>6. Within(HOUR, EXECUTABLE_QUOTES_PER_HOUR_LIMIT)'
    <3>1. HOUR \in Nat /\ HOUR <= HOUR /\ EXECUTABLE_QUOTES_PER_HOUR_LIMIT \in Nat OBVIOUS
    <3>2. Within(HOUR, EXECUTABLE_QUOTES_PER_HOUR_LIMIT) BY DEF QuotesInv
    <3>. QED BY <1>1, <2>1, <2>4, <3>1, <3>2, WithinAdmitted
  <2>7. quoting[h] \in QuoteRequest BY <1>1, RequestUnderWay
  <2>8. [quoting[h] EXCEPT !.at = "price"] \in QuoteRequest BY <2>7 DEF QuoteRequest, PastCheck
  <2>9. QuotesTyped' BY <1>1, <2>1, <2>8 DEF QuotesInv, QuotesTyped
  <2>10. \A g \in QuoteHandlers :
           /\ quoting'[g].requestedAt = quoting[g].requestedAt
           /\ quoting'[g].at = IF g = h THEN "price" ELSE quoting[g].at
    BY <2>1, <2>7 DEF QuotesInv, QuotesTyped, QuoteRequest
  <2>11. RequestsAreTimely' BY <1>1, <2>10 DEF QuotesInv, RequestsAreTimely
  <2>12. RowsAreKept' BY <1>1 DEF QuotesInv, RowsAreKept
  <2>. QED BY <2>5, <2>6, <2>9, <2>11, <2>12 DEF QuotesInv
<1>. QED BY <1>2, <1>3

(* A row is inserted for the quote, and only old ones are deleted.         *)
LEMMA QuotesInvInsertRow ==
  ASSUME QuotesInv, NEW h \in QuoteHandlers, InsertRow(h)
  PROVE  QuotesInv'
<1>. DEFINE row == [id |-> Cardinality(issued) + 1, user |-> quoting[h].user,
                    createdAt |-> quoting[h].requestedAt]
<1>. USE QuoteAssumption
<1>1. /\ quoting[h].at = "record" /\ quoting' = [quoting EXCEPT ![h] = NoRequest]
      /\ issued' = issued \union {row} /\ quoteTime' = quoteTime /\ quotedSeries' = quotedSeries
      /\ quoteRows' = {r \in quoteRows : ~isOld(r, quoting[h].requestedAt)} \union {row}
  BY DEF InsertRow, Stop
<1>2. quoting[h] \in QuoteRequest /\ quoting[h].requestedAt \in Nat
  BY <1>1, RequestUnderWay DEF QuoteRequest
<1>3. QuotesTyped'
  <2>1. IsFiniteSet(issued') BY <1>1, FS_AddElement DEF QuotesInv, QuotesTyped
  <2>3. IsFiniteSet(quoteRows')
    <3>1. {r \in quoteRows : ~isOld(r, quoting[h].requestedAt)} \subseteq quoteRows OBVIOUS
    <3>2. IsFiniteSet({r \in quoteRows : ~isOld(r, quoting[h].requestedAt)})
      BY <3>1, FS_Subset DEF QuotesInv, QuotesTyped
    <3>. QED BY <1>1, <3>2, FS_AddElement
  <2>2. row.createdAt \in Nat BY <1>2
  <2>. HIDE DEF row
  <2>. QED BY <1>1, <2>1, <2>2, <2>3 DEF QuotesInv, QuotesTyped
<1>4. NoRequest.at = "free" BY DEF NoRequest
<1>5. RequestsAreTimely'
  <2>1. \A g \in QuoteHandlers : quoting'[g] = IF g = h THEN NoRequest ELSE quoting[g]
    BY <1>1 DEF QuotesInv, QuotesTyped
  <2>. QED BY <1>1, <1>4, <2>1 DEF QuotesInv, RequestsAreTimely
<1>6. RowsAreKept'
  <2>. SUFFICES ASSUME NEW q \in issued', q \notin quoteRows'
                PROVE  q.createdAt + QUOTE_TTL + ROW_RETENTION < quoteTime'
    BY DEF RowsAreKept
  <2>. HIDE DEF row
  <2>1. q \in issued /\ (q \in quoteRows => isOld(q, quoting[h].requestedAt)) BY <1>1
  <2>2. q.createdAt \in Nat /\ quoteTime \in Nat BY <2>1 DEF QuotesInv, QuotesTyped
  <2>3. quoting[h].requestedAt <= quoteTime
    BY <1>1, <1>2 DEF QuotesInv, RequestsAreTimely
  <2>4. CASE q \in quoteRows BY <1>1, <1>2, <2>1, <2>2, <2>3, <2>4 DEF isOld
  <2>5. CASE q \notin quoteRows BY <1>1, <2>1, <2>5 DEF QuotesInv, RowsAreKept
  <2>. QED BY <2>4, <2>5
<1>7. Within(MINUTE, EXECUTABLE_QUOTES_PER_MINUTE_LIMIT)' BY WithinInserted DEF QuotesInv
<1>8. Within(HOUR, EXECUTABLE_QUOTES_PER_HOUR_LIMIT)' BY WithinInserted DEF QuotesInv
<1>. QED BY <1>3, <1>5, <1>6, <1>7, <1>8 DEF QuotesInv

(* Time passes, but not before a request has read the rows.                *)
LEMMA QuotesInvTick ==
  ASSUME QuotesInv, QuoteTick
  PROVE  QuotesInv'
<1>. USE QuoteAssumption
<1>1. quoteTime' = quoteTime + 1 /\ UNCHANGED <<quoteRows, quoting, quotedSeries, issued>>
  BY DEF QuoteTick
<1>2. quoteTime \in Nat BY DEF QuotesInv, QuotesTyped
<1>3. QuotesTyped' BY <1>1, <1>2 DEF QuotesInv, QuotesTyped
<1>4. RequestsAreTimely'
  <2>. SUFFICES ASSUME NEW h \in QuoteHandlers, quoting[h].at # "free"
                PROVE  /\ quoting[h].requestedAt <= quoteTime + 1
                       /\ quoting[h].at = "limit" =>
                            quoteTime + 1 <= quoting[h].requestedAt + LIMIT_WAIT
    BY <1>1 DEF RequestsAreTimely
  <2>1. quoting[h].requestedAt \in Nat BY RequestUnderWay DEF QuoteRequest
  <2>2. quoting[h].requestedAt <= quoteTime BY DEF QuotesInv, RequestsAreTimely
  <2>3. quoting[h].at = "limit" => quoteTime < quoting[h].requestedAt + LIMIT_WAIT BY DEF QuoteTick
  <2>. QED BY <1>2, <2>1, <2>2, <2>3
<1>5. RowsAreKept' BY <1>1, <1>2 DEF QuotesInv, QuotesTyped, RowsAreKept
<1>6. \A g \in QuoteHandlers : quoting'[g] = quoting[g] BY <1>1
<1>7. Within(MINUTE, EXECUTABLE_QUOTES_PER_MINUTE_LIMIT)' BY <1>1, <1>6, WithinKept DEF QuotesInv
<1>8. Within(HOUR, EXECUTABLE_QUOTES_PER_HOUR_LIMIT)' BY <1>1, <1>6, WithinKept DEF QuotesInv
<1>. QED BY <1>3, <1>4, <1>5, <1>7, <1>8 DEF QuotesInv

\* A step of the chain is no business of the requests.
LEMMA QuotesInvChain ==
  ASSUME QuotesInv, UNCHANGED <<quoteTime, quoteRows, quoting, issued>>,
         quotedSeries' \in SeriesAccounts
  PROVE  QuotesInv'
<1>. USE QuoteAssumption
<1>1. QuotesTyped' /\ RequestsAreTimely' /\ RowsAreKept'
  BY DEF QuotesInv, QuotesTyped, RequestsAreTimely, RowsAreKept
<1>2. \A g \in QuoteHandlers : quoting'[g] = quoting[g] OBVIOUS
<1>3. Within(MINUTE, EXECUTABLE_QUOTES_PER_MINUTE_LIMIT)' BY <1>2, WithinKept DEF QuotesInv
<1>4. Within(HOUR, EXECUTABLE_QUOTES_PER_HOUR_LIMIT)' BY <1>2, WithinKept DEF QuotesInv
<1>. QED BY <1>1, <1>3, <1>4 DEF QuotesInv

(* Every step keeps the invariant.                                         *)
LEMMA QuotesInvNext == QuotesInv /\ [QuoteNext]_quoteVars => QuotesInv'
<1>. SUFFICES ASSUME QuotesInv, [QuoteNext]_quoteVars PROVE QuotesInv' OBVIOUS
<1>. USE QuoteAssumption
<1>1. /\ quoteTime \in Nat
      /\ quotedSeries \in SeriesAccounts
  BY DEF QuotesInv, QuotesTyped
<1>2. CASE QuoteTick BY <1>2, QuotesInvTick
<1>3. CASE PoolMoves
  <2>1. PICK locked \in 0..PoolSize :
          quotedSeries' = [quotedSeries EXCEPT !.locked = locked, !.assets = PoolSize - locked]
    BY <1>3 DEF PoolMoves
  <2>2. locked \in Nat /\ PoolSize - locked \in Nat OBVIOUS
  <2>3. UNCHANGED <<quoteTime, quoteRows, quoting, issued>> BY <1>3 DEF PoolMoves
  <2>. QED BY <1>1, <2>1, <2>2, <2>3, QuotesInvChain DEF SeriesAccounts
<1>4. CASE ListingMoves BY <1>1, <1>4, QuotesInvChain DEF ListingMoves, SeriesAccounts
<1>5. ASSUME NEW h \in QuoteHandlers, NEW user \in Users, NEW maxPayout \in Payouts,
             Request(h, user, maxPayout)
      PROVE  QuotesInv'
  <2>. DEFINE request ==
         [at |-> "limit", user |-> user, maxPayout |-> maxPayout, requestedAt |-> quoteTime,
          missing |-> {}, pool |-> [assets |-> 0, locked |-> 0]]
  <2>1. request \in QuoteRequest /\ request.at = "limit" /\ request.requestedAt = quoteTime
    BY <1>1 DEF QuoteRequest
  <2>2. /\ quoting' = [quoting EXCEPT ![h] = request]
        /\ UNCHANGED <<quoteTime, quoteRows, quotedSeries, issued>>
    BY <1>5 DEF Request
  <2>3. "limit" \notin PastCheck BY DEF PastCheck
  <2>. HIDE DEF request
  <2>. QED BY <1>1, <2>1, <2>2, <2>3, RequestsGoOn
<1>6. ASSUME NEW h \in QuoteHandlers, CheckLimit(h) PROVE QuotesInv' BY <1>6, QuotesInvCheckLimit
<1>7. ASSUME NEW h \in QuoteHandlers, PriceQuote(h) PROVE QuotesInv'
  <2>. DEFINE pool == [assets |-> quotedSeries.assets, locked |-> quotedSeries.locked]
              request == [quoting[h] EXCEPT !.at = "list", !.pool = pool]
  <2>1. /\ quoting[h].at = "price" /\ UNCHANGED <<quoteTime, quoteRows, quotedSeries, issued>>
        /\ Stop(h) \/ quoting' = [quoting EXCEPT ![h].at = "list", ![h].pool = pool]
    BY <1>7 DEF PriceQuote
  <2>2. CASE Stop(h) BY <2>1, <2>2, Stopping
  <2>3. CASE quoting' = [quoting EXCEPT ![h].at = "list", ![h].pool = pool]
    <3>1. quoting[h] \in QuoteRequest /\ quoting \in [QuoteHandlers -> {NoRequest} \union QuoteRequest]
      BY <2>1, RequestUnderWay DEF QuotesInv, QuotesTyped
    <3>2. pool \in [assets : Nat, locked : Nat] BY <1>1 DEF SeriesAccounts
    <3>. HIDE DEF pool
    <3>3. /\ request \in QuoteRequest /\ request.at = "list"
          /\ request.user = quoting[h].user /\ request.requestedAt = quoting[h].requestedAt
      BY <3>1, <3>2 DEF QuoteRequest, PastCheck
    <3>4. quoting' = [quoting EXCEPT ![h] = request] BY <2>3, <3>1
    <3>5. "price" \in PastCheck BY DEF PastCheck
    <3>. HIDE DEF request
    <3>. QED BY <1>1, <2>1, <3>3, <3>4, <3>5, RequestsGoOn
  <2>. QED BY <2>1, <2>2, <2>3
<1>8. ASSUME NEW h \in QuoteHandlers, ReadListing(h) PROVE QuotesInv'
  <2>. DEFINE missing == (IF quotedSeries.market = "absent" THEN {"market"} ELSE {})
                            \union (IF quotedSeries.binding = "absent" THEN {"binding"} ELSE {})
              step == IF missing = {} THEN "build" ELSE "send"
              request == [quoting[h] EXCEPT !.at = step, !.missing = missing]
  <2>1. /\ quoting[h].at = "list" /\ UNCHANGED <<quoteTime, quoteRows, quotedSeries, issued>>
        /\ quoting' = [quoting EXCEPT ![h].at = step, ![h].missing = missing]
    BY <1>8 DEF ReadListing
  <2>2. quoting[h] \in QuoteRequest /\ quoting \in [QuoteHandlers -> {NoRequest} \union QuoteRequest]
    BY <2>1, RequestUnderWay DEF QuotesInv, QuotesTyped
  <2>3. missing \in SUBSET {"market", "binding"} /\ step \in PastCheck BY DEF PastCheck
  <2>. HIDE DEF missing, step
  <2>4. /\ request \in QuoteRequest /\ request.at = step
        /\ request.user = quoting[h].user /\ request.requestedAt = quoting[h].requestedAt
    BY <2>2, <2>3 DEF QuoteRequest
  <2>5. quoting' = [quoting EXCEPT ![h] = request] BY <2>1, <2>2
  <2>6. "list" \in PastCheck /\ "limit" \notin PastCheck BY DEF PastCheck
  <2>. HIDE DEF request
  <2>7. request \in {NoRequest} \union QuoteRequest /\ request.at # "limit" /\ quoting[h].at \in PastCheck
    BY <2>1, <2>3, <2>4, <2>6
  <2>8. quotedSeries' \in SeriesAccounts
    BY <1>1, <2>1
  <2>. QED BY <2>1, <2>4, <2>5, <2>7, <2>8, RequestsGoOn
<1>9. ASSUME NEW h \in QuoteHandlers, ListingLands(h) PROVE QuotesInv'
  <2>1. /\ quoting[h].at \in PastCheck /\ "build" \in PastCheck
        /\ Goto(h, "build") /\ UNCHANGED <<quoteTime, quoteRows, issued>>
    BY <1>9 DEF ListingLands, PastCheck
  <2>2. quotedSeries' \in SeriesAccounts
    BY <1>1, <1>9 DEF ListingLands, SeriesAccounts
  <2>. QED BY <2>1, <2>2, GoingOn
<1>10. ASSUME NEW h \in QuoteHandlers, ListingFails(h) PROVE QuotesInv'
  <2>1. /\ quoting[h].at \in PastCheck /\ "build" \in PastCheck
        /\ Goto(h, "build") \/ Stop(h)
        /\ UNCHANGED <<quoteTime, quoteRows, quotedSeries, issued>>
    BY <1>10 DEF ListingFails, PastCheck
  <2>. QED BY <1>1, <2>1, GoingOn, Stopping
<1>11. ASSUME NEW h \in QuoteHandlers, buildVsolQuoteTransaction(h) PROVE QuotesInv'
  <2>1. /\ quoting[h].at \in PastCheck /\ "record" \in PastCheck
        /\ Goto(h, "record") \/ Stop(h)
        /\ UNCHANGED <<quoteTime, quoteRows, quotedSeries, issued>>
    BY <1>11 DEF buildVsolQuoteTransaction, PastCheck
  <2>. QED BY <1>1, <2>1, GoingOn, Stopping
<1>12. ASSUME NEW h \in QuoteHandlers, InsertRow(h) PROVE QuotesInv' BY <1>12, QuotesInvInsertRow
<1>13. ASSUME NEW h \in QuoteHandlers, QuoteFails(h) PROVE QuotesInv'
  BY <1>13, Stopping DEF QuoteFails
<1>14. CASE UNCHANGED quoteVars BY <1>1, <1>14, QuotesInvChain DEF quoteVars
<1>. QED BY <1>2, <1>3, <1>4, <1>5, <1>6, <1>7, <1>8, <1>9, <1>10, <1>11, <1>12, <1>13, <1>14 DEF QuoteNext

(* With nothing under way left out, the invariant bounds what was issued.  *)
LEMMA QuotesInvBounds == QuotesInv => ExecutableQuotesAreBounded
<1>. SUFFICES ASSUME QuotesInv, NEW user \in Users, NEW from \in 0..quoteTime
              PROVE  /\ Cardinality(QuotesDated(user, from, MINUTE))
                          <= EXECUTABLE_QUOTES_PER_MINUTE_LIMIT + (Cardinality(QuoteHandlers) - 1)
                     /\ Cardinality(QuotesDated(user, from, HOUR))
                          <= EXECUTABLE_QUOTES_PER_HOUR_LIMIT + (Cardinality(QuoteHandlers) - 1)
  BY DEF ExecutableQuotesAreBounded
<1>1. from \in Nat BY DEF QuotesInv, QuotesTyped
<1>2. ASSUME NEW length \in Nat, NEW limit \in Nat, Within(length, limit)
      PROVE  Cardinality(QuotesDated(user, from, length)) <= limit + (Cardinality(QuoteHandlers) - 1)
  <2>1. Cardinality(QuotesDated(user, from, length)) + Cardinality(Passed(user, from, length))
          <= limit + Cardinality(QuoteHandlers) - 1
    BY <1>1, <1>2 DEF Within, WithinFrom
  <2>2. /\ Cardinality(QuotesDated(user, from, length)) \in Nat
        /\ Cardinality(Passed(user, from, length)) \in Nat /\ Cardinality(QuoteHandlers) \in Nat
    BY CountsTyped DEF QuotesInv
  <2>. QED BY <2>1, <2>2
<1>. QED BY <1>2, QuoteAssumption DEF QuotesInv

(* In any minute and any hour a user is given no more executable quotes    *)
(* than the limit and one for each further request running beside          *)
(* (quotes/route.ts:144-183, :463-469), for any number of handlers and     *)
(* users and any interleaving.                                             *)
THEOREM ExecutableQuotesAreBoundedHolds == QuoteSpec => []ExecutableQuotesAreBounded
<1>1. QuoteSpec => []QuotesInv BY QuotesInvInit, QuotesInvNext, PTL DEF QuoteSpec
<1>. QED BY <1>1, QuotesInvBounds, PTL

----------------------------------------------------------------------------
(* Recording a fill.                                                       *)

Sending(s) == sender[s].at \in {"send", "confirm"}

(* A row of transaction_simulations describes its transaction.             *)
RowDescribes(t) ==
  /\ simulations[t].quote = QuoteOf(t)
  /\ simulations[t].wallet = BuyerOf[QuoteOf(t)]

Row ==
  [owner : Owners, quote : Quotes, wallet : {BuyerOf[q] : q \in Quotes},
   status : {"passed", "failed"}, submission : {"not_sent", "confirmed", "failed"},
   signed : BOOLEAN]
SenderState ==
  {Vacant} \union [at : {"simulate", "send", "confirm"}, tx : Transactions, owner : Owners]
RecorderState ==
  {Vacant} \union [at : {"record"}, tx : Transactions, owner : Owners, wallet : Owners]

(* The records are functions with the fields the handlers rely on.         *)
FillTyped ==
  /\ tx \in [Transactions -> {"unsent", "delivered", "ok", "err"}]
  /\ DOMAIN simulations \subseteq Transactions
  /\ \A t \in DOMAIN simulations :
       simulations[t] \in Row
  /\ sender \in [Senders -> SenderState]
  /\ recorder \in [Recorders -> RecorderState]
  /\ positions \subseteq [quote : Quotes, tx : Transactions, owner : Owners, wallet : Owners]

(* Past the simulation a transaction has one sender, and its row is not    *)
(* settled yet: no later failure can overwrite what a recorder has seen.   *)
SendersAreAlone ==
  /\ \A s \in Senders : Sending(s) =>
       /\ sender[s].tx \in DOMAIN simulations
       /\ simulations[sender[s].tx].submission = "not_sent"
  /\ \A s, r \in Senders : Sending(s) /\ Sending(r) /\ sender[s].tx = sender[r].tx => s = r

(* What a recorder found stays so until it records it.                     *)
RecordersAreRight ==
  \A r \in Recorders : recorder[r] # Vacant =>
    LET h == recorder[r]
    IN isConfirmed(h.tx, h.owner, h.wallet) /\ tx[h.tx] = "ok" /\ h.wallet = BuyerOf[QuoteOf(h.tx)]

FillInv ==
  /\ FillTyped
  /\ \A t \in DOMAIN simulations : RowDescribes(t)
  /\ SendersAreAlone
  /\ RecordersAreRight
  /\ \A p \in positions : p.quote = QuoteOf(p.tx)
  /\ RecordedPositionsAreFills

(* At the start nothing was sent and nothing is recorded.                  *)
LEMMA FillInvInit == FillInit => FillInv
<1>. SUFFICES ASSUME FillInit PROVE FillInv OBVIOUS
<1>1. DOMAIN simulations = {} /\ positions = {} BY DEF FillInit
<1>2. FillTyped BY <1>1 DEF FillInit, FillTyped, SenderState, RecorderState
<1>3. Vacant.at = "free" BY DEF Vacant
<1>4. SendersAreAlone BY <1>3 DEF FillInit, SendersAreAlone, Sending
<1>5. RecordersAreRight BY DEF FillInit, RecordersAreRight
<1>6. RecordedPositionsAreFills BY <1>1 DEF FillInit, RecordedPositionsAreFills
<1>. QED BY <1>1, <1>2, <1>4, <1>5, <1>6 DEF FillInv

(* What the steps of the chain and of the relay never undo.                *)
Kept ==
  /\ \A t \in Transactions : tx[t] = "ok" => tx'[t] = "ok"
  /\ \A t \in DOMAIN simulations : t \in DOMAIN simulations' /\ simulations'[t].quote = simulations[t].quote
  /\ \A t, owner, wallet : isConfirmed(t, owner, wallet) => isConfirmed(t, owner, wallet)'

(* They leave what is recorded, and what is about to be, in order.         *)
LEMMA KeptKeepsRecords ==
  ASSUME FillInv, Kept, UNCHANGED positions,
         DOMAIN consumed' \subseteq DOMAIN consumed,
         \A q \in DOMAIN consumed' : consumed'[q] = consumed[q],
         \A r \in Recorders : recorder'[r] = recorder[r] \/ recorder'[r] = Vacant
  PROVE  RecordersAreRight' /\ RecordedPositionsAreFills'
<1>. USE DEF FillInv
<1>1. \A r \in Recorders : recorder[r] # Vacant => recorder[r].tx \in Transactions
  BY DEF FillTyped, Row, SenderState, RecorderState
<1>2. RecordersAreRight' BY <1>1 DEF RecordersAreRight, Kept
<1>3. ASSUME NEW p \in positions
      PROVE  /\ tx'[p.tx] = "ok" /\ p.wallet = BuyerOf[p.quote]
             /\ p.quote \in DOMAIN consumed' => consumed'[p.quote]
             /\ p \in ListedPositions(p.owner)'
  <2>1. /\ tx[p.tx] = "ok" /\ p.wallet = BuyerOf[p.quote]
        /\ p.quote \in DOMAIN consumed => consumed[p.quote]
        /\ p \in ListedPositions(p.owner)
    BY DEF RecordedPositionsAreFills
  <2>2. p.tx \in Transactions BY DEF FillTyped
  <2>3. /\ p.tx \in DOMAIN simulations /\ simulations[p.tx].quote = p.quote
        /\ isConfirmed(p.tx, p.owner, p.wallet)
    BY <2>1 DEF ListedPositions
  <2>4. p \in ListedPositions(p.owner)' BY <2>3 DEF Kept, ListedPositions
  <2>. QED BY <2>1, <2>2, <2>4 DEF Kept
<1>4. \A q \in DOMAIN consumed' : consumed'[q] => isRecorded(q)'
  BY DEF RecordedPositionsAreFills, isRecorded
<1>. QED BY <1>2, <1>3, <1>4 DEF RecordedPositionsAreFills

(* Every step of a sender, a recorder and the chain keeps it.              *)
LEMMA FillInvNext == FillInv /\ [FillNext]_fillVars => FillInv'
<1>. SUFFICES ASSUME FillInv, [FillNext]_fillVars PROVE FillInv' OBVIOUS
<1>. USE DEF FillInv
<1>0. Vacant.at = "free" BY DEF Vacant
<1>1. ASSUME NEW t \in Transactions, Execute(t) PROVE FillInv'
  <2>1. UNCHANGED <<consumed, simulations, sender, recorder, positions>>
        /\ tx' \in [Transactions -> {"unsent", "delivered", "ok", "err"}]
        /\ \A u \in Transactions : tx[u] = "ok" => tx'[u] = "ok"
    BY <1>1 DEF Execute, FillTyped
  <2>2. Kept BY <2>1 DEF Kept, isConfirmed
  <2>3. RecordersAreRight' /\ RecordedPositionsAreFills' BY <2>1, <2>2, KeptKeepsRecords
  <2>. QED BY <2>1, <2>3 DEF FillTyped, SendersAreAlone, Sending, RowDescribes
<1>2. ASSUME NEW q \in Quotes, ClosePosition(q) PROVE FillInv'
  <2>1. UNCHANGED <<consumed, tx, simulations, sender, recorder, positions>>
    BY <1>2 DEF ClosePosition
  <2>2. Kept BY <2>1 DEF Kept, isConfirmed
  <2>3. RecordersAreRight' /\ RecordedPositionsAreFills' BY <2>1, <2>2, KeptKeepsRecords
  <2>. QED BY <2>1, <2>3 DEF FillTyped, SendersAreAlone, Sending, RowDescribes
<1>3. ASSUME NEW q \in Quotes, DeleteOldQuote(q) PROVE FillInv'
  <2>1. /\ UNCHANGED <<tx, simulations, sender, recorder, positions>>
        /\ consumed' = [r \in DOMAIN consumed \ {q} |-> consumed[r]]
    BY <1>3 DEF DeleteOldQuote
  <2>2. Kept BY <2>1 DEF Kept, isConfirmed
  <2>3. RecordersAreRight' /\ RecordedPositionsAreFills' BY <2>1, <2>2, KeptKeepsRecords
  <2>. QED BY <2>1, <2>3 DEF FillTyped, SendersAreAlone, Sending, RowDescribes
<1>4. ASSUME NEW s \in Senders, NEW t \in Transactions, NEW owner \in Owners, Receive(s, t, owner)
      PROVE  FillInv'
  <2>. DEFINE h == [at |-> "simulate", tx |-> t, owner |-> owner]
  <2>1. /\ UNCHANGED <<consumed, tx, simulations, recorder, positions>>
        /\ sender' = [sender EXCEPT ![s] = h]
    BY <1>4 DEF Receive
  <2>2. h \in [at : {"simulate", "send", "confirm"}, tx : Transactions, owner : Owners]
        /\ h.at = "simulate"
    OBVIOUS
  <2>. HIDE DEF h
  <2>3. Kept BY <2>1 DEF Kept, isConfirmed
  <2>4. RecordersAreRight' /\ RecordedPositionsAreFills' BY <2>1, <2>3, KeptKeepsRecords
  <2>5. FillTyped' BY <2>1, <2>2 DEF FillTyped, SenderState, RecorderState
  <2>6. SendersAreAlone' BY <2>1, <2>2 DEF SendersAreAlone, Sending, FillTyped
  <2>. QED BY <2>1, <2>4, <2>5, <2>6 DEF RowDescribes
<1>5. ASSUME NEW s \in Senders, Simulate(s) PROVE FillInv'
  <2>. DEFINE t == sender[s].tx
              row == [owner |-> sender[s].owner, quote |-> QuoteOf(t), wallet |-> BuyerOf[QuoteOf(t)],
                      status |-> IF ~isFilled(QuoteOf(t)) THEN "passed" ELSE "failed",
                      submission |-> "not_sent", signed |-> FALSE]
  <2>1. /\ sender[s].at = "simulate"
        /\ UNCHANGED <<consumed, tx, recorder, positions>>
    BY <1>5 DEF Simulate
  <2>2. t \in Transactions /\ sender[s].owner \in Owners
    BY <1>0, <2>1 DEF FillTyped, Row, SenderState, RecorderState
  <2>3. row \in Row
        /\ row.quote = QuoteOf(t) /\ row.wallet = BuyerOf[QuoteOf(t)]
        /\ row.submission = "not_sent"
    BY <2>2 DEF QuoteOf, Transactions, Row
  <2>4. CASE t \in DOMAIN simulations
    <3>1. UNCHANGED simulations /\ sender' = [sender EXCEPT ![s] = Vacant]
      BY <1>5, <2>4 DEF Simulate, FreeSender
    <3>2. Kept BY <2>1, <3>1 DEF Kept, isConfirmed
    <3>3. RecordersAreRight' /\ RecordedPositionsAreFills' BY <2>1, <3>2, KeptKeepsRecords
    <3>4. FillTyped' BY <2>1, <3>1 DEF FillTyped, Row, SenderState, RecorderState
    <3>5. SendersAreAlone' BY <1>0, <3>1 DEF SendersAreAlone, Sending, FillTyped
    <3>. QED BY <2>1, <3>1, <3>3, <3>4, <3>5 DEF RowDescribes
  <2>5. CASE t \notin DOMAIN simulations
    <3>1. /\ simulations' = [u \in DOMAIN simulations \union {t} |->
                               IF u = t THEN row ELSE simulations[u]]
          /\ \/ sender' = [sender EXCEPT ![s].at = "send"]
             \/ sender' = [sender EXCEPT ![s] = Vacant]
      BY <1>5, <2>5 DEF Simulate, FreeSender, SetSender
    <3>. HIDE DEF row
    <3>2. /\ DOMAIN simulations' = DOMAIN simulations \union {t}
          /\ simulations'[t] = row
          /\ \A u \in DOMAIN simulations : simulations'[u] = simulations[u]
      BY <2>5, <3>1
    <3>3. Kept BY <2>1, <3>2 DEF Kept, isConfirmed
    <3>4. RecordersAreRight' /\ RecordedPositionsAreFills' BY <2>1, <3>3, KeptKeepsRecords
    <3>5. /\ sender'[s] \in SenderState
          /\ (sender'[s].at \in {"send", "confirm"} => sender'[s].tx = t)
          /\ \A r \in Senders : r # s => sender'[r] = sender[r]
          /\ sender' \in [Senders -> SenderState]
      BY <1>0, <2>1, <2>2, <3>1 DEF FillTyped, Row, SenderState, RecorderState
    <3>6. FillTyped'
      <4>1. \A u \in DOMAIN simulations' :
              simulations'[u] \in Row
        BY <2>3, <3>2 DEF FillTyped
      <4>2. DOMAIN simulations' \subseteq Transactions BY <2>2, <3>2 DEF FillTyped
      <4>3. UNCHANGED <<tx, recorder, positions>> BY <2>1
      <4>4. sender' \in [Senders -> SenderState] BY <3>5
      <4>5. /\ tx' \in [Transactions -> {"unsent", "delivered", "ok", "err"}]
            /\ recorder' \in [Recorders -> RecorderState]
            /\ positions' \subseteq [quote : Quotes, tx : Transactions, owner : Owners, wallet : Owners]
        BY <4>3 DEF FillTyped
      <4>. QED BY <4>1, <4>2, <4>4, <4>5 DEF FillTyped
    <3>7. SendersAreAlone'
      BY <2>3, <2>5, <3>2, <3>5 DEF SendersAreAlone, Sending
    <3>8. \A u \in DOMAIN simulations' : RowDescribes(u)'
      BY <2>3, <3>2 DEF RowDescribes
    <3>. QED BY <2>1, <3>4, <3>6, <3>7, <3>8
  <2>. QED BY <2>4, <2>5
<1>6. ASSUME NEW s \in Senders, Send(s) PROVE FillInv'
  <2>. DEFINE t == sender[s].tx
  <2>1. /\ sender[s].at = "send" /\ sender' = [sender EXCEPT ![s].at = "confirm"]
        /\ tx' = [tx EXCEPT ![t] = IF @ = "unsent" THEN "delivered" ELSE @]
        /\ UNCHANGED <<consumed, simulations, recorder, positions>>
    BY <1>6 DEF Send, SetSender
  <2>2. sender[s] \in [at : {"simulate", "send", "confirm"}, tx : Transactions, owner : Owners]
    BY <1>0, <2>1 DEF FillTyped, SenderState, RecorderState
  <2>3. /\ sender' \in [Senders -> SenderState]
        /\ sender'[s].tx = t /\ \A r \in Senders : r # s => sender'[r] = sender[r]
    BY <2>1, <2>2 DEF FillTyped, Row, SenderState, RecorderState
  <2>4. /\ tx' \in [Transactions -> {"unsent", "delivered", "ok", "err"}]
        /\ \A u \in Transactions : tx[u] = "ok" => tx'[u] = "ok"
    BY <2>1, <2>2 DEF FillTyped
  <2>5. Kept BY <2>1, <2>4 DEF Kept, isConfirmed
  <2>6. RecordersAreRight' /\ RecordedPositionsAreFills' BY <2>1, <2>5, KeptKeepsRecords
  <2>7. SendersAreAlone' BY <2>1, <2>3 DEF SendersAreAlone, Sending
  <2>. QED BY <2>1, <2>3, <2>4, <2>6, <2>7 DEF FillTyped, RowDescribes
<1>7. ASSUME NEW s \in Senders, Confirm(s) PROVE FillInv'
  <2>. DEFINE t == sender[s].tx
  <2>1. /\ sender[s].at = "confirm" /\ sender' = [sender EXCEPT ![s] = Vacant]
        /\ simulations' = [simulations EXCEPT ![t].submission = "confirmed", ![t].signed = TRUE]
        /\ UNCHANGED <<consumed, tx, recorder, positions>>
    BY <1>7 DEF Confirm, FreeSender
  <2>2. /\ t \in DOMAIN simulations /\ simulations[t].submission = "not_sent"
        /\ \A r \in Senders : r # s /\ Sending(r) => sender[r].tx # t
    BY <2>1 DEF SendersAreAlone, Sending
  <2>3. /\ DOMAIN simulations' = DOMAIN simulations
        /\ \A u \in DOMAIN simulations : u # t => simulations'[u] = simulations[u]
        /\ simulations'[t].quote = simulations[t].quote
        /\ simulations'[t].wallet = simulations[t].wallet
        /\ simulations'[t] \in Row
    BY <2>1, <2>2 DEF FillTyped, Row, SenderState
  <2>4. Kept BY <2>1, <2>2, <2>3 DEF Kept, isConfirmed
  <2>5. RecordersAreRight' /\ RecordedPositionsAreFills' BY <2>1, <2>4, KeptKeepsRecords
  <2>6. /\ sender' \in [Senders -> SenderState]
        /\ sender'[s] = Vacant /\ \A r \in Senders : r # s => sender'[r] = sender[r]
    BY <2>1 DEF FillTyped, Row, SenderState, RecorderState
  <2>7. FillTyped'
    <3>1. \A u \in DOMAIN simulations' :
              simulations'[u] \in Row
      BY <2>3 DEF FillTyped
    <3>. QED BY <2>1, <2>3, <2>6, <3>1 DEF FillTyped
  <2>8. SendersAreAlone' BY <1>0, <2>2, <2>3, <2>6 DEF SendersAreAlone, Sending
  <2>9. \A u \in DOMAIN simulations' : RowDescribes(u)' BY <2>3 DEF RowDescribes
  <2>. QED BY <2>1, <2>5, <2>7, <2>8, <2>9
<1>8. ASSUME NEW s \in Senders, SendFails(s) PROVE FillInv'
  <2>. DEFINE t == sender[s].tx
  <2>1. /\ sender[s].at \in {"send", "confirm"} /\ sender' = [sender EXCEPT ![s] = Vacant]
        /\ simulations' = [simulations EXCEPT ![t].submission = "failed"]
        /\ UNCHANGED <<consumed, tx, recorder, positions>>
    BY <1>8 DEF SendFails, FreeSender
  <2>2. /\ t \in DOMAIN simulations /\ simulations[t].submission = "not_sent"
        /\ \A r \in Senders : r # s /\ Sending(r) => sender[r].tx # t
    BY <2>1 DEF SendersAreAlone, Sending
  <2>3. /\ DOMAIN simulations' = DOMAIN simulations
        /\ \A u \in DOMAIN simulations : u # t => simulations'[u] = simulations[u]
        /\ simulations'[t].quote = simulations[t].quote
        /\ simulations'[t].wallet = simulations[t].wallet
        /\ simulations'[t] \in Row
    BY <2>1, <2>2 DEF FillTyped, Row, SenderState
  <2>4. Kept BY <2>1, <2>2, <2>3 DEF Kept, isConfirmed
  <2>5. RecordersAreRight' /\ RecordedPositionsAreFills' BY <2>1, <2>4, KeptKeepsRecords
  <2>6. /\ sender' \in [Senders -> SenderState]
        /\ sender'[s] = Vacant /\ \A r \in Senders : r # s => sender'[r] = sender[r]
    BY <2>1 DEF FillTyped, Row, SenderState, RecorderState
  <2>7. FillTyped'
    <3>1. \A u \in DOMAIN simulations' :
              simulations'[u] \in Row
      BY <2>3 DEF FillTyped
    <3>. QED BY <2>1, <2>3, <2>6, <3>1 DEF FillTyped
  <2>8. SendersAreAlone' BY <1>0, <2>2, <2>3, <2>6 DEF SendersAreAlone, Sending
  <2>9. \A u \in DOMAIN simulations' : RowDescribes(u)' BY <2>3 DEF RowDescribes
  <2>. QED BY <2>1, <2>5, <2>7, <2>8, <2>9
<1>9. ASSUME NEW r \in Recorders, NEW t \in Transactions, NEW owner \in Owners, NEW wallet \in Owners,
             Check(r, t, owner, wallet)
      PROVE  FillInv'
  <2>. DEFINE h == [at |-> "record", tx |-> t, owner |-> owner, wallet |-> wallet]
  <2>1. /\ UNCHANGED <<consumed, tx, simulations, sender, positions>>
        /\ isConfirmed(t, owner, wallet)
        /\ tx[t] = "ok" /\ wallet = BuyerOf[QuoteOf(t)]
        /\ recorder' = [recorder EXCEPT ![r] = h]
    BY <1>9 DEF Check, verifyVsolFill
  <2>2. /\ h \in [at : {"record"}, tx : Transactions, owner : Owners, wallet : Owners]
        /\ h.tx = t /\ h.owner = owner /\ h.wallet = wallet
    OBVIOUS
  <2>. HIDE DEF h
  <2>3. FillTyped' BY <2>1, <2>2 DEF FillTyped, SenderState, RecorderState
  <2>4. RecordersAreRight'
    BY <2>1, <2>2 DEF RecordersAreRight, FillTyped, isConfirmed
  <2>5. RecordedPositionsAreFills'
    BY <2>1 DEF RecordedPositionsAreFills, ListedPositions, isConfirmed, isRecorded
  <2>. QED BY <2>1, <2>3, <2>4, <2>5 DEF SendersAreAlone, Sending, RowDescribes
<1>10. ASSUME NEW r \in Recorders, Record(r) PROVE FillInv'
  <2>. DEFINE h == recorder[r]
              q == QuoteOf(h.tx)
              new == [quote |-> q, tx |-> h.tx, owner |-> h.owner, wallet |-> h.wallet]
  <2>1. /\ h.at = "record" /\ recorder' = [recorder EXCEPT ![r] = Vacant]
        /\ UNCHANGED <<tx, simulations, sender>>
    BY <1>10 DEF Record
  <2>2. /\ h \in [at : {"record"}, tx : Transactions, owner : Owners, wallet : Owners]
        /\ h # Vacant
    BY <1>0, <2>1 DEF FillTyped, SenderState, RecorderState
  <2>3. recorder' \in [Recorders -> RecorderState]
        /\ \A g \in Recorders : recorder'[g] = recorder[g] \/ recorder'[g] = Vacant
    BY <2>1 DEF FillTyped, Row, SenderState, RecorderState
  <2>4. RecordersAreRight' BY <2>1, <2>3 DEF RecordersAreRight, isConfirmed
  <2>5. CASE isRecorded(q)
    <3>1. UNCHANGED <<positions, consumed>> BY <1>10, <2>5 DEF Record
    <3>2. RecordedPositionsAreFills'
      BY <2>1, <3>1 DEF RecordedPositionsAreFills, ListedPositions, isConfirmed, isRecorded
    <3>. QED BY <2>1, <2>3, <2>4, <3>1, <3>2 DEF FillTyped, SendersAreAlone, Sending, RowDescribes
  <2>6. CASE ~isRecorded(q)
    <3>1. /\ positions' = positions \union {new}
          /\ consumed' = [p \in DOMAIN consumed |-> consumed[p] \/ p = q]
      BY <1>10, <2>6 DEF Record
    <3>2. /\ isConfirmed(h.tx, h.owner, h.wallet) /\ tx[h.tx] = "ok" /\ h.wallet = BuyerOf[q]
          /\ h.tx \in DOMAIN simulations /\ simulations[h.tx].quote = q
      BY <2>2 DEF RecordersAreRight, isConfirmed, RowDescribes
    <3>3. /\ new \in [quote : Quotes, tx : Transactions, owner : Owners, wallet : Owners]
          /\ new.quote = q /\ new.tx = h.tx /\ new.owner = h.owner /\ new.wallet = h.wallet
      BY <2>2 DEF QuoteOf, Transactions
    <3>. HIDE DEF new
    <3>4. ASSUME NEW p \in positions'
          PROVE  /\ tx'[p.tx] = "ok" /\ p.wallet = BuyerOf[p.quote]
                 /\ p.quote \in DOMAIN consumed' => consumed'[p.quote]
                 /\ p \in ListedPositions(p.owner)'
      <4>1. CASE p \in positions
        <5>1. /\ tx[p.tx] = "ok" /\ p.wallet = BuyerOf[p.quote]
              /\ p.quote \in DOMAIN consumed => consumed[p.quote]
              /\ p \in ListedPositions(p.owner)
          BY <4>1 DEF RecordedPositionsAreFills
        <5>. QED BY <2>1, <3>1, <5>1 DEF ListedPositions, isConfirmed
      <4>2. CASE p = new
        BY <2>1, <3>1, <3>2, <3>3, <4>2 DEF ListedPositions, isConfirmed
      <4>. QED BY <3>1, <4>1, <4>2
    <3>5. \A p, o \in positions' : p.quote = o.quote => p = o
      BY <2>6, <3>1, <3>3 DEF RecordedPositionsAreFills, isRecorded
    <3>6. \A o \in DOMAIN consumed' : consumed'[o] => isRecorded(o)'
      BY <3>1, <3>3 DEF RecordedPositionsAreFills, isRecorded
    <3>7. RecordedPositionsAreFills' BY <3>4, <3>5, <3>6 DEF RecordedPositionsAreFills
    <3>8. \A p \in positions' : p.quote = QuoteOf(p.tx) BY <3>1, <3>3
    <3>. QED BY <2>1, <2>3, <2>4, <3>1, <3>3, <3>7, <3>8
          DEF FillTyped, SendersAreAlone, Sending, RowDescribes
  <2>. QED BY <2>5, <2>6
<1>11. CASE Crash
  <2>1. /\ UNCHANGED <<consumed, tx, simulations, positions>>
        /\ \A s \in Senders : sender'[s] = sender[s] \/ sender'[s] = Vacant
        /\ \A r \in Recorders : recorder'[r] = recorder[r] \/ recorder'[r] = Vacant
        /\ sender' \in [Senders -> SenderState]
        /\ recorder' \in [Recorders -> RecorderState]
    BY <1>11 DEF Crash, FreeSender, FillTyped, Row, SenderState, RecorderState
  <2>2. Kept BY <2>1 DEF Kept, isConfirmed
  <2>3. RecordersAreRight' /\ RecordedPositionsAreFills' BY <2>1, <2>2, KeptKeepsRecords
  <2>4. FillTyped' BY <2>1 DEF FillTyped
  <2>5. SendersAreAlone' BY <1>0, <2>1 DEF SendersAreAlone, Sending
  <2>. QED BY <2>1, <2>3, <2>4, <2>5 DEF RowDescribes
<1>12. CASE UNCHANGED fillVars
  <2>1. UNCHANGED <<consumed, tx, simulations, sender, recorder, positions>>
    BY <1>12 DEF fillVars
  <2>2. Kept BY <2>1 DEF Kept, isConfirmed
  <2>3. RecordersAreRight' /\ RecordedPositionsAreFills' BY <2>1, <2>2, KeptKeepsRecords
  <2>. QED BY <2>1, <2>3 DEF FillTyped, SendersAreAlone, Sending, RowDescribes
<1>. QED
  BY <1>1, <1>2, <1>3, <1>4, <1>5, <1>6, <1>7, <1>8, <1>9, <1>10, <1>11, <1>12 DEF FillNext

(* A position is recorded only for a fill that happened, with the wallet   *)
(* that bought it (positions/route.ts:45-138, vsol/send/route.ts:58-117),  *)
(* for any number of senders, recorders and copies of a transaction.       *)
THEOREM RecordedPositionsAreFillsHolds == FillSpec => []RecordedPositionsAreFills
<1>1. FillSpec => []FillInv BY FillInvInit, FillInvNext, PTL DEF FillSpec
<1>. QED BY <1>1, PTL DEF FillInv

----------------------------------------------------------------------------
(* The prepared actions.                                                   *)

Kinds == LaunchKinds \union LiquidityKinds \union {"close"}

(* The rows, the accounts and the handlers have their fields, and a        *)
(* handler past its checks carries the message that was prepared.          *)
RowsTyped ==
  \A a \in DOMAIN rows : LET r == rows[a] IN
    /\ a \in Actions
    /\ r = [kind |-> r.kind, minimum |-> r.minimum, deadline |-> r.deadline,
            lastTradeAt |-> r.lastTradeAt, submission |-> r.submission, pre |-> r.pre,
            post |-> r.post]
    /\ r.kind \in Kinds
    /\ r.kind = "close" => r.minimum = Buyback

WorldTyped ==
  world = [wallet |-> world.wallet, shares |-> world.shares, othersShares |-> world.othersShares,
           pool |-> world.pool, position |-> world.position, market |-> world.market,
           pools |-> world.pools, binding |-> world.binding, others |-> world.others]

SendersChecked ==
  \A h \in DOMAIN senders :
    /\ h = [at |-> h.at, action |-> h.action, form |-> h.form]
    /\ h.action \in DOMAIN rows /\ h.form \in Forms
    /\ h.at # "check" => h.form = "prepared"

ActionInv ==
  /\ landed = [t \in Actions \X Forms |-> landed[t]]
  /\ \A a \in Actions, form \in Forms : landed[<<a, form>>] # "unsent" => a \in DOMAIN rows
  /\ RowsTyped /\ WorldTyped /\ SendersChecked
  /\ ConfirmedActionsHappened

(* At the start no action is prepared and no handler runs.                 *)
LEMMA ActionInvInit == ActionInit => ActionInv
<1>. SUFFICES ASSUME ActionInit PROVE ActionInv OBVIOUS
<1>. USE DEF ActionInit
<1>1. DOMAIN rows = {} /\ DOMAIN senders = {}
  BY DEF EmptyBag, SetToBag
<1>2. RowsTyped /\ SendersChecked BY <1>1 DEF RowsTyped, SendersChecked
<1>3. WorldTyped BY DEF WorldTyped
<1>4. ConfirmedActionsHappened BY <1>1 DEF ConfirmedActionsHappened
<1>. QED BY <1>2, <1>3, <1>4 DEF ActionInv

(* What others, and the transactions that land, never undo.                *)
Undone ==
  \/ world.market \in {"ours", "disabled"} /\ world'.market \notin {"ours", "disabled"}
  \/ ~(world.pools \subseteq world'.pools)
  \/ world.binding # NoBinding /\ world'.binding = NoBinding
  \/ \E t \in Actions \X Forms : landed[t] = "ok" /\ landed'[t] # "ok"

(* A bag of handlers loses one and gains another.                          *)
LEMMA HandlersAfter ==
  ASSUME NEW h
  PROVE  /\ \A x : Becomes(h, x) => DOMAIN senders' \subseteq DOMAIN senders \union {x}
         /\ Ends(h) => DOMAIN senders' \subseteq DOMAIN senders
BY DEF Becomes, Ends, SetToBag, (+), (-)

(* A row whose action happened stays so.                                   *)
Happened(a) ==
  LET change(what) == rows[a].post[what] - rows[a].pre[what]
  IN /\ landed[<<a, "prepared">>] = "ok"
     /\ CASE rows[a].kind = "close" -> change("wallet") = Buyback
          [] rows[a].kind = "create_market" -> world.market \in {"ours", "disabled"}
          [] rows[a].kind = "create_pool" -> a \in world.pools
          [] rows[a].kind = "authorize_market" -> world.binding # NoBinding
          [] rows[a].kind = "deposit" ->
               /\ change("wallet") = -Amount /\ change("pool") = Amount
               /\ change("shares") >= rows[a].minimum
          [] rows[a].kind = "withdraw" ->
               /\ change("shares") = -Amount
               /\ change("wallet") = -change("pool") /\ change("wallet") >= rows[a].minimum

(* What happened to an action stays so while nothing of it is undone.      *)
LEMMA HappenedStays ==
  ASSUME ActionInv, ~Undone, NEW a \in DOMAIN rows, Happened(a),
         rows'[a].kind = rows[a].kind, rows'[a].minimum = rows[a].minimum,
         rows'[a].pre = rows[a].pre, rows'[a].post = rows[a].post
  PROVE  Happened(a)'
<1>1. a \in Actions /\ rows[a].kind \in Kinds BY DEF ActionInv, RowsTyped
<1>2. <<a, "prepared">> \in Actions \X Forms BY <1>1 DEF Forms
<1>3. landed'[<<a, "prepared">>] = "ok" BY <1>2 DEF Happened, Undone
<1>. QED BY <1>1, <1>3 DEF Happened, Undone, Kinds, LaunchKinds, LiquidityKinds

(* A step that makes no row confirmed and undoes nothing keeps what        *)
(* confirmed rows say.                                                     *)
LEMMA ConfirmedMeansHappened ==
  ConfirmedActionsHappened <=>
    /\ \A a \in Actions, form \in Forms : form # "prepared" => landed[<<a, form>>] = "unsent"
    /\ \A a \in DOMAIN rows : rows[a].submission = "confirmed" => Happened(a)
BY Zenon DEF ConfirmedActionsHappened, Happened

(* A step that confirms nothing, sends nothing that was not prepared and   *)
(* undoes nothing keeps what is confirmed true.                            *)
LEMMA NothingConfirmed ==
  ASSUME ActionInv, ~Undone,
         \A a \in Actions, form \in Forms : form # "prepared" => landed'[<<a, form>>] = "unsent",
         \A a \in DOMAIN rows' : rows'[a].submission = "confirmed" =>
           /\ a \in DOMAIN rows /\ rows[a].submission = "confirmed"
           /\ rows'[a].kind = rows[a].kind /\ rows'[a].minimum = rows[a].minimum
           /\ rows'[a].pre = rows[a].pre /\ rows'[a].post = rows[a].post
  PROVE  ConfirmedActionsHappened'
<1>1. \A a \in DOMAIN rows' : rows'[a].submission = "confirmed" => Happened(a)'
  BY HappenedStays, ConfirmedMeansHappened DEF ActionInv
<1>2. ConfirmedActionsHappened' <=>
        /\ \A a \in Actions, form \in Forms : form # "prepared" => landed'[<<a, form>>] = "unsent"
        /\ \A a \in DOMAIN rows' : rows'[a].submission = "confirmed" => Happened(a)'
  BY Zenon DEF ConfirmedActionsHappened, Happened
<1>. QED BY <1>1, <1>2

(* An update of the submission leaves a row what it was otherwise.         *)
LEMMA Resubmitted ==
  ASSUME RowsTyped, NEW a \in DOMAIN rows, NEW status,
         rows' = [rows EXCEPT ![a].submission = status]
  PROVE  /\ DOMAIN rows' = DOMAIN rows
         /\ RowsTyped'
         /\ rows'[a].submission = status
         /\ \A b \in DOMAIN rows :
              /\ rows'[b].kind = rows[b].kind /\ rows'[b].minimum = rows[b].minimum
              /\ rows'[b].pre = rows[b].pre /\ rows'[b].post = rows[b].post
              /\ b # a => rows'[b].submission = rows[b].submission
<1>1. DOMAIN rows' = DOMAIN rows /\ rows'[a] = [rows[a] EXCEPT !.submission = status]
      /\ \A b \in DOMAIN rows : b # a => rows'[b] = rows[b]
  OBVIOUS
<1>2. rows[a] = [kind |-> rows[a].kind, minimum |-> rows[a].minimum, deadline |-> rows[a].deadline,
            lastTradeAt |-> rows[a].lastTradeAt, submission |-> rows[a].submission,
            pre |-> rows[a].pre, post |-> rows[a].post]
  BY DEF RowsTyped
<1>3. rows'[a] = [kind |-> rows[a].kind, minimum |-> rows[a].minimum, deadline |-> rows[a].deadline,
            lastTradeAt |-> rows[a].lastTradeAt, submission |-> status,
            pre |-> rows[a].pre, post |-> rows[a].post]
  BY <1>1, <1>2
<1>4. RowsTyped' BY <1>1, <1>3 DEF RowsTyped
<1>. QED BY <1>1, <1>3, <1>4

(* A transaction that lands undoes nothing.                                *)
LEMMA EffectUndoesNothing ==
  ASSUME WorldTyped, NEW a, NEW row, row.kind \in Kinds,
         world' = effect(a, row),
         \A t \in Actions \X Forms : landed[t] = "ok" => landed'[t] = "ok"
  PROVE  WorldTyped' /\ ~Undone
<1>1. CASE row.kind = "close"
  BY <1>1 DEF effect, WorldTyped, Undone
<1>2. CASE row.kind = "create_market"
  BY <1>2 DEF effect, WorldTyped, Undone
<1>3. CASE row.kind = "create_pool"
  BY <1>3 DEF effect, WorldTyped, Undone
<1>4. CASE row.kind = "authorize_market"
  BY <1>4 DEF effect, WorldTyped, Undone, NoBinding
<1>5. CASE row.kind = "deposit"
  BY <1>5 DEF effect, WorldTyped, Undone
<1>6. CASE row.kind = "withdraw"
  BY <1>6 DEF effect, WorldTyped, Undone
<1>. QED BY <1>1, <1>2, <1>3, <1>4, <1>5, <1>6 DEF Kinds, LaunchKinds, LiquidityKinds

(* Every step of the handlers, the chain and the others keeps it.          *)
LEMMA ActionInvNext == ActionInv /\ [ActionNext]_actionVars => ActionInv'
<1>. SUFFICES ASSUME ActionInv, [ActionNext]_actionVars PROVE ActionInv' OBVIOUS
<1>. USE DEF ActionInv
<1>0. \A a \in Actions, form \in Forms : form # "prepared" => landed[<<a, form>>] = "unsent"
  BY ConfirmedMeansHappened
<1>1. CASE ActionTick \/ UNCHANGED actionVars
  <2>1. UNCHANGED <<rows, landed, world, senders>> BY <1>1 DEF ActionTick, actionVars
  <2>2. ~Undone BY <2>1 DEF Undone
  <2>3. ConfirmedActionsHappened' BY <1>0, <2>1, <2>2, NothingConfirmed
  <2>. QED BY <2>1, <2>3 DEF RowsTyped, WorldTyped, SendersChecked
<1>2. CASE Elsewhere
  <2>1. UNCHANGED <<rows, landed, senders>> BY <1>2 DEF Elsewhere
  <2>2. WorldTyped' /\ ~Undone
    <3>1. \/ world' = [world EXCEPT !.others = TRUE, !.market = "theirs"] /\ world.market = "absent"
          \/ world' = [world EXCEPT !.others = TRUE, !.market = "disabled"]
          \/ \E cutoff \in 0 .. MARKET_EXPIRY, enabled \in BOOLEAN :
               world' = [world EXCEPT !.others = TRUE,
                           !.binding = [lastTradeAt |-> cutoff, enabled |-> enabled]]
          \/ world' = [world EXCEPT !.others = TRUE, !.wallet = @ + Buyback]
          \/ world' = [world EXCEPT !.others = TRUE, !.othersShares = @ - 1,
                                    !.pool = @ - calculateWithdrawAmount(1)]
      BY <1>2 DEF Elsewhere
    <3>. HIDE DEF ActionInv
    <3>. USE DEF Undone, WorldTyped
    <3>0. WorldTyped BY DEF ActionInv
    <3>2. CASE world' = [world EXCEPT !.others = TRUE, !.market = "theirs"] /\ world.market = "absent"
      BY <2>1, <3>0, <3>2
    <3>3. CASE world' = [world EXCEPT !.others = TRUE, !.market = "disabled"]
      BY <2>1, <3>0, <3>3
    <3>4. CASE \E cutoff \in 0 .. MARKET_EXPIRY, enabled \in BOOLEAN :
                 world' = [world EXCEPT !.others = TRUE,
                             !.binding = [lastTradeAt |-> cutoff, enabled |-> enabled]]
      <4>1. PICK cutoff \in 0 .. MARKET_EXPIRY, enabled \in BOOLEAN :
              world' = [world EXCEPT !.others = TRUE,
                          !.binding = [lastTradeAt |-> cutoff, enabled |-> enabled]]
        BY <3>4
      <4>2. cutoff # -1 BY SMT
      <4>3. [lastTradeAt |-> cutoff, enabled |-> enabled] # NoBinding BY <4>2 DEF NoBinding
      <4>4. /\ world'.binding = [lastTradeAt |-> cutoff, enabled |-> enabled]
            /\ world'.market = world.market /\ world'.pools = world.pools
            /\ WorldTyped'
        BY <3>0, <4>1
      <4>. QED BY <2>1, <4>3, <4>4
    <3>5. CASE world' = [world EXCEPT !.others = TRUE, !.wallet = @ + Buyback]
      BY <2>1, <3>0, <3>5
    <3>6. CASE world' = [world EXCEPT !.others = TRUE, !.othersShares = @ - 1,
                                      !.pool = @ - calculateWithdrawAmount(1)]
      BY <2>1, <3>0, <3>6
    <3>. QED BY <3>1, <3>2, <3>3, <3>4, <3>5, <3>6
  <2>3. ConfirmedActionsHappened' BY <1>0, <2>1, <2>2, NothingConfirmed
  <2>. QED BY <2>1, <2>2, <2>3 DEF RowsTyped, SendersChecked
<1>3. ASSUME NEW a \in Actions, Prepare(a) PROVE ActionInv'
  <2>1. \E kind \in Kinds : \E minimum, deadline, lastTradeAt :
          /\ kind = "close" => minimum = Buyback
          /\ Store(a, preparedRow(kind, minimum, deadline, lastTradeAt))
    <3>1. CASE buildVsolCloseTransaction(a) BY <3>1 DEF buildVsolCloseTransaction, Kinds
    <3>2. CASE buildCreateMarketTransaction(a)
      BY <3>2 DEF buildCreateMarketTransaction, Kinds, LaunchKinds
    <3>3. CASE buildInitializePoolTransaction(a)
      BY <3>3 DEF buildInitializePoolTransaction, Kinds, LaunchKinds
    <3>4. CASE buildAuthorizeMarketTransaction(a)
      BY <3>4 DEF buildAuthorizeMarketTransaction, Kinds, LaunchKinds
    <3>5. ASSUME NEW k \in LiquidityKinds, prepareLiquidity(a, k)
          PROVE  \E kind \in Kinds : \E minimum, deadline, lastTradeAt :
                   /\ kind = "close" => minimum = Buyback
                   /\ Store(a, preparedRow(kind, minimum, deadline, lastTradeAt))
      <4>1. k \in Kinds /\ k # "close" BY DEF Kinds, LiquidityKinds
      <4>2. PICK m, d : Store(a, preparedRow(k, m, d, 0)) BY <3>5 DEF prepareLiquidity
      <4>. QED BY <4>1, <4>2
    <3>. QED BY <1>3, <3>1, <3>2, <3>3, <3>4, <3>5 DEF Prepare
  <2>1a. PICK kind \in Kinds : \E minimum, deadline, lastTradeAt :
           /\ kind = "close" => minimum = Buyback
           /\ Store(a, preparedRow(kind, minimum, deadline, lastTradeAt))
    BY <2>1
  <2>1b. PICK minimum, deadline, lastTradeAt :
           /\ kind = "close" => minimum = Buyback
           /\ Store(a, preparedRow(kind, minimum, deadline, lastTradeAt))
    BY <2>1a
  <2>. DEFINE row == preparedRow(kind, minimum, deadline, lastTradeAt)
  <2>2. /\ rows' = [b \in DOMAIN rows \union {a} |-> IF b = a THEN row ELSE rows[b]]
        /\ UNCHANGED <<landed, world, senders>>
    BY <2>1b DEF Store
  <2>3. /\ row = [kind |-> row.kind, minimum |-> row.minimum, deadline |-> row.deadline,
                   lastTradeAt |-> row.lastTradeAt, submission |-> row.submission,
                   pre |-> row.pre, post |-> row.post]
        /\ row.kind = kind /\ row.minimum = minimum /\ row.submission = "prepared"
    BY DEF preparedRow
  <2>. HIDE DEF row
  <2>4. RowsTyped' BY <2>1b, <2>2, <2>3 DEF RowsTyped
  <2>5. ~Undone BY <2>2 DEF Undone
  <2>6. ConfirmedActionsHappened'
    <3>1. \A b \in DOMAIN rows' : rows'[b].submission = "confirmed" =>
             b \in DOMAIN rows /\ rows'[b] = rows[b]
      BY <2>2, <2>3
    <3>. QED BY <1>0, <2>2, <2>5, <3>1, NothingConfirmed
  <2>. QED BY <2>2, <2>4, <2>6 DEF WorldTyped, SendersChecked
<1>4. ASSUME NEW a \in Actions, NEW form \in Forms, ExecuteAction(a, form) PROVE ActionInv'
  <2>. DEFINE t == <<a, form>>
  <2>1. /\ landed[t] = "delivered" /\ t \in Actions \X Forms
        /\ UNCHANGED <<rows, senders>>
        /\ \/ landed' = [landed EXCEPT ![t] = "ok"] /\ world' = effect(a, rows[a])
              /\ succeeds(rows[a])
           \/ landed' = [landed EXCEPT ![t] = "err"] /\ UNCHANGED world
    BY <1>4 DEF ExecuteAction
  <2>2. form = "prepared" BY <1>0, <2>1
  <2>3. a \in DOMAIN rows /\ rows[a].kind \in Kinds BY <2>1 DEF RowsTyped
  <2>4. /\ landed' = [u \in Actions \X Forms |-> landed'[u]]
        /\ \A u \in Actions \X Forms : u # t => landed'[u] = landed[u]
        /\ \A u \in Actions \X Forms : landed[u] = "ok" => landed'[u] = "ok"
    BY <2>1
  <2>5. \A b \in Actions, f \in Forms : f # "prepared" => landed'[<<b, f>>] = "unsent"
    <3>1. \A b \in Actions, f \in Forms : f # "prepared" => <<b, f>> # t /\ <<b, f>> \in Actions \X Forms
      BY <2>2
    <3>. QED BY <1>0, <2>4, <3>1
  <2>6. \A b \in Actions, f \in Forms : landed'[<<b, f>>] # "unsent" => b \in DOMAIN rows
    <3>1. ASSUME NEW b \in Actions, NEW f \in Forms, landed'[<<b, f>>] # "unsent"
          PROVE  b \in DOMAIN rows
      <4>1. CASE <<b, f>> = t BY <2>3, <4>1
      <4>2. CASE <<b, f>> # t BY <2>4, <3>1, <4>2
      <4>. QED BY <4>1, <4>2
    <3>. QED BY <3>1
  <2>7. WorldTyped' /\ ~Undone
    <3>1. CASE UNCHANGED world BY <2>4, <3>1 DEF WorldTyped, Undone
    <3>2. CASE world' = effect(a, rows[a]) BY <2>3, <2>4, <3>2, EffectUndoesNothing
    <3>. QED BY <2>1, <3>1, <3>2
  <2>8. ConfirmedActionsHappened' BY <2>1, <2>5, <2>7, NothingConfirmed
  <2>. QED BY <2>1, <2>4, <2>6, <2>7, <2>8 DEF RowsTyped, SendersChecked
<1>5. ASSUME NEW a \in Actions, NEW form \in Forms, ReceiveAction(a, form) PROVE ActionInv'
  <2>. DEFINE h == [at |-> "check", action |-> a, form |-> form]
  <2>1. /\ a \in DOMAIN rows /\ UNCHANGED <<rows, landed, world>>
        /\ senders' = senders (+) SetToBag({h})
    BY <1>5 DEF ReceiveAction
  <2>2. h = [at |-> h.at, action |-> h.action, form |-> h.form] /\ h.at = "check"
        /\ h.action = a /\ h.form = form
    OBVIOUS
  <2>. HIDE DEF h
  <2>3. DOMAIN senders' \subseteq DOMAIN senders \union {h} BY <2>1 DEF SetToBag, (+)
  <2>4. SendersChecked' BY <2>1, <2>2, <2>3 DEF SendersChecked
  <2>5. ~Undone BY <2>1 DEF Undone
  <2>6. ConfirmedActionsHappened' BY <1>0, <2>1, <2>5, NothingConfirmed
  <2>. QED BY <2>1, <2>4, <2>6 DEF RowsTyped, WorldTyped
<1>6. ASSUME NEW h \in DOMAIN senders, CheckAndSimulate(h) PROVE ActionInv'
  <2>1. PICK step \in {"passed", "rejected"} : Becomes(h, [h EXCEPT !.at = step])
    BY <1>6 DEF CheckAndSimulate
  <2>2. /\ UNCHANGED <<rows, landed, world>> /\ accepts(rows[h.action], h.form)
    BY <1>6 DEF CheckAndSimulate
  <2>3. h.form = "prepared"
    BY <2>2 DEF accepts, acceptsClose, acceptsLaunch, acceptsLiquidity, isPreparedMessage
  <2>. DEFINE x == [h EXCEPT !.at = step]
  <2>4. x = [at |-> x.at, action |-> x.action, form |-> x.form] /\ x.action = h.action
        /\ x.form = h.form
    BY DEF SendersChecked
  <2>. HIDE DEF x
  <2>5. DOMAIN senders' \subseteq DOMAIN senders \union {x} BY <2>1, HandlersAfter DEF x
  <2>6. SendersChecked' BY <2>2, <2>3, <2>4, <2>5 DEF SendersChecked
  <2>7. ~Undone BY <2>2 DEF Undone
  <2>8. ConfirmedActionsHappened' BY <1>0, <2>2, <2>7, NothingConfirmed
  <2>. QED BY <2>2, <2>6, <2>8 DEF RowsTyped, WorldTyped
<1>7. ASSUME NEW h \in DOMAIN senders, StoreSimulation(h) PROVE ActionInv'
  <2>. DEFINE x == [h EXCEPT !.at = "send"]
  <2>1. /\ UNCHANGED <<landed, world>> /\ h.action \in DOMAIN rows
        /\ h.at # "check"
        /\ \E status \in {"prepared", "failed"} :
             rows' = [rows EXCEPT ![h.action].submission = status]
        /\ Becomes(h, x) \/ Ends(h)
    BY <1>7 DEF StoreSimulation, SendersChecked
  <2>2. x = [at |-> x.at, action |-> x.action, form |-> x.form] /\ x.action = h.action
        /\ x.form = h.form
    BY DEF SendersChecked
  <2>. HIDE DEF x
  <2>3. /\ RowsTyped' /\ DOMAIN rows' = DOMAIN rows
        /\ \A b \in DOMAIN rows' : rows'[b].submission = "confirmed" =>
             /\ rows[b].submission = "confirmed"
             /\ rows'[b].kind = rows[b].kind /\ rows'[b].minimum = rows[b].minimum
             /\ rows'[b].pre = rows[b].pre /\ rows'[b].post = rows[b].post
    <3>1. PICK status \in {"prepared", "failed"} :
            rows' = [rows EXCEPT ![h.action].submission = status]
      BY <2>1
    <3>2. /\ DOMAIN rows' = DOMAIN rows
          /\ RowsTyped'
          /\ rows'[h.action].submission = status
          /\ \A b \in DOMAIN rows :
               /\ rows'[b].kind = rows[b].kind /\ rows'[b].minimum = rows[b].minimum
               /\ rows'[b].pre = rows[b].pre /\ rows'[b].post = rows[b].post
               /\ b # h.action => rows'[b].submission = rows[b].submission
      BY <2>1, <3>1, Resubmitted
    <3>3. status # "confirmed" OBVIOUS
    <3>. QED BY <3>2, <3>3
  <2>4. DOMAIN senders' \subseteq DOMAIN senders \union {x} BY <2>1, HandlersAfter
  <2>5. SendersChecked' BY <2>1, <2>2, <2>3, <2>4 DEF SendersChecked
  <2>6. ~Undone BY <2>1 DEF Undone
  <2>7. ConfirmedActionsHappened' BY <1>0, <2>1, <2>3, <2>6, NothingConfirmed
  <2>. QED BY <2>1, <2>3, <2>5, <2>7 DEF WorldTyped
<1>8. ASSUME NEW h \in DOMAIN senders, SendActionFails(h) PROVE ActionInv'
  <2>1. /\ UNCHANGED <<landed, world>> /\ h.action \in DOMAIN rows
        /\ rows' = [rows EXCEPT ![h.action].submission = "failed"]
        /\ Ends(h)
    BY <1>8 DEF SendActionFails, SendersChecked
  <2>2. /\ RowsTyped' /\ DOMAIN rows' = DOMAIN rows
        /\ \A b \in DOMAIN rows' : rows'[b].submission = "confirmed" =>
             /\ rows[b].submission = "confirmed"
             /\ rows'[b].kind = rows[b].kind /\ rows'[b].minimum = rows[b].minimum
             /\ rows'[b].pre = rows[b].pre /\ rows'[b].post = rows[b].post
    <3>1. /\ DOMAIN rows' = DOMAIN rows
          /\ RowsTyped'
          /\ rows'[h.action].submission = "failed"
          /\ \A b \in DOMAIN rows :
               /\ rows'[b].kind = rows[b].kind /\ rows'[b].minimum = rows[b].minimum
               /\ rows'[b].pre = rows[b].pre /\ rows'[b].post = rows[b].post
               /\ b # h.action => rows'[b].submission = rows[b].submission
      BY <2>1, Resubmitted
    <3>. QED BY <3>1
  <2>3. DOMAIN senders' \subseteq DOMAIN senders BY <2>1, HandlersAfter
  <2>4. SendersChecked' BY <2>2, <2>3 DEF SendersChecked
  <2>5. ~Undone BY <2>1 DEF Undone
  <2>6. UNCHANGED landed /\ DOMAIN rows' = DOMAIN rows BY <2>1, <2>2
  <2>7. ConfirmedActionsHappened' BY <1>0, <2>6, <2>2, <2>5, NothingConfirmed
  <2>8. WorldTyped' BY <2>1 DEF WorldTyped
  <2>. QED BY <2>2, <2>4, <2>7, <2>6, <2>8
<1>9. ASSUME NEW h \in DOMAIN senders, SendAction(h) PROVE ActionInv'
  <2>. DEFINE t == <<h.action, h.form>>
              x == [h EXCEPT !.at = "confirm"]
  <2>1. /\ UNCHANGED <<rows, world>> /\ h.form = "prepared" /\ h.action \in DOMAIN rows
        /\ landed' = [landed EXCEPT ![t] = IF @ = "unsent" THEN "delivered" ELSE @]
        /\ Becomes(h, x)
    BY <1>9 DEF SendAction, SendersChecked
  <2>2. x = [at |-> x.at, action |-> x.action, form |-> x.form] /\ x.action = h.action
        /\ x.form = h.form
    BY DEF SendersChecked
  <2>. HIDE DEF x
  <2>3. DOMAIN senders' \subseteq DOMAIN senders \union {x} BY <2>1, HandlersAfter
  <2>4. SendersChecked' BY <2>1, <2>2, <2>3 DEF SendersChecked
  <2>5. t \in Actions \X Forms BY <2>1 DEF RowsTyped, Forms
  <2>6. /\ landed' = [u \in Actions \X Forms |-> landed'[u]]
        /\ \A u \in Actions \X Forms : u # t => landed'[u] = landed[u]
        /\ \A u \in Actions \X Forms : landed[u] = "ok" => landed'[u] = "ok"
    BY <2>1, <2>5
  <2>7. \A b \in Actions, f \in Forms : f # "prepared" => landed'[<<b, f>>] = "unsent"
    <3>1. \A b \in Actions, f \in Forms : f # "prepared" => <<b, f>> # t /\ <<b, f>> \in Actions \X Forms
      BY <2>1
    <3>. HIDE DEF t
    <3>. QED BY <1>0, <2>6, <3>1
  <2>8. \A b \in Actions, f \in Forms : landed'[<<b, f>>] # "unsent" => b \in DOMAIN rows
    <3>1. ASSUME NEW b \in Actions, NEW f \in Forms, landed'[<<b, f>>] # "unsent"
          PROVE  b \in DOMAIN rows
      <4>1. CASE <<b, f>> = t BY <2>1, <4>1
      <4>2. CASE <<b, f>> # t BY <2>6, <3>1, <4>2
      <4>. QED BY <4>1, <4>2
    <3>. QED BY <3>1
  <2>9. ~Undone BY <2>1, <2>6 DEF Undone
  <2>10. ConfirmedActionsHappened' BY <2>1, <2>7, <2>9, NothingConfirmed
  <2>. QED BY <2>1, <2>4, <2>6, <2>8, <2>10 DEF RowsTyped, WorldTyped
<1>10. ASSUME NEW h \in DOMAIN senders, ConfirmAndVerify(h) PROVE ActionInv'
  <2>. DEFINE a == h.action
              found == [wallet |-> world.wallet, shares |-> world.shares, pool |-> world.pool]
  <2>1. /\ UNCHANGED <<landed, world>> /\ a \in DOMAIN rows /\ a \in Actions
        /\ landed[<<a, "prepared">>] = "ok"
        /\ verifyPostState(a)
        /\ rows' = [rows EXCEPT ![a].submission = "confirmed", ![a].post = found]
        /\ Ends(h)
    BY <1>10 DEF ConfirmAndVerify, SendersChecked, RowsTyped
  <2>2. /\ DOMAIN rows' = DOMAIN rows
        /\ \A b \in DOMAIN rows : b # a => rows'[b] = rows[b]
        /\ rows'[a] = [kind |-> rows[a].kind, minimum |-> rows[a].minimum,
                       deadline |-> rows[a].deadline, lastTradeAt |-> rows[a].lastTradeAt,
                       submission |-> "confirmed", pre |-> rows[a].pre, post |-> found]
    <3>1. /\ DOMAIN rows' = DOMAIN rows
          /\ \A b \in DOMAIN rows : b # a => rows'[b] = rows[b]
          /\ rows'[a] = [rows[a] EXCEPT !.submission = "confirmed", !.post = found]
      BY <2>1
    <3>2. rows[a] = [kind |-> rows[a].kind, minimum |-> rows[a].minimum,
                     deadline |-> rows[a].deadline, lastTradeAt |-> rows[a].lastTradeAt,
                     submission |-> rows[a].submission, pre |-> rows[a].pre, post |-> rows[a].post]
      BY <2>1 DEF RowsTyped
    <3>. HIDE DEF found
    <3>. QED BY <3>1, <3>2
  <2>3. RowsTyped' BY <2>1, <2>2 DEF RowsTyped
  <2>4. DOMAIN senders' \subseteq DOMAIN senders BY <2>1, HandlersAfter
  <2>5. SendersChecked' BY <2>2, <2>4 DEF SendersChecked
  <2>6. ~Undone BY <2>1 DEF Undone
  <2>7. Happened(a)'
    <3>1. /\ rows'[a].kind = rows[a].kind /\ rows'[a].minimum = rows[a].minimum
          /\ rows'[a].pre = rows[a].pre
          /\ rows'[a].post["wallet"] = world.wallet
          /\ rows'[a].post["shares"] = world.shares
          /\ rows'[a].post["pool"] = world.pool
      BY <2>2
    <3>2. rows[a].kind \in Kinds BY <2>1 DEF RowsTyped
    <3>3. CASE rows[a].kind = "close"
      <4>1. world.wallet - rows[a].pre.wallet = Buyback
        BY <2>1, <3>3 DEF verifyPostState, closeVerified, gained, RowsTyped, LaunchKinds, LiquidityKinds
      <4>. QED BY <2>1, <3>1, <3>3, <4>1 DEF Happened
    <3>4. CASE rows[a].kind \in LaunchKinds
      <4>1. launchVerified(a, rows[a])
        BY <2>1, <3>4 DEF verifyPostState, launchVerified, LaunchKinds, LiquidityKinds
      <4>2. CASE rows[a].kind = "create_market"
        BY <2>1, <3>1, <4>1, <4>2 DEF launchVerified, Happened
      <4>3. CASE rows[a].kind = "create_pool"
        BY <2>1, <3>1, <4>1, <4>3 DEF launchVerified, Happened
      <4>4. CASE rows[a].kind = "authorize_market"
        <5>1. world.binding = [lastTradeAt |-> rows[a].lastTradeAt, enabled |-> TRUE]
          BY <4>1, <4>4 DEF launchVerified
        <5>2. world.binding.enabled /\ ~NoBinding.enabled BY <5>1 DEF NoBinding
        <5>3. world.binding # NoBinding BY <5>2
        <5>. QED BY <2>1, <3>1, <4>4, <5>3 DEF Happened
      <4>. QED BY <3>4, <4>2, <4>3, <4>4 DEF LaunchKinds
    <3>5. CASE rows[a].kind \in LiquidityKinds
      <4>1. liquidityVerified(rows[a])
        BY <2>1, <3>5 DEF verifyPostState, LaunchKinds, LiquidityKinds
      <4>2. CASE rows[a].kind = "deposit"
        BY <2>1, <3>1, <4>1, <4>2 DEF liquidityVerified, gained, pooled, minted, Happened
      <4>3. CASE rows[a].kind = "withdraw"
        BY <2>1, <3>1, <4>1, <4>3 DEF liquidityVerified, gained, pooled, minted, Happened
      <4>. QED BY <3>5, <4>2, <4>3 DEF LiquidityKinds
    <3>. QED BY <3>2, <3>3, <3>4, <3>5 DEF Kinds
  <2>8. \A b \in DOMAIN rows' : rows'[b].submission = "confirmed" => Happened(b)'
    <3>1. ASSUME NEW b \in DOMAIN rows, b # a, rows'[b].submission = "confirmed"
          PROVE  Happened(b)'
      BY <2>2, <2>6, <3>1, HappenedStays, ConfirmedMeansHappened
    <3>. QED BY <2>2, <2>7, <3>1
  <2>9. \A b \in Actions, f \in Forms : f # "prepared" => landed'[<<b, f>>] = "unsent"
    BY <1>0, <2>1
  <2>10. ConfirmedActionsHappened'
    <3>1. ConfirmedActionsHappened' <=>
            /\ \A b \in Actions, f \in Forms : f # "prepared" => landed'[<<b, f>>] = "unsent"
            /\ \A b \in DOMAIN rows' : rows'[b].submission = "confirmed" => Happened(b)'
      BY Zenon DEF ConfirmedActionsHappened, Happened
    <3>. QED BY <2>8, <2>9, <3>1
  <2>. QED BY <2>1, <2>2, <2>3, <2>5, <2>10 DEF WorldTyped
<1>. QED
  BY <1>1, <1>2, <1>3, <1>4, <1>5, <1>6, <1>7, <1>8, <1>9, <1>10 DEF ActionNext

(* A prepared action marked confirmed happened exactly as it was prepared, *)
(* for any number of actions and senders, whatever else changes the        *)
(* accounts (the execute routes of launch, liquidity and close).           *)
THEOREM ConfirmedActionsHappenedHolds == ActionSpec => []ConfirmedActionsHappened
<1>1. ActionSpec => []ActionInv BY ActionInvInit, ActionInvNext, PTL DEF ActionSpec
<1>. QED BY <1>1, PTL DEF ActionInv

----------------------------------------------------------------------------
(* The trade ticket.                                                       *)

(* No request is numbered beyond the reference, and the one it names was   *)
(* made for the inputs the ticket has.                                     *)
RequestsAreNumbered ==
  \A request \in requests : isQuote(request) =>
    /\ request.seq \in Nat /\ request.seq <= refs.seq
    /\ request.seq = refs.seq => request.ticket.edits = ticket.edits

(* What is shown was asked for these inputs; a transaction left over from  *)
(* an earlier quote is never beside a different one.                       *)
ShownIsAsked ==
  /\ quotes # NoQuote => quotes.ticket.edits = ticket.edits
  /\ quotes # NoQuote /\ vsolQuote # NoQuote => quotes = vsolQuote

TicketInv ==
  /\ refs \in [seq : Nat, auto : Nat]
  /\ ticket \in [edits : Nat, switches : Nat, clamps : Nat]
  /\ RequestsAreNumbered
  /\ ShownIsAsked

(* At the start nothing was asked and nothing is shown.                    *)
LEMMA TicketInvInit == TicketInit => TicketInv
BY DEF TicketInit, TicketInv, RequestsAreNumbered, ShownIsAsked

(* A higher number makes every request that is under way a late one.       *)
LEMMA InvalidatedRequests ==
  ASSUME TicketInv, refs' \in [seq : Nat, auto : Nat], refs'.seq = refs.seq + 1,
         requests' \subseteq requests
  PROVE  RequestsAreNumbered'
BY DEF TicketInv, RequestsAreNumbered, isQuote

(* What leaves the numbers and the inputs alone keeps them in step.        *)
LEMMA SameNumbers ==
  ASSUME TicketInv, refs'.seq = refs.seq, ticket'.edits = ticket.edits,
         \A request \in requests' : request \in requests \/ ~isQuote(request)
  PROVE  RequestsAreNumbered'
BY DEF TicketInv, RequestsAreNumbered, isQuote

(* Every event of the ticket keeps it: what changes the inputs also moves  *)
(* the number on, or clears what is shown.                                 *)
LEMMA TicketInvNext == TicketInv /\ [TicketNext]_ticketVars => TicketInv'
<1>. SUFFICES ASSUME TicketInv, [TicketNext]_ticketVars PROVE TicketInv' OBVIOUS
<1>. USE DEF TicketInv
<1>1. CASE Edit
  <2>1. /\ refs' = [seq |-> refs.seq + 1, auto |-> 0] /\ quotes' = NoQuote
        /\ UNCHANGED requests /\ ticket' = [ticket EXCEPT !.edits = @ + 1]
    BY <1>1 DEF Edit, invalidateQuote, clearQuote
  <2>. QED BY <2>1, InvalidatedRequests DEF ShownIsAsked
<1>2. CASE Switch
  <2>1. /\ UNCHANGED <<refs, requests>> /\ quotes' = NoQuote
        /\ ticket' = [ticket EXCEPT !.switches = @ + 1]
    BY <1>2 DEF Switch, clearQuote
  <2>. QED BY <2>1, SameNumbers DEF ShownIsAsked
<1>3. CASE Renumber
  <2>1. /\ refs' = [seq |-> refs.seq + 1, auto |-> 0]
        /\ UNCHANGED <<requests, ticket, quotes, vsolQuote>>
    BY <1>3 DEF Renumber
  <2>. QED BY <2>1, InvalidatedRequests DEF ShownIsAsked
<1>4. CASE ClampTier
  <2>1. /\ UNCHANGED <<refs, requests>> /\ quotes' = NoQuote
        /\ ticket' = [ticket EXCEPT !.clamps = @ + 1]
    BY <1>4 DEF ClampTier, clearQuote
  <2>. QED BY <2>1, SameNumbers DEF ShownIsAsked
<1>5. CASE PollCatalog \/ SignIn \/ CloseReview \/ UNCHANGED ticketVars
  <2>1. UNCHANGED <<refs, requests, ticket, quotes, vsolQuote>>
    BY <1>5 DEF PollCatalog, SignIn, CloseReview, ticketVars
  <2>. QED BY <2>1, SameNumbers DEF ShownIsAsked
<1>6. CASE requestQuote \/ AutoQuote
  <2>1. PICK manual \in BOOLEAN : runQuote(manual) BY <1>6 DEF requestQuote, AutoQuote
  <2>2. /\ refs' = [seq |-> refs.seq + 1, auto |-> IF manual THEN 0 ELSE refs.auto]
        /\ quotes' = NoQuote /\ UNCHANGED ticket /\ Ask("indicative")
    BY <2>1 DEF runQuote
  <2>3. RequestsAreNumbered' BY <2>2 DEF Ask, RequestsAreNumbered, isQuote
  <2>. QED BY <2>2, <2>3 DEF ShownIsAsked
<1>7. CASE requestExecutableQuote
  <2>1. /\ refs' = [refs EXCEPT !.seq = @ + 1] /\ Ask("execute")
        /\ UNCHANGED <<ticket, quotes, vsolQuote>>
    BY <1>7 DEF requestExecutableQuote
  <2>2. RequestsAreNumbered' BY <2>1 DEF Ask, RequestsAreNumbered, isQuote
  <2>. QED BY <2>1, <2>2 DEF ShownIsAsked
<1>8. ASSUME NEW request \in requests, Drop(request) \/ Expel(request) \/ Refuse(request)
      PROVE  TicketInv'
  <2>1. UNCHANGED <<refs, ticket, quotes, vsolQuote>> /\ requests' \subseteq requests
    BY <1>8 DEF Drop, Expel, Refuse, Answer
  <2>. QED BY <2>1, SameNumbers DEF ShownIsAsked
<1>9. ASSUME NEW request \in requests, Apply(request) PROVE TicketInv'
  <2>. DEFINE quote == [seq |-> request.seq, executable |-> request.intent = "execute",
                        ticket |-> request.ticket]
  <2>1. /\ UNCHANGED <<refs, ticket>> /\ requests' \subseteq requests
        /\ isCurrent(request)
        /\ quotes' = quote
        /\ vsolQuote' = quote \/ vsolQuote' = NoQuote
    BY <1>9 DEF Apply, Answer
  <2>2. quote.ticket.edits = ticket.edits BY <2>1 DEF isCurrent, RequestsAreNumbered
  <2>. HIDE DEF quote
  <2>3. ShownIsAsked' BY <2>1, <2>2 DEF ShownIsAsked
  <2>. QED BY <2>1, <2>3, SameNumbers
<1>10. CASE ExpireQuote
  <2>1. /\ quotes' = NoQuote /\ UNCHANGED <<ticket, requests>>
        /\ refs' \in [seq : Nat, auto : Nat] /\ refs'.seq = refs.seq
    BY <1>10 DEF ExpireQuote
  <2>. QED BY <2>1, SameNumbers DEF ShownIsAsked
<1>11. CASE confirmPreviewPosition
  <2>1. /\ UNCHANGED <<refs, ticket, quotes, vsolQuote>>
        /\ requests' = requests \union {[seq |-> vsolQuote.seq, intent |-> "sign", ticket |-> ticket]}
    BY <1>11 DEF confirmPreviewPosition
  <2>2. \A request \in requests' : request \in requests \/ ~isQuote(request)
    BY <2>1 DEF isQuote
  <2>. QED BY <2>1, <2>2, SameNumbers DEF ShownIsAsked
<1>12. ASSUME NEW request \in requests, ExecutionEnds(request) PROVE TicketInv'
  <2>1. UNCHANGED ticket /\ requests' \subseteq requests
    BY <1>12 DEF ExecutionEnds, Answer
  <2>2. CASE invalidateQuote
    <3>1. refs' = [seq |-> refs.seq + 1, auto |-> 0] /\ quotes' = NoQuote
      BY <2>2 DEF invalidateQuote, clearQuote
    <3>. QED BY <2>1, <3>1, InvalidatedRequests DEF ShownIsAsked
  <2>3. CASE UNCHANGED <<refs, quotes, vsolQuote>>
    BY <2>1, <2>3, SameNumbers DEF ShownIsAsked
  <2>. QED BY <1>12, <2>2, <2>3 DEF ExecutionEnds
<1>. QED
  BY <1>1, <1>2, <1>3, <1>4, <1>5, <1>6, <1>7, <1>8, <1>9, <1>10, <1>11, <1>12 DEF TicketNext

(* What the ticket signs is the quote it shows for the inputs it has,      *)
(* however late answers, edits and refreshes overlap (TendTerminal.tsx).   *)
THEOREM SignedQuoteIsTheOneShownHolds == TicketSpec => []SignedQuoteIsTheOneShown
<1>1. TicketSpec => []TicketInv BY TicketInvInit, TicketInvNext, PTL DEF TicketSpec
<1>2. TicketInv => SignedQuoteIsTheOneShown
  BY DEF TicketInv, ShownIsAsked, SignedQuoteIsTheOneShown, isSignable
<1>. QED BY <1>1, <1>2, PTL

----------------------------------------------------------------------------
(* The series of the grid.                                                 *)

(* A set of naturals has a least member.                                   *)
LEMMA LeastNatural ==
  ASSUME NEW T \in SUBSET Nat, T # {}
  PROVE  \E x \in T : \A y \in T : x <= y
<1>. DEFINE R == OpToRel(<, Nat)
<1>1. IsWellFoundedOn(R, Nat) BY NatLessThanWellFounded
<1>2. \A x, y \in Nat : <<y, x>> \in R <=> y < x BY DEF OpToRel
<1>. HIDE DEF R
<1>3. PICK x \in T : \A y \in T : ~(<<y, x>> \in R) BY <1>1, WFMin
<1>4. ASSUME NEW y \in T PROVE x <= y
  <2>1. x \in Nat /\ y \in Nat /\ ~(y < x) BY <1>2, <1>3
  <2>. QED BY <2>1
<1>. QED BY <1>4

(* Markets of one expiry, told apart by their strikes.                     *)
Rivals(S) ==
  /\ IsFiniteSet(S) /\ S # {}
  /\ \A m \in S : m.strike \in Nat
  /\ \A m, c \in S : m.strike = c.strike => m = c

Below(S, m) == {c \in S : c.strike < m.strike}

(* Of any finite number of strikes one is the lower median: the ranks are  *)
(* distinct, so that none is left out.                                     *)
LEMMA RankTaken ==
  ASSUME NEW S, Rivals(S), NEW k \in 0 .. Cardinality(S) - 1
  PROVE  \E m \in S : Cardinality(Below(S, m)) = k
<1>. DEFINE n == Cardinality(S)
            rank == [m \in S |-> Cardinality(Below(S, m))]
            T == (0 .. n - 1) \ {k}
<1>. USE DEF Rivals
<1>1. n \in Nat BY FS_CardinalityType
<1>2. ASSUME NEW m \in S
      PROVE  IsFiniteSet(Below(S, m)) /\ Cardinality(Below(S, m)) \in 0 .. n - 1
  <2>1. IsFiniteSet(S \ {m}) /\ Cardinality(S \ {m}) = n - 1 BY FS_RemoveElement
  <2>2. Below(S, m) \subseteq S \ {m} BY DEF Below
  <2>3. /\ IsFiniteSet(Below(S, m)) /\ Cardinality(Below(S, m)) <= n - 1
        /\ Cardinality(Below(S, m)) \in Nat
    BY <2>1, <2>2, FS_Subset, FS_CardinalityType
  <2>. QED BY <1>1, <2>3
<1>3. ASSUME NEW m \in S, NEW c \in S, m.strike < c.strike
      PROVE  Cardinality(Below(S, m)) < Cardinality(Below(S, c))
  <2>1. m \notin Below(S, m) /\ Below(S, m) \union {m} \subseteq Below(S, c)
    BY <1>3 DEF Below
  <2>2. /\ Cardinality(Below(S, m) \union {m}) = Cardinality(Below(S, m)) + 1
        /\ Cardinality(Below(S, m)) \in Nat
    BY <1>2, <2>1, FS_AddElement, FS_CardinalityType
  <2>3. Cardinality(Below(S, m) \union {m}) <= Cardinality(Below(S, c))
    BY <1>2, <2>1, FS_Subset
  <2>4. Cardinality(Below(S, c)) \in Nat BY <1>2, FS_CardinalityType
  <2>. QED BY <2>2, <2>3, <2>4
<1>4. \A m, c \in S : m # c => rank[m] # rank[c]
  <2>. SUFFICES ASSUME NEW m \in S, NEW c \in S, m # c PROVE rank[m] # rank[c] OBVIOUS
  <2>1. m.strike < c.strike \/ c.strike < m.strike OBVIOUS
  <2>2. rank[m] \in Nat /\ rank[c] \in Nat BY <1>2, FS_CardinalityType
  <2>. QED BY <1>3, <2>1, <2>2
<1>5. IsFiniteSet(T) /\ Cardinality(T) = n - 1
  <2>1. IsFiniteSet(0 .. n - 1) /\ Cardinality(0 .. n - 1) = n
    <3>. HIDE DEF n
    <3>1. 0 \in Int /\ n - 1 \in Int BY <1>1
    <3>2. /\ IsFiniteSet(0 .. n - 1)
          /\ Cardinality(0 .. n - 1) = IF 0 > n - 1 THEN 0 ELSE n - 1 - 0 + 1
      BY <3>1, FS_Interval
    <3>3. (IF 0 > n - 1 THEN 0 ELSE n - 1 - 0 + 1) = n BY <1>1
    <3>. QED BY <3>2, <3>3
  <2>2. k \in 0 .. n - 1 OBVIOUS
  <2>. HIDE DEF n
  <2>. QED BY <2>1, <2>2, FS_RemoveElement
<1>6. CASE \A m \in S : rank[m] # k
  <2>1. rank \in [S -> T] BY <1>2, <1>6
  <2>2. Cardinality(T) < Cardinality(S) BY <1>1, <1>5
  <2>. HIDE DEF rank, T, n
  <2>3. \E m, c \in S : m # c /\ rank[m] = rank[c] BY <1>5, <2>1, <2>2, FS_PigeonHole
  <2>. QED BY <1>4, <2>3
<1>. QED BY <1>6

(* Of any finite number of strikes one is the nearest to a price, the lower*)
(* of two as near.                                                         *)
LEMMA NearestTaken ==
  ASSUME NEW S, Rivals(S), NEW price \in Nat
  PROVE  \E m \in S : \A c \in S \ {m} :
           \/ absDiff(m.strike, price) < absDiff(c.strike, price)
           \/ absDiff(m.strike, price) = absDiff(c.strike, price) /\ m.strike < c.strike
<1>. USE DEF Rivals
<1>. DEFINE Distances == {absDiff(m.strike, price) : m \in S}
<1>1. \A m \in S : absDiff(m.strike, price) \in Nat BY DEF absDiff
<1>2. PICK d \in Distances : \A e \in Distances : d <= e
  <2>1. Distances \in SUBSET Nat /\ Distances # {} BY <1>1
  <2>. HIDE DEF Distances
  <2>. QED BY <2>1, LeastNatural
<1>. DEFINE Strikes0 == {m.strike : m \in {c \in S : absDiff(c.strike, price) = d}}
<1>3. PICK s \in Strikes0 : \A e \in Strikes0 : s <= e
  <2>1. Strikes0 \in SUBSET Nat /\ Strikes0 # {} OBVIOUS
  <2>. HIDE DEF Strikes0
  <2>. QED BY <2>1, LeastNatural
<1>4. PICK m \in S : absDiff(m.strike, price) = d /\ m.strike = s OBVIOUS
<1>5. ASSUME NEW c \in S \ {m}
      PROVE  \/ absDiff(m.strike, price) < absDiff(c.strike, price)
             \/ absDiff(m.strike, price) = absDiff(c.strike, price) /\ m.strike < c.strike
  <2>1. d <= absDiff(c.strike, price) BY <1>2
  <2>2. absDiff(c.strike, price) = d => s <= c.strike BY <1>3
  <2>3. m.strike # c.strike OBVIOUS
  <2>. QED BY <1>1, <1>4, <2>1, <2>2, <2>3
<1>. QED BY <1>5

(* The rung picked is one of those there were, with a price or without.    *)
LEMMA PickTaken ==
  ASSUME NEW S, Rivals(S), NEW price \in Nat
  PROVE  pickAtTheMoney(S, price) \in S
<1>1. CASE price = Unavailable
  <2>1. Cardinality(S) \in Nat /\ Cardinality(S) # 0
    BY FS_CardinalityType, FS_EmptySet DEF Rivals
  <2>2. (Cardinality(S) - 1) \div 2 \in 0 .. Cardinality(S) - 1 BY <2>1
  <2>3. \E m \in S : Cardinality({c \in S : c.strike < m.strike}) = (Cardinality(S) - 1) \div 2
    BY <2>2, RankTaken DEF Below
  <2>. QED BY <1>1, <2>3 DEF pickAtTheMoney
<1>2. CASE price # Unavailable
  <2>1. \E m \in S : \A c \in S \ {m} :
           \/ absDiff(m.strike, price) < absDiff(c.strike, price)
           \/ absDiff(m.strike, price) = absDiff(c.strike, price) /\ m.strike < c.strike
    BY NearestTaken
  <2>. QED BY <1>2, <2>1 DEF pickAtTheMoney
<1>. QED BY <1>1, <1>2

(* The markets listed: finitely many, told apart by expiry and strike.     *)
Listed(D) ==
  IsFiniteSet(D) /\ \A m \in D : m = [expiry |-> m.expiry, strike |-> m.strike] /\ m.strike \in Nat

(* A slot found listed stands for a listed market, a planned one for none. *)
LEMMA SlotsAreListedOrNot ==
  ASSUME NEW D, Listed(D), NEW price \in Nat, NEW code, NEW t
  PROVE  LET found == resolveOrPlan(code, D, price, t)
         IN /\ found.kind \in {"none", "listed", "planned"}
            /\ found.kind = "listed" => found.series \in D
            /\ found.kind = "planned" => found.series \notin D
<1>. DEFINE params == deriveLaunchSeriesParams(code, t)
            S == {m \in D : matchesSlot(m, params)}
            found == resolveOrPlan(code, D, price, t)
<1>1. found = planUnlistedSlot(resolution(S, price), params, price)
  BY DEF resolveOrPlan, resolveSlot
<1>. HIDE DEF params
<1>2. CASE S # {}
  <2>1. Rivals(S)
    <3>1. IsFiniteSet(S) BY FS_Subset DEF Listed
    <3>2. \A m, c \in S : m.strike = c.strike => m = c
      BY DEF Listed, matchesSlot
    <3>. QED BY <1>2, <3>1, <3>2 DEF Rivals, Listed
  <2>2. pickAtTheMoney(S, price) \in D BY <2>1, PickTaken
  <2>3. found = [kind |-> "listed", series |-> pickAtTheMoney(S, price)]
    BY <1>1, <1>2 DEF planUnlistedSlot, resolution
  <2>. QED BY <2>2, <2>3
<1>3. CASE S = {}
  <2>. DEFINE plan == deriveVsolSeriesCandidate(params, ladderStrike(price))
  <2>1. found \in {[kind |-> "none", series |-> NoSeries], [kind |-> "planned", series |-> plan]}
        /\ (found.kind = "planned" => params.valid)
    BY <1>1, <1>3 DEF planUnlistedSlot, resolution
  <2>2. params.valid => plan \notin D
    BY <1>3 DEF deriveVsolSeriesCandidate, matchesSlot
  <2>. QED BY <2>1, <2>2
<1>. QED BY <1>2, <1>3

(* Both readers say the same of a slot they resolved alike, from the same  *)
(* accounts at the same moment.                                            *)
LEMMA ReadersAgree ==
  ASSUME Listed(DOMAIN chain), spot \in Nat, NEW code
  PROVE  seriesState(resolveOrPlan(code, DOMAIN chain, spot, gridTime), chain, gridTime)
           = getVsolSeriesStateOrPlan(code)
<1>. DEFINE found == resolveOrPlan(code, DOMAIN chain, spot, gridTime)
<1>1. /\ found.kind \in {"none", "listed", "planned"}
      /\ found.kind = "listed" => found.series \in DOMAIN chain
      /\ found.kind = "planned" => found.series \notin DOMAIN chain
  BY SlotsAreListedOrNot
<1>2. getVsolSeriesStateOrPlan(code) = stateOrPlan(found) BY DEF getVsolSeriesStateOrPlan
<1>. HIDE DEF found
<1>3. seriesState(found, chain, gridTime) = stateOrPlan(found)
  <2>1. CASE found.kind = "none" BY <2>1 DEF seriesState, stateOrPlan
  <2>2. CASE found.kind = "planned" BY <1>1, <2>2 DEF seriesState, stateOrPlan
  <2>3. CASE found.kind = "listed"
    BY <1>1, <2>3 DEF seriesState, stateOrPlan, verifyVsolSeriesState
  <2>. QED BY <1>1, <2>1, <2>2, <2>3
<1>. QED BY <1>2, <1>3 DEF found

(* What the catalog holds is, as long as nothing has moved, what a quote   *)
(* would find now.                                                         *)
CatalogIsCurrent ==
  /\ catalog.at \in {"away", "price", "accounts", "done"}
  /\ "at" \in DOMAIN catalog
  /\ catalog.at # "away" => "stale" \in DOMAIN catalog
  /\ catalog.at \in {"price", "accounts"} /\ ~catalog.stale => catalog.now = gridTime
  /\ catalog.at = "price" /\ ~catalog.stale => catalog.discovered = DOMAIN chain
  /\ catalog.at = "accounts" /\ ~catalog.stale =>
       \A code \in Codes : catalog.found[code] = resolveOrPlan(code, DOMAIN chain, spot, gridTime)
  /\ CatalogAgreesWithQuotes

SlotsInv ==
  /\ Listed(DOMAIN chain)
  /\ spot \in Nat
  /\ CatalogIsCurrent

(* At the start the catalog was read just now.                             *)
LEMMA SlotsInvInit == SlotsInit => SlotsInv
<1>. SUFFICES ASSUME SlotsInit PROVE SlotsInv OBVIOUS
<1>1. DOMAIN chain = {} BY DEF SlotsInit
<1>2. Listed(DOMAIN chain) BY <1>1, FS_EmptySet DEF Listed
<1>3. spot \in Nat BY SlotsAssumption DEF SlotsInit, Unavailable
<1>4. CatalogIsCurrent BY DEF SlotsInit, CatalogIsCurrent, CatalogAgreesWithQuotes
<1>. QED BY <1>2, <1>3, <1>4 DEF SlotsInv

(* What moves marks the catalog stale, and then nothing is claimed of it.  *)
LEMMA StaleClaimsNothing ==
  ASSUME CatalogIsCurrent, Stale PROVE CatalogIsCurrent'
<1>1. CASE catalog.at = "away"
  BY <1>1 DEF Stale, CatalogIsCurrent, CatalogAgreesWithQuotes
<1>2. CASE catalog.at # "away"
  <2>1. catalog' = [catalog EXCEPT !.stale = TRUE] BY <1>2 DEF Stale
  <2>2. {"at", "stale"} \subseteq DOMAIN catalog BY <1>2 DEF CatalogIsCurrent
  <2>3. catalog'.stale /\ DOMAIN catalog' = DOMAIN catalog BY <2>1, <2>2
  <2>4. catalog'.at = catalog.at BY <2>1, <2>2
  <2>. QED BY <2>2, <2>3, <2>4 DEF CatalogIsCurrent, CatalogAgreesWithQuotes
<1>. QED BY <1>1, <1>2

(* Nothing a resolution reads has changed, so it comes out the same.       *)
LEMMA UnmovedSlots ==
  ASSUME UNCHANGED <<gridTime, symbol, chain, spot>>, NEW code
  PROVE  /\ resolveOrPlan(code, DOMAIN chain, spot, gridTime)'
              = resolveOrPlan(code, DOMAIN chain, spot, gridTime)
         /\ getVsolSeriesStateOrPlan(code)' = getVsolSeriesStateOrPlan(code)
BY DEF getVsolSeriesStateOrPlan, stateOrPlan, resolveOrPlan, resolveSlot,
       deriveLaunchSeriesParams, resolveExpiry, slot

(* A new reading, a listing and the clock keep it.                         *)
LEMMA SlotsInvNext == SlotsInv /\ [SlotsNext]_slotVars => SlotsInv'
<1>. SUFFICES ASSUME SlotsInv, [SlotsNext]_slotVars PROVE SlotsInv' OBVIOUS
<1>. USE DEF SlotsInv
<1>1. CASE Scan
  <2>1. UNCHANGED <<gridTime, chain, spot>> BY <1>1 DEF Scan
  <2>2. catalog' = [at |-> "price", now |-> gridTime, discovered |-> DOMAIN chain, stale |-> FALSE]
    BY <1>1 DEF Scan
  <2>3. CatalogIsCurrent' BY <2>1, <2>2 DEF CatalogIsCurrent, CatalogAgreesWithQuotes
  <2>. QED BY <2>1, <2>3
<1>2. CASE Price
  <2>1. UNCHANGED <<gridTime, symbol, chain, spot>> /\ catalog.at = "price" BY <1>2 DEF Price
  <2>2. catalog' = [at |-> "accounts", now |-> catalog.now, stale |-> catalog.stale,
                    found |-> [code \in Codes |->
                                 resolveOrPlan(code, catalog.discovered, spot, catalog.now)]]
    BY <1>2 DEF Price
  <2>. DEFINE slots == [code \in Codes |->
                          resolveOrPlan(code, catalog.discovered, spot, catalog.now)]
  <2>3. /\ catalog'.at = "accounts" /\ "at" \in DOMAIN catalog' /\ "stale" \in DOMAIN catalog'
        /\ catalog'.stale = catalog.stale /\ catalog'.now = catalog.now /\ catalog'.found = slots
    <3>. HIDE DEF slots
    <3>1. catalog' = [at |-> "accounts", now |-> catalog.now, stale |-> catalog.stale,
                      found |-> slots]
      BY <2>2 DEF slots
    <3>. QED BY <3>1
  <2>4. ~catalog.stale => catalog.now = gridTime /\ catalog.discovered = DOMAIN chain
    BY <2>1 DEF CatalogIsCurrent
  <2>5. ASSUME ~catalog'.stale, NEW code \in Codes
        PROVE  catalog'.found[code] = resolveOrPlan(code, DOMAIN chain, spot, gridTime)'
    <3>1. catalog'.found[code] = resolveOrPlan(code, DOMAIN chain, spot, gridTime)
      BY <2>3, <2>4, <2>5
    <3>. QED BY <2>1, <3>1, UnmovedSlots
  <2>6. CatalogIsCurrent' BY <2>1, <2>3, <2>4, <2>5 DEF CatalogIsCurrent, CatalogAgreesWithQuotes
  <2>. QED BY <2>1, <2>6
<1>3. CASE getVsolSeriesStates
  <2>. DEFINE answers == [code \in Codes |-> seriesState(catalog.found[code], chain, gridTime)]
  <2>1. /\ UNCHANGED <<gridTime, symbol, chain, spot>> /\ catalog.at = "accounts"
        /\ catalog' = [at |-> "done", stale |-> catalog.stale, states |-> answers]
    BY <1>3 DEF getVsolSeriesStates
  <2>2. /\ catalog'.at = "done" /\ "at" \in DOMAIN catalog' /\ "stale" \in DOMAIN catalog'
        /\ catalog'.stale = catalog.stale /\ catalog'.states = answers
    <3>. HIDE DEF answers
    <3>. QED BY <2>1
  <2>3. ASSUME ~catalog'.stale, NEW code \in Codes
        PROVE  catalog'.states[code] = getVsolSeriesStateOrPlan(code)'
    <3>1. catalog.found[code] = resolveOrPlan(code, DOMAIN chain, spot, gridTime)
      BY <2>1, <2>2, <2>3 DEF CatalogIsCurrent
    <3>2. catalog'.states[code] = getVsolSeriesStateOrPlan(code)
      BY <2>2, <3>1, ReadersAgree
    <3>. QED BY <2>1, <3>2, UnmovedSlots
  <2>4. CatalogIsCurrent' BY <2>1, <2>2, <2>3 DEF CatalogIsCurrent, CatalogAgreesWithQuotes
  <2>. QED BY <2>1, <2>4
<1>4. CASE GridTick
  BY <1>4, StaleClaimsNothing DEF GridTick
<1>5. CASE SpotMoves
  BY <1>5, StaleClaimsNothing, SlotsAssumption DEF SpotMoves, Unavailable
<1>6. ASSUME NEW code \in Codes, NEW strike \in Strikes, ListMarket(code, strike) PROVE SlotsInv'
  <2>. DEFINE m == [expiry |-> computeExpiryGrid(gridTime)[code], strike |-> strike]
  <2>1. /\ Stale /\ UNCHANGED spot
        /\ DOMAIN chain' = DOMAIN chain \union {m}
    BY <1>6 DEF ListMarket, Change
  <2>2. m = [expiry |-> m.expiry, strike |-> m.strike] /\ m.strike \in Nat
    BY SlotsAssumption
  <2>. HIDE DEF m
  <2>3. Listed(DOMAIN chain)' BY <2>1, <2>2, FS_AddElement DEF Listed
  <2>. QED BY <2>1, <2>3, StaleClaimsNothing
<1>7. ASSUME NEW m \in DOMAIN chain, BindMarket(m) \/ EndMarket(m) PROVE SlotsInv'
  <2>1. Stale /\ UNCHANGED spot /\ DOMAIN chain' = DOMAIN chain
    BY <1>7 DEF BindMarket, EndMarket, Change
  <2>. QED BY <2>1, StaleClaimsNothing
<1>8. CASE UNCHANGED slotVars
  <2>1. UNCHANGED <<gridTime, symbol, chain, spot, catalog>> BY <1>8 DEF slotVars
  <2>2. \A code \in Codes :
          /\ resolveOrPlan(code, DOMAIN chain, spot, gridTime)'
               = resolveOrPlan(code, DOMAIN chain, spot, gridTime)
          /\ getVsolSeriesStateOrPlan(code)' = getVsolSeriesStateOrPlan(code)
    BY <2>1, UnmovedSlots
  <2>3. CatalogIsCurrent' BY <2>1, <2>2 DEF CatalogIsCurrent, CatalogAgreesWithQuotes
  <2>. QED BY <2>1, <2>3
<1>. QED BY <1>1, <1>2, <1>3, <1>4, <1>5, <1>6, <1>7, <1>8 DEF SlotsNext

(* A series the catalog lists as open is the one a quote resolves to, for  *)
(* any strikes and spots: the nearest strike is taken, else the lower      *)
(* median of those that qualify, which exists (vsol-series.ts, vsol-       *)
(* server.ts).                                                             *)
THEOREM CatalogAgreesWithQuotesHolds == SlotsSpec => []CatalogAgreesWithQuotes
<1>1. SlotsSpec => []SlotsInv BY SlotsInvInit, SlotsInvNext, PTL DEF SlotsSpec
<1>. QED BY <1>1, PTL DEF SlotsInv, CatalogIsCurrent

----------------------------------------------------------------------------
(* The heartbeat.                                                          *)

(* Who wrote the feed and when; what is under way was stamped by a runner  *)
(* that ran then.                                                          *)
FeedIsDated ==
  /\ heartbeat \in [exists : BOOLEAN, publisher : Keys \union {NoKey}, publishedAt : Nat]
  /\ ~heartbeat.exists => heartbeat.publisher = NoKey
  /\ heartbeat.publisher \in Keys => heartbeat.publishedAt <= lastUp[heartbeat.publisher]
  /\ \A b \in beats : b.key \in Keys /\ b.observedAt \in Nat /\ b.observedAt <= lastUp[b.key]

(* A lane runs only in a process, whose key is known to be up now.         *)
RunnerIsUp ==
  /\ runner \in [at : {"down", "starting", "lanes"}, key : Keys \union {NoKey}]
  /\ lane \in [at : {"idle", "paused", "reading", "sending", "done"}, since : Nat, observedAt : Nat]
  /\ Running => runner.key \in Keys /\ lastUp[runner.key] = moment
  /\ lane.at \in {"paused", "reading", "sending"} => Running
  /\ runner.at = "lanes" => lane.at \in {"paused", "reading", "sending"}
  /\ lane.at = "sending" => lane.since <= lane.observedAt

(* A pass takes its bounded time and a wait its interval, so the last beat *)
(* that landed is as many passes and waits away as have been missed.       *)
LaneKeepsPace ==
  /\ missed \in 0 .. Unknown
  /\ runner.at = "starting" => missed = Unknown
  /\ runner.at = "lanes" /\ missed # Unknown => heartbeat.exists
  /\ lane.at = "paused" => lane.since <= moment /\ moment <= lane.since + HEARTBEAT_INTERVAL
  /\ lane.at \in {"reading", "sending"} => lane.since <= moment /\ moment <= lane.since + MaxPass
  /\ runner.at = "lanes" /\ missed = 0 =>
       /\ lane.at = "paused" => lane.since <= heartbeat.publishedAt + MaxPass
       /\ lane.at # "paused" => lane.since <= heartbeat.publishedAt + MaxPass + HEARTBEAT_INTERVAL
  /\ runner.at = "lanes" /\ missed = 1 =>
       /\ lane.at = "paused" =>
            lane.since <= heartbeat.publishedAt + 2 * MaxPass + HEARTBEAT_INTERVAL
       /\ lane.at # "paused" =>
            lane.since <= heartbeat.publishedAt + 2 * MaxPass + 2 * HEARTBEAT_INTERVAL

ReadinessInv ==
  /\ moment \in Nat /\ oracleAuthority \in Keys
  /\ lastUp \in [Keys -> Nat] /\ \A k \in Keys : lastUp[k] <= moment
  /\ heartbeat.publishedAt <= moment
  /\ FeedIsDated /\ RunnerIsUp /\ LaneKeepsPace

(* At the start no feed exists and no runner runs.                         *)
LEMMA ReadinessInvInit == ReadinessInit => ReadinessInv
<1>. SUFFICES ASSUME ReadinessInit PROVE ReadinessInv OBVIOUS
<1>. USE HeartbeatAssumption DEF ReadinessInit
<1>1. FeedIsDated BY DEF FeedIsDated, NoFeed
<1>2. RunnerIsUp BY DEF RunnerIsUp, Running, Down, NoPass
<1>3. LaneKeepsPace BY DEF LaneKeepsPace, Unknown, Down, NoPass
<1>. QED BY <1>1, <1>2, <1>3 DEF ReadinessInv, NoFeed

(* What was stamped stays within what the runners' last times allow, which *)
(* only move on.                                                           *)
LEMMA StampsStayGood ==
  ASSUME FeedIsDated, UNCHANGED heartbeat, beats' \subseteq beats,
         lastUp \in [Keys -> Nat], lastUp' \in [Keys -> Nat],
         \A k \in Keys : lastUp[k] <= lastUp'[k]
  PROVE  FeedIsDated'
<1>1. ASSUME NEW b \in beats
      PROVE  b.key \in Keys /\ b.observedAt \in Nat /\ b.observedAt <= lastUp'[b.key]
  <2>1. b.key \in Keys /\ b.observedAt \in Nat /\ b.observedAt <= lastUp[b.key]
    BY DEF FeedIsDated
  <2>2. lastUp[b.key] \in Nat /\ lastUp'[b.key] \in Nat BY <2>1
  <2>. QED BY <2>1, <2>2
<1>2. ASSUME heartbeat.publisher \in Keys
      PROVE  heartbeat.publishedAt <= lastUp'[heartbeat.publisher]
  <2>1. heartbeat.publishedAt \in Nat /\ heartbeat.publishedAt <= lastUp[heartbeat.publisher]
    BY <1>2 DEF FeedIsDated
  <2>2. lastUp[heartbeat.publisher] \in Nat /\ lastUp'[heartbeat.publisher] \in Nat BY <1>2
  <2>. QED BY <1>2, <2>1, <2>2
<1>. QED BY <1>1, <1>2 DEF FeedIsDated

(* Every step of the lane, the process, the chain and the clock keeps it.  *)
LEMMA ReadinessInvNext == ReadinessInv /\ [ReadinessNext]_readinessVars => ReadinessInv'
<1>. SUFFICES ASSUME ReadinessInv, [ReadinessNext]_readinessVars PROVE ReadinessInv' OBVIOUS
<1>. USE HeartbeatAssumption DEF ReadinessInv, Unknown
<1>1. CASE ReadinessTick
  <2>1. /\ moment' = moment + 1 /\ beats' \subseteq beats
        /\ lastUp' = IF Running THEN [lastUp EXCEPT ![runner.key] = moment'] ELSE lastUp
        /\ UNCHANGED <<oracleAuthority, heartbeat, runner, lane, missed>>
    BY <1>1 DEF ReadinessTick
  <2>2. /\ lastUp' \in [Keys -> Nat]
        /\ \A k \in Keys : lastUp[k] <= lastUp'[k] /\ lastUp'[k] <= moment'
        /\ Running => lastUp'[runner.key] = moment'
    BY <2>1 DEF RunnerIsUp
  <2>3. FeedIsDated' BY <2>1, <2>2, StampsStayGood
  <2>4. RunnerIsUp' BY <2>1, <2>2 DEF RunnerIsUp, Running
  <2>5. LaneKeepsPace' BY <1>1, <2>1 DEF ReadinessTick, LaneKeepsPace, RunnerIsUp, FeedIsDated
  <2>6. heartbeat'.publishedAt <= moment' BY <2>1 DEF FeedIsDated
  <2>. QED BY <2>1, <2>2, <2>3, <2>4, <2>5, <2>6
<1>2. CASE update_config
  <2>1. /\ oracleAuthority' \in Keys
        /\ UNCHANGED <<moment, heartbeat, runner, lane, beats, lastUp, missed>>
    BY <1>2 DEF update_config
  <2>. QED BY <2>1 DEF FeedIsDated, RunnerIsUp, Running, LaneKeepsPace
<1>3. CASE InitHeartbeatFeed
  <2>1. /\ heartbeat' = [exists |-> TRUE, publisher |-> NoKey, publishedAt |-> 0]
        /\ UNCHANGED <<moment, oracleAuthority, runner, lane, beats, lastUp, missed>>
    BY <1>3 DEF InitHeartbeatFeed, init_custom_price_feed, NoFeed
  <2>2. ~heartbeat.exists BY <1>3 DEF InitHeartbeatFeed
  <2>3. FeedIsDated' BY <2>1 DEF FeedIsDated
  <2>4. RunnerIsUp' BY <2>1 DEF RunnerIsUp, Running
  <2>5. LaneKeepsPace' BY <2>1, <2>2 DEF LaneKeepsPace
  <2>. QED BY <2>1, <2>3, <2>4, <2>5
<1>4. ASSUME NEW k \in Keys, initializeRunner(k) PROVE ReadinessInv'
  <2>1. /\ runner' = [at |-> "starting", key |-> k]
        /\ lane' = [at |-> "reading", since |-> moment, observedAt |-> 0]
        /\ lastUp' = [lastUp EXCEPT ![k] = moment]
        /\ missed' = 2
        /\ UNCHANGED <<moment, oracleAuthority, heartbeat, beats>>
    BY <1>4 DEF initializeRunner, NoPass
  <2>2. /\ lastUp' \in [Keys -> Nat] /\ lastUp'[k] = moment
        /\ \A j \in Keys : lastUp[j] <= lastUp'[j] /\ lastUp'[j] <= moment
    <3>1. \A j \in Keys : lastUp'[j] = IF j = k THEN moment ELSE lastUp[j] BY <2>1
    <3>2. \A j \in Keys : lastUp[j] \in Nat /\ lastUp[j] <= moment OBVIOUS
    <3>3. lastUp' \in [Keys -> Nat] BY <2>1
    <3>. QED BY <3>1, <3>2, <3>3
  <2>3. FeedIsDated'
    <3>1. UNCHANGED heartbeat /\ beats' \subseteq beats BY <2>1
    <3>. QED BY <2>2, <3>1, StampsStayGood
  <2>4. RunnerIsUp' BY <2>1, <2>2 DEF RunnerIsUp, Running
  <2>5. LaneKeepsPace' BY <2>1 DEF LaneKeepsPace
  <2>. QED BY <2>1, <2>2, <2>3, <2>4, <2>5
<1>5. CASE Begin
  <2>1. /\ runner.at = "starting" /\ runner' = [runner EXCEPT !.at = "lanes"]
        /\ lane' = [at |-> "reading", since |-> moment, observedAt |-> 0]
        /\ UNCHANGED <<moment, oracleAuthority, heartbeat, beats, lastUp, missed>>
    BY <1>5 DEF Begin, NoPass
  <2>2. FeedIsDated' BY <2>1 DEF FeedIsDated
  <2>3. RunnerIsUp' BY <2>1 DEF RunnerIsUp, Running
  <2>4. LaneKeepsPace' BY <2>1 DEF LaneKeepsPace, RunnerIsUp
  <2>. QED BY <2>1, <2>2, <2>3, <2>4
<1>6. CASE RunnerCrash
  <2>1. /\ runner' = [at |-> "down", key |-> NoKey]
        /\ lane' = [at |-> "idle", since |-> 0, observedAt |-> 0]
        /\ UNCHANGED <<moment, oracleAuthority, heartbeat, beats, lastUp, missed>>
    BY <1>6 DEF RunnerCrash, Down, NoPass
  <2>. QED BY <2>1 DEF FeedIsDated, RunnerIsUp, Running, LaneKeepsPace
<1>7. CASE runHeartbeatPass
  <2>1. /\ lane.at = "paused" /\ lane' = [at |-> "reading", since |-> moment, observedAt |-> 0]
        /\ UNCHANGED <<moment, oracleAuthority, heartbeat, runner, beats, lastUp, missed>>
    BY <1>7 DEF runHeartbeatPass, NoPass
  <2>2. FeedIsDated' BY <2>1 DEF FeedIsDated
  <2>3. RunnerIsUp' BY <2>1 DEF RunnerIsUp, Running
  <2>4. LaneKeepsPace' BY <2>1 DEF LaneKeepsPace, RunnerIsUp, FeedIsDated
  <2>. QED BY <2>1, <2>2, <2>3, <2>4
<1>8. CASE publishHeartbeat
  <2>1. /\ lane.at = "reading" /\ lane' = [lane EXCEPT !.at = "sending", !.observedAt = moment]
        /\ beats' = beats \union {[key |-> runner.key, observedAt |-> moment]}
        /\ UNCHANGED <<moment, oracleAuthority, heartbeat, runner, lastUp, missed>>
    BY <1>8 DEF publishHeartbeat
  <2>2. FeedIsDated' BY <2>1 DEF FeedIsDated, RunnerIsUp
  <2>3. RunnerIsUp' BY <2>1 DEF RunnerIsUp, Running, LaneKeepsPace
  <2>4. LaneKeepsPace' BY <2>1 DEF LaneKeepsPace, RunnerIsUp
  <2>. QED BY <2>1, <2>2, <2>3, <2>4
<1>9. ASSUME NEW b \in beats, BeatLands(b) PROVE ReadinessInv'
  <2>1. /\ heartbeat' = [exists |-> TRUE, publisher |-> b.key, publishedAt |-> b.observedAt]
        /\ beats' \subseteq beats
        /\ b.observedAt <= moment /\ b.observedAt >= heartbeat.publishedAt
        /\ UNCHANGED <<moment, oracleAuthority, runner, lastUp>>
    BY <1>9 DEF BeatLands, update_custom_price_feed, Written
  <2>2. b.key \in Keys /\ b.observedAt \in Nat BY DEF FeedIsDated
  <2>3. FeedIsDated' BY <2>1, <2>2 DEF FeedIsDated
  <2>4. heartbeat'.publishedAt <= moment' BY <2>1
  <2>5. CASE Awaited(b)
    <3>1. /\ lane.at = "sending" /\ b.observedAt = lane.observedAt
          /\ createFixedIntervalLane
          /\ missed' = IF runner.at = "lanes" THEN 0 ELSE missed
      BY <1>9, <2>5 DEF BeatLands, Awaited
    <3>2. IF runner.at = "lanes" THEN lane' = [at |-> "paused", since |-> moment, observedAt |-> 0]
          ELSE lane' = [at |-> "done", since |-> 0, observedAt |-> 0]
      BY <3>1 DEF createFixedIntervalLane, NoPass
    <3>3. RunnerIsUp' BY <2>1, <3>1, <3>2 DEF RunnerIsUp, Running
    <3>4. LaneKeepsPace'
      <4>1. moment <= b.observedAt + MaxPass
        BY <2>2, <3>1 DEF LaneKeepsPace, RunnerIsUp
      <4>. QED BY <2>1, <2>2, <3>1, <3>2, <4>1 DEF LaneKeepsPace, RunnerIsUp
    <3>. QED BY <2>1, <2>3, <2>4, <3>3, <3>4
  <2>6. CASE ~Awaited(b)
    <3>1. UNCHANGED <<lane, missed>> BY <1>9, <2>6 DEF BeatLands
    <3>2. RunnerIsUp' BY <2>1, <3>1 DEF RunnerIsUp, Running
    <3>3. LaneKeepsPace' BY <2>1, <2>2, <3>1 DEF LaneKeepsPace, RunnerIsUp, FeedIsDated
    <3>. QED BY <2>1, <2>3, <2>4, <3>2, <3>3
  <2>. QED BY <2>5, <2>6
<1>10. CASE PassFails
  <2>1. /\ lane.at \in {"reading", "sending"}
        /\ missed' = IF missed = 2 THEN 2 ELSE missed + 1
        /\ UNCHANGED <<moment, oracleAuthority, heartbeat, runner, beats, lastUp>>
    BY <1>10 DEF PassFails
  <2>2. IF runner.at = "lanes" THEN lane' = [at |-> "paused", since |-> moment, observedAt |-> 0]
        ELSE lane' = [at |-> "done", since |-> 0, observedAt |-> 0]
    BY <1>10 DEF PassFails, createFixedIntervalLane, NoPass
  <2>3. FeedIsDated' BY <2>1 DEF FeedIsDated
  <2>4. RunnerIsUp' BY <2>1, <2>2 DEF RunnerIsUp, Running
  <2>5. LaneKeepsPace' BY <2>1, <2>2 DEF LaneKeepsPace, RunnerIsUp, FeedIsDated
  <2>. QED BY <2>1, <2>3, <2>4, <2>5
<1>11. CASE SettleInterest \/ POST \/ UNCHANGED readinessVars
  <2>1. UNCHANGED <<moment, oracleAuthority, heartbeat, runner, lane, beats, lastUp, missed>>
    BY <1>11 DEF SettleInterest, POST, readinessVars
  <2>. QED BY <2>1 DEF FeedIsDated, RunnerIsUp, Running, LaneKeepsPace
<1>. QED
  BY <1>1, <1>2, <1>3, <1>4, <1>5, <1>6, <1>7, <1>8, <1>9, <1>10, <1>11 DEF ReadinessNext

(* While quotes count on the runner, the runner ran less than the allowed  *)
(* age ago or the heartbeat says so (vsol-execution-readiness.ts, oracle-  *)
(* runner heartbeat lane): for any durations that leave room for two waits *)
(* and three passes.                                                       *)
THEOREM HeartbeatIsHonestHolds == ReadinessSpec => []HeartbeatIsHonest
<1>1. ReadinessSpec => []ReadinessInv
  BY ReadinessInvInit, ReadinessInvNext, PTL DEF ReadinessSpec
<1>2. ReadinessInv => HeartbeatIsHonest
  <2>. SUFFICES ASSUME ReadinessInv PROVE HeartbeatIsHonest OBVIOUS
  <2>. USE HeartbeatAssumption DEF ReadinessInv
  <2>1. ASSUME getVsolExecutionReadiness
        PROVE  moment <= lastUp[oracleAuthority] + HEARTBEAT_MAX_AGE
    BY <2>1 DEF getVsolExecutionReadiness, assessHeartbeatFeed, FeedIsDated
  <2>2. ASSUME runner.at = "lanes", missed <= 1, heartbeat.publisher = oracleAuthority
        PROVE  assessHeartbeatFeed(heartbeat)
    <3>1. heartbeat.exists BY <2>2 DEF FeedIsDated
    <3>2. moment <= heartbeat.publishedAt + 2 * HEARTBEAT_INTERVAL + 3 * MaxPass
      BY <2>2 DEF LaneKeepsPace, RunnerIsUp, FeedIsDated, Unknown
    <3>. QED BY <2>2, <3>1, <3>2 DEF assessHeartbeatFeed, FeedIsDated
  <2>. QED BY <2>1, <2>2 DEF HeartbeatIsHonest
<1>. QED BY <1>1, <1>2, PTL
=============================================================================
