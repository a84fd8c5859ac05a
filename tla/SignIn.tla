------------------------------- MODULE SignIn -------------------------------
(***************************************************************************)
(* Signing in with a wallet: the nonce and verify routes                   *)
(* (app/api/auth), the session cookie (app/lib/session.ts,                 *)
(* session-token.ts), and the browser that runs establishWalletSession     *)
(* (app/lib/session-client.ts, TendTerminal.tsx) once per connected        *)
(* address and once more when the user asks.                               *)
(*                                                                         *)
(* Attempts overlap: the user switches wallets while one is under way.  A  *)
(* signature stands for the canonical message of siws.ts: it names the     *)
(* wallet that signed, the wallet the message is about, and the nonce.     *)
(* The network may deliver a verify request twice.                         *)
(***************************************************************************)
EXTENDS Naturals, FiniteSets

CONSTANTS
  Wallets, Nonces, Attempts, Handlers,
  AUTH_NONCE_TTL, NONCE_RETENTION, SESSION_TTL,
  LastNow            \* bound on the clock

VARIABLES
  now,
  authNonces,        \* the table: the rows and what they say
  cookie,            \* the browser's session cookie
  walletAddress,     \* the connected wallet
  sessionWallet,     \* the wallet the browser believes it is signed in as
  attempt,           \* establishWalletSession, where each call is
  sent,              \* the verify requests sent
  handler,           \* the verify route's requests under way
  tokens             \* the session tokens minted

signInVars ==
  <<now, authNonces, cookie, walletAddress, sessionWallet, attempt, sent, handler, tokens>>

None == "none"
NoCookie == [wallet |-> None, expiresAt |-> 0]
Idle == [at |-> "idle", wallet |-> None, nonce |-> None]
Free == [at |-> "free"]

SignInInit ==
  /\ now = 0
  /\ authNonces = [nonce \in {} |-> None]
  /\ cookie = NoCookie
  /\ walletAddress = None
  /\ sessionWallet = None
  /\ attempt = [a \in Attempts |-> Idle]
  /\ sent = {}
  /\ handler = [h \in Handlers |-> Free]
  /\ tokens = {}

Tick ==
  /\ now < LastNow
  /\ now' = now + 1
  /\ UNCHANGED <<authNonces, cookie, walletAddress, sessionWallet, attempt, sent, handler, tokens>>

----------------------------------------------------------------------------
(* The browser.                                                            *)

\* The wallet of a cookie the server still accepts.
readSessionWallet == IF cookie.expiresAt > now THEN cookie.wallet ELSE None

\* The connected address changes: the session is dropped, and an attempt is
\* started for the new address; a disconnect ends the session on the server.
SwitchWallet(wallet) ==
  /\ wallet # walletAddress
  /\ walletAddress' = wallet
  /\ sessionWallet' = None
  /\ IF wallet = None
     THEN /\ cookie' = NoCookie
          /\ UNCHANGED attempt
     ELSE /\ \E a \in Attempts :
               /\ attempt[a] = Idle
               /\ attempt' = [attempt EXCEPT ![a] = [at |-> "start", wallet |-> wallet, nonce |-> None]]
          /\ UNCHANGED cookie
  /\ UNCHANGED <<now, authNonces, sent, handler, tokens>>

\* The user asks to sign in the connected wallet.
signIn(a) ==
  /\ walletAddress # None /\ attempt[a] = Idle
  /\ attempt' = [attempt EXCEPT ![a] = [at |-> "start", wallet |-> walletAddress, nonce |-> None]]
  /\ UNCHANGED <<now, authNonces, cookie, walletAddress, sessionWallet, sent, handler, tokens>>

Active(a) ==
  /\ sessionWallet' = attempt[a].wallet
  /\ attempt' = [attempt EXCEPT ![a] = Idle]

\* A failed attempt drops a session of another wallet (the silent one), or any.
Failed(a) ==
  /\ sessionWallet' \in {IF sessionWallet = attempt[a].wallet THEN sessionWallet ELSE None, None}
  /\ attempt' = [attempt EXCEPT ![a] = Idle]

\* GET /api/auth/session: is the cookie already this wallet's?
CheckSession(a) ==
  /\ attempt[a].at = "start"
  /\ IF readSessionWallet = attempt[a].wallet
     THEN Active(a)
     ELSE /\ attempt' = [attempt EXCEPT ![a].at = "nonce"]
          /\ UNCHANGED sessionWallet
  /\ UNCHANGED <<now, authNonces, cookie, walletAddress, sent, handler, tokens>>

\* POST /api/auth/nonce: rows long expired are deleted, a fresh one inserted.
IssueNonce(a) ==
  /\ attempt[a].at = "nonce"
  /\ \E nonce \in Nonces :
       LET kept == {n \in DOMAIN authNonces : authNonces[n].expiresAt + NONCE_RETENTION >= now}
       IN /\ \A r \in Attempts : attempt[r].nonce # nonce
          /\ \A request \in sent : request.nonce # nonce
          /\ nonce \notin DOMAIN authNonces
          /\ authNonces' = [n \in kept \union {nonce} |->
                              IF n = nonce THEN [expiresAt |-> now + AUTH_NONCE_TTL, used |-> FALSE]
                                           ELSE authNonces[n]]
          /\ attempt' = [attempt EXCEPT ![a].nonce = nonce, ![a].at = "sign"]
  /\ UNCHANGED <<now, cookie, walletAddress, sessionWallet, sent, handler, tokens>>

\* The wallet that is connected now signs the message about the attempt's wallet.
Sign(a) ==
  /\ attempt[a].at = "sign" /\ walletAddress # None
  /\ sent' = sent \union {[wallet |-> attempt[a].wallet, nonce |-> attempt[a].nonce,
                           signer |-> walletAddress]}
  /\ attempt' = [attempt EXCEPT ![a].at = "verify"]
  /\ UNCHANGED <<now, authNonces, cookie, walletAddress, sessionWallet, handler, tokens>>

\* A request fails, the user declines to sign, or a response is lost.
GiveUp(a) ==
  /\ attempt[a].at \in {"nonce", "sign", "verify"}
  /\ Failed(a)
  /\ UNCHANGED <<now, authNonces, cookie, walletAddress, sent, handler, tokens>>

\* The verify response arrives: the cookie is set, then the session is.
ReceiveSession(a) ==
  /\ attempt[a].at = "verify"
  /\ \E token \in tokens :
       /\ token.nonce = attempt[a].nonce /\ token.wallet = attempt[a].wallet
       /\ cookie' = [wallet |-> token.wallet, expiresAt |-> token.expiresAt]
  /\ Active(a)
  /\ UNCHANGED <<now, authNonces, walletAddress, sent, handler, tokens>>

\* A route answered 401: the browser drops its session.
onSessionExpired ==
  /\ readSessionWallet = None /\ sessionWallet # None
  /\ sessionWallet' = None
  /\ UNCHANGED <<now, authNonces, cookie, walletAddress, attempt, sent, handler, tokens>>

----------------------------------------------------------------------------
(* POST /api/auth/verify.                                                  *)

IsUsable(record) == ~record.used /\ record.expiresAt > now

\* The row is read, and the signature checked over the wallet and the row.
ReadNonce(h, request) ==
  /\ handler[h] = Free
  /\ request \in sent
  /\ request.nonce \in DOMAIN authNonces /\ IsUsable(authNonces[request.nonce])
  /\ request.signer = request.wallet
  /\ handler' = [handler EXCEPT ![h] = [at |-> "read", request |-> request]]
  /\ UNCHANGED <<now, authNonces, cookie, walletAddress, sessionWallet, attempt, sent, tokens>>

Consumable_AnyRow(nonce) == nonce \in DOMAIN authNonces \* mutant: the update does not ask for an unused row

\* The one update that finds the nonce unused mints the session.
Consumable(nonce) == nonce \in DOMAIN authNonces /\ ~authNonces[nonce].used

ConsumeNonce(h) ==
  LET request == handler[h].request
  IN /\ handler[h].at = "read"
     /\ IF Consumable(request.nonce)
        THEN /\ authNonces' = [authNonces EXCEPT ![request.nonce].used = TRUE]
             /\ tokens' = tokens \union {[id |-> Cardinality(tokens), wallet |-> request.wallet,
                                          nonce |-> request.nonce, expiresAt |-> now + SESSION_TTL]}
        ELSE UNCHANGED <<authNonces, tokens>>
     /\ handler' = [handler EXCEPT ![h] = Free]
     /\ UNCHANGED <<now, cookie, walletAddress, sessionWallet, attempt, sent>>

SignInNext ==
  \/ Tick \/ onSessionExpired
  \/ \E wallet \in Wallets \union {None} : SwitchWallet(wallet)
  \/ \E a \in Attempts :
       signIn(a) \/ CheckSession(a) \/ IssueNonce(a) \/ Sign(a) \/ GiveUp(a) \/ ReceiveSession(a)
  \/ \E h \in Handlers : \E request \in sent : ReadNonce(h, request)
  \/ \E h \in Handlers : ConsumeNonce(h)

SignInSpec == SignInInit /\ [][SignInNext]_signInVars

----------------------------------------------------------------------------
(* A nonce mints at most one session however many requests carry it, and   *)
(* only for a wallet that signed it (verify/route.ts:58-64); the browser   *)
(* takes itself for signed in only as a wallet a session was minted for.   *)
SessionsAreProven ==
  /\ \A s, t \in tokens : s.nonce = t.nonce => s = t
  /\ \A t \in tokens : [wallet |-> t.wallet, nonce |-> t.nonce, signer |-> t.wallet] \in sent
  /\ sessionWallet # None => \E t \in tokens : t.wallet = sessionWallet
=============================================================================
