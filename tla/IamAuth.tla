------------------------------- MODULE IamAuth -------------------------------
(***************************************************************************)
(* auth/iam-auth.ts: logging in to a database with a token of the AWS CLI. *)
(* The user of a profile and the token of a target are cached; a pool is   *)
(* made for one user, and each of its sessions asks for a token again.     *)
(* Calls that find no cached value each run the CLI.                       *)
(***************************************************************************)
EXTENDS Naturals, FiniteSets

CONSTANTS
  Client,          (* calls that need a pool or one of its sessions        *)
  Iam,             (* the connections with IAM authentication              *)
  Profile, User,   (* AWS profiles and database users                      *)
  settingsOf,      (* host, profile and the users recorded, at most one    *)
  TokenTtl,        (* TOKEN_TTL_MS: 13 minutes                             *)
  Lifetime,        (* what AWS gives a token: 15 minutes                   *)
  CliTimeout,      (* OMNISQL_IAM_TOKEN_TIMEOUT, by default 20 seconds     *)
  ConnectTimeout,  (* connectionTimeoutMillis of the pools, by default 10 s *)
  MaxTime          (* bound of the model: when time stops                  *)

ASSUME IamAssumption ==
    /\ \A k \in Iam : /\ settingsOf[k].profile \in Profile /\ settingsOf[k].users \subseteq User
                      /\ \A u, v \in settingsOf[k].users : u = v
    /\ {TokenTtl, Lifetime, CliTimeout, ConnectTimeout} \subseteq Nat \ {0}
    /\ MaxTime \in Nat

\* IamTarget, which is also the key of tokenCache.
Target(k, u) == [host |-> settingsOf[k].host, profile |-> settingsOf[k].profile, user |-> u]
Targets == {Target(k, u) : k \in Iam, u \in User}
ProfileOf(k) == settingsOf[k].profile

VARIABLES
  now,             (* the clock                                            *)
  identity,        (* who the AWS CLI is, by profile                       *)
  users,           (* usernameCache: no user or one for each profile       *)
  tokens,          (* tokenCache: no token or one for each target          *)
  poolUser,        (* the user the pool of a connection logs in as, if any *)
  login,           (* how far a call has got                               *)
  switched         (* profiles whose identity changed during a look-up     *)

iamVars == <<now, identity, users, tokens, poolUser, login, switched>>

Token == [target : Targets, signed : Nat]
CacheEntry == [token : Token, expires : Nat]
Idle == [step |-> "no", iam |-> {}, user |-> {}, token |-> {}, since |-> 0]

IamInit == /\ now = 0
           /\ identity \in [Profile -> User]
           /\ users = [p \in Profile |-> {}]
           /\ tokens = [t \in Targets |-> {}]
           /\ poolUser = [k \in Iam |-> {}]
           /\ login = [c \in Client |-> Idle]
           /\ switched = {}

-----------------------------------------------------------------------------
\* A token for user u is at hand: a pool is made for u, or a session of the
\* pool begins to log in.
Have(c, k, u, t) ==
    IF poolUser[k] = {}
    THEN /\ poolUser' = [poolUser EXCEPT ![k] = {u}]
         /\ login' = [login EXCEPT ![c] = Idle]
    ELSE /\ login' = [login EXCEPT ![c] = [step |-> "connect", iam |-> {k}, user |-> {u},
                                           token |-> {t}, since |-> now]]
         /\ UNCHANGED poolUser

\* getIamAuthToken: the cached token, or one more run of the CLI.
WantToken(c, k, u) ==
    LET live == {e \in tokens[Target(k, u)] : e.expires > now}
    IN \/ \E e \in live : Have(c, k, u, e.token)
       \/ /\ live = {}
          /\ login' = [login EXCEPT ![c] = [step |-> "mint", iam |-> {k}, user |-> {u},
                                            token |-> {}, since |-> now]]
          /\ UNCHANGED poolUser

\* resolveIamUsername: the recorded user, the cached one, or a run of the CLI.
\* The pool of a connection is made once (pools/connection-pool.ts:104).
Resolve(c, k) ==
    /\ login[c] = Idle
    /\ poolUser[k] = {} => \A d \in Client : k \notin login[d].iam
    /\ LET known == IF settingsOf[k].users # {} THEN settingsOf[k].users ELSE users[ProfileOf(k)]
       IN \/ \E u \in known : WantToken(c, k, u)
          \/ /\ known = {}
             /\ login' = [login EXCEPT ![c] = [step |-> "identity", iam |-> {k}, user |-> {},
                                               token |-> {}, since |-> now]]
             /\ UNCHANGED poolUser
    /\ UNCHANGED <<now, identity, users, tokens, switched>>

\* The CLI says who we are: the user is cached for good.
Identified(c) ==
    /\ login[c].step = "identity"
    /\ \E k \in login[c].iam : LET u == identity[ProfileOf(k)] IN
          /\ users' = [users EXCEPT ![ProfileOf(k)] = {u}]
          /\ WantToken(c, k, u)
    /\ UNCHANGED <<now, identity, tokens, switched>>

\* The CLI signs a token; its lifetime starts.
Signs(c) ==
    /\ login[c].step = "mint"
    /\ \E k \in login[c].iam, u \in login[c].user :
          login' = [login EXCEPT ![c].step = "signed",
                                 ![c].token = {[target |-> Target(k, u), signed |-> now]}]
    /\ UNCHANGED <<now, identity, users, tokens, poolUser, switched>>

CacheFor(c, ttl) ==
    /\ login[c].step = "signed"
    /\ \E k \in login[c].iam, u \in login[c].user, t \in login[c].token :
          /\ tokens' = [tokens EXCEPT ![Target(k, u)] = {[token |-> t, expires |-> now + ttl]}]
          /\ Have(c, k, u, t)
    /\ UNCHANGED <<now, identity, users, switched>>

\* Mutant: the token is cached for as long as AWS accepts it.
MintedForLife(c) == CacheFor(c, Lifetime)

\* The CLI ends with the token: it is cached from now on.
Minted(c) == CacheFor(c, TokenTtl)

\* The CLI fails, says nothing of use or is stopped at its time-out.
CliFails(c) == /\ login[c].step \in {"identity", "mint", "signed"}
               /\ login' = [login EXCEPT ![c] = Idle]
               /\ UNCHANGED <<now, identity, users, tokens, poolUser, switched>>

\* The driver has logged in, or gave up.
LoggedIn(c) == /\ login[c].step = "connect"
               /\ login' = [login EXCEPT ![c] = Idle]
               /\ UNCHANGED <<now, identity, users, tokens, poolUser, switched>>

\* Time passes, but no time-out is missed.
Tick == /\ now < MaxTime
        /\ \A c \in Client :
              /\ login[c].step \in {"identity", "mint", "signed"} => now < login[c].since + CliTimeout
              /\ login[c].step = "connect" => now < login[c].since + ConnectTimeout
        /\ now' = now + 1
        /\ UNCHANGED <<identity, users, tokens, poolUser, login, switched>>

\* Somebody logs in to AWS as somebody else.
SwitchIdentity(p) ==
    /\ \E u \in User \ {identity[p]} : identity' = [identity EXCEPT ![p] = u]
    /\ switched' = switched \cup
           {ProfileOf(k) : k \in {j \in Iam : /\ ProfileOf(j) = p
                                              /\ \E c \in Client : /\ login[c].step = "identity"
                                                                   /\ j \in login[c].iam}}
    /\ UNCHANGED <<now, users, tokens, poolUser, login>>

\* The process ends and is started again; nothing is kept.
IamRestart == /\ users' = [p \in Profile |-> {}]
              /\ tokens' = [t \in Targets |-> {}]
              /\ poolUser' = [k \in Iam |-> {}]
              /\ login' = [c \in Client |-> Idle]
              /\ switched' = {}
              /\ UNCHANGED <<now, identity>>

IamNext == \/ \E c \in Client : \/ \E k \in Iam : Resolve(c, k)
                                \/ Identified(c) \/ Signs(c) \/ Minted(c)
                                \/ CliFails(c) \/ LoggedIn(c)
           \/ Tick
           \/ \E p \in Profile : SwitchIdentity(p)
           \/ IamRestart

IamSpec == IamInit /\ [][IamNext]_iamVars

-----------------------------------------------------------------------------
Login == [step : {"no", "identity", "mint", "signed", "connect"}, iam : SUBSET Iam,
          user : SUBSET User, token : SUBSET Token, since : Nat]

IamTypeOK == /\ now \in Nat
             /\ identity \in [Profile -> User]
             /\ users \in [Profile -> SUBSET User]
             /\ tokens \in [Targets -> SUBSET CacheEntry]
             /\ poolUser \in [Iam -> SUBSET User]
             /\ login \in [Client -> Login]
             /\ switched \subseteq Profile

\* The limits leave room for a log-in in a token's life.  The defaults do;
\* the code takes any limit for the CLI (auth/iam-auth.ts:363) and up to five
\* minutes for the log-in (server.ts:180) and never compares them.
LimitsFit == TokenTtl + CliTimeout + ConnectTimeout <= Lifetime

\* The connection records its user, or the AWS identity of its profile did
\* not change while somebody was asking for it.
OneUser(k) == settingsOf[k].users # {} \/ ProfileOf(k) \notin switched

\* While a driver logs in, its token is no older than the limits make it, so
\* that it has not expired if they fit ("refresh early so in-flight
\* connections never race expiry", auth/iam-auth.ts:21), whatever was cached
\* meanwhile.  It is a token for the connection's host and profile, and for
\* the user the pool was made for, except where the identity changed during a
\* look-up: then the pool keeps the user it was made for and the token is for
\* the one cached later (pools/connection-pool.ts:197).
TokenLive == \A c \in Client : login[c].step = "connect" =>
    \A k \in login[c].iam, t \in login[c].token :
        /\ now < t.signed + TokenTtl + CliTimeout + ConnectTimeout
        /\ LimitsFit => now < t.signed + Lifetime
        /\ \E u \in User : /\ t.target = Target(k, u)
                           /\ OneUser(k) => u \in poolUser[k]

=============================================================================
