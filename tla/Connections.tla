----------------------------- MODULE Connections -----------------------------
(* ProviderConnectionRegistry with its credential vault and the Google OAuth flow: *)
(* one owner's API key, custom endpoint and Google account.  The calls that wait   *)
(* for a provider (token exchange, token refresh, endpoint probe) are cut there.   *)
EXTENDS Naturals, FiniteSets

CONSTANTS ConnCalls,     \* requests that may be in flight together
          OAuthStates,   \* state values of the OAuth attempts
          MaxSecrets     \* bound: secrets ever put into the vault

ASSUME ConnAssumption == MaxSecrets \in Nat

VARIABLES vault,       \* the secrets stored: 1..MaxSecrets
          minted,      \* how many were ever put
          fresh,       \* the Google tokens that have not expired
          configured,  \* the API provider: 0, a secret, or EnvReference
          custom,      \* the custom endpoint: 0 or its secret
          customHealth,\* its health record
          account,     \* googleAccounts: 0 or a secret
          oauth,       \* OAuth attempts: state -> "new" | "open" | "used"
          exchanges,   \* history: token exchanges sent per state
          inFlight     \* ConnCalls -> the request

connVars == <<vault, minted, fresh, configured, custom, customHealth, account, oauth,
              exchanges, inFlight>>
connRest == <<vault, minted, fresh, configured, custom, customHealth, account, oauth, exchanges>>

EnvReference == MaxSecrets + 1
NoCall == [kind |-> "none", ref |-> 0]

ConnInit ==
  /\ vault = {} /\ minted = 0 /\ fresh = {}
  /\ configured = 0 /\ custom = 0 /\ customHealth = "NONE" /\ account = 0
  /\ oauth = [s \in OAuthStates |-> "new"]
  /\ exchanges = [s \in OAuthStates |-> 0]
  /\ inFlight = [c \in ConnCalls |-> NoCall]

\* vault.put: a fresh reference; vault.remove of an unknown one is a no-op.
Put(removed) == /\ minted < MaxSecrets /\ minted' = minted + 1
                /\ vault' = (vault \cup {minted + 1}) \ removed

ConfigureEnvironment ==
  /\ configured' = EnvReference
  /\ UNCHANGED <<vault, minted, fresh, custom, customHealth, account, oauth, exchanges, inFlight>>

ConfigureVault ==
  /\ Put({}) /\ configured' = minted + 1
  /\ UNCHANGED <<fresh, custom, customHealth, account, oauth, exchanges, inFlight>>

ConfigureCustom ==
  /\ custom = 0
  /\ Put({}) /\ custom' = minted + 1 /\ customHealth' = "CONFIGURED"
  /\ UNCHANGED <<fresh, configured, account, oauth, exchanges, inFlight>>

\* disconnect: of the account, the custom endpoint or the API provider.
Disconnect ==
  /\ \/ account # 0 /\ vault' = vault \ {account} /\ account' = 0
        /\ UNCHANGED <<configured, custom, customHealth>>
     \/ custom # 0 /\ vault' = vault \ {custom} /\ custom' = 0 /\ customHealth' = "NONE"
        /\ UNCHANGED <<configured, account>>
     \/ configured # 0 /\ vault' = vault \ {configured} /\ configured' = 0
        /\ UNCHANGED <<account, custom, customHealth>>
  /\ UNCHANGED <<minted, fresh, oauth, exchanges, inFlight>>

StartOAuth(s) ==
  /\ oauth[s] = "new" /\ oauth' = [oauth EXCEPT ![s] = "open"]
  /\ UNCHANGED <<vault, minted, fresh, configured, custom, customHealth, account, exchanges, inFlight>>

\* GoogleGeminiOAuth.complete: the state is consumed before the exchange is awaited.
ConsumeLate(s) == oauth' = oauth
ConsumeState(s) == oauth' = [oauth EXCEPT ![s] = "used"]
CallbackArrives(c, s) ==
  /\ inFlight[c] = NoCall /\ oauth[s] = "open"
  /\ ConsumeState(s)
  /\ \/ \* the attempt has expired
        UNCHANGED <<exchanges, inFlight>>
     \/ /\ inFlight' = [inFlight EXCEPT ![c] = [kind |-> "exchange", ref |-> 0]]
        /\ exchanges' = [exchanges EXCEPT ![s] = @ + 1]
  /\ UNCHANGED <<vault, minted, fresh, configured, custom, customHealth, account>>

\* completeGoogleOAuth after the exchange: the previous token is removed.
ExchangeDone(c) ==
  /\ inFlight[c].kind = "exchange"
  /\ Put({account}) /\ account' = minted + 1 /\ fresh' = fresh \cup {minted + 1}
  /\ inFlight' = [inFlight EXCEPT ![c] = NoCall]
  /\ UNCHANGED <<configured, custom, customHealth, oauth, exchanges>>

\* testGoogleAccount: a token that is still valid is left as it is.
TestAccount(c) ==
  /\ inFlight[c] = NoCall /\ account # 0 /\ account \in vault \ fresh
  /\ inFlight' = [inFlight EXCEPT ![c] = [kind |-> "refresh", ref |-> account]]
  /\ UNCHANGED connRest

\* refresh after the provider's answer: the new token is put, the old one removed, and the
\* account set to the new one.
RefreshForgets(c) ==
  /\ inFlight[c].kind = "refresh"
  /\ Put({inFlight[c].ref}) /\ account' = account /\ fresh' = fresh \cup {minted + 1}
  /\ inFlight' = [inFlight EXCEPT ![c] = NoCall]
  /\ UNCHANGED <<configured, custom, customHealth, oauth, exchanges>>
RefreshDone(c) ==
  /\ inFlight[c].kind = "refresh"
  /\ Put({inFlight[c].ref}) /\ account' = minted + 1 /\ fresh' = fresh \cup {minted + 1}
  /\ inFlight' = [inFlight EXCEPT ![c] = NoCall]
  /\ UNCHANGED <<configured, custom, customHealth, oauth, exchanges>>

\* testCustom: the secret is read before the endpoint is called.
TestCustom(c) ==
  /\ inFlight[c] = NoCall /\ custom # 0 /\ custom \in vault
  /\ inFlight' = [inFlight EXCEPT ![c] = [kind |-> "probe", ref |-> custom]]
  /\ UNCHANGED connRest

\* remember: the health of the endpoint that was probed.  Every connection has an id of its
\* own, so an answer for one that is gone touches no other.
RememberAny(c, status) ==
  /\ inFlight[c].kind = "probe"
  /\ customHealth' = status
  /\ inFlight' = [inFlight EXCEPT ![c] = NoCall]
  /\ UNCHANGED <<vault, minted, fresh, configured, custom, account, oauth, exchanges>>
Remember(c, status) ==
  /\ inFlight[c].kind = "probe"
  /\ customHealth' = IF inFlight[c].ref = custom THEN status ELSE customHealth
  /\ inFlight' = [inFlight EXCEPT ![c] = NoCall]
  /\ UNCHANGED <<vault, minted, fresh, configured, custom, account, oauth, exchanges>>

CallFails(c) ==
  /\ inFlight[c].kind \in {"exchange", "refresh"}
  /\ inFlight' = [inFlight EXCEPT ![c] = NoCall]
  /\ UNCHANGED connRest

TokenExpires ==
  /\ account \in fresh /\ fresh' = fresh \ {account}
  /\ UNCHANGED <<vault, minted, configured, custom, customHealth, account, oauth, exchanges, inFlight>>

ProbeResults == {"CONNECTED", "AUTHENTICATION_FAILED"}

ConnNext ==
  \/ ConfigureEnvironment \/ ConfigureVault \/ ConfigureCustom \/ Disconnect \/ TokenExpires
  \/ \E s \in OAuthStates : StartOAuth(s)
  \/ \E c \in ConnCalls :
       \/ \E s \in OAuthStates : CallbackArrives(c, s)
       \/ ExchangeDone(c) \/ TestAccount(c) \/ RefreshDone(c) \/ TestCustom(c) \/ CallFails(c)
       \/ \E status \in ProbeResults : Remember(c, status)

ConnSpec == ConnInit /\ [][ConnNext]_connVars

\* The credential references that list and account show; those of the environment name no secret.
ListedReferences == {configured, custom} \ {0, EnvReference}
AccountReference == {account} \ {0}

(* However logins, refreshes and disconnects of the owner interleave, a reference that the  *)
(* connections list shows is one the vault still holds.                                     *)
ReferencesResolve == ListedReferences \cup AccountReference \subseteq vault

(* A state of the OAuth flow is exchanged at most once, even when the callback arrives      *)
(* twice while the first exchange is under way.                                             *)
OAuthStateOnce == \A s \in OAuthStates : exchanges[s] <= 1

(* A probe that answers late says nothing about the endpoint configured since: an endpoint  *)
(* is shown connected only if a probe of its own secret ended so.                           *)
HealthIsOfTheEndpoint ==
  customHealth' \in ProbeResults /\ customHealth' # customHealth =>
     \E c \in ConnCalls : inFlight[c].kind = "probe" /\ inFlight[c].ref = custom

\* The owner's connections while calls to providers are under way.
ConnectionsAreSound ==
  [][UNCHANGED connVars \/ ((ReferencesResolve /\ OAuthStateOnce)' /\ HealthIsOfTheEndpoint)]_connVars
=============================================================================
