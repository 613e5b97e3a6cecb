---------------------------- MODULE DiscogsLink ----------------------------
(***************************************************************************)
(* Connecting a Discogs account (api/api.py, api/services/discogs.py): the *)
(* OAuth 1.0a flow in two requests with the request token kept in Valkey   *)
(* between them, while catalog-setup replaces the application credentials  *)
(* (api/setup.py), other requests of the same or another user run, and the *)
(* user disconnects.  Discogs itself is external: it issues a request      *)
(* token to a whole credential pair, lets somebody approve it, and         *)
(* exchanges it once.                                                      *)
(***************************************************************************)
EXTENDS Integers, FiniteSets

CONSTANTS
    Owners,         \* users of the service
    Accounts,       \* Discogs accounts
    OauthCalls,     \* requests in progress
    MaxFlows,       \* bound: request tokens issued
    MaxSetups,      \* bound: catalog-setup runs
    MaxOauthFaults  \* bound: failures of Discogs and of Valkey

ASSUME OauthBounds == MaxFlows \in Nat /\ MaxSetups \in Nat /\ MaxOauthFaults \in Nat
ASSUME OwnersAreUsers == {"nobody", "unnamed"} \cap Owners = {}

VARIABLES
    app_config,     \* the credential pair stored, its number and whether it can be decrypted
    oauth_state,    \* oauth_state[s]: whom the stored state of request token s names
    issued,         \* issued[s]: Discogs' record of request token s (by: history, whom it named)
    oauth_tokens,   \* oauth_tokens[u]: the connection of user u
    oauthCall,      \* oauthCall[c]: a request
    flowsSpent,          \* history: how often the state of s was accepted
    flows, oauthFaults

oauthVars == <<app_config, oauth_state, issued, oauth_tokens, oauthCall, flowsSpent, flows, oauthFaults>>

-----------------------------------------------------------------------------
FlowIds == 1..MaxFlows
NoOwner == "nobody"
Unnamed == "unnamed"    \* a state that is the bare secret, as older versions stored it
NoLink == [flow |-> 0, account |-> "none"]
NoOauthCall == [pc |-> "idle", user |-> NoOwner, flow |-> 0, pair |-> <<0, 0>>, link |-> NoLink]
NotIssued == [pair |-> <<0, 0>>, account |-> "none", used |-> FALSE, by |-> NoOwner]

OauthInit ==
    /\ app_config = [pair |-> 0, readable |-> TRUE]
    /\ oauth_state = [s \in FlowIds |-> NoOwner]
    /\ issued = [s \in FlowIds |-> NotIssued]
    /\ oauth_tokens = [u \in Owners |-> NoLink]
    /\ oauthCall = [c \in OauthCalls |-> NoOauthCall]
    /\ flowsSpent = [s \in FlowIds |-> 0]
    /\ flows = 0 /\ oauthFaults = 0

OauthFault == oauthFaults < MaxOauthFaults /\ oauthFaults' = oauthFaults + 1

Leaves(c) == oauthCall' = [oauthCall EXCEPT ![c] = NoOauthCall]

-----------------------------------------------------------------------------
(* set_config: key and secret in one transaction; with a master key other  *)
(* than the API's the values are stored but cannot be decrypted there.     *)
SetConfig ==
    /\ app_config.pair < MaxSetups
    /\ \E ok \in BOOLEAN : app_config' = [pair |-> app_config.pair + 1, readable |-> ok]
    /\ UNCHANGED <<oauth_state, issued, oauth_tokens, oauthCall, flowsSpent, flows, oauthFaults>>

(* _get_discogs_app_config: both rows by one statement.                    *)
PairsSeen == {<<app_config.pair, app_config.pair>>}

(* Both handlers begin with the credentials: missing, or not decryptable,  *)
(* is a 503.                                                               *)
Begins(c, u, pc, flow) ==
    /\ oauthCall[c].pc = "idle"
    /\ app_config.pair # 0 /\ app_config.readable
    /\ \E p \in PairsSeen :
          oauthCall' = [oauthCall EXCEPT ![c] =
              [pc |-> pc, user |-> u, flow |-> flow, pair |-> p, link |-> NoLink]]
    /\ UNCHANGED <<app_config, oauth_state, issued, oauth_tokens, flowsSpent, flows, oauthFaults>>

(* Served by a process of an older version, the flow will name nobody.     *)
AuthorizeDiscogs(c, u) == Begins(c, u, "request", 0) \/ Begins(c, Unnamed, "request", 0)

(* request_oauth_token: signed with the pair, or a 502.                    *)
RequestOauthToken(c) ==
    /\ oauthCall[c].pc = "request"
    /\ \/ /\ flows < MaxFlows
          /\ oauthCall[c].pair[1] = oauthCall[c].pair[2]
          /\ flows' = flows + 1
          /\ issued' = [issued EXCEPT ![flows + 1] =
                 [NotIssued EXCEPT !.pair = oauthCall[c].pair, !.by = oauthCall[c].user]]
          /\ oauthCall' = [oauthCall EXCEPT ![c].pc = "store", ![c].flow = flows + 1]
       \/ Leaves(c) /\ UNCHANGED <<issued, flows>>
    /\ UNCHANGED <<app_config, oauth_state, oauth_tokens, flowsSpent, oauthFaults>>

(* setex under valkey_write_guard: a rejected write is a 503.              *)
StoreState(c) ==
    /\ oauthCall[c].pc = "store"
    /\ \/ /\ oauth_state' = [oauth_state EXCEPT ![oauthCall[c].flow] = oauthCall[c].user]
          /\ UNCHANGED oauthFaults
       \/ OauthFault /\ UNCHANGED oauth_state
    /\ Leaves(c)
    /\ UNCHANGED <<app_config, issued, oauth_tokens, flowsSpent, flows>>

StateExpires(s) ==
    /\ oauth_state[s] # NoOwner
    /\ oauth_state' = [oauth_state EXCEPT ![s] = NoOwner]
    /\ UNCHANGED <<app_config, issued, oauth_tokens, oauthCall, flowsSpent, flows, oauthFaults>>

(* At Discogs, whoever opened the URL approves it with an account.         *)
Approves(s, a) ==
    /\ s <= flows /\ issued[s].account = "none"
    /\ issued' = [issued EXCEPT ![s].account = a]
    /\ UNCHANGED <<app_config, oauth_state, oauth_tokens, oauthCall, flowsSpent, flows, oauthFaults>>

-----------------------------------------------------------------------------
VerifyDiscogs(c, u, s) == s <= flows /\ Begins(c, u, "consume", s)

(* getdel.                                                                 *)
AfterConsume(s) == [oauth_state EXCEPT ![s] = NoOwner]

(* Mutant: whoever holds the state may complete the flow.                  *)
StartedByAnyone(s, u) == oauth_state[s] # NoOwner

(* A bare secret names nobody to compare with, and anybody passes.         *)
StartedBy(s, u) == oauth_state[s] \in {u, Unnamed}

(* The state is consumed whoever asks; nothing there is a 400, another     *)
(* user's a 403.                                                           *)
ConsumeState(c) ==
    LET s == oauthCall[c].flow
        ours == StartedBy(s, oauthCall[c].user)
    IN  /\ oauthCall[c].pc = "consume"
        /\ oauth_state' = AfterConsume(s)
        /\ flowsSpent' = [flowsSpent EXCEPT ![s] = @ + (IF ours THEN 1 ELSE 0)]
        /\ IF ours THEN oauthCall' = [oauthCall EXCEPT ![c].pc = "exchange"] ELSE Leaves(c)
        /\ UNCHANGED <<app_config, issued, oauth_tokens, flows, oauthFaults>>

(* exchange_oauth_verifier: Discogs refuses a token that was not approved, *)
(* was used, or was issued to another pair.                                *)
ExchangeVerifier(c) ==
    LET s == oauthCall[c].flow
        ok == issued[s].account # "none" /\ ~issued[s].used /\ issued[s].pair = oauthCall[c].pair
    IN  /\ oauthCall[c].pc = "exchange"
        /\ \/ /\ ok
              /\ issued' = [issued EXCEPT ![s].used = TRUE]
              /\ oauthCall' = [oauthCall EXCEPT ![c].pc = "identity"]
              /\ UNCHANGED oauthFaults
           \/ ~ok /\ Leaves(c) /\ UNCHANGED <<issued, oauthFaults>>
           \/ ok /\ OauthFault /\ Leaves(c) /\ issued' = [issued EXCEPT ![s].used = TRUE]
        /\ UNCHANGED <<app_config, oauth_state, oauth_tokens, flowsSpent, flows>>

FetchIdentity(c) ==
    LET s == oauthCall[c].flow
    IN  /\ oauthCall[c].pc = "identity"
        /\ \/ /\ oauthCall' = [oauthCall EXCEPT ![c].pc = "persist",
                      ![c].link = [flow |-> s, account |-> issued[s].account]]
              /\ UNCHANGED oauthFaults
           \/ OauthFault /\ Leaves(c)
        /\ UNCHANGED <<app_config, oauth_state, issued, oauth_tokens, flowsSpent, flows>>

(* The upsert: token, secret and identity of one exchange together.        *)
PersistToken(c) ==
    /\ oauthCall[c].pc = "persist"
    /\ oauth_tokens' = [oauth_tokens EXCEPT ![oauthCall[c].user] = oauthCall[c].link]
    /\ Leaves(c)
    /\ UNCHANGED <<app_config, oauth_state, issued, flowsSpent, flows, oauthFaults>>

RevokeDiscogs(u) ==
    /\ oauth_tokens[u] # NoLink
    /\ oauth_tokens' = [oauth_tokens EXCEPT ![u] = NoLink]
    /\ UNCHANGED <<app_config, oauth_state, issued, oauthCall, flowsSpent, flows, oauthFaults>>

OauthNext ==
    \/ SetConfig
    \/ \E c \in OauthCalls :
          \/ \E u \in Owners : AuthorizeDiscogs(c, u) \/ \E s \in FlowIds : VerifyDiscogs(c, u, s)
          \/ RequestOauthToken(c) \/ StoreState(c) \/ ConsumeState(c)
          \/ ExchangeVerifier(c) \/ FetchIdentity(c) \/ PersistToken(c)
    \/ \E s \in FlowIds : StateExpires(s) \/ \E a \in Accounts : Approves(s, a)
    \/ \E u \in Owners : RevokeDiscogs(u)

-----------------------------------------------------------------------------
(* However requests, expiries, disconnections and catalog-setup cross, a   *)
(* connection comes from a flow its own user started, or from one whose    *)
(* stored state named nobody, and that was spent once; it names the        *)
(* account that approved that flow; and no request signs with the key of   *)
(* one credential pair and the secret of another.                          *)
ConnectionsAreOwn ==
    /\ \A s \in FlowIds : flowsSpent[s] <= 1
    /\ \A u \in Owners : oauth_tokens[u] # NoLink =>
          /\ issued[oauth_tokens[u].flow].by \in {u, Unnamed}
          /\ issued[oauth_tokens[u].flow].account = oauth_tokens[u].account
    /\ \A c \in OauthCalls : oauthCall[c].pair[1] = oauthCall[c].pair[2]
=============================================================================
