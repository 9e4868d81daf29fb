----------------------------- MODULE Credentials -----------------------------
(***************************************************************************)
(* getClusterWithCredentials (clusters_repository.dart): every request to  *)
(* a cluster asks for the cluster first, and gets it with a token that is  *)
(* refreshed when it has expired.  The calls overlap: each goes on after   *)
(* an await with what the others have done to the same cluster and         *)
(* provider objects.  Beside them the user edits a cluster                 *)
(* (settings_edit_cluster.dart) and the OIDC provider, where he may log in *)
(* again (settings_oidc_provider_config.dart).                             *)
(*                                                                         *)
(* All clusters of a behaviour have one provider.  A token is the time at  *)
(* which it was issued, a refresh token its generation.  The saves only    *)
(* delay the call (Repositories shows what becomes of them), and the ways  *)
(* in which a request fails are one.                                       *)
(***************************************************************************)
EXTENDS Naturals, FiniteSets

CONSTANTS
  Clusters,  \* the clusters of the provider
  Calls,     \* the calls that may be under way at the same time
  Life,      \* time for which a token is accepted
  Grant,     \* time after which the token of an AWS cluster is replaced
  Delay,     \* bound on the time that an answer takes to come back
  NoToken,   \* the empty token
  NoCluster,
  Modes,     \* the circumstances that are looked at
  MaxTime,   \* bound on the clock
  MaxGrants  \* bound on the number of refresh tokens

ASSUME ConstantsAssumption ==
  /\ Life \in Nat /\ Grant \in Nat /\ Delay \in Nat
  /\ MaxTime \in Nat /\ MaxGrants \in Nat
  /\ Grant + Delay <= Life
  /\ NoToken \notin Nat /\ NoCluster \notin Clusters
  \* edits: the form of a cluster is saved while tokens change, and that of the
  \* provider without a new login; patient: no call overlaps with the saving of the
  \* provider; rotates: the OIDC provider replaces the refresh token when it is used.
  /\ Modes \subseteq [edits : BOOLEAN, patient : BOOLEAN, rotates : BOOLEAN]

VARIABLES
  mode,
  kind,       \* clusterProviderType
  clock,
  userToken,  \* of each cluster
  until,      \* userTokenExpireTimestamp of each cluster
  token,      \* accessToken or idToken of the provider
  expires,    \* accessTokenExpires of the provider
  refresh,    \* refreshToken of the provider
  granted,    \* the refresh token that the identity provider accepts
  lost,       \* has an answer with a refresh token been lost?
  pc,         \* where each call is
  cluster,    \* the cluster it was made for
  answer,     \* the token in the answer of its request
  rotated,    \* the refresh token that the request sends, then the one in the answer
  form,       \* the form of a cluster: the cluster and the token in its text field
  settings    \* the form of the provider: where its saving is, the refresh token in
              \* its text field, and the tokens that will be saved

clusterVars == <<userToken, until>>
providerVars == <<token, expires, refresh>>
externalVars == <<granted, lost>>
callVars == <<pc, cluster, answer, rotated>>
formVars == <<form, settings>>
vars == <<mode, kind, clock, clusterVars, providerVars, externalVars, callVars, formVars>>

Kinds == {"aws", "awssso", "google", "oidc"}
AWS == {"aws", "awssso"}
Tokens == 0..MaxTime \cup {NoToken}
PCs == {"idle", "sso", "request", "answered", "save", "done", "failed"}
NoForm == [cluster |-> NoCluster, text |-> NoToken]
Closed == [at |-> "closed", text |-> 0, token |-> NoToken, new |-> 0]

TypeOK ==
  /\ mode \in Modes /\ kind \in Kinds /\ clock \in 0..MaxTime
  /\ userToken \in [Clusters -> Tokens] /\ until \in [Clusters -> Nat]
  /\ token \in Tokens /\ (token = NoToken <=> kind \in AWS) /\ expires \in Nat
  /\ refresh \in Nat /\ granted \in Nat /\ lost \in BOOLEAN
  /\ pc \in [Calls -> PCs] /\ cluster \in [Calls -> Clusters \cup {NoCluster}]
  /\ answer \in [Calls -> Tokens] /\ rotated \in [Calls -> Nat]
  /\ form \in [cluster : Clusters \cup {NoCluster}, text : Tokens]
  /\ settings \in [at : {"closed", "open", "login", "token", "answered"},
                    text : Nat, token : Tokens, new : Nat]

\* Clusters are added without a token, providers of Google and OIDC after a login.
Init ==
  /\ mode \in Modes /\ kind \in Kinds /\ clock = 0
  /\ userToken = [c \in Clusters |-> NoToken]
  /\ until = [c \in Clusters |-> 0]
  /\ token = IF kind \in AWS THEN NoToken ELSE 0
  /\ expires = IF kind = "google" THEN Life ELSE 0
  /\ refresh = 0 /\ granted = 0 /\ lost = FALSE
  /\ pc = [k \in Calls |-> "idle"]
  /\ cluster = [k \in Calls |-> NoCluster]
  /\ answer = [k \in Calls |-> NoToken]
  /\ rotated = [k \in Calls |-> 0]
  /\ form = NoForm /\ settings = Closed

Step(k, from, to) == pc[k] = from /\ pc' = [pc EXCEPT ![k] = to]

-----------------------------------------------------------------------------
\* The code refreshes: the timestamp of the cluster or of the provider has passed,
\* or the expiry date in the id token.
Stale(c) ==
  CASE kind \in AWS      -> until[c] < clock \/ userToken[c] = NoToken
    [] kind = "google"   -> expires < clock
    [] kind = "oidc"     -> token + Life < clock

\* The token is not stale: a cluster of Google or OIDC takes that of its provider.
Use(k, c) ==
  /\ ~Stale(c)
  /\ Step(k, "idle", "done")
  /\ cluster' = [cluster EXCEPT ![k] = c]
  /\ userToken' = IF kind \in AWS THEN userToken
                  ELSE [userToken EXCEPT ![c] = token]
  /\ UNCHANGED <<mode, kind, clock, until, providerVars, externalVars, answer,
                 rotated, formVars>>

\* Otherwise a new one is requested, for AWS SSO after new credentials.
Refresh(k, c) ==
  /\ Stale(c)
  /\ mode.patient => settings.at \in {"closed", "open"}
  /\ Step(k, "idle", IF kind = "awssso" THEN "sso" ELSE "request")
  /\ cluster' = [cluster EXCEPT ![k] = c]
  /\ rotated' = [rotated EXCEPT ![k] = refresh]
  /\ UNCHANGED <<mode, kind, clock, clusterVars, providerVars, externalVars,
                 answer, formVars>>

\* getSSOToken has returned and the provider is saved.
SSO(k) ==
  /\ Step(k, "sso", "request")
  /\ UNCHANGED <<mode, kind, clock, clusterVars, providerVars, externalVars,
                 cluster, answer, rotated, formVars>>

\* The provider issues the token.  An OIDC provider accepts the newest refresh token
\* only; a call that has sent an older one fails.
Issue(k) ==
  /\ kind = "oidc" => rotated[k] = granted
  /\ Step(k, "request", "answered")
  /\ answer' = [answer EXCEPT ![k] = clock]
  /\ IF kind = "oidc" /\ mode.rotates
       THEN granted < MaxGrants /\ granted' = granted + 1
       ELSE UNCHANGED granted
  /\ rotated' = [rotated EXCEPT ![k] = granted']
  /\ UNCHANGED <<mode, kind, clock, clusterVars, providerVars, lost, cluster, formVars>>

\* The request or its answer fails: the call throws.
Fail(k) ==
  /\ pc[k] \in {"sso", "request", "answered"}
  /\ pc' = [pc EXCEPT ![k] = "failed"]
  /\ lost' = (lost \/ (pc[k] = "answered" /\ kind = "oidc"))
  /\ UNCHANGED <<mode, kind, clock, clusterVars, providerVars, granted, cluster,
                 answer, rotated, formVars>>

\* Bug: the new refresh token is dropped.
BugNewRefresh(k) == refresh
NewRefresh(k) == rotated[k]

\* Bug: the timestamp is three times what it is in the code.
BugNewUntil == clock + 3 * Grant
NewUntil == clock + Grant

\* Bug: the provider of every kind gets the token.
BugProviderToken(k) == answer[k]
ProviderToken(k) == IF kind \in AWS THEN token ELSE answer[k]

\* The answer: the provider and the cluster of the call get the token.
Answer(k) ==
  /\ Step(k, "answered", "save")
  /\ userToken' = [userToken EXCEPT ![cluster[k]] = answer[k]]
  /\ until' = IF kind \in AWS THEN [until EXCEPT ![cluster[k]] = NewUntil] ELSE until
  /\ token' = ProviderToken(k)
  /\ expires' = IF kind = "google" THEN clock + Life ELSE expires
  /\ refresh' = IF kind = "oidc" THEN NewRefresh(k) ELSE refresh
  /\ UNCHANGED <<mode, kind, clock, externalVars, cluster, answer, rotated, formVars>>

\* The saves have returned.
Return(k) ==
  /\ Step(k, "save", "done")
  /\ UNCHANGED <<mode, kind, clock, clusterVars, providerVars, externalVars,
                 cluster, answer, rotated, formVars>>

\* The widget that has made the call makes the next one later.
Again(k) ==
  /\ pc[k] \in {"done", "failed"}
  /\ pc' = [pc EXCEPT ![k] = "idle"]
  /\ cluster' = [cluster EXCEPT ![k] = NoCluster]
  /\ answer' = [answer EXCEPT ![k] = NoToken]
  /\ rotated' = [rotated EXCEPT ![k] = 0]
  /\ UNCHANGED <<mode, kind, clock, clusterVars, providerVars, externalVars, formVars>>

-----------------------------------------------------------------------------
\* The form of a cluster is filled when it is opened and writes all of its fields
\* back when it is saved, the token among them, but not the timestamp.
OpenForm(c) ==
  /\ mode.edits /\ form = NoForm
  /\ form' = [cluster |-> c, text |-> userToken[c]]
  /\ UNCHANGED <<mode, kind, clock, clusterVars, providerVars, externalVars, callVars, settings>>

SaveForm ==
  /\ form # NoForm
  /\ userToken' = [userToken EXCEPT ![form.cluster] = form.text]
  /\ form' = NoForm
  /\ UNCHANGED <<mode, kind, clock, until, providerVars, externalVars, callVars, settings>>

NoCall == \A k \in Calls : pc[k] \in {"idle", "done", "failed"}
Quiet == NoCall /\ settings.at \in {"closed", "open"}

\* The form of the OIDC provider is filled when it is opened.
OpenSettings ==
  /\ kind = "oidc" /\ settings = Closed
  /\ settings' = [Closed EXCEPT !.at = "open", !.text = refresh]
  /\ UNCHANGED <<mode, kind, clock, clusterVars, providerVars, externalVars, callVars, form>>

\* _saveProvider: in the device flow, or when the user has emptied the field, he has
\* logged in again and the request asks for the tokens of that login; otherwise it
\* sends the refresh token of the field.
SaveSettings(to) ==
  /\ settings.at = "open"
  /\ mode.patient => NoCall
  /\ to = "token" => mode.edits
  /\ settings' = [settings EXCEPT !.at = to]
  /\ UNCHANGED <<mode, kind, clock, clusterVars, providerVars, externalVars, callVars, form>>

IssueLogin ==
  /\ settings.at = "login"
  /\ granted < MaxGrants /\ granted' = granted + 1
  /\ settings' = [settings EXCEPT !.at = "answered", !.token = clock, !.new = granted']
  /\ UNCHANGED <<mode, kind, clock, clusterVars, providerVars, lost, callVars, form>>

\* The refresh token that was sent is the one that is saved, rotated or not.
IssueToken ==
  /\ settings.at = "token" /\ settings.text = granted
  /\ settings' = [settings EXCEPT !.at = "answered", !.token = clock, !.new = settings.text]
  /\ IF mode.rotates THEN granted < MaxGrants /\ granted' = granted + 1
                     ELSE UNCHANGED granted
  /\ UNCHANGED <<mode, kind, clock, clusterVars, providerVars, lost, callVars, form>>

\* The request or its answer fails: the form stays open.
FailSettings ==
  /\ settings.at \in {"login", "token", "answered"}
  /\ lost' = (lost \/ settings.at = "answered")
  /\ settings' = [Closed EXCEPT !.at = "open", !.text = settings.text]
  /\ UNCHANGED <<mode, kind, clock, clusterVars, providerVars, granted, callVars, form>>

AnswerSettings ==
  /\ settings.at = "answered"
  /\ refresh' = settings.new /\ token' = settings.token
  /\ settings' = Closed
  /\ UNCHANGED <<mode, kind, clock, clusterVars, expires, externalVars, callVars, form>>

\* The form is closed, or opened again later.
CloseSettings ==
  /\ settings.at = "open"
  /\ settings' = Closed
  /\ UNCHANGED <<mode, kind, clock, clusterVars, providerVars, externalVars, callVars, form>>

Tick ==
  /\ clock < MaxTime
  /\ \A k \in Calls : pc[k] = "answered" => clock < answer[k] + Delay
  /\ settings.at = "answered" => clock < settings.token + Delay
  /\ clock' = clock + 1
  /\ UNCHANGED <<mode, kind, clusterVars, providerVars, externalVars, callVars, formVars>>

CallNext(k) ==
  \/ \E c \in Clusters : Use(k, c) \/ Refresh(k, c)
  \/ SSO(k) \/ Issue(k) \/ Fail(k) \/ Answer(k) \/ Return(k) \/ Again(k)

Next == \/ \E k \in Calls : CallNext(k)
        \/ \E c \in Clusters : OpenForm(c)
        \/ SaveForm \/ OpenSettings \/ CloseSettings
        \/ SaveSettings("login") \/ SaveSettings("token")
        \/ IssueLogin \/ IssueToken \/ FailSettings \/ AnswerSettings
        \/ Tick

Spec == Init /\ [][Next]_vars

-----------------------------------------------------------------------------
\* "If the token is still valid we use the existing token": a cluster that is
\* returned without a refresh has a token that the cluster accepts.  The expiry
\* that is noted for Google's token is too late by the time its answer took.
AcceptedTokenIsUsed ==
  \A k \in Calls :
    pc[k] = "idle" /\ pc'[k] = "done" =>
      LET t == userToken'[cluster'[k]]
      IN  t # NoToken /\ clock <= t + Life + (IF kind = "google" THEN Delay ELSE 0)
ValidTokenIsUsed == [][AcceptedTokenIsUsed]_vars

\* The same for a user who does not edit an AWS cluster while its token changes:
\* however the calls overlap, the timestamp of a cluster and its token fit.
RefreshKeepsTokenValid ==
  [][(mode.edits /\ kind \in AWS) \/ AcceptedTokenIsUsed]_vars

\* A rotated refresh token is not lost by calls that refresh at the same time: when
\* none is under way the provider has the one that is accepted next, unless an
\* answer was lost on its way.  Not so for a provider that rotates the tokens when
\* its form is saved without a new login (IssueToken), nor when that overlaps calls.
LoginIsKept ==
  kind = "oidc" /\ ~lost /\ Quiet /\ mode.patient /\ ~(mode.edits /\ mode.rotates)
    => refresh = granted
=============================================================================
