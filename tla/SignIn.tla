-------------------------------- MODULE SignIn --------------------------------
(***************************************************************************)
(* The forms in which the user signs in to AWS SSO or to an OIDC provider, *)
(* with the Go functions behind them (aws.go, oidc.go).  "Sign In" asks    *)
(* for a code; the user approves it on a page of the identity provider;    *)
(* then the code is redeemed for a token, which is saved with the          *)
(* provider.  No button waits for the answer to another, so that the       *)
(* answers may come when the form has gone on.  Later the token expires    *)
(* and the user is asked to sign in again.                                 *)
(*                                                                         *)
(* A sign-in is its number, and so are its code, its verifier, its page    *)
(* and its token; 0 is none.  The flows are the new provider ("sso"), its  *)
(* form ("edit"), the button of an error message ("again") and several     *)
(* providers at once ("multiple") of AWS SSO, and the authorization code   *)
(* with S256 ("code") and the device flow ("device") of OIDC.              *)
(***************************************************************************)
EXTENDS Naturals, Sequences, FiniteSets, SequencesExt

CONSTANTS
  Flows,
  Patience,    \* is a patient user looked at, an impatient one, or both?
  MaxSignIns,  \* bound on the sign-ins of a patient user
  MaxHasty,    \* bound on those of an impatient one
  Accounts,    \* the accounts that AWS SSO has for the user
  Life,        \* time for which an access token is accepted
  ClientLife,  \* time for which the client of a sign-in is registered
  Margin,      \* one minute
  Delay,       \* bound on the time an answer takes to come back
  MaxFailures, \* bound on the times that adding accounts fails
  MaxTime      \* bound on the clock

SSO == {"sso", "edit", "again", "multiple"}

ASSUME ConstantsAssumption ==
  /\ Flows \subseteq SSO \cup {"code", "device"} /\ Patience \subseteq BOOLEAN
  /\ MaxSignIns \in Nat \ {0} /\ MaxHasty \in 1..MaxSignIns
  /\ Life \in Nat /\ ClientLife \in Nat /\ Margin \in Nat /\ Delay \in Nat
  /\ MaxFailures \in Nat /\ MaxTime \in Nat
  /\ Life <= ClientLife

VARIABLES
  flow,
  patient,    \* the user waits for every answer
  clock,
  asked,      \* number of sign-ins that have been started
  status,     \* what the identity provider knows of each sign-in
  registered, \* the time at which its client was registered
  issued,     \* the time at which its token was issued
  form,       \* the state of the widget
  requests,   \* requests for a token: the code and the verifier they send
  answers,    \* the tokens in answers that are under way
  saved,      \* the provider: its ssoConfig, and its token with the expiry
  refreshing, \* a request of getClusterWithCredentials with the saved token
  shown,      \* what the last one has shown
  adding      \* the list of the accounts, from which the selected ones are added: those
              \* selected now, those of the loop that adds them, whether both are still
              \* one list, the account the loop is at, the providers that have been
              \* added, and how often adding them has failed

idp == <<status, registered, issued>>
vars == <<flow, patient, clock, asked, idp, form, requests, answers, saved,
          refreshing, shown, adding>>

Sign == 0..MaxSignIns
NoToken == [of |-> 0, expires |-> 0]
Token == [of : Sign, expires : Nat]
NoProvider == [config |-> 0, token |-> NoToken]
NoRefresh == [token |-> NoToken, at |-> 0, accepted |-> TRUE]
NotAdding == [selected |-> <<>>, list |-> <<>>, kept |-> TRUE, at |-> 0, done |-> <<>>,
              failures |-> 0]

TypeOK ==
  /\ flow \in Flows /\ patient \in Patience /\ clock \in 0..MaxTime /\ asked \in Sign
  /\ status \in [Sign \ {0} -> {"none", "asked", "started", "approved", "redeemed"}]
  /\ registered \in [Sign \ {0} -> 0..MaxTime] /\ issued \in [Sign \ {0} -> 0..MaxTime]
  /\ form \in [config : Sign, page : Sign, verified : BOOLEAN, code : Sign,
               token : Token, open : BOOLEAN]
  /\ requests \subseteq [code : Sign, verifier : Sign] /\ answers \subseteq Sign \ {0}
  /\ saved \in [config : Sign, token : Token]
  /\ refreshing \in [token : Token, at : Nat, accepted : BOOLEAN]
  /\ shown \in {"nothing", "cluster", "expired", "error"}
  /\ adding \in [selected : Seq(Accounts), list : Seq(Accounts), kept : BOOLEAN,
                 at : Nat, done : Seq(Accounts), failures : Nat]
  \* Every token has been issued.
  /\ \A i \in answers \cup ({form.token.of, saved.token.of} \ {0}) : status[i] = "redeemed"

\* A provider that is edited, or signed in to again, has the token of sign-in 1.
Existing == flow \in {"edit", "again"}

Init ==
  /\ flow \in Flows /\ patient \in Patience /\ clock = 0
  /\ asked = IF Existing THEN 1 ELSE 0
  /\ status = [i \in Sign \ {0} |-> IF Existing /\ i = 1 THEN "redeemed" ELSE "none"]
  /\ registered = [i \in Sign \ {0} |-> 0] /\ issued = registered
  /\ form = [config |-> 0, page |-> 0, verified |-> FALSE, code |-> 0,
             token |-> NoToken, open |-> TRUE]
  /\ requests = {} /\ answers = {}
  /\ saved = IF Existing THEN [config |-> 1, token |-> [of |-> 1, expires |-> Life]]
             ELSE NoProvider
  /\ refreshing = NoRefresh /\ shown = "nothing" /\ adding = NotAdding

\* Nothing is under way; a patient user does nothing else before.
Settled ==
  /\ requests = {} /\ answers = {} /\ refreshing = NoRefresh
  /\ \A i \in Sign \ {0} : status[i] # "asked"
Ready == form.open /\ (patient => Settled)

Tick ==
  /\ clock < MaxTime /\ \A i \in answers : clock < issued[i] + Delay
  /\ clock' = clock + 1
  /\ UNCHANGED <<flow, patient, asked, idp, form, requests, answers, saved, refreshing,
                 shown, adding>>

-----------------------------------------------------------------------------
\* "Sign In", at any time: the form keeps the credentials that it may have already.  The
\* button of an error is there for the message of an expired token only.
Start ==
  /\ Ready /\ asked < IF patient THEN MaxSignIns ELSE MaxHasty
  /\ flow = "again" => shown = "expired"
  /\ asked' = asked + 1
  /\ status' = [status EXCEPT ![asked + 1] = "asked"]
  /\ UNCHANGED <<flow, patient, clock, registered, issued, form, requests, answers, saved, refreshing,
                 shown, adding>>

Started(i) ==
  /\ status[i] = "asked"
  /\ status' = [status EXCEPT ![i] = "started"]
  /\ registered' = [registered EXCEPT ![i] = clock]
  /\ UNCHANGED <<flow, patient, clock, asked, issued, requests, answers, saved,
                 refreshing, shown, adding>>

\* AWSGetSSOConfig has registered a client and started a device authorization for it; the
\* form keeps both.
GetConfig(i) ==
  /\ flow \in SSO /\ Started(i)
  /\ form' = IF form.open THEN [form EXCEPT !.config = i] ELSE form

\* OIDCDeviceAuth has started a device authorization; the form keeps its code.
GetDeviceCode(i) ==
  /\ flow = "device" /\ Started(i)
  /\ form' = IF form.open THEN [form EXCEPT !.config = i] ELSE form

\* OIDCGetLink has made a verifier and a link with its challenge: the verifier is kept, and
\* then the link is opened, which may fail.
GetLink(i) ==
  /\ flow = "code" /\ Started(i)
  /\ form' \in IF ~form.open THEN {form}
               ELSE {[form EXCEPT !.config = i, !.page = i], [form EXCEPT !.config = i]}

StartFails(i) ==
  /\ status[i] = "asked"
  /\ status' = [status EXCEPT ![i] = "none"]
  /\ UNCHANGED <<flow, patient, clock, asked, registered, issued, form, requests, answers, saved,
                 refreshing, shown, adding>>

\* "Verify" opens the page of the last config.
Verify ==
  /\ flow # "code" /\ Ready /\ form.config # 0
  /\ form' = [form EXCEPT !.page = form.config, !.verified = TRUE]
  /\ UNCHANGED <<flow, patient, clock, asked, idp, requests, answers, saved, refreshing,
                 shown, adding>>

\* The user approves what the page asks for.  In the code flow it shows him the code,
\* which he copies into the form.
Approve ==
  /\ form.page # 0 /\ status[form.page] = "started"
  /\ status' = [status EXCEPT ![form.page] = "approved"]
  /\ form' = IF flow = "code" /\ form.open THEN [form EXCEPT !.code = form.page] ELSE form
  /\ UNCHANGED <<flow, patient, clock, asked, registered, issued, requests, answers, saved,
                 refreshing, shown, adding>>

-----------------------------------------------------------------------------
\* "Get Credentials", "Load Accounts and Roles", or the saving of an OIDC provider.  The
\* last two are not possible while they are under way.
Redeem ==
  /\ Ready
  /\ flow \in {"sso", "edit", "again"} => form.verified
  /\ flow \notin {"sso", "edit", "again"} => requests = {} /\ answers = {}
  /\ flow = "multiple" => form.config # 0
  /\ flow = "code" => form.code # 0
  /\ requests' = requests \cup
       {[code |-> IF flow = "code" THEN form.code ELSE form.config, verifier |-> form.config]}
  /\ UNCHANGED <<flow, patient, clock, asked, idp, form, answers, saved, refreshing,
                 shown, adding>>

\* The identity provider issues the token, once for each code.
CreateToken(r) ==
  /\ r.code # 0 /\ status[r.code] = "approved" /\ r.verifier = r.code
  /\ status' = [status EXCEPT ![r.code] = "redeemed"]
  /\ issued' = [issued EXCEPT ![r.code] = clock]
  /\ requests' = requests \ {r} /\ answers' = answers \cup {r.code}
  /\ UNCHANGED <<flow, patient, clock, asked, registered, form, saved, refreshing, shown, adding>>

\* Bug: the error is not returned.
BugCreateTokenFails(r) ==
  /\ requests' = requests \ {r} /\ answers' = answers \cup {r.code}
  /\ UNCHANGED <<flow, patient, clock, asked, idp, form, saved, refreshing, shown, adding>>

\* The request fails.  (The device flow waits as long as the code is not approved.)
CreateTokenFails(r) ==
  /\ requests' = requests \ {r}
  /\ UNCHANGED <<flow, patient, clock, asked, idp, form, answers, saved, refreshing,
                 shown, adding>>

\* The answer is lost, or the credentials or accounts that are asked for with the token
\* are refused: the code is used up, and the user has to sign in again.
Lose(i) ==
  /\ answers' = answers \ {i}
  /\ UNCHANGED <<flow, patient, clock, asked, idp, form, requests, saved, refreshing,
                 shown, adding>>

\* Bug: the token is taken to live as long as its client.
BugNewToken(i) == [of |-> i, expires |-> clock + ClientLife]
NewToken(i) == [of |-> i, expires |-> clock + Life]

\* AWSGetSSOToken has returned: the form keeps the credentials until it is saved.
GetCredentials(i) ==
  /\ flow \in {"sso", "edit"}
  /\ form' = IF form.open THEN [form EXCEPT !.token = NewToken(i)] ELSE form
  /\ answers' = answers \ {i}
  /\ UNCHANGED <<flow, patient, clock, asked, idp, requests, saved, refreshing, shown,
                 adding>>

\* Bug: the config that belongs to the credentials is not saved.
BugGetCredentialsAgain(i) ==
  /\ flow = "again"
  /\ saved' = [saved EXCEPT !.token = NewToken(i)]
  /\ answers' = answers \ {i}
  /\ UNCHANGED <<flow, patient, clock, asked, idp, form, requests, refreshing, shown, adding>>

\* The button of the error saves them at once, with the config that the form has now.
GetCredentialsAgain(i) ==
  /\ flow = "again"
  /\ saved' = [config |-> form.config, token |-> NewToken(i)]
  /\ answers' = answers \ {i}
  /\ UNCHANGED <<flow, patient, clock, asked, idp, form, requests, refreshing, shown, adding>>

\* AWSGetSSOAccounts has returned: the form is replaced by the list of the accounts, which
\* come with the token.
GetAccounts(i) ==
  /\ flow = "multiple"
  /\ form' = [form EXCEPT !.token = NewToken(i), !.open = FALSE]
  /\ answers' = answers \ {i}
  /\ UNCHANGED <<flow, patient, clock, asked, idp, requests, saved, refreshing, shown,
                 adding>>

\* OIDCGetRefreshToken has returned: the provider is saved with the tokens, and with the
\* verifier that the form has now.
SaveCode(i) ==
  /\ flow = "code"
  /\ saved' = [config |-> form.config, token |-> NewToken(i)]
  /\ form' = [form EXCEPT !.open = FALSE]
  /\ answers' = answers \ {i}
  /\ UNCHANGED <<flow, patient, clock, asked, idp, requests, refreshing, shown, adding>>

\* OIDCDeviceAuthGetRefreshToken has returned; the device code is not saved.
SaveDevice(i) ==
  /\ flow = "device"
  /\ saved' = [config |-> i, token |-> NewToken(i)]
  /\ form' = [form EXCEPT !.open = FALSE]
  /\ answers' = answers \ {i}
  /\ UNCHANGED <<flow, patient, clock, asked, idp, requests, refreshing, shown, adding>>

\* A new provider of AWS SSO is not saved without credentials.  The form of an existing
\* one starts without its config and credentials, and saves what it has.
Save ==
  /\ flow \in {"sso", "edit"} /\ Ready
  /\ flow = "sso" => form.config # 0 /\ form.token # NoToken
  /\ saved' = [config |-> form.config, token |-> form.token]
  /\ form' = [form EXCEPT !.open = FALSE]
  /\ UNCHANGED <<flow, patient, clock, asked, idp, requests, answers, refreshing, shown,
                 adding>>

-----------------------------------------------------------------------------
\* AWSGetSSOToken with an access token does not use one that it finds expired.

IsExpired(token) == token.expires + Margin < clock

IsAccepted(token) == clock <= issued[token.of] + Life
ClientIsExpired == registered[saved.config] + ClientLife < clock

\* getClusterWithCredentials with the saved token, for any widget.  Without a config it
\* throws, as it does when the client has expired.
CanRefresh ==
  /\ flow \in {"sso", "edit", "again"} /\ (flow = "sso" => saved # NoProvider)
  /\ refreshing = NoRefresh /\ (patient => Settled)
IsBroken == IF saved.config = 0 THEN TRUE ELSE ClientIsExpired

RefreshFails ==
  /\ CanRefresh
  /\ \/ IsBroken /\ shown' = "error"
     \/ ~IsBroken /\ saved.token # NoToken /\ IsExpired(saved.token) /\ shown' = "expired"
  /\ UNCHANGED <<flow, patient, clock, asked, idp, form, requests, answers, saved,
                 refreshing, adding>>

Refresh ==
  /\ CanRefresh /\ ~IsBroken /\ saved.token # NoToken /\ ~IsExpired(saved.token)
  /\ refreshing' = [token |-> saved.token, at |-> clock, accepted |-> IsAccepted(saved.token)]
  /\ UNCHANGED <<flow, patient, clock, asked, idp, form, requests, answers, saved, shown,
                 adding>>

\* Without a token, which the form of an existing provider may have saved, the code of the
\* config is redeemed.
RefreshWithCode ==
  /\ CanRefresh /\ ~IsBroken /\ saved.token = NoToken
  /\ IF status[saved.config] = "approved"
     THEN /\ status' = [status EXCEPT ![saved.config] = "redeemed"]
          /\ issued' = [issued EXCEPT ![saved.config] = clock]
          /\ refreshing' = [token |-> NewToken(saved.config), at |-> clock, accepted |-> TRUE]
     ELSE /\ refreshing' = [token |-> NoToken, at |-> clock, accepted |-> FALSE]
          /\ UNCHANGED <<status, issued>>
  /\ UNCHANGED <<flow, patient, clock, asked, registered, form, requests, answers, saved,
                 shown, adding>>

\* The answer holds new credentials and the access token that was sent, which are saved
\* before the token for the cluster is asked for.
Refreshed ==
  /\ refreshing.accepted /\ refreshing.token # NoToken
  /\ refreshing' = NoRefresh
  /\ saved' = [saved EXCEPT !.token = refreshing.token]
  /\ shown' \in {"cluster", "error"}
  /\ UNCHANGED <<flow, patient, clock, asked, idp, form, requests, answers, adding>>

\* The token was not accepted, or the request for the credentials has failed.
RefreshRefused ==
  /\ refreshing # NoRefresh
  /\ refreshing' = NoRefresh
  /\ shown' = "error"
  /\ UNCHANGED <<flow, patient, clock, asked, idp, form, requests, answers, saved, adding>>

-----------------------------------------------------------------------------
(***************************************************************************)
(* The list of the accounts.  Those selected are added one by one, each    *)
(* after a request for its credentials; their boxes can be used meanwhile. *)
(***************************************************************************)

\* Every account of the list has been added, and the sheet is closed.
Closed == adding.at > Len(adding.list)
Listed == flow = "multiple" /\ form.token # NoToken /\ ~Closed

\* A box is ticked: the list of the selected accounts grows, also under the loop.
SelectAccount(a) ==
  /\ Listed /\ a \notin ToSet(adding.selected)
  /\ adding.at # 0 => adding.failures < MaxFailures
  /\ adding' = [adding EXCEPT !.selected = Append(adding.selected, a)]
  /\ UNCHANGED <<flow, patient, clock, asked, idp, form, requests, answers, saved,
                 refreshing, shown>>

\* A box is cleared: the list is replaced by one without its account.
UnselectAccount(i) ==
  /\ Listed
  /\ adding' = [adding EXCEPT !.selected = RemoveAt(adding.selected, i), !.kept = FALSE]
  /\ UNCHANGED <<flow, patient, clock, asked, idp, form, requests, answers, saved,
                 refreshing, shown>>

AddProviders ==
  /\ Listed /\ adding.at = 0
  /\ adding' = [adding EXCEPT !.list = adding.selected, !.kept = TRUE, !.at = 1]
  /\ UNCHANGED <<flow, patient, clock, asked, idp, form, requests, answers, saved,
                 refreshing, shown>>

\* Bug: after an error it goes on with the next account.
BugAddFails ==
  /\ adding.at \in 1..Len(adding.list) /\ adding.failures < MaxFailures
  /\ adding' = [adding EXCEPT !.at = adding.at + 1, !.failures = adding.failures + 1]
  /\ UNCHANGED <<flow, patient, clock, asked, idp, form, requests, answers, saved,
                 refreshing, shown>>

\* After an error the user may start again, with the first account.
AddFails ==
  /\ adding.at \in 1..Len(adding.list) /\ adding.failures < MaxFailures
  /\ adding' = [adding EXCEPT !.at = 0, !.failures = adding.failures + 1]
  /\ UNCHANGED <<flow, patient, clock, asked, idp, form, requests, answers, saved,
                 refreshing, shown>>

\* The list under the loop has grown: it stops with a ConcurrentModificationError when it
\* asks for the next account, also behind the last one.
Grown == adding.kept /\ Len(adding.selected) # Len(adding.list)

AddProvider ==
  /\ adding.at \in 1..Len(adding.list)
  /\ ~IsExpired(form.token) /\ IsAccepted(form.token)
  /\ LET done == Append(adding.done, adding.list[adding.at])
     IN  adding' = IF Grown
                   THEN [adding EXCEPT !.at = 0, !.done = done,
                                       !.failures = adding.failures + 1]
                   ELSE [adding EXCEPT !.at = adding.at + 1, !.done = done]
  /\ UNCHANGED <<flow, patient, clock, asked, idp, form, requests, answers, saved,
                 refreshing, shown>>

-----------------------------------------------------------------------------
Answered(i) ==
  \/ GetCredentials(i) \/ GetCredentialsAgain(i) \/ GetAccounts(i)
  \/ SaveCode(i) \/ SaveDevice(i)

Next ==
  \/ Tick \/ Start \/ Verify \/ Approve \/ Redeem \/ Save
  \/ RefreshFails \/ Refresh \/ RefreshWithCode \/ Refreshed \/ RefreshRefused
  \/ \E i \in Sign \ {0} : GetConfig(i) \/ GetDeviceCode(i) \/ GetLink(i) \/ StartFails(i)
  \/ \E r \in requests : CreateToken(r) \/ CreateTokenFails(r)
  \/ \E i \in answers : Answered(i) \/ Lose(i)
  \/ \E a \in Accounts : SelectAccount(a)
  \/ \E i \in DOMAIN adding.selected : UnselectAccount(i)
  \/ AddProviders \/ AddProvider \/ AddFails

Spec == Init /\ [][Next]_vars

-----------------------------------------------------------------------------
\* For a user who waits for the answers, the credentials that are saved with a config are
\* never those of a later sign-in, and but for the form of AWS SSO they are of the same
\* one.  That form keeps its credentials when the user signs in again (_startSSOFlow): if
\* he saves without asking for new ones, those of the sign-in before are saved.
BelongsTo(of, config) ==
  of = 0 \/ of = config \/ (flow \in {"sso", "edit"} /\ of < config)
SavedBelongsTogether == patient => BelongsTo(saved.token.of, saved.config)

NoLateUse ==
  ~refreshing.accepted /\ refreshing.token # NoToken =>
    refreshing.at <= issued[refreshing.token.of] + Life + Delay + Margin
AsksInTime ==
  shown' = "expired" /\ shown # "expired" => ~IsAccepted(saved.token)

\* A saved token that the identity provider no longer accepts is used only within the
\* minute by which the code errs, and the time the answer took: later the user is asked to
\* sign in again, and he is not asked before.
ExpiryIsNoticed == [][NoLateUse' /\ AsksInTime]_vars

Copies(a) == Cardinality({k \in DOMAIN adding.done : adding.done[k] = a})

\* When the list of the accounts closes, every account with which the loop was started has
\* been added, in order and once if nothing has failed, and at most once more for every
\* time that something did; another one only if something failed.  If no box was cleared
\* while they were added, these are the accounts that are selected in the end, although
\* boxes may have been ticked (_addProviders, onChanged of the boxes).
AddedAsSelected ==
  Closed =>
    /\ \A a \in Accounts :
         Copies(a) \in IF a \in ToSet(adding.list) THEN 1..(adding.failures + 1)
                       ELSE 0..adding.failures
    /\ adding.failures = 0 => adding.done = adding.list
    /\ adding.kept => adding.selected = adding.list
=============================================================================
