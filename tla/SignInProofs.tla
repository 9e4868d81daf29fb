------------------------------ MODULE SignInProofs ------------------------------
(***************************************************************************)
(* What is saved after a sign-in belongs together, every token has been    *)
(* issued, and the accounts that are selected are added: for every number  *)
(* of sign-ins, every life of a token and every set of accounts.           *)
(***************************************************************************)
EXTENDS SignIn, ListProofs

\* The parts of TypeOK.
Basics ==
  /\ flow \in Flows /\ patient \in Patience /\ clock \in 0..MaxTime /\ asked \in Sign
  /\ shown \in {"nothing", "cluster", "expired", "error"}
IdpTyped ==
  /\ status \in [Sign \ {0} -> {"none", "asked", "started", "approved", "redeemed"}]
  /\ registered \in [Sign \ {0} -> 0..MaxTime] /\ issued \in [Sign \ {0} -> 0..MaxTime]
FormTyped ==
  form \in [config : Sign, page : Sign, verified : BOOLEAN, code : Sign, token : Token,
            open : BOOLEAN]
MessagesTyped ==
  requests \subseteq [code : Sign, verifier : Sign] /\ answers \subseteq Sign \ {0}
SavedTyped ==
  /\ saved \in [config : Sign, token : Token]
  /\ refreshing \in [token : Token, at : Nat, accepted : BOOLEAN]
AddingTyped ==
  adding \in [selected : Seq(Accounts), list : Seq(Accounts), kept : BOOLEAN, at : Nat,
             done : Seq(Accounts), failures : Nat]
Issued ==
  /\ \A i \in answers : status[i] = "redeemed"
  /\ form.token.of # 0 => status[form.token.of] = "redeemed"
  /\ saved.token.of # 0 => status[saved.token.of] = "redeemed"
  /\ refreshing.token.of # 0 => status[refreshing.token.of] = "redeemed"

\* Sign-ins that have not been started are unknown to the identity provider.
Unused == \A i \in Sign \ {0} : i > asked => status[i] = "none"

\* The time at which a token expires is the one at which it is refused, or later by the time
\* that the answer took, and it is sent only within the margin after that.
IsTimely(t) ==
  t = NoToken \/ (t.of # 0 /\ issued[t.of] + Life <= t.expires
                             /\ t.expires <= issued[t.of] + Life + Delay)
Timely ==
  /\ \A i \in answers : issued[i] <= clock /\ clock <= issued[i] + Delay
  /\ IsTimely(form.token) /\ IsTimely(saved.token) /\ IsTimely(refreshing.token)
  /\ ~refreshing.accepted /\ refreshing.token # NoToken =>
       refreshing.at <= refreshing.token.expires + Margin

\* A patient user has one thing under way.
OneAtATime ==
  patient =>
    /\ \A i \in Sign \ {0} : status[i] = "asked" =>
         i = asked /\ requests = {} /\ answers = {} /\ refreshing = NoRefresh
    /\ \A r, s \in requests : r = s
    /\ requests = {} \/ answers = {}
    /\ refreshing # NoRefresh => requests = {} /\ answers = {}

\* It belongs to the last sign-in that was started, or to the provider that is saved.
Together ==
  patient =>
    /\ \A r \in requests : r.verifier = form.config
    /\ answers \subseteq {form.config}
    /\ form.token.of <= form.config /\ form.config <= asked
    /\ BelongsTo(refreshing.token.of, saved.config)
    /\ BelongsTo(saved.token.of, saved.config)

IInv ==
  /\ Basics /\ IdpTyped /\ FormTyped /\ MessagesTyped /\ SavedTyped /\ AddingTyped
  /\ Issued /\ Unused /\ Timely /\ OneAtATime /\ Together

USE ConstantsAssumption

LEMMA NewTokenTyped ==
  ASSUME Basics, NEW i \in Sign
  PROVE  NewToken(i) \in Token /\ NewToken(i).of = i
BY DEF Basics, NewToken, Token

\* The steps of the list of the accounts.
AddingNext ==
  \/ \E a \in Accounts : SelectAccount(a)
  \/ \E i \in DOMAIN adding.selected : UnselectAccount(i)
  \/ AddProviders \/ AddProvider \/ AddFails

LEMMA Appended ==
  ASSUME NEW S, NEW s \in Seq(S), NEW e \in S
  PROVE  Append(s, e) \in Seq(S)
OBVIOUS

LEMMA AddingKeepsType == AddingTyped /\ AddingNext => AddingTyped'
<1> SUFFICES ASSUME AddingTyped, AddingNext PROVE AddingTyped'
  OBVIOUS
<1>0. /\ adding.selected \in Seq(Accounts) /\ adding.list \in Seq(Accounts)
      /\ adding.done \in Seq(Accounts) /\ adding.at \in Nat /\ adding.failures \in Nat
  BY DEF AddingTyped
<1>1. ASSUME NEW a \in Accounts, SelectAccount(a) PROVE AddingTyped'
  <2>1. Append(adding.selected, a) \in Seq(Accounts)
    BY <1>0, Appended
  <2> QED
    BY <1>1, <2>1 DEF SelectAccount, AddingTyped
<1>2. ASSUME NEW i \in DOMAIN adding.selected, UnselectAccount(i) PROVE AddingTyped'
  <2>1. RemoveAt(adding.selected, i) \in Seq(Accounts)
    BY <1>0, RemovedContents
  <2> QED
    BY <1>2, <2>1 DEF UnselectAccount, AddingTyped
<1>3. ASSUME AddProviders PROVE AddingTyped'
  BY <1>3 DEF AddProviders, AddingTyped
<1>4. ASSUME AddFails PROVE AddingTyped'
  <2>1. adding' = [selected |-> adding.selected, list |-> adding.list, kept |-> adding.kept,
                   at |-> 0, done |-> adding.done, failures |-> adding.failures + 1]
    BY <1>4 DEF AddFails, AddingTyped
  <2> QED
    BY <1>0, <2>1 DEF AddingTyped
<1>5. ASSUME AddProvider PROVE AddingTyped'
  <2> DEFINE done == Append(adding.done, adding.list[adding.at])
  <2>1. adding.at \in 1..Len(adding.list)
    BY <1>5 DEF AddProvider
  <2>2. adding.list[adding.at] \in Accounts
    BY ONLY <1>0, <2>1
  <2>3. done \in Seq(Accounts)
    BY <1>0, <2>2, Appended
  <2>4. PICK at \in {0, adding.at + 1}, failures \in {adding.failures, adding.failures + 1} :
          adding' = [selected |-> adding.selected, list |-> adding.list,
                     kept |-> adding.kept, at |-> at, done |-> done, failures |-> failures]
    BY <1>5 DEF AddProvider, AddingTyped
  <2>5. at \in Nat /\ failures \in Nat
    BY <1>0
  <2> HIDE DEF done
  <2> QED
    BY <1>0, <2>3, <2>4, <2>5 DEF AddingTyped
<1> QED
  BY <1>1, <1>2, <1>3, <1>4, <1>5 DEF AddingNext

LEMMA InitIInv == Init => IInv
<1> SUFFICES ASSUME Init PROVE IInv
  OBVIOUS
<1> USE DEF Init, Existing
<1>1. Basics /\ Unused
  BY DEF Basics, Unused, Sign
<1>2. IdpTyped
  BY DEF IdpTyped
<1>3. FormTyped
  BY DEF FormTyped, Sign, Token, NoToken
<1>4. MessagesTyped
  BY DEF MessagesTyped
<1>5. SavedTyped
  BY DEF SavedTyped, Sign, Token, NoToken, NoProvider, NoRefresh
<1>6. AddingTyped
  BY DEF AddingTyped, NotAdding
<1>7. Issued
  BY DEF Issued, Sign, NoToken, NoProvider, NoRefresh
<1>8. Timely
  BY DEF Timely, IsTimely, Sign, NoToken, NoProvider, NoRefresh
<1>9. OneAtATime
  BY DEF OneAtATime, Sign
<1>10. Together
  BY DEF Together, BelongsTo, NoToken, NoProvider, NoRefresh
<1> QED
  BY <1>1, <1>2, <1>3, <1>4, <1>5, <1>6, <1>7, <1>8, <1>9, <1>10 DEF IInv

LEMMA NextIInv == IInv /\ [Next]_vars => IInv'
<1> SUFFICES ASSUME IInv, [Next]_vars PROVE IInv'
  OBVIOUS
<1> USE DEF IInv
<1>1. CASE Tick
  <2>. UNCHANGED <<flow, patient, asked, idp, form, requests, answers, saved, refreshing,
                   adding>>
    BY <1>1 DEF Tick
  <2>a. IdpTyped' /\ FormTyped' /\ MessagesTyped' /\ SavedTyped' /\ AddingTyped'
    BY DEF idp, IdpTyped, FormTyped, MessagesTyped, SavedTyped, AddingTyped
  <2>b. Issued' /\ Unused'
    BY DEF idp, Issued, Unused
  <2>c. OneAtATime' /\ Together'
    BY DEF idp, OneAtATime, Together, BelongsTo
  <2>1. IdpTyped' /\ FormTyped' /\ MessagesTyped' /\ SavedTyped' /\ AddingTyped' /\
      Issued' /\ Unused' /\ OneAtATime' /\ Together'
    BY <2>a, <2>b, <2>c
  <2>2. Basics'
    BY <1>1 DEF Tick, Basics
  <2>3. Timely'
    <3>1. ASSUME NEW j \in answers PROVE issued[j] <= clock' /\ clock' <= issued[j] + Delay
      <4>1. clock \in Nat /\ issued[j] \in Nat
        BY DEF Basics, IdpTyped, MessagesTyped
      <4>2. issued[j] <= clock /\ clock < issued[j] + Delay /\ clock' = clock + 1
        BY <1>1 DEF Tick, Timely
      <4> QED
        BY <4>1, <4>2
    <3> QED
      BY <1>1, <3>1 DEF Tick, Timely, IsTimely, idp
  <2> QED
    BY <2>1, <2>2, <2>3 DEF IInv
<1>2. CASE Start
  <2>1. FormTyped' /\ MessagesTyped' /\ SavedTyped' /\ AddingTyped' /\ Timely'
    BY <1>2 DEF Start, idp, FormTyped, MessagesTyped, SavedTyped, AddingTyped, Timely,
        IsTimely
  <2>2. Basics'
    BY <1>2 DEF Start, Basics, Sign
  <2>3. IdpTyped'
    BY <1>2 DEF Start, IdpTyped
  <2>4. Issued'
    <3>1. asked + 1 \in Sign \ {0} /\ status[asked + 1] = "none"
      BY <1>2 DEF Start, Basics, Unused, Sign
    <3>2. \A j \in Sign \ {0} : status[j] = "redeemed" => status'[j] = "redeemed"
      BY <1>2, <3>1 DEF Start, IdpTyped
    <3> QED
      BY <1>2, <3>2 DEF Start, Issued, FormTyped, SavedTyped, MessagesTyped, Token
  <2>5. Unused'
    BY <1>2 DEF Start, Unused, Basics, Sign
  <2>6. OneAtATime'
    BY <1>2 DEF Start, Ready, Settled, OneAtATime
  <2>7. Together'
    <3>1. asked \in Nat /\ form.config \in Nat /\ asked' = asked + 1
      BY <1>2 DEF Start, Basics, FormTyped, Sign
    <3>2. form.config <= asked => form.config <= asked'
      BY <3>1
    <3> QED
      BY <1>2, <3>2 DEF Start, Together, BelongsTo
  <2> QED
    BY <2>1, <2>2, <2>3, <2>4, <2>5, <2>6, <2>7 DEF IInv
<1>3. CASE Verify
  <2>1. Basics' /\ IdpTyped' /\ MessagesTyped' /\ SavedTyped' /\ AddingTyped' /\ Unused'
    BY <1>3 DEF Verify, idp, Basics, IdpTyped, MessagesTyped, SavedTyped, AddingTyped,
        Unused
  <2>2. FormTyped'
    BY <1>3 DEF Verify, FormTyped
  <2>3. Issued'
    BY <1>3 DEF Verify, idp, Issued
  <2>4. Timely'
    BY <1>3 DEF Verify, idp, Timely, IsTimely
  <2>5. OneAtATime'
    BY <1>3 DEF Verify, idp, OneAtATime
  <2>6. Together'
    BY <1>3 DEF Verify, Together, BelongsTo
  <2> QED
    BY <2>1, <2>2, <2>3, <2>4, <2>5, <2>6 DEF IInv
<1>4. CASE Approve
  <2>1. Basics' /\ MessagesTyped' /\ SavedTyped' /\ AddingTyped'
    BY <1>4 DEF Approve, idp, Basics, MessagesTyped, SavedTyped, AddingTyped
  <2>2. IdpTyped'
    BY <1>4 DEF Approve, IdpTyped
  <2>3. FormTyped'
    BY <1>4 DEF Approve, FormTyped
  <2>4. Issued'
    BY <1>4 DEF Approve, Issued
  <2>5. Unused'
    BY <1>4 DEF Approve, Unused
  <2>6. Timely'
    BY <1>4 DEF Approve, Timely, IsTimely
  <2>7. OneAtATime'
    BY <1>4 DEF Approve, OneAtATime, IdpTyped
  <2>8. Together'
    BY <1>4 DEF Approve, Together, BelongsTo
  <2> QED
    BY <2>1, <2>2, <2>3, <2>4, <2>5, <2>6, <2>7, <2>8 DEF IInv
<1>5. CASE Redeem
  <2>1. Basics' /\ IdpTyped' /\ FormTyped' /\ SavedTyped' /\ AddingTyped' /\ Issued' /\
      Unused' /\ Timely'
    <3>1. UNCHANGED <<flow, patient, clock, asked, idp, form, answers, saved, refreshing, shown,
                      adding>>
      BY <1>5 DEF Redeem
    <3>2. Basics' /\ IdpTyped' /\ FormTyped' /\ SavedTyped' /\ AddingTyped'
      BY <3>1 DEF idp, Basics, IdpTyped, FormTyped, SavedTyped, AddingTyped
    <3>3. Issued' /\ Unused'
      BY <3>1 DEF idp, Issued, Unused
    <3>4. Timely'
      BY <3>1 DEF idp, Timely, IsTimely
    <3> QED
      BY <3>2, <3>3, <3>4
  <2>2. MessagesTyped'
    BY <1>5 DEF Redeem, MessagesTyped, FormTyped
  <2>3. OneAtATime'
    BY <1>5 DEF Redeem, Ready, Settled, idp, OneAtATime
  <2>4. Together'
    BY <1>5 DEF Redeem, Together, BelongsTo
  <2> QED
    BY <2>1, <2>2, <2>3, <2>4 DEF IInv
<1>6. CASE Save
  <2>1. Basics' /\ IdpTyped' /\ MessagesTyped' /\ AddingTyped' /\ Unused'
    BY <1>6 DEF Save, idp, Basics, IdpTyped, MessagesTyped, AddingTyped, Unused
  <2>2. FormTyped'
    BY <1>6 DEF Save, FormTyped
  <2>3. SavedTyped'
    BY <1>6 DEF Save, SavedTyped, FormTyped
  <2>4. Issued'
    BY <1>6 DEF Save, idp, Issued
  <2>5. Timely'
    BY <1>6 DEF Save, idp, Timely, IsTimely
  <2>6. OneAtATime'
    BY <1>6 DEF Save, idp, OneAtATime
  <2>7. Together'
    <3>1. patient => refreshing = NoRefresh
      BY <1>6 DEF Save, Ready, Settled
    <3>2. saved'.config = form.config /\ saved'.token = form.token
      BY <1>6 DEF Save
    <3>3. patient => BelongsTo(saved'.token.of, saved'.config)
      <4>1. form.token.of \in Nat /\ form.config \in Nat
        BY DEF FormTyped, Token, Sign
      <4>2. flow \in {"sso", "edit"} /\ (patient => form.token.of <= form.config)
        BY <1>6 DEF Save, Together
      <4> QED
        BY <3>2, <4>1, <4>2 DEF BelongsTo
    <3>4. form'.token = form.token /\ form'.config = form.config
      BY <1>6 DEF Save, FormTyped
    <3> QED
      BY <1>6, <3>1, <3>3, <3>4 DEF Save, Together, BelongsTo, NoToken, NoRefresh
  <2> QED
    BY <2>1, <2>2, <2>3, <2>4, <2>5, <2>6, <2>7 DEF IInv
<1>7. CASE RefreshFails
  <2>. UNCHANGED <<flow, patient, clock, asked, idp, form, requests, answers, saved,
                   refreshing, adding>>
    BY <1>7 DEF RefreshFails
  <2>0. IdpTyped' /\ FormTyped' /\ MessagesTyped' /\ SavedTyped' /\ AddingTyped' /\
      Issued' /\ Unused'
    BY DEF idp, IdpTyped, FormTyped, MessagesTyped, SavedTyped, AddingTyped, Issued, Unused
  <2>1. Timely' /\ OneAtATime' /\ Together'
    BY DEF idp, IsTimely, Timely, OneAtATime, Together, BelongsTo
  <2>2. Basics'
    BY <1>7 DEF RefreshFails, Basics
  <2> QED
    BY <2>0, <2>1, <2>2 DEF IInv
<1>8. CASE Refresh
  <2>1. Basics' /\ IdpTyped' /\ FormTyped' /\ MessagesTyped' /\ AddingTyped' /\ Unused'
    BY <1>8 DEF Refresh, idp, Basics, IdpTyped, FormTyped, MessagesTyped, AddingTyped,
        Unused
  <2>2. SavedTyped'
    BY <1>8 DEF Refresh, IsAccepted, SavedTyped, Basics
  <2>3. Issued'
    BY <1>8 DEF Refresh, idp, Issued
  <2>4. Timely'
    <3>1. saved.token.expires \in Nat /\ clock \in Nat
      BY DEF SavedTyped, Token, Basics
    <3>2. refreshing'.token = saved.token /\ refreshing'.at = clock
            /\ clock <= saved.token.expires + Margin
      BY <1>8, <3>1 DEF Refresh, IsExpired
    <3> QED
      BY <1>8, <3>2 DEF Refresh, Timely, IsTimely, idp
  <2>5. OneAtATime'
    BY <1>8 DEF Refresh, CanRefresh, Settled, idp, OneAtATime
  <2>6. Together'
    BY <1>8 DEF Refresh, Together, BelongsTo
  <2> QED
    BY <2>1, <2>2, <2>3, <2>4, <2>5, <2>6 DEF IInv
<1>9. CASE RefreshWithCode
  <2>a. saved.config \in Sign \ {0} /\ saved.token = NoToken
    BY <1>9 DEF RefreshWithCode, IsBroken, SavedTyped
  <2>b. \/ /\ refreshing' = [token |-> NewToken(saved.config), at |-> clock, accepted |-> TRUE]
           /\ status' = [status EXCEPT ![saved.config] = "redeemed"]
        \/ refreshing' = [token |-> NoToken, at |-> clock, accepted |-> FALSE]
    BY <1>9 DEF RefreshWithCode
  <2>1. Basics' /\ FormTyped' /\ MessagesTyped' /\ AddingTyped'
    BY <1>9 DEF RefreshWithCode, idp, Basics, FormTyped, MessagesTyped, AddingTyped
  <2>2. IdpTyped'
    BY <1>9 DEF RefreshWithCode, CanRefresh, Settled, IdpTyped, Basics
  <2>3. SavedTyped'
    <3>1. clock \in Nat /\ NoToken \in Token /\ NewToken(saved.config) \in Token
      BY <2>a, NewTokenTyped DEF Basics, NoToken, Token, Sign
    <3>2. PICK t \in Token, b \in BOOLEAN :
            refreshing' = [token |-> t, at |-> clock, accepted |-> b]
      BY <2>b, <3>1, Zenon
    <3> QED
      BY <1>9, <3>1, <3>2 DEF RefreshWithCode, SavedTyped
  <2>4. Issued'
    <3>1. \A j \in Sign \ {0} : status[j] = "redeemed" => status'[j] = "redeemed"
      BY <1>9, <2>a DEF RefreshWithCode, IdpTyped
    <3>2. refreshing'.token.of # 0 =>
            refreshing'.token.of = saved.config /\ status'[saved.config] = "redeemed"
      BY <1>9, <2>a, <2>b, NewTokenTyped DEF RefreshWithCode, IdpTyped, NoToken
    <3> QED
      BY <1>9, <2>a, <3>1, <3>2 DEF RefreshWithCode, Issued, FormTyped, SavedTyped,
          MessagesTyped, Token
  <2>5. Unused'
    BY <1>9, <2>a DEF RefreshWithCode, Unused, IdpTyped
  <2>6. Timely'
    <3>1. \A j \in Sign \ {0} : status[j] = "redeemed" => issued'[j] = issued[j]
      BY <1>9, <2>a DEF RefreshWithCode, IdpTyped
    <3>2. \A t \in Token : IsTimely(t) /\ (t.of # 0 => status[t.of] = "redeemed") =>
            t = NoToken \/ (t.of # 0 /\ issued'[t.of] + Life <= t.expires
                                       /\ t.expires <= issued'[t.of] + Life + Delay)
      BY <3>1 DEF IsTimely, Token
    <3>3. form.token \in Token /\ saved.token \in Token /\ refreshing.token \in Token
      BY DEF FormTyped, SavedTyped
    <3>4. \A j \in answers : issued'[j] = issued[j]
      BY <3>1 DEF Issued, MessagesTyped
    <3>5. refreshing'.token = NoToken
            \/ (refreshing'.accepted /\ refreshing'.token = NewToken(saved.config)
                                       /\ issued'[saved.config] = clock)
      BY <1>9, <2>a, <2>b DEF RefreshWithCode, IdpTyped
    <3>6. clock \in Nat /\ NewToken(saved.config).of = saved.config
            /\ NewToken(saved.config).expires = clock + Life
      BY DEF Basics, NewToken
    <3>7. IsTimely(refreshing.token)'
      BY <2>a, <3>5, <3>6 DEF IsTimely
    <3> QED
      BY <1>9, <3>2, <3>3, <3>4, <3>5, <3>7 DEF RefreshWithCode, Timely, IsTimely, Issued
  <2>7. OneAtATime'
    <3>1. \A j \in Sign \ {0} : status'[j] = "asked" => status[j] = "asked"
      BY <1>9, <2>a DEF RefreshWithCode, IdpTyped
    <3>2. patient => Settled
      BY <1>9 DEF RefreshWithCode, CanRefresh
    <3> QED
      BY <1>9, <3>1, <3>2 DEF RefreshWithCode, OneAtATime, Settled
  <2>8. Together'
    <3>1. refreshing'.token.of \in {0, saved.config}
      BY <1>9, <2>a, <2>b, NewTokenTyped DEF RefreshWithCode, NoToken
    <3> QED
      BY <1>9, <3>1 DEF RefreshWithCode, Together, BelongsTo
  <2> QED
    BY <2>1, <2>2, <2>3, <2>4, <2>5, <2>6, <2>7, <2>8 DEF IInv
<1>10. CASE Refreshed \/ RefreshRefused
  <2>a. refreshing' = NoRefresh /\ NoRefresh.token.of = 0
    BY <1>10 DEF Refreshed, RefreshRefused, NoRefresh, NoToken
  <2>b. saved' = saved \/ saved' = [saved EXCEPT !.token = refreshing.token]
    BY <1>10 DEF Refreshed, RefreshRefused
  <2>c. saved'.config = saved.config /\ saved'.token \in {saved.token, refreshing.token}
    BY <2>b DEF SavedTyped
  <2>d. UNCHANGED <<flow, patient, clock, asked, idp, form, requests, answers, adding>>
          /\ shown' \in {"cluster", "error"}
    BY <1>10 DEF Refreshed, RefreshRefused
  <2>1. IdpTyped' /\ FormTyped' /\ MessagesTyped' /\ AddingTyped' /\ Unused'
    BY <2>d DEF idp, IdpTyped, FormTyped, MessagesTyped, AddingTyped, Unused
  <2>2. Basics'
    BY <2>d DEF Basics
  <2>3. SavedTyped'
    <3>1. NoRefresh.token \in Token /\ NoRefresh.at \in Nat /\ NoRefresh.accepted \in BOOLEAN
      BY DEF NoRefresh, NoToken, Token, Sign
    <3> QED
      BY <2>a, <2>b, <3>1 DEF SavedTyped, NoRefresh
  <2>4. Issued'
    BY <2>a, <2>c, <2>d DEF idp, Issued
  <2>5. Timely'
    BY <2>a, <2>c, <2>d DEF idp, Timely, IsTimely, NoRefresh
  <2>6. OneAtATime'
    BY <2>a, <2>d DEF idp, OneAtATime
  <2>7. Together'
    BY <2>a, <2>c, <2>d DEF idp, Together, BelongsTo
  <2> QED
    BY <2>1, <2>2, <2>3, <2>4, <2>5, <2>6, <2>7 DEF IInv
<1>11. ASSUME NEW i \in Sign \ {0}, GetConfig(i) PROVE IInv'
  <2>1. Basics' /\ MessagesTyped' /\ SavedTyped' /\ AddingTyped'
    BY <1>11 DEF GetConfig, Started, idp, Basics, MessagesTyped, SavedTyped, AddingTyped
  <2>2. IdpTyped'
    BY <1>11 DEF GetConfig, Started, IdpTyped, Basics
  <2>3. FormTyped'
    BY <1>11 DEF GetConfig, FormTyped
  <2>4. Issued'
    BY <1>11 DEF GetConfig, Started, Issued, FormTyped, IdpTyped, SavedTyped, MessagesTyped
  <2>5. Unused'
    BY <1>11 DEF GetConfig, Started, Unused
  <2>6. Timely'
    BY <1>11 DEF GetConfig, Started, Timely, IsTimely
  <2>7. OneAtATime'
    BY <1>11 DEF GetConfig, Started, OneAtATime
  <2>8. Together'
    <3>1. patient => requests = {} /\ answers = {} /\ i = asked
      BY <1>11 DEF GetConfig, Started, OneAtATime
    <3>2. form'.token = form.token /\ form'.config \in {form.config, i}
      BY <1>11 DEF GetConfig, FormTyped
    <3>3. form.token.of \in Nat /\ form.config \in Nat /\ asked \in Nat
      BY DEF FormTyped, Token, Sign, Basics
    <3>4. patient => form.token.of <= form'.config /\ form'.config <= asked
      BY <3>1, <3>2, <3>3 DEF Together
    <3> QED
      BY <1>11, <3>1, <3>2, <3>4 DEF GetConfig, Started, Together, BelongsTo
  <2> QED
    BY <2>1, <2>2, <2>3, <2>4, <2>5, <2>6, <2>7, <2>8 DEF IInv
<1>12. ASSUME NEW i \in Sign \ {0}, GetDeviceCode(i) PROVE IInv'
  <2>1. Basics' /\ MessagesTyped' /\ SavedTyped' /\ AddingTyped'
    BY <1>12 DEF GetDeviceCode, Started, idp, Basics, MessagesTyped, SavedTyped, AddingTyped
  <2>2. IdpTyped'
    BY <1>12 DEF GetDeviceCode, Started, IdpTyped, Basics
  <2>3. FormTyped'
    BY <1>12 DEF GetDeviceCode, FormTyped
  <2>4. Issued'
    BY <1>12 DEF GetDeviceCode, Started, Issued, IdpTyped, MessagesTyped
  <2>5. Unused'
    BY <1>12 DEF GetDeviceCode, Started, Unused
  <2>6. Timely'
    BY <1>12 DEF GetDeviceCode, Started, Timely, IsTimely
  <2>7. OneAtATime'
    BY <1>12 DEF GetDeviceCode, Started, OneAtATime
  <2>8. Together'
    <3>1. patient => requests = {} /\ answers = {} /\ i = asked
      BY <1>12 DEF GetDeviceCode, Started, OneAtATime
    <3>2. form'.token = form.token /\ form'.config \in {form.config, i}
      BY <1>12 DEF GetDeviceCode, FormTyped
    <3>3. form.token.of \in Nat /\ form.config \in Nat /\ asked \in Nat
      BY DEF FormTyped, Token, Sign, Basics
    <3>4. patient => form.token.of <= form'.config /\ form'.config <= asked
      BY <3>1, <3>2, <3>3 DEF Together
    <3> QED
      BY <1>12, <3>1, <3>2, <3>4 DEF GetDeviceCode, Started, Together, BelongsTo
  <2> QED
    BY <2>1, <2>2, <2>3, <2>4, <2>5, <2>6, <2>7, <2>8 DEF IInv
<1>13. ASSUME NEW i \in Sign \ {0}, GetLink(i) PROVE IInv'
  <2>1. Basics' /\ MessagesTyped' /\ SavedTyped' /\ AddingTyped'
    BY <1>13 DEF GetLink, Started, idp, Basics, MessagesTyped, SavedTyped, AddingTyped
  <2>2. IdpTyped'
    BY <1>13 DEF GetLink, Started, IdpTyped, Basics
  <2>3. FormTyped'
    <3>1. \/ form' = form
          \/ form' = [form EXCEPT !.config = i, !.page = i]
          \/ form' = [form EXCEPT !.config = i]
      BY <1>13 DEF GetLink
    <3> QED
      BY <1>13, <3>1 DEF FormTyped
  <2>4. Issued'
    <3>1. form'.token = form.token
      BY <1>13 DEF GetLink, FormTyped
    <3>2. \A j \in Sign \ {0} : status[j] = "redeemed" => status'[j] = "redeemed"
      BY <1>13 DEF GetLink, Started, IdpTyped
    <3>3. {form.token.of, saved.token.of, refreshing.token.of} \cup answers \subseteq Sign
      BY DEF FormTyped, SavedTyped, MessagesTyped, Token
    <3>4. UNCHANGED <<answers, saved, refreshing>> /\ 0 \notin answers
      BY <1>13 DEF GetLink, Started, MessagesTyped
    <3> QED
      BY <3>1, <3>2, <3>3, <3>4 DEF Issued
  <2>5. Unused'
    BY <1>13 DEF GetLink, Started, Unused
  <2>6. Timely'
    <3>1. form'.token = form.token
      BY <1>13 DEF GetLink, FormTyped
    <3> QED
      BY <1>13, <3>1 DEF GetLink, Started, Timely, IsTimely
  <2>7. OneAtATime'
    <3>1. form'.token = form.token
      BY <1>13 DEF GetLink, FormTyped
    <3>2. \A j \in Sign \ {0} : status'[j] = "asked" => status[j] = "asked"
      BY <1>13 DEF GetLink, Started, IdpTyped
    <3> QED
      BY <1>13, <3>1, <3>2 DEF GetLink, Started, OneAtATime
  <2>8. Together'
    <3>1. patient => requests = {} /\ answers = {} /\ i = asked
      BY <1>13 DEF GetLink, Started, OneAtATime
    <3>2. form'.token = form.token /\ form'.config \in {form.config, i}
      BY <1>13 DEF GetLink, FormTyped
    <3>3. form.token.of \in Nat /\ form.config \in Nat /\ asked \in Nat
      BY DEF FormTyped, Token, Sign, Basics
    <3>4. patient => form.token.of <= form'.config /\ form'.config <= asked
      BY <3>1, <3>2, <3>3 DEF Together
    <3> QED
      BY <1>13, <3>1, <3>2, <3>4 DEF GetLink, Started, Together, BelongsTo
  <2> QED
    BY <2>1, <2>2, <2>3, <2>4, <2>5, <2>6, <2>7, <2>8 DEF IInv
<1>14. ASSUME NEW i \in Sign \ {0}, StartFails(i) PROVE IInv'
  <2>1. Basics' /\ FormTyped' /\ MessagesTyped' /\ SavedTyped' /\ AddingTyped' /\
      Timely' /\ Together'
    BY <1>14 DEF StartFails, idp, Basics, FormTyped, MessagesTyped, SavedTyped,
        AddingTyped, Timely, Together, BelongsTo, IsTimely
  <2>2. IdpTyped'
    BY <1>14 DEF StartFails, IdpTyped
  <2>3. Issued'
    BY <1>14 DEF StartFails, Issued, SavedTyped, MessagesTyped
  <2>4. Unused'
    BY <1>14 DEF StartFails, Unused
  <2>5. OneAtATime'
    BY <1>14 DEF StartFails, OneAtATime
  <2> QED
    BY <2>1, <2>2, <2>3, <2>4, <2>5 DEF IInv
<1>15. ASSUME NEW r \in requests, CreateToken(r) PROVE IInv'
  <2>a. r.code \in Sign \ {0}
    BY <1>15 DEF CreateToken, MessagesTyped
  <2>1. Basics' /\ FormTyped' /\ SavedTyped' /\ AddingTyped'
    BY <1>15 DEF CreateToken, idp, Basics, FormTyped, SavedTyped, AddingTyped
  <2>2. IdpTyped'
    BY <1>15 DEF CreateToken, IdpTyped, Basics
  <2>3. MessagesTyped'
    BY <1>15, <2>a DEF CreateToken, MessagesTyped
  <2>4. Issued'
    <3>1. \A j \in Sign \ {0} : status[j] = "redeemed" => status'[j] = "redeemed"
      BY <1>15, <2>a DEF CreateToken, IdpTyped
    <3>2. status'[r.code] = "redeemed"
      BY <1>15, <2>a DEF CreateToken, IdpTyped
    <3> QED
      BY <1>15, <3>1, <3>2 DEF CreateToken, Issued, FormTyped, SavedTyped, MessagesTyped,
          Token
  <2>5. Unused'
    BY <1>15 DEF CreateToken, Unused
  <2>6. Timely'
    <3>1. \A j \in Sign \ {0} : status[j] = "redeemed" => issued'[j] = issued[j]
      BY <1>15, <2>a DEF CreateToken, IdpTyped
    <3>2. \A t \in Token : IsTimely(t) /\ (t.of # 0 => status[t.of] = "redeemed") =>
            t = NoToken \/ (t.of # 0 /\ issued'[t.of] + Life <= t.expires
                                       /\ t.expires <= issued'[t.of] + Life + Delay)
      BY <3>1 DEF IsTimely, Token
    <3>3. form.token \in Token /\ saved.token \in Token /\ refreshing.token \in Token
      BY DEF FormTyped, SavedTyped
    <3>4. \A j \in answers : issued'[j] = issued[j]
      BY <3>1 DEF Issued, MessagesTyped
    <3>5. issued'[r.code] = clock /\ clock \in Nat
      BY <1>15, <2>a DEF CreateToken, IdpTyped, Basics
    <3> QED
      BY <1>15, <3>2, <3>3, <3>4, <3>5 DEF CreateToken, Timely, IsTimely, Issued
  <2>7. OneAtATime'
    <3>1. \A j \in Sign \ {0} : status'[j] = "asked" => status[j] = "asked"
      BY <1>15, <2>a DEF CreateToken, IdpTyped
    <3>2. patient => requests \ {r} = {} /\ refreshing = NoRefresh
                       /\ \A j \in Sign \ {0} : status[j] # "asked"
      BY <1>15 DEF OneAtATime
    <3> QED
      BY <1>15, <3>1, <3>2 DEF CreateToken, OneAtATime
  <2>8. Together'
    BY <1>15 DEF CreateToken, Together, BelongsTo
  <2> QED
    BY <2>1, <2>2, <2>3, <2>4, <2>5, <2>6, <2>7, <2>8 DEF IInv
<1>16. ASSUME NEW r \in requests, CreateTokenFails(r) PROVE IInv'
  <2>1. Basics' /\ IdpTyped' /\ FormTyped' /\ SavedTyped' /\ AddingTyped' /\ Issued' /\
      Unused' /\ Timely'
    BY <1>16 DEF CreateTokenFails, idp, Basics, IdpTyped, FormTyped, SavedTyped,
        AddingTyped, Issued, Unused, Timely, IsTimely
  <2>2. MessagesTyped'
    BY <1>16 DEF CreateTokenFails, MessagesTyped
  <2>3. OneAtATime'
    BY <1>16 DEF CreateTokenFails, idp, OneAtATime
  <2>4. Together'
    BY <1>16 DEF CreateTokenFails, Together, BelongsTo
  <2> QED
    BY <2>1, <2>2, <2>3, <2>4 DEF IInv
<1>17. ASSUME NEW i \in answers, GetCredentials(i) PROVE IInv'
  <2>a. NewToken(i) \in Token /\ NewToken(i).of = i /\ i \in Sign
    BY NewTokenTyped DEF MessagesTyped
  <2>1. Basics' /\ IdpTyped' /\ SavedTyped' /\ AddingTyped' /\ Unused'
    BY <1>17 DEF GetCredentials, idp, Basics, IdpTyped, SavedTyped, AddingTyped, Unused
  <2>2. FormTyped'
    BY <1>17, <2>a DEF GetCredentials, FormTyped
  <2>3. MessagesTyped'
    BY <1>17 DEF GetCredentials, MessagesTyped
  <2>4. Issued'
    BY <1>17 DEF GetCredentials, NewToken, idp, Issued
  <2>5. Timely'
    <3>1. IsTimely(NewToken(i))
      BY DEF IsTimely, NewToken, Timely, Basics, IdpTyped, MessagesTyped
    <3>2. form'.token \in {form.token, NewToken(i)}
      BY <1>17 DEF GetCredentials, FormTyped, SavedTyped
    <3> QED
      BY <1>17, <3>1, <3>2 DEF GetCredentials, Timely, IsTimely, idp
  <2>6. OneAtATime'
    BY <1>17 DEF GetCredentials, idp, OneAtATime
  <2>7. Together'
    <3>1. patient => i = form.config
      BY DEF Together
    <3>2. form'.config = form.config /\ form'.token \in {form.token, NewToken(i)}
      BY <1>17 DEF GetCredentials, FormTyped
    <3>3. patient => form'.token.of <= form'.config
      <4>1. form.config \in Nat
        BY DEF FormTyped, Sign
      <4> QED
        BY <2>a, <3>1, <3>2, <4>1 DEF Together
    <3> QED
      BY <1>17, <3>2, <3>3 DEF GetCredentials, Together, BelongsTo
  <2> QED
    BY <2>1, <2>2, <2>3, <2>4, <2>5, <2>6, <2>7 DEF IInv
<1>18. ASSUME NEW i \in answers, GetCredentialsAgain(i) PROVE IInv'
  <2>a. NewToken(i) \in Token /\ NewToken(i).of = i /\ i \in Sign
    BY NewTokenTyped DEF MessagesTyped
  <2>1. Basics' /\ IdpTyped' /\ FormTyped' /\ AddingTyped' /\ Unused'
    BY <1>18 DEF GetCredentialsAgain, idp, Basics, IdpTyped, FormTyped, AddingTyped,
        Unused
  <2>2. MessagesTyped'
    BY <1>18 DEF GetCredentialsAgain, MessagesTyped
  <2>3. SavedTyped'
    BY <1>18, <2>a DEF GetCredentialsAgain, SavedTyped, FormTyped
  <2>4. Issued'
    BY <1>18 DEF GetCredentialsAgain, NewToken, idp, Issued
  <2>5. Timely'
    <3>1. IsTimely(NewToken(i))
      BY DEF IsTimely, NewToken, Timely, Basics, IdpTyped, MessagesTyped
    <3>2. form'.token = form.token /\ saved'.token = NewToken(i)
      BY <1>18 DEF GetCredentialsAgain, FormTyped, SavedTyped
    <3> QED
      BY <1>18, <3>1, <3>2 DEF GetCredentialsAgain, Timely, IsTimely, idp
  <2>6. OneAtATime'
    BY <1>18 DEF GetCredentialsAgain, idp, OneAtATime
  <2>7. Together'
    <3>1. patient => i = form.config /\ refreshing = NoRefresh
      BY DEF Together, BelongsTo, OneAtATime
    <3>2. saved'.token.of = saved'.config \/ ~patient
      BY <1>18, <2>a, <3>1 DEF GetCredentialsAgain
    <3>3. form'.token = form.token /\ form'.config = form.config
      BY <1>18 DEF GetCredentialsAgain, FormTyped
    <3> QED
      BY <1>18, <3>1, <3>2, <3>3 DEF GetCredentialsAgain, Together, BelongsTo, NoRefresh, NoToken, idp
  <2> QED
    BY <2>1, <2>2, <2>3, <2>4, <2>5, <2>6, <2>7 DEF IInv
<1>19. ASSUME NEW i \in answers, GetAccounts(i) PROVE IInv'
  <2>a. NewToken(i) \in Token /\ NewToken(i).of = i /\ i \in Sign
    BY NewTokenTyped DEF MessagesTyped
  <2>1. Basics' /\ IdpTyped' /\ SavedTyped' /\ AddingTyped' /\ Unused'
    BY <1>19 DEF GetAccounts, idp, Basics, IdpTyped, SavedTyped, AddingTyped, Unused
  <2>2. FormTyped'
    BY <1>19, <2>a DEF GetAccounts, FormTyped
  <2>3. MessagesTyped'
    BY <1>19 DEF GetAccounts, MessagesTyped
  <2>4. Issued'
    BY <1>19 DEF GetAccounts, NewToken, idp, Issued
  <2>5. Timely'
    <3>1. IsTimely(NewToken(i))
      BY DEF IsTimely, NewToken, Timely, Basics, IdpTyped, MessagesTyped
    <3>2. form'.token \in {form.token, NewToken(i)}
      BY <1>19 DEF GetAccounts, FormTyped, SavedTyped
    <3> QED
      BY <1>19, <3>1, <3>2 DEF GetAccounts, Timely, IsTimely, idp
  <2>6. OneAtATime'
    BY <1>19 DEF GetAccounts, idp, OneAtATime
  <2>7. Together'
    <3>1. patient => i = form.config
      BY DEF Together
    <3>2. form'.config = form.config /\ form'.token \in {form.token, NewToken(i)}
      BY <1>19 DEF GetAccounts, FormTyped
    <3>3. patient => form'.token.of <= form'.config
      <4>1. form.config \in Nat
        BY DEF FormTyped, Sign
      <4> QED
        BY <2>a, <3>1, <3>2, <4>1 DEF Together
    <3> QED
      BY <1>19, <3>2, <3>3 DEF GetAccounts, Together, BelongsTo
  <2> QED
    BY <2>1, <2>2, <2>3, <2>4, <2>5, <2>6, <2>7 DEF IInv
<1>20. ASSUME NEW i \in answers, SaveCode(i) PROVE IInv'
  <2>a. NewToken(i) \in Token /\ NewToken(i).of = i /\ i \in Sign
    BY NewTokenTyped DEF MessagesTyped
  <2>1. Basics' /\ IdpTyped' /\ AddingTyped' /\ Unused'
    BY <1>20 DEF SaveCode, idp, Basics, IdpTyped, AddingTyped, Unused
  <2>2. FormTyped'
    BY <1>20 DEF SaveCode, FormTyped
  <2>3. MessagesTyped'
    BY <1>20 DEF SaveCode, MessagesTyped
  <2>4. SavedTyped'
    BY <1>20, <2>a DEF SaveCode, SavedTyped, FormTyped
  <2>5. Issued'
    BY <1>20 DEF SaveCode, NewToken, idp, Issued
  <2>6. Timely'
    <3>1. IsTimely(NewToken(i))
      BY DEF IsTimely, NewToken, Timely, Basics, IdpTyped, MessagesTyped
    <3>2. form'.token = form.token /\ saved'.token = NewToken(i)
      BY <1>20 DEF SaveCode, FormTyped, SavedTyped
    <3> QED
      BY <1>20, <3>1, <3>2 DEF SaveCode, Timely, IsTimely, idp
  <2>7. OneAtATime'
    BY <1>20 DEF SaveCode, idp, OneAtATime
  <2>8. Together'
    <3>1. patient => i = form.config /\ refreshing = NoRefresh
      BY DEF Together, BelongsTo, OneAtATime
    <3>2. saved'.token.of = saved'.config \/ ~patient
      BY <1>20, <2>a, <3>1 DEF SaveCode
    <3>3. form'.token = form.token /\ form'.config = form.config
      BY <1>20 DEF SaveCode, FormTyped
    <3> QED
      BY <1>20, <3>1, <3>2, <3>3 DEF SaveCode, Together, BelongsTo, NoRefresh, NoToken, idp
  <2> QED
    BY <2>1, <2>2, <2>3, <2>4, <2>5, <2>6, <2>7, <2>8 DEF IInv
<1>21. ASSUME NEW i \in answers, SaveDevice(i) PROVE IInv'
  <2>a. NewToken(i) \in Token /\ NewToken(i).of = i /\ i \in Sign
    BY NewTokenTyped DEF MessagesTyped
  <2>1. Basics' /\ IdpTyped' /\ AddingTyped' /\ Unused'
    BY <1>21 DEF SaveDevice, idp, Basics, IdpTyped, AddingTyped, Unused
  <2>2. FormTyped'
    BY <1>21 DEF SaveDevice, FormTyped
  <2>3. MessagesTyped'
    BY <1>21 DEF SaveDevice, MessagesTyped
  <2>4. SavedTyped'
    BY <1>21, <2>a DEF SaveDevice, SavedTyped, FormTyped
  <2>5. Issued'
    BY <1>21 DEF SaveDevice, NewToken, idp, Issued
  <2>6. Timely'
    <3>1. IsTimely(NewToken(i))
      BY DEF IsTimely, NewToken, Timely, Basics, IdpTyped, MessagesTyped
    <3>2. form'.token = form.token /\ saved'.token = NewToken(i)
      BY <1>21 DEF SaveDevice, FormTyped, SavedTyped
    <3> QED
      BY <1>21, <3>1, <3>2 DEF SaveDevice, Timely, IsTimely, idp
  <2>7. OneAtATime'
    BY <1>21 DEF SaveDevice, idp, OneAtATime
  <2>8. Together'
    <3>1. patient => i = form.config /\ refreshing = NoRefresh
      BY DEF Together, BelongsTo, OneAtATime
    <3>2. saved'.token.of = saved'.config \/ ~patient
      BY <1>21, <2>a, <3>1 DEF SaveDevice
    <3>3. form'.token = form.token /\ form'.config = form.config
      BY <1>21 DEF SaveDevice, FormTyped
    <3> QED
      BY <1>21, <3>1, <3>2, <3>3 DEF SaveDevice, Together, BelongsTo, NoRefresh, NoToken, idp
  <2> QED
    BY <2>1, <2>2, <2>3, <2>4, <2>5, <2>6, <2>7, <2>8 DEF IInv
<1>22. ASSUME NEW i \in answers, Lose(i) PROVE IInv'
  <2>1. Basics' /\ IdpTyped' /\ FormTyped' /\ SavedTyped' /\ AddingTyped' /\ Unused'
    BY <1>22 DEF Lose, idp, Basics, IdpTyped, FormTyped, SavedTyped, AddingTyped, Unused
  <2>2. MessagesTyped'
    BY <1>22 DEF Lose, MessagesTyped
  <2>3. Issued'
    BY <1>22 DEF Lose, idp, Issued
  <2>4. Timely'
    BY <1>22 DEF Lose, idp, Timely, IsTimely
  <2>5. OneAtATime'
    BY <1>22 DEF Lose, idp, OneAtATime
  <2>6. Together'
    BY <1>22 DEF Lose, Together, BelongsTo
  <2> QED
    BY <2>1, <2>2, <2>3, <2>4, <2>5, <2>6 DEF IInv
<1>23. ASSUME AddingNext PROVE IInv'
  <2>. UNCHANGED <<flow, patient, clock, asked, idp, form, requests, answers, saved,
                   refreshing, shown>>
    BY <1>23 DEF AddingNext, SelectAccount, UnselectAccount, AddProviders, AddProvider, AddFails
  <2>0. Basics' /\ IdpTyped' /\ FormTyped' /\ MessagesTyped' /\ SavedTyped' /\ Issued' /\
      Unused'
    BY DEF idp, Basics, IdpTyped, FormTyped, MessagesTyped, SavedTyped, Issued, Unused
  <2>1. Timely' /\ OneAtATime' /\ Together'
    BY DEF idp, IsTimely, Timely, OneAtATime, Together, BelongsTo
  <2>2. AddingTyped'
    BY <1>23, AddingKeepsType
  <2> QED
    BY <2>0, <2>1, <2>2 DEF IInv
<1>24. CASE UNCHANGED vars
  <2>. UNCHANGED vars
    BY <1>24
  <2>1. Basics' /\ IdpTyped' /\ FormTyped' /\ MessagesTyped' /\ SavedTyped' /\ AddingTyped'
    BY DEF vars, idp, Basics, IdpTyped, FormTyped, MessagesTyped, SavedTyped, AddingTyped
  <2>2. Issued' /\ Unused'
    BY DEF vars, idp, Issued, Unused
  <2>3. Timely'
    BY DEF vars, idp, Timely, IsTimely
  <2>4. OneAtATime' /\ Together'
    BY DEF vars, idp, OneAtATime, Together, BelongsTo
  <2> QED
    BY <2>1, <2>2, <2>3, <2>4 DEF IInv
<1> QED
  BY <1>1, <1>2, <1>3, <1>4, <1>5, <1>6, <1>7, <1>8, <1>9, <1>10, <1>11, <1>12, <1>13,
      <1>14, <1>15, <1>16, <1>17, <1>18, <1>19, <1>20, <1>21, <1>22, <1>23, <1>24
      DEF Next, Answered, AddingNext

\* Every variable keeps its type, and no token is used that has not been issued.
THEOREM TypeCorrect == Spec => []TypeOK
<1>1. IInv => TypeOK
  <2> SUFFICES ASSUME IInv PROVE TypeOK
    OBVIOUS
  <2>1. \A i \in answers \cup ({form.token.of, saved.token.of} \ {0}) : status[i] = "redeemed"
    BY DEF IInv, Issued
  <2> QED
    BY <2>1 DEF IInv, TypeOK, Basics, IdpTyped, FormTyped, MessagesTyped, SavedTyped,
        AddingTyped
<1> QED
  BY InitIInv, NextIInv, <1>1, PTL DEF Spec

\* For a user who waits for the answers, no credentials are saved with a config of an earlier
\* sign-in; they are of the same one, unless the form of AWS SSO has saved those it had
\* before the last sign-in.
THEOREM SavedIsNotLater == Spec => []SavedBelongsTogether
<1>1. IInv => SavedBelongsTogether
  BY DEF IInv, Together, SavedBelongsTogether
<1> QED
  BY InitIInv, NextIInv, <1>1, PTL DEF Spec

LEMMA Chain ==
  ASSUME NEW a \in Nat, NEW e \in Nat, NEW s \in Nat,
         a <= e + Margin, e <= s + Life + Delay
  PROVE  a <= s + Life + Delay + Margin
OBVIOUS

\* A token that has expired is not sent long after, and the user is not asked before.
THEOREM ExpiryNoticed == Spec => ExpiryIsNoticed
<1>1. IInv => NoLateUse
  <2> SUFFICES ASSUME IInv, ~refreshing.accepted, refreshing.token # NoToken
               PROVE  refreshing.at <= issued[refreshing.token.of] + Life + Delay + Margin
    BY DEF NoLateUse
  <2>1. refreshing.at \in Nat /\ refreshing.token \in Token
    BY DEF IInv, SavedTyped
  <2>2. refreshing.token.of \in Sign \ {0} /\ refreshing.token.expires \in Nat
    BY <2>1 DEF IInv, Timely, IsTimely, Token
  <2>3. issued[refreshing.token.of] \in Nat
    BY <2>2 DEF IInv, IdpTyped
  <2>4. refreshing.at <= refreshing.token.expires + Margin
    BY DEF IInv, Timely
  <2>5. refreshing.token.expires <= issued[refreshing.token.of] + Life + Delay
    BY DEF IInv, Timely, IsTimely
  <2> QED
    BY <2>1, <2>2, <2>3, <2>4, <2>5, Chain
<1>2. IInv /\ [Next]_vars => [AsksInTime]_vars
  <2> SUFFICES ASSUME IInv, Next, shown' = "expired", shown # "expired"
               PROVE  ~IsAccepted(saved.token)
    BY DEF AsksInTime
  <2>1. RefreshFails /\ saved.token # NoToken /\ IsExpired(saved.token)
    BY DEF Next, Answered, Tick, Start, Verify, Approve, Redeem, Save, RefreshFails,
        Refresh,
           RefreshWithCode, Refreshed, RefreshRefused, GetConfig, GetDeviceCode, GetLink, Started, StartFails,
           CreateToken, CreateTokenFails, GetCredentials, GetCredentialsAgain, GetAccounts,
           SaveCode, SaveDevice, Lose, SelectAccount, UnselectAccount, AddProviders,
           AddProvider, AddFails
  <2>2. saved.token.of \in Sign \ {0} /\ saved.token.expires \in Nat
    BY <2>1 DEF IInv, SavedTyped, Timely, IsTimely, Token
  <2>3. issued[saved.token.of] \in Nat /\ clock \in Nat
    BY <2>2 DEF IInv, IdpTyped, Basics
  <2>4. issued[saved.token.of] + Life <= saved.token.expires
    BY <2>1 DEF IInv, Timely, IsTimely
  <2>5. clock > saved.token.expires + Margin
    BY <2>1, <2>2, <2>3 DEF IsExpired
  <2>6. ~(clock <= issued[saved.token.of] + Life)
    BY <2>2, <2>3, <2>4, <2>5
  <2> QED
    BY <2>6 DEF IsAccepted
<1>3. NoLateUse' /\ [AsksInTime]_vars => [NoLateUse' /\ AsksInTime]_vars
  OBVIOUS
<1> QED
  BY InitIInv, NextIInv, <1>1, <1>2, <1>3, PTL DEF Spec, ExpiryIsNoticed


-----------------------------------------------------------------------------
(***************************************************************************)
(* The accounts are added one by one, from the first one after an error.   *)
(***************************************************************************)
Tried(a) == IF \E j \in 1..(adding.at - 1) : adding.list[j] = a THEN 1 ELSE 0

\* What the loop has added.
AddedInTurn ==
  /\ adding.at \in 0..(Len(adding.list) + 1)
  /\ \A a \in Accounts : Tried(a) <= Copies(a) /\ Copies(a) <= adding.failures + Tried(a)
  /\ adding.failures = 0 =>
       /\ Len(adding.done) = IF adding.at = 0 THEN 0 ELSE adding.at - 1
       /\ \A k \in DOMAIN adding.done : adding.done[k] = adding.list[k]

\* The list of the loop and that of the boxes.
ListsAgree ==
  /\ IsInjective(adding.selected) /\ IsInjective(adding.list)
  /\ adding.kept /\ adding.at # 0 =>
       \/ adding.selected = adding.list
       \/ Len(adding.list) < Len(adding.selected) /\ ~Closed

AddingInv == AddedInTurn /\ ListsAgree

LEMMA CopiesTyped == ASSUME AddingTyped, NEW a PROVE Copies(a) \in Nat
<1>1. IsFiniteSet(1..Len(adding.done)) /\ DOMAIN adding.done = 1..Len(adding.done)
  <2>1. Len(adding.done) \in Nat /\ DOMAIN adding.done = 1..Len(adding.done)
    BY DEF AddingTyped
  <2> QED
    BY <2>1, FS_Interval
<1>2. IsFiniteSet({k \in DOMAIN adding.done : adding.done[k] = a})
  BY <1>1, FS_Subset
<1> QED
  BY <1>2, FS_CardinalityType DEF Copies

LEMMA OneMoreCopy ==
  ASSUME AddingTyped, NEW b \in Accounts, adding'.done = Append(adding.done, b), NEW a
  PROVE  Copies(a)' = IF a = b THEN Copies(a) + 1 ELSE Copies(a)
<1> DEFINE n == Len(adding.done)
           Old == {k \in DOMAIN adding.done : adding.done[k] = a}
           New == {k \in DOMAIN adding'.done : adding'.done[k] = a}
<1>1. /\ n \in Nat /\ DOMAIN adding.done = 1..n /\ DOMAIN adding'.done = 1..(n + 1)
      /\ adding'.done[n + 1] = b
      /\ \A k \in 1..n : adding'.done[k] = adding.done[k]
  BY DEF AddingTyped
<1> HIDE DEF n
<1>2. IsFiniteSet(Old) /\ n + 1 \notin Old
  <2>1. IsFiniteSet(1..n) /\ n + 1 \notin 1..n
    BY <1>1, FS_Interval
  <2> QED
    BY <1>1, <2>1, FS_Subset
<1>3. New = IF a = b THEN Old \cup {n + 1} ELSE Old
  BY <1>1
<1>4. Cardinality(Old \cup {n + 1}) = Cardinality(Old) + 1
  BY <1>2, FS_AddElement
<1>5. Copies(a) = Cardinality(Old) /\ Copies(a)' = Cardinality(New)
  BY DEF Copies
<1> QED
  BY <1>3, <1>4, <1>5

LEMMA AddingInit == Init => AddingInv
<1> SUFFICES ASSUME Init PROVE AddingInv
  OBVIOUS
<1>1. /\ adding.at = 0 /\ adding.done = <<>> /\ adding.failures = 0
      /\ adding.selected = <<>> /\ adding.list = <<>>
  BY DEF Init, NotAdding
<1>2. \A a : Copies(a) = 0
  <2>1. \A a : {k \in DOMAIN adding.done : adding.done[k] = a} = {}
    BY <1>1
  <2> QED
    BY <2>1, FS_EmptySet DEF Copies
<1>3. \A a : Tried(a) = 0
  BY <1>1 DEF Tried
<1>4. AddedInTurn
  BY <1>1, <1>2, <1>3 DEF AddedInTurn
<1>5. ListsAgree
  BY <1>1 DEF ListsAgree, IsInjective
<1> QED
  BY <1>4, <1>5 DEF AddingInv

\* A box that is ticked or cleared leaves alone what the loop has added.
LEMMA BoxesStep ==
  ASSUME AddingTyped, AddingInv,
         \/ \E a \in Accounts : SelectAccount(a)
         \/ \E i \in DOMAIN adding.selected : UnselectAccount(i)
  PROVE  AddingInv'
<1>1. /\ adding'.list = adding.list /\ adding'.at = adding.at /\ adding'.done = adding.done
      /\ adding'.failures = adding.failures
      /\ ~Closed /\ ~Closed'
  BY DEF AddingTyped, SelectAccount, UnselectAccount, Listed, Closed
<1>2. AddedInTurn'
  <2>1. \A a : Copies(a)' = Copies(a) /\ Tried(a)' = Tried(a)
    BY <1>1 DEF Copies, Tried
  <2> QED
    BY <1>1, <2>1 DEF AddingInv, AddedInTurn
<1>3. ListsAgree'
  <2>1. adding.selected \in Seq(Accounts) /\ IsInjective(adding.selected)
    BY DEF AddingTyped, AddingInv, ListsAgree
  <2>2. ASSUME NEW a \in Accounts, SelectAccount(a) PROVE ListsAgree'
    <3> DEFINE s == adding.selected  new == Append(s, a)
    <3>1. adding'.selected = new /\ adding'.kept = adding.kept /\ a \notin ToSet(s)
      BY <2>2 DEF SelectAccount, AddingTyped
    <3>2. /\ Len(s) \in Nat /\ DOMAIN s = 1..Len(s) /\ DOMAIN new = 1..(Len(s) + 1)
          /\ \A k \in 1..Len(s) : new[k] = s[k]
          /\ new[Len(s) + 1] = a /\ Len(new) = Len(s) + 1
      BY <2>1
    <3>3. \A k \in 1..Len(s) : s[k] # a
      BY <3>1, <3>2 DEF ToSet
    <3> HIDE DEF s, new
    <3>4. IsInjective(new)
      BY <2>1, <3>2, <3>3 DEF IsInjective, s
    <3>5. adding.kept /\ adding.at # 0 => Len(adding.list) < Len(new)
      <4>1. Len(adding.list) \in Nat
        BY DEF AddingTyped
      <4>2. adding.kept /\ adding.at # 0 => s = adding.list \/ Len(adding.list) < Len(s)
        BY DEF AddingInv, ListsAgree, s
      <4> QED
        BY <3>2, <4>1, <4>2
    <3> QED
      BY <1>1, <3>1, <3>4, <3>5 DEF AddingInv, ListsAgree
  <2>3. ASSUME NEW i \in DOMAIN adding.selected, UnselectAccount(i) PROVE ListsAgree'
    <3>1. adding'.selected = RemoveAt(adding.selected, i) /\ adding'.kept = FALSE
      BY <2>3 DEF UnselectAccount, AddingTyped
    <3>2. IsInjective(adding'.selected)
      BY <2>1, <2>3, <3>1, RemovedContents
    <3> QED
      BY <1>1, <3>1, <3>2 DEF AddingInv, ListsAgree
  <2> QED
    BY <2>2, <2>3
<1> QED
  BY <1>2, <1>3 DEF AddingInv

\* The loop begins, and ends with an error.
LEMMA LoopBegins == AddingTyped /\ AddingInv /\ AddProviders => AddingInv'
<1> SUFFICES ASSUME AddingTyped, AddingInv, AddProviders PROVE AddingInv'
  OBVIOUS
<1>1. /\ adding.at = 0 /\ adding'.at = 1 /\ adding'.done = adding.done
      /\ adding'.failures = adding.failures
      /\ adding'.list = adding.selected /\ adding'.selected = adding.selected
  BY DEF AddProviders, AddingTyped
<1>2. Len(adding'.list) \in Nat /\ adding.failures \in Nat
  BY <1>1 DEF AddingTyped
<1>3. \A a : Copies(a)' = Copies(a) /\ Tried(a)' = 0 /\ Tried(a) = 0
  BY <1>1 DEF Copies, Tried
<1>4. adding.failures = 0 => Len(adding.done) = 0 /\ DOMAIN adding.done = {}
  BY <1>1 DEF AddingInv, AddedInTurn, AddingTyped
<1>5. AddedInTurn'
  BY <1>1, <1>2, <1>3, <1>4 DEF AddingInv, AddedInTurn
<1>6. ListsAgree'
  BY <1>1 DEF AddingInv, ListsAgree
<1> QED
  BY <1>5, <1>6 DEF AddingInv

LEMMA LoopFails == AddingTyped /\ AddingInv /\ AddFails => AddingInv'
<1> SUFFICES ASSUME AddingTyped, AddingInv, AddFails PROVE AddingInv'
  OBVIOUS
<1>1. /\ adding'.at = 0 /\ adding'.done = adding.done
      /\ adding'.failures = adding.failures + 1 /\ adding.failures \in Nat
      /\ adding'.list = adding.list /\ adding'.selected = adding.selected
  BY DEF AddFails, AddingTyped
<1>2. \A a : Copies(a)' = Copies(a) /\ Tried(a)' = 0 /\ Tried(a) \in {0, 1}
  BY <1>1 DEF Copies, Tried
<1>3. \A a \in Accounts : 0 <= Copies(a)' /\ Copies(a)' <= adding'.failures
  <2> TAKE a \in Accounts
  <2>1. Copies(a) \in Nat /\ Copies(a) <= adding.failures + Tried(a)
    BY CopiesTyped DEF AddingInv, AddedInTurn
  <2> QED
    BY <1>1, <1>2, <2>1
<1>4. Len(adding.list) \in Nat /\ adding'.failures \in Nat /\ adding'.failures # 0
  BY <1>1 DEF AddingTyped
<1>5. AddedInTurn'
  BY <1>1, <1>2, <1>3, <1>4 DEF AddedInTurn
<1>6. ListsAgree'
  BY <1>1 DEF AddingInv, ListsAgree
<1> QED
  BY <1>5, <1>6 DEF AddingInv

\* An account is added, and then the next one is looked for.
LEMMA LoopAdds == AddingTyped /\ AddingInv /\ AddProvider => AddingInv'
<1> SUFFICES ASSUME AddingTyped, AddingInv, AddProvider PROVE AddingInv'
  OBVIOUS
<1> DEFINE n == adding.at  list == adding.list  b == list[n]
<1>1. /\ n \in 1..Len(list) /\ list \in Seq(Accounts) /\ Len(list) \in Nat /\ n \in Nat
      /\ DOMAIN list = 1..Len(list) /\ adding.failures \in Nat
      /\ adding.done \in Seq(Accounts)
  BY DEF AddProvider, AddingTyped
<1>2. b \in Accounts
  BY ONLY <1>1
<1>3. /\ adding'.list = list /\ adding'.selected = adding.selected
      /\ adding'.kept = adding.kept /\ adding'.done = Append(adding.done, b)
      /\ \/ Grown /\ adding'.at = 0 /\ adding'.failures = adding.failures + 1
         \/ ~Grown /\ adding'.at = n + 1 /\ adding'.failures = adding.failures
  BY DEF AddProvider, AddingTyped
<1>4. \A j, k \in 1..Len(list) : list[j] = list[k] => j = k
  BY <1>1 DEF AddingInv, ListsAgree, IsInjective
<1>5. Tried(b) = 0
  BY <1>1, <1>4 DEF Tried
<1>6. \A a : Copies(a)' = IF a = b THEN Copies(a) + 1 ELSE Copies(a)
  <2> HIDE DEF b
  <2> QED
    BY <1>2, <1>3, OneMoreCopy
<1>7. ASSUME NEW a \in Accounts
      PROVE  /\ Copies(a) \in Nat /\ Tried(a) \in {0, 1}
             /\ Tried(a) <= Copies(a) /\ Copies(a) <= adding.failures + Tried(a)
  BY CopiesTyped DEF AddingInv, AddedInTurn, Tried
<1>8. CASE Grown
  <2>1. adding'.at = 0 /\ adding'.failures = adding.failures + 1
    BY <1>3, <1>8
  <2>2. \A a : Tried(a)' = 0
    BY <2>1 DEF Tried
  <2>3. ASSUME NEW a \in Accounts PROVE 0 <= Copies(a)' /\ Copies(a)' <= adding'.failures
    <3>1. CASE a = b
      BY <1>1, <1>5, <1>6, <1>7, <2>1, <3>1
    <3>2. CASE a # b
      <4>1. Copies(a)' = Copies(a)
        BY <1>6, <3>2
      <4> QED
        BY ONLY <1>1, <1>7, <2>1, <4>1
    <3> QED
      BY <3>1, <3>2
  <2>4. adding'.failures \in Nat /\ adding'.failures # 0
    BY <1>1, <2>1
  <2>5. AddedInTurn'
    BY <1>1, <1>3, <2>1, <2>2, <2>3, <2>4 DEF AddedInTurn
  <2>6. ListsAgree'
    BY <1>3, <2>1 DEF AddingInv, ListsAgree
  <2> QED
    BY <2>5, <2>6 DEF AddingInv
<1>9. CASE ~Grown
  <2>1. adding'.at = n + 1 /\ adding'.failures = adding.failures
    BY <1>3, <1>9
  <2>2. ASSUME NEW a PROVE Tried(a)' = IF a = b THEN 1 ELSE Tried(a)
    <3>1. 1..(adding'.at - 1) = 1..n /\ 1..n = (1..(n - 1)) \cup {n}
      BY <1>1, <2>1
    <3>2. (\E j \in 1..n : list[j] = a) <=> (\E j \in 1..(n - 1) : list[j] = a) \/ b = a
      BY <3>1
    <3> QED
      BY <1>3, <3>1, <3>2 DEF Tried
  <2>3. ASSUME NEW a \in Accounts
        PROVE  Tried(a)' <= Copies(a)' /\ Copies(a)' <= adding'.failures + Tried(a)'
    <3>1. CASE a = b
      BY <1>1, <1>5, <1>6, <1>7, <2>1, <2>2, <3>1
    <3>2. CASE a # b
      BY <1>1, <1>6, <1>7, <2>1, <2>2, <3>2
    <3> QED
      BY <3>1, <3>2
  <2>4. ASSUME adding.failures = 0
        PROVE  /\ Len(adding'.done) = n
               /\ \A k \in DOMAIN adding'.done : adding'.done[k] = list[k]
    <3> DEFINE old == adding.done  new == adding'.done
    <3>1. Len(old) = n - 1 /\ \A k \in DOMAIN old : old[k] = list[k]
      BY <1>1, <2>4 DEF AddingInv, AddedInTurn
    <3>2. old \in Seq(Accounts) /\ new = Append(old, b)
      BY <1>1, <1>3
    <3> HIDE DEF old, new, n, b
    <3>3. /\ DOMAIN old = 1..(n - 1) /\ DOMAIN new = 1..n /\ Len(new) = n /\ new[n] = b
          /\ \A k \in 1..(n - 1) : new[k] = old[k]
      BY <1>1, <1>2, <3>1, <3>2
    <3>4. \A k \in 1..n : new[k] = list[k]
      BY <1>1, <3>1, <3>3 DEF b
    <3> QED
      BY <3>3, <3>4 DEF new
  <2>5. adding'.at \in 0..(Len(list) + 1) /\ adding'.at # 0 /\ adding'.at - 1 = n
    BY ONLY <1>1, <2>1
  <2>6. AddedInTurn'
    BY <1>3, <2>1, <2>3, <2>4, <2>5 DEF AddedInTurn
  <2>7. ListsAgree'
    <3>1. adding.kept => adding.selected = list
      BY <1>1, <1>9 DEF AddingInv, ListsAgree, Grown, AddingTyped
    <3> QED
      BY <1>3, <3>1 DEF AddingInv, ListsAgree
  <2> QED
    BY <2>6, <2>7 DEF AddingInv
<1> QED
  BY <1>8, <1>9

LEMMA AddingStep == AddingTyped /\ AddingInv /\ [Next]_vars => AddingInv'
<1> SUFFICES ASSUME AddingTyped, AddingInv, [Next]_vars PROVE AddingInv'
  OBVIOUS
<1>1. CASE AddingNext
  BY <1>1, BoxesStep, LoopBegins, LoopAdds, LoopFails DEF AddingNext
<1>2. ASSUME ~AddingNext PROVE UNCHANGED adding
  <2>1. CASE Tick \/ Start \/ Verify \/ Approve \/ Redeem \/ Save
    BY <2>1 DEF Tick, Start, Verify, Approve, Redeem, Save
  <2>2. CASE RefreshFails \/ Refresh \/ RefreshWithCode \/ Refreshed \/ RefreshRefused
    BY <2>2 DEF RefreshFails, Refresh, RefreshWithCode, Refreshed, RefreshRefused
  <2>3. ASSUME NEW i \in Sign \ {0}, GetConfig(i) \/ GetDeviceCode(i) \/ GetLink(i) \/ StartFails(i)
        PROVE  UNCHANGED adding
    BY <2>3 DEF GetConfig, GetDeviceCode, GetLink, StartFails, Started
  <2>4. ASSUME NEW r \in requests, CreateToken(r) \/ CreateTokenFails(r) PROVE UNCHANGED adding
    BY <2>4 DEF CreateToken, CreateTokenFails
  <2>5. ASSUME NEW i \in answers, Answered(i) \/ Lose(i) PROVE UNCHANGED adding
    BY <2>5 DEF Answered, GetCredentials, GetCredentialsAgain, GetAccounts, SaveCode, SaveDevice, Lose
  <2>6. CASE UNCHANGED vars
    BY <2>6 DEF vars
  <2> QED
    BY <1>2, <2>1, <2>2, <2>3, <2>4, <2>5, <2>6 DEF Next, AddingNext
<1>3. CASE ~AddingNext
  BY <1>2, <1>3 DEF AddingInv, AddedInTurn, ListsAgree, Tried, Copies, Closed
<1> QED
  BY <1>1, <1>3

\* Every account that was selected becomes a provider, in order and once if nothing fails, and
\* at most once more for every time that something does, for any set of accounts; the boxes
\* may be ticked, but not cleared, while they are added.
THEOREM AllAreAdded == Spec => []AddedAsSelected
<1>1. IInv => AddingTyped
  BY DEF IInv
<1>2. AddingTyped /\ AddingInv => AddedAsSelected
  <2> SUFFICES ASSUME AddingTyped, AddingInv, Closed
               PROVE  /\ \A a \in Accounts :
                           Copies(a) \in IF a \in ToSet(adding.list) THEN 1..(adding.failures + 1)
                                         ELSE 0..adding.failures
                      /\ adding.failures = 0 => adding.done = adding.list
                      /\ adding.kept => adding.selected = adding.list
    BY DEF AddedAsSelected
  <2>1. /\ adding.list \in Seq(Accounts) /\ adding.done \in Seq(Accounts)
        /\ adding.failures \in Nat /\ adding.at = Len(adding.list) + 1
        /\ Len(adding.list) \in Nat /\ DOMAIN adding.list = 1..Len(adding.list)
    BY DEF AddingTyped, AddingInv, AddedInTurn, Closed
  <2>2. ASSUME NEW a \in Accounts
        PROVE  Copies(a) \in IF a \in ToSet(adding.list) THEN 1..(adding.failures + 1)
                             ELSE 0..adding.failures
    <3>1. Tried(a) = IF a \in ToSet(adding.list) THEN 1 ELSE 0
      BY <2>1 DEF Tried, ToSet
    <3>2. /\ Copies(a) \in Nat
          /\ Tried(a) <= Copies(a) /\ Copies(a) <= adding.failures + Tried(a)
      BY CopiesTyped DEF AddingInv, AddedInTurn
    <3> QED
      BY <2>1, <3>1, <3>2
  <2>3. ASSUME adding.failures = 0 PROVE adding.done = adding.list
    <3>1. /\ Len(adding.done) = Len(adding.list)
          /\ \A k \in DOMAIN adding.done : adding.done[k] = adding.list[k]
      BY <2>1, <2>3 DEF AddingInv, AddedInTurn
    <3> QED
      BY <2>1, <3>1
  <2>4. adding.kept => adding.selected = adding.list
    BY <2>1 DEF AddingInv, ListsAgree
  <2> QED
    BY <2>2, <2>3, <2>4
<1> QED
  BY InitIInv, NextIInv, AddingInit, AddingStep, <1>1, <1>2, PTL DEF Spec
=============================================================================
