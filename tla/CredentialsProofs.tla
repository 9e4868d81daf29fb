-------------------------- MODULE CredentialsProofs --------------------------
(***************************************************************************)
(* The invariants of Credentials, for any number of clusters and of calls  *)
(* that overlap, and any length of the intervals.                          *)
(***************************************************************************)
EXTENDS Credentials, TLAPS

\* A call under way has a cluster, an answer has a token, and only an OIDC provider has
\* a form.
CallsTyped ==
  \A k \in Calls : /\ pc[k] \in {"sso", "request", "answered"} => cluster[k] \in Clusters
                   /\ pc[k] = "answered" => answer[k] \in 0..MaxTime
FormsTyped ==
  /\ form # NoForm => form.cluster \in Clusters
  /\ settings # Closed => kind = "oidc"
  /\ settings.at = "answered" => settings.token \in 0..MaxTime
Typed == TypeOK /\ CallsTyped /\ FormsTyped

LEMMA TypedInit == Init => Typed
<1> SUFFICES ASSUME Init PROVE Typed
  OBVIOUS
<1> USE ConstantsAssumption DEF Init, Tokens, Kinds, AWS, PCs, NoForm, Closed
<1>1. TypeOK
  <2>1. 0 \in 0..MaxTime /\ NoToken # 0
    OBVIOUS
  <2>2. token \in Tokens /\ (token = NoToken <=> kind \in AWS) /\ expires \in Nat
    BY <2>1
  <2>3. /\ form \in [cluster : Clusters \cup {NoCluster}, text : Tokens]
        /\ settings \in [at : {"closed", "open", "login", "token", "answered"},
                         text : Nat, token : Tokens, new : Nat]
    OBVIOUS
  <2> QED
    BY <2>1, <2>2, <2>3 DEF TypeOK
<1>2. CallsTyped /\ FormsTyped
  BY DEF CallsTyped, FormsTyped
<1> QED
  BY <1>1, <1>2 DEF Typed

LEMMA TypedStep == Typed /\ [Next]_vars => Typed'
<1> SUFFICES ASSUME Typed, [Next]_vars PROVE Typed'
  OBVIOUS
<1> USE ConstantsAssumption DEF Typed, Tokens, Kinds, AWS, PCs
<1>1. ASSUME NEW k \in Calls, NEW c \in Clusters, Use(k, c) PROVE Typed'
  <2>1. TypeOK'
    BY <1>1 DEF Use, Step, TypeOK, providerVars, externalVars, formVars
  <2>2. CallsTyped' /\ FormsTyped'
    BY <1>1 DEF Use, Step, TypeOK, CallsTyped, FormsTyped, formVars
  <2> QED
    BY <2>1, <2>2
<1>2. ASSUME NEW k \in Calls, NEW c \in Clusters, Refresh(k, c) PROVE Typed'
  <2>1. TypeOK'
    BY <1>2 DEF Refresh, Step, TypeOK, clusterVars, providerVars, externalVars, formVars
  <2>2. CallsTyped' /\ FormsTyped'
    BY <1>2 DEF Refresh, Step, TypeOK, CallsTyped, FormsTyped, formVars
  <2> QED
    BY <2>1, <2>2
<1>3. ASSUME NEW k \in Calls, SSO(k) \/ Return(k) PROVE Typed'
  <2>1. TypeOK'
    BY <1>3 DEF SSO, Return, Step, TypeOK, clusterVars, providerVars, externalVars, formVars
  <2>2. CallsTyped' /\ FormsTyped'
    BY <1>3 DEF SSO, Return, Step, TypeOK, CallsTyped, FormsTyped, formVars
  <2> QED
    BY <2>1, <2>2
<1>4. ASSUME NEW k \in Calls, Issue(k) PROVE Typed'
  <2>1. TypeOK'
    BY <1>4 DEF Issue, Step, TypeOK, clusterVars, providerVars, formVars
  <2>2. CallsTyped' /\ FormsTyped'
    BY <1>4 DEF Issue, Step, TypeOK, CallsTyped, FormsTyped, formVars
  <2> QED
    BY <2>1, <2>2
<1>5. ASSUME NEW k \in Calls, Fail(k) PROVE Typed'
  <2>1. TypeOK'
    BY <1>5 DEF Fail, TypeOK, clusterVars, providerVars, formVars
  <2>2. CallsTyped' /\ FormsTyped'
    BY <1>5 DEF Fail, TypeOK, CallsTyped, FormsTyped, formVars
  <2> QED
    BY <2>1, <2>2
<1>6. ASSUME NEW k \in Calls, Answer(k) PROVE Typed'
  <2>1. TypeOK'
    BY <1>6 DEF Answer, Step, NewRefresh, NewUntil, ProviderToken, TypeOK, CallsTyped,
       externalVars, formVars
  <2>2. CallsTyped' /\ FormsTyped'
    BY <1>6 DEF Answer, Step, TypeOK, CallsTyped, FormsTyped, formVars
  <2> QED
    BY <2>1, <2>2
<1>7. ASSUME NEW k \in Calls, Again(k) PROVE Typed'
  <2>1. TypeOK'
    BY <1>7 DEF Again, TypeOK, clusterVars, providerVars, externalVars, formVars
  <2>2. CallsTyped' /\ FormsTyped'
    BY <1>7 DEF Again, TypeOK, CallsTyped, FormsTyped, formVars
  <2> QED
    BY <2>1, <2>2
<1>8. ASSUME (\E c \in Clusters : OpenForm(c)) \/ SaveForm PROVE Typed'
  <2>1. TypeOK'
    BY <1>8 DEF OpenForm, SaveForm, NoForm, TypeOK, FormsTyped, clusterVars, providerVars,
       externalVars, callVars
  <2>2. CallsTyped' /\ FormsTyped'
    BY <1>8 DEF OpenForm, SaveForm, TypeOK, CallsTyped, FormsTyped, callVars
  <2> QED
    BY <2>1, <2>2
<1>9. ASSUME OpenSettings \/ CloseSettings PROVE Typed'
  <2>1. \/ settings' = [at |-> "open", text |-> refresh, token |-> NoToken, new |-> 0]
           /\ kind = "oidc"
        \/ settings' = [at |-> "closed", text |-> 0, token |-> NoToken, new |-> 0]
    BY <1>9 DEF OpenSettings, CloseSettings, Closed
  <2>2. UNCHANGED <<mode, kind, clock, clusterVars, providerVars, externalVars, callVars, form>>
    BY <1>9 DEF OpenSettings, CloseSettings
  <2>3. TypeOK'
    BY <2>1, <2>2 DEF TypeOK, clusterVars, providerVars, externalVars, callVars
  <2>4. CallsTyped' /\ FormsTyped'
    BY <2>1, <2>2 DEF Closed, CallsTyped, FormsTyped, callVars
  <2> QED
    BY <2>3, <2>4
<1>10. ASSUME SaveSettings("login") \/ SaveSettings("token") PROVE Typed'
  <2>1. TypeOK'
    BY <1>10 DEF SaveSettings, TypeOK, clusterVars, providerVars, externalVars, callVars
  <2>2. CallsTyped' /\ FormsTyped'
    BY <1>10 DEF SaveSettings, Closed, TypeOK, CallsTyped, FormsTyped, callVars
  <2> QED
    BY <2>1, <2>2
<1>11. ASSUME IssueLogin \/ IssueToken PROVE Typed'
  <2>1. /\ UNCHANGED <<mode, kind, clock, clusterVars, providerVars, lost, callVars, form>>
        /\ granted' \in Nat
    BY <1>11 DEF IssueLogin, IssueToken, TypeOK
  <2>2. PICK new \in Nat :
          settings' = [settings EXCEPT !.at = "answered", !.token = clock, !.new = new]
    <3>1. CASE IssueLogin
      BY <2>1, <3>1 DEF IssueLogin
    <3>2. CASE IssueToken
      <4>1. settings.text \in Nat
        BY DEF TypeOK
      <4> QED
        BY <3>2, <4>1 DEF IssueToken
    <3> QED
      BY <1>11, <3>1, <3>2
  <2>3. settings # Closed
    BY <1>11 DEF IssueLogin, IssueToken, Closed
  <2>4. TypeOK'
    BY <2>1, <2>2 DEF TypeOK, clusterVars, providerVars, callVars
  <2>5. CallsTyped' /\ FormsTyped'
    BY <2>1, <2>2, <2>3 DEF Closed, TypeOK, CallsTyped, FormsTyped, callVars
  <2> QED
    BY <2>4, <2>5
<1>12. ASSUME FailSettings PROVE Typed'
  <2>1. TypeOK'
    BY <1>12 DEF FailSettings, Closed, TypeOK, clusterVars, providerVars, callVars
  <2>2. CallsTyped' /\ FormsTyped'
    BY <1>12 DEF FailSettings, Closed, TypeOK, CallsTyped, FormsTyped, callVars
  <2> QED
    BY <2>1, <2>2
<1>13. ASSUME AnswerSettings PROVE Typed'
  <2>1. TypeOK'
    <3>1. settings # Closed /\ settings.token \in 0..MaxTime
      BY <1>13 DEF AnswerSettings, FormsTyped, Closed
    <3> QED
      BY <1>13, <3>1 DEF AnswerSettings, FormsTyped, Closed, TypeOK, clusterVars, externalVars, callVars
  <2>2. CallsTyped' /\ FormsTyped'
    BY <1>13 DEF AnswerSettings, Closed, TypeOK, CallsTyped, FormsTyped, callVars
  <2> QED
    BY <2>1, <2>2
<1>14. ASSUME Tick PROVE Typed'
  <2>1. TypeOK'
    BY <1>14 DEF Tick, TypeOK, clusterVars, providerVars, externalVars, callVars, formVars
  <2>2. CallsTyped' /\ FormsTyped'
    BY <1>14 DEF Tick, CallsTyped, FormsTyped, callVars, formVars
  <2> QED
    BY <2>1, <2>2
<1>15. CASE UNCHANGED vars
  BY <1>15 DEF vars, TypeOK, CallsTyped, FormsTyped, clusterVars, providerVars,
     externalVars, callVars, formVars
<1> QED
  BY <1>1, <1>2, <1>3, <1>4, <1>5, <1>6, <1>7, <1>8, <1>9, <1>10, <1>11, <1>12, <1>13,
     <1>14, <1>15 DEF Next, CallNext

-----------------------------------------------------------------------------
\* What is noted as the end of a token is not later than the token ends, by more than the
\* time that an answer takes.
Prompt == \A k \in Calls : pc[k] = "answered" => clock <= answer[k] + Delay
ClusterFits ==
  ~mode.edits /\ kind \in AWS =>
    \A c \in Clusters : userToken[c] # NoToken => until[c] <= userToken[c] + Grant + Delay
ProviderFits == kind = "google" => expires <= token + Life + Delay
Fits ==
  Prompt /\ ClusterFits /\ ProviderFits /\ (~mode.edits => form = NoForm)

LEMMA FitsInit == Init => Fits
<1> SUFFICES ASSUME Init PROVE Fits
  OBVIOUS
<1> QED
  BY ConstantsAssumption DEF Init, Fits, Prompt, ClusterFits, ProviderFits, AWS

LEMMA FitsStep == Typed /\ Fits /\ [Next]_vars => Fits'
<1> SUFFICES ASSUME Typed, Fits, [Next]_vars PROVE Fits'
  OBVIOUS
<1> USE ConstantsAssumption DEF Typed, TypeOK, Fits, AWS, Kinds
<1>1. ASSUME UNCHANGED <<mode, kind, clock, clusterVars, providerVars, form>>,
             \A k \in Calls : pc'[k] = "answered" =>
               \/ pc[k] = "answered" /\ answer'[k] = answer[k]
               \/ answer'[k] = clock
      PROVE  Fits'
  <2>1. Prompt'
    BY <1>1 DEF Prompt
  <2>2. ClusterFits' /\ ProviderFits' /\ (~mode'.edits => form' = NoForm)
    BY <1>1 DEF ClusterFits, ProviderFits, clusterVars, providerVars
  <2> QED
    BY <2>1, <2>2
<1>2. ASSUME NEW k \in Calls, NEW c \in Clusters, Use(k, c) PROVE Fits'
  <2>1. Prompt'
    BY <1>2 DEF Use, Step, Prompt
  <2>2. ClusterFits' /\ ProviderFits' /\ (~mode'.edits => form' = NoForm)
    BY <1>2 DEF Use, ClusterFits, ProviderFits, providerVars, formVars
  <2> QED
    BY <2>1, <2>2
<1>3. ASSUME NEW k \in Calls, NEW c \in Clusters, Refresh(k, c) PROVE Fits'
  BY <1>1, <1>3 DEF Refresh, Step, formVars
<1>4. ASSUME NEW k \in Calls, SSO(k) \/ Return(k) \/ Issue(k) PROVE Fits'
  BY <1>1, <1>4 DEF SSO, Return, Issue, Step, formVars
<1>5. ASSUME NEW k \in Calls, Fail(k) \/ Again(k) PROVE Fits'
  BY <1>1, <1>5 DEF Fail, Again, formVars
<1>6. ASSUME NEW k \in Calls, Answer(k) PROVE Fits'
  <2>1. cluster[k] \in Clusters /\ answer[k] \in Nat /\ clock <= answer[k] + Delay
    BY <1>6 DEF Answer, Step, CallsTyped, Prompt
  <2>2. Prompt'
    BY <1>6 DEF Answer, Step, Prompt
  <2>3. ClusterFits'
    <3>1. CASE kind \in AWS
      <4>1. /\ userToken' = [userToken EXCEPT ![cluster[k]] = answer[k]]
            /\ until' = [until EXCEPT ![cluster[k]] = clock + Grant]
            /\ mode' = mode /\ kind' = kind
        BY <1>6, <3>1 DEF Answer, NewUntil
      <4>2. clock + Grant <= answer[k] + Grant + Delay
        BY <2>1
      <4> QED
        BY <2>1, <4>1, <4>2 DEF ClusterFits
    <3>2. CASE kind \notin AWS
      BY <1>6, <3>2 DEF Answer, ClusterFits
    <3> QED
      BY <3>1, <3>2
  <2>4. ProviderFits'
    BY <1>6, <2>1 DEF Answer, ProviderToken, ProviderFits
  <2> QED
    BY <1>6, <2>2, <2>3, <2>4 DEF Answer, formVars
<1>7. ASSUME (\E c \in Clusters : OpenForm(c)) \/ SaveForm PROVE Fits'
  <2>1. mode.edits
    BY <1>7 DEF OpenForm, SaveForm
  <2>2. UNCHANGED <<mode, kind, clock, providerVars, pc, answer>>
    BY <1>7 DEF OpenForm, SaveForm, callVars
  <2> QED
    BY <2>1, <2>2 DEF Prompt, ClusterFits, ProviderFits, providerVars
<1>8. ASSUME \/ OpenSettings \/ CloseSettings \/ SaveSettings("login") \/ SaveSettings("token")
             \/ IssueLogin \/ IssueToken \/ FailSettings
      PROVE  Fits'
  BY <1>1, <1>8 DEF OpenSettings, CloseSettings, SaveSettings, IssueLogin, IssueToken,
     FailSettings, callVars
<1>9. ASSUME AnswerSettings PROVE Fits'
  <2>1. kind = "oidc"
    BY <1>9 DEF AnswerSettings, FormsTyped, Closed
  <2>2. UNCHANGED <<mode, kind, clock, clusterVars, pc, answer, form>>
    BY <1>9 DEF AnswerSettings, callVars
  <2> QED
    BY <2>1, <2>2 DEF Prompt, ClusterFits, ProviderFits, clusterVars
<1>10. ASSUME Tick PROVE Fits'
  <2>1. Prompt'
    <3>1. ASSUME NEW k \in Calls, pc'[k] = "answered"
          PROVE  clock' <= answer'[k] + Delay
      <4>1. clock < answer[k] + Delay /\ answer[k] \in Nat /\ clock \in Nat
        BY <1>10, <3>1 DEF Tick, callVars, CallsTyped
      <4> QED
        BY <1>10, <4>1 DEF Tick, callVars
    <3> QED
      BY <3>1 DEF Prompt
  <2>2. ClusterFits' /\ ProviderFits' /\ (~mode'.edits => form' = NoForm)
    BY <1>10 DEF Tick, ClusterFits, ProviderFits, clusterVars, providerVars, formVars
  <2> QED
    BY <2>1, <2>2
<1>11. CASE UNCHANGED vars
  BY <1>1, <1>11 DEF vars, callVars, formVars
<1> QED
  BY <1>2, <1>3, <1>4, <1>5, <1>6, <1>7, <1>8, <1>9, <1>10, <1>11 DEF Next, CallNext

-----------------------------------------------------------------------------
\* The refresh tokens that are sent, in answers and saved are never newer than the one that
\* is accepted.
RefreshBounded ==
  refresh <= granted /\ settings.new <= granted /\ \A k \in Calls : rotated[k] <= granted

LEMMA BoundedStep == Typed /\ RefreshBounded /\ [Next]_vars => RefreshBounded'
<1> SUFFICES ASSUME Typed, RefreshBounded, [Next]_vars PROVE RefreshBounded'
  OBVIOUS
<1> USE DEF Typed, TypeOK, RefreshBounded
<1>1. ASSUME NEW k \in Calls, NEW c \in Clusters, Use(k, c) \/ Refresh(k, c)
      PROVE  RefreshBounded'
  BY <1>1 DEF Use, Refresh, providerVars, externalVars, formVars
<1>2. ASSUME NEW k \in Calls, SSO(k) \/ Return(k) \/ Fail(k) \/ Again(k) PROVE RefreshBounded'
  BY <1>2 DEF SSO, Return, Fail, Again, providerVars, externalVars, formVars
<1>3. ASSUME NEW k \in Calls, Issue(k) PROVE RefreshBounded'
  <2>1. granted' \in Nat /\ granted <= granted'
    BY <1>3 DEF Issue
  <2> QED
    BY <1>3, <2>1 DEF Issue, providerVars, formVars
<1>4. ASSUME NEW k \in Calls, Answer(k) PROVE RefreshBounded'
  BY <1>4 DEF Answer, NewRefresh, externalVars, formVars
<1>5. ASSUME (\E c \in Clusters : OpenForm(c)) \/ SaveForm \/ Tick PROVE RefreshBounded'
  BY <1>5 DEF OpenForm, SaveForm, Tick, providerVars, externalVars, callVars, formVars
<1>6. ASSUME \/ OpenSettings \/ CloseSettings \/ SaveSettings("login") \/ SaveSettings("token")
             \/ FailSettings \/ AnswerSettings
      PROVE  RefreshBounded'
  <2>1. settings'.new \in {0, settings.new}
    <3>1. CASE OpenSettings \/ CloseSettings \/ FailSettings \/ AnswerSettings
      <4>1. \/ \E text \in {refresh, settings.text} :
                 settings' = [at |-> "open", text |-> text, token |-> NoToken, new |-> 0]
            \/ settings' = [at |-> "closed", text |-> 0, token |-> NoToken, new |-> 0]
        BY <3>1 DEF OpenSettings, CloseSettings, FailSettings, AnswerSettings, Closed
      <4> QED
        BY <4>1
    <3>2. ASSUME NEW to, SaveSettings(to) PROVE settings'.new = settings.new
      BY <3>2 DEF SaveSettings
    <3> QED
      BY <1>6, <3>1, <3>2
  <2> QED
    BY <1>6, <2>1 DEF OpenSettings, CloseSettings, SaveSettings, FailSettings, AnswerSettings,
       providerVars, externalVars, callVars
<1>7. ASSUME IssueLogin PROVE RefreshBounded'
  <2>1. granted' \in Nat /\ granted <= granted'
    BY <1>7 DEF IssueLogin
  <2> QED
    BY <1>7, <2>1 DEF IssueLogin, providerVars, callVars
<1>8. ASSUME IssueToken PROVE RefreshBounded'
  <2>1. granted' \in Nat /\ granted <= granted'
    BY <1>8 DEF IssueToken
  <2> QED
    BY <1>8, <2>1 DEF IssueToken, providerVars, callVars
<1>9. CASE UNCHANGED vars
  BY <1>9 DEF vars, providerVars, externalVars, callVars, formVars
<1> QED
  BY <1>1, <1>2, <1>3, <1>4, <1>5, <1>6, <1>7, <1>8, <1>9 DEF Next, CallNext

\* Under the conditions of LoginIsKept the saving of the provider overlaps with no call, an
\* answer has the newest refresh token, and a rotated one is the answer of a single call;
\* the newest one is saved or on its way.
Tame ==
  kind = "oidc" /\ ~lost /\ mode.patient /\ ~(mode.edits /\ mode.rotates)
UnderWay == settings.at \in {"login", "token", "answered"}
SettingsTame ==
  /\ UnderWay => NoCall
  /\ settings.at = "answered" => settings.new = granted
  /\ settings.at = "token" => mode.edits
Newest == \A k \in Calls : pc[k] = "answered" => rotated[k] = granted
Single ==
  mode.rotates =>
    \A k \in Calls : pc[k] = "answered" =>
      /\ refresh < granted
      /\ \A j \in Calls \ {k} :
           pc[j] \in {"sso", "request", "answered"} => rotated[j] < granted
Coming ==
  \/ refresh = granted \/ settings.at = "answered"
  \/ \E k \in Calls : pc[k] = "answered"
LoginKept == Tame => SettingsTame /\ Newest /\ Single /\ Coming

LEMMA LoginInit == Init => RefreshBounded /\ LoginKept
BY DEF Init, RefreshBounded, LoginKept, SettingsTame, UnderWay, Newest, Single, Coming, Closed

LEMMA LoginStep ==
  Typed /\ RefreshBounded /\ LoginKept /\ [Next]_vars => LoginKept'
<1> SUFFICES ASSUME Typed, RefreshBounded, LoginKept, [Next]_vars, Tame' PROVE LoginKept'
  BY DEF LoginKept
<1> USE DEF Typed, TypeOK
<1>1. mode' = mode /\ kind' = kind /\ lost' \in BOOLEAN /\ (lost => lost')
  BY DEF Next, CallNext, Use, Refresh, SSO, Issue, Fail, Answer, Return, Again, OpenForm,
     SaveForm, OpenSettings, CloseSettings, SaveSettings, IssueLogin, IssueToken,
     FailSettings, AnswerSettings, Tick, vars, externalVars
<1>2. Tame
  BY <1>1 DEF Tame
<1>3. SettingsTame /\ Newest /\ Single /\ Coming
  BY <1>2 DEF LoginKept
<1>4. ASSUME UNCHANGED <<mode, refresh, granted, pc, rotated, settings>> PROVE LoginKept'
  BY <1>3, <1>4 DEF LoginKept, SettingsTame, UnderWay, NoCall, Newest, Single, Coming
<1>5. ASSUME NEW k \in Calls, NEW c \in Clusters, Use(k, c) PROVE LoginKept'
  BY <1>3, <1>5 DEF Use, Step, LoginKept, SettingsTame, UnderWay, NoCall, Newest, Single,
     Coming, providerVars, externalVars, formVars
<1>6. ASSUME NEW k \in Calls, NEW c \in Clusters, Refresh(k, c) PROVE LoginKept'
  <2>1. /\ settings.at \in {"closed", "open"} /\ settings' = settings
        /\ pc[k] = "idle" /\ pc' = [pc EXCEPT ![k] = "request"]
        /\ rotated' = [rotated EXCEPT ![k] = refresh]
        /\ refresh' = refresh /\ granted' = granted
    BY <1>2, <1>6 DEF Refresh, Step, Tame, providerVars, externalVars, formVars
  <2>2. SettingsTame' /\ Newest'
    BY <1>3, <2>1 DEF SettingsTame, UnderWay, Newest
  <2>3. Single'
    BY <1>1, <1>3, <2>1 DEF Single
  <2>4. Coming'
    BY <1>3, <2>1 DEF Coming
  <2> QED
    BY <2>2, <2>3, <2>4 DEF LoginKept
<1>7. ASSUME NEW k \in Calls, SSO(k) \/ Return(k) \/ Again(k) PROVE LoginKept'
  <2>1. /\ settings' = settings /\ refresh' = refresh /\ granted' = granted
        /\ pc[k] # "answered" /\ pc'[k] # "answered"
        /\ pc[k] = "sso" \/ pc'[k] \in {"idle", "done"}
        /\ \A j \in Calls \ {k} : pc'[j] = pc[j] /\ rotated'[j] = rotated[j]
        /\ rotated'[k] = rotated[k] \/ pc'[k] = "idle"
    BY <1>7 DEF SSO, Return, Again, Step, providerVars, externalVars, formVars
  <2>2. SettingsTame' /\ Newest'
    BY <1>1, <1>3, <2>1 DEF SettingsTame, UnderWay, NoCall, Newest
  <2>3. Single'
    BY <1>1, <1>3, <2>1 DEF Single
  <2>4. Coming'
    BY <1>3, <2>1 DEF Coming
  <2> QED
    BY <2>2, <2>3, <2>4 DEF LoginKept
<1>8. ASSUME NEW k \in Calls, Fail(k) PROVE LoginKept'
  <2>1. pc[k] # "answered"
    BY <1>1, <1>2, <1>8 DEF Fail, Tame
  <2>2. /\ settings' = settings /\ refresh' = refresh /\ granted' = granted
        /\ pc' = [pc EXCEPT ![k] = "failed"] /\ rotated' = rotated
    BY <1>8 DEF Fail, providerVars, formVars
  <2>3. SettingsTame' /\ Newest'
    BY <1>1, <1>3, <2>1, <2>2 DEF SettingsTame, UnderWay, NoCall, Newest
  <2>4. Single'
    BY <1>1, <1>3, <2>1, <2>2 DEF Single
  <2>5. Coming'
    BY <1>3, <2>1, <2>2 DEF Coming
  <2> QED
    BY <2>3, <2>4, <2>5 DEF LoginKept
<1>9. ASSUME NEW k \in Calls, Issue(k) PROVE LoginKept'
  <2>1. /\ rotated[k] = granted /\ pc[k] = "request" /\ pc' = [pc EXCEPT ![k] = "answered"]
        /\ rotated' = [rotated EXCEPT ![k] = granted']
        /\ granted' = IF mode.rotates THEN granted + 1 ELSE granted
        /\ settings' = settings /\ refresh' = refresh
    BY <1>2, <1>9 DEF Issue, Step, Tame, providerVars, formVars
  <2>2. ~UnderWay /\ SettingsTame'
    BY <1>3, <2>1 DEF SettingsTame, UnderWay, NoCall
  <2>3. Newest' /\ Single' /\ Coming'
    <3>1. CASE mode.rotates
      <4>1. \A j \in Calls : pc[j] # "answered"
        BY <1>3, <2>1, <3>1 DEF Single
      <4>2. granted' = granted + 1 /\ granted \in Nat /\ refresh \in Nat /\ rotated'[k] = granted'
        BY <2>1, <3>1
      <4>3. \A j \in Calls \ {k} : rotated'[j] < granted' /\ pc'[j] # "answered"
        BY <2>1, <4>1, <4>2 DEF RefreshBounded
      <4>4. refresh' < granted' /\ pc'[k] = "answered"
        BY <2>1, <4>2 DEF RefreshBounded
      <4> QED
        BY <4>2, <4>3, <4>4 DEF Newest, Single, Coming
    <3>2. CASE ~mode.rotates
      BY <1>1, <1>3, <2>1, <3>2 DEF Newest, Single, Coming
    <3> QED
      BY <3>1, <3>2
  <2> QED
    BY <2>2, <2>3 DEF LoginKept
<1>10. ASSUME NEW k \in Calls, Answer(k) PROVE LoginKept'
  <2>1. /\ pc[k] = "answered" /\ pc' = [pc EXCEPT ![k] = "save"] /\ rotated' = rotated
        /\ refresh' = rotated[k] /\ granted' = granted /\ settings' = settings
    BY <1>2, <1>10 DEF Answer, Step, Tame, NewRefresh, externalVars, formVars
  <2>2. refresh' = granted'
    BY <1>3, <2>1 DEF Newest
  <2>3. mode.rotates => \A j \in Calls \ {k} : pc[j] # "answered"
    BY <1>3, <2>1 DEF Newest, Single
  <2>4. SettingsTame' /\ Newest'
    BY <1>1, <1>3, <2>1 DEF SettingsTame, UnderWay, NoCall, Newest
  <2>5. Single'
    BY <1>1, <2>1, <2>3 DEF Single
  <2> QED
    BY <2>2, <2>4, <2>5 DEF LoginKept, Coming
<1>11. ASSUME (\E c \in Clusters : OpenForm(c)) \/ SaveForm \/ Tick PROVE LoginKept'
  BY <1>4, <1>11 DEF OpenForm, SaveForm, Tick, providerVars, externalVars, callVars, formVars
<1>12. ASSUME OpenSettings \/ CloseSettings \/ SaveSettings("login") \/ SaveSettings("token")
       PROVE  LoginKept'
  <2>1. UNCHANGED <<refresh, granted, pc, rotated>> /\ settings.at # "answered"
    BY <1>12 DEF OpenSettings, CloseSettings, SaveSettings, Closed, providerVars,
       externalVars, callVars
  <2>2. /\ settings'.at \in {"open", "closed", "login", "token"}
        /\ settings'.at \in {"login", "token"} => NoCall
        /\ settings'.at = "token" => mode.edits
    <3>1. CASE OpenSettings \/ CloseSettings
      <4>1. \/ settings' = [at |-> "open", text |-> refresh, token |-> NoToken, new |-> 0]
            \/ settings' = [at |-> "closed", text |-> 0, token |-> NoToken, new |-> 0]
        BY <3>1 DEF OpenSettings, CloseSettings, Closed
      <4> QED
        BY <4>1
    <3>2. ASSUME NEW to \in {"login", "token"}, SaveSettings(to)
          PROVE  settings'.at = to /\ NoCall /\ (to = "token" => mode.edits)
      BY <1>2, <3>2 DEF SaveSettings, Tame
    <3> QED
      BY <1>12, <3>1, <3>2
  <2>3. SettingsTame' /\ Newest' /\ Single' /\ Coming'
    BY <1>1, <1>3, <2>1, <2>2 DEF SettingsTame, UnderWay, NoCall, Newest, Single, Coming
  <2> QED
    BY <2>3 DEF LoginKept
<1>13. ASSUME IssueLogin \/ IssueToken PROVE LoginKept'
  <2>1. /\ UNCHANGED <<refresh, pc, rotated>> /\ NoCall
        /\ settings'.at = "answered" /\ settings'.new = granted'
    <3>1. CASE IssueLogin
      BY <1>3, <3>1 DEF IssueLogin, SettingsTame, UnderWay, providerVars, callVars
    <3>2. CASE IssueToken
      <4>1. ~mode.rotates /\ NoCall
        BY <1>2, <1>3, <3>2 DEF IssueToken, SettingsTame, UnderWay, Tame
      <4> QED
        BY <3>2, <4>1 DEF IssueToken, providerVars, callVars
    <3> QED
      BY <1>13, <3>1, <3>2
  <2>2. SettingsTame' /\ Newest' /\ Single' /\ Coming'
    BY <2>1 DEF SettingsTame, NoCall, Newest, Single, Coming
  <2> QED
    BY <2>2 DEF LoginKept
<1>14. ASSUME FailSettings PROVE LoginKept'
  <2>1. settings.at # "answered"
    BY <1>1, <1>14 DEF FailSettings, Tame
  <2>2. UNCHANGED <<refresh, granted, pc, rotated>> /\ settings'.at = "open"
    BY <1>14 DEF FailSettings, Closed, providerVars, callVars
  <2> QED
    BY <1>1, <1>3, <2>1, <2>2 DEF LoginKept, SettingsTame, UnderWay, Newest, Single, Coming
<1>15. ASSUME AnswerSettings PROVE LoginKept'
  <2>1. /\ UNCHANGED <<granted, pc, rotated>> /\ settings'.at = "closed"
        /\ refresh' = granted' /\ NoCall
    BY <1>3, <1>15 DEF AnswerSettings, Closed, SettingsTame, UnderWay, externalVars, callVars
  <2> QED
    BY <2>1 DEF LoginKept, SettingsTame, UnderWay, NoCall, Newest, Single, Coming
<1>16. CASE UNCHANGED vars
  BY <1>4, <1>16 DEF vars, providerVars, externalVars, callVars, formVars
<1> QED
  BY <1>5, <1>6, <1>7, <1>8, <1>9, <1>10, <1>11, <1>12, <1>13, <1>14, <1>15, <1>16
     DEF Next, CallNext

-----------------------------------------------------------------------------
(***************************************************************************)
(* The inductive invariant and the theorems.                               *)
(***************************************************************************)
IInv == Typed /\ Fits /\ RefreshBounded /\ LoginKept

THEOREM Invariance == Spec => []IInv
<1>1. Init => IInv
  BY TypedInit, FitsInit, LoginInit DEF IInv
<1>2. IInv /\ [Next]_vars => IInv'
  BY TypedStep, FitsStep, BoundedStep, LoginStep DEF IInv
<1> QED
  BY <1>1, <1>2, PTL DEF Spec

\* A call that goes on after an await finds a cluster and a token, whatever the others
\* have done (getClusterWithCredentials).
THEOREM TypeCorrect == Spec => []TypeOK
<1>1. IInv => TypeOK
  BY DEF IInv, Typed
<1> QED
  BY <1>1, Invariance, PTL

\* A cluster that is returned without a refresh has a token that is accepted, for a user
\* who does not edit an AWS cluster meanwhile (getClusterWithCredentials).
THEOREM RefreshKeeps == Spec => RefreshKeepsTokenValid
<1>1. ASSUME IInv, [Next]_vars, ~(mode.edits /\ kind \in AWS),
             NEW k \in Calls, pc[k] = "idle", pc'[k] = "done"
      PROVE  LET t == userToken'[cluster'[k]]
             IN  t # NoToken /\ clock <= t + Life + (IF kind = "google" THEN Delay ELSE 0)
  <2> USE ConstantsAssumption DEF Kinds, AWS, PCs, Tokens
  <2>0. TypeOK
    BY <1>1 DEF IInv, Typed
  <2>1. PICK c \in Clusters : Use(k, c)
    BY <1>1, <2>0 DEF TypeOK, Next, CallNext, Use, Refresh, SSO, Issue, Fail, Answer, Return, Again, Step,
       OpenForm, SaveForm, OpenSettings, CloseSettings, SaveSettings, IssueLogin, IssueToken,
       FailSettings, AnswerSettings, Tick, vars, callVars
  <2>2. cluster'[k] = c /\ ~Stale(c)
    BY <2>0, <2>1 DEF Use, TypeOK
  <2>3. CASE kind \in AWS
    <3>1. userToken' = userToken /\ userToken[c] # NoToken /\ ~(until[c] < clock)
      BY <2>1, <2>2, <2>3 DEF Use, Stale
    <3>2. userToken[c] \in Nat /\ until[c] <= userToken[c] + Grant + Delay
      BY <1>1, <2>0, <2>3, <3>1 DEF TypeOK, IInv, Fits, ClusterFits
    <3> QED
      BY <2>0, <2>2, <2>3, <3>1, <3>2 DEF TypeOK
  <2>4. CASE kind \notin AWS
    <3>1. userToken'[c] = token /\ token # NoToken /\ token \in Nat
      BY <2>0, <2>1, <2>2, <2>4 DEF Use, TypeOK
    <3>2. CASE kind = "google"
      <4>1. ~(expires < clock) /\ expires <= token + Life + Delay
        BY <1>1, <2>0, <2>2, <3>2 DEF TypeOK, Stale, IInv, Fits, ProviderFits
      <4> QED
        BY <2>0, <2>2, <3>1, <3>2, <4>1 DEF TypeOK
    <3>3. CASE kind = "oidc"
      <4>1. ~(token + Life < clock)
        BY <2>2, <3>3 DEF Stale
      <4> QED
        BY <2>0, <2>2, <3>1, <3>3, <4>1 DEF TypeOK
    <3> QED
      BY <2>0, <2>4, <3>2, <3>3 DEF TypeOK
  <2> QED
    BY <2>3, <2>4
<1>2. IInv /\ [Next]_vars => [(mode.edits /\ kind \in AWS) \/ AcceptedTokenIsUsed]_vars
  BY <1>1 DEF AcceptedTokenIsUsed
<1> QED
  BY <1>2, Invariance, PTL DEF Spec, RefreshKeepsTokenValid

\* When nothing is under way the provider has the refresh token that is accepted next,
\* although calls refresh at the same time (getClusterWithCredentials).
THEOREM LoginKeeps == Spec => []LoginIsKept
<1>1. IInv => LoginIsKept
  BY DEF IInv, LoginKept, Tame, LoginIsKept, Quiet, NoCall, Coming
<1> QED
  BY <1>1, Invariance, PTL
=============================================================================
