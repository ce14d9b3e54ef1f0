-------------------------- MODULE CookieSession_proofs --------------------------
(***************************************************************************)
(* For any number of concurrent calls and any number of sessions: one login   *)
(* renews a refused token for all of them, the second attempt of each carries  *)
(* what came of it, and a body that was consumed is not sent again.            *)
(***************************************************************************)
EXTENDS SessionSockets, TLAPS

(* The parts of TypeOK.                                                           *)
RequestTypes ==
    /\ call \in [Requests -> {"idle", "login", "sent", "refused", "served", "failed"}]
    /\ carried \in [Requests -> Tokens] /\ refused \in [Requests -> Tokens]
    /\ sends \in [Requests -> 0..2] /\ given \in [Requests -> Tokens]
SharedTypes ==
    /\ jar \in Tokens /\ lock \in Requests \cup {Nobody}
    /\ logout \in {"none", "sent", "confirmed", "denied"}
    /\ dropping \in Tokens /\ previous \in Tokens
    /\ valid \subseteq 1..issued /\ issued \in Tokens /\ logouts \in 0..MaxLogouts
RenewalTypes == loginFailed \in BOOLEAN /\ renewals \in [Tokens -> Nat]
HolderLogsIn == \A r \in Requests : lock = r <=> call[r] = "login"

\* No token is anywhere before kvmd has opened its session.
Known(t) == t \in 0..issued
TokensKnown ==
    /\ Known(jar) /\ Known(dropping) /\ Known(previous)
    /\ \A r \in Requests : Known(carried[r]) /\ Known(refused[r]) /\ Known(given[r])

\* How often a request has been sent when its task is about to send it.
Attempts ==
    \A r \in Requests : /\ call[r] = "idle" => sends[r] = 0
                        /\ call[r] = "refused" => sends[r] = 1 /\ refused[r] # NoToken
                        /\ call[r] = "login" => sends[r] \in 0..1
                        /\ call[r] = "sent" => sends[r] \in 1..2
                        /\ call[r] = "sent" /\ sends[r] = 1 => carried[r] # NoToken

\* An answer to a login is only under way to a task that logs in, and a logout
\* only while it was called.
AnswersAreAwaited ==
    /\ \A r \in Requests : call[r] # "login" => given[r] = NoToken
    /\ logout # "none" => logouts > 0

\* The jar holds the newest session whenever nobody is logging in.
JarIsNewest ==
    Undisturbed =>
        /\ lock = Nobody => jar = issued
        /\ \A r \in Requests : call[r] = "login" /\ given[r] # NoToken =>
               given[r] = issued /\ refused[r] < given[r]

\* A token that was renewed is in nobody's way again.
RenewedIsGone ==
    logouts = 0 =>
        \A t \in Tokens : renewals[t] > 0 =>
            /\ t # NoToken /\ t # jar /\ Known(t)
            /\ \A r \in Requests : given[r] # t

IInv ==
    /\ TypeOK
    /\ TokensKnown
    /\ Attempts
    /\ AnswersAreAwaited
    /\ JarIsNewest
    /\ RenewedIsGone
    /\ RetryIsNewer
    /\ OneLoginPerToken
    /\ StreamSentOnce

USE DEF NoToken, Tokens, Known
-------------------------------------------------------------------------------
LEMMA InitInvariant == Init => IInv
<1> SUFFICES ASSUME Init
             PROVE  IInv
  OBVIOUS
<1>1. TypeOK
  <2>1. RequestTypes
    BY SessionAssumption DEF Init, RequestTypes
  <2>2. SharedTypes
    BY SessionAssumption DEF Init, SharedTypes
  <2>3. RenewalTypes
    BY DEF Init, RenewalTypes
  <2>4. HolderLogsIn
    BY SessionAssumption DEF Init, HolderLogsIn
  <2>5. QED
    BY <2>1, <2>2, <2>3, <2>4 DEF TypeOK, RequestTypes, SharedTypes, RenewalTypes, HolderLogsIn
<1>2. TokensKnown /\ Attempts /\ AnswersAreAwaited
  BY DEF Init, TokensKnown, Attempts, AnswersAreAwaited
<1>3. JarIsNewest /\ RenewedIsGone /\ RetryIsNewer /\ OneLoginPerToken /\ StreamSentOnce
  BY SessionAssumption DEF Init, JarIsNewest, RenewedIsGone, RetryIsNewer, OneLoginPerToken,
     StreamSentOnce
<1>4. QED
  BY <1>1, <1>2, <1>3 DEF IInv

LEMMA UseSessionInvariant ==
    ASSUME IInv, NEW r \in Requests, UseSession(r)
    PROVE  IInv'
<1> USE SessionAssumption DEF IInv
<1>1. /\ sends[r] \in 0..1 /\ call[r] \in {"idle", "refused"} /\ lock = Nobody
      /\ call[r] = "idle" => sends[r] = 0 /\ jar # NoToken
      /\ call[r] = "refused" => sends[r] = 1 /\ jar # refused[r]
  BY DEF UseSession, WantsSession, HasSession, Retrying, Attempts
<1>2. \/ /\ call' = [call EXCEPT ![r] = "sent"] /\ carried' = [carried EXCEPT ![r] = jar]
         /\ sends' = [sends EXCEPT ![r] = @ + 1]
         /\ sends[r] = 0 \/ r \notin Streamed
      \/ call' = [call EXCEPT ![r] = "failed"] /\ UNCHANGED <<carried, sends>>
  BY DEF UseSession, Proceed
<1>3. UNCHANGED <<client, refused, given, logoutCall, server, history>>
  BY DEF UseSession
<1>4. TypeOK'
  <2>1. RequestTypes'
    <3>1. sends[r] + 1 \in 0..2 /\ jar \in Tokens
      BY <1>1 DEF TypeOK
    <3>2. carried \in [Requests -> Tokens] /\ sends \in [Requests -> 0..2]
      BY DEF TypeOK
    <3>3. carried' \in [Requests -> Tokens]
      BY <1>2, <3>1, <3>2
    <3>4. sends' \in [Requests -> 0..2]
      BY <1>2, <3>1, <3>2
    <3>5. call' \in [Requests -> {"idle", "login", "sent", "refused", "served", "failed"}]
      BY <1>2 DEF TypeOK
    <3>6. refused' \in [Requests -> Tokens] /\ given' \in [Requests -> Tokens]
      BY <1>1, <1>2, <1>3 DEF TypeOK
    <3>7. QED
      BY <3>3, <3>4, <3>5, <3>6 DEF RequestTypes
  <2>2. SharedTypes'
    BY <1>1, <1>2, <1>3 DEF TypeOK, SharedTypes, client, logoutCall, server
  <2>3. RenewalTypes'
    BY <1>1, <1>2, <1>3 DEF TypeOK, RenewalTypes, history
  <2>4. HolderLogsIn'
    BY <1>1, <1>2, <1>3 DEF TypeOK, HolderLogsIn, client, logoutCall, server
  <2>5. QED
    BY <2>1, <2>2, <2>3, <2>4 DEF TypeOK, RequestTypes, SharedTypes, RenewalTypes, HolderLogsIn
<1>5. TokensKnown' /\ Attempts' /\ AnswersAreAwaited'
  <2>1. TokensKnown'
    BY <1>1, <1>2, <1>3 DEF TypeOK, TokensKnown, client, logoutCall, server
  <2>2. Attempts'
    <3> SUFFICES ASSUME NEW q \in Requests
                 PROVE  /\ call'[q] = "idle" => sends'[q] = 0
                        /\ call'[q] = "refused" => sends'[q] = 1 /\ refused[q] # NoToken
                        /\ call'[q] = "login" => sends'[q] \in 0..1
                        /\ call'[q] = "sent" => sends'[q] \in 1..2
                        /\ call'[q] = "sent" /\ sends'[q] = 1 => carried'[q] # NoToken
      BY <1>1, <1>3 DEF Attempts
    <3>1. CASE q = r
      BY <1>1, <1>2, <3>1 DEF TypeOK
    <3>2. CASE q # r
      BY <1>2, <3>2 DEF TypeOK, Attempts
    <3>3. QED
      BY <3>1, <3>2
  <2>3. AnswersAreAwaited'
    BY <1>1, <1>2, <1>3 DEF TypeOK, AnswersAreAwaited, logoutCall
  <2>4. QED
    BY <2>1, <2>2, <2>3
<1>6. JarIsNewest' /\ RenewedIsGone' /\ OneLoginPerToken'
  BY <1>1, <1>2, <1>3 DEF TypeOK, JarIsNewest, RenewedIsGone, OneLoginPerToken, Undisturbed,
     client, logoutCall, server, history
<1>7. RetryIsNewer'
  <2> SUFFICES ASSUME NEW q \in Requests, Undisturbed, call'[q] = "sent", sends'[q] = 2
               PROVE  refused[q] < carried'[q]
    BY <1>1, <1>2, <1>3 DEF RetryIsNewer, Undisturbed, logoutCall, history
  <2>1. CASE q = r
    BY <1>1, <1>2, <1>3, <2>1 DEF TypeOK, TokensKnown, JarIsNewest, Undisturbed
  <2>2. CASE q # r
    BY <1>1, <1>2, <1>3, <2>2 DEF TypeOK, RetryIsNewer
  <2>3. QED
    BY <2>1, <2>2
<1>8. StreamSentOnce'
  <2> SUFFICES ASSUME NEW q \in Streamed
               PROVE  sends'[q] <= 1
    BY DEF StreamSentOnce
  <2>1. CASE q = r
    BY <1>1, <1>2, <1>3, <2>1 DEF TypeOK, StreamSentOnce
  <2>2. CASE q # r
    BY <1>1, <1>2, <1>3, <2>2 DEF TypeOK, StreamSentOnce
  <2>3. QED
    BY <2>1, <2>2
<1>9. QED
  BY <1>4, <1>5, <1>6, <1>7, <1>8

LEMMA StartLoginInvariant ==
    ASSUME IInv, NEW r \in Requests, StartLogin(r)
    PROVE  IInv'
<1> USE SessionAssumption DEF IInv
<1>1. /\ sends[r] \in 0..1 /\ call[r] \in {"idle", "refused"} /\ lock = Nobody
      /\ call[r] = "refused" => jar = refused[r] /\ refused[r] # NoToken
      /\ lock' = r /\ jar' = NoToken /\ call' = [call EXCEPT ![r] = "login"]
      /\ UNCHANGED <<carried, refused, sends, given, logoutCall, server, loginFailed>>
  BY DEF StartLogin, WantsSession, HasSession, Retrying, Attempts
<1>2. \/ call[r] = "refused" /\ renewals' = [renewals EXCEPT ![refused[r]] = @ + 1]
      \/ renewals' = renewals
  BY DEF StartLogin, Retrying
<1>3. TypeOK'
  <2>1. RequestTypes'
    BY <1>1, <1>2 DEF TypeOK, RequestTypes
  <2>2. SharedTypes'
    BY <1>1, <1>2 DEF TypeOK, SharedTypes, logoutCall, server
  <2>3. RenewalTypes'
    <3>1. refused[r] \in Tokens /\ renewals \in [Tokens -> Nat] /\ renewals[refused[r]] + 1 \in Nat
      <4>1. refused \in [Requests -> Tokens] /\ renewals \in [Tokens -> Nat]
        BY DEF TypeOK
      <4>2. refused[r] \in Tokens
        BY <4>1
      <4>3. renewals[refused[r]] \in Nat
        BY <4>1, <4>2
      <4>4. QED
        BY <4>1, <4>2, <4>3
    <3>2. renewals' \in [Tokens -> Nat]
      BY <1>2, <3>1
    <3>3. QED
      BY <1>1, <3>2 DEF TypeOK, RenewalTypes
  <2>4. HolderLogsIn'
    BY <1>1, <1>2 DEF TypeOK, HolderLogsIn, logoutCall, server
  <2>5. QED
    BY <2>1, <2>2, <2>3, <2>4 DEF TypeOK, RequestTypes, SharedTypes, RenewalTypes, HolderLogsIn
<1>4. TokensKnown' /\ Attempts' /\ AnswersAreAwaited'
  BY <1>1 DEF TypeOK, TokensKnown, Attempts, AnswersAreAwaited, logoutCall, server
<1>5. given[r] = NoToken
  BY <1>1 DEF AnswersAreAwaited, TypeOK
<1>6. JarIsNewest'
  BY <1>1, <1>5 DEF TypeOK, JarIsNewest, Undisturbed, logoutCall, server
<1>7. RenewedIsGone' /\ OneLoginPerToken'
  <2> SUFFICES ASSUME logouts = 0, NEW t \in Tokens
               PROVE  /\ renewals'[t] > 0 => /\ t # NoToken /\ t # jar' /\ t \in 0..issued
                                             /\ \A q \in Requests : given[q] # t
                      /\ renewals'[t] <= 1
    BY <1>1 DEF RenewedIsGone, OneLoginPerToken, logoutCall, server
  <2>1. CASE call[r] = "refused" /\ t = refused[r]
    <3>1. renewals[t] = 0 /\ t # NoToken /\ t \in 0..issued /\ \A q \in Requests : given[q] = NoToken
      BY <1>1, <2>1 DEF TypeOK, TokensKnown, RenewedIsGone, AnswersAreAwaited
    <3>2. QED
      BY <1>1, <1>2, <2>1, <3>1 DEF TypeOK
  <2>2. CASE ~(call[r] = "refused" /\ t = refused[r])
    <3>1. renewals'[t] = renewals[t]
      BY <1>1, <1>2, <2>2 DEF TypeOK
    <3>2. QED
      BY <1>1, <3>1 DEF RenewedIsGone, OneLoginPerToken
  <2>3. QED
    BY <2>1, <2>2
<1>8. RetryIsNewer' /\ StreamSentOnce'
  BY <1>1 DEF TypeOK, RetryIsNewer, StreamSentOnce, Undisturbed, logoutCall
<1>9. QED
  BY <1>3, <1>4, <1>6, <1>7, <1>8

LEMMA ServeLoginInvariant ==
    ASSUME IInv, NEW r \in Requests, ServeLogin(r)
    PROVE  IInv'
<1> USE SessionAssumption DEF IInv
<1>1. /\ call[r] = "login" /\ given[r] = NoToken /\ issued < MaxTokens
      /\ issued' = issued + 1 /\ valid' = valid \cup {issued'}
      /\ given' = [given EXCEPT ![r] = issued']
      /\ UNCHANGED <<client, call, carried, refused, sends, logoutCall, history>>
  BY DEF ServeLogin
<1>2. issued \in Nat /\ issued' \in Tokens /\ lock = r
  BY <1>1 DEF TypeOK
<1>3. TypeOK'
  <2>1. RequestTypes'
    <3>1. RequestTypes /\ given \in [Requests -> Tokens]
      BY DEF TypeOK, RequestTypes
    <3>2. given' \in [Requests -> Tokens]
      BY <1>1, <1>2, <3>1
    <3>3. QED
      BY <1>1, <3>1, <3>2 DEF RequestTypes
  <2>2. valid' \subseteq 1..issued'
    <3>1. valid \subseteq 1..issued
      BY DEF TypeOK
    <3>2. QED
      BY <1>1, <1>2, <3>1
  <2>3. SharedTypes'
    <3>1. SharedTypes
      BY DEF TypeOK, SharedTypes
    <3>2. QED
      BY <1>1, <1>2, <2>2, <3>1 DEF SharedTypes, client, logoutCall
  <2>4. RenewalTypes' /\ HolderLogsIn'
    BY <1>1 DEF TypeOK, RenewalTypes, HolderLogsIn, client, history
  <2>5. QED
    BY <2>1, <2>3, <2>4 DEF TypeOK, RequestTypes, SharedTypes, RenewalTypes, HolderLogsIn
<1>4. TokensKnown' /\ Attempts' /\ AnswersAreAwaited'
  <2>1. TokensKnown'
    <3>1. TokensKnown /\ given \in [Requests -> Tokens]
      BY DEF TypeOK
    <3>2. \A t : Known(t) => t \in 0..issued'
      BY <1>1, <1>2 DEF Known
    <3>3. \A q \in Requests : given'[q] \in 0..issued'
      BY <1>1, <1>2, <3>1, <3>2 DEF TokensKnown
    <3>4. QED
      BY <1>1, <3>1, <3>2, <3>3 DEF TokensKnown, Known, client, logoutCall
  <2>2. Attempts'
    BY <1>1 DEF Attempts
  <2>3. AnswersAreAwaited'
    BY <1>1 DEF TypeOK, AnswersAreAwaited, logoutCall
  <2>4. QED
    BY <2>1, <2>2, <2>3
<1>5. JarIsNewest'
  BY <1>1, <1>2 DEF TypeOK, TokensKnown, JarIsNewest, Undisturbed, client, logoutCall, history
<1>6. RenewedIsGone' /\ OneLoginPerToken'
  BY <1>1, <1>2 DEF TypeOK, RenewedIsGone, OneLoginPerToken, client, logoutCall, history
<1>7. RetryIsNewer' /\ StreamSentOnce'
  BY <1>1 DEF RetryIsNewer, StreamSentOnce, Undisturbed, logoutCall, history
<1>8. QED
  BY <1>3, <1>4, <1>5, <1>6, <1>7

LEMMA LoginReturnsInvariant ==
    ASSUME IInv, NEW r \in Requests, LoginReturns(r)
    PROVE  IInv'
<1> USE SessionAssumption DEF IInv
<1>1. /\ call[r] = "login" /\ given[r] # NoToken /\ sends[r] \in 0..1 /\ lock = r
      /\ jar' = given[r] /\ lock' = Nobody /\ given' = [given EXCEPT ![r] = NoToken]
      /\ UNCHANGED <<refused, logoutCall, server, history>>
  BY DEF LoginReturns, Attempts, TypeOK
<1>2. \/ /\ call' = [call EXCEPT ![r] = "sent"] /\ carried' = [carried EXCEPT ![r] = given[r]]
         /\ sends' = [sends EXCEPT ![r] = @ + 1]
         /\ sends[r] = 0 \/ r \notin Streamed
      \/ call' = [call EXCEPT ![r] = "failed"] /\ UNCHANGED <<carried, sends>>
  BY DEF LoginReturns, Proceed
<1>3. TypeOK'
  <2>1. RequestTypes'
    <3>1. sends[r] + 1 \in 0..2 /\ given[r] \in Tokens
      BY <1>1 DEF TypeOK
    <3>2. carried \in [Requests -> Tokens] /\ sends \in [Requests -> 0..2]
      BY DEF TypeOK
    <3>3. carried' \in [Requests -> Tokens]
      BY <1>2, <3>1, <3>2
    <3>4. sends' \in [Requests -> 0..2]
      BY <1>2, <3>1, <3>2
    <3>5. call' \in [Requests -> {"idle", "login", "sent", "refused", "served", "failed"}]
      BY <1>2 DEF TypeOK
    <3>6. refused' \in [Requests -> Tokens] /\ given' \in [Requests -> Tokens]
      BY <1>1, <1>2 DEF TypeOK
    <3>7. QED
      BY <3>3, <3>4, <3>5, <3>6 DEF RequestTypes
  <2>2. SharedTypes'
    <3>1. SharedTypes /\ given[r] \in Tokens
      BY DEF TypeOK, SharedTypes
    <3>2. QED
      BY <1>1, <3>1 DEF SharedTypes, logoutCall, server
  <2>3. RenewalTypes'
    <3>1. RenewalTypes
      BY DEF TypeOK, RenewalTypes
    <3>2. QED
      BY <1>1, <3>1 DEF RenewalTypes, history
  <2>4. HolderLogsIn'
    BY <1>1, <1>2 DEF TypeOK, HolderLogsIn, logoutCall, server
  <2>5. QED
    BY <2>1, <2>2, <2>3, <2>4 DEF TypeOK, RequestTypes, SharedTypes, RenewalTypes, HolderLogsIn
<1>4. TokensKnown' /\ Attempts' /\ AnswersAreAwaited'
  <2>1. TokensKnown'
    <3>1. TokensKnown /\ given \in [Requests -> Tokens] /\ carried \in [Requests -> Tokens]
      BY DEF TypeOK
    <3>2. Known(jar') /\ issued' = issued
      BY <1>1, <3>1 DEF TokensKnown, server
    <3>3. \A q \in Requests : Known(given'[q])
      <4>1. Known(NoToken)
        BY <1>1, <3>1 DEF TypeOK, Known
      <4>2. QED
        BY <1>1, <3>1, <4>1 DEF TokensKnown
    <3>4. \A q \in Requests : Known(carried'[q])
      <4> SUFFICES ASSUME NEW q \in Requests
                   PROVE  Known(carried'[q])
        OBVIOUS
      <4>1. Known(given[r]) /\ Known(carried[q])
        BY <3>1 DEF TokensKnown
      <4>2. carried'[q] = given[r] \/ carried'[q] = carried[q]
        BY <1>2, <3>1
      <4>3. QED
        BY <4>1, <4>2
    <3>5. QED
      BY <1>1, <3>1, <3>2, <3>3, <3>4 DEF TokensKnown, Known, logoutCall
  <2>2. Attempts'
    <3> SUFFICES ASSUME NEW q \in Requests
                 PROVE  /\ call'[q] = "idle" => sends'[q] = 0
                        /\ call'[q] = "refused" => sends'[q] = 1 /\ refused[q] # NoToken
                        /\ call'[q] = "login" => sends'[q] \in 0..1
                        /\ call'[q] = "sent" => sends'[q] \in 1..2
                        /\ call'[q] = "sent" /\ sends'[q] = 1 => carried'[q] # NoToken
      BY <1>1 DEF Attempts
    <3>1. CASE q = r
      BY <1>1, <1>2, <3>1 DEF TypeOK
    <3>2. CASE q # r
      BY <1>2, <3>2 DEF TypeOK, Attempts
    <3>3. QED
      BY <3>1, <3>2
  <2>3. AnswersAreAwaited'
    BY <1>1, <1>2 DEF TypeOK, AnswersAreAwaited, logoutCall
  <2>4. QED
    BY <2>1, <2>2, <2>3
<1>5. JarIsNewest'
  BY <1>1, <1>2 DEF TypeOK, JarIsNewest, Undisturbed, logoutCall, server, history
<1>6. RenewedIsGone' /\ OneLoginPerToken'
  BY <1>1 DEF TypeOK, TokensKnown, RenewedIsGone, OneLoginPerToken, logoutCall, server, history
<1>7. RetryIsNewer'
  <2> SUFFICES ASSUME NEW q \in Requests, Undisturbed, call'[q] = "sent", sends'[q] = 2
               PROVE  refused[q] < carried'[q]
    BY <1>1, <1>2 DEF RetryIsNewer, Undisturbed, logoutCall, history
  <2>1. CASE q = r
    BY <1>1, <1>2, <2>1 DEF TypeOK, JarIsNewest, Undisturbed
  <2>2. CASE q # r
    BY <1>1, <1>2, <2>2 DEF TypeOK, RetryIsNewer
  <2>3. QED
    BY <2>1, <2>2
<1>8. StreamSentOnce'
  <2> SUFFICES ASSUME NEW q \in Streamed
               PROVE  sends'[q] <= 1
    BY DEF StreamSentOnce
  <2>1. CASE q = r
    BY <1>1, <1>2, <2>1 DEF TypeOK, StreamSentOnce
  <2>2. CASE q # r
    BY <1>1, <1>2, <2>2 DEF TypeOK, StreamSentOnce
  <2>3. QED
    BY <2>1, <2>2
<1>9. QED
  BY <1>3, <1>4, <1>5, <1>6, <1>7, <1>8

LEMMA LoginFailsInvariant ==
    ASSUME IInv, NEW r \in Requests, LoginFails(r)
    PROVE  IInv'
<1> USE SessionAssumption DEF IInv
<1>1. /\ call[r] = "login" /\ lock = r /\ lock' = Nobody
      /\ call' = [call EXCEPT ![r] = "failed"] /\ given' = [given EXCEPT ![r] = NoToken]
      /\ loginFailed' = TRUE
      /\ UNCHANGED <<jar, carried, refused, sends, logoutCall, server, renewals>>
  BY DEF LoginFails, TypeOK
<1>2. TypeOK'
  <2>1. RequestTypes'
    BY <1>1 DEF TypeOK, RequestTypes
  <2>2. SharedTypes'
    BY <1>1 DEF TypeOK, SharedTypes, logoutCall, server
  <2>3. RenewalTypes'
    BY <1>1 DEF TypeOK, RenewalTypes, history
  <2>4. HolderLogsIn'
    BY <1>1 DEF TypeOK, HolderLogsIn, logoutCall, server
  <2>5. QED
    BY <2>1, <2>2, <2>3, <2>4 DEF TypeOK, RequestTypes, SharedTypes, RenewalTypes, HolderLogsIn
<1>3. TokensKnown' /\ Attempts' /\ AnswersAreAwaited'
  BY <1>1 DEF TypeOK, TokensKnown, Attempts, AnswersAreAwaited, logoutCall, server
<1>4. JarIsNewest' /\ RetryIsNewer'
  BY <1>1 DEF JarIsNewest, RetryIsNewer, Undisturbed
<1>5. RenewedIsGone' /\ OneLoginPerToken' /\ StreamSentOnce'
  BY <1>1 DEF TypeOK, RenewedIsGone, OneLoginPerToken, StreamSentOnce, logoutCall, server
<1>6. QED
  BY <1>2, <1>3, <1>4, <1>5

LEMMA AnswerInvariant ==
    ASSUME IInv, NEW r \in Requests, Serve(r) \/ RequestFails(r)
    PROVE  IInv'
<1> USE SessionAssumption DEF IInv
<1>1. /\ call[r] = "sent" /\ sends[r] \in 1..2 /\ lock # r
      /\ UNCHANGED <<client, carried, sends, given, logoutCall, server, history>>
  BY DEF Serve, RequestFails, Attempts, TypeOK
<1>2. \/ /\ \/ call' = [call EXCEPT ![r] = "served"]
            \/ call' = [call EXCEPT ![r] = "failed"]
         /\ UNCHANGED refused
      \/ /\ \/ call' = [call EXCEPT ![r] = "refused"] /\ sends[r] = 1
            \/ call' = [call EXCEPT ![r] = "failed"]
         /\ refused' = [refused EXCEPT ![r] = carried[r]]
  BY DEF Serve, RequestFails
<1>3. TypeOK'
  BY <1>1, <1>2 DEF TypeOK, client, logoutCall, server, history
<1>4. TokensKnown' /\ Attempts' /\ AnswersAreAwaited'
  <2>1. TokensKnown'
    BY <1>1, <1>2 DEF TypeOK, TokensKnown, client, logoutCall, server
  <2>2. Attempts'
    <3> SUFFICES ASSUME NEW q \in Requests
                 PROVE  /\ call'[q] = "idle" => sends[q] = 0
                        /\ call'[q] = "refused" => sends[q] = 1 /\ refused'[q] # NoToken
                        /\ call'[q] = "login" => sends[q] \in 0..1
                        /\ call'[q] = "sent" => sends[q] \in 1..2
                        /\ call'[q] = "sent" /\ sends[q] = 1 => carried[q] # NoToken
      BY <1>1 DEF Attempts
    <3>1. CASE q = r
      BY <1>1, <1>2, <3>1 DEF TypeOK, Attempts
    <3>2. CASE q # r
      BY <1>2, <3>2 DEF TypeOK, Attempts
    <3>3. QED
      BY <3>1, <3>2
  <2>3. AnswersAreAwaited'
    BY <1>1, <1>2 DEF TypeOK, AnswersAreAwaited, logoutCall
  <2>4. QED
    BY <2>1, <2>2, <2>3
<1>5. JarIsNewest' /\ RetryIsNewer'
  BY <1>1, <1>2 DEF TypeOK, AnswersAreAwaited, JarIsNewest, RetryIsNewer, Undisturbed, client,
     logoutCall, server, history
<1>6. RenewedIsGone' /\ OneLoginPerToken' /\ StreamSentOnce'
  BY <1>1 DEF RenewedIsGone, OneLoginPerToken, StreamSentOnce, client, logoutCall, server, history
<1>7. QED
  BY <1>3, <1>4, <1>5, <1>6

\* What logout() touches matters to no property: each is about runs without one.
LEMMA LogoutInvariant ==
    ASSUME IInv, Logout
    PROVE  IInv'
<1> USE SessionAssumption DEF IInv
<1>1. logouts' > 0 /\ logouts' \in 0..MaxLogouts /\ UNCHANGED <<lock, requests, history, issued>>
  <2> USE DEF TypeOK
  <2>1. CASE LogoutStarts
    BY <2>1 DEF LogoutStarts, server
  <2>2. CASE ServeLogout
    BY <2>2 DEF ServeLogout, AnswersAreAwaited, client
  <2>3. CASE LogoutReturns
    BY <2>3 DEF LogoutReturns, AnswersAreAwaited, server
  <2>4. CASE LogoutFails
    BY <2>4 DEF LogoutFails, AnswersAreAwaited, server
  <2>5. CASE LogoutCancelled
    BY <2>5 DEF LogoutCancelled, AnswersAreAwaited, client, server
  <2>6. QED
    BY <2>1, <2>2, <2>3, <2>4, <2>5 DEF Logout
<1>2. /\ Known(jar') /\ Known(dropping') /\ Known(previous')
      /\ logout' \in {"none", "sent", "confirmed", "denied"} /\ valid' \subseteq 1..issued
  <2> USE DEF TypeOK, TokensKnown
  <2>1. CASE LogoutStarts
    BY <2>1 DEF LogoutStarts, server
  <2>2. CASE ServeLogout
    BY <2>2 DEF ServeLogout, client
  <2>3. CASE LogoutReturns
    BY <2>3 DEF LogoutReturns, server
  <2>4. CASE LogoutFails
    BY <2>4 DEF LogoutFails, server
  <2>5. CASE LogoutCancelled
    BY <2>5 DEF LogoutCancelled, client, server
  <2>6. QED
    BY <2>1, <2>2, <2>3, <2>4, <2>5 DEF Logout
<1>3. TypeOK'
  <2>1. RequestTypes'
    BY <1>1, <1>2 DEF TypeOK, RequestTypes, requests
  <2>2. SharedTypes'
    <3>1. /\ issued \in Tokens /\ lock \in Requests \cup {Nobody}
          /\ issued' = issued /\ lock' = lock
      BY <1>1 DEF TypeOK
    <3>2. \A t : Known(t) => t \in Tokens
      BY <3>1
    <3>3. QED
      BY <1>1, <1>2, <3>1, <3>2 DEF SharedTypes
  <2>3. RenewalTypes'
    BY <1>1, <1>2 DEF TypeOK, RenewalTypes, history
  <2>4. HolderLogsIn'
    BY <1>1, <1>2 DEF TypeOK, HolderLogsIn, requests
  <2>5. QED
    BY <2>1, <2>2, <2>3, <2>4 DEF TypeOK, RequestTypes, SharedTypes, RenewalTypes, HolderLogsIn
<1>4. TokensKnown' /\ Attempts' /\ AnswersAreAwaited'
  BY <1>1, <1>2 DEF TokensKnown, Attempts, AnswersAreAwaited, requests
<1>5. JarIsNewest' /\ RenewedIsGone' /\ RetryIsNewer' /\ OneLoginPerToken'
  BY <1>1 DEF JarIsNewest, RenewedIsGone, RetryIsNewer, OneLoginPerToken, Undisturbed
<1>6. StreamSentOnce'
  BY <1>1 DEF StreamSentOnce, requests
<1>7. QED
  BY <1>3, <1>4, <1>5, <1>6

LEMMA ExpireInvariant ==
    ASSUME IInv, Expire \/ UNCHANGED vars
    PROVE  IInv'
<1> USE SessionAssumption DEF IInv
<1>1. valid' \subseteq valid /\ UNCHANGED <<client, requests, logoutCall, issued, history>>
  BY DEF Expire, vars, server
<1> USE <1>1 DEF client, requests, logoutCall, history
<1>2. TypeOK'
  BY DEF TypeOK
<1>3. TokensKnown' /\ Attempts' /\ AnswersAreAwaited'
  BY DEF TokensKnown, Attempts, AnswersAreAwaited
<1>4. JarIsNewest' /\ RenewedIsGone' /\ RetryIsNewer' /\ OneLoginPerToken' /\ StreamSentOnce'
  BY DEF JarIsNewest, RenewedIsGone, RetryIsNewer, OneLoginPerToken, StreamSentOnce, Undisturbed
<1>5. QED
  BY <1>2, <1>3, <1>4

LEMMA StepInvariant == IInv /\ [Next]_vars => IInv'
<1> SUFFICES ASSUME IInv, [Next]_vars
             PROVE  IInv'
  OBVIOUS
<1>1. ASSUME NEW r \in Requests, Request(r)
      PROVE  IInv'
  BY <1>1, UseSessionInvariant, StartLoginInvariant, ServeLoginInvariant, LoginReturnsInvariant,
     LoginFailsInvariant, AnswerInvariant DEF Request
<1>2. QED
  BY <1>1, LogoutInvariant, ExpireInvariant DEF Next
-------------------------------------------------------------------------------
(* Every reachable state satisfies the invariant, and so the types.                *)
THEOREM Invariance == Spec => []IInv
<1>1. QED
  BY InitInvariant, StepInvariant, PTL DEF Spec

(* request(), stream(): until a logout or a failed login comes between the tasks,   *)
(* a second attempt carries a newer session than the one that was refused.         *)
THEOREM RetriesAreNewer == Spec => []RetryIsNewer
<1>1. IInv => RetryIsNewer
  BY DEF IInv
<1>2. QED
  BY <1>1, Invariance, PTL

(* _ensure_session(): without a logout, a refused token is renewed by one login,    *)
(* however many requests it was refused to.                                        *)
THEOREM RenewedOnce == Spec => []OneLoginPerToken
<1>1. IInv => OneLoginPerToken
  BY DEF IInv
<1>2. QED
  BY <1>1, Invariance, PTL

(* request(): a body that is a stream is sent at most once.                        *)
THEOREM StreamsAreSentOnce == Spec => []StreamSentOnce
<1>1. IInv => StreamSentOnce
  BY DEF IInv
<1>2. QED
  BY <1>1, Invariance, PTL
-------------------------------------------------------------------------------
(* With the sockets of the client.  They look at the jar and change nothing in it,  *)
(* so the session lives as before, and what a socket is given is what the jar held. *)

\* A step of the client with its sockets is one of the session, or none of it.
LEMMA SocketSteps == [SocketsNext]_<<vars, sockets>> => [Next]_vars
<1>1. ASSUME NEW s \in Sockets, Build(s) \/ Open(s) \/ Close(s)
      PROVE  UNCHANGED vars
  BY <1>1 DEF Build, Open, Close
<1>2. QED
  BY <1>1 DEF SocketsNext

(* ws(), media_ws() and webrtc() take the token and leave the session alone: the    *)
(* client with its sockets implements the session of its requests, what the        *)
(* requests are owed included.                                                     *)
THEOREM SocketsLeaveTheSession == SocketsSpec => FairSpec
<1>1. SocketsInit => Init
  BY DEF SocketsInit
<1>2. QED
  BY <1>1, SocketSteps, PTL DEF SocketsSpec, FairSpec, Spec

(* So a body is sent once, a token renewed once and a retry newer, sockets or none.  *)
THEOREM SessionWithSockets == SocketsSpec => []IInv
<1>1. FairSpec => Spec
  BY DEF FairSpec
<1>2. QED
  BY <1>1, SocketsLeaveTheSession, Invariance, PTL

(* A socket carries a session kvmd has opened, or none.                            *)
THEOREM SocketTypes == SocketsSpec => []SocketsTypeOK
<1> USE SessionAssumption
<1>1. SocketsInit => SocketsTypeOK
  <2>1. SocketsInit => IInv
    BY InitInvariant DEF SocketsInit
  <2>2. QED
    BY <2>1 DEF SocketsInit, Init, SocketsTypeOK, IInv
<1>2. SocketsTypeOK /\ IInv /\ IInv' /\ [SocketsNext]_<<vars, sockets>> => SocketsTypeOK'
  <2> SUFFICES ASSUME SocketsTypeOK, IInv, IInv', [SocketsNext]_<<vars, sockets>>
               PROVE  SocketsTypeOK'
    OBVIOUS
  <2>1. TypeOK' /\ issued \in Nat /\ issued' \in Nat /\ Known(jar)
    <3>1. TypeOK'
      BY DEF IInv
    <3>2. issued' \in Nat
      BY <3>1 DEF TypeOK
    <3>3. issued \in Nat
      BY DEF IInv, TypeOK
    <3>4. Known(jar)
      BY DEF IInv, TokensKnown
    <3>5. QED
      BY <3>1, <3>2, <3>3, <3>4
  <2>2. issued <= issued'
    <3>1. ASSUME NEW r \in Requests, Request(r)
          PROVE  issued <= issued'
      BY <2>1, <3>1 DEF Request, UseSession, StartLogin, ServeLogin, LoginReturns, LoginFails,
         Serve, RequestFails, server
    <3>2. Logout \/ Expire => UNCHANGED issued
      BY DEF Logout, LogoutStarts, ServeLogout, LogoutReturns, LogoutFails, LogoutCancelled,
         Expire, server
    <3>3. [Next]_vars
      BY SocketSteps
    <3>4. QED
      BY <2>1, <3>1, <3>2, <3>3 DEF Next, vars, server
  <2>3. 0..issued \subseteq 0..issued'
    BY <2>1, <2>2
  <2>4. carries \in [Sockets -> 0..issued] /\ upgrade \in [Sockets -> {"none", "open", "refused"}]
    BY DEF SocketsTypeOK
  <2>5. carries' \in [Sockets -> 0..issued] /\ upgrade' \in [Sockets -> {"none", "open", "refused"}]
    <3>1. CASE UNCHANGED sockets
      BY <2>4, <3>1 DEF sockets
    <3>2. ASSUME NEW s \in Sockets, Build(s)
          PROVE  carries' \in [Sockets -> 0..issued] /\ UNCHANGED upgrade
      BY <2>1, <2>4, <3>2 DEF Build
    <3>3. ASSUME NEW s \in Sockets, Open(s) \/ Close(s)
          PROVE  /\ UNCHANGED carries
                 /\ upgrade' \in [Sockets -> {"none", "open", "refused"}]
      BY <2>4, <3>3 DEF Open, Close
    <3>4. QED
      BY <2>4, <3>1, <3>2, <3>3 DEF SocketsNext
  <2>6. carries' \in [Sockets -> 0..issued']
    BY <2>3, <2>5
  <2>7. QED
    BY <2>1, <2>5, <2>6 DEF SocketsTypeOK
<1>3. QED
  BY <1>1, <1>2, SessionWithSockets, PTL DEF SocketsSpec

(* _ensure_session(), "Drop the refused token before asking for a new one": however *)
(* many tasks renew the session meanwhile, a socket that is built is not given the  *)
(* token they have given up, unless a logout put it back.                          *)
THEOREM SocketsTakeLiveTokens == SocketsSpec => NoSocketOnDeadToken
<1>1. ASSUME SocketsTypeOK, IInv, SocketsNext, logouts = 0, NEW s \in Sockets,
             carries'[s] # carries[s]
      PROVE  renewals[carries'[s]] = 0
  <2>1. carries' = [carries EXCEPT ![s] = jar]
    <3>1. PICK q \in Sockets : Build(q)
      BY <1>1 DEF SocketsNext, Open, Close, sockets
    <3>2. carries' = [carries EXCEPT ![q] = jar]
      BY <3>1 DEF Build
    <3>3. q = s
      BY <1>1, <3>2 DEF SocketsTypeOK
    <3>4. QED
      BY <3>2, <3>3
  <2>2. carries'[s] = jar
    BY <1>1, <2>1 DEF SocketsTypeOK
  <2>3. jar \in Tokens /\ renewals[jar] \in Nat /\ ~(renewals[jar] > 0)
    BY <1>1 DEF IInv, TypeOK, RenewedIsGone
  <2>4. QED
    BY <2>2, <2>3
<1>2. SocketsTypeOK /\ IInv /\ [SocketsNext]_<<vars, sockets>>
        => [\A s \in Sockets : carries'[s] # carries[s] /\ logouts = 0
               => renewals[carries'[s]] = 0]_<<vars, sockets>>
  BY <1>1
<1>3. QED
  BY <1>2, SocketTypes, SessionWithSockets, PTL DEF SocketsSpec, NoSocketOnDeadToken
===============================================================================
