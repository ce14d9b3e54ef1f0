----------------------------- MODULE CookieSession -----------------------------
(***************************************************************************)
(* Requests of one PiKVM client under auth="cookie": request() and stream()  *)
(* of src/aiopikvm/_client.py with the session they open, share and renew,   *)
(* and AuthResource.login() and logout() of resources/auth.py, which change   *)
(* the same cookie jar.  Tasks of one event loop: an action is what a task    *)
(* does from one await to the next, and the server acts in between.           *)
(*                                                                           *)
(* Session tokens are numbered in the order kvmd opens the sessions.          *)
(***************************************************************************)
EXTENDS Naturals

CONSTANTS Requests,   \* tasks that make a call
          Streamed,   \* those whose body can be sent only once
          Nobody,     \* stands for no task
          MaxTokens,  \* bound: sessions kvmd opens
          MaxLogouts  \* bound: calls of logout()

ASSUME SessionAssumption ==
    /\ Streamed \subseteq Requests
    /\ Nobody \notin Requests
    /\ MaxTokens \in Nat /\ MaxLogouts \in Nat

VARIABLES
    jar,       \* the token in the cookie jar, NoToken if there is none
    lock,      \* who holds self._login_lock
    call,      \* where each task is
    carried,   \* the token each task's request was sent with
    refused,   \* the token it was refused with: the argument of _ensure_session()
    sends,     \* how many times the task has sent its request
    given,     \* the token a login was answered with
    logout,    \* the call of logout(): "none", "sent", "confirmed", "denied"
    dropping, previous,   \* its `token` and `previous`
    valid,     \* the sessions kvmd has open
    issued,    \* how many it has opened
    logouts,   \* how many times logout() was called
    (* History variables: a login has failed; how many logins each refused       *)
    (* token has led to.                                                         *)
    loginFailed, renewals

client == <<jar, lock>>
requests == <<call, carried, refused, sends, given>>
logoutCall == <<logout, dropping, previous, logouts>>
server == <<valid, issued>>
history == <<loginFailed, renewals>>
vars == <<client, requests, logoutCall, server, history>>

NoToken == 0
Tokens == 0..MaxTokens
-------------------------------------------------------------------------------
Init ==
    /\ jar = NoToken /\ lock = Nobody
    /\ call = [r \in Requests |-> "idle"]
    /\ carried = [r \in Requests |-> NoToken]
    /\ refused = [r \in Requests |-> NoToken]
    /\ sends = [r \in Requests |-> 0]
    /\ given = [r \in Requests |-> NoToken]
    /\ logout = "none" /\ dropping = NoToken /\ previous = NoToken
    /\ valid = {} /\ issued = 0 /\ logouts = 0
    /\ loginFailed = FALSE /\ renewals = [t \in Tokens |-> 0]
-------------------------------------------------------------------------------
Retrying(r) == call[r] = "refused"
WantsSession(r) == call[r] \in {"idle", "refused"}

\* A mutated form of HasSession: any token in the jar will do.
HasAnySession(r) == jar # NoToken

\* What _ensure_session() decides under the lock.
HasSession(r) == IF Retrying(r) THEN jar # refused[r] ELSE jar # NoToken

\* A mutated form of Proceed: a body that was consumed is sent again.
ProceedAnyway(r, token) ==
    /\ call' = [call EXCEPT ![r] = "sent"]
    /\ carried' = [carried EXCEPT ![r] = token]
    /\ sends' = [sends EXCEPT ![r] = @ + 1]

\* Send the request with the token, unless its body went with the first attempt.
Proceed(r, token) ==
    \/ /\ sends[r] = 0 \/ r \notin Streamed
       /\ call' = [call EXCEPT ![r] = "sent"]
       /\ carried' = [carried EXCEPT ![r] = token]
       /\ sends' = [sends EXCEPT ![r] = @ + 1]
    \/ /\ sends[r] > 0 /\ r \in Streamed
       /\ call' = [call EXCEPT ![r] = "failed"]
       /\ UNCHANGED <<carried, sends>>

\* _ensure_session() has nothing to do.
UseSession(r) ==
    /\ WantsSession(r) /\ lock = Nobody
    /\ HasSession(r)
    /\ Proceed(r, jar)
    /\ UNCHANGED <<client, refused, given, logoutCall, server, history>>

\* A mutated form of StartLogin: the jar is not looked at again under the lock.
StartLoginAlways(r) ==
    /\ WantsSession(r) /\ lock = Nobody
    /\ Retrying(r) \/ jar = NoToken
    /\ lock' = r
    /\ jar' = NoToken
    /\ call' = [call EXCEPT ![r] = "login"]
    /\ renewals' = IF Retrying(r) THEN [renewals EXCEPT ![refused[r]] = @ + 1] ELSE renewals
    /\ UNCHANGED <<carried, refused, sends, given, logoutCall, server, loginFailed>>

\* A mutated form of StartLogin: the refused token stays in the jar meanwhile.
StartLoginCarrying(r) ==
    /\ WantsSession(r) /\ lock = Nobody
    /\ ~HasSession(r)
    /\ lock' = r
    /\ call' = [call EXCEPT ![r] = "login"]
    /\ renewals' = IF Retrying(r) THEN [renewals EXCEPT ![refused[r]] = @ + 1] ELSE renewals
    /\ UNCHANGED <<jar, carried, refused, sends, given, logoutCall, server, loginFailed>>

\* It logs in, with the refused token out of the jar, and holds the lock meanwhile.
StartLogin(r) ==
    /\ WantsSession(r) /\ lock = Nobody
    /\ ~HasSession(r)
    /\ lock' = r
    /\ jar' = NoToken
    /\ call' = [call EXCEPT ![r] = "login"]
    /\ renewals' = IF Retrying(r) THEN [renewals EXCEPT ![refused[r]] = @ + 1] ELSE renewals
    /\ UNCHANGED <<carried, refused, sends, given, logoutCall, server, loginFailed>>

\* kvmd opens a session.
ServeLogin(r) ==
    /\ call[r] = "login" /\ given[r] = NoToken
    /\ issued < MaxTokens
    /\ issued' = issued + 1
    /\ valid' = valid \cup {issued'}
    /\ given' = [given EXCEPT ![r] = issued']
    /\ UNCHANGED <<client, call, carried, refused, sends, logoutCall, history>>

\* The answer: _store_token() replaces what is in the jar, the lock is released and
\* the request goes out.
LoginReturns(r) ==
    /\ call[r] = "login" /\ given[r] # NoToken
    /\ jar' = given[r]
    /\ lock' = Nobody
    /\ given' = [given EXCEPT ![r] = NoToken]
    /\ Proceed(r, given[r])
    /\ UNCHANGED <<refused, logoutCall, server, history>>

\* A mutated form of LoginFails: the lock stays with whoever failed.
LoginFailsLocked(r) ==
    /\ call[r] = "login"
    /\ call' = [call EXCEPT ![r] = "failed"]
    /\ given' = [given EXCEPT ![r] = NoToken]
    /\ loginFailed' = TRUE
    /\ UNCHANGED <<client, carried, refused, sends, logoutCall, server, renewals>>

\* kvmd refuses the credentials, or no answer comes; the caller may also give up.
LoginFails(r) ==
    /\ call[r] = "login"
    /\ call' = [call EXCEPT ![r] = "failed"]
    /\ lock' = Nobody
    /\ given' = [given EXCEPT ![r] = NoToken]
    /\ loginFailed' = TRUE
    /\ UNCHANGED <<jar, carried, refused, sends, logoutCall, server, renewals>>

\* The request is answered: served, or refused for its token.  A second refusal is
\* the caller's.
Serve(r) ==
    /\ call[r] = "sent"
    /\ \/ /\ carried[r] \in valid
          /\ call' = [call EXCEPT ![r] = "served"]
          /\ UNCHANGED refused
       \/ /\ carried[r] \notin valid
          /\ call' = [call EXCEPT ![r] = IF sends[r] = 1 THEN "refused" ELSE "failed"]
          /\ refused' = [refused EXCEPT ![r] = carried[r]]
    /\ UNCHANGED <<client, carried, sends, given, logoutCall, server, history>>

\* It fails for any other reason, which is not retried.
RequestFails(r) ==
    /\ call[r] = "sent"
    /\ call' = [call EXCEPT ![r] = "failed"]
    /\ UNCHANGED <<client, carried, refused, sends, given, logoutCall, server, history>>
-------------------------------------------------------------------------------
(* logout(), which takes no lock.                                             *)

\* The token is put in the jar, so that it is the one the request carries.
LogoutStarts ==
    /\ logout = "none" /\ logouts < MaxLogouts
    /\ \E token \in ({jar} \cup 1..issued) \ {NoToken} :
         dropping' = token /\ jar' = token
    /\ previous' = jar
    /\ logout' = "sent"
    /\ logouts' = logouts + 1
    /\ UNCHANGED <<lock, requests, server, history>>

\* kvmd drops every session of the user, if the token is one of them.
ServeLogout ==
    /\ logout = "sent"
    /\ \/ dropping \in valid /\ valid' = {} /\ logout' = "confirmed"
       \/ dropping \notin valid /\ logout' = "denied" /\ UNCHANGED valid
    /\ UNCHANGED <<client, requests, dropping, previous, logouts, issued, history>>

LogoutReturns ==
    /\ logout = "confirmed"
    /\ logout' = "none"
    /\ jar' = NoToken
    /\ UNCHANGED <<lock, requests, dropping, previous, logouts, server, history>>

\* It is denied, or its answer never comes: what the client carried is put back.
LogoutFails ==
    /\ logout # "none"
    /\ logout' = "none"
    /\ jar' = previous
    /\ UNCHANGED <<lock, requests, dropping, previous, logouts, server, history>>

\* The task that called it is cancelled, which `except Exception` does not catch.
LogoutCancelled ==
    /\ logout # "none"
    /\ logout' = "none"
    /\ UNCHANGED <<client, requests, dropping, previous, logouts, server, history>>

\* A session expires, or is logged out from somewhere else.
Expire ==
    /\ \E t \in valid : valid' = valid \ {t}
    /\ UNCHANGED <<client, requests, logoutCall, issued, history>>
-------------------------------------------------------------------------------
Request(r) ==
    \/ UseSession(r) \/ StartLogin(r)
    \/ ServeLogin(r) \/ LoginReturns(r) \/ LoginFails(r)
    \/ Serve(r) \/ RequestFails(r)

Logout == LogoutStarts \/ ServeLogout \/ LogoutReturns \/ LogoutFails \/ LogoutCancelled

Next == (\E r \in Requests : Request(r)) \/ Logout \/ Expire

(* A call that was made is carried on; kvmd answers, or the timeout stands for it.   *)
(* asyncio.Lock wakes its waiters in turn.                                           *)
Fairness ==
    \A r \in Requests :
        /\ SF_vars(call[r] = "refused" /\ (UseSession(r) \/ StartLogin(r)))
        /\ WF_vars(LoginReturns(r) \/ LoginFails(r))
        /\ WF_vars(Serve(r) \/ RequestFails(r))

Spec == Init /\ [][Next]_vars
FairSpec == Spec /\ Fairness
-------------------------------------------------------------------------------
TypeOK ==
    /\ jar \in Tokens /\ lock \in Requests \cup {Nobody}
    /\ call \in [Requests -> {"idle", "login", "sent", "refused", "served", "failed"}]
    /\ carried \in [Requests -> Tokens] /\ refused \in [Requests -> Tokens]
    /\ sends \in [Requests -> 0..2] /\ given \in [Requests -> Tokens]
    /\ logout \in {"none", "sent", "confirmed", "denied"}
    /\ dropping \in Tokens /\ previous \in Tokens
    /\ valid \subseteq 1..issued /\ issued \in Tokens /\ logouts \in 0..MaxLogouts
    /\ loginFailed \in BOOLEAN /\ renewals \in [Tokens -> Nat]
    /\ \A r \in Requests : lock = r <=> call[r] = "login"

\* Nothing but kvmd refusing tokens has come between the tasks.
Undisturbed == logouts = 0 /\ ~loginFailed

(* request(), stream(): the second attempt carries a newer session than the one    *)
(* that was refused, whichever task opened it.                                     *)
RetryIsNewer ==
    Undisturbed => \A r \in Requests :
                       call[r] = "sent" /\ sends[r] = 2 => refused[r] < carried[r]

(* _ensure_session(), "that token has not been tried yet": however many requests    *)
(* one token is refused to, it is replaced once, unless a logout put it back.      *)
OneLoginPerToken == logouts = 0 => \A t \in Tokens : renewals[t] <= 1

(* request(): a body that is a stream is not sent a second time.                   *)
StreamSentOnce == \A r \in Streamed : sends[r] <= 1

(* _login_lock is let go on every path: a call that was made comes to an end.       *)
RequestsEnd ==
    \A r \in Requests : call[r] \in {"refused", "login", "sent"}
                            ~> call[r] \in {"served", "failed"}

(* _ensure_session(), "Another task logged in while this one waited for the lock;   *)
(* that token has not been tried yet": there is a token to try.                     *)
(* It does not hold: no run checks it.                                              *)
RetryHasToken ==
    \A r \in Requests : call[r] = "sent" /\ sends[r] = 2 => carried[r] # NoToken
===============================================================================
