---------------------------- MODULE AdminSessions ----------------------------
(***************************************************************************)
(* One administrator's account and the browsers that sign in to it:        *)
(* admin_sessions and the cookie that names one (auth.js), the login,      *)
(* logout and password routes of server.js with the awaits between their   *)
(* queries, the pages that call them, and the import of a backup, which    *)
(* replaces the hash.                                                      *)
(*                                                                         *)
(* Passwords are numbered by the order in which they are set.  Tokens,     *)
(* hashes, roles and the limiters' counters are left out.                  *)
(***************************************************************************)
EXTENDS Integers

CONSTANTS
    Browser,
    SessionRow,     \* rows of admin_sessions
    MaxPassword     \* bound: passwords ever set

ASSUME AuthAssumption == MaxPassword \in Nat \ {0} /\ "none" \notin SessionRow

VARIABLES
    password,    \* the one password_hash is of
    changed,     \* history: the one the password route set last
    sessions,    \* admin_sessions: the password it was opened with, revoked_at
    cookie,      \* per browser: the row its zvpn_token names, or NoCookie
    page,        \* per browser: the login page or the console
    asking       \* per browser: the request in progress

authVars == <<password, changed, sessions, cookie, page, asking>>

NoCookie == "none"
NoRow == [with |-> 0, open |-> FALSE, late |-> FALSE]
NoQuery == [kind |-> "free"]

\* `late' (history): inserted by a login that had checked the password before
\* the route changed it
AdminSession == [with : 0..MaxPassword, open : BOOLEAN, late : BOOLEAN]
AuthRequest == [kind : {"login", "update", "revoke"}, with : 0..MaxPassword]

AuthType ==
    /\ password \in 1..MaxPassword /\ changed \in 0..password
    /\ sessions \in [SessionRow -> AdminSession]
    /\ cookie \in [Browser -> SessionRow \cup {NoCookie}]
    /\ page \in [Browser -> {"login", "console"}]
    /\ asking \in [Browser -> AuthRequest \cup {NoQuery}]

AuthInit ==
    /\ password = 1 /\ changed = 0
    /\ sessions = [s \in SessionRow |-> NoRow]
    /\ cookie = [b \in Browser |-> NoCookie]
    /\ page = [b \in Browser |-> "login"]
    /\ asking = [b \in Browser |-> NoQuery]

\* Each page's form sends one request at a time.
LoginForm(b)    == page[b] = "login" /\ asking[b] = NoQuery
PasswordForm(b) == page[b] = "console" /\ asking[b] = NoQuery

\* requireAdmin: the cookie names a row that is neither revoked nor expired.
SignedIn(b) == cookie[b] # NoCookie /\ sessions[cookie[b]].open

-----------------------------------------------------------------------------
(* Login, in two steps: verifyAdmin and signAdmin *)

VerifyAdmin(b) ==
    /\ LoginForm(b)
    /\ asking' = [asking EXCEPT ![b] = [kind |-> "login", with |-> password]]
    /\ UNCHANGED <<password, changed, sessions, cookie, page>>

SignAdmin(b, s) ==
    /\ asking[b].kind = "login" /\ sessions[s].with = 0
    /\ sessions' = [sessions EXCEPT ![s] = [with |-> asking[b].with, open |-> TRUE,
                                            late |-> asking[b].with < changed]]
    /\ cookie' = [cookie EXCEPT ![b] = s]
    /\ page' = [page EXCEPT ![b] = "console"]
    /\ asking' = [asking EXCEPT ![b] = NoQuery]
    /\ UNCHANGED <<password, changed>>

\* INVALID_CREDENTIALS is answered before anything is asked; a query fails.
LoginFails(b) ==
    /\ asking[b].kind = "login"
    /\ asking' = [asking EXCEPT ![b] = NoQuery]
    /\ UNCHANGED <<password, changed, sessions, cookie, page>>

-----------------------------------------------------------------------------
(* The other routes *)

Revoked(S) == [s \in SessionRow |-> IF s \in S THEN [sessions[s] EXCEPT !.open = FALSE]
                                                ELSE sessions[s]]

\* POST /api/auth/logout
LoggedOut(b) ==
    IF SignedIn(b)
      THEN sessions' = Revoked({cookie[b]}) /\ cookie' = [cookie EXCEPT ![b] = NoCookie]
      ELSE UNCHANGED <<sessions, cookie>>

\* The page turns to the login whatever the request comes to.
Logout(b, answered) ==
    /\ page[b] = "console"
    /\ page' = [page EXCEPT ![b] = "login"]
    /\ IF answered THEN LoggedOut(b) ELSE UNCHANGED <<sessions, cookie>>
    /\ UNCHANGED <<password, changed, asking>>

\* Protected asks for /api/me when the answer it has is a minute old.
Me(b) ==
    /\ page[b] = "console" /\ ~SignedIn(b)
    /\ page' = [page EXCEPT ![b] = "login"]
    /\ UNCHANGED <<password, changed, sessions, cookie, asking>>

\* The address / is opened again while the cookie is good.
Return(b) ==
    /\ LoginForm(b) /\ SignedIn(b)
    /\ page' = [page EXCEPT ![b] = "console"]
    /\ UNCHANGED <<password, changed, sessions, cookie, asking>>

\* POST /api/admin/password: the current password compares,
ComparePassword(b) ==
    /\ PasswordForm(b) /\ SignedIn(b)
    /\ asking' = [asking EXCEPT ![b] = [kind |-> "update", with |-> password]]
    /\ UNCHANGED <<password, changed, sessions, cookie, page>>

\* then the hash is replaced, whatever it has become meanwhile,
UpdatePassword(b) ==
    /\ asking[b].kind = "update" /\ password < MaxPassword
    /\ password' = password + 1 /\ changed' = password + 1
    /\ asking' = [asking EXCEPT ![b] = [kind |-> "revoke", with |-> password + 1]]
    /\ UNCHANGED <<sessions, cookie, page>>

\* Mutant: only the sessions of the browser that asked end.
EndedOwn(b) == {cookie[b]} \ {NoCookie}

\* every session of the administrator
EndedSessions(b) == SessionRow

\* then every session is revoked and the cookie cleared.
RevokeAll(b) ==
    /\ asking[b].kind = "revoke"
    /\ sessions' = Revoked(EndedSessions(b))
    /\ cookie' = [cookie EXCEPT ![b] = NoCookie]
    /\ page' = [page EXCEPT ![b] = "login"]
    /\ asking' = [asking EXCEPT ![b] = NoQuery]
    /\ UNCHANGED <<password, changed>>

\* A `full' import replaces the hash and leaves the sessions.
ImportAdmins ==
    /\ password < MaxPassword /\ password' = password + 1
    /\ UNCHANGED <<changed, sessions, cookie, page, asking>>

Expire(s) ==
    /\ sessions[s].open
    /\ sessions' = Revoked({s})
    /\ UNCHANGED <<password, changed, cookie, page, asking>>

AuthNext ==
    \/ \E b \in Browser :
        \/ VerifyAdmin(b) \/ LoginFails(b) \/ Me(b) \/ Return(b)
        \/ ComparePassword(b) \/ UpdatePassword(b) \/ RevokeAll(b)
        \/ \E s \in SessionRow : SignAdmin(b, s)
        \/ \E answered \in BOOLEAN : Logout(b, answered)
    \/ ImportAdmins \/ \E s \in SessionRow : Expire(s)

AuthSpec == AuthInit /\ [][AuthNext]_authVars

-----------------------------------------------------------------------------
(* Properties *)

\* Changing the password ends every session opened with an older one: what
\* remains is one that a login, checked before the change, opens after it, or
\* the change is still at its last query (server.js:398-400).  An import that
\* replaces the hash ends none (backup.js:150-155).
OldSessionsEnd ==
    \A s \in SessionRow :
        sessions[s].open /\ sessions[s].with < changed /\ ~sessions[s].late =>
            \E b \in Browser : asking[b].kind = "revoke"

=============================================================================
