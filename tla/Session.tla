------------------------------ MODULE Session ------------------------------
(***************************************************************************)
(* The artist's session (internal/auth/auth.go, internal/web/login.go).    *)
(* The server keeps nothing: a cookie that carries a valid signature and   *)
(* an expiry in the future is the session, and all tabs of a browser send  *)
(* the same one.  What bcrypt and HMAC compute is taken as given, so all   *)
(* that matters of the cookie is whether the server would verify it.       *)
(***************************************************************************)

VARIABLE cookie

\* no cookie, a signature of another secret and a token whose 30 days are
\* over are all refused
SessionTypeOK == cookie \in {"verifies", "refused"}

SessionInit == cookie = "refused"

\* requireAuth: whoever is refused is redirected to /login
IsAuthenticated == cookie = "verifies"

\* handleLoginSubmit; a wrong password renders the form again
Login(passwordOK) == cookie' = IF passwordOK THEN "verifies" ELSE cookie

\* handleLogout clears the cookie
Logout == cookie' = "refused"

\* SessionTTL passes, or the server restarts with another SESSION_SECRET
LapseSession == IsAuthenticated /\ cookie' = "refused"

SessionNext ==
    \/ \E passwordOK \in BOOLEAN : Login(passwordOK)
    \/ Logout
    \/ LapseSession
=============================================================================
