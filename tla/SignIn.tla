------------------------------- MODULE SignIn -------------------------------
(***************************************************************************)
(* Signing in to a Q2 bank: `login` of core/tools/q2_online_banking.py,    *)
(* with a page that renders and answers in its own time and a server that  *)
(* may drop the session at any moment.                                     *)
(*                                                                         *)
(* Of a page the model keeps what the checks tell apart: the form, a       *)
(* challenge for an access code, the refusal of an automated browser, the  *)
(* account, or nothing yet. Every wait of the code has a deadline, and may *)
(* give up at any poll.                                                    *)
(***************************************************************************)

VARIABLES
    jar,       \* the browser has a q2token
    honoured,  \* the server accepts it
    screen,    \* what the page shows
    asked,     \* the password was submitted and is not answered yet
    at,        \* where `login` is
    used       \* observer: the password was submitted

signInVars == <<jar, honoured, screen, asked, at, used>>

Ends == {"signed in", "no form", "no vault", "no password", "refused",
         "access code", "did not complete"}

SignInTypeOK ==
    /\ {jar, honoured, asked, used} \subseteq BOOLEAN
    /\ screen \in {"nothing", "form", "challenge", "refusal", "account"}
    /\ at \in {"open", "probe", "form", "trust", "creds", "submit", "settle",
               "ask", "look"} \cup Ends

(* A restored session may be good or long dead; nothing here tells which. *)
SignInInit ==
    /\ jar \in BOOLEAN /\ honoured \in BOOLEAN /\ (honoured => jar)
    /\ screen = "nothing" /\ asked = FALSE /\ at = "open" /\ used = FALSE

Reaches(next) == at' = next /\ UNCHANGED <<jar, honoured, screen, asked, used>>

-----------------------------------------------------------------------------
(* looks_authenticated: a token, and no form on screen. *)
LooksAuthenticated == jar /\ screen # "form"

(* session_is_live: the server's answer; a request may also fail. *)
LiveAnswers == IF jar /\ honoured THEN BOOLEAN ELSE {FALSE}

OpenPortal ==
    /\ at = "open" /\ at' = "probe" /\ screen' = "nothing"
    /\ UNCHANGED <<jar, honoured, asked, used>>

(* The restored session is asked of the server, not of the page. *)
Probe ==
    \E live \in LiveAnswers :
        at = "probe" /\ Reaches(IF live THEN "signed in" ELSE "form")

FindForm == at = "form" /\ screen = "form" /\ Reaches("creds")

(* The form has not appeared in time; a token without a form is trusted.     *)
NoForm == at = "form" /\ screen # "form" /\ Reaches("trust")

Trust ==
    /\ at = "trust"
    /\ Reaches(IF LooksAuthenticated THEN "signed in" ELSE "no form")

(* The credentials are read only now; the password field may be missing.     *)
Creds ==
    \E next \in {"submit", "no vault", "no password", "no form"} :
        at = "creds" /\ Reaches(next)

Submit ==
    /\ at = "submit" /\ at' = "settle" /\ asked' = TRUE /\ used' = TRUE
    /\ UNCHANGED <<jar, honoured, screen>>

(* Mutant: the form is gone, so it is settled. *)
SettleByPage ==
    /\ at = "settle"
    /\ Reaches(IF LooksAuthenticated THEN "signed in" ELSE "look")

(* The loop: the page is asked first, and then the server. *)
Settle ==
    /\ at = "settle"
    /\ Reaches(IF LooksAuthenticated THEN "ask" ELSE "look")

Ask ==
    \E live \in LiveAnswers :
        at = "ask" /\ Reaches(IF live THEN "signed in" ELSE "look")

Look ==
    /\ at = "look"
    /\ CASE screen = "refusal" -> Reaches("refused")
         [] screen = "challenge" -> Reaches("access code")
         [] OTHER -> Reaches("settle") \/ Reaches("did not complete")

-----------------------------------------------------------------------------
(* The page renders what the server thinks of the session. *)
Renders ==
    /\ screen = "nothing" /\ at # "open"
    /\ screen' = IF jar /\ honoured THEN "account" ELSE "form"
    /\ UNCHANGED <<jar, honoured, asked, at, used>>

(* The answer to the password. A challenge replaces the form, and leaves an  *)
(* old token where it is; a wrong password leaves the form.                  *)
Answer ==
    /\ asked /\ asked' = FALSE
    /\ \/ jar' = TRUE /\ honoured' = TRUE /\ screen' \in {"nothing", "account"}
       \/ /\ screen' \in {"form", "challenge", "refusal"}
          /\ UNCHANGED <<jar, honoured>>
    /\ UNCHANGED <<at, used>>

Drops ==
    /\ honoured /\ honoured' = FALSE
    /\ UNCHANGED <<jar, screen, asked, at, used>>

SignInNext ==
    \/ OpenPortal \/ Probe \/ FindForm \/ NoForm \/ Trust \/ Creds \/ Submit
    \/ Settle \/ Ask \/ Look
    \/ Renders \/ Answer \/ Drops

SignInSpec == SignInInit /\ [][SignInNext]_signInVars

-----------------------------------------------------------------------------
(* A login that has used the password reports success only when the server   *)
(* accepts the session, whatever is on the page and in the jar: "reported    *)
(* success and then 403'd on the very next call". (Without a form a token is *)
(* trusted unasked: see the README.)                                         *)
SignedInIsTrue ==
    [][at # "signed in" /\ at' = "signed in" /\ used => honoured]_signInVars
=============================================================================
