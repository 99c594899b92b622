-------------------------------- MODULE SignIn --------------------------------
(***************************************************************************)
(* The login and register pages (ui/app/login/page.tsx,                    *)
(* ui/app/register/page.tsx), and the persona buttons' updateRole.         *)
(*                                                                         *)
(* What is typed is abstracted to whether it passes the form's checks and  *)
(* whose account it names; the gateway may refuse it.                      *)
(***************************************************************************)
EXTENDS BrowserTab

SignInPages == {"login", "register"}
SignInPage(at) == [at |-> at, loading |-> FALSE, error |-> FALSE]

\* A field is empty or too short.
SubmitIncomplete ==
    /\ page.at \in SignInPages
    /\ ~page.loading
    /\ page' = [page EXCEPT !.error = TRUE]
    /\ UNCHANGED <<stored, wire, route, look, tangled, bound>>

\* Mutant: the username is stored when the form is sent.
HandleSubmitNamed(u) ==
    /\ page.at \in SignInPages
    /\ ~page.loading
    /\ Asks(page.at, u)
    /\ page' = [page EXCEPT !.loading = TRUE, !.error = FALSE]
    /\ stored' = [stored EXCEPT !.user = u]
    /\ UNCHANGED <<route, look, tangled, bound>>

HandleSubmit(u) ==
    /\ page.at \in SignInPages
    /\ ~page.loading
    /\ Asks(page.at, u)
    /\ page' = [page EXCEPT !.loading = TRUE, !.error = FALSE]
    /\ UNCHANGED <<stored, route, look, tangled, bound>>

\* The gateway registers nobody with a privileged role, though the form offers them.
Admitted(c) ==
    /\ c.kind \in SignInPages
    /\ c.kind = "register" => Accounts[c.about] \notin PRIVILEGED_ROLES

SignedIn(c) ==
    /\ Admitted(c)
    /\ stored' = [stored EXCEPT !.jwt = [sub |-> c.about, role |-> Accounts[c.about]],
                                !.role = Accounts[c.about], !.user = c.about]
    /\ route' = Pushed("setup", NoSession)
    /\ Comes(c, [page EXCEPT !.loading = FALSE])
    /\ UNCHANGED <<asked, look, tangled, bound>>

\* Refused, or the connection breaks.
SignInFailed(c) ==
    /\ c.kind \in SignInPages
    /\ Comes(c, [page EXCEPT !.loading = FALSE, !.error = TRUE])
    /\ UNCHANGED <<stored, asked, route, look, tangled, bound>>

-------------------------------------------------------------------------------
\* The chat page's handleRoleChange.
SwitchPersona(role) ==
    /\ page.at = "chat"
    /\ Asks("role", role)
    /\ page' = [page EXCEPT !.role = role]
    /\ UNCHANGED <<stored, route, look, tangled, bound>>

\* The gateway issues no privileged role to ui-user.
PersonaSwitched(c) ==
    /\ c.kind = "role"
    /\ c.about \notin PRIVILEGED_ROLES
    /\ stored' = Minted(c.about)
    /\ Comes(c, [page EXCEPT !.jwt = stored'.jwt])
    /\ UNCHANGED <<asked, route, look, tangled, bound>>

PersonaRefused(c) ==
    /\ c.kind = "role"
    /\ Comes(c, page)
    /\ UNCHANGED <<stored, asked, route, look, tangled, bound>>

-------------------------------------------------------------------------------
SignInAnswers(c) ==
    SignedIn(c) \/ SignInFailed(c) \/ PersonaSwitched(c) \/ PersonaRefused(c)

SignInNext ==
    \/ SubmitIncomplete
    \/ \E u \in Users : HandleSubmit(u)
    \/ \E role \in Roles : SwitchPersona(role)
    \/ \E c \in calls : SignInAnswers(c)
===============================================================================
