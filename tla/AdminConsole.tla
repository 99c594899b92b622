----------------------------- MODULE AdminConsole -----------------------------
(***************************************************************************)
(* The audit console (ui/app/admin/page.tsx).  The entries of a day are    *)
(* abstracted to the day.                                                  *)
(***************************************************************************)
EXTENDS BrowserTab

CONSTANTS
    admin,
    Dates, Today,   \* Today is what an empty date means
    NoLogs

ASSUME AdminConsoleAssumption ==
    /\ admin \in PRIVILEGED_ROLES
    /\ Today \in Dates
    /\ NoLogs \notin Dates

\* jwt is the token of the last render; crossed is history: the last request for logs
\* was sent while another was under way.
Console(access) ==
    [at |-> "admin", access |-> access, date |-> Today, jwt |-> stored.jwt,
     loading |-> access = "ok", logs |-> NoLogs, error |-> FALSE, crossed |-> FALSE]

\* The effect's check of what localStorage holds.
Admits == stored.role = admin /\ stored.jwt # NoJWT

OnConsole == page.at = "admin" /\ page.access = "ok"

LogsOf(date, jwt) == [date |-> date, jwt |-> jwt]

\* getAuditLogs, with the token of a render or of an effect.
FetchLogs(date, jwt) ==
    /\ Asks("logs", LogsOf(date, jwt))
    /\ page' = [page EXCEPT !.date = date, !.jwt = stored.jwt, !.loading = TRUE,
                            !.error = FALSE, !.crossed = Pending("logs") # {}]
    /\ UNCHANGED <<stored, route, look, tangled, bound>>

\* Mutant: a change of the date asks for nothing.
ChangeDateOnly(date) ==
    /\ OnConsole
    /\ date # page.date
    /\ page' = [page EXCEPT !.date = date, !.jwt = stored.jwt]
    /\ UNCHANGED <<stored, wire, route, look, tangled, bound>>

\* The date is in fetchLogs, and fetchLogs in the effect: the effect runs again.
ChangeDate(date) ==
    /\ OnConsole
    /\ date # page.date
    /\ \/ Admits /\ FetchLogs(date, stored.jwt)
       \/ /\ ~Admits
          /\ page' = [page EXCEPT !.date = date, !.jwt = stored.jwt, !.access = "denied"]
          /\ UNCHANGED <<stored, wire, route, look, tangled, bound>>

RefreshLogs ==
    /\ OnConsole
    /\ ~page.loading
    /\ FetchLogs(page.date, page.jwt)

\* The gateway lists the log for an admin's token only.
LogsListed(c) ==
    /\ c.kind = "logs"
    /\ c.about.jwt.role = admin
    /\ Comes(c, [page EXCEPT !.logs = c.about.date, !.loading = FALSE, !.jwt = stored.jwt])
    /\ UNCHANGED <<stored, asked, route, look, tangled, bound>>

\* Refused, or the connection breaks; the entries on display stay.
LogsFailed(c) ==
    /\ c.kind = "logs"
    /\ Comes(c, [page EXCEPT !.error = TRUE, !.loading = FALSE, !.jwt = stored.jwt])
    /\ UNCHANGED <<stored, asked, route, look, tangled, bound>>

AdminNext ==
    \/ \E date \in Dates : ChangeDate(date)
    \/ RefreshLogs
    \/ \E c \in calls : LogsListed(c) \/ LogsFailed(c)
===============================================================================
