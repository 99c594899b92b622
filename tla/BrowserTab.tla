------------------------------ MODULE BrowserTab ------------------------------
(***************************************************************************)
(* What the pages of the web client share: localStorage                    *)
(* (ui/lib/session.ts), the page that is mounted, the requests under way   *)
(* (ui/lib/api.ts) and the route a handler has pushed.                     *)
(*                                                                         *)
(* A handler runs to its first await at once.  What it awaits comes back   *)
(* later, in any order, even when its page is gone: then its React state   *)
(* is gone too, but what it writes to localStorage and the route it pushes *)
(* still take effect.  A pushed route is mounted some time later, and      *)
(* until then the old page still works.                                    *)
(*                                                                         *)
(* A JWT is its subject and its role; a session is the number of the       *)
(* request that configured it.  The chat page is module ChatPage; here it  *)
(* is what it takes from localStorage, and the switch of a persona.        *)
(***************************************************************************)
EXTENDS Naturals, Sequences, FiniteSets

CONSTANTS
    Roles, PRIVILEGED_ROLES, junior_analyst,
    Users,        \* accounts: an account is its username
    Accounts,     \* the role of each account
    ui_user,      \* the subject of the tokens the UI asks for without a login
    None,
    Themes, DefaultTheme,
    Bounds        \* bounds of a behaviour: requests sent, results of the tokenizer kept,
                  \* and which displays are used

ASSUME BrowserTabAssumption ==
    /\ PRIVILEGED_ROLES \subseteq Roles
    /\ junior_analyst \in Roles \ PRIVILEGED_ROLES
    /\ Accounts \in [Users -> Roles]
    /\ ui_user \notin Users
    /\ None \notin Roles \cup Users \cup {ui_user} \cup BOOLEAN
    /\ DefaultTheme \in Themes
    /\ None \notin Themes
    /\ Bounds \subseteq [calls : Nat, texts : Nat, displays : SUBSET {"landing", "settings"}]

VARIABLES
    stored,     \* localStorage
    page,       \* the mounted page with its React state
    calls,      \* requests without an answer yet
    asked,      \* the number of requests sent
    route,      \* the route pushed and not yet mounted, and the Launch that did
    look,       \* documentElement: the theme and the classes of the document
    tangled,    \* history: the last Launch was begun while another was under way
    bound       \* one of Bounds

wire == <<calls, asked>>
vars == <<stored, page, wire, route, look, tangled, bound>>

JWTs == [sub : Users \cup {ui_user}, role : Roles]
NoJWT == [sub |-> None, role |-> None]
NoSession == 0

\* The settings panel's keys hold None until it writes them.
Prefs == [theme : Themes \cup {None}, animations : BOOLEAN \cup {None},
          compact : BOOLEAN \cup {None}]
NoPrefs == [theme |-> None, animations |-> None, compact |-> None]

Stored == [session : Nat, jwt : JWTs \cup {NoJWT},
           role : Roles \cup {None}, user : Users \cup {None}, prefs : Prefs]

\* Mutant: the answer's subject and role are taken for each other.
MintedSwapped(role) == [stored EXCEPT !.jwt = [sub |-> role, role |-> ui_user], !.role = ui_user]

\* setSessionId, and initSession or updateRole once the gateway has issued a token.
SessionStored(s) == [stored EXCEPT !.session = s]
Minted(role) == [stored EXCEPT !.jwt = [sub |-> ui_user, role |-> role], !.role = role]

-------------------------------------------------------------------------------
\* A request of the mounted page.  about tells what it is about.
Call(kind, about) ==
    [n |-> asked + 1, kind |-> kind, mine |-> TRUE, about |-> about]

Asks(kind, about) ==
    /\ asked < bound.calls
    /\ asked' = asked + 1
    /\ calls' = calls \cup {Call(kind, about)}

Pending(kind) == {c \in calls : c.kind = kind /\ c.mine}

\* The answer to a call changes the page only while the page that asked is mounted.
Comes(c, shown) ==
    /\ calls' = calls \ {c}
    /\ page' = IF c.mine THEN shown ELSE page

NoRoute == [to |-> None, launch |-> NoSession]
Pushed(to, launch) == [to |-> to, launch |-> launch]

\* A page is replaced by another, and what it asked for is nobody's.
Orphans == {[c EXCEPT !.mine = FALSE] : c \in calls}
===============================================================================
