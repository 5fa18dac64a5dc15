----------------------------- MODULE ReviewPage -----------------------------
(***************************************************************************)
(* A reviewer's browser and the pages it posts from (api.go): who the      *)
(* reviewer is comes from the tokens oauth2-proxy forwards, and every form *)
(* carries the value of a cookie that each rendering sets again.  Pages    *)
(* are followed while there is something to decide.                        *)
(***************************************************************************)
EXTENDS OutputDelivery

CONSTANTS
  Tabs,
  Headers,   \* what the reviewer's requests carry, one entry per candidate
  MaxLoads   \* bound: pages loaded

ASSUME MaxLoadsAssumption == MaxLoads \in Nat

VARIABLES
  cookie,  \* the browser's CSRF cookie: its value (0: none) and when it expires
  tab,     \* per tab: "closed", "loading" or "form"; the cookie it sent, the token in its form
  latest,  \* history: the tab whose page came last
  bare,    \* history: a page was asked for without the cookie while another was out
  loads

reviewVars == <<cookie, tab, latest, bare, loads>>

NoTab == [pc |-> "closed", token |-> 0]

NoCookie == [value |-> 0, until |-> 0]

\* The cookie may be left from the review of another request.
ReviewInit ==
  /\ cookie \in {NoCookie} \cup [value: {1}, until: 1..PendingTTL]
  /\ tab = [t \in Tabs |-> NoTab]
  /\ latest = {} /\ bare = FALSE /\ loads = 0

-----------------------------------------------------------------------------
(* Who is asking.                                                          *)

\* The headers a request may carry a token in, in the order they are tried.
candidates == <<"X-Auth-Request-Id-Token", "X-Auth-Request-Access-Token", "Authorization">>

\* authenticateHuman: the groups of the first token that verifies; none if none does.
\* A header is absent, or holds a token that Keycloak's keys do not verify (expired,
\* another audience), or one that verifies.
authenticateHuman(headers) ==
  LET good == {i \in DOMAIN candidates : headers[i].held /\ headers[i].verifies}
  IN  IF good = {} THEN {} ELSE headers[Min(good)].groups

\* IsInGroup for the AdminGroup; Keycloak may put a slash before the name.
IsInGroup(groups) == {"cluster-admins", "/cluster-admins"} \cap groups # {}

\* A request gets past the checks of approveHandler and denyHandler.
AdminAsks == \E headers \in Headers : IsInGroup(authenticateHuman(headers))

-----------------------------------------------------------------------------
\* The browser, once the request is decided.
Forget == cookie' = NoCookie /\ tab' = [t \in Tabs |-> NoTab] /\ latest' = {} /\ bare' = FALSE /\ loads' = 0

Sent == IF cookie.value # 0 /\ now < cookie.until THEN cookie.value ELSE 0

Out(t) == tab[t].pc # "closed"
AsksBare(t) == tab[t].pc = "loading" /\ tab[t].token = 0

\* The browser asks for /approve in a tab.  A SameSite=Strict cookie stays at home
\* when another site leads there.
Load(t) ==
  /\ loads < MaxLoads /\ tab[t].pc = "closed" /\ request.phase = "Pending"
  /\ \E sends \in {Sent, 0} :
       /\ tab' = [tab EXCEPT ![t] = [pc |-> "loading", token |-> sends]]
       /\ bare' = (bare \/ \E u \in Tabs : Out(u) /\ (sends = 0 \/ AsksBare(u)))
  /\ loads' = loads + 1
  /\ UNCHANGED <<cookie, latest>>

\* Mutant: the cookie is set only when it is new.
ensureCSRFCookieOnce(sent, value) ==
  IF sent # 0 THEN cookie ELSE [value |-> value, until |-> now + PendingTTL]

\* ensureCSRFCookie sets the cookie again with a full Max-Age, whether reused or new.
ensureCSRFCookie(sent, value) == [value |-> value, until |-> now + PendingTTL]

\* renderApprovePage answers: the form and the cookie agree.  A new token is
\* unlike all others.
Render(t) ==
  /\ http = "serving" /\ tab[t].pc = "loading" /\ AdminAsks
  /\ LET token == IF tab[t].token # 0 THEN tab[t].token
                  ELSE 1 + Max({cookie.value} \cup {tab[u].token : u \in Tabs})
     IN  /\ cookie' = ensureCSRFCookie(tab[t].token, token)
         /\ tab' = [tab EXCEPT ![t] = [pc |-> "form", token |-> token]]
  /\ latest' = {t} /\ UNCHANGED <<bare, loads>>

\* The page does not come: nobody serves, the reviewer is not an admin, the answer
\* is lost.
LoadFails(t) ==
  /\ tab[t].pc = "loading"
  /\ tab' = [tab EXCEPT ![t] = NoTab]
  /\ UNCHANGED <<cookie, latest, bare, loads>>

\* validateCSRF: cookie and form carry the same value.
validateCSRF(t) == Sent # 0 /\ Sent = tab[t].token

\* handleApprovePost or denyHandlerWithClaims, with Approve or Deny of the
\* reconciler; its races are ApprovalFlow's.
Post(t, phase) ==
  /\ http = "serving" /\ tab[t].pc = "form" /\ AdminAsks
  /\ validateCSRF(t) /\ request.phase = "Pending"
  /\ request' = [request EXCEPT !.phase = phase] /\ Forget

ReviewOnly == \E t \in Tabs : Load(t) \/ Render(t) \/ LoadFails(t)

ReviewTypeOK ==
  /\ cookie \in [value: Nat, until: Nat]
  /\ tab \in [Tabs -> [pc: {"closed", "loading", "form"}, token: Nat]]
  /\ latest \subseteq Tabs /\ bare \in BOOLEAN /\ loads \in 0..MaxLoads

\* A form works for as long as there is something to decide: the page that came
\* last is accepted while its request is Pending and within its TTL, and so is
\* every other open form, unless a page was asked for without the cookie while
\* another was open or on its way (ensureCSRFCookie: "keeps multiple concurrently-open review
\* tabs valid").
FormsWork ==
  \A t \in Tabs :
    /\ tab[t].pc = "form" /\ request.phase = "Pending" /\ now < PendingTTL
    /\ t \in latest \/ ~bare
    => validateCSRF(t)
=============================================================================
