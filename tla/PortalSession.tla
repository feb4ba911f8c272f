---------------------------- MODULE PortalSession ----------------------------
(***************************************************************************)
(* The portal's session provider (portal/src/auth/session.tsx) in one tab,  *)
(* against the API, while other tabs of the browser share its cookie.       *)
(*                                                                          *)
(* What the provider awaits is in "requests": a request carries the cookie  *)
(* it was sent with, is served at any time, and its answer is applied at    *)
(* any later time, in any order.  Each application of an answer is one      *)
(* turn of the event loop, with everything the code does synchronously.     *)
(***************************************************************************)
EXTENDS Integers, FiniteSets

CONSTANTS
    Workspaces,
    Unbound,        (* no workspace is selected                            *)
    MaxSessions,    (* sessions ever opened                                *)
    MaxEvents       (* what the customer does, losses, and events elsewhere *)

ASSUME PortalBounds ==
    /\ Unbound \notin Workspaces
    /\ MaxSessions \in Nat \ {0} /\ MaxEvents \in Nat

VARIABLES
    portal,     (* the provider: its refs and its state                    *)
    requests,   (* what it awaits                                          *)
    cookie,     (* the session the browser sends, Nobody if none           *)
    api,        (* the sessions opened, those live, what each is bound to  *)
    happened    (* how much of what MaxEvents bounds; whether a put off     *)
                (* refusal was let go of, and whether a former session's    *)
                (* was believed: history that no step reads                 *)
portalVars == <<portal, requests, cookie, api, happened>>

Sessions == 1..MaxSessions
Nobody == 0

(***************************************************************************)
(* The provider's state.                                                   *)
(***************************************************************************)
NoLease == [generation |-> -1, session |-> Nobody]
LeaseOf(p) == [generation |-> p.generation, session |-> p.session]
Holding(p, lease) == lease = LeaseOf(p)

\* EMPTY.  "of" is the session whose profile is shown, "names" the workspace
\* that profile names, "workspace" the one shown as selected.
Empty == [status |-> "loading", ready |-> FALSE, of |-> Nobody, names |-> Unbound,
          workspace |-> Unbound, loading |-> TRUE, problem |-> FALSE]

Current(p, lease, number) == Holding(p, lease) /\ p.latest = number
InvalidateLoads(p) == [p EXCEPT !.latest = @ + 1, !.inFlight = NoLease]

\* The pending sign-out is disowned by every change of the session (supersede).
Adopt(p, session, keep) ==
    [InvalidateLoads(p) EXCEPT
        !.generation = @ + 1,
        !.session = session,
        !.signingOut = NoLease,
        !.screen = [(IF keep /\ @.status = "authenticated" THEN @ ELSE Empty) EXCEPT
                        !.status = IF session = Nobody THEN "anonymous" ELSE "authenticated",
                        !.ready = TRUE, !.loading = session # Nobody, !.problem = FALSE]]
Forget(p) == Adopt(p, Nobody, FALSE)
Claim(p, session) ==
    [p EXCEPT !.generation = @ + 1, !.session = session, !.signingOut = NoLease]

ClearForRefusal(p, lease) ==
    IF ~Holding(p, lease) THEN p
    ELSE IF p.replacing > 0 THEN [p EXCEPT !.deferred = lease]
    ELSE Forget(p)

\* A load under "lease", unless the latest one under the session held is still
\* in flight: then it is joined.
Load(p, lease) ==
    IF ~Holding(p, lease) \/ Holding(p, p.inFlight) THEN p
    ELSE [p EXCEPT !.latest = @ + 1, !.inFlight = lease,
                   !.screen = [@ EXCEPT !.loading = TRUE, !.problem = FALSE]]
AdoptAndLoad(p, session, keep) ==
    LET adopted == Adopt(p, session, keep) IN Load(adopted, LeaseOf(adopted))

FailLoad(p, under, number, refused) ==
    IF ~Current(p, under, number) THEN p
    ELSE IF refused THEN ClearForRefusal(p, under)
    ELSE IF under.session = Nobody THEN Forget(p)
    ELSE [p EXCEPT !.screen = [@ EXCEPT !.loading = FALSE, !.problem = TRUE]]
Finished(p, number) == IF p.latest = number THEN [p EXCEPT !.inFlight = NoLease] ELSE p

(***************************************************************************)
(* Requests.  "number" is a load's sequence, a gesture's own number, or the *)
(* generation a validity read is shared under; "attempt" and "under" are a  *)
(* load's, "asked" the workspace a request is about.  A "read" is a page's, *)
(* and its lease that of the page that last joined it.  A "refusal" and an  *)
(* "ending" are the two askers of a validity read, waiting for its answer.  *)
(***************************************************************************)
NoAnswer == [is |-> "awaited", session |-> Nobody, workspace |-> Unbound]
Says(verdict) == [NoAnswer EXCEPT !.is = verdict]
Request(kind, lease, number) ==
    [kind |-> kind, lease |-> lease, number |-> number, under |-> lease, attempt |-> 1,
     asked |-> Unbound, cookie |-> cookie', answer |-> NoAnswer]

\* The profile read of the load that "p" has begun and "portal" has not.
Begun(p) ==
    IF p.inFlight = NoLease \/ p.latest = portal.latest THEN {}
    ELSE {Request("profile", p.inFlight, p.latest)}

\* One turn: the provider becomes p, r is settled, "more" is awaited.
Turn(p, r, more) ==
    /\ portal' = p
    /\ requests' = (requests \ {r}) \union Begun(p) \union more

\* checkValidity: asks for the one read there is under this generation.
Asking(kind, lease) ==
    {Request(kind, lease, portal.generation)}
        \union (IF \E r \in requests : r.kind = "check" /\ r.number = portal.generation THEN {}
                ELSE {Request("check", NoLease, portal.generation)})

Happens(what) ==
    /\ happened.gestures + happened.losses + happened.elsewhere < MaxEvents
    /\ happened' = [happened EXCEPT ![what] = @ + 1]

PortalInit ==
    /\ api \in [opened : {1}, live : SUBSET {1},
                   bound : {[s \in Sessions |-> IF s = 1 THEN w ELSE Unbound] :
                                w \in Workspaces \union {Unbound}}]
    /\ cookie \in {Nobody, 1}
    /\ portal = [generation |-> 0, session |-> Nobody, latest |-> 1,
                 inFlight |-> [generation |-> 0, session |-> Nobody], signingOut |-> NoLease,
                 replacing |-> 0, deferred |-> NoLease, screen |-> Empty]
    /\ requests = {[kind |-> "profile", lease |-> LeaseOf(portal), number |-> 1,
                    under |-> LeaseOf(portal), attempt |-> 1, asked |-> Unbound,
                    cookie |-> cookie, answer |-> NoAnswer]}
    /\ happened = [gestures |-> 0, losses |-> 0, elsewhere |-> 0,
                   dropped |-> FALSE, misled |-> FALSE]

(***************************************************************************)
(* The API.  A session is bound or refused with 401; a mutation whose CSRF  *)
(* proof is wrong is refused the same way.                                  *)
(***************************************************************************)
Mutations == {"change", "logout", "select", "mutation"}

AnswerOf(r, verdict) ==
    requests' = (requests \ {r}) \union {[r EXCEPT !.answer = verdict]}
Opens(r, ended) ==
    LET s == api.opened + 1 IN
    /\ s \in Sessions
    /\ api' = [api EXCEPT !.opened = s, !.live = (@ \ ended) \union {s}]
    /\ AnswerOf(r, [Says("ok") EXCEPT !.session = s])

\* The workspaces read and the detail read of a load's pass are one: either's
\* refusal or failure ends the pass, and only the detail says something.
ServeRead(r) ==
    /\ r.cookie \in api.live
    /\ UNCHANGED api
    /\ \/ /\ r.kind \in {"profile", "check"}
          /\ AnswerOf(r, [is |-> "ok", session |-> r.cookie, workspace |-> api.bound[r.cookie]])
       \/ /\ r.kind = "detail"
          /\ AnswerOf(r, [Says("ok") EXCEPT !.workspace =
                            IF r.asked = Unbound THEN Unbound ELSE api.bound[r.cookie]])
       \/ r.kind \in {"read", "mutation"} /\ AnswerOf(r, Says("forbidden"))

ServeLogin(r) ==
    /\ r.kind = "login"
    /\ \/ Opens(r, {})
       \/ UNCHANGED api /\ AnswerOf(r, Says("failed"))

ServeChange(r) ==
    /\ r.kind = "change" /\ r.cookie \in api.live
    /\ \/ \E others \in SUBSET (api.live \ {r.cookie}) : Opens(r, {r.cookie} \union others)
       \/ UNCHANGED api /\ \E verdict \in {"failed", "forbidden"} : AnswerOf(r, Says(verdict))

ServeLogout(r) ==
    /\ r.kind = "logout" /\ r.cookie \in api.live
    /\ api' = [api EXCEPT !.live = @ \ {r.cookie}]
    /\ AnswerOf(r, Says("ok"))

ServeSelect(r) ==
    /\ r.kind = "select" /\ r.cookie \in api.live
    /\ \/ /\ api' = [api EXCEPT !.bound[r.cookie] = r.asked]
          /\ AnswerOf(r, [Says("ok") EXCEPT !.workspace = r.asked])
       \/ UNCHANGED api /\ AnswerOf(r, Says("failed"))

ServeRefusal(r) ==
    /\ r.kind \in Mutations \/ (r.kind # "login" /\ r.cookie \notin api.live)
    /\ UNCHANGED api
    /\ AnswerOf(r, Says("unauthenticated"))

Asker(r) == r.kind \in {"refusal", "ending"}
Serve(r) ==
    /\ r.answer = NoAnswer /\ ~Asker(r)
    /\ \/ ServeRead(r) \/ ServeLogin(r) \/ ServeChange(r) \/ ServeLogout(r)
       \/ ServeSelect(r) \/ ServeRefusal(r)
    /\ UNCHANGED <<portal, cookie, happened>>

\* A sign-out that is no longer the pending one has been aborted.
Pending(lease) == portal.signingOut = lease /\ Holding(portal, lease)

SetCookie(r) ==
    IF r.answer.is # "ok" THEN cookie
    ELSE IF r.kind \in {"login", "change"} THEN r.answer.session
    ELSE IF r.kind = "logout" /\ Pending(r.lease) THEN Nobody
    ELSE cookie

\* The request or its answer is lost; of an answer, the headers may have arrived.
Lose(r) ==
    /\ r.answer.is # "lost" /\ ~Asker(r)
    /\ Happens("losses")
    /\ AnswerOf(r, Says("lost"))
    /\ cookie' \in {cookie, SetCookie(r)}
    /\ UNCHANGED <<portal, api>>

(***************************************************************************)
(* A load: the profile, then the workspaces and the binding.               *)
(***************************************************************************)
LoadFailed(r) ==
    Turn(Finished(FailLoad(portal, r.under, r.number, r.answer.is = "unauthenticated"), r.number),
         r, {})

DetailOf(r, lease) ==
    {[Request("detail", lease, r.number) EXCEPT
        !.under = r.under, !.attempt = r.attempt, !.asked = r.answer.workspace]}

\* A load that began under no session claims the one it finds, and goes on; one
\* that finds another than its own adopts it, which begins another load.  A
\* failure is later looked up under the lease the pass began with.
Identify(r) ==
    LET found == r.answer.session IN
    IF found = r.lease.session THEN Turn(portal, r, DetailOf(r, r.lease))
    ELSE IF r.lease.session = Nobody
    THEN LET claimed == Claim(portal, found)
         IN  Turn(claimed, r, DetailOf(r, LeaseOf(claimed)))
    ELSE Turn(AdoptAndLoad(portal, found, FALSE), r, {})

ProfileAnswered(r) ==
    /\ r.kind = "profile"
    /\ IF r.answer.is # "ok" THEN LoadFailed(r)
       ELSE IF ~Current(portal, r.lease, r.number) THEN Turn(Finished(portal, r.number), r, {})
       ELSE Identify(r)

Publish(p, r) ==
    [p EXCEPT !.screen = [status |-> "authenticated", ready |-> TRUE, of |-> r.lease.session,
                          names |-> r.asked, workspace |-> r.answer.workspace,
                          loading |-> FALSE, problem |-> FALSE]]
Coherent(r) == r.answer.workspace \in {Unbound, r.asked}

DetailAnswered(r) ==
    /\ r.kind = "detail"
    /\ IF r.answer.is # "ok" THEN LoadFailed(r)
       ELSE IF ~Current(portal, r.lease, r.number) THEN Turn(Finished(portal, r.number), r, {})
       ELSE IF Coherent(r) THEN Turn(Finished(Publish(portal, r), r.number), r, {})
       ELSE IF r.attempt = 1
       THEN Turn(portal, r, {[Request("profile", r.lease, r.number) EXCEPT !.attempt = 2]})
       ELSE Turn(Finished(FailLoad(portal, r.lease, r.number, FALSE), r.number), r, {})

(***************************************************************************)
(* A refusal is reconciled: believed, deferred, or put to a validity read. *)
(***************************************************************************)
CheckAnswered(r) ==
    /\ r.kind = "check"
    /\ portal' = portal
    /\ requests' = {IF Asker(a) /\ a.number = r.number /\ a.answer = NoAnswer
                    THEN [a EXCEPT !.answer = r.answer] ELSE a : a \in requests \ {r}}

RefusalSettled(r) ==
    /\ r.kind = "refusal"
    /\ LET another == r.answer.is = "ok" /\ r.answer.session # r.lease.session
       IN  IF r.answer.is = "unauthenticated" THEN Turn(ClearForRefusal(portal, r.lease), r, {})
           ELSE IF Holding(portal, r.lease) /\ another
           THEN Turn(AdoptAndLoad(portal, r.answer.session, TRUE), r, {})
           ELSE Turn(portal, r, {})

Ambiguous(p, r, lease) ==
    Turn(p, r, IF Holding(p, lease) THEN Asking("refusal", lease) ELSE {})

\* Faulty variant: a mutation's 401 is believed as a read's is.
PageBelieved(r) ==
    /\ r.kind \in {"read", "mutation"}
    /\ \/ Turn(portal, r, {})
       \/ r.answer.is = "forbidden" /\ Turn(Load(portal, r.lease), r, {})
       \/ r.answer.is = "unauthenticated" /\ Turn(ClearForRefusal(portal, r.lease), r, {})

\* A page may have been left by then: its refusal is then nobody's.  A read's is
\* settled under the lease of the page that asks now (JoinRead), whichever
\* session the read was sent for.
PageAnswered(r) ==
    /\ r.kind \in {"read", "mutation"}
    /\ \/ Turn(portal, r, {})
       \/ r.answer.is = "forbidden" /\ Turn(Load(portal, r.lease), r, {})
       \/ r.answer.is = "unauthenticated" /\ r.kind = "read"
            /\ Turn(ClearForRefusal(portal, r.lease), r, {})
       \/ r.answer.is = "unauthenticated" /\ r.kind = "mutation" /\ Ambiguous(portal, r, r.lease)

(***************************************************************************)
(* A replacement: a login, or a change of password.  One that fails        *)
(* settles the refusal deferred meanwhile; then the page, unless it was     *)
(* left, reconciles its own.                                               *)
(***************************************************************************)
Unawaited == [portal EXCEPT !.replacing = @ - 1, !.deferred = NoLease]

ReplacementFailed(r) ==
    LET postponed == IF Unawaited.replacing = 0 /\ Holding(Unawaited, portal.deferred)
                     THEN Asking("refusal", portal.deferred) ELSE {}
        itsOwn == r.kind = "change" /\ Holding(Unawaited, r.lease)
    IN  \/ Turn(Unawaited, r, postponed)
        \/ itsOwn /\ r.answer.is = "unauthenticated"
             /\ Turn(Unawaited, r, postponed \union Asking("refusal", r.lease))
        \/ itsOwn /\ r.answer.is = "forbidden" /\ Turn(Load(Unawaited, r.lease), r, postponed)

Replaced(r) ==
    /\ r.kind \in {"login", "change"}
    /\ IF r.answer.is = "ok"
       THEN Turn(AdoptAndLoad(Unawaited, r.answer.session, TRUE), r, {})
       ELSE ReplacementFailed(r)

\* A refusal was put off, and the replacement that fails is not the last awaited:
\* the refusal is forgotten, and no read decides.
Drops(r) ==
    /\ r.kind \in {"login", "change"} /\ r.answer.is # "ok"
    /\ portal.replacing > 1 /\ Holding(portal, portal.deferred)

(***************************************************************************)
(* Signing out, and selecting a workspace.                                 *)
(***************************************************************************)
Concluded == [portal EXCEPT !.signingOut = NoLease]

LogoutAnswered(r) ==
    /\ r.kind = "logout"
    /\ IF ~Pending(r.lease) THEN Turn(portal, r, {})
       ELSE IF r.answer.is = "ok" THEN Turn(Forget(Concluded), r, {})
       ELSE Turn(portal, r, Asking("ending", r.lease))

EndingSettled(r) ==
    /\ r.kind = "ending"
    /\ Turn(IF ~Pending(r.lease) THEN portal
            ELSE IF r.answer.is = "unauthenticated" THEN Forget(Concluded) ELSE Concluded, r, {})

\* Faulty variant: a load that read the binding before may still publish it.
SwitchedLeavingLoads(p, r) ==
    [p EXCEPT !.screen = [@ EXCEPT !.workspace = r.answer.workspace, !.problem = FALSE]]

\* What the mutation answered is shown at once; loads in flight describe the
\* binding before it.
Switched(p, r) ==
    [InvalidateLoads(p) EXCEPT !.screen =
        [@ EXCEPT !.workspace = r.answer.workspace, !.problem = FALSE,
                  !.names = IF p.screen.of = Nobody THEN p.screen.names ELSE r.answer.workspace]]

SelectAnswered(r) ==
    /\ r.kind = "select"
    /\ IF ~Holding(portal, r.lease) THEN Turn(portal, r, {})
       ELSE IF r.answer.is = "ok" THEN Turn(Load(Switched(portal, r), r.lease), r, {})
       ELSE \/ Turn(portal, r, {})
            \/ r.answer.is = "unauthenticated" /\ Ambiguous(portal, r, r.lease)
            \/ r.answer.is # "unauthenticated" /\ Turn(Load(portal, r.lease), r, {})

\* A page's read was sent for another session than the page's own: its refusal is
\* taken for one of the session held, and may be believed.
Stranger(r) == r.kind = "read" /\ r.cookie # r.lease.session
Deceives(r) == Stranger(r) /\ r.answer.is = "unauthenticated" /\ Holding(portal, r.lease)
Misleads(r) == Deceives(r) /\ portal.session # Nobody /\ portal'.session = Nobody

Apply(r) ==
    /\ r.answer # NoAnswer
    /\ cookie' = SetCookie(r)
    /\ \/ ProfileAnswered(r) \/ DetailAnswered(r) \/ CheckAnswered(r) \/ RefusalSettled(r)
       \/ PageAnswered(r) \/ Replaced(r) \/ LogoutAnswered(r) \/ EndingSettled(r)
       \/ SelectAnswered(r)
    /\ api' = api
    /\ happened' = [happened EXCEPT !.dropped = @ \/ Drops(r), !.misled = @ \/ Misleads(r)]

(***************************************************************************)
(* The customer in this tab.  A page is mounted when an account is shown.  *)
(***************************************************************************)
Mounted == portal.screen.status = "authenticated" /\ portal.screen.of # Nobody

Gesture(p, more) ==
    /\ Happens("gestures")
    /\ UNCHANGED <<cookie, api>>
    /\ portal' = p
    /\ requests' = requests \union Begun(p) \union more
Sent(kind) == Request(kind, LeaseOf(portal), happened.gestures)

SignIn ==
    /\ portal.screen.ready /\ portal.screen.status = "anonymous"
    /\ Gesture([portal EXCEPT !.replacing = @ + 1], {Sent("login")})
ChangePassword ==
    /\ Mounted
    /\ Gesture([portal EXCEPT !.replacing = @ + 1], {Sent("change")})
SignOut ==
    /\ Mounted /\ portal.signingOut = NoLease
    /\ Gesture([portal EXCEPT !.signingOut = LeaseOf(portal)], {Sent("logout")})
SelectWorkspace(w) ==
    /\ Mounted /\ w # portal.screen.workspace
    /\ Gesture(portal, {[Sent("select") EXCEPT !.asked = w]})
UsePage(kind) == Mounted /\ Gesture(portal, {Sent(kind)})

\* A page that mounts joins the read of its key that is still in flight, whatever
\* session it was sent for (reads.run): the ticket is taken now.  The page that
\* asked before has a former lease, and is deaf to the answer.
JoinRead(r) ==
    /\ Mounted /\ r.kind = "read" /\ ~Holding(portal, r.lease)
    /\ requests' = (requests \ {r})
                    \union {[r EXCEPT !.lease = LeaseOf(portal), !.under = LeaseOf(portal)]}
    /\ UNCHANGED <<portal, cookie, api, happened>>
RetryLoad ==
    /\ portal.screen.problem
    /\ Gesture(Load(portal, LeaseOf(portal)), {})

(***************************************************************************)
(* Elsewhere: another tab of this browser, another device, an operator.    *)
(***************************************************************************)
Elsewhere(after, sent) ==
    /\ Happens("elsewhere")
    /\ api' = after /\ cookie' = sent
    /\ UNCHANGED <<portal, requests>>

AnotherTabSignsIn ==
    /\ api.opened < MaxSessions
    /\ LET s == api.opened + 1
       IN  Elsewhere([api EXCEPT !.opened = s, !.live = @ \union {s}], s)
AnotherTabSignsOut ==
    /\ cookie \in api.live
    /\ Elsewhere([api EXCEPT !.live = @ \ {cookie}], Nobody)
SessionEnds(s) == s \in api.live /\ Elsewhere([api EXCEPT !.live = @ \ {s}], cookie)
BindingMoves(s, w) == s \in api.live /\ Elsewhere([api EXCEPT !.bound[s] = w], cookie)

PortalNext ==
    \/ \E r \in requests : Serve(r) \/ Lose(r) \/ Apply(r) \/ JoinRead(r)
    \/ SignIn \/ ChangePassword \/ SignOut \/ RetryLoad
    \/ \E w \in Workspaces : SelectWorkspace(w)
    \/ \E kind \in {"read", "mutation"} : UsePage(kind)
    \/ AnotherTabSignsIn \/ AnotherTabSignsOut
    \/ \E s \in Sessions : SessionEnds(s)
    \/ \E s \in Sessions, w \in Workspaces \union {Unbound} : BindingMoves(s, w)
PortalSpec == PortalInit /\ [][PortalNext]_portalVars

(***************************************************************************)
(* Properties.                                                             *)
(***************************************************************************)
PortalTypeOK ==
    /\ portal.session \in Sessions \union {Nobody} /\ portal.generation \in Nat
    /\ portal.latest \in Nat /\ portal.replacing \in 0..MaxEvents
    /\ portal.screen.status \in {"loading", "anonymous", "authenticated"}
    /\ api.live \subseteq 1..api.opened
    /\ cookie \in Sessions \union {Nobody}

\* A session that is live and that the browser sends is forgotten by nothing that
\* refuses it, answers late or is lost, but by the refusal of a read that a page
\* joined and that another session's page had sent (clearForRefusal, conclude,
\* reads.run).
Forgets == /\ portal.session \in api.live /\ portal.session = cookie
           /\ portal'.session = Nobody
LiveSessionIsKept ==
    [][Forgets => \E r \in requests \ requests' : Deceives(r)]_portalVars

\* What adopt's comment says (session.tsx): there is no old answer that could still
\* be applied, every one of them fails its lease; so nothing forgets such a session.
NoOldAnswerIsApplied == [][~Forgets]_portalVars

\* What is shown as read is the account of the session held, with the workspace
\* its own profile names: never a former session's account, or another
\* workspace's role (adopt, identify, readOnce).
ShownAsRead(s) == s.status = "authenticated" /\ ~s.loading /\ ~s.problem
ShowsOneSession ==
    LET s == portal.screen IN
    ShownAsRead(s) => s.of = portal.session /\ s.workspace \in {Unbound, s.names}

\* When nothing is awaited any more, nothing is loading, signing out or put off.
Settled == /\ ~portal.screen.loading
           /\ portal.signingOut = NoLease /\ portal.deferred = NoLease

\* The screen says who the browser is signed in as, and where.
TellsTheServers ==
    LET s == portal.screen IN
    /\ s.ready /\ ~s.problem
    /\ s.of = portal.session
    /\ s.of = (IF cookie \in api.live THEN cookie ELSE Nobody)
    /\ s.workspace = (IF s.of = Nobody THEN Unbound ELSE api.bound[s.of])

\* The screen is one session's at any time.  When every answer has been applied,
\* in whatever order, it settles, and tells what the server knows, unless an
\* answer was lost, something happened elsewhere that it may not have heard of, a
\* refusal put off for a replacement was forgotten with that replacement, or a
\* former session's was believed.
Undisturbed == /\ happened.losses = 0 /\ happened.elsewhere = 0
               /\ ~happened.dropped /\ ~happened.misled
ScreenTellsTheTruth ==
    /\ ShowsOneSession
    /\ requests = {} /\ Undisturbed => Settled /\ TellsTheServers

\* "ready" is true once the first read has settled, so that the portal shows a
\* page or the sign-in form (session.tsx, SessionState).
FirstReadSettles == requests = {} => portal.screen.ready
==============================================================================
