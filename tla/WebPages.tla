------------------------------- MODULE WebPages -------------------------------
(***************************************************************************)
(* The pages of frontend/web that talk to the API, three machines of their *)
(* own: registration (RegisterPage, PackageSelector, RegistrationForm),    *)
(* SubscriptionDashboard and AdminDashboard.  A request is answered by the *)
(* server in one step and its answer reaches the page in another; answers  *)
(* may be lost.  Effects run once, as in a production build.               *)
(***************************************************************************)
EXTENDS Integers, FiniteSets

CONSTANTS
  Plans,         \* package types, with a first one that is selected initially
  FreePlan,
  NoPlan,
  MaxSubmits,    \* bound: registration requests
  Handlers,      \* handlers of the subscription page that may be under way
  MaxChanges,    \* bound: upgrades and cancellations
  Ranges, FirstRange,  \* time ranges of the admin dashboard
  MaxPolls       \* bound: requests of the admin dashboard

ASSUME PagesAssumptions ==
  /\ FreePlan \in Plans /\ NoPlan \notin Plans /\ FirstRange \in Ranges /\ Handlers # {}
  /\ MaxSubmits \in Nat /\ MaxChanges \in Nat /\ MaxPolls \in Nat

VARIABLES
  signup,     \* RegisterPage: its step, plan, loading and error
  offered,    \* PackageSelector, while it is mounted: "loading", "shown", "empty"
  form,       \* RegistrationForm, while it is mounted: valid input and its own plan
  register,   \* the request under way: the plan it names and how far it is
  accounts,   \* the server's accounts for the address, by plan
  userStored, \* localStorage: the plan of the user, or NoPlan
  submits

signupVars == <<signup, offered, form, register, accounts, userStored, submits>>

NewForm == [valid |-> FALSE, plan |-> FreePlan]
NoRegister == [stage |-> "none", plan |-> NoPlan, chosen |-> NoPlan]

SignupInit ==
  /\ signup = [step |-> "package", plan |-> FreePlan, loading |-> FALSE, error |-> FALSE]
  /\ offered = "loading" /\ form = NewForm /\ register = NoRegister
  /\ accounts = {} /\ userStored = NoPlan /\ submits = 0

\* fetchPackages of a mounted selector; an error leaves it without a package
PackagesFetched(ok) ==
  /\ signup.step = "package" /\ offered = "loading"
  /\ offered' = IF ok THEN "shown" ELSE "empty"
  /\ UNCHANGED <<signup, form, register, accounts, userStored, submits>>

\* a card's button, handlePackageSelect
SelectPackage(p) ==
  /\ signup.step = "package" /\ offered = "shown"
  /\ signup' = [signup EXCEPT !.plan = p]
  /\ UNCHANGED <<offered, form, register, accounts, userStored, submits>>

\* handleNext mounts a new, empty form; handleBack mounts a new selector, even while loading
HandleNext ==
  /\ signup.step = "package" /\ signup' = [signup EXCEPT !.step = "form"] /\ form' = NewForm
  /\ UNCHANGED <<offered, register, accounts, userStored, submits>>
HandleBack ==
  /\ signup.step = "form" /\ signup' = [signup EXCEPT !.step = "package"] /\ offered' = "loading"
  /\ UNCHANGED <<form, register, accounts, userStored, submits>>

\* the inputs and radio buttons of the form: handleInputChange
FillForm ==
  /\ signup.step = "form" /\ ~form.valid /\ form' = [form EXCEPT !.valid = TRUE]
  /\ UNCHANGED <<signup, offered, register, accounts, userStored, submits>>
ChooseInForm(p) ==
  /\ signup.step = "form" /\ form' = [form EXCEPT !.plan = p]
  /\ UNCHANGED <<signup, offered, register, accounts, userStored, submits>>

\* Seeded fault: the plan is the form's own.
BodyPlan_OfForm == form.plan

\* registrationData: package_type is the page's plan; the form's own choice stays beside it
BodyPlan == signup.plan

\* handleSubmit with a valid form, and the button is disabled while loading
HandleRegister ==
  /\ signup.step = "form" /\ form.valid /\ ~signup.loading /\ submits < MaxSubmits
  /\ signup' = [signup EXCEPT !.loading = TRUE, !.error = FALSE]
  /\ register' = [stage |-> "sent", plan |-> BodyPlan, chosen |-> signup.plan]
  /\ submits' = submits + 1
  /\ UNCHANGED <<offered, form, accounts, userStored>>

\* the API: one account per address
ServeRegister ==
  /\ register.stage = "sent"
  /\ IF accounts = {} THEN accounts' = {register.plan} /\ register' = [register EXCEPT !.stage = "created"]
     ELSE register' = [register EXCEPT !.stage = "refused"] /\ UNCHANGED accounts
  /\ UNCHANGED <<signup, offered, form, userStored, submits>>

\* the answer of a created account: the token and the user are stored, and the page is left
RegisterSucceeds ==
  /\ register.stage = "created"
  /\ userStored' = register.plan /\ register' = NoRegister
  /\ signup' = [signup EXCEPT !.step = "left", !.loading = FALSE]
  /\ UNCHANGED <<offered, form, accounts, submits>>

\* an error answer, or no answer whatever the server did
RegisterFails ==
  /\ register.stage # "none"
  /\ signup' = [signup EXCEPT !.loading = FALSE, !.error = TRUE] /\ register' = NoRegister
  /\ UNCHANGED <<offered, form, accounts, userStored, submits>>

SignupNext ==
  \/ \E ok \in BOOLEAN : PackagesFetched(ok)
  \/ \E p \in Plans : SelectPackage(p) \/ ChooseInForm(p)
  \/ HandleNext \/ HandleBack \/ FillForm
  \/ HandleRegister \/ ServeRegister \/ RegisterSucceeds \/ RegisterFails

-----------------------------------------------------------------------------
VARIABLES
  held,        \* the server's subscription, as a version
  shownSub,    \* the subscription on the page: a version, 0 for none
  subPage,     \* loading, error, and whether the page was left for the payment page
  handler,     \* what each handler waits for, and the version its answer carries
  overlapped    \* history: handlers overlapped, or a refresh had no subscription

subVars == <<held, shownSub, subPage, handler, overlapped>>

Idling == [at |-> "idle", seen |-> 0]
\* the first effect has called fetchSubscriptionData
SubInit ==
  /\ held = 1 /\ shownSub = 0 /\ overlapped = FALSE
  /\ subPage = [loading |-> TRUE, error |-> FALSE, left |-> FALSE]
  /\ LET first == CHOOSE h \in Handlers : TRUE IN
     handler = [h \in Handlers |-> IF h = first THEN [at |-> "subscription", seen |-> 0] ELSE Idling]

SubBusy(h) == handler[h].at # "idle"
Refreshing(h) == handler[h].at \in {"subscription", "usage", "packages"}

\* Seeded fault: loading is reset only when every request was answered.
Settled_NotOnError(p, failed) == [p EXCEPT !.loading = failed, !.error = @ \/ failed]

\* finally: setLoading(false), whatever other handlers do; nothing resets an error
Settled(p, failed) == [p EXCEPT !.loading = FALSE, !.error = @ \/ failed]

\* handleUpgrade and handleCancel: the buttons are there while nothing loads or failed
ChangeSubscription(h) ==
  /\ ~subPage.loading /\ ~subPage.error /\ ~subPage.left /\ shownSub # 0
  /\ held <= MaxChanges /\ ~SubBusy(h)
  /\ handler' = [handler EXCEPT ![h] = [at |-> "change", seen |-> 0]]
  /\ overlapped' = (overlapped \/ \E k \in Handlers : SubBusy(k))
  /\ UNCHANGED <<held, shownSub, subPage>>

\* the server makes the change and says so, asks for a payment, or refuses
ChangeAnswered(h, answer) ==
  /\ handler[h].at = "change"
  /\ held' = IF answer \in {"changed", "lost"} THEN held + 1 ELSE held
  /\ CASE answer = "changed" ->
            /\ handler' = [handler EXCEPT ![h].at = "subscription"]
            /\ subPage' = [subPage EXCEPT !.loading = TRUE]
       [] answer = "payment" ->
            handler' = [handler EXCEPT ![h] = Idling] /\ subPage' = [subPage EXCEPT !.left = TRUE]
       [] OTHER ->
            handler' = [handler EXCEPT ![h] = Idling] /\ subPage' = [subPage EXCEPT !.error = TRUE]
  /\ UNCHANGED <<shownSub, overlapped>>

\* GET /api/subscription at the server, and at the page
ServeSubscription(h) ==
  /\ handler[h].at = "subscription" /\ handler[h].seen = 0
  /\ handler' = [handler EXCEPT ![h].seen = held]
  /\ UNCHANGED <<held, shownSub, subPage, overlapped>>
ShowSubscription(h, ok) ==
  /\ handler[h].at = "subscription" /\ handler[h].seen # 0
  /\ handler' = [handler EXCEPT ![h] = [at |-> "usage", seen |-> 0]]
  /\ shownSub' = IF ok THEN handler[h].seen ELSE shownSub
  /\ overlapped' = (overlapped \/ ~ok)
  /\ UNCHANGED <<held, subPage>>

\* GET /api/usage and GET /api/packages; a response that is not ok is passed over
GoOnRefreshing(h) ==
  /\ handler[h].at \in {"usage", "packages"}
  /\ IF handler[h].at = "usage"
       THEN handler' = [handler EXCEPT ![h].at = "packages"] /\ UNCHANGED subPage
       ELSE handler' = [handler EXCEPT ![h] = Idling] /\ subPage' = Settled(subPage, FALSE)
  /\ UNCHANGED <<held, shownSub, overlapped>>

\* an exception of any of the three
RefreshFails(h) ==
  /\ Refreshing(h)
  /\ handler' = [handler EXCEPT ![h] = Idling] /\ subPage' = Settled(subPage, TRUE)
  /\ UNCHANGED <<held, shownSub, overlapped>>

SubNext ==
  \E h \in Handlers :
    \/ ChangeSubscription(h) \/ ServeSubscription(h) \/ GoOnRefreshing(h) \/ RefreshFails(h)
    \/ \E a \in {"changed", "payment", "refused", "lost"} : ChangeAnswered(h, a)
    \/ \E ok \in BOOLEAN : ShowSubscription(h, ok)

-----------------------------------------------------------------------------
VARIABLES
  admin,      \* timeRange, isLoading, the range metrics are of, and whether the last fetch failed
  dashboard,  \* the ranges of the dashboard requests under way
  polls,      \* realtime requests under way: their number and the reading they got, 0 for none yet
  reading,    \* the server's realtime metrics, as a counter
  realtime,   \* the reading on the page, the newest one delivered, and whether requests overlapped
  polled

adminVars == <<admin, dashboard, polls, reading, realtime, polled>>

\* the first effect has called both fetches and started the interval
AdminInit ==
  /\ admin = [range |-> FirstRange, loading |-> TRUE, metrics |-> "none", failed |-> FALSE]
  /\ dashboard = {FirstRange} /\ polls = {[id |-> 0, seen |-> 0]} /\ reading = 1
  /\ realtime = [shown |-> 0, newest |-> 0, overlapped |-> FALSE] /\ polled = 1

\* fetchRealtimeMetrics, up to its await
Poll ==
  /\ polls' = polls \cup {[id |-> polled, seen |-> 0]} /\ polled' = polled + 1
  /\ realtime' = [realtime EXCEPT !.overlapped = @ \/ polls # {}]

\* Seeded fault: the select stays on the page while the metrics are loaded.
CanChange_Always == TRUE

\* the spinner replaces the whole page, its select and its Refresh button
CanChange == ~admin.loading

\* setTimeRange: the effect's cleanup stops the interval, and the effect runs again
ChangeRange(r) ==
  /\ CanChange /\ r # admin.range /\ polled < MaxPolls
  /\ admin' = [admin EXCEPT !.range = r, !.loading = TRUE] /\ dashboard' = dashboard \cup {r}
  /\ Poll /\ UNCHANGED reading

\* the Refresh button: only the dashboard's metrics
RefreshDashboard ==
  /\ CanChange /\ admin' = [admin EXCEPT !.loading = TRUE]
  /\ dashboard' = dashboard \cup {admin.range}
  /\ UNCHANGED <<polls, reading, realtime, polled>>

\* the interval
IntervalFires == polled < MaxPolls /\ Poll /\ UNCHANGED <<admin, dashboard, reading>>

\* the answer of the dashboard request; an error is only logged
DashboardAnswered(r, ok) ==
  /\ r \in dashboard /\ dashboard' = dashboard \ {r}
  /\ admin' = [admin EXCEPT !.loading = FALSE, !.metrics = IF ok THEN r ELSE @, !.failed = ~ok]
  /\ UNCHANGED <<polls, reading, realtime, polled>>

ServePoll(q) ==
  /\ q.seen = 0 /\ polls' = (polls \ {q}) \cup {[q EXCEPT !.seen = reading]}
  /\ reading' = reading + 1
  /\ UNCHANGED <<admin, dashboard, realtime, polled>>

\* answers reach the page in any order; an error is only logged
ShowPoll(q, ok) ==
  /\ q.seen # 0 /\ polls' = polls \ {q}
  /\ realtime' = IF ok THEN [realtime EXCEPT !.shown = q.seen,
                               !.newest = IF q.seen > @ THEN q.seen ELSE @]
                 ELSE realtime
  /\ UNCHANGED <<admin, dashboard, reading, polled>>

AdminNext ==
  \/ \E r \in Ranges : ChangeRange(r)
  \/ RefreshDashboard \/ IntervalFires
  \/ \E r \in Ranges, ok \in BOOLEAN : DashboardAnswered(r, ok)
  \/ \E q \in polls : ServePoll(q) \/ \E ok \in BOOLEAN : ShowPoll(q, ok)

-----------------------------------------------------------------------------
(* The account that registration creates, and the user it stores, have the plan that was
   selected on the first step when the form was sent, whatever is selected while the
   answer is under way, whatever was chosen in the form and however often an answer was
   lost and the form sent again; the button is disabled exactly while a request is under way. *)
RegisteredAsSelected ==
  /\ register.plan = register.chosen
  /\ signup.loading <=> register.stage # "none"
  /\ Cardinality(accounts) <= 1
  /\ userStored # NoPlan => accounts = {userStored} /\ signup.step = "left"

(* The subscription page shows its spinner only while a refresh is under way; and when all
   is quiet it shows the server's subscription, unless two handlers overlapped, a
   refresh had no subscription or a request failed. *)
SubscriptionIsCurrent ==
  /\ subPage.loading => \E h \in Handlers : Refreshing(h)
  /\ ((\A h \in Handlers : ~SubBusy(h)) /\ ~overlapped /\ ~subPage.error /\ ~subPage.left)
       => shownSub = held

(* Since the spinner takes the select and the button away, the dashboard's metrics are of
   the selected range whenever they are on the page, unless the last request failed;
   the realtime figures are the newest delivered ones unless two requests overlapped. *)
DashboardShowsRange ==
  /\ dashboard = IF admin.loading THEN {admin.range} ELSE {}
  /\ (~admin.loading /\ ~admin.failed) => admin.metrics = admin.range
  /\ ~realtime.overlapped => realtime.shown = realtime.newest
=============================================================================
