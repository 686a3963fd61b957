# Verification of the Passport-Pro console clients

This directory holds TLA+ models of the parts of the Passport-Pro web consoles
(`src/Passport-Pro/js`) that have state and concurrency. It also holds TLC
configurations that model-check them on small instances, and TLAPS proofs of
their main invariants for every instance.

## 1. The system

The consoles are single-page React applications. They talk to a realm-scoped
REST API with bearer tokens. These are the parts that matter here:

| part | source | what it does |
|------|--------|--------------|
| Passport provider | `libs/ui-shared/src/context/PassportContext.tsx` | Creates the keycloak-js adapter (`passport`) and sets `onAuthLogout` to `passport.login()` (57). Runs `passport.init({onLoad: "login-required"})` once (62-81). |
| Token provider | `apps/admin-ui/src/admin-client.ts` 29-37, `apps/account-ui/src/api/request.ts` 65-74 | `getAccessToken`: `try { await passport.updateToken(5) } catch { await passport.login() } return passport.token`. Both consoles use the same code. |
| Request dispatcher (account console) | `apps/account-ui/src/api/request.ts` 18-63 | Sets the query parameters, serialises the body, and builds the header `authorization: Bearer ${await getAccessToken()}`. |
| Agency pages (admin console) | `apps/admin-ui/src/agency/*.tsx` | The dashboard, the principals list, the principal detail page and the create form. Each handler calls `adminClient.getAccessToken()` and then `fetch` with `Bearer ${token}`. |
| Agency routes | `apps/admin-ui/src/agency/routes.tsx` | Path templates of the agency pages and their `to...` path builders. |
| Error renderer | `apps/admin-ui/src/components/error/ErrorRenderer.tsx` | The error boundary's page. It offers "sign out" for a 403 `NetworkError` and "reload" for anything else. |
| Role-mapping queries | `apps/admin-ui/src/components/role-mapping/resource.ts` | Builds the `first`/`max`/`search` query of the ui-ext endpoints. |
| Resource descriptors | `libs/passport-admin-client/src/resources/whoAmI.ts` | One descriptor of the generic resource client. The generic core (`resource.ts`, `agent.ts`) is not in this repository. |
| Presentation | `PassportCard`, `MoveDialog`, `Organizations`, `Header`, `PassportDropdown`, `AddOpenIdConnect`, `help-urls`, `defs/*` | Rendering, forms and type declarations. |
| Server scripts | `services/.../authenticator-template.js`, `testsuite/.../auth-session.js` | Server-side JavaScript authenticator examples. |

How they interact:
- Every page handler runs `getAccessToken`, and all of them share one keycloak-js adapter.
- The adapter keeps one token, one refresh queue (concurrent `updateToken` calls join the refresh in flight) and the SSO session.
- A failed refresh (400) makes keycloak-js call `clearToken`. That fires `onAuthLogout`, which is `passport.login()`, and under login-required it also calls the adapter's own `login()`. Each rejected `updateToken` also reaches the catch block's `passport.login()`. With the default adapter, `login()` navigates away and never settles.
- The browser runs one task at a time. The continuation of an awaited promise is a microtask, and all pending microtasks run before the next event (a click, an XHR completion, a timer).
- Page state is React state. A handler closes over the values of the render it was created in.

### What is hard to test here

These hazards are listed in `PROJECT.json` with their lines:
- concurrent `getAccessToken` calls during a refresh;
- the token read after the await;
- the two logins every `clearToken` starts, and one more from each caller whose refresh then fails;
- "Bearer undefined", which only the never-settling `login()` rules out;
- the stale list in `handleDelete`;
- lost responses;
- out-of-order PUTs on the dashboard;
- the detail page's route parameter;
- React's second run of the mount effects in a development build, and start-up that must end;
- the 403 classification;
- a create form that could stay locked;
- a realm switch while a delete is in flight;
- a create form left with Cancel whose POST succeeds later.

## 2. Modules

| module | models | status |
|--------|--------|--------|
| `TokenProvider` | `getAccessToken` with keycloak-js as its environment; `onAuthLogout` | done |
| `TokenProviderProofs` | TLAPS proofs about `TokenProvider`, including its refinement of `TokenService` | done |
| `TokenService` | what `getAccessToken` promises, with each call atomic: the abstract specification `TokenProvider` implements | done |
| `BootstrapProofs` | TLAPS proof about `Bootstrap` | done |
| `PrincipalsListProofs` | TLAPS proof of `NoHiddenPrincipal` for `PrincipalsList` | done |
| `AgencyNavigationProofs` | TLAPS proof that every link of `AgencyNavigation` opens the page it names | done |
| `PrincipalPagesProofs` | TLAPS proof of `LinkOpensItsPage` for `PrincipalPages` | done |
| `PrincipalsList` | `PrincipalsList.tsx`: the load, `handleDelete`, the server's handling of requests and a realm switch; EXTENDS `TokenProvider` | done |
| `AgencyDashboard` | `AgencyDashboard.tsx`: the config load and the agency switch's `toggleAgency`; EXTENDS `TokenProvider` | done |
| `Bootstrap` | start-up: `PassportProvider`'s mount effect and render (PassportContext.tsx 42-98), `App`'s mount effect and spinner (App.tsx 48-100), under React's double effect run in development; EXTENDS `TokenProvider` | done |
| `AgencyRoutes` | the route table of `routes.tsx` and the router's ranked matching and `useParams` | done (definitions only) |
| `AgencyNavigation` | the links each agency page renders: the dashboard, the list and its rows, the form's Cancel; the detail page's `useParams` | done (definitions only) |
| `PrincipalPages` | navigation between the agency pages through `location` and the router; `CreatePrincipal.tsx`; the detail page's load in `PrincipalDetail.tsx`; EXTENDS `TokenProvider` and `AgencyNavigation` | done; the detail page's suspend, activate and delete are not modelled (unreachable, see the findings) |
| `ErrorBoundary` | which link `ErrorRenderer` offers for each loader's failure | done |
| `MCTokenProvider`, `MCPrincipalsList`, `MCAgencyDashboard`, `MCPrincipalPages`, `MCBootstrap` | model values and bounds for TLC | done |

The page modules extend `TokenProvider`: every request a page sends carries the
token its own `getAccessToken` call returned.

### TokenProvider

State:
- the adapter: `token`, a generation number where `NoToken` = 0 is the undefined token left by `clearToken`; `fresh`, meaning valid for more than 5 s; `refreshing`; `sessionAlive`;
- `logins`, the number of interactive logins started;
- `unloaded`, meaning a login redirect replaced the page;
- one record per caller: its phase `pc`, the token it asked with, whether that token was fresh, and the token it got.

Actions, by code line:
- `GetAccessToken(c)` is the call of `updateToken(5)` (admin-client.ts 29-31). The caller resolves at once for a fresh token, rejects at once without a token, and otherwise joins the refresh queue.
- `Resume(c)` is the return of `passport.token` after the await (31-36).
- `CatchLogin(c)` is the catch block (32-34). `passport.login()` never settles: PassportContext.tsx 68-74 passes no adapter, and the default keycloak-js adapter assigns the login URL to `window.location` and returns a promise it never resolves. So the caller stays in `login` until `Unload`, and getAccessToken returns only from `Resume`.
- `Finish(c)` is the caller's continuation that builds the header and sends the request (request.ts 28-36).
- `Init` is the state after `passport.init` resolved (PassportContext.tsx 62-81).
- `ClearedLogins` is what keycloak-js's `clearToken` does with a token present: `onAuthLogout` (57), which is `passport.login()`, and then its own `kc.login()`, because init ran with `onLoad: "login-required"` (70). That is two logins.

keycloak-js is a dependency, not code of this repository, so its steps are environment actions:
- `RefreshDone` has three branches: success, 400 with `clearToken`, and a network error keeping the old token. Every queued caller settles at once.
- `Tick`: the token enters the 5 s margin.
- `SessionEnds`: the SSO session ends, with or without `clearToken`.
- `Unload`: a login redirect replaces the page.

Event-loop order is modelled by the guard `Macrotask`: no environment step and no new call runs while a caller has a pending continuation.

Bounds:
- `MaxGen` bounds token generations.
- `MaxLogins` bounds how many logins may have started before no new call begins. Without it, recycled callers would log in forever.

### TokenService and the refinement

`TokenService` states what a caller of `getAccessToken` may rely on, with no refresh queue and no event loop:
- `Call(c)`, then either `Return(c)`, which returns the token held at that step, defined and valid, or `Redirect(c)`, which hands over to a login that does not return;
- `Release(c)`: the caller uses the token;
- `Renew`, `Expire` and `Clear` change the token, and a clear starts the adapter's login and onAuthLogout's; `Leave` is the page being replaced.

`TokenProvider` defines the refinement mapping `TS`:
- `tok` is `token`, `valid` is `fresh`, `left` is `unloaded`, and `ret` is `got`;
- a caller's status is `CallStatus(pc[c])`: queued or resuming is "calling", in the catch block's login is "login", done is "returned".

The step at which a caller resumes is the abstract `Return`. So a stale read of the token before the await, the mutant `ResumeStaleRead`, is not a `TokenService` behaviour. The `tokenprovider` run checks `ImplementsTokenService` (`TS!TSSpec`, with the abstract fairness), and `RefinesTokenService` proves the safety part.

### PrincipalsList

State:
- `server`: the ids the server holds;
- `principals`: the React state;
- `fetchState`: useFetch's load;
- `req[c]`: each caller's request, with its `Authorization` token and its outcome `ok`, `refused` or `lost`;
- `target[c]` and `snap[c]`: the id a delete removes and the list its closure captured;
- `listed` and `confirmed`: history variables;
- `realm`, the route's realm, and `scope[c]`, the realm c's `handleDelete` closure holds. The server holds each principal in its realm `Home[p]`.

Actions:
- `LoadStart` and `LoadSettles` are the useFetch loader and its callback (69-85).
- `HandleDelete`, `Send` and `DeleteSettles` are the three steps of `handleDelete` (87-104): the call of `getAccessToken`, the `fetch`, and the response.
- `ServerHandles` is the server. Without a token it refuses. A DELETE of an id it no longer holds answers 404. Any request may be lost after or before the server acted.
- Requests of different handlers are processed and answered in any order.
- `SwitchRealm` is the realm selector. The page stays mounted, and useFetch's deps change, so the load runs again. It is taken once the page's load has settled. `ListSpec` keeps one realm, and `RealmSpec` adds the switch.

### AgencyDashboard

State:
- `serverEnabled`: the realm's agency flag at the server;
- `shown`: `config.enabled`, which is the switch's `isChecked`;
- `fetchState`: the useFetch load;
- `req[c]`: each request, with the value it sends or reads;
- `uncertain`: a history variable. It is set when a PUT the server performed is reported to the user as failed. After that, a mismatch is the user's to resolve.

Actions:
- `LoadStart` and `LoadSettles` are the loader (65-81).
- `Toggle(c)` is the switch's `onChange` (154-160), which is enabled whenever the switch is rendered.
- `Send(c)` and `ToggleSettles(c)` are `toggleAgency` (83-102). On `response.ok` the switch shows the value this call sent.
- `ServerHandles` processes the requests in any order and may lose an answer.

### Bootstrap

State: the number of runs of each mount effect so far, the `calledOnce` ref, each `passport.init` promise (`calls`), the provider's `init` and `error` states, the `initAdminClient` promises still pending, and the number of `setAdminClient` calls. `loginFailed` is a history variable: the login server's check itself failed.

Actions:
- `ProviderEffect` is the mount effect (62-81), with its `calledOnce` early return.
- `InitSettles(i)` is the i-th init promise settling through `.then` or `.catch` (76-78). keycloak-js answers the first init (authenticated, failed, or a redirect to the login page that unloads the page) and refuses any later one.
- `AppEffect` and `ClientResolves` are App's effect (52-63). `ProviderView` and `AppView` are the two renders.
- Once the console renders, its pages may call `getAccessToken`. From then on every `TokenProvider` action is a step of `BootNext`.

With `DevMode` = TRUE each mount effect runs twice (StrictMode) before any promise settles (`EffectsDone`).

### AgencyRoutes and AgencyNavigation

These modules hold definitions only, and `PrincipalPages` uses them.
- A path template is a sequence of static and dynamic segments. `RouteOf(loc)` is react-router's choice: among the matching templates, the highest `Score` wins, and on a tie the earliest route. This is why `principals/new` opens the form rather than the detail page of a principal called "new".
- `UseParams(loc)` gives the dynamic segments of the chosen route. `DetailId` is `useParams().id` in PrincipalDetail (62).
- `DashboardLinks(loaded, config)` is every link the dashboard renders. There are none until its config is loaded, and none unless the agency is enabled. `ListLinks`, `RowLinks(ids)` and `CreateLinks` are the links of the other pages.

### PrincipalPages

State:
- `location`: the router's location. The page shown is `Page == RouteOf(location).name`.
- `followed`: the page the last link or `navigate()` was written for.
- `dashLoaded` and `config`: the dashboard.
- `nameValid` and `isSubmitting`: the form.
- `detail`: the detail load.
- `server`: the ids the server holds.
- `req`: each caller's request.
- `bounced`: a history variable. It is set when the detail page sends the user back to the list for a principal the server holds.

Actions:
- `Follow` clicks one of `PageLinks`, the links the current page renders. The new page mounts with fresh state (`Mounted`).
- `DashboardLoads` is the dashboard's config load.
- `EditName`, `Submit` and `SubmitSettles` are the form and `handleSubmit` (45-81). On success, `SubmitSettles` navigates to the new principal's page. Otherwise it runs the `finally` block.
- `DetailLoadStart` and `DetailLoadSettles` are the detail page's useFetch (70-95). A 404 navigates to the list. A result arriving after the page was left is dropped.
- `Send` and `ServerHandles` are the network and the server.

### ErrorBoundary

This module has no concurrency. One page's loader gets one answer, and the boundary renders what it threw:
- The agency loaders throw a plain `Error` for any non-2xx answer (`AgencyOutcome`).
- Loaders that go through the resource client get the `NetworkError` of `fetchWithError` (`ClientOutcome`, modelled from spec 4.5 because that code is not in this repository).
- `RendererLink` is `isPermissionError`.

## 3. Runs

| run | checks | result |
|-----|--------|--------|
| `tokenprovider` | `RefreshBeforeReturn` (invariant), `CallSettles` (liveness), `ImplementsTokenService` (refinement) | pass, 1215 states |
| `tokenprovider_logins` | `AtMostOneLogin` | violation: one `clearToken` starts two logins |
| `principals` | `NoHiddenPrincipal` | pass, 21461 states |
| `principals_realm_switch` | `NoHiddenPrincipal` under `RealmSpec`, two realms | violation: a delete answered after a realm switch empties the new realm's table |
| `dashboard` | `ShownMatchesServer` with one toggle at a time | pass, 472 states |
| `dashboard_overlap` | `ShownMatchesServer` with two overlapping toggles | violation: the switch shows the opposite of the server's flag |
| `bootstrap` | `ErrorPageMeansLoginFailed`, `ConsoleStarts` (liveness), in a development build | pass, 177 states |
| `pages` | `LinkOpensItsPage`, `FormUnlocks` (liveness) | pass, 5845 states |
| `pages_bounce` | `NoBounceOfExisting` | violation: the page of a just-created principal says 404 |
| `error_boundary` | `SignOutOnForbidden` | violation: a 403 on an agency page offers "reload" |
| `pages_late_submit` | `DetailOpensOnlyFromShownPage` (action property) | violation: a cancelled submit's success pulls the user off a new form |


Findings, detailed in `PROJECT.json`:
- **Two logins per cleared token** (PassportContext.tsx 57, 70). Under `onLoad: "login-required"`, keycloak-js's `clearToken` already calls `kc.login()`. `onAuthLogout = () => passport.login()` starts a second one. A session iframe's clear, or a refresh answered 400, therefore starts two interactive logins, and every caller queued on that refresh adds one more from its catch block. Spec 6 asks for at most one.
- **Overlapping toggles** (AgencyDashboard.tsx 97, 159). The switch is not disabled while its PUT is in flight. Two flips can reach the server in one order and be answered in the other, and each answer sets the value its own request sent. The page then shows the wrong state with no error. One flip at a time is correct, as the `dashboard` run shows.
- **Wrong route parameter** (PrincipalDetail.tsx 62 against routes.tsx 72). The page reads `id`, but the route names the parameter `principalId`. Every detail load requests `/principals/undefined`, receives 404 and navigates back to the list. This includes the navigation right after a successful create.
- **Lost 403** (PrincipalsList.tsx 79, ErrorRenderer.tsx 17). The agency loaders discard the status, so a forbidden page offers "reload" rather than "sign out" (spec 4.5, 7).
- **Delete across a realm switch** (PrincipalsList.tsx 99). A delete answered after the realm changed sets its closure's list, the old realm's rows minus the deleted one. The new realm's principals disappear until the next reload.
- **Late submit after Cancel** (CreatePrincipal.tsx 75, 138-143). Cancel is enabled during the POST. After Cancel and a second "Create Principal", the first POST's success navigates away from the second form.

Bounds and why they suffice:
- Token provider: three callers, `MaxGen` = 3, `MaxLogins` = 3. Three callers let two of them be queued on one refresh while a third arrives after it. Three generations allow a refresh after a refresh. Three logins let a call still start after a clear that happened without a refresh, and then log in from its catch block.
- Principals list: one loader, two deleters and two principals. Two concurrent deletes are the smallest case of the stale-closure race.
- Dashboard: the loader plus one toggler for the pass run, and two togglers for the overlap run. Two toggles are the smallest case of reordering.
- Bootstrap: a development build, so that both mount effects run twice. `MaxGen` = 2 and `MaxLogins` = 1 let the console's first calls meet a refresh.
- Principals list, realm switch: two realms holding one principal each. A delete in one and a load in the other are the smallest case.
- Pages: one submitter, one detail loader and two ids. That is enough to create a principal and then open the page of an existing one. `MaxGen` = 2 and `MaxLogins` = 1 still allow a refresh, a cleared token and a login on the submit path.

Fairness:
- Weak fairness on `Resume`, `CatchLogin` and `Finish`: pending microtasks always run.
- Weak fairness on `RefreshDone`: the browser ends every XHR, with a response or an error.
- Strong fairness on `Unload`: once a login has assigned `window.location`, the navigation commits, however many handlers run meanwhile. It must be strong because `Unload` is disabled whenever a microtask is due. This is what lets `CallSettles` say that a handler hanging in `login()` is gone with its page and never left waiting on a live page.
- Nothing forces a user, the clock or the session to act.
- `PagesSpec` adds weak fairness on three kinds of step. The first is `Send` and `ServerHandles`: the network answers every request or fails it. The second is `SubmitSettles`, the response's continuation. The third is `Unload`, because a login the catch block started redirects the page. `FormUnlocks` needs no user action.
- `BootFairness` is weak fairness on the two mount effects, on each init promise and on `initAdminClient`. React runs the effects it committed, and keycloak-js settles `init` or redirects: its iframe check and its token request time out.
- The dashboard run checks only an invariant, so it assumes no fairness.

`CHECK_DEADLOCK FALSE` is set in every cfg except the token provider's. The page models have no `Gone` stutter of their own once the page is left or has nothing left to do: a loaded page with no click pending, a settled form and a start-up that ended on the error page legitimately stop. The token provider's runs check deadlock, and its `Gone` step is the only stutter.

## 4. Proofs

`TokenProviderProofs` proves `TypeCorrect` (Spec => []TypeOK) and
`RefreshBeforeReturnHolds` (Spec => []RefreshBeforeReturn) for every set of
callers and every `MaxGen`, `MaxLogins` in Nat \ {0}.

Neither property is inductive alone. The inductive invariant `IInv` adds:
- `RefreshOnlyWhenStale`: a refresh is in flight only for a stale token.
- `StaleBelowBound`: a stale defined token is below `MaxGen`, so `token + 1` stays typed.
- `ClearedMeansDead`: a cleared token means the session is over, so a refresh cannot succeed from `NoToken`.
- `QueuedKnowsToken`: a queued caller's refresh is in flight, and the token is the one it asked with or cleared.
- `ResumedKnowsToken`: a resumed caller sees a newer token, or the same fresh one.

Because `login()` never settles, every return goes through `Resume`, so `RefreshBeforeReturn` also rules out a request sent as "Bearer undefined": a returned token is newer than one in `Gen`, or equal to a fresh one.

TLC checked `IInv` as an invariant before it was proved. The step proof has one case per action. The key argument is that the token-changing environment steps are macrotasks, so no caller is between its `updateToken` and its return when the token changes.

`RefinesTokenService` proves `Spec => TS!TSSafety`: the initial state and every step of `TokenProvider` are, under `TS`, an initial state and a step or stutter of `TokenService`. The step lemma `StepRefines` has one case per action. It rests on `IInv` and on `ResumedSeesFresh` (a caller about to return after a successful refresh sees a fresh token), which is what makes the resume step an abstract `Return`. `SettledStatus` shows that a refresh that settles the whole queue leaves every abstract status unchanged.

`BootstrapProofs` proves `ErrorPageOnlyOnFailedLogin` (`BootSpec => []ErrorPageMeansLoginFailed`) for a development and a production build. The invariant is not inductive alone, because a second `passport.init` would be refused and set `error`. `BInv` adds:
- `OnlyFirstInit`: no init but the first is ever called;
- `GuardSet`: `calledOnce` is set exactly when the effect has run.

`ProviderView` and `AppView` are written as IF/ELSE chains, which are the renders' early returns.

The page proofs reuse `IInv`: each page's next-state relation projects onto `[Next]_vars` of `TokenProvider` (lemma `ListStepIsTokenStep`), so the token part of the invariant carries over unchanged.

`PrincipalsListProofs` proves `NoHiddenPrincipalHolds` (`ListSpec => []NoHiddenPrincipal`) for any callers and bounds. The proof covers one realm; the realm switch is the subject of a violation run. The inductive invariant is `LInv == IInv /\ ListInv`. `ListInv` adds:
- `Active(c)`: a caller is between its request and its settling. `ReqMeansIdle` and `LoadRuns` tie a pending request to the caller's step, and an active load to `fetchState = "running"`.
- `DeletesAfterLoad` and `EmptyUntilSettled`: a delete starts only from a loaded list, and the list is empty until the load settles.
- `OkRemoved`: a successful delete has removed its target on the server.
- `SnapCovers`: an active deleter's `snap` (the `principals` it read before its await) covers every listed principal still on the server, except its target.

`SnapCovers` is the heart of the proof. When a delete settles and writes `snap` minus its target back, the written list still covers the server. This is the stale-read hazard at `handleDelete`, bounded to what the server really holds.

`AgencyNavigationProofs` proves `NavLinksOpen` for every set of ids and every configuration: each link on the dashboard, the list, its rows and the create form routes, under the router's ranked matching, to the page it names. The argument computes the route scores: the create route `new` scores 39 and the detail route `:id` scores 32, so `/principals/new` never opens the detail page. The path-segment lemmas (`LocAt`, `LocList`, `LocDetail`) are derived from `ConcatProperties` of `SequenceTheorems`.

`PrincipalPagesProofs` proves `LinkOpensItsPageHolds` (`PagesSpec => []LinkOpensItsPage`) from `NavLinksOpen`. Its inductive invariant `PInv` adds the shape of `req`, `server \subseteq Ids`, and that an answered create returns an id in `Ids`, so that the row link it navigates to is one `NavLinksOpen` covers.

Only TLC checks these:
- the liveness properties `CallSettles`, `ConsoleStarts` and `FormUnlocks`, and the fairness part of `ImplementsTokenService`, because TLAPS does not handle fairness and ENABLED here;
- the violation runs (the realm switch, two togglers, the late submit, the bounce, the error boundary's sign-out, the logins run), which are counterexamples and not theorems;
- `ShownMatchesServer` of the `dashboard` run. It holds only while one toggle is out at a time, and the code does not ensure that: the switch stays enabled during the PUT. A theorem under that hypothesis would prove the case the code gets right and exclude the one it gets wrong, which the `dashboard_overlap` run shows. So the pass run stays a model-checked statement about the one-toggle case;
- `DetailOpensOnlyFromShownPage`, the one action property, which a violation run refutes, so there is nothing to prove;
- `ErrorBoundary`, whose only run is a violation.

## 5. Not modelled

- keycloak-js internals (it is a dependency); its observable behaviour is the environment of `TokenProvider`.
- The server (Java, not in this repository) beyond the outcome of each request.
- Rendering, forms, i18n, CSS: the presentation components listed above.
- The server-side authenticator scripts: they run inside the server's script engine, one call at a time, and have no state of their own.
- The tests.
- The account console's `request` and `_request` beyond the header (request.ts 18-63), and the role-mapping query builder (resource.ts). Neither has a caller in this repository, so which URL objects, bodies and query values reach them is unknown. Both are plain formatting of their arguments, apart from the header, which `Finish` models.
- `fetchAdminUI`, `useFetch`, the realm context, `useCurrentUser`, `ServerInfoProvider` and `GroupResourceContext`: they are imported from packages outside this repository. Their effect is modelled where a page depends on it, for example useFetch dropping a result after its deps changed.
- The detail page's `handleSuspend`, `handleActivate` and `handleDelete`: the page never shows a principal (the route-parameter finding), so they cannot run.
- The second admin client that App's unguarded mount effect creates in a development build. Both clients read the same adapter, so no property tells them apart.
