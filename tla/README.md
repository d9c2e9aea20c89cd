# Superdesk Publisher in TLA+

A verification development of [Superdesk Publisher](../src/README.md): a multi-tenant
web publishing system (Symfony, Doctrine, RabbitMQ) that receives stories from
Superdesk, decides by rules where they go, and publishes them on the websites of its
tenants. Its default theme brings code of its own into the browsers of readers: a page
script, a service worker and the build that makes them. This directory holds the TLA+ modules, the TLC configurations that check
them on small instances, and proofs checked by TLAPS.

Paths below are relative to the repository; `CoreBundle` stands for
`src/SWP/Bundle/CoreBundle` and so on.

## 1. The system: an inventory

| Component | State | Operations | Interacts with |
| --- | --- | --- | --- |
| Content push (`ContentBundle/Controller/ContentPushController`, `CoreBundle/Consumer/ContentPushConsumer`) | queue `content_push`, table `swp_package` | push, execute, reset, requeue | dispatches `package.pre/post_create`, `post_update`, `processed` |
| Correction and cancellation (`UpdatedPackageListener`, `CanceledPackageListener`, `PackageStatusListener`) | articles and status of a package | hydrate, cancel, set status | runs inside the consumer on `package.post_update`; dispatches article events |
| Rules (`Component/Rule`, `RuleBundle`, `CoreBundle/Rule`, `RulesMatcher`, `RulesProcessor`) | table `swp_rule` | evaluate, apply; populate articles at tenants; compute destinations | organisation rules on packages, tenant rules on articles, in the tenant of the context |
| Publish destinations (`PublishDestinationController`, `PublishDestinationProvider`) | table `swp_publish_destination` | create, update, look up by guid | override rules for the story and the tenant |
| Article publisher and service (`ArticlePublisher`, `ArticleService`, `ArticlePublishListener`, `PackageController`, `ArticleController`) | table `swp_article` | publish, unpublish, cancel, patch | events `swp.article.publish`, `unpublish`, `canceled`, `post_*` |
| Content lists (`ContentListBundle`, `AddArticleToListListener`, `HandleArticleChangeSubscriber`, `RemoveItemsListener`, two controllers) | tables of lists and items | automatic lists: add, remove; manual lists: link, unlink, move, batch update; change of criteria | listen to article events; batch updates dispatch them |
| Tenant context (`MultiTenancyBundle`, `CachedTenantContext`) | tenant of a process, parameter of the `tenantable` SQL filter | set, reset, enable, disable | decides what every query of the process sees |
| Routes and menus (`ContentBundle`, `MenuBundle`, `RouteRemoveListener`) | trees of routes and menu items | create, move, delete | deletion resets articles and packages |
| Revisions (`RevisionBundle`, `RevisionsSubscriber`, `TenantRevisionListener`, `RevisionAwareContainerService`, `ContainerController`, `ContainerProvider`) | new, published, replaced revisions; containers and their widgets | choose for a request, fork, edit, link, publish, create from a template | templates system (`ContainerService`, `RendererService`) |
| Build of the default theme (`gulpfile.js`) | sources, `public/dist`, `public/sw.js` | tasks sass, js, cssmin, jsmin, sw; build, watch | what it leaves is installed on tenants |
| Theme installation (`ThemeService`, `TenantAwareThemeInstaller`, `StaticThemeAssetsController`) | a tenant's theme directory and its backup | install, restore, serve a file | copies a built theme; visitors and workers read it meanwhile |
| Service worker of the theme (`public/sw.js`, `service-worker-registration.js`) | cache of assets by hash, workers of a registration | register, install, activate, serve | fetches from the site |
| Content caching (`public/sw-contentCaching.js`) | database of sections, two caches | answer a request, cache an article, cut a cache, mark a section | an optional part of the service worker |
| Reader's page (`public/js/scripts/onload.js`) | session storage, the variables of a page | log in, load and save a profile, submenus, slider | API of users, login form |
| Webhooks (`WebhookBundle`, `SendWebhookConsumer`) | queue of calls | enqueue on events, send | switches the tenant filter while it looks for webhooks |
| Analytics (`AnalyticsBundle`) | events, statistics | count views and impressions | a consumer of its own |
| Settings, users, paywall, output channels, Facebook Instant Articles, search index, bridge, templates, fixtures | configuration, external systems | lookups, HTTP calls, rendering, parsing | see section 8 |

What makes each correct:

* *Push and correction*: every pushed revision is handled once it can be; each article shows the
  last revision; a killed story is down at every tenant; the status of a package agrees
  with its articles; nothing of one message is done in the name of another's tenant.
* *Rules and destinations*: a destination decides for its tenant; rules act on the
  articles of their own tenant; the rule of highest priority wins.
* *Publisher*: no handler works on what it has not loaded; two processes that publish
  at once leave one article per tenant; takedowns are not undone by corrections.
* *Lists*: a list holds published articles of its tenant that meet its criteria, all of
  them, each once; batch updates apply to the list their author has seen.
* *Revisions*: one published and one working revision per tenant; edits stay in the draft
  until it is published; publishing loses no container.
* *Routes*: paths are unique; what is deleted leaves no published article behind.
* *Theme build*: a build leaves the minified form of the latest sources, and the hashes
  of the worker are of files that exist or existed.
* *Theme installation*: a failed installation leaves the former theme.
* *Service worker*: a key never holds a file older than its hash; what is reported to be
  available offline is; a browser comes to run the site's worker.
* *Content caching*: whoever asks gets a page or is told to be offline; caches stay
  within their bound; the menu marks the sections that can be read offline.
* *Reader's page*: it shows and saves only data of the user whose token it has; submenus and
  slider do what the pointer asks.

Hard behaviours: PHP processes interleave at every flush and query, with stale objects in
their identity maps; the consumer is killed or throws between two flushes and its message
comes back, possibly later than its successors; one message touches several tenants and
switches the SQL filter while listeners rely on it; listeners of the same event undo each
other's assumptions. In the browser everything is a promise or a callback: puts,
deletions and looks at a cache come in any order, a worker may be stopped or replaced on the
way, and a page goes while its calls are being served. The files a worker fetches
change under it. `PROJECT.json` lists each hazard at its line.

## 2. Modules

| Module | What it is |
| --- | --- |
| `Publishing` | the core: one story from push to publication, correction and kill |
| `MCPublishing` | rules, destinations and requests of the instances TLC checks |
| `PublishingProofs` | theorems about `Publishing` for all values of its constants: types and soundness |
| `StoryProofs` | the shapes of its steps, what managed objects know of their rows, who cancels an article, when a package counts as published, what destinations decide |
| `OutcomeProofs` | in which state a push leaves the articles and the automatic lists |
| `LiveSite` | abstract: a live site and its draft, as the livesite editor promises them |
| `Revisions` | revisions and containers of a tenant: publication, edits, pages |
| `MCRevisions` | themes and kinds of requests of the instances TLC checks |
| `RevisionsProofs` | theorems about `Revisions` for all values of its constants |
| `ThemeReleases` | abstract: what an installation relies on of the theme's build |
| `ThemeBuild` | the gulp build; implements `ThemeReleases` |
| `ThemeInstall` | installing a release on a tenant |
| `PrecacheWorker` | the service worker of one browser |
| `ThemeDelivery` | the composition of `ThemeReleases`, `ThemeInstall` and `PrecacheWorker` |
| `ContentCaching` | the worker's optional cache of pages |
| `ReaderPage` | a page of the theme with its server |
| `MCThemeBuild`, `MCThemeDelivery`, `MCContentCaching`, `MCReaderPage` | the instances TLC checks |
| `ThemeBuildProofs`, `ThemeDeliveryProofs`, `ContentCachingProofs`, `ReaderPageProofs` | theorems about them for all values of their constants |

### Publishing

The model has one story (package), at most one article of it per tenant, one automatic
list per tenant, the content_push queue, and the processes `Workers`: the consumer and
the API processes `Api`.

| Variable | Stands for |
| --- | --- |
| `pkg`, `art`, `items`, `dest` | rows of `swp_package`, `swp_article`, `swp_content_list_item`, `swp_publish_destination` |
| `queue` | the RabbitMQ queue; its head is unacknowledged while the consumer works |
| `em[w]` | entity manager: managed package and articles, the values they were loaded with (`pkg0`, `art0`), list items persisted but not flushed |
| `ctx[w]` | tenant of the context and parameter of the filter (`None`: disabled) |
| `run[w]` | place in the handler and its local variables |
| `budget` | what the environment has done so far, against the bounds |

A *step* is what a process does up to one flush or one query, since these are the points
at which another process, or a crash, can get in between. `Flush` writes what Doctrine's unit of work
writes: only fields changed since they were loaded, and inserts, which fail (`Conflict`) on the
unique index of articles. Handlers become sequences of places:

```
consumer   Receive -> onUpdated -> hydrate* -> onCanceled -> cancel* -> processRules
                   -> publish* (with destinations) | populate* (without) -> processed
an article             save -> articleRules -> rule* -> refresh -> dispatch
requests   publish* ;  unpublishLoad -> unpublish* ;  patch ;  single-step PATCH and POST
```

The order of the places is the order of the listeners in the compiled container:
`kernel.event_listener` services of ContentBundle before those of CoreBundle, subscribers
last. Listeners that return early on this installation (webhooks, output channels,
Facebook) keep their effect on the filter: the webhook subscriber, for one, leaves it
enabled for the tenant of the context.

Abstractions: content is the number of the revision it came from; a rule's expression is
the set of revisions it holds of; a route is a value; list criteria are those on routes. An
article's `published` flag and its status change together, so the status stands for both. Publish windows are
open. The request's own tenant is any of `PushTenants`.

### Revisions

One tenant whose first revision is published. Every request is a process with an entity
manager and a revision context of its own.

| Variable | Stands for |
| --- | --- |
| `revs` | rows of `swp_revision`, by id: status and previous revision |
| `rows` | rows of `swp_container` by id, with their `swp_container_widgets`: uuid, name, revision, style, widgets |
| `run[p]` | place in the request; the revisions `TenantRevisionListener` found (`published`, `working`), those the current revision makes visible, and what the handler has read (`row`, `style`, `ids`, `old`) |

```
every request   Begin -> Context  (two queries of TenantRevisionListener)
publish         publish -> ids -> containers -> move
style           find -> fork | write
link, unlink    find -> fork? -> write
render          render -> create?
```

`published` and `working` are not read again: the model keeps Doctrine's identity map by
taking a revision's status to be the one it was found by. The two unique indexes are
guards (`Unfollowed`, `Placeable`) with an action for their violation. `Exclusive` and
`Fragile` describe the environment: kinds of requests that run alone, and kinds whose
process may die. `publishers` needs neither assumption. `livesite` lets a publication run
alone and to its end: without that, TLC shows (and a hazard records) that the site is
not what was published. `Cookies` are the revisions whose keys requests carry.

`LiveSite` is what `Revisions` implements: `Live` and `Draft` map a name to the container
visitors and editors get, and while containers are being taken along visitors still own
the old ones, so that the flush in `RevisionManager::publish` together with the move is one `Publish`.

### ThemeBuild

| Variable | Stands for |
| --- | --- |
| `src`, `dist` | version of the sources of the stylesheet and of the script; the files of `public/dist`, each with its version and whether it is minified |
| `swjs` | `public/sw.js`: the contents whose hashes it lists, or empty after `watch` |
| `task`, `got` | what gulp has done with each task of the running command; what a running task has read |
| `watching` | a `gulp watch` is running |

gulp 3 starts a task as soon as those it names are done, so that only `cssmin` and
`jsmin` wait; `Start` reads the input, `Finish` writes the output. Developers edit while no
command runs.

### ThemeInstall, PrecacheWorker and their composition

| Variable | Stands for |
| --- | --- |
| `files`, `listed` (`ThemeReleases`) | versions of the built files and those `sw.js` lists |
| `theme`, `backup` | the tenant's theme and its backup: a stylesheet, a script and `sw.js`, each of which may be missing |
| `pc`, `release` | place of the installation and what it installs |
| `good`, `installs`, `failures`, `crashes` | theme after the last success; counters of the environment |
| `cache` | the cache `sw-precache-v3-...`: (file, hash) to the version of the body |
| `installing`, `waiting`, `active`, `activating` | the workers of the registration |
| `stale`, `late` | keys the activate event will delete; keys a failed worker still fetches |

`ThemeDelivery` is the interleaving of a developer who builds and installs (`Release`),
an installation that copies file by file, fails or dies, and a browser. The parts
share `theme` only: `PrecacheWorker` reads what `ThemeInstall` writes. A hash stands for the
version it is of, so that body and hash of a key can be compared. One browser stands for
all, since browsers do not interact.

### ContentCaching

| Variable | Stands for |
| --- | --- |
| `db` | the database `sections-cache`: listed, cached or absent |
| `cache` | URLs in `sections-cache` and `articles-cache` |
| `req[h]` | an event the worker handles: where it is, what for, and its answer |
| `todo[h]`, `old[h]` | promises left of `fetchAndCache` and `db_update`: the put, the look at the keys, the mark; keys it deletes |

Each promise that nobody waits for is an action of its own, and a fetch may end at any
time, before or after the time-out. The handlers' `fetch` of other hosts and the runtime
caches of `sw-toolbox` are left out.

### ReaderPage

| Variable | Stands for |
| --- | --- |
| `session` | user of the server's session |
| `stored`, `page` | `auth_token` and `user_id` of the session storage; `authToken`, `userId` of the page and the user it was rendered for |
| `shown`, `saved` | whose data the profile form shows; profiles that were saved |
| `calls` | calls on their way: sent, answered, or of a page that has gone |
| `over`, `opened`, `hide_menu` | pointer, displayed submenus, timer |
| `current_page` | page of the slider |

A user's token stands for the user. `Load` runs whenever a page is loaded: it orphans
the calls of the page before, whose effects on the server remain.

## 3. Runs

Every run bounds what the environment does (`MaxPushes`, `MaxRequests`, `MaxCrashes`,
`MaxFailures`; `MaxRevisions` for publications; `MaxEdits`; `MaxVersion`, `MaxInstalls`,
`MaxFaults`; `MaxKills`; `MaxSubmits`; all in the guards of environment actions); processes are unbounded in how
they get from one place to the next. Deadlock is not an error here, because the
environment stops at its bounds.

| Run | Instance | Question |
| --- | --- | --- |
| `one_tenant` | 1 tenant, 4 pushes of any status, 2 takedowns, 2 crashes | do article, package, list agree once the queue is empty? |
| `two_tenants` | 2 tenants, 4 pushes through either, 1 crash | are all tenants corrected, listed and killed; does the package show what its articles are; does the consumer forget? |
| `destinations` | draft destination at one tenant, rule for the other; 3 pushes, crash and rejection | does the destination decide; is everything loaded that is used; does the queue drain? |
| `editors` | 1 API process, 3 requests of every kind, 2 pushes | is everything loaded that is used; who may cancel? |
| `kill_with_destination` | *violation* | a destination publishes a killed story again |
| `rules_of_another_tenant` | *violation* | a correction runs the wrong tenant's rules and list |
| `publishers` | 2 processes, every kind of request, each may die; 4 revisions | is there one published and one working revision; do containers only move forward? |
| `livesite` | 2 processes link widgets and open pages; a themed container and one that pages create; publications alone | is `LiveSite` implemented; is every container live? |
| `build` | every command; 2 edits of each source | is a build complete; is `ThemeReleases` implemented; do commands end? |
| `release` | 2 installations of what any build may leave, 1 failure or crash; one browser, any failures of its fetches | are failures undone; is the first installation of a worker complete; are assets fresh; is the browser updated? |
| `offline` | 2 events at once, 4 sections and an article, caches of 1, one stop of the worker | who gets what; how long are the caches; is what is cached marked? |
| `reader` | 2 users, one an administrator, 3 forms; 2 submenus; 3 elements in rows of 2 | whose data are shown and saved; do submenus and slider behave? |

Bounds. Two tenants suffice for interference between tenants, since listeners know
only "the context's tenant" and "the article's tenant". Three pushes give a creation, a
change and a change of the change (kill and revive); the fourth in `one_tenant` and
`two_tenants` lets a status return after a kill and a crash. One crash gives a redelivery at every place, the
second a redelivery of a redelivery. One API process gives every pair of a consumer
step and a request step; three requests give publish, unpublish and publish again. Two
processes give every overlap of two publications, of two edits, and of an edit or a page
with a publication; four revisions give two publications after the first, so that a
container can be left behind by two. Processes of `Revisions` are symmetric; no run of it
checks liveness. One widget tells a linked container from an unlinked one.
Two edits of a source let a task read one version, another be written, and a third be
asked for. Two installations give one that replaces a theme while a browser has, or
fetches, the files of the former; the one fault hits either. Two events at once let every
put, look, deletion and mark of one fall between those of another; four sections overfill a
cache of one by more than the handlers explain. Three forms give two logins and a
saved profile between them. Pages and handlers of `ContentCaching` are symmetric.

Properties are stated of quiet states (`Quiet`: empty queue, no process at work) where
intermediate states are visible but meant to pass, and of all states or steps otherwise.

Fairness. `WF(Consume)`: supervisor restarts the consumer
(`scripts/supervisor/supervisor_content_push.conf`, `autorestart`) and RabbitMQ delivers to it.
`WF(Respond(w))`: PHP runs a request to its end. No fairness is assumed of pushes,
requests, crashes or rejections. `ThemeBuild`: gulp goes on with the tasks it has begun
(`WF` of `Start` or `Finish` of some task). `ThemeDelivery`: an installation goes on (`WF(Continue)`), a
browser in which somebody reads the site registers and goes on with its events
(`WF(Browse)`), and its fetches, though the network may fail any number of times, do not
always fail (`SF` of `Fetch`: a fetch is disabled and enabled again as
installations of the worker fail). A page that stays open for good may keep an empty
worker waiting, so `PagesClosed` is not fair. `ContentCaching` and `ReaderPage` state safety only.

## 4. What the runs show

With rules alone (no destinations, no editors at the same moment), the consumer is
robust: corrections, kills and crashes at any point leave articles, package and lists in
agreement. Takedowns by editors survive concurrent corrections, because Doctrine writes
changed fields only and a correction runs the rules only on unpublished articles,
in the push's tenant.

Two documented promises about stories do not hold; each is a run with expected violation and a
finding in `PROJECT.json`:

1. *A killed story with a publish destination goes up again.* `CanceledPackageListener`
   cancels, then `ProcessOrganizationRulesSubscriber` publishes to the destinations
   without looking at `pubStatus`.
2. *Tenant rules act on other tenants' articles.* `UpdatedPackageListener` corrects
   the articles of all tenants in the context of the push's tenant.

Three more that the models show have no run, and are hazards with a note that names
the document: the last matching rule wins, not the first; publishing by PATCH adds an
article to no automatic list, because another event is dispatched; and a style of a
container goes live at once, because the form is bound to the published container before it
is forked, and the fork's flush writes both.

Further hazards that TLC shows but no document speaks about (publication during a
correction, reordering after a rejection, a second destination of a tenant) are in
the hazards of `PROJECT.json` with a note.

With revisions, the index on `previous_revision_id` does what `RevisionManager::publish`
does not: of two publications of the same revision the second fails, and because the
subscriber asks for containers of the one revision before its own, overlapping
publications never undo each other. As long as nothing else runs during a publication,
links of widgets by
several editors, and pages that create containers, implement a live site with a draft.

A visit during a publication, on the other hand, loses containers: the revision is
published before its containers have moved, a page rendered in between creates an
empty one, and the move fails on `swp_name_idx`. No document speaks of it; it is a
hazard with a note.

`sw` runs beside the tasks whose files it hashes, so a build may list hashes of
files that are no longer there; yet it never lists what was not, and files only move forward
(`ImplementsReleases`). That much is enough for the browser: a key of a worker then never
holds a body older than its hash, and once the site is consistent and the browser has
settled, readers see the site's files (`FreshAssets`), although a worker may fetch while an
installation copies and although fetches of a failed worker come late. It ends where
an installation fails and is reverted: bodies of the withdrawn release may stay under the hashes
of the restored one. Fetches that fail only delay a browser (`Updated`). The
purge of one worker may take keys the next one counts on; files then come from
the network, and it is only the first installation that is surely complete
(`FirstInstallComplete`).

`sw-contentCaching.js` orders neither its put nor its look at the keys, so a cache is
longer than the 100 pages of its comment, but by no more than one page for each
event at once (`Bounded`). A worker that is stopped may leave a section
unmarked, or a cache uncut, until the next one.

In a page, the token is read once and the calls carry the id they were sent with: of
the many orders of two logins, reloads and answers none shows or saves another's
profile, except that an administrator's form may name another user
(`ShownIsOwn`, `OwnDataOnly`). The token does outlive the session.

Met on the way, and covered by no property: `articlesToCache()`, which the registration of
the worker calls, is defined nowhere; its comment says that old content has been purged when a
worker is installed, which the activate event does later; sections that are evicted stay marked;
of two fetches of a page the older response may be put last; the expression
`successResponses` takes a 404 for a success; `sw.js` is sent with a `max-age` of an
hour; entering a submenu hides that of the current item, which has no handler to show it again;
`ThemeService` returns an exception from inside its `try` when `theme.json` is missing, without
restoring the backup; edits that overlap a publication go live with it; two LINK
requests of one widget insert it twice; deleting a route resets its packages and articles by two
statements before it is removed; a webhook is sent twice when its worker dies after the call.

## 5. Proofs

`PublishingProofs` proves, for any finite or infinite sets of tenants, routes and API
processes, any rules, lists, requests and bounds that satisfy `ConstantsAssumption`:

* `TypeCorrect == Spec => []TypeOK`
* `Soundness == Spec => []Sound`

`Sound` says what each place relies on: the package is loaded where
`PackageStatusListener` will look for it, the article a listener works on is loaded, an
article never exists without its package, there is a tenant in the context wherever
rules or lists of "the tenant" are asked for, and the consumer holds a message while it
works. `TypeOK` alone is not inductive, for a handler that uses an unloaded object
leaves the types; `Sound` alone needs the types. `Inv == TypeOK /\ Sound` is inductive.

The argument: operators on entity managers get type lemmas (`FlushType`,
`WithArticlesType`, `PackageStatusType`, ...); `ProcessStep` reduces the preservation of
`Inv` by a step of one process to the new state of that process and the database
fitting together (processes do not share entity managers, and no flush removes
a package or an article others have loaded); `FlushOfStep`, `QuietStep`, `AcceptStep`
and `RestartStep` specialise it to steps that flush, that do not, that accept a request
and that fail; then there is one lemma per action.

`StoryProofs` and `OutcomeProofs` build on `Inv`. `NextShapes` sorts the actions into a few
*shapes*, so that a further invariant is shown once per shape and not once per action: a
step that flushes objects a process has touched, loads, inserts the new article or
forgets everything (`TouchStep`, `LoadStep`, `InsertStep`, `ForgetStep`), and the steps that are
about messages or a request of its own (`Push`, `Receive`, `Hydrate`, `Cancel`, `Reject`,
`Open`, `Patch`, `React`). Two
invariants carry all that follows: `Tracked` (an object that was loaded has a row, and the
consumer cancels articles only for a killed package) and, without failures, `Steady` (an object has the
revision it was loaded with, which for the consumer is that of its row; the queue holds
the revisions in order; the consumer's package is that of its message; who rests remembers
nothing).

| Theorem | Property | If | Invariant |
| --- | --- | --- | --- |
| `CancelsOnlyKilled` | `CancelOnlyKilled` | `NoCancelRequest`, `KillIsFinal` | `KillInv` |
| `ShowsArticles` | `PackageShowsArticles` | `NoArticleRequests` | `Lone`, `ShownPackage` |
| `DestinationsDecide` | `DestinationDecides` | `NoArticleRequests`, `DestinationsStand`, `DraftsGuarded` | `Lone`, `DestInv` |
| `ForgetsContext` | `ContextForgotten` | `NoFailures` | `Rested` |
| `CorrectsAll` | `FreshContent` | `NoFailures`, `NoPublishRequest`, `NoRevival` | `FreshInv` |
| `KeepsKilledDown` | `KilledStaysDown` | `NoFailures`, `NoPublishRequest`, `NoDestinations`, `NoKillRequest`, `NoArticlePublishRequest` | `DownInv` |
| `ListsPublished` | `ListedIsPublished` | as `KeepsKilledDown`, but for `NoKillRequest`; `SingleTenant` | `ListInv` |
| `ListsOnce` | `ListedOnce` | the same, `OnePublishing` | `AddedOnce`, `RulesOnce` |
| `ListsComplete` | `PublishedIsListed` | as `ListsPublished`, `RoutedFirst`, `NoListedRequest` | `ShownInv` |

They hold for any tenants (for the lists: one), routes, rules, requests that remain, pushes and
crashes. Each hypothesis names a way in which the code is known to leave the property:

* `NoArticleRequests`: an editor who withdraws the last public article may leave the package
  published, since the listener looks at usable packages only
  (`PackageStatusListener.php:36`), or since the status it sets is the one the request had
  loaded before the consumer published, so that Doctrine sees no change; TLC finds the first with one
  such request, the second with two. An editor may also withdraw, or move, what a destination published.
* `DestinationsStand`: a destination set up after a push is looked at with the next one only.
* `DraftsGuarded`: if a destination keeps its article back, the tenants that push have destinations too.
  A correction handles the articles of all tenants in the context of one, and where that one has no
  destination its rules run, and publish, also for the article that is to be kept back
  (`ProcessArticleRulesSubscriber.php:73`).
* `NoFailures`: a rejected message comes back behind its successors (`config.yml:353`), and the
  consumer goes on with the context and the objects of the message that failed.
* `NoPublishRequest`: an editor publishes from a package loaded before a correction
  (`ArticlePublisher.php:127`).
* `NoDestinations`: a destination publishes a killed story again (run
  `kill_with_destination`); `Dispatch` stores what it loaded before, and adds to the list again.
* `NoCancelRequest`, `KillIsFinal`, `NoRevival`, `NoKillRequest`, `NoArticlePublishRequest`: an
  editor sets by hand the status the property is about.
* `SingleTenant`: the consumer corrects a tenant's article in the context of another, and the
  filter hides from `RemoveItemsListener` the items it should remove.
* `OnePublishing`: `AddArticleToListListener` adds without looking, so that two rules that
  publish add twice.
* `RoutedFirst`: a rule that only routes, applied after one that publishes, moves the article
  onto a route of the list without telling it (`RuleProcessor.php:59`).
* `NoListedRequest`: a PATCH that moves a public article onto a route of the list does not
  tell it either (`ArticleService.php:55`), unless the list asks for every route there is.

The constants of the run `one_tenant`, which checks the properties by TLC, satisfy all of them
but the first, those of `two_tenants` the first, and those of `destinations` what
`DestinationsDecide` assumes.

`ShowsArticles` does without `NoFailures`. `Lone` says that, however many messages were rejected,
the articles the consumer holds were loaded from the rows as they are, and a new one is alone and
about to be inserted; so the row of an article is, after a flush, what the consumer had
made of it (`See`), and the package is published only by a step that publishes an article it sees
(`Works`). Corrections and rules never withdraw one (`ShownPackage`); kills do, article
by article in a flush each, and mark the package at the end. `KillAhead` covers the time between,
which is why a kill that was lost to a crash or put back into the queue must still be in it
(`RequeuedHas`) and, once at its head, before that end.

`DestinationsDecide` does without it as well. `DestInv` follows the consumer over one message and from
there to the next. Of the list of destinations it works through, those that are left are rows of the
table, and the tenants of the others are settled already (`Progress`); the article at hand is the
context's tenant's, on the route of its destination, and about to get the status it wants (`AtHand`).
A correction creates no article and, where one is kept back, stays in the
context of a tenant with a destination, so that no rules run (`Correcting`). What a rejected
message leaves in memory differs from the rows only for the article at hand, and never publishes one
that is kept back (`Kept`). A correction or a kill may leave articles behind that no longer are as
their destinations want them; what settles them again is that each message ends with the
publication to all destinations, and one that was not ended is put back into the queue. So `Progress`
claims `Settled` from there on, and at rest only of an empty queue.

For the lists, the consumer's steps are sorted once more, by what they do to the articles it
holds (`GoesOn`, `StartsRules`, `Loads`, `Creates`, `Stores`, `CancelsOne`, `RoutesOne`,
`PublishesOne`, `Forgets`), and those of requests into two (`ReadsAs`, `WritesAs`). The argument
is that an item is stored, and removed, in the flush that stores the status: what is added in
memory belongs to an article that the consumer has published and not yet stored
(`HeldLists`), and a row that loses its status loses its items (`ListedRows`). `AddedOnce` needs
that rules run only for articles without items; `ShownInv` that an object on a route of
the list was loaded on one, but for what the consumer has routed and will publish.

`RevisionsProofs` proves, for any processes, containers, styles, widgets and bound,
under `RevisionsAssumption`:

* `RevisionsTyped == Spec => []TypeOK`
* `OneRevisionOfEach == Spec => []OneOfEach`
* `ForwardOnly == Spec => MovesForward`
* `NothingLeftBehind`: `Spec => []LiveComplete`
* `RevisionsImplementSite`: `Spec => SiteSpec`, the refinement of `LiveSite`

None of the first three is inductive. `Inv` adds `Chain` (revision r follows r - 1; the last is new,
the one before published, all others replaced), `Fit` (what each process holds: a
publication in progress is of a revision before the last, and the containers it is about
to take along are still of the revision before that), and `Apart` (no two publications in
progress are of the same revision). The index gives `Publish` the last
revision of the chain (`ReplacedChain`); `Apart` gives `Move` containers nobody else is
taking along; all other actions leave revisions alone and move nothing
(`LocalStep`, `QuietStep`, `FailedStep`, `AddedStep`).

The last two are proved if a publication runs alone and to its end (`AloneToTheEnd`) and no form is
sent (`NoForms`), as in the run `livesite`; outside of that the repository fails them, since a page
rendered in between takes the name of a container that is still to move, and a form writes its
values to the published container too. Edits, links and pages interleave in any way. `SiteInv`
adds to `Inv` that a name and a uuid are of one another and each revision has them once (`Unique`),
that every container has a row in the live or the draft revision (`Complete`), and what each
place of a request has read of rows that others may since have changed (`UpToDate`). Then
`Live` and `Draft` are functions of the rows, and each step changes one of them as an action of
`LiveSite` does, or neither; the step of a publication that moves the rows is its `Publish`.

`ThemeBuildProofs`: `BuildTyped`, `BuildsComplete` and `BuildImplements`, the refinement
of `ThemeReleases` for any number of edits. `Inv` says of each running task what it
has read (`Making`), that no version is ahead of its source and none behind what is listed
or about to be (`Ordered`, `Listing`); initial states map to initial states, and each
step to a `Rebuild` or a stutter (`Allowed`).

`ThemeDeliveryProofs`: `DeliveryTyped`, `InstallationsReverted`, `OfflineReady` and
`ReadersUpToDate`, for any numbers of versions, installations and faults. `Between` bounds
what is anywhere: a file is nowhere newer than the last build nor, while no installation
failed, older than the site's, the backup's or any hash; `Undoable` says that the backup is the last
good theme while there is none in place; `First` that a first worker misses only keys it
is about to fetch, and that nothing is purged before; `Asking` ties a worker's fetches to
what it lists.

`ContentCachingProofs`: `CachingTyped`, `ReadersAnswered`, `CachesBounded` and
`SectionsMarked`, for any pages, events and bounds. `Bounded` needs an account of what is under way
(`Cutting`): unless somebody is about to look at the keys of a cache, the pages that stay in it
and those still to be put are at most `MaxItems` and one for each handler. Every look
establishes it, and every put moves a page from one side of the account to the other.

`ReaderPageProofs`: `ReaderTyped`, `ProfileIsOwn`, `ProfilesKept`, `SubmenuUnderPointer`,
`SubmenusClose` and `SliderInRange`, for any users, menus and sliders. The reason for the
first ones is `CallFits`: token and id of the storage are always of one user, so that a
call for a profile asks for that of the token it carries.

Every invariant and action property of the passing runs is stated by a theorem. Only model-checked:
`PublishedIsListed` with two tenants, which holds for the rules of the run `two_tenants`; and liveness
(`QueueDrains`, `CommandsEnd`, `Updated`), which is out of the prover's reach.

## 6. Assumptions

* Doctrine's identity map and unit of work behave as documented; a query returns the
  managed object unchanged if there is one.
* A flush is one transaction. PostgreSQL's default isolation lets a statement see what
  was committed before it.
* RabbitMQ redelivers an unacknowledged message at the head of the queue after the
  connection is lost, and a rejected one behind messages already delivered.
* One content_push consumer, as in the supervisor configuration.
* Browsers do what the Service Workers specification says: one installation of a
  registration at a time, a worker is stopped only when no event keeps it, a new worker waits for
  the activate event of the one before.
* The server of `ReaderPage` knows one session and the tokens of users; it is modelled by what
  the page relies on, with `ProfileController` for who may see and save.
* One installation of a theme at a time on a tenant; HTTP caches are left out.

## 7. Plan

In this order; each with an MC module, mutants and hazards:

1. `Publishing` (done) with type correctness and soundness proved.
2. `Revisions` (done) against `LiveSite`, with five theorems.
3. `ThemeBuild`, `ThemeInstall`, `PrecacheWorker`, `ThemeDelivery` (done) with
   `ThemeReleases` between them, and `ContentCaching`, `ReaderPage` (done), all with theorems.
4. `ContentLists`: manual lists, batch updates under `updated_at`, change of criteria.
5. `PackageIdentity`: guid, evolvedFrom, destinations of several stories.
6. `RuleMatching`: RulesMatcher and RulesProcessor as functions, against the set of
   destinations `Publishing` uses.
7. `Routes` with menus, `Webhooks`, `Analytics`, `Settings`.
8. Proofs: what a push leaves behind and `Revisions` implements `LiveSite` (done);
   a package's status agrees with its articles, a destination decides (done); type correctness
   and safety of each further module; refinement of the abstract life of a story.

Abstract specifications worth stating: a story's life (pushed, public, withdrawn, killed) per
tenant, implemented by `Publishing` without destinations; a list as a set with a
version, implemented by `ContentLists`; a live site with a draft (`LiveSite`, done);
releases of a theme (`ThemeReleases`, done).

## 8. Not modelled

Rendering and templates, parsing of ninjs, search index, fixtures, users, Facebook, WordPress and paywall calls: they
read the system's state or copy it to another system, and no decision of the modelled
parts depends on them. Within `Publishing`: DELETE of articles, publish windows, media
and authors, related articles, manual lists of a destination, PATCH of a destination,
rules that change while a story is processed, several stories. Within `Revisions`: renaming a
container, its data, positions of widgets, edits of a widget itself (they have no
revisions), the revision log, and the creation of a tenant.

Of the theme: tabs, popups, galleries, the sticky and mobile menus and the registration
form of `onload.js`, which toggle classes or show an answer; the runtime caches of the bundled
sw-toolbox; gulp's task `version` and sources that do not compile; activation of a
theme and what its generators create. The templates of the theme have no slider box, so that
`hsSlide` is modelled for boxes of a site's own. The livesite editor
(`src/web/livesite_editor`) is a minified bundle of another repository.
