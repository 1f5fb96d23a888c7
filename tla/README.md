# A verification of django-tunables

django-tunables keeps a Django project's runtime parameters in the project's own
database. A *catalogue* in code declares every tunable with its type and default;
the database stores *overrides*; every change of the overrides is one numbered
*change set* with its items and a full *snapshot* document. This directory holds
TLA+ models of that machinery, the TLC configurations that check them on small
instances, and proofs, for every instance, of what matters most.

Paths such as `services.py:61` are relative to `src/src/tunables/`, and
`docs/...` and `README.md:n` to `src/`.

## 1. Inventory

### Components, their state and operations

| Component | State | Operations that change it | Correct when |
|---|---|---|---|
| Change-set service (`services.py`, `models.py`, `changes.py`, `document.py`) | `State` row, `TunableValue` rows, `ChangeSet` + `ChangeItem`, `Snapshot` | `apply_changeset`, `rollback`, import (`document_changes` + apply), `prune_snapshots` | versions are gapless, history replays to the overrides, snapshots can be rebuilt, rules hold of what is stored, `expected_version` is honoured |
| Sync (`sync.py`) | the same, plus the mirror (`TunableDefinition`) and the seeded tags | `sync` | overrides fit the stored catalogue, whatever releases run side by side |
| Catalogue and types (`catalogue.py`, `types.py`, `validators.py`) | none (code) | none, but each release brings another | stored JSON keeps its meaning and fits its schema across releases, the hash covers what a stored value depends on and nothing else, rules hold of what a change set leaves |
| Reader (`reader.py`) | a value cache per process, its version label, the time of the last check | `get`/`group`/`all`, `invalidate` | reads see one's own writes, and are at most one window stale |
| Publishers and the signal (`publishers.py`, `signals.py`) | `PublisherState` rows, the published file, pending `on_commit` callbacks | `publish`, `republish` | what is published is committed, every committed snapshot goes out, the bookkeeping tells the truth |
| Retention by date (`prune_snapshots(before=)`) | `Snapshot` rows with their creation times | prune | the current version always has its snapshot |
| Tags (`tags.py`, `sync._seed_tags`, tag admin) | `Tag`, `TunableDefinitionTag` | create, update, delete, `set_manual_tags`, seeding | seeds follow the code, manual rows survive, a seeded tag is not deleted |
| Editing (`forms.py`, `panel.py`, `views.py`, `admin/`) | the version a form saw | build a form, post it, merge, rebind after a conflict | nobody overwrites a change that he did not see |
| HTTP API (`api/`, `search.py`, `schema.py`) | the State row a request cached, its `If-Match` or `If-None-Match`; the copy a client keeps under an ETag | the writes of the service, with dry runs | what an answer says of a version is true of it, a conditional write replaces only what its client saw |
| Access (`access.py`, `api/permissions.py`) | none (the host's policy) | none | no write touches a group that its request may not edit |
| History protection (`tunables_protect_history`, `AppendOnlyModel`) | triggers | install, remove | history rows are never updated or deleted |
| Export (`export.py`), templates, conf, urls, serializers | none | none | formatting |

### How they interact

Every writer goes through the database. `apply_changeset` and `sync` take a row
lock on the single `State` row (`select_for_update`), read, validate, write all
tables and release the lock with the commit. `rollback` and import compute their
change list *before* that lock. `write_snapshot` invalidates the reader of its
process inside the transaction and registers `publish` with `on_commit`; the
callback sends the signal (which invalidates the reader again) and calls the
publishers. `prune_snapshots` deletes snapshot rows in batches with no lock and
no transaction. Releases meet only in the database: `State.catalogue_version` is
the hash of the catalogue that was synced last, and a process whose own hash
differs may not write (`CatalogueOutOfSync`) but may sync, in either direction.

### What is hard

Interleaving (two writers, a writer and a prune, a form and a writer), values
computed before the lock and used after it, READ COMMITTED reads in separate
statements, mixed releases during a deployment, crashes inside a transaction or
between the commit and its callbacks, callbacks that run out of order, caches.
`PROJECT.json` lists each under "hazards" with the line where it bites.

## 2. Modules

| Module | Models | Extends |
|---|---|---|
| `Catalogues` | the pure functions of `services.py`, `sync.py` and `document.py` over a catalogue; no variables | |
| `Store` | the five tables and everything that writes them | `Catalogues` |
| `VersionedStore` | the abstract specification: one numbered history of contents | `Catalogues` |
| `Retention` | retention by count and by age, with time | |
| `Readers` | the value caches of several processes with several threads | |
| `Publishing` | the signal, the publishers and their rows | |
| `Editing` | the form of the admin and of a panel, conflicts, the form bound again | `Catalogues` |
| `Values` | values of Python and JSON, and how calls with them fail; no variables | |
| `Scalars` | the five types of `types.py` whose values have no parts: coercion, validation, JSON form, description, schema | `Values` |
| `Methods` | the methods of a type, as parameters | `Values` |
| `Types` | all seven types, with lists and mappings, which call the methods of their parts | `Scalars`, `Methods` |
| `Declarations` | what a catalogue declares, its hash and its rules, and stored JSON under changing releases; the types are known by their methods | `Methods` |
| `BuiltIns` | the same with the built-in types alone | `Declarations`, `Types` |
| `Tags` | tags and their assignments under the helpers, the tag admin and syncs | |
| `Api` | the requests of HTTP clients and the admin's rollback, query by query, over the store | `Store` |
| `MCStore`, `MCRetention`, `MCReaders`, `MCPublishing`, `MCEditing`, `MCDeclarations`, `MCTags`, `MCApi` | the instances that TLC checks | |
| `CatalogueProofs` | lemmas about `Catalogues` | |
| `StoreProofs` | theorems about `Store`, and about `Api` over it | `Api`, `CatalogueProofs` |
| `EditingProofs` | theorems about `Editing` | `CatalogueProofs` |
| `DeclarationsProofs` | theorems about `Declarations` for all types, and about the built-in types of any depth | `BuiltIns` |
| `ReadersProofs`, `RetentionProofs`, `PublishingProofs`, `TagsProofs` | theorems about their modules | |

Each of `Retention`, `Readers`, `Publishing` and `Editing` looks at one side of
the transaction that `Store` models in full, and keeps of the rest only what its
properties tell apart: `Retention` forgets contents and adds time, `Readers`
knows a change set by a number, `Publishing` a snapshot by its version, and
`Editing` takes one release and makes the transaction one step, which
`LockedIsCurrent` of `Store` justifies: what a transaction does under the row
lock is a function of the state at its commit. `Api` is a composition: it extends
`Store` and its requests take the store's own actions.

A release, in `Catalogues`, is one deployed version of the code: its hash, keys,
defaults, coercion (`Canon`), validation (`Admitted`), and rules over a group or
the whole catalogue. Two releases can share a hash and differ in their rules,
because `Catalogue.version` (`catalogue.py:191`) does not cover validators.
`Declarations` looks at the other side: it writes out what those constants stand
for, type by type, and makes every call one step.

### `Store`

Variables: `version`, `catalogue` (the `State` row, `NoVersion` before the first
sync), `overrides` (`TunableValue`; `Absent` where there is no row),
`changesets`, `snapshots` (tables by version), `lock` (the row lock), and per
process its `release`, `pc`, `call`, `tx` (what it prepared under the lock) and
`doomed` (the list of a prune).

| Action | Code |
|---|---|
| `BeginApply`, `BeginRollback`, `BeginImport`, `BeginSync` | what a caller computes before the lock: nothing for apply and sync, `rollback_changes` and `document_changes` otherwise |
| `Refuse` | `apply_changeset` raises: no `State` row, out of sync, version conflict, a field, group or catalogue error, nothing to change |
| `Prepare`, `SyncPrepare` | the row lock is granted and everything under it is read |
| `SyncCurrent` | `sync` finds that the stored hash is its own |
| `Commit`, `SyncCommit` | all writes become visible and the lock is released |
| `PruneList`, `PruneBatch` | the list of `prune_snapshots(keep)`, then one DELETE per batch |
| `Restart` | a process dies in any state, its transaction is rolled back, and it comes back with any release |

`READ COMMITTED` is what makes two steps of a transaction enough: nothing it
writes is seen before its commit, and the only row it waits for is `State`.
Readers of other tables (rollback, import, prune) see the last commit.

Abstracted: actor, reason, request id, metadata, timestamps, warnings and the
texts of errors; a document is its values and `overridden`. The mirror rows that
`sync` also writes take no part in any property; its tags are in `Tags`.

`VersionedStore` says what all of it amounts to: `Bootstrap` (version 0),
`ChangeSet` (the next version, under the stored catalogue) and `Migrate` (the
next version under another catalogue, with every override that fits it kept and
the others gone). `RefinesVersionedStore` maps the tables to that history.

### `Retention`

Variables: `clock`, `version`, `created` (the snapshot rows with `created_at`),
the row `lock`, and per process `pc`, `started` (its `now`), `stored` (the first
query of a prune), `before` and `doomed`; `aged` is history.
`SyncStart` reads the clock before the lock, as `sync.py:76` does; `ApplyLock`
reads it after. `KeepList` is a prune by count; `AgeList` and `AgeSelect` are the
two queries of a prune by age; `DeleteBatch` is one DELETE. `Abandon` is a crash or
a refusal anywhere.

### `Readers`

Variables: the committed `history`, `attempts`, the row `lock`, per thread the
`phase` of its change set and its `own` attempt, and per process the fields of
`Values`: `cache` (`_values`), `label` (`_version`), `checked` (`_checked_at` is
less than a window ago) and `mutex` (`_lock`), with `seen` for the version that
the first of the two queries of `_current` found. `Check` is `_current` up to
that query, `Load` the second one (`current_values`), `FailToLoad` the exception
it can raise. `Write` drops the cache within the transaction and `Notify` drops
it again in the `on_commit` callback; `FailToNotify` is a receiver that raises
before it. A thread in `Outer` writes in a transaction of the host's, and may
read between its write and the commit or rollback.

### `Publishing`

Variables: `version`, `lock`, per process `pc`, the `pending` snapshots of its
transaction and the publishers `todo`, and per publisher what it `received`, was
`tried` with and `held` last, with `last` and `error` of its `PublisherState` row.
`WriteSnapshot`, `Commit` and `Rollback` are the transaction (of several
snapshots when the host has opened a larger one). `Signal` sends
`snapshot_published` and `ReceiverRaises` is a receiver that ends `publish()`;
`Deliver`, `PublisherRaises` and `Record` are `_send`. `Republish` is
`tunables_publish`; `Crash` a process that dies.

### `Editing`

Variables: the database (`version`, `overrides`, `documents` of all versions,
the versions `kept` by prunes), and per operator `pc`, the `site` and the `page`
in front of him: its hidden `expected` version, the version `from` which it has its
reset boxes, the text of each field (`input`) and the `ticked` boxes; `basis` and
`conflict` belong to a POST. `typed`, `meant`, `told`, `named` and `blind` are history:
what he filled in, which boxes he ticked himself, and what he was told: by a form that
is not bound the stored value of each key, and by notices which keys moved, or that no
key can be named. A form that is bound shows the old input and no stored value
(`panel.html:19`, `admin/form_rows.html:11`).

| Action | Code |
|---|---|
| `Show` | GET: `build_form` over the latest document |
| `Type`, `Tick`, `Untick` | the browser |
| `Post` | the form is built from the document that is latest *at the POST* (`admin/__init__.py:267`, `views.py:69`), then bound |
| `Refuse` | a field or a missing reason (`Unexplained`, where the form is `Demanding` one), `ValidationFailed` or `NothingToChange`: the page comes back with its input and the posted version |
| `Save` | `apply_changeset` commits. The page is left, is a fresh one (a panel), or stays as it was because the answer is lost |
| `Conflict` | `VersionConflict` is kept on the form |
| `Notice` | `conflict_text()`: `diff_versions`, which names the keys that moved, and nothing once a snapshot is pruned |
| `Rebind` | `rebound()`: the old input under the new version; the admin words the notice first, a panel after |
| `Leave` | a missing snapshot in `rebound()`, a request that dies, an operator who goes away |
| `Overwrite`, `Prune` | everybody else |

What a form field makes of a text is the constant `Clean`; `Unchecked` says what it
lets pass without calling the type (Django runs no validator on an empty value, and
a custom type may bring its own field). `FieldAssumption` is that a field returns a
value that it shows: of the built-in types all do, but for a string with blanks at
an end (section 5).

### `Scalars`, `Methods`, `Types`, `Declarations` and `BuiltIns`

`Types` has an operator per method, `Coerce`, `Validate`, `ToJson`, `Describe` and
`JsonSchema`, and `Satisfies`, what a JSON Schema validator makes of the schema; the cases
without parts are in `Scalars` (`CoerceScalar` and so on). A `List` calls
`self.item.coerce(item)`, whatever type its item is, and so `CoerceList` calls the constant
`coerce` of `Methods`. `Declarations` knows types by these constants only: a
`TunableType` may be the host's own. An instance gives each constant the operator that is
defined with it (`coerce <- Coerce`, in `MCDeclarations` by way of a local value), so that
TLC follows the calls down to the types without parts. `BuiltIns` says this of the
constants for proofs: a declared type and its parts are of the seven kinds and have a
`depth` that decreases to the parts, and at each of them, and each value with its parts,
`coerce` is `Coerce` and so on. A call that fails gives `Refused` (a
`ConstraintError`, which the callers answer) or `Raised` (anything else). Numbers are
kept in halves, so that 1, 1.0 and 1.5 differ; floats are exact up to `Precise`, even
integers above it, and an int above `Largest` overflows. Strings are known by their
length and the patterns they match.

`Declarations` has the variables `code` (the running release), `synced` (a release
with the stored hash), `stored` (the JSON of `TunableValue`), `past` (a snapshot that
somebody may roll back to) and `outcome`.

| Action | Code |
|---|---|
| `Deploy` | another release that `Builds`: its categories, groups, defaults and rules pass every check of `catalogue.py` and `check_group` |
| `Sync` | `_drop_stale_overrides`, `_drop_invalid_overrides`, the snapshot and the hash; a `Raised` undoes all of it |
| `Change` | `apply_changeset` of one change: `_prepare_one`, then the rules of the group it touches |
| `Resend` | a change to the value that was served |
| `Rollback` | `rollback_changes`, then the same `Apply` |

A catalogue is a record of groups in the order of declaration, categories and a
label; `Version` is what is hashed, so that SHA-256 is taken to be injective. Names
are numbers in alphabetical order.

### `Tags`

Variables: `tags` (`Tag` by primary key: name and `from_catalogue`), `ids` (the last
primary key), `rows` (`TunableDefinitionTag` by definition and tag: `seeded` and
`assigned_by`), per caller `pc` and `call`, and the history `applied` (the release
that synced last) and `raced` (since then somebody wrote over it what he read before).

| Action | Code |
|---|---|
| `Sync` | `_seed_tags` of any release |
| `Create` | `create_tag`, or the admin's new tag |
| `DeleteRead`, `DeleteWrite` | `delete_tag` and the delete page: the check of `from_catalogue`, then the delete with its rows |
| `SaveRead`, `SaveWrite` | the tag admin: the row is loaded and bound, then all of it is written, or inserted again if it is gone |
| `SetRead`, `SetDelete`, `SetWrite` | `set_manual_tags`: the seeded names, the rows of the DELETE, the inserts and the commit |
| `Abandon` | a crash, a deadlock, a unique or foreign key that the database refuses |

`Sync` is one step: it takes the row lock of `State` against other syncs, and the
rows it shares with a call in progress make one wait for the other, so that it acts
before or after the call's writes. The exception is a row that `DELETE` has found
and then waits for; what it does when a sync has seeded that row depends on the
database and the plan (PostgreSQL rechecks the row, but not the subquery that found
it), and `SetWrite` has both outcomes. `may_create` only refuses calls that
`SetRead` allows.

### `Api`

Variables: those of `Store`, and per process the `stage` of the request that it
serves, the `tag` that came in `If-Match` or `If-None-Match`, the `target` of an
admin's rollback, the `reply` as far as it is computed, and the `copy` that its
client keeps of the document, under its ETag. Each process serves one client: workers
share nothing but the database, and two requests meet only there.

| Action | Code |
|---|---|
| `AskGet`, `Read` | GET of the values, of one group or of the latest snapshot: the two queries of `latest_snapshot` (`services.py:224`), then `_with_etag` |
| `AskWrite` | a write comes in: `initial` compares the catalogue in a query of its own (`api/base.py:45`) |
| `Submit` | the view computes its changes, `write` checks their groups and calls `apply_changeset` with the version of `If-Match`: the store's `BeginApply`, `BeginRollback` and `BeginImport` |
| `Decline` | a group that may not be edited, a version with no snapshot, a document that is refused |
| `DryRun`, `DryValidate` | `current_version()`, then `validate()`, without the lock |
| `AdminCheck`, `AdminRollback` | the rollback action of the admin: `check_editable` on the changes of now, then `rollback()`, which computes them again |
| `Proceed`, `Succeed`, `Fail` | the store's transaction, or what `exception_handler` makes of its exception |
| `Finish` | `finalize_response` reads `State` again for the version header; the client keeps the body |
| `Maintain`, `Crash` | commands beside the requests; a process dies with its request |

`Shown` says which keys a client's URL shows and `ByName` whether it names them
(a key that is missing is then an error, rather than a group that is); `Editable` is
what the host's `EDITABLE_GROUPS` answers. A client of a dry run has no transaction,
so it is a request like the others here and nothing at all in `Store`. A client's
copy after its own conditional write is the copy it had with the items of the answer.

## 3. Runs

| Run | Question | Result |
|---|---|---|
| `store_rollout` | do change sets, rollbacks, imports, prunes and syncs of three catalogues keep history, snapshots and overrides consistent, through crashes and redeployments, and implement `VersionedStore`? | holds |
| `store_calls` | can two change sets, each valid alone, break a rule together? does every call that waits for the lock return? | no; yes, under `Fairness` |
| `retention` | which snapshots can be gone, whatever prunes run beside writers? | version 0 stays, and the newest as many as every `--keep` asks for, but for prunes by age; the current one is listed only if it committed between two queries of a prune by age |
| `readers` | is a cache ever older than its own process's writes, or its label newer than its values? does every version reach the processes that check? | no; no; yes, under `FairSpec`, where a process has no larger transactions |
| `readers_outer` | is the staleness of every process that checks at most its window (docs/reading.md:33-35)? | violated: a read in a larger transaction caches uncommitted values under a number that another process commits after the rollback |
| `publishing` | what is sent, tried and recorded, through failures, crashes and repeats? | only committed snapshots; all of them except what a crash or a raising receiver cut off; only what was received |
| `publishing_race` | is a gap always visible in the row (README.md:193)? | violated by two processes: the older snapshot arrives last and the newer is recorded last |
| `editing` | what can a save replace that its operator was not told of, and change that he did not mean? | only what a notice could not name because a snapshot is gone; untouched keys only after a notice; and always what was submitted |
| `types` | does stored JSON keep its meaning, satisfy the published schema and survive a round trip through a client, while releases retype, redefault, reorder and regroup its keys? does what a change set leaves obey the rules? | yes, while no float rounds |
| `tags` | do the seeded tags follow the code, and stay so, and do those made by hand survive, whoever calls meanwhile? does `--check` see what a sync would do? | yes, but for a call that writes what it read before the sync; yes, but for a lost mark |
| `api` | is what an answer says of a version true, whatever commits between the queries of its request? what can a write replace that its client has not seen, or an API request move that it may not edit? | yes; nothing, if it has an `If-Match`; nothing |
| `api_editable` | is `EDITABLE_GROUPS` consulted "on the exact changes the write would make", in the admin too (docs/api.md:87-93)? | violated: the admin's rollback computes its changes again after the check |

Every property of a passing run is also checked against a bug in the code: the
operators named "Bug variant" stand for a plausible mistake (a dropped guard, a
check made late, a reset left out), and `PROJECT.json` says which one breaks which
property.

### Bounds

- `store_*`: two processes (every race here is between two; a third that waits
  for the lock adds nothing), `MaxVersion` 2 for calls that begin, so histories
  reach four versions when calls that have begun commit late; two keys in one
  group, so that rules have something to relate; `BatchSize` 1, so a prune can be
  interrupted anywhere; three catalogues that differ by a default with a narrower
  type, or by a removed key. With fewer versions a stale rollback and a prune that
  races a commit do not exist. Two values are the least at which a coercion, an
  override that is the default and an invalid stored value occur.
- `retention`: three processes, two instants: a prune, a writer that overtakes it,
  and a second prune; versions up to 5 when writers that have begun commit late. Two
  `--keep` policies meet, and the smallest is 2, so that "how many" is told apart from
  "the current one".
- `readers`: a process with two threads and a window, and another with neither,
  whose writes are part of larger transactions; two attempts at a change set. Two
  threads are what it takes to load beside an invalidation. In `readers_outer` a
  thread of the process with the window has the larger transactions.
- `publishing`: two processes, two publishers (a failure of one before the other),
  transactions of up to two snapshots, two versions.
- `editing`: one operator, since what another one saves is an `Overwrite` to him;
  a form of two keys and a panel with one of them; three versions, so that he can
  meet a second conflict before he saves.

- `types`: six families of releases, between whose members one deployment may move.
  In four of them a single key goes through bounds and types of numbers, of text, of
  lists and of objects, and meets JSON of every kind; one has three numbers under an
  ascending, a descending and a sum rule and under two rules that do not build; one
  moves two groups in order and category. `Precise` 4 and `Largest` 8 with the ints
  5 and 9 make rounding and overflow happen. One old snapshot is enough for a
  rollback. Types nest twice. `Json` is what is sent or declared and what becomes of it:
  on it TLC evaluates `TypesContract` for every declared type. With the parts of each
  that makes 23 types and 45 values, on which it evaluates `BuiltInsAssumption`.

- `api`: two processes, one of which also serves the admin; two keys in two groups of
  the store's catalogues, one readable and editable by name only; versions up to 2
  when requests come in, so that a request can be overtaken by another commit and a
  prune. The releases differ by a key, which is what makes a named key unknown and a
  request out of sync. Here the admin may edit every group. `api_editable` gives the
  admin one group and the client the other, and versions up to 3: one to roll back to,
  one for the admin's own group and one for the client's.

- `tags`: two callers beside the syncs of three releases, which seed one tag, another
  or none on one definition; assignments of different definitions never meet but
  through their tag. Three primary keys: both tags, and one that is deleted and comes
  back.

### Fairness

- `store_calls`: a process that has begun a call keeps running (weak fairness of
  its commit and prune steps), and the database grants the row lock in the order
  of arrival, so a waiting transaction is not passed over for ever (strong
  fairness of `Locks`). Nothing is assumed of beginning a call or of `Restart`.
- `readers`: threads keep reading (`Check`) and loads do not fail for ever
  (`Load`, strong: another thread may take the mutex in between); windows pass
  (`Expire`); a change set that has been written commits or is rolled back, and its
  callbacks run (`Commit` weak, `Notify` strong: a crash or a raising receiver may
  come first). No fairness of writing, failing or restarting.

`EveryCallReturns` and `CatchesUp` are checked by TLC only: fairness and ENABLED
are out of the prover's reach. `readers_outer` assumes the same `FairSpec`, so that its
counterexample is no matter of a process that stops.

## 4. Proofs

Each theorem is about every catalogue, number of processes and bound.

### `StoreProofs`

`Spec` implies every safety and action property of `store_rollout` and
`store_calls`, and the refinement `RefinesVersionedStore`.

The inductive invariant `IInv` is the conjunction of the safety properties of
`Store` with `History`. They hold only together: `LockedIsCurrent` says that a
transaction's items are the ones the current overrides give, which is what lets
a commit extend the history by a step (`AuditTrail`: `HistoryReplays` and
`ItemsAreSteps`), and `RestoresAreCurrent` the same of the changes a call computed
before it waits (both are `CallsAreCurrent` in the run); that
the overrides are the replayed history is what makes a snapshot the document of
its version (`SnapshotsRebuildable`). The argument:

1. `StepKinds`: every step is `Quiet` (deletes old snapshots at most), `Grows`
   (writes the next version) or `Begins` (creates version 0).
2. `ReplayedExtends`: adding a change set leaves the replay of the past alone
   and its items are the step to the new version.
3. One lemma per conjunct (`TypeStep`, `LockStep`, `GaplessStep`, `Recorded...`,
   `FitStep`, `RestoresStep`), joined in `NextInv`.
4. The action properties and the refinement follow from `IInv` and `StepKinds`.

Assumptions: `CatalogueAssumption` (types), `RoundTripAssumption` (coercing a
coerced value changes nothing) and `HashAssumption` (releases with one hash agree
on keys, defaults, coercion and validation), each evaluated by TLC on the
instances; `DeclarationsProofs` proves the last two of every declared catalogue.
`HashAssumption` is what `Catalogue.version` is for.

### `ReadersProofs`

`LabelsNeverAhead` and `OwnWritesRead`. Alone they are not inductive: a load
stores a label that an earlier query read, so the invariant adds that whoever is
between the two queries may read (`LoadersMayRead`), that what the first query saw
is no newer than the database (`SeenIsPast`), and that a call returns only
committed versions (`ReturnedIsPast`). The heart is the order of the two queries in
`_current`: the version first, the values second, so that the values can only be
newer than their label. Assumption: `ReadersAssumption` (types).

### `EditingProofs`

`ReplacedIsTold`, `UntouchedStays` and `SavesWhatIsShown`. The invariant says of the
database that the newest document is that of the overrides (`DocumentIsCurrent`) and
that no override is the default (`OverridesAreClean`); of each page that `expected <=
from`, that a POST is read against `from` or newer, that ticked boxes are on the page
(`PagesBehind`); that what its operator was told is what is stored at the expected
version - or, while a conflict is answered, at the version that the form comes from or
will be bound to - unless a notice was blind (`ToldOfPage`); and that a field which he
left alone and no notice named has the text he was told (`Kept`).
1. A save needs `expected = version`, and `expected <= from <= basis <= version`: so
   what he was told is what is stored now (`SavedIsTold`), which is `ReplacedIsTold`, and
   the POST reads its boxes from the current document.
2. An untouched field that no notice named then holds the current value. Submitting that
   is no change: an override comes back canonical and is not the default, the default
   comes back as no override. `DefaultAssumption` (a default is its own canonical
   form, which building a `Tunable` enforces) and `OverridesAreClean` are needed
   exactly here. After a sync the latter can fail (section 5), which is why `Editing`
   has one release. `FieldAssumption` says that the field gives back what it shows.
3. One lemma per action shows that only the operator's own page moves (`Moves`) and
   is safe afterwards (`Safe`); pages that do not move stay safe because documents
   of the past do not change (`Undisturbed`); `OneMoved` and `NoneMoved` put them
   together.

### `StoreProofs`, of the API

`ApiImplementsStore` and `ApiImplementsHistory`: behind the requests the store is
`Store`, so that every theorem of `StoreProofs` holds of it, and the invariant of the
API may use `IInv`. On top of it `ApiTypeCorrect`, `AnswersTrue` and `SeenIsReplaced`.
A request is a chain of queries, and `AnswersAreTrue` alone says nothing of its middle:

1. `Stamped`: the document of the current version was written under the stored
   catalogue. So a sync of another catalogue always comes with a new version, and a
   version that has not moved vouches for the catalogue too.
2. `Linked`: a request names the version of its client's copy or none, and hands it on
   to its call; versions it has seen are no newer than the database.
3. `Honest`: what the client keeps or will keep is the document of its version, as
   long as that has a snapshot. Documents are written once (`StoreMoves`), so this
   survives every step of the others.
4. `Checks`: what was in sync, and valid, at the version that `If-Match` names is so as
   long as the version is current, because overrides and catalogue move only with it.

`SoundFrame` shows once that steps of other processes leave all of this; then one lemma
per kind of step. `CheckedIsWritten` needs `LockedIsCurrent`: the items that commit are
those of the call, and the call's changes are those that were checked (`Allowed`). It is
about API requests, and holds whatever groups the admins may edit.
Assumptions: `ApiAssumption` (types) and those of `StoreProofs`.

### `RetentionProofs`

`TypeCorrect`, `CurrentIsLost` and `NewestStay`. The invariant adds to the first two
properties what a call of prune holds between its queries (`CallsOfPrune`: a list only
while it deletes, found among versions that existed) and `CountsAreRight`: what a prune
by count has listed was, and so stays, at least some `--keep` behind the current
version, as versions only grow. `NewestKept` follows, as every version that is gone was
on such a list or went to a prune by age. `OldestAreSpare` and the lemmas before it are
about the cardinality of "the versions newer than this one" and use `FiniteSetTheorems`.
Assumption: `RetentionAssumption` (types).

### `PublishingProofs`

`TypeCorrect`, `SnapshotsAreTried` and `RecordsAreTrue`. The invariant adds that what
waits in a transaction are the versions after the current one, and what is being sent
are committed ones (`SendsCommitted`), and that a row is saved only after the call of its
publisher (`RecordsCalls`). `Owes` splits "still to be sent" by process: a step of one
process accounts for what that process owed (`OneSends`), a commit adds exactly the new
versions, and what ends a call hands the rest to `lost` (`EndStep`). `CallStep` does the
same for everything a call does after its commit. Assumption: `PublishingAssumption`.

### `TagsProofs`

All five properties of `tags`: `TypeCorrect`, `DriftIsRaced`, `CheckIsComplete`,
`HandmadeIsKept` and `SetsReplace`. The invariant `IInv` is the conjunction of

- `Tables`: the constraints of the two tables. `CheckIsComplete` follows from it alone:
  without drift a sync has no tag to insert (`MirrorIsFixed`), and what a sync leaves
  unchanged are exactly its seeds (`FixedIsMirror`).
- `Calls`: a loaded tag has a primary key that was given out, and one that was loaded
  as seeded is saved under its name. `DriftOnlyByRace` needs the second: else a save
  could rename a seeded tag without having read anything stale.
- `Mirrored`, which is `DriftOnlyByRace` said as two equations. A seeded row belongs to
  a marked tag (`SeededAreMarked`), so a call that read no mark touches no seeded row.
- `Fresh`: what `set_manual_tags` has read, and the rows its DELETE found, are still those
  of its definition while nobody else has written to it. It makes `SetStep` an equation
  between names before and after.

Each write has its lemma (`SyncKeeps`, `CreateKeeps`, `DeleteWriteKeeps`, `SaveWriteKeeps`,
`SetWriteKeeps`); `FreshStays`, `MirrorStays` and `TablesStay` say once what a step may
not touch. Assumption: `TagsAssumption`, with finitely many names, as a sync inserts all
new tags at once.

### `DeclarationsProofs`

All seven properties of `types`: `TypeCorrect`, `ReadersAlwaysGetValues`,
`VersionIsAlwaysExact`, `EditsChangeNothing`, `RollbacksRestoreValues` and
`ChangesAlwaysObeyRules`, for any catalogues, releases, types and JSON values, and
`SchemasAreAlwaysExact` for the built-in types. Assumptions of the first six:
`DeclaredAssumption` (types) and `TypesContract`, what docs/catalogue.md:270 asks of a
type and what the built-in ones make of JSON: `coerce` takes what `to_json` gives and
gives the same value back; what it takes is stored as it came and what is accepted
satisfies the schema, unless a float rounds; types with one description treat all JSON
alike.

`ReadersGetValues` is not inductive: a release in sync is another one than the release
that wrote, and a rollback brings back what a third one stored. The invariant `IInv`
says that the running and the synced release build, that the overrides are JSON which
the types of the *synced* release accept under its keys (`Accepted`), and that the old
snapshot is so under the types of its own release, which builds as well.

1. `OneHash`: releases with one hash have the same keys and, key by key, descriptions
   and defaults in JSON; by the contract they accept the same and read it alike
   (`InSyncAlike`). So what the synced release accepts the running one accepts too.
2. `Prepared`: what a change stores was accepted as it came, so its JSON form is accepted
   as well. `ApplyStep` is the same of a whole change set, `SyncStep` of what a sync keeps
   (it checks each value again).
3. `ServedIsAccepted` joins the two cases of a key, override and default. A value served
   and sent back is then equal to the one served (`ChangeIsServed`); a rollback stores what
   it wants, or leaves what is equal to it.
4. `VersionIsExact` needs the converse: catalogues that differ in categories, rules and the
   order of declaration at most are hashed alike (`DataIsHashed`), as the place of a group
   counts only the groups before it by order and name.
5. `ChangesObeyRules` compares two readings of a rule. The code adds floats and ints apart,
   looks at neighbours and pins the named ends; `Meant` adds all terms, compares any two and pins
   the least and the greatest. `SumsExist` and `SumsAdd` (partial sums, by well-founded
   minimum instead of an induction theorem), `NeighboursSuffice` and `EndsSuffice` bridge
   them. `CheckedGroupObeys` then needs that every tunable under a rule is a number, which
   is what `check_group` refuses a catalogue for (`Fits`).

The contract itself is proved of the built-in types, of any depth, with any bounds, patterns
and choices: `BuiltInsKeepContract`, with `JsonValues` for `Json`. It rests on
`BuiltInsAssumption`, which has no more than the code of each method: there is neither a
recursive operator nor an induction theorem to use here, so the recursion is a family of
equations over a set of types that has the parts of its types and a depth that decreases
to them, and over a set of values with their parts.
`TypeInduction` is then a minimum of depths: among the types that would lack a property
one has the least depth, and its parts have the property.

6. `ScalarsKeepContract`, `DescriptionTellsApart` and `ScalarSchemasAreExact` are the
   types without parts, for any value. `CoerceOfList`, `ValidateOfMapping` and the like
   say once what a method with parts returns: the value, or the failure of one part.
7. `KeepsValues` (a value is stored as it came, and read back) goes part by part; a key of
   a mapping is the same string before and after its type (`StringsStay`).
8. `DescriptionsTellApart`: lists or mappings with one description have the same bounds and
   parts with one description each, so that they act alike by induction on *both* types.
9. `SchemasAreExact`: what `admits` says of a list is what it says of the items, `minItems`,
   `maxItems` and `uniqueItems`. The last is the hard one. The code counts the set of the
   items' JSON under Python's `==`, where `True` is 1 (`types.py:250`), and a schema
   compares any two items under JSON's, where it is not. `AsManyImages` turns the count into
   "any two differ", and `OneEquality` shows that among values that one scalar type takes the
   two equalities agree, as no type takes both booleans and numbers.
10. `TypesAnswer` and `EveryCallIsAnswered`: unique lists of lists and an `int` that
   no float holds (section 5) are the only ways to an error that is no answer. A catalogue
   with no unique list of lists or objects, given no such number, never raises anything but
   a refusal, in no sync, change set or rollback over any history of releases.

The three theorems `ReleasesRoundTrip`, `DefaultsAreCanonical` and `HashesAgree` close the
gap to the modules that know a release by its constants: `RoundTripAssumption`,
`DefaultAssumption` and `HashAssumption` are true of every catalogue that builds, if
`CanonIn`, `DefaultIn` and `AdmittedIn` are taken for `Canon`, `DefaultOf` and `Admitted`.
So the theorems about `Store`, `Api` and `Editing` rest on the contract of the types, and
not on three facts about catalogues, and for the built-in types on the code of each
method alone.

### Only model-checked

- `EveryCallReturns` and `CatchesUp`: liveness, out of the prover's reach.
- Every violation, of course.

## 5. What the code does otherwise than its documents say

The violation runs and the findings in `PROJECT.json` show three. Further ones that
have no run of their own:

- docs/catalogue.md:218: "`List(unique=True)` compares items by their JSON form, so lists
  of lists work." `List.validate` puts them into a set (`types.py:250`), and the JSON of a
  list or a mapping cannot be hashed: a change set, a form, a sync or the declaration of a
  default with such an item ends in a `TypeError` (`Unhashable`; `outcome` is `"raised"` in
  the release `"lists"` of `types`).
- docs/snapshot-format.md:185: "Version 0 and the current version always stay, whatever
  the policy asks for." A prune by age protects the newest version of its first query and
  selects by `created_at` in a second; `sync()` reads its clock before it waits for the row
  lock (`sync.py:76`). A sync that commits between the two, with a time before the instant,
  has the current snapshot deleted (`SyncStart`, `AgeList`, `Commit`, `AgeSelect`). That this is the
  only way is `OnlyARaceDoomsCurrent`.
- docs/api.md:66: "After a write it is the new version." `X-Tunables-Version` is read
  after the commit, and can be that of a later one (`Finish`; `HeaderIsNotOlder` is
  what holds).
- A GET between whose two queries the version is overtaken and pruned ends in
  `Snapshot.DoesNotExist`, for which `exception_handler` has no answer (`Read`,
  `GoneIsOld`); so does the admin's rollback to a version that is pruned after its check,
  with `UnknownVersion` (`admin/__init__.py:356`).
- docs/embedding.md:205: `rebound()` "returns the same input bound against the current
  version". A reset box exists only for a key that is overridden (`forms.py:177`): when
  somebody else has removed the override that the operator ticked for reset, the tick
  is dropped and the field keeps the old override as its text, so that submitting the
  form again stores the override that both wanted gone (`Rebind`, `Changes`).
- A dry run that began in sync and validates after a sync of another release gives the
  verdict of its own catalogue, where the write would be refused (`DryValidate`); with
  `If-Match` the verdict is right as long as the version is (`DryRunIsRight`).
- `If-Match` and `version` parameters pass `isdigit()` with digits that `int()` refuses,
  such as superscripts (`api/writes.py:35`): a `ValueError` instead of an answer.
- docs/admin.md:97: a rollback "restores every override to what it was at that
  version". The admin's passes no expected version (`admin/__init__.py:357`), and its
  changes are computed before the lock (`services.py:127`): what commits in between
  survives it. With an expected version it is exact (`ConditionalRestoreIsExact`).
- docs/catalogue.md:168: "`tunables_sync --check` reports these differences". A tag
  that the code seeds but that is not marked is none of them (`sync.py:54`), although
  the next sync marks it, and meanwhile it can be renamed and deleted. A save in the
  tag admin that loaded the tag before a sync leaves it so (`SaveWrite`); hence the
  second conjunct in `CheckFindsAll`.
- docs/admin.md:44: "A seeded tag cannot be deleted." It is, with its assignments, by
  a `delete_tag` that read it before the sync that seeded it (`raced` in `Tags`).
- sync.py:168: "Only rows this command created carry SYSTEM, so anything else was
  attached by a caller." A caller whose name is "system" is taken for the command,
  and his assignment goes with the seed. `TagsAssumption` excludes the name.
- docs/api.md:210: "`overridden` never lists a key that holds its default". A sync
  drops only what its types refuse (`sync.py:183`, `SyncItems`): an override that the
  new catalogue makes its default stays.
- `types.py:20`: coerce "raises TypeCoercionError". `Float.coerce` of an int that no
  float holds raises `OverflowError` in `math.isfinite` (`types.py:105`): the change
  set ends in a server error, and after `Integer` has become `Float` over such an
  override so does every `tunables_sync`, until someone deletes the row (`Sync` with
  `Raised`). `rule_violations` "raises nothing" (`services.py:380`) no more than that.
- An int that a float rounds stays in the document as it was stored when its type
  becomes `Float`: readers get another number than clients of the document, and the
  rounded one may be within a bound that the served one exceeds (`Exact`).
- A schema with `"type": "integer"` admits `1.0`, which `Integer.coerce` refuses
  (`Whole` in `SchemaIsExact`).
- docs/catalogue.md:320 says that changing a group's `order` creates a new version;
  only a change of the sequence of groups does (`Place`).
- A `pattern` goes into the schema as it is (`types.py:185`): Python's `re.search` and the
  regular expressions of JSON Schema differ in places, which `Matches`, one operator for
  both, cannot tell.
- A sum of integers and floats rounds in the code and not in `SumsTo`; a sum of integers
  too large for a float is refused in `SumsTo`, and in the code (`validators.py:64-80`)
  only where it meets a float. `ChangesObeyRules` says nothing of either.
- The form of a `String` is a `CharField`, which strips: a stored string with blanks
  at an end is changed by a save that left it alone. `FieldAssumption` excludes it.

- `reader.py:28`: "A write in this process drops the cache at once, so it never
  serves a value it just replaced." Another thread can fill the cache with the old
  values between the drop inside the transaction and the commit, and they are
  served until the `on_commit` callback (`Write`, `Load`, `Commit`, `Notify` in
  `Readers`; `OwnWritesAreRead` counts from the return of the call).
- docs/reading.md:37 presents `values.version` as the version of the values; they
  can be newer (`LabelNeverAhead` says: never older).
- docs/admin.md:81 says that after a conflict the page reloads "with the new values"
  and that edits are not kept; the code keeps them, as docs/embedding.md and
  CHANGELOG.md:212 say, and renders no new value (`panel.html:19`,
  `admin/form_rows.html:11`): the notice names the keys that moved, not what to.
- README.md:170: a receiver of the signal that raises skips every publisher
  (`ReceiverRaises`).
- README.md:181: the worker of a `QueuedPublisher` that runs
  `tunables_publish VERSION` sends the version to its own queue again.

## 6. Not modelled

- The mirror of definitions, a copy of the catalogue that nothing else writes.
- Of catalogues: identifiers, sections, catalogue validators and validators of the
  host (a predicate over a group in `Store`); of types: custom ones, and form fields
  beyond `Clean`.
- Of the HTTP API: the lists of groups, definitions, tags and change sets, search, the
  diff and the OpenAPI schema. They are reads of one query, sorted, cut and formatted;
  the page of the change sets is a count and a slice in two queries, and a commit
  between them moves entries by one. Tags over HTTP are the helpers in `Tags`.
- The host's policies, authentication and permission classes, but for the groups of
  `EDITABLE_GROUPS`; a policy that changes while a request runs.
- The page of a form that is built for a request, beyond what `Editing` says of it.
- The append-only triggers run inside PostgreSQL; that nothing changes a change set
  holds of `Store` because no code does.
- The worker behind a queue is the host's; `FilePublisher`'s temporary file is left
  behind by a crash and never read.
- Commands, export, templates, settings and errors: arguments and formatting.
  Migrations run once, alone.

## 7. What could follow

Done: all modules of section 2, with proofs of `Catalogues`, `Store`, `Api`, `Readers`,
`Retention`, `Publishing`, `Editing`, `Tags`, `Declarations` and the built-in types. Every
safety and action property of the passing runs is proved.

What is worth adding is composition: the callback of `Store`'s commit with the caches of
`Readers` and the publishers of `Publishing` in one order of `on_commit` callbacks.
