# crapnote: TLA+ specifications

crapnote is a note-taking server (Go, SQLite) with an installable web client (Svelte)
that goes on working without a network. This directory holds TLA+ modules for the parts in which
the order of events decides whether a note survives, TLC configurations that check
them on small instances, and proofs for TLAPS. Paths below are relative to the
repository; `backend/…` stands for `backend/internal/…` unless it names `cmd`.

## 1. The system

| Component | State | Operations | What is hard |
|---|---|---|---|
| Note store (`backend/notes`) | `notes` table: text, flags, lock, archived, pin slot, `updated_at` | create, update, toggle star/pin/lock, reorder pins, archive, unarchive, auto-lock | every handler but a few is several SQL statements; the lock must hold against handlers already running |
| Trash (`backend/trash`) | `trash` table, `deleted_at` | restore, delete one, empty, purge | permanent deletion reads the trash in one statement and deletes notes in later ones |
| Database (`backend/db`) | one SQLite file, one connection | | the connection serialises statements, not handlers |
| Accounts (`backend/auth`) | users, sessions, invites | login, logout, password, invite, setup, admin lock | a slow hash between reading and writing; sessions revoked before one is created; requests lost half way |
| Login lockout (`auth/lockout.go`) | failed logins per address and name, in memory | check, count a miss, clear, evict, sweep | many logins at once; a full table |
| API tokens (`backend/tokens`) | tokens; a bounded queue of uses | create, verify, revoke, record use | the queue drops when full; revocation against use |
| MCP server, API description (`backend/mcp`, `apispec`) | nothing; the registry of operations | tool calls replayed through the middleware, singly or in a batch | one check for a whole batch |
| Rate limiter (`backend/ratelimit`) | token buckets | allow | refilled only on use, forgotten when unused |
| Images (`backend/images`) | blobs with an age | upload under a quota, serve, orphan sweep | check-then-insert; read bodies, delete later |
| Tags (`backend/tags`) | tags, links to notes | create, rename, delete, add, remove | three checks before an insert |
| Export (`backend/export`) | nothing | list, fetch images, write the archive | the images go while it runs; equal names |
| Settings, version, proxy headers, metrics | one row, or nothing | single statements, reads | |
| Server process (`backend/cmd/server`) | tickers | session purge, trash purge, auto-lock, image sweep | jobs interleave with handlers |
| Offline cache (`frontend/src/lib/offlineDB.ts`) | IndexedDB rows with what is queued on each | put, get, delete, read-modify-write | two transactions are not one |
| Queued actions (`lib/offlineActions.ts`) | | delete, archive, toggle while offline | read in one transaction, written in another |
| Offline replay (`lib/offlineSync.ts`) | a snapshot of the queued rows, a mutex | create, reconcile flags, push text, remove | requests fail before or after they took effect, other devices write in between, the tab closes |
| List page, note page (`routes`) | lists, drafts, an in-flight replay | edits, cache refresh, heartbeat | asynchronous reads applied late |
| Save acknowledgement (`lib/noteSave.ts`, `titleCommits.ts`) | dirtiness, latest request per field | acknowledge, guard a read | answers out of order |
| Signed-in state (`lib/stores/auth.svelte.ts`, `localData.ts`, `offlineUnlock.ts`) | the owner of the store, cached user | sign in, out, unlock offline | one browser, two accounts |
| Service worker, editor plugins, CLI, extension | | | no shared note state |

The client calls the note and trash handlers over HTTP. The background jobs write the
same tables as the handlers. On the device, the pages, the queued actions, the refresh of the
cache and the replay share one IndexedDB store and are interleaved at every `await`.

What makes the parts correct, in one line each: a lock freezes a note; the trash is the
only way out and takes seven days; a text written on a device is queued until the server
has held it; the replay never undoes what another device did on purpose; nothing stays
queued for ever. Around them: a session ends with the password or the lock that replaced what it was
opened with, and a setup link is used up; nothing a request passes gives more than its limit or its scope; a drag
never moves a note the user did not move; an image goes when no note mentions it, and not before. `PROJECT.json` lists each hazard at the line where it bites.

## 2. Modules

| Module | Models | Composes |
|---|---|---|
| `NoteStore` | the `notes` and `trash` tables, the handlers on them, the two jobs | refines `NoteLifecycle` |
| `NoteLifecycle` | what may happen to a note, with no requests | |
| `OfflineSync` | one device's cache, its local writes and its replay, against the server as the client sees it | |
| `Accounts` | users, cookie sessions, setup links and the handlers on them, with requests that are lost | |
| `RateLimit` | the token bucket per address, against an ideal one | |
| `Lockout` | the failed-login table and the logins around it | |
| `Tokens` | API tokens, what a bearer request or an MCP batch may call, and the usage recorder | |
| `PinList` | what the order of the pinned notes promises, as a relation | |
| `PinOrder` | the slots: pinning, dragging, and the trash in between | refines `PinList` |
| `Images` | uploads, quota and orphan sweep, beside notes being written | |
| `Tags` | tags and links, beside notes, tags and users going away | |
| `Export` | one archive: its images and its names | |
| `MCNoteStore`, `MCOfflineSync`, `MCAccounts` | the instances TLC checks | |
| `MCGates` | what a request passes before the notes | `RateLimit`, `Lockout`, `Tokens` |
| `MCLibrary` | what hangs on the notes | `PinOrder`, `Images`, `Tags`, `Export` |
| `NoteStoreProofs`, `OfflineSyncProofs`, `AccountsProofs`, `RateLimitProofs`, `LockoutProofs`, `PinOrderProofs` | the theorems about the module they are named after | extend it |
| `GatesProofs` | the theorems about `Tokens`, and about `MCGates` | `MCGates`, `RateLimitProofs`, `LockoutProofs` |
| `LibraryProofs` | the theorems about `Tags`, `Export` and `Images`, and about `MCLibrary` | `MCLibrary`, `PinOrderProofs` |

`MCGates` and `MCLibrary` put modules side by side that share no variable. A behaviour of all of them together, seen
through the variables of one, is a behaviour of that one with stutters; so it is enough to let one of them run in every
behaviour (the variable `gate` or `shelf` says which) and the others stand still, and the product of their states is never built.
That the runs' specifications imply those of their parts is a theorem (`GatesStandApart`, `ShelvesStandApart`).

### NoteStore

One SQL statement is one step: `db.go` allows a single open connection, so statements
are serialised, and SQLite makes each atomic. A handler of several statements
occupies a slot of `Request`, and `req[r]` holds its local variables.

| Definition | Code |
|---|---|
| `rows`, `note`, `trash` | the tables; `gone` are the ids deleted, never used again (`AUTOINCREMENT`) |
| `LockRead`, `LockWrite`, `Answer` | `Service.ToggleLock`: `IsLocked`, `setBool`, `Get` |
| `UpdateWrite`, `UpdateAnswer` | `Repo.Update`: the guarded `UPDATE`, then `Get` for the note or for the reason |
| `TrashInsert`, `TrashAnswer` | `Repo.SoftDelete`: `INSERT OR IGNORE … WHERE locked = 0`, then `IsLocked` |
| `ArchiveWrite`, `ArchiveAnswer`, `Unarchive` | `Repo.Archive`, `Repo.Unarchive` |
| `Restore`, `DeleteOneCheck`, `EmptyList`, `DeleteNext` | `backend/trash/repository.go` |
| `AutoLockStale`, `PurgeExpired` | the jobs started in `cmd/server/main.go` |
| `GoStale`, `Expire` | the clock passing `updated_at` plus the window, `deleted_at` plus seven days |
| `Abort` | the request's context is cancelled, or the process restarts: the statements left over do not run |

Abstracted: one account (every statement is filtered by `user_id`); title and body are one
`Content`; a time is the one comparison the jobs make with it. A request that names an id the
table has never held is answered 404 without an effect and is left out. `Repo.HardDelete` has no caller.

`NoteLifecycle` is the promise: a note is absent, kept, in the trash or gone;
`archived` and `locked` are statuses it carries along; only unlocked notes are rewritten,
archived or trashed; and a note is gone only after it was *doomed* while it was in the trash, by
the end of its retention or by a request to delete it for good. `ImplementsLifecycle` is the refinement;
its mapping sends `doomed` to the ids collected by a running deletion together with the expired ones.

### OfflineSync

A request is one step, because its answer is computed on the server; what handlers do
between their statements is the subject of `NoteStore`. An IndexedDB transaction is one
step. Everything else interleaves: the replay, the two halves of a queued action,
the fetch and the write of the refresh, and the other devices.

| Definition | Code |
|---|---|
| `cache` | the rows of the notes store; `base` is `server_updated_at`, `toggled` is `flags_toggled` |
| `srv`, `copies` | the notes on the server, as the API shows them; the `[sync conflict]` notes, by content |
| `Edit`, `CreateOffline` | `saveOfflineEdit`, `createNoteOffline` |
| `Held`, `MarkRead`, `MarkWrite` | the note a page shows (`mergeServerWithCache`), and `offlineActions.ts` on it: delete, archive, toggle, from the cached row or, if there is none, from the note shown |
| `ListFetch`, `ListCache`, `EvictRead`, `EvictDelete` | `cacheNotesForOffline` |
| `Begin`, `NextNote`, `End`, `FirstPhase` | the loop of `syncOfflineChanges` |
| `SyncCreate`, `SyncUnkey`, `SyncRekey` | `syncNewNote` |
| `SyncGetFlags`, `SyncToggle`, `SyncSaveFlags` | `reconcileFlagsCheckpoint` |
| `SyncGetContent`, `SyncCopy`, `SyncPut`, `SyncSaveContent`, `SyncAcceptServer` | `pushContentCheckpoint` |
| `SyncArchive`, `SyncDelete`, `SyncUnlock`, `SyncDeleteAgain`, `SyncAbandon`, `SyncDrop` | `syncArchivedNote`, `syncDeletedNote`, `abandonLockedRemoval` |
| `RemoteEdit`, `RemoteFlag`, `RemoteMove` | other devices, and the auto-lock job as a `RemoteFlag` |
| `NetworkError`, `TabClosed` | any request or transaction of the replay failing, before it took effect or after; the tab gone at any point |

`version` is `updated_at` as the API formats it, in whole seconds (`notes/handler.go:382`),
so two writes may share one (`Stamps`). A conflict is won by the later of two
clocks, which may disagree: either side wins. `starred` stands for both flags that guard nothing; `Rank` is the order in which the
replay takes the flags, each compared once, the lock last.
`history` is written by the actions and read by the properties only.

Not in this model: a second tab on the same store, the owner check, online saves, an edit to a note the cache
does not hold (a row recreated after the replay has re-keyed or dropped it), two refreshes at once, and tags. A page
holds what the store or the server's list holds at that time (`Held`): a copy older than both, and a note still shown under its temporary id when the replay
has re-keyed it, are left out.

### Accounts

A handler is a slot of `Request` whose SQL statements are separate steps; `RequestLost` ends it between any two of them
(the client hangs up, which cancels the context the statements run under, or the process stops).

| Definition | Code |
|---|---|
| `user`, `sess`, `inv` | the tables `users`, `sessions`, `user_invites`; the last two cascade with the user |
| `LoginFind`, `LoginClear`, `LoginSession` | `Service.Login` after the cool-down: the row and the hash, the lapsed lock, the session |
| `ValidateSession`, `ValidateUser`, `ValidateHeal` | `RequireAuth` with a cookie: the session, its user, the deletion of a locked user's session |
| `ChangePassword`, `ChangePasswordSet`, `RevokeUserSessions` | `Service.ChangePassword` |
| `Admin`, `CreateUser`, `InviteUser`, `LockUser`, … | `RequireAdmin` and the handlers of `admin_handler.go` |
| `CreateInvite`, `CreateInviteInsert`, `CreateInviteFails`, `InviteUndo` | `Service.CreateInvite` and what `InviteUser` does when it fails |
| `SetupFind`, `SetupSet`, `SetupUnlock`, `SetupConsume` | `Service.CompleteSetup` |
| `SessionExpires`, `InviteExpires`, `DeleteExpired` | time, and the daily job (`main.go:163`) |

A password is only whether it has been replaced since a session was opened. A lock on the row is an administrator's, or one of an
older version whose time is over (`LockUntil` has no caller today). `admin` in a request is the copy of the row `RequireAuth` read, which
the handler uses to its end. The ages of a session and of a link carry history: whether the login or the regeneration was overtaken
by another request, and whether the request that had to clean up was lost. `overtaken` in an admitted administrator's request says that its caller has been
locked or deleted since (`Withdrawn`).

### RateLimit, Lockout, Tokens

Every method of the limiter and of the lockout table holds its mutex and is one step. Times are ticks relative to now. `RateLimit`
counts in parts of a token, so that the float arithmetic of `Allow` becomes whole numbers, and keeps beside the buckets the level of an
ideal bucket, `credit`. It assumes `TTL * Refill >= Burst`, that is, that a bucket is full by the time it is forgotten: the settings
`main.go` starts from satisfy it (5 tokens at 5 a minute, 300 at 600 a minute, forgotten after ten minutes), the environment can break it, and
then a collection gives tokens away (`ratelimit.go:86`).

In `Lockout` a login passes the check (`LoginCheck`), compares the password while others run, and is counted (`LoginWrong`), cleared
(`LoginRight`) or neither (`LoginLocked`: the account's own lock, or a database error). `Evictions` are all the choices `evictLocked` may make
among entries of the same age, since Go's sort is not stable. `forever` is the policy's cool-down of zero.

In `Tokens` the registry is represented by operations of each kind that is let through differently (`Op`, a set of their names, with `CookieOnly`, `AdminOnly`, `ReadScope`,
`McpOps`); `Permitted` is the chain of middleware `newMux` puts in front of it. An MCP request stays `in` after each call and goes on with
the context it came in with, as `dispatch` replays it; `CutOff` records what a request has been overtaken by. `Stamp` and `Send` are two steps because
`Record` reads the clock before it sends; `Drain` is the recorder's goroutine. Nobody calls its `Stop`.

### PinOrder, Images, Tags, Export

`PinOrder` keeps what `notes.pin_order` holds. `TogglePinRead` and `TogglePinWrite` are `Service.TogglePin`; `ReorderPins` is one transaction
(`pinnedIDs`, `mergePinOrder`, the updates). Notes with equal slots are shown by `updated_at`, which any edit changes: their order is any order
(`EditOrders`). `missed` is history: a drag has left the note out because it was in the trash. The refinement maps the slots to the
relation `above` on the notes that have not been missed.

`Images` has an upload as `UploadCheck` and `UploadInsert`, and `SweepOrphans` as the statements it runs: the users with aged images, one user's
candidates, the bodies, the deletion in chunks. `Tags` has `AddToNote` as three statements and `RemoveFromNote` as two. `Export` lists in one statement,
fetches the images one by one and names the entries; titles are what `sanitiseFilename` has made of them, as sequences of numbers, so that "Note 2" and the
second "Note" can meet.

## 3. What is checked

| Run | Instance | Result |
|---|---|---|
| `NoteStore` | 2 notes, 1 content, 2 handlers | passes, about 311 000 states |
| `OfflineSync` | 1 cached note, 1 edit here, 1 change elsewhere, 1 fault, 2 queued actions, the lock, 2 seconds | passes, about 1.97 million states |
| `OfflineSyncNew` | 1 note born offline, 3 server ids, 2 flags, 1 change elsewhere, 1 fault, 1 queued action | passes, about 331 000 states |
| `Accounts` | 2 users, 2 sessions, 2 links (3 of the four at most), 2 requests, slots of a kind interchangeable | passes, about 1.46 million states |
| `Gates` | 2 addresses, 2 names, 2 logins, a table of 2; 2 users, 1 token, 2 requests, a channel of 1, 2 uses | passes, about 474 000 states |
| `Library` | 3 notes to pin, drags naming up to 2; 3 images, 2 users with a quota of 2, 2 uploads, 1 note mentioning up to 2, a batch of 2, 1 fault; 2 users, notes and tags, 1 request; archives of up to 3 notes | passes, about 398 000 states |
| `NoteStoreTrashAnswer`, `NoteStoreDelete`, `OfflineSyncRemoval`, `OfflineSyncConflict`, `OfflineSyncLock`, `PinOrderRestore` | the smallest that shows it | one property each, refuted: section 6 |

`NoteStore`:
* `LockHolds`, `RetentionHonoured` (action properties), `AnswersMatchEffects` (invariant): see the comments there.
* `ImplementsLifecycle`: the refinement.
* `TrashedNotesLeave`, `StaleNotesGetLocked` (liveness): the jobs do their work.

`OfflineSync`:
* `WorkIsKept`: a text written here stays queued until the server has held it.
* `CleanRowsAreStored`: a row shown as synced holds a text the server has held.
* `RemoteWorkIsKept`: the replay overwrites a foreign text only if this device has shown it or a copy holds it.
* `OnlyAskedFlags`: a flag of a note changes on the server from another device, or because the user has toggled that flag of that very note here. It covers every step
  of the replay, the toggle `syncDeletedNote` makes to unlock a note before deleting it too (`offlineSync.ts:195`).
* `CreatedOnce`, `QueueDrains`.

Three exceptions are written into these properties, each because the code really behaves
otherwise there. `history.moved`: the note has left the list (`EditsOutliveRemoval` is the property without this
exception). `history.overlap`: two writers of the store worked on one row at once and the second wrote what it had read
earlier; the queued actions, the eviction and the replay's checkpoints write back snapshots, and the note page does not wait for a
running replay as the list page does (`routes/notes/[id]/+page.svelte:381`). `history.clash`:
two writes in the same second. A further exception of `RemoteWorkIsKept`, a flag toggled here, is what
`ConflictsAreNoticed` does without.

`Accounts`:
* `OldSessionsAreRevoked`, `OneLiveLink`, `SpentLinksAreConsumed` (invariants): what the last statements of a handler owe, and the requests that excuse it.
* `AdminLockHolds`, `LastAdminStays` (action properties): who may take a lock off, and how the last administrator may go:
  only by a request that was let in before its own caller was locked or deleted. One administrator alone, or one whose session has outlived the lock, cannot do it.

`Gates`:
* `RateIsKept`, `NoUndueRefusal`: the limiter gives and refuses what an ideal bucket would.
* `GuessesAreBounded`, `TableIsBounded`, `CooldownsRunOut`: wrong passwords per cycle, the cap of the table, and how a cool-down may end.
* `CutOffHolds`, `TokensNeedPermission`: only requests that were past the check outlive a revocation.
* `TokensActInScope`: what a token may do is judged by its row, and not by the copy in the context of a request. A token is revoked by its own user only, with a cookie or with a
  read-write token of that user; tokens are made, and the permission to have them is switched, with a cookie only. So it is for each call of a batch.
* `LastUseAdvances`, `UsesAreTaken` (liveness): the recorder never goes back but for an overtaken use, and never holds on to one.

`Library`:
* `PlacesDiffer`, `ImplementsPinList` (refinement): slots tell the pinned notes apart and move none that was not moved, but for what the trash does.
* `OverrunsAreCrossings`, `MentionedImagesStay`, `OrphansAreSwept` (liveness): the quota, and the two sides of the sweep: an orphan goes in the end even behind
  older images in use that fill a batch.
* `LinksStayWithAUser`, `EntriesDiffer`.

Where a property names an excuse, the excused case is what the code really does, and reachable: a login that was comparing a password while it
was changed or the account locked keeps its session (`service.go:237`); a login that read a lapsed lock clears the lock an administrator has set meanwhile
(`:230`); two crossing regenerations leave two valid links (`:311`); a request lost before its last statements leaves the old sessions or the link
in place; two administrators can lock each other; uploads that cross overrun the quota by what crossed (`handler.go:157`); a note saved after
the sweep has read the bodies can lose its image (`sweep.go:67`).

**Bounds.** Two notes let `Empty` delete one and be interrupted before the other; two handlers are
enough for each pair of handlers to overlap, and three would only repeat a pair because handlers share no state but the tables.
The content of a note can be told apart by the age a rewrite resets, so one content is enough. In `OfflineSync`, `Mine` and
`Theirs` bound the texts, `MaxVersion` the server's clock, `MaxRemote` the changes elsewhere, `MaxFaults` the failures and
`MaxMarks` the queued actions; a change elsewhere, a fault and two actions can meet in one behaviour. The properties ask of two versions only whether they differ,
so two seconds are enough where one change is made on each side. Rows are replayed
independently, one after the other, so one row shows what the replay does with each; `OfflineSyncNew` has more server ids than
notes so that a create can be repeated. Deadlock is not checked in the `OfflineSync` runs: a device with
nothing queued, and every bound used up, is at rest. Nor is it in `Accounts`, `Gates` and `Library`, where the ids, the uses
and the notes of an archive run out.

In `Accounts` two users are an administrator and another, or two administrators; with two sessions both can be signed in while one locks, deletes or gives a password to the
other, so that two administrators are let in at once and a lock meets the sessions of the account it locks; two requests are what every race above needs. `FewRows` in
`MCAccounts` keeps the sessions in the table and the links ever made to three together, that is, to two sessions and a link or one session and two links: two links are needed by the
regenerations, which one session carries out. The slots are interchangeable, so that symmetry is sound (no liveness is checked there). In `Gates` the table holds two of four pairs, so that a third evicts one; a cool-down outlasts
the gap between two sweeps; two uses are enough to overtake each other in a channel of one. In `Library` three pinned notes are the fewest in which a drag of
two can disturb a third, and `Depth` bounds how often a note is pinned on top; `OneArchived` keeps one note in the archive at a time, since an
archived note differs only in that a toggle does not find it; a batch of two and a chunk of one make a sweep stop in the
middle of a user and of a deletion; a note that mentions two images lets images in use fill a batch, with a newer orphan behind; `LastUploadLast` in `MCLibrary` lets the third image be
stored only in the cases that need it, as the newest of one user who is alone, or by a second user behind a full batch of the first; three notes with the titles "note", "note-2", "note-3" make a numbered name meet a title.

**Fairness.** `NoteStore`: weak fairness of the two jobs, which run off tickers for as long as the
process lives (`main.go:180` hourly, `:197-217` daily unless `AUTO_LOCK_DAYS=0`, in which case
`StaleNotesGetLocked` says nothing), and of `Expire`, which is time passing. No request is assumed to go on.
`OfflineSync`: weak fairness of the replay as a whole. The list page starts it every 30 seconds (`+page.svelte:1010`), and a run is
one async function in which every request settles. Faults are bounded, that is, the network works in the end.
`Gates`: weak fairness of `Drain`, the recorder's goroutine, which runs from start-up (`main.go:127`) and bounds each write by a timeout; a write
may fail any number of times. `Library`: weak fairness of `Sweep`, which runs hourly for as long as the process lives (`main.go:232`); the statements that fail are
bounded by `MaxFaults`. The time until an image is aged is not assumed to pass, nor is any request assumed to go on.

## 4. What is proved

TLC checks the instances of section 3; the theorems hold for every value of the constants, under the assumptions each module
names. In every module the argument is the same: an inductive invariant, true at the start (`InitIInv`, or `XStart`), kept by each
step (one lemma per action, put together in `StepIInv`, `NextIInv` or `XStep`), and strong enough to imply the invariants and, for a single step,
the action properties. TLC checked each inductive invariant on the instances before it was proved.

| Module | Theorem | States |
|---|---|---|
| `NoteStoreProofs` | `TypeCorrect`, `AnswersCorrect` | `Spec => []TypeOK`, `[]AnswersMatchEffects` |
| | `LocksAreHonoured`, `RetentionIsHonoured` | `LockHolds`, `RetentionHonoured` |
| | `LifecycleIsImplemented` | `ImplementsLifecycle`: `NoteStore` implements `NoteLifecycle` |
| `OfflineSyncProofs` | `TypeCorrect`, `CleanRowsAreAlwaysStored`, `NotesAreCreatedOnce` | `[]TypeOK`, `[]CleanRowsAreStored`, `[]CreatedOnce` |
| | `NoWorkIsLost`, `NoRemoteWorkIsLost`, `FlagsAreOnlyAskedFor` | `WorkIsKept`, `RemoteWorkIsKept`, `OnlyAskedFlags` |
| `AccountsProofs` | `TypeCorrect`, `PasswordChangesSignOut`, `LinksReplaceEachOther`, `LinksWorkOnce` | `[]TypeOK`, `[]OldSessionsAreRevoked`, `[]OneLiveLink`, `[]SpentLinksAreConsumed` |
| | `LocksOutlastLogins`, `AdministrationIsLostTogether` | `AdminLockHolds`, `LastAdminStays` |
| `RateLimitProofs` | `LimiterTypeCorrect`, `TheRateIsKept`, `NobodyIsRefusedUnduly` | `LimiterSpec =>` `[]RateLimitTypeOK`, `[]RateIsKept`, `NoUndueRefusal` |
| `LockoutProofs` | `LockoutTypeCorrect`, `GuessingIsLimited`, `TheTableIsCapped`, `CooldownsAreServed` | `LockoutSpec =>` `[]LockoutTypeOK`, `[]GuessesAreBounded`, `[]TableIsBounded`, `CooldownsRunOut` |
| `GatesProofs` | `TokensTypeCorrect`, `CutOffIsImmediate`, `ScopesAreKept`, `TokensAreForTheEntitled`, `LastUseGoesForward` | `TokensSpec =>` `[]TokensTypeOK`, `[]CutOffHolds`, `[]TokensActInScope`, `TokensNeedPermission`, `LastUseAdvances` |
| | `GatesStandApart`, `GatesTypeCorrect` | `MCGates` implies the three specifications; `[]TypeOK` |
| `PinOrderProofs` | `PinsTypeCorrect`, `SlotsTellNotesApart` | `PinsSpec =>` `[]PinsTypeOK`, `[]PlacesDiffer` |
| | `SlotsImplementTheOrder` | `ImplementsPinList`: `PinOrder` implements `PinList` |
| `LibraryProofs` | `TagsTypeCorrect`, `LinksJoinNoTwoUsers` | `TagsSpec =>` `[]TagsTypeOK`, `[]LinksStayWithAUser` |
| | `ExportTypeCorrect`, `NamesAreDistinct` | `ExportSpec =>` `[]ExportTypeOK`, `[]EntriesDiffer` |
| | `ImagesTypeCorrect`, `UploadsKeepTheQuota`, `SweepKeepsTheMentioned` | `ImagesSpec =>` `[]ImagesTypeOK`, `OverrunsAreCrossings`, `MentionedImagesStay` |
| | `ShelvesStandApart`, `LibraryTypeCorrect` | `MCLibrary` implies the four specifications; `[]TypeOK` |

**NoteStore.** `IInv == TypeOK /\ HandlersInv`. `TypeOK` carries what the tables'
constraints say (the trash within the notes, the expired within the trash, a deleted id not present).
`HandlersInv` says what a handler's phase implies about its local variables. `AnswersMatchEffects` is not inductive without
it: an answer of "locked" depends on which handler is waiting and on what it had done. `NextIInv` has one step per action. The two
action properties follow from one lemma each on a single step (`StepLockHolds`, `StepRetention`).
The refinement rests on two lemmas about a step from a state in `IInv`. `StepLifecycle` maps every action to a transition of a note's
life: the toggle and the auto-lock to `SetLocked`, archiving and its undoing to `SetArchived`, a deletion and the purge to `Destroy` of
doomed notes (`DeleteIsDestroy`; this is where `HandlersInv` is needed, since a handler's list could otherwise name a note that never
existed), and the steps that only read to a stutter. `StepDooming` shows that a handler or the clock dooms only notes it found in the trash.

**OfflineSync.** A row read is held in four places before it is written back: the store, the snapshot of the replay (`todo`), the row the
replay has in hand (`job.row`) and what a queued action has read (`mark.seen`). `RowsInv` says the same of each (`RowInv`): its text has been in the store, and on the
server if the row is clean; it queues only flags that were asked for on that note; its baseline is not ahead of the server, and where the two agree the server's text is
one this device has shown. `AnswerInv` says the like of an answer of the server that has not been applied yet, in the replay (`JobInv`) and in the
refresh (`RefreshInv`). None of the properties is inductive without these, because each of them can be broken by writing back an old
row. A row queues a flag only under the key it was asked for (`Asked`), which the re-keying of a note born offline carries over; from there `FlagsAreAsked` follows each toggle, that
of the reconciliation and that before a deletion, to a row that asks for it. `MarkInv`: a queued action that found no row is about a note of the server. `MadeInv` counts the creates of a note born offline against the faults, and knows in which phases the replay may come to
create it again.

**Accounts.** `IInv` is the type invariant, the three invariants of the run, and two facts about requests: one that is to insert a link and
has not been overtaken has deleted the others (`LinkInv`), and one that clears a lock had read it as lapsed (`LapsedInv`). `AdministrationIsLostTogether` needs `LetInInv` besides: an
administrator's request whose caller cannot administer any more has been overtaken. The invariants say
that somebody still owes the revocation or the deletion; `KeepRequest` is the lemma that a request passes on what it owes.

**RateLimit.** `WorthInv`: the ideal bucket's level is what the bucket of the address is worth if it is used now, `Burst` if there is none. A
collection keeps it because of the assumption on `TTL`.

**Lockout.** `CountInv` speaks of a pair and its logins together: while a cool-down is served, the misses counted and the logins still comparing
cannot be more than were under way when it began. `GuessesAreBounded` alone is not inductive: a login that has passed the check is
about to count. `TableInv` needs that an eviction frees at least one place, whatever the fraction.

**Tokens.** `CallsInv` (`GoodIn`): a request that has not been overtaken is as good as the rows it was let in by. `UseInv`: a use that is not late is
younger than what the row holds, than the use being written and than those ahead of it in the channel. `ClockInv` keeps the bounded clock for the
requests that have not stamped theirs. `ScopeInv`: the scope a request carries is that of its token's row, and the target of a revocation between
its statements is a token of its caller; a row is neither rescoped nor given away, whatever is withdrawn meanwhile (`RowsKeepTheirOwner`). So what a request is let do by its
copy (`AnsweredRuns`) it is let do by the row.

**PinOrder.** `PinsTypeOK /\ PlacesDiffer` is inductive. A drag numbers a set by rank: `RanksAreTheOrder` (ranks in a finite total order are
the order) and `MergedIsAnOrder` (what `mergePinOrder` sorts by is one) carry that step, `TopSlotIsOnTop` the pinning. The refinement maps the
slots to `above`, as in section 2.

**Tags, Export, Images.** A request on tags that has found its note or tag holds an id that is never handed out again, so what it has found is still that row, or gone
(`FoundInv`, with `UsedInv`: this is `AUTOINCREMENT`). In `Export` the names given are as many as the entries they were given to, and each fresh name is outside them.
In `Images` an upload that has found room knows how many were stored since (`UploadsInv`); the sweep has no more ids to delete than the pass may
still delete (`OldestAreFew`), each of them aged and its user's, or gone, and has recorded every mention of one that was saved since it read the bodies (`SweepInv`); a
page without a row mentions nothing (`PagesInv`), without which a note written anew could mention an image unrecorded.

**Assumptions.** `NonEmpty` (there is a note and a content). `Constants` of `OfflineSync`: among others, the names of the flags are none of the two removals
(`offlineDB.ts:26`: they are fields of a row), `Rank` orders the flags with the lock last (`offlineSync.ts:386`), and texts written here and elsewhere are told apart. `RootIsUser`: the first administrator. `RateLimitAssumption`: section 2; it is
what the defaults satisfy. `LockoutAssumption`: a finite number of logins at a time, each a goroutine of one process. `TokensAssumption`: there is a user, since the
server seeds an administrator before it serves (`main.go`). `PinOrderAssumption`, `TagsAssumption`, `ImagesAssumption`: finitely many notes, ids, users and
uploads. The bounds (`MaxVersion`, `MaxFaults`, `Depth`, `Images`, …) are any natural numbers.

**Only model-checked.** Liveness under fairness is out of the prover's reach: `TrashedNotesLeave`, `StaleNotesGetLocked`, `QueueDrains`, `UsesAreTaken` and
`OrphansAreSwept`. Every other property of a passing run is a theorem.

## 5. Plan

1. `NoteStore`, `NoteLifecycle`, their runs, the theorems and the refinement; `OfflineSync`, its runs. *Done.*
2. `PinOrder` with `PinList`, `Accounts`, `RateLimit`, `Lockout`, `Tokens`, `Images`, `Tags`, `Export`, and their runs. *Done.*
3. Proofs of every invariant, action property and refinement of the passing runs. *Done.*
4. On the client: a second tab on the same store, and the acknowledgement of online saves (`noteSave.ts`, `titleCommits.ts`).

Abstract specifications worth stating: the life of a note and the order of the pinned ones (done); a register with conflict copies, for the replay.

## 6. Where the code and its documentation differ

* `NoteStoreTrashAnswer`: `SoftDelete` is refused by a lock, the lock is taken off, and the second
  statement reads "unlocked": success is answered, the note is still in the list (`notes/repository.go:452`).
* `NoteStoreDelete`: a note restored while a permanent deletion is between its statements is deleted (`trash/repository.go:74`, `:92`).
* `OfflineSyncRemoval`: an offline edit of a note that was archived or trashed elsewhere is dropped; the decision record asks for a recovered copy (`docs/adr/0001`, line 8).
* `OfflineSyncConflict`: another device's edit between the replay's GET and its toggle is overwritten without a copy (`offlineSync.ts:361`, `:408`).
* `OfflineSyncLock`: a lock set elsewhere between the GET and the toggle is taken off by a lock queued here (`offlineDB.ts:21`, `offlineSync.ts:391`).
* `PinOrderRestore`: a drag is documented to renumber the whole pinned set (`notes/repository.go:300`), but leaves out the notes in the trash (`:354`), which come back with a
  slot another note has been given.

## 7. Running

    tlc -config NoteStore.cfg MCNoteStore
    tlc -config OfflineSync.cfg MCOfflineSync
    tlc -config Accounts.cfg MCAccounts
    tlc -config Gates.cfg MCGates
    tlc -config Library.cfg MCLibrary
    tlapm NoteStoreProofs.tla
    tlapm OfflineSyncProofs.tla
    tlapm AccountsProofs.tla
    tlapm RateLimitProofs.tla
    tlapm LockoutProofs.tla
    tlapm GatesProofs.tla
    tlapm PinOrderProofs.tla
    tlapm LibraryProofs.tla

A run of `tlapm` takes at most two minutes for a module.

Definitions named `X_Something` are faulty variants of `X`: each is a plausible mistake that the property named with it in `PROJECT.json` detects.

## 8. Not modelled

* A second tab on the offline store and the acknowledgement of online saves (`noteSave.ts`, `titleCommits.ts`): planned, section 5.
* The signed-in state of the client, the account change on a shared browser and the offline unlock.
* Settings (one row read and written whole), the version check (one request), proxy headers, metrics and logging: nothing in them spans two steps.
* The service worker, the editor plugins, the command line client and the extension keep no note state of their own.
* Formatting: `sanitiseFilename` and the bodies of an export, the arguments and answers of an MCP call, hashes, cookies and JSON.
* Limiter settings under which a bucket is forgotten before it is full again: `RateIsKept` does not hold of them (section 2).

SQLite, IndexedDB and HTTP are assumed to do what their documentation says.
