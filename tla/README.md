# TLA+ models of thomaz

thomaz is a homebrew hub for the Nintendo Switch: a C++ application
(`src/source/`) that manages saves, mods, cheats, themes, content sources and
its own updates, and an HTTP API (`src/api/src/`) that keeps accounts, cloud
saves and content-source lists. This directory holds TLA+ modules translated
from that code, the TLC configurations that check them, and proofs checked by
TLAPS.

Checking a run: `tlc -config MCSavesApi.cfg MCSavesApi`. Checking the
proofs: `tlapm SavesApiProofs.tla`, and so for the other `*Proofs` modules.
`PROJECT.json` lists every run, the source lines behind every definition, a
mutant for every property, the findings, the hazards and the theorems.

## 1. Inventory

What runs where, which decides what can interleave:

* **Console.** Borealis has one UI thread, on which taps, dialog buttons and
  the second halves of asynchronous operations run, and *one* worker thread
  with a first-in first-out queue. `ThomazActivity::runAsync` queues a worker
  half and posts a UI half, which runs only while the screen is alive; leaving
  a screen clears `alive` and sets `cancelled`, which aborts a transfer that
  carries the flag. Every HTTP request has a 10 s connection and a 30 s total
  timeout. Files on the SD card are written in place: a power cut leaves a
  prefix.
* **API.** Fastify on one Node.js thread: handlers interleave at every `await`,
  nowhere else. The database (Prisma/PostgreSQL) does each query atomically; no
  route of `saves.ts` uses a transaction. Blobs are files that are truncated
  and then filled.

| component | state | operations | what is hard | what makes it correct |
|---|---|---|---|---|
| Save routes (`routes/saves.ts`, `lib/save-storage.ts`) | a row (revision, blob key) and a blob file per account and title | GET, GET with data, PUT, DELETE | read-check-write over several awaits, file and row updated separately, failures in between | of two puts naming one revision one wins; revisions go forward; a download's data is not older than its revision; a row has a file |
| Cloud save client (`save_detail_activity.cpp`, `core/saves/*`, `platform/saves/*`) | `cloudBusy`, retry budget, open dialog, stored synced revision | upload, conflict dialog, automatic retry, download, leave, log out/in | lost answers, timeouts, races with other devices, stale dialog, power cut in the sync file | nothing is overwritten that the device has no copy of, unless the user chose so; operations do not overlap and end |
| Activities and async work (`thomaz_activity.hpp`, `http_client_curl.cpp`) | alive/cancelled flags, job queue | runAsync, destruction | callbacks after the screen is gone | no UI half on a dead screen |
| Session on the device (`auth_store.cpp`, `auth_activity.cpp`, `app_header.cpp`) | stored session | login, register, logout | session changes while operations run | requests carry the token they were started with |
| Auth routes (`routes/auth.ts`, `lib/refresh-tokens.ts`, `plugins/auth.ts`) | users, refresh tokens, revoked access tokens | register, login, refresh, logout, authenticate | rotation in two steps, logout racing refresh, sweep failures | a refresh token is used once; a session has one key at a time, and without one it is over unless a refresh is making the next |
| Source links (`routes/sources.ts`, `source_list_activity.cpp`, `source_store.cpp`, `http_source_sync_client.cpp`) | rows of all accounts under ids the clients choose; the screen's list and `sources.json` | put, delete; add, remove, sync, leave | ids shared by accounts, writes by id alone, results applied by index, lost answers | a row is its owner's; a link keeps its own id; green means stored |
| Local backups (`save_service_switch.cpp`, `save_backup_io.cpp`, `backup_store.cpp`) | backup directories with manifests, live saves | backup, restore, package, import, delete, list | one-second names, clean-up after failure, restore per profile | a listed backup is complete unless its deletion failed; a failed restore leaves the live save |
| Mods (`mod_actions.cpp`, `mod_download.cpp`, `mod_store.cpp`, `libarchive_extractor.cpp`) | library of imported mods, live romfs, marker | import, download, enable, disable, uninstall | copies and removals that fail half way, imports that outlive their screen, files shared by two mods | the romfs is of one mod, the one that is marked; an uninstalled mod leaves nothing behind |
| Themes (`theme_install.cpp`, `theme_download.cpp`, `theme_compat.cpp`, `active_theme_store.cpp`, `theme_detail_activity.cpp`) | downloaded folders, outputs per target, record of the active theme, base layouts, cache of checks | download, check, install, cancel, remove, extract | several files replaced one by one, rollback, screens that leave jobs behind | an install ends recorded or undone; the record tells what is live; a risky layout is asked about (it is not always: section 4) |
| Firmware extraction (`firmware_extract_switch.cpp` and helpers) | working files | extract | clean-up on every error path | no partial output is taken for a whole one |
| Catalog and cover art (`index_fetcher.cpp`, `catalog_activity.cpp`, `catalog_cache.cpp`, `cover_art.cpp`) | crawl queue, merged list, kept index, cells and covers | open, crawl, sort and filter, find covers, leave | cycles, bounds of the crawl, results for cells that are gone | the list is complete unless it says so; a cover is its cell's; the screen does not wait for ever |
| Cheats (`cheat_store.cpp`, `cheat_txt.cpp`, `cheat_db.cpp`) | cheat files | enable, clear, merge | rewriting a shared file | others' cheats survive |
| Self-update (`self_update.cpp`, `update.cpp`) | the program file and its temporary copy | check, download, replace | failure between remove and rename | a runnable file remains |
| Titles and visibility, system modules, settings | small files | toggle, scan | whole-file rewrites | no lost toggle |

Vendored code (`lib/`), resources, the web site, the planning notes and the
tests are not modelled; tests and design documents are quoted where a property
states what they say.

## 2. Plan

In the order in which it is done:

1. `SavesApi` (routes), `SaveRegister` (what they promise), refinement between
   them, `CloudSaves` (client composed with the routes) - **done**.
2. `SavesApiProofs` (types, optimistic locking, refinement, downloads) and
   `CloudSavesProofs` (types, one operation at a time, no silent loss) - **done**.
3. `AuthTokens` and `AuthTokensProofs`: refresh rotation, logout, revocation
   and registration as handlers cut at their awaits, and `Sessions`, what they
   promise a client - **done**.
4. `LocalBackups` and `LocalBackupsProofs`: directories, manifests, restore with
   commit, deletion beside the worker; `BackupShelf`, what they promise a screen,
   and the refinement between the two - **done**; next `SavePackage`, the codec
   of the package and `is_safe_relpath` as operators against reference
   definitions.
5. `Mods` and `ModsProofs`: import, download, enable, disable and uninstall as
   files that are written and removed one by one - **done**.
6. `Themes` and `ThemesProofs`: install, rollback and record of the home menu
   themes, with the screen's jobs - **done**.
7. `SourceLinks` and `SourceLinksProofs`: the device's list composed with the routes of its account
   and requests of other accounts - **done**.
8. `Catalog` and `CatalogProofs`: crawl, list and covers - **done**.
9. Abstract specifications that the detailed modules refine: `SaveRegister`,
   `BackupShelf`, `Sessions` - **done** and proved. Next in this line: one for the
   library and romfs of `Mods`, one for the theme that is live in `Themes`.
10. Still open: `SelfUpdate` (remove and rename), `Paging` of the browsers,
   `TitleVisibility`, `Cheats`, `FirmwareExtract`, `AtmosphereConfig`, the codec
   of save packages.

## 3. Modules

### SaveRegister

The promise: a compare-and-set register per account, translated from
`FakeCloudSaveClient::push`, the in-memory stand-in the rest of the program is
developed against (remove is the DELETE route's). One title is enough: no
route relates two titles.

### SavesApi

`slot[u]` is the revision in the row (0: no row), `blob[u]` the content of the
file (`Absent`, a package, or `Torn` for one that is half written), `row[u]`
the package the row was last committed for. The latter is history, as are
`accepted` (committed puts) and `admitted` (puts past the revision check): the
code has no such variables, the properties are about them. `handler[h]` is the
local state of one running handler.

An action ends at each `await`: `PutCheck` is `findUnique` and the checks on
what it returned, `PutOpen`/`PutWrite` the truncation and the filling of the
file in `writeSaveBlob`, `PutCommit` the `upsert` (whose create branch always
writes 1 and whose update branch counts from the row read *before* the file was
written). `GetFind`/`GetData` and `DeleteFind`/`DeleteBlob`/`DeleteRow` are cut
the same way. `Fail` is an exception at any await or the death of the process;
what was done before stays done. `Receive` offers any request; `Answer` takes
the reply away. The blob key is a function of account and title, so the branch
that deletes an older blob under another key (saves.ts:164) cannot be taken and
is left out. Bad tokens, bad title ids and bad bodies are answered before any
state is read and do not reach the model.

`MaxWriters` is the number of puts and deletes of one account that may be past
their check at once. The code sets no such limit. With 1 the model shows what
holds as long as writers do not overlap; with 2 (`api_lost_update`) what is lost when
they do.

### CloudSaves

EXTENDS `SavesApi` and replaces its arbitrary client by devices. Per device: the
session, the synced revision, `cloudBusy`, the retry counter, the open conflict
dialog with the revision it captured, and `job`, the operation in flight with
its stages queued (worker), sent, done (UI half posted). `packer` and `origin`
(who packaged a package, whom a handler serves) and `pulled` are used for the
properties; `pulled` is also what the local history holds.

`TapUpload`, `StatusDone`, `SendMine`, `PushDone` are `doUpload(false)`, its UI
half, the dialog's button and the UI half of `pushAtRevision`, including the
automatic `doUpload(true)`; `TapDownload`, `KeepCloud`, `DownloadDone` are
`doDownload`. `LeaveActivity` destroys the screen and cancels the transfer,
`CrashInSave` is a power cut while `sync_state.json` is rewritten. `Lost` is
every way in which no answer comes back; a put runs on in the server.
`kMaxConflictRetries` is 2 in the code and 1 in the runs, which has the same
cases (a retry left, none left).

A package is packaged at most once (`packer[c] = Absent`): two packages of one
save are different versions. The number of packages bounds the number of pushes.

### AuthTokens

`routes/auth.ts`, `refresh-tokens.ts` and the `authenticate` hook. A token of the
model is the pair the routes hand out, a refresh token and the access token
signed beside it; tokens that descend from one login by refreshes form a
session, named by its first token (`root`). `refresh[t]` says whether the row of
a refresh token exists, `revoked` holds the rows of RevokedToken, `stale` and
`expired` the tokens whose time is over, `given` what some client has received;
`root` is history for the properties. As in `SavesApi` an
action ends at each `await`: `RefreshFind`, `RefreshPurge`, `RefreshDelete`,
`RefreshIssue`, `RefreshSign` are `POST /refresh` with `rotateRefreshToken`;
`LogoutVerify`, `LogoutSweep`, `LogoutBlock`, `LogoutFind`, `LogoutDrop` are
`POST /logout`; `AuthVerify`, `AuthLookup`, `FailOpen` the hook, which lets a
request pass when the look-up of the revoked token throws. `Fault` is a query
that throws: inside logout's `try` it skips the rest of the revocation,
elsewhere it ends the request. `delete` throws when the row is gone,
`deleteMany` and `upsert` do not; that difference decides the races. One race it
does not decide: a logout whose look-up falls between the delete and the create of
a refresh finds no token, answers 200, and the session gets its next token all the
same.

### Sessions

The promise behind the rotation: a session has at most one key at a time. `Turn`
takes the key for a refresh, `Renew` gives a new one, `GiveUp` is a refresh that
breaks off in between, `Close` a logout that finds the key, or the end of its time;
a session without a key that nobody turns has no further step. A logout that comes
while the session is being turned has nothing to close. `AuthTokens` maps to it at its
end: the key of a session is its live refresh token, and a session is being turned
while a handler is between the delete and the create of `rotateRefreshToken`.

### LocalBackups

`NsSaveService`, `write_package_as_backup`, `list_backups`, `delete_backup` and
the part of `SaveDetailActivity` that calls them. `live[p]` is the committed save
of a profile as a function from files to the version they come from; `backup[t]`
the directory named after second `t`: its manifest (none, torn, valid with the
profiles it names), its profile folders and their files. `job` is what the
worker is at, one file at a time; `queue` what waits for it; `deletion` a
`remove_tree` under way on the UI thread, also one file at a time; `listed` the
rows of the history. `used` (seconds in which a directory was begun) is history.

Each step has its failure: a file that ends up `Torn`, a profile that cannot be
mounted, a manifest that cannot be opened or written, a commit that is refused, an
entry that a deletion or a wipe cannot remove (`remove_tree` and `clear_tree` go on
with the rest), and `Restart` at every point. Some failures the code does not
notice, and the model has them too: a read error that ends a file (`copy_file`) or a
directory (`copy_tree`) early, a wipe that leaves a file, and a second backup that
is written into the directory of the first. `clear_tree` of a mounted save and of
a directory that failed is one step: nothing reads what it empties until it is
done (the mount is private to the transaction, the directory has no manifest). The
mount is `job.mount` and reaches `live` in `RestoreCommit` only.

Three history variables say where something went wrong that the code does not
notice; no step depends on them. `job.slip`: the copy at hand is not known to be
whole. `spoiled`: directories that were to be deleted (from the tap on, however the
deletion ends), begun again, or filled by a copy with a slip. `harmed`: profiles
restored with a slip or from a spoiled directory. The properties make exactly these
exceptions: a listed directory that is not spoiled holds whole saves, a profile that
is not harmed has a whole one. After a deletion that returned false the screen
keeps its rows (`DeletionDone`), so that what is left can be restored; that this
gives a part of a save is what the code does.

### BackupShelf

The promise: `ISaveService` (`save_service.hpp`) and `delete_backup` as a screen
sees them, a shelf of backups beside the saves of the profiles and one operation
at a time. A backup appears at once, with the saves the profiles have at that
moment (perhaps not of all of them, never a mixture or a part), an import with
all of the package; a restore replaces the save of a profile at once by the one
in the backup that was asked for; nothing else on the shelf changes; an operation
may stop without an effect.

A deletion takes a backup off the shelf when it begins, however it ends; a restore
gives the save of the backup that was asked for or a `Broken` one, and of a broken
save no backup is made. When it may be broken is what `LiveIsWhole` says.

`LocalBackups` maps to it at its end: a directory is on the shelf (`OnShelf`) from
the step that completes its manifest until it is spoiled, with the save of every
profile it names (`Slot`), `saves` are the live saves with the harmed ones
`Broken`, and `doing` is the kind and the directory of the worker's job.
`ImplementsShelf` says that every step is one of `BackupShelf` or a stutter.

### Mods

`mod_actions.cpp` with what it calls, and the two screens that call it. `staged[m]`
is the library's copy of mod `m`, a function from files to the version and the
state (whole, torn) of what is there; `dirs` the mods that have a directory, which
is what `list_subdirs` lists; `live` the romfs of the game; `marker` what
`.active` names (a torn marker reads as the empty name, which no mod has, and is
`None`). `task["ui"]` is the operation of the manager screen, which runs on the UI
thread and keeps it busy, `task["worker"]` the download or import of the detail
screen. Both walk through stages: enable = remove, clear, copy, mark; disable =
remove, clear; uninstall = the same when the mod is active, then unstage; import =
extract, and discard after an error; download comes before extract on the worker.
In a stage every file is a step of its own, and a file is written in two.

A removal may leave any file, or the directory; a download, a copy, an extraction
or the writing of the marker may fail at any point, and the program may end at any
point (`Restart`). What the code does not notice is there as well: a read error that
ends a copied file or a directory early (`CopyWrite`, `CopyOverlook`), an extracted
file whose last flush failed, as the result of `fclose` is ignored (`ExtractWrite`),
and an archive that breaks off between two entries and is taken for a shorter one
(`Readable`, `holds`). `slip` and `half` are history: an error of this task has passed
unnoticed; an enabling broke off with part of a mod in the romfs. `Troubles` holds
the two that are left out of the run: a marker that can be neither read nor removed
("marker"), which `MarkerTells` cannot bear, and the manager used while the worker
still imports ("overlap"), which the screens allow after the detail screen is left
and which is proved about instead. `InUse` stands for the console's file system,
which is not in the repository: a library file that one task has open is neither
removed nor opened for writing by the other.

`rows` is what the manager shows. It is read again after every operation but a
failed switch, and not when the detail screen above it closes, so rows can be
stale, and a mod whose update failed can be switched on without a directory:
`CopyFail` then leaves an empty romfs.

### Themes

The detail screen of a theme, the worker's jobs it starts and what they keep on
the card. `base[p]` is the extracted layout of a target, `folder[t]` the theme's
download, `cache[t]` a remembered check, `out[p]` what LayeredFS holds, `record`
`.thomaz_active.json`. `screen` is one screen at a time; `queue` the worker's jobs,
which outlive it (`mine` is the `alive` flag). `task` is the progress of the job
that runs, one part of a theme per step, so that a cancel, a failure or an end
of the program can come between any two. `Verdict` and `Backgrounds` say what the
engine makes of a part; layouts themselves are not modelled.

A UI half runs in the last step of its job: until then the screen is busy,
unresolved or unchecked, and takes no tap that could notice. The progress modal
leaves only its Cancel to be tapped (`Installing`). `asked` is history, `before` and
`written` are locals of `install_theme`, `dry` is what `analyzeCompat` decides when it
queues a check: whether the layouts may be tried. A check that does not try them,
for want of a base layout or because its file is empty, finds a theme safe unless
its file is no theme at all (`PartRisky`); only complete results go to the cache, but
the screen keeps every one. `Troubles` are writes, the
record, removals that fail, and an end of the program while outputs change.

### SourceLinks

The list of content sources on a device, its upload, and the routes it goes to.
`rows[i]` is the SourceLink with id `i`; ids are hashes of urls
(`stable_remote_id`), so a url stands for its id and two accounts with one source
meet on one id. `handler[h]` is a running request, cut at its awaits as in
`SavesApi`; PUT reads its own row, then any row under the id, then writes by id
alone. `list` is the screen's, `file` `sources.json`, which is written after an
edit and after a sync that went through; a write that fails leaves what was there, or
a file that reads as an empty list (`NotSaved`). `queue` are the worker's jobs, `call` the
handler it waits for. `Lost` is every way in which no answer comes: the handler
goes on by itself. `Assign` is the second half of `doSync`, which writes the ids to
the rows that have the snapshot's indices now.

`Others` are accounts whose clients send any request for any id. `EditWhileSync`
and `MaxPerUser` name what the code does not exclude and what breaks the
properties: rows removed while a sync runs, requests of one account that
overlap.

### Catalog

The catalog screen of a source, the crawl of its indexes and the covers. `site` is
what the server holds; `list`, `view`, `covers` are the titles, the cells in their
order and what each cell shows; `listGen` counts the rebuilt lists, and a cover
job carries the value it was queued with. `crawl` holds the variables of
`fetch_index`; every page asked for is a step. `cached` is the index on the card,
`art` the covers on it, `index` the icon index, which is tried once in a run of
the program. Sorting, filtering and searching are any arrangement of any part of
the list, in the grid or not.

A worker half and its UI half are one action here. The worker reads nothing that
the UI changes but the cancel flag, and the queue is the same for both; a screen
that was left takes no result. `depth` is 0 for every page, as in the code, whose
bound on it is therefore never reached. The scan of a local directory, the
grouping of files to titles and login headers are left out.

## 4. Runs

| run | instance | shows |
|---|---|---|
| `api` | 1 account, 2 packages, 2 handlers, GET, PUT and DELETE, revisions to 3, `MaxWriters` 1 | types; the refinement of `SaveRegister` |
| `api_lost_update` (violation) | `MaxWriters` 2 | two puts that name one revision are both accepted |
| `saves_serial` | 2 devices, 1 account, 2 packages, 2 handlers, revisions to 2, `MaxWriters` 1 | types; `NoSilentLoss`; `SyncedNotAhead`; `InSyncIsHeld`; of the server under them `NoLostUpdate`, `PullNotOlder` (a download's data is that of the put that made its revision or of a later one), `RowHasFile` |
| `saves_session` | 1 device with a logout and a login, fairness | `OneOperation`; `OperationEnds` (liveness) |
| `saves_account_switch` (violation) | 2 accounts, 1 handler, a logout | another account's save is overwritten without a question |
| `auth` | 1 name, 3 tokens, 2 handlers, failing queries, bearers sent to logout and protected routes | types; `OneLive`; `RevokedStaysOut`; the refinement of `Sessions` |
| `backups` | 1 profile, 2 files, 2 versions, 2 seconds, 1 waiting job, constraint `OneMess` | types; `LiveIsWhole`; `ListedIsWhole`; `KeptUntilDeleted`; `RestoredIsBackup`; the refinement of `BackupShelf` |
| `mods` | 2 mods sharing a file, one with 2 versions, 1 waiting download, constraint `OneCutShort` | types; `OneModLive`; `MarkerTells`; `EnabledIsStaged`; `UninstalledIsGone`; `ImportIsWhole` |
| `themes` | 3 themes over 2 targets (one drops parts, one has a file that is no theme, one is refused), 2 waiting jobs, writes that fail | types; `RecordNotForeign`; `AppliedShown`; `AllOrNothing` |
| `themes_unverified` (violation) | the same without failing writes | a theme checked without base layouts is installed without a question |
| `source_links` | 2 accounts, 2 urls (one needs a secret), 2 handlers, 2 rows, 2 waiting jobs | types; `RemoteIdOwn`; `SyncedIsStored`; `OwnRows` |
| `catalog` | 6 sites of up to 6 pages (cycles, a page linked twice, a long chain, a wide page, pages that do not parse), 2 titles, 5 requests, 3 entries, 3 generations, fairness | types; `CompleteUnlessTold`; `CoverOfItsTitle`; `LoadingEnds` (liveness) |

Bounds: titles and accounts do not interact in the routes, so one account shows
everything there; two accounts are used where a device changes between them.
Two handlers give a reader or a delete beside a writer, and two writers where the
overlap is allowed. Revisions to 3 give an update of an update. Two devices give
every race between "me" and "the others".

For the auth routes three tokens give a session with two refreshes or two
sessions, two handlers every race of two requests.

For the backups two versions (two files, the first of them) tell a whole save, a
part of one and a mixture apart; two seconds give an old and a new directory, a
waiting job one behind the running one. `OneMess` stops at the second thing that
goes wrong unnoticed: one directory at a time is neither empty nor a whole backup,
one directory or profile is spoiled or harmed. One profile is checked; the proofs
are for any number, and for any mess.

For the mods two mods with a common file tell a mixture from a replacement, and a
second version without the first file an update from a first import; `OneCutShort`
lets one library file at a time be torn, the proofs any number.

For the themes one target that all themes have and one that two of them have, a
theme with a part the engine cannot use as its second, so that a rollback has
something to undo.

For the links two accounts and two urls give every meeting of two accounts on an
id; a list of two gives an index before and after another.

For the catalog some sites stay below every bound and some exceed each one; three
generations give a list rebuilt twice while a cover is looked for, and two titles a
cover that could go to the wrong cell.

Symmetry is used over handlers, packages and devices, in runs without liveness
only; none of them is compared or chosen by name.

Fairness (`saves_session` only): weak fairness of each device's worker, of its
posted callbacks and of the server's handlers. curl's 30 s timeout ends each
request, the main loop runs every posted callback, Node runs every ready
handler. Nothing is assumed of users: a dialog may stay open for ever, which is
why `busy` is released before a dialog opens. `catalog` assumes weak fairness of
the worker: its thread runs, and a request is answered or times out.

### Findings

Each has a run that shows it:

1. `saves.ts:140-187` - check and write are separate awaits with no condition on
   the revision in the upsert, so optimistic locking fails when two puts overlap.
2. `sync_store.cpp:26` - synced revisions are kept by title only; after a change
   of account the conflict dialog is skipped and the other account's save
   replaced.
3. `theme_detail_activity.cpp:483` - a check queued without base layouts tries
   nothing and finds the theme safe; Apply leads to Extract, which does not check
   again, and the next Apply installs without the question, although lines 331-332
   say that an unverified theme must not be treated as safe.

Met on the way, with no run of their own. Where a run is named, it shows the
point when the named constant is changed.

* Saves. The new revision of `saves.ts:184` counts from a stale read and can go
  back (`saves_serial` with `MaxWriters = 2` and three packages violates
  `SyncedNotAhead`). A put whose answer is lost makes the next upload a conflict
  with the device's own save.
* Auth. `refresh-tokens.ts:64` deletes by id after a separate look-up, so a
  logout that loses a race answers 500 where the decision record says always 200.
  A logout whose look-up falls between the delete and the create of a refresh
  (`refresh-tokens.ts:50`) answers 200 and the session goes on with the new token.
* Backups. A backup can be deleted while it is being restored
  (`save_detail_activity.cpp:239`); the copy then ends early without an error and
  is committed. A deletion that cannot remove one file removes the others
  (`mod_store.cpp:34`); the manifest may be what stays, the row stays too, and a
  restore from it commits a part of a save. `copy_file` takes a read error for the
  end of the file (`fs_util.cpp:42`). After two backups in one second the clean-up
  of the second removes the first (`save_service_switch.cpp:178`). The run has all
  four; they are the exceptions that `spoiled` and `harmed` name. A profile whose
  copy fails does not abort the backup and leaves a partial folder in it, where the
  design says it goes (`save_service_switch.cpp:172`).
* Mods. A failed copy leaves the files it has copied in the romfs
  (`mod_actions.cpp:83`), where the comment in lines 72-73 says that the game is
  left with no mod applied. An update that fails to extract removes the version that
  was installed (`mod_actions.cpp:47`), and an active one then has no row while its
  files stay live. A header error ends `extract_archive` with success, so an archive
  cut between entries is installed as a whole one (`libarchive_extractor.cpp:84`),
  where `mod_download.cpp:108-109` relies on the extractor to catch it; the run has
  such archives, and `ImportIsWhole` therefore speaks of the entries that the archive
  gave. A read error or a failed flush goes unnoticed too (`fs_util.cpp:42`,
  `libarchive_extractor.cpp:128`), so that a marker may name a mod of which a file is
  cut short; `EnabledIsStaged` and `ImportIsWhole` name this exception (`slip`).
* Themes. "Remove Theme" takes the recorded outputs only: those of an earlier theme
  with more targets stay, where `resources/i18n/en-US/themes.json:44` says that a
  reboot restores the default. A failed install of a second theme deletes the outputs it had replaced while the first
  stays recorded. The output whose write failed stays torn. A folder that a
  power cut left half filled counts as downloaded from then on
  (`theme_download.cpp:33`).
* Source links. A source with a login in its url can never be synced: the route
  asks for a secret the client does not send, and a sync counts only when all
  went through. A write of `sources.json` that fails empties it, and the list is
  gone when the screen is opened again (`cheat_store.cpp:39`). A removal while a
  sync runs shifts the indices its results are written to, past the end of the vector too (`source_list_activity.cpp:373`;
  `source_links` with `EditWhileSync = TRUE` violates `RemoteIdOwn`). When
  requests of one account overlap, an update by id can meet a row that another
  account has created in between (`MaxPerUser = 2` violates `OwnRows`).
* Catalog. The bound on the depth is never enforced: a child's state is made
  from a state whose depth no statement changes (`index_fetcher.cpp:215`), where
  the plan of phase 8 says that the loop enforces it. A child index that does not
  parse is merged as an empty one without a note. The icon index is tried once: a
  first load that failed or was cancelled means no covers until the program is
  started again (`cover_art.cpp:171`). A kept index of more than 8 MB is cut when
  it is read and never parses.

## 5. Proofs

`SavesApiProofs` proves, for every value of the constants that satisfies
`SavesApiAssumption` (distinct model values, a finite set of handlers, natural
bounds):

* `TypeCorrect`: `ApiSpec => []ApiTypeOK`, with no assumption on overlap. The
  invariant is `TypeInv`, which adds what the type alone does not say: a busy
  handler has a user, a put past its check has its package and room for one more
  revision (that is where `NextRevision` stays in range).
* `NoLostUpdateWithoutOverlap`: `NoLostUpdate` when `MaxWriters = 1`. By itself
  it is not inductive: a commit could repeat a base. `LockInv` adds that an
  account has one writer (`OneWriter`), that a put past its check has read and
  named the present revision (`ReadIsCurrent`), and that accepted bases lie
  below the present revision (`AcceptedIsPast`), so a new one is new.
* `RegisterRefined`: when `MaxWriters = 1`, `ApiSpec` implements
  `SaveRegister!Spec` under the mapping in `SavesApi`, from the same invariant:
  `PutCommit` is `Push`, `DeleteRow` with a row is `Remove`, everything else
  stutters.
* `RowsHaveFiles`: `RowHasFile` when `Ops` has no "delete", for any overlap.
  `FileInv` adds that a put past the truncation has a file in its place.
* `PullsAreNotOlder`: `PullNotOlder` when `Ops` has no "delete" and
  `MaxWriters = 1`. `FreshInv` adds that the file is as new as the row
  (`FileIsFresh`), that what a put has written is there when it commits
  (`WrittenIsThere`), and that a row a download has read lies behind
  (`FoundIsPast`).

`CloudSavesProofs` proves all the safety properties of the client composed with
the server, from `CloudSavesAssumption`, for any devices, accounts and handlers:

* `CloudTypesCorrect` (`TypeOK`) and `OneOperationAtATime` (`OneOperation`), with
  no further assumption. `CloudInv` adds what a job in flight is tied to
  (`JobOK`): the handler of a request that was sent serves this device and does
  what it asked for, and as long as there is a job the screen is busy and has no
  dialog. So a dispatch, also one that does not test `cloudBusy`, finds no job.
* `ClientsImplementRegister` (`ImplementsRegister`) and `ServerKeepsItsWord`
  (`NoLostUpdate`, `RowHasFile`, `PullNotOlder`) when `MaxWriters = 1`, for any logins,
  lost answers and torn files: every step of the devices is a stutter of the
  server or one of its own actions (`ApiMoves`), and the invariants of
  `SavesApiProofs` carry over, because the devices offer no request the routes are
  not proved for.
* `NothingIsLostSilently`, `SyncedIsPast`, `InSyncMeansHeld` under `Calm`:
  `MaxWriters = 1` and `OneAccountEach`, that is, nobody logs out or there is no
  other account to log in to. The two limits are the first two findings of section 4:
  without them the code does not keep the properties. A device that is logged out
  keeps what it knows of its account, which is why the invariant speaks of
  `Home(d)` and not of the session. The idea of the invariant
  (`SavedInv`) is `Known(d, u, r)`: the row of `u` is no older than `r`, and if it
  is `r` and the file is its package, `d` holds that package. A device knows its
  synced revision, the revision of every result that would become it, and the
  one an upload without a question replaces; an answered download is `Shown`.
  Knowledge is kept by every step because a row only grows (`CommitIsNext`) and
  because a put in progress never writes the row's own package (`PutOK`,
  `OwnPackages`). `KnownLess` makes a torn file of synced revisions harmless.

`AuthTokensProofs` proves, from `AuthTokensAssumption` alone:

* `TypeCorrect` (`TypeOK`).
* `RotationIsSafe` (`OneLive`). `Rotating` accounts for the successor a refresh is
  about to create: its session has no live token, and no other handler is about to
  create one, because only one delete of a row succeeds.
* `SessionsRefined` (`ImplementsSessions`), from the same invariant: a successful
  delete is `Turn` in a refresh and `Close` in a logout or a purge (`KeyTaken`), a
  minting is `Login` or `Renew` (`KeyGranted`), a query that fails between the two
  halves is `GiveUp`, everything else is not seen. That a session which has no key
  and is not being turned is over for good needs no variable of its own here:
  `Sessions` has no step that would bring it back.
* `RevocationHolds` (`RevokedStaysOut`). `BlockInv` says that a token which was
  revoked when a request came stays in RevokedToken until it has expired by itself.

`LocalBackupsProofs` proves six theorems from `LocalBackupsAssumption` (any profiles,
files, versions, times) and `NoSaveAssumption` (distinct values), with no assumption
on what may fail or overlap; the exceptions are in the properties, by `spoiled` and
`harmed` (section 3):

* `BackupsTyped` (`TypeOK`). `Sane` adds what a job always is: it copies a save
  that is there, a package in the queue names profiles the cloud has, only a copy
  can have a slip.
* `BackupsAreKept` (`KeptUntilDeleted`), from what each step can change of the
  directories (`StepEffects`).
* `RestoreIsAtomic` (`LiveIsWhole`), `ManifestIsLast` (`ListedIsWhole`) and
  `RestoreIsExact` (`RestoredIsBackup`). None is inductive alone, and the first two
  need each other: a backup is whole because it copies whole saves, a restored save
  because it comes from a whole backup. `MakingInv` says what the directory being
  written holds, if it is not spoiled (the profiles done are whole, the one at hand
  has exactly the files copied, those to come have none), so that the manifest names
  whole saves only; `RestoringInv` says that a mount holds what was copied of the
  directory so far, and nothing else; `OfferInv` that what a restore may start
  from, on the screen or in the queue, has been offered with these profiles and is
  still there unless it was spoiled since; `DeletionInv` that a directory under
  deletion is spoiled.
* `ShelfRefined` (`ImplementsShelf`), step by step (`ShelfStep`). Beyond the
  invariants above the mapping needs that the saves a backup has copied are still
  the profiles' (in `MakingInv`, by `Source`), so that its many copies may count as
  one moment, the step that completes the manifest; and that an import has dealt
  with or will deal with every profile of the package that has files (`ImportInv`).

`ModsProofs` proves `OneModLive` (`RomfsOfOneMod`) and `TypeOK` (`ModsTyped`) for
every set of troubles; the other properties name the one they cannot bear:

* `MarkerIsTrue`: `MarkerTells` without "marker". `MarkerInv` adds that the marker
  is gone before a copy starts and that the romfs is of the mod it names.
* `MarkedIsCopied`: `EnabledIsStaged` without "overlap". `AloneInv` says that the
  worker rests and the queue is empty while the manager works; `CopyInv` that what
  has been copied is of the library's versions, and, as long as no error has passed
  unnoticed, that every file dealt with equals the library's and every other place
  is still empty.
* `UninstallIsComplete`: `UninstalledIsGone` without "marker". `AppliedInv` says that
  a romfs which holds something is marked, is about to be, or was left by an
  enabling that broke off, and that the mod being unstaged is not the marked one.
* `ImportIsComplete`: `ImportIsWhole` without "overlap". `ExtractInv` says that the
  files an extraction has dealt with are in the library, of its version, and whole
  unless a flush has failed in this import; `AloneInv` keeps every other task from
  taking or tearing them. What an archive that broke off would have given is not
  part of it.

All of them rest on `Inv`: every library directory holds files of its own mod
(`StagedInv`), and the romfs is empty before a copy and of the copied mod during it
(`LiveInv`).

`CatalogProofs` proves, from `CatalogAssumption` alone (finitely many titles, any
pages, any sites):

* `CatalogTyped`: types, and that a crawl counts its requests by the pages it has
  asked for.
* `CoversInPlace`: `CoverOfItsTitle`. `CoverInv` adds what a waiting job knows: it
  belongs to an open screen, its generation is not ahead of `listGen`, and only
  if it is equal does its cell hold its title.
* `NothingMissing`: `CompleteUnlessTold`. `CrawlInv` says that pages visited or
  waiting can be reached, and that a crawl which cut nothing has queued or
  visited every link of what it visited; when the queue is empty, what it visited
  is closed, and `Reached` is the smallest closed set.

`SourceLinksProofs` proves, from `SourceLinksAssumption` (finitely many handlers,
any accounts, links and lengths), one theorem per property; each names the
assumptions the run makes by its constants:

* `SourcesTyped`, with no assumption on overlap or removal. The invariant adds what
  a handler in the middle of a request knows of it.
* `RowsAreOwn`: `OwnRows` when `MaxPerUser = 1`. `Held` says that a handler about to
  update or delete a row has found it to be its account's and it still is: the
  others that could have changed it are of the same account, of which there is one
  (`OneRequest`). With two, a row may be deleted and made anew by another account in
  between.
* `RowsKeepTheirIds`: `RemoteIdOwn` when `~EditWhileSync`, with any overlap.
  `OwnJobs` says that every result so far is of the link with its index, `Waits`
  that the request under way is of the link whose turn it is, `Current` that the
  sync whose end the screen will see is the last job and its rows are still where
  they were.
* `GreenIsStored`: `SyncedIsStored` under both, and with other clients on other
  accounts (`Me \notin Others`). `MineIsCall` says that while the worker waits its
  request is the account's only one, so a request given up as lost has come to
  its end before the next is sent; `StoredSoFar` that after results which are all
  "ok" their links are stored and nothing of the account is on its way.

`ThemesProofs` proves the four properties of the run `themes`, from `ThemesAssumption` (any
themes, targets and verdicts). All rest on `JobsInv`, what the screen and the queue
know of each other: a screen that has its first answer owns every job left in the
queue, the button waits for one job at a time and no check is queued beside a
download.

* `ThemesTyped`, whatever fails.
* `ButtonIsTrue`: `AppliedShown` without "record" (a record that is not written, and
  not told). `Shown` says the same of busy screens, so that a job that ends finds it.
* `RecordIsOwn` and `InstallOrNothing`: `RecordNotForeign` and `AllOrNothing` without
  "record" and "kill". `Written` says what a running install has changed so far,
  `Named` lets the outputs it has put differ from the record until it ends.

Every safety property of a passing run is proved. Only model-checked: liveness
(`OperationEnds`, `LoadingEnds`), which is beyond TLAPS here.

## 6. Not modelled

`PROJECT.json` lists the status of every component. Not modelled yet, and on the
plan: self-update, paging of the browsers, visibility of titles, cheats. Not
worth a model: rendering, layout and navigation, TLS set-up, image decoding, the
cryptography and container formats of firmware extraction, because no protocol
state of the program is in them. Most lines of the repository (nine in ten) are
libraries under `lib/`, which the program only calls; they are not modelled.
