# Fylix in TLA+

Fylix is a self-hosted file transfer service: a sender uploads files in chunks, a
worker encrypts them into object storage and mails the recipients a link, and the
transfer ends by expiry, deletion, revocation or quarantine. This directory holds
TLA+ models of its backend and of the parts of its two web clients that the backend
depends on (the upload page, the admin panel's session and its list views), TLC
configurations for small instances, and TLAPS proofs for arbitrary ones.

Line numbers refer to `src/`; paths without a prefix are under `src/backend/app/`.

## 1. Inventory

| Component | State | Operations | Talks to |
|---|---|---|---|
| Transfer state (`models/transfer.py`, `services/transfer.py`, `staging.py`, `storage.py`) | row with status and wrapped key, staging directory, MinIO prefix | create, put, delete objects, secure delete | everyone below |
| tus handler (`tus/handler.py`) | size of each staging file | HEAD, PATCH | pushes `upload:ready` |
| Encrypt worker (`worker/tasks/encrypt.py`) | Redis lock, file key in memory | one job from BRPOP to DEL | row, staging, MinIO, `email:queue` |
| Cleanup and Defender ticks (`worker/tasks/cleanup.py`, `defender_poll.py`) | none of their own | sweep of expired, flagging of vanished files | row, staging, MinIO |
| Delete, revoke, download (`routers/public.py`, `routers/admin.py`) | a loaded row per request | sender's and admin's handlers | row, MinIO, `email:queue` |
| Byte path (`crypto/stream.py`, `_IteratorIO`, `_aiter_from_sync`) | sliding window, buffer | encrypt, stream out, verify | MinIO, client |
| Master-key rotation (`admin.py` rewrap, `scripts/rotate_master_key.*`) | keys of each process, wrappings in the tables | restart, rewrap in chunks, offline script | transfers, admins |
| Admin access (`services/auth.py`, `session.py`, `admin.py`) | admins rows, Redis sessions | login, lockout, logout, require_session, account changes | - |
| Rate limiting (`middleware/rate_limit.py`, `services/rate_limit.py`) | Redis counters, cache of limits per process | consume, cache fill | settings |
| Upload guards (`create_transfer`, `policy.py`, `blocklist.py`, `geoip.py`, `captcha.py`) | blocklists, settings | the checks; admin edits | settings |
| Mail queue (`email_send.py`, `queues.py`, `dlq.py`) | Redis list, `email_status` | announce, notice, pop, send, update | SMTP relay |
| Admin lists (`admin.py`, the `*View.vue` list views) | rows shown, cursor, filters | load, load more | audit, actions, transfers |
| Upload page (`UploadView.vue`, `useTusUpload.ts`) | list of files, their ticks, one tus upload | submit, add, remove, HEAD, PATCH, retry | create, tus handler |
| Panel in the browser (`middleware/csrf.py`, `http.py`, `client.ts`, `session.ts`, `router.ts`) | cookies, store and page of every tab | open, poll, click, login, logout | Redis sessions |

What makes each correct, beyond types: a transfer is published once, whole, and
ends; bytes arrive and leave unchanged whatever the network does; keys stay readable
through a rotation; who is locked out, logged out or over a limit stays so for as long
as the code says and no longer; a list shows every row once; a mail goes out once.

Not modelled: alerts and Telegram (fire-and-forget output), the request-id
middleware and the error envelope (functions of one request), analytics, metrics and
the CSV export (read-only), token and file-name helpers, mail templates, the remaining
views of both web clients, migrations, proxies and dashboards. `PROJECT.json`
gives the reason for each.

What is hard here: all of it is asyncio code, so every `await` is a place where
another request, worker or tick runs, and what was loaded before is stale after;
rows are written by primary key without versions; Postgres, Redis, MinIO and the
staging disk are written one after another without a common transaction; jobs
leave Redis before they are processed; browsers retry what may have arrived; and the
docs promise irreversible deletion in the middle of it.

## 2. Modules

| Module | Models |
|---|---|
| `Orm` | what a SQLAlchemy commit writes: the columns that differ from what the session loaded |
| `TransferState` | the shared state of one transfer and its initial state |
| `TusHandler`, `EncryptWorker`, `Janitors`, `TransferRequests` | the components, one action per stretch between awaits |
| `TransferSystem` | their composition with the antivirus and the clock; properties, fairness |
| `ShareLink` | the abstract promise of a transfer: one publication, no reopening, no key after its erasure |
| `MCTransfer` | instance for TLC |
| `TransferProofs` | proofs for `TransferSystem` |
| `KeyRotation`, `KeyRotationProofs` | rotation of the master key |
| `AdminAccess`, `MCAdminAccess`, `AdminAccessProofs` | accounts, logins, sessions |
| `RateLimit`, `RateLimitProofs` | the rate limiter |
| `UploadGuards`, `MCUploadGuards`, `UploadGuardsProofs` | the checks of POST /api/transfers against concurrent edits |
| `FileStream` | the bytes of one file |
| `MailDelivery` | the mails of one transfer |
| `DeliveryProofs` | proofs for `FileStream` and `MailDelivery` |
| `AdminListing`, `MCAdminListing` | paging of the admin lists; its proofs are in `AdminAccessProofs` |
| `UploadPage`, `MCUploadPage`, `UploadPageProofs` | the upload page, the network, and what the api and the worker make of its bytes |
| `AdminBrowser`, `MCAdminBrowser`, `AdminBrowserProofs` | the admin panel's tabs over one cookie jar, CSRF tokens, login and logout |

`map` in `PROJECT.json` names the source lines of every definition.

### Correspondence and abstractions

- **An action is the code between two awaits.** What a coroutine read before an
  await is kept in a variable of its own. `Flush(loaded, assigned, stored)` is the
  commit of one column: nothing is written when the assigned value equals the loaded
  one, and whatever another transaction committed meanwhile is overwritten
  otherwise. No column is versioned and no row is locked in the code.
- **One transfer.** Transfers share the queues only (own row, directory, prefix and
  lock key), so one carries all the interference. Files have sizes, not bytes. A
  file key is a number, drawn afresh by each attempt; an object remembers the key it
  was written under, which is what a download needs to know.
- `LoopFree` keeps a worker's ticks from running while its event loop is inside a
  stretch without awaits. The api of the compose deployment is one process, so stat and
  append of a PATCH are one step, and its other requests wait (`ApiFree`) until an
  oversized append is cut back. The worker, the antivirus and the sweeps are other processes:
  they see the oversized file between the two (patch state `over`), and it stays when the api
  dies there. `_append_stream` stops one read beyond the declared size; `Slack` stands for
  its 64 KiB.
- A worker ends in two ways: `WorkerCrash` (killed, nothing runs) and `WorkerCancelled`
  (the other consumer's BRPOP raised, so `gather` cancels the job and its `finally`
  clauses shred and unlock).
- `secure_delete` is one step in the ticks and two in the encrypt worker, where
  other processes can see the directory between them. The 10 s minimum age of the
  Defender poll is dropped: an upload may pause longer than that between two files.
- Rows of `downloads`, audit events and mails are outputs in `TransferSystem`;
  the mails come back as `MailDelivery`, which takes from `TransferSystem` that a
  transfer is announced at most once.
- **Faults** are bounded by `MaxFaults`: a backing service fails, a process dies.
  `jobLost` is a history variable: a complete upload's job was never pushed, or was
  lost with the worker that had popped it.
- `KeyRotation`: the operator follows `docs/KEY_ROTATION.md` (all apis, then the
  worker, then rewrap, then the closing of the window), or runs the script. Wrapping
  is deterministic (AES-KW), so a row already under the new key is not written. The
  two steps of a delete are one here; their interleaving is in `TransferSystem`. `Caller`
  is the admin whose session the endpoint loads before the others' secrets.
- `AdminAccess`: a PATCH of an account changes one field. Times are reduced to "past"
  and "to come". `strikes`, `outrun` and `overtaken` are history variables: a failure that
  was outrun (another login of the account was counted between its load and its commit) sets
  the counter back, so a new row of failures begins with it; a request is overtaken when
  another commit takes an active admin away after its count, or makes the account active it
  has loaded as inactive. `Guessed`, `MaxCalls` and `MaxCount` bound the run.
- `RateLimit`: one client address; time is a tick that shortens every remaining
  lifetime; the counter stops at `MaxHits`, above every limit, where the comparison
  no longer changes. `recent` and `seen` are history variables that say which limits
  were in force when. `Traffic` names the actions the client asks for: uploads and
  downloads share no key and no counter, and the two limits of an upload contain the
  one of a download, so the run has uploads only; the proofs have both.
- `FileStream`: GCM is ideal. A MinIO piece may have any size up to `FetchSize`; the
  loops' chunk size and the pieces are independent although both are 64 KiB in the
  code, for nothing aligns them. `Tamper` cuts, moves, replaces and adds bytes.
- `UploadGuards`: one upload at a time; a blocklist entry is one that matches the
  sender; an extension is listed with or without its dot. `standing` and `ever` say
  which rules have applied all the time, and at some time, since the request came. PATCH
  /settings loads its keys one by one and commits them together (`PatchLoad`,
  `SettingsCommit`); POST and DELETE /extensions are the same with one key. `missed` and
  `disputed` are history variables: the entries of the list changed since an edit loaded it,
  and those on which two answers may disagree.
- `AdminListing`: a filter selects one of a few kinds of row, and a row may change its
  kind (a transfer is revoked, say). The i-th row of a page is the one with i - 1 newer
  ones, which is ORDER BY without a sorting procedure. Opening, filtering, deleting and revoking start a
  load without waiting for another; "Load more" waits for `loading`. `clean` is a history
  variable: the list was opened by a load that ran alone, and continued with its filter.
- `UploadPage`: one press of Send. A byte is its file and its place, so "byte for byte"
  can be said. The tus client is external: HEAD first, chunks from the offset it is told,
  a retry for a broken connection, a 5xx or a 409, attempts that start again with
  progress. A connection may break before the request arrives, or after it: then its
  handler goes on alone while the client already asks again. Files may be empty. The
  worker encrypts and commits in one step, shreds in another, and may fail or die in each
  (`EncryptFails`, `WorkerDies`); its steps in detail are `TransferSystem`'s. `lost` says
  whether the job, or the staging files under an `uploading` row, went with it. `Disks` gives
  the names and sizes of the sender's files.
- `AdminBrowser`: a panel tab shows the dashboard, which polls, or another section, which
  asks when it is opened and sends the changes. A tab has at most one request that reads
  and one click. A click reads the csrf cookie first (`Called`) and gets its cookies from the
  browser when it is sent (`Depart`); an answer sets its cookies when
  it arrives, which may be after a later one's. The lifetimes of cookies and sessions are
  dropped: each may end at any time. Whether the account still exists is a free choice,
  for `AdminAccess` has it.

Deadlock is checked where the system cannot stop (`admin_plane`, `rate_limits`,
`file_stream`, `list_transfers`, `upload_guards`, `admin_browser`). One transfer, one
rotation, one submit and a finite set of mails do come to an end, so the other
configurations switch it off.

## 3. What is checked

States are distinct states; times are with two workers.

| Run | Instance | Shows |
|---|---|---|
| `transfer_lifecycle` | 1 file, 1 worker, 1 PATCH, 1 delete or revoke, expiry, chunks one byte too long, 1 fault; 0.2 M, 90 s | `TypeOK` (a file grows one read too long at most), `NoStrayLock`, `LinkSpec` (the lifecycle implements `ShareLink`), and under fairness `CompleteUploadResolves`, `LinkCloses`, `PlaintextGoes` |
| `transfer_workers` | 2 files, one empty, the other one in the antivirus' way, 2 workers (symmetric), duplicate jobs, chunks too long, 1 download at a time, 1 fault; 4.5 M, 130 s | `EncryptExclusive`, `AnnouncedOnce`, `ReadyIsComplete`, `StreamsKeepTheirObjects`, `OversizeIsPassing`, `RefusedOnlyIfTampered` |
| `rotation` | 2 transfers, 1 admin, 2 apis, chunks of one row, 1 reset, 1 dying run; 0.16 M, 35 s | `ReadableThroughout`; under fairness `RunEnds` |
| `admin_plane` | 2 accounts, 2 logins and 2 requests (symmetric), any 2 of them at a time, threshold 2; 1.6 M, 65 s | `NoLateAction`, `LastAdminRemains`, `ThresholdLocks` |
| `rate_limits` | 2 uploads of one client, 1 change of the limits, outages; 0.38 M, 2 min | `FreshLimits`, `WithinWindow`, `BlockIsTemporary` (liveness) |
| `file_stream` | files of 0..5 bytes, tag of 3, chunks of 3, pieces of 1..4; 6 k | `TypeOK` (memory bound), `OnlyTheOriginal`, `UntouchedPasses` |
| `list_transfers` | 3 rows, 2 timestamps, pages of 1, 2 filters, 2 overlapping loads; 1.2 M, 35 s | `EachRowOnce`, `NoRowSkipped` |
| `upload_guards` | any upload, 2 symmetric admins, 2 edits; 2.1 M, 100 s | `RulesHold`, `RefusedForAReason`, `ListAsAnswered` |
| `mail_delivery` | 2 recipients, 2 workers, 1 notice, 2 faults; 2.7 k | `MailedAtMostOnce`, `SentIsTrue`, `MailResolves` (liveness) |
| `upload_page` | 2 chosen files and 1 dropped later, names shared in each way, one or both chosen files empty, 2 PATCHes at the api, 1 retry, worker failures; 80 s | `StoredIsOriginal`, `DoneIsWhole`; under fairness `SuccessMeansQueued`, `SubmitEnds` |
| `admin_browser` | 1 tab with a user, 1 tab left open, 2 sessions, 2 tokens; 0.9 M, 200 s | `LoggedOutStaysOut`, `RefusedOnlyWhenLapsed`; under fairness `LogoutReachesTabs` |
| `deleted_reopens` | 1 file, 1 worker, 1 delete | **violated**: `DeletedIsFinal` |

Every property has a mutant in `PROJECT.json`: a plausible slip in one definition
(a dropped NX, a cursor that includes its row, a window that slides) with which TLC
finds the property violated.

### Why the bounds are enough

Two of everything that can interfere: two workers for the lock and duplicate jobs,
two apis for the rolling restart, two requests for the cache, two pages and two rows
with one timestamp for the cursors, a tag longer than a piece and a piece longer than
a chunk for the window. One fault between any two steps reaches every half-done
state; the sequences need no second one, and the proofs do not bound faults at all.
`MaxShown` stops a view at three rows, all that the table has. A chunk that arrives
late and its retry are two PATCHes at the api; a third would meet the same offset test.
One retry is enough for `SubmitEnds`, since progress gives it back. The sizes 2, 1 and 3
of `upload_page` let a file that shares a URL both fill it with its first chunk and send
more than it takes.

`admin_plane` and `upload_guards` have two logins, two requests and two administrators, so
the windows between load and commit do overlap. The code has no protection there, and
`ThresholdLocks`, `LastAdminRemains` and `ListAsAnswered` do not hold without exception
(section 5). Each says which overlap alone does harm, in terms of what a commit found
changed since its load, and that every other one is safe; a guard that is missing or
weaker breaks them without any overlap. The two calls at a time of `MaxCalls` may be of
either kind; `MaxCount` lets the counter pass the threshold once.
The 2, 0 and 1 byte of the empty-file disks reach HEAD 0 = 0, an empty file beside a full one,
and a late file that takes an empty one's place.

### Fairness

Weak fairness on the steps of workers, ticks, requests in progress and rewrap runs:
an event loop is not blocked for ever, APScheduler keeps ticking, compose and
Kubernetes restart what dies, SMTP has a 30 s timeout. A Redis TTL runs out, and the
clock reaches `expires_at`. Time passes (`RateLimit`). Clients, administrators, the
operator and the antivirus owe nothing. `CompleteUploadResolves` excepts a lost job,
because BRPOP has taken it when the worker dies and nothing puts it back.

`UploadPage`: the create request and HEAD are answered or fail, the page's script goes
on, the handlers end and the worker serves its queue; connections may break as often
as they like; a worker that fails or dies owes nothing but the rest of its queue.
`AdminBrowser`: the dashboard's `setInterval` fires (no other section has one), its requests
end, and not every one of them fails or loses its answer (strong fairness; a tab whose polls all
fail cannot learn of a logout). Nothing is assumed of the user.

## 4. What is proved

`tlapm` checks these for every value of the constants that meets the ASSUMEs.

| Theorem | Statement |
|---|---|
| `TransferProofs!TypeCorrect` | `Spec => []TypeOK`; a staging file is never longer than `SizeBytes + Slack`, also after faults |
| `TransferProofs!ExcessIsCut` | `Spec => []OversizeIsPassing` |
| `TransferProofs!LockReturned` | `Spec => []NoStrayLock` |
| `TransferProofs!EncryptExclusion` | `~SlowEncrypt /\ Spec => []EncryptExclusive` |
| `TransferProofs!ReadyCompleteness` | the same for `ReadyIsComplete` |
| `TransferProofs!StreamSafety` | the same for `StreamsKeepTheirObjects` |
| `TransferProofs!SingleAnnouncement` | the same for `AnnouncedOnce` |
| `TransferProofs!OnlyTamperedRefused` | the same for `RefusedOnlyIfTampered`, an action property |
| `TransferProofs!ShareLinkRefinement` | the same for `LinkSpec` |
| `KeyRotationProofs!RotationKeepsReadable` | `Spec => []ReadableThroughout` |
| `AdminAccessProofs!LateRequestsRefused` | `Spec => []NoLateAction` |
| `AdminAccessProofs!LockoutWorks` | `Spec => []ThresholdLocks` |
| `AdminAccessProofs!LastAdminSafe` | `Spec => LastAdminRemains`, an action property |
| `AdminAccessProofs!ListedOnce`, `ListedAll` | `ListSpec => []EachRowOnce`, `[]NoRowSkipped`, for the list of transfers |
| `RateLimitProofs!LimitsStayFresh`, `WindowsHold` | `Spec => []FreshLimits`, `Spec => []WithinWindow` |
| `DeliveryProofs!StreamTypes` | `Spec => []TypeOK` of `FileStream`: one tag and one piece of memory |
| `DeliveryProofs!VerifiedIsOriginal`, `UntouchedIsServed` | `Spec => []OnlyTheOriginal`, `Spec => []UntouchedPasses` |
| `DeliveryProofs!NobodyMailedTwice`, `SentMeansTaken` | `MailSpec => []MailedAtMostOnce`, `[]SentIsTrue` |
| `UploadGuardsProofs!StandingRulesHold`, `RefusalsAreFounded` | `Spec => []RulesHold`, `Spec => []RefusedForAReason` |
| `UploadGuardsProofs!EditsAreKept` | `Spec => []ListAsAnswered` |
| `UploadPageProofs!UploadsAreOriginal`, `TicksAreTrue` | `Spec => []StoredIsOriginal`, `Spec => []DoneIsWhole` |
| `AdminBrowserProofs!LogoutIsFinalHere`, `ClicksPass` | `Spec => []LoggedOutStaysOut`, `Spec => []RefusedOnlyWhenLapsed` |

So every safety property of a passing run is a theorem.

**Transfers.** The only assumption beyond the constants' types is that an encryption
does not outlive the lock's 600 s (`~SlowEncrypt`; the comment at `encrypt.py:38`
assumes it too; with `SlowEncrypt = TRUE` the exclusion fails, since the DEL at the
end does not ask whose lock it is). The inductive invariant `IInv` is `TypeOK`,
`LockHeld` (who is inside took the lock), `KeyLife` (status, key and announcement move
together), `AttemptInv` (what the attempt has stored so far is under its key, and
nothing is published yet), `Stored` and `Streaming` (objects under a published key only
disappear). None is inductive alone: exclusion needs the lock, publication needs that
`uploading` never comes back, and the streams need that nothing is written after
publication. The refinement maps `ready` to an open link and the key with the
publication's record to none, held or erased. `OversizeIsPassing` is inductive with the types:
whoever appends too much is the one that cuts, and no other process makes a file
longer. `NoStrayLock` needs types only, and no
assumption on the time an encryption takes. `RefusedOnlyIfTampered` is an action property; its invariant
`Untampered` follows the reason from Redis to the size test: while no fault has happened,
a job stands for files of full size, or about to be cut to it (those the antivirus has taken
aside), or for a row that is no longer uploading (`JobSure`), and so does the worker that
has popped it (`WorkerSure`);
`SweepsPublished` keeps a cleanup tick away from the staging of an unpublished transfer.

**Rotation.** `Phases` says which mix of restarted processes can exist, `NotEarly` that
nobody writes the new key before every api can read it, `Swept` that the rows a run has
passed are not under the old key, although rows come and go, and `AllMoved` that after a
successful run nothing is.

**Admin access.** `Owned` and `Born` tie sessions to accounts that have existed;
`LateIsRefused` says how far a request of a dead account can have come. `Counted`: a login
that was not outrun has loaded the counter as it still is, and the counter has counted every
strike of the row; so the failure that makes the row long enough sees the threshold and locks.
`LastInv`: of a request that was not overtaken, a target it loaded as inactive still is, and
once it has decided to take an active admin away there is another one. Neither supposes
anything of the number or the order of requests; section 5 has what the excepted overlaps do.

**Lists.** `ListInv`: what is shown comes newest first, so nothing twice, and `nextCursor`
is that of its last row; a load that has run alone has the cursor of the list (`Alone`);
what it brings lies behind that cursor (`Pages`); the rows that have matched all along are
shown, or older than the last one (`CleanList`), and the page on its way has those that
follow (`Continues`). That a page holds the newest rows in order (`PageOfRows`) rests on `Ranks`: the
number of newer rows is an injection of n rows into 0..n-1, hence onto it. The hypothesis
`Listing = "transfers"` is needed, for the cursors of the other lists do not have the
property (section 5).

**Rate limits.** `CacheIsRecent` ages every cached value against the history of the
table, which is what makes a fill that overtakes another harmless: the expiry is counted
from before the read. `Windows` counts what has passed in each window.

**Bytes.** For any lengths of file, tag, chunk and piece, and any changes to the object.
`Whole`: of an untouched object, what was sent, what is held back, what is buffered and what
is to come are the file and its tag, in this order; `TagHeldFirst`: nothing is sent before a whole
tag is held. A stream that ends with an untouched object therefore holds exactly its tag.
`OnlyTheOriginal` is an ideal tag's promise for the comparison at the end.

**Mails.** `OnePlace`: a recipient's mail is one entry of the queue, or in the hands of one
consumer, or with the relay, never two of them, however often consumers die and requests
fail; `TruthfulUpdate`: a status about to be written is what the relay said.

**Upload guards.** `Passed`: a check that was passed saw a moment at which its rule did not
apply, or holds a value that the policy will still refuse; `Grounds`: a value that will lead
to a refusal was in force at some moment; `History` ties both to the tables. Admins may edit between
any two reads. `EditsAreKept` rests on `EditInv`: what an edit has loaded of the list is what
is stored, but for the entries in `missed`; so the whole list it writes differs from the stored
one in its own entry and in those only.

**Upload page.** The properties speak of whole files, the invariant of single bytes:
`StagedOK` and `StoredOK` say that the i-th byte of a staged or stored file is the i-th of
a listed file with that URL, which an append preserves because its offset was compared
with the length in the same step. `RequestsOK` adds that a handler that has filled a file
finds it full later, `ClientOK` that the client works on the file of the loop,
`Untouched` that nothing has happened before the answer to create, `DoneOK` that a tick
stands on a full file while staging is kept (`Kept`), `ShredOK` that shredding comes after
the row is closed or known to be lost. Which of the chosen files owns a name's URL is a CHOOSE over
indices; that there is a last one is the minimum principle of the natural numbers
(lemma `Smallest`, from the library's well-foundedness).

**Panel.** `Out`: the cookie goes with the logout. `TabsHaveToken`: whoever is in the panel has
a token, or had one that ran out. `Sound`, of every request: sent after a logout it is past
none of the checks (`SentOut`); it, or its answer, brings a tab into the panel only with a token
(`Tokened`); a click has the token it read and repeats it, unless it is stale (`Clicked`).

All proofs are of `Spec`, without fairness. The modules proved about update a record
inside a function as `[f EXCEPT ![i] = [@ EXCEPT !.a = x, !.b = y]]`: this version of the
prover mistranslates two updates below one index, so the other form is kept out of them.

Only model-checked: the liveness properties `CompleteUploadResolves`, `LinkCloses`,
`PlaintextGoes`, `RunEnds`, `BlockIsTemporary`, `MailResolves`, `SuccessMeansQueued`,
`SubmitEnds` and `LogoutReachesTabs`, which are outside the prover.

## 5. Where code and documentation disagree

One is a run of this project. `deleted_reopens`: the encrypt worker checks the status
once and commits `ready` by primary key (`encrypt.py:144`): a delete committed meanwhile is
undone and the link opens. `docs/SECURITY.md:90` calls the delete irreversible. `ShareLink`
is still implemented, for the link opens for the first time.

The modules state more such properties; TLC violates each of them on the instance of
the run named, changed as given.

| Property | Instance | What happens |
|---|---|---|
| `DeletedHasNoKey` | `deleted_reopens` | delete loaded the row before the encrypt commit; `wrapped_key = None` is no change for the ORM and the new key stays (`public.py:757`; `README.md:75`) |
| `DeletedLeavesNoPlaintext` | `deleted_reopens`, `FairSpec` | a transfer deleted during upload keeps its plaintext in staging (`public.py:755`; `docs/SECURITY.md:191`) |
| `NeverHalfStored` | `transfer_lifecycle` | objects removed, row not committed: ready without objects until expiry (`public.py:756`; `docs/CHAOS_PLAN.md:12`) |
| `NoFalseQuarantine` | `deleted_reopens` with two files | a Defender tick between two files of an upload flags it (`defender_poll.py:75`) |
| `RefusedOnlyIfTampered` without the exception of empty files | `transfer_workers` | an empty file needs no PATCH and then is missing for the encrypt worker (`tus/handler.py:133`; `schemas/transfer.py:13` allows it) |
| `RefusedOnlyIfTampered` without `Overlong` | `transfer_workers` | a job whose size test (`encrypt.py:112`) falls between the append and the truncation of an oversized chunk (`tus/handler.py:80`, `:86`) refuses a complete upload |
| `CompleteUploadResolves` without its exception | `transfer_lifecycle` | a killed worker leaves the transfer uploading for ever (`queues.py:48`; `docs/CHAOS_PLAN.md:104`) |
| `ErasedStaysErased` | `rotation`, `ChunkSize = 2` | a rewrap page loaded before a delete writes the key back (`admin.py:1506`; `README.md:75`) |
| `ResetSticks` | `rotation` | the rewrap writes an old TOTP secret over a reset (`admin.py:1523`; `admin.py:1454`) |
| `ScriptAllOrNone` | `rotation` | the offline script commits in chunks (`rotate_master_key.py:77`; `docs/THREAT_MODEL.md:70`) |
| `LastAdminRemains` without `overtaken` | `admin_plane` | the active admins are counted before the commit, so two requests remove the last two (`admin.py:1216`; `tests/integration/test_admins_crud.py:234`, `:255`) |
| `ThresholdLocks`, counting every failure as a strike | `admin_plane` | overlapping failures are counted once (`auth.py:103`; `README.md:86`) |
| `LogoutIsFinal` | `admin_plane` | `touch` sets a session that a logout has deleted (`session.py:102`; `docs/SECURITY.md:67`) |
| `FailsOpen` | `rate_limits` | without Redis every create and download is a 500 (`middleware/rate_limit.py:113`; `docs/CHAOS_PLAN.md:64`) |
| `QuietEndIsWhole` | `file_stream` | a broken MinIO connection ends the body without an error (`public.py:47`, `:17`); a ZIP has no Content-Length to show it |
| `EachRowOnce` | `list_transfers`, `Listing = "audit"` | integer ids do not decode as UUIDs, the cursor is dropped (`admin.py:88`, `:78`) |
| `NoRowSkipped` | `list_transfers`, `Listing = "actions"` | a cursor of a timestamp alone (`admin.py:1065`, `:76`) |
| `EachRowOnce` without `clean` | `list_transfers` | the first of two overlapping answers clears `loading`; "Load more" then appends to a list that is about to be replaced (`TransfersView.vue:47`) |
| `LogoutReachesTabs` for the whole panel | `admin_browser` | the dashboard alone polls (`DashboardView.vue:26`); a tab on another section shows what it has after a logout elsewhere |
| `StoredIsOriginal` without `OwnName` | `upload_page` | a file dropped during the upload, with the name of one that failed, completes it with its own bytes, and the transfer becomes ready although the page reports a failure (`UploadView.vue:154`) |
| `SuccessMeansQueued` without `lost`, or without its other conditions | `upload_page` | an upload of nothing but empty files gets HEAD 0 = 0 for each and sends no chunk (`tus/handler.py:53`, `schemas/transfer.py:13`); after a failed LPUSH HEAD says complete; of two files with one name the second finds a full URL; a file removed while create is pending is never sent: success page, no job |
| `ListAsAnswered` without `disputed` | `upload_guards` | of two added extensions one is lost (`admin.py:808`); a PATCH that sends the list it had loaded writes nothing over a change made meanwhile, although its answer has the old list |
| `GeoFailsClosed` | `upload_guards` | no country database, no gate (`public.py:319`; `geoip.py:50`) |
| `ListedIsRefused` | `upload_guards` | an extension listed without its dot matches nothing (`policy.py:61`; `schemas/admin.py:40`) |
| `NullLeavesAlone` | `upload_guards` | a null is stored (`schemas/admin.py:54`, `:51`) |

Seen while modelling or reading, without a property:

- *Uploads.* A PATCH that loaded its row before the shredding and appends after it makes
  the staging directory anew, and no sweep comes back to it. An append between the
  worker's stat (`encrypt.py:112`) and its read of the same file makes the object longer than
  declared. A worker that fails and cannot record it shreds the files under a row that stays
  `uploading` (`encrypt.py:200`), where the page may have ticked them.
  An oversized last chunk is cut to the declared size and refused, so the file is complete and nobody queues it. After the shredding HEAD says 0, so a
  page that lost its last answer reports the failure of a transfer that is ready. "retry
  individual files" (`UploadView.vue:153`): there is no such control, Send makes a new
  transfer; Send stays enabled while create is pending, and a second press makes two.
- *Panel.* The session cookie has a Max-Age of 30 minutes from the login, and nothing
  renews it: for the browser the TTL does not slide (`session.py:16`, `README.md:87`).
  A logout that fails shows the login page all the same (`AppTopbar.vue:18`) while session
  and cookie live on, and the tab's store still lets its user back into the panel. The
  late answer to a logout erases the cookie of a newer login. A login in a second tab
  changes for whom the first one acts. When the CSRF cookie's 24 hours end mid-session,
  clicks are refused until a GET has brought another one, and so is a click whose cookie
  changes between `readCookie` and the browser's sending (`client.ts:21`, `:24`). Text typed into a filter
  without Enter is used by the next "Load more" (`TransfersView.vue:36`).
- *Settings and keys.* `max_ttl_days`, `max_message_length` and `audit_retention_days` can be
  stored and are never read. An admin who has changed a setting cannot be deleted
  (`models/settings.py:27`). `docs/INCIDENT_RESPONSE.md:52` has the rotation rewrap
  `telegram_bot_token`; neither the endpoint nor the script does. During a rolling
  restart a TOTP secret reset by a new process cannot be opened by an old one.
- *Others.* The rate limiter's docstring speaks of an audit event, the code logs. The CSV
  export of the audit view never sends the dates the endpoint demands.

## 6. Plan

Done in this order: transfer lifecycle with its refinement and proofs, key rotation,
admin access, rate limits, byte path, upload guards, mails, lists; then the history of
lost jobs and the liveness of links and plaintext, the lists' filters and overlapping
loads, the upload page, the panel in the browser; then the proofs of all safety properties;
then the overlaps of admin requests, the oversized chunk as two steps, empty files and the
worker's failures behind the upload page.

Next:
1. composition: `MailDelivery` takes from `TransferSystem` that a transfer is announced
   once; state it as a refinement and prove it from `SingleAnnouncement`;
2. the safety part of what the liveness properties need (a complete upload has a job, a
   worker or a lost job), as an invariant of its own;
3. model: `UploadGuards` composed with `RateLimit` in front and `TransferState` behind it;
   the storing of the Telegram configuration; the windows of the CSV export.
