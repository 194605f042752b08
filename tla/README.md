# TLA+ models of the Superfile backend

Superfile is a NestJS service for shared spaces of files that an assistant can
search.  It keeps its state in PostgreSQL (through Prisma), in S3 and in OpenAI
(files and vector stores), and sends mail through Resend.  This directory
models the parts of it where requests share state over several statements.

## How the code maps to the models

The backend is one Node process.  JavaScript runs undisturbed between two
`await`s; at an `await` any other request may run.  Every module therefore has

* the tables and stores as functions and sets (`row`, `inv`, `file`, `s3`, ...),
* `req`, one record per request in flight.  `req[r].pc` names the statement the
  request executes next; the other fields are what it has read into local
  variables so far, and nothing else survives an `await`;
* one action per awaited statement.  The action that starts a request (`Begin`)
  is its guard and first read; the last one (`End`) is the last statement and
  the response.  A `prisma.$transaction` is one action.  Awaits that touch no
  shared state (bcrypt, signing, hashing) are merged with the step before;
* `Abort(r)` or `Crash`, where a statement throws or the process dies: the
  request is gone, what it has written stays;
* history variables, named as such, that only properties read.

Calls that answer with an error and write nothing are left out.  Ids drawn with
`randomUUID` are fresh.  Definitions whose comment begins "A slip" are variants
of the definition after them with a plausible bug.  No specification uses them:
they record which mistakes the properties find (`mutants` in PROJECT.json).

## Inventory

| component | state | operations | what is hard | what makes it correct |
|---|---|---|---|---|
| Sessions (`sessions/`, `auth.service.ts`, `jwt.strategy.ts`) | `Session` rows with the hashes of the current and the previous refresh token | login, refresh with rotation, reuse detection, revocation of one / all, expiry, access-token check | a rotation reads, awaits and writes by id; revocations and logins run in between; bcrypt truncates | a revoked session stays revoked; only its user revokes it; an old token buys nothing; a password change ends what was opened before |
| Accounts (`auth.service.ts`) | `User`, `VerificationToken`, `PasswordResetToken`, the reset JWT | signup, resend, verify, forgot, trade a code, reset, Google sign-in | invalidate-then-create and read-then-mark in separate statements; codes looked up without a user | verified only by an own code; one valid code; a code and a token are used once; passwords for local accounts only; the sign-in method is fixed |
| Invitations and members (`space-invitation/`, `space-member/`) | `SpaceInvitation`, `SpaceMember`, the role guard | invite, list, change role, accept, reject, expire; add, change, remove members | writes by id after stale reads; two tables that have to agree; addresses compared in two forms | one OWNER, always the owner; no role that was not given or offered; one pending invitation; processed is final; the membership has the invited role |
| Files (`file/`, `openai/`) | `File`, S3 objects, OpenAI files, vector-store entries, the in-memory progress map | upload of several files, progress, status refresh, single and batch removal, cascade from space deletion | four stores without a transaction, each call may fail; removal overlaps upload; crash in the middle | SUCCESS is backed by the stores; what is stored is known to a record; PROCESSING ends; no progress entry leaks; seen from outside the four stores are one (`FileStore`) |
| Spaces (`space/`) | `Space`, `SpaceLogo`, the vector store | create with compensation, rename, delete, logo | vector store and row are not created or deleted together; two creations want one slug; a deletion stops half-way and is repeated | no store without a space, no space without its store; a deletion can be completed |
| Conversations (`conversation/`) | `Conversation`, `ConversationMessage`, one open stream per message | create, list, stream a reply, delete | event handlers that await; a response ends in several ways; the conversation is deleted under a stream | each reply is stored once or reported as failed; the stream ends once |
| File shares (`file/file-share.*`) | `FileShare` | create, list, revoke, open, mail, expire | a file is looked up and shared after it was removed; a link is opened while it is revoked, expires or loses its file | every link has its file; a dead link opens nothing |
| Reminders (`reminder/`) | `Reminder` and its links to files | CRUD; set, add and remove links | files are checked, and the links read, before the write; files, reminder and space go meanwhile | only existing files of the space are linked; what was added is there unless somebody took it out |
| Mail, exception filter, DTO validation, Google token exchange | none | one external call or a stateless mapping each | - | - |

Components call each other directly: the role guard and every service ask
`SpaceMemberService.assertRole`; `AuthService` drives `SessionService`;
`FileService`, `SpaceService` and `ConversationService` share the vector store
through `OpenAiVectorStoreService`; deleting a space cascades in the database to
members, invitations, files, shares, reminders and conversations.

## Modules

| module | models |
|---|---|
| `SessionRegistry` | abstract: a session is opened once, for one user, and closed for good |
| `Sessions` | the session table and every request that reads or writes it |
| `MCSessions` | instances; `First72`, what bcrypt reads of a token |
| `SessionsProofs` | TLAPS: every safety property of `Sessions` that holds, finality of revocation, refinement of `SessionRegistry` |
| `Accounts`, `MCAccounts` | accounts, verification and reset codes, Google sign-in |
| `AccountsProofs` | TLAPS: every property of `Accounts` that holds |
| `Invitations`, `MCInvitations` | invitations and members of one space |
| `InvitationsProofs` | TLAPS: every property of `Invitations` that holds |
| `FileStore` | abstract: the life of a file's record and object, as others may rely on it |
| `Files`, `MCFiles` | the files of one space in the database, S3 and OpenAI; deletion of the space; `ImplementsFileStore` |
| `FilesProofs` | TLAPS: every safety property of `Files` that holds, and that it implements `FileStore` |
| `Spaces` | spaces and their vector stores |
| `SpacesProofs` | TLAPS: types, `StoresMatchRows` |
| `FileShares` | component: public links to files |
| `Reminders` | component: reminders and their links to files |
| `SpaceContents`, `MCSpaceContents` | composes `FileStore`, `FileShares` and `Reminders` |
| `SpaceContentsProofs` | TLAPS: every property of `SpaceContents` |
| `Conversations` | the transcripts of one space and the streams that answer questions |
| `ConversationsProofs` | TLAPS: every safety property of `Conversations` |

**Sessions.**  A token is `[user, sid, iat]`: what `issueTokens` signs, the
issue time in ticks.  Two pairs signed for one session in the same tick are the
same tokens, as two JWTs signed in the same second are.  `BcryptInput` is what
of a token the hash covers.  `pwd` is a version number for `passwordHash`.
`LoginRead`/`LoginCreate` are `login` and `createSession`; `RefreshExpired`,
`RefreshAccepted` and `RefreshReused` are the three branches of
`validateSessionToken` that write; `RefreshIssue`, `RotateRead` and
`RotateWrite` are the rest of a refresh.  `Authenticated` is the check in front
of every request with a bearer token, which may itself revoke an expired
session.  Either token of a pair serves (`Bearer`): `JwtStrategy` does not ask
which of the two it has been given, so what counts is the expiry of the refresh
token, the later one.  `late` is history: the sessions that outlived a change of
the password, because their login inserted them after its revocation or because
that revocation threw.

**Accounts.**  `acct` is keyed by the address, which is unique.  A code row
keeps the user, the code, `usedAt` and whether it has lapsed.  `generateOtp` may
draw a code again (`Collisions`), and a client may type in any code, mailed to
him or not; `inbox` only records what was mailed to whom.  `grant` is the reset
JWT that a code was traded for; it has no state but its expiry, as in the code.
`ResetPassword` takes it or, as the code does, any other unexpired token of a
LOCAL account (that of a session).  `seen` and `older` are history: which codes
a send found when it invalidated, and so which codes each new one replaces.
`resetPassword` also revokes all sessions: that half is `Sessions!ResetPassword`.
A Google account is created with a `providerId`, so the branch of
`handleGoogleOAuthLogin` that links an account without one is never taken and is
not modelled.

**Invitations.**  One space.  `MailOf` is each user's normalised address, and
`Exact` are the users whose stored address already has that form: invitations
normalise, accounts store what was typed, and Prisma compares exactly.  A member
row has an id of its own, because role changes and removals address the row that
was checked earlier.  `mailed` says that the raw token has reached the invitee.  `DtoRoles`
are the roles a body may name; the DTOs accept OWNER, which the services refuse.
`given`, `offers` and `passed` are history: roles that the owner gave and to
whom, roles that invitations have offered and to which address, and invitations
that a creation found for its address and went past because they were not live.

**Files.**  A file id stands for the row, the S3 key and the OpenAI file, which
are all drawn once per file.  `Faults` are the calls that may fail, `Crashes`
whether the process may die.  `progress` is 0 or 1, for an upload that has sent
nothing or something.  Roles are not checked here.  A call that fails may have done
its work all the same: `S3PutFails`, `FileCreate` and `Index` leave behind what
the service stored, as well as nothing.  `lost` is history: files of which the
code has lost sight, because a removal had begun while they were uploaded, their
ingestion was reported as failed, or the id of their OpenAI file could not be
stored.  Uploads wait for the end of
the ingestion (`createAndPoll`), so vector-store entries are completed or failed
when anything else can see them.

`ImplementsFileStore` maps the four stores to `FileStore`: `record` is the
status of the row, or `"new"` and `"deleted"` around its life; `object` is S3;
`dying` are the files a removal has begun to take apart.  OpenAI and the
requests are hidden.  The step simulation says what the rest of the system may
build on under any failure: an outcome never changes, SUCCESS comes after the
object, an object goes only after a removal has begun, a record never returns.

**Spaces.**  An id stands for a row and its vector store, which are drawn
together and never exchanged.  `Insert` is the transaction of `create`,
which commits, or throws, or commits and throws (its answer is lost);
`Cleanup` is `cleanupVectorStore`, whose failure is logged and forgotten.
`DropStore` passes over a store that is already gone, as `deleteVectorStore`
does, and `DropRow` is `space.delete`.  `lost`, `doomed` and `stopped` are
history: stores that no code will remove any more, spaces that a deletion, or the
clean-up after a commit whose answer was lost, has got to, and deletions that a failure has ended.  A call to OpenAI that fails is
taken to have done nothing.

**SpaceContents.**  `FileShares` and `Reminders` are components without a
specification of their own: they read `record` and `open`, which `FileStore`
changes, and `SpaceContents` interleaves their steps with its steps.  A step
that deletes a row is joint, because the database cascades in the same
statement: `DeleteFile` takes the links of the file along, `CloseSpace` all of
them.  `FilesProofs` proves that `Files` implements `FileStore` with the same
`record`, under every fault and crash, so what is proved of `FileStore` here
holds of the files as the database and S3 keep them.
A share id stands for its token.  `late` marks a request that came when its link
was dead already; `unlinked` collects what others have taken out of a reminder
since a request that adds to it began.  `Elsewhere` are files of another space,
which a client may name and which nothing here removes.

**Conversations.**  A question is one `POST conversations/:id/messages`; it
stands for the id of its message and of the reply.  `stream[q]` holds the locals
of `streamAssistantReply`, the state of OpenAI's response stream and what the
client has seen; texts are their lengths.  The event handlers run beside each
other: after `response.completed` the handler awaits the final response
(`Final`), the references, the insert and the hydration, and an error event
(`Broken`) or a deletion may come before each of them.  `streamClosed` is
`client # "open"`.  What is sent to the observer after its end is dropped.  A
client that disconnects is no action: the route is a plain `@Post` that returns
the Observable, not an `@Sse`, so nobody unsubscribes, the teardown runs only
after the end of the stream, and the reply is generated and stored as if the
client were there.  (What of the stream the framework passes on to the client is
outside the model.)  `EndsSilently` is a response that ends in
`response.incomplete`, or without any terminal event: nothing handles it.
A space is always created with a vector store, so the
branches for a missing one are left out.  `over` drops what the request held.

## Runs

| run | shows | instance |
|---|---|---|
| `SessionsConcurrent` | `TypeOK`, `RowTokensMatchRow`, `ChangeReachesSessions`, `OnlyOwnSessionsRevoked`, `ImplementsRegistry`, with bcrypt as it is | 2 users, 2 sessions, 2 requests, clock 0..1, 1 password change, any statement may throw |
| `SessionsOvertakenLogin` | counterexample to `PasswordChangeEndsSessions` | 1 user, 1 session, 2 requests |
| `SessionsBcrypt` | counterexample to `SpentTokenYieldsNothing` | 1 user, 1 session, 1 request |
| `AccountsConcurrent` | `TypeOK`, `LocalVerifiedByCode`, `OlderOtpsAreDead`, `ThankedIsVerified`, `OnlyLocalPasswords`, `MethodNeverChanges` | 2 addresses, 2 codes that may be drawn twice, 2 verification codes or 1 reset code, 2 requests, aborts |
| `AccountsReplay` | counterexample to `ResetTokenConsumed` | 1 address, 1 request |
| `InvitationsConcurrent` | `TypeOK`, `OwnerKeepsRole`, `RoleWasGiven`, `PassedOverAreDead` | owner, peer and an address nobody has, every role, 1 invitation, 2 requests, aborts |
| `InvitationsMixedCase` | counterexample to `OwnerKeepsRole` | the owner's stored address has capitals |
| `FilesConcurrent` | `TypeOK`, `SuccessIsBacked`, `ProgressMatchesUploads`, `StoredIsKnown`, `ImplementsFileStore` | 2 files, 2 requests, every fault, crashes |
| `FilesSettling` | `UploadSettles` | 2 files, 2 requests; S3 and OpenAI fail, the database does not, no crash |
| `ConversationsStreams` | `TypeOK`, `FinalIsPersisted`, `ErrorMeansUnanswered`, `TranscriptInOrder`, `StreamEnds` | 1 conversation, 2 questions, 1 file, 1 token, every fault, crashes |
| `SpacesProvisioning` | `TypeOK`, `StoresMatchRows`, `DeletionCompletes` | 3 spaces, 2 slugs, 2 requests, every fault, crashes |
| `SpaceContents` | `TypeOK`, `NoDanglingReference`, `DeadLinkOpensNothing`, `AddTakesEffect` | 2 files and a foreign one, 2 shares, 1 reminder, 2 requests |

Ten more configurations refute what the documentation promises, each within
seconds (such as `tlc -config AccountsTwoSends.cfg MCAccounts.tla`).  They are kept to reproduce the
traces under "Counterexamples" and are not among the runs of PROJECT.json.

| configuration | refutes | instance |
|---|---|---|
| `AccountsTwoSends` | `AtMostOneValidOtp` | 1 address, 2 requests |
| `AccountsSameCode` | `OwnCodeVerifies` | 2 addresses, 1 code, 1 request |
| `AccountsTwoTrades` | `ResetCodeTradedOnce` | 1 address, 2 requests |
| `InvitationsTwoCreations` | `AtMostOnePending` | 2 invitations, 2 requests |
| `InvitationsLateAnswer` | `ProcessedIsFinal` | 2 requests |
| `InvitationsStaleAcceptance` | `AcceptedRoleGranted` | 2 requests |
| `FilesRemovedUploading` | `NoOrphans` | 1 file, 2 requests, no fault |
| `FilesForgottenIngestion` | `NoOrphans` | 1 file, 1 request, a failing ingestion |
| `FilesCrash` | `IngestedFileRefreshable` | 1 file, 1 request, crashes |
| `FilesSpaceDeletion` | `NothingOutlivesSpace` | 1 file, 1 request, no fault |

**Bounds.**  The hazards are between two requests: one that has read and one
that writes in between.  Two requests, and two rows where a statement could hit
the wrong one, give every such pair; whatever happened before is in the tables.
`MaxTime` is large enough for tokens and sessions to expire, `MaxPassword` = 1
for a password to change under a login that has read it, `MaxJoins` = 2 for a
member to leave and come back as another row, `MaxTrades` = 2 for a second use
of a code, `MaxResets` = 2 of a token, `MaxBatch` = 2 for an upload to go on to
its next file, `MaxTokens` = 1 for an answer to differ from the empty fallback.
Two questions meet only in the transcript they share, so one conversation is
enough; passing over an invitation and bringing it back to life concern one row,
so one invitation is, and no statement relates two reset codes.  The `VIEW` of
`InvitationsConcurrent` leaves out what no step and no property reads: the user
of a request that does not ask for him any more, and what was offered to an
address that nobody has.  In `AccountsConcurrent` a behaviour has verification
codes or reset codes (`OneKind`): no statement about one kind touches the table
of the other, and setting a password changes nothing else of the account.
In `SpacesProvisioning` three ids let a creation run beside one
that has failed and one that has succeeded.  In `SpaceContents` a behaviour has
shares or reminders (`OneKind`): neither reads the other's table, so that
together they would show nothing more.  Its `VIEW` leaves out the outcome of an
upload and its object, which neither of them reads and no property there
mentions.  Symmetry is used only in runs without liveness.  Deadlock is not
checked: clients may stop sending requests, and the bounds stop the clock.

**What is promised and what holds.**  No run excludes an overlap: requests
interleave at every await in all of them.  Where the documentation promises more
than the code keeps, the promise is a property that a configuration refutes, and
what the code does keep is a property of a run that passes:

| promised, refuted by | what holds for every overlap |
|---|---|
| `PasswordChangeEndsSessions`, `SessionsOvertakenLogin` | `ChangeReachesSessions`: only a login that had read the old hash, or a revocation that threw, leaves a session |
| `AtMostOneValidOtp`, `AccountsTwoSends` | `OlderOtpsAreDead`: a send leaves none of the codes it found valid |
| `OwnCodeVerifies`, `AccountsSameCode` | `ThankedIsVerified`: the answer is untrue only for a code that was drawn for somebody else too |
| `AtMostOnePending`, `InvitationsTwoCreations` | `PassedOverAreDead`: of two live invitations neither creation has seen the other |
| `ProcessedIsFinal`, `InvitationsLateAnswer` | `PassedOverAreDead`: a processed invitation that was replaced never comes to life again |
| `AcceptedRoleGranted`, `InvitationsStaleAcceptance` | `RoleWasGiven`: also a stale role is one that was offered to this user |
| `NoOrphans`, `FilesRemovedUploading` and `FilesForgottenIngestion`; `IngestedFileRefreshable`, `FilesCrash` | `StoredIsKnown`: apart from the files in `lost`, everything stored in a living space has a row that leads to it |

Properties that name an exception say so: `late` in `ChangeReachesSessions`,
`lost` in `StoredIsKnown`, `lost` and `doomed` in `StoresMatchRows` (a clean-up
that failed or never came; a deletion that has begun, or a creation that was
committed and told that it failed), the failed hydration in
`ErrorMeansUnanswered` and the silent end in `StreamEnds`.

**Fairness.**  `FairSpec` is weak fairness of `Step(r)`, the next statement of a
request that has begun: promises settle, because the clients of Prisma, S3 and
OpenAI time out, and the event loop then resumes the handler.  No client is
obliged to send anything, no failure is obliged to happen or to stop.
`UploadSettles` assumes in addition that the database works and the process
lives, since without them nothing can write the row.
`DeletionCompletes` names deletions that a failing call or a crash has stopped
and assumes nothing of them.
In `Conversations` also `Respond(q)` is weakly fair: a response ends, or the
connection to it breaks.  `StreamEnds` names its one exception: a response
that ends in `response.incomplete`, or without a terminal event, has no handler,
and its client is never answered.

## Counterexamples

1. `SessionsBcrypt`.  bcrypt reads 72 bytes.  The first 72 bytes of a refresh
   token are the JWT header and the start of the payload, which holds `sub`
   first; they are the same for all tokens of a user.  A token that was traded in
   matches the current hash and buys another pair, and reuse detection is never
   reached (`README.md:144` promises it).
2. `AccountsReplay`.  `resetPassword` checks signature and expiry of the reset
   token and records nothing, so it works again until it expires
   (`ENDPOINTS.md:190` says it is consumed).
3. `InvitationsMixedCase`.  `createInvitation` compares a lower-cased address
   with stored ones.  An owner who signed up with a capital letter is not found,
   a manager can invite him, and accepting overwrites his OWNER role.
4. `AccountsSameCode`.  `verifyEmail` asks for the code and not for whom it was
   drawn.  Two users hold the same six digits; one types in his own, the other
   one's row is found first, and he is told that his address is verified
   (`README.md:171`).
5. `FilesForgottenIngestion`.  `uploadFile` throws when the ingestion fails and
   keeps the id of the OpenAI file to itself (`openai-vector-store.service.ts:66`).
   A later removal finds no id in the row and leaves that file at OpenAI
   (`TESTING.md:192`).
6. `FilesCrash`.  The process dies after the ingestion and before the row has the
   id: the file stays PROCESSING and `refreshStatus` has nothing to ask for
   (`TESTING.md:175`).
7. `FilesSpaceDeletion`.  `SpaceService.delete` removes the vector store and the
   rows and never touches S3, though `ENDPOINTS.md:318` counts the clean-up of the
   storage among what may fail.

The others need two requests, one of which has read what the other one writes:

8. `SessionsOvertakenLogin`.  `login` has compared the old hash; `changePassword`
   writes the new one and revokes; `login` inserts its session, which lives
   (`ENDPOINTS.md:116`).
9. `AccountsTwoSends`.  Two sends invalidate before either inserts: two codes are
   valid (`README.md:63`).
10. `AccountsTwoTrades`.  Two calls read a reset code before either marks it: two
    tokens (`README.md:129`).
11. `InvitationsTwoCreations`.  Two creations look for a pending invitation before
    either inserts: two are pending (`README.md:86`).
12. `InvitationsLateAnswer`.  A request has found the invitation pending; another
    one processes it; the first overwrites the status (`ENDPOINTS.md:528`).
13. `InvitationsStaleAcceptance`.  The role or the membership changes between the
    read and the transaction of `acceptInvitation` (`README.md:89`).
14. `FilesRemovedUploading`.  `remove` deletes the record and the object while the
    upload goes on and stores what nothing refers to (`TESTING.md:192`).

## What is proved

All proofs are for any number of users, rows and requests, any interleaving and
any aborts, from the named `ASSUME` of the module (`None` is not a record, the
bounds are numbers, `Owner` is a user, `MailOf` gives addresses).  Every
safety property that a passing run checks has a theorem, and no theorem excludes
an overlap, a fault or a crash.

* **`SessionsProofs`.**  `TypeOK /\ RowTokensMatchRow` is not inductive: a
  statement addresses a row by what its request carries.  `InFlight` adds what is
  true of the carried values: a login owns an id that no row and no other login
  has; a refresh carries an existing row of its own user; at `"write"` the hash
  it has seen is one of that session.  `IInv` is the conjunction.  From it follow
  `TypeCorrect`, `RowsKeepTheirTokens`, the step simulation of `SessionRegistry`
  (`SessionsImplementRegistry`: a login is `Open`, a revocation `Close`, all else
  a stutter), `RevocationIsFinal` and `OwnSessionsOnly`.  They hold for every
  `BcryptInput` and every overlap.

  `ChangesReachSessions` needs `PasswordInv`: every session is opened with the
  user's present password, or about to be revoked, or in `late`.  A rotation that
  writes after the revocation cannot break it because it leaves `revokedAt` alone,
  a login because `late` records what it inserts.
* **`AccountsProofs`.**  `IInv` says what each request may rely on (`Local`: code
  rows are never deleted and keep their address), that every code belongs to an
  account, that every code a send has found is used by the time it inserts
  (`SentUsed`), and that a reset code belongs to a LOCAL account.  From it follow,
  with codes that repeat and for every overlap, `VerifiedByCode`, `OlderCodesDie`,
  `ThanksAreDue`, `PasswordsAreLocal` and `MethodIsFixed`.
* **`InvitationsProofs`.**  `Local` says what each request carries (an accepting
  request has an invitation for its user's own address), `Kept` that invitations
  are never deleted and keep their address.  `OwnerStays` assumes
  `Owner \in Exact`: then no invitation is ever addressed to the owner
  (`NotForOwner`), so none can touch his membership, and the guards against OWNER
  in the bodies keep everybody else from it.  `InvitationsMixedCase` shows that the
  assumption is needed.  For `PassedOverStayDead` every write to the table is
  classified (`RowStep`): a row is inserted, or loses its status or its time, or
  is written by a transaction that found it live or leaves it processed.  For `RolesWereGiven` the role that
  a request carries is one that its invitation has offered (`CarriedOffer`), even
  if the invitation offers another one by now.
* **`FilesProofs`.**  `Carries` says what the locals of a request promise about
  the stores (an upload at `"markDone"` has its object and its OpenAI file in place,
  unless a removal has begun; a removal has announced its file), `RowOK` what a row
  promises.  No file is uploaded by two requests (`UploadsApart`), so a step may
  treat the file it owns as it likes and only takes from the others what was
  announced (`StepSafe`).  From this, under every fault and crash: `SuccessBacked`,
  `ProgressExact` and the step simulation of `FileStore`
  (`FilesImplementFileStore`).

  `WhatIsStoredIsKnown` is the converse: whatever is stored has a row that knows of
  it, or is `lost`, again under every fault, crash and overlap.  `Settled`: what is
  stored for a file is known to its row or an upload is going to tell it.  `Load`:
  a removal that has read no OpenAI id has a file without one, and a statement of
  a removal comes after what it relies on.  `Alone`: a removal of a file that is
  being uploaded has made it `lost`.
* **`SpacesProofs`.**  A clean-up and a deletion remove the store that the request
  carries, so `StoresMatchRows` needs to know whose it is.  `Alone`: a space that
  is being created has no row, and no other request names it.  `Carried`: whoever
  is about to insert has a store, whoever is about to drop the row has none.
  `RowsUsed`: ids never come back.  With `TypeOK` these are inductive, for any
  faults and crashes (`StoresMatch`).
* **`SpaceContentsProofs`.**  Each component has an invariant of its own, and the
  composition takes every step to be one of three kinds for it: a step of its own,
  a cascade, or one that leaves its variables alone and lets the files that exist
  go on to exist.  `ShareLocal`: a request that came for a dead link names a link
  that is still dead, since ids never come back and time does not run backwards.
  `ReminderLocal`: what a request is about to link lies in the space, and those of
  its files that were linked when it read the reminder and are not now have been
  cut by others; `AddTakesEffect` is what is left of that in the answer.
* **`ConversationsProofs`.**  `Placed` says of each message of a transcript how far the
  stream of its question must have come: a reply is there only from the statement
  that inserts it on, and never if the stream has failed.
  `Sound` says of each stream what the client has heard and, once it is about to
  send the final event, that the reply is stored.  From these follow the four
  properties of the transcript, for any number of conversations and overlapping
  streams.

Only model-checked: liveness (`UploadSettles`, `StreamEnds`,
`DeletionCompletes`), since no prover here reasons about fairness
and ENABLED, and the counterexamples.

## Not modelled, and the plan

Not modelled for good: texts of mails, formatting of responses, DTO validation,
pagination, the exchange with Google, the seed script.  Of the components that
are modelled: notes of files and the titles, notes and dates of reminders (one
column each, written in one statement that nothing else depends on), and the
routes that only read, downloads of files among them.  `Spaces`, `FileShares`,
`Reminders` and `Files` do not check roles again: `Invitations` models the guard.

Planned:

1. The life cycle of an invitation as an abstract specification, with the late
   answers of `InvitationsLateAnswer` as steps of its own, and the proof that
   `Invitations` implements it.
2. The life of a vector-store entry in `FileStore`, so that `Conversations` can
   build on it as `SpaceContents` builds on records and objects.
