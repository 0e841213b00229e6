# A verification project for Security_Scan / Heimdall 2

The repository is a security-scanning tool chain: a Python driver
(`src/SecurityScan.py`) that runs InSpec profiles against hosts, and Heimdall 2
(`src/heimdall2-master`), the server and browser client in which the results
are stored, shared and looked at. Nearly all of the repository's own state and
all of its concurrency are in Heimdall 2: a NestJS server with a PostgreSQL
database behind it (`apps/backend`), a Vue client with Vuex stores
(`apps/frontend`), and the library that parses results (`libs/inspecjs`).

This directory holds TLA+ modules of that system, TLC configurations that check
them, and theorems checked by TLAPS. On the server, group membership, accounts
with sign-in, and evaluations are modelled, statement by statement; on the
client the stores, the session, the results and comparison pages, the readers
of Splunk and S3, the editor of tags, the table of accounts and the HTML
report, answer by answer; and
of inspecjs the rules for statuses, overlays and NIST controls.

Paths below are relative to `src/heimdall2-master/` unless they begin with
`src/`.

    tlc -workers 2 -config groups_safety.cfg MCGroups      # any run below
    tlapm GroupsProofs.tla                                 # any proof module

## Inventory

### How the server runs, and why it is hard

Node runs one callback at a time: between two `await`s a handler is atomic,
and each awaited Sequelize call is one statement of the database. The handlers
open no transaction, with the one exception of `EvaluationsService.remove`.
Nearly every handler has the shape *load, check, write*: it loads rows, decides
on what it loaded (an ability from CASL, a count of owners, a comparison of
passwords), and writes with a later statement. Other requests run in between,
so every decision may be out of date when it is acted upon. What holds in
spite of that is what the project is about.

### How the client runs, and why it is hard

A page of the client is one event loop too. A handler runs until it sends a
call; the answer comes in any order with the answers of other calls, after the
user has clicked elsewhere, signed out or opened another dialog. Handlers read
stores before they send and write them when the answer comes; nothing cancels a
call or checks that its answer is still wanted. Vuex getters are caches over
objects, so it matters whether two lists hold one object or two with the same
id, and whether a field was there when the object became reactive. Other tabs
share local storage.

| component | state | operations | interacts with | hard behaviour | correct means |
|---|---|---|---|---|---|
| **Group membership** `apps/backend/src/groups` | tables `Groups`, `GroupUsers` | create, add or change member, remove member, rename, destroy | abilities; accounts (foreign keys) | count of owners separate from the delete; `$add` is select-then-insert with no unique index; ability checked on a loaded copy | no row for what is gone; every change authorised; a group nobody owns is safe; the last owner stays |
| **Accounts and sign-in** `src/users`, `src/authn` | table `Users`, unique index on `email` | register, update, remove, password sign-in, identity-provider sign-in (find-or-create) | abilities; foreign keys of all other tables | `save()` of an instance loaded earlier; un-awaited write of login metadata; find-or-create; count of administrators separate from the delete | one account per address; roles only given by administrators; a forced password change is not lifted by accident; an administrator remains |
| **Evaluations, tags, links to groups** `src/evaluations`, `src/evaluation-tags`, `src/groups` | tables `Evaluations`, `EvaluationTags`, `GroupEvaluations` | upload, update, remove, tag, untag, share, take back | memberships decide who may do what; deletion of groups and accounts | links inserted after the response by statements nobody awaits; removal destroys the tags it loaded earlier; `userId` becomes NULL with the uploader | nothing dangles; a removal takes its tags along; links arrive; what an account leaves behind is out of others' reach |
| **Abilities** `src/casl`, `src/authz` | none | build the rules for an account | every controller | built from the requester's row as the guard loaded it | the rules each handler consults |
| **Identity-provider strategies** `src/authn/*.strategy.ts` | none | translate a profile of the provider | accounts | end in `validateOrCreateUser` | as accounts |
| **Token secret and configuration** `src/token`, `src/config` | the environment | read at start | all | none: nothing changes afterwards | – |
| **Request pipes** `src/pipes` | none | password rules | accounts | edit distance over classes of characters | agree with the rules stated beside them |
| **Association delta** `src/database` | none | `getDelta` of two lists | no caller at this commit | duplicates and missing ids | added and removed partition the difference |
| **Statistics** `src/statistics` | none | four counts | all tables | counts taken one after the other | – |
| **Start-up and filters** `src/main.ts`, `src/filters` | none | wiring, wording of errors | – | – | – |
| **Client: evaluation list and file store** `apps/frontend/src/store/{evaluations,report_intake,data_store,data_filters}.ts`, `router.ts`, sidebar, load dialog | list of evaluations, loaded files, selected files, ids in the URL | load, toggle, remove, refresh, save, edit, delete, navigate, go back | server by HTTP | loads overlap; optimistic deletion; removal by object identity; the URL is made of what is loaded at that moment; one save of the edit dialog is many calls, which nobody waits for | the selection refers to loaded files; one evaluation is loaded once; the URL covers what it lists; the list is that of the server |
| **Client: group store** `store/groups.ts`, `components/global/groups` | lists of all and of my groups | refresh, save, share, delete | server by HTTP; dialogs | answers arrive in any order; two lists share, or do not share, objects; a form that keeps its copy, saved by a difference with a row that moves on | both lists show what the server holds; a group has the members that were chosen |
| **Client: session and router** `store/server.ts`, `router.ts`, `main.ts` | token, user, route | start-up check, sign-in, sign-out, navigation | local storage, cookie, other tabs | an answer that arrives after sign-out; two forms; a refused token | the user shown is the one signed in; the page gets somewhere |
| **Filters and counts** `store/{data_filters,status_counts,severity_counts}.ts`, treemap | caches | filter, count | file store | which row of an overlay a filter looks at; rounding | what the charts say agrees |
| **Results page** `views/Results.vue`, table, treemap | filters, way down the treemap, expanded rows | set, clear, dive, expand | file store | getters that set state; switches that compare numbers | map and table show the same; switches are honest |
| **Comparison page** `views/Compare.vue`, `delta_util.ts` | window of columns, search | scroll, filter | file store; sidebar of the same page | two orders of the files; a window that is an index | each column shows its file |
| **Splunk reader** `upload_tabs/splunk`, `splunk_util.ts` | step, endpoint, list, error count | sign in, poll, search | Splunk | a poller across errors, sign-outs and other hosts | one search at a time; a list comes |
| **S3 reader** `upload_tabs/aws`, `aws_util.ts` | step, credentials, list | authenticate, second factor, list | STS and S3 | answers of a form that was left | the credentials held are those asked for |
| **Tag editor** `tags/TagRow.vue` | choice, tags shown | choose, save, cancel, delete | evaluation list | one save is many calls | the tags stored are those chosen |
| **HTML export** `ExportHTMLModal.vue` | data of the report | export | filters | the filter changes while the template is fetched | a report is of one filter |
| **User administration of the client** `UserManagement.vue`, `UserModal.vue`, `RegistrationModal.vue` | table of accounts, a form for each row and one in the profile menu, delete dialog | refresh, register, edit, delete | server by HTTP | edits, deletions and lists answered in any order; forms that copy an account and keep the copy; the answer of one dialog closes another | the table is that of the server |
| **Exports to other formats** `ExportCaat.vue`, `ExportNist.vue`, `ExportJson.vue` | names of sheets | export | filters | a second export of one page | – |
| **inspecjs** `libs/inspecjs/src` | none | parse, link overlays, status of a control, NIST hierarchy | file store | order of the rules for a status; order of profiles and of controls in a list | each control has one row, one status, one node |
| **Scanner command line** `src/SecurityScan.py`, `src/config` | list of hosts | scan each | external InSpec | failing host in the middle of a list | every host is visited |
| **Views**, **InSpec profiles and installer** | presentation; data and a vendored script | – | – | – | – |

Every component is listed in `PROJECT.json` with its files, and the places
where the hard behaviours bite are the rows of its `hazards`; lesser ones are
told of under *Observed while modelling*.

## Modules

| module | what it is |
|---|---|
| `Groups` | group membership, statement by statement |
| `GroupAuthority` | the abstract promise: no change without a warrant, one change per warrant |
| `GroupsProofs` | theorems about `Groups`, which implements `GroupAuthority` |
| `GroupUpdates` | the two statements of an update of a group |
| `Accounts` | accounts and sign-in, statement by statement |
| `AccountAuthority` | the abstract promise: no account is opened, changed or removed but by a request that was let through to that |
| `AccountsProofs` | theorems about `Accounts`, which implements `AccountAuthority` |
| `Evaluations` | uploads, tags and links to groups, statement by statement |
| `EvaluationAccess` | the abstract promise: no change of an evaluation, its tags or its groups without a permit |
| `EvaluationsProofs` | theorems about `Evaluations`, which implements `EvaluationAccess` |
| `MCGroups`, `MCAccounts`, `MCEvaluations` | model values, start tables and bodies of requests for TLC |
| `ClientLists`, `Sublists` | rows of a list as objects: `indexOf`, `findIndex`, `splice`; `filter` |
| `FileStore` | the client's evaluation list, loaded and selected files, URL |
| `GroupStore` | the client's two lists of groups and their dialogs |
| `ClientAccounts`, `Session` | who is signed in on a page |
| `Inspec` | statuses, severities, NIST tags and overlays of inspecjs |
| `Reports` | the filters and counts over its rows |
| `ResultsView` | the results page |
| `CompareView` | the comparison page |
| `SplunkReader` | the Splunk tab with its poller |
| `S3Reader`, `TagEditor`, `HtmlExport` | three dialogs of the client |
| `UserManagement` | the administrator's table of accounts and its forms |
| `GroupMembers` | the members of a group as the form of its row edits them |
| `EvaluationGroups` | the groups of an evaluation as its edit dialog changes them |
| `Nist`, `SplunkPayloads` | the NIST hierarchy; putting events together again |
| `MCClient`, `MCSession` | parts of the client, and the updates of a group, side by side |
| `ListLemmas` | lemmas that several proofs need: least elements and induction along the numbers, `filter`, lists of a set |
| `MCSessionProofs` | theorems about the parts of `MCSession`: the session, Splunk and S3, the report, the updates of a group, the NIST hierarchy, the events of Splunk |
| `EditsProofs` | theorems about its parts that edit: tags, accounts, members of a group, groups of an evaluation |
| `MCClientProofs` | theorems about the parts of `MCClient`: results page, comparison, statuses and counts, overlays, lists of groups |
| `FilesProofs` | theorems about its other store: files, selection, URL and list of evaluations |

### Common shape

`Req` is a set of slots for requests in flight. `req[r]` is what request `r`
holds in its local variables, with `pc` naming the statement it performs next.
`Receive...` is the arrival of a request; every other action of a request is
one statement of the database together with the code that runs up to the next
`await`. A request that ends, with success or with an error, becomes `Idle`:
the answers are not modelled, since nothing in the server depends on them.

* The requester must exist when the request arrives (`JwtStrategy` loads its
  row). Whether it is an administrator is fixed at that moment. In `Groups` and
  `Evaluations` the set `Admin` is a constant; role changes are the subject of
  `Accounts`.
* `Crash` ends all requests and keeps the tables.
* Ids are never used twice (serial columns), so an id that was handed out and
  has no row is gone for good.
* Deleting a row applies the foreign keys of the migrations: `SET NULL`
  everywhere. In the models a membership or a link with a NULL column belongs to
  no pair any more and is dropped; a tag with a NULL `evaluationId` is `"stray"`
  because the tag handlers still find it.
* An INSERT that refers to a row that is gone fails on its foreign key and
  changes nothing.

### `Groups`

State: `users` (rows of `Users`), `group` (the life of each id), `rows[g][u][x]`
(the *number* of `GroupUsers` rows of a pair with a role – a number, because no
unique index keeps it at one) and `req`.

| code | actions |
|---|---|
| `POST /groups` | `Receive`, `InsertGroup`, `SelectMembership`, `InsertMembership` / `UpdateMembership` |
| `POST /groups/:id/user` | `Receive`, `LoadGroup` (load and ability), `FindTarget`, `SelectMembership`, `InsertMembership` / `UpdateMembership` (the two halves of `$add`) |
| `DELETE /groups/:id/user` | `Receive`, `LoadGroup`, `FindTarget`, `SelectOwners` (the last-owner check), `DeleteMembership` |
| `DELETE /groups/:id` | `Receive`, `LoadGroup`, `DestroyGroup` |
| deletion of an account by module `Accounts` | `DeleteUser` |

A pair may have rows of both roles. Sequelize then builds the account once, with
the role of one of its rows, so `MayManage` and `MayNotManage` can both hold:
the outcome is a choice.

### `GroupUpdates`

State: `life` and `row` (one group: whether it is there, its name and
visibility) and `upd`, what each request asks, what it loaded (`had`) and which
of its statements are under way (`left`). `GroupsService.update` calls
`update()` and does not wait for it, then waits for `save()`: both send the
fields that differ from the row as loaded. The two run on connections of their
own, so they reach the row in any order and the answer may come while the first
is still on its way. `before` is a history variable in each request: the
requests that had ended when it loaded the group.

| code | actions |
|---|---|
| `PUT /groups/:id` | `Load` (load, ability, edits of the instance) or `Refuse`, then `Write` or `WriteFails` for each of the two statements |
| `DELETE /groups/:id` | `Destroy` |

### `GroupAuthority`

No statements, no counts of rows, no local variables: the roles each account
holds, and warrants `<<r, u, g>>`. `Authorise` gives a warrant to who manages
the group *at that moment*; `Grant`, `Revoke` and `Dissolve` spend one.
`Groups` implements it with `roles <- Held` and `warrants <- Warrants` (the
requests past their ability check). That the warrant may be spent late, after
its holder lost the role, is part of the promise, since the code does so; that
it is spent on the same group, once, by a request that had it, is what the
refinement shows.

### `Accounts`

State: `db` (rows of `Users`, `None` for none), `born` (ids handed out),
`req`, and `accepted`, a history variable that counts the sign-ins accepted for
each account and is read by no action but the bound on sign-ins.

| code | actions |
|---|---|
| `POST /users` | `ReceiveRegister`, `InsertUser` |
| `PUT /users/:id` | `ReceiveEdit`, `LoadUser` (ability, password, edits of the instance), `SaveUser` |
| `DELETE /users/:id` | `ReceiveEdit`, `LoadUser`, `CountAdmins`, `DestroyUser` |
| `POST /authn/login` and LDAP, OAuth, OIDC callbacks | `ReceiveSignIn`, `FindByEmail`, (`InsertUser`, `FindByEmail` again for a new account), `SaveUser` for the login metadata |

A Sequelize instance is the pair `next`/`cols`: the row as edited and the
columns in which it differs from the row as loaded. `save()` writes `cols` and
nothing else (`Merged`), fails on the unique index, and affects no row where
the row is gone. Passwords are compared with the hash that was loaded and a new
password always changes the hash column.

### `AccountAuthority`

No statements, no copies of rows, no counts: the accounts, the ids handed out,
and for each request a permit – who asks what, the account it is about, and
what it has been let through `to`, with the columns it may write and their
values (`change`). `LetThrough` and `SignIn` look at the row *at that moment*:
its own account everybody may edit who knows the password, but for the role;
others only an administrator may edit.
A sign-in may write the count, by one, and nothing else; no edit may write it.
`Write` puts these columns, and no others, over what is there by then, and
`Open` makes an ordinary account for an address nobody has. `Accounts`
implements it with `rows <- db` and `permit <- Permits`. That a request spends
what it was let through to late, after its requester lost the role or its
target got another password, is part of the promise, as in `GroupAuthority`;
that a permit never grows and is spent once is what the refinement shows.

### `Evaluations`

State: `users`, `groups`, `role` (the membership `Groups` maintains, changed
here at any time by `ChangeRole`, `DestroyGroup` and `DeleteUser`), `born`,
`eval`, `tag`, `link[g][e]` (a number of rows, as above) and `req`.

| code | actions |
|---|---|
| `POST /evaluations` | `LoadGroups`, `InsertEvaluation`, `InsertTag`, then for each group `SelectLink`, `InsertLink` after the response |
| `PUT /evaluations/:id` | `LoadEvaluation`, `Reload`, `SaveEvaluation` |
| `DELETE /evaluations/:id` | `LoadEvaluation`, `Reload`, `RemoveEvaluation` (the transaction) |
| `POST /evaluation-tags/:id` | `LoadEvaluation`, `InsertTag` |
| `DELETE /evaluation-tags/:id` | `LoadEvaluation` (the tag and its evaluation), `Reload`, `DestroyTag` |
| `POST /groups/:id/evaluation` | `LoadGroups`, `LoadEvaluation`, `SelectLink`, `InsertLink` |
| `DELETE /groups/:id/evaluation` | `LoadGroups`, `LoadEvaluation`, `DeleteLinks` |

`add` tells of each group how far its `$add` has come, so the chains of
different groups interleave freely although they belong to one request. The
transaction of `remove` is one step: its statements run on one connection in
order, the destruction of the tags first. A create request carries exactly one
tag, which is enough for a tag to be late or to be left behind.

The administrators keep the role `"none"` in every group: no rule looks at an
administrator's membership.

### `EvaluationAccess`

No statements, no copies of rows, no numbers of links: who is in which group,
the evaluations, the evaluation of each tag, which evaluation is in which
group, and for each request a permit: the account it acts for, the groups it
may enter, the evaluations it may manage or read, the tags it may take.
`Decide` changes permits only, and gains nothing that the account may not do
*at that moment* (`Justified`); who manages an evaluation may take its tags. A
write spends what it needs and leaves at most the rest (`Left`): an entry into
a group is good for one share. `Remove` takes the tags the request was let
through to take and leaves others behind; in the code these are the tags that
came after it had loaded them. `TakeBack` asks for an entry into the group and
for no right over the evaluation, as in the code (`groups.controller.ts`).

`Evaluations` implements it with `shared <- Shared` (the pairs with at least
one row) and `permit <- Permits` (what the ability checks a request has passed
let it do). A permit may be used late, after its holder lost the right; that it
was right when given, is not handed to another request and goes no further than
the evaluation, the tags and the groups it names, is what the refinement shows.

### The client: common shape

The calls of a page are a set `calls`; a record says what a call asks and what
its handler remembers. In the stores a call is *sent*, *served* (the server
answers with what it holds then) and *answered* (the handler runs), in any
order; where the server's state does not matter the two last are one step. Any
call may fail. Users, other tabs and, where named, other clients act between
any two steps.

`MCClient` and `MCSession` put parts of the client that share no state beside
each other: `part` says which one a behaviour is about, the others stay in an
initial state. So a run costs the sum of its parts and not the product. Pure
functions are parts without steps whose `input` is any of a set. `MCClient`
extends `ResultsView` and `MCSession` extends `Session`; the other parts are
instances with constants of these modules. The theorems are about `MCClient`
and `MCSession` too, for any values of their constants, so that the runs check
the very definitions the theorems are about.

Lists that the code filters are made by `Pick` of `Sublists`: the elements at a
set of positions, in their order. It is what `SelectSeq` gives, written without
recursion along the list, so that lists can be reasoned about.

The history variables `calm`, `alone`, `narrowed`, `switched`, `moved`,
`twice`, `met`, `apart` say that nothing happened from which the code does not recover;
each property names the one it needs, and *Properties* says why.

### `FileStore`

State: `saved`, `born` (the server), `list` (`allEvaluations`), `dialog`,
`execs`, `profs` (loaded files), `selE`, `selP` (selected ids), `saving`,
`shown`, `url`, `been` (route and history) and `calls`. A file has `from`, the
evaluation it holds, and `db`, the id it has recorded: they differ for a
profile loaded from the database, and `seen` for one that is saved, since `db`
is then a field Vue does not observe.

| code | actions |
|---|---|
| `report_intake.ts` `loadText`, `UploadNexus` | `AddLocal`, `LoadText` in `AnswerLoad` |
| `evaluations.ts` `load_results` | `LoadResults`, with `ServeOne`, `AnswerLoad` |
| `getAllEvaluations`, `loadEvaluation` | `OpenList`, `ServeList`, `AnswerList`; `AnswerOne` |
| `updateEvaluation`, `deleteEvaluation` | `Edit`; `OpenDelete`, `CancelDelete`, `ConfirmDelete`, `AnswerDelete` |
| `data_store.ts` `removeFile`, sidebar | `RemoveFile`, `SelectFile`, `SelectAll`, `ToggleAll` |
| `SidebarFileList.vue` `save_to_database` | `SaveFile`, `ServeSave`, `AnswerSave` |
| `router.ts` `beforeEach`, links, back button, reload | `Visit`, `GoToLoaded`, `ClickResults`, `GoAway`, `Reload` |

### `GroupStore`

State: `there`, `ver` (the server; `ver[g]` counts the changes of `g`), `all`,
`my`, `dialog`, `calls`. A row is an object named by the answer that brought
it, because deletion looks for an object (`SpliceFound`: an index of -1 takes
the last row) and merging for an id.

| code | actions |
|---|---|
| `FetchGroupData` | `FetchGroupData`, `ServeRead`, `AnswerRead` |
| delete dialog, `DeleteGroup` | `OpenDelete`, `CloseDeleteDialog`, `ConfirmDelete`, `ServeDelete`, `AnswerDelete` |
| `GroupModal.vue` `save`, `UpdateGroupById` | `Save`, `ServeChange`, `AnswerChange` |
| other clients | `OtherDeletes` |

### `Session`

State: `storage`, `cookie`, `valid` (the tokens the server accepts), and of the
page `token`, `user`, `loading`, `at`, `pending`, `calls`, `leaving`. A token is
named by its account.

| code | actions |
|---|---|
| `CheckForServer`, `GetUserInfo` | the call `"server"`, `AnswerServer`, then `"user"`, `AnswerUser`, `Settle` |
| `beforeEach`; `mounted` of `Login.vue` | `Navigate`, `Allowed`, `Enter` |
| `Login`, `Register`, login forms | `Login`, `AnswerLogin` |
| callback of an identity provider | `Load` with a cookie |
| `Logout`, `location.reload()` | `ClickLogout`, `Logout`, `Leave`, `StartPage` |
| response interceptor of `main.ts` | `Use`, `AnswerOther` |
| other tabs, expiry | `OtherTab`, `Expire` |

### `Inspec`, `Reports`, `ResultsView`, `CompareView`

`Inspec` turns a report into rows (`Context`): for each control the control it
overlays, its root, its status, severity and tags. Of a control the code keeps
the objects it extends, of which there is never more than one; `Bases` maps a
control, which is its place in the file, to that one. Each `find` along the
file is the `FirstOf` a set, and the getter `root` is as many steps of `Under`
as there are controls. `Reports` filters rows and
counts them. `ResultsView` has an action for each chart, card, button and
switch of the results page; where a getter of the treemap cuts its path off,
that is part of the action after which the getter runs (`GoTo`). `CompareView`
has the selection of the sidebar, the window and the search; headers
(`HeaderAt`) and rows (`VisibleRowIds`) are computed apart, as in the code.

### `SplunkReader`, `S3Reader`, `TagEditor`, `HtmlExport`

| code | actions |
|---|---|
| `AuthStep.vue` `login` | `TryLogin`, `CheckAnswered` |
| `FileList.vue` `onTimer`, `search` | `Poll`, `TimePasses`, `SearchGoesOn`, `SearchSucceeds`, `SearchFails` |
| `SplunkReader.vue` | `Logout`, `Overlay` and the error counts of the others |
| `S3Reader.vue`, `aws_util.ts` | `Authenticate`, `CancelMfa`, `LoadBucket`, `Answer`, `Fail` |
| `TagRow.vue` | `Choose`, `Save`, `Cancel`, `DeleteTag`; `Serve`, `AnswerChange`, `AnswerList`, `Fail` |
| `ExportHTMLModal.vue` | `ChangeFilter`, `ExportHtml`, `Render`, `Unanswered` |

`S3Reader` also remembers the keys last sent to be authenticated (`askedFor`),
whether an authentication was unanswered when another was sent or the user went
back (`crossed`), and whether the user went back (`wentBack`); the code keeps
none of these. An authentication may be answered without credentials
(`get_session_token` then returns `null`), and the list is opened nevertheless.

### `UserManagement`

State: `accounts`, `known` (the server), `members` (the table), `editedUser`
(the delete dialog), `forms` (the copy of its account each row's form holds),
`mine` (`userInfo`), `edited` (rows whose form was typed in and not saved) and
`open`, the calls. A form copies the account when the row is made
(`UserModal.vue:200`) and keeps what was typed when it is closed, so a closed
form may hold anything; that of the profile menu may therefore send any values.

| code | actions |
|---|---|
| `UserManagement.vue` `getUsers` | `Init`, `Serve`, `AnswerList` |
| `deleteUserDialog`, `closeDeleteDialog`, `deleteUserConfirm` | `OpenDelete`, `CloseDelete`, `DeleteUserConfirm`, `AnswerDelete` |
| `UserModal.vue` in a row | `Type`, `SaveForm`, `AnswerUpdate` with `UpdateUser` |
| `UserModal.vue` in the profile menu | `SaveProfile`, `AnswerUpdate` |
| `RegistrationModal.vue` | `Register`, `AnswerRegister` |
| the server | `Serve`, `Refuse` |

### `GroupMembers`

State: `belongs` (the server), `row` (the `group` the dialog is given), `form`
(`groupInfo`, copied from the row when the dialog is made and kept when it is
closed), `shown`, and the calls under way, each with the save it is of, as
`Promise.all` waits for all of one save. `flips`, `wanted` and `calm` record
what was chosen and which cases the property leaves aside.

| code | actions |
|---|---|
| `GroupModal.vue` dialog | `Open`, `Cancel` |
| `Users.vue` `addUsers`, `deleteUserConfirm` | `Flip` |
| `save`, `updateExistingGroup` | `Save`, `AnswerPut`, `Fail` |
| `syncUsersWithGroup` | `Differences` in `AnswerPut`, `ServeChange` |
| `GetGroupById` | `Finish`, `ServeGet`, `AnswerGet` |
| another owner | `ChangeElsewhere` |

### `EvaluationGroups`

State: `linked` (the server), `listed` (the groups of the row), `dialog`, which
is made anew each time it is opened, and the calls. The dialog tells the groups
it was opened with (`kept`) from those taken from the picker (`picked`), which
are other objects even for one group.

| code | actions |
|---|---|
| `editItem`, `getGroupsForEvaluation` | `Open` |
| picker and chips | `Toggle` |
| `cancel` | `Cancel` |
| `update`, `updateGroups` | `UpdateEvaluation`, then `ServeChange` for each call |
| `updateEvaluation` | `AnswerEdit`: its answer has no groups |
| `loadEvaluation` | `ServeRead`, `AnswerRead` |

### `Nist`, `SplunkPayloads`

`Hierarchies` is the loop of `_generate_full_nist_hierarchy`: for each number
of controls that are read the nodes made so far, as objects, and the map that
finds them, for a list in any order that may name a control twice, as the only
list of the program does. `Consolidated` is `consolidate_payloads`
on events in any order.

## Runs

| run | module, size | shows |
|---|---|---|
| `groups_safety` | 161 193 states | all safety of `Groups`, and that it implements `GroupAuthority` |
| `groups_last_owner` | *violation* | a removal takes out the only owner, who became one after the check had read the owners |
| `accounts_signin` | 523 166 states | `EmailsUnique`, `LoginsNeverOvercount`; every request ends (`RequestsEnd`) |
| `accounts_edits` | 654 876 states | roles and forced password changes survive stale copies; the last-administrator check is right while fresh; `Accounts` implements `AccountAuthority` |
| `accounts_serial` | 3 783 660 states | with one request at a time an administrator always remains, over every operation; also that the server never stops |
| `accounts_last_admin` | *violation* | two removals delete the last two administrators |
| `evaluations_safety` | 2 231 997 states | nothing dangles, what an account leaves behind falls to the administrators |
| `evaluations_links` | 122 472 states | the links nobody awaits arrive (`LinksArrive`), and `Evaluations` implements `EvaluationAccess` |
| `evaluations_late_tag` | *violation* | a tag added while its evaluation is removed outlives it |
| `client_page` | 740 729 states | what a page shows is what it has and what the server holds: files, selection, URL, lists; filters and treemap, comparison; overlays and statuses |
| `client_session` | 580 737 states | a page is of one account and gets somewhere; the Splunk and S3 tabs, the tag editor, the table of accounts, the report, the NIST hierarchy, the events of Splunk; members of a group and groups of an evaluation, as their dialogs edit them; and, on the server, updates of a group |
| `client_url` | *violation* | the URL of a page is not brought up to date when the files arrive |

### Properties

`Groups`
* `NoDanglingRows` – a membership row never links what does not exist, however
  late it is written.
* `DuplicatesBounded` – a pair has at most as many rows as requests are in
  flight together, the inserts still to come included. With one request at a
  time rows are unique.
* `OrphanNeedsAdmin` – once a group has no owner, and nobody but
  administrators is past the ability check on it, it changes only by a write of
  an administrator. Members and owners of other groups cannot get hold of it.
* `FreshRemovalKeepsOwner` – `removeUserFromGroup` keeps an owner if the owners
  it counted are still the owners when it deletes. `RemovalKeepsOwner`, which
  drops that condition, is what the service's test asks for, and fails.
* `ImplementsAuthority` – the refinement.

`GroupUpdates` (run `client_session`)
* `LastUpdateStays` – when nothing is under way, name and visibility are each
  those of an update that no later one replaced, where *later* means that it
  loaded the group after the other had ended with both statements. A statement
  that is late, doubled or lost does not bring back what was replaced, and an
  update that leaves a field out does not touch it. The condition *with both
  statements* is needed: an answer comes before the first `UPDATE` is known to
  have landed.

`Accounts`
* `EmailsUnique` – find-or-create and renaming never make two accounts with one
  address.
* `LoginsNeverOvercount` – updates of `loginCount` may be lost, never invented.
* `RolesAreGranted` – a role changes only by an update that asks for it, of
  another account that was an administrator when it came in.
* `ForceEndsWithPassword` – a forced password change ends only in a write of a
  new password.
* `DeletedStaysDeleted` – no late write brings an account back; a theorem that
  no run checks, since `ImplementsAuthority`, which one does, implies it.
* `FreshDestroyKeepsAdmin`, `AdminRemains`, `DestroyKeepsAdmin` – the
  last-administrator check is right while its answer is fresh; without overlap
  an administrator always remains; with overlap it need not.
* `RequestsEnd` – every request ends, the one which looks the account up a
  second time included.
* `ImplementsAuthority` – the refinement: no write of the table but by a request
  that was let through to it when its row was loaded, and no column but those.

`Evaluations`
* `NothingDangles` – links and tags refer to what exists.
* `AbandonedNeedsAdmin` – a private evaluation that lost its uploader and is in
  no group changes only by a write of an administrator.
* `ImplementsAccess` – the refinement: no evaluation, tag or link changes but
  by a request that was let through to that change, and a removal takes along
  every tag it had loaded. `RemovalTakesTags`, that it takes *every* tag, is
  what the service's test asks for, and fails when a tag is added in between.
* `LinksArrive` – a link that was let through arrives unless the group or the
  evaluation is deleted first.

`FileStore`, `GroupStore` (run `client_page`)
* `SelectionHonest` – the sidebar's "all selected" compares two lengths; it is
  right because no selected id is ever that of a removed file or of one of the
  other kind.
* `LoadedOnce` – no execution of the database is loaded twice unless it was
  asked for again while it was under way (`twice`): that case does happen, the
  check reads what is loaded before the calls.
* `UrlCovered` – each id of the URL is loaded, on its way, or failed, through
  reloads and the back button.
* `ListsRight` – at rest the list of evaluations, of my groups and of all
  groups are the server's. It needs `calm`: overlapping calls, failures and a
  list replaced under an open dialog do leave wrong lists. It says nothing of
  all groups after a deletion here: `DeleteGroup` looks for the object of one
  list in the other and takes the last row.

`ResultsView`, `CompareView` (run `client_page`)
* `FiltersShown` – a filter that hides a control can be cleared
  (`ClearAvailable`), although `can_clear` does not look at the picked control;
  and what lies under the treemap's node is what the table shows
  (`MapInTable`), although they use two filters.
* `ExpansionHonest` – single expand is single, and the expand-all switch,
  which compares two numbers, says what the rows are until others are shown.
* `ComparisonHonest` – headers, rows and details name the same files
  (`WindowInRange`, `DetailsMatchColumns`) and "changed only" hides exactly
  what all have alike (`HidesUnchanged`). Not after files are unselected while
  the view is scrolled, and of details only where files were loaded in the
  order they were run.

`Inspec`, `Reports` (run `client_page`)
* `OverlaysResolved` – for every way three profiles may overlay each other:
  each chain of overlays ends at a control of the same id (`RootsEnd`), results
  are only hidden by what the code documents (`ResultsShown`), and a
  requirement that profiles in one line hold has one row, with the results of
  the bottom of that line (`ShownOnce`). Profiles that overlay each other in a
  circle are excepted: the getter `root` would not come to an end.
* `NothingOverstated` – no control passes with a failed or broken test, 100 %
  is shown only up to rounding, and the two compliance charts agree on files
  without overlays and waivers.

`Session` (run `client_session`)
* `SessionHonest` – stored token and stored id are of one account
  (`StoredPair`); a page that one account used shows and asks for that account
  only (`UserIsSignedIn`), and the administration to administrators only
  (`AdminSeesAdmin`). On a page where two accounts signed in a late answer does
  show the first.
* `PagesSettle` – a page that starts is shown at last, also where a stored
  token is refused; it does not reload for ever.

The other dialogs (run `client_session`)
* `OneSearch`, `ListComes` – the poller has one search under way and its flag
  says so, on every way out; who signs in gets the list of that endpoint, or is
  back at the form.
* `CredentialsAsAsked` – unless an authentication crossed another one or a step
  back, the credentials held are those asked for last or none, a form holds
  none, and until one goes back the files shown are those listed with the
  credentials that will fetch them.
* `EditsArrive` – four claims about edits of what the server holds. Of the tag
  editor `TagsAsChosen`: at rest the tags are those chosen and not deleted, once
  each, if the user waited for the answers and none failed. Of the accounts
  `TableRight`: at rest the table is that of the server, a form nobody types in
  shows its row, and `userInfo` is right. It needs `apart`: an answer overtaken
  by another edit of the account or by a list does leave a wrong row. An edit
  and a deletion of one account may overtake each other as they like: a row that
  is gone stays gone. The row of the administrator itself is excepted, as the
  form of the profile menu does not touch the table. Of the members of a group
  `MembersAsChosen`: at rest the group has the members chosen in the form and by
  another owner, the later choice counting; two saves of one form do not undo
  each other, since the row is read anew in between. It needs `calm`: see
  *Observed while modelling* for what happens otherwise. Of the groups of an
  evaluation `GroupsAsChosen`: once the calls that change them are served it is
  in the groups that were asked for, also when the dialog was opened anew on a
  row that did not show them yet - unless two calls on one group were under way
  at once, or one failed.
* `ReportWhole` – a report is of one filter unless the filter changed while
  the template was fetched.
* `OrderNeverMatters` – two functions whose input comes in any order:
  `HierarchyWhole`, each NIST control whose ancestors are listed, and no other,
  is one node, with the controls it is the parent of under it as often and in
  the order the list names them; `EventsKept`, each event of Splunk ends in the execution it is of.

### Findings

Four disagreements between a statement in the repository and what the code
does, each with a counterexample: the last owner of a group
(`groups.service.ts:56` against `groups.service.spec.ts:136`), the last
administrator (`users.service.ts:131` against the comment at line 129) and the
tag that outlives its evaluation (`evaluations.service.ts:62` against
`evaluations.service.spec.ts:275`). Each is a check and a write in separate
statements without a transaction. The owner is lost to a removal that overlaps
the creation of the group: it reads the owners while the creator's own
membership is not inserted yet, and then takes it out as the only one. The
administrators are lost to two removals that both count two; an update that
demotes one of the two while the other is removed does the same. Each has a companion property that holds
and says exactly when the code is right. The fourth is on the client: the
comment at `router.ts:102` says that the URL is brought up to date with the
files that were loaded from the database, but the guard starts the loads
without waiting and nothing looks at the URL again. After a reload of
`/results/e1` and a click on the link to the results while the load is under
way, the page shows the file at `/results`. `UrlCovered` says what the URL is
good for nevertheless.

### Bounds, and why they are enough

* **Two requests at a time.** Every hazard listed is a race of two: one request
  between its check and its write, another that changes what was checked.
  `Crash`, `DeleteUser`, `DestroyGroup` and `ChangeRole` run besides as steps of
  the environment. The theorems about `Groups` and `Accounts` hold for any
  number, those about the client for any number of calls, files, groups and
  evaluations.
* **One group, two accounts** (`groups_*`, `evaluations_safety`): one
  administrator and one ordinary account. Groups do not interact; two accounts
  are enough for owner and member, for two owners, and for requester and target
  to differ. `evaluations_links` has two groups, because it is about the
  chains of one request, and one account.
* **One evaluation with two tags**: one tag from its upload and one added later
  – what is needed for a removal to miss one.
* **Ids.** `IdsLeft` and `TagsLeft` let a request that inserts in only while an
  id is left for it. `MaxLogins` bounds the accepted sign-ins of an account: two
  are enough to lose an update.
* **Operations per run.** `Ops` and `Edit` choose which requests come.
  `accounts_edits` has updates, removals and sign-ins by way of an identity
  provider, which make accounts: it starts with one administrator, who has to
  change the password, and one id left, so that a second account is made, raised
  and lowered while the requests overlap. Three edits (`Raise`, `Lower`,
  `Renew`) change role, address, flag and password between them; one of them has
  the password `Empty`, which is not "none" to the test that refuses
  (`users.service.ts:76`) but stores nothing (`:81`).
  `accounts_signin` leaves out updates, and has registration and sign-in with a
  password. That these implement `AccountAuthority` as well is what the theorem
  says; before it was proved, TLC had gone through all five operations with a
  password and a role to edit (233 263 states).
  `accounts_serial` has all operations and all edits in one run, and
  the theorems have no such restriction. `evaluations_links` asks for uploads,
  shares and removals only; the other requests write no link but for taking one
  back, after which the property asks nothing. That the other requests
  implement `EvaluationAccess` as well is what the theorem says.
* **Passwords**: two in the edit and sign-in runs, so that a comparison can
  fail. `Random`, the password of an account made for an identity provider,
  is one of them: the code generates 256 random hex characters, which nobody
  guesses, so letting it coincide with a typed password only adds behaviours.
* **`client_page`**: one execution and one profile, because they behave
  differently; two files, three calls and two in flight, which is enough for a
  load to meet a load, a deletion or a reload, and for a selection to survive a
  removal. Two groups of which the page owns both, two versions, five calls: a
  refresh is two calls, so a refresh meets an edit or a deletion and is
  followed by another. Three reports (plain, with an overlay, with two
  profiles that do not know each other); the results page has two of them, the
  comparison all three, so that two columns are a window. `Inspec` runs over
  all ways three profiles of two requirements overlay each other, all controls
  of at most two results, and counts around 200, where rounding reaches 100 %.
* **`client_session`**: an administrator and an ordinary account, and three
  turns of users, tabs and the server; the theorems have no such bound. Two
  endpoints and three sign-ins; two keys and five clicks; two values of tags
  and two saves; two files, two exports and two changes of the filter; all
  lists of up to five (`MaxListed`) of five controls on four levels, repetitions
  included, and all orders of subsets of six events. Two
  accounts with two values each, two changes and two calls under way, after
  which nobody types any more: an edit meets a deletion, a registration or
  another edit of the account. Two updates of one group with two names, which
  is enough for a statement of one to come after the other; the theorem has no
  bound on them. Three members, two saves and one change by another owner: it
  may come before, between or within the saves, and concern one of two
  accounts. One group of an evaluation and two saves: two calls meet on one
  group only, and a second group multiplies the states without a new case.
* **Symmetry** over `Req` only, and only in runs without a liveness property.
* `CHECK_DEADLOCK FALSE` where ids or sign-ins can run out and a request can
  find nothing more to ask for, and on the client, where bounds on calls and
  clicks run out and the parts without steps stop at once; `accounts_serial`
  checks deadlock.

### Fairness

`FairSpec` in `Accounts` states weak fairness of each request's next statement:
PostgreSQL answers each statement it is sent and Node's event loop runs each
callback that is due, whatever other requests do. Nothing is assumed of clients:
`Receive...` is not fair. `Evaluations` states it of each group's chain of
`$add` as well, as these are independent promises; fairness of the request as a
whole would let one chain starve another. `Crash` is excluded from the liveness
run of `Evaluations`: a crash loses links for good, since nothing repeats them,
and `LinksArrive` is a statement about a server that stays up. In `Accounts` a
crash ends the requests too, so it needs no exclusion.

On the client `Session` states it of each kind of answer and of the reload the
page was told to do, and `MCSession` of Splunk's answers, the poll timer, the
passing of time and the end of jobs: a browser ends every call, with an answer
or an error, and timers run. Nothing is assumed of people, other tabs or
tokens. That each kind of answer is fair, and not each call, is enough because
the calls of a page are few and end.

## Theorems

All are proved for arbitrary constants under the named assumptions of the
modules. On the server: `Req`, `Group` and `Uid` are finite where something is
counted, `None` is none of the ids, administrators are accounts, and the table
`Accounts` starts with is well typed and has no address twice
(`StartAssumption`; the unique index guarantees it). Those of the client are
below. No theorem needs a bound to be small, and none has a hypothesis but the
assumptions and the specification; `SerialAdminRemains` alone assumes more,
that there is one slot for requests and that the table `Accounts` starts with
has an administrator.

| module | theorem | property |
|---|---|---|
| `GroupsProofs` | `TypeCorrect` | `TypeOK` |
| | `NothingDangles` | `NoDanglingRows` |
| | `OrphansAreSafe` | `OrphanNeedsAdmin` |
| | `FreshRemovalsKeepOwner` | `FreshRemovalKeepsOwner` |
| | `DuplicatesAreBounded` | `DuplicatesBounded` |
| | `GroupsImplementAuthority` | `ImplementsAuthority` |
| `AccountsProofs` | `TypeCorrect` | `TypeOK` |
| | `AccountsImplementAuthority` | `ImplementsAuthority` |
| | `DeletedAccountsStayDeleted` | `DeletedStaysDeleted`, which no run checks |
| | `EmailsStayUnique` | `EmailsUnique` |
| | `RolesComeFromAdmins` | `RolesAreGranted` |
| | `ForceEndsByPassword` | `ForceEndsWithPassword` |
| | `FreshDestroysKeepAdmin` | `FreshDestroyKeepsAdmin` |
| | `LoginsAreNotInvented` | `LoginsNeverOvercount` |
| | `SerialAdminRemains` | `AdminRemains`, when requests do not overlap |
| `EvaluationsProofs` | `EvaluationsTypeCorrect` | `TypeOK` |
| | `NoEvaluationDangles` | `NothingDangles` |
| | `AbandonedBelongsToAdmins` | `AbandonedNeedsAdmin` |
| | `EvaluationsImplementAccess` | `ImplementsAccess` |
| `MCSessionProofs` | `SessionTypeCorrect` | `TypeOK` of `Session` |
| | `SessionStaysHonest` | `SessionHonest` |
| | `OneSearchAtATime` | `OneSearch` |
| | `CredentialsStayAsAsked` | `CredentialsAsAsked` |
| | `ReportsWhole` | `ReportWhole` |
| | `UpdatesStay` | `LastUpdateStays` |
| | `OrderMattersNot` | `OrderNeverMatters` |
| `EditsProofs` | `EditsReachServer` | `EditsArrive` |
| | `PartsTyped` | `TypesOK` of `MCSession` |
| `MCClientProofs` | `ExpansionStaysHonest` | `ExpansionHonest` |
| | `FiltersAreShown` | `FiltersShown` |
| | `ComparisonStaysHonest` | `ComparisonHonest` |
| | `NothingIsOverstated` | `NothingOverstated` |
| | `OverlaysAlwaysResolved` | `OverlaysResolved` |
| | `GroupListsStayRight` | the part of `ListsRight` about groups |
| `FilesProofs` | `SelectionStaysHonest` | `SelectionHonest` |
| | `LoadedOnlyOnce` | `LoadedOnce` |
| | `UrlStaysCovered` | `UrlCovered` |
| | `TypesStayOK` | `TypesOK` of `MCClient` |
| | `ListsStayRight` | `ListsRight` |

Each proof module extends the one before it where it uses its lemmas:
`EditsProofs` extends `MCSessionProofs`, `FilesProofs` extends
`MCClientProofs`, and both chains begin with `ListLemmas`.

Assumptions on the constants, each checked by TLC for the values of the runs:

* `PartsAssumption` (`MCSession`): bounds are natural numbers, the values of
  tags and the files of a report are finite, the administrator at work is an
  account and a member, and what stands for no key and no account is none.
* `InputsAssumption` (`MCSession`): lists of NIST controls have a greatest length
  and events are finitely many; a family is listed once, and a control has a family and a
  number at least, which is what `raw_nist.ts` and the expressions of `nist.ts`
  give.
* `ScansAssumption` (`MCClient`): the reports that are read are lists of
  profiles with lists of controls and results, and no profile overlays itself
  by way of others.
* `ClientAssumption` (`MCClient`): bounds are natural numbers, groups and
  evaluations are finite, those a page owns are among the groups, and there is
  at least one group to ask for. `None` is no evaluation.
* `HierarchyAssumption`, `RowsAssumption` (`ResultsView`): the treemap's tree
  has nodes one or two specifiers deep, the parent of each, and no family
  without controls – as `nist.ts` makes it from its list. The rows of a page
  are finite, and each has a NIST tag: a control without one gets UM-1
  (`compat_inspec_1_0.ts:136`).
* `CompareAssumption` (`MCClient`): the files of the comparison are sorted in
  some order, are not profiles alone and have finitely many rows.

The arguments:

* **Types.** `TypeOK` is not inductive: a step from `"write"` uses fields which
  `TypeOK` allows to be `None`. `TypeInv` adds `WellFormed`, which says of each
  `pc` which fields are set and of which operation.
* **Rows and writers.** `Writers` says that a step changes the tables only
  through one of a few actions, `RowsAfter` what each leaves; the safety
  properties are then a case split over those and not over `Next`.
* **Duplicates.** `DuplicatesBounded` counts the inserts that are still to
  come. An insert moves one from *pending* to *present*; a select that finds
  nothing starts from zero rows, and adds one request to the pending ones, which
  are a subset of `Req`.
* **Orphans.** `AuthorisedStep` shows that a request which becomes authorised on
  an ownerless group belongs to an administrator; `OwnerGained` that only an
  authorised request makes an owner. Together a group that is orphaned stays so
  until an administrator writes.
* **Fresh checks.** `RemovalChecked` carries what `SelectOwners` decided to the
  delete; with unchanged owners it gives a second owner who stays. For
  administrators the same with the count, by cardinality.
* **Roles.** `AllGranted` says of every request about to save that a role among
  its columns was asked for by an administrator who is somebody else, and that
  the columns it does not write are left alone (`SavedColumn`).
* **Logins.** `LoginsReached` bounds the value each pending save carries by the
  sign-ins accepted; the columns of other saves do not include the counter.
* **Serial administrators.** With all slots equal, `UpToDate` says the copy a
  request holds is the row and the count it took is the count, so the freshness
  condition is always met; role changes keep the administrator that makes them,
  who is never its own target.
* **Refinement.** `Warrants` changes only where a request is cleared or ends
  (`WarrantsKept`, `WarrantsSpent`, `WarrantsGained`), `Held` as in the
  `HeldAfter...` lemmas; every action then maps to one abstract step or a
  stutter, `Crash` to giving up all warrants. A late insert beside other rows is
  why `Grant` allows a second role. For accounts the permit is a function of the
  request's record (`PermitOf`), which is why only the request that moves needs
  looking at (`OnePermit`); `EditIsOwn` is the heart of it, that the columns in
  which an edited copy differs are those its editor may write, and `CountStep`
  is the one step that is a stutter.

* **Evaluations.** `TypeOK` with the fields each `pc` needs, as above; a link
  or a tag is only inserted where both ends exist, and every deletion takes its
  rows along, so `NothingDangles` is inductive with it. An abandoned evaluation
  is let go of only by a request that is past its check, and one that passes a
  check on it then belongs to an administrator, because nobody else manages or
  reads it.
* **Access.** The permit of a request is a function of its record
  (`PermitOf`), so a step changes only the permit of the request that moves. A
  statement that reads maps to `Decide`: what the new record is let through to
  was checked against the rows in that step, or the old record had it. A
  statement that writes maps to the one abstract write it performs, or to a
  stutter where its row is gone or the pair had a row before. `WellFormed`
  supplies that a record carries tags and groups only where its operation does,
  and that a share names one group: its entry is spent when the link is made.
* **Session.** `IInv` adds three facts about late answers: every call carries
  the id and the route its kind has (`CallsMeant`), a route that waits is known
  (`RouteWanted`), and on a page that one account used every call that will
  fill `userInfo` is for the account of the token (`CallsForToken`). The last
  is what makes late answers harmless; a sign-in of a second account sets
  `switched` in the same step.
* **Splunk.** `FlagIsSearch`: the set of searches is empty or a singleton, as
  the flag says. Cardinalities follow.
* **S3.** `BucketInv`: unless some crossed, at most one authentication is under
  way, it is by the keys asked for last, and meanwhile no list is open, so that
  its answer finds no other credentials; and until one goes back, the lists
  under way are by the credentials held.
* **Report.** Between click and template the statistics are those of the
  filter, the controls are not there yet and no other export is under way,
  unless one met (`ExportInv`): so the controls that come are of that filter.
* **Updates of a group.** Of each field either nobody has changed it yet
  (`Untouched`), or some request asked for the value it has and whoever loaded
  the group after that request ended and wants another value still has its
  write before it (`Holds`); `OrderRight` says that what a request remembers
  as ended before it did end. A write makes its own request
  the one that holds the field; a request whose field is as it asked needs no
  write, since it loaded that very value. When nothing is under way nobody has
  a write before it, and what holds the field is what was last.
* **Edits.** `EditsArrive` speaks of rest only, so each of its four parts needs
  an invariant that accounts for what is under way. Groups of an evaluation
  (`LinksCome`): a group was asked for exactly if a call that links it is under
  way, or it is linked and no call that takes it out is. Members of a group
  (`MembersCome`): the same, with at most one change of each member under way,
  and every list that was read has the owner in it, so that a form never takes
  its owner out. Tags (`TagsCome`): what is wanted is stored or being added,
  once, what is stored is wanted or being deleted, ids are used once, and the
  list is asked for last of all. Accounts (`UsersAgree`): a row differs from
  the server only while an answer that corrects it is under way. The
  conditions `clear`, `calm`, `alone` and `apart` stand before these conjuncts
  and not before the types, which hold whatever happens.
* **Table.** `AtMostOne` says that with single expand on the open rows are none
  or one; `OpenAreShown` that they are among those shown until others are.
  With finite data two such sets of one size are equal.
* **Treemap.** `LeafUnderNode`: the way down ends at a node of the tree (`Way`),
  and a control is picked under a node only, so that wherever one is picked
  the way can be cleared, and the control with it; that is why `can_clear` need
  not look at it. Map and table use two filters, of which one compares tags as
  they are and the other what is left of them two specifiers deep; under a node
  of the tree both say the same.
* **Comparison.** `CompareInv`: index and columns fit into the files of the
  selection, unless it lost one while scrolled. A larger selection has no fewer
  files (`WithinGrows`), which is why adding files keeps it.
* **Statuses and counts.** No run of results that has a failed or broken one
  passes the rules before "passed" (for any results); compliance rounds down
  below 99.5 % (by arithmetic, for any two counts); and both filters of one
  file give the same rows where each is shown and none waived.
* **Lists.** What the stores' proofs keep needing is what `Pick`, `IndexOfId`,
  `RemoveAt`, `Append` and `SetToSeq` leave of a list: which elements, which
  ids, that ids stay their own (`Once`, `OwnUids`). The lemmas on them are the
  beginning of the part of `MCClientProofs` about groups and of `FilesProofs`;
  `PickIs`, `NthIs`, `NthGrows` and `SetToSeqOnce` are in `ListLemmas`. Positions and
  cardinalities replace induction along the list.
* **Induction.** Where one is needed after all, it goes by least elements: a
  set of naturals that is not empty has one (`SmallestIs`), so a claim about
  the first `n` steps that holds at 0 and is kept by a step holds for all
  (`Induction`, which is stated of sets and not of a predicate). Functions
  defined by recursion are shown to exist first, as what all finite beginnings
  of them agree on (`ChainIs`, `HungIs`).
* **NIST hierarchy.** `Forest` is what the loop keeps, whatever came so far
  (`HangForest`): nodes have controls of their own, each is in the map under
  its control, and under a node hang, in order, the controls at those of the
  first `k` positions that name a child of it (`At`). The next position is the
  last of its parent's and leaves the ranks of the others as they are
  (`NthGrows`), so appending its node is all there is to do. That every
  control with its ancestors is reached goes by the shortest that is not: its
  parent is shorter, so it is reached, and the control hangs under it
  (`ReachedIs`). Nothing else is reached, since what is reached has its parent
  in the list, down to a family.
* **Events of Splunk.** An event is in the controls of a profile exactly if it
  has the guid and the hash of it (`Kept`); so the homes of an event are the
  positions of the profile events with both, as many as `filter` leaves of
  them.
* **Overlays.** `BasesDescend` gives every control a rank that falls from a
  control to its base: the height of its profile where profiles are linked; in
  the others a control that extends one of its id is above all, since that one
  is either in a linked profile or extends nothing. A chain that falls ends
  within as many steps as there are controls (`RootEnds`), because its members
  differ. Over what extends nothing there is always a top (`TopAbove`). Where
  profiles are in one line the bases of the controls but the last are all
  different, so by cardinality they leave room for one top only (`OneTop`).
* **Groups of the client.** `GroupsTyped`: each call is numbered and carries
  what its kind needs, both lists have each id once, and *My groups* only those
  of this account. `CalmInv`, as long as `calm`: a change is the only call
  under way (`Alone`), an answer is what the server holds (`AnswersRight`),
  what the dialog or a deletion will look for is the object of a row
  (`ObjectsHeld`) – so that `indexOf` does not give -1 – and a row agrees with
  the server, unless a call that changed it has not been answered (`Stale`).
* **Files and selection.** `FilesTyped` is one invariant over all of
  `FileStore`: files of both kinds have numbers of their own, at most the
  number made; selected numbers are those of files of that kind; what is
  named by a file, row, dialog, call or URL is an evaluation that exists or
  did. `SelectionHonest` is a consequence by cardinality: as many distinct
  numbers as there are files, among the numbers of the files, are all.
* **Loaded once.** `OnceInv`: two executions of one id, an execution and a call
  that will bring its id, two calls that will bring the same – each implies
  that the id is in `twice`. `LoadedOnce` is the first; the other two are what
  a step of an answer needs. A save counts as *going to bring* its id from the
  moment the server has made it, and a new id is in no file and call.
* **URL.** `UrlInv` is `UrlCovered` for every id. A step replaces the URL by
  what is loaded (`GoesToLoaded`), by ids all of which it asks for
  (`AsksForAll`), leaves the page (`LeavesPage`), or keeps it with all that covers
  it (`Stays`); each action is one of the four.
* **List of evaluations.** `FilesCalm`, as long as `calm`: no call failed, a
  change is alone, answers are right, the row of a deletion is out of the list
  from the click on (`DeletesGone`: without it the deletion would leave a
  row too many), and an evaluation that misses in the list is brought by
  a call under way (`ListMatches`). At rest none is under way.

Before it was proved, the inductive invariant of `FileStore` was checked by TLC
with the constants of `client_page`, and with four calls instead of three
(4 123 291 states, without `DeletesGone`, which only the proof asked for).

What was to be proved was made stronger in one place: `ShownOnce` used to ask
for three profiles in a row, and now for any line down to a bottom.

### Only model-checked

Every safety property that a passing run checks is the property of a theorem.
What is left to TLC:

* Liveness: `RequestsEnd`, `LinksArrive`, `PagesSettle` and `ListComes`
  (temporal reasoning under fairness is out of the prover's reach).
* The four properties that fail (`RemovalKeepsOwner`, `DestroyKeepsAdmin`,
  `RemovalTakesTags`, `UrlUpToDate`) are counterexamples of TLC.

## Not modelled, and why

* Reading handlers, their filtering and their answers: they change no state.
  `MayRead` is modelled because sharing consults it.
* The contents of evaluations, names, titles, dates, and the wording of errors:
  no property tells them apart.
* Tokens: a request may come at any time while its account exists; expiry of a
  token only removes behaviours.
* Uploads with no tag or with several: every upload in the model has one. Their
  tags are inserted one by one after the evaluation, as the one tag is.
* The sign-up form and the exports to spreadsheets: no state but a form and a
  file. Further, on the client: a server-less build, the text of searches,
  sorting, layout.
* Rate limits, configuration, start-up, statistics, the password pipes (text,
  character by character), the scanner's loop over hosts (no state from one
  host to the next), the vendored installer and the InSpec profiles: see
  `PROJECT.json`.
* Most lines of the repository are data: the tables of `cci_util.ts`,
  `nist_util.ts` and `raw_nist.ts`, the generated parsers of inspecjs, and the
  markup of Vue components. There is no behaviour in them to state, so the
  share of mapped lines stays small.

## Observed while modelling

What the code does and no run calls a violation, because no statement in the
repository says otherwise, or because it is a matter of presentation:

* `status_counts.ts:32` and `severity_counts.ts`: "Remove the status filter",
  and then the filter is spread over it again; the counts are of the picked
  status only.
* `groups.ts:55`: a deletion from *My groups* takes the last row off *All
  groups*.
* `Compare.vue:159`: after files are unselected while the view is scrolled,
  the header reads past the end and rendering fails; `:164`: the times of the
  headers do not scroll with the columns.
* `CompareRow.vue:88` lists details in the order of loading, where the comment
  on the visible ids speaks of the columns.
* `nist.ts` `updateStatus` takes the new status where the old one compares
  greater, and its comments say the reverse.
* `raw_nist.ts:1795` and `:1800` both name TR-1 (1), so that `nist.ts:369` puts
  its node under TR-1 twice, which is the tree the treemap reads
  (`treemap_util.ts:183`).
* `users.service.ts:76` compares the password with `null` and `:81` asks whether
  it is empty: a user who must change the password can update the account with
  an empty one, which is accepted, stores none, and leaves the duty to change it.
* `aws_util.ts:148` returns `null` where an answer has no credentials, and
  `S3Reader.vue:101` and `:161` open the list with it; loading then throws.
* `report_intake.ts:137`: a profile loaded from the database does not record
  its id and can be loaded again.
* `router.ts:93` reads the role of the user whose data came last.
* `groups.service.ts:86`: an update of a group is answered while its first
  `UPDATE` may still be on its way, so that it can undo an update that came
  after the answer; an error of that statement is an unhandled rejection.
* `group.model.ts` declares the name of a group unique; no migration makes the
  index.
* `UserModal.vue:200` copies the account when the form is made: "Close without
  saving" keeps what was typed, and a form opened later overwrites what was
  changed elsewhere since. The profile menu's form does not refresh the row of
  the table, nor the row's form the profile's.
* `UserModal.vue:207` turns its button to loading before it validates, and
  leaves it so when the form is invalid; `UserManagement.vue:125` closes
  whichever dialog is open when a deletion is answered.
* `ExportCaat.vue`: `takenFilenames` is never emptied, so a second export of
  the page names its sheets "(2)"; two controls with one id in a file give one
  row.
* `GroupModal.vue:122` copies the members when the form is made, and `:147`
  keeps the copy after a save: members another owner adds are shown by the row
  and taken out again by the next save of the form, those it removes are put
  back. A second save answered while the calls of the first are under way is
  compared with the old row; so is one after a save one of whose calls failed.
  "Save" of a new group clicked twice makes two groups.
* `EditEvaluationModal.vue:162` compares objects: a group that is taken out and
  picked again is sent as an addition and a removal at once, and the one served
  later wins. `:176` does not wait for the changes, so that the row read at `:150` may
  show the groups as they were; until then it shows none (`evaluation.dto.ts:38`).
* `SplunkReader.vue:99` handles an error of an endpoint that was left as one of
  the current; the loading icon of `FileList.vue` is in a slot for another
  header; consolidation errors carry no message.
* `S3Reader.vue`: `handle_exit_list` and `save_creds` are not used.
* `TagRow.vue:74`: tags somebody else adds while the row is mounted are deleted
  by the next save.
* `password-change.pipe.ts`: more than eight characters must change where its
  message says eight; `password-complexity.pipe.ts` refuses four of a class in
  a row where its message allows four.
* `database.service.ts` `getDelta` has no caller.

## Plan

What is left, in the order of importance:

1. Loading one execution from Splunk and one file from S3, which meet
   `FileStore`.
2. Reading handlers of the server, whose answers the client's modules take for
   granted.

Composition: `Evaluations` takes membership as an environment that may do
anything `Groups` allows, so the two need no product. `FileStore` and
`GroupStore` take the server as an environment in the same way: what it holds
changes by the calls of the page and by others, and it answers with what it
holds.
