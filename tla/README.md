# Verification of radius-cert-manager

TLA+ models, model-checking runs and machine-checked proofs for the parts of
radius-cert-manager whose correctness depends on the order of things: a hub that
issues certificates and decides network access, and RADIUS servers at the sites
that must learn of every decision. Paths are relative to the repository.

## The system and its parts

The hub is a FastAPI application over SQLite (`app/`), with systemd timers that
run scripts against the same database and the same `pki/` directory. Several
processes change that state at the same time: request threads, background push
threads and the timers' scripts. Each site runs FreeRADIUS, an adapter
(`deploy/radius/authorize_policy.py`) that decides every authentication from a
policy file, and a site agent (`deploy/agent/site_agent.py`), a oneshot unit that a
timer starts every hour. Sites pull over HTTPS; the hub also pushes the CRL to one
server over SSH.

| Part | State | Operations | What is hard | What makes it correct | Model |
|---|---|---|---|---|---|
| Policy publication (`site_policy.py`, `web_helpers.py`, refresh and publish scripts) | bindings, roles, `Site` row; `site_policy_revisions` | compile, number, sign, insert; refresh when the lease runs out | publishers race for a number and read at different times | revisions do not regress; what a site holds is never older than a lease | `PolicySync` |
| Policy pull (`routes/site.py`, `site_agent.py`) | `policy.json`, `policy_revision.txt`, `policy_hash.txt`; `site_policy_acks` | fetch, verify, install, record, acknowledge, roll back | crash between any two writes, lost answers, failed installs | the records describe the live file; the site catches up | `PolicySync` |
| CRL regeneration (`cert_service.py`) | certificate rows, `.pki.lock`, `pki/crl.pem` | suspend, unsuspend, revoke, regenerate | concurrent regenerations, a process dying in between | `crl.pem` lists what the registry blocks | `CrlDelivery` |
| CRL push (`main.py`, `crl_health.py`, `crl_push.py`, `crlpush_forced_command.sh`) | staging file, live file and running CRL of the server | scp, install, reload, read back, retry, alert | pushes share two files, crl.pem is read while rewritten | delivered, or loud | `CrlDelivery` |
| CRL pull (`routes/site.py`, `site_agent.py`) | the same live file | check in, fetch, install, roll back | it writes the file a push is verifying | the live file converges to `crl.pem` | `CrlDelivery` |
| Server certificate and adapter update (`site_agent.py`, `routes/site.py`) | key, certificate and chain file, what the service has loaded; `server_cert_id` | check in, ask, sign, install, roll back, restart | three files, a request repeated at a second hub, death between the writes | the pair fits; a due certificate gets renewed | `ServerCert` |
| RADIUS adapter (`authorize_policy.py`) | policy file, lease | authorize | must decide as the hub would, from another copy of the data | agrees with `resolve_binding`, fails closed | file and lease: `PolicySync`; decision: `SiteAccess` |
| Access of a site (`network_policy.py`, its routes, `site_policy.py`) | allowlist, bindings with their switches, segmentation | authorize, configure, draft, switch | requests that overlap are merged column by column | a platform block stays, tenants are apart | `SiteAccess` |
| Tenant tables (`network_policy.py`, `employee_service.py`, `device_service.py`) | subsidiaries, departments, roles, links, grants, employees, devices | create, link, grant, move, delete | check in one step, write in another; foreign keys only where declared | references hold, and stay in one tenant | `TenantRegistry` |
| Certificates (`cert_service.py`, `reconcile.py`, routes) | rows, `pki/issued/` | issue, reissue, set status, import | the file is written before the commit; import at every start, without the lock | whoever got a certificate is on record; no second active one from a form | `CertRegistry`; the renewal queue's dates are not modelled |
| Employees (`employee_service.py`) | employees, their certificates | create, update, offboard, delete | offboarding is several transactions, races with issuance and deletion | offboarding leaves no usable certificate behind | `CertRegistry`, `TenantRegistry` |
| Admins (`auth.py`, routes) | password, failures, lock, token version, sessions | login, lockout, change, reset, deactivate, force out | a request writes what it computed from a row read 100 ms ago | a bump ends every earlier login; a lock ends by time | `AdminAccess` |
| One-time stores (`main.py`) | pending bundles and export passwords | store, show, take, sweep | no lock, two takers, stale entries | a private key is in one place | `OneTimeStores` |
| Bulk operations (`bulk_service.py`, `bulk_network_service.py`) | previews, batches | classify, confirm row by row, reissue, download | one row of many fails, a confirm repeated | the result is true | `BulkImport` |
| Rate limits (`rate_limit.py`) | request times in memory | count | | | not modelled: a small dict, overlapping requests admit a few more |
| Site registry (`site_service.py`, `site_auth.py`) | sites, token hashes | register, rotate, disable | | only the current token authenticates | not modelled but for `set_vlan_segmentation`: single assignments |
| Fleet monitoring, expiry alerts (`fleet_health.py`, `fleet_watch.py`, `expiry_alerts.py`) | last alerts | evaluate, alert | | one alert per cause | not modelled: functions of one row and the clock, one timer |
| Retention, audit (`retention.py`, `db.py`) | audit rows, old rows | delete by age, append | | nothing in use is deleted | tables and foreign keys only |
| Pages, profiles, PKI encodings, configuration, metrics, backup, maintenance scripts | none, or files of an operator | | | | not modelled: presentation, encoding, pure I/O |

How they interact: an edit or a status change commits to the database and then, in
the same request, publishes the affected sites or regenerates `crl.pem` and starts a
push thread. Timers repeat both for whatever was missed. The agent's pass asks for
the CRL and then for the policy, writes the answers over FreeRADIUS's files, checks,
reloads, and acknowledges. The hub's fleet view believes the acknowledgement and the
hash the agent reports.

## Module `PolicySync`: distribution of a site's policy

State and code:

| Variable | Code |
|---|---|
| `cfg`, `changedAt` | committed version of the `Site` row and of each binding with its role and subsidiary; history of commit times |
| `rows` | `site_policy_revisions` |
| `pub` | a `publish_site_policy` call in progress: the Site version it holds, the number it read, what it compiled |
| `lastAck` | newest `site_policy_acks` row |
| `pc`, `resp`, `backup` | `fetch_and_install_policy`: its place, the answer, `InstallState` |
| `live`, `recRev`, `recHash` | `policy.json`, `policy_revision.txt`, `policy_hash.txt` |
| `passOk`, `faults`, `now` | exit status of the last pass; faults so far; the clock |

Actions follow the code one call at a time. `WebEdit` commits and publishes,
`ApiEdit` commits only, `CliPublish`, `TimerRefresh` and `PullPublish` publish;
`BeginPublication`, `ReadRevision`, `Compile`, `InsertRevision` and
`RevisionConflict` are the statements of `publish_site_policy` between which another
process can run. The agent's `StartPass`, `Answer`, `ReceiveUnchanged`, the two
rejections, `BeginInstall`, `FinishWrite`, `CheckOk` or `CheckFails`,
`FinishRestore` and the four writes of the record files are one action each; a
write is split into truncation and content. `Crash` may come anywhere, `LoseAnswer`
covers a failed request whose handler has already run.

`PolicyView` is the abstract promise: revisions are published under fresh numbers,
the site shows a published revision or nothing, a new one is above a floor, and
the floor never sinks. `PolicySync` implements it with the mapping of `View`.

What is simplified, beyond the header of the module: a site is modelled alone (one
admin action may republish several sites in one transaction, which is this model
once per site); acknowledgements arrive or are lost but are not delayed past the
pass that sent them; leases all have the default length; one hub.

## Module `CrlDelivery`: from a revocation to the RADIUS server

| Variable | Code |
|---|---|
| `blocked` | certificate rows that say revoked or suspended |
| `lock`, `crlFile` | `.pki.lock`, `pki/crl.pem` |
| `pc`, `attempt`, `draft`, `payload` | a request or the daily script: `_set_status`, `regenerate_crl`, `push_with_retry`, `push_crl` |
| `staging`, `live`, `loaded` | `.crl.pem.staging`, `crl.pem` and the CRL FreeRADIUS runs with |
| `agent`, `fetched`, `backup` | the CRL part of `run_once` |
| `missed`, `dropped`, `alerted` | history: a death before regeneration, a push that ended without a result, an alert, since `crl.pem` was last written |

`Block` and `Unblock` are one locked transaction each, and a worker may do several
before it regenerates (bulk actions, offboarding). `ReadRows`, `TruncateCrl` and
`WriteCrl` hold the lock; everything after it does not. The push's steps are those of
the three SSH connections, with scp and cp split into opening and closing the target, so
pushes disturb each other as they can at the server. `CommandFails` ends an attempt,
`CommandTimesOut` ends the thread, because `TimeoutExpired` is caught nowhere.

Not in the model: the `crl_state` row and its banner, expiry of a CRL, a remote
command that goes on after the local ssh has timed out, more than one server, and a
reload that fails at the agent after the file was restored. The agent's report is read
and compared in one step; a push in between only makes it report late.

## Module `CertRegistry`: certificates, their files and their employees

| Variable | Code |
|---|---|
| `rows` | `certificates`: name, employee, request id, origin (`issued_by`, `supersedes_id`), status |
| `issued` | `pki/issued/*.crt`: nothing, a torn file, or a certificate with its name |
| `crl` | the serials in `pki/crl.pem` |
| `emp` | `Employee.status`, or deleted |
| `lock` | `.pki.lock` |
| `job` | a request in `_issue_one_locked`, `_set_status` and its regeneration, or `offboard_employee`; a starting process in `import_existing_certs` |
| `delivered`, `deleted`, `late` | history: certificates handed out, rows removed by a deletion, certificates issued or taken off revocation after their employee's offboarding had begun |

`Issue` and `Reissue` check and sign under the lock, `OpenFile` and `WriteFile` write the
file, `CommitRow` or `CommitFails` ends the call; only the last makes a row, and a
death in between leaves a file, or half of one. `SetStatus` allows every status after every
other, as `_set_status` does, and `Regenerate` follows it in another acquisition of the
lock. Setting the status a row already has is also what a status change becomes when the bulk
action holds a stale row. Offboarding is `OffboardStart`, one `OffboardRevoke` for each
certificate it found, `OffboardPublish` and `OffboardComplete`, with everything else in
between; `DeleteEmployee` and the import's `ImportScan`, `ImportCommit` and `ImportFails`
take no lock.

`OffboardStart` is one step because the new status is flushed before the query, and
from then on SQLite lets nobody else write until the commit. Checks, serial and signature are one
step because everyone else who could change what they read waits for the lock; imports
and deletions are not kept out, and conflict with the insert instead (`RowFits`).
`Regenerate` is one step on the strength of `CrlDelivery`, which takes it apart.

Not in the model: expiry (an expired certificate is not
revoked by an offboarding), the offboarding's operation row, the employee key of
certificates from before employees were recorded.

## Module `SiteAccess`: who gets on a site's network

`role`, `allow`, `binding` and `vlans` are the tables (`network_roles`,
`site_subsidiaries`, `site_role_bindings`, `sites.vlan_segmentation_enabled`) as far as
a decision reads them; `edit` is, for each admin, a request that has read a binding and
not yet committed. SQLAlchemy writes the columns that differ from what was
read, so `Write` merges column by column (`Merge`). `Compile` is the policy the hub
signs, `Evaluate` and `Reply` the adapter, `Resolve` the hub's own answer. The actions are
the routes of a platform superadmin (`PlatformRequest`) and of a tenant's (`TenantRequest`),
each with the scope check the code makes.

`AdapterAgrees` compares two programs that read different data, for every subsidiary and
role and after any overlap of requests; `BlockSurvivesOverlap` is what the column-wise
write guarantees; `TenantIsolation` speaks of every decision of the other tenants.

## Module `TenantRegistry`: the tables of the tenants

One variable per table, with the columns that refer to other tables, and `job` for
requests between their check and their write. Creations whose constraints are repeated by the
database are one action. Deletions, registrations, updates of a device and issuance are two,
because SQLAlchemy reads outside of a transaction. `Unreferenced` is what the foreign keys
enforce at the write; the certificates table has none. An update writes the columns that
differ from the row that was read (`Column`).

`ReferencesHold` asks whether checks and foreign keys together keep every reference;
`TenantsApart` whether links, employees, devices and certificates stay in one subsidiary
although each reference was checked against older tables.

## Module `AdminAccess`: accounts, lockout and sessions

`row` is the `admins` table, `sess` the `admin_sessions` rows with their cookies, `job` the
requests between reading a row and writing: `renew` (a login that has found an expired lock and will
reset it), `verify` (a login in Argon2), `enter` (it
has passed and will create its session), and the four operations that bump the token
version. `attempt_login` is up to four steps: `LoginReads` is the SELECT, `Renew` the reset of an expired lock
with its own commit, then `Wrong` or `Right`, and `Enter` the session. A failed attempt writes the
count it has read plus one, a reset writes the columns that differ from what it has read; a bump
writes the version it has read plus
one. `sess[i].ended` and `job[w].ended` record whether a bump came since the login read
the row; `raced` records which operations of one kind ever overlapped.

`BumpsHold` and `SuperLeft` hold while no two bumps of one admin, or no two
deactivations, overlap. `LockHolds`, and the bound on the count of failures in `TypeOK`, hold while no
login finds an expired lock beside another login of the same admin: otherwise the
reset may come after failures that have counted to the limit again, and it lifts their lock, or leaves
the count at the limit without one. All conditions are needed, see the counterexamples.

## Module `OneTimeStores`: delivery of a private key

`pending` holds the two dicts of `create_app`, `token` the newest QR link, `job` the requests in
the middle of a store, a sweep, a download or the delivery page, `delivered` how often a
key has reached somebody. Dictionary operations are atomic, a sweep is a scan followed by
single deletions, and a scan that meets a changed dict raises (`SweepFails`). `Restart`
empties everything.

`KeyInOnePlace` follows each key from the request that made it to at most one
download. `KeyCustody` is the abstract promise, on one variable for where each key is: it is made,
waits in the store for at least its time, is taken by one request, and is delivered or lost; nothing
brings it back, and only the end of the process loses a key that could still be fetched.
`KeepsCustody` is the refinement, with `StageOf` as its mapping.

## Module `BulkImport`: CSV imports and bulk reissue

| Variable | Code |
|---|---|
| `people`, `linked`, `devices` | `Employee.status`, the department's link with the role, the devices made for each row |
| `certs`, `active` | rows of `certificates`, and those that are active; the others are suspended or revoked |
| `orphans` | files in `pki/issued/` without a row |
| `lock` | `.pki.lock` |
| `preview`, `batch` | the two stores: a file's rows, and a result with its ZIP |
| `job` | requests in the middle of a confirmation, a reissue or the issue form |

The confirmation of devices holds the PKI lock for the whole file, and each row is the steps
`LoadRow`, `Register` (which commits the device), `CheckName`, `Sign` (which commits the
certificate) and `Report`, which puts it into the result and its key into the ZIP.
`RowFails` may come at any of them, so a row can fail with its certificate committed, and also after
it was reported as done. The reissue takes the lock row by row; `ReissueRaises` ends it wherever
something other than the one exception it catches is raised, also after a commit. `Entry`
is the name of a ZIP entry: for a device it begins with the employee's display name, which two may share, for a reissue
it is the common name; of two entries with one name the last is left after unpacking.

Beside them run the issue form, suspensions, revocations and what takes them back (`Deactivate`,
`Reactivate`: any status after any other, with no look at the name), an offboarding, changes of department links, the import of files
that have no row, and restarts, which may leave such a file. `_set_status` works on any certificate;
the model uses it on the names of `Singles`, a bound.

`ResultIsTrue` speaks of a result as long as it is offered: a row reported as done has its
certificate, and the key of every certificate of the batch is in the ZIP, but for two cases it names, a row
reported as failed after its commit and an entry overwritten by a later one of the same name. A
reissue that is ended by an exception has no result at all; that its keys are lost is `BulkSink`.
`NameOnce` is an action property: batches and the form never add a certificate to a name in
use. That a name never has two active certificates is not true of the code, since reissues,
imports and the end of a suspension do not look.

## Module `ServerCert`: a site's RADIUS certificate

| Variable | Code |
|---|---|
| `minted`, `newest`, `aged` | server certificates by serial with the request each was signed for, `site.server_cert_id`, and which are past `renewal_due` |
| `call` | the handler of the renewal request at each of the two hub addresses |
| `key`, `cert`, `chain` | the three files in `CERT_DIR`; of the chain, whether it is whole |
| `loaded`, `up` | the pair FreeRADIUS uses, and whether it runs |
| `missed` | history: a rollback's own reload failed, and none has worked since |
| `agent`, `backup`, `got`, `tries` | the place in `renew_server_cert` and `_install_with_safety`, `InstallState`, the answer, the fresh key |
| `faults`, `deaths`, `scar` | bounds, and whether a death tore the certificate or the chain, or a rollback was cut |

The installation's steps are single actions (`WriteKey`, `WriteCert`, `WriteChain`, `Check`, `Reload`,
`Look`, `RestoreKey`, `RestoreCert`, `RestoreChain`, `Reapply`), and `Dies` may come between any two, with or
without the box, and with or without a torn file. A failed command may have done its work: a reload that is
reported as failed may have loaded the new pair, and the is-active test may fail while the service
runs with it; the rollback's restores and its reload then follow, and nobody looks at the
result of that reload. A write that fails in the rollback as well (`Cut`) ends the pass with a torn
file. `CrlInstall` and `AdapterInstall` are other installations
of the same agent, as far as they reload or restart the service. What a reload and `freeradius -XC` do is
taken from how the agent uses them: the check fails on a torn file and on a key that is not the certificate's,
a reload works on a running service and loads what is on the disk. The box has a chain file before its first
renewal, and the chain is the same in every answer.

`ServesDisk` has its two exceptions in its statement: a rollback that was cut, and, for what the
service serves, a rollback whose own reload failed. The latter leaves the old files on the disk and
the new pair in the service, until some reload works.

`MismatchHeals` is what the order of two dictionary entries buys: the key is written first, so
a box left between the writes still reports the old serial, and gets a new pair. With the
other order it would report the new one for months.

Known gaps, visible in the model and excluded by the properties' conditions: a torn
certificate, or one whose serial the hub does not know, is never due. A death in the write of the chain
leaves the new key and certificate, which are not due, and a chain that makes `freeradius -XC` fail:
every later installation is rolled back, the CRL's included, and nothing renews the files until the certificate comes due.
A death inside a rollback, or a rollback whose own write fails,
may leave the new certificate with the old key, which is not due either. A service that is down with files that are not sound
stays down, since every renewal reloads, the reload of a stopped unit fails, and the rollback
restores them. A renewal that is rolled back leaves `server_cert_id` at a certificate
no box serves, and the fleet view shows its expiry: `HANDOFF-FLEET.md:230` expects the failure to appear there.

## Runs

| Run | Question | Result |
|---|---|---|
| `PolicySync` | type, lease, record files, acknowledgement, regress, refinement, under all interleavings, with one fault | holds |
| `PolicyCatchUp` | liveness of the pull, with two faults, no admin at the forms | holds |
| `CrlDelivery` | registry covered, push delivered or loud; one request, the timer, a failed command, a death | holds |
| `CrlPull` | the agent repairs the live file; the timer's pushes, one failure, one timeout, one death | holds |
| `CrlSilentLoss` | a timed-out push is loud | **violated** |
| `CertRegistry` | owners on record, no second active certificate from a form, offboarding sweeps, every complete file gets a row; two requests, a starting process, a death | holds |
| `SiteAccess` | adapter and hub agree, blocks survive, tenants are isolated; one role, three admins who overlap | holds |
| `TenantRegistry` | references hold and stay in one tenant; two tenants, two requests that overlap | holds |
| `AdminAccess` | bumps end logins, locks hold, a superadmin is left, each but for a named overlap; two superadmins, two requests | holds |
| `OneTimeStores` | a key is in one place, and the stores implement `KeyCustody`; two certificates, two requests, sweeps, a clock, restarts | holds |
| `BulkImport` | no row twice, no batch or form takes a name in use, results true; one file of devices, one reissue, the form, two requests | holds |
| `ServerCert` | the files are sound or renewed, the service serves them, requests are signed once, renewal completes; faults and deaths at every step | holds |

Bounds. A race for a revision number needs two publishers: there are always three
(an admin, the timer, the pull handler), and the revisions are bounded so that two
publish after the first one. One binding and the Site row are enough for the
properties, which speak of one object each; one edit per object gives an old and a new
version. The lease is two clock units and the refresh threshold one, so that a
policy is fresh, due and expired within three units, and the boundary `<` against `<=`
is met. `PolicyCatchUp` has eight revisions, more than the faults and the leases can
use up. In `CrlDelivery` two workers push at the same time and each makes two
attempts (the code has three: one to repeat after, one to end with); the stamps are
as many as there are files that can hold a CRL, so identity is never confused.
In `CertRegistry` two forms ask for the same name, one for a device of the employee
and one without; two certificates are enough for a predecessor with its successor and
for two actives under a name, two requests for an issuance or a second offboarding
against an offboarding, and the starting process comes on top.
In `SiteAccess` one role is enough because bindings of different roles never meet in a
decision; two VLANs and one number beyond each end meet the boundaries of the range; a tenant with the
role and one without, and the platform, are the three kinds of actor. `TenantRegistry` has two
roles of one tenant (a device can move between them) and one of another (a link can go
wrong), one of everything else, and two requests, since each property relates one check to one write. `AdminAccess`
has the two superadmins that can remove each other, one session id (a second one adds only
independent sessions), a lockout after two attempts and one bump for each admin.
`OneTimeStores` has as many units of time as an entry needs to become stale and
more; `BulkImport` a file of devices of two employees with one
display name, so that entries of its ZIP collide, a form for a name of the file, and a reissue of any
certificates; the form's names are also those that are suspended, since a status change only matters to who looks for that name. `ServerCert` has three faults and two deaths, and as many renewals as these can
spoil and some more; `Spare` names the bound, so that liveness does not fail for want of serials.
Symmetry is used where requests, serials, roles or superadmins are interchangeable, in runs of
invariants and action properties only.
Deadlock is checked in the CRL runs; the other systems may come to rest: when the clock, the
revisions, the serials or the rows of a file are used up.

Fairness. `PolicyCatchUp` assumes that the refresh timer (every four hours) and
the agent's timer (every hour) fire again and again and that a running process gets
on; `CrlPull` that a push that runs gets on and that the agent's timer fires; `CertRegistry`
that an issuance gets on and that processes start again and again, which
`deploy/fleet_watch.timer` provides every 15 minutes (each runs `create_app` and with it the
import) and each finishes; `ServerCert` that the agent's timer fires, that an answering handler and
the steps of a pass go on, and that a new CRL comes daily (`deploy/crl-refresh.timer`), whose
installation reloads the service: only this makes a running service take a pair that was
written before a death. Nothing is assumed of adapter updates. Nobody
has to edit or revoke anything, the daily CRL timer need not fire, and faults are
never required. `CatchesUp` has one exception, an empty revision file: a crash
between truncating and writing `policy_revision.txt` leaves one, and `int("")` then
rejects every later policy until somebody repairs it. `EventuallyRecorded` has a
similar exception: a `.crt` file torn by a death is not caught by the import, so every later
start ends with an error, the timers' scripts included. `PullRepairs` speaks of the
file, not of the running CRL: an agent killed between the write and the reload is not
noticed by the next check-in, which compares hashes of files.

## Where code and documents disagree

`CrlSilentLoss` is a run: an scp or ssh that hangs raises `TimeoutExpired` through `push_crl` and
`push_with_retry`, and the thread ends without retry, audit row or alert, while `crl_health.py:4` says
a push failure must be loud.

Further configurations, outside the runs, each lead TLC to a counterexample. Each states what a
document or a comment says and is run with the MC module of its component, for example
`tlc -config PolicyRegress.cfg MCPolicySync`.

| Configuration | What is said | What the code does |
|---|---|---|
| `PolicyApiEdit` | every mutation publishes at once (`deploy/STAGING-READINESS.md:49`) | the JSON API's state endpoints commit and publish nothing; the lease still bounds the delay |
| `PolicyRegress` | the segmentation switch is "published immediately" (`web_sites.py:154`) | a publisher that loaded the `Site` row before publishes a later revision with the old switch, until the next refresh |
| `PolicyUnchecked` | `freeradius -XC`, and only then install (`deploy/agent/README.md:10`) | the live file is written, then checked |
| `CertForgotten` | certificates are never deleted (`retention.py:9`) | a forced deletion removes rows of revoked certificates; the CRL forgets them and the next start imports their files as active |
| `CertUnrevoked` | revoking is permanent (`cert_detail.html:49`) | unsuspending a revoked certificate makes it active |
| `SiteEmptyList` | an empty allowlist withdraws all bindings (`site_policy.py:209`) | so at the site; the hub's `resolve_binding` skips an empty list |
| `TenantOrphans` | deleting a subsidiary never orphans data (`network_policy.py:203`) | an issuance that has read the device writes its certificate after the deletion |
| `TenantGrants` | grants on the existing and the new role (`device_service.py:270`) | only the new role's grant is looked for |
| `TenantHistory` | an unforced deletion refuses with device history (`employee_service.py:411`) | a device registered after the look goes with the employee's row |
| `StoresLockstep` | the password is dropped in lockstep (`main.py:210`) | each store is swept only by writes to itself |
| `StoresReload` | the page works until the download (`web_certs.py:431`) | a download tried too early removes the password that is stored in the meantime |
| `AdminLockLifted` | a lock lasts fifteen minutes (`auth.py:30`) | a login that read the previous lock, expired, commits its reset (`auth.py:182`) after new failures have locked the account, and lifts that lock |
| `BulkOrphan` | each device gets a certificate (`bulk_network_service.py:323`) | the device is committed first and stays when the certificate fails |
| `BulkLeaver` | no device for an offboarded employee (`device_service.py:171`) | a later row sees the status the session loaded for an earlier one |
| `BulkSink` | a failure does not block the rest (`tests/test_bulk_renew.py:134`) | a lock timeout ends the batch, and the keys already made are lost |

The conditions in `BumpsHold` and `SuperLeft` say where the same kind of thing happens with
admins: two bumps that overlap store the same version, and a login between them outlives both,
although `db.py:494` says it cannot; two superadmins who deactivate each other at the same time
both succeed, although `web_admins.py:95` keeps the last one.

## Proofs

Every safety property and every action property that the passing runs check is proved for
every value of the constants, in a module per component: `PolicySyncProofs`, `CrlDeliveryProofs`,
`CertRegistryProofs`, `AdminAccessProofs`, `OneTimeStoresProofs`, `BulkImportProofs`,
`TenantRegistryProofs`, and `SiteProofs` for the two models of a site's server, `ServerCert` and
`SiteAccess` (whose definitions are called `AccessInit`, `AccessNext` and so on, so that one module
can extend both). Each proof is an inductive invariant, one lemma for each action or group of
actions, and then the theorems `Spec => ...`.

The assumptions are the named ones of the models and no others: bounds are naturals, names and
marks are distinct (also: no batch is called "form", `RowsAssumption`), and two sets are finite,
because something in the code counts them: the pending entries that a sweep iterates over
(`SerialsAssumption`) and the active superadmins that `_active_super_admin_count` counts
(`SupersAssumption`).

* `LeaseInv` (types and `LeaseBoundsStaleness`). A row or draft is *fresh at its time of issue*:
  the first edit it lacks was committed then or later. Freshness is preserved because
  time does not pass inside a publication; it follows every policy into `live` and
  `backup`, which hold published rows or no policy.
* `NumberInv` (`BindingsNeverRegress`). Numbers are used once and without gaps, so a
  publisher that has read number n compiles after every row below n was compiled.
* `RecordInv` (`NotModifiedIsIntact`, `InstalledStatusIsTrue`, `OkPassAgrees`). A recorded hash or
  a positive acknowledgement describes the live file, or a newer revision exists; this
  is what survives a crash between two of the three writes and a rollback. The same
  invariant gives `Implements`: every step is a step of `PolicyView` or a stutter.
* `LockInv` (`RegistryCovered`). Whoever regenerates holds the lock, so the rows it has
  read are still the registry's; a torn `crl.pem` has a writer, or its writer died.
* `PushInv` (`DeliveredOrLoud`). Until the server has and runs with `crl.pem`, or an alert was
  sent, some push is *responsible*: it has not yet read back the hash, or holds the
  hash of the present live file. The last responsible push either finds the hash equal
  or fails loudly, and a live file that differs from the running CRL has a push that
  has yet to reload.

* `JobInv` (types, `OwnerKnown`). Whoever signs holds the lock, and the file of its serial is
  yet to be made; an import works on complete files. So there is one signer, and a row is
  changed by a commit, an import, a status change or a deletion only, of which the first
  two never touch a row that exists.
* `CheckInv` (`NoSecondActive`). While a form's request holds the lock, the only active
  certificate of its name that can appear is an imported one: reissues and status changes wait for the
  lock and deletions only remove.
* `SweepInv` (`SweptOnOffboarding`). Each usable certificate of an employee whom
  some offboarding is sweeping is still on that sweep's list, or is `late`; this holds for every
  concurrent offboarding of the employee separately.

* `AccessInv` (`SiteAccess`). Types; a binding's role exists; a request that will
  change a platform switch is the platform's, and one of a tenant writes a row of that tenant; the row a
  request has read is still there. `AdapterAgrees` then needs no more of the history than the types:
  `DecisionsAgree` compares the two decision procedures case by case. `BlockSurvivesOverlap` and
  `TenantIsolation` follow from what `Merge` writes and from whose request it is.
* `Inv` (`ServerCert`). `Pair` says what key and certificate are at each place of the pass: the key is the
  saved or the new one, the certificate the saved one, which is due, until the key is the new
  one. `Chained` says that the chain is whole outside of a rollback, and saved whole, as long as there is no scar.
  So a death in the pass leaves files that are sound or the due certificate, unless it tears
  the certificate or the chain or cuts the rollback (`MismatchHeals`). `Serving` says, while nobody has died and no
  rollback was cut, that the saved pair matches; then the rollback's reload, if it works, loads what is
  on the disk, whatever the service had loaded before, and if it does not, `missed` says so
  (`ServesDisk`). `Ledger` says that a handler that has signed has signed the present request
  (`SignedOnce`, and that the answer's certificate fits the new key).

* `TenantInv` (`ReferencesHold`, `TenantsApart`). A request may hold what it has read for as long as
  it likes: rows go away meanwhile, which the foreign keys notice at the write, but a row's
  subsidiary never changes. So what was compared before is still equal (`RequestsApart`), and a device's own
  column says the subsidiary of its owner (`OwnSubsidiary`). The latter made the model more exact:
  with device ids that are used again across subsidiaries, as the model had them at first, an
  update that has read the old row could write the new one, and `TenantsApart` failed.
* `AdminInv`. Rows of admins stay (`RowsStay`). While no reset of an expired lock has overlapped a
  login of the same admin, the row is as the request that resets it has read it (`RenewalsAlone`), and a row at the limit of attempts has a lock
  (`AttemptsLeft`), from which `LockHolds` follows: a login that overlaps can only raise the count.
  While no two bumps of an admin have overlapped, a bump in progress has the version of the row, and
  whatever a bump has ended is behind it (`VersionsInOrder`, for `BumpsHold`). While no two
  deactivations have overlapped, the one in progress leaves another superadmin (`OneStays`, for
  `SuperLeft`). The conditions are in the properties, and the code breaks the properties without them.
* `StoresInv` (`KeyInOnePlace`, `KeepsCustody`). Keys exist of certificates that were issued
  only (`KeysAreIssued`), so no second request makes the same one. An entry that a scan has found
  stale stays stale until its deletion, because nobody will put that key into the store
  again (`StaleForGood`): this is why a sweep may delete without looking again. The invariant makes the
  tests of `StageOf` exclusive (`Stages`), and then every step is a step of `KeyCustody` or a
  stutter (`CustodyStep`): a step of a request moves at most the key it has in hand or takes (`Stays`).
* `BulkInv`. `JobOK` says of a request what it relies on: it holds the lock; the rows it has left
  have no device, and the row it is at has at most its own; while it is about to sign, only an
  imported certificate can have the name; its result tells the truth of the rows it has done (`TrueIn`), and the
  certificate of the row that is signed and not reported is the only one it does not tell of (`Untold`).
  `OneJob` and `NotBegun` say that a preview and a batch belong to one request, before it to
  nobody. A step of another request keeps all this if it is `Calm`: it leaves the files and batches
  of other requests alone, and activates imported certificates only, unless the lock is free or its own (`OthersOK`). `ResultIsTrue` survives what happens to certificates afterwards because it asks what was issued, not
  what is active. `NameOnce` follows step by step: the three actions that add a row of a batch or the form
  come after the look and under the same hold of the lock (`NamesFree`), and whoever takes a suspension back waits
  for the lock.

Only model-checked: `CatchesUp`, `PullRepairs`, `EventuallyRecorded` and `RenewalCompletes`, which
are liveness under fairness, out of the prover's reach as everything that needs ENABLED. Facts
about the least row of a file (`FirstIsIn`) come from the well-foundedness of `<`, not from
induction, which the provers cannot instantiate.

## Plan

Done: the nine components above with their models, runs and proofs of safety. Next: more of what
the models promise to each other, such as the registry's reading of `CrlDelivery`'s rows and the registry's part in
`ServerCert`'s serials. Not planned: rate limits, site registry, fleet monitoring, retention, renaming of
companies (an admin's scope is a display name, resolved at each request) and the parts the table calls not modelled.
