# The SECURED App in TLA+

A verification development of the SECURED App for Linux: the Python
application a user runs to connect and log in to a NED (a network edge device),
and the IKE daemon charon under it, with the plugin that attests the NED
remotely before and while a connection to it is up.  The modules here are
translated from the source; TLC checks them on small instances, and TLAPS proves
the theorems of the `...Proofs` modules for every instance.

## The system

Two programs run on the user's machine.

**The application** (`gui/client_main.py`, `gui/client_sec.py`,
`gui/MobilityClient.py`, `gui/IWList.py`) is a Qt program: one main thread with
an event loop, and worker threads that emit signals, which Qt queues for slots
of the main thread.  A modal dialog runs a nested event loop inside the slot
that opened it, so slots run inside slots.

**charon** (`strongswan-5.3.2`, vendored, plus the plugin
`plugins/oat_attest`) keeps the IPsec tunnel.  The application starts scripts
(`ipsec up`, `ipsec down`) that talk to it, and is told nothing by it.  Both ask
the same verifier, independently of each other, whether the NED is trusted.
charon is a pool of worker threads that take jobs, and a bus on which whoever
changes an IKE_SA tells listeners of it.  The directories `sa/` of charon (the
IKE_SA manager, tasks) and `libstrongswan` (processor, settings) are not in the
repository.

| Component | State | Operations | Talks to | Modelled |
|---|---|---|---|---|
| Attestation plugin, `oat_attest_listener.c` | the setting `known_cert_digest`, the static `current_id`, per job a count of unknown verdicts | `authorize` (a hook of the bus), `oat_attest_request`, `attest_request` (a job), `destroy_hostdata` | bus, processor, controller of charon; verifier; the user, through stdin | `OatAttest` |
| Controller, bus, stroke clients: `controller.c`, `bus.c`, `stroke_control.c`, `stroke_socket.c` | the struct of a call with its count of references, listeners and loggers, worker threads, the mutex of the bus | `initiate`, `terminate_ike`, `terminate_child`, their jobs, `ike_state_change`, `child_state_change`, `authorize` | stroke clients, processor, IKE_SA manager | `Controller`; the mutex over `authorize` in `OatAttest` |
| Receiver, `receiver.c` | secrets of cookies and their times, counts of half-open IKE_SAs and jobs | `cookie_required`, `cookie_verify`, `drop_ike_sa_init`, secret change | peers, processor | `Receiver` |
| Fragmentation, `message.c` | the message under reassembly | `fragment`, `add_fragment` of both versions, `reset_defrag` | peers, the owner of the message | `Fragments` |
| Virtual IP pools, `mem_pool.c`, `stroke_attribute.c` | leases online and offline, addresses used | `acquire_address` (three operations), `release_address` | IKE_SAs | `MemPool`, an implementation of `AddressPool` |
| High availability, `ha_segments.c` | segments a node serves, `heartbeat_active` | `take`, `drop`, `status`, watchdog, heartbeat, fifo, shutdown | the other node, over a lossy socket | `HaSegments` |
| Attestation thread of the application | `trusted`, `validate_time` | `run`, `issuePollAttestation`, `stop` | verifier; signals `onAttestation` | `NedAttestation` |
| Attestation slot, tunnel, end | `attestation_warning_shown`, the icon, `active_ipsec_connection` | `onAttestation`, `makeIPsecConnection`, `closeIPsecConnection`, `closeEvent`, `quit()` | user, scripts | `NedAttestation` |
| Login session | `user`, `status`, labels, the request thread's `user`, `pw`, `r` | `login`, `handleLoginStatus`, `logout`, `tryLoginPage` | NED, user | `LoginSession` |
| PSA list and events | list widget, `index` | `issuePollPSC`, `PsaEventThread.run`, `terminate()` | PSC on the NED | `LoginSession` |
| Mobility client | `lock`, `stop_mobility`, `migrating`, `wifilist`, timers | `start`, `stop_m`, `reportAPs`, `getIWlistSignals` | PSC, NetworkManager, the tunnel operations above | `MobilityClient` |
| Scan parser, `IWList.py` | none | `parseRawData` | `iwlist` | what a scan ends with, in `MobilityClient` |
| Windows, buttons, settings | | | | no state machine of their own |
| Rest of strongSwan | | payload encoding, EAP, kernel interfaces, other plugins | | see *Not modelled* |

What makes these parts hard, and correct when it goes right:

* *Plugin.*  `authorize` of one IKE_SA, monitoring jobs of earlier ones and
  restarts of charon share the known certificate, the static id, the mutex and
  the worker threads.  Correct: nobody is let in whose certificate the verifier
  did not trust; whoever is in is watched; the user is asked on the right
  verdicts; nothing waits for ever.
* *Attestation slot.*  Polls, nested slots, logins and the end of the
  application share the verdict, the warning flag and the tunnel.  Correct: one
  warning per login; the icon ends up telling the last verdict; no tunnel is
  left behind that the application does not know of; a tunnel gets made.
* *Login session.*  A request thread whose fields are overwritten while it runs,
  a time-out that races an answer, dialogs in the failure path.  Correct: the
  user shown is the user the NED has logged in; logging out undoes a login.
* *Mobility.*  Timer threads, a lock tested before it is taken, flags that are
  never reset, a handover of several steps that may fail in each.  Correct:
  one handover at a time, a stop that stops, a failed handover that leaves the
  client able to do the next.
* *Controller.*  Caller, job and bus share a struct; callers are workers that
  sleep until other workers wake them; events name an IKE_SA where a CHILD_SA
  is meant.  Correct: the struct is freed once; what is reported is so; every
  call returns.
* *Receiver.*  Unsigned times of a hidden clock, secrets that change under
  cookies on their way, limits that count what is open and what is queued at different moments,
  and what is run at none.
  Correct: no old cookie is accepted, no young one refused; a bound on what is
  half open.
* *Fragments.*  Any order, any repetition, several splits, 8-bit numbers.
  Correct: a message comes out whole or not at all, and does come out.
* *Pools.*  A client is served in three passes over the pools, one mutex each.
  Correct: an address has one client at one host; leases are kept; nobody is
  refused while there are addresses.
* *Segments.*  Two nodes over a socket that loses and reorders, crashes, a
  watchdog that is restarted while it ends.  Correct: in the end each segment
  has one node, and each node is watched.

## The modules

| Module | What it is |
|---|---|
| `OatAttest` | the plugin, the mutex of the bus, worker threads, `terminate_ike`, restarts; its properties |
| `WatchedPeers` | what attestation promises of connections and watches, implemented by `OatAttest` |
| `MCOatAttest` | chains of certificates and the symmetry of NEDs, for TLC |
| `NedAttestation` | the application without mobility: attestation thread, slots, tunnel, end |
| `LoginSession` | login, logout, the list of PSAs and their events |
| `MobilityClient` | the application with mobility: chains of reports and scans, handovers, stop, the tunnel, end |
| `MCMobilityClient` | entries of `gui.conf` for TLC: a connection for each access point, or an entry for one of two |
| `Controller` | synchronous calls over jobs and events |
| `Receiver` | cookies and limits |
| `Fragments`, `MCFragments` | fragmentation of IKE messages; lengths for TLC |
| `AddressPool` | what a pool of addresses promises |
| `MemPool`, `MCMemPool` | the pools in memory and the passes over them, shown to implement `AddressPool`; two pools for TLC |
| `HaSegments` | the segments of a cluster of two nodes |
| `OatAttestProofs`, `NedProofs`, `LoginSessionProofs`, `MobilityProofs`, `ControllerProofs`, `FragmentsProofs`, `MemPoolProofs` | the inductive invariants and the theorems |
| `NetworkProofs` | the same of `Receiver` and of `HaSegments`, both of which it extends |

The modules of the application share no variables: each has the part of
`client_sec.py` that its properties speak of, and takes what the others do to it
as actions that may happen at any time (a login is the reply of status 200 in
`NedAttestation`; the tunnel is made by `onAttestation` in `MobilityClient` once
mobility is off).  `OatAttest` and `Controller` overlap in `terminate_ike`,
which the plugin calls without a listener, as the job alone.

### `OatAttest`

An IKE_SA is its unique id, a number handed out in order.  A certificate, its
SHA1 digest and its common name are one value, the NED: the code derives the
last two from the first and compares nothing else.  The monitoring job that
round `r` of IKE_SA `s` may queue is `<<s, r>>`; the code queues at most one.

| Variable | In the code |
|---|---|
| `saState`, `chain` | the IKE_SA in charon; the certificates of its authentication rounds |
| `known` | setting `known_cert_digest` (in memory; nothing writes it to the file) |
| `currentId` | the static `current_id` of `authorize` |
| `busOwner` | who holds the mutex of the bus (`bus.c` 881 to 903) |
| `round`, `knownRead`, `success`, `fetching` | locals of `authorize` and of its caller |
| `jobPc`, `count`, `target` | locals of the jobs and of `terminate_ike` |
| `answer`, `log` | history: what the verifier said of each round, a job's last three verdicts |

One action per step between two places where another thread can get in:
`AuthorizeBegin` takes the mutex and reads the settings; `AuthorizeKnown` or
`AuthorizeRequest` handles a round; `AuthorizeTrusted` or `AuthorizeDoubted` is
the answer with everything the code does on it (the known certificate, the
success flag, the queued job); `AuthorizeEnd` releases the mutex.  A job starts,
sleeps, fetches (`JobVerdict` holds the count and the condition of the loop),
prompts, terminates, and is freed.  `JobFrees` is undefined behaviour in the
code, `free` of a static variable: the model lets `currentId` take any value
afterwards, and `CharonRestarts` covers an allocator that aborts.
`CharonRestarts` also stands for `gui/ipsec`, which kills charon with -9, and
may happen anywhere.

`WatchedPeers` is the promise without the plugin: connections, the NED each is
to, and watches.  It has no known certificate, no mutex, no counter and no
threads.  The refinement mapping makes a job a watch (it watches until the
prompt, is alarmed until it is freed), takes the doubts of a watch from what the
verifier said (`log`) and not from `count`, and calls vouched for whoever a job
was queued for.

What it abstracts: the JSON of requests and answers, the choice of the verifier,
`oat-attest.data`, the IKE protocol.  A peer authenticates with a chain from
`Chains`; the verifier answers anything at any time.  Reads and writes of one
setting or static are single steps.

### `NedAttestation`

| Variable | In the code |
|---|---|
| `att`, `trusted`, `validateTime` | `AttestationRequestThread`; `answered` is between its lines 830 and 833 |
| `queue` | the events Qt has queued for the main thread |
| `stack` | the slots under way, innermost first, each by the line it is at |
| `warningShown`, `shown`, `active` | `attestation_warning_shown`, the icon, `active_ipsec_connection` |
| `closed`, `quitting`, `exited` | `closeEvent` accepted, event loops told to return, process gone |
| `tunnel`, `downs` | in charon: tunnel up, `ipsec down` processes running |
| `verdicts`, `lastVerdict`, `warned` | history |

`onAttestation` is taken apart where an event loop or an external command runs
inside it: at the warning, at line 558, in `subprocess.call`.  An action whose
guard is `Takes(e)` is possible whenever the main thread is in *some* event
loop, so a second verdict is handled while the dialog of the first is open.
`QApplication.quit()` is the reason for `quitting`: it marks the loops and
returns, and the slot that called it goes on.

What it abstracts: the slot reads `trusted` and `validate_time` in one step
(three reads in the code, without a loop or a wait in between); `logout` in the
two closing paths changes nothing this module has; the scripts can be started
(no `OSError`); login dialogs and boxes of the PSA events are event loops like
that of the main window; a login is its reply of status 200.

### `MobilityClient`

| Variable | In the code |
|---|---|
| `pc`, `goal` | where `reportAPs` stands in each chain; the `bssid` of its order |
| `lock`, `stop`, `migrating` | `self.lock`, `stop_mobility`, `migrating` |
| `scan`, `listed` | the chain of `getIWlistSignals`; whether `wifilist` has an entry |
| `main`, `fresh`, `mainArg` | the main thread: in its loop, in `start()` of chain `fresh`, in `makeIPsecConnection`; the access point or the connection it holds in a local |
| `useMobility`, `active`, `ipsecName`, `currentAP` | the fields of the application |
| `tunnels`, `downs` | in charon, as in `NedAttestation`, by connection |
| `switched`, `failed`, `unclosed`, `misread` | history: mobility was switched off; the last handover, or the start, failed and left no connection; connections whose last `ipsec down` could not be started; `currentAP` is from a stale reading |

Each `start()` begins a chain: `reportAPs` and then `getIWlistSignals` run in
the main thread, and each sets the timer whose thread runs it next.  A chain's
program counter names the line it has come to; an action goes from one place
where another thread can get in to the next.  The lock is tested (`Checks`) and
taken (`Acquires`) in two steps, as in line 294.  `Leaves` is lines 334 to 347:
the tunnel closed, the association asked for, the entry looked up.
`makeIPsecConnection` is two actions, for the wait in `subprocess.call` and the
sleep before `active_ipsec_connection` is assigned; the main thread may be in it
at the same time, by `onAttestation`, once mobility is switched off.

The failures of a handover are part of it.  `DownFails`: `ipsec down` cannot be
started, a box is shown, and the connection stays the active one (client_sec 623
to 630).  `Leaves` may end at 358 after the close, by an exception of
NetworkManager (335 to 343) or the `TypeError` of a missing entry (346).
`UpFails`: `os.chdir` raises (client_sec 581), which ends the report, or the
script cannot be run, a box is shown, and the report goes on to record the access
point (587 to 591, 350).  `SlotUpFails` is the same in the main thread.  `Init`
has the start that failed likewise (client_sec 197 to 214).  What these leave
behind is in `failed` and `unclosed`.  With no active connection the message of
line 333 cannot be put together, so that no later order heals it: after a
failed handover reports go on and orders are refused.
  `start()` reads the access point and records it
up to ten seconds later (`Start`, `StartRecords`).  `CloseEvent` stops and
closes without waiting for a handover; `Exits` waits for the timers, as the
interpreter does.

What it abstracts: a timer that is set and a report that is about to look at
`wifilist` are one place; the signals a report carries; the permission to hand
over, which is only sent along; the boxes for a missing entry and for scripts
that cannot be run, which the code opens from a thread that is not the main one,
are taken to return; the type of a device, read at 330, can be read again at
219.  An access point read by
`start()` may be any: the Wi-Fi may have roamed.

### `LoginSession`

| Variable | In the code |
|---|---|
| `req` | `RequestTaskThread`: where it is, `user` and `r`, and the `user` its request was sent with |
| `page`, `psc`, `ev` | `LoginAvailableTaskThread` with `status`, `PSCCommunicationThread`, `PsaEventThread` with `index` and the events it holds |
| `queue`, `stack` | as in `NedAttestation`: signals, and slots under way |
| `user`, `status`, `list` | the label of the user, `self.status`, the list widget |
| `ned`, `late` | external: who is logged in at the NED, what it may still carry out |
| `astray`, `straggled`, `lost`, `told`, `dropped` | history, for the exceptions that the properties name |

`login()` overwrites the fields of a thread that may be running (`Login`), and
`start()` of a thread that runs does nothing (`Started`).  `handleLoginStatus`
is taken apart at its boxes and dialogs, in whose loops the user and further
signals act.  A request that times out may be lost, on its way, or already
carried out (`late`, `NedTakesLate`).  `exec_()` of a dialog that is open
already returns at once.  A password is part of its user; the contents of list
and events are left out.

### `Controller`

| Variable | In the code |
|---|---|
| `request`, `pc`, `late`, `report` | a call, its thread in `wait_for_listener`, whether its wait timed out, what it returned |
| `job`, `refs` | the job of the call, `refcount` |
| `status`, `done`, `target` | `listener.status`, the semaphore, `listener.ike_sa` |
| `listening`, `logging` | the lists of the bus |
| `spared` | history: calls that survived the failure of a retried CHILD_SA |
| `ike`, `holder`, `child`, `childOf` | external: the IKE_SAs and CHILD_SAs, who has one checked out |

Each call is a stroke client, whose worker thread executes it
(`ClientServed`, `IdleWorker`); its job and every event of an IKE_SA need
another.  `FreedWhenUnused` needs the two references of `RefsTaken`.  Every
listener of the IKE_SA of an event is concerned, whatever its CHILD_SA: that is
how the code has it.

### `Receiver`

The variables have the names of the fields of `private_receiver_t`, next to the
counts of what is half open, run and queued, in all and of each peer.  The
receiver is one thread, and `drop_ike_sa_init` is taken apart where it counts:
`Counted` reads what is half open (329) and `half_open` keeps it for the
comparison at 383, `ChecksPeer` counts the peer's (374), `ChecksLoad` the queued
jobs (397 to 400), `QueuesJob` is the end of `receive_packets`.  Between any two
of them workers take jobs (`JobStarts`), which are then in no count until their
IKE_SA is there (`JobOpens`, or there comes to be none), and IKE_SAs end.  The
receive delay (562 to 577), which is 0 unless configured, is not modelled: with
it requests wait in the scheduler, which no limit counts.  The hash of a
cookie is a record of what it is computed from.  Numbers have the width of
`u_int32_t` (`Width`, smaller in the run), and the hidden clock starts at an
offset, so that the subtraction of the lifetime can pass zero.

### `Fragments`

`defrag` is the message under reassembly, with the fields of `fragment_data_t`
(`last`, `len`, the array as a set); `splits` are the messages that were sent in
fragments.  A fragment is its split and its place in it, and is received any
number of times or never.  `Receives` is `add_fragment` as a whole: the refusals,
the reset, the duplicate, the limit, the merge.

### `MemPool` and `AddressPool`

A pool's hashtable of entries is `online` (the array of online leases, by how
often it has an offset and a host) and `offline`.  `pc`, `op`, `at` and `wanted`
are where an IKE_SA is in the passes of `acquire_address` of the stroke plugin:
existing, new, reassign, each over all pools, with the mutex of one pool held
for one question.  `AddressPool` has one step for it: an address is given that
is new, one's own, shared with the same host, or, with none left, taken over.
The refinement mapping reads holders off `addr` and lessees off the leases.

### `HaSegments`

`run`, `active`, `beat`, `waiting`, `ending` are a node: its life, its segments,
`heartbeat_active`, its watchdog that waits and that has timed out.  `rearm` is
the dispatcher between the signal to the watchdog and the unlocked test of the
flag.  `channel` is the socket.  A node runs its dispatcher, its watchdog, and
what sends heartbeats and commands, in any order.  `HaInit`, `HaSpec` and the
like have the prefix of the code (`ha_`), so that one module can extend this one
and `Receiver`.

## What the runs show

Passing runs, with their bounds:

| Run | Bounds | Shows |
|---|---|---|
| `OatAttest` | 2 NEDs, 2 IKE_SAs of 1 round, 3 workers, fairness | `AuthorizedWasTrusted`; `AlarmIffDistrusted`; `MonitorDecides`; `AuthorizationDecided` |
| `OatAttestRounds` | 2 NEDs, 2 IKE_SAs of 0 to 2 rounds, 1 worker, symmetry | `EstablishedIsMonitored`; `KeepsWatch` |
| `NedAttestation` | 2 queued signals, 2 logins, fairness | `OneWarningPerLogin`; `LabelSettles`; `NoForgottenTunnel`; `UntrustedIsShown`; `TunnelIsRaised` |
| `MobilityClient` | 2 starts, 2 access points with a connection each, any step fails, 1 `ipsec down` of each connection at a time, 1 connection that could not be closed | `OneHandover`; `NoTunnelLeftBehind`; `LostOnlyByFailure`; `AttestedIsConnected` |
| `MobilityEnds` | 2 starts, 2 access points of which one has an entry, any step fails, fairness | `ReportsGoOn`; `CloseEndsTheProcess` |
| `LoginSession` | 2 users, 2 calls of `login()`, 1 event, fairness | `ShownIsLoggedIn`; `CanLogOut`; `NothingLeftBehind`; `EventsToldOnce`; `LoginIsOffered`; `ListIsFetched` |
| `Controller` | 2 calls, one with a time-out and a client that leaves, 2 IKE_SAs, 3 workers, 2 clients at a time, fairness | `FreedWhenUnused`; `ReportIsTrue`; `ClosedIsGone`; `EveryCallReturns` |
| `HaSegments` | 2 nodes, 2 segments, 2 faults or commands, 3 messages in flight, fairness | types; `OneWatchdog`; `EverySegmentServedOnce`; `WatchesAgain` |
| `Receiver` | 2 peers, 1 worker, limits of 1, lifetimes of 2, a clock of 4 s, 2 changes of the secret | `AcceptedIsFresh`; `FreshIsAccepted`; `HalfOpenBounded` |
| `MemPool` | 4 IKE_SAs of 2 clients at 2 hosts, a pool of 2 addresses (16/30) and one of 1 (26/30), symmetry | `NoHoarding`; `NobodyRefused`; `KeepsPromise` |
| `Fragments` | 3 messages, fragments of 3 lengths, 2 splits, 3 for `MAX_FRAGMENTS`, a packet of 5, both versions, fairness | `Intact`; `HeldIsBounded`; `Completes` |

Type correctness is a theorem of every module; one run checks it too.

The plugin:

* `AuthorizedWasTrusted`: an IKE_SA is established only with a NED the verifier
  has called trusted since charon started.  This is what justifies the shortcut
  for the known certificate (line 395), and it is weaker than a reader of the
  log message would think: not *in this connection*, and not *last*.
* `EstablishedIsMonitored`: the NED of an established IKE_SA has had a job
  queued for it, not necessarily by this IKE_SA.  It needs the known certificate
  to be lost together with the jobs when charon restarts.
* `AlarmIffDistrusted`: the counter of `attest_request` against the verdicts
  themselves.
* `KeepsWatch`: the refinement of `WatchedPeers`.  An IKE_SA becomes established
  in a step in which its NED is vouched for, though the code decides by a setting
  it read earlier; a watch goes on through the end of its connection, alarms for
  an untrusted verdict or the third unknown one, and ends only then; who was
  vouched for is forgotten together with the watches.
* `MonitorDecides`, `AuthorizationDecided`: jobs and authorisations end, though
  the mutex of the bus is held over requests and jobs keep their threads.

The application:

* `OneWarningPerLogin`, `LabelSettles`, `UntrustedIsShown`: the slots, in
  whatever way they nest, warn once and end up showing the last verdict.
* `NoForgottenTunnel`: with no tunnel recorded and no script running, charon has
  none.  (The converse is false by design: the status of `ipsec up` is ignored.)
  It is about tunnels nobody knows of, and not about one that is made after the
  end and recorded.
* `TunnelIsRaised`: a tunnel is made, provided answers come to carry their time;
  without `validate_time` each slot dies at line 520.
* `ShownIsLoggedIn`, `CanLogOut`: after a login or logout that was handled by
  itself, the label and the NED agree, and `logout()` asks the NED.  What can go
  wrong is in the history variable `astray`: a reply that was lost, a login
  refused with a user logged in, two operations that overlap.
* `NothingLeftBehind`: a logout leaves no list and no listener, unless a poll for
  the list was under way (692): its list is shown with nobody logged in, and its
  event thread started.
* `EventsToldOnce`: `index` outlives `terminate()`, so that events are not told
  again; those counted and not yet signalled are lost.
* `LoginIsOffered`, `ListIsFetched`: both rest on a `sleep` of 0.1 s (569) that
  lets a thread end before it is started again, and say so.
* `OneHandover`: the lock, tested before it is taken, keeps the chains apart.
* `NoTunnelLeftBehind`: every tunnel of charon is the active one, going down,
  being made, or one whose `ipsec down` could not be started, until mobility is
  switched off.  A tunnel that is made after `closeEvent` counts as the active
  one: the property does not say that it is closed.  (Switched off during a handover,
  the handover and `onAttestation` both make one, and one is forgotten.)
* `LostOnlyByFailure`: outside a handover the application is without a
  connection only when the last handover, or its start, has failed after the
  close: no entry, an exception of NetworkManager or of `os.chdir`, a script that
  cannot be run.  A handover that comes through, and one that failed before the
  close, leave a connection, whatever threads interleave.
* `AttestedIsConnected`: `currentAP`, by which the attestation thread names the
  NED, goes with the tunnel, also after orders that failed.  Its exceptions are
  what can go wrong: a tunnel that could not be closed, and a `start()` that
  records what it read before a handover (`misread`).
* `ReportsGoOn`: no answer, error or failed handover ends the reports.
* `CloseEndsTheProcess`: on three conditions, each of which the code fails to
  ensure: the PSC answers (`requests.put` has no time-out), scans end, and no
  migration was announced (`migrating` is never reset, and keeps the chain).

charon:

* `FreedWhenUnused`: the struct is freed by whichever of caller, job and bus is
  the last, with a time-out and a client that goes away.
* `ReportIsTrue`, `ClosedIsGone`: what a call reports is so, for calls that had
  their IKE_SA for themselves.  Two calls on one IKE_SA report each other's
  results, since the listener never looks at the CHILD_SA.
* `EveryCallReturns`: callers never use up the workers that must wake them,
  because `max_concurrent` is below the number of workers.  Without a time-out a
  call may wait for ever that survived a retry of its CHILD_SA which then failed
  (306 to 316).
* `AcceptedIsFresh`, `FreshIsAccepted`: cookies, through changes of the secret
  and the unsigned clock.  Three fresh ones are refused: of the second of a
  change, of two changes ago, and all while the hidden clock is younger than a
  lifetime.
* `HalfOpenBounded`: the limit of half-open IKE_SAs is passed by at most the limit
  of the queue, one, and the number of workers.  When a request is counted and
  comes to pass, one less than the limit may be open, one more than its limit
  queued (the test at 401 is `>`), each worker may run a job that no count has,
  and the request is added.  Only the receiver adds to the sum, so that it does
  not grow between the counts.  In the run the bound is reached: one less is
  violated.
* `Intact`, `HeldIsBounded`, `Completes`: one split is reassembled whole, with
  its payloads once; what is held is counted; repeated fragments complete it.
* `KeepsPromise`: the refinement of `AddressPool`.  `NoHoarding` and
  `NobodyRefused`: interleaved passes neither use up addresses twice for one
  client nor miss one that was there.
* `OneWatchdog`, `EverySegmentServedOnce`, `WatchesAgain`: after the last fault
  the cluster heals.  The exception (`blind`) is a node whose watchdog ended and
  that gives up a segment before it hears the other: it does not take it back
  when it is alone.

One run finds what a text of the repository says and the code does not do:

| Run | The text | The code |
|---|---|---|
| `ClosesTheCompromised` | "NED is compromised, close the connection" (listener 313) | closes the connection authorised last, to whichever NED |

### Other divergences met while modelling

No run is given to these; the models have them, and properties that come near
name them as exceptions or are stated so that they hold with them.

* "Cerficate is known, issue attestation request" (listener 396): none is
  issued, and a later round overrides the failure of an earlier one.
* Jobs pile up: each alternation between two NEDs queues one more, each keeps a
  worker thread while its NED is trusted (listener 302), and nothing but charon's
  end takes them away.
* "after attest start IPSEC to the trusted NED" (client_sec 204): any first
  verdict makes the tunnel (558).  After `quit()` the slot goes on, and makes
  the tunnel again that the user has just had closed (535 to 558).
* "The NED is not trusted!" (client_sec 535) may be shown for the reset of
  `trusted` between two polls (757).
* A handover under way when the window closes makes the next tunnel, which stays
  (client_sec 408).
* After a stop, the next start of mobility reports nothing: `stop_mobility` is
  never reset (MobilityClient 103).
* `controller.h` 79 says that `initiate` succeeds if the CHILD_SA was
  established; any CHILD_SA of the IKE_SA will do.
* A split of an IKEv2 message in fewer fragments than an earlier one is merged
  with it to a mixture, or never complete; a reset keeps the payloads that came
  with the first fragment.  All fragmented IKEv1 messages have the id 1
  (`fragment_payload.c` 219), count beyond 255 in 8 bits, and one whose merged
  header does not parse leaves an object that takes nothing more.

### Why these bounds

Two NEDs and two IKE_SAs are what it takes for the known certificate, the static
id and a job to belong to three different pairings; the proofs remove the bound
for the safety properties.  Three workers in the run with liveness are one more
than its two possible jobs: with as many workers as jobs, jobs that sleep for as
long as their NED is trusted leave none to authorise with, which is the hazard
at line 302 and not a fault of the property.  The run with one worker and
several rounds checks safety only.  In `NedAttestation` a queue of two and two
logins let a verdict be handled inside the dialog of another, with a login in
between that allows a second warning.

In `MobilityClient` a second start is what makes two chains meet at the lock and
a stop lie between them; a third adds no new pair.  Two access points with an
entry make a handover that changes the connection.  An access point without an
entry is in the run with liveness, next to one that has one: what an order for
it does to the tunnel is what an exception of NetworkManager does, which the
other run has at the same step.  The bound on `ipsec down` delays a handover that
would start a second one for a connection still going down; processes of one
connection differ in nothing.  One connection that could not be closed
(`MaxUnclosed`) meets, with two connections, each that can be closed; the proofs
are for any number.  In the run with liveness a handover may also come back to its
connection, since there is one.

Two logins of two users overlap in every way that a third could with one of
them; of requests given up the last one is kept.  Two calls of the controller
are as many as may meet on one IKE_SA and one for each of two, and three workers
are one more than the callers they may block, as `max_concurrent` has it.  The
receiver's clock runs for two lifetimes and its secret changes twice, so that a
cookie can be too old, and two changes old.  Limits of 1 and one worker are
enough for each of the counts to be passed while another is taken.  Four IKE_SAs against three addresses make
the third pass, and three of one client both ways to share (same host) and to be
refused it (another).  Two splits are what mixes; `MaxFragments` and `MaxPacket`
are small enough to be passed by one of them.  Two faults or commands allow a
crash with a restart, and a loss with a crash; more of them repeat these.

The runs of `NedAttestation`, `LoginSession` and `MobilityClient` are without the
deadlock check since the application ends, that of `Controller` since each of its
calls is made once, that of `Receiver` since its clock stops, that of
`HaSegments` since both nodes may be down.

### Fairness

`OatAttest!FairSpec`: each thread in `authorize` and each job is scheduled
(charon's threads are threads of the system, `sleep` returns, and
`FETCH_TIMEOUT` of 120 s ends each request).  One `WF` per IKE_SA and per job
suffices, since each has at most one thing to do.  Nothing is assumed of peers,
of the user at the prompt, or of restarts.

`NedAttestation!FairSpec`: the attestation thread and the main thread are
scheduled, a poll ends by its time-out of 5 s, `ipsec up` and `ipsec down`
return.  The user need not answer a dialog: the loop of the dialog goes on.

`LoginSession!FairSpec`: the thread that tries the page is scheduled (its request
ends after 0.5 s), and the main thread outside a loop (its request ends after
2 s).  Slots have `SF`: an event loop sends what is queued before it waits, and
the user, who may open and close dialogs for ever, cannot keep it from it.  The
user need do nothing.

`MobilityClient!FairSpec`: each chain's thread is scheduled, its timers fire,
`ipsec up` and `ipsec down` return, the main thread goes on.  The answer of the
PSC and the end of a scan have no fairness, since nothing bounds them in the
code; where a property needs them, it says so.

`Controller!FairSpec`: callers and jobs run; a CHILD_SA that is being made comes
to be installed or fails, one that is deleted is gone, an IKE_SA that connects or
is deleted ends, since retransmissions give up.

`HaSegments!HaFairSpec`: the threads of a node run, heartbeats are sent, what is
sent arrives unless a fault takes it, and a watchdog times out when the other
node is down.  Faults are finitely many, so the properties are of the form "in
the end".

`Fragments!FairSpec`: each fragment that can be received is, again and again,
since the sender repeats it; the owner's drop, which would undo it, is excluded
by the property.

## What is proved

All from the assumptions on constants alone, which TLC evaluates in the runs.
With these theorems every invariant, and every other safety property, that a
passing run checks is proved.

| Theorem | Establishes |
|---|---|
| `OatAttestProofs`: `Implements` | `KeepsWatch`: the initial states map to initial states, every step to a step or a stutter |
| `OatAttestProofs`: `TypeCorrect`, `Authorized`, `Monitored`, `AlarmsRight` | `TypeOK`, `AuthorizedWasTrusted`, `EstablishedIsMonitored`, `AlarmIffDistrusted`, for any NEDs, chains, IKE_SAs, rounds and workers |
| `NedProofs`: `TypeCorrect`, `WarnedOnce`, `IconIsLast`, `NoneForgotten` | `TypeOK`, `OneWarningPerLogin`, `LabelSettles`, `NoForgottenTunnel`, for any number of logins and any depth of slots |
| `MobilityProofs`: `TypeCorrect`, `OneAtATime`, `NoneLeftBehind`, `LostByFailure`, `AttestsTheConnected` | `TypeOK`, `OneHandover`, `NoTunnelLeftBehind`, `LostOnlyByFailure`, `AttestedIsConnected`, for any starts, access points and connections |
| `ControllerProofs`: `TypeCorrect`, `Freed`, `ReportsTrue`, `ClosedGone` | `TypeOK`, `FreedWhenUnused`, `ReportIsTrue`, `ClosedIsGone`, for any calls, IKE_SAs and workers |
| `LoginSessionProofs`: `TypeCorrect`, `ShownCorrect`, `LogoutPossible`, `LeavesNothing`, `EventsTold` | `TypeOK`, `ShownIsLoggedIn`, `CanLogOut`, `NothingLeftBehind`, `EventsToldOnce`, for any users, logins and events and any depth of slots |
| `NetworkProofs`: `TypeCorrect`, `CookiesExpire`, `CookiesLast`, `HalfOpenLimited` | `TypeOK`, `AcceptedIsFresh`, `FreshIsAccepted`, `HalfOpenBounded` of `Receiver`, for any widths, lifetimes, limits and numbers of workers |
| `NetworkProofs`: `SegmentsTyped`, `Watched` | `HaTypeOK`, `OneWatchdog` of `HaSegments`, for any number of segments, faults and messages in flight |
| `FragmentsProofs`: `TypeCorrect`, `ReassembledIntact`, `HeldBounded` | `TypeOK`, `Intact`, `HeldIsBounded`, for any messages, lengths and limits |
| `MemPoolProofs`: `TypeCorrect`, `Implements` | `TypeOK`, `KeepsPromise`: the initial states map to initial states, every step to a step or a stutter |
| `MemPoolProofs`: `NobodyHoards`, `RefusedOnlyWhenFull` | `NoHoarding`, `NobodyRefused`, for any pools, clients, hosts and IKE_SAs |

None of them is inductive as it stands.  The invariants that are:

* `OatAttestProofs!IInv` adds to `TypeOK`: `AuthorizeInv`, the thread that holds
  the mutex authorises an IKE_SA that is connecting, in a round its peer showed
  (no IKE_SA closes while the mutex is held, because its state change would be
  reported on the bus); `CountInv`, what the counter of a job knows of its
  verdicts (`Clean`): none untrusted, the last `count` of them unknown, the one
  before trusted, which is what `TypeOK` needs for `count < 3` (the lemma
  `CountDecides` relates a step of the counter to a step of the verdicts);
  `FreshInv`, a round still to be checked has no job, so its count starts at 0;
  `TrustInv`, a certificate that is known, was read as known, or let the last
  round succeed has been trusted, and every trusted answer came with a job.  A
  restart is shown to be a start (`RestartIsInit`).  For the refinement there is
  one lemma per step of the promise; `OffInv`, with attestation off nobody asks
  the verifier, is the one invariant more that it needs, and `RememberCounted`
  says of a log with one more verdict what `Unknowns` says of the counter.
* `NedProofs`: `WarnInv`, while the flag allows a warning there has been none
  since the login; `IconInv`, while the thread sleeps the last verdict is shown
  or its signal is waiting in the queue; `NoForgottenTunnel` itself.  Slots nest
  without bound, but none of the three looks below the innermost: lemmas say what
  taking a signal, pushing and returning do to `queue` and `stack`.
* `MobilityProofs`: `LockInv`, a chain in the locked part holds the lock;
  `GoalInv`, the access point of an order under way has an entry; `NameInv`, the
  active connection, unless it could not be closed, is the one that was named
  last, and none is being made beside it; an order that has made one has named it; `ModeInv`, the slot of the window makes no tunnel while mobility is on;
  `LostInv`, without a connection one is being made, or that has failed;
  `PlaceInv`, the active connection is that of the recorded access point, or of
  the one an order that is up is about to record.  What a close leaves behind,
  whether or not the script can be started, is one lemma (`CloseTunnels`).
* `ControllerProofs`: `RefsInv`, the count is the caller that has not returned
  and the job that has not ended, and the lists of the bus have only listeners
  of callers that are still there.  For what a call reports: `PlaceInv` ties the
  call to the IKE_SA its job held and to the CHILD_SA there, also the one it is
  to close; `EarlyInv`, the status of the listener means nothing until the job
  has let go of the IKE_SA, and a success is posted with the status; `TrueInv`,
  from then on what the status of a call alone on its IKE_SA says is so.  An
  event tells calls of other IKE_SAs nothing (`Told`), because each listener
  compares the IKE_SA first.
* `NetworkProofs`, of `Receiver`: `CookieTimes`, which relates the secret of each cookie, its
  time and the time of the last change; `SecretsInOrder` and `TimesInOrder`, so
  that differences of unsigned numbers are what they look like; `LoadBound`, a
  bound on the sum of what is open, run and queued for each stage of the
  receiver: what was found below a limit at one count is no more when the next is
  made, because nobody else adds to the sum, and a job that passes from the queue
  to a worker, or from a worker to an IKE_SA, leaves it as it is.
* `FragmentsProofs`: what is held was sent and has the id of the message, and
  `last` is known only from a fragment that was sent (`Good`); so a complete
  set of fragments of an only split is that split, by counting.  For the
  payloads (`PlainInv`, with `Tidy`): the length held is that of the fragments
  held, so a split that fits is never reset and its payloads have been moved just
  when its first fragment is held; one that does not fit is never complete.  For
  `HeldIsBounded` the sum of sizes is the value of a recursive function, a fold:
  it counts the pairs of a fragment and one of its units (`Units`), which makes
  the function known (`SumsExist`) and unique (`SumCountsUnits`).  The induction
  is over the subsets of a finite set, with a set for the hypothesis where the
  library has an operator (`SubsetInduction`, from the smallest set that fails).
* `MemPoolProofs`: `online` counts the IKE_SAs that have the lease (`CountInv`);
  an offset is one identity's, offline or online for one host (`PlaceInv`);
  offsets up to `unused` are the listed ones (`UsedInv`); an IKE_SA that asks to
  reassign has found every pool used up, and a pool that is used up remains so
  (`AskInv`).  This is why the passes may interleave.  That nobody hoards is
  counting over the pools: `CoverInv` says for each client and each k that its
  leases in the first k pools, and its IKE_SAs that have an address of a later
  pool or have asked those k for a lease in vain, are together no more than its
  IKE_SAs; an IKE_SA that uses an address up is one that asked in vain, and one
  that releases an address hands its own over.  `RefusedInv` follows at the last
  question: all pools are used up and nothing is left that is offline, so every
  address is a lease, online, of an IKE_SA other than the one refused.
* `NetworkProofs`, of `HaSegments`: `WatchInv`, the flags of each thread of a
  node with the number of its watchdogs; a node that is down has none.  `Rest`
  has the other types.  What a node tells of is a set of segments put in order
  (`InOrder`); that there is such an order is `AllOrderly`, by an induction over
  numbers in the same form (`Counting`).
* `LoginSessionProofs`: `AgreeInv`, while an operation is under way: there is one
  request, for the user in the field, whose reply tells who is logged in, and
  nobody is logged in while a slot has yet to take the user away; `LeftInv`, with
  no user shown no list is on its way; `EventInv`, what was counted was told, is
  in the hand of the thread or was lost with a terminated one.  Slots nest
  without bound: lemmas say what taking a signal, pushing, returning and going on
  in a slot do to the signals queued and the slots on the stack.

Only model-checked: liveness, out of the prover's reach (`MonitorDecides`,
`AuthorizationDecided`, `UntrustedIsShown`, `TunnelIsRaised`, `ReportsGoOn`,
`CloseEndsTheProcess`, `LoginIsOffered`, `ListIsFetched`, `EveryCallReturns`,
`EverySegmentServedOnce`, `WatchesAgain`, `Completes`).

## Not modelled

Most of the lines in `src/` are strongSwan's, vendored and unchanged: parsers and
generators of payloads, messages, proposals and configuration, EAP, XAuth and
RADIUS methods, kernel interfaces (WFP, netlink, PF_KEY), DHCP, VICI, TNC, lists
and formatters of the stroke plugin, build output and tests.  They are
sequential processing of data, or state machines whose other half, `sa/` and
`libstrongswan`, is not in the repository: a model of them would have to invent
what it checks.  No part of them is SECURED's.  What is modelled of charon is
what keeps state between threads or messages and is whole in the repository;
so the modules cover a small share of all lines, and can come to cover a large
one only by transcribing parsers.

Of the parts that are modelled in part: the copies of IKE_SAs in the ha plugin
(`ha_ike.c`, `ha_child.c`, `ha_cache.c`), which are kept in classes of `sa/`;
pools without a size, database pools and enumerators; the calls of
`stroke_control.c` that collect what they terminate; the sender, sockets and ESP
path of the network; the handover permission of the mobility client and the
access points a scan finds; texts of requests and answers, layout, settings.
What is external (the processor, settings, IKE_SA manager, NED, PSC, verifier)
is modelled as the code in the repository uses it, and marked so in
`PROJECT.json`.

## Plan

1. `NedAttestation` and `MobilityClient` over one tunnel, for the moment mobility
   is switched off.
2. The collecting calls of `stroke_control.c` over `Controller`.
