# Aviso in TLA+

Aviso tells users that data is available. Providers push notifications, which
are keys of an etcd store; users run `aviso listen`, whose threads poll the
store and run triggers for the keys they asked for. This folder holds TLA+
specifications of the parts of Aviso that run concurrently, keep state or walk
through the history of the store, the TLC models that check them, and proofs
checked by TLAPS. Line numbers refer to the files of the repository.

## The system

| Component | State | Operations | Interacts with |
|---|---|---|---|
| polling and catch-up (`etcd_engine.py`) | `next_rev` of each thread, `revision.json` | `_polling`, `_save_last_revision`, `_last_saved_revision`, `_delete_saved_revision` | the store (pull), the other threads (file, state lock, `_listeners`), the main thread (`exit_channel`) |
| listener lifecycle (`notification_manager.py`, `listener_manager.py`, `engine.py`, `cli_aviso.py`) | `_listeners` of the engine and of the manager, `exit_channel` | `listen`, `stop`, `cancel_listeners`, signal handlers | the polling threads |
| status history (`engine.py`, `etcd_engine.py`) | the chain of statuses in the store | `push_with_status`, `_from_to_revisions` | the store, the compactor |
| etcd engines (`etcd_rest_engine.py`, `etcd_grpc_engine.py`) | none | pull, push, delete, lease, latest revision | etcd |
| file based engine | observers of a folder | the same, for tests | the file system |
| service configuration (`service_config_manager.py`) | files as keys of the store, local files | push, pull, remove, status, revert | the store |
| administration (`compactor.py`, `cleaner.py`) | the key that holds the history of days | compact, clean, on a cron timer | the store, the notifications |
| monitoring | buffers of the collectors, lists of the receiver, a token | collect, transmit (UDP), receive, extract, report, answer a scrape | all the servers, the monitoring server, Prometheus |
| authentication server | per process, caches of tokens and of destinations | authenticate, authorise, forward | etcd, auth-o-tron, ECPDS |
| REST frontend | none | notify | the notification manager |
| keys, filters, validation, triggers (`event_listener.py`, `validation/`, `triggers/`) | the request of a listener, rewritten in place; its filter | derive and expand keys, validate, filter, run triggers | the polling threads, `notify` |
| configuration (`user_config.py`, five `config.py`) | the merged layers | load | every program, once |
| command line, schema, client authentication | none after the start | pure functions of their input | |

What is hard about it: the listening threads share a file and a list with one
another and with the main thread; the process dies wherever it is, and what it
does at the next start depends on the file; a cursor moves over a store that
others write; pull is retried without end; providers read the status and write
the next one in two steps; telemetries go through buffers that two threads
share and none locks; the proxy decides by replies that are late and by caches
that threads share and processes do not; the validation rewrites the lists of a
request while it tries one type after another. The "hazards" of `PROJECT.json` list these at their lines.

## What makes each part correct

| Component | Properties |
|---|---|
| polling | nothing is skipped or repeated within a run; across restarts only what the process held when it died is missed; what waits is delivered in the end |
| listener lifecycle | a replay ends, and but for three named cases not before every thread has replayed its period; an application ends only for a cause; a stop reaches every thread |
| status history | the links written by interleaved providers skip exactly one day; a search ends, returns nothing from before its start date, and leaves out nothing without a cause |
| service configuration | a push with delete leaves what was pushed and what others have added since; a second revert takes back the first; a pull leaves whole files, and when it ends those of one moment |
| administration | the retention period stays readable; what is out of it is compacted and deleted; a stop or a delay costs no later run |
| monitoring | a telemetry is counted at most once; it is lost only between a copy and its clear or by a fault; what is left is reported; no user is missed by a scrape |
| authentication server | a request is admitted or refused for a reason that was true at most a cache timeout and a request timeout before it arrived; every request is answered |
| keys and filters | a trigger runs only for what its listener asks for, however it is spelled; what is well asked is heard |
| configuration | the last layer that mentions an option decides, but for what the nested sections are known to forget |

## Modules

| Module | What it is |
|---|---|
| `EtcdStore` | operators on the state of an etcd store, for what the engines ask of it (external) |
| `Polling` | the polling threads, the saved revision, the restarts |
| `CoalescingFeed` | what the polling threads promise, without revisions |
| `ListenerLifecycle` | how the listeners are started, waited for and stopped |
| `StatusHistory` | the chain of statuses, and the search of a period in it |
| `Administration` | the daily compaction and cleaning |
| `ServiceConfig` | the files of the services on the configuration server, and the local copy of one |
| `Telemetry` | the buffers and threads of the monitoring, from a sample to its report |
| `Rights` | what auth-o-tron and ECPDS know, and when they knew it (external) |
| `AuthContract` | what the authentication server promises, without caches and servers to ask |
| `AuthProxy` | the authentication server: caches, retries, late replies, restarts |
| `Validation` | the handlers of types and the chain of handlers of an attribute |
| `Dissemination` | from a notification to the triggers of a listener: keys, filters, triggers |
| `Configuration` | how the programs load their configuration, one kind of section at a time |
| `MCPolling`, `MCListenerLifecycle`, `MCStatusHistory`, `MCAdministration`, `MCServiceConfig`, `MCAuthProxy`, `MCDissemination`, `MCConfiguration` | instances of these for TLC; `Telemetry` needs none |
| `Polling_proofs`, `ListenerLifecycle_proofs`, `StatusHistory_proofs`, `Administration_proofs`, `ServiceConfig_proofs`, `Telemetry_proofs`, `AuthProxy_proofs`, `Inputs_proofs` | the theorems about them; the last is about `Validation`, `Dissemination` and `Configuration` |

`AuthProxy` and `AuthContract` extend `Rights`, and the first instantiates the second;
`Dissemination` extends `Validation`; `Polling` instantiates `CoalescingFeed`.
`Inputs_proofs` extends both `Dissemination` and `Configuration`, whose specification is
`ConfigSpec` for that reason.
`Polling` shows how the notifications below a watched key reach the callback of a
listener, which `Dissemination` then follows.

In every module a definition with a suffix after an underscore, and "Mutant" in
its comment, is a variation of the definition that follows it, as a plausible
mistake in the code would make it. No specification uses them: with one of them
in place of the original a run must fail.

### Polling

The state is the store (`rev`, `mod`), the file (`saved`), the process (`mode`,
`boots`, `listeners`, which is `Engine._listeners`), and of each thread the point
where it is, `next_rev` and the notifications it has pulled and not yet passed
to the callback. `start`, `got`, `past` and `dropped` are history variables:
they record what happened and guard nothing.

`Notify` and `Expire` are the providers and the leases. `Boot`, `Listen`,
`StopAll` and `Crash` are the application. The other actions are the steps of
`EtcdEngine._polling`, cut where another thread can interfere: the read of the
file, its deletion, the latest revision, the search for the start date (which
ends anywhere: the status history is another part), the pull, the opening of
the file, which empties it, its closing, which writes it, the calls of the
callback one by one, the test of the stop condition, and the faults of the
file, which may not be removed (`DeleteFails`), opened or written, and of a request. The state lock is what `StateLockFree` says; the reader
of the file does not take it (line 171 of `etcd_engine.py`).

Keys are numbers in their lexicographic order. A base key ends with "/", so that
no two of them share keys, and the base key itself holds the status.

Not in it: a start date with an end date, the end of the application
(`exit_channel`), two listener files (two engines), which share only the file.

`CoalescingFeed` states what a listener gets for its polling: the keys published
while it runs become dirty, it takes all of them at once when it has handled the
previous ones, and handles each one once. `ImplementsFeed` is `Polling` seen
through the mapping dirty = the keys of which the current version is not below
`next_rev`.

### ListenerLifecycle

The main thread (`main`, `at`, `toStop`, `code`) runs `ListenerManager.listen`
and `Engine.listen` (`Acquire`, `Add`, `Spawn`, `SpawnFails`, `Started`), the wait
on `exit_channel` (`Succeed`, `Fail`) and `cancel_listeners` with `Engine.stop`
(`Stop`, `Clear`, `Exit`). `Signal` puts the handler of a signal on top of
whatever the main thread does: the lock that the interrupted frame holds goes
to `held` and is never released. A background thread is an action for each of
its steps: the search and the retrieval of a replay, the test and the removal in
`Engine.stop`, the test for the last one, the loop of a live listener, a request
that fails. `registered` stands for the lists `Engine._listeners`; a thread is
identified with its own entry, and entries with the same key are told apart
only where the code can (`SameKey`).

A thread of a replay that has retrieved its period is at one of the points of
`Replayed`. One that found nothing in it is "empty" and has put True into the channel,
one that was refused something is "failed", one whose key was gone when it took it out
is "raised". `early` is a history variable: the threads that were still to be started when
a thread of their engine found its list empty. `ReplayIsComplete` says that a replay which
ends well has replayed every thread but those that are `Overlooked`: in `early`, or
because some thread was "empty", or because another listener file was over (`Over`), for
each file has an engine and a list of its own. TLC refutes it without any one of these.

The outcome of a search is any of three: what decides it is `StatusHistory`.
The loop of a live listener is `Polling`; here it only ends or fails.

### StatusHistory

One base key. `statuses` is every status ever written, with its time and its two
links; `current`, `rev` and `compacted` are the store. A provider takes the time
(`Begin`), pulls the current status (`PullStatus`) and pushes its own with the
links made from what it saw (`Push`, `PushFails`), as `push_with_status` does: others
write in between. A search is `BeginSearch`, `FirstStatus`, `Walk`, one step of
`_retrieve_status_history` at a time, and `EndWalk`, which makes the window.
`chain` is a history variable: of each status, those that its links to the
previous one lead to.

### Administration

The process of `aviso_admin` (`pc`, `due`), today (`day`, `struck`), the store
(`rev`, `compacted`), the history below `history_path`, the announcements of
destinations (`index`) and the notifications (`keys`). The compactor is
`CurrentRev`, `Date`, `SaveRev`, `CleanHistory`, `Compact`, the cleaner `CleanerDate`,
`GetDestinations`, `DeleteKeys`, `DeleteDestinationKeys`, `DeleteMars`: one action for
each request, so that midnight, a provider or the end of the process can come
between any two. `Stop` is the end of the process for any reason, a failed
request included, for a job that raises ends `main`. What is due when a process
is down is not made up for. `began`, `recorded` and `cut` are history variables.

A revision is what etcd says it is: every transaction that changes something
adds one, and a compaction is refused at a revision that is not beyond the last
one compacted or is in the future (`Accepted`).

### ServiceConfig

The store (`txns`, `store`, the versions of each key since its creation), of each user
the command that runs (`pc`, `service`, `files`, `stale`, which is `ks_delete`, and `batch`,
what it pulled) and the local folder (`folder`, `todo`). `since`, `undone` and
`looked` are history. A push is `BeginPush`, `Look` (with
`--delete`) and `Push`; a removal is `Remove`; a revert is `LookBack` and `Revert`;
`pull_and_save` is `Pull`, then `Open`, `Write`, `Unlink` and `Rename` for each file, as the
four loops of the code make them, and `Done`. `Fail` ends any of them where it is, for
`rmtree`, a request and the file system may all fail. A transaction of the store is
one action.

What a content is does not matter, only which push it comes from: it is the number
of the transaction. Names matter only for the prefixes that the store deletes and
that the commands pull: `BeginsWith` says which names begin with which. A file is a
name and a number of ".tmp" after it, because the temporary name of one file may be
the name of another; `PulledAsServed` leaves out the files to which this happens, for
they are overwritten. The previous versions that a revert reads are read in the
step that pulls the current ones: they were current at a revision that is past.

Not in it: services inside one another, files in folders (whose names are longer
names), two local folders, the status command, which only reads.

### Telemetry

`made` and `visits` count what the frontends collect; `buffer`, `sending` and `tx` are
the collectors and their `Transmitter` threads, `network` the datagrams, `held` and
`fresh` the thread of `UdpServer` between the reception of a datagram and its append
(`fresh` is whether the list it looked up is still the list of the `Receiver`),
`incoming` the lists. `scrape` is a thread of Flask between the filter of
`UsersCounter.metric` and its `set_incoming_tlms`; `job`, `taken`, `saved`, `using`, `trying`
are `OpsviewReporter.run`, with the token that is saved, that of `run` and that of
`submit_metric`, which are three. Each copy and each clear of a shared list is an
action, because no thread takes a lock. `exposed`, `gone`, `kept` and `reported` are
history. A sample is a number, a list is a set: the code never looks at the order.

`Transmit` may fail to send, `Lose` drops a datagram, and datagrams are received in
any order. `Post` may fail or be refused for its token; then `Relogin` submits the same
metric again. Nothing sends a datagram or a metric again that failed otherwise.

Not in it: the aggregation of the samples of a metric (`OpsviewReporter.aggregate_*`),
a reporter that runs while another runs (the scheduler is one thread), the probes
of `etcd_reporter.py`.

### Rights, AuthContract, AuthProxy

`Rights` is the outside: which credentials are valid and who may read which
destination, at any time, and when each was last so (`lastHeld`, `lastLacked`). In
`AuthContract` a request is pending, admitted or answered; `Admit` and `Refuse` ask
that the reason was true not long before the request arrived.

`AuthProxy` has one action for each step of a worker: the headers (`Arrive`,
`RefuseHeaders`), the memo of the token (`CheckToken`), the request to auth-o-tron, in
which it decides (`JudgeToken`) before its reply is received (`ReceiveToken`) or given
up (`Retry`), the body (`ReadKey`), the memo of the destinations (`Authorise`), the
request to ECPDS (`JudgeList`, `ReceiveList`) and the forward to etcd (`Forward`).
`Restart` ends a process, its cache and the requests it had. Time is in the model
because the promise is about ages: `Advance` does not go past the timeout of a
reply that is on its way.

What the model takes from the code, and a reader of the documents would not expect:

- The cache of tokens memoizes a reply with a success status before the name of
  the user is taken from it, so that a reply without a usable name fails each request
  that finds it until it expires ("garbled" in the comment of `CheckToken`).
- The type `plain` given with the scheme EmailKey is sent as Basic (`Sent`): the
  replacement at lines 153 to 155 of `authentication.py` is local to its function.
- After `MAX_N_TRIES` the answer is 500: nothing raises the exception for which the
  frontend would answer 503, as `tests/test_frontend_no_authenticator.py` of the server
  wants.
- A malformed body is answered 400 or 500 (`ReadKey`), which the model leaves open. A
  protected key without a destination is asked for and then fails with 500 (line 177 of
  `authorisation.py`); the model fails it before it asks.
- Too many requests to the server of the destinations end in 500, not 503 (`ReceiveList`).
- Only the validation of the token is retried. The retries may take longer than the
  30 s after which Gunicorn kills a worker: `Restart` comes at any step.
- A cache timeout of 0 would mean that entries never expire; the timeouts are
  assumed positive.

### Validation and Dissemination

A value is a text and whether it is an int. A handler is what it accepts and what it
makes of it; what `upper`, `int`, `strftime` or a format do to a text are parameters
(`Number`, and the functions given to the handlers). `Validate` is the chain of
handlers of an attribute as `EventListener._validate` runs it: on a list each handler
goes on from what the ones before it left, up to the first value it refuses
(`Process`). A handler refuses a value with a `ValueError`, and the next one is tried, or
fails on it with another error, which ends the validation (`fails`): a regular
expression does on an int. `Spoilt` is what a validation that ends so leaves of the
dictionary: some attributes rewritten, and of the list it ended with what the handlers had
kept (`Left`).

`Dissemination` starts listeners with any request (`Start`, which may refuse it and leave it
spoilt; it may be tried again), stops them (`Stop`, after which the callbacks of what was
fetched together with a running one may still come),
notifies with any parameters (`Notify`), calls back (`Callback`) and runs the triggers one
by one (`RunTrigger`), whose outcomes are those of their type (`Outcomes`): a command that
writes to its standard error fails, a post whose answer is late fails and may have
arrived. `request` is the dictionary as the validation leaves it, `asked` as it was
written; a listener that is started again validates what the first start left.
`Wants` says what a request means, independently of the code; `OnlyWanted` compares
the code with it.

`WellAskedIsHeard` is restricted to requests that are well asked (`WellAsked`). TLC
refutes it without the restriction, and each part stands for a way in which the code
loses a notification without a word: values of the base that are not canonical (they
are expanded before they are validated) or can be spelled in more than one way (a
notification that spells one differently has another key), two equal lists in the base
(replaced as text, they take equal values), a list that the first handler refuses in part (it is
left cut for the next one), a filter of numbers and texts, and an enumeration of texts that
can be spelled in more than one way.

Not in it: what a trigger sends; that a `LogTrigger` adds its handler to the root
logger and a `PostCloudEventsHttp` changes headers it shares, which no other part reads.

### Configuration

A run follows one section of one program (`part`) and the scalars outside it; a layer is
the same with options it does not mention. `Parts` are the nine kinds of section: those of
the client (`notification_engine`, `configuration_engine`), of aviso-rest (`aviso`,
`monitoring`), of aviso-auth (its servers and `monitoring`), of aviso-admin (its jobs and
`monitoring`), of the monitoring (its reporters, the probe of Kubernetes) and of the
collectors (`transmitter`). What an argument replaces whole, the lists and mappings `skips`,
`cache` and `monitor_servers`, is a scalar.

`step` is the layer that comes next, `files` is the configuration that
`_parse_config_files` builds up, `config` is `self._config`. `Skip` and `ReadFile` are the four
places of a file, `SetUpLogging` merges the files into the defaults, then come
`ReadEnvironment` and `SetArguments`, whose setters make booleans (`Folded`) and insist on values
(`Complete`, with the exceptions `MayBeNone`). The parts differ in where they start (`Starts`)
and in what they have before their files (`ConfigInit`). `Exit` stands wherever a program
ends itself: an unreadable file, a mapping merged into a section that is there and empty, a
value that is missing.

The sections `aviso` and `monitoring` of aviso-rest and `monitoring` of aviso-auth (`Nested`)
are configurations of another program, made from what the files say (`FromFiles`) over the
defaults, or, if they say nothing, as if nothing were given: for `aviso` this reads the files
of the client on that host (`OwnFiles`). `fresh` is what the section is then. An argument
makes the object anew, and what the files said is lost (`Made`; `rest/config.py` 198 to
222, `auth/config.py` 239 to 248). A later file that empties such a section brings the
defaults back, and so does one that empties the arguments of the monitoring of
aviso-admin (`Forgetful`, `Unsaid`).

`wins` is a history variable: option by option, what the last layer said that
mentioned it. `HighestWins` says that a program which has loaded uses these values.
The exceptions are in `Unsaid` and in `SetArguments`: where a section forgets, an option
has what it has without the files that were forgotten. In every other section a layer
never takes back what another one said, and this is what the merge could get wrong.

`Folded` shows what the code leaves as texts: the `monitor` of the servers of aviso-auth
when it comes from the environment (any text is then true), `ssl_enabled` of the probe, and
what the collectors get.
Texts that should be numbers (the retention period of the administration) are outside the
model, as are the files that hold a key or a user name and the exit code under
`no_fail`, which only counts once it is set.

## Runs

| Run | Bounds | What it shows |
|---|---|---|
| `polling_threads` | 2 threads (2 keys and 1 key), 4 revisions, 1 start in each mode, the file may fail, a crash anywhere | types; no notification skipped or repeated in a run; the loop implements the feed; what waits is delivered in the end |
| `polling_restarts` | 1 thread with 2 keys, 5 revisions, 3 starts with catch-up, requests may be refused, a crash anywhere but between the opening and the closing of the file | across restarts only what was received at a crash is missed, and nothing is handled twice |
| `polling_shared_file` | 2 threads, 5 revisions, 2 starts, a crash only while both threads are idle in their loops | violated: the threads share one saved revision, and the one ahead takes the others along |
| `lifecycle_threads` | 2 files, 3 listeners, 4 threads of which two have the same key, replay or live, every outcome and fault, 2 signals | a stop empties the lists; an application ends for a cause; a replay that ends well has replayed all but the three named cases; a replay ends |
| `lifecycle_signal` | 1 file, 2 listeners of one key, live, no fault, 1 signal | violated: the handler blocks on a lock that its own thread holds |
| `history_interleaved` | 2 providers, days of 2 ticks, 5 ticks, 4 revisions, 2 periods, statuses expire, a compaction | the links are right; the window is in the period; what it leaves out has one of three causes; a search ends |
| `admin_jobs` | 3 days, retention periods of 1 day, 1 destination and MARS, notifications of 1 date, both jobs at midnight, stops anywhere | all that is said above of the administration |
| `service_config` | 2 users, 1 service, the files a and a.tmp, 4 transactions, pulls that begin before the third, a failure anywhere | all that is said above of the service configuration |
| `telemetry` | 2 users, 2 scrapes at once, 2 samples, errors or users in all, a clock of 2 values with a window of 1, 2 expiries of the tokens | all that is said above of the monitoring |
| `auth_proxy` | 2 workers that share the cache of a process, 1 user, 1 destination, a clock of 3 values, timeouts of 1, 2 tries, rights that change at any time, restarts | the proxy keeps the contract; every request is answered |
| `dissemination` | 1 listener with any of 22 requests over 2 attributes of the base and 4 below it, 2 notifications out of 11, 2 triggers | all that is said above of keys and filters |
| `configuration` | 2 options and 2 scalars, of which one each is a switch, any layers that mention at most 2, the 9 kinds of section, 4 files, and for aviso-rest 4 contents of the client's files | the last layer decides, but for what the nested sections forget |

The bounds of the first three let two providers overtake one another between two
pulls (2 keys of one thread, each written twice), let a lease end in between,
and let each thread save after the other. Those of the lifecycle let a second
file matter, two threads of one engine end in either order, and a signal come
on top of another. The history has two days, with a middle to each, three
statuses and an end date in the middle of the second day; the clock stops when
the search begins, for what is sent later is no part of the period. In
`admin_jobs` a record leaves the retention period and another stays, in any
order with midnight; the day that is cleaned has notifications that the cleaner
sees, and some that come while it runs. Nothing is written after the day on
which the cleaner deletes its date, because nothing would ever delete it. In `service_config` one user pushes and
pulls while the other pushes, removes and reverts. Four transactions let a pull
that was cut leave old files, the next one see new ones, and another change come
while it writes; they let two versions be reverted twice. In `telemetry` two samples let one come between
a copy and a clear while the other is on its way, and two scrapes overlap; two expiries let
the token be refused twice for one metric. In `auth_proxy` the clock lets an entry expire
and a reply be late, and one worker find what the other put in the cache; two
caches would be two instances of one. In `dissemination` the requests take each kind of handler,
one that fails on an int, single values and lists, texts that are and are not canonical, a number of the base that can be spelled in two ways,
and lists that a handler refuses in part. `MCDissemination` has the hypotheses of the
theorems as an ASSUME, which TLC evaluates on this instance.

`MaxRev`, `MaxBoots`, `MaxSignals`, `MaxTime`, `MaxDay`, `MaxTxns`, `LastPull`, `MaxSamples`, `MaxExpiries`, `MaxNotifications` and `Width` bound what would be
unbounded. A polling system and the configuration of the services may stop at
their bounds, a lifecycle ends, a history ends with the result of its search, a configuration is
loaded once, and the telemetry, the proxy and the dissemination come to rest at their bounds:
these runs do not check deadlock.
`admin_jobs` does; `Stop` and `Start` never end.

Fairness. `Polling!FairSpec`: a started thread makes its next step when it can. A
pull is repeated until it gets an answer (lines 91 to 124 of
`etcd_rest_engine.py`), and nothing else in the loop blocks but the state lock,
whose holder makes its next step too. `ListenerLifecycle!FairSpec`: the same for
each background thread and for the main thread, which are threads of the
operating system. `StatusHistory!FairSpec`: a search makes its next step, for it
is made of pulls. No fairness is assumed of providers, leases, starts, stops,
signals, compactions and crashes. `Telemetry!FairSpec`: the transmitters, the thread of
the UDP server and the reporter go on, as threads do whose requests time out; the
main thread calls `run` of the reporter again and again. `AuthProxy!FairSpec`: a worker makes its next
step, for every request it makes has a timeout; that it may be killed is `Restart`, which is not fair. `Administration` has no liveness property: a
job that fails ends the process, and nothing in this code starts it again.
`ServiceConfig` has none either: its commands are run by people, and each may fail.

## Where the code and its documentation disagree

The two runs that end in a violation each check one sentence of the documentation.
`PROJECT.json` quotes it and says which line of the code does otherwise:
`polling_shared_file` that nothing is missed between two runs, `lifecycle_signal` that a
signal stops the listeners gracefully.

Other differences are named by the properties that hold in spite of them:

- The revision is saved before the callbacks run (line 152 of `etcd_engine.py`): what
  a process had received when it died is missed. It is the exception in
  `MissedOnlyInFlight`.
- A replay may end before it has retrieved its notifications: when a thread ends while
  the main thread is still adding keys, or while those of another listener file are at work
  (line 132), and when a thread finds nothing in its period (line 109).
  `docs/source/guide/catch_up.rst` says otherwise, at line 27 ("It will replay all the
  notifications sent from 20 January to 21 January") and at line 34 ("If ``--to`` is defined
  Aviso will terminate once it has retrieved all the past notifications."). `ReplayRetrievesAll`
  states what it says, and is false of the code: `tlc -config LifecycleReplay.cfg
  MCListenerLifecycle` shows the first with one file whose threads all find their
  period, `LifecycleEmptyPeriod.cfg` the second. `ReplayIsComplete` is what the code keeps.
- "each step merges on the previous one", says `docs/source/reference/configuration.rst` (line
  9) of the layers of the client, which the servers load in the same way. The nested sections of aviso-rest and aviso-auth do not merge an argument but replace the whole
  section by it: the exceptions of `HighestWins`.
- A compaction that fails after the history was cleaned is not asked for again (line 152 of
  `compactor.py`): the exception `cut` of `SpaceIsReclaimed`.
- A replay of the first day of the history returns its last notification only (line 335):
  it is a cause in `MissedForACause`.
- To remove or revert a service reaches those whose names begin with its own (line 142
  of `service_config_manager.py`): `Remove` and `LookBack` do so.
- A request may be accepted and never be served: the exceptions of `WellAskedIsHeard`.

## Proofs

All theorems hold for every value of the constants that satisfies the ASSUMEs of
the module, and what a theorem assumes besides is said here; each proof is an
inductive invariant, one step for each action. TLC checked each of these
invariants on the runs before it was proved.

**Polling.** Within a run: `TypeCorrect`, `NothingRepeated`, `NothingSkipped` and
`PollingImplementsFeed`. The last two assume `FitsInOneReply`: a base key holds
less keys than a reply may have. Without it they are false, for a reply is cut
in the order of the keys and `next_rev` moves past what was cut off.
`DeliveredOnce` is not inductive. `CursorInv` adds to it and
to the types that the cursors and the keys never pass the revision of the store
(`CursorsInStore`), that what a thread has pulled is below its cursor
(`BatchBelowCursor`) and that the batch has one version for each key
(`OneVersionPerKey`); it holds for replies that are cut, too. `IInv` is `CursorInv`
and `NoVersionSkipped`. Every action either leaves a thread alone or moves it
(`MoveStep`), brings it to the entrance of the loop (`EnterLoopStep`), pulls (`PullStep`),
delivers (`DeliverStep`) or writes to the store (`TransactionStep`); the refinement has one
lemma for each kind of step again.

Across restarts: `DeliveredAtMostOnce` and `OnlyInFlightIsMissed`. Both are about one
listener: with two, the file holds the revision of either, and the run
`polling_shared_file` shows what comes of it.

- `DeliveredAtMostOnce` assumes (`OnceAssumption`) that no start is a replay, which
  delivers again what it is asked for, and that the file can be opened: if it cannot, it
  keeps a revision below what the callbacks get. Replies of any size, failing
  requests and writes, and a crash anywhere are allowed: this is more than the run
  checks. `OnceInv` says that the file is ahead of all that was delivered and of the batch
  that is about to be (`SavedIsAhead`), or empty, and that the cursor and the batch
  are beyond what earlier runs delivered (`PastIsBehind`).
- `OnlyInFlightIsMissed` assumes (`FlightAssumption`) what the run assumes: replies that are
  whole; no start from now, which goes past what came while no process
  ran; no fault of the file and no crash while it is being written, which leaves it empty, so
  that the next start begins from now. `FlightInv` says that the file is there once something was
  delivered and is never ahead of the thread (`FileKept`), and that every key changed
  after the first delivery and below the point reached (`KnownBelow`) was delivered, dropped, or
  is in the batch.

**ListenerLifecycle.** `TypeCorrect`, `ReplayCompletes`, `CancelIsComplete` and
`EndsWithACause`. `LInv` says that the threads are started in order
(`StartOrder`: from `at` on they are off) and that a thread which was started and has not taken
its key out is in the list as long as nothing stops the engines (`Listed`); with
it, an empty list means that every thread of the engine has replayed or is still to be
started. `ReplayInv` says that a True in the channel, and the success that comes of it, has one
of two reasons (`EndsWell`): a thread that found nothing, or one that found the list of
its engine empty (`Concluded`), which no later step of the others changes. `CauseInv`
says that in a live application only failures are in the channel, that each of them comes from
a thread that was refused something, since a key is never gone before a stop (`Listed` again), and
that the main thread stops waiting only for a cause.

**StatusHistory.** `TypeCorrect`, `LinksSkipOneDay`, `WindowIsInPeriod` and
`MissesAreExplained`. `HInv` needs that the chain of a status is the status and the
chain of the one it replaced (`Chains`): the link to the day before is either
that of the replaced status or the replaced status itself. `SInv` adds what is
behind a search while it walks (`WalkInv`): everything it has left is after the
start date, or below the revision compacted, and what it left of the period is
not after `toRev` or on a day that it stepped over.

**Administration.** `TypeCorrect`, `RetentionIsKept` and `CompactionIsAccepted`. The
first invariant is about early records: each was read before the day after its
date began (`Early`). That is true because the revision is read before the date
it is recorded with. The second (`Ordered`) is that revisions are recorded in the
order of their dates, so that the newest of the old records is beyond what is
compacted and below every record that stays. `NewestExists` shows that the choice
of the newest record is defined, by well-founded induction over naturals.

`SpaceComesBack`, `DayIsCleaned` and `NothingYoungIsDeleted`, which is an action property.
`Reclaiming` says that what was recorded and is no longer in the history is covered
by what is compacted or is about to be. `Sweeping` follows the cleaner: a
notification for a destination has an announcement by which it is found, or came late
(`Announced`), and after each request nothing is left of the day but what the next ones
will delete (`LeftOnly`). The destinations are read once, while providers go on writing:
what comes late (`Late`) is what no later step promises to find.

**ServiceConfig.** `TypeCorrect`, `StatusCounts`, `FilesAreWhole`, `PullIsFaithful`,
`DeleteIsComplete` and `RevertIsItsInverse`. `CInv` says that a revert that is about
to write a file of a service writes its status too (`RevertsStatus`). `FInv` says
what is written, unlinked and renamed at each point of a pull (`Progress`): what is
not yet renamed is whole under its temporary name. `DInv` says
that a file which a push with `--delete` did not see when it looked was created
after it did (`StaleKnown`). `RInv` says that what a revert undid is still the version
before the current one, or the only one (`UndoneIsPrevious`), and that a revert
which nothing disturbed puts exactly the versions before (`RevertsToPrevious`).

**Telemetry.** `TypeCorrect`, `NoUserIsMissed`, `NothingElseIsLost` and
`NothingIsCountedTwice`. `Conserved` needs
that the reporter has posted a list before it takes the next one of its kind (`TakenInv`), and
that the server thread holds one datagram, whose list is replaced only if it is that of the
users (`HeldInv`). `NoUserMissed` needs that a datagram which is kept is in the view of every
scrape that is under way, if it is in the window (`KeptInv`). `CountedOnce` says that eight places
have nothing in common; each action shrinks places, adds something new to one, or
moves parts of one to two others (`Shrunk`, `Added`, `Moved`). That a datagram can be moved
without leaving its contents behind in another is `LedgerInv`: no two datagrams that are carried anywhere
share a time or an error (`Unshared`), what a transmitter has copied is still in its buffer
and what the reporter has copied is still in its list, until they clear them, and nothing is
anywhere that was not made.

**AuthProxy.** `TypeCorrect` and `ProxyKeepsContract`, a refinement. The contract knows
when a right was last held, the proxy only has replies and entries. `IInv` says
how old the truth behind each of them may be: a reply on its way was true when it was
given, after the request came and at most `ReqTimeout` ago (`VerdictOK`); an entry was true at
most its timeout and `ReqTimeout` before it expires (`TokensOK`, `ListsOK`), whichever
worker wrote it and however late; a worker that asks for destinations has credentials that the
contract knows (`WorkerOK`). There is one lemma for each action, which shows at once that
the invariant is kept and that the step is one of the contract, or none.

**Validation and Dissemination.** `FilterDecides` (`OnlyWanted`) and `WellAskedIsServed`
(`WellAskedIsHeard`), for handlers, chains, lists, requests and notifications of any
number and length. What is assumed is about the texts, which are parameters here:

- `FaithfulInputs`: the canonical form that a handler gives to a value is accepted by
  the chain again and means what the value did, and two canonical forms mean the same when
  the filter takes one for the other (`Faithful`); an int has the text that it is printed as,
  and a notification has one value for each attribute. A schema may fail this: a date
  whose `canonic` format is not one that its handler reads, or reads as another day.
- `SettledInputs`, for the second theorem only: a canonical form is its own canonical form,
  and a number is the only canonical value with its meaning (`Settled`).

A parameter on its way through a chain is a recursive function of the stage, and what it
computes is said by what holds at every stage: if it failed anywhere it would fail at a least
one (`LeastNumber`), and a single handler does not bring it about (`ProcessFollows`,
`StageFollows`). `MeaningsKept` says that what comes out of a chain, of a list that was cut
too, has only meanings that went in, and is canonical. With it `WantedInv` is
inductive: a request never comes to mean more, however often it is validated or refused
(`RequestKept`; `LeftMeans` and `SpoiltKeeps` for what a refusal leaves), the filter of a listener holds canonical values with meanings of its request
(`FilterKept`), and what the filter lets pass was asked for (`PassesIsWanted`, `WorkInv`).

`HeardInv` goes the other way: for a request that is well asked the chain is that
of the handler which reads it first (`WellRead`, `RequestIsRead`), a second validation
changes nothing (`ReadAgain`, `AgainTheSame`), so that the filter and the bases are those of the
request as it was written (`AskedInv`). A refusal may rewrite some of its attributes and
not others: each is as it was written or canonical (`Kin`, `SpoiltIsKin`), and
is read as the same. A notification that is asked for is below one of
these bases (`BaseIsWatched`) and passes the filter (`FilterIsPassed`); `OwedInv` is that
none is dropped on the way. The case of `BaseIsWatched` that could not be proved at first
was a number in the base, which a notification may spell `00` where the listener watches
`0`; TLC confirmed that the notification is lost. `WellAsked` now has the condition, and the
instance has such an attribute.

**Configuration.** `LastLayerDecides`, for any options and contents of the layers. The
files are merged apart, where a section that is missing, one that is empty and one with
options are three cases; `FilesInv` says that they give what `wins` has, option by option
(`Given`), over what a section has if they do not mention an option (`Otherwise`), and
`MergedInv` that the configuration does from then on (`Held`). `FileGives` and `FilesHeld` are the
two steps where a nested section is made and may forget, `SetterGives` is the one where an
argument replaces it.

Only model-checked: `EventuallyDelivered`, `ReplayTerminates`, `SearchEnds`,
`EventuallyReported` and `EventuallyAnswered`, which are liveness under fairness.

## Not modelled

- What is pure or has no state after the start: the listener schema, the headers
  of the client's authentication, the options of the command line, the cloud events of
  the REST frontend. Their results are parameters of the modules.
- The gRPC engine and the file based engine: the first makes the same requests
  as the REST engine with other calls, the second serves tests.
- The arithmetic of the metrics and the probes of etcd by the reporters.
- Leases of etcd as times: a key with a lease disappears at some moment.
- HTTP itself: a request is answered, refused, or the process ends.

## Plan

1. `Engines`: what the two etcd engines and the file based one make of the same
   requests, as one specification with three implementations.
2. The reporters: the aggregation of the samples into a metric.
