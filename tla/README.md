# A verification project for interlink-condorce-plugin

The plugin sits between a virtual kubelet (interLink's) and batch systems. A
pod that the virtual kubelet creates becomes an apptainer job script; the script
travels over NATS to a provider near the batch system, which submits it, and is
asked afterwards how the job does. This directory holds TLA+ modules translated
from the sources, TLC configurations that check them on small instances, and
theorems proved with TLAPS.

Paths below are relative to the repository; `NatsGateway.py` and the other
files named alone are in `natsprovider/`.

## 1. The system

    virtual kubelet --REST--> natsplugin.py: NatsGateway --NATS--> BaseNatsProvider --> batch system
                                   |  redis                          (responders)        (condor, slurm,
                                   |                                                      podman, k8s)
                                   <------------- resync, config, resources -------------

| component | source | state it keeps | operations |
|---|---|---|---|
| REST plugin | `natsplugin.py` | one `NatsGateway`, the NATS listener connection | `/create`, `/delete`, `/status` (a batch of pods, gathered), `/getLogs`, `/shutdown` |
| NATS gateway | `NatsGateway.py` | redis hashes `pod:pool`, `pod:status`, `pod:container_statuses`, `build_configs`; Prometheus counters; the coroutines in flight | `create_job`, `delete_pod`, `get_pod_status`, `get_pod_logs`, `config_callback`, `resync_callback`, `published_resources_callback` |
| NATS responders | `BaseNatsProvider.py`, `__main__.py` | `_subscriptions` (subject to subscription), the submission record, the leader flag | create, delete and status callbacks, `resync`, `main_loop`, publication of the build config and the resources, `shutdown_callback`, `maybe_stop` |
| submission record | `SubmissionRecord.py` | a bounded queue of (job, time) | `mark_job_as_submitted`, `is_being_submitted` |
| HTCondor provider | `condor/` | the job queue (of the CE), an OIDC token | `submit`, `status_by_name`, `retrieve_by_name`, `delete_by_name` |
| Slurm provider | `slurmprovider/` | a cached `sacct` table with its time, the time used as a lock | `create_pod`, `delete_pod`, `get_pod_status_and_logs`, `is_job_running` |
| Podman provider | `podmanprovider/` | containers (of podman) | the same three methods |
| Kubernetes provider | `kubernetesprovider/` | jobs (of another cluster) | the same three methods |
| NATS answers, tokens | `utils.py` | `TokenManager`: a token and when to refresh it | `NatsResponse`, `JobStatus`, `compute_pod_resource`, `TokenManager.token` |
| job script | `apptainer_cmd_builder/` | files of a job directory, an image cache that jobs share | the generated bash script, `process_logs` |
| kueue-nats controller | `kueue-nats/docker/controller.py` | per MasterQueue: pools with quotas, labels and the time of their last announcement, a NATS subscription; the ClusterQueues and ResourceFlavors of Kueue | kopf handlers of create and update, a NATS callback, a timer that writes ClusterQueues |

### How the parts interact

* **Calls.** The virtual kubelet calls the REST endpoints; each call is a
  coroutine of the gateway that sends one NATS request (`/status`: up to
  `NUMBER_OF_GETTING_STATUS_ATTEMPTS` of them, with a sleep in between) and
  continues when the answer, NATS's "no responders", or a timeout comes back.
* **Subjects.** All responders of a pool subscribe to `create.<pool>.*` in a queue
  group. The one that receives a create subscribes, with no queue group, to
  `status.<job>` and `delete.<job>` of that pod, before it submits the job.
* **Resync.** A leader asks the gateway at its start which jobs belong to its pool,
  as redis has them, and subscribes to their subjects before it takes creates.
* **Callbacks.** Within a responder one subscription runs one callback at a time;
  different subscriptions interleave wherever a callback awaits.
* **Beside the calls.** A provider publishes what resources its pool has; the
  kueue-nats controller turns these announcements into ClusterQueues. The job script
  runs on the batch nodes on its own; it meets the rest of the system in the tar file
  of logs and return codes that its provider brings back, and other job scripts in
  the image cache of the site.
* **Shared state.** redis outlives the gateway; the batch system outlives the
  responders. Everything else is lost with its process.

### What is hard about it

* Calls of one pod interleave at the gateway: a delete is answered while polls and
  a create that timed out are under way; their continuations write redis.
* The gateway gives a call up after a timeout; the provider does not know, and
  does the work anyway, later.
* Responders stop, crash and start again with an empty table; only a leader
  recovers, and only what the gateway lists.
* Subscriptions are kept by subject in a table that a second registration of a
  pod overwrites.
* Providers forgive: a delete whose `scancel` failed is acknowledged, and a status may be
  read from a table that is out of date.
* The logs of a job that ended may be such that the gateway raises whenever it reads them.
* A request can fail in three ways that the gateway treats differently: an error
  response, no responders, and no answer.
* The Slurm calls of a responder share one table that is refreshed across an await, and
  sacct fails, hangs, or answers late.
* A token is refreshed by whoever asks for it; its age is kept modulo a day.
* An update of a MasterQueue replaces the object that has the pools while the old one
  goes on listening; the controller restarts with no pool at all.
* A trap of the job script runs between any two of its commands and does not exit; the
  scripts of a site replace one cached image under each other.
* A status is translated three times (batch system, provider, gateway) and
  finally cached for ever.

### What makes it correct

* *Gateway*: a terminal report stands; a deleted pod is not listed to a provider
  that resyncs; the end of a pod is counted once; a poll ends.
* *Responders*: one job per pod; an acknowledged delete leaves no job and none to
  come; a job always has a responder that answers for it; a job being submitted is
  not reported as missing; no subscription outlives its pod.
* *Across both*: every job is listed in redis while it exists; a terminal report is
  the outcome of a job that did end, and comes eventually.
* *Submission record*: what was submitted recently is known; what was not is
  forgotten.
* *Slurm*: one caller at a time refreshes the sacct table; no end of a job falls between two
  refreshes; an end is only told of a job that was in a state listed for it; a call ends.
* *HTCondor and tokens*: a token that is shown has not outlived its validity; neither
  unknown nor succeeded is told because a token, the schedd or a retry failed; a call ends.
* *Job script*: containers run on prepared volumes; the return codes that are told are
  those of the containers; the shared image comes back; the script ends.
* *Controller*: a pool that is silent leaves the queues, one that is alive gets back;
  a queue that is lent to no longer is held; nobody else's queue is written.

`PROJECT.json` lists the hazards one by one, each at its line.

## 2. The modules

| module | what it models |
|---|---|
| `Interlink` | pods, pools, the calls in flight, `NatsResponse` and `JobStatus` |
| `NatsGateway` | `NatsGateway.py`: redis, the counters and the REST calls cut at the request they await |
| `Backend` | the batch system as `create_pod`, `delete_pod` and `get_pod_status_and_logs` see it; its constants say in what the providers differ |
| `NatsProvider` | `BaseNatsProvider.py`: responders, their subscriptions, callbacks, resync and stop; NATS between the two |
| `PodLifecycle` | all of the above composed, with the virtual kubelet, crashes, timeouts and restarts |
| `PodContract` | the abstract specification: what the kubelet may be told of a pod |
| `SubmissionRecord` | `SubmissionRecord.py` with its clock |
| `SlurmProvider` | `SlurmProvider.py`: sacct table, status with logs, create, delete, restart |
| `TokenManager` | `TokenManager` of `utils.py` and the issuer of tokens |
| `CondorProvider` | `condor/`: the calls of a provider with their retries, on `TokenManager` |
| `ImageCache` | how a job script finds an image: `ContainerSpec.initialize` |
| `JobScript` | the whole script of a pod, on `ImageCache`, with signals |
| `KueueController` | `controller.py`: handlers, announcements, timer, and the Kueue objects |
| `NatsGatewayProofs` | theorems about `NatsGateway` |
| `PodLifecycleProofs` | theorems about `PodLifecycle`; EXTENDS `NatsGatewayProofs`, whose lemmas it uses |
| `PodReportProofs` | more theorems about `PodLifecycle`; EXTENDS `PodLifecycleProofs`, whose invariants it uses |
| `SubmissionRecordProofs` | theorems about `SubmissionRecord` |
| `SlurmProofs`, `CondorProofs`, `KueueProofs`, `JobProofs` | theorems about `SlurmProvider`, `CondorProvider` (with `TokenManager`), `KueueController` and `JobScript` |
| `MCNatsGateway`, `MCPodLifecycle`, `MCKueue`, `MCJobScript` | instances for TLC |

`PodLifecycle` EXTENDS `NatsGateway` and `NatsProvider` (which EXTENDS `Backend`)
and conjoins their actions; `PodContract` is instantiated by `PodLifecycle` under
the refinement mapping `ended <- ranTo`, `gone <- ` the pods the kubelet knows to be
deleted, and `told <- told`.

`CondorProvider` EXTENDS `TokenManager` and `JobScript` EXTENDS `ImageCache`; their steps
are conjoined or interleaved. The providers stand behind `Backend` in the composition:
what `PodLifecycle` needs of them is that a job is created, ends, is told of and is
removed, possibly without an answer; how they get there is in their own modules.

### State

| variable | in the code |
|---|---|
| `podPool`, `podStatus`, `podCache` | the redis hashes `pod:pool`, `pod:status`, `pod:container_statuses` |
| `starts`, `ends` | `metrics.counters['pod_transitions']` with `start`, and with `succeeded`, `failed` or `lost` |
| `calls` | the coroutines of `create_job`, `delete_pod`, `get_pod_status` that await something, one per slot |
| `told` | the container statuses the last `/status` of the pod returned |
| `unsent` | the calls inside `nats.connect` of `nats_connection` |
| `reqs`, `outbox` | NATS messages a responder has not finished with; answers not yet handled |
| `phase`, `listing` | where `main_loop` and `resync` of a responder are |
| `subs`, `leaked` | the pods `_subscriptions` has entries for; those with a live subscription no entry refers to |
| `record` | the jobs of the submission record |
| `job`, `copies`, `ranTo`, `spared` | the batch system: the newest job of a name, how many there are, and (history) the outcomes so far and whether `delete_pod` returned with a job left |
| `vk`, `creates`, `gaveUp` | the virtual kubelet (not in this repository), see below |
| `stops`, `complete`, `listed` | history: responder stops, whether a pool was listed since the last one, pods ever listed |
| `table`, `checked` | `_cached_squeue`, and `_cached_squeue_time` as an age, "processing" or None |
| `fresh`, `gap`, `old` | history: how old what the table has is, the longest such time at the end of a check, and the jobs that had ended a day before the first sacct |
| `slurm`, `ended`, `sandbox`, `logs` | Slurm's accounting with the time since a job ended; the job directory and its logs file |
| `was`, `reported` | history: the terminal phases the states of a job so far stand for, and the one last told |
| `token`, `refreshed` | `_token` and `_last_token_refresh`, as ages, the second modulo a day |
| `answering`, `up`, `idle` | the issuer; for how long it has answered, and for how long nobody asked |
| `queue`, `completed`, `answer` | the jobs of the schedd; those that ever completed; (history) the phase last told of one, and whether it then was in a status no phase stands for |
| `call`, `create` | the coroutines of a provider at the await they have come to |
| `remote`, `cached`, `select` | the image of the proxy by its md5, the file in `cachedir`, and where each script's choice is |
| `at`, `next`, `image`, `process`, `code`, `tar` | a script: its section and the container it has come to, `IMAGE_<uid>`, the containers, their return code files, the tar file |
| `volumes`, `signal` | the volumes of a job on its node; SIGTERM and whether the trap has run |
| `resource`, `applied` | a MasterQueue, and what kopf recorded as handled |
| `memory`, `pending`, `echo` | `__MASTER_QUEUES__`, the object a handler is still subscribing, and the pools former objects write |
| `cq`, `rf`, `rest` | ClusterQueues, ResourceFlavors, and when the timer is due |
| `heard`, `outage` | history: how long each pool was silent, and how long a MasterQueue had no object in the controller |

### Actions

*Gateway.* A coroutine of an asyncio loop is atomic between two awaits and the redis client
is synchronous. So `create_job` is `CreateRequest` (up to the request) and `CreateReply`
(from the answer on), and likewise for the others. `CreateAborted` is a `create_job` whose
script cannot be built: redis is written already. `StatusReply` is all of `get_pod_status`
from the answer on: the translation of the phase and logs to container statuses (`Report`),
`pod:status` (`StatusAfter`), the counters, the cache. `StatusUnknown` and `StatusRetry` are
the retry loop. `StatusFailed` covers the two early ends of it: no responders (the pod is
left out of the answer), and an error response, on whose bytes `.get` raises.
`StatusUnreadable` is the answer whose logs `process_logs` cannot read: it raises before
redis and the counters are written. `Timeout` is the 504. In `PodLifecycle` the `await
nats.connect` before the request is a step of its own (`Connects`, `Send`); the `await
nc.drain()` after the answer only delays what follows, and an answer may stay in `outbox`
for any time.

*Responders.* `CreateCallback` marks the job as submitted and registers the subscriptions;
the three ways its submission can end are `CreateSubmitted`, `CreateRefused` (an
`HTTPException` becomes an error response) and `CreateUnanswered` (anything else: no
response, with or without a job). `DeleteCallback` is `delete_pod` and the response,
`DeleteUnsubscribe` follows; `delete_pod` removes every job of the name (`Remove`), or, with
Slurm, returns although `squeue` or a `scancel` failed and some jobs are left (`Spare`).
`StatusCallback` asks the batch system and applies `Corrected`: unknown becomes pending for
a job of the record. What it may be told (`Observe`) is unknown, the status of the newest
job (`Current`), and where `Stale` holds any earlier pending or running. `Register`
overwrites entries of the table, which is what `leaked` is for.

*NATS.* `Publish` sends a request to its queue group or its subscribers, or has NATS
refuse it. The first answer to a request is handled, others are dropped with the
inbox (`Forget`). Nothing is delivered twice or lost in transit; what is modelled as
loss is an answer that comes after the timeout, a process that dies, and a callback
that ends without a response.

*Virtual kubelet.* Modelled from how it uses the REST calls: it works on one pod one
call at a time, retries a create until one succeeds, may delete a pod any time
after its first create and retries that too, polls what it has not deleted, and
never reuses a uid. `PollsOverlap` lets two polls of one pod be in flight.

*Slurm.* A status call waits for a running sacct (`PollBegin`, `WaitTimesOut`), uses the
table (`Hit`), or runs sacct itself: `SacctStart` takes the lock, `SacctReads` is the
moment sacct reads the accounting, `SacctDone` writes the table and its time, and
`SacctFails` and `SacctRaises` are the ways out that write the time only. `Use` goes on
to the phase or to the logs (`LogsStep`, which spins on an empty file: `Hung`).
`CreatePod`, `SbatchQueues`, `SbatchReturns` and `DeletePod` are the other two methods.
`JobStep` and `Requeue` are Slurm: a job that runs or has ended may be put back to run
again, held in `SPECIAL_EXIT` or not.

*HTCondor.* Each action of `CallStep` is one condor command of a call, with the token
step it takes on the way (`Given`, `RefreshFails`); `Retry` is the loop over
`CONDOR_ATTEMPTS`. `QueryAgain` is the second query of `retrieve_by_name`.

*Job script.* One action per section and container. `FindImage` is one line of
`ContainerSpec.initialize`, since other scripts read and write the same files in
between. `TrapBetween` is the trap after a command, `TrapInWait` the one that
interrupts `wait`; `Kill` takes the script and its containers.

*Controller.* Only `from_kubernetes` really waits, so `create_fn` and `update_fn` are two
steps each (`CreateFn`, `CreateFnSubscribed`; `UpdateFn`, `UpdateFnSubscribed`);
`UpdateResourcesCb` is an announcement, and `Tick` or `TickRaises` is a whole run of the
timer, with or without the KeyError of `ensure_resource_flavors`. `TickUninitialized` is the
run that finds no MasterQueue in memory, because `create_fn` still connects. Time goes on
while the controller is down or connects, which the code does without a limit.

### Abstractions

* A pod stands for its job name (`get_readable_jobid` is injective in namespace,
  name and uid; never reused).
* The tarball of logs is empty, good (all return codes zero), bad, or garbled: no tar
  file, a log that is not UTF-8, a return code file without a number.
* The submission record of a responder is a set in `NatsProvider`: its queue is
  65535 long and its timeout never fires (section 5). `SubmissionRecord` has the
  queue and the clock.
* A status request that was given up has no effect on anybody and is dropped.
  Two creates of one pod that were both given up and wait for one responder are one
  element of `reqs`.
* A pod has one batch system entry `job`: the newest job of its name. Progress of
  older copies is not observed, `copies` counts them.
* One poll is one pod: the gathering of a `/status` batch is left out.
* Slurm states are one of a kind, by the lists they are in: `PENDING` and `RUNNING` in one
  list each, `COMPLETING` (for `STAGE_OUT`, too) in a list of states to go on and in
  the failed ones, `SPECIAL_EXIT` in the failed ones and not an end, `CANCELLED` for the failed
  ends, `NODE_FAIL` for those in no list. Time has units in which the ten seconds, the ten
  minutes, the day and the attempts are `Validity`, `Window`, `Day` and `Attempts`. An age that has
  passed every threshold no longer grows.
* An image is its version; a container has an image that depends on the cache or not.
  What a volume consists of is left out, only its being ready or cleaned up is told.
* A flavor is its pool (or the local flavor); its quotas are left out. Kubernetes and
  Kueue apply what they are sent at once and never refuse it but for the 409 of an
  object that exists.

## 3. What TLC checks

| run | instance | properties | states |
|---|---|---|---|
| `gateway` | the gateway alone; providers answer anything; a pod with a pool and one without, 2 create/delete slots, 2 polls, 2 attempts | `GatewayTypeOK`, `ResultsStand`, `DeletedIsUnassigned` | 11 thousand |
| `reports` | 1 pod, 2 creates, 1 poller with 2 attempts, 1 leader, no stops, a provider that may be behind, counters to 2 | `TypeOK`, `MissingOnlyIfListed`, `EndCountedOnce`, `KeepsContract` | 1.6 million |
| `responders` | 1 pod, 2 creates, a leader and another responder, 1 stop, a provider that forgives | `JobsAreListed`, `DeletedMeansGone`, `OneJobPerPod`, `JobsAreReachable` | 1.9 million |
| `reports_live` | 1 pod, 1 create, 1 poller, 1 leader, 1 stop, a provider that may be behind; fair | `EndIsReported` | 369 thousand |
| `submission_record` | 3 jobs, queue of 3, timeout 2, ages to 4 | `TypeOK`, `RecentIsKnown` | 1.1 thousand |
| `slurm` | 1 job, 2 status calls, `Validity` 1, `Window` 1, `Day` 2, 1 wait for logs, ages to 2 | `SlurmTypeOK`, `OneSacct`, `EndsAreSeen`, `ReportsAreTrue` | 3.2 million |
| `slurm_live` | 1 job, 2 status calls, a table that is never young enough for the next unit of time, 1 wait for logs; fair | `PollsEnd` | 458 thousand |
| `condor` | 1 job, 2 calls, 1 retry, `Validity` 1, `Lifetime` 2, a day of 4; fair | `CondorTypeOK`, `HandedOutIsFresh`, `UnknownIsTrue`, `SucceededIsTrue`, `CallsEnd` | 68 thousand |
| `job_script` | 2 jobs (an init container and two containers; one container), 2 versions of the image; fair | `JobTypeOK`, `VolumesOutliveContainers`, `CodesAreTheirs`, `ImageComesBack`, `ScriptsEnd` | 275 thousand |
| `kueue` | 1 MasterQueue that is one of two specs, 2 pools, 1 queue to lend to, free or somebody else's, `Timeout` 2, `Backoff`, `InitialDelay` and `RetryDelay` 1, 1 edit, 1 restart, 2 units of time without an object; fair | `KueueTypeOK`, `DeadPoolsLeave`, `BranchesAreExclusive`, `AliveIsOffered`, `NamedFlavorsExist`, `UnlentIsHeld` | 332 thousand |
| `submission_timeout`, `unsubscribe` | the same instances, smaller | the findings of section 5 | |

What they show:

* `ResultsStand`, `KeepsContract`: the cache of terminal results is read before the
  first request of a poll and written after the last answer. With one poll of a pod
  at a time nothing else is reported after a result; across creates that come late,
  retries, deletes, stops and gateway restarts, a terminal report is the outcome of a
  job that did end.
* `DeletedIsUnassigned`: late answers of creates and polls rewrite `pod:status` of a
  deleted pod, but never bring it back to a resync list together with the status
  `deleted`.
* `JobsAreListed`: writing `pod:pool` before the request is what makes a restarted
  provider find a job that was submitted while nobody knew whether it would be.
* `DeletedMeansGone`, `OneJobPerPod`: with the exception of pods a create of which
  went unanswered (`gaveUp`). The exception is needed: the provider works on, and
  the kubelet either retries (a second job of the name, as HTCondor takes it) or
  deletes the pod before its job is there. The first property knows one more way for a job
  to be left: its provider forgave a failing `squeue` or `scancel` (`spared`, see section 5). It
  says that there is no third: no create that is to come, no callback that failed
  and was answered all the same.
* `JobsAreReachable`: with the same exceptions, and only after the pools' jobs were
  listed since the last stop. A resync that gives up after five attempts starts a
  leader that knows no job, and does not try again.
* `MissingOnlyIfListed`: the kubelet takes "missing" for the end of the pod (exit code
  404). TLC found that "a pod is reported missing only after its create succeeded" is
  **false**: a create that found no responders leaves its entry in `pod:pool`, a
  provider that starts later subscribes to it, has it in no record, and answers
  unknown, while the kubelet is still to retry the create. What holds is that a resync
  must have named the pod.
* `EndCountedOnce`: the transition to succeeded, failed or lost is counted on the status
  earlier calls left in redis, and a retried create resets that status; the cache,
  read first, is what keeps the count right.
* `EndIsReported`: under the fairness below, the end of a job is reported if its pod
  stays created and somebody answers for it. Two cases are outside it, because the
  code never reports them: logs that `process_logs` cannot read, on which every poll
  raises (`StatusUnreadable`), and a Slurm table that lost the job for good (see `EndsAreSeen`),
  which the fairness of `ServesStatus` leaves out.

* `OneSacct`: the time of the table is a lock, released in `finally`, however sacct
  ends. Callers that waited five seconds read the table under it, without taking it.
* `EndsAreSeen`: sacct looks back ten minutes before the last *check*, but a check that
  failed set the time as well. It is enough as long as no check ended more than ten
  minutes after sacct last read what the table has; if sacct fails for longer, an end
  may be missed for good, and the table goes on saying that the job runs. The first
  sacct of a process looks back one day: what had ended before (`old`) is never seen.
* `ReportsAreTrue`: an entry may be of any age, and the failed states are tested
  before the others and contain `COMPLETING` and `SPECIAL_EXIT`. A job that is seen completing
  is told to have failed and may complete, and one that was told to have ended may be
  requeued and run again. So "nothing is told to have ended that runs on" is **false**;
  what holds is that the job was in a state that is listed for what was told: never is an
  end made up of a table that is old, has no entry, or was being written.
* `PollsEnd`: an sacct that hangs holds up the call that runs it and no other. The
  premise is needed: on an empty logs file the loop reads again without an await
  and counts no attempt, and the whole responder stands still.
* `HandedOutIsFresh`: the refresh time is set before the refresh, so that a failed one
  counts for a whole validity, and the age starts again every day. A token that is
  shown is within its validity only if the issuer has answered for that long and
  somebody asked often enough; both premises are needed.
* `UnknownIsTrue`, `SucceededIsTrue`: a schedd that is away, or a token that is refused,
  ends in an exception and never in an answer; the responder would take unknown
  for a missing job. The output is fetched by a second query, which may find nothing.
  Unknown is also answered of a job in the statuses `unexpanded` (0) and `error` (6), which
  no branch of the provider names and which may go on to run: such a job is in the queue
  and is told to be missing. `UnknownIsTrue` excepts these two and no other.
* `CallsEnd`: retries are counted whatever schedd, issuer and token do.
* `VolumesOutliveContainers`, `CodesAreTheirs`: containers end in any order and are waited
  for in the order of the pod. After SIGTERM both hold only in part: the trap cleans up
  and does not exit, so that the script may go on to start containers on volumes
  that are gone, and a wait that was interrupted tells 143 of a container that may
  end otherwise.
* `ImageComesBack`: two scripts replace one image by two renames each, and a third may
  find none in between; but unless a script dies exactly there, an image that was
  cached is back, again and again, whatever the proxy does.
* `ScriptsEnd`: neither signals nor the cache keep a script from its end.
* `DeadPoolsLeave`: a silent pool is out of every queue that is not held after the
  timeout, plus a timeout and a back-off for each edit of the MasterQueue: an edit
  loses the labels of the pools it takes over, the timer raises KeyError, and kopf
  waits before it runs again. While the controller is down or connects, which nothing
  bounds, Kubernetes goes on offering what it has: the bound grows by that time
  (`outage`), and by one delay of the timer for each start. Once the controller ticks, it
  knows of no pool but those it heard since.
* `AliveIsOffered`: nothing of that, nor a restart, locks a pool out that goes on
  announcing itself. The table must be a new one after a tick that raised, or the
  echo of the replaced object would keep an unlabelled pool in it for ever.
* `NamedFlavorsExist`: the handlers name a flavor that is not written yet; the timer
  writes it or drops it.
* `UnlentIsHeld`, `BranchesAreExclusive`: a queue that is lent to no longer keeps its
  flavors and must be held; one that somebody else made is left alone.

### Why the bounds are enough

The properties speak of one pod at a time, and pods share only the create subscription (a
queue) and the pool's resync list; hence one pod in the composed runs. Two creates are the
least with which a late first one meets its retry; two responders the least for the queue
group and for a leader that takes over another's pod; one stop gives every order of stop,
start and resync with the other actions. The gateway run has two slots of each kind to have
two creates, a create and a delete, and two polls at once. In `slurm` two calls are the
least for a lock and for a table that is read under it; ages in use, within the window or
the day, and beyond are told apart, and that `Validity` and `Window` coincide takes away
only ages at which the table is refreshed anyway; jobs meet in the table only; the theorems
cover any number of both and any thresholds. `slurm_live` needs no clock: nothing that a
call waits for depends on an age, but on a table that is in use or not, which one unit of
time tells. `condor` has a day in which every part (fresh, stale, wrapped) occurs, and a
lifetime longer than the validity. In `job_script` the second job is there for the cache;
two main containers are the least for an order. In `kueue` one edit takes a pool off the
list, puts a local flavor there and stops lending, or undoes all of that; with one restart
it comes before, after or during it; an outage of two units is as long as the timeout, and
the least with which a pool stays offered for longer than the edits and starts alone explain
(with `outage` left out of the bound, TLC finds a counterexample; with `Starts` left out,
too); that several MasterQueues do not take each other's queues is left to the proof. Where
counters are not the subject (`MaxCount = 0`) they are left out. Every bound is a named
constant; `MaxCreates` and `MaxStops` bound the environment, `MaxCount`, `MaxAge` and
`MaxTime` saturate. `CHECK_DEADLOCK` is turned off in `job_script` only, whose scripts end;
the rest of the system never stops.

### Fairness

`FairSpec` assumes weak fairness of the polling loop of the kubelet, of the sleep between
attempts and of request timeouts (all are timers or loops that go on), and strong
fairness of three things that may fail any finite number of times: a request of a poll
gets out, a responder that is asked serves a status other than unknown, and a terminal
answer is handled before its timeout. Nothing is assumed of creates, deletes, stops,
restarts or the batch system. Responders are not assumed to start again, hence the
premise of `EndIsReported` that one answers for the pod. A table that is behind is thus
assumed to catch up: sacct is asked again every ten seconds.

`FairSlurmSpec`: the asyncio loop gets to every call that can go on, reads what sacct printed
and looks for logs again; sacct itself, Slurm and the file system promise nothing.
`FairCondorSpec`: condor commands return, in success or failure; the issuer, the schedd and the
jobs promise nothing. `FairJobSpec`: the node runs a script that has a step to take, and
containers end. `FairSpec` of the controller: time passes, handlers and timers run (kopf
does), and the pools go on announcing themselves, each of which may be heard in time
or not.

## 4. What is proved

`NatsGatewayProofs` proves, for any sets of pods, pools and slots and any bounds that
meet the named assumptions (`PoolAssumption`, `SlotAssumption`, `GatewayAssumption`):

* `GatewayTypeCorrect`: `GatewaySpec => []GatewayTypeOK`. Each action keeps the types;
  the attempt of a poll stays within `MaxAttempts` because `StatusUnknown` puts a call to
  sleep only while attempts are left.
* `ResultsStandCorrect`: `GatewaySpec => []ResultsStand`. `ResultsStand` is not inductive:
  a poll under way could report anything over a cached result. The strengthening,
  `PollInv`, adds that a pod under poll has no cached result and that no two polls of a
  pod are under way when `PollsOverlap` is false. A cached result is then written only
  by the poll that reports it, and while it stands no poll is sent.
* `DeletedIsUnassignedCorrect`: `GatewaySpec => []DeletedIsUnassigned`, overlapping polls
  included; the step that matters is that no poll turns a status into `deleted`
  (`StatusAfter`), and that a create writes both hashes.

`PodLifecycleProofs` proves, of the composed system and for any sets of pods, pools,
calls and responders and any bounds that meet those assumptions with
`BackendAssumption`, `ProviderAssumption` and `LifecycleAssumption`:

* `GatewayImplemented`: `Spec => GatewaySpec`. The gateway takes no step here that it
  does not take in front of providers that answer anything, so the three theorems above
  hold of it whatever the providers, NATS and the kubelet do.
* `LifecycleTypeCorrect`: `Spec => []TypeOK`. The types of the messages need `Exchange`:
  a request belongs to a call that waits, for its pod and of its kind, and an answer is
  of the kind of its call. It holds because a call that ends takes its inbox with it
  (`Forget`), so that a slot never meets the answer to an earlier call.
* `JobsAreListedCorrect`: `Spec => []JobsAreListed`. `ListedInv` adds what is on its way to
  be a job: a create at the gateway, or a request in `reqs`, has the pool of its pod in
  redis or its pod is deleted. `KubeletInv` (a create is under way only for a pod that is
  being created, a delete only for one that is being deleted, and one of the two at a time)
  is why a late answer does not assign a deleted pod again.
* `ContractKept`: `ASSUME UseRedis, ~PollsOverlap PROVE Spec => KeepsContract`, the
  refinement of `PodContract`. `TruthInv`: a terminal status, once in `outbox`, is an
  outcome the job did have, and logs nobody can read are told as nothing. `ToldInv`: a
  result that was told is in the cache as long as the pod is not deleted. With `PollInv` of
  the gateway, a report after a result is the result. Both assumptions are needed: without
  redis a restarted gateway may answer from a new observation, and polls that overlap may
  answer in either order.
* `OneJobPerPodCorrect`, `DeletedMeansGoneCorrect`: `SubmitInv(p)`, of every pod not in
  `gaveUp`, follows the right to submit: it is with the call until the call is sent, with
  one request until the job is there, and with nobody afterwards; an error answer
  means no job, and an acknowledged delete no right and no job that is not `spared`
  (`DeletesLeave` is the lemma about `delete_pod`, `Gone` what it leaves). Neither theorem
  bounds the responders or the retries.

`PodReportProofs` goes on from there, with the same assumptions:

* `EndCountedOnceCorrect`: `ASSUME ~PollsOverlap PROVE Spec => []EndCountedOnce`. `EndInv`: once an
  end is counted, the pod has a cached result, or it is deleted and no poll of it is left.
  The first half keeps a poll from being sent, and the second is needed because a
  delete clears the cache: with `PollInv`, which says that the poll that counts is the only
  one, a late poll can count only the end of a pod that had none. Polls that overlap
  would count twice, hence the assumption.
* `MissingOnlyIfListedCorrect`: `Spec => []MissingOnlyIfListed`. `MissingInv`: a responder
  holds no pods but those in its record and those it was listed (`KnownBy`), so what it is
  asked about and does not know, it was listed; the pod of an "unknown" in `outbox` was
  listed therefore.
* `JobsAreReachableCorrect`: `Spec => []JobsAreReachable`. `ReachInv`: the responder that is
  submitting a job holds its pod, the one about to unsubscribe has removed it, and every job
  of a pool listed since the last stop is heard of (`Hearing`): some responder holds it, or
  is about to, with a resync that names it. `PoolInv` (redis knows a pod by its own pool,
  and only leaders resync) and `JobsAreListed` make the list of a resync complete;
  `DeleteInv` keeps a responder from unsubscribing from a pod with a job that is not
  `spared`.

`SubmissionRecordProofs`, from `RecordAssumption`, for any jobs, bound and timeout:

* `RecordTypeCorrect`, `RecentIsKnownCorrect`: the queue is within its bound and is exactly the last
  `MaxLength` submissions (`IInv`; `AppendKeepsLast` is the lemma about `deque.append`).

`SlurmProofs`, from `SlurmAssumption` and `SlurmDistinct`, for any jobs, calls and windows:

* `SlurmTypeCorrect`: `SlurmSpec => []SlurmTypeOK`.
* `OneSacctCorrect`: `SlurmSpec => []OneSacct`. It is inductive; each action is shown to add
  its call to `Fetching` or to take it away (`FetchingSet` and the lemmas after it).
* `EndsAreSeenCorrect`: `SlurmSpec => []EndsAreSeen`. `EndsInv` adds, while no check was late:
  the time of the table is at most `Window` ahead of what it has read, a running sacct
  looks back at least that far, or a day and everything older is in `old`, and what sacct
  printed completes the table. The table
  is read under the lock, hence `OneSacct` is used in the step of every end of sacct.
* `ReportsAreTrueCorrect`: `SlurmSpec => []ReportsAreTrue`. `ReportInv` says, of every place a
  state is remembered in (the table, what sacct printed, a call that fetches logs, the
  reports), that Slurm did have the job in it; no step takes that back, a requeue included
  (`OnlyMore`).

`CondorProofs`, from `TokenAssumption` and `CondorAssumption`, for any jobs, calls and attempts:

* `CondorTypeCorrect`: attempts are counted within their bound.
* `HandedOutIsFreshCorrect`: `CondorSpec => []HandedOutIsFresh`. `TokenInv` relates three
  clocks: a token is no older than the last refresh, or the issuer has been up for no
  longer than that; and a refresh that is due was due for no longer than nobody asked.
* `UnknownIsTrueCorrect`, `SucceededIsTrueCorrect`: from `AnswerInv`, in which a call that goes
  to fetch output, and a job that is listed as completed, did complete; an answer of unknown
  comes with the queue's own word for it at that time, and a job that has left does not come back
  but by a new submission.

`KueueProofs`, from `KueueAssumption` and `NamesAssumption`, for any MasterQueues, pools and
queues to lend to:

* `KueueTypeCorrect`: `Spec => []KueueTypeOK`.
* `BranchesAreExclusiveCorrect`: `Spec => []BranchesAreExclusive`, for any number of MasterQueues
  that lend to one queue, which the run has only one of: only a timer writes such a queue
  (`OnlyTicksBranch`), and only what it owns or finds absent.
* `DeadPoolsLeaveCorrect`: `Spec => []DeadPoolsLeave`, for any pools, edits, restarts,
  outages, timeout and delays. The bound is not inductive: what an edit may cost is due only
  once its update handler ends. `Owed` counts the updates still to come (two, when an edit
  meets a handler that is subscribing), `Spent` the edits that have been paid for, and
  `Late` what the starts and the time without an object may cost; `Budget` is the bound with
  these. `InTime` then says of a pool that queues offer, or may offer after the next tick,
  that the timer is due before the budget is over, or, without an object, that a timer which
  starts now would be; that so is the tick after that, when a pool in the table without
  labels makes the next one raise; and that there is room for a whole timeout as long as a
  former object may write such a pool (`echo`). `EditsPay`: only an edit that was paid for
  brings about either. Time without an object adds as much to `Late` as to the silence, and
  a restart adds a delay (`LateStep`), hence `TimeAbsentKept` and `RestartKept`.
  `StampsAreTrue` makes a tick drop the silent pools, and with `OwnFlavors` and
  `BranchesAreExclusive` no queue but the MasterQueue's own and those it lends to names
  them. `NamesAssumption` says that the local flavor is no pool and that None is neither an
  object nor a table.

`JobProofs`, from `ScriptAssumption` and `CacheAssumption`, for any number of scripts
with any lists of init containers and containers:

* `JobTypeCorrect`: `JobTypeOK`. `TypeInv` strengthens it by `Counted`: in each section
  `next` stays within the list of that section. It is not inductive alone: the return
  code that the trap writes is a code only because a container that is waited for was
  launched, which the next invariant says.
* `VolumesOutliveContainersCorrect` and `CodesAreTheirsCorrect`: `ScriptInv` says section
  by section which containers have told their return codes (`Told`), which were launched
  (`Started`) and which not yet (`Unstarted`), and that the volumes are ready from the init
  containers to the exit unless SIGTERM was handled. A running container has not told a code, so
  no script is done with one. The return codes cannot change after they were told,
  because no container ends twice; a second script touches none of this
  (`OneScript`), whatever it does to the cached image.

Every safety property of the passing runs is so a theorem. Only model-checked: all liveness
(`EndIsReported`, `PollsEnd`, `CallsEnd`, `ImageComesBack`, `ScriptsEnd`, `AliveIsOffered`,
`NamedFlavorsExist`, `UnlentIsHeld`), which the prover does not reach; the fairness it rests
on is that of section 3.

## 5. Where the code and its comments disagree

| run | comment | code |
|---|---|---|
| `submission_timeout` | `SubmissionRecord.py:53`: a job "has been submitted in the last `timeout_seconds` seconds" | `seconds_since_submission` has the wrong sign: the timeout never fires |
| `unsubscribe` | `BaseNatsProvider.py:288`: "Unsubscribe from all the subscriptions" | a subscription that a second registration pushed out of the table is left alive |

Noticed and not the subject of a run: the comment at `NatsGateway.py:278` names "Conditions
triggering a retrial: unknown phase, NotFound error and Server Internal Error", but `.get`
on the bytes of an error response raises before the status code is looked at, so that such a
poll is not retried (`StatusFailed`); a `squeue` or `scancel` that fails is only logged
(`SlurmProvider.py:408`), so that `delete_pod`, which is to "Delete the Slurm job by its
name" (line 383), is acknowledged and unsubscribed from while the job runs on (`Spare`); the
docstring of `delete_pod` (`NatsGateway.py:199`) says no confirmation is expected, and the
code awaits one; a delete that was carried out and answered too late is answered 502 ever
after, until the provider restarts; the counter of starts counts a start twice if the answer
to a create comes after the first poll that saw the job run.

Of the other modules: the refresh time of a token is set before the refresh is tried, and
its age is taken modulo a day (`utils.py:318`); the second query of `retrieve_by_name`
raises what nobody catches; a removed HTCondor job is unknown for ever, and one that is
unexpanded or in error is unknown while it lasts. A Slurm job that is seen in `COMPLETING`
or `SPECIAL_EXIT` is reported failed, whatever becomes of it, and an empty logs file makes a
responder spin. Logs that cannot be read make every poll of the pod raise. The trap of the
job script cleans up without exiting, so that it cleans up twice and may start containers in
between; a failing init container does not stop those after it; an md5 that cannot be
fetched leaves the script with an image built anew. The update of a MasterQueue loses the
labels of its pools, raises KeyError in the next tick and waits for kopf's back-off; the
object it replaced goes on writing to the table; the deletion of a MasterQueue is handled by
nobody.

## 6. Not modelled

* Argument parsing, logging, metrics but for the pod transitions, charts and images.
* The Kubernetes provider (one API call a method, no state of its own) and the container
  states of Podman, which is the idempotent instance of `Backend`.
* The conversion of pods (`from_kubernetes.py`) and build configurations (`BuildConfig.py`,
  `config_callback`): translation of data without control to speak of; that it may raise
  is `CreateAborted`. `compute_pod_resource` is arithmetic on quantities.
* `/status` as a batch: one failing pod makes the answer for all of them fail.
* Slurm: the choice of flavor and resources, the text of the batch script, the scratch
  area, and a second job of one name (`Backend` has those).
* HTCondor: the calls by job id, which nothing uses, the submit file, and the file
  variant of the token.
* Job script: what a volume consists of (FUSE, git, archives), the network tunnel, the
  token of the image proxy.
* Controller: quotas, API calls that fail, the lending of a local flavor, the deletion of a
  MasterQueue, and a ClusterQueue that has a MasterQueue's own name and another owner.
