# A verification project for V2bX

V2bX is a node backend: it runs the inbounds (VLESS, Hysteria 2, AnyTLS) of one
or more *machines* of an Xboard panel on an embedded sing-box core, lets in the
panel's users, limits them, counts their traffic and reports it. This directory
holds TLA+ modules of its own logic (not of sing-box, nor of the JSON it reads),
TLC configurations that check them on small instances, and proofs that TLAPS
checks for every instance. Paths are relative to the repository's root.

Run a check with `tlc -config MC_X.cfg <module>` (the table below names the
module), a proof with `tlapm XProofs.tla`. `PROJECT.json` maps each definition
to its lines of code and lists runs, mutants, hazards, findings and theorems.

## 1. Inventory

| Component | State it keeps | Operations | Properties that make it right |
| --- | --- | --- | --- |
| Periodic task, `common/task` | running flag, stop channel, a goroutine per Start | Start, Close, tick, stop, Execute | Close reaches every goroutine and never closes a channel twice; a running task keeps executing |
| Traffic, `common/counter`, `core/sing/hook.go`, `core/sing/user.go`, `node/user.go` | counters per tag and user, the uid of each uuid | route a connection, count, collect and reset, post, add and delete users | no byte taken off a count twice; nobody reported as uid 0; what is counted where a report reaches it is collected |
| Controller, `node/controller.go`, `node/task.go` | tag, configuration, user list, limiter, tasks | Start, Close, nodeInfoMonitor | the node comes to run what the panel says; never an inbound without limiter, two inbounds, a dead process |
| Panel client, `api/panel` | ETags and body hash of the last responses, the node's type | GetNodeInfo, GetUserList, GetUserAlive, reports | a change is never taken for no change |
| Core, `core/sing` | inbounds by tag, their users | AddNode, DelNode, AddUsers, DelUsers | as the controller needs |
| Limiter, `limiter` | records, addresses, buckets per user; a registry by tag | AddLimiter, DeleteLimiter, UpdateUser, CheckLimit, GetOnlineDevice | the limit holds, devices are remembered and reported once, buckets are current |
| Machine, `node/machine.go`, `node/node.go` | controllers by node id, two tasks, a mutex | Start, Close, syncTask, updateTasks | one controller per listed node, in the end exactly those |
| Certificates, `node/cert.go`, `node/lego.go` | two files, an ACME account file, a renewal task | requestCert, renewCertTask | the files belong together and to the domain; one that is due is renewed |
| Process, `cmd/server.go`, `conf/watch.go` | the core, the nodes, a file watcher | start, reload, stop | a changed file is loaded; one instance runs |
| Configuration, `conf`, `common/json5` | none | trim comments, parse, defaults | comments and trailing commas go, and nothing else |
| Rate wrapper, `common/rate` | none of its own | wait before read and write | (a third-party bucket) |
| Helpers and commands | none | | |

How they interact. The process starts the core and one Machine per configured
machine. A Machine's *pull task* asks the panel which nodes it should run and
starts or closes a Controller for each, under the machine's mutex. A Controller
owns an inbound of the core, a limiter in the registry, and three tasks of its
own: the *monitor* polls the panel and reloads the node or applies changes of its
users, the *report task* collects traffic and online devices, the *renewal task*
renews its certificate. Connections come from sing-box's goroutines: each looks
up the limiter of its inbound's tag, passes CheckLimit and is wrapped by a
counter that the report task reads. So the actors that meet are: the machine's
sync, each controller's monitor and report, and the connections; they share the
core (whose users are under an RWMutex), the limiter's maps and the counters
(sync.Map and atomics, no lock), and the machine's map (a mutex). Monitors take
no lock, not even against the machine's Close.

What is hard here: tasks that restart themselves while they run; requests that
fail half way through a reload, after the cache has recorded the response;
Close beside a running monitor; reports beside connections; overlapping syncs
whose responses arrive out of order; `log.Panic` in a goroutine, which ends the
process and every node with it. `PROJECT.json` lists each at its line.

## 2. The modules

**Task** (`common/task/task.go`). State: the flag, the number of the channel made
last, the closed channels, and where each goroutine is. The point of the code is
that the goroutine reads the *field* `t.stop` at every select; `EnterSelect` is
that read and a step of its own. `Start` and `Close` may come from anywhere, so
also from within Execute, as the callers do. `failed` is a history variable: once
an Execute returned an error the code gives up some guarantees (a goroutine may
then wait on a channel nobody closes); no task of this program returns one.

**Traffic** (connections, counters, reports). Objects the code allocates, the
TrafficCounter of a tag and the TrafficStorage of a user, are numbered or are members of a
set, since connections keep pointers to objects that have been replaced or deleted. A
connection: `Route` (the hook's checks), `LoadCounter`, `StoreCounter` when that missed,
`GetCounter` or `NewStorage`, then `Add` and `Overwrite` (ConnCounter counts wrongly in
Read: it stores instead of adding). A report goroutine, of which there may be several
(`Restart`: a monitor that changes the push interval closes and starts the task, and a
goroutine at work goes on): `Begin` takes the read lock and looks up the counter of the
tag its controller has *at that moment*; `Load`, `Reset`, `Check`, `Emit` for each key;
`End`, `Post`. A tag is a node and its type: `Start`, `Reload` (which gives another tag
when the type changes) and `Close` are one step each here, as the order within them is
Controller's, and so are `AddUsers` and `DelUsers`, which change the uids before the
inbound may refuse. History: `moved` (what passed), `taken` (what reports have taken off a
count) and `raced` (storages of which two reports had loaded the count before either reset
it). Up and down are one counter, as no code treats them differently. The model ends where
a slice is handed to `ReportUserTraffic`.

**Controller** (a node, with the caching of `api/panel`). Each request and each
call into core or limiter is a step, in the order of the code: Start's six,
Close's three, and the monitor's with its two branches, `Reload` and `Diff`.
`ctl` is where the machine is in this controller's Start or Close, `mon` where
each monitor goroutine is. The panel, external, changes its configuration and
list a bounded number of times. Panics (`DelNodePanics`, `AddNodePanics`,
`WrongType`) end the process; `Restart` is systemd (`v2bx.sh`). A core that fails
is in the constant `Faults`. What is left out: routing rules and alive lists
(values stored without control), `Options.Name` (no configuration sets it).

**Node**, **ControllerNode**. Node is what a controller promises the panel: its inbound
runs one of the configurations the panel has held, and a node that is up puts on only one
newer than all it has run (and another than it ran, unless `MayLose`: a configuration that
was asked for may have come to nothing in between). ControllerNode adds three history
variables to Controller (the configurations held, the place of the latest new response,
the place of the one the inbound was made from; `HistoryNext` takes each step of Next and
updates them), and instantiates Node with `Running`, the inbound the controller has made,
and `Up`. `RunsForward` is Node's specification under that mapping: each step of
Controller is a step of Node or a stutter.

**NodeInfo** (`api/panel/node.go`, `node/cert.go`, `core/sing/node.go`). Pure
functions, as the code calls them one after the other: a response's type and
security (`Decode`), the certificate configuration filled in (`Normal`), what
requestCert then does (`Plan`), and the TLS part of the inbound's options or the
way they fail (`InboundOptions`). A response has the fields that decide anything.

**Cert** (`node/cert.go`, `node/lego.go`, with the calls of Start and of the reload).
`Main` starts, reloads and closes the node; each `Renewer` is the goroutine of a renewal
task. Opening a file truncates it and is a step; writing it is the next. A key is known by
who made it, so that a certificate and a key match or do not. The process may die between
any two steps, a write may fail, the authority may refuse, and so may the core the users:
`AddUsersFails` is the return of a reload before it closes or makes the renewal task.
`Paths` are the pairs of files there may be: the default one, the administrator's, one for
each domain that `{domain}` may stand for, and (`None`) the one where it stands for none.
History: `spoiled` names the pairs whose overwriting was cut short, or that two actors
wrote at once; nothing in the code ever repairs those. `skipped` tells that the inbound
there is came with a reload that returned early.

**Limiter** (`limiter/limiter.go`). Nothing here is under a lock, so that every
access to a `sync.Map` is a step of CheckLimit (`LoadInfo`, `Online`, `Join`,
`Known`, `Forget`, `Undo`, `Admit`), of GetOnlineDevice (`RepBegin`,
`RepUser`, `RepAddress`, `RepDelete`) or of UpdateUser. A user's addresses are a
map *object*: a connection may hold one that a report has taken out. A Range over
a map is any order, with any address added meanwhile, and none left out that was
there all the time. The history variables: `fresh` counts checks not yet
reported; `overlap` tells whether two operations ever overlapped, and `seen` and
`last` are kept until then. `NotReported` in the guard of `Begin` is a bound only: it
keeps `fresh` finite.

**Machine** (`node/machine.go`). The main goroutine and the pull task's: a
request, the wait for the mutex, each node's Start, each Close, and updateTasks
are steps. `running` counts Controllers that were started and not closed; the
code has no such number, which is what `OneController` is about. A node may lose
its inbound (as Controller shows: a reload whose certificate fails); its Close
then fails for ever.

**MachineStatus** (`node/machine_status_linux.go`). The arithmetic of the status
report in unsigned integers, of which there are `Values` (2^64; a few in the run): shares
of the CPU, memory, disk.

**Json5** (`common/json5/json5.go`). `Prep` is the code, as the set of positions it
blanks, each loop a recursive function of the index; `Trimmed` says what is meant,
from a classification of the characters that does not look at the code.

**Service** (`cmd/server.go`, `conf/watch.go`, `node/node.go`, Machine's Close). The
process once it has started: the watcher with its window of ten seconds (two Ticks), and
each reload as a goroutine: it sleeps (one Tick), loads the file, closes the nodes one by
one, closes the core, makes and starts another, and starts the machines one by one; each
of these may fail. The variables the closure shares with main, the configuration, `vc` and
the slice `Node.machines`, are shared here too, and reloads may overlap. A slice is an
object: a Close goes over the one it found. A machine has one field for whether it runs
and one for its sync, which holds the mutex in `apply`; Close takes the mutex, and a sync
that was under way goes on after it and starts the nodes again (`Synced`), as the code
does. It has a monitor too, of a node the panel may change (`Changing`), which takes no
lock: a reload of the node is `BeginReload` (the requests are done), `DelNode`, `AddNode`,
`EndReload`; Close may come in between, finds the inbound away and panics, or deletes it
and has the monitor panic; and `EndReload` may leave the monitor running after Close, as
one that restarts its own task does. A file that is replaced by another one (`Edit` with
`replaced`) takes the watch with it. `down` tells what ended the process. As sing-box has
it, a core that was closed, or failed to start, returns an error when it is closed again.
History: `overlap`, `missed` (a change was ignored that no reload was to load), `caught`
(machines closed while their sync was under way) and `beside` (machines closed while a
monitor was reloading a node).

Mutants, plausible bugs of an operation, stand right before it in each module;
they are not part of the specification. Each property has one that breaks it.

ControllerNode composes Controller with Node, and Cert with NodeInfo. The others compose
by result, not by product: Controller and Machine use Task's rule that a goroutine
restarted from within waits on the new channel (`Waiting`, `Finished`); Machine treats a
Controller's Start and Close as Controller shows them to end; Controller takes requestCert
for a step that works or fails, and Cert shows what it does; Traffic takes starts,
reloads, restarts, closes and the users Controller adds and deletes in any order
Controller allows, and more; Service takes of a Controller's monitor what can meet a
Close.

## 3. The runs

| Run | Module, cfg | What it shows | Bounds |
| --- | --- | --- | --- |
| task | Task, MC_Task | all of Task's properties, under fairness | 3 goroutines, 3 channels: a restart of a restart |
| traffic | Traffic, MC_Traffic | no byte taken twice, no uid 0, also for two reports of one tag at once; what may take a storage out of the reports' reach; what is in reach is collected | 2 types, 2 connections of a user, 2 counters of a tag, 1 storage, 2 report goroutines, 2 changes, 2 bytes, refusals |
| traffic_nodes | Traffic, MC_Traffic_nodes | **violated**: a deletion on one node takes the uid from the other | 2 nodes |
| controller_all | MC_Controller, MC_Controller_all | one inbound, with a limiter that knows its users; the monitor reachable; gone when dropped; no panic but those meant | 4 changes, 2 monitors, 2 intervals, removal, all faults but one |
| node | MC_Node, MC_Node | convergence; Controller implements Node: each step forward, an unchanged node is never reset | 3 changes; the node request, and adding a start's users, fail; 1 monitor |
| controller_lost | MC_Controller, MC_Controller_lost | **violated**: a failed user request loses the change for good | 2 changes |
| controller_cert | MC_Controller, MC_Controller_cert | **violated**: a failed certificate leaves no inbound | 2 changes |
| limiter | MC_Limiter, MC_Limiter | reported once; remembered, limited and current while nothing overlaps | 1 user whose speed changes once, 2 addresses, 2 connections at once, 2 not yet reported |
| machine | MC_Machine, MC_Machine | one controller per node; the sync goes on; convergence; sound figures for every reading | 2 nodes, intervals 0, 1 and 2, 3 goroutines, 2 changes; 8 unsigned integers |
| service | MC_Service, MC_Service | which changes of the file are loaded; no older generation runs on; what ends the process; what the file's reader takes out | 2 changes (so 2 reloads), 3 contents, 2 machines in each generation; a monitor in the first and a sync in the second, 1 lost inbound; texts up to 6 characters |
| cert | MC_Cert, MC_Cert | what is left to load loads; renewal tasks fit the node and a due certificate is renewed, but after a reload that returned early; requestCert and the core agree | 4 responses (ACME, self-signed, no configuration, undecodable), 2 renewal goroutines, 2 of changes, deaths, failed writes; for the last property every response |
| cert_scan | MC_Cert, MC_Cert_scan | **violated**: a start takes the files that are there for its own | 4 responses, 2 changes or deaths |

Why these bounds. Two of each actor are enough for every race in the code, since no step
looks at more than one other actor's traces; a third goroutine in Task and Machine is what
a restart within a restart leaves. A second change of the panel is needed to lose the
first, a third and fourth to come back to a configuration seen before. In Machine a
restart waits for a free goroutine: the code makes one more at every change of the
interval and never ends the old ones, so that the number of goroutines is bounded by the
number of changes only. In `traffic` two changes are a start and then, at any point of the
connections and the reports, a restart (two reports of one tag), a reload to the same or
another type, or a Close; the second connection stores the second counter, and the storage
of the first is what goes out of reach; two bytes are needed for one that is counted while
a report holds another. In `service` the second change may come at any point of the
first's reload, and two machines let the second fail after the first has started. One sync
and one monitor are enough, as each meets one Close only: the monitor that of the first
reload, the sync that of the second. That a sync starts a monitor again after Close is
left to the proof. `controller_all` leaves the fault `startusers` out: a Start whose
AddUsers fails while the machine is up leaves its inbound behind, and a next Start with
another type then makes a second one (`SingleInbound` fails). That is what the code does,
and no text of the repository says otherwise; `node` has that fault instead, and
`ServedUsersKnown` and `NoOtherPanic` are proved with it (section 5). `node` has one
monitor: two of them, after a change of the interval, add their inbounds in any order, and
`RunsForward` fails; for the same reason `ServedUsersKnown` and `NoOtherPanic` speak of
one. In `cert` two events are enough to cut a write short and come back, or to change the
node twice under a renewal; a third renewal goroutine would meet nothing the second does
not. What `PlanCoversOptions`, `StatusSound` and `CommentsTrimmed` say of all inputs (the
inputs that go wrong are `Uncovered`, `Misreported` and `Misread`) TLC evaluates once, for
all of the size named. Six characters hold a string, a comment of either kind, or a
comment between a comma and its bracket. In `controller_lost` the faults are one to keep
the counterexample plain. `VIEW` and `SYMMETRY` of `limiter` identify states that differ
in the content of maps nobody refers to, or by a renaming.

Deadlock checking is off in every run: a stopped task, a panel that changes no
more, or a process that exited is a legal end.

Fairness. Goroutines are scheduled and timers fire, so a step that stays enabled is taken
(WF): ticks, the steps of a report, of a monitor, of a sync. That is of a goroutine, not
of a tag: in Traffic a goroutine whose task is closed may end, and nobody need report what
it reported. A request repeated for ever succeeds now and then, and so does a certificate
request and a node's Start, and the ACME client's two requests (SF); the systemd unit
restarts the process. Go's random order of maps gives each node its turn to be closed
first (SF of `CloseNode`). No fairness is assumed of the panel's changes, of faults, of
the mutex, or of connections.

`Converges` in `node` lets only the node request, and a start's AddUsers, fail. With failing
user requests it is false (run `controller_lost`); with a device limit changed
alone it is false as well, since compareUserList tells users apart by uuid and
speed only.

## 4. What does not hold

* `core/sing/user.go:209`: one `uidMap` for all nodes, keyed by uuid. Deleting a
  user from one node makes him unknown on the other nodes that serve him, whose
  traffic for him is then dropped from the reports. (The uid also goes before the inbound
  is asked to delete the user, line 226: when it refuses, he is let in without a uid.)
* `api/panel/node.go:266`: the configuration is remembered as seen before it is
  applied. When the user request right after it fails, the next polls find
  nothing new, and the change is lost until the next one.
* `node/task.go:130`: a reload deletes the inbound, then asks for a certificate;
  when that fails there is no inbound until the configuration changes, and the
  reload then panics as there is nothing to delete. Nor can such a node be
  closed: Close fails, and a machine's sync ends there each time.
* `node/cert.go:101`: files that exist are taken unread, so that a node in an ACME
  mode starts with the self-signed or other domain's certificate an earlier
  configuration left; the READMEs say such files are cleaned up.

Observed and stated nowhere, hence no findings. In Controller: Close and a running monitor
are not excluded, and the monitor's DelNode of an inbound that Close removed panics, which
ends the process (`NoOtherPanic` without its `listed`); a Start that fails in AddUsers
leaves an inbound nobody owns; two monitors may put on the older of two configurations
last. In Cert: a pair whose overwriting was cut short, or a renewal beside a reload of the
same path, is never repaired, and the node then fails to start; half an account file stops
every request and renewal; a reload whose AddUsers fails (`node/task.go:158`) returns
before it closes or makes the renewal task, so that the inbound is up with the task of an
earlier configuration or with none, and a certificate that comes due is not renewed before
the next reload; a self-signed certificate at the default path fails while its directory
is missing; a certificate that cannot be parsed is taken for one that is not due
(`lego.go:117`). In NodeInfo: Reality with Trojan or Naive, and an HTTP header without a
path, panic. In Json5: a star inside a block comment keeps the character after it, and
`**/` does not end the comment, which then takes the rest of the file. In MachineStatus:
the CPU is reported idle when iowait went back. And: two connections from one new address
at once both pass the device limit (Limiter); a late response of an overlapping sync
closes a node just started, until the next sync (Machine); a device that GetOnlineDevice
has listed may be left out of the post by its traffic (`node/user.go:28`; the Limiter's
properties are about the list).

In Traffic: two first connections of a tag lose one counter; a reload to another type
loses what the old tag still counts, and what its connections that are open go on to move;
so does a Close; two report goroutines of one tag (after a new push interval,
`node/task.go:167`) may both load a count before either resets it, and it is then reported
twice; what is added between a report's Load and its Store(0) is lost. Outside of the
model, as it ends at the call: a post that fails is not made again, and its traffic is
lost; one that times out is sent again, up to three times (`api/panel/panel.go:43`), and
the panel may count it twice. So no property here says that the *panel* is never told more
than what moved.

Not modelled, as each is one line: a rule the panel sends that is no regular expression
panics (`limiter/rule.go:33`), and `nodeReportMinTrafficBytes` is a plain map that the
monitors of several nodes write and reports read (`core/sing/node.go:480`).

In Service: a change of the file that comes five to ten seconds after another one is never
loaded; a file that does not load stops all nodes, and the next change then ends the
process (`vc` is nil), from which systemd recovers; after a core that failed to start no
later change is applied, as closing it fails; a machine closed during its sync runs on on
the closed core for good; a Close that meets a monitor reloading a node ends the process:
it finds the inbound away, or the monitor does after it; a monitor that restarts its own
task after Close polls on for a node that is closed, until it finds a change and panics; a
file that was replaced by another one is watched no more; two reloads at once may lose
a machine or index a nil slice.

## 5. The proofs

All theorems are about any value of the constants, within the ASSUME of each module.
These type the constants and keep marks such as `None` apart from values. Three say a
little more. `LimiterAssumption` has a finite number of connections at once;
`CertAssumption` has the responses in the shape of the code's (`CertConfigs`: a
configuration names both files of a pair or neither, as the model does) and the
administrator's certificate in some domain; `StatusAssumption` has at least one integer.
Where a theorem needs more, the theorem says so.

Each proof has an invariant of its own, a conjunction of named parts, of which the
property is one part or a consequence. One lemma per operation or group of operations
shows that a step keeps it; before that come lemmas on what the operation does to the
records it changes, so that the argument need not look into them again.

* **TaskProofs.** `ChannelInv`: the closed channels were made, and a running task's
  channel is open. That is inductive and gives `CloseIsSafe`. With it, `RunningHasLoop`:
  each Start makes a goroutine that waits on the channel just made or is about to read the
  field, and a goroutine leaves only by a closed channel or a failing Execute, which
  clears the flag (`RunningIsServed`). `LoopInv`, conditional on no Execute having failed:
  a task that does not run has a closed channel, and whoever waits does so on the current
  or a closed one (`NoLoopAbandoned`); without the condition it is false.
* **TrafficProofs**, for any number of nodes, types, controllers, connections and report
  goroutines. `TypeCorrect`. `UidNeverZero`: a report that has checked a uid holds the
  read lock, and uids are deleted only under the write lock. `NoByteReportedTwice`: for
  each storage not in `raced`, what the reports have taken and what is still counted add
  up to at most what moved; the strengthening (`TakenOnce`, `Loaded`) follows the value a
  report has loaded and not yet reset, which is the count or less. The exception is
  needed: two goroutines that have loaded one count both report it. `CountersStayInReach`,
  an action property: a storage that a running report task reaches goes out of reach only
  with its user, to another first connection of the tag (`StoreCounter`), or when a
  controller gives the tag up, by Close or a reload to another type. `NothingElseIsLost`
  is the other direction of the count, for any number of report goroutines: what moved
  stays counted or is taken, but for a Reset after more was added than the Load has seen
  and a plain Read or Write that stores its size over a count; and what is taken is handed
  to the post, unless its user has no uid any more. `UidsLostOnlyByDeletion` delimits the
  first item of section 4: who is let in loses his uid only when he is deleted on another
  node, or when his own inbound refuses to delete him.
* **ControllerProofs**, for any number of monitor goroutines. `Struct` (who uses a field
  or a response has one; no monitor runs while a Start is under way) gives `TypeCorrect`
  and is what all others rest on. A reload deletes the inbound and nobody adds one until
  it does: at most one monitor is between DelNode and AddNode, there is no inbound then
  (`OneReloads`), any inbound is the controller's own, made from its info (`OwnInbound`),
  and the limiter is registered first (`HasLimiter`). This is inductive together only, and
  gives `OneInbound`, `AlwaysLimited`, `ClosedIsGone`. These have the hypothesis
  `"startusers" \notin Faults`: a Start whose AddUsers fails leaves an inbound behind, and
  they are false then (section 3). `CloseReaches` follows the flag and the channel of the
  task alone.

  For one monitor (`chan <= 1`) no such hypothesis is needed. `Sole` says what is true of
  every inbound, the orphans of a failed Start with them: each has a limiter, the node's own
  was made from its info, and a reload has taken away the one it replaces (`LimitedByOne`).
  `Served` and `Known` say what inbound and limiter hold while the monitor is at each place
  of its list of changes: `ServedAreKnown`, and `FewPanics`, since a panic needs a user or
  a type that those exclude.

  `ListIsServed` is the exact form: the inbound lets in the users of the controller's list
  and no other, and the limiter has just their keys. `Exact` follows the difference of two
  lists through DelUsers, AddUsers and UpdateUser (`MonitorApplies`: the inbound is the old
  list without the deleted, then with the added; `UuidsApplied` and `KeysApplied`: that is
  the new list). Its hypotheses are needed: `TakesChanges`, as a failed change stops the
  monitor half-way through the difference and the list it keeps is the old one (and a
  reload that gets no certificate may end at an orphan of a failed Start); and
  `OnePerUuid`, as compareUserList deletes and adds by uuid and speed but the core by uuid.
  It says nothing of the device limit, which no key holds.

  `SettledStays`, for any number of monitors and any faults, is the part of `Converges` that
  needs no fairness: when the node runs what the panel says, the client has seen that
  (`Settled`) and no monitor has an older answer in hand, the next requests answer
  nothing new, and what runs stays. (That the node does run it is not enough: a monitor may
  still have an older list in hand.)

`OnlyCertTakesInbound`, likewise, delimits the third item of section 4: a started node has
its inbound or a monitor on its way to adding it (`HasOrMakes`), and the one step that
ends this is a failing requestCert. A Close that meets a reload finds nothing to delete
and fails, and the reload goes on. Hence `UpWithCerts`: where certificates do not fail,
`NodeUp` holds.
* **NodeProofs.** The refinement, step by step: `NodeInit`, and `NodeStep` with the
  invariant `Pending`: the response a monitor has in hand is the latest there was, later
  in the panel's history than the one the inbound was made from, and it is in hand or has
  been applied. `GoesForward` is for behaviours in which the task is not restarted
  (`[](chan <= 1)`, without which `RunsForward` is false); `GoesForwardAtOneInterval`
  shows that a panel with one pull interval never restarts it. The inbound a failed
  AddUsers of Start leaves is nobody's until one of its type replaces it; both theorems
  allow that failure where certificates do not fail and the node stays on the machine
  (`Replaced`; run `node` has this case, and TLC finds `RunsForward` violated without
  either condition: a reload back to the orphan's tag falls back to it, or loses its
  controller to a Close that deletes it).
* **LimiterProofs.** `NeverOverreported`, by counting: for each device, the checks that
  have not yet stored it and the maps that hold it and are not yet listed are no more than
  the checks not yet reported (`Owed`). This needs that a map of addresses is one user's
  only, whoever holds it (`Owned`). The three theorems on the time before operations
  overlap have `Orderly`: one operation at a time (`Sole`), a user's map has what was
  admitted and what the one check has stored (`Admitted`), and that check knows the state
  as it is (`Informed`). Alone, none of these is kept: what `Known` decides from the last
  report (`Reported`) is what `Undo` takes back from the map.
* **MachineProofs.** `ControllersOwned`: who is between Lock and the end of the sync holds
  the mutex (`LockInv`), so a node found without a controller still has none when its
  Start returns (`StartingInv`). `SettledStays`, the part of `Converges` without fairness:
  a sync starts only nodes of its response (`ByResponse`) and closes only others, so that
  a machine that runs the listed nodes, with no older response under way, starts and
  closes nothing any more while the list stays the same. `PullNeverStops`: a goroutine
  that `Follows` the task's object and channel is replaced by the one that a restart
  makes. `FiguresSound`: what is left of a total is no more than it, and a difference that
  is not negative is exact in unsigned integers.
* **ServiceProofs**, for any number of machines, changes and contents. `Heard` (a change
  has an event or a sleeping reload coming, unless it was ignored or the watch is gone) is
  inductive over everything. The rest is about reloads that do not overlap, `Orderly`:
  what runs is in the node's slice and on the one open core (`Kept`), slices have at their
  places the machines that were started (`Slots`), a closed machine has no goroutine left
  but for a sync that was caught and a monitor it was closed beside (`Parted`), and
  `Doing` says how far the reload is: which machines it has closed, that there is no core,
  which it has started. A start that fails has the machines closed that are in the slice
  (`OrderlyGivesUp`). They give `NothingLeftBehind`, `ReloadsSurvive` and, with `Heard`,
  `ChangesLoaded`.
* **CertProofs**, for any responses, renewals, deaths and failed writes. `Fit` says what
  an actor at each place has in hand (past NewLego, files with names and a domain). For
  each pair of files (`Pair`): whoever writes is alone or the pair is spoiled, has opened
  the certificate before the key, and holds the key of the certificate he wrote; so a pair
  that is there and not being written belongs together. With `Requested` (what the core is
  to load exists) that gives `LoadsWhatIsThere`. `TaskWhenNeeded`: the inbound goes first
  and comes last, and the task with it (`Served`), unless AddUsers fails in between
  (`skipped`), without which exception it is false. `CasesAgree` compares the two lists of
  cases, for a configuration with any contents.

Only model-checked. Liveness under fairness, which TLAPS does not do, nor ENABLED:
`ClosedTaskEnds`, `RunningTaskExecutes`, `EventuallyCollected`, `Converges` (twice),
`CertRenewed`. `CommentsTrimmed`: what Json5's recursive functions compute for texts of
any length needs induction over data. No module uses a RECURSIVE operator.

## 6. What is not modelled, and the plan

Assumptions on the outside: the panel sends ETags or repeats equal bodies; sing-box
does what its interface says; a failed decode of a response fails every time for
that body. A node taken off a machine is not listed again within a run. The
fields that are only copied into sing-box options (`core/sing/node.go`), the spellings
and defaults of the configuration (`conf`), routing rules, `common/rate`, parsing
/proc, and the menu script are data, I/O or unused, and are left out; so are the ACME
protocol, and pairs of files of which only one is named.

Done: Task, Traffic, Controller, Limiter, Machine, Service, Cert, Node, Json5, in that
order, the tasks first since everything runs in them; then their proofs, so that each
invariant that a run checks, but `CommentsTrimmed`, is a theorem. What is left:

1. Of Cert, which pairs are spoiled: that no pair is while renewals and reloads do not meet.
2. Of the liveness properties, what holds without fairness: done for `Converges`, in
   Controller and in Machine (`SettledStays`); for the renewals of Cert it is not.
