# fabric-rs: a TLA+ model of the program, its checks and its proofs

fabric-rs turns a Linux host into a node of a routed fabric. A user-space
program finds its neighbours with broadcast *hello* packets and keeps three
tables; an XDP program in the kernel forwards IPv4 packets by a
longest-prefix-match map that the user-space program fills. This directory
models the user-space program as communicating tasks, the XDP program as a
reader of their map, and the process around both from its configuration to its
end; checks all of it with TLC, and proves the safety of every part with TLAPS.

## Inventory

Paths are relative to `fabric-rs-userspace/src/` unless they say otherwise.

| component | state | operations | talks to |
|---|---|---|---|
| **State actor** `state/state.rs` | three tables, a command channel of 32 | `StateClient::add / get / del / list`; the task's `Add / Del / Get / List` arms | its clients by `mpsc` + `oneshot`; the kernel map |
| **Tables** `state/table/**` | two `HashMap`s, one kernel LPM trie behind a mutex | `add / get / remove / list` | used by the State task only |
| **Discovery** `lib.rs` (`receiver`, `disco_handler`), `neighbor_table.rs` | the frame or hello in hand | skip a frame; hello: `get`, add an interface to the copy, `add` | receives frames from SendReceive, calls State |
| **SendReceive** `send_receive/send_receive.rs` | client handle (an `Option`), three channels of 100, one socket pair per interface | `client`, `run`, `send`; tasks: reader per interface, forwarder, sender | the kernel's packet sockets, UserSpace |
| **UserSpace** `lib.rs` (`run`, `disco_sender`) | which parts exist and which handles they hold | startup in a fixed order; every 5 s a hello per interface | all of the above |
| **Cli** `cli/cli.rs` | a command channel of 32, the prompt task, the server task | list a table, exit; an input error or a failed list panics the prompt | State |
| **Interface** `interface/interface.rs` | the fields found so far | index by name, address by name, hardware address by index | main; the host's links |
| **main** `fabric-rs/src/main.rs` | the list of interfaces, the loaded XDP program, a `JoinHandle` | configure, probe, load, attach, spawn UserSpace, `join_all`, Ctrl-C, return | kernel, UserSpace |
| **tokio** (external) | worker threads, run queue, slots, budgets | poll a task, wake a task | every task |
| **XDP program** `fabric-rs-ebpf/src/main.rs` | reads the kernel map | look up the destination, rewrite MACs, redirect or pass | kernel map |
| disco-rs, fabric-rs-config, conf-rs, xtask, `lib copy.rs.bak` | - | packet layout, an unused Kubernetes client, a greeting, build helpers, uncompiled backup | not modelled |

**What is hard here.** Everything runs as tokio tasks that share nothing but
channels, so orders nobody tested are the rule: commands of several callers
queue up behind each other; `disco_handler` reads, changes and writes a
neighbour with two awaits in between; readers work while `run` is still opening
later interfaces and may panic; callers may drop a call whose answer is
still on its way; bounded channels fill up; a task that panics disappears
silently, some of its channels close with it and some do not; startup hands
out handles before what they stand for exists; some tasks block the worker
thread they are polled on; and links come and go between the queries main makes
about them. The hazards are listed line by line in `PROJECT.json`, each with the
properties that cover it. Two have none, because no behaviour of the program
gives a property something to be about: nothing in the repository writes the
routes on which a forwarding loop would depend, and nothing removes or ages a
neighbour.

**What makes each part correct.**

* State: to its callers it is one atomic set of tables; an answer reaches the
  call that asked and no other; nobody waits forever while the task lives.
* Tables: values stay in their table; the trie holds one entry per node and no
  more than it may; what it refuses is all that is missing from it.
* Discovery: every hello received is heard exactly once, in order, and stays.
* SendReceive: frames of an interface keep their order, none is lost or doubled
  while the tasks live, and a dying task loses only what it was responsible for.
* UserSpace: nothing that arrives during a startup that succeeds is lost, and
  one that fails loses no more than a channel of frames beside what its readers
  hold; hellos are sent, or the failure is reported. (This last one does not
  hold, see *Findings*.)
* Cli: a typed command ends; what it prints is no older than the command.
* main and Interface: what is known of an interface is of one link; a link that
  is read also forwards; who is told when something ends.
* tokio: a task that can run is polled, as long as not all workers are blocked.
* XDP: the kernel map is what was written, but for the kernel's refusals, and a
  frame is treated as it says, from the moment on at which the writer may rely on
  it; an entry for a network is for the addresses of that network. (The last part
  holds for host routes only, see *Findings*.)

## The modules

| module | models | state and actions in the code's terms |
|---|---|---|
| `LpmTrie` | the kernel's trie as the program uses it | keys are built from host-order integers on a little-endian machine, so `TrieBit` counts from the lowest byte while `NetworkBit` counts from the top; lookup, update (refused when full or too long, else it replaces the node), delete. External: translated from how `forwarding_table.rs` calls it |
| `Tables` | trait `Table` for its three implementations, `StateCommand` and the match in `State::run` | `Apply` is what an arm does to the tables, `Answer` what it sends on the oneshot |
| `StateServer` | State and StateClient | `queue` is the channel; a call is `Call`, `Send` (await on `tx.send`), `Return` (await on the oneshot), and may be dropped at either await (`Cancel`); `HandleAdd/Del/Get/List` are the arms; `PanicInList` is the `unwrap` in `ForwardingTable::list` |
| `TableStore` | the promise: atomic tables | `Invoke`, `PerformUpdate`, `PerformQuery`, `ReturnAnswer`, `ReturnError`, `Abandon` |
| `StateHistory` | StateServer with two history variables | `views[i]`: the tables after the first `i` queued commands; `expected[c]`: what the call was bound to be told. `Linearizable` instantiates `TableStore` |
| `StateServerProofs` | the theorems about the three modules above | |
| `DataPlane` | the XDP program over the trie that `StateHistory`'s task writes | one run of the program per cpu at a time: `FrameIn`, then `NotForwarded`, or `Lookup` and `Forward`; `Decide` and `Redirect` are what it does with the hops. Every client step appears as `Client*`; `settled` and `fresh` are history |
| `RouteHistory` | DataPlane with the history of the routes | `written`: the routes as the controller wrote them; `refused`: those whose last add the kernel refuses, which `ForwardingTable::add` tells nobody; `CommandSent` is `ClientSends` with this history |
| `DataPlaneProofs` | the theorems about both | |
| `NeighborData`, `Neighborhood` | a hello, a `Neighbor`; the promise of discovery | `Receive`, `Hear`, `PassOver`; `known` is what the State actor's table will be once the adds in its channel are served (`Known`) |
| `Discovery` | receiver task + `disco_handler` + listings on the command line, on top of an instance of `StateServer` | `TakeHello` starts the get, `GetReturned` the add, `HelloDone` returns |
| `SendReceive` | the reader, forwarder and sender tasks, the client handle, startup and its panics | a frame is `<<interface, k>>`; `own` and `handle` say whether a client holds the channel or `None`. `Run`, `OpenInterface` per interface and `SpawnRest` are the start, `RunPanics` may end it at any interface; `slot` is the worker slot the forwarder was woken into, `stuck` the receiver's endless wait for a dead State task |
| `Links` | the promise of SendReceive: each interface is a link in and a link out | `Come`, `Give`, `TakeOne`, `SendOne`; `Cut` is the death of the one sender task, which loses at most a channel and a frame |
| `UserSpace` | `UserSpace::run` and `disco_sender` around SendReceive | `step` is how far `run` has come; `TakeClient` .. `StartHellos` are its statements, `StartSendReceive`, `StartInterface` and `SendReceiveStarted` those of `sr.run()`; `Tick`, `SayHello` the hello loop |
| `Cli` | `cli/cli.rs` on top of Discovery, whose Console is the server task's StateClient | `prompt` is the prompt task (`TypeTable`, `SendRequest`, `TakeAnswer`, `Leave`), `requests` the channel, `serving` the server task (`Serve`, `AnswerPrompt`); everything else is a step of Discovery (`Beside`) |
| `Lifecycle` | `main`, `Interface::new`, the start and the `join_all` of `UserSpace::run`, links that change | `main` is the statement main is at, one action each; a link is its index; `readers` and `alive` are the tasks that are left |
| `Runtime` | tokio's workers as far as blocking calls matter | a reader's `next()` and the prompt's `prompt()` keep their worker (`Blocked`); `Wake` puts a task in the slot of the worker it is woken on; `Spend` and `Yield` are the budget |
| `SendReceiveProofs`, `UserSpaceProofs`, `DiscoveryProofs`, `CliProofs`, `LifecycleProofs`, `RuntimeProofs` | the theorems about these modules | |
| `MC*` | instances for TLC | |

Composition: `Discovery` holds `StateServer` by `INSTANCE`, with the receiver
and the command line as its two clients, and refines `Neighborhood`;
`StateHistory` extends `StateServer` and refines `TableStore`; `DataPlane`
extends `StateHistory`, whose `tables["ForwardingTable"]` is the map it reads
and whose `views` tell what that map will be once the channel is served;
`RouteHistory` extends it; `SendReceive` refines `Links`; `UserSpace` extends it
and drives its `Client`, its start and its `Send`; `Cli` extends `Discovery` and
replaces its listings out of nowhere by those of its server task.
`Lifecycle` and `Runtime` stand beside them: each takes one aspect of all tasks,
being alive or being polled, and leaves out what the tasks say to each other.

An operator whose comment starts with *Mutant of* is no part of a model. It is
a wrong version of the definition after it; each property was checked to fail
when the definition is replaced by such a version (`mutants` in `PROJECT.json`).

Modelling choices a reader should know:

* *Dropped calls.* Nothing in the program drops a StateClient future today, but
  the State task handles it (`state.rs:118` and its likes log a oneshot without
  receiver) and any `select!` or timeout around a call would do it, so `Cancel`
  is part of the actor's environment.
* *A dead State task.* The receiver of the command channel sits in an `Arc`
  inside `State`, which lives in `UserSpace::run` until its `join_all` ends, that
  is, forever. So the channel never closes: sends succeed until it is full and
  the oneshots in it are neither used nor dropped.
* *The kernel map.* Whether iterating can fail is the constant `MapFaults`.
  Errors of insert and remove are ignored by the program and therefore are
  simply "no change" in the model; `RouteHistory` remembers them.
* *The controller.* Nothing in today's program calls `add` or `del` on the
  forwarding table, although StateClient offers both. `DataPlane` has one client,
  the `Controller`, that does; every other client calls anything else. With
  several writers it would take a rule to say which of their writes counts. The
  routes *in force* (`InForce`) are the map once the channel is served, the kernel's
  refusals included; the routes *written* are those of `RouteHistory`.
* *A frame in the XDP program* reads the map once. The hops it found stay as they
  were although the entry is replaced meanwhile (the kernel frees a node of the
  trie only after its readers are gone), so `Lookup` and `Forward` are two steps
  and the second does not look at the map.
* *History.* `expected` of StateHistory holds a value only while its call is at
  an await; it is cleared when the call returns or is dropped, in TableStore too.
* *Hellos* are records of the fields `disco_handler` reads. Hellos that the
  program itself sends have no hardware address; `Macs` covers what any node may
  send.
* *A start that fails* drops the channel of the readers with what it holds. The
  model leaves those frames where they were (`Lost`), so that a property can
  speak of them; nobody takes them any more.
* *Sockets* never lose frames in the model: a frame exists from the moment the
  reader's socket has it. `dl_rx.next()` and `send_to` may fail at any time.
* *Links* are known by their index. The kernel numbers upwards and a link is
  never renamed in the model; it may be removed, or replaced under its name by a
  new one, at any time before the process ends. An address carries the link it
  was read from. A query that needs a link fails without it and may fail with it.
* *The end of the process.* Returning from main drops `bpf`, which detaches the
  XDP program, and then the runtime, which waits for worker threads in a blocking
  call. `exit(0)` at the prompt and a Ctrl-C nobody asked for drop nothing.
* *tokio* (external) is modelled from its documented scheduler: one queue, a slot
  per worker that others cannot take from, a budget of channel operations. Work
  stealing among workers is the shared queue. Tasks that never block a worker
  are one task, `Rest`; the forwarder's own send never waits in `Runtime`,
  which `SendReceive` does not assume.

## The runs

| run | question | bounds, and why they are enough |
|---|---|---|
| `state_history` | do callers see atomic tables, does every answer reach its call, does every call end, does the invariant of the proof hold? | two callers, a channel of 2, one neighbour: enough for a command of another caller, or a dropped one of the same, to be queued before and after any call. The theorems cover all other sizes |
| `state_trie` | does the forwarding table stay well formed, and does a lookup find the longest match? | one caller with up to two commands queued; four prefixes of which two share a node, one has its own and one is refused; a map of 2 entries so that it fills up; two hops, so that the wrong one can be found |
| `discovery` | is get + add atomic, is death never reported, how far is the table behind, does a hello reach it? | one node heard with two addresses on two interfaces (an update could be lost), a frame channel of 1, a command channel of 2 that listings share |
| `send_receive` | order and loss of frames that go out; are they sent; is an interface a link from outside? | two interfaces, channels of 1, two frames each way per interface. 831,722 states |
| `user_space` | are frames that come in kept in order, what is lost, do the others get through, early ones included; does a hello leave? | two interfaces, channels of 1 that are full all the time, two frames each, which can be in the wrong order; two rounds of hellos. The start may fail at either interface, with or without frames of the other passed on before. 33,600 states |
| `cli` | is a listing current, does a command end, whom does the prompt wait for, what does it know of a dead State task? | one node with two addresses, channels of 1 and 2: hellos and listings compete for the command channel, and a hello's add may wait behind or before the listing |
| `lifecycle` | is an interface of one link, are readers on links with the program, who notices an end, what may hold the process after Ctrl-C? | two configured names, five links ever: both may be replaced between any two queries, and one of them once more |
| `runtime` | is a wake-up lost, who is starved, and for how long? | two workers, two readers and a prompt: as many blocking tasks as workers and one more, so none, one or both workers are blocked; a channel of 2 and a budget of 3 are used up |
| `data_plane` | is the kernel map what the controller wrote once it was answered, do frames follow it, are host routes shadowed? | the controller alone with two commands in the channel, a network and a host in it, entries with and without hops, one cpu. A kernel map of two entries, so that both routes fit and a third add, to either of them, is refused. Both orders of the routes, a stale table, refusals and their repair all occur; that the State task dies is in `shared_channel`. 1,609,810 states |
| `shared_channel` | does the invariant of the proof hold when the channel is shared? | two clients, channel of 2, one route: another client's command or a dropped one before, between and after the controller's |
| `network_route` | does "no route" mean that no network contains the address? (violated) | addresses of two one-bit bytes are the smallest in which the order of bytes shows |
| `hello_lost` | is a hello sent or reported? (violated) | the first hello is enough |

`CHECK_DEADLOCK FALSE` is set because the environment may stop: callers need
not call, frames stop at the bound, and a dead State task really leaves its
callers waiting. The bounds `MaxArrivals`, `MaxSends` and `MaxRounds` limit
what the environment does, never what a task may do.

**Fairness.** tokio polls every task that has been woken, so every task step
that stays possible is taken (weak fairness). The semaphore in a tokio `mpsc`
channel is a FIFO: a sender that waits for room gets it after finitely many
others, although room comes and goes; that is strong fairness of `Send`,
`SendCommand` and `PassOn`. No fairness is assumed for calls, drops, arrivals,
listings, ticks or failures, nor for anything that is typed. In `Cli` the tasks of
Discovery are fair for as long as there is a process. In `Lifecycle` the only
fairness is that a reader whose link is gone is told so, and that the runtime
ends when nothing blocks it; that frames come on a link is not assumed.

That "every task is polled" is itself at risk in this program: each reader and
the prompt block a worker thread. `Runtime` says when it holds. There, fairness is
assumed of a worker only while it is not in a blocking call. The other modules
assume that there are more workers than interfaces plus one, which `EnoughWorkers`
and `NobodyStarves` show to be enough for every task in the *queue*. It is not
enough for the forwarder, which a reader may wake into the slot of the worker that
it then blocks, nor does it help a task that awaits something that never comes.
So in `SendReceive` (and `UserSpace`, which extends it)

* the forwarder takes a frame only while the reader in whose slot it was put is
  not in `next()` (`slot`, `ForwarderTakes`); its weak fairness asks for no more.
  `FramesGetThrough` and `EarlyFrameIsReceived` except the frame that is stranded
  for good because no other comes on that interface (`Stranded`);
* the receiver may stop for good after any frame (`ReceiverStops`), as it does
  when `disco_handler` asks a dead State task. In `UserSpace` that takes a prompt,
  which is started last (`ReceiverIsStuck`). The two properties except that too.

Tasks that other tasks than the readers wake are in no such slot: who wakes the
receiver, the sender, the State task or the server task does not block its worker
afterwards, except the prompt, which awaits the answer first.

The runs with temporal properties check safety under the same fair
specification; the safety properties do not need it.

**What the runs about blocking and ending show.**

* `runtime`: a task in the queue is polled unless at some moment all workers are
  blocked for good. A spinning forwarder starves nobody: its operations use up
  the budget. What the slot holds is different: the forwarder that a reader wakes sits in that reader's
  slot while the reader blocks in `next()` again, and no idle worker may take it.
  `SlotIsServed` therefore promises only that it is polled *or* the worker is
  blocked for ever: a frame may wait in the channel until the same interface has
  received more, up to the capacity of the channel or the budget.
  `NoWakeUpIsLost` is the safety under both: every task that could go on is in one
  place where the runtime finds it. The forwarder parks only on an open channel
  without a frame, although the last frame or the last reader's death may come from
  another worker; and a reader waits only for room that is taken or promised.
* `lifecycle`: the hardware address is asked for by the index found first, which
  is what keeps an `Interface` in one piece (`ProbeIsOfOneLink`). Only a start
  that failed ever ends the two `join_all`. A Ctrl-C after that ends the
  process once every reader that was left over has been given a frame or has lost
  its link; until then it hangs, and nothing else can make it
  (`OnlyAReaderHoldsTheProcess`).
* `user_space`: a frame that comes in is lost only in three ways. Its reader dies
  before passing it on; `run` panics on a later interface after it was passed on,
  with its reader alive; or it sits in a channel whose next task is stranded or
  stuck. The second was a surprise: the readers of earlier interfaces run while
  `run` is still opening the next one, and their channel is open until it panics.
* `cli`: a listing shows every hello handled before it was typed. The State task
  can die only of a listing, and only the prompt asks for listings, so the prompt
  that would show the dead task's tables dies with it (`StateTakesPromptAlong`). Until then its command is in one of four
  places, and whoever has it there is alive (`PromptWaitsForSomebody`): a oneshot
  dropped on the way would leave the prompt waiting for nobody.
* `discovery`: `disco_handler` returns when its add is queued, whatever else is
  queued. Still the table is never more than one hello behind what was handled
  (`TableIsOneHelloBehind`), because the get of the next hello waits behind the add
  of the last: a State task that dies costs one hello, and not a channel full.

## Findings

`hello_lost`: `UserSpace::run` copies the client of SendReceive (`lib.rs:44`)
before `SendReceive::run` puts the channel into it (`lib.rs:52`,
`send_receive.rs:47`). The copy given to `disco_sender` holds `None` for ever,
`send` on it does nothing and returns `Ok`. TLC's trace is the startup sequence
followed by one tick and one hello. `NoHelloEverLeaves`, in `user_space`, is the
complement: it holds in every execution, so discovery never starts on any node
of a fabric made of this program.

`network_route`: `ForwardingTable::add` and the XDP program build their keys from
host-order integers (`forwarding_table.rs:72`, `fabric-rs-ebpf/src/main.rs:63`),
the kernel compares a key byte by byte in memory order. On the little-endian
machines the program is built for that is the lowest byte of the address first,
so a /24 is about the last three bytes of an address. TLC's trace adds one
network, and a frame to one of its addresses finds nothing. Both halves make the
same mistake, so host routes work; `HostRouteWins` and its theorem say so.

That the order of bytes is the *whole* cause is proved (`OneByteIsInOrder`,
`OrderIsAllThatIsMissing` in `DataPlaneProofs`). A frame without a hop is one that
no route in force answers in the order the trie compares addresses in
(`NoHopNoMatch`), with nothing left in the channel; if that order were the one
networks are written in (as it is when an address has one byte), the violated
property would hold for all constants. It is about the routes in force. A route that
the kernel refused is missing as well, without anybody being told:
`MapIsAsWritten` says that this is the only way in which the map and what the
controller wrote differ once it was answered.

## Proofs

`StateServerProofs` proves, for all constants that satisfy the assumptions in
`LpmTrie`, `Tables` and `StateServer` (any set of callers, any capacity >= 1,
any tables, address width and map size; that "pending", "error" and "no
command" are not answers or commands):

* `TypeCorrect`: `Spec => []TypeOK`.
* `NodesCorrect`: `Spec => []OneEntryPerNode`. An update clears the entries of
  its node before it writes and is refused when the map is full.
* `HistoryCorrect`: `HSpec => []HistoryInv`, the inductive invariant. Types
  alone do not show that a reply is right: one has to know that the tables a
  queued command will meet are `views[i - 1]` (`ViewsFollowTheQueue`), that a
  live oneshot in the queue belongs to a caller who waits for exactly that
  command and was promised exactly that answer (`OpenEntriesAreOwed`), that a
  caller has at most one (`OneOpenEntry`) and that one who waits has one
  (`OwedCallsAreOpen`). Serving the head of the queue shifts `views` by one,
  sending extends it by one; a dropped call only closes entries.
* `ActorIsLinearizable`: `HSpec => Linearizable`. Initial states map to initial
  states; `Send` of an add or del maps to `PerformUpdate`, of a query to
  `PerformQuery`; serving a command is a stutter, because
  `views[Len(queue)]` does not change.
* `OneOneshotCorrect` and `AnswersMatchTheirTable`, for `Spec` itself, from the
  inductive `OneshotInv`, which is what `HistoryInv` says of oneshots without its
  history: the live entries are those of the waiting calls, one each, and a get's
  answer is of its table. `HistoryHasOneshots` gets it back from `HistoryInv`, and
  every behaviour of `HSpec` is one of `Spec` (`HistoryIsExtra`).
* `LongestMatchCorrect`: `Spec => []LongestMatchWins`, on top of `NodesCorrect`. That
  some longest hit exists is the least element of a well-founded order on prefix
  lengths (`Highest`), so the map need not be finite for it; that there is only one
  is that two hits of one length are in one node.

`DataPlaneProofs` adds, for any set of cpus and destinations besides, as long as
one client writes the routes:

* `SettledCorrect`: `DataSpec => []SettledInv`, on top of `HistoryInv` (every
  step of the data plane is a step of `HSpec` or leaves its variables alone). The
  property alone is not inductive, because a lookup reads the map and the
  property is about what the channel will make of it. `QueryIsBarrier` is the
  heart: behind a live query of the controller no entry changes a route, since
  the controller is the only writer and waits; so when its oneshot is answered,
  by the answer or by the task's death, the whole channel leaves the routes
  alone (`AnsweredMeansServed`), and a lookup since then is still what a lookup
  would find (`FreshLookups`).
* `SettledRoutesCorrect`: `DataSpec => []SettledRoutesForward`.
* `HostRouteCorrect`: `DataSpec => []HostRouteWins`. The longest hit for an
  address has the host's length and bits, is therefore in its node, and by
  `NodesCorrect` a node has one entry.
* `WrittenCorrect`: `RouteSpec => []MapIsAsWritten`. What was written and what the
  channel will leave in force meet in the invariant `WrittenInForce`: they agree
  on every prefix unless the last add of its node was refused, and nothing too
  long is ever in force (a delete of it is refused too, and need not do
  anything). Each write changes both in one node of the trie, which takes that
  being in one node is an equivalence (`SameNodeIsEquivalence`,
  `WriteKeepsForce`), and serving a command changes neither. With
  `SettledCorrect`, the routes in force are the map itself once the controller
  was answered.
* `DataUsesStore`: `DataSpec => Linearizable`. The program only reads, so its
  clients still have their atomic store.

The other proof modules follow the components. Each strengthens the type
invariant by what its steps need to know of each other:

* `SendReceiveProofs`, for any interfaces, clients and capacities >= 1:
  `SendReceiveTypeCorrect`; `InboundCorrect`, that `InboundInOrder` is
  inductive beside the types: `Carries` is stated about the concatenation of all
  places a frame can be in, so each step moves one frame from the head of one
  place to the end of the next (`HeadGoesOver`, `CarriesNext`) and the number of
  frames passed on grows with `PassOn` only; a failing start loses what is in the
  readers' channel and nothing beyond it because no forwarder exists yet
  (`NothingForwarded`, `FailedStartLoses`); and `OutboundCorrect`, where the
  invariant is `OutOrder`: until the sender dies what was accepted for an
  interface is on its wire, in the sender's hand or in the channel, in order
  (`OutgoingIsNext` finds in it that the frame in hand is the next of its
  interface, `CarriesWithout` takes away a frame of another one). What is missing
  is then in the hand or the channel (`MissingIsQueued`, by a surjection from
  their positions), and stays what it was once the sender is dead.
  `SendReceiveImplements` is the refinement of `Links`: `FrameArrives`
  maps to `Come`, `ReceiverTakes` to `Give`, `Accept` to `TakeOne`, `Transmit` to
  `SendOne`, `TransmitFails` to `Cut`, everything else to a stutter. That
  what the receiver is given is the *next* frame needs that it was never given a
  later one, which is `Carries` once more, and that all frames are of the
  interfaces there are (`NoForeign`, beside the types).
* `UserSpaceProofs`: `UserTypeCorrect` and `HelloNeverLeaves`. The handle of
  disco_sender is made when `own` is still `"none"`, and nothing makes it again.
  `UserUsesSendReceive` shows every behaviour of UserSpace to be one of
  SendReceive, whose theorems then hold of it (`UserInboundCorrect`,
  `UserKeepsLinks`).
* `DiscoveryProofs`, where "nothing known" is assumed to be no neighbour and no
  interface: `DiscoveryTypeCorrect` and `DeathStaysUnreported`. A oneshot
  of the receiver is only ever in a get, and a get never fails; the invariant says
  which command each client may have in the channel. `DiscoveryImplements`, the
  refinement of `Neighborhood`: frames map to frames, an add of the receiver that
  enters the command channel to `Hear`, every other step to a stutter. The
  invariant behind it is `HelloOrder`: the receiver has at most an add and a later
  get in the channel, so at most one add is there in all (`OneAdd`) and what a
  channel makes of the table (`KnownAfter`) needs no fold; the get is answered
  after that add, so what the receiver then sends is the neighbour as it is known,
  with one interface more. Serving a command changes table and channel together
  and not what is known (`ServingIsKnown`).
  `DiscoveryUsesActor`: every behaviour of Discovery is one of the State actor.
  `LagCorrect`: `OneAdd` bounds how far the table is behind by the one add in the
  channel; that this add is a hello merged into the entry it replaces is the part
  to carry along (`AddsAreHellos`).
* `CliProofs`: `PromptGoesWithState`. A list is in the channel or at the State task
  only while the server task serves one, which is only while the prompt waits.
  `ListingCorrect` (and `CliTypeCorrect`) add that what was known when the command
  was typed stays known (`KnownGrows`, from the refinement above), and that a list
  in the command channel will find what is known after the commands before it
  (`ListFinds`); with it in front that is the table itself. `WaitingCorrect` adds
  only `UnderWay` to that: the prompt's request is at the server task when it is
  not in their channel, and while the server task has no answer its list is on the
  way into the command channel or in it. That the lists are the right ones and the
  State task lives is `ListingInv` already.
  `DiscoveryUnderCli` carries the theorems about discovery over: with the real
  server task in place of listings out of nowhere, a step of the command line is
  a step of a client that lists tables, or none.
* `LifecycleProofs`: `TypeCorrect`, `ProbeCorrect`, `AttachCorrect` and
  `JoinCorrect`, from one invariant (`LifeInv`) about which interfaces have been
  dealt with at each statement of main, that no index is used twice, and that a
  link whose program is gone does not exist any more.

* `RuntimeProofs`, for any workers, readers, capacity and budget:
  `RuntimeTypeCorrect` and `WakeUpsCorrect`. That nobody is parked who could go on
  is not inductive; `RuntimeInv` says exactly which tasks are parked
  (`ParkedTasks`), that the readers that wait stand in line once each, and that
  then all room is taken or promised (`Waiting`). A lemma for each way a task moves
  between queue, slot and job says who is parked afterwards. `EnoughWorkers`, for
  finitely many workers: with more of them than readers and prompt one is always
  outside a blocking call, since what blocks two workers is two tasks. Its corollary
  `NobodyStarves` removes the "or all workers are blocked" from `RunnableIsPolled`:
  given the one, every task that is queued is polled. The fairness of the other
  modules rests on that, and on what *Fairness* above says of slots.

Every invariant and every refinement that a passing run checks has a theorem.
Only model-checked is liveness, which TLAPS does not prove: `EveryCallEnds`,
`HelloReachesTheTable`, `FramesGetThrough`, `AcceptedIsSent`,
`EarlyFrameIsReceived`, `EveryCommandEnds`, `OnlyAReaderHoldsTheProcess`,
`RunnableIsPolled` and `SlotIsServed`.

## Not modelled

* *A fabric of several nodes.* Do frames loop (the TTL is never decremented)? The
  answer depends on routes, and no code of the repository writes a route. And no
  hello leaves a node. A model would be about an imagined controller.
* *Ageing of neighbours.* There is none; a hello without a hardware address (the
  program sets none) makes parallel links one entry. `Macs` in Discovery covers
  hellos of both kinds.
* *Wire formats.* The packet layout in `disco-rs` is generated by a macro;
  Discovery abstracts a hello to the fields `disco_handler` reads. All `Display`
  implementations, completion and help texts are wording.
* `fabric-rs-config` is an unused client of another project's Kubernetes
  resources, `conf-rs` prints a greeting, `xtask` builds and runs with cargo,
  `lib copy.rs.bak` is not compiled.
