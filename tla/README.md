# TLA+ specifications of the vmmon and vmnet host modules

This directory specifies the two Linux kernel modules of
`src/modules/17.6.4/source`: **vmnet-only** (virtual networks: hubs, ports,
bridges) and **vmmon-only** (the host side of the virtual machine monitor).
The specifications are translated from the C code. TLC checks them on small
instances; TLAPS proves the safety properties for every instance.

Of vmnet, the structure of hubs and ports, the packet path, the user interface, the events, and
the bridge with its packets and its wireless address translation are specified. Of vmmon, the
life of machines, the accounting and admission of their pages, the host's pages and their
trackers, the waiting and waking of VCPUs, the loading of the monitor, shared areas and
statistics variables, the clocks, the registers that must agree on all CPUs, and the world switch.

Paths below are relative to `src/modules/17.6.4/source/`.

## 1. Inventory

### vmnet

| Part | Code | State | Operations | Correct when |
|---|---|---|---|---|
| Structure | `vmnet-only/driver.c`, `hub.c`, `vnetInt.h` | hub list with `used[]`, `totalPorts`; jacks with `peer`, `state`, `kref`, `numPorts`, `private`; `vnetAllPorts`; `filp->private_data` | open, close, SIOCSPEER3, SIOCSUSERLISTENER, SIOCNETIF, SIOCSBIND; VNetHubAlloc/Free, VNetConnect/Disconnect, VNetSwitchToDifferentPeer, cycle detection, ports-changed | both ends of a cable agree; nobody has a freed object, and no object has two owners; one hub per number; no interface twice on a hub; counts and list agree with the cables; a refused switch leaves all as it was |
| Packet path | `driver.c` VNetSend, `hub.c` VNetHubReceive | references taken from `jack->kref` | send from a port through the hub to the others | a jack is not released while a packet refers to it |
| User interface | `userif.c` | packet queue, wait queue, poll word, port flags | receive, read, write, poll, SIOCSETNOTIFY2, SIOCUNSETNOTIFY, SIOCSPORTFLAGS, SIOCINJECTLINKSTATE | bounded queue; the poll bit announces pending packets; no lost wakeup; no old packets after a down/up |
| Events | `vnetEvent.c`, `vnetUserListener.c` | mechanism with `refCount`, lists of senders and listeners, last events; a listener's event queue | create/destroy mechanism, sender, listener; send; read | freed once, after its last user; a listener knows every sender's last state |
| Bridge | `bridge.c` | `dev`, packet handler, `enabledPromisc`, event sender, history of sent packets | create, free, up, down, netdevice notification, ports-changed, receive from hub and from device | promiscuous exactly while up and connected; no deadlock between RTNL and `vnetStructureMutex`; no echo |
| Host interface | `netif.c` | net device | create, free, xmit, receive | as a port of the structure |
| SMAC | `smac.c` | IP-to-MAC cache, IPv6 table | check packets to and from the host | an address maps to the last guest that used it; timers |
| Proc files | `procfs.c` | entries | make, remove | pure output |

How they interact: `driver.c` is the entry point of every file operation and
calls the others; a jack is an object with function pointers (`free`, `rcv`,
`cycleDetect`, `portsChanged`, `isBridged`), so hubs call ports through
`jack->peer` and ports call hubs the same way. Three locks order them:
`vnetIoctlMutex` around the ioctls of all files, `vnetStructureMutex` around
connecting and disconnecting, `vnetPeerLock` around reads and writes of
`jack->peer`; `vnetHubLock` guards the list of hubs and the `used` flags. Open,
close, read and write do not take `vnetIoctlMutex`; allocating and freeing hub
jacks does not take `vnetStructureMutex`; packets run in softirqs.

Hard behaviours: allocation outside the lock (look up, unlock, allocate, look
up again); a connect that fails halfway and must be undone; jacks whose
`kref` is initialised on connecting, and again on reconnecting; counts copied
outside the lock they change under; tests before locks in the receive path; sleeping
and waking; destruction in any order.

### vmmon

| Part | Code | State | Operations | Correct when |
|---|---|---|---|---|
| VM lifecycle, admission | `vmmon-only/common/vmx86.c` | list of VMs, their page counts and overheads, lockable-page limits, rate and yield sets | create, release, lock/unlock and allocate pages, admit, readmit, set limits, pseudo-TSC, yield | locked pages are accounted for and never above the limit; failure undoes; released VMs leave no pages |
| Host interface | `linux/hostif.c` | per-VM page trackers, semaphores, VCPU wait sets, fast clock thread, uptime state | lock, unlock, map pages; WaitForThreads, AwakenVcpu; semaphores; fast clock rate | no lost wakeup; the rate is the highest requested; uptime is monotonic |
| Driver | `linux/driver.c` | open files with their VM, reference to the VM, sync-call barriers | open, close, ioctl, page fault, timer | a VM is released once, by its last file |
| Trackers | `common/memtrack.c`, `phystrack.c` | directories of page entries | add, look up, remove, test, walk | they behave as sets of pages |
| Shared areas | `common/sharedAreaVmmon.c`, `statVarsVmmon.c` | region tables | allocate, map, look up, clean up | lookups stay within allocated regions |
| World switch | `common/task.c`, `crosspage.c`, `moduleloop.c` | machine state | switch to and from the monitor, module calls | state restored |
| Bootstrap | `bootstrap/*.c` | header tables, allocations | load, map, share, free | all undone when a step fails |

## 2. Modules

| Module | What it specifies |
|---|---|
| `VNetStructure` | the structure code: hubs, jacks, ports, open files |
| `VNetPlug` | the abstract specification it implements: a patch panel |
| `VNetSend` | extends `VNetStructure` with packets crossing a hub |
| `VNetEvent` | event mechanism, senders, user listeners |
| `VNetUserIf` | packet queue, poll word, reads and flag changes of a user interface |
| `VNetBridge` | a bridge with its interface, its hub, RTNL and `vnetStructureMutex` |
| `VNetBridgePackets` | the packets a bridge passes on, and the history it knows them by |
| `SMac` | the table of guests' addresses behind a wireless interface, and the verdict on a frame |
| `SMacRewrite` | what is rewritten inside neighbour discovery messages and DHCP requests |
| `VMAdmission` | vmmon's pages: how many the machines lock and may lock, and which machines are admitted |
| `VMLifecycle` | files, machines and their IDs, release, the fast clock, the bootstrap's order |
| `HostPages` | the pages of the process and of the host that a machine holds |
| `PhysTrack` | the page tracker: directories against a set |
| `HostWait` | VCPUs that yield to, wait for and wake each other; semaphores |
| `MonLoader` | the loading of a monitor by the table in its header |
| `SharedArea`, `StatVars` | registration of shared areas and of statistics variables |
| `SyncTSC` | reading the time stamp counters of all CPUs at once |
| `PseudoTSC` | the pseudo TSC of a machine's VCPUs |
| `HostUptime` | the host's uptime and its bases |
| `MSRUniformity` | queries of registers on all CPUs and the value common to them |
| `WorldSwitch` | Task_Switch: saving, switching, restoring, and the exceptions that come meanwhile |
| `PTPatches` | the page table patches of the cross pages |
| `MCVNetStructure`, `MCVNetSend`, `MCVMAdmission` | instances for TLC (`JackIds`, symmetry) |
| `MCVNetBridge`, `MCVMMon`, `MCVMMWorld` | each extends one module, instantiates others, and checks them side by side, because they share no state: the variable `part` says which one a behaviour is about, the others stay where they start |
| `VNetStructureProofs`, `VNetUserIfProofs`, `VNetEventProofs`, `VMAdmissionProofs`, `HostWaitProofs` | theorems about the module of that name |
| `VNetBridgeProofs` | theorems about `VNetBridge`, and in `MCVNetBridge` about the packets and the addresses |
| `VMMonProofs` | theorems about `VMLifecycle`, and in `MCVMMon` about the waiting VCPUs, `HostPages`, `PhysTrack`, `SharedArea` and `StatVars` |
| `VMMWorldProofs` | theorems about `WorldSwitch`, and in `MCVMMWorld` about the pseudo TSC, the queries and the counters |

### VNetStructure

*State.* `used`, `private`, `peer`, `state`, `kref`, `numPorts`,
`totalPorts` are the fields of the same names (booleans as sets of jacks);
`hubs` is the list `vnetHub`, `allPorts` the list `vnetAllPorts`, `filp` the
files' `private_data`. A port object is its jack. `kind` is "free" for memory
that is not allocated. `pc`, `new`, `num`, `hubJack`, `putPort`, `putHub` are
the locals of an operation.

*Actions.* A section under `vnetHubLock` or `vnetStructureMutex` is one action
(`HubLookup`, `HubInsert`, `HubFree`; `OpenConnect`, `Switch`, `Close`). What
VNetHubAlloc does after it drops the lock is two actions, `HubFill` (proc
entry, reading the hub's count) and `HubPublish` (`jack->private = hub`).
Each `kref_put` is an action, and releasing a hub jack is two, because
VNetHubFree clears `private` before it takes the lock. `Switch` is
VNetSwitchToDifferentPeer with all it calls: disconnect, connect or refuse,
reconnect, list and `private_data`.

*References.* `kref_init` happens in VNetConnect only. Before it, the kref of a
bridge or netif is zero (the port is cleared) and that of a user interface,
listener or hub jack is what the memory held (`Uninit`: a put releases or does
not). A put at zero saturates (`refcount_t`).

*Data left out.* MAC addresses, filters, statistics, the names of jacks.
A hub number stands for both vnet numbers and PVN ids.

*One operation per file.* A file runs one operation at a time in this module. The
code lets two threads use one file; that is listed as a hazard and not covered.

### VNetPlug

A file has no cable or one: hub number, interface name behind it, and whether it is
connected. Opening, replacing, moving and closing change one file's cable
in one step, and none brings an interface to a hub that has it connected already. The
refinement mapping takes the hub number through the port's peer (`CableOf`).
`Fault` is the one thing the code may do beyond that: a refused
switch whose reconnection is refused too, when memory is short.

### VNetSend

A sender takes a reference to the port's peer (`SendFromPort`), walks the hub's
jacks without a lock (`HubReceive`), sends on through each (`SendToPort`, `PortReceived`)
and drops its references, which may release the jack (`HubReceived`,
`SendHubFree`). All actions of `VNetStructure` interleave.

### VNetEvent

`Senders`, `Listeners` and `Hub` are the holders of references. What is done
under the mechanism's spinlock is one action, with the handlers it calls.
Destroying is three: leave the list (`Unlist`), drop the reference (`Unref`),
free (`Free`). The order of the sender list is kept, because the replay to
a new listener walks it. vmnet sends one kind of event per sender (id 0,
LINK_STATE), so a sender's event list is a value. `told` and `missed` are
history variables for the property. The replay to a new listener (`Replayed`) has its n-th event from the
n-th sender on the list that has sent one (`Sent`, `Nth`). Sending and replaying call the same handler, whose
kmalloc may fail: the senders in `short` get no memory for their event, which `missed` remembers.

### VNetUserIf

A delivery is `Arrive` (flags), `CheckRoom` (queue length, no lock),
`Enqueue` (queue and poll bit, under the lock), `Wake`. A read is a loop of
`Peek` (set the task state, look), `Dequeue` (under the lock), `Sleep`
(`schedule`). SIOCSPORTFLAGS is `SetUp`, or `SetDown`, `Drain` and `Clear`.
Each packet carries two history bits: queued while the poll word was set up,
and arrived before the interface was last taken down.

### VNetBridge

*State.* `dev`, `enabledPromisc`, `notifier` and `handler` (is `bridge->pt` on the
kernel's list, and how often) are the bridge's; `net`, `isUp` and `promisc` (what the
bridge has asked of each interface) are the kernel's; `plugged` and `others` are what
`VNetGetAttachedPorts` depends on; `rtnl` and `mutex` say who holds the two locks.

*Threads.* "file" runs VNetBridge_Create, the connect and disconnect of the bridge and
VNetBridgeFree; "other" connects and disconnects other ports, and so calls
VNetBridgePortsChanged with `vnetStructureMutex` held; "kernel" changes the interface and
calls VNetBridgeNotify with RTNL held. A function that takes a lock while the other may be
held is split there: VNetBridgeUp is `Found` (in `Create` or `NotifyUp`), `UpMutex`,
`UpPromisc`, `UpEvent`; VNetBridgeDown is `DownEvent`, `DownPromisc`, `DownClear`; and
VNetBridgePortsChanged is `PortsChanged`, `ReadDev`, `ApplyPromisc`, because the interface is
read before RTNL is taken. A NULL read there, and used, is a fault that keeps both locks.

*History.* `failed` says where the bridge was short of memory: before its packet handler was added, or at the
event after it. `excuse` says why an interface that is up may have no bridge. `BridgeTrue` asks that an interface that is
up has the bridge with exactly three exceptions: the notifier found no memory, and there is no device; the
device found at creation was unregistered before the notifier was registered, and the bridge keeps that one; and
a handler added before the event failed is there once more.

*External.* `Register`, `NetUp`, `NetDown`, `Unregister` are the kernel's: it
changes an interface and calls the notifiers under RTNL; it calls a notifier for the
interfaces that are up when it is registered, and for every interface when it is
unregistered.

*Left out.* Wireless adapters are not made promiscuous here; the packet paths are in
`VNetBridgePackets`. The /proc entry.

### VNetBridgePackets

A packet from the hub that the host wants too is cloned, put into `history` and handed to the
host's stack, so it comes back to the bridge's own handler, which must drop it. A full history is
flushed entry by entry, with `historyLock` dropped around each `dev_kfree_skb`, while other senders
insert. `refs` counts the references to each buffer; `flushed` and `echoed` are history. A packet
stands for the thread that sends it, so as many threads as packets interleave.

### SMac, SMacRewrite

`SMac`: `AddIPandMACcombo` looks at `lastIPadded`/`lastMACadded` without the lock, and
`SetCacheEntry` writes them one after the other with it: both are split. The uptime is a 32 bit number that may
wrap: when GetSystemUptime finds it below the one read last, it halves the times of all entries (`Aged`).
`CleanupState` frees the table with the bridge. `clock` and `used` are the true times (history), and so is who used an
address last: `users`, with `torn`, the threads whose comparison with the cache met a half-written copy, and
`overtaken`, those that added an address which another guest has used since and which have not returned. `FramesAnswered` has
each guest ask from each address: the answer goes to one of its last users, whatever the table says. The verdicts on
frames (`ToHost...`, `Outgoing...`, `FromHost...`) are operators on the table, because each takes the lock once.
Hash buckets are not modelled: of several oldest entries any may be found first.

`SMacRewrite`: `Walk` and `Type` are one turn of the loop over extension headers with the length in a variable that
is wider than what is read into it, `Skip` and `Patch` the search of the options, and
`CalcChecksumDiff` the correction of a checksum. Words have `W` values in place of 2^16.

### VMAdmission

*State.* `listed` is `vmDriverList` (`vmCount` is its size, because both change together), `freeing`
the machines off the list whose resources are still there. `asked`, `admitted`, `nonpaged`,
`minAllocation`, `locked` are the fields of a machine's `memInfo`; `maxAllocation` is derived.
`numLockedPages`, `minVmMemPct` and `configured` are the globals; `host` is what
`HostIF_EstimateLockedPageLimit` would find, and changes on its own (external). `pages` counts what the host
has locked or allocated for a machine.

*Actions.* What is done under the global lock (with or without the machine's) is one action: `CreateVM`,
`DeleteVM`, `SetConfiguredLockedPagesLimit`, `Admit`, `Readmit`. A thread that locks or allocates pages runs
`Lock`, then Vmx86ReserveFreePages as `Reserve` (a turn of its loop, which looks at the machine's room
and at the host's) and `ReserveAnyway` (its end when the limits are ignored), then `Get` (the
host's part, with the machine's lock only, which may get less than was asked for), then
`UnreserveFreePages` for the rest. `Unlock` gives pages back and goes on to `UnreserveFreePages`.
`DeleteVM` waits until no ioctl of the machine is under way (`vmDriverRWSema` in `driver.c`).

*Abstractions.* Sizes are numbers of pages. Anonymous pages count like nonpaged ones and are not
told apart. The paged memory of a readmission is kept nowhere in the code; only the sign
of its change matters (`pagedGrows`). All machines have one main memory size and one overhead.
`PageCnt` is unsigned: the subtraction in Vmx86_Readmit is taken modulo `PageCntSize`.

### VMLifecycle

*State.* `vm` is each file's `Device.vm`; `vmDriverList`, `vmCount`, `userID`, `vmIDList` with its two ends,
`fdCount`, `initialized` (the pseudo TSC), `globalFastClockRate` and the per-machine rates have their names;
`hostRate`, `clock` and `fastClockMutex` are linuxState's. *Actions.* Every ioctl takes the file's semaphore for
reading or writing (`Mode`); what the global lock covers is one action; `HostIF_SetFastClockRate` is split at
the mutex, the thread's start and its parking. The sequence in `Vmx86_CreateVM` is followed to each of its failures.

### HostPages, PhysTrack

Operations of `HostPages` run under the machine's lock and are one action each; the process
may remap an address at any time (`Remap`). The memory tracker is its sequence of entries, of which each remembers
the hash chain it was put on, because a reused entry stays there. `refs` are references to pages
(`get_user_pages`, allocation). `PhysTrack` is the directory of directories of bit maps with the history set `added`.

### HostWait

One action per access to a shared word: `crosscallWaitSet`, `currentHostCpu`, `vcpuSemaTask`, task states.
`Ask`, `Look`, `Unask`, `Confirm`, `Decide` are HostIF_WaitForThreads and Vmx86_YieldToSet; `TakeWaitSet`, `WakeUp`
are HostIF_WakeUpYielders; the module calls are those of `moduleloop.c` that wait or wake. Timers may end a
sleep at any time, and are left out of the wake-up property, which is about not needing them.

### MonLoader

One action is one page of an entry, for one VCPU. Each call that may fail has a failing disjunct; `Failed`
undoes what the code undoes. Kinds of entries, their flags, sub-sources and sizes are those of the header. The region
of the HT map may have no frames (`HtMap`): its entry is then left unmapped.

### SharedArea, StatVars

A step lies between two accesses of the table's record, because a registration holds the machine's lock only
while it pins one page or claims a VCPU. `untracked` and `crossed` are history and mark the two
states the code does not exclude (section 4 and the hazards). `MayOverlap` is a bound: two *first* registrations of
one area lose an array when they overlap; with it TRUE, `RecordedPinned` is false,
and `PagesExactHolds` has its negation as a hypothesis.

### SyncTSC, PseudoTSC, HostUptime, MSRUniformity

`SyncTSC` follows the barrier of LinuxDriverSyncCallHook: every CPU counts itself ready, waits, may
give up (`expired`), and puts its counter into the minimum and maximum by compare and exchange, in two steps each.

`PseudoTSC` has one action per access of `ptscOffsetInfo`, `ptscLatest` and `ptscOffsets` in
TaskUpdatePTSCParameters and TaskUpdateLatestPTSC. The word of two halves is a record that is exchanged at once.
`stale` and `reused` are history: the word was changed and changed back between a read and an exchange.

`HostUptime` splits HostIFReadUptimeWork at every read of a shared field and the resync at every
write, around the version. `Delay` bounds how long a thread may be preempted between reading jiffies and the clock; in
TLC's instance it is longer than a second. `fixes` and `offsets` are history: how often the base was moved, and what the time of
day was ever off by. `OnTrack` has two parts. Without any condition the uptime is off by no more than a second for each time
that the counted time has followed it, and one. If all changes were of more than a second and the delays (`FarApart`), it is off by no more
than the delays of the threads that moved the base. Before Linux 5.0 the code reads the time of day, which anyone may set; since then
the raw clock, which nobody sets (`Warps = {}`), but which the same code checks. The model has both.

`MSRUniformity`: CPUs reply in any order; values are two sets of bits and a record of number fields, and one
operator per kind of register combines them as the code does. Of IA32_VMX_MISC, where the MSEG identifiers
differ, `CommonToAll` says exactly what the code leaves: nothing is permitted, and the number is the least of the replies
before the first that differs.

### WorldSwitch, PTPatches

`WorldSwitch`: one action saves or restores one piece of a CPU's state (`StopTrace`, `SwitchIDT`, `SwitchCR`,
`SaveDR`, `EnterHV`, and back). `hw` is what the CPU has, `local` and `crosspage` where it is saved. `Raised` lets an
NMI or a machine check come at any step, on whatever IDT is loaded; `pending` is what the host has not got yet
(history). The monitor is outside and may change everything it saves. `HandleCall`, `HasPage`, `AllocPage`,
`SetRootPage` are the loop's handling of a switch that was turned back for want of a page.

`PTPatches`: a page number has four digits to the base `Radix` (512 in the code). `CreatePatch` finds the highest
entry the monitor leaves empty and allocates the tables below; `ApplyPatch` writes it, `Verify` walks the result.
Both read the monitor's own tables through HostIF_ReadPhysical and HostIF_WritePhysical, which refuse a page that no tracker of the machine has.
`untracked` are the tables of which this is so, from the start or since another thread gave the pages up (`GiveUp`); a table that is not `Readable`
fails the patching.

## 3. Runs

| Run | Module, cfg | Shows |
|---|---|---|
| `vnet_structure` | `MCVNetStructure`, `VNetStructure.cfg` | all invariants of the structure and that it implements the patch panel |
| `vnet_event` | `VNetEvent`, `VNetEvent.cfg` | life time of the mechanism, exactness of its list, no lost state |
| `vnet_userif` | `VNetUserIf`, `VNetUserIf.cfg` | bounded queue, poll word, wakeups |
| `vnet_bridge` | `MCVNetBridge`, `VNetBridge.cfg` | link state, packet handler, promiscuous mode and interface agree when nobody is at work on them; wireless answers reach the guest that asked and echoes do not; checksums and addresses are rewritten exactly; buffers are accounted for |
| `vm_admission` | `MCVMAdmission`, `VMAdmission.cfg` | the accounted pages are those that are held or in hand; admission leaves room for every admitted machine's minimum; the percentage and the limit are the same for all |
| `vmmon` | `MCVMMon`, `VMMon.cfg` | machines, IDs and the clock rate are exact; pinned pages are known; yielding VCPUs wake; a monitor is loaded as its table says |
| `vmm_world` | `MCVMMWorld`, `VMMWorld.cfg` | VCPUs inside see one time; a query and a reading of the counters have an answer of every CPU; the host gets its CPU back and every exception that came; the monitor does not see a turned back switch; the uptime, the value common to all CPUs and the patched page tables are right |
| `vnet_switch_leak` | `MCVNetStructure`, `VNetSwitchLeak.cfg` | violated: refused port leaks |
| `vnet_send` | `MCVNetSend`, `VNetSend.cfg` | violated: jack released under a packet |
| `vnet_old_packets` | `VNetUserIf`, `VNetOldPackets.cfg` | violated: packet from before a down is read after the up |
| `vnet_bridge_deadlock` | `VNetBridge`, `VNetBridgeDeadlock.cfg` | violated: two threads wait for each other's lock |
| `vnet_smac_walk` | `MCVNetBridge`, `VNetSMacWalk.cfg` | violated: a long extension header before another is misread |

Several properties of a module are conjoined into one where they are about one question; the module keeps each
under its own name (`MachinesExact`, `BridgeTrue`, `EventsExact`, `PagesExact`, ...).

Deadlock is checked in `VNetUserIf`. In the other modules the system may really
stop: every file closed and the pool of hubs exhausted by orphans, every
object of a mechanism destroyed, a machine loaded, a query answered, a history or a clock at its bound; the bridge
deadlocks, which `vnet_bridge_deadlock` is about; and the admission code waits for ioctls.

### Bounds, and why they are enough

- *Structure.* Two files race; each code section involves one file and the
  hub, and the properties relate two jacks or two owners, so two files meet every
  pairwise interleaving. Three ports let one file switch while the other is
  open; two hub objects allow moves and racing allocations; two jacks per hub make it full. A behaviour is either over
  two hub numbers with memory enough, bridges and user listeners, or over one hub number with bridges and netifs
  where an allocation of the cycle detection fails: the shortage matters in switches on one hub. Ports that leak exhaust the
  pool and end a behaviour: that bounds its length. One interface name is enough to collide.
- *Events.* Two senders and two listeners: replay order, removal from the middle of
  the list and destruction orders of five holders. `MaxEvents` 2 caps a listener's queue, which
  in the code has no bound: sending waits for room.
- *User interface.* Two deliveries that pass the length test together, two readers that compete for a
  packet; `MaxQlen` 2, so that the queue is empty, has one, is full, and over-full.
- *Bridge.* One bridge, two registrations of its interface, so that a stale pointer and the new interface
  differ; two other ports, so that one can leave while one stays. `MaxPromisc` 2 stops an
  interface from coming up again once so much promiscuity is left behind on it (each stale use leaves
  one more). One allocation failure, wherever it hurts.
- *Admission.* Two machines compete for one pool, and two threads may reserve for one machine while its
  minimum or the limits change. Limits 2 and 5 are less and more than two machines of 2 pages
  need with their overhead; percentages 0 and 50 let one machine raise what the other needs. Batches of 2 can be
  got in part. `MaxPages` 2 stops a new request when so many pages are locked; requests already under way
  go to 4, above the lower limit. `Retries` is 2 instead of 3: one attempt that is repeated and one that is the
  last. `PageCntSize` 1024 is far above every sum, so a number wraps only by going below zero.
- *Packets and wireless addresses.* Two slots of history and four packets: the history is full, flushed, and filled
  while it is flushed. Three addresses of two guests in a table of two entries, two senders: eviction,
  change of owner, and a torn cache. `Period` 3 lets the uptime wrap within `MaxClock` 3. `W` 4 has carries; header
  lengths 0, 1 and 30 are short of the 256 bytes of the disagreement, which `VNetSMacWalk.cfg` adds with 31.
- *Machines.* Three files and three machines for two IDs (`MAX_VMS` 2) and a count that saturates at 2
  (`MAX_INT32`); two threads; the machine allocated is the lowest free one (`LowestFirst`). One clock rate above the minimum,
  taken and given up by two machines.
- *Pages.* Four pages, two addresses, hash chains that collide, contiguous blocks; the tracker has two entries per level, so that
  directories come and go at every level.
- *VCPUs.* Two yield to, wait for and wake each other, with one signal per semaphore. Three would show chains, and is
  beyond TLC here; `YieldersWake` is proved for any number of VCPUs, rings of them included.
- *Loading.* Every table of three entries of two pages from eight kinds of entry, the last one from sixteen, on two VCPUs.
- *Areas, variables.* Two threads; an area of the machine and one of each VCPU; two pages.
- *Clocks.* (`GuestClocksTrue` and `AllAnswered` are proved for any number of VCPUs and CPUs.) Two VCPUs, a counter that ticks twice and a clock that follows once; `Hz` 2 and `LargeDelta` 8 in place of 4096 seconds, below half of `Word`.
  One reader and the timer, which fires twice, a second of one jiffy, one change of the time of day by 1, which is not noticed, or by 40, which is,
  and preemptions of up to 2 jiffies (`Delay`), more than a second, so that a delay is taken for a change of the time of day.
  Three CPUs join, one round of reading, two counter values. Registers with two bits and fields up to 2.
- *Switch.* Two VCPUs on two CPUs, two exceptions. Seven hosts: virtualization off, on, and used by another hypervisor, on
  either vendor; debug registers idle, in use, and guarded. One VCPU is in the middle of a switch at a time (`Bounded`): two
  on different CPUs share nothing there; the allocation of pages, which they share, is free to interleave. The theorems
  about the switch are about `WorldSwitch`'s own specification, which has no such bound: any number of VCPUs switch at once. The second VCPU
  stays on its CPU and runs only on the plain host without exceptions, and the second exception comes on one host, whose virtualization is on. Patches with `Radix` 2: sixteen pages, all placements of four host pages out of five
  numbers against five ranges of the monitor. `Losses`: the first VCPU's highest table is untracked, or both the tables of the second one
  level below, from any moment on.

Sets of like objects are symmetric in `MCVNetStructure`, `MCVMAdmission`, `MCVNetBridge`, `MCVMMon` and `MCVMMWorld`
(their properties are safety properties); `JackIds` are numbers because the code takes
the lowest free jack.

### Fairness

- `VNetEvent`: a thread that has begun to destroy an object goes on (`Unref`, `Free`
  take a spinlock and free memory). Nothing else is fair: nobody has to send, read or destroy.
  `EventuallyFreed` needs no more.
- `VNetUserIf`: a delivery that has begun runs to its end (a softirq or a sending thread that does not
  block), and a runnable reader is scheduled. Packets need not arrive,
  and nobody has to read. Each is weak fairness on one thread.
- `VNetBridge`: a thread inside the bridge's functions goes on, and gets a lock that is free again
  and again (strong fairness: another thread may take the lock in between). The kernel need
  not change the interface, and nobody has to connect or close.

## 4. Disagreements found

The first five are runs that expect their property violated. For the others no run is kept: the property that states
what the code says is in the module, and TLC refutes it where it is made an invariant: `SharedArea.FailureUndone`,
`PseudoTSC.NeverBackwards`, `WorldSwitch.NMIDeliveryRestored` with the constants of the passing runs, and
`MSRUniformity.VersionOfACPU` with "BIOSSignID" among the `Members`.

1. `driver.c:1268` VNetConnect initialises the kref of a jack that may have references from packets on
   their way: a replug, then a close, releases it under the packet.
   "Free the VNetJack if no reference." (`driver.c:1415`)
2. `driver.c:1026` a refused new port is put with a kref that was never initialised, and is not freed.
   "The function will deallocate the old or the new peer" (`driver.c:963`)
3. `userif.c:374` the flags are tested before the queue's lock: an old packet survives the drain.
   "We drain the queue to avoid having old packets delivered to the guest when reneabled" (`userif.c:924`)
4. `bridge.c:982` VNetBridgeUp takes `vnetStructureMutex` under RTNL, a connect takes RTNL under
   `vnetStructureMutex` (`bridge.c:149`): both can wait for ever. "react accordingly by starting/stopping
   promiscuous mode based on whether any peers exist" (`bridge.c:738`)
5. `smac.c:3584` the one byte length of an extension header is read into a 32 bit variable that still holds the
   size of the header before it: after a header of 256 bytes or more the walk leaves the packet's layout.
6. `sharedAreaVmmon.c:247` when a page cannot be locked, the address of *that* page is unlocked as often as pages were
   locked before, instead of theirs.
7. `task.c:2185` the exchange of the word with the count of VCPUs and the number of one does not notice that it changed and changed
   back: a VCPU's time starts behind what it or another VCPU has seen. The comment above promises that it "doesn't go
   backwards on this VCPU" (`task.c:2107`).
8. `vmx86.c:3905` the value common to all CPUs of MSR_BIOS_SIGN_ID and MSR_VM_CR is computed as for any other register: the
   functions written for them are never called (`vmx86.c:3795`).
9. `task.c:2423` NMIs of the local APIC are masked before interrupts are off and unmasked after they are on; a
   thread that is moved to another CPU in between leaves the first CPU's masked. "Disable and restore APIC NMI
   delivery." (`task.c:1685`)

Oddities that contradict no statement of the code are listed as hazards, and the properties leave
them out by name: a stale `numPorts` of a new jack (`hub.c:373`), an interface that is read before RTNL is taken
(`bridge.c:141`), a reused tracker entry that stays on its old hash chain (`hostif.c:1329`), first registrations of an
area that overlap (`sharedAreaVmmon.c:209`), a failed registration that wipes another's entries (`statVarsVmmon.c:236`), and
a verification behind a `break` (`monLoader.c:454`). Of others the properties say exactly what they lead to: a bridge that
keeps a device which was unregistered while it was created (`bridge.c:893`); a packet handler that stays when the event got no
memory (`bridge.c:989`); a comparison with a half-written copy, after which a guest is not entered (`smac.c:1242`); the number in
IA32_VMX_MISC where the MSEG identifiers differ (`intelVT.h:187`); and changes of the time of day by less than a
second, which are not noticed and add up (`hostif.c:1853`).

## 5. Proofs

Every theorem is checked by TLAPS for all values of the constants that meet the named assumptions of the modules. Fairness is used
by none.

- *Sets that are finite:* jack indices, deliveries, holders of an event mechanism, threads, machines, IP addresses, VCPUs and
  CPUs where they are counted. *Sets that are apart:* ports and hub jacks, senders and listeners, the senders of frames,
  `None` and everything it stands beside. *Numbers* where the code has numbers, positive where zero makes no sense
  (`MaxQlen`, `MAX_VMS`, the history, a table's entries, retries); port kinds and hosts are those of the code.
- *Inputs* that TLC enumerates are constants with assumptions about their kind: tables of a monitor whose entries lie in the
  address space, apart from each other (`LoadersAssumption`); layouts of the monitor's pages (`TablesAssumption`); frames with
  any sequences of headers and options (`RewriteAssumption`); words and fields of any width. The `MC` modules define the small sets (`MCFrames`, `MCAddresses`, ...)
  that the configurations give.
- `MaxPromisc`, `MaxEvents`, `MaxPages`, `MaxPackets`, `MaxTSC`, `MaxClock` and `Rounds` are bounds of the model. The theorems hold for every
  value of them, so the bounds restrict TLC only.
- `NoWrap` (hypothesis of `AdmissionFitsHolds`): `MAX_VMS` machines of the largest size fit a `PageCnt`. It is 32 bits of
  pages, 16 TB, and the code makes no other provision.
- `PseudoTSC.NoWrapAssumption` and `ClockAssumption`: the counters are far from 2^64, and the step back that the code takes for a
  change of the clock (4096 seconds) is more than a tick.
- `MaxContig \in 1 .. 3`: the largest block of pages the code asks for is SVM_VMCB_IO_BITMAP_PAGES (`hostif.c:1018`), which is three.
- `~MayOverlap` (hypothesis of `PagesExactHolds` and of `VMMonProofs.TypesHold`): no two threads make the array of one area at once. The code does not
  exclude it (`sharedAreaVmmon.c:209`, in the hazards), and `RecordedPinned` is false without it.
- `MaxClock < 2 * Period` (hypothesis of `EvictsOldestHolds`): see there.
- `Ordinary` (hypothesis of `RewriteExactHolds`): no extension header that another follows has 256 bytes, which is
  disagreement 5 of section 4, and of a message that is cut off less than the 8 bytes of an option is missing.

### vmnet

- `VNetStructureProofs` proves `TypeOK`, `PeerSymmetric`, `Exclusive`, `NoUseAfterFree` from
  one inductive invariant `IInv`. `Exclusive` alone is not inductive: that a jack an open takes is in nobody's hand follows
  from `NoUseAfterFree` (what is in hand is `used`), that needs the types, and a
  switch needs cables that agree (`PeerSymmetric`), so that
  the jack it disconnects is the file's own. The conjuncts about local variables (which step has which
  objects) connect them. On top of it: `OneHubPerNumber`; `ListMatchesFiles`; `NoDuplicateInterface`, by one lemma about
  connecting (without a cycle the names on a hub stay apart); `ConnectedCounted`, where the counts are cardinalities and a copy made
  outside the lock may be old; and `ImplementsPanel`, the refinement: every action is a step of the patch panel or leaves it
  alone, which also needs that the jack in an operation's hand is on the hub of the number it asked for (`Published`).
- `VNetUserIfProofs` proves `TypeOK`, `QueueBounded`, `Announced`, `NoLostWakeup`. `QueueBounded`
  is strengthened: the queue's length plus the number of deliveries past the test
  is within the bound, so that each of them has its place. `NoLostWakeup` is strengthened to readers
  that are about to sleep: one that is still wakeable after it saw an empty queue
  has a delivery left to wake it if the queue is not empty.
- `VNetEventProofs` proves `KeptWhileReferred` (lemmas about cardinalities of sets of holders), and `TypeOK` and
  `EventsExact`: the list has whoever is between creation and removal once each, a listener's queue is the events it has missed,
  per sender, with the last at the end but for those that got no memory (`missed`), and nothing is known of who was not created (`Unborn`). What a listener that comes late
  is sent is described by rank among the senders that got memory (`ReplayedExact`), so no induction over sequences is needed.
- `VNetBridgeProofs` has six parts. (1) `TypeOK` and `BridgeTrue` from `Turns` (who holds which lock at which step), `Linked`
  (interface, handler and link state agree but for the thread at work on them), `Following` (the device is the interface that is
  up, or `excuse` says why not) and `Promiscuous` (what the bridge asked of the interface is what
  the ports need but for a change being reported); a fault is only reached without a device. (2) `PacketsExact`: the references to a
  clone are its slots, its freers and the stack's (`Passing`). (3) `FramesAnswered`: one thread at a time is between the
  two writes of the cache, and what it adds is in the table (`Adding`); and an address in the table is that of its last users (`Used`): a thread that
  found its copies in the cache was not met by a write between the two comparisons, or is in `torn`. (4) `EvictsOldest`: what is stored of the time an entry was used
  is `Stamp`, a function of the time that is monotonic while the uptime has wrapped at most once since the table was made. After a second wrap, stamps that were
  halved twice collide with those halved once, and the property is false: that is what the code does, and the reason for the hypothesis.
  (5) `RewriteExact`: `RewriteInv` says at which header or option the walk and the search are. The model finds the places by folds, of which nothing
  can be shown by induction over a fold; but a fold is a function on sets of indices, as are the sums of sizes (`SumOf`, which exist by well-founded
  recursion), and two such functions that agree step by step agree (`SameFold`). So places are sums (`Position`), and each is behind the one before it.
  A checksum verifies when a sum of words is a multiple of `W - 1`; the code's correction changes that sum by a multiple of it
  (`UpdateIs`, `SameMultiple`), whichever of the carries and of the wraps come about. (6) The types of all four modules (`TypesHold`).

### vmmon

- `VMAdmissionProofs` proves `TypeOK`, `MinAllocationsCurrent` and `LimitNotLowered`. `MinAllocationsCurrent` is
  strengthened by `Placed`: the admitted machines are listed or being freed, so that one that is created is not
  admitted and has no minimum to be current. `LockedExact` and `AdmissionFits` are about sums over machines and threads:
  `SumOf` is the number of elements of a union of disjoint sets, and the lemmas about it (one term changes, one is added or taken)
  are lemmas about cardinalities.
- `HostWaitProofs` proves `YieldersWake`. The invariant `Due` says of a VCPU that is to be woken that it is in the wait set of
  everyone it still waits for, or in the hands of one that has taken that set; a ring of sleepers needs somebody who asked last, and saw the others.
  `TypeCorrect` adds the types of all variables.
- `VMMonProofs` proves `TypeOK` and `MachinesExact` of `VMLifecycle`: who has a machine (file, thread, list) is split into
  `FilesOwn`, `ThreadsOwn`, `NobodyElse`, `SomeonesOwn`; the two chains of IDs in one array are the least sets closed under
  the array's links, and never meet; the rate is some machine's and below none, the one just computed under the lock included.
  It lifts `MachinesExact` and `YieldersWake` to the model that is checked, `MCVMMon`.
- `VMMonProofs` also proves `PagesExact`, from four invariants. *Tracker* (`TrackInv`): a page is tested just when it was added, since a
  page's three indices tell it from every other; they order pages as their numbers do, so that `GetNext` finds the least one above,
  and the k-th call of the walk finds the k-th member, by which the count is the set's. *Pages of the host* (`PinsInv`): the count of a page is the
  number of those who have it (an entry of the memory tracker, the locked pages, AWE, a block), which needs that blocks are apart
  (`BlocksApart`) and no address has two entries (`EntryOfAddress`). *Areas* (`AreaInv`): an area has one array, which one thread
  fills before anyone can see it (`OneArray`, `FirstAlone`); a registration records only what it has pinned, at and below where it is (`Entered`), and
  beyond the page a thread works on nothing of its own is recorded (`OneBeyond`), so that undoing it leaves no page recorded and unpinned.
  *Statistics variables* (`StatInv`): a claim keeps others out, and each step of the thread that has it leaves what its entries
  should be by then (`PartDone`), except where a claim crossed another's undoing (`crossed`, the hazard at `statVarsVmmon.c:236`).
- `VMMonProofs` proves `MonitorLoaded` from `LoadInv`: every page of a line of the table whose turn is over is where it should be on every VCPU it is for (`LoadDone`), and no
  later line, being elsewhere in the address space, changes it; what is mapped of the monitor's own frames has been allocated (`LoadFrames`), and as
  many have been as the lines account for (`LoadCounted`); the lines passed fitted (`LoadPlaced`). With the
  invariants of the other parts that gives every type (`TypesHold`).
- `VMMWorldProofs` proves of `WorldSwitch` that the host gets back what it had (`HostUnaware`) and that the monitor does not
  see a switch that was turned back (`TurnedBackUnseen`). The invariant goes label by label (`Switched`): each piece of the host's state is
  on the CPU or where the way back takes it from, and the exceptions that came are in the log or handed over; one thread at a time
  has interrupts off on a CPU (`OneOff`); pages are a CPU's or a thread's (`PagesInv`).
  Of the queries it proves `AllAnswered`: every slot that is taken is one CPU's reply (`Answered`), and of the counters that are read
  that all had shown up or somebody reported a failure (`Counted`), and that the extremes are of what was read (`Extreme`).
  Of the pseudo TSC it proves `GuestClocksTrue`: all VCPUs inside have the offset of the VCPU the word names (`OneOffset`), a VCPU that is about
  to exchange the word has still read what it says, or the exchange fails, or it is in `stale` (`Remembered`), and the time they run with is not before
  any that was seen (`Ahead`). `reused` excludes what the code does not: disagreement 7 of section 4.
- `VMMWorldProofs` also proves `ResultsTrue` (`ResultsTrueHolds`). *The uptime* (`Tracking`): the pair of bases by which
  time is counted belongs together unless the timer is between its two writes (`Counting`): it is off by as many seconds as it has been made to follow (`Near`,
  `Slow`), since a time that is not moved is within a second of what was counted. A thread that has read the pair between two writes of the
  version has a pair that belongs together (`Consistent`), and its jiffies and clock are of one time but for its delay (`Clocked`), so what it returns is bounded
  (`Returned`). While changes are far apart a thread that moves the base moves it to one of the `offsets`, with an error of
  one delay more (`RightBase`, `Err`). *The registers* (`Queried`):
  what stands for all CPUs is a fold over the replies, and at each set of indices it goes through it is what those replies have in common (`SameFold`,
  `CommonFound`); for IA32_VMX_MISC it is the least until the identifiers come apart, and stays (`LeastBefore`, `MiscApart`). *The
  page tables* (`Patching`): the tables of the VCPUs that are done map what these need (`InTurn`), each page the one at work needs
  has a patch or is left (`Underway`), no two patches are in one place and none that is written replaces an entry (`Patched`), the tracker
  has the tables' pages (`TablesTracked`), and a refusal has its reason (`Excused`): no memory, or a page that is `Hindered`, where it
  cannot be patched or a table on the way to it is not tracked. `TypesHold` gives the types of all parts; the counts of
  the hook need sets of the CPUs that have shown up and have reported (`HookBounded`), what is read of the word of the pseudo TSC its own bound (`WordsBounded`).

### Only model-checked, and why

- `SleeperWakes` and `EventuallyFreed` are liveness, which is out of the prover's reach.
- Every safety invariant that a passing run checks is proved, and `EvictsOldest` and the refinement `ImplementsPanel` with them. TLC's instances meet
  the hypotheses above.
- Where a model computes a fold, what is proved is what the theorem needs of it, not a rule for folds.

## 6. Plan

1. An abstract specification of admission (a pool of pages shared by machines), which `VMAdmission` implements
   as long as no limit is ignored.
2. Two threads on one vmnet file, and the sender left on the old hub after a bind
   (`VNetEvent` composed with the hubs).
3. Three VCPUs in `HostWait` under TLC; the making of the cross GDT.

## 7. Not modelled

- MAC addresses of ports: that they are checked for being unique in one section and the port is listed in another
  (`driver.c:435`) is not covered.
- Proc files and logging are output. Headers such as `vm_atomic.h`, `vm_basic_types.h` and `x86cpuid.h` are vendored definitions and
  tables; the compatibility headers and the build scripts are not part of the running system.
- The world switch's instructions themselves (the inline assembly of `task.c` and `crosspage.c`) and the machine state they
  move: one action stands for each piece. The making of the cross GDT, stress testing, flushing of PCIDs, SPEC_CTRL and the feature
  control register. `Task_Switch`'s retry of a #UD exception, which only warns.
- The host's sleep, which resets the time stamp counter: `PseudoTSC` has counters that agree or are apart by a constant.
- Calibration of the pseudo TSC, the ioctls that copy a value to the user, and reading the host's statistics.
- `netif.c` and the write path of `userif.c` are thin: in `VNetStructure` they are ports.

The definitions are mapped to about a third of the lines of the modules' `.c` files; of all source files with the vendored
headers, which have as many lines again, and with the build files it is much less. The rest of the `.c` files are comments
and banners, the code above, and functions that call one kernel function.

## 8. Running

    tlc -workers 2 -config VNetStructure.cfg MCVNetStructure.tla
    tlapm VNetStructureProofs.tla

Operators whose comment begins with "Mutant" are deliberate errors: each stands
in for the definition after it to show that a property notices.
