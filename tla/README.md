# A verification development of dnn-daemon

dnn-daemon makes DNN names (`free.nabandonaread`) usable from an
ordinary browser. It redirects the machine's DNS queries to itself, answers
those for DNN names with `127.0.0.1`, asks DNN nodes over HTTP where the site
really is, terminates the browser's TLS with a certificate it makes on the
spot, checks the site's own certificate against the one its owner declared, and
copies bytes between the two. These modules model the parts of the daemon whose
correctness depends on the order of things; `PROJECT.json` maps every
definition to the lines it stands for.

## The system

| component | state it keeps | operations | in the model |
|---|---|---|---|
| resolver (`internal/resolver`) | the node list; per call: the nodes not asked, a slice of results shared with one goroutine per node | `Resolve`, `UpdateNodes` | `Resolver`, `PickBest`, `NameLookup` |
| mapper cache (`internal/mapper`) | per name: address, declared certificate, subdomain table, the verdict (checked, verified) | `Register…`, `GetResolution`, `HasDeclaredCert`, `IsCertValidForDomain`, `SetCertVerified` | `CertTrust` |
| DNS capture (`internal/capture`) | the iptables rules (pf anchor, WinDivert handle), `iptablesSet`, the DNS server | `Start`, `Stop`, one handler per query | handlers in `CertTrust`; start and stop in `Lifecycle` (Linux), `PfCapture` (macOS) and `Divert` (Windows) |
| certificate checks (`internal/certverify`) | none | `PreflightVerify`, `VerifyCert` | `CertTrust` |
| signer (`internal/ca/signer.go`) | certificates made, by domain | `GetCertificate` | `CertTrust` |
| certificate authority (`internal/ca/generator.go`) | two files; what the machine trusts | `LoadOrGenerate`, `Save`, `Load`, `InstallToStore`, `RemoveFromStore` | `Installation` |
| proxy (`internal/httpsproxy`) | three listeners, a WaitGroup, a pool of connections | `Start`, `Stop`, `acceptLoop`, `handleHTTPS`, `handleHTTP` | both handlers in `CertTrust`; listeners, accept and stop in `Lifecycle` |
| peer discovery (`internal/peerdiscovery`) | the pool, the names seen in a refresh | `Start`, `Stop`, `refreshPool`, `GetNodes` | `PeerDiscovery` |
| daemon (`cmd/dnn-daemon`) | what it has started | `runForeground`: boot, node ticker, shutdown | `Lifecycle`, `PeerDiscovery` |
| service (`internal/service`) | unit or plist, files, trust store, registry | install, uninstall, the Windows service (`Execute`) | `Installation`, `Divert`; the restart policy in `Lifecycle` |
| detector (`internal/detector`) | none | is a label a DNN label? | `Detector` |
| configuration (`internal/config`) | one YAML file | load, save | not modelled: no behaviour in time |
| DNS configuration (`internal/dnsconfig`) | `original-dns.json`; the DNS servers of the adapters | `SetDNS`, `EnsureDNS`, `RestoreDNS` | `DnsConfig` |
| userspace stack and TUN device (`internal/stack`, `tun`) | the flags `running` and `closed`, the device | `New`, `Start`, `Stop`, `readLoop`, `Read`, `Close` | `TunStack`; what it registers in `CertTrust` |
| DNS server (`internal/dns`) | none of its own | `handleA` | the handler `"server"` of `CertTrust` |
| TCP proxy (`internal/proxy`), `transports` | resolutions by name; none | `HandleConnection` | not modelled |

Nothing that `main` reaches calls the last four: they are what the daemon was
before it used WinDivert. They share the cache, the resolver and the settings of
the machine with the rest, so they are modelled as somebody would call them.

How they interact:

- A DNS handler calls the resolver, registers what it returns in the cache,
  checks the server's certificate and writes the verdict to the cache.
- The proxy's TLS handshake calls the signer, which asks the cache whether to
  vouch for the name; the handler then reads the cache (or calls the resolver),
  dials, checks, and writes a verdict of its own.
- Discovery fills a pool; a ticker of `main` hands seeds and pool to the resolver.
- `main` starts the capture and the proxy in goroutines and, on a signal, stops
  discovery, proxy and capture in this order, waiting for each.

Every one of these shares memory under locks held for one operation only; the
hard behaviours are what happens between two operations.

- *Resolver*: a set's timer fires while goroutines are still writing the slice
  that is read next (a data race); nodes lag; the list changes under a call.
- *Trust*: registration, check and verdict are three steps of one handler and
  interleave with other handlers for the same name, with the proxy's, and with
  owners and servers that change.
- *Lifecycle*: rules in the kernel outlive the process; `Start` runs in a
  goroutine that a stop does not wait for; a stop waits for handlers.
- *Installation*: sequences of commands that return at the first error and undo
  nothing, run again over what is left, beside a daemon that boots.
- *Divert*: one goroutine takes all DNS packets of a Windows machine, its own
  lookups among them, and `Stop` ends it.
- *Settings of the machine*: `/etc/pf.conf` and the adapters' DNS servers belong
  to somebody else; they are read, kept aside, changed and given back in steps
  that fail and are cut short, and `os.WriteFile` empties a file before it fills
  it.
- *TUN*: `Stop` closes a device under a goroutine that waits in it.
- *Discovery*: a refresh is built from the last one; nodes name each other
  under several spellings; a stop waits for a refresh.

What makes each correct: a resolution is one a node served during the call, the
freshest seen, of one owner; the cache holds declarations of the right owner
and verdicts that were earned; a browser is shown a trusted certificate only
where one was declared; a connection goes only where the owner said; the daemon
never redirects its own queries and takes its rules with it; stops and queries
end; the node list names each node once and heals; what an installation signs
with is what it made trusted, and an uninstallation leaves nothing; what the
machine had of its own is kept and given back; no packet is lost in the
capture; the driver is not called after its session has ended; the detector accepts the documented names and no others.

## The modules

**PickBest** is `pickBestResult`, a pure function of the slots read. A slot is
a record of what the code looks at: the version of the owner's record
(`created_at`), whether an event came with it and checks, the owner key,
`domain_found`. The URL, the JSON and the signature itself are abstracted to
these.

**Resolver** is `Resolve` and `queryNodesParallel`: any number of calls, each a
small program (`pc`): copy the list (`Begin`), ask a set (`AskSet`), wait
(`WaitDone`, `TimeOut`), read one slot at a time (`ReadSlot`), choose
(`Decide`). One goroutine per slot gets the answer (`Answer`) and writes it
(`Written`). Go does not make the write of a struct of several words atomic: a
slot read between the two shows any mixture (`Torn`). The network publishes and
replicates with a lag.

**NameLookup** is the abstract specification of the resolver: a call fails, or
returns a version that some node served between the call's start and its end.
`Resolver!ImplementsLookup` is the refinement (`status` and `answer` are
functions of `pc` and `result`; `record`, `has` and `since` are the same).
`CertTrust` uses the resolver by this promise only.

**CertTrust** composes cache, DNS handlers, signer, proxy handler and checks.
One action per critical section or blocking call: `Query`, `Resolved` or
`Forwarded`, `Register`, `Verify`, `Mark`, `Answer` for a query; `Hello`,
`CheckCert`, `Serve`, `GetResolution`, `Dial`, `MarkZone`, `Close` for a
connection to port 443; `PlainHello`, `PlainResolution`, `PlainDial`, `Close`
for one to port 80 (`handleHTTP`, which goes by the entry of the whole host name
and takes the root address); `Expire` for the signer's cache. `handler` says
whose DNS handler it is: `"unix"` (Linux and macOS) registers and then checks,
`"windows"` and `"server"` (`handleA` of `dns/server.go`) check first, at the
address of the subdomain; only `"windows"` keeps the table of subdomains;
`"server"` registers the name it resolved (`Key`); `"stack"` (`stack.go`) never
checks, and resolves the whole name where the others resolve its zone (`Asked`),
as `handleHTTP` does (`PlainFound`): every name may have a record of its own
(`published`). Names are tuples of labels; the three ways the code
cuts them (`Zone`, `Prefix`, `ProxySub`) are the definitions of those names.
Certificates are model values, `Down` a server that does not answer.

**Lifecycle** is one or more processes of the daemon on one Linux machine: the
nat OUTPUT chain as a sequence of rules, edited one iptables command at a time;
the goroutine of `Capture.Start` (`cap`), that of `Proxy.Start` (`prx`), that
of the DNS server (`server`), the accept loop and its handlers (`accepted`,
`open`), the refresh loop (`crawling`), `main`'s shutdown order (`main`).
Processes crash, are killed when a stop takes long, are restarted; the machine
reboots. Ports are held by one process at a time.

**PeerDiscovery** is `refreshPool` one node at a time, its ticker and `Stop`,
`GetNodes`, and the ticker of `main` that hands the list to the resolver. A URL
names a node through `Norm` (`normalizeURL`).

**Installation** is `InstallService` and `UninstallService` of the three systems,
each a list of named steps (`Installing`, `Uninstalling`) run one at a time: a
step is done, or a command of it fails and is warned about (`Warns`), or ends
the function (`Errors`; `Refuses` is an early return that nothing went wrong
for). `Interrupt` kills the installer between two steps and `PowerCut` the
machine. The authority is two files, `cert` and `key`, that the installer or
the daemon writes in four steps (`Save`: truncate and fill, twice); a file is
the authority it belongs to, `None` or `Cut`. `anchor`, `store` and `browser`
are what the machine and the user's NSS database trust, `unit`, `enabled`,
`binary` and `route` what the service manager and the kernel know, `daemon` the
service from due to on, `signs` the authority it loaded. The file formats, the
prompts and the privilege checks are abstracted away. `PowerCut` takes what
`os.WriteFile` has written for durable once it has returned. The code never syncs
a file (generator.go:134 and :139), so a real power cut may also empty one that
`Save` was done with, shortly after: what `PairLoads`, `AuthorityKept`,
`SignsTrusted` and `ServiceReturns` say of power cuts is said of a file system
that keeps finished writes.

**Divert** is `Execute`, the Windows service, as a sequence of places (`exec`),
with the loop of `capture_windows.go` (`loop`) and the driver's queue. A packet's
`fate` says where it is: queued, held by the loop, passed on, answered, lost or
expired. What happens to a name between `Resolved` and `AnswerDNN` is in
`CertTrust`. `Lookup` is the packet the daemon itself sends to find a node.

**DnsTap** is the abstract specification of `Divert`, as the other programs of
the machine see it: a packet the service takes comes out once, and is answered
only if it asks for an address of a DNN name; it grows old only while another,
that asks for a name, is inside; it is lost only while the service stops; and a
service that says it has stopped has none inside. There is no loop, handle or
queue in it. `Divert!ImplementsTap` is the refinement: `status` is what `Execute`
tells the service manager, and a packet that is queued or held is inside.

**TunStack** is `readLoop` with `Read` of the three systems, `newTUN`, `Start`,
`Stop` and `Close`. On Windows `Read` waits for an event, takes the lock, looks
at `closed` again and receives (`Wake`, `Lock`, `Receive`); on Linux and macOS it
reads a file in blocking mode (`ReadFile`, `"blocked"`). `owned` is what the
device has of the system: `newTUN` takes it piece by piece and gives it back when
a later piece fails. Two things are taken from the documentation of others: the
end of a WinTUN session wakes who waits for its event, and a file that is closed
while it is being read lives until the read returns, which the close does not
cause.

**Packets** composes the two ways of taking packets, `Divert` or `TunStack`
(`way`); a program has one of the two.

**PfCapture** is the capture of macOS from `Launch` to `Exit`, for any number of
processes: `Capture.Start` in its goroutine, one file operation or command at a
time (`WriteAnchor` and `WriteConf` empty the file first), and `Capture.Stop` in
`main`, which may come at any moment of it. `conf` says whether `/etc/pf.conf`
has the machine's own rules and how many times the daemon's lines, `rules` what
pf has loaded (`Loaded`: a missing anchor file is ignored, as the comment in
`removePF` says). `spoiled` and `abandoned` are history: the ways in which the
own rules may have been lost, and a process that went without undoing what it had
done.

**DnsConfig** is `SetDNS`, `EnsureDNS` and `RestoreDNS`, called in any order, one
at a time, interrupted between any two commands (`Interrupted`), while users
change settings and adapters come and go (`Change`). `setting` is what an adapter
uses (`Unset`: nothing of its own), `file` the saved record, `op` the place in the
call. Every read, command and write may fail; that the record cannot be read is
taken by `SetDNS` and `EnsureDNS` for no record (`Read`; windows.go:51 and :441
drop the error), and what they save then is without the originals. `orig`, `lost`
and `quiet` are history: what an adapter had when it was first recorded, the
adapters whose record was lost or never made, a restore without a failure since
which nothing was changed. What may be said of an adapter in `lost` is only that a
restore without a failure leaves it without the daemon's address; the others keep
their record through all of it.

**SystemSettings** composes the two (`os`): the settings of a machine that the
daemon borrows.

**Detector** is `detector.go` on labels as sequences of characters:
`IsDNNEncoded` with its greedy `MatchBIP39Prefix`, `IsDNNName`, `GetTLD`.
`InFormat` is the format of README.md:21 without a strategy: there are two words
such that the rest ends well. The word list is a constant.

`MCResolver`, `MCCertTrust` (with `MCCertTrustDeep`), `MCLifecycle`, `MCPeerDiscovery`, `MCInstallation`,
`MCSystemSettings` and `MCDivert` (for `Packets`) give the constants values for TLC; `MCDivert` also evaluates the
detector on every label of up to six characters over a small alphabet.
`ResolverProofs`, `CertTrustProofs`, `LifecycleProofs`, `PeerDiscoveryProofs`,
`InstallationProofs`, `SystemSettingsProofs` and `CaptureProofs` (for `Packets`
and `Detector`) hold the proofs. `DataLemmas` has what several of them need: a
set of numbers that is not empty has a least element, and how often an entry
occurs in a sequence before and after one is appended or taken out.

In each module an operator marked as a bug stands before the definition it
would replace; `PROJECT.json` says which property each of them breaks.

## The runs

| run | instance | shows |
|---|---|---|
| `Resolver_retry` | 2 nodes (1 legacy), sets of 1, 2 sets, 2 versions, a list that changes | the call returns; the refinement of `NameLookup`: the result was served during the call |
| `Resolver_set` | 3 nodes (1 legacy), 1 set, 2 owners, 2 versions | the freshest in time wins, owners are not mixed, a set is given up only for a reason |
| `Resolver_removed` | 2 nodes, 2 sets | *violated*: a removal is answered with an older record from the next set |
| `CertTrust_zones` | a label and a name under it, a server each, two declarations; the handlers of Linux and macOS, of the DNS server and of the stack | provenance, isolation, trust, earned verdicts |
| `CertTrust_below` | a zone and a name below it, perhaps with an address of its own; the handlers of Windows and of the DNS server | routing, and the check made at the address dialled (Windows); a failure recorded on the zone is honoured for the name below (server); queries end |
| `CertTrust_deep` | a zone and a name below it, one change of the server's certificate | *violated*: the failure the proxy recorded on the zone does not reach the name, whose own entry was verified before |
| `Lifecycle_two` | 2 processes of one user, 1 crash | no loop; once all have stopped no rules are left but those of the crash |
| `Lifecycle_alone` | 1 process, everything may go wrong | a stop ends, a crash is recovered from |
| `PeerDiscovery_mesh` | 4 nodes, 5 URLs, a pool of 2, 3 crawls | each node once, the bounds, a refresh has less to do with every step, stops end, the pool heals |
| `Installation_faults` | 5 systems, 4 runs of the installer, 3 faults | what Load accepts is a pair, the daemon signs with what is trusted, an authority that loads is kept, an uninstallation is complete, the service returns |
| `SystemSettings_restore` | macOS: 2 processes, 1 crash; Windows: 2 adapters, one with DHCP, 2 changes; failures anywhere | own settings are kept, and what stops or restores without a failure is undone |
| `Divert_service` | 3 queries (a name, a name of another type, an ordinary one), 2 lookups, 2 connections; or a TUN device of either sort that holds 2 packets | the refinement of `DnsTap`: packets are lost to a stop only; packets go on, a stop is complete and gives DNS back; the TUN device is quiet once closed and a stop of the stack ends; the detector against the format |

Bounds, and why they are enough. Two versions of a record are needed for "old"
and "new", and for a removal; three slots for a reference, a winner and a third
answer that disagrees; two sets for a retry. `NetworkQuiet` keeps the network
still during a call of `Resolver_set`: an answer is fixed when its goroutine
gets it, so only which versions the nodes hold matters there, and
`Resolver_retry` lets the network move. The key symmetry and the node symmetry
(legacy nodes are not exchanged) are those of the definitions, and no liveness
is checked under them. In `CertTrust_zones` the owner of the
lower zone may declare its server with a certificate and without, in either
order, and one server changes its certificate once: an entry can be older than
what is published, and a verdict than the server. In `CertTrust_below` a zone has
two declarations, with tables that differ, and servers stay as they are, up or
down; a check may fail all the same, since a slow server counts as a failure. In
`CertTrust_deep` there is one declaration: the trace needs no second. One
handler of each kind is in progress at a time: two queries for one name, whose
checks overlap, are outside the runs, as are names with a record of their own
below a zone; the proofs cover both.
`Lifecycle` bounds crashes and connections, and starts no process over a chain
of more than `MaxRules` rules unless it is the restart of a crashed one. In
`PeerDiscovery_mesh` both limits, of the pool and of the crawl, are below the
number of nodes. In `Installation_faults` four runs allow an installation to be
broken off, undone, and done again twice; three faults allow a power cut on top
of a failed command on top of a kill. In `Divert_service` a packet can be in
hand, another in the queue and a third passed; the host of the node has to be
looked up twice; the proofs cover any number of each. A TUN device that holds two
packets has one behind the one being read, which is when an event that counts
once matters. In `SystemSettings_restore` two processes are what a race needs and
a third run starts where one has ended; one crash, or a failure, at every step is
each followed by complete runs. An adapter without a static list, one with a list
of two, and one that DHCP serves are the three cases of a restore; two changes
from outside let a user set servers while the record is kept and unplug the
adapter before it is used. The word list of
`MCDivert` is like the code's in that no word begins another; the second list
there, with the kind of words that were taken out (bip39.go:7), is not.

Fairness. *Resolver*: weak fairness of the calling goroutine only; its wait is
bounded by the timer (`QueryTimeout`), and nothing is assumed of nodes or
goroutines. *CertTrust*: weak fairness of the DNS handler, for `Resolve` takes
at most `MaxRetrySets` timeouts and the pre-flight dial has its own; none for
the proxy, whose dial and copies have no limit. *Lifecycle*: goroutines run,
commands return, a crawl ends (its requests have timeouts), and the service is
started again after a crash (`Restart=on-failure` in the unit that
`InstallService` writes); none for handlers. *PeerDiscovery*: requests have
timeouts, tickers tick. *Installation*: the service manager starts what is due
and the daemon boots; nobody has to run or finish an installer. *Divert*: the
loop and `Execute` run, and the resolver's timer goes off; clients need not
disconnect, and nobody has to stop the service; the goroutine of the stack goes
on when it can, a `Stop` that has begun too, and nobody has to send a packet, nor
a read to fail. `SystemSettings_restore` has no liveness: nothing in that code
retries. Deadlock is checked except in `Installation_faults` and `Divert_service`,
where everything may be over: the runs used up, or the service stopped.

## What the runs say against the code's own words

1. `Resolver_removed`: `pickBestResult` returns nil for a removal as for a
   failed set, so the next set is asked and an out-of-date node there answers:
   the call has been told of the removal, version 2, and returns version 1.
   README.md:49 says removed domains don't resolve.
2. `CertTrust_deep`: a name below a zone has an entry of its own, which was
   verified; the server changes its certificate; the proxy's check fails and
   `MarkZone` records it on the zone's entry. The signer goes by the name's own
   entry and goes on vouching for it, against the comment at proxy.go:347.
   `MCCertTrustDeep` adds the history variable `refuted` to `CertTrust`: the names
   for which this has happened and nothing newer is known.

Seven more disagreements, stated in the modules as properties that fail. To see
one, give the named module's run these constants and check the property alone:

- `SignatureVerified` (Resolver; nodes n1, n2, `Forged = {n2}`, one set of two,
  one version): after a timeout the slice is read without synchronisation, and
  a slot with its resolution and not yet its event is accepted unverified,
  against the comment at resolver.go:146.
- `VerdictIsForEntry` (CertTrust; one name, `Offers <- AnyCert`, two workers):
  `SetCertVerified` writes to whatever entry the name has when the check ends;
  a query that registered another certificate meanwhile receives the verdict on
  the old one, against ipv6.go:31.
- `RulesRemovedOnStop` (Lifecycle; one process, no crash, no failing command,
  `EarlySignals = TRUE`): `Stop` reads `iptablesSet` while `Start` is between
  adding the rules and setting it, and removes nothing, against
  service_linux.go:149.
- `PadlockShown` (Installation; `Systems = {"macos"}`, one run, no fault):
  `installCA` makes no authority on macOS ("CA generation is handled by certgen
  package", service_darwin.go:163) and trusts none; the daemon makes one when it
  boots, which nothing trusts until the installer is run again. README.md:35
  promises the padlock.
- `RouteThere` (Installation; `Systems = {"windows"}`, three runs, no fault): when
  `route add` fails on Windows because the route is there, it is deleted and the
  same `exec.Cmd` is run again, which Go refuses ("exec: already started"); the
  error is ignored and the machine has no route. windows.go:339 says "delete and
  re-add".
- `AvoidsLoop` (Divert; the constants of `Divert_service`): a resolution waits
  for a lookup that is queued for the goroutine that resolves;
  capture_windows.go:2-3 says the loop is avoided. It ends with the resolver's
  timeout, and by then the driver may have thrown the lookup away.
- `MergeKeeps` (DnsConfig; the constants of `SystemSettings_restore`): after a first
  `SetDNS`, a second one fails to read the record, ignores the error and saves
  127.0.0.1 as the original of an adapter that points to the daemon, against
  windows.go:50, "MERGE - don't overwrite". Only the error of the save is looked at.

What the model shows besides, in instances that are not among the runs:

- `KeysAgree` fails when a node that leaves the key out (`Keyless`) answers
  first: the comparison is only with the first answer, and empty keys pass
  (resolver.go:180).
- A name without an entry is vouched for by the entry less one label
  (`findParentDomain`), which for `name.label` is another owner's zone;
  `TrustDeclared` states what is left of README.md:36.
- A second query replaces a checked entry by an unchecked one, and a connection
  made before its check ends is vouched for without a verdict
  (mapper/ipv6.go:127; preflight.go:26 says the result is there first).
- `SubdomainRouting` without its premise fails for every handler but
  `"windows"`: the entry is registered without the subdomain table, so a cached name is routed to the root
  address. `SameServerChecked` then fails so for `"server"`, which checks the address
  of the subdomain and leaves the proxy with that of the root.
- `handleHTTP` goes by the entry of the whole host name and never looks at a
  subdomain table: over port 80 a subdomain is always taken to the root address.
- `SameServerChecked` fails for names of two labels before the zone: the check
  looks up the whole prefix, the proxy the first label.
- `NoLoop` fails for processes of different users after a crash (the RETURN
  rule names a user and stands after the leftover REDIRECT), and with
  `CommandsFail`, where undoing a RETURN by `-D` removes an older, equal rule.
- `RulesRemovedOnStop` fails with `SlowStops` (the proxy's `Stop` comes first
  and waits for handlers without a limit, until the process is killed). After a
  crash the next process adds a second pair of rules and removes one, so the
  machine's DNS stays redirected when all have stopped: the property allows for
  two rules of each crash.
- `PoolHeals` needs the seeds: a refresh while the network is away empties the
  pool, and if the seeds are then gone for good no other node is ever asked.
- On Linux, `installCA` makes an authority only when neither file is there. If
  one is, it puts the old certificate, or none, in the stores, and the daemon
  makes a new authority at boot: `SignsTrusted` without its last premise fails.
- INSTALL.md says to re-run the installer to reinstall the certificate; with the
  daemon running, the copy of the binary refuses (`Copy`: the text file is busy)
  and nothing is reinstalled.
- The NSS certificate is removed only for the user behind `sudo`; an
  uninstallation through another way to root leaves it (`nss`).
- The route is not persistent on Linux and macOS (`PowerCut`); the rules of the
  capture do not need it.
- On macOS the daemon's lines stay in `/etc/pf.conf` when it is stopped, or
  uninstalled; only the anchor file goes. What else may be left is named in
  `RedirectUndone`: a signal that comes before `setupPF` is through is undone by
  nobody (`pfSet`), as on Linux, and so is a pfctl that failed.
- An unreadable or half-written `/etc/pf.conf` is taken for an empty one and the
  machine's own rules are replaced by the two lines (`spoiled`).
- `RestoreDNS` gives back the first server of a list only, leaves an adapter that
  had none with what it has, and resets Wi-Fi and Ethernet to DHCP whatever they
  had (`GivenBack`); it removes the record even if an adapter could not be set,
  and does not notice when the record cannot be removed.
- On Linux and macOS a `Stop` of the stack lasts until one more packet comes
  (`TunStopEnds`), and on Linux none comes: `runCommand` only logs.
- On Windows `PairLoads` fails: a run that removed only one of the files, and a
  `Save` that fails (which is only warned about), leave a certificate and a key
  that do not fit, and `Load` does not compare them.

## The proofs

`ResolverProofs` proves, for any nodes, keys, lists, number of calls and sizes of
sets, that `Spec` implies `[]TypeOK`, `[]Regular`, `[]FreshestInTime` and
`ImplementsLookup`, the refinement of `NameLookup`: initial states map to
initial states, and every step to a step or a stutter. They rest on
`NodesAssumption` (which nodes are old or send no key) and `SizeAssumption` (a
set has at least one slot) of `Resolver`, and on `PickFacts`: what
`pickBestResult` returns is an accepted slot, the newest, and not a removal.

None of the three properties is inductive: they speak of a call that returned,
and what it returns passed through a goroutine, a slot and a read. `IInv` follows
it on that way. An answer in a goroutine's hands or in a slot was served by the
node that was asked, between the call's start and now (`Answers`); a torn read
shows the version of the slot or none, so the same bounds hold for what was read
(`Readings`); a slot written in time is settled, and what was read of it is what
it holds (`Settled`), which is what `FreshestInTime` needs although late
goroutines still write the other slots; a result is chosen only when every slot
was read, and is the newest accepted one (`Progress`). That nodes only move
forward (`History`) keeps the bounds true while the network goes on. TLC checked
`IInv` on the instances of `Resolver_retry` and `Resolver_set` before it was
proved.

On the same invariant `ResolverProofs` proves the action property
`RefusalHasReason`: where all nodes of a set were in time, the accepted slots are
those whose answers are acceptable, and a set that is given up had none, or two
owners, or a removal as its newest (`AllInTime`). `KeysAgree` is proved where no
node leaves the key out (`Keyless = {}`): `pickBestResult` compares the keys with
the first accepted one only, and takes two keys for different if neither is
empty, so an empty first key hides that the others differ. `Named` (every slot
filled has a key) and `Checked` (a result comes of slots that passed the
comparison) are added to `IInv` for it.

`CertTrustProofs` proves, for all names, servers, certificates, declarations
and numbers of handlers, and for each kind of DNS handler and both ports of the
proxy, that `Spec` implies `[]TypeOK`,
`[]Provenance`, `[]Isolation`, `[]TrustDeclared` and `[]VerdictEarned`. They
rest on the named assumptions of `CertTrust`: the zone of a name in use is
itself a name in use, tables have no address for the empty prefix, the marks
(`NoEntry`, `NoIp`, `NoCert`, `Down`) are not values. Names below zones, with and
without records of their own, are among them. `KeyFacts` says of the name an
entry is registered under that it is in use and of the same zone as the name
asked for, `AskedFacts` that the same is resolved for both.

None of the four properties is inductive. An entry's provenance depends on the
declaration a handler carries between the resolver's answer and `Register`;
a target on the entry or answer it was computed from; a trusted certificate on
the verdict read one step before it is served; a verified entry on the verdict
in a handler's hands between `Verify` and `Mark`. The inductive invariant
`IInv` therefore adds one conjunct for what each kind of handler has in flight
at each `pc`. It was checked by TLC before it was proved; the preservation
theorem has one step per action. `Publish` only adds to `published` and no
action takes from `matched`, which is why facts about them survive every step.

Three more properties of `CertTrust` are each about some of the handlers, and
say so. `SubdomainRouting`: on Windows the cache keeps the table of a declaration,
so that entries and connections hold declarations as they were published
(`Whole`). `SameServerChecked`: on Windows, and proved for names of at most three
labels; the handler looks a name up by all labels before its zone, the proxy by
the first one, and TLC finds two addresses for a name of four labels.
`FailedZoneNotTrusted`, an action property: with the DNS server, which keeps
entries under zones only (`OnZones`), so that what `findParentDomain` falls back on
for a name below a zone is the zone or nothing (`ParentIsZone`). Where a handler
registers whole names `CertTrust_deep` shows what goes wrong, and the mutant
`KeyAsGiven` makes the server such a handler.

`LifecycleProofs` proves `[]TypeOK` for any processes, users and bounds, and
three theorems about the kernel's rules. The chain is a list with repetitions:
every start inserts its two rules, every deletion takes the first that is equal,
and a crash leaves both behind; so the invariant counts. `Order` says what `main`
knows of the goroutine of `Capture.Start`. `Counted` says that there are at least
as many redirections as processes that have inserted one and not deleted it.
`Balanced` says that
before every redirection there are at least as many rules that exempt the user,
and one more for each process about to delete its own.
`NeverRedirected` and `NoLoop` assume that commands work and that the daemons are
of one user: the deletion of the redirection may fail and that of the exemption
succeed, and a second user's exemption is inserted above a redirection that
exempts the first user only further down. `RulesRemovedOnStop` assumes that
commands work, that no signal comes during a start and that no stop takes so long
that the daemon is killed; the users may be many. It bounds what is left from
above, so `Counted` from below does not give it: `-D` takes the first rule that is
equal, perhaps one a crashed process left, and the chain must then still hold one
for whoever deletes next. `Lefts` says that it does (for each user as many
exemptions as processes that still owe one), and that the chain is no longer than
what living processes have in it and two rules for each crash.

`PeerDiscoveryProofs` proves `[]TypeOK`, with the limits of pool and crawl, and
`[]EachNodeOnce` for any network, spelling of URLs and number of refreshes. The
loops that append what passes a test are a recursive function (`Only`); that it
exists, and what its result holds, is proved by the least counterexample
(`LoopExists`, `Among`). `Distinct` ties the pool in the making to the set of
nodes met: each was met, and the one in hand is not yet in it. The action property
`RefreshShrinks` is the measure behind `StopEnds`, for a stop waits for a refresh:
the nodes not met yet, then how far the URL in hand is, then the URLs queued
decrease in this order (`ShrinksStep`); the nodes a refresh appends to the queue
cost nothing, since to append them a node was met for the first time.

`InstallationProofs` proves `[]TypeOK`, `[]PairLoads`, `[]SignsTrusted`,
`[]UninstallClean` and the action property `AuthorityKept` (an authority that loads
is never written over or removed on Linux and macOS) for any number of runs, failing
commands, kills and power cuts, without any assumption but that of the bounds. `Plan` says that what is
left to do is an end of the list of steps of the system, so that one can speak of
the steps behind; `Writers` who may be writing the authority's files, and when:
the two never meet, since on Linux the installer writes only where there is no
certificate and the daemon is started only where there is one; `Pairs` that the
key is written last and only over one that does not load; `TrustedLinux`,
`TrustedWindows` and `Undone` what the steps behind a run without a failure have
put in place or taken away. `AuthorityKept` follows from `Writers`: whoever is
about to empty a file has found that the two do not load (`FilesChange`).

`TypeOK` of `Installation` includes that no more authorities are made than runs
and faults account for. To make it inductive the invariant keeps an account: an
authority costs two; a fault brings two, a run brings one, and two were there at
the start. `Paid` says what must be left over in each situation in which an
authority is still to be made, as when the daemon is due and no pair loads;
`PaidWindows` that on Windows a run makes at most one; `Numbered` that no file, store
or program holds an authority that was not made.

`SystemSettingsProofs` proves `[]TypeOK`, `[]OwnSettingsKept` and `[]Undone`. On
macOS, for any processes: who will undo a redirection that is loaded or that the
files ask for is a process that has not come to its own removal yet
(`Undoers`), and the machine's rules are in `pf.conf` or in the hands of one
that is about to fill it, however many read, empty and fill it (`Held`). On
Windows, for any adapters and lists of servers: what the file, or the hand about
to fill it, records for an adapter whose record was not lost is what was there
first, before, during and after every call (`KeptFor`, `Kept`), whatever reads
and writes fail; and a restore without a failure goes on from there, adapter by
adapter (`Restoring`). It rests on `DnsAssumption` (lists have
a server and do not name the daemon) and `MarksAssumption` (the marks are not
records or settings).

`CaptureProofs` proves `[]StoppedIsQuiet` and `[]DroppedOnlyByStop` of
`Packets`, for any packets, kinds, and numbers of lookups and connections. Its invariant says what
each place in `Execute` implies about handle, flag and goroutine (`Order`), that
there are no connections once the proxy is drained (`Clients`), and that a
packet is with the driver only while there is a handle and with the loop only
while it works on that packet (`Places`). Neither property is inductive: that
nothing is lost early needs that the handle is open whenever a working loop is
not being stopped, which needs the order of the three steps of `Stop`.
`[]PacketsTypeOK` says in particular that the queue is no longer than there are
packets: it holds each queued packet once and no other (`Lined`).
`[]TunClosedIsQuiet` of the TUN device is proved for any ring: `TunOrder` ties
the places of the reader and of `Stop` to the device, and `Begun` says that what
`newTUN` owns is what it has taken so far.

`TapRefinement` is the refinement of `DnsTap`: `TapInit` and `TapStep`, which takes
each action of `Divert` to one step of `DnsTap` or to none. It rests on the
invariant above (a packet that is sent to an open handle is sent to a service that
has not stopped; one the loop can no longer hand back is lost to a stop; who
reports that it has stopped has no packet) and on `Names`: the packet a resolution
is about asks for a name, which is what an expired packet was behind.

`CaptureProofs` also proves that what the detector accepts has the documented
format, for every word list (`DetectedHasFormat`); that if no word begins
another it accepts all of that format (`FormatIsDetected`); and that the label
`GetTLD` returns for an accepted name has it (`ZoneHasFormat`). They rest on
`DetectorAssumption` (two words and two characters are at least the minimal
length) and on two facts about the greedy match: it finds a word if there is
one, the longest, and only one can be there if no word begins another. That the
code's list of 1999 words is prefix-free is a fact about data, established
outside these modules.

Each invariant was checked by TLC on the instance of a run before it was proved.
Three invariants are proved and no run needs to list them: `Regular`, which
`ImplementsLookup` says again, `DroppedOnlyByStop`, which `ImplementsTap` does, and
`TypeOK` of `Lifecycle`.

Only model-checked: all liveness (`CallsReturn`, `QueriesEnd`, `ShutdownEnds`,
`Recovers`, `StopEnds`, `PoolHeals`, `ServiceReturns`, `PacketsGoOn`,
`StopFreesDNS`, `TunStopEnds`), which is out of the prover's reach.

## Not modelled, and why

- In the resolver: `currentNode` and `HealthCheck`, read or called by nothing;
  `ErrNotFound`, never returned.
- In the cache: `ipToName` and `nameToIP`, written by the handlers and read by
  code only that nothing calls; ports, which no property distinguishes.
- In the proxy: the pool of upstream connections (nothing is ever returned to
  it, so it is always empty).
- In the capture: the flag `running` on Linux (`Start` and `Stop` are called once
  each); the layout of packets on Windows.
- In the code nothing calls: the answers of the DNS server to AAAA queries, a
  function of the name, and its forwarding; `GetOriginalUpstreams` and
  `GetCurrentUpstreams`, which change nothing; the addresses and routes of a TUN
  device, commands whose failures are only warned about; the TCP proxy, whose
  addresses no DNS handler that runs hands out; the transports, which always
  return an error.
- In the installers: the prompts, the elevation, the event log's registry entry,
  the removal of `/etc/dnn`, which no installer does.
- Per-subdomain certificates (README.md:41): the code does not have them.
- Dialogs, logging, the command line, configuration: no state that matters.

## Plan

Done in this order: `PickBest`, `Resolver` with `NameLookup` and their proofs,
`CertTrust` with its proofs, `Lifecycle`, `PeerDiscovery`, `Installation`,
`Divert` with its proofs, `Detector` with its proofs; then port 80 and the other
DNS handlers in `CertTrust`, `PfCapture` and `DnsConfig` with `SystemSettings`,
`TunStack` with `Packets`; then the proofs about `Lifecycle`, `PeerDiscovery`,
`Installation`, `SystemSettings` and `TunStack`; then `RefreshShrinks`,
`AuthorityKept`, the account of `Installation`, the sharper `RulesRemovedOnStop`,
and `DnsTap` with its refinement. Next:

1. What `CallsReturn`, `Recovers` and `ShutdownEnds` rest on, as measures that each
   step decreases, as `RefreshShrinks` is for the refresh a stop waits for.
2. The TCP proxy: connections by address, and its resolutions with a time to
   live.
