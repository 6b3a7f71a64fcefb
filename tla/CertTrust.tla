----------------------------- MODULE CertTrust -----------------------------
(***************************************************************************)
(* How the daemon comes to vouch for a DNN site: the mapping cache         *)
(* (internal/mapper), the DNS handlers that fill it (internal/capture, and *)
(* those of internal/dns and internal/stack, which main does not start),   *)
(* the certificate signer that asks it (internal/ca) and the HTTPS proxy   *)
(* that uses and corrects it (internal/httpsproxy), over one cache that    *)
(* all of them share and lock one operation at a time.                     *)
(*                                                                         *)
(* A name is the tuple of its labels, the DNN label last.  The resolver is *)
(* what module NameLookup promises: it fails, or returns some declaration  *)
(* published under the very name asked for, an old one if nodes lag.  A    *)
(* zone and a name below it have records of their own.                     *)
(***************************************************************************)
EXTENDS Integers, Sequences, FiniteSets

CONSTANTS
    Names,          \* the names clients use
    Ips, Certs,     \* servers and certificates
    NoIp, NoCert, NoEntry, Down,
    Subs,           \* subdomain tables: the address of each prefix, NoIp where none is declared
    Offers,         \* Offers[n]: the declarations that may be published under n
    MaxOffers,      \* bound: declarations published per name
    MaxRotations,   \* bound: changes of a server's certificate
    Workers,        \* DNS queries in progress at a time (goroutines of the DNS server)
    Conns,          \* HTTPS connections in progress at a time
    Handlers        \* the kinds of DNS handler: "unix" is handleDNNQuery of capture_linux.go and
                    \* _darwin.go, "windows" handleDNN of capture_windows.go, "server" handleA of
                    \* dns/server.go, "stack" handleDNNQuery of stack.go

(* The zone of a name: the DNN label and the label before it. *)
Zone(n) == IF Len(n) <= 2 THEN n ELSE <<n[Len(n) - 1], n[Len(n)]>>
(* The labels before the zone: what capture_windows.go looks up. *)
Prefix(n) == SubSeq(n, 1, Len(n) - Len(Zone(n)))
(* The first label, when the zone leaves one: what the proxy looks up. *)
ProxySub(n) == IF Len(n) >= 3 THEN <<n[1]>> ELSE <<>>

Zones    == {Zone(n) : n \in Names}
Prefixes == {Prefix(n) : n \in Names} \cup {ProxySub(n) : n \in Names}
NoSubs   == [p \in Prefixes |-> NoIp]
Decl     == [ip : Ips, cert : Certs \cup {NoCert}, sub : Subs]
Entry    == [ip : Ips, cert : Certs \cup {NoCert}, sub : Subs,
             checked : BOOLEAN, verified : BOOLEAN]

ASSUME NamesAssumption == /\ Names \subseteq Seq(STRING) \ {<<>>} /\ Names # {}
                          /\ Zones \subseteq Names
ASSUME SubsAssumption == /\ Subs \subseteq [Prefixes -> Ips \cup {NoIp}] /\ NoSubs \in Subs
                         /\ \A s \in Subs : s[<<>>] = NoIp
                         /\ Ips # {}
ASSUME OffersAssumption == /\ Offers \in [Names -> SUBSET Decl]
                           /\ MaxOffers \in Nat /\ MaxRotations \in Nat
ASSUME HandlersAssumption == Handlers \subseteq {"unix", "windows", "server", "stack"}
ASSUME MarksAssumption == /\ NoEntry \notin Entry /\ NoIp \notin Ips
                          /\ NoCert \notin Certs /\ Down \notin Certs

VARIABLES
    handler,    \* the kind of DNS handler this daemon runs
    published,  \* published[n]: the declarations the network may answer with for n
    present,    \* present[ip]: the certificate the server shows, Down if it cannot be reached
    rotations,
    res,        \* Cache.resolutions
    issued,     \* the domains of Signer.cache
    dpc, dname, ddecl, dverdict,    \* DNS handlers
    hpc, hname, trust, served, hdecl, target, hverdict,     \* HTTPS handlers
    matched         \* history: <<zone, certificate>> that a handler found to be the server's own

world   == <<handler, published, present, rotations>>
dnsVars == <<dpc, dname, ddecl, dverdict>>
hVars   == <<hpc, hname, trust, served, hdecl, target, hverdict>>
vars    == <<world, res, issued, dnsVars, hVars, matched>>

AnyIp   == CHOOSE ip \in Ips : TRUE
AnyName == CHOOSE n \in Names : TRUE
NoDecl  == [ip |-> AnyIp, cert |-> NoCert, sub |-> NoSubs]

TypeOK ==
    /\ handler \in Handlers
    /\ published \in [Names -> SUBSET Decl]
    /\ present \in [Ips -> Certs \cup {Down}]
    /\ rotations \in 0..MaxRotations
    /\ res \in [Names -> Entry \cup {NoEntry}]
    /\ issued \in SUBSET Names
    /\ dpc \in [Workers -> {"idle", "resolve", "register", "verify", "mark", "answer"}]
    /\ dname \in [Workers -> Names]
    /\ ddecl \in [Workers -> Decl]
    /\ dverdict \in [Workers -> BOOLEAN]
    /\ hpc \in [Conns -> {"idle", "check", "serve", "lookup", "dial", "mark", "proxy",
                       "plain", "plainDial", "copy"}]
    /\ hname \in [Conns -> Names]
    /\ trust \in [Conns -> BOOLEAN]
    /\ served \in [Conns -> {"none", "ca", "self"}]
    /\ hdecl \in [Conns -> Decl]
    /\ target \in [Conns -> Ips]
    /\ hverdict \in [Conns -> BOOLEAN]
    /\ matched \in SUBSET (Zones \X Certs)

Init ==
    /\ handler \in Handlers
    /\ published = [n \in Names |-> {}]
    /\ present \in [Ips -> Certs \cup {Down}]
    /\ rotations = 0
    /\ res = [n \in Names |-> NoEntry]
    /\ issued = {}
    /\ dpc = [d \in Workers |-> "idle"]
    /\ dname = [d \in Workers |-> AnyName]
    /\ ddecl = [d \in Workers |-> NoDecl]
    /\ dverdict = [d \in Workers |-> FALSE]
    /\ hpc = [h \in Conns |-> "idle"]
    /\ hname = [h \in Conns |-> AnyName]
    /\ trust = [h \in Conns |-> FALSE]
    /\ served = [h \in Conns |-> "none"]
    /\ hdecl = [h \in Conns |-> NoDecl]
    /\ target = [h \in Conns |-> AnyIp]
    /\ hverdict = [h \in Conns |-> FALSE]
    /\ matched = {}

-----------------------------------------------------------------------------
(* Outside the daemon: owners publish, servers change certificate or fail. *)
Publish(n) ==
    /\ Cardinality(published[n]) < MaxOffers
    /\ \E x \in Offers[n] : published' = [published EXCEPT ![n] = @ \cup {x}]
    /\ UNCHANGED <<handler, present, rotations, res, issued, dnsVars, hVars, matched>>

Rotate(ip) ==
    /\ rotations < MaxRotations
    /\ rotations' = rotations + 1
    /\ \E c \in Certs \cup {Down} : present' = [present EXCEPT ![ip] = c]
    /\ UNCHANGED <<handler, published, res, issued, dnsVars, hVars, matched>>

-----------------------------------------------------------------------------
(* The mapping cache. *)

(* RegisterWithIPAndSubdomains: a new entry, nothing of the old one kept.
   All but the Windows capture make the entry without the subdomain table. *)
EntryWithoutTable(x) == [ip |-> x.ip, cert |-> x.cert, sub |-> NoSubs,
                         checked |-> FALSE, verified |-> FALSE]      \* a bug on Windows
NewEntry(x) == [ip |-> x.ip, cert |-> x.cert, sub |-> IF handler = "windows" THEN x.sub ELSE NoSubs,
                checked |-> FALSE, verified |-> FALSE]

(* Bugs: a failed check forgets the certificate, or counts as a success. *)
CheckedForgets(e, v) == [ip |-> e.ip, cert |-> IF v THEN e.cert ELSE NoCert, sub |-> e.sub,
                         checked |-> TRUE, verified |-> v]
CheckedAlways(e, v) == [ip |-> e.ip, cert |-> e.cert, sub |-> e.sub,
                        checked |-> TRUE, verified |-> TRUE]

(* SetCertVerified: on whatever entry the name has now, if any. *)
Checked(e, v) == [ip |-> e.ip, cert |-> e.cert, sub |-> e.sub, checked |-> TRUE, verified |-> v]
SetCertVerified(n, v) ==
    res' = IF res[n] = NoEntry THEN res ELSE [res EXCEPT ![n] = Checked(@, v)]

(* findParentDomain: the name itself, or the name less its first label;
   the empty tuple when neither has an entry. *)
FindParentDomain(n) ==
    IF res[n] # NoEntry THEN n
    ELSE IF Len(n) >= 2 /\ Tail(n) \in Names /\ res[Tail(n)] # NoEntry THEN Tail(n)
    ELSE <<>>

(* A bug: an entry without a certificate counts. *)
VouchedBare(e) == ~(e.checked /\ ~e.verified)
(* The tri-state rule: a declared certificate counts until a check failed. *)
Vouched(e) == e.cert # NoCert /\ ~(e.checked /\ ~e.verified)
IsCertValidForDomain(n) ==
    LET p == FindParentDomain(n) IN p # <<>> /\ Vouched(res[p])

(* Resolver.Resolve, by NameLookup's promise. *)
Answers(n) == published[n]

(* The certificate of the server dialled, against the declared one: no declared
   certificate and no connection both fail. *)
VerifyCert(declared, server) == declared # NoCert /\ server = declared
Matches(x, ip) == VerifyCert(x.cert, present[ip])
Noted(ok, z, x) == matched' = IF ok THEN matched \cup {<<z, x.cert>>} ELSE matched

-----------------------------------------------------------------------------
(* The DNS handlers.  Those of the Windows capture and of the server check
   before they register, those of Linux and macOS after, the stack never. *)
ChecksFirst == handler \in {"windows", "server"}
(* What is resolved for a name: its zone, but by the stack the whole name. *)
Asked(n) == IF handler = "stack" THEN n ELSE Zone(n)
(* The server registers under the zone, which is what it resolved; the others
   under the name asked for, which would be a bug in the server. *)
KeyAsGiven(n) == n
Key(n) == IF handler = "server" THEN Zone(n) ELSE n

Query(d, n) ==
    /\ dpc[d] = "idle"
    /\ dname' = [dname EXCEPT ![d] = n]
    /\ dpc' = [dpc EXCEPT ![d] = "resolve"]
    /\ UNCHANGED <<world, res, issued, ddecl, dverdict, hVars, matched>>

Resolved(d) ==
    /\ dpc[d] = "resolve"
    /\ \E x \in Answers(Asked(dname[d])) : ddecl' = [ddecl EXCEPT ![d] = x]
    /\ dpc' = [dpc EXCEPT ![d] = IF ChecksFirst THEN "verify" ELSE "register"]
    /\ UNCHANGED <<world, res, issued, dname, dverdict, hVars, matched>>

(* A bug: a failed resolution is tried again for ever. *)
RetryForEver(d) == dpc[d] = "resolve" /\ UNCHANGED vars

(* The resolver failed: the query goes to ordinary DNS, or gets an empty answer
   or NXDOMAIN. *)
Forwarded(d) ==
    /\ dpc[d] = "resolve"
    /\ dpc' = [dpc EXCEPT ![d] = "idle"]
    /\ dname' = [dname EXCEPT ![d] = AnyName]
    /\ UNCHANGED <<world, res, issued, ddecl, dverdict, hVars, matched>>

Register(d) ==
    /\ dpc[d] = "register"
    /\ res' = [res EXCEPT ![Key(dname[d])] = NewEntry(ddecl[d])]
    /\ dpc' = [dpc EXCEPT ![d] = IF ChecksFirst THEN "mark"
                                 ELSE IF handler = "unix" /\ ddecl[d].cert # NoCert
                                      THEN "verify" ELSE "answer"]
    /\ UNCHANGED <<world, issued, dname, ddecl, dverdict, hVars, matched>>

(* The address checked: on Linux and macOS the root address of the zone. *)
RootIp(n, x) == x.ip        \* a bug on Windows
VerifyIp(n, x) ==
    IF ChecksFirst /\ x.sub[Prefix(n)] # NoIp THEN x.sub[Prefix(n)] ELSE x.ip

(* PreflightVerify, verifyServerCert: a slow server counts as a mismatch. *)
Verify(d) ==
    /\ dpc[d] = "verify"
    /\ \E ok \in {FALSE, Matches(ddecl[d], VerifyIp(dname[d], ddecl[d]))} :
           /\ dverdict' = [dverdict EXCEPT ![d] = ok]
           /\ Noted(ok, Zone(dname[d]), ddecl[d])
    /\ dpc' = [dpc EXCEPT ![d] = IF ChecksFirst THEN "register" ELSE "mark"]
    /\ UNCHANGED <<world, res, issued, dname, ddecl, hVars>>

Mark(d) ==
    /\ dpc[d] = "mark"
    /\ SetCertVerified(Key(dname[d]), dverdict[d])
    /\ dpc' = [dpc EXCEPT ![d] = "answer"]
    /\ UNCHANGED <<world, issued, dname, ddecl, dverdict, hVars, matched>>

(* The reply: the daemon's own address, or the address of the site where the
   server's check has failed; ordinary DNS for other types. *)
Answer(d) ==
    /\ dpc[d] = "answer"
    /\ dpc' = [dpc EXCEPT ![d] = "idle"]
    /\ dname' = [dname EXCEPT ![d] = AnyName]
    /\ ddecl' = [ddecl EXCEPT ![d] = NoDecl]
    /\ dverdict' = [dverdict EXCEPT ![d] = FALSE]
    /\ UNCHANGED <<world, res, issued, hVars, matched>>

-----------------------------------------------------------------------------
(* The handlers of the proxy: the handshake with its certificate, then
   handleHTTPS; or handleHTTP.
   A client may come without asking DNS first: its answer lives 300 s, and
   may be older than this run of the daemon. *)
Hello(h, n) ==
    /\ hpc[h] = "idle"
    /\ hname' = [hname EXCEPT ![h] = n]
    /\ hpc' = [hpc EXCEPT ![h] = "check"]
    /\ UNCHANGED <<world, res, issued, dnsVars, trust, served, hdecl, target, hverdict, matched>>

(* GetCertificate asks the cache first ... *)
CheckCert(h) ==
    /\ hpc[h] = "check"
    /\ trust' = [trust EXCEPT ![h] = IsCertValidForDomain(hname[h])]
    /\ hpc' = [hpc EXCEPT ![h] = "serve"]
    /\ UNCHANGED <<world, res, issued, dnsVars, hname, served, hdecl, target, hverdict, matched>>

(* ... and then takes or makes the certificate; making one takes long. *)
Serve(h) ==
    /\ hpc[h] = "serve"
    /\ served' = [served EXCEPT ![h] = IF trust[h] THEN "ca" ELSE "self"]
    /\ issued' = IF trust[h] THEN issued \cup {hname[h]} ELSE issued
    /\ hpc' = [hpc EXCEPT ![h] = "lookup"]
    /\ UNCHANGED <<world, res, dnsVars, hname, trust, hdecl, target, hverdict, matched>>

(* A certificate within an hour of its end is dropped from Signer.cache. *)
Expire(n) ==
    /\ n \in issued
    /\ issued' = issued \ {n}
    /\ UNCHANGED <<world, res, dnsVars, hVars, matched>>

(* A bug: the subdomain's address even if there is none. *)
OwnIp(n, x) == x.sub[ProxySub(n)]

(* The subdomain's address where the resolution has one. *)
TargetIp(n, x) == IF x.sub[ProxySub(n)] # NoIp THEN x.sub[ProxySub(n)] ELSE x.ip

(* The entry of the zone, or else a resolution that is not cached; a bug
   would be to fall back on the parent's entry, as the signer does. *)
AsDeclared(e) == [ip |-> e.ip, cert |-> e.cert, sub |-> e.sub]
FoundParent(z) ==
    LET p == FindParentDomain(z) IN IF p # <<>> THEN {AsDeclared(res[p])} ELSE Answers(z)
Found(z) == IF res[z] # NoEntry THEN {AsDeclared(res[z])} ELSE Answers(z)

GetResolution(h) ==
    /\ hpc[h] = "lookup"
    /\ \E x \in Found(Zone(hname[h])) :
           /\ hdecl' = [hdecl EXCEPT ![h] = x]
           /\ target' = [target EXCEPT ![h] = TargetIp(hname[h], x)]
    /\ hpc' = [hpc EXCEPT ![h] = "dial"]
    /\ UNCHANGED <<world, res, issued, dnsVars, hname, trust, served, hverdict, matched>>

(* tls.Dial and VerifyCert; the pool of upstream connections is always empty. *)
Dial(h) ==
    /\ hpc[h] = "dial" /\ present[target[h]] # Down
    /\ LET ok == Matches(hdecl[h], target[h]) IN
           /\ hverdict' = [hverdict EXCEPT ![h] = ok]
           /\ Noted(ok, Zone(hname[h]), hdecl[h])
    /\ hpc' = [hpc EXCEPT ![h] = "mark"]
    /\ UNCHANGED <<world, res, issued, dnsVars, hname, trust, served, hdecl, target>>

(* The verdict goes to the entry of the zone; proxying goes on either way. *)
MarkZone(h) ==
    /\ hpc[h] = "mark"
    /\ SetCertVerified(Zone(hname[h]), hverdict[h])
    /\ hpc' = [hpc EXCEPT ![h] = "proxy"]
    /\ UNCHANGED <<world, issued, dnsVars, hname, trust, served, hdecl, target, hverdict, matched>>

(* handleHTTP, the connections to port 80: the Host header names the site. *)
PlainHello(h, n) ==
    /\ hpc[h] = "idle"
    /\ hname' = [hname EXCEPT ![h] = n]
    /\ hpc' = [hpc EXCEPT ![h] = "plain"]
    /\ UNCHANGED <<world, res, issued, dnsVars, trust, served, hdecl, target, hverdict, matched>>

(* The entry of the whole host name, or else a resolution that is not cached;
   the root address either way, no certificate and no table. *)
PlainFound(n) == IF res[n] # NoEntry THEN {res[n].ip} ELSE {x.ip : x \in Answers(n)}

PlainResolution(h) ==
    /\ hpc[h] = "plain"
    /\ \E ip \in PlainFound(hname[h]) : target' = [target EXCEPT ![h] = ip]
    /\ hpc' = [hpc EXCEPT ![h] = "plainDial"]
    /\ UNCHANGED <<world, res, issued, dnsVars, hname, trust, served, hdecl, hverdict, matched>>

(* Port 80 of a server may answer when its port 443 does not. *)
PlainDial(h) ==
    /\ hpc[h] = "plainDial"
    /\ hpc' = [hpc EXCEPT ![h] = "copy"]
    /\ UNCHANGED <<world, res, issued, dnsVars, hname, trust, served, hdecl, target, hverdict, matched>>

(* The handler returns: the handshake failed or the client turned the
   certificate down, nothing resolves, the dial failed, or the proxied
   connection is over. *)
Close(h) ==
    /\ hpc[h] \in {"lookup", "dial", "proxy", "plain", "plainDial", "copy"}
    /\ hpc' = [hpc EXCEPT ![h] = "idle"]
    /\ hname' = [hname EXCEPT ![h] = AnyName]
    /\ trust' = [trust EXCEPT ![h] = FALSE]
    /\ served' = [served EXCEPT ![h] = "none"]
    /\ hdecl' = [hdecl EXCEPT ![h] = NoDecl]
    /\ target' = [target EXCEPT ![h] = AnyIp]
    /\ hverdict' = [hverdict EXCEPT ![h] = FALSE]
    /\ UNCHANGED <<world, res, issued, dnsVars, matched>>

-----------------------------------------------------------------------------
World == (\E n \in Names : Publish(n)) \/ (\E ip \in Ips : Rotate(ip))
DnsStep(d) == \/ Resolved(d) \/ Forwarded(d) \/ Register(d)
              \/ Verify(d) \/ Mark(d) \/ Answer(d)
ConnStep(h) == \/ CheckCert(h) \/ Serve(h) \/ GetResolution(h)
               \/ Dial(h) \/ MarkZone(h) \/ Close(h)
               \/ PlainResolution(h) \/ PlainDial(h)

Next == \/ World
        \/ \E d \in Workers : DnsStep(d) \/ \E n \in Names : Query(d, n)
        \/ \E h \in Conns : ConnStep(h) \/ \E n \in Names : Hello(h, n) \/ PlainHello(h, n)
        \/ \E n \in Names : Expire(n)

Spec == Init /\ [][Next]_vars

(* Resolve and the pre-flight dial are bounded by timeouts, so a DNS handler
   always gets to its end.  The proxy's dial is not. *)
FairSpec == Spec /\ \A d \in Workers : WF_vars(DnsStep(d))

-----------------------------------------------------------------------------
Busy(h) == hpc[h] \in {"dial", "mark", "proxy"}
Copying(h) == hpc[h] \in {"plainDial", "copy"}

(* An entry is a copy of a declaration of what its handler resolves for the
   name, the zone or the name itself, whatever queries, connections and
   publications interleave. *)
Provenance == \A n \in Names : res[n] # NoEntry =>
    \E x \in published[Asked(n)] : /\ res[n].ip = x.ip /\ res[n].cert = x.cert
                                  /\ res[n].sub \in {x.sub, NoSubs}

(* A TLS connection for a name goes only to a server that the name's zone
   declared, never to one declared for another zone.  A plain one goes to the
   server of the declaration that its entry was made from or, without an entry,
   of one published under the very host it asks for. *)
Isolation == \A h \in Conns :
    /\ Busy(h) => \E x \in published[Zone(hname[h])] :
                      target[h] = x.ip \/ \E p \in Prefixes : target[h] = x.sub[p]
    /\ Copying(h) => \E m \in {Asked(hname[h]), hname[h]} :
                         \E x \in published[m] : target[h] = x.ip

(* A connection gets a certificate browsers trust only if a certificate was
   declared in what is resolved for its name or, where that has no entry, for
   the name less one label: findParentDomain falls back on the parent's entry. *)
TrustDeclared == \A h \in Conns : served[h] = "ca" =>
    \E m \in Names \cap {hname[h], Tail(hname[h])} :
        \E x \in published[Asked(m)] : x.cert # NoCert

(* An entry says "verified" only if some handler found a server of the zone
   presenting a certificate the zone declared. *)
VerdictEarned == \A n \in Names : res[n] # NoEntry =>
    (res[n].verified => \E c \in Certs : <<Zone(n), c>> \in matched)

(* mapper/ipv6.go: CertVerified is "True if server cert was verified against
   declared cert": against the certificate this very entry declares. *)
VerdictIsForEntry == \A n \in Names : res[n] # NoEntry =>
    (res[n].verified => <<Zone(n), res[n].cert>> \in matched)

(* httpsproxy/proxy.go: a failed verification "ensures signer generates
   untrusted cert for future connections".  With the handler of the DNS server,
   whatever names are asked for and in whatever order: while the entry of a
   zone says that the check failed, no connection to the zone or to a name
   below it is trusted, for no entry of the name itself hides the failure. *)
FailedZoneNotTrusted == [][\A h \in Conns :
    LET e == res[Zone(hname[h])] IN
    handler = "server" /\ hpc[h] = "check" /\ hpc'[h] = "serve" /\ e # NoEntry
        => (e.checked /\ ~e.verified => ~trust'[h])]_vars

(* httpsproxy/proxy.go: "use subdomain IP if available".  On Windows, whose
   entries keep the table, a connection goes where one declaration of its
   zone, read whole, sends its name. *)
SubdomainRouting == \A h \in Conns : handler = "windows" /\ Busy(h) =>
    \E x \in published[Zone(hname[h])] : target[h] = TargetIp(hname[h], x)

(* capture_windows.go: "Verify against the ACTUAL IP that will serve this
   domain".  On Windows and under one declaration, the address a query checks
   is the one a connection to the same name dials. *)
SameServerChecked == \A d \in Workers, h \in Conns :
    handler = "windows" /\ dpc[d] \in {"register", "mark", "answer"} /\ Busy(h)
        /\ dname[d] = hname[h] /\ ddecl[d] = hdecl[h]
    => VerifyIp(dname[d], ddecl[d]) = target[h]

(* Every DNN query is answered or handed to ordinary DNS. *)
QueriesEnd == \A d \in Workers : dpc[d] = "resolve" ~> dpc[d] = "idle"
=============================================================================
