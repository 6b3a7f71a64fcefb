--------------------------- MODULE CertTrustProofs ---------------------------
(***************************************************************************)
(* Theorems about CertTrust for any names, servers, certificates, offers,  *)
(* any number of DNS handlers and connections, and every kind of handler.   *)
(***************************************************************************)
EXTENDS CertTrust, SequenceTheorems, TLAPS

(* x is, up to a dropped subdomain table, a declaration of S. *)
DeclaredIn(S, x) == \E y \in S : /\ x.ip = y.ip /\ x.cert = y.cert
                                 /\ x.sub \in {y.sub, NoSubs}

(* The matches M tell of zone z. *)
MatchedIn(M, z) == \E c \in Certs : <<z, c>> \in M

Vouchable(n) == \E m \in Names \cap {n, Tail(n)} : \E x \in published[Asked(m)] : x.cert # NoCert

(* What a DNS handler holds is a declaration of what it asked for, and its verdict is
   positive only if some server of the zone matched. *)
DnsInFlight == \A d \in Workers :
    /\ dpc[d] \in {"register", "verify", "mark", "answer"} => ddecl[d] \in published[Asked(dname[d])]
    /\ dpc[d] \in {"idle", "resolve"} => ~dverdict[d]
    /\ dverdict[d] => MatchedIn(matched, Zone(dname[d]))

(* What a connection holds, likewise. *)
ConnInFlight == \A h \in Conns :
    /\ Busy(h) => DeclaredIn(published[Zone(hname[h])], hdecl[h]) /\ target[h] = TargetIp(hname[h], hdecl[h])
    /\ Copying(h) => \E m \in {Asked(hname[h]), hname[h]} :
                         \E x \in published[m] : target[h] = x.ip
    /\ hpc[h] \notin {"mark", "proxy"} => ~hverdict[h]
    /\ hverdict[h] => MatchedIn(matched, Zone(hname[h]))

(* A connection is trusted, or about to be, only where a check vouched. *)
TrustInFlight == \A h \in Conns :
    /\ hpc[h] \in {"idle", "check", "plain"} => ~trust[h] /\ served[h] = "none"
    /\ trust[h] => Vouchable(hname[h])
    /\ served[h] = "ca" => Vouchable(hname[h])

IInv == /\ TypeOK /\ Provenance /\ VerdictEarned
        /\ DnsInFlight /\ ConnInFlight /\ TrustInFlight
-----------------------------------------------------------------------------
(* The zone of a name is itself a name in use, and its own zone. *)
LEMMA ZoneFacts ==
    \A n \in Names : /\ Zone(n) \in Zones /\ Zone(n) \in Names
                     /\ Zone(Zone(n)) = Zone(n)
                     /\ ProxySub(n) \in Prefixes /\ Prefix(n) \in Prefixes
<1>1. \A n \in Names : /\ Zone(n) \in Zones /\ Zone(n) \in Names
                       /\ ProxySub(n) \in Prefixes /\ Prefix(n) \in Prefixes
    BY NamesAssumption DEF Zones, Prefixes
<1>2. \A n \in Names : Zone(Zone(n)) = Zone(n)
    <2> SUFFICES ASSUME NEW n \in Names PROVE Zone(Zone(n)) = Zone(n) OBVIOUS
    <2>1. CASE Len(n) <= 2 BY <2>1 DEF Zone
    <2>2. CASE ~(Len(n) <= 2)
        <3>1. Zone(n) = <<n[Len(n) - 1], n[Len(n)]>> BY <2>2 DEF Zone
        <3>2. Len(Zone(n)) = 2 BY <3>1
        <3> QED BY <3>2 DEF Zone
    <2> QED BY <2>1, <2>2
<1> QED BY <1>1, <1>2

(* The name an entry is kept under is of the zone that was resolved. *)
LEMMA KeyFacts == \A n \in Names : Key(n) \in Names /\ Zone(Key(n)) = Zone(n)
BY ZoneFacts DEF Key

(* Who asks for a name asks for its zone or for itself, and for the same where
   the entry is kept. *)
LEMMA AskedFacts ==
    \A n \in Names : /\ Asked(n) \in Names /\ Asked(Key(n)) = Asked(n)
                     /\ Zone(n) = n => Asked(n) = n
BY ZoneFacts DEF Asked, Key

(* The values CHOOSE gives the variables nobody has set are of their types. *)
LEMMA Defaults == AnyIp \in Ips /\ AnyName \in Names /\ NoDecl \in Decl
<1>1. AnyIp \in Ips BY SubsAssumption DEF AnyIp
<1>2. AnyName \in Names BY NamesAssumption DEF AnyName
<1> QED BY <1>1, <1>2, SubsAssumption DEF NoDecl, Decl

(* A declaration sends every name to an address. *)
LEMMA Addresses == \A n \in Names, x \in Decl : TargetIp(n, x) \in Ips
<1> SUFFICES ASSUME NEW n \in Names, NEW x \in Decl PROVE TargetIp(n, x) \in Ips OBVIOUS
<1>1. x.ip \in Ips /\ x.sub \in [Prefixes -> Ips \cup {NoIp}] BY SubsAssumption DEF Decl
<1>2. ProxySub(n) \in Prefixes BY ZoneFacts
<1> QED BY <1>1, <1>2 DEF TargetIp

(* The entry a registration makes, and the entry a verdict leaves. *)
LEMMA NewEntryOK == \A x \in Decl : NewEntry(x) \in Entry
BY SubsAssumption DEF NewEntry, Decl, Entry

(* Writing a verdict keeps what an entry declares.                         *)
LEMMA SetCertVerifiedOK ==
    ASSUME TypeOK, NEW n \in Names, NEW v \in BOOLEAN, SetCertVerified(n, v)
    PROVE  /\ res' \in [Names -> Entry \cup {NoEntry}]
           /\ \A m \in Names : res'[m] = NoEntry <=> res[m] = NoEntry
           /\ \A m \in Names : res[m] # NoEntry =>
                  /\ res'[m].ip = res[m].ip /\ res'[m].cert = res[m].cert
                  /\ res'[m].sub = res[m].sub
                  /\ res'[m].verified => res[m].verified \/ (m = n /\ v)
<1>1. res \in [Names -> Entry \cup {NoEntry}] BY DEF TypeOK
<1>2. CASE res[n] = NoEntry BY <1>1, <1>2 DEF SetCertVerified
<1>3. CASE res[n] # NoEntry
    <2>1. res' = [res EXCEPT ![n] = Checked(res[n], v)]
        BY <1>3 DEF SetCertVerified
    <2>2. res[n] \in Entry BY <1>1, <1>3
    <2>3. Checked(res[n], v) \in Entry BY <2>2 DEF Entry, Checked
    <2>4. res' \in [Names -> Entry \cup {NoEntry}] BY <1>1, <2>1, <2>3
    <2>5. \A m \in Names : m # n => res'[m] = res[m] BY <1>1, <2>1
    <2>6. res'[n] = Checked(res[n], v) BY <1>1, <2>1
    <2>7. res'[n] # NoEntry BY <2>3, <2>6, MarksAssumption
    <2>8. /\ res'[n].ip = res[n].ip /\ res'[n].cert = res[n].cert
          /\ res'[n].sub = res[n].sub /\ res'[n].verified = v
        BY <2>2, <2>6 DEF Entry, Checked
    <2> QED BY <1>3, <2>4, <2>5, <2>7, <2>8
<1> QED BY <1>2, <1>3

-----------------------------------------------------------------------------
(* The type invariant holds at first,                                      *)
LEMMA TypeInit == Init => TypeOK
<1> SUFFICES ASSUME Init PROVE TypeOK OBVIOUS
<1> USE Defaults DEF Init
<1>1. published \in [Names -> SUBSET Decl] OBVIOUS
<1>2. rotations \in 0..MaxRotations BY OffersAssumption
<1>3. res \in [Names -> Entry \cup {NoEntry}] OBVIOUS
<1> QED BY <1>1, <1>2, <1>3 DEF TypeOK

(* and after every step.                                                   *)
LEMMA TypeStep == TypeOK /\ [Next]_vars => TypeOK'
<1> SUFFICES ASSUME TypeOK, [Next]_vars PROVE TypeOK' OBVIOUS
<1> USE DEF TypeOK, world, dnsVars, hVars
<1>1. ASSUME NEW n \in Names, Publish(n) PROVE TypeOK'
    <2>1. Offers[n] \subseteq Decl BY OffersAssumption
    <2> QED BY <1>1, <2>1 DEF Publish
<1>2. ASSUME NEW ip \in Ips, Rotate(ip) PROVE TypeOK'
    BY <1>2, OffersAssumption DEF Rotate
<1>3. ASSUME NEW d \in Workers, NEW n \in Names, Query(d, n) PROVE TypeOK'
    BY <1>3 DEF Query
<1>4. ASSUME NEW d \in Workers, Resolved(d) PROVE TypeOK'
    BY <1>4, AskedFacts, OffersAssumption DEF Resolved, Answers
<1>5. ASSUME NEW d \in Workers, Forwarded(d) PROVE TypeOK'
    BY <1>5, Defaults DEF Forwarded
<1>6. ASSUME NEW d \in Workers, Register(d) PROVE TypeOK'
    BY <1>6, NewEntryOK, KeyFacts DEF Register
<1>7. ASSUME NEW d \in Workers, Verify(d) PROVE TypeOK'
    <2>1. PICK ok \in {FALSE, Matches(ddecl[d], VerifyIp(dname[d], ddecl[d]))} :
              /\ dverdict' = [dverdict EXCEPT ![d] = ok]
              /\ Noted(ok, Zone(dname[d]), ddecl[d])
        BY <1>7 DEF Verify
    <2>2. ok \in BOOLEAN BY <2>1 DEF Matches, VerifyCert
    <2>3. ok => ddecl[d].cert \in Certs BY <2>1 DEF Matches, VerifyCert, Decl
    <2>4. matched' \in SUBSET (Zones \X Certs) BY <2>1, <2>3, ZoneFacts DEF Noted
    <2>5. dverdict' \in [Workers -> BOOLEAN] BY <2>1, <2>2
    <2> QED BY <1>7, <2>4, <2>5 DEF Verify
<1>8. ASSUME NEW d \in Workers, Mark(d) PROVE TypeOK'
    <2>1. res' \in [Names -> Entry \cup {NoEntry}] BY <1>8, SetCertVerifiedOK, KeyFacts DEF Mark
    <2> QED BY <1>8, <2>1 DEF Mark
<1>9. ASSUME NEW d \in Workers, Answer(d) PROVE TypeOK'
    BY <1>9, Defaults DEF Answer
<1>10. ASSUME NEW h \in Conns, NEW n \in Names, Hello(h, n) PROVE TypeOK'
    BY <1>10 DEF Hello
<1>11. ASSUME NEW h \in Conns, CheckCert(h) PROVE TypeOK'
    <2>1. IsCertValidForDomain(hname[h]) \in BOOLEAN BY DEF IsCertValidForDomain, Vouched
    <2> QED BY <1>11, <2>1 DEF CheckCert
<1>12. ASSUME NEW h \in Conns, Serve(h) PROVE TypeOK'
    BY <1>12 DEF Serve
<1>13. ASSUME NEW n \in Names, Expire(n) PROVE TypeOK'
    BY <1>13 DEF Expire
<1>14. ASSUME NEW h \in Conns, GetResolution(h) PROVE TypeOK'
    <2>1. Zone(hname[h]) \in Names /\ Zone(hname[h]) \in Zones BY ZoneFacts
    <2>2. PICK x : /\ x \in Found(Zone(hname[h]))
                   /\ hdecl' = [hdecl EXCEPT ![h] = x]
                   /\ target' = [target EXCEPT ![h] = TargetIp(hname[h], x)]
        BY <1>14 DEF GetResolution
    <2>3. x \in Decl
        <3>1. CASE res[Zone(hname[h])] # NoEntry
            <4>1. res[Zone(hname[h])] \in Entry BY <2>1, <3>1
            <4> QED BY <2>2, <3>1, <4>1 DEF Found, AsDeclared, Entry, Decl
        <3>2. CASE res[Zone(hname[h])] = NoEntry BY <2>1, <2>2, <3>2 DEF Found, Answers
        <3> QED BY <3>1, <3>2
    <2>4. TargetIp(hname[h], x) \in Ips BY <2>3, Addresses
    <2> QED BY <1>14, <2>2, <2>3, <2>4 DEF GetResolution
<1>15. ASSUME NEW h \in Conns, Dial(h) PROVE TypeOK'
    <2> DEFINE ok == Matches(hdecl[h], target[h])
    <2>1. ok \in BOOLEAN BY DEF Matches, VerifyCert
    <2>2. ok => hdecl[h].cert \in Certs BY DEF Matches, VerifyCert, Decl
    <2>3. /\ hverdict' = [hverdict EXCEPT ![h] = ok]
          /\ Noted(ok, Zone(hname[h]), hdecl[h])
        BY <1>15 DEF Dial
    <2>4. matched' \in SUBSET (Zones \X Certs) BY <2>2, <2>3, ZoneFacts DEF Noted
    <2>5. hverdict' \in [Conns -> BOOLEAN] BY <2>1, <2>3
    <2> QED BY <1>15, <2>4, <2>5 DEF Dial
<1>16. ASSUME NEW h \in Conns, MarkZone(h) PROVE TypeOK'
    <2>1. res' \in [Names -> Entry \cup {NoEntry}]
        BY <1>16, ZoneFacts, SetCertVerifiedOK DEF MarkZone
    <2> QED BY <1>16, <2>1 DEF MarkZone
<1>17. ASSUME NEW h \in Conns, Close(h) PROVE TypeOK'
    BY <1>17, Defaults DEF Close
<1>18. CASE UNCHANGED vars BY <1>18 DEF vars
<1>19. ASSUME NEW h \in Conns, NEW n \in Names, PlainHello(h, n) PROVE TypeOK'
    BY <1>19 DEF PlainHello
<1>20. ASSUME NEW h \in Conns, PlainResolution(h) PROVE TypeOK'
    <2>1. PlainFound(hname[h]) \subseteq Ips
        <3>1. hname[h] \in Names OBVIOUS
        <3>2. CASE res[hname[h]] # NoEntry BY <3>1, <3>2 DEF PlainFound, Entry
        <3>3. CASE res[hname[h]] = NoEntry BY <3>1, <3>3 DEF PlainFound, Answers, Decl
        <3> QED BY <3>2, <3>3
    <2> QED BY <1>20, <2>1 DEF PlainResolution
<1>21. ASSUME NEW h \in Conns, PlainDial(h) PROVE TypeOK'
    BY <1>21 DEF PlainDial
<1> QED
    BY <1>1, <1>2, <1>3, <1>4, <1>5, <1>6, <1>7, <1>8, <1>9, <1>10, <1>11, <1>12,
       <1>13, <1>14, <1>15, <1>16, <1>17, <1>18, <1>19, <1>20, <1>21 DEF Next, World, DnsStep, ConnStep

(* The type invariant: every cell of the shared cache and every handler's
   local state stays well formed. *)
THEOREM TypeCorrect == Spec => []TypeOK
BY TypeInit, TypeStep, PTL DEF Spec
-----------------------------------------------------------------------------
(* So does the inductive invariant, at first                               *)
LEMMA InvInit == Init => IInv
<1> SUFFICES ASSUME Init PROVE IInv OBVIOUS
<1>1. TypeOK BY TypeInit
<1>2. Provenance /\ VerdictEarned BY DEF Init, Provenance, VerdictEarned
<1>3. DnsInFlight /\ ConnInFlight /\ TrustInFlight
    BY DEF Init, DnsInFlight, ConnInFlight, TrustInFlight, Busy, Copying
<1> QED BY <1>1, <1>2, <1>3 DEF IInv

(* Publications and matches only accumulate, and what depends on nothing
   else survives every step. *)
LEMMA Accumulate ==
    ASSUME TypeOK, [Next]_vars
    PROVE  /\ \A n \in Names : published[n] \subseteq published'[n]
           /\ matched \subseteq matched'
           /\ handler' = handler
<1> USE DEF TypeOK, vars, world, dnsVars, hVars
<1>1. ASSUME NEW n \in Names, Publish(n) PROVE \A m \in Names : published[m] \subseteq published'[m]
    BY <1>1 DEF Publish
<1>2. ASSUME NEW d \in Workers, Verify(d) PROVE matched \subseteq matched'
    BY <1>2 DEF Verify, Noted
<1>3. ASSUME NEW h \in Conns, Dial(h) PROVE matched \subseteq matched'
    BY <1>3 DEF Dial, Noted
<1> QED
    BY <1>1, <1>2, <1>3 DEF Next, World, DnsStep, ConnStep, Publish, Rotate, Query, Resolved,
       Forwarded, Register, Verify, Mark, Answer, Hello, CheckCert, Serve, Expire, GetResolution,
       Dial, MarkZone, Close, PlainHello, PlainResolution, PlainDial

(* Consequences of the accumulation, in the form the steps need. *)
LEMMA Keeps ==
    ASSUME TypeOK, [Next]_vars
    PROVE  /\ \A z \in Zones : MatchedIn(matched, z) => MatchedIn(matched', z)
           /\ \A n \in Names : \A x : DeclaredIn(published[n], x) => DeclaredIn(published'[n], x)
           /\ \A n \in Names : Vouchable(n) => Vouchable(n)'
<1>1. \A n \in Names : published[n] \subseteq published'[n] BY Accumulate
<1>2. matched \subseteq matched' BY Accumulate
<1>3. \A z \in Zones : MatchedIn(matched, z) => MatchedIn(matched', z) BY <1>2 DEF MatchedIn
<1>4. \A n \in Names : \A x : DeclaredIn(published[n], x) => DeclaredIn(published'[n], x)
    BY <1>1 DEF DeclaredIn
<1>5. \A n \in Names : Vouchable(n) => Vouchable(n)'
    <2> SUFFICES ASSUME NEW n \in Names, Vouchable(n) PROVE Vouchable(n)' OBVIOUS
    <2>1. PICK m \in Names \cap {n, Tail(n)} : \E x \in published[Asked(m)] : x.cert # NoCert
        BY DEF Vouchable
    <2>2. Asked(m) \in Names BY AskedFacts
    <2>3. \E x \in published'[Asked(m)] : x.cert # NoCert BY <1>1, <2>1, <2>2
    <2>4. Asked(m)' = Asked(m) BY Accumulate DEF Asked
    <2>5. \E x \in published'[Asked(m)'] : x.cert # NoCert BY <2>3, <2>4
    <2> QED BY <2>1, <2>5 DEF Vouchable
<1> QED BY <1>3, <1>4, <1>5

(* An entry stays what was declared for it: a registration copies what the
   handler resolved, a verdict touches nothing else. *)
LEMMA ProvenanceStep == IInv /\ [Next]_vars => Provenance'
<1> SUFFICES ASSUME IInv, [Next]_vars PROVE Provenance' OBVIOUS
<1> DEFINE Ok(n, e, p) == e # NoEntry => DeclaredIn(p[Asked(n)], e)
<1>1. TypeOK /\ Provenance /\ DnsInFlight BY DEF IInv
<1>2. \A n \in Names : Ok(n, res[n], published) BY <1>1 DEF Provenance, DeclaredIn
<1>3. \A n \in Names : \A e : Ok(n, e, published) => Ok(n, e, published') BY <1>1, Keeps, AskedFacts
<1>4. SUFFICES \A n \in Names : Ok(n, res'[n], published)
    BY <1>1, <1>3, Accumulate DEF Provenance, DeclaredIn, Asked
<1>5. CASE UNCHANGED res BY <1>2, <1>5
<1>6. ASSUME NEW d \in Workers, Register(d) PROVE \A n \in Names : Ok(n, res'[n], published)
    <2>1. ddecl[d] \in published[Asked(dname[d])] /\ dname[d] \in Names
        BY <1>1, <1>6 DEF DnsInFlight, Register, TypeOK
    <2>2. DeclaredIn(published[Asked(dname[d])], NewEntry(ddecl[d])) BY <2>1 DEF DeclaredIn, NewEntry
    <2>3. res' = [res EXCEPT ![Key(dname[d])] = NewEntry(ddecl[d])] BY <1>6 DEF Register
    <2>4. Asked(Key(dname[d])) = Asked(dname[d]) BY <2>1, AskedFacts
    <2>5. \A n \in Names : res'[n] = IF n = Key(dname[d]) THEN NewEntry(ddecl[d]) ELSE res[n]
        BY <1>1, <2>3 DEF TypeOK
    <2> QED BY <1>2, <2>2, <2>4, <2>5
<1>7. ASSUME NEW m \in Names, NEW v \in BOOLEAN, SetCertVerified(m, v)
      PROVE \A n \in Names : Ok(n, res'[n], published)
    <2>1. \A n \in Names : /\ res'[n] = NoEntry <=> res[n] = NoEntry
                           /\ res[n] # NoEntry => /\ res'[n].ip = res[n].ip
                                                  /\ res'[n].cert = res[n].cert
                                                  /\ res'[n].sub = res[n].sub
        BY <1>1, <1>7, SetCertVerifiedOK
    <2> QED BY <1>2, <2>1 DEF DeclaredIn
<1>8. ASSUME NEW d \in Workers, Mark(d) PROVE \A n \in Names : Ok(n, res'[n], published)
    BY <1>1, <1>7, <1>8, KeyFacts DEF Mark, TypeOK
<1>9. ASSUME NEW h \in Conns, MarkZone(h) PROVE \A n \in Names : Ok(n, res'[n], published)
    BY <1>1, <1>7, <1>9, ZoneFacts DEF MarkZone, TypeOK
<1> HIDE DEF Ok
<1> QED
    BY <1>5, <1>6, <1>8, <1>9 DEF Next, World, DnsStep, ConnStep, vars, world, dnsVars, hVars,
       Publish, Rotate, Query, Resolved, Forwarded, Verify, Answer, Hello, CheckCert, Serve,
       Expire, GetResolution, Dial, Close, PlainHello, PlainResolution, PlainDial

(* A positive verdict on an entry was earned by a match in its zone. *)
LEMMA VerdictStep == IInv /\ [Next]_vars => VerdictEarned'
<1> SUFFICES ASSUME IInv, [Next]_vars PROVE VerdictEarned' OBVIOUS
<1> DEFINE Ok(n, e, m) == e # NoEntry => (e.verified => MatchedIn(m, Zone(n)))
<1>1. TypeOK /\ VerdictEarned /\ DnsInFlight /\ ConnInFlight BY DEF IInv
<1>2. \A n \in Names : Ok(n, res[n], matched) BY <1>1 DEF VerdictEarned, MatchedIn
<1>3. \A n \in Names : \A e : Ok(n, e, matched) => Ok(n, e, matched') BY <1>1, Keeps, ZoneFacts
<1>4. SUFFICES \A n \in Names : Ok(n, res'[n], matched)
    BY <1>3 DEF VerdictEarned, MatchedIn
<1>5. CASE UNCHANGED res BY <1>2, <1>5
<1>6. ASSUME NEW d \in Workers, Register(d) PROVE \A n \in Names : Ok(n, res'[n], matched)
    <2>1. ~NewEntry(ddecl[d]).verified BY DEF NewEntry
    <2>2. res' = [res EXCEPT ![Key(dname[d])] = NewEntry(ddecl[d])] BY <1>6 DEF Register
    <2>3. \A n \in Names : res'[n] = IF n = Key(dname[d]) THEN NewEntry(ddecl[d]) ELSE res[n]
        BY <1>1, <2>2 DEF TypeOK
    <2> QED BY <1>2, <2>1, <2>3
<1>7. ASSUME NEW m \in Names, NEW v \in BOOLEAN, SetCertVerified(m, v), v => MatchedIn(matched, Zone(m))
      PROVE \A n \in Names : Ok(n, res'[n], matched)
    <2>1. \A n \in Names : /\ res'[n] = NoEntry <=> res[n] = NoEntry
                           /\ res[n] # NoEntry =>
                                  (res'[n].verified => res[n].verified \/ (n = m /\ v))
        BY <1>1, <1>7, SetCertVerifiedOK
    <2> QED BY <1>2, <1>7, <2>1
<1>8. ASSUME NEW d \in Workers, Mark(d) PROVE \A n \in Names : Ok(n, res'[n], matched)
    <2>1. dname[d] \in Names /\ dverdict[d] \in BOOLEAN BY <1>1 DEF TypeOK
    <2>2. Key(dname[d]) \in Names /\ Zone(Key(dname[d])) = Zone(dname[d]) BY <2>1, KeyFacts
    <2>3. dverdict[d] => MatchedIn(matched, Zone(dname[d])) BY <1>1 DEF DnsInFlight
    <2> QED BY <1>7, <1>8, <2>1, <2>2, <2>3 DEF Mark
<1>9. ASSUME NEW h \in Conns, MarkZone(h) PROVE \A n \in Names : Ok(n, res'[n], matched)
    <2>1. hname[h] \in Names /\ hverdict[h] \in BOOLEAN BY <1>1 DEF TypeOK
    <2>2. Zone(hname[h]) \in Names /\ Zone(Zone(hname[h])) = Zone(hname[h]) BY <2>1, ZoneFacts
    <2>3. hverdict[h] => MatchedIn(matched, Zone(hname[h])) BY <1>1 DEF ConnInFlight
    <2> QED BY <1>7, <1>9, <2>1, <2>2, <2>3 DEF MarkZone
<1> HIDE DEF Ok
<1> QED
    BY <1>5, <1>6, <1>8, <1>9 DEF Next, World, DnsStep, ConnStep, vars, world, dnsVars, hVars,
       Publish, Rotate, Query, Resolved, Forwarded, Verify, Answer, Hello, CheckCert, Serve,
       Expire, GetResolution, Dial, Close, PlainHello, PlainResolution, PlainDial

(* A DNS handler's local state. *)
LEMMA DnsInFlightStep == IInv /\ [Next]_vars => DnsInFlight'
<1> SUFFICES ASSUME IInv, [Next]_vars PROVE DnsInFlight' OBVIOUS
<1>1. TypeOK /\ DnsInFlight BY DEF IInv
<1>2. handler' = handler /\ \A n \in Names : published[n] \subseteq published'[n] BY <1>1, Accumulate
<1>3. \A z \in Zones : MatchedIn(matched, z) => MatchedIn(matched', z) BY <1>1, Keeps
<1>4. \A d \in Workers : Zone(dname[d]) \in Zones /\ Asked(dname[d]) \in Names
    BY <1>1, ZoneFacts, AskedFacts DEF TypeOK
<1>5. CASE UNCHANGED dnsVars BY <1>1, <1>2, <1>3, <1>4, <1>5 DEF DnsInFlight, dnsVars, Asked
<1> USE DEF DnsInFlight, Asked
<1>6. ASSUME NEW d \in Workers, NEW n \in Names, Query(d, n) PROVE DnsInFlight'
    BY <1>1, <1>2, <1>3, <1>4, <1>6 DEF Query, TypeOK, world
<1>7. ASSUME NEW d \in Workers, Resolved(d) PROVE DnsInFlight'
    BY <1>1, <1>2, <1>3, <1>4, <1>7 DEF Resolved, Answers, TypeOK, world
<1>8. ASSUME NEW d \in Workers, Forwarded(d) PROVE DnsInFlight'
    BY <1>1, <1>2, <1>3, <1>4, <1>8 DEF Forwarded, TypeOK, world
<1>9. ASSUME NEW d \in Workers, Register(d) PROVE DnsInFlight'
    BY <1>1, <1>2, <1>3, <1>4, <1>9 DEF Register, TypeOK, world
<1>10. ASSUME NEW d \in Workers, Verify(d) PROVE DnsInFlight'
    <2>1. PICK ok \in {FALSE, Matches(ddecl[d], VerifyIp(dname[d], ddecl[d]))} :
              /\ dverdict' = [dverdict EXCEPT ![d] = ok]
              /\ Noted(ok, Zone(dname[d]), ddecl[d])
        BY <1>10 DEF Verify
    <2>2. ok => ddecl[d].cert \in Certs BY <1>1, <2>1 DEF Matches, VerifyCert, TypeOK, Decl
    <2>3. ok => MatchedIn(matched', Zone(dname[d])) BY <1>10, <2>1, <2>2 DEF Noted, MatchedIn, Verify
    <2> QED BY <1>1, <1>2, <1>3, <1>4, <1>10, <2>1, <2>3 DEF Verify, TypeOK, world
<1>11. ASSUME NEW d \in Workers, Mark(d) PROVE DnsInFlight'
    BY <1>1, <1>2, <1>3, <1>4, <1>11 DEF Mark, TypeOK, world
<1>12. ASSUME NEW d \in Workers, Answer(d) PROVE DnsInFlight'
    BY <1>1, <1>2, <1>3, <1>4, <1>12 DEF Answer, TypeOK, world
<1> QED
    BY <1>5, <1>6, <1>7, <1>8, <1>9, <1>10, <1>11, <1>12 DEF Next, World, DnsStep, ConnStep,
       vars, Publish, Rotate, Hello, CheckCert, Serve, Expire, GetResolution, Dial, MarkZone, Close,
       PlainHello, PlainResolution, PlainDial

(* A connection's local state. *)
LEMMA ConnInFlightStep == IInv /\ [Next]_vars => ConnInFlight'
<1> SUFFICES ASSUME IInv, [Next]_vars PROVE ConnInFlight' OBVIOUS
<1>1. TypeOK /\ ConnInFlight /\ Provenance BY DEF IInv
<1>2. \A n \in Names : \A x : DeclaredIn(published[n], x) => DeclaredIn(published'[n], x) BY <1>1, Keeps
<1>3. \A z \in Zones : MatchedIn(matched, z) => MatchedIn(matched', z) BY <1>1, Keeps
<1>4. \A h \in Conns : /\ hname[h] \in Names /\ Asked(hname[h]) \in Names
                       /\ Zone(hname[h]) \in Zones /\ Zone(hname[h]) \in Names
    BY <1>1, ZoneFacts, AskedFacts DEF TypeOK
<1>13. handler' = handler /\ \A n \in Names : published[n] \subseteq published'[n]
    BY <1>1, Accumulate
<1>5. CASE UNCHANGED hVars BY <1>1, <1>2, <1>3, <1>4, <1>5, <1>13 DEF ConnInFlight, Busy, Copying, Asked, hVars
<1> USE <1>13 DEF ConnInFlight, Busy, Copying, Asked
<1>6. ASSUME NEW h \in Conns, NEW n \in Names, Hello(h, n) PROVE ConnInFlight'
    BY <1>1, <1>2, <1>3, <1>4, <1>6 DEF Hello, TypeOK
<1>7. ASSUME NEW h \in Conns, CheckCert(h) PROVE ConnInFlight'
    BY <1>1, <1>2, <1>3, <1>4, <1>7 DEF CheckCert, TypeOK
<1>8. ASSUME NEW h \in Conns, Serve(h) PROVE ConnInFlight'
    BY <1>1, <1>2, <1>3, <1>4, <1>8 DEF Serve, TypeOK
<1>9. ASSUME NEW h \in Conns, GetResolution(h) PROVE ConnInFlight'
    <2> DEFINE z == Zone(hname[h])
    <2>1. z \in Names /\ Zone(z) = z /\ Asked(z) = z BY <1>1, ZoneFacts, AskedFacts DEF TypeOK
    <2>2. PICK x : /\ x \in Found(z)
                   /\ hdecl' = [hdecl EXCEPT ![h] = x]
                   /\ target' = [target EXCEPT ![h] = TargetIp(hname[h], x)]
        BY <1>9 DEF GetResolution
    <2>3. DeclaredIn(published[z], x)
        <3>1. CASE res[z] # NoEntry
            <4>1. \E y \in published[z] : /\ res[z].ip = y.ip /\ res[z].cert = y.cert
                                          /\ res[z].sub \in {y.sub, NoSubs}
                BY <1>1, <2>1, <3>1 DEF Provenance
            <4>2. x.ip = res[z].ip /\ x.cert = res[z].cert /\ x.sub = res[z].sub
                BY <2>2, <3>1 DEF Found, AsDeclared
            <4> QED BY <4>1, <4>2 DEF DeclaredIn
        <3>2. CASE res[z] = NoEntry BY <2>1, <2>2, <3>2 DEF Found, Answers, DeclaredIn
        <3> QED BY <3>1, <3>2
    <2>4. DeclaredIn(published'[z], x) BY <1>2, <2>1, <2>3
    <2> QED BY <1>1, <1>2, <1>3, <1>4, <1>9, <2>2, <2>4 DEF GetResolution, TypeOK
<1>10. ASSUME NEW h \in Conns, Dial(h) PROVE ConnInFlight'
    <2> DEFINE ok == Matches(hdecl[h], target[h])
    <2>1. ok => hdecl[h].cert \in Certs BY <1>1 DEF Matches, VerifyCert, TypeOK, Decl
    <2>2. ok => MatchedIn(matched', Zone(hname[h])) BY <1>10, <2>1 DEF Dial, Noted, MatchedIn
    <2>3. hverdict' = [hverdict EXCEPT ![h] = ok] BY <1>10 DEF Dial
    <2> HIDE DEF ok
    <2> QED BY <1>1, <1>2, <1>3, <1>4, <1>10, <2>2, <2>3 DEF Dial, TypeOK
<1>11. ASSUME NEW h \in Conns, MarkZone(h) PROVE ConnInFlight'
    BY <1>1, <1>2, <1>3, <1>4, <1>11 DEF MarkZone, TypeOK
<1>12. ASSUME NEW h \in Conns, Close(h) PROVE ConnInFlight'
    BY <1>1, <1>2, <1>3, <1>4, <1>12 DEF Close, TypeOK
<1>14. ASSUME NEW h \in Conns, NEW n \in Names, PlainHello(h, n) PROVE ConnInFlight'
    BY <1>1, <1>2, <1>3, <1>4, <1>14 DEF PlainHello, TypeOK
<1>15. ASSUME NEW h \in Conns, PlainResolution(h) PROVE ConnInFlight'
    <2> DEFINE n == hname[h]
    <2>1. n \in Names /\ Asked(n) \in Names BY <1>4
    <2>2. PICK ip \in PlainFound(n) : target' = [target EXCEPT ![h] = ip]
        BY <1>15 DEF PlainResolution
    <2>3. PICK m \in {Asked(n), n} : \E x \in published[m] : ip = x.ip
        <3>1. CASE res[n] # NoEntry BY <1>1, <2>1, <2>2, <3>1 DEF Provenance, PlainFound
        <3>2. CASE res[n] = NoEntry BY <2>2, <3>2 DEF PlainFound, Answers
        <3> QED BY <3>1, <3>2
    <2>4. \E x \in published'[m] : ip = x.ip BY <2>1, <2>3
    <2> QED BY <1>1, <1>2, <1>3, <1>4, <1>15, <2>2, <2>3, <2>4 DEF PlainResolution, TypeOK
<1>16. ASSUME NEW h \in Conns, PlainDial(h) PROVE ConnInFlight'
    BY <1>1, <1>2, <1>3, <1>4, <1>16 DEF PlainDial, TypeOK
<1> QED
    BY <1>5, <1>6, <1>7, <1>8, <1>9, <1>10, <1>11, <1>12, <1>14, <1>15, <1>16 DEF Next, World, DnsStep, ConnStep, vars,
       Publish, Rotate, Query, Resolved, Forwarded, Register, Verify, Mark, Answer, Expire

(* What the signer decides on, and what it then serves. *)
LEMMA TrustInFlightStep == IInv /\ [Next]_vars => TrustInFlight'
<1> SUFFICES ASSUME IInv, [Next]_vars PROVE TrustInFlight' OBVIOUS
<1>1. TypeOK /\ TrustInFlight /\ Provenance BY DEF IInv
<1>2. \A n \in Names : Vouchable(n) => Vouchable(n)' BY <1>1, Keeps
<1>3. \A h \in Conns : hname[h] \in Names BY <1>1 DEF TypeOK
<1>4. CASE UNCHANGED hVars BY <1>1, <1>2, <1>3, <1>4 DEF TrustInFlight, hVars
<1> USE DEF TrustInFlight
<1>5. ASSUME NEW h \in Conns, NEW n \in Names, Hello(h, n) PROVE TrustInFlight'
    BY <1>1, <1>2, <1>3, <1>5 DEF Hello, TypeOK
<1>6. ASSUME NEW h \in Conns, CheckCert(h) PROVE TrustInFlight'
    <2> DEFINE n == hname[h]
    <2>1. IsCertValidForDomain(n) => Vouchable(n)
        <3> SUFFICES ASSUME IsCertValidForDomain(n) PROVE Vouchable(n) OBVIOUS
        <3> DEFINE p == FindParentDomain(n)
        <3>1. p # <<>> /\ res[p].cert # NoCert BY DEF IsCertValidForDomain, Vouched
        <3>2. p \in Names \cap {n, Tail(n)} /\ res[p] # NoEntry
            BY <1>3, <3>1 DEF FindParentDomain
        <3>3. \E x \in published[Asked(p)] : x.cert = res[p].cert BY <1>1, <3>2 DEF Provenance
        <3> QED BY <3>1, <3>2, <3>3 DEF Vouchable
    <2>2. Vouchable(n)' <=> Vouchable(n) BY <1>6 DEF CheckCert, Vouchable, Asked, world
    <2> QED BY <1>1, <1>2, <1>3, <1>6, <2>1, <2>2 DEF CheckCert, TypeOK
<1>7. ASSUME NEW h \in Conns, Serve(h) PROVE TrustInFlight'
    BY <1>1, <1>2, <1>3, <1>7 DEF Serve, TypeOK
<1>8. ASSUME NEW h \in Conns, GetResolution(h) PROVE TrustInFlight'
    BY <1>1, <1>2, <1>3, <1>8 DEF GetResolution, TypeOK
<1>9. ASSUME NEW h \in Conns, Dial(h) PROVE TrustInFlight'
    BY <1>1, <1>2, <1>3, <1>9 DEF Dial, TypeOK
<1>10. ASSUME NEW h \in Conns, MarkZone(h) PROVE TrustInFlight'
    BY <1>1, <1>2, <1>3, <1>10 DEF MarkZone, TypeOK
<1>11. ASSUME NEW h \in Conns, Close(h) PROVE TrustInFlight'
    BY <1>1, <1>2, <1>3, <1>11 DEF Close, TypeOK
<1>12. ASSUME NEW h \in Conns, NEW n \in Names, PlainHello(h, n) PROVE TrustInFlight'
    BY <1>1, <1>2, <1>3, <1>12 DEF PlainHello, TypeOK
<1>13. ASSUME NEW h \in Conns, PlainResolution(h) PROVE TrustInFlight'
    BY <1>1, <1>2, <1>3, <1>13 DEF PlainResolution, TypeOK
<1>14. ASSUME NEW h \in Conns, PlainDial(h) PROVE TrustInFlight'
    BY <1>1, <1>2, <1>3, <1>14 DEF PlainDial, TypeOK
<1> QED
    BY <1>4, <1>5, <1>6, <1>7, <1>8, <1>9, <1>10, <1>11, <1>12, <1>13, <1>14 DEF Next, World, DnsStep, ConnStep, vars,
       Publish, Rotate, Query, Resolved, Forwarded, Register, Verify, Mark, Answer, Expire

(* and after every step.                                                   *)
LEMMA InvStep == IInv /\ [Next]_vars => IInv'
<1>1. IInv => TypeOK BY DEF IInv
<1> QED BY <1>1, TypeStep, ProvenanceStep, VerdictStep, DnsInFlightStep, ConnInFlightStep,
           TrustInFlightStep DEF IInv

(* Hence in every state.                                                   *)
LEMMA Inductive == Spec => []IInv
BY InvInit, InvStep, PTL DEF Spec

-----------------------------------------------------------------------------
(* Every entry of the cache is a copy of something that was declared under the
   name its handler asks for, the zone or the name itself, for any interleaving of handlers. *)
THEOREM ProvenanceHolds == Spec => []Provenance
<1>1. IInv => Provenance BY DEF IInv
<1> QED BY <1>1, Inductive, PTL

(* No connection is ever sent to a server that only another zone declared, nor
   a plain one to a server that was declared neither for the host it asks for
   nor for what its entry stands for: names below a zone may have records of
   their own. *)
THEOREM IsolationHolds == Spec => []Isolation
<1>1. IInv => Isolation
    <2> SUFFICES ASSUME IInv, NEW h \in Conns, Busy(h)
                 PROVE  \E x \in published[Zone(hname[h])] :
                            target[h] = x.ip \/ \E p \in Prefixes : target[h] = x.sub[p]
        BY DEF Isolation, IInv, ConnInFlight
    <2>1. /\ DeclaredIn(published[Zone(hname[h])], hdecl[h]) /\ target[h] = TargetIp(hname[h], hdecl[h])
          /\ hname[h] \in Names
        BY DEF IInv, ConnInFlight, TypeOK
    <2>2. PICK x \in published[Zone(hname[h])] :
              hdecl[h].ip = x.ip /\ hdecl[h].sub \in {x.sub, NoSubs}
        BY <2>1 DEF DeclaredIn
    <2>3. ProxySub(hname[h]) \in Prefixes BY <2>1, ZoneFacts
    <2>4. CASE hdecl[h].sub[ProxySub(hname[h])] = NoIp BY <2>1, <2>2, <2>4 DEF TargetIp
    <2>5. CASE hdecl[h].sub[ProxySub(hname[h])] # NoIp
        <3>1. hdecl[h].sub # NoSubs BY <2>3, <2>5 DEF NoSubs
        <3> QED BY <2>1, <2>2, <2>3, <2>5, <3>1 DEF TargetIp
    <2> QED BY <2>4, <2>5
<1> QED BY <1>1, Inductive, PTL

(* A certificate browsers trust is served only where a certificate was declared
   in what is asked for the name or for its parent: no race makes the signer
   vouch for a site nobody declared one for. *)
THEOREM TrustDeclaredHolds == Spec => []TrustDeclared
<1>1. IInv => TrustDeclared BY DEF IInv, TrustInFlight, TrustDeclared, Vouchable
<1> QED BY <1>1, Inductive, PTL

(* No entry says "verified" unless some handler saw a server of its zone
   present a certificate the zone declared. *)
THEOREM VerdictEarnedHolds == Spec => []VerdictEarned
<1>1. IInv => VerdictEarned BY DEF IInv
<1> QED BY <1>1, Inductive, PTL

-----------------------------------------------------------------------------
(* On Windows tables survive the cache: entries and connections hold
   declarations, unabridged. *)
Whole == handler = "windows" =>
    /\ \A n \in Names : res[n] # NoEntry => AsDeclared(res[n]) \in published[Zone(n)]
    /\ \A h \in Conns : Busy(h) => hdecl[h] \in published[Zone(hname[h])]

LEMMA WholeInit == Init => Whole
BY DEF Init, Whole, Busy

LEMMA NewEntryWhole ==
    ASSUME handler = "windows", NEW x \in Decl
    PROVE  AsDeclared(NewEntry(x)) = x
BY SubsAssumption DEF NewEntry, AsDeclared, Decl

LEMMA WholeStep == IInv /\ Whole /\ [Next]_vars => Whole'
<1>0. IInv /\ [Next]_vars => handler' = handler BY Accumulate DEF IInv
<1> SUFFICES ASSUME IInv, Whole, [Next]_vars, handler = "windows" PROVE Whole'
    BY <1>0 DEF Whole
<1> DEFINE Entries(r) == \A n \in Names : r[n] # NoEntry => AsDeclared(r[n]) \in published[Zone(n)]
           Held(p, x, n) == \A h \in Conns : p[h] \in {"dial", "mark", "proxy"}
                                => x[h] \in published[Zone(n[h])]
<1>1. TypeOK /\ DnsInFlight /\ ConnInFlight BY DEF IInv
<1>2. \A n \in Names : published[n] \subseteq published'[n] BY <1>1, Accumulate
<1>3. /\ \A n \in Names : Zone(n) \in Names /\ Asked(n) = Zone(n)
      /\ \A h \in Conns : hname'[h] \in Names
    BY <1>1, TypeStep, ZoneFacts DEF TypeOK, Asked
<1>4. Entries(res) /\ Held(hpc, hdecl, hname) BY DEF Whole, Busy
<1>5. SUFFICES Entries(res') /\ Held(hpc', hdecl', hname')
    BY <1>2, <1>3 DEF Whole, Busy
<1>6. CASE UNCHANGED <<res, hVars>> BY <1>4, <1>6 DEF hVars
<1>7. ASSUME NEW d \in Workers, Register(d) PROVE Entries(res') /\ UNCHANGED hVars
    <2>1. ddecl[d] \in published[Zone(dname[d])] /\ dname[d] \in Names /\ ddecl[d] \in Decl
        BY <1>1, <1>3, <1>7 DEF DnsInFlight, Register, TypeOK
    <2>2. AsDeclared(NewEntry(ddecl[d])) = ddecl[d] BY <2>1, NewEntryWhole
    <2>3. res' = [res EXCEPT ![Key(dname[d])] = NewEntry(ddecl[d])] /\ UNCHANGED hVars
        BY <1>7 DEF Register
    <2>4. Zone(Key(dname[d])) = Zone(dname[d]) BY <2>1, KeyFacts
    <2>5. \A n \in Names : res'[n] = IF n = Key(dname[d]) THEN NewEntry(ddecl[d]) ELSE res[n]
        BY <1>1, <2>3 DEF TypeOK
    <2> QED BY <1>4, <2>1, <2>2, <2>3, <2>4, <2>5
<1>8. ASSUME NEW m \in Names, NEW v \in BOOLEAN, SetCertVerified(m, v) PROVE Entries(res')
    <2>1. \A n \in Names : /\ res'[n] = NoEntry <=> res[n] = NoEntry
                           /\ res[n] # NoEntry => AsDeclared(res'[n]) = AsDeclared(res[n])
        BY <1>1, <1>8, SetCertVerifiedOK DEF AsDeclared
    <2> QED BY <1>4, <2>1
<1>9. ASSUME NEW d \in Workers, Mark(d) PROVE Entries(res') /\ UNCHANGED hVars
    BY <1>1, <1>8, <1>9, KeyFacts DEF Mark, TypeOK
<1>10. ASSUME NEW h \in Conns, MarkZone(h) PROVE Entries(res') /\ Held(hpc', hdecl', hname')
    <2>1. Entries(res') BY <1>1, <1>8, <1>10, ZoneFacts DEF MarkZone, TypeOK
    <2>2. Held(hpc', hdecl', hname') BY <1>1, <1>4, <1>10 DEF MarkZone, TypeOK
    <2> QED BY <2>1, <2>2
<1>11. ASSUME NEW h \in Conns, GetResolution(h) PROVE Entries(res') /\ Held(hpc', hdecl', hname')
    <2> DEFINE z == Zone(hname[h])
    <2>1. z \in Names /\ Zone(z) = z BY <1>1, ZoneFacts DEF TypeOK
    <2>2. PICK x \in Found(z) : hdecl' = [hdecl EXCEPT ![h] = x]
        BY <1>11 DEF GetResolution
    <2>3. x \in published[z]
        <3>1. CASE res[z] # NoEntry BY <1>4, <2>1, <2>2, <3>1 DEF Found
        <3>2. CASE res[z] = NoEntry BY <2>2, <3>2 DEF Found, Answers
        <3> QED BY <3>1, <3>2
    <2>4. UNCHANGED <<res, hname>> /\ \A g \in Conns \ {h} : hpc'[g] = hpc[g] /\ hdecl'[g] = hdecl[g]
        BY <1>1, <1>11, <2>2 DEF GetResolution, TypeOK
    <2>5. hdecl'[h] = x BY <1>1, <2>2 DEF TypeOK
    <2> QED BY <1>4, <2>3, <2>4, <2>5
<1>12. ASSUME NEW h \in Conns,
              \/ \E n \in Names : Hello(h, n) \/ PlainHello(h, n)
              \/ CheckCert(h) \/ Serve(h) \/ Dial(h) \/ Close(h)
              \/ PlainResolution(h) \/ PlainDial(h)
       PROVE  Entries(res') /\ Held(hpc', hdecl', hname')
    <2>1. UNCHANGED res
        BY <1>12 DEF Hello, PlainHello, CheckCert, Serve, Dial, Close, PlainResolution, PlainDial
    <2>2. \A g \in Conns \ {h} : hpc'[g] = hpc[g] /\ hdecl'[g] = hdecl[g] /\ hname'[g] = hname[g]
        BY <1>1, <1>12
           DEF Hello, PlainHello, CheckCert, Serve, Dial, Close, PlainResolution, PlainDial, TypeOK
    <2>3. \/ hpc'[h] \notin {"dial", "mark", "proxy"}
          \/ /\ hpc[h] \in {"dial", "mark", "proxy"}
             /\ hdecl'[h] = hdecl[h] /\ hname'[h] = hname[h]
        BY <1>1, <1>12
           DEF Hello, PlainHello, CheckCert, Serve, Dial, Close, PlainResolution, PlainDial, TypeOK
    <2> QED BY <1>4, <2>1, <2>2, <2>3
<1> HIDE DEF Entries, Held
<1> QED
    BY <1>4, <1>6, <1>7, <1>9, <1>10, <1>11, <1>12 DEF Next, World, DnsStep, ConnStep, vars, world,
       dnsVars, hVars, Publish, Rotate, Query, Resolved, Forwarded, Verify, Answer, Expire

LEMMA WholeInductive == Spec => [](IInv /\ Whole)
BY InvInit, InvStep, WholeInit, WholeStep, PTL DEF Spec

(* "use subdomain IP if available": with the Windows handlers, whose entries
   keep the table, a connection goes where one declaration of its zone, read
   whole, sends its name, however many declarations followed each other. *)
THEOREM SubdomainRoutingHolds == Spec => []SubdomainRouting
<1>1. IInv /\ Whole => SubdomainRouting
    BY DEF IInv, ConnInFlight, Whole, SubdomainRouting
<1> QED BY <1>1, WholeInductive, PTL

(* "Verify against the ACTUAL IP that will serve this domain": on Windows, of
   names of up to three labels.  The handler looks one up by all labels before
   its zone and the proxy by the first one alone, so that with four the two
   addresses may differ. *)
THEOREM SameServerCheckedHolds ==
    ASSUME \A n \in Names : Len(n) <= 3
    PROVE  Spec => []SameServerChecked
<1>1. \A n \in Names : Prefix(n) = ProxySub(n)
    <2> SUFFICES ASSUME NEW n \in Names PROVE Prefix(n) = ProxySub(n) OBVIOUS
    <2>1. n \in Seq(STRING) /\ Len(n) \in 1..3
        <3>1. n \in Seq(STRING) /\ n # <<>> BY NamesAssumption
        <3>2. Len(n) \in Nat \ {0} BY <3>1, EmptySeq
        <3>3. Len(n) <= 3 OBVIOUS
        <3>4. \A k \in Nat \ {0} : k <= 3 => k \in 1..3 OBVIOUS
        <3> QED BY <3>1, <3>2, <3>3, <3>4, Zenon
    <2>2. CASE Len(n) <= 2
        <3>1. Prefix(n) = SubSeq(n, 1, 0) BY <2>1, <2>2 DEF Prefix, Zone
        <3>2. SubSeq(n, 1, 0) = <<>> BY SubSeqEmpty
        <3> QED BY <2>1, <2>2, <3>1, <3>2 DEF ProxySub
    <2>3. CASE Len(n) = 3
        <3>1. Len(Zone(n)) = 2 BY <2>3 DEF Zone
        <3>2. Prefix(n) = SubSeq(n, 1, 1) BY <2>3, <3>1 DEF Prefix
        <3>3. SubSeq(n, 1, 1) = <<n[1]>>
            <4> DEFINE t == SubSeq(n, 1, 1)
            <4>1. \A i \in 1..1 : n[i] \in {n[1]} OBVIOUS
            <4>2. t \in Seq({n[1]}) /\ Len(t) = 1 BY <4>1, SubSeqProperties
            <4> HIDE DEF t
            <4>3. t = <<n[1]>> BY <4>2, SMTT(20)
            <4> QED BY <4>3 DEF t
        <3>4. ProxySub(n) = <<n[1]>> BY <2>3 DEF ProxySub
        <3> QED BY <3>2, <3>3, <3>4, Zenon
    <2>4. \A k \in 1..3 : k <= 2 \/ k = 3 OBVIOUS
    <2> QED BY <2>1, <2>2, <2>3, <2>4, Zenon
<1>2. IInv => SameServerChecked
    <2> SUFFICES ASSUME IInv, NEW d \in Workers, NEW h \in Conns, Busy(h), handler = "windows",
                        dname[d] = hname[h], ddecl[d] = hdecl[h]
                 PROVE  VerifyIp(dname[d], ddecl[d]) = target[h]
        BY DEF SameServerChecked
    <2>1. dname[d] \in Names BY DEF IInv, TypeOK
    <2>2. target[h] = TargetIp(hname[h], hdecl[h]) BY DEF IInv, ConnInFlight
    <2> QED BY <1>1, <2>1, <2>2 DEF VerifyIp, ChecksFirst, TargetIp
<1> QED BY <1>2, Inductive, PTL

-----------------------------------------------------------------------------
(* The server keeps no entry under a name below a zone. *)
OnZones == handler = "server" => \A n \in Names : res[n] # NoEntry => Zone(n) = n

LEMMA OnZonesStep == TypeOK /\ OnZones /\ [Next]_vars => OnZones'
<1> SUFFICES ASSUME TypeOK, OnZones, [Next]_vars, handler = "server" PROVE OnZones'
    BY Accumulate DEF OnZones
<1>1. \A n \in Names : Key(n) \in Names /\ Zone(Key(n)) = Key(n)
    BY KeyFacts, ZoneFacts DEF Key
<1>2. \A n \in Names, v \in BOOLEAN : SetCertVerified(n, v) => OnZones'
    BY DEF SetCertVerified, OnZones, TypeOK
<1>3. ASSUME NEW d \in Workers, Register(d) PROVE OnZones'
    BY <1>1, <1>3 DEF Register, OnZones, TypeOK
<1>4. ASSUME NEW d \in Workers, Mark(d) PROVE OnZones'
    BY <1>1, <1>2, <1>4 DEF Mark, TypeOK
<1>5. ASSUME NEW h \in Conns, MarkZone(h) PROVE OnZones'
    BY <1>2, <1>5, ZoneFacts DEF MarkZone, TypeOK
<1>6. CASE UNCHANGED res
    BY <1>6 DEF OnZones
<1> QED
    BY <1>3, <1>4, <1>5, <1>6 DEF Next, World, DnsStep, ConnStep, vars, Publish, Rotate, Query,
       Resolved, Forwarded, Verify, Answer, Expire, Hello, PlainHello, CheckCert, Serve,
       GetResolution, Dial, Close, PlainResolution, PlainDial

(* The entry findParentDomain falls back on is that of the zone. *)
LEMMA ParentIsZone ==
    ASSUME TypeOK, OnZones, handler = "server", NEW n \in Names, res[Zone(n)] # NoEntry
    PROVE  FindParentDomain(n) \in {Zone(n), <<>>}
<1>1. n \in Seq(STRING) /\ n # <<>> BY NamesAssumption
<1>2. res[n] # NoEntry => n = Zone(n) BY DEF OnZones
<1>3. CASE Len(n) >= 2 /\ Tail(n) \in Names /\ res[Tail(n)] # NoEntry /\ res[n] = NoEntry
    <2>1. Zone(Tail(n)) = Tail(n) BY <1>3 DEF OnZones
    <2>2. Zone(n) # n BY <1>3
    <2>3. Len(n) > 2 BY <1>1, <2>2 DEF Zone
    <2>4. Tail(n) \in Seq(STRING) /\ Len(Tail(n)) = Len(n) - 1
          /\ \A i \in 1..(Len(n) - 1) : Tail(n)[i] = n[i + 1]
        BY <1>1, HeadTailProperties
    <2>5. Len(Tail(n)) <= 2 BY <2>1, <2>4 DEF Zone
    <2>6. Len(n) = 3 BY <1>1, <2>3, <2>4, <2>5
    <2>7. <<n[2], n[3]>> \in Seq(STRING) /\ Len(<<n[2], n[3]>>) = 2
        <3>1. 2 \in 1..Len(n) /\ 3 \in 1..Len(n) BY <2>6
        <3>2. n[2] \in STRING /\ n[3] \in STRING BY <1>1, <3>1, ElementOfSeq
        <3> QED BY <3>2
    <2>8. Zone(n) = <<n[2], n[3]>> BY <2>6 DEF Zone
    <2>9. \A i \in 1..2 : Tail(n)[i] = <<n[2], n[3]>>[i]
        <3>1. Len(n) - 1 = 2 /\ 1 \in 1..2 /\ 2 \in 1..2 /\ 1 + 1 = 2 /\ 2 + 1 = 3 BY <2>6
        <3>2. \A i \in 1..2 : Tail(n)[i] = n[i + 1] BY <2>4, <3>1, Zenon
        <3>3. Tail(n)[1] = n[1 + 1] /\ Tail(n)[2] = n[2 + 1] BY <3>1, <3>2, Zenon
        <3>4. <<n[2], n[3]>>[1] = n[2] /\ <<n[2], n[3]>>[2] = n[3] OBVIOUS
        <3>5. \A i \in 1..2 : i = 1 \/ i = 2 OBVIOUS
        <3> QED BY <3>1, <3>3, <3>4, <3>5, Zenon
    <2>10. Tail(n) = Zone(n)
        <3>1. Len(Tail(n)) = 2 BY <2>4, <2>6
        <3> QED BY <2>4, <2>7, <2>8, <2>9, <3>1, SeqEqual, Zenon
    <2> QED BY <1>3, <2>10 DEF FindParentDomain
<1> QED BY <1>2, <1>3 DEF FindParentDomain

(* A failed verification "ensures signer generates untrusted cert for future
   connections": with the handler of the DNS server, for names with any number
   of labels.  With the other handlers the entry of a longer name hides the
   failure noted on its zone. *)
THEOREM FailedZoneNotTrustedHolds == Spec => FailedZoneNotTrusted
<1> DEFINE Step == \A h \in Conns :
               LET e == res[Zone(hname[h])] IN
               handler = "server" /\ hpc[h] = "check" /\ hpc'[h] = "serve" /\ e # NoEntry
                   => (e.checked /\ ~e.verified => ~trust'[h])
<1>1. TypeOK /\ OnZones /\ [Next]_vars => [Step]_vars
    <2> SUFFICES ASSUME TypeOK, OnZones, [Next]_vars, NEW h \in Conns, handler = "server",
                        hpc[h] = "check", hpc'[h] = "serve", res[Zone(hname[h])] # NoEntry,
                        res[Zone(hname[h])].checked, ~res[Zone(hname[h])].verified
                 PROVE  ~trust'[h]
        OBVIOUS
    <2>1. CheckCert(h)
        <3>1. \A g \in Conns : CheckCert(g) => g = h BY DEF CheckCert, TypeOK
        <3>2. \A g \in Conns : \/ Serve(g) \/ GetResolution(g) \/ Dial(g) \/ MarkZone(g) \/ Close(g)
                               \/ PlainResolution(g) \/ PlainDial(g)
                               \/ \E n \in Names : Hello(g, n) \/ PlainHello(g, n)
                 => hpc'[h] # "serve" \/ hpc[h] # "check"
            BY DEF Serve, GetResolution, Dial, MarkZone, Close, PlainResolution, PlainDial,
                   Hello, PlainHello, TypeOK
        <3>3. ~UNCHANGED hpc OBVIOUS
        <3> QED
            BY <3>1, <3>2, <3>3 DEF Next, World, DnsStep, ConnStep, vars, hVars, Publish, Rotate,
               Query, Resolved, Forwarded, Register, Verify, Mark, Answer, Expire
    <2>2. hname[h] \in Names BY DEF TypeOK
    <2>3. FindParentDomain(hname[h]) \in {Zone(hname[h]), <<>>} BY <2>2, ParentIsZone
    <2>4. ~IsCertValidForDomain(hname[h]) BY <2>3 DEF IsCertValidForDomain, Vouched
    <2> QED BY <2>1, <2>4 DEF CheckCert, TypeOK
<1>2. Init => OnZones BY DEF Init, OnZones
<1>3. Spec => []OnZones BY <1>2, OnZonesStep, TypeCorrect, PTL DEF Spec
<1> QED BY <1>1, <1>3, TypeCorrect, PTL DEF Spec, FailedZoneNotTrusted
=============================================================================
