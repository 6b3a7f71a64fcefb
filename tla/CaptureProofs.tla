--------------------------- MODULE CaptureProofs ----------------------------
(***************************************************************************)
(* Which names the detector takes for the network's, for every list of     *)
(* words and every label: what it accepts has the documented format, and   *)
(* if no word of the list begins another it accepts all of it.  And what   *)
(* becomes of the packets that ask for them: what a stop of the Windows    *)
(* service leaves behind, when a packet may be lost and where each packet  *)
(* is, for any packets, kinds of names, connections and lookups; and that  *)
(* the stack on a TUN device is quiet once it is closed, for any number of *)
(* packets waiting in it.                                                  *)
(***************************************************************************)
EXTENDS Packets, Detector, DataLemmas, FiniteSetTheorems, SequenceTheorems, TLAPS

-----------------------------------------------------------------------------
(* The detector.                                                           *)
(* Words are not empty.                                                    *)
LEMMA WordFacts ==
    ASSUME NEW w \in Words
    PROVE  w \in Seq(Letters) /\ Len(w) \in Nat \ {0}
BY DetectorAssumption, EmptySeq DEF DetectorAssumption

(* What is left of a label when n characters are taken off its beginning.  *)
LEMMA AfterFacts ==
    ASSUME NEW S, NEW s \in Seq(S), NEW n \in 0..Len(s)
    PROVE  After(n, s) \in Seq(S) /\ Len(After(n, s)) = Len(s) - n
<1>1. Len(s) \in Nat /\ \A i \in 1..Len(s) : s[i] \in S
  BY LenProperties
<1>2. \A i \in (n + 1)..Len(s) : s[i] \in S
  BY <1>1, SMT
<1>3. /\ SubSeq(s, n + 1, Len(s)) \in Seq(S)
      /\ Len(SubSeq(s, n + 1, Len(s)))
            = IF n + 1 <= Len(s) THEN Len(s) - (n + 1) + 1 ELSE 0
  BY <1>1, <1>2, SubSeqProperties, SMT
<1> QED
  BY <1>1, <1>3, SMT DEF After

(* A word that s begins with agrees with s letter by letter.               *)
LEMMA PrefixFacts ==
    ASSUME NEW S, NEW s \in Seq(S), Letters \subseteq S, NEW w \in Words
    PROVE  Prefix(w, s) <=> /\ Len(w) <= Len(s)
                            /\ \A i \in 1..Len(w) : s[i] = w[i]
<1>1. /\ w \in Seq(S) /\ Len(w) \in Nat
  BY WordFacts, SeqMonotonic
<1>2. Len(s) \in Nat /\ \A i \in 1..Len(s) : s[i] \in S
  BY LenProperties
<1>3. ASSUME Len(w) <= Len(s)
      PROVE  /\ SubSeq(s, 1, Len(w)) \in Seq(S)
             /\ Len(SubSeq(s, 1, Len(w))) = Len(w)
             /\ \A i \in 1..Len(w) : SubSeq(s, 1, Len(w))[i] = s[i]
  <2>1. \A i \in 1..Len(w) : s[i] \in S
    BY <1>1, <1>2, <1>3, SMT
  <2>2. /\ SubSeq(s, 1, Len(w)) \in Seq(S)
        /\ Len(SubSeq(s, 1, Len(w))) = IF 1 <= Len(w) THEN Len(w) - 1 + 1 ELSE 0
        /\ \A i \in 1..(Len(w) - 1 + 1) : SubSeq(s, 1, Len(w))[i] = s[1 + i - 1]
    BY <1>1, <2>1, SubSeqProperties
  <2> QED
    BY <1>1, <2>2, SMT
<1>4. ASSUME Prefix(w, s)
      PROVE  Len(w) <= Len(s) /\ \A i \in 1..Len(w) : s[i] = w[i]
  BY <1>3, <1>4 DEF Prefix
<1>5. ASSUME Len(w) <= Len(s), \A i \in 1..Len(w) : s[i] = w[i]
      PROVE  Prefix(w, s)
  <2>1. SubSeq(s, 1, Len(w)) = w
    BY <1>1, <1>3, <1>5, SeqEqual
  <2> QED
    BY <1>5, <2>1 DEF Prefix
<1> QED
  BY <1>4, <1>5

(* MatchBIP39Prefix finds a word if there is one, and the longest.         *)
LEMMA MatchFacts ==
    ASSUME NEW S, NEW s \in Seq(S), NEW v \in Words, Prefix(v, s)
    PROVE  /\ MatchBIP39Prefix(s) \in Words
           /\ Prefix(MatchBIP39Prefix(s), s)
           /\ Len(v) <= Len(MatchBIP39Prefix(s))
<1> DEFINE matches == {w \in Words : Prefix(w, s)}
           gaps    == {Len(s) - Len(w) : w \in matches}
<1>1. Len(s) \in Nat
  BY LenProperties
<1>2. \A w \in matches : Len(w) \in Nat /\ Len(w) <= Len(s)
  BY WordFacts DEF Prefix
<1>3. gaps \subseteq Nat /\ gaps # {}
  BY <1>1, <1>2
<1>4. PICK g \in gaps : \A h \in gaps : g <= h
  BY <1>3, LeastNat
<1>5. PICK m \in matches : g = Len(s) - Len(m)
  OBVIOUS
<1>6. \A w \in matches : Len(w) <= Len(m)
  <2> SUFFICES ASSUME NEW w \in matches PROVE Len(w) <= Len(m)
    OBVIOUS
  <2>1. g <= Len(s) - Len(w)
    BY <1>4
  <2>2. Len(w) \in Nat /\ Len(m) \in Nat
    BY <1>2
  <2> QED
    BY <1>1, <1>5, <2>1, <2>2, SMT
<1>7. MatchBIP39Prefix(s) = CHOOSE w \in matches : \A u \in matches : Len(u) <= Len(w)
  BY DEF MatchBIP39Prefix
<1>8. /\ MatchBIP39Prefix(s) \in matches
      /\ \A u \in matches : Len(u) <= Len(MatchBIP39Prefix(s))
  BY <1>6, <1>7
<1> QED
  BY <1>8

(* Without a word at the beginning it returns the empty sequence.          *)
LEMMA NoMatch ==
    ASSUME NEW S, NEW s \in Seq(S), MatchBIP39Prefix(s) # <<>>
    PROVE  MatchBIP39Prefix(s) \in Words /\ Prefix(MatchBIP39Prefix(s), s)
<1>1. \E w \in Words : Prefix(w, s)
  BY DEF MatchBIP39Prefix
<1> QED
  BY <1>1, MatchFacts

(* What the detector accepts (isSinglePartDNN) has the documented format,  *)
(* whatever the list of words is.                                          *)
THEOREM DetectedHasFormat ==
    ASSUME NEW S, Letters \subseteq S, NEW s \in Seq(S), IsSinglePartDNN(s)
    PROVE  InFormat(s)
<1> DEFINE rest  == After(1, s)
           word1 == MatchBIP39Prefix(rest)
           left  == After(Len(word1), rest)
           word2 == MatchBIP39Prefix(left)
<1>1. s # <<>> /\ Len(s) \in Nat \ {0}
  <2>1. \A v, w \in Words : Len(v) + Len(w) + 2 >= MinLen
    BY DetectorAssumption DEF DetectorAssumption
  <2>2. s # <<>>
    <3> SUFFICES ASSUME s = <<>> PROVE FALSE
      OBVIOUS
    <3>1. After(1, s) = <<>>
      BY SubSeqEmpty, SMT DEF After
    <3>2. word1 # <<>>
      BY DEF IsSinglePartDNN, IsDNNEncoded
    <3>3. <<>> \in Seq(S)
      BY EmptySeq
    <3>4. word1 \in Words /\ Prefix(word1, <<>>)
      BY <3>1, <3>2, <3>3, NoMatch
    <3>5. Len(word1) \in Nat \ {0} /\ Len(word1) <= 0
      BY <3>4, WordFacts, EmptySeq DEF Prefix
    <3> QED
      BY <3>5, SMT
  <2> QED
    BY <2>2, EmptySeq
<1>2. word1 # <<>> /\ word2 # <<>> /\ EndsWell(After(Len(word2), left)) /\ s[1] = Initial
  BY DEF IsSinglePartDNN, IsDNNEncoded
<1>3. rest \in Seq(S)
  BY <1>1, AfterFacts, SMT
<1>4. word1 \in Words /\ Prefix(word1, rest)
  BY <1>2, <1>3, NoMatch
<1>5. left \in Seq(S)
  <2>1. Len(word1) \in 0..Len(rest)
    BY <1>3, <1>4, WordFacts, LenProperties, SMT DEF Prefix
  <2> QED
    BY <1>3, <2>1, AfterFacts
<1>6. word2 \in Words /\ Prefix(word2, left)
  BY <1>2, <1>5, NoMatch
<1> QED
  BY <1>1, <1>2, <1>4, <1>6 DEF InFormat

-----------------------------------------------------------------------------
(* If no word of the list begins another, at most one begins a label.      *)
LEMMA OneMatch ==
    ASSUME PrefixFree, NEW S, Letters \subseteq S, NEW s \in Seq(S),
           NEW v \in Words, Prefix(v, s)
    PROVE  MatchBIP39Prefix(s) = v
<1> DEFINE m == MatchBIP39Prefix(s)
<1>1. m \in Words /\ Prefix(m, s) /\ Len(v) <= Len(m)
  BY MatchFacts
<1> HIDE DEF m
<1>2. \A i \in 1..Len(v) : m[i] = v[i]
  <2>1. \A i \in 1..Len(v) : s[i] = v[i]
    BY PrefixFacts
  <2>2. \A i \in 1..Len(m) : s[i] = m[i]
    BY <1>1, PrefixFacts
  <2>3. Len(v) \in Nat /\ Len(m) \in Nat
    BY <1>1, WordFacts
  <2> QED
    BY <1>1, <2>1, <2>2, <2>3, SMT
<1>3. m \in Seq(Letters)
  BY <1>1, WordFacts
<1>4. Prefix(v, m)
  BY <1>1, <1>2, <1>3, PrefixFacts
<1>5. v = m
  BY <1>1, <1>4 DEF PrefixFree
<1> QED
  BY <1>5 DEF m

(* Position letters are letters: something follows the second word.        *)
LEMMA EndIsNotEmpty ==
    ASSUME EndsWell(<<>>)
    PROVE  FALSE
<1> DEFINE n == CycleDigits(<<>>)
<1>1. Len(<<>>) = 0
  BY EmptySeq
<1>2. \E k \in 0..Len(<<>>) : /\ \A i \in 1..k : <<>>[i] \in Digits
                              /\ k < Len(<<>>) => <<>>[k + 1] \notin Digits
  BY <1>1, SMT
<1>3. n \in 0..Len(<<>>)
  BY <1>2 DEF CycleDigits
<1>4. n \in Int /\ Len(<<>>) < n + 1
  BY <1>1, <1>3, SMT
<1> HIDE DEF n
<1>5. After(n, <<>>) = <<>>
  BY <1>1, <1>4, SubSeqEmpty, SMT DEF After
<1> QED
  BY <1>5 DEF EndsWell, n

(* Every label of the documented format is accepted by the detector, if no *)
(* word of the list begins another: that is what the collision-prone words *)
(* were taken out of the list for (bip39.go:7).                            *)
THEOREM FormatIsDetected ==
    ASSUME PrefixFree, NEW S, Letters \subseteq S, NEW s \in Seq(S), InFormat(s)
    PROVE  IsSinglePartDNN(s)
<1> DEFINE rest == After(1, s)
<1>1. PICK v \in Words, w \in Words :
          /\ Prefix(v, rest) /\ Prefix(w, After(Len(v), rest))
          /\ EndsWell(After(Len(w), After(Len(v), rest)))
  BY DEF InFormat
<1> DEFINE left == After(Len(v), rest)
           tail == After(Len(w), left)
<1>2. s # <<>> /\ s[1] = Initial /\ Len(s) \in Nat \ {0}
  BY EmptySeq DEF InFormat
<1>3. Len(v) \in Nat \ {0} /\ Len(w) \in Nat \ {0} /\ v # <<>> /\ w # <<>>
  BY WordFacts, EmptySeq
<1>4. rest \in Seq(S) /\ Len(rest) = Len(s) - 1
  BY <1>2, AfterFacts, SMT
<1>5. left \in Seq(S) /\ Len(left) = Len(rest) - Len(v)
  <2>1. Len(v) \in 0..Len(rest)
    BY <1>1, <1>2, <1>3, <1>4, SMT DEF Prefix
  <2> QED
    BY <1>4, <2>1, AfterFacts
<1>6. tail \in Seq(S) /\ Len(tail) = Len(left) - Len(w)
  <2>1. Len(left) \in Nat
    BY <1>5, LenProperties
  <2>2. Len(w) \in 0..Len(left)
    BY <1>1, <1>3, <2>1, SMT DEF Prefix
  <2> QED
    BY <1>5, <2>2, AfterFacts
<1>7. MatchBIP39Prefix(rest) = v
  BY <1>1, <1>4, OneMatch
<1>8. MatchBIP39Prefix(left) = w
  BY <1>1, <1>5, OneMatch
<1>9. IsDNNEncoded(s)
  BY <1>1, <1>3, <1>7, <1>8 DEF IsDNNEncoded
<1>10. Len(tail) \in Nat \ {0}
  BY <1>1, <1>6, EndIsNotEmpty, EmptySeq
<1>11. Len(v) + Len(w) + 2 >= MinLen /\ MinLen \in Nat
  BY DetectorAssumption DEF DetectorAssumption
<1>12. Len(s) >= MinLen
  <2>1. Len(tail) = Len(s) - 1 - Len(v) - Len(w)
    BY <1>4, <1>5, <1>6
  <2>2. Len(s) \in Nat /\ Len(v) \in Nat /\ Len(w) \in Nat
    BY <1>2, <1>3
  <2> HIDE DEF tail
  <2> QED
    BY <1>10, <1>11, <2>1, <2>2, SMT
<1> QED
  BY <1>2, <1>9, <1>12 DEF IsSinglePartDNN

(* A name the capture takes for one of the network is looked up by a label *)
(* that has the format: the zone GetTLD names always exists.               *)
THEOREM ZoneHasFormat ==
    ASSUME NEW S, Letters \subseteq S, NEW name \in Seq(Seq(S)), IsDNNName(name)
    PROVE  InFormat(GetTLD(name))
<1> DEFINE dnn == {i \in DOMAIN name : IsSinglePartDNN(name[i])}
<1>1. DOMAIN name = 1..Len(name) /\ Len(name) \in Nat
  BY LenProperties
<1>2. Len(name) \in dnn
  <2>1. Len(name) \in Nat \ {0} /\ IsSinglePartDNN(name[Len(name)])
    BY EmptySeq DEF IsDNNName
  <2>2. Len(name) \in 1..Len(name)
    BY <2>1, SMT
  <2> QED
    BY <1>1, <2>1, <2>2, Zenon
<1>3. dnn \subseteq Nat /\ dnn # {}
  <2>1. 1..Len(name) \subseteq Nat
    BY <1>1, SMT
  <2> QED
    BY <1>1, <1>2, <2>1, Zenon
<1>4. PICK k \in dnn : \A j \in dnn : k <= j
  BY <1>3, LeastNat
<1> DEFINE first == CHOOSE i \in dnn : \A j \in dnn : i <= j
<1>5. first \in dnn
  BY <1>4
<1>6. GetTLD(name) = name[first]
  BY <1>3 DEF GetTLD
<1>7. name[first] \in Seq(S) /\ IsSinglePartDNN(name[first])
  BY <1>1, <1>5, LenProperties
<1> HIDE DEF first
<1> QED
  BY <1>6, <1>7, DetectedHasFormat

-----------------------------------------------------------------------------
(* The packets.                                                            *)
Before  == {"new", "start"}
Up      == {"proxy", "running", "discovery", "unmark"}
Closed  == {"wait", "stopProxy", "drain"}
Working == {"process", "resolve", "verify"}

(* What each place in Execute says about the handle, the flag and the      *)
(* goroutine: Stop clears the flag, closes the handle and waits, in this   *)
(* order, and the goroutine ends on the flag alone.                        *)
Order ==
    /\ exec \in Before \cup Up \cup {"close"} \cup Closed \cup {"end"}
    /\ loop \in {"off", "check", "recv", "done"} \cup Working
    /\ exec = "new" => handle = "none"
    /\ exec \in {"start", "close"} \cup Up => handle = "open"
    /\ exec \in Closed => handle = "closed"
    /\ exec = "end" => handle \in {"none", "closed"}
    /\ exec \in Before \/ (exec = "end" /\ handle = "none") 
          => loop = "off" /\ running = FALSE
    /\ exec \in {"close"} \cup Closed => running = FALSE
    /\ exec \in Up => running = TRUE
    /\ exec \in Up \cup {"close"} \cup Closed => loop # "off"
    /\ exec \in {"stopProxy", "drain"} => loop = "done"
    /\ exec = "end" /\ handle = "closed" => loop = "done"

(* Connections are only made while the proxy listens.                      *)
Clients ==
    /\ conns \in Nat
    /\ exec \in {"drain", "end"} => proxy = "off"
    /\ exec = "end" => conns = 0
    /\ exec \in Before => proxy = "off" /\ conns = 0

(* Where a packet is: with the driver only while there is a handle, in the *)
(* hands of the goroutine only while it works on it.                       *)
Places ==
    /\ fate \in [All -> {"none", "queued", "held", "passed", "answered", "lost", "expired"}]
    /\ handle # "open" => \A p \in All : fate[p] # "queued"
    /\ \A p \in All : fate[p] = "held" => loop \in Working /\ packet = p
    /\ (\E p \in All : fate[p] = "lost") => handle = "closed"

IInv == Order /\ Clients /\ Places

-----------------------------------------------------------------------------
(* Handing the packet back, or answering it, is the end of a turn.         *)
LEMMA InjectKeeps ==
    ASSUME IInv, loop \in Working, NEW how \in {"passed", "answered"}, Inject(how),
           UNCHANGED <<exec, handle, running, queue, proxy, conns>>
    PROVE  IInv'
<1>1. Order'
  BY DEF IInv, Inject, Order, Before, Up, Closed, Working
<1>2. Clients'
  BY DEF IInv, Inject, Clients, Before
<1>3. handle = "open" \/ handle = "closed"
  BY DEF IInv, Order, Before, Up, Closed, Working
<1>4. Places'
  BY <1>3 DEF IInv, Inject, Places, Order, Working
<1> QED
  BY <1>1, <1>2, <1>4 DEF IInv

(* The invariant holds at first,                                           *)
LEMMA InitIInv == Init => IInv
BY DEF Init, IInv, Order, Clients, Places, All, Before, Up, Closed, Working

(* after every step,                                                       *)
LEMMA NextIInv == IInv /\ [Next]_vars => IInv'
<1> SUFFICES ASSUME IInv, [Next]_vars
             PROVE  IInv'
  OBVIOUS
<1> USE DEF IInv
<1>1. CASE \E p \in Packets : Query(p)
  <2>1. Places'
    BY <1>1 DEF Query, Sent, Places, Order, All, Before, Up, Closed, Working
  <2> QED
    BY <1>1, <2>1 DEF Query, Sent, Order, Clients
<1>2. CASE Reply
  <2>1. Places'
    BY <1>2 DEF Reply, Places, Order, All, Before, Up, Closed, Working
  <2> QED
    BY <1>2, <2>1 DEF Reply, Order, Clients
<1>3. CASE Expire
  <2>1. Order'
    BY <1>3 DEF Expire, Order, Before, Up, Closed, Working
  <2>2. Places'
    BY <1>3 DEF Expire, Places, Order, All, Before, Up, Closed, Working
  <2> QED
    BY <1>3, <2>1, <2>2 DEF Expire, Clients
<1>4. CASE Forget
  BY <1>4 DEF Forget, Order, Clients, Places
<1>5. CASE Connect
  <2>1. Clients'
    BY <1>5 DEF Connect, Clients, Order, Before
  <2> QED
    BY <1>5, <2>1 DEF Connect, Order, Places
<1>6. CASE Disconnect
  <2>1. Clients'
    BY <1>6 DEF Disconnect, Clients, Order, Before
  <2> QED
    BY <1>6, <2>1 DEF Disconnect, Order, Places
<1>7. CASE LookUp
  <2>1. Places'
    BY <1>7 DEF LookUp, Sent, Places, Order, All, Before, Up, Closed, Working
  <2> QED
    BY <1>7, <2>1 DEF LookUp, Sent, Order, Clients
<1>8. CASE CheckRunning
  <2>1. Order'
    BY <1>8 DEF CheckRunning, Order, Before, Up, Closed, Working
  <2>2. Places'
    BY <1>8 DEF CheckRunning, Places, Order, All, Before, Up, Closed, Working
  <2> QED
    BY <1>8, <2>1, <2>2 DEF CheckRunning, Clients
<1>9. CASE Recv
  <2>1. Order'
    BY <1>9 DEF Recv, Order, Before, Up, Closed, Working
  <2>2. Places'
    BY <1>9 DEF Recv, Places, Order, All, Before, Up, Closed, Working
  <2> QED
    BY <1>9, <2>1, <2>2 DEF Recv, Clients
<1>10. CASE RecvFails
  <2>1. Order'
    BY <1>10 DEF RecvFails, Order, Before, Up, Closed, Working
  <2>2. Places'
    BY <1>10 DEF RecvFails, Places, Order, All, Before, Up, Closed, Working
  <2> QED
    BY <1>10, <2>1, <2>2 DEF RecvFails, Clients
<1>11. CASE Resolved
  <2>1. Order'
    BY <1>11 DEF Resolved, Order, Before, Up, Closed, Working
  <2>2. Places'
    BY <1>11 DEF Resolved, Places, Order, All, Before, Up, Closed, Working
  <2> QED
    BY <1>11, <2>1, <2>2 DEF Resolved, Clients
<1>12. CASE New
  <2>1. Order'
    BY <1>12 DEF New, Order, Before, Up, Closed, Working
  <2>2. Clients'
    BY <1>12 DEF New, Clients, Order, Before
  <2>3. Places'
    BY <1>12 DEF New, Places, Order, All, Before, Up, Closed, Working
  <2> QED
    BY <1>12, <2>1, <2>2, <2>3 DEF New
<1>13. CASE Start
  <2>1. Order'
    BY <1>13 DEF Start, Order, Before, Up, Closed, Working
  <2>2. Clients'
    BY <1>13 DEF Start, Clients, Order, Before
  <2>3. Places'
    BY <1>13 DEF Start, Places, Order, All, Before, Up, Closed, Working
  <2> QED
    BY <1>13, <2>1, <2>2, <2>3 DEF Start
<1>14. CASE StartProxy
  <2>1. Order'
    BY <1>14 DEF StartProxy, Order, Before, Up, Closed, Working
  <2>2. Clients'
    BY <1>14 DEF StartProxy, Clients, Order, Before
  <2> QED
    BY <1>14, <2>1, <2>2 DEF StartProxy, Places
<1>15. CASE StopControl
  <2>1. Order'
    BY <1>15 DEF StopControl, Order, Before, Up, Closed, Working
  <2>2. Clients'
    BY <1>15 DEF StopControl, Clients, Order, Before
  <2> QED
    BY <1>15, <2>1, <2>2 DEF StopControl, Places
<1>16. CASE StopDiscovery
  <2>1. Order'
    BY <1>16 DEF StopDiscovery, Order, Before, Up, Closed, Working
  <2>2. Clients'
    BY <1>16 DEF StopDiscovery, Clients, Order, Before
  <2> QED
    BY <1>16, <2>1, <2>2 DEF StopDiscovery, Places
<1>17. CASE StopCapture
  <2>1. Order'
    BY <1>17 DEF StopCapture, Order, Before, Up, Closed, Working
  <2>2. Clients'
    BY <1>17 DEF StopCapture, Clients, Order, Before
  <2> QED
    BY <1>17, <2>1, <2>2 DEF StopCapture, Places
<1>18. CASE CloseHandle
  <2>1. Order'
    BY <1>18 DEF CloseHandle, Order, Before, Up, Closed, Working
  <2>2. Clients'
    BY <1>18 DEF CloseHandle, Clients, Order, Before
  <2>3. Places'
    BY <1>18 DEF CloseHandle, Places, Order, All, Before, Up, Closed, Working
  <2> QED
    BY <1>18, <2>1, <2>2, <2>3 DEF CloseHandle
<1>19. CASE WaitLoop
  <2>1. Order'
    BY <1>19 DEF WaitLoop, Order, Before, Up, Closed, Working
  <2>2. Clients'
    BY <1>19 DEF WaitLoop, Clients, Order, Before
  <2> QED
    BY <1>19, <2>1, <2>2 DEF WaitLoop, Places
<1>20. CASE StopProxy
  <2>1. Order'
    BY <1>20 DEF StopProxy, Order, Before, Up, Closed, Working
  <2>2. Clients'
    BY <1>20 DEF StopProxy, Clients, Order, Before
  <2> QED
    BY <1>20, <2>1, <2>2 DEF StopProxy, Places
<1>21. CASE Return
  <2>1. Order'
    BY <1>21 DEF Return, Order, Before, Up, Closed, Working
  <2>2. Clients'
    BY <1>21 DEF Return, Clients, Order, Before
  <2> QED
    BY <1>21, <2>1, <2>2 DEF Return, Places
<1>22. CASE ProcessPacket
  <2>1. CASE packet = Lookup \/ Kind[packet] = "other"
    BY <1>22, <2>1, InjectKeeps DEF ProcessPacket, Working
  <2>2. CASE ~(packet = Lookup \/ Kind[packet] = "other")
    BY <1>22, <2>2 DEF ProcessPacket, Order, Clients, Places, Before, Up, Closed, Working
  <2> QED
    BY <2>1, <2>2
<1>23. CASE ResolveFails
  BY <1>23, InjectKeeps DEF ResolveFails, Working
<1>24. CASE AnswerDNN
  BY <1>24, InjectKeeps DEF AnswerDNN, Working
<1>25. CASE UNCHANGED vars
  BY <1>25 DEF vars, Order, Clients, Places
<1> QED
  BY <1>1, <1>2, <1>3, <1>4, <1>5, <1>6, <1>7, <1>8, <1>9, <1>10, <1>11, <1>12,
     <1>13, <1>14, <1>15, <1>16, <1>17, <1>18, <1>19, <1>20, <1>21, <1>22, <1>23, <1>24, <1>25
     DEF Next, Loop, Execute

(* and so in every state, of the Windows service and of both ways.         *)
THEOREM Invariant == Spec => []IInv
BY InitIInv, NextIInv, PTL DEF Spec

LEMMA PacketsStep == [PacketsNext]_<<way, vars, tunVars>> => [Next]_vars /\ [Tun!Next]_tunVars
BY DEF PacketsNext, Diverted, Tunnelled

LEMMA PacketsInvariant == PacketsSpec => []IInv
<1>1. PacketsInit => Init
  BY DEF PacketsInit
<1> QED
  BY <1>1, InitIInv, NextIInv, PacketsStep, PTL DEF PacketsSpec

(* A stopped service holds nothing: the handle is closed, the goroutine    *)
(* has ended, and no packet is with either (Capture.Stop).                 *)
THEOREM StoppedIsQuietHolds == PacketsSpec => []StoppedIsQuiet
<1>1. IInv => StoppedIsQuiet
  <2> SUFFICES ASSUME IInv, Status = "Stopped", handle # "none"
               PROVE  /\ handle = "closed" /\ loop = "done" /\ conns = 0
                      /\ \A p \in All : fate[p] \notin {"queued", "held"}
    BY DEF StoppedIsQuiet
  <2>1. exec = "end"
    BY DEF Status
  <2>2. handle = "closed" /\ loop = "done" /\ conns = 0
    BY <2>1 DEF IInv, Order, Clients
  <2>3. \A p \in All : fate[p] \notin {"queued", "held"}
    BY <2>2 DEF IInv, Places, Working
  <2> QED
    BY <2>2, <2>3
<1> QED
  BY <1>1, PacketsInvariant, PTL

(* A packet is lost only to a stop: handleDNN hands every packet back that *)
(* it does not answer.                                                     *)
THEOREM DroppedOnlyByStopHolds == PacketsSpec => []DroppedOnlyByStop
<1>1. IInv => DroppedOnlyByStop
  <2> SUFFICES ASSUME IInv, \E p \in All : fate[p] = "lost"
               PROVE  Status \in {"StopPending", "Stopped"}
    BY DEF DroppedOnlyByStop
  <2>1. handle = "closed"
    BY DEF IInv, Places
  <2>2. exec \in Closed \cup {"end"}
    BY <2>1 DEF IInv, Order, Before, Up, Closed
  <2> QED
    BY <2>2 DEF Status, Closed
<1> QED
  BY <1>1, PacketsInvariant, PTL

-----------------------------------------------------------------------------
(* The driver holds each packet once: its queue is a list, without a       *)
(* repetition, of the packets whose fate is that they are queued.          *)
Lined(q, f) ==
    /\ q \in Seq(All)
    /\ \A p \in All : f[p] = "queued" <=> \E i \in 1..Len(q) : q[i] = p
    /\ \A i, j \in 1..Len(q) : q[i] = q[j] => i = j

Fates == {"none", "queued", "held", "passed", "answered", "lost", "expired"}

LEMMA LinedAppend ==
    ASSUME NEW q, NEW f \in [All -> Fates], NEW p \in All, Lined(q, f), f[p] # "queued"
    PROVE  Lined(Append(q, p), [f EXCEPT ![p] = "queued"])
<1> DEFINE r == Append(q, p)
<1>1. q \in Seq(All) /\ Len(q) \in Nat /\ r \in Seq(All) /\ Len(r) = Len(q) + 1
  BY DEF Lined
<1>2. r[Len(q) + 1] = p /\ \A i \in 1..Len(q) : r[i] = q[i]
  BY <1>1
<1>3. \A i \in 1..Len(q) : q[i] # p
  BY DEF Lined
<1>4. \A i \in 1..Len(r) : i \in 1..Len(q) \/ i = Len(q) + 1
  BY <1>1
<1>5. \A o \in All : [f EXCEPT ![p] = "queued"][o] = "queued" <=> \E i \in 1..Len(r) : r[i] = o
  <2> SUFFICES ASSUME NEW o \in All
               PROVE  [f EXCEPT ![p] = "queued"][o] = "queued" <=> \E i \in 1..Len(r) : r[i] = o
    OBVIOUS
  <2>1. CASE o = p
    BY <1>1, <1>2, <2>1
  <2>2. CASE o # p
    BY <1>1, <1>2, <1>4, <2>2 DEF Lined
  <2> QED
    BY <2>1, <2>2
<1>6. \A i, j \in 1..Len(r) : r[i] = r[j] => i = j
  BY <1>2, <1>3, <1>4 DEF Lined
<1> HIDE DEF r
<1>7. Lined(r, [f EXCEPT ![p] = "queued"])
  BY <1>1, <1>5, <1>6 DEF Lined
<1> QED
  BY <1>7 DEF r

LEMMA LinedTail ==
    ASSUME NEW q, NEW f \in [All -> Fates], NEW how \in Fates \ {"queued"}, Lined(q, f), q # <<>>
    PROVE  Head(q) \in All /\ f[Head(q)] = "queued"
           /\ Lined(Tail(q), [f EXCEPT ![Head(q)] = how])
<1> DEFINE r == Tail(q)
<1>1. q \in Seq(All) /\ Len(q) \in Nat \ {0} /\ r \in Seq(All) /\ Len(r) = Len(q) - 1
  BY DEF Lined
<1>2. \A i \in 1..Len(r) : i + 1 \in 1..Len(q) /\ r[i] = q[i + 1]
  BY <1>1
<1>3. Head(q) = q[1] /\ 1 \in 1..Len(q) /\ q[1] \in All
  BY <1>1
<1>4. \A i \in 1..Len(q) : i = 1 \/ (i - 1 \in 1..Len(r) /\ r[i - 1] = q[i])
  BY <1>1, <1>2
<1>5. \A i \in 1..Len(r) : r[i] # q[1]
  BY <1>1, <1>2, <1>3 DEF Lined
<1>6. \A o \in All : [f EXCEPT ![q[1]] = how][o] = "queued" <=> \E i \in 1..Len(r) : r[i] = o
  <2> SUFFICES ASSUME NEW o \in All
               PROVE  [f EXCEPT ![q[1]] = how][o] = "queued" <=> \E i \in 1..Len(r) : r[i] = o
    OBVIOUS
  <2>1. CASE o = q[1]
    BY <1>3, <1>5, <2>1
  <2>2. CASE o # q[1]
    <3>1. [f EXCEPT ![q[1]] = how][o] = f[o]
      BY <2>2
    <3>2. (\E i \in 1..Len(q) : q[i] = o) <=> \E i \in 1..Len(r) : r[i] = o
      BY <1>2, <1>4, <2>2
    <3> QED
      BY <3>1, <3>2 DEF Lined
  <2> QED
    BY <2>1, <2>2
<1>7. \A i, j \in 1..Len(r) : r[i] = r[j] => i = j
  <2> SUFFICES ASSUME NEW i \in 1..Len(r), NEW j \in 1..Len(r), r[i] = r[j]
               PROVE  i = j
    OBVIOUS
  <2>1. i + 1 = j + 1
    BY <1>2 DEF Lined
  <2> QED
    BY <1>1, <2>1
<1> HIDE DEF r
<1>8. Lined(r, [f EXCEPT ![q[1]] = how])
  BY <1>1, <1>6, <1>7 DEF Lined
<1> QED
  BY <1>3, <1>8 DEF r, Lined

LEMMA LinedRest ==
    ASSUME NEW q, NEW f \in [All -> Fates], NEW p \in All, NEW how \in Fates \ {"queued"},
           Lined(q, f), f[p] # "queued"
    PROVE  Lined(q, [f EXCEPT ![p] = how])
BY DEF Lined

(* Its length is therefore the number of these packets.                    *)
LEMMA LinedCount ==
    ASSUME NEW q, NEW f \in [All -> Fates], Lined(q, f)
    PROVE  /\ {q[i] : i \in DOMAIN q} = {p \in All : f[p] = "queued"}
           /\ Len(q) = Cardinality({p \in All : f[p] = "queued"})
<1> DEFINE S == {p \in All : f[p] = "queued"}
<1>1. q \in Seq(All) /\ Len(q) \in Nat /\ DOMAIN q = 1..Len(q)
  BY DEF Lined
<1>2. {q[i] : i \in DOMAIN q} = S
  BY <1>1 DEF Lined
<1>3. q \in Bijection(1..Len(q), S)
  <2>1. q \in [1..Len(q) -> S]
    BY <1>1, <1>2
  <2>2. \A a, b \in 1..Len(q) : q[a] = q[b] => a = b
    BY DEF Lined
  <2>3. \A t \in S : \E s \in 1..Len(q) : q[s] = t
    BY DEF Lined
  <2> QED
    BY <2>1, <2>2, <2>3 DEF Bijection, Injection, Surjection, IsInjective
<1>4. Cardinality(S) = Len(q)
  BY <1>1, <1>3, FS_CountingElements DEF ExistsBijection
<1> QED
  BY <1>2, <1>4

(* The goroutine has the packet it works on, and the counters are bounded. *)
Typed ==
    /\ Lined(queue, fate)
    /\ packet \in All /\ running \in BOOLEAN
    /\ loop \in Working => fate[packet] = "held"
    /\ known \in BOOLEAN /\ forgets \in 0..MaxForgets
    /\ proxy \in {"on", "off"} /\ conns \in 0..MaxConns

LEMMA FateTyped == IInv => fate \in [All -> Fates]
BY DEF IInv, Places, Fates

LEMMA InjectTyped ==
    ASSUME IInv, Typed, loop \in Working, NEW how \in {"passed", "answered"}, Inject(how),
           UNCHANGED <<running, queue, known, forgets, proxy, conns>>
    PROVE  Typed'
<1>1. fate \in [All -> Fates] /\ fate[packet] # "queued" /\ packet \in All
  BY FateTyped DEF Typed
<1>2. PICK h \in Fates \ {"queued"} : fate' = [fate EXCEPT ![packet] = h]
  BY DEF Inject, Fates
<1>3. Lined(queue, fate')
  BY <1>1, <1>2, LinedRest DEF Typed
<1>4. loop' \notin Working /\ packet' \in All
  BY DEF Inject, Working, All
<1> QED
  BY <1>3, <1>4 DEF Typed

LEMMA SentTyped ==
    ASSUME IInv, Typed, NEW p \in All, fate[p] = "none", Sent(p),
           UNCHANGED <<loop, packet>>
    PROVE  Lined(queue', fate') /\ (loop' \in Working => fate'[packet'] = "held")
<1>1. fate \in [All -> Fates] /\ fate[p] # "queued" /\ Lined(queue, fate)
  BY FateTyped DEF Typed
<1>2. Lined(queue', fate')
  <2>1. CASE handle = "open"
    <3>1. queue' = Append(queue, p) /\ fate' = [fate EXCEPT ![p] = "queued"]
      BY <2>1 DEF Sent
    <3> QED
      BY <1>1, <3>1, LinedAppend
  <2>2. CASE handle # "open"
    <3>1. queue' = queue /\ fate' = [fate EXCEPT ![p] = "passed"] /\ "passed" \in Fates \ {"queued"}
      BY <2>2 DEF Sent, Fates
    <3> QED
      BY <1>1, <3>1, LinedRest
  <2> QED
    BY <2>1, <2>2
<1>3. loop \in Working => p # packet
  BY DEF Typed
<1> QED
  BY <1>1, <1>2, <1>3 DEF Sent, Typed

LEMMA InitTyped == Init => Typed
<1> SUFFICES ASSUME Init
             PROVE  Typed
  OBVIOUS
<1>1. Lined(queue, fate)
  BY DEF Init, Lined
<1>2. packet \in All /\ forgets \in 0..MaxForgets /\ conns \in 0..MaxConns /\ loop \notin Working
  BY DivertAssumption DEF Init, All, Working, DivertAssumption
<1> QED
  BY <1>1, <1>2 DEF Init, Typed

LEMMA NextTyped == IInv /\ Typed /\ [Next]_vars => Typed'
<1> SUFFICES ASSUME IInv, Typed, [Next]_vars
             PROVE  Typed'
  OBVIOUS
<1>0. fate \in [All -> Fates]
  BY FateTyped
<1>1. ASSUME NEW p \in Packets, Query(p)
      PROVE  Typed'
  BY <1>1, SentTyped DEF Query, Typed, All
<1>2. CASE Reply
  <2>1. fate[Lookup] # "queued" /\ Lookup \in All /\ (loop \in Working => packet # Lookup)
    BY <1>2 DEF Reply, Typed, All
  <2>2. Lined(queue', fate')
    BY <1>0, <1>2, <2>1, LinedRest DEF Reply, Typed, Fates
  <2> QED
    BY <1>0, <1>2, <2>1, <2>2 DEF Reply, Typed
<1>3. CASE Expire
  <2>1. fate[Head(queue)] = "queued" /\ Lined(queue', fate') /\ Head(queue) \in All
    BY <1>0, <1>3, LinedTail DEF Expire, Typed, Fates
  <2> QED
    BY <1>0, <1>3, <2>1 DEF Expire, Typed
<1>4. CASE Forget
  <2>1. forgets' \in 0..MaxForgets
    BY <1>4, DivertAssumption DEF Forget, Typed, DivertAssumption
  <2> QED
    BY <1>4, <2>1 DEF Forget, Typed
<1>5. CASE Connect
  BY <1>5, DivertAssumption DEF Connect, Typed, DivertAssumption
<1>6. CASE Disconnect
  BY <1>6, DivertAssumption DEF Disconnect, Typed, DivertAssumption
<1>7. CASE LookUp
  BY <1>7, SentTyped DEF LookUp, Typed, All
<1>8. CASE CheckRunning
  BY <1>8 DEF CheckRunning, Typed, Working
<1>9. CASE Recv
  <2>1. fate[Head(queue)] = "queued" /\ Lined(queue', fate') /\ Head(queue) \in All
    BY <1>0, <1>9, LinedTail DEF Recv, Typed, Fates
  <2> QED
    BY <1>0, <1>9, <2>1 DEF Recv, Typed
<1>10. CASE RecvFails
  BY <1>10 DEF RecvFails, Typed, Working
<1>11. CASE Resolved
  BY <1>11 DEF Resolved, Typed, Working
<1>12. CASE ProcessPacket
  <2>1. CASE packet = Lookup \/ Kind[packet] = "other"
    BY <1>12, <2>1, InjectTyped DEF ProcessPacket, Working
  <2>2. CASE ~(packet = Lookup \/ Kind[packet] = "other")
    BY <1>12, <2>2 DEF ProcessPacket, Typed, Working
  <2> QED
    BY <2>1, <2>2
<1>13. CASE ResolveFails
  BY <1>13, InjectTyped DEF ResolveFails, Working
<1>14. CASE AnswerDNN
  BY <1>14, InjectTyped DEF AnswerDNN, Working
<1>15. CASE New
  BY <1>15 DEF New, Typed
<1>16. CASE Start
  BY <1>16 DEF Start, Typed, Working
<1>17. CASE StartProxy
  BY <1>17 DEF StartProxy, Typed
<1>18. CASE StopControl \/ StopDiscovery \/ StopCapture \/ WaitLoop \/ StopProxy \/ Return
  BY <1>18 DEF StopControl, StopDiscovery, StopCapture, WaitLoop, StopProxy, Return, Typed
<1>19. CASE CloseHandle
  <2>1. Lined(queue', fate')
    BY <1>0, <1>19 DEF CloseHandle, Lined
  <2> QED
    BY <1>0, <1>19, <2>1 DEF CloseHandle, Typed
<1>20. CASE UNCHANGED vars
  BY <1>20 DEF vars, Typed
<1> QED
  BY <1>1, <1>2, <1>3, <1>4, <1>5, <1>6, <1>7, <1>8, <1>9, <1>10, <1>11, <1>12,
     <1>13, <1>14, <1>15, <1>16, <1>17, <1>18, <1>19, <1>20 DEF Next, Loop, Execute

LEMMA TypedTypeOK == IInv /\ Typed => TypeOK
<1> SUFFICES ASSUME IInv, Typed
             PROVE  TypeOK
  OBVIOUS
<1>1. fate \in [All -> Fates]
  BY FateTyped
<1>2. /\ {queue[i] : i \in DOMAIN queue} = {p \in All : fate[p] = "queued"}
      /\ Len(queue) = Cardinality({p \in All : fate[p] = "queued"})
  BY <1>1, LinedCount DEF Typed
<1>3. {p \in All : fate[p] = "held"}
        = IF loop \in {"process", "resolve", "verify"} THEN {packet} ELSE {}
  BY <1>1 DEF IInv, Places, Typed, Working
<1>4. /\ exec \in {"new", "start", "proxy", "running", "discovery", "unmark", "close", "wait",
                   "stopProxy", "drain", "end"}
      /\ handle \in {"none", "open", "closed"}
      /\ loop \in {"off", "check", "recv", "process", "resolve", "verify", "done"}
  BY DEF IInv, Order, Before, Up, Closed, Working
<1> QED
  BY <1>1, <1>2, <1>3, <1>4 DEF TypeOK, Typed, Fates

-----------------------------------------------------------------------------
(* The stack on a TUN device.  Only Stop closes the device, after Start    *)
(* has begun the goroutine; a device that is closed owns nothing, but for  *)
(* the file that a read has not come back from.                            *)
InFile   == {"call", "blocked"}
InWintun == {"wait", "wake", "receive"}
OnWay    == {"process", "resolve", "forward", "write"}

TunOrder ==
    /\ device \in {"wintun", "file"} /\ closed \in BOOLEAN
    /\ stop \in {"create", "failed", "new", "run", "close", "wait", "stopped"}
    /\ reader \in {"off", "check", "read", "done"} \cup InFile \cup InWintun \cup OnWay
    /\ closed <=> stop \in {"wait", "stopped"}
    /\ reader = "off" <=> stop \in {"create", "failed", "new"}
    /\ reader \in InFile => device = "file"
    /\ reader \in InWintun => device = "wintun"
    /\ reader = "receive" => ~closed
    /\ stop = "stopped" => reader = "done"
    /\ stop = "failed" \/ (closed /\ reader # "blocked") => owned = <<>>

(* What waits in the device are packets, as many as it holds.              *)
TunRing ==
    /\ ring \in Seq(Tun!Kinds) /\ Len(ring) <= MaxRing
    /\ work \in Tun!Kinds

LEMMA InitTunRing == Tun!Init => TunRing
BY RingAssumption DEF Tun!Init, TunRing, Tun!Kinds, RingAssumption

LEMMA NextTunRing == TunRing /\ [Tun!Next]_tunVars => TunRing'
<1> SUFFICES ASSUME TunRing, [Tun!Next]_tunVars
             PROVE  TunRing'
  OBVIOUS
<1>1. ASSUME NEW k \in Tun!Kinds, Tun!Arrive(k)
      PROVE  TunRing'
  <2>1. /\ ring \in Seq(Tun!Kinds) /\ Len(ring) < MaxRing
        /\ ring' = Append(ring, k) /\ work' = work
    BY <1>1 DEF Tun!Arrive, TunRing
  <2>2. ring' \in Seq(Tun!Kinds) /\ Len(ring') <= MaxRing
    BY <2>1, RingAssumption DEF RingAssumption
  <2> QED
    BY <2>1, <2>2 DEF TunRing
<1>2. CASE ring # <<>> /\ ring' = Tail(ring) /\ work' = Head(ring)
  <2>1. ring \in Seq(Tun!Kinds) /\ Len(ring) <= MaxRing
    BY DEF TunRing
  <2>2. ring' \in Seq(Tun!Kinds) /\ Len(ring') <= MaxRing /\ work' \in Tun!Kinds
    BY <1>2, <2>1, RingAssumption DEF RingAssumption
  <2> QED
    BY <2>2 DEF TunRing
<1>3. CASE UNCHANGED <<ring, work>>
  BY <1>3 DEF TunRing
<1>4. \/ \E k \in Tun!Kinds : Tun!Arrive(k)
      \/ ring # <<>> /\ ring' = Tail(ring) /\ work' = Head(ring)
      \/ UNCHANGED <<ring, work>>
  BY DEF Tun!Next, Tun!ReadLoop, Tun!Stopping, tunVars,
         Tun!CheckRunning, Tun!Read, Tun!ReadFile, Tun!ReadReturns, Tun!ReadFails, Tun!Wake,
         Tun!Lock, Tun!Receive, Tun!ProcessPacket, Tun!HandleDNNQuery, Tun!ForwardDNS,
         Tun!SendDNSResponse, Tun!Create, Tun!Start, Tun!Stop, Tun!Close, Tun!Wait
<1> QED
  BY <1>1, <1>2, <1>3, <1>4

LEMMA InitTunOrder == Tun!Init => TunOrder
BY DEF Tun!Init, TunOrder, InFile, InWintun, OnWay

LEMMA NextTunOrder == TunRing /\ TunOrder /\ [Tun!Next]_tunVars => TunOrder'
<1> SUFFICES ASSUME TunRing, TunOrder, [Tun!Next]_tunVars
             PROVE  TunOrder'
  OBVIOUS
<1> USE DEF TunOrder, InFile, InWintun, OnWay
<1>1. ASSUME NEW k \in Tun!Kinds, Tun!Arrive(k)
      PROVE  TunOrder'
  BY <1>1 DEF Tun!Arrive
<1>2. CASE Tun!CheckRunning
  BY <1>2 DEF Tun!CheckRunning, Tun!Goes
<1>3. CASE Tun!Read
  BY <1>3 DEF Tun!Read, Tun!Goes
<1>4. CASE Tun!ReadFile
  BY <1>4 DEF Tun!ReadFile, Tun!Goes
<1>5. CASE Tun!ReadReturns
  BY <1>5 DEF Tun!ReadReturns, Tun!Goes, Tun!Returned, Tun!Release
<1>6. CASE Tun!ReadFails
  BY <1>6 DEF Tun!ReadFails, Tun!Goes, Tun!Returned, Tun!Release
<1>7. CASE Tun!Wake
  BY <1>7 DEF Tun!Wake, Tun!Goes
<1>8. CASE Tun!Lock
  BY <1>8 DEF Tun!Lock, Tun!Goes
<1>9. CASE Tun!Receive
  BY <1>9 DEF Tun!Receive, Tun!Goes
<1>10. CASE Tun!ProcessPacket
  BY <1>10 DEF Tun!ProcessPacket, Tun!Goes, TunRing, Tun!Kinds
<1>11. CASE Tun!HandleDNNQuery \/ Tun!ForwardDNS \/ Tun!SendDNSResponse
  BY <1>11 DEF Tun!HandleDNNQuery, Tun!ForwardDNS, Tun!SendDNSResponse, Tun!Goes
<1>12. CASE Tun!Create
  BY <1>12 DEF Tun!Create, Tun!Release
<1>13. CASE Tun!Start
  BY <1>13 DEF Tun!Start
<1>14. CASE Tun!Stop
  BY <1>14 DEF Tun!Stop
<1>15. CASE Tun!Close
  BY <1>15 DEF Tun!Close, Tun!Release
<1>16. CASE Tun!Wait
  BY <1>16 DEF Tun!Wait
<1>17. CASE UNCHANGED tunVars
  BY <1>17 DEF tunVars
<1> QED
  BY <1>1, <1>2, <1>3, <1>4, <1>5, <1>6, <1>7, <1>8, <1>9, <1>10, <1>11, <1>12,
     <1>13, <1>14, <1>15, <1>16, <1>17 DEF Tun!Next, Tun!ReadLoop, Tun!Stopping

LEMMA TunInvariant == PacketsSpec => [](TunRing /\ TunOrder)
<1>1. PacketsInit => Tun!Init
  BY DEF PacketsInit
<1> QED
  BY <1>1, InitTunRing, NextTunRing, InitTunOrder, NextTunOrder, PacketsStep, PTL
     DEF PacketsSpec

(* The driver of a TUN device is not called after its session has ended,   *)
(* and once Stop has returned, or New has failed, nobody is in the device  *)
(* and nothing of it is left with the system (stack.go, tun_*.go).         *)
THEOREM TunClosedIsQuietHolds == PacketsSpec => []TunClosedIsQuiet
<1>1. TunOrder => TunClosedIsQuiet
  BY DEF TunOrder, TunClosedIsQuiet, Tun!ClosedIsQuiet
<1> QED
  BY <1>1, TunInvariant, PTL

-----------------------------------------------------------------------------
(* What New has taken is a beginning of what it takes.                     *)
Begun ==
    /\ \E n \in 0..Len(Tun!Takes) : owned = SubSeq(Tun!Takes, 1, n)
    /\ stop = "create" => owned # Tun!Takes
    /\ event \in BOOLEAN /\ tunRunning \in BOOLEAN

Taken == {"adapter", "session", "event", "file", "interface"}

LEMMA TakesFacts == Len(Tun!Takes) \in Nat /\ Tun!Takes \in Seq(Taken) /\ Tun!Takes # <<>>
<1>1. CASE device = "wintun"
  <2>1. Tun!Takes = <<"adapter", "session", "event">>
    BY <1>1 DEF Tun!Takes
  <2> QED
    BY <2>1 DEF Taken
<1>2. CASE device # "wintun"
  <2>1. Tun!Takes = <<"file", "interface">>
    BY <1>2 DEF Tun!Takes
  <2> QED
    BY <2>1 DEF Taken
<1> QED
  BY <1>1, <1>2

(* One more of them is a longer beginning.                                 *)
LEMMA TakesOne ==
    ASSUME NEW n \in 0..Len(Tun!Takes), SubSeq(Tun!Takes, 1, n) # Tun!Takes
    PROVE  /\ n + 1 \in 0..Len(Tun!Takes)
           /\ Append(SubSeq(Tun!Takes, 1, n), Tun!Takes[Len(SubSeq(Tun!Takes, 1, n)) + 1])
                = SubSeq(Tun!Takes, 1, n + 1)
<1> DEFINE T == Tun!Takes
           U == SubSeq(T, 1, n)
<1> HIDE DEF T
<1>0. T \in Seq(Taken) /\ Len(T) \in Nat
  BY TakesFacts DEF T
<1>1. SubSeq(T, 1, Len(T)) = T
  BY <1>0, SubSeqFull
<1>2. n + 1 \in 1..Len(T) /\ n \in Nat
  <2>1. n # Len(T) /\ n \in 0..Len(T)
    BY <1>1 DEF T
  <2> QED
    BY <1>0, <2>1
<1>3. U \in Seq(Taken) /\ Len(U) = n
  BY <1>0, <1>2
<1>4. SubSeq(T, 1, n + 1) = SubSeq(T, 1, n + 1 - 1) \o <<T[n + 1]>>
  <2>1. 1 \in 1..Len(T) /\ n + 1 \in 1..Len(T)
    BY <1>0, <1>2
  <2>2. \A m \in 1..Len(T) : \A k \in m..Len(T) :
          SubSeq(T, m, k) = SubSeq(T, m, k - 1) \o <<T[k]>>
    BY <1>0, SubSeqRecursiveSecond
  <2> QED
    BY <2>1, <2>2
<1>5. n + 1 - 1 = n /\ T[n + 1] \in Taken
  BY <1>0, <1>2
<1> HIDE DEF U
<1>6. SubSeq(T, 1, n + 1) = Append(U, T[n + 1])
  <2>1. SubSeq(T, 1, n + 1) = U \o <<T[n + 1]>>
    BY <1>4, <1>5 DEF U
  <2> QED
    BY <1>3, <1>5, <2>1
<1> QED
  BY <1>2, <1>3, <1>6 DEF T, U

LEMMA InitBegun == Tun!Init => Begun
<1> SUFFICES ASSUME Tun!Init
             PROVE  Begun
  OBVIOUS
<1>1. owned = <<>> /\ event = FALSE /\ tunRunning = FALSE
  BY DEF Tun!Init
<1>2. SubSeq(Tun!Takes, 1, 0) = <<>> /\ 0 \in 0..Len(Tun!Takes)
  BY TakesFacts, SubSeqEmpty
<1> QED
  BY <1>1, <1>2, TakesFacts DEF Begun

LEMMA NextBegun == TunOrder /\ Begun /\ [Tun!Next]_tunVars => Begun'
<1> SUFFICES ASSUME TunOrder, Begun, [Tun!Next]_tunVars
             PROVE  Begun'
  OBVIOUS
<1>0. (Tun!Takes)' = Tun!Takes
  BY DEF Tun!Takes, Tun!Next, Tun!ReadLoop, Tun!Stopping, tunVars, Tun!Arrive,
         Tun!CheckRunning, Tun!Read, Tun!ReadFile, Tun!ReadReturns, Tun!ReadFails, Tun!Wake,
         Tun!Lock, Tun!Receive, Tun!ProcessPacket, Tun!HandleDNNQuery, Tun!ForwardDNS,
         Tun!SendDNSResponse, Tun!Create, Tun!Start, Tun!Stop, Tun!Close, Tun!Wait
<1>1. event' \in BOOLEAN /\ tunRunning' \in BOOLEAN
  BY DEF Begun, Tun!Next, Tun!ReadLoop, Tun!Stopping, tunVars, Tun!Arrive,
         Tun!CheckRunning, Tun!Read, Tun!ReadFile, Tun!ReadReturns, Tun!ReadFails, Tun!Wake,
         Tun!Lock, Tun!Receive, Tun!ProcessPacket, Tun!HandleDNNQuery, Tun!ForwardDNS,
         Tun!SendDNSResponse, Tun!Create, Tun!Start, Tun!Stop, Tun!Close, Tun!Wait
<1>2. CASE owned' = <<>>
  <2>1. SubSeq(Tun!Takes, 1, 0) = <<>> /\ 0 \in 0..Len(Tun!Takes) /\ Tun!Takes # <<>>
    BY TakesFacts, SubSeqEmpty
  <2> QED
    BY <1>0, <1>1, <1>2, <2>1 DEF Begun
<1>3. CASE /\ stop = "create"
           /\ owned' = Append(owned, Tun!Takes[Len(owned) + 1])
           /\ stop' = IF owned' = Tun!Takes THEN "new" ELSE "create"
  <2>1. PICK n \in 0..Len(Tun!Takes) : owned = SubSeq(Tun!Takes, 1, n)
    BY DEF Begun
  <2>2. n + 1 \in 0..Len(Tun!Takes) /\ owned' = SubSeq(Tun!Takes, 1, n + 1)
    BY <1>3, <2>1, TakesOne DEF Begun
  <2> QED
    BY <1>0, <1>1, <1>3, <2>2 DEF Begun
<1>4. CASE owned' = owned /\ (stop' = "create" => stop = "create")
  BY <1>0, <1>1, <1>4 DEF Begun
<1>5. \/ owned' = <<>>
      \/ /\ stop = "create"
         /\ owned' = Append(owned, Tun!Takes[Len(owned) + 1])
         /\ stop' = IF owned' = Tun!Takes THEN "new" ELSE "create"
      \/ owned' = owned /\ (stop' = "create" => stop = "create")
  BY DEF Tun!Next, Tun!ReadLoop, Tun!Stopping, tunVars, Tun!Arrive, Tun!Returned, Tun!Release,
         Tun!CheckRunning, Tun!Read, Tun!ReadFile, Tun!ReadReturns, Tun!ReadFails, Tun!Wake,
         Tun!Lock, Tun!Receive, Tun!ProcessPacket, Tun!HandleDNNQuery, Tun!ForwardDNS,
         Tun!SendDNSResponse, Tun!Create, Tun!Start, Tun!Stop, Tun!Close, Tun!Wait
<1> QED
  BY <1>2, <1>3, <1>4, <1>5

(* Every variable of both has its type; the queue of the driver holds each *)
(* diverted packet once, and the goroutine at most one more.               *)
THEOREM TypeCorrect == PacketsSpec => []PacketsTypeOK
<1> DEFINE Ways == way \in {"divert", "tun"}
<1>1. PacketsInit => Init /\ Tun!Init /\ Ways
  BY DEF PacketsInit
<1>2. Ways /\ [PacketsNext]_<<way, vars, tunVars>> => Ways'
  BY DEF PacketsNext, Diverted, Tunnelled
<1>3. TunRing /\ TunOrder /\ Begun => Tun!TypeOK
  BY DEF TunRing, TunOrder, Begun, Tun!TypeOK, InFile, InWintun, OnWay
<1>4. IInv /\ Typed /\ Ways /\ TunRing /\ TunOrder /\ Begun => PacketsTypeOK
  BY <1>3, TypedTypeOK DEF PacketsTypeOK
<1>5. PacketsSpec => [](IInv /\ Typed)
  BY <1>1, InitIInv, NextIInv, InitTyped, NextTyped, PacketsStep, PTL DEF PacketsSpec
<1>6. PacketsSpec => []Begun
  BY <1>1, InitBegun, NextBegun, TunInvariant, PacketsStep, PTL DEF PacketsSpec
<1>7. PacketsSpec => []Ways
  BY <1>1, <1>2, PTL DEF PacketsSpec
<1> HIDE DEF Ways
<1> QED
  BY <1>4, <1>5, <1>6, <1>7, TunInvariant, PTL

-----------------------------------------------------------------------------
(* What becomes of a packet, as the other programs see it.  A name that is *)
(* being resolved is one of their queries.                                 *)
Names == loop \in {"resolve", "verify"} => packet \in Packets /\ Kind[packet] # "other"

LEMMA NextNames == Typed /\ Names /\ [Next]_vars => Names'
<1> SUFFICES ASSUME Typed, Names, [Next]_vars PROVE Names'
  OBVIOUS
<1>1. CASE ProcessPacket
  BY <1>1 DEF ProcessPacket, Names, Inject, Typed, All
<1>2. CASE CheckRunning \/ Recv \/ RecvFails \/ Resolved \/ ResolveFails \/ AnswerDNN
  BY <1>2 DEF CheckRunning, Recv, RecvFails, Resolved, ResolveFails, AnswerDNN, Inject, Names
<1>3. CASE Execute \/ StopControl
  BY <1>3 DEF Execute, New, Start, StartProxy, StopDiscovery, StopCapture, CloseHandle, WaitLoop,
              StopProxy, Return, StopControl, Names
<1>4. CASE (\E p \in Packets : Query(p)) \/ Reply \/ Expire \/ Forget \/ Connect \/ Disconnect
             \/ LookUp \/ UNCHANGED vars
  BY <1>4 DEF Query, Reply, Expire, Forget, Connect, Disconnect, LookUp, vars, Names
<1> QED
  BY <1>1, <1>2, <1>3, <1>4 DEF Next, Loop

Seen(what) == IF what \in {"queued", "held"} THEN "inside" ELSE what

LEMMA Becoming ==
    ASSUME fate \in [All -> Fates], NEW p \in All, NEW what \in Fates,
           fate' = [fate EXCEPT ![p] = what], Status' = Status
    PROVE  Tap!Becomes(p, Seen(what))
<1>1. [o \in All |-> IF fate[o] \in {"queued", "held"} THEN "inside" ELSE fate[o]]'
        = [[o \in All |-> IF fate[o] \in {"queued", "held"} THEN "inside" ELSE fate[o]]
              EXCEPT ![p] = Seen(what)]
  BY DEF Seen
<1> QED
  BY <1>1 DEF Tap!Becomes

(* A step in which no packet comes, goes or is dealt with.                 *)
LEMMA NothingSeen ==
    ASSUME fate \in [All -> Fates], Status' = Status,
           \/ fate' = fate
           \/ \E p \in All : fate[p] = "queued" /\ fate' = [fate EXCEPT ![p] = "held"]
    PROVE  UNCHANGED Tap!vars
<1>1. \A p \in All : Seen(fate'[p]) = Seen(fate[p])
  BY DEF Seen
<1>2. [o \in All |-> IF fate[o] \in {"queued", "held"} THEN "inside" ELSE fate[o]]'
        = [o \in All |-> IF fate[o] \in {"queued", "held"} THEN "inside" ELSE fate[o]]
  BY <1>1 DEF Seen
<1> QED
  BY <1>2 DEF Tap!vars

LEMMA SendSeen ==
    ASSUME IInv, NEW p \in All, fate[p] = "none", Sent(p), UNCHANGED exec
    PROVE  Tap!Send(p)
<1>0. fate \in [All -> Fates] /\ Status' = Status /\ "queued" \in Fates /\ "passed" \in Fates
  BY FateTyped DEF Status, Fates
<1>1. CASE handle = "open"
  <2>1. Tap!Becomes(p, Seen("queued"))
    BY <1>0, <1>1, Becoming DEF Sent
  <2>2. Status # "Stopped"
    BY <1>1 DEF IInv, Order, Status
  <2> QED
    BY <2>1, <2>2 DEF Tap!Send, Seen
<1>2. CASE handle # "open"
  <2>1. Tap!Becomes(p, Seen("passed"))
    BY <1>0, <1>2, Becoming DEF Sent
  <2> QED
    BY <2>1 DEF Tap!Send, Seen
<1> QED
  BY <1>1, <1>2

LEMMA Losing ==
    ASSUME fate \in [All -> Fates], Status = "StopPending", Status' = Status,
           NEW S \in SUBSET All, \A p \in S : fate[p] \in {"queued", "held"},
           fate' = [p \in All |-> IF p \in S THEN "lost" ELSE fate[p]]
    PROVE  Tap!Lose(S)
<1>1. \A p \in S : Tap!Inside(p)
  BY DEF Tap!Inside
<1>2. [o \in All |-> IF fate[o] \in {"queued", "held"} THEN "inside" ELSE fate[o]]'
        = [p \in Tap!All |-> IF p \in S THEN "lost"
             ELSE [o \in All |-> IF fate[o] \in {"queued", "held"} THEN "inside" ELSE fate[o]][p]]
  BY DEF Tap!All, All
<1> QED
  BY <1>1, <1>2 DEF Tap!Lose

LEMMA InjectSeen ==
    ASSUME IInv, Typed, loop \in Working, NEW how \in {"passed", "answered"}, Inject(how),
           how = "answered" => packet \in Packets /\ Kind[packet] = "address", UNCHANGED exec
    PROVE  Tap!Next
<1>0. /\ fate \in [All -> Fates] /\ Status' = Status /\ packet \in All /\ fate[packet] = "held"
      /\ {"passed", "answered", "lost"} \subseteq Fates
  BY FateTyped DEF Status, Fates, Typed
<1>1. PICK p \in All : p = packet
  BY <1>0
<1>2. Tap!Inside(p)
  BY <1>0, <1>1 DEF Tap!Inside
<1>3. CASE handle = "open"
  <2>1. Tap!Becomes(p, Seen(how)) /\ Seen(how) = how
    BY <1>0, <1>1, <1>3, Becoming DEF Inject, Seen
  <2>2. Tap!HandBack(p) \/ Tap!Answer(p)
    BY <1>1, <1>2, <2>1 DEF Tap!HandBack, Tap!Answer
  <2> QED
    BY <2>2, Zenon DEF Tap!Next, Tap!All, All
<1>4. CASE handle # "open"
  <2>1. Status = "StopPending"
    BY <1>4 DEF IInv, Order, Status, Before, Up, Closed, Working
  <2>2. fate' = [fate EXCEPT ![p] = "lost"]
    BY <1>1, <1>4 DEF Inject
  <2>3. PICK S \in SUBSET All : S = {p}
    OBVIOUS
  <2>4. fate' = [o \in All |-> IF o \in S THEN "lost" ELSE fate[o]]
    BY <1>0, <2>2, <2>3
  <2>5. Tap!Lose(S)
    BY <1>0, <1>1, <2>1, <2>3, <2>4, Losing
  <2> QED
    BY <2>5, Zenon DEF Tap!Next, Tap!All, All
<1> QED
  BY <1>3, <1>4

LEMMA ReportSeen ==
    ASSUME IInv, UNCHANGED fate, NEW s \in {"Running", "StopPending", "Stopped"}, Status' = s,
           <<Status, s>> \in {<<"StartPending", "Running">>, <<"StartPending", "Stopped">>,
                              <<"Running", "StopPending">>, <<"StopPending", "Stopped">>},
           s = "Stopped" => \A p \in All : fate[p] \notin {"queued", "held"}
    PROVE  Tap!Next
<1>1. ASSUME s = "Stopped", NEW p \in Tap!All PROVE ~Tap!Inside(p)
  <2>1. p \in All /\ fate[p] # "inside"
    BY FateTyped DEF Tap!All, All, Fates
  <2> QED
    BY <1>1, <2>1 DEF Tap!Inside
<1>2. [p \in All |-> IF fate[p] \in {"queued", "held"} THEN "inside" ELSE fate[p]]'
        = [p \in All |-> IF fate[p] \in {"queued", "held"} THEN "inside" ELSE fate[p]]
  OBVIOUS
<1>3. Tap!Report(s)
  BY <1>1, <1>2 DEF Tap!Report
<1> QED
  BY <1>3, Zenon DEF Tap!Next

LEMMA TapInit == Init => Tap!Init
<1> SUFFICES ASSUME Init PROVE Tap!Init
  OBVIOUS
<1>1. Status = "StartPending" /\ \A p \in All : fate[p] = "none"
  BY DEF Init, Status
<1> QED
  BY <1>1 DEF Tap!Init, Tap!All, All

LEMMA TapStep == IInv /\ Typed /\ Names /\ [Next]_vars => [Tap!Next]_(Tap!vars)
<1> SUFFICES ASSUME IInv, Typed, Names, [Next]_vars
             PROVE  Tap!Next \/ UNCHANGED Tap!vars
  OBVIOUS
<1>0. fate \in [All -> Fates] /\ Lookup \in All /\ Packets \subseteq All
  BY FateTyped DEF All
<1>1. ASSUME NEW p \in Packets, Query(p) PROVE Tap!Next
  <2>1. Tap!Send(p)
    BY <1>0, <1>1, SendSeen DEF Query
  <2> QED
    BY <2>1, Zenon DEF Tap!Next, Tap!All
<1>2. CASE LookUp
  <2>1. Tap!Send(Lookup)
    BY <1>0, <1>2, SendSeen DEF LookUp
  <2> QED
    BY <2>1, Zenon DEF Tap!Next, Tap!All
<1>3. CASE Reply
  <2>1. Tap!Becomes(Lookup, Seen("none")) /\ Seen("none") = "none"
    BY <1>0, <1>3, Becoming DEF Reply, Fates, Status, Seen
  <2>2. Tap!LookUpAgain
    BY <1>0, <1>3, <2>1 DEF Reply, Tap!LookUpAgain
  <2> QED
    BY <2>2 DEF Tap!Next
<1>4. CASE Expire
  <2>1. PICK p \in All : p = Head(queue) /\ fate[p] = "queued"
    BY <1>4 DEF Expire, Typed, Lined
  <2>2. Tap!Becomes(p, Seen("expired")) /\ Seen("expired") = "expired"
    BY <1>0, <1>4, <2>1, Becoming DEF Expire, Fates, Status, Seen
  <2>3. /\ packet \in Packets \ {p} /\ Kind[packet] # "other"
        /\ Tap!Inside(p) /\ Tap!Inside(packet)
    BY <1>0, <1>4, <2>1 DEF Expire, Names, Typed, Working, Tap!Inside
  <2>4. Tap!Expire(p)
    BY <2>2, <2>3, Zenon DEF Tap!Expire
  <2> QED
    BY <2>4, Zenon DEF Tap!Next, Tap!All, All
<1>5. CASE Recv
  <2>1. Head(queue) \in All /\ fate[Head(queue)] = "queued"
    BY <1>5 DEF Recv, Typed, Lined
  <2> QED
    BY <1>0, <1>5, <2>1, NothingSeen DEF Recv, Status
<1>6. CASE ProcessPacket
  <2>1. CASE Inject("passed")
    BY <1>6, <2>1, InjectSeen DEF ProcessPacket, Working
  <2>2. CASE UNCHANGED fate
    BY <1>0, <1>6, <2>2, NothingSeen DEF ProcessPacket, Status
  <2> QED
    BY <1>6, <2>1, <2>2 DEF ProcessPacket
<1>7. CASE ResolveFails
  BY <1>7, InjectSeen DEF ResolveFails, Working
<1>8. CASE AnswerDNN
  <2> DEFINE how == IF Kind[packet] = "address" THEN "answered" ELSE "passed"
  <2>1. how \in {"passed", "answered"} /\ Inject(how) /\ loop \in Working /\ UNCHANGED exec
    BY <1>8 DEF AnswerDNN, Working
  <2>2. how = "answered" => packet \in Packets /\ Kind[packet] = "address"
    BY <1>8 DEF AnswerDNN, Names
  <2> HIDE DEF how
  <2> QED
    BY <2>1, <2>2, InjectSeen
<1>9. CASE Forget \/ Connect \/ Disconnect \/ CheckRunning \/ RecvFails \/ Resolved \/ UNCHANGED vars
  BY <1>0, <1>9, NothingSeen
     DEF Forget, Connect, Disconnect, CheckRunning, RecvFails, Resolved, vars, Status
<1>10. CASE New
  <2>1. CASE exec' = "start"
    BY <1>0, <1>10, <2>1, NothingSeen DEF New, Status
  <2>2. CASE exec' = "end"
    <3>1. \A p \in All : fate[p] \notin {"queued", "held"}
      BY <1>10 DEF New, IInv, Order, Places, Before, Working
    <3> QED
      BY <1>10, <2>2, <3>1, ReportSeen DEF New, Status
  <2> QED
    BY <1>10, <2>1, <2>2 DEF New
<1>11. CASE Start \/ StopDiscovery \/ StopCapture \/ WaitLoop \/ StopProxy
  BY <1>0, <1>11, NothingSeen DEF Start, StopDiscovery, StopCapture, WaitLoop, StopProxy, Status
<1>12. CASE StartProxy
  BY <1>12, ReportSeen DEF StartProxy, Status
<1>13. CASE StopControl
  BY <1>13, ReportSeen DEF StopControl, Status
<1>14. CASE CloseHandle
  <2>1. PICK S \in SUBSET All : S = {p \in All : fate[p] = "queued"}
    OBVIOUS
  <2>2. fate' = [p \in All |-> IF p \in S THEN "lost" ELSE fate[p]]
    BY <1>14, <2>1 DEF CloseHandle
  <2>3. Tap!Lose(S)
    BY <1>0, <1>14, <2>1, <2>2, Losing DEF CloseHandle, Status
  <2> QED
    BY <2>3, Zenon DEF Tap!Next, Tap!All, All
<1>15. CASE Return
  <2>1. \A p \in All : fate[p] \notin {"queued", "held"}
    BY <1>15 DEF Return, IInv, Order, Places, Closed, Working
  <2> QED
    BY <1>15, <2>1, ReportSeen DEF Return, Status
<1> QED
  BY <1>1, <1>2, <1>3, <1>4, <1>5, <1>6, <1>7, <1>8, <1>9, <1>10, <1>11, <1>12, <1>13, <1>14, <1>15
     DEF Next, Loop, Execute

(* ImplementsTap: what happens to the DNS packets of a machine while       *)
(* Execute starts, runs and stops the capture is what DnsTap allows, for   *)
(* any packets, and however the daemon's own lookups meet them.            *)
THEOREM TapRefinement == PacketsSpec => ImplementsTap
<1>1. PacketsInit => Init /\ Names
  BY DEF PacketsInit, Init, Names
<1>2. PacketsSpec => [](IInv /\ Typed /\ Names)
  BY <1>1, InitIInv, NextIInv, InitTyped, NextTyped, NextNames, PacketsStep, PTL DEF PacketsSpec
<1> QED
  BY <1>1, <1>2, TapInit, TapStep, PacketsStep, PTL DEF PacketsSpec, ImplementsTap, Tap!Spec
=============================================================================
